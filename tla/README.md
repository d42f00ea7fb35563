# optedge-live in TLA+

TLA+ specifications of `optedge-live`, a Go program that paper-trades index options
live: it keeps a market-data websocket up, aggregates ticks into one-minute bars, keeps
a window of option contracts subscribed around the money, drives frozen strategy runners
with the bars, writes what they trade to disk and rebuilds itself from those files
after a restart. Paths below are relative to `src/`.

Contents: [Inventory](#inventory) · [Modules](#modules-and-code) ·
[Runs](#runs) · [Fairness](#fairness) · [Proofs](#proofs) ·
[Disagreements](#where-code-and-documents-disagree) · [Not modelled](#what-is-not-modelled) ·
[Plan](#plan)

## Inventory

| component | state | operations | correct when |
|---|---|---|---|
| **Feed supervisor** `internal/feed/supervisor.go` | connection state, backoff attempt; under `connMu`: the desired token set and the published connection | `Run` (goroutine), `connect`, `readLoop` and its watcher goroutine, `clearConn`, `Modify` (called by the coordinator) | the live connection streams exactly the desired set; one socket at a time; idle outside the session; reconnects; returns when cancelled |
| **Stream client** `internal/feed/client.go` | socket, `stop` channel, `writeMu` | `Dial`, `Heartbeat`, `Subscribe`, `Unsubscribe`, `Read`, `Close` | `Close` may be called by `Run` and by the watcher |
| **Frame parser** `internal/feed/parse.go` | none | `Parse` | fixed offsets |
| **Bar aggregator** `internal/aggregator` | per token: forming minute, volume baseline, last closed minute | `Add`, `CloseDue`, `finalize`; `Manager.Run`, `emit` | one bar per minute, in order, of its own ticks, only once the minute is over |
| **Option chain** `internal/chain/chain.go` | expiry, center, token and key maps, quotes, one mutex | `Reconcile`, `Update`, `Quote`, `Tokens` | lookups are of the current weekly; the money is covered; no thrashing |
| **Scrip master** `internal/broker/instruments.go` | instrument rows, loaded once | `NearestOptionExpiry`, `FindOption`, `ATMStrikes`, `FrontMonthFuture`, `FindIndiaVIX` | the expiry it serves is the one the engine trades |
| **Coordinator** `internal/pipeline/coordinator.go` | the goroutines between feed and main loop and their channels | `Run` (router), `consumeBars`, `onBar` | subscriptions follow the window; no bar lost; no deadlock; stops on cancel |
| **Main loop** `cmd/live/main.go` | session day and directory, fixed at start | wiring, recovery, the select over bars | a bar is on disk before it is acted on |
| **Runners and seams** `internal/engine` | per runner: seam replay queue and index, reported trades | `OnFutureBar`, `drain`, `Price`, `Fill`, `LoadReplay` | replay serves recorded prices in order, live fills come from the book |
| **Live VIX** `internal/engine/vix.go` | one value | `Set`, `At` | |
| **Recorder and store** `internal/store` | open, entry and exit maps; `bars.jsonl`, `audit.jsonl`, `position.json` | `OnBar`, `OnFill`, `OnTrade`, `append`, `readJSONL`, `PositionStore.Write`, `ReadAllAudit` | files are enough to resume; each trade audited once, with its flags |
| **Recovery** `internal/recovery/recovery.go` | none | `Recover`, `replayQueue` | runners after a restart are those before it |
| **Parity gate** `internal/parity/parity.go` | none | `Gate`, `valid`, `Fill`, `KS`, `verdict` | a verdict rests on enough trades filled on the book, of one system |
| **Freeze controller** `internal/freeze/freeze.go` | `freeze_baseline.json` | `ConfigHash`, `EngineVersion`, `Check`, `Start` | trades of two systems are never mixed without a word |
| **Dashboard** `internal/dashboard` | none | `BuildSnapshot` over every session directory | what it shows is what was traded; a reader never goes back |
| **Login, tools** `internal/broker`, `cmd/*` | | HTTP and command-line I/O | |

How they interact. `Supervisor.Run` sends ticks on a bounded channel. The coordinator's
router takes each tick, gives it to the chain (`Update`) and forwards it to the
aggregator's `Manager`, which sends finished bars on another channel. `consumeBars`
takes a bar, moves the chain (`Reconcile`), passes the difference of the windows to the
supervisor (`Modify`), then sends the bar to the main loop. The main loop logs the bar
(`Recorder.OnBar`) and drives the runners; a runner's fill reads the chain through its
seams and reports to `Recorder.OnFill`, and a completed trade goes through `drain` to
`Recorder.OnTrade`. At start-up `Recover` runs the logged bars through the runners,
muted, with the recorded fill prices in the seams' queues. Before that `main` has picked
the front-month future and the lot, named the session's directory after the day it
starts on, and checked the engine's fingerprint against `freeze_baseline.json`. The
dashboard, whose server is a goroutine of `cmd/live` (`main.go:219-228`), reads the audit logs
of all directories and gives them to the gate, at any moment of an append.

What is hard here: three goroutines over one connection (`Run`, its watcher, `Modify`'s
caller), four bounded channels in a row with a cancellation at each, a window and a
subscription set that move one after the other, an exchange clock and a host clock,
a recovery that has to agree with two files written one after the other, writes that fail
and are only logged, and an incubation of many days whose statistics outlive every
process and every build that contributed to them.
`PROJECT.json` lists the hazards one by one, at their lines, with the properties that
watch each.

## Modules and code

| module | models | level |
|---|---|---|
| `FeedSupervisor` | `Supervisor` with the `Client` it uses | every step between lock operations, channel operations and network calls |
| `BarAggregator` | `Manager` goroutine, `Aggregator` | every iteration of the select, every token of the ticker's round, `emit` |
| `OptionChain` | `Chain`, with the scrip master's lookups | one step per method (each holds the mutex throughout) |
| `Pipeline` | router, manager, `consumeBars`, main loop; INSTANCEs `OptionChain` for the shared chain | every channel operation |
| `PaperSession` | main loop, runners' seams, `Recorder`, `Recover` over one day with crashes | every file write; implements `TradeLedger` |
| `TradeLedger` | what the two files promise of a trade | abstract specification |
| `LiveFeed` | what the supervisor promises the chain: wanted tokens, streaming tokens | abstract specification, implemented by `FeedSupervisor` |
| `Backoff` | `backoffDelay` on signed integers of a given width | pure operator against its schedule |
| `JsonlLog` | `openJSONL`, `append`, `readJSONL` on one file | groups of bytes |
| `Incubation` | `cmd/live`'s start-up, the freeze baseline, the session directories, what the gate counts, over many days and builds | one step per start, bar, fill, half-day |
| `MC*` | small constants for TLC | |
| `*_proofs` | inductive invariants and theorems | |

**FeedSupervisor.** `pc` is where `Run` is: `top`/`idle`/`backoff` are the loop and its
two sleeps, `login` to `subscribing` is `connect`, `connected` to `deliver` is the rest
of the happy path and `readLoop`, `close`, `closeStop` and `clear` are `conn.Close()`
and `clearConn`. `connMu`, `desired`, `conn` are the mutex and what it guards; `cur` and
`snap` are `connect`'s locals. Each connection identity `c` has a socket `sock[c]`, its
`stop` channel, the set `server[c]` the server streams on it, its watcher goroutine and
`readLoop`'s own `stop` (`loopDone`); identities are reused once nothing refers to them,
as the garbage collector would. `Client.Close` is two steps, the look at `stop` and
the close of it, because two goroutines call it. `Modify` is three: the update of the
desired set under the lock and the two writes. A write on a connection the network has
lost fails or reports success, as a TCP write does, or blocks as long as nobody closes
the connection: `Modify`'s writes have no deadline. `Abstract` maps the supervisor to
`LiveFeed`: what is wanted is `desired`, what streams is all that any connection streams,
and it is over once `Run` has returned. `inSession`, `netUp`, `cancelled` are the world.

**BarAggregator.** `agg[t]` is one `Aggregator` field by field; `AfterAdd`, `Due`,
`FinalBar` and `Finalized` are `Add`, `CloseDue` and the two halves of `finalize`.
`mgr`, `pending`, `ticks`, `out` are the goroutine, the bar blocked in `emit` and its
channels. `exch` stamps ticks and `host` closes bars; nothing in the code keeps the two
clocks together, so each moves on its own. A tick may carry last minute's stamp and then a
day volume below the newest one, so it may be late and may overtake. After a signal `emit`
may give its bar up (`Abandon`), in the middle of the ticker's round too, before the select
sees the context (`ManagerStops`). `log` and `bars` are histories the properties read: the
ticks handed to `Add` and the bars that left `emit`, sent or given up.

**OptionChain.** A contract is a record of expiry, type and strike and is its own token.
Prices are counted in quarters of a strike so that the 0.75 band is exact. The scrip
master's expiry is midnight UTC, a bar's time is later in that day: `Instant` and `AsOf`
keep exactly that.

**Pipeline.** The feed is seen from above (ticks of `desired`), the manager may close a
bar whenever it has a tick or its ticker fires, and what a frozen runner does with a bar
is any of hold, enter, exit. Everything between is the code's: which channel is read,
when the chain moves, when the feed follows. `ReconcileBar` computes the difference against
the window it replaces (`Enters`, `Leaves`) and leaves it in `sub` and `unsub`; `ModifyFeed`
later applies it to `desired`, the feed's own set, which it does not compare with the window:
that the two stay equal is `FeedFollowsChain`. After a signal the manager and `onBar` may
give the bar in their hands up and go round once more (`AbandonClosed`, `AbandonBar`), so
that a bar may be lost and a later one still be driven. `NeverBehind` says what a runner may count
on when it decides on a bar: the chain has followed that bar or a later one, and as long
as it has followed no later one, the contracts at the money of the bar are in the window
and subscribed.

**PaperSession.** The frozen strategy is a function of the bars, so its decisions are a
`plan` (the bars it enters and exits on), chosen once. `LogBar`, `EnterLive`, `ExitLive`,
`AppendAudit`, `ClearPosition` are the writes in the order `main.go`, `runners.go` and
`recorder.go` make them. `Crash` may fall between any two; `Restart` is `Recover`: the
queue built from the files, the plan replayed over the logged bars, what is left in the
queue, what counts as reported. A write to the audit log or to `position.json` may fail,
which `recorder.go` only logs: an entry whose position was not written, an audit line
missing while the position goes all the same, a position that stays. `executed`, `torn`
and `hurt` are histories: the fills really made, the bars a crash fell inside of, the
runners a write failed for.

**JsonlLog.** A write is `Begin`, any number of `Piece`s and `Finish`, or is cut short by
`WriteFails` or `Crash`, perhaps before its first byte. `fresh` says whether it began on a new
line. `NoSilentHole` says that what is missing before a record that is read was never reported
as written; it does not say that nothing is missing.

**Incubation.** `now` counts half-days, cut at midnight UTC (05:30 IST), where the
expiries of the scrip master fall. `Start` is `main` up to its loop: `FrontMonthFuture`
and `EffLot`, the directory (`dir`), `freeze.Start` (`Match`, `WritesBaseline`, the label)
and what `Recover` makes of the day's directory: a runner replayed over bars of its own
build and future repeats its decisions, bars of another future replay nothing, and bars
another build logged may make the engine decide anything. `Enter` and `Exit` write the
position and the audit line into `proc.dir`, which is not today's after midnight.
`Fingerprint` is what the freeze sees of a build and a lot: a build against a local
replace has a label it shares with others. The engine squares off on a bar: a trade still
open when the last one has come stays open in the running process, is `"overnight"` the next
day, and its exit is audited then, into the old directory. `told` and `outlived` are histories:
a violation was shown or the clock reset; days on which a process from an earlier day
entered or exited. `Counted` and `Decided` are `BuildSnapshot` and `verdict`.

**Backoff.** The shift is done bit by bit on `Width` bits, so that it overflows as Go's does.
`BackoffFollowsSchedule`, in `MCFeedSupervisor`, compares it with the schedule for every
number of failures whenever `Run` waits to retry; `FeedSupervisor` itself keeps of
`attempt` only whether it is zero. `CapFits` is the condition under which the two agree:
with the code's defaults, 1 s capped at 30 s on 64 bits, the base is 5^9 * 2^9 ns and
5^9 * 30 s is far below 2^63 ns.

## Runs

Seven runs pass, five show a disagreement (below). States are distinct states.

| run | config | what it shows | bounds, and why they are enough |
|---|---|---|---|
| `feed` | `Feed.cfg`, 165 k | no `Modify` is lost against a connect, one socket, quiet when down; `Run` returns and leaves no goroutine behind, idles, connects; it implements `LiveFeed`; the backoff follows its schedule past the overflow | two connections: an old one with its watcher alive and the one being dialled, the most that coexist while identities are reused; two windows sharing a token, so a `Modify` adds, removes and keeps; a channel of one tick, so that delivery blocks; `attempt` only matters as zero or not. For the backoff integers of 10 bits, every base up to 40 with every cap that fits, and 12 attempts, which shift every bit out |
| `bars` | `Bars.cfg`, 437 k | order, OHLC, volume deltas, no bar before its minute is over, every minute closes | one token (aggregators share nothing but the `emit`), four minutes, three ticks: two in one bar and one in another, or three in a row, or one late; `emit` blocks on a channel of one; two prices tell high from low; each tick trades one more than the newest, or has been overtaken; the clocks are up to three minutes apart either way |
| `chain` | `Chain.cfg`, 7 k | lookups current, quotes of window only, money covered, no thrash | two weeklies over four days give a roll and an end of the list; spots at every quarter-step over three strikes cross each rounding edge and band edge both ways; one strike is unlisted |
| `pipeline` | `Pipe.cfg`, 94 k | subscriptions follow, a runner finds the money of its bar subscribed, every bar driven, once and in order, stops | all channels at capacity one, so every send blocks somewhere; two bars keep two stages busy at once; two disjoint centers with an overlapping window |
| `paper` | `Paper.cfg`, 2.2 M | resume at the price paid, one audit line, no stale fill, refinement of `TradeLedger` | two runners (drive and drain are per runner), three bars hold an entry, an exit and a bar after, every plan, two crashes (one after a recovery) and two failed writes (both writes of one trade, or one of each runner) anywhere |
| `log` | `Log.cfg` | no silent hole, what precedes the first tear is kept, no reader goes back | four records and three failures: a tear, a record on its line, another failure and one after |
| `incubation` | `Incubation.cfg`, 3.0 M | no silent mix, a true label, one trade a day, no verdict on fallbacks | two days with a midnight in between, three starts (build A, build B, A again), a pinned build and two that share a label (symmetric), a future that expires on the second day and a next one with no lot of its own, a lot flag or none; one runner, as runners meet only in the sums; two trades make a verdict |

Deadlock is checked in `bars`, `chain` and `pipeline`. In the others the program may stop:
`Run` returns, the day ends, the process is down for good.

`torn` in the `paper` run: a crash inside a bar can leave a trade both audited and open,
or a decision taken only by the muted replay (`KNOWN-ISSUES.md` 3). Such crashes are in
the model and in the run; the properties exempt exactly the trade whose entry or exit
bar was hit, and `TradeLedger` voids it. The same goes for `hurt`, the trade whose own
write failed. All other trades keep the promise across the same crashes and failures.

`outlived` and `OneSource` in the `incubation` run: a process that runs over midnight
trades the next day into the old directory, and a restart then finds an empty one; bars of
another build or of another future rebuild nothing. On such days a runner may trade twice.
It does so in the run; `OneTradeADay` names the days it exempts.

## Fairness

Weak fairness for each goroutine step that can run, and for the timers behind `idle`,
`backoff` and the ticker: the Go scheduler runs every runnable goroutine and timers fire.
A login or a dial returns, with an error or not (both have timeouts). A write of `Modify`
has no timeout: it returns if the network is up or somebody has closed the connection
(`WriteReturns`), and the liveness properties hold all the same, because the watcher's
`Close` needs no lock.

Strong fairness in two places. Taking `connMu` (`LockForConnect`, `ClearConn`): the
coordinator may take and release it again and again, and `sync.Mutex` hands it over to a
waiter that has starved for a millisecond. And the cases of a `select` (`TakeTick`,
`TickerFires` of the manager, each `...Stops` of the pipeline): a select with several
ready cases picks one at random.

Nothing is assumed of the network, of arriving ticks, of the chain's wish to move, or of
the router taking ticks once the context is cancelled. `BarAggregator` assumes that the host's
clock moves on (not the exchange's) and that bars are taken; after a signal it promises no
minute its bar. Liveness of the supervisor is stated with "or panicked":
a panic is the subject of a run of its own.

## Proofs

For every value of the constants (under the named assumptions of each module), checked by
TLAPS. Each invariant was first checked by TLC on the run's instance.

- **FeedSupervisor** (`Invariance`, `TypeCorrect`, `NoModifyIsLost`, `OneSocketAtATime`,
  `QuietWhenDownHolds`). `SubscriptionsInSync` is not inductive: it says nothing while the
  lock is held. `IInv` adds who holds `connMu` where (`LockInv`), that the published
  connection is the one `Run` reads (`PublishInv`), that nothing else can be open
  (`OpenInv`), that the snapshot under the lock is still the desired set (`SnapInv`), and
  what the writes `Modify` has yet to make will achieve (`ModInv`). One lemma per group
  of actions.
- **LiveFeed** (`SupervisorImplementsLiveFeed`, in `FeedSupervisor_proofs`). Under `IInv` and `StreamInv` (only an open
  connection streams, no window takes a base token away, nothing unwanted is about to be
  added) each step is a step of `LiveFeed` or a stutter: the end of `connect` is `Start`,
  the two writes of `Modify` are `Follow`, any `Close` or drop is `Lost` or unseen, the
  return of `Run` is `Stop`.
- **Backoff** (`DelayFollowsSchedule`, `BackoffIsOnSchedule`). For every width, base, cap
  that fits and number of failures: either the shift is exact and below the cap, or the
  schedule is at the cap and the bits that are left are none or no less than it
  (`BitsFollowSchedule`). Once a bit is lost, the power of two shifted in is past the cap,
  and what is left is a multiple of it (`BitsDivide`). The shift, the powers of two and
  the schedule are one recursion, `Iterated`. The library's induction over an operator
  cannot be instantiated; induction over a set is proved instead, by counting: if 0 were
  in a set of numbers up to n that holds every successor but not n, the successor would
  map it one to one into a smaller set (`Reaches`, `SetInduction`).
- **BarAggregator** (`BarsAlwaysInOrder`, `TypeCorrect`, `NoUnfinishedBar`,
  `HistoryInvariance`, `BarsAreFaithful`, `VolumesAreDeltas`). `OrderInv` chains the
  emitted bars, the bar inside `emit`, `lastClosed` and the forming minute in increasing
  order, for any arrival order and any skew. `ClockInv` bounds every stamp the manager
  holds by the exchange's clock and every round of the ticker by the host's, for any two
  clocks: `NoUnfinishedBar` assumes nothing of their skew and concludes that a bar's minute is
  over on one of them. That a host ahead closes a minute that still runs on the exchange's
  (`KNOWN-ISSUES.md` 1) is in the model and admitted by the property. `FaithInv` relates a token's ticks to what
  is left of them: the forming minute shows exactly the ticks of its minute taken so far,
  the volume baseline is the day volume the last bar made ends at, counting the bar inside
  `emit`. What a bar shows is stated over the set of its ticks' positions (first, last,
  highest, lowest), so that no induction over the ticks is needed, only what one more tick
  does to that set. A tick that closes a minute and begins the next is taken in those two
  steps.
- **OptionChain** (`Invariance`, `TypeCorrect`, `LookupIsCurrent`, `NoQuoteIsStale`,
  `AtTheMoneyIsCovered`, `WindowDoesNotThrash`). `WindowInv`: the window is the one its center and expiry call
  for. `BandInv`: the last spot is in the band. With a band of 3/4 and rounding of 1/2
  the at-the-money strike is at most one step off the center, hence the assumption
  `N >= 1` of `AtTheMoneyIsCovered`; without it the window may miss the money.
- **Pipeline** (`PipelineInvariance`, `PipelineTypeCorrect`, `FeedIsOnTheWindow`,
  `RunnersSeeTheirWindow`, `BarsAreDrivenInOrder`, `PipelineImplementsChain`). Where a bar
  is decides what the chain has seen, so the invariant numbers the bars: from the manager
  to `Reconcile` (`FromManager`) and from there to the runners (`ToRunners`) they are
  in order, each goroutine holds at most the one that comes next, and until a signal makes a
  goroutine give one up they are consecutive. `FeedFollowsChain` is inductive: the feed's own
  set, with the difference on its way, is the window, because each difference was taken from
  the window the one before it had led to, and no Reconcile overtakes a Modify. `SameBar`: a bar
  with the number of the last one reconciled is that bar. `ChainFollows`: the chain's own
  invariant, and its last spot is that of the bar `consumeBars` holds. Every step is a step
  of `OptionChain` on one day or leaves it alone (`ImplementsChain`), so that what
  `OptionChain_proofs` shows is used here through `INSTANCE`, under `ChainAssumption`, which
  restates that module's assumptions. `RunnersSeeTheirWindow` needs `N >= 1`, as
  `AtTheMoneyIsCovered` does. `ImplementsChain` holds on the instance of `pipeline` as well, but is in no run.
- **PaperSession** (`SessionInvariance`, `SessionTypeCorrect`, `PositionsResume`,
  `TradesAreAuditedOnce`, `RecordedFillsAreUsedUp`, `FilesImplementLedger`: all its
  properties). What a runner is follows from how far the day has come for it: the bar it
  has been driven to (`DrivenTo`) and the bar after which `drain` has looked at it
  (`DrainedTo`), which differ inside a bar. `PhaseInv`: a live runner has entered, exited
  and reported by those two bars, whether it lived through them or replayed them. `FileInv`:
  whatever fails, no file is ahead of the runner. `MirrorInv`: unless a write of the
  runner's failed, `position.json` is the Recorder's map, so a write for one runner does
  not harm another. `DurableInv` and `PricesInv`: for a trade no crash fell inside of and no
  failed write belongs to, the files hold exactly what was executed and so does the runner;
  after a restart this is what the queues built from the files give the replay.
  `NoStaleFill` is inductive with those. For the refinement, the write of an entry's position is
  the ledger's `Open`, the append of the audit its `Close`, a failed write or a crash inside
  a bar voids the trades it hits, and every other step, the restart among them, is a
  stutter. Assumed: there is a runner (`main` starts all of the engine's), `Order` lists
  each once, a price from the book is not 0 (a fallback may be) and `None` is no leg.
- **JsonlLog** (`Invariance`, `TypeCorrect`, `HolesAreNotSilent`, `WrittenIsKept`,
  `ReadersNeverGoBack`). `SlotInv`: every acknowledged record took exactly one line, which
  holds it or is broken, with earlier records above. `TearInv`: until the first tear the
  file is whole and what follows its last newline is of the last record only, so lines
  that a reader saw can only be followed by others.
- **Incubation** (`IncubationInvariance`, `IncubationTypeCorrect`, `NoSilentMix`,
  `LabelIsTrue`, `AtMostOneTradeADay`, `VerdictsAreOnBook`: all its properties). Four parts, each inductive given those before it. `FrozenInv`: before the
  first baseline nothing has traded, and until something is shown whatever trades, holds a
  position or is on record has the baseline's fingerprint; a pinned build's fingerprint
  names the system (`BuildAssumption`). `FlagInv`: what the flags of a record say of its
  legs. `DirInv`: only a process that outlived its day writes into an earlier directory or
  holds a trade of an earlier day.
  `OnceInv`: a runner with a record of today is done, in any process its bars drive.

Only model-checked: the liveness properties (liveness under fairness and ENABLED are
beyond the prover). Every invariant of the passing runs and both refinements are proved.

## Where code and documents disagree

Each has a run that TLC ends with a counterexample.

1. `feed_no_panic`: `Client.Close` can be called by `Run` and by the watcher at once; both
   find `stop` open, the second `close(c.stop)` panics, although the "already closed" case
   is there to make it harmless (`internal/feed/client.go:158`).
2. `log_torn`: a record appended after a torn line is unreadable, and so is every later
   one, although "a crash loses at most the in-flight line" (`internal/store/store.go:108`).
3. `chain_expiry_day`: on the day a weekly expires the chain is built on the next one,
   although `NearestOptionExpiry` is "on or after asOf" (`internal/broker/instruments.go:181`).
4. `pipeline_exit_strike`: the strike of an open trade can leave the window, and its exit
   finds no quote, which `seams.go` calls "not an expected path" (`internal/chain/chain.go:160`).
5. `paper_flags`: a fallback entry whose exit comes after a restart is audited as a real
   fill, although fallback trades "are excluded from the parity gate"
   (`internal/store/recorder.go:126`).

Seen while modelling, without a run: ticks read after 15:30 and before the watcher's next
look are delivered, although `supervisor.go:15` says they are dropped; after
`-reset-freeze`, and after a start that shows a violation, every trade still counts,
although I.md:59-61 "refuses to count days toward the gate"; a start of the old build
after one of a changed build shows "freeze OK" again, and the changed build's trades stay;
`Gate` is given "the number of trading days observed" (`parity.go:118-119`), by which "too few"
is to show (H.md:34), but `ReadAllAudit` counts the directories with a trade, so an idle day
is not seen and trades per day cannot fall below one while nothing is flagged; a bar whose
append failed is only logged and still driven (`recorder.go`, `OnBar`), so a later replay runs
without it; after a signal a bar may be given up and a later one still be driven, as a select
with two ready cases picks either; G.md:75-79 squares a
position off on a restart past 15:15, which `main` does not; on the day a future expires
`FrontMonthFuture` picks the next one from 05:30 IST on, so a process started before and
its restart trade two futures, and the restart replays nothing; a tick of a skipped
minute is folded into the forming one; `consumeBars` runs ahead of the main loop, so
a runner may fill on a window already centered on a later bar; with no quote, `Fill`
reports the contract of the lookup before; the known issues 1, 3, 4 and 5 follow from the
models as they are described there.

## What is not modelled

- Frame decoding, HTTP login, TOTP, secrets, the dashboard's pages, the command-line
  probes: pure I/O or pure conversion.
- The heartbeat's pings and `writeMu`: they touch nothing the supervisor reads. That the
  heartbeat ends is `AllGone`.
- Quote prices in `OptionChain` (only whether there is one), the `droppedLate` and
  `emitted` counters, the staleness flag, the synthetic shadow runners and the VIX cell
  they price with: statistics only.
- The statistics of the parity gate between a sample that is large enough and its verdict
  (median, percentiles, Kolmogorov-Smirnov): real arithmetic.
- The strategy engine itself: external; its decisions are a plan.
- The contract of a leg in `PaperSession` (nothing reads it back), and a failing append to
  `bars.jsonl` there: one lost bar changes what the engine decides in a replay, which a
  plan cannot express. `JsonlLog` has such an append at the level of the file.
- What makes a trade, in `Incubation`, is the engine and the lot, as the fingerprint has it. A
  changed aggregator, parser or bar-close timing of `cmd/live` under one engine pin, which
  I.md:36-39 wants to reset the clock, and `-underlying` with a forced `-lot` are changes of
  the system that neither the fingerprint nor the model sees.
- The trade frequency and its divisor (above), and days without a trade.
- A host clock that is set back: `time.Now` steps with it, the model's only moves on.
- Two processes on one directory: nothing in the code prevents or expects them.
- Errors `BuildSnapshot` ignores: a directory it cannot read counts as empty.

## Plan

Done: `FeedSupervisor` with `LiveFeed` and `Backoff`, `BarAggregator`, `OptionChain`,
`Pipeline`, `PaperSession` with `TradeLedger` and failing writes, `JsonlLog`,
`Incubation`, and the proofs of every invariant. Next, in this order:

1. **BarAggregator**: a run with two tokens in one round of the ticker.
2. **NextOpen** and the session clock, as a pure operator over weekdays and minutes.
3. **Pipeline with BarAggregator**: that the manager, seen from the coordinator, is the
   one `Pipeline` assumes.
