-------------------------- MODULE MCFeedSupervisor --------------------------
(* FeedSupervisor on two connections, one base token and two option windows  *)
(* that share a token; the retry delay on 10-bit durations.                  *)
EXTENDS FeedSupervisor, Backoff

CONSTANTS c1, c2, fut, o1, o2, o3

MCConn == {c1, c2}
MCBase == {fut}
MCWindows == {{o1, o2}, {o2, o3}}

\* However often Run has failed when it waits to retry, the delay is the scheduled one: neither
\* 0, negative nor back to a small value once the shift overflows (supervisor.go:447-459).
BackoffFollowsSchedule == pc = "backoff" => OnSchedule
=============================================================================
