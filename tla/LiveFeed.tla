------------------------------ MODULE LiveFeed ------------------------------
(***************************************************************************)
(* What the feed supervisor promises the chain, without connections, locks *)
(* or goroutines: there is a set of wanted tokens and a set of tokens that *)
(* stream.  A stream starts with everything wanted at that moment; while   *)
(* it lasts each change brings it closer to what is wanted, so a token     *)
(* that streams and stays wanted is never interrupted on its own; and it   *)
(* ends as a whole.  Once the feed is over nothing streams again.          *)
(***************************************************************************)
CONSTANTS Base, Windows

VARIABLES
  wanted,   \* the base tokens and the chain's window
  stream,   \* the tokens the exchange sends ticks of
  over      \* the feed has been shut down

Init == wanted = Base /\ stream = {} /\ over = FALSE

Want ==
  /\ \E W \in Windows : wanted' = Base \cup W
  /\ UNCHANGED <<stream, over>>

Start ==
  /\ ~over /\ stream = {} /\ stream' = wanted
  /\ UNCHANGED <<wanted, over>>

Follow ==
  /\ stream # {}
  /\ stream' \subseteq stream \cup wanted /\ stream \cap wanted \subseteq stream'
  /\ UNCHANGED <<wanted, over>>

Lost == stream' = {} /\ UNCHANGED <<wanted, over>>

Stop ==
  /\ stream = {} /\ over' = TRUE
  /\ UNCHANGED <<wanted, stream>>

Next == Want \/ Start \/ Follow \/ Lost \/ Stop

Spec == Init /\ [][Next]_<<wanted, stream, over>>
=============================================================================
