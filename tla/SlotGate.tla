------------------------------- MODULE SlotGate -------------------------------
(***************************************************************************)
(* What the concurrency queue promises, with no worker, lock, cache or     *)
(* signal: requests wait in order of arrival, the first one is admitted    *)
(* while fewer requests are in service than a gate the configuration       *)
(* allows, each request is admitted at most once, and closing the queue    *)
(* turns away all who wait.  QueueDispatch implements it.                  *)
(***************************************************************************)
EXTENDS Integers, Sequences, FiniteSets

CONSTANTS Requests, Gates

VARIABLES
  outside,    \* requests that have neither joined nor been turned away
  waiting,    \* those that wait, first come first
  inService   \* those that have been admitted and have not left

gateVars == <<outside, waiting, inService>>

Init ==
  /\ outside = Requests
  /\ waiting = << >>
  /\ inService = {}

Join(r) ==
  /\ r \in outside
  /\ outside' = outside \ {r}
  /\ waiting' = Append(waiting, r)
  /\ UNCHANGED inService

TurnAway(r) ==
  /\ r \in outside
  /\ outside' = outside \ {r}
  /\ UNCHANGED <<waiting, inService>>

Admit ==
  /\ waiting # << >>
  /\ \E gate \in Gates : Cardinality(inService) < gate
  /\ inService' = inService \cup {Head(waiting)}
  /\ waiting' = Tail(waiting)
  /\ UNCHANGED outside

Leave(r) ==
  /\ r \in inService
  /\ inService' = inService \ {r}
  /\ UNCHANGED <<outside, waiting>>

Close ==
  /\ waiting' = << >>
  /\ UNCHANGED <<outside, inService>>

Next ==
  \/ \E r \in Requests : Join(r) \/ TurnAway(r) \/ Leave(r)
  \/ Admit
  \/ Close

Spec == Init /\ [][Next]_gateVars
==============================================================================
