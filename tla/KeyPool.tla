------------------------------- MODULE KeyPool -------------------------------
(***************************************************************************)
(* The pool of API keys of src/src/keypool.go.  Its methods lock the pool  *)
(* and run to the end, so each is one operator on the pool's value; the    *)
(* goroutines that call them interleave in the modules that use them.      *)
(*                                                                         *)
(* A pool is a record: size is len(entries), cooling the indices of the    *)
(* entries that are unhealthy and inside their cooldown, index the round-  *)
(* robin counter modulo size, which is all the code uses of it.  How long  *)
(* a cooldown lasts depends on the status; here it ends at any moment.     *)
(***************************************************************************)
EXTENDS Integers

NoSlot == -1

Entries(p) == 0 .. p.size - 1

Usable(p) == Entries(p) \ p.cooling

IsPool(p) ==
  /\ p \in [size : Nat, cooling : SUBSET Nat, index : Nat]
  /\ p.cooling \subseteq Entries(p)
  /\ p.size > 0 => p.index \in Entries(p)

NewKeyPool(n) == [size |-> n, cooling |-> {}, index |-> 0]

\* The entry that the i-th turn of the round-robin loop looks at, i <= size.
EntryAt(p, i) ==
  IF p.index + i < p.size THEN p.index + i ELSE p.index + i - p.size

\* The first turn of the loop that meets a usable entry.
FirstUsable(p) ==
  CHOOSE i \in Entries(p) :
    /\ EntryAt(p, i) \in Usable(p)
    /\ \A j \in 0 .. i - 1 : EntryAt(p, j) \notin Usable(p)

\* Mutant: the loop leaves out its last turn.
AcquireShort(p, preferred) ==
  IF preferred \in Usable(p) THEN preferred
  ELSE IF \A i \in 0 .. p.size - 2 : EntryAt(p, i) \notin Usable(p) THEN NoSlot
  ELSE EntryAt(p, FirstUsable(p))

\* The index of the slot that Acquire hands out.
Acquire(p, preferred) ==
  IF preferred \in Usable(p) THEN preferred
  ELSE IF Usable(p) = {} THEN NoSlot
  ELSE EntryAt(p, FirstUsable(p))

\* The pool that Acquire leaves behind.  A loop that finds nothing has gone
\* round once, which is no change modulo size.
Acquired(p, preferred) ==
  IF preferred \in Usable(p) \/ Usable(p) = {} THEN p
  ELSE [p EXCEPT !.index = EntryAt(p, FirstUsable(p) + 1)]

\* Mutant: the index is not compared with the number of entries.
MarkUnhealthyUnchecked(p, i) == [p EXCEPT !.cooling = @ \cup {i}]

MarkUnhealthy(p, i) ==
  IF i \in Entries(p) THEN [p EXCEPT !.cooling = @ \cup {i}] ELSE p

MarkHealthy(p, i) == [p EXCEPT !.cooling = @ \ {i}]
==============================================================================
