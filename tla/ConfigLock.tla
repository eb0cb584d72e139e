------------------------------ MODULE ConfigLock ------------------------------
(***************************************************************************)
(* The two locks that requests and the dashboard share: configMu, a        *)
(* sync.RWMutex, and queueMu.                                              *)
(*                                                                         *)
(*   a resolver  ResolveModelId: reads under configMu and calls            *)
(*               GetEffectiveModels, which reads under it again, twice;    *)
(*   a gater     ProcessQueue or TryEnqueueOrDispatch: reads the gate, and *)
(*               so the configuration, while it holds queueMu;             *)
(*   a poster    HandleConfigPost: writes under configMu, and signals the  *)
(*               queue after it has released it.                           *)
(*                                                                         *)
(* A Go RWMutex admits no new reader while a writer waits.  The lock does  *)
(* not know who holds it: a goroutine that reads and asks to read again is *)
(* a new reader.                                                           *)
(***************************************************************************)
EXTENDS Integers, FiniteSets

CONSTANTS Resolvers, Gaters, Posters

ASSUME LockAssumption ==
  /\ IsFiniteSet(Resolvers \cup Gaters \cup Posters)
  /\ Resolvers \cap Gaters = {}
  /\ Resolvers \cap Posters = {}
  /\ Gaters \cap Posters = {}
  /\ "nobody" \notin Gaters \cup Posters

VARIABLES
  step,       \* program counter of each goroutine
  reads,      \* how many read locks of configMu it holds
  writer,     \* the poster that waits for configMu or holds it
  queueLock   \* the goroutine that holds queueMu

lockVars == <<step, reads, writer, queueLock>>

Goroutines == Resolvers \cup Gaters \cup Posters
Nobody == "nobody"

LockTypeOK ==
  /\ step \in [Goroutines -> {"idle", "outer", "first", "between", "second", "last",
                              "locked", "reading", "read",
                              "waiting", "writing", "released"}]
  /\ reads \in [Goroutines -> 0..2]
  /\ writer \in Posters \cup {Nobody}
  /\ queueLock \in Gaters \cup {Nobody}

LockInit ==
  /\ step = [g \in Goroutines |-> "idle"]
  /\ reads = [g \in Goroutines |-> 0]
  /\ writer = Nobody
  /\ queueLock = Nobody

Turn(g, from, to) ==
  /\ step[g] = from
  /\ step' = [step EXCEPT ![g] = to]

\* What the three calls that can block wait for.
MayRead == writer = Nobody
MayWrite == \A g \in Goroutines : reads[g] = 0
MayQueue == queueLock = Nobody

RLock(g) ==
  /\ MayRead
  /\ reads' = [reads EXCEPT ![g] = @ + 1]
  /\ UNCHANGED <<writer, queueLock>>

RUnlock(g) ==
  /\ reads' = [reads EXCEPT ![g] = @ - 1]
  /\ UNCHANGED <<writer, queueLock>>

\* GetEffectiveModels locks for itself.
GetEffectiveModels(r, from, inside, after) ==
  \/ Turn(r, from, inside) /\ RLock(r)
  \/ \E to \in after : Turn(r, inside, to) /\ RUnlock(r)

\* A mutant: the way out keeps the read lock.
ResolveLeaking(r) ==
  \/ Turn(r, "idle", "outer") /\ RLock(r)
  \/ GetEffectiveModels(r, "outer", "first", {"between", "last"})
  \/ GetEffectiveModels(r, "between", "second", {"last"})
  \/ Turn(r, "last", "idle") /\ UNCHANGED <<reads, writer, queueLock>>

\* ResolveModelId calls it twice under its own lock; the first call may find the
\* model and be the last.
Resolve(r) ==
  \/ Turn(r, "idle", "outer") /\ RLock(r)
  \/ GetEffectiveModels(r, "outer", "first", {"between", "last"})
  \/ GetEffectiveModels(r, "between", "second", {"last"})
  \/ Turn(r, "last", "idle") /\ RUnlock(r)

\* gateLimit under queueMu.
ReadGate(g) ==
  \/ /\ Turn(g, "idle", "locked")
     /\ MayQueue
     /\ queueLock' = g
     /\ UNCHANGED <<reads, writer>>
  \/ Turn(g, "locked", "reading") /\ RLock(g)
  \/ Turn(g, "reading", "read") /\ RUnlock(g)
  \/ /\ Turn(g, "read", "idle")
     /\ queueLock' = Nobody
     /\ UNCHANGED <<reads, writer>>

\* Lock announces the writer, which keeps new readers out, and waits for the
\* readers that are in.
Announce(p) ==
  /\ Turn(p, "idle", "waiting")
  /\ MayRead
  /\ writer' = p
  /\ UNCHANGED <<reads, queueLock>>

\* A mutant: the writer does not wait for the readers.
LockAtOnce(p) ==
  /\ Turn(p, "waiting", "writing")
  /\ UNCHANGED <<reads, writer, queueLock>>

Lock(p) ==
  /\ Turn(p, "waiting", "writing")
  /\ MayWrite
  /\ UNCHANGED <<reads, writer, queueLock>>

Unlock(p) ==
  /\ Turn(p, "writing", "released")
  /\ writer' = Nobody
  /\ UNCHANGED <<reads, queueLock>>

\* signalQueue: queueMu is taken and released.
Signal(p) ==
  /\ Turn(p, "released", "idle")
  /\ MayQueue
  /\ UNCHANGED <<reads, writer, queueLock>>

PostConfig(p) == Announce(p) \/ Lock(p) \/ Unlock(p) \/ Signal(p)

LockStep ==
  \/ \E r \in Resolvers : Resolve(r)
  \/ \E g \in Gaters : ReadGate(g)
  \/ \E p \in Posters : PostConfig(p)

\* Goroutines that wait for a lock for ever do not stop the process.
Waiting == UNCHANGED lockVars

LockNext == LockStep \/ Waiting

LockFairness ==
  /\ \A r \in Resolvers : SF_lockVars(Resolve(r) /\ step[r] # "idle")
  /\ \A g \in Gaters : SF_lockVars(ReadGate(g) /\ step[g] # "idle")
  /\ \A p \in Posters : SF_lockVars(PostConfig(p) /\ step[p] # "idle")

LockSpec == LockInit /\ [][LockNext]_lockVars
LockFairSpec == LockSpec /\ LockFairness

------------------------------------------------------------------------------
\* A writer is alone.
WriterIsAlone ==
  \A p \in Posters : step[p] = "writing" =>
    /\ writer = p
    /\ \A g \in Goroutines : reads[g] = 0

\* A goroutine inside its call that cannot take the lock it needs next.
Blocked(g) ==
  \/ step[g] \in {"outer", "between", "locked"} /\ ~MayRead
  \/ step[g] = "waiting" /\ ~MayWrite
  \/ step[g] = "released" /\ ~MayQueue

\* The order of the two locks is sound: the goroutines inside a call are never
\* all blocked, except through the recursive read of ResolveModelId and then
\* only with a writer in between (the comment at handlers.go, line 665, is about
\* the order).
StuckOnlyByRecursion ==
  LET busy == {g \in Goroutines : step[g] # "idle"}
  IN  busy # {} /\ (\A g \in busy : Blocked(g)) =>
        /\ \E r \in Resolvers : step[r] \in {"outer", "between"}
        /\ \E p \in Posters : step[p] = "waiting"

\* configMu is never taken recursively by its readers, so that none blocks
\* itself: what the comment on GetEffectiveConcurrency (usage.go, line 317)
\* and README.md, line 113, say the code avoids.
ResolverReturns ==
  \A r \in Resolvers : step[r] # "idle" ~> step[r] = "idle"
==============================================================================
