------------------------- MODULE QueueDispatchProofs -------------------------
(***************************************************************************)
(* Proofs about QueueDispatch, for any set of requests, any gates and any  *)
(* queue size.                                                             *)
(***************************************************************************)
EXTENDS QueueDispatch, FiniteSetTheorems, SequenceTheorems, TLAPS

\* Every value of a variable stays in its type.
LEMMA TypeInit == Init => TypeOK
<1> SUFFICES ASSUME Init PROVE TypeOK
  OBVIOUS
<1>1. requestQueue \in Seq(Requests)
  BY EmptySeq DEF Init
<1> QED
  BY <1>1 DEF Init, TypeOK, RequestStates, WorkerStates, ShutdownStates, NoEntry

\* A signal leaves the worker and the pending flag in their types.
LEMMA SignalType ==
  ASSUME TypeOK, NEW pc \in WorkerStates, TrySignalQueueLocked(pc)
  PROVE  worker' \in WorkerStates /\ queuePending' \in BOOLEAN
BY DEF TypeOK, TrySignalQueueLocked, WorkerStates

\* Every step of Next keeps the types.
LEMMA TypeStep == TypeOK /\ [Next]_vars => TypeOK'
<1> SUFFICES ASSUME TypeOK, [Next]_vars PROVE TypeOK'
  OBVIOUS
<1> USE DEF TypeOK, requestVars, queueVars, passVars, gateVars, stopVars,
            RequestStates, WorkerStates, ShutdownStates, NoEntry
<1>1. ASSUME NEW r \in Requests, RefuseAtEntry(r) PROVE TypeOK'
  BY <1>1 DEF RefuseAtEntry, MoveTo
<1>2. ASSUME NEW r \in Requests, PassEntryCheck(r) PROVE TypeOK'
  BY <1>2 DEF PassEntryCheck, MoveTo
<1>3. ASSUME NEW r \in Requests, Enqueue(r) PROVE TypeOK'
  <2>1. CASE Len(requestQueue) >= MaxQueueSize
    BY <1>3, <2>1, QueueAssumption DEF Enqueue, AppendOrRefuse, MoveTo
  <2>2. CASE Len(requestQueue) < MaxQueueSize
    <3>1. TrySignalQueueLocked(worker)
      BY <1>3, <2>2, QueueAssumption DEF Enqueue, AppendOrRefuse
    <3>2. worker' \in WorkerStates /\ queuePending' \in BOOLEAN
      BY <3>1, SignalType
    <3>3. requestQueue' = Append(requestQueue, r) /\ UNCHANGED ThrottledCount
      BY <1>3, <2>2, QueueAssumption DEF Enqueue, AppendOrRefuse
    <3>4. req' \in [Requests -> RequestStates]
      BY <1>3, <2>2, QueueAssumption DEF Enqueue, AppendOrRefuse, MoveTo
    <3> QED
      BY <1>3, <3>2, <3>3, <3>4 DEF Enqueue
  <2> QED
    BY <2>1, <2>2, QueueAssumption
<1>4. ASSUME NEW r \in Requests, EnqueueMiss(r) PROVE TypeOK'
  BY <1>4 DEF EnqueueMiss, MoveTo
<1>5. ASSUME NEW r \in Requests, EnqueueStore(r) PROVE TypeOK'
  <2>1. CASE Len(requestQueue) >= MaxQueueSize
    BY <1>5, <2>1, QueueAssumption DEF EnqueueStore, AppendOrRefuse, MoveTo
  <2>2. CASE Len(requestQueue) < MaxQueueSize
    <3>1. TrySignalQueueLocked(worker)
      BY <1>5, <2>2, QueueAssumption DEF EnqueueStore, AppendOrRefuse
    <3>2. worker' \in WorkerStates /\ queuePending' \in BOOLEAN
      BY <3>1, SignalType
    <3> QED
      BY <1>5, <2>2, <3>2, QueueAssumption DEF EnqueueStore, AppendOrRefuse, MoveTo
  <2> QED
    BY <2>1, <2>2, QueueAssumption
<1>6. ASSUME NEW r \in Requests, TimeoutWaiting(r) PROVE TypeOK'
  BY <1>6 DEF TimeoutWaiting
<1>7. CASE WorkerTurn
  BY <1>7 DEF WorkerTurn
<1>8. CASE PassEntered
  BY <1>8 DEF PassEntered
<1>9. CASE PassOpen
  BY <1>9 DEF PassOpen
<1>10. CASE PassOpenMiss
  BY <1>10 DEF PassOpenMiss
<1>11. CASE PassOpenStore
  BY <1>11 DEF PassOpenStore
<1>12. ASSUME EndPass PROVE requestQueue' \in Seq(Requests)
  <2>1. \A i \in scanned + 1 .. Len(requestQueue) : requestQueue[i] \in Requests
    OBVIOUS
  <2> QED
    BY <1>12, <2>1, SubSeqProperties DEF EndPass
<1>13. CASE ScanEnds
  BY <1>12, <1>13 DEF ScanEnds, EndPass
<1>14. CASE ScanVisit
  BY <1>12, <1>14 DEF ScanVisit, Visit, EndPass, Reserve, MoveTo
<1>15. CASE ScanMiss
  BY <1>15 DEF ScanMiss
<1>16. CASE ScanStore
  BY <1>12, <1>16 DEF ScanStore, Visit, EndPass, Reserve, MoveTo
<1>17. CASE Launch
  BY <1>17 DEF Launch
<1>18. CASE Resignal
  BY <1>18 DEF Resignal, TrySignalQueueLocked
<1>19. ASSUME NEW r \in Requests, ReleaseSlot(r) PROVE TypeOK'
  BY <1>19 DEF ReleaseSlot, MoveTo
<1>20. ASSUME NEW r \in Requests, CompleteNow(r) \/ DelayEnds(r) PROVE TypeOK'
  BY <1>19, <1>20 DEF CompleteNow, DelayEnds
<1>21. ASSUME NEW r \in Requests, CompleteDelayed(r) PROVE TypeOK'
  BY <1>21 DEF CompleteDelayed, MoveTo
<1>22. ASSUME NEW r \in Requests, SignalFreed(r) PROVE TypeOK'
  <2>1. worker' \in WorkerStates /\ queuePending' \in BOOLEAN
    BY <1>22, SignalType DEF SignalFreed
  <2> QED
    BY <1>22, <2>1 DEF SignalFreed, MoveTo
<1>23. CASE FetchConcurrency
  BY <1>23 DEF FetchConcurrency
<1>24. CASE ConfigPostSet
  BY <1>24 DEF ConfigPostSet
<1>25. CASE ConfigPostSignal
  BY <1>25 DEF ConfigPostSignal, TrySignalQueueLocked
<1>26. CASE CacheExpires
  BY <1>26 DEF CacheExpires
<1>27. CASE ShutdownFlag
  BY <1>27 DEF ShutdownFlag
<1>28. CASE ShutdownClear
  BY <1>28 DEF ShutdownClear
<1>29. CASE ShutdownBroadcast
  BY <1>29 DEF ShutdownBroadcast
<1>30. CASE ShutdownReject
  BY <1>30, EmptySeq DEF ShutdownReject
<1>31. CASE ShutdownExit
  BY <1>31 DEF ShutdownExit
<1>32. CASE UNCHANGED vars
  BY <1>32 DEF vars
<1> QED
  BY <1>1, <1>2, <1>3, <1>4, <1>5, <1>6, <1>7, <1>8, <1>9, <1>10, <1>11, <1>13,
     <1>14, <1>15, <1>16, <1>17, <1>18, <1>20, <1>21, <1>22, <1>23, <1>24, <1>25,
     <1>26, <1>27, <1>28, <1>29, <1>30, <1>31, <1>32
     DEF Next, Handler, Dispatched, Worker, GateChange, Shutdown, Exited

\* The counters, program counters and the queue keep their types in every
\* reachable state.
THEOREM TypeCorrect == Spec => []TypeOK
BY TypeInit, TypeStep, PTL DEF Spec

------------------------------------------------------------------------------
(* Who holds queueMu between two steps. *)

LockOwner ==
  /\ (queueMu = "worker") <=> (worker \in {"opening", "scan", "rereading"})
  /\ \A r \in Requests : req[r] = "enqueuing" => queueMu = "handler"
  /\ \A r, s \in Requests :
       req[r] = "enqueuing" /\ req[s] = "enqueuing" => r = s

\* queueMu excludes: the worker holds it exactly during the locked part of a
\* pass, and at most one handler holds it over a cache miss.
LEMMA LockStep == TypeOK /\ LockOwner /\ [Next]_vars => LockOwner'
<1> SUFFICES ASSUME TypeOK, LockOwner, [Next]_vars PROVE LockOwner'
  OBVIOUS
<1> USE DEF LockOwner, TypeOK, requestVars, queueVars, passVars, gateVars,
            stopVars, RequestStates, WorkerStates
<1>1. ASSUME NEW r \in Requests, Handler(r) PROVE LockOwner'
  <2>1. CASE RefuseAtEntry(r) \/ PassEntryCheck(r)
    BY <2>1 DEF RefuseAtEntry, PassEntryCheck, MoveTo
  <2>2. CASE Enqueue(r)
    BY <2>2 DEF Enqueue, AppendOrRefuse, MoveTo, TrySignalQueueLocked
  <2>3. CASE EnqueueMiss(r)
    BY <2>3 DEF EnqueueMiss, MoveTo
  <2>4. CASE EnqueueStore(r)
    BY <2>4 DEF EnqueueStore, AppendOrRefuse, MoveTo, TrySignalQueueLocked
  <2>5. CASE TimeoutWaiting(r)
    BY <2>5 DEF TimeoutWaiting
  <2> QED
    BY <1>1, <2>1, <2>2, <2>3, <2>4, <2>5 DEF Handler
<1>2. ASSUME NEW r \in Requests, Dispatched(r) PROVE LockOwner'
  <2>1. CASE CompleteNow(r) \/ DelayEnds(r)
    BY <2>1 DEF CompleteNow, DelayEnds, ReleaseSlot, MoveTo
  <2>2. CASE CompleteDelayed(r)
    BY <2>2 DEF CompleteDelayed, MoveTo
  <2>3. CASE SignalFreed(r)
    BY <2>3 DEF SignalFreed, MoveTo, TrySignalQueueLocked
  <2> QED
    BY <1>2, <2>1, <2>2, <2>3 DEF Dispatched
<1>3. CASE Worker
  <2>1. CASE WorkerTurn \/ PassEntered
    BY <2>1 DEF WorkerTurn, PassEntered
  <2>2. CASE PassOpen \/ PassOpenMiss \/ PassOpenStore
    BY <2>2 DEF PassOpen, PassOpenMiss, PassOpenStore
  <2>3. CASE ScanEnds
    BY <2>3 DEF ScanEnds, EndPass
  <2>4. CASE ScanVisit
    BY <2>4 DEF ScanVisit, Visit, EndPass, Reserve, MoveTo
  <2>5. CASE ScanMiss
    BY <2>5 DEF ScanMiss
  <2>6. CASE ScanStore
    BY <2>6 DEF ScanStore, Visit, EndPass, Reserve, MoveTo
  <2>7. CASE Launch
    BY <2>7 DEF Launch
  <2>8. CASE Resignal
    BY <2>8 DEF Resignal, TrySignalQueueLocked
  <2> QED
    BY <1>3, <2>1, <2>2, <2>3, <2>4, <2>5, <2>6, <2>7, <2>8 DEF Worker
<1>4. CASE GateChange
  BY <1>4 DEF GateChange, FetchConcurrency, ConfigPostSet, ConfigPostSignal,
              CacheExpires, TrySignalQueueLocked
<1>5. CASE Shutdown
  <2>1. CASE ShutdownFlag \/ ShutdownClear \/ ShutdownBroadcast \/ ShutdownExit
    BY <2>1 DEF ShutdownFlag, ShutdownClear, ShutdownBroadcast, ShutdownExit
  <2>2. CASE ShutdownReject
    BY <2>2 DEF ShutdownReject
  <2> QED
    BY <1>5, <2>1, <2>2 DEF Shutdown
<1>6. CASE UNCHANGED vars
  BY <1>6 DEF vars
<1> QED
  BY <1>1, <1>2, <1>3, <1>4, <1>5, <1>6 DEF Next, Exited

------------------------------------------------------------------------------
(* Where every queued item is. *)

PassPosition ==
  /\ scanned <= Len(requestQueue)
  /\ worker = "rereading" => scanned < Len(requestQueue)
  /\ worker \notin {"scan", "rereading"} => scanned = 0

Ownership ==
  /\ \A i, j \in 1..Len(requestQueue) :
       requestQueue[i] = requestQueue[j] => i = j
  /\ \A i \in 1..scanned : req[requestQueue[i]] = "reserved"
  /\ \A i \in scanned + 1 .. Len(requestQueue) : req[requestQueue[i]] = "queued"
  /\ \A r \in Requests : req[r] = "queued" =>
       \E i \in scanned + 1 .. Len(requestQueue) : requestQueue[i] = r

\* The two inclusions of ExclusiveOwnership, from Ownership.
LEMMA OwnershipIsExclusive ==
  TypeOK /\ PassPosition /\ Ownership => ExclusiveOwnership
<1> SUFFICES ASSUME TypeOK, PassPosition, Ownership PROVE ExclusiveOwnership
  OBVIOUS
<1>1. \A i \in 1..Len(requestQueue) : requestQueue[i] \in Requests
  BY DEF TypeOK
<1>2. \A i \in scanned + 1 .. Len(requestQueue) : i \in 1..Len(requestQueue)
  BY DEF TypeOK
<1> QED
  BY <1>1, <1>2 DEF TypeOK, PassPosition, Ownership, ExclusiveOwnership

\* A goroutine that neither waits nor has just been reserved changes its state
\* without touching the queue.
LEMMA MoveKeepsOwnership ==
  ASSUME TypeOK, Ownership, PassPosition,
         NEW r \in Requests, req[r] \notin {"queued", "reserved"},
         NEW state, state # "queued",
         MoveTo(r, state), UNCHANGED <<requestQueue, scanned>>
  PROVE  Ownership'
<1>1. \A i \in 1..Len(requestQueue) : requestQueue[i] \in Requests
  BY DEF TypeOK
<1>2. \A s \in Requests : req'[s] = IF s = r THEN state ELSE req[s]
  BY DEF TypeOK, MoveTo
<1>3. \A i \in 1..Len(requestQueue) : requestQueue[i] # r
  BY DEF TypeOK, Ownership, PassPosition
<1> QED
  BY <1>1, <1>2, <1>3 DEF TypeOK, Ownership, PassPosition

\* A new item goes to the end of what waits.
LEMMA AppendKeepsOwnership ==
  ASSUME TypeOK, Ownership, PassPosition,
         NEW r \in Requests, req[r] \in {"checked", "enqueuing"},
         MoveTo(r, "queued"), requestQueue' = Append(requestQueue, r),
         UNCHANGED scanned
  PROVE  /\ Len(requestQueue') = Len(requestQueue) + 1
         /\ Ownership'
<1> DEFINE n == Len(requestQueue)
<1>1. /\ n \in Nat
      /\ \A i \in 1..n : requestQueue[i] \in Requests
  BY DEF TypeOK
<1>2. /\ Len(requestQueue') = n + 1
      /\ requestQueue'[n + 1] = r
      /\ \A i \in 1..n : requestQueue'[i] = requestQueue[i]
  BY <1>1 DEF TypeOK
<1>3. \A s \in Requests : req'[s] = IF s = r THEN "queued" ELSE req[s]
  BY DEF TypeOK, MoveTo
<1>4. \A i \in 1..n : requestQueue[i] # r
  BY <1>1 DEF TypeOK, Ownership, PassPosition
<1>5. scanned \in Nat /\ scanned <= n /\ scanned' = scanned
  BY DEF TypeOK, PassPosition
<1>6. \A i, j \in 1..(n + 1) : requestQueue'[i] = requestQueue'[j] => i = j
  BY <1>1, <1>2, <1>4 DEF Ownership
<1>7. \A i \in 1..scanned : req'[requestQueue'[i]] = "reserved"
  BY <1>1, <1>2, <1>3, <1>4, <1>5 DEF Ownership
<1>8. \A i \in scanned + 1 .. n + 1 : req'[requestQueue'[i]] = "queued"
  BY <1>1, <1>2, <1>3, <1>4, <1>5 DEF Ownership
<1>9. ASSUME NEW s \in Requests, req'[s] = "queued"
      PROVE  \E i \in scanned + 1 .. n + 1 : requestQueue'[i] = s
  <2>1. CASE s = r
    <3>1. n + 1 \in scanned + 1 .. n + 1
      BY <1>1, <1>5
    <3> QED
      BY <1>2, <2>1, <3>1
  <2>2. CASE s # r
    <3>1. PICK i \in scanned + 1 .. n : requestQueue[i] = s
      BY <1>3, <1>9, <2>2 DEF Ownership
    <3> QED
      BY <1>1, <1>2, <1>5, <3>1
  <2> QED
    BY <2>1, <2>2
<1> QED
  BY <1>2, <1>5, <1>6, <1>7, <1>8, <1>9 DEF Ownership

\* The end of a pass drops exactly the reserved prefix.
LEMMA EndPassKeepsOwnership ==
  ASSUME TypeOK, Ownership, PassPosition, EndPass
  PROVE  Ownership'
<1> DEFINE n == Len(requestQueue)
<1>1. /\ n \in Nat /\ scanned \in Nat /\ scanned <= n
      /\ \A i \in 1..n : requestQueue[i] \in Requests
  BY DEF TypeOK, PassPosition
<1>2. \A i \in scanned + 1 .. n : requestQueue[i] \in Requests
  BY <1>1
<1>3. /\ Len(requestQueue') = n - scanned
      /\ \A i \in 1 .. n - scanned : requestQueue'[i] = requestQueue[scanned + i]
  BY <1>1, <1>2, SubSeqProperties DEF EndPass
<1>4. scanned' = 0 /\ req' = req
  BY DEF EndPass
<1>5. \A i, j \in 1 .. n - scanned : requestQueue'[i] = requestQueue'[j] => i = j
  BY <1>1, <1>3 DEF Ownership
<1>6. \A i \in 1 .. n - scanned : req[requestQueue'[i]] = "queued"
  BY <1>1, <1>3 DEF Ownership
<1>7. ASSUME NEW r \in Requests, req[r] = "queued"
      PROVE  \E i \in 1 .. n - scanned : requestQueue'[i] = r
  <2>1. PICK i \in scanned + 1 .. n : requestQueue[i] = r
    BY <1>7 DEF Ownership
  <2>2. PICK k \in 1 .. n - scanned : scanned + k = i
    <3>1. i - scanned \in 1 .. n - scanned /\ scanned + (i - scanned) = i
      BY <1>1
    <3> QED
      BY <3>1
  <2>3. requestQueue'[k] = r
    BY <1>3, <2>1, <2>2
  <2> QED
    BY <2>3
<1> QED
  BY <1>1, <1>3, <1>4, <1>5, <1>6, <1>7 DEF Ownership

\* A reservation moves one item over the border between the two parts.
LEMMA ReserveKeepsOwnership ==
  ASSUME TypeOK, Ownership, PassPosition, scanned < Len(requestQueue), Reserve
  PROVE  Ownership'
<1> DEFINE n == Len(requestQueue)
           r == requestQueue[scanned + 1]
<1>1. /\ n \in Nat /\ scanned \in Nat /\ scanned < n
      /\ \A i \in 1..n : requestQueue[i] \in Requests
      /\ r \in Requests
  BY DEF TypeOK
<1>2. \A s \in Requests : req'[s] = IF s = r THEN "reserved" ELSE req[s]
  BY DEF TypeOK, Reserve, MoveTo
<1>3. scanned' = scanned + 1 /\ requestQueue' = requestQueue
  BY DEF Reserve
<1>4. \A i \in 1..n : requestQueue[i] = r => i = scanned + 1
  BY <1>1 DEF Ownership
<1>5. \A i \in 1 .. scanned + 1 : req'[requestQueue[i]] = "reserved"
  BY <1>1, <1>2, <1>4 DEF Ownership
<1>6. \A i \in scanned + 2 .. n : req'[requestQueue[i]] = "queued"
  BY <1>1, <1>2, <1>4 DEF Ownership
<1>7. ASSUME NEW s \in Requests, req'[s] = "queued"
      PROVE  \E i \in scanned + 2 .. n : requestQueue[i] = s
  <2>1. req[s] = "queued" /\ s # r
    BY <1>2, <1>7
  <2>2. PICK i \in scanned + 1 .. n : requestQueue[i] = s
    BY <2>1 DEF Ownership
  <2> QED
    BY <1>1, <2>1, <2>2
<1>8. scanned' + 1 = scanned + 2
  BY <1>1, <1>3
<1> QED
  BY <1>1, <1>3, <1>5, <1>6, <1>7, <1>8 DEF Ownership

\* A step that leaves the queue, the pass and every request's state alone, or
\* moves the worker between two points outside the scan.
LEMMA QueueUntouched ==
  ASSUME Ownership, PassPosition,
         UNCHANGED <<req, requestQueue, scanned>>,
         worker' = worker \/ worker' \notin {"scan", "rereading"},
         worker \in {"scan", "rereading"} => worker' = worker
  PROVE  PassPosition' /\ Ownership'
BY DEF Ownership, PassPosition

\* A signal never moves the worker into or out of the scan.
LEMMA SignalStaysOutsideScan ==
  ASSUME NEW pc, TrySignalQueueLocked(pc)
  PROVE  /\ worker' = pc \/ worker' \notin {"scan", "rereading"}
         /\ pc \in {"scan", "rereading"} => worker' = pc
BY DEF TrySignalQueueLocked

QueueInv == TypeOK /\ LockOwner /\ PassPosition /\ Ownership

\* Handlers append behind the scan position and only when no pass has the lock.
LEMMA HandlerKeepsQueue ==
  ASSUME QueueInv, NEW r \in Requests, Handler(r)
  PROVE  PassPosition' /\ Ownership'
<1> USE DEF QueueInv
<1>1. CASE RefuseAtEntry(r) \/ PassEntryCheck(r) \/ EnqueueMiss(r)
  <2>1. PICK state \in {"refused503", "checked", "enqueuing"} : MoveTo(r, state)
    BY <1>1 DEF RefuseAtEntry, PassEntryCheck, EnqueueMiss
  <2>2. UNCHANGED <<requestQueue, scanned, worker>>
    BY <1>1 DEF RefuseAtEntry, PassEntryCheck, EnqueueMiss, queueVars, passVars
  <2>3. req[r] \notin {"queued", "reserved"}
    BY <1>1 DEF RefuseAtEntry, PassEntryCheck, EnqueueMiss
  <2> QED
    BY <2>1, <2>2, <2>3, MoveKeepsOwnership DEF PassPosition
<1>2. CASE Enqueue(r) \/ EnqueueStore(r)
  <2>1. AppendOrRefuse(r) /\ UNCHANGED scanned
    BY <1>2 DEF Enqueue, EnqueueStore, passVars
  <2>2. req[r] \in {"checked", "enqueuing"}
    BY <1>2 DEF Enqueue, EnqueueStore
  <2>3. worker \notin {"scan", "rereading"}
    BY <1>2 DEF Enqueue, EnqueueStore, LockOwner
  <2>4. CASE Len(requestQueue) >= MaxQueueSize
    <3>1. MoveTo(r, "refused429") /\ UNCHANGED <<requestQueue, worker>>
      BY <2>1, <2>4, QueueAssumption DEF AppendOrRefuse, TypeOK
    <3> QED
      BY <2>1, <2>2, <3>1, MoveKeepsOwnership DEF PassPosition
  <2>5. CASE Len(requestQueue) < MaxQueueSize
    <3>1. /\ MoveTo(r, "queued")
          /\ requestQueue' = Append(requestQueue, r)
          /\ TrySignalQueueLocked(worker)
      BY <2>1, <2>5, QueueAssumption DEF AppendOrRefuse, TypeOK
    <3>2. worker' \notin {"scan", "rereading"}
      BY <2>3, <3>1, SignalStaysOutsideScan
    <3>3. Len(requestQueue') = Len(requestQueue) + 1 /\ Ownership'
      BY <2>1, <2>2, <3>1, AppendKeepsOwnership
    <3> QED
      BY <2>1, <2>3, <3>2, <3>3 DEF PassPosition, TypeOK
  <2> QED
    BY <2>4, <2>5, QueueAssumption DEF TypeOK
<1>3. CASE TimeoutWaiting(r)
  BY <1>3, QueueUntouched DEF TimeoutWaiting, queueVars, passVars
<1> QED
  BY <1>1, <1>2, <1>3 DEF Handler

\* Completions touch neither the queue nor a queued request.
LEMMA DispatchedKeepsQueue ==
  ASSUME QueueInv, NEW r \in Requests, Dispatched(r)
  PROVE  PassPosition' /\ Ownership'
<1> USE DEF QueueInv
<1>1. PICK state \in {"freed", "delaying", "finished"} : MoveTo(r, state)
  BY DEF Dispatched, CompleteNow, CompleteDelayed, DelayEnds, SignalFreed,
         ReleaseSlot
<1>2. UNCHANGED <<requestQueue, scanned>>
  BY DEF Dispatched, CompleteNow, CompleteDelayed, DelayEnds, SignalFreed,
         ReleaseSlot, queueVars, passVars
<1>3. req[r] \notin {"queued", "reserved"}
  BY DEF Dispatched, CompleteNow, CompleteDelayed, DelayEnds, SignalFreed
<1>4. worker' = worker \/ TrySignalQueueLocked(worker)
  BY DEF Dispatched, CompleteNow, CompleteDelayed, DelayEnds, SignalFreed,
         ReleaseSlot
<1>5. /\ worker' = worker \/ worker' \notin {"scan", "rereading"}
      /\ worker \in {"scan", "rereading"} => worker' = worker
  BY <1>4, SignalStaysOutsideScan
<1>6. PassPosition'
  BY <1>2, <1>5 DEF PassPosition
<1> QED
  BY <1>1, <1>2, <1>3, <1>6, MoveKeepsOwnership

\* The end of a pass resets the scan position.
LEMMA EndPassKeepsPosition ==
  ASSUME QueueInv, EndPass
  PROVE  PassPosition' /\ Ownership'
<1>1. Ownership'
  BY EndPassKeepsOwnership DEF QueueInv
<1>2. Len(requestQueue') \in Nat
  <2>1. \A i \in scanned + 1 .. Len(requestQueue) : requestQueue[i] \in Requests
    BY DEF QueueInv, TypeOK
  <2> QED
    BY <2>1, SubSeqProperties DEF QueueInv, TypeOK, EndPass
<1>3. worker' \notin {"scan", "rereading"} /\ scanned' = 0
  BY DEF EndPass
<1>4. PassPosition'
  BY <1>2, <1>3 DEF PassPosition
<1> QED
  BY <1>1, <1>4

\* A reservation moves the scan position by one, within the queue.
LEMMA ReserveKeepsPosition ==
  ASSUME QueueInv, scanned < Len(requestQueue), Reserve
  PROVE  PassPosition' /\ Ownership'
<1>1. Ownership'
  BY ReserveKeepsOwnership DEF QueueInv
<1> QED
  BY <1>1 DEF Reserve, PassPosition, QueueInv, TypeOK

\* Steps of the worker: scans advance, ends of passes cut the queue.
LEMMA WorkerKeepsQueue ==
  ASSUME QueueInv, Worker
  PROVE  PassPosition' /\ Ownership'
<1> USE DEF QueueInv
<1>1. CASE WorkerTurn \/ PassEntered \/ PassOpenMiss
  BY <1>1, QueueUntouched
     DEF WorkerTurn, PassEntered, PassOpenMiss, requestVars, queueVars, passVars
<1>2. CASE PassOpen \/ PassOpenStore \/ ScanMiss
  BY <1>2 DEF PassOpen, PassOpenStore, ScanMiss, requestVars, queueVars, passVars,
              Ownership, PassPosition, TypeOK
<1>3. CASE ScanEnds
  BY <1>3, EndPassKeepsPosition DEF ScanEnds
<1>4. CASE ScanVisit
  BY <1>4, EndPassKeepsPosition, ReserveKeepsPosition DEF ScanVisit, Visit
<1>5. CASE ScanStore
  BY <1>5, EndPassKeepsPosition, ReserveKeepsPosition
     DEF ScanStore, Visit, PassPosition
<1>6. CASE Launch
  <2>1. scanned = 0 /\ UNCHANGED <<requestQueue, scanned>>
    BY <1>6 DEF Launch, PassPosition, queueVars, passVars
  <2>2. \A r \in Requests :
          req'[r] = IF req[r] = "reserved" THEN "running" ELSE req[r]
    BY <1>6 DEF Launch
  <2>3. \A i \in 1..Len(requestQueue) : requestQueue[i] \in Requests
    BY DEF TypeOK
  <2>4. \A i \in 1..Len(requestQueue) : req'[requestQueue[i]] = "queued"
    BY <2>1, <2>2, <2>3 DEF Ownership
  <2>5. \A r \in Requests : req'[r] = "queued" =>
          \E i \in 1 .. Len(requestQueue) : requestQueue[i] = r
    BY <2>1, <2>2 DEF Ownership
  <2>6. Ownership'
    BY <2>1, <2>4, <2>5 DEF Ownership
  <2> QED
    BY <1>6, <2>1, <2>6 DEF Launch, PassPosition, TypeOK
<1>7. CASE Resignal
  BY <1>7, QueueUntouched, SignalStaysOutsideScan
     DEF Resignal, requestVars, queueVars, passVars, PassPosition
<1> QED
  BY <1>1, <1>2, <1>3, <1>4, <1>5, <1>6, <1>7 DEF Worker

\* rejectQueueLocked empties the queue and leaves nothing queued.
LEMMA RejectKeepsQueue ==
  ASSUME QueueInv, ShutdownReject
  PROVE  PassPosition' /\ Ownership'
<1> USE DEF QueueInv
<1>1. scanned = 0 /\ scanned' = 0 /\ requestQueue' = << >> /\ worker' = "exited"
  BY DEF ShutdownReject, PassPosition, passVars
<1>2. Len(requestQueue') = 0
  BY <1>1, EmptySeq
<1>3. \A r \in Requests : req'[r] # "queued"
  BY DEF ShutdownReject
<1> QED
  BY <1>1, <1>2, <1>3 DEF PassPosition, Ownership

\* Every step of Next keeps the position and the ownership facts.
LEMMA QueueStep == QueueInv /\ [Next]_vars => PassPosition' /\ Ownership'
<1> SUFFICES ASSUME QueueInv, [Next]_vars PROVE PassPosition' /\ Ownership'
  OBVIOUS
<1>1. CASE GateChange
  <2>1. UNCHANGED <<req, requestQueue, scanned>>
    BY <1>1 DEF GateChange, FetchConcurrency, ConfigPostSet, ConfigPostSignal,
                CacheExpires, requestVars, queueVars, passVars
  <2>2. worker' = worker \/ TrySignalQueueLocked(worker)
    BY <1>1 DEF GateChange, FetchConcurrency, ConfigPostSet, ConfigPostSignal,
                CacheExpires
  <2> QED
    BY <2>1, <2>2, QueueUntouched, SignalStaysOutsideScan DEF QueueInv
<1>2. CASE ShutdownFlag \/ ShutdownClear \/ ShutdownBroadcast \/ ShutdownExit
  BY <1>2, QueueUntouched
     DEF ShutdownFlag, ShutdownClear, ShutdownBroadcast, ShutdownExit,
         requestVars, queueVars, passVars, QueueInv
<1>3. CASE UNCHANGED vars
  BY <1>3, QueueUntouched DEF vars, requestVars, queueVars, passVars, QueueInv
<1> QED
  BY <1>1, <1>2, <1>3, HandlerKeepsQueue, DispatchedKeepsQueue, WorkerKeepsQueue,
     RejectKeepsQueue DEF Next, Shutdown, Exited

\* The queue starts empty and unlocked.
LEMMA QueueInit == Init => QueueInv
<1> SUFFICES ASSUME Init PROVE QueueInv
  OBVIOUS
<1>1. Len(requestQueue) = 0
  BY EmptySeq DEF Init
<1> QED
  BY <1>1, TypeInit DEF Init, QueueInv, LockOwner, PassPosition, Ownership

\* The inductive invariant of the queue.
LEMMA QueueInvariant == Spec => []QueueInv
<1>1. QueueInv /\ [Next]_vars => QueueInv'
  BY TypeStep, LockStep, QueueStep DEF QueueInv
<1> QED
  BY QueueInit, <1>1, PTL DEF Spec

\* Every queued item has exactly one owner: it waits in the queue once, or it
\* holds a slot, and the items of a pass change hands one by one.
THEOREM ItemsHaveOneOwner == Spec => []ExclusiveOwnership
<1>1. QueueInv => ExclusiveOwnership
  BY OwnershipIsExclusive DEF QueueInv
<1> QED
  BY QueueInvariant, <1>1, PTL

------------------------------------------------------------------------------
(* ActiveRequests and the slots. *)

SlotsUnchanged == SlotHolders' = SlotHolders /\ UNCHANGED ActiveRequests

\* A slot is taken by the request at the head of what waits, below the gate
\* that the cache holds at that moment.
SlotTaken ==
  /\ worker \in {"scan", "rereading"} /\ scanned < Len(requestQueue)
  /\ worker = "scan" => ~shuttingDown
  /\ ActiveRequests < cachedGate' /\ cachedGate' \in Gates
  /\ Reserve

SlotReleased == \E r \in SlotHolders : ReleaseSlot(r)

\* The set of slot holders is finite and can be counted.
LEMMA HoldersFinite ==
  TypeOK => IsFiniteSet(SlotHolders) /\ Cardinality(SlotHolders) \in Nat
BY QueueAssumption, FS_Subset, FS_CardinalityType DEF SlotHolders

\* A step of Next leaves the slots alone, takes one or releases one.
LEMMA SlotStep ==
  ASSUME QueueInv, [Next]_vars
  PROVE  SlotsUnchanged \/ SlotTaken \/ SlotReleased
<1> USE DEF QueueInv
<1>1. ASSUME UNCHANGED <<req, ActiveRequests>> PROVE SlotsUnchanged
  BY <1>1 DEF SlotsUnchanged, SlotHolders
<1>2. ASSUME NEW r \in Requests, NEW state, MoveTo(r, state), UNCHANGED ActiveRequests,
             req[r] \in {"reserved", "running", "delaying"}
               <=> state \in {"reserved", "running", "delaying"}
      PROVE  SlotsUnchanged
  <2>1. \A s \in Requests : req'[s] = IF s = r THEN state ELSE req[s]
    BY <1>2 DEF MoveTo, TypeOK
  <2> QED
    BY <1>2, <2>1 DEF SlotsUnchanged, SlotHolders
<1>3. ASSUME NEW r \in Requests, Handler(r) PROVE SlotsUnchanged
  <2>1. CASE TimeoutWaiting(r)
    BY <1>1, <2>1 DEF TimeoutWaiting, queueVars
  <2>2. CASE ~TimeoutWaiting(r)
    <3>1. req[r] \in {"new", "checked", "enqueuing"} /\ UNCHANGED ActiveRequests
      BY <1>3, <2>2 DEF Handler, RefuseAtEntry, PassEntryCheck, Enqueue,
                        EnqueueMiss, EnqueueStore, queueVars
    <3>2. PICK state \in {"refused503", "checked", "enqueuing", "queued", "refused429"} :
            MoveTo(r, state)
      BY <1>3, <2>2 DEF Handler, RefuseAtEntry, PassEntryCheck, Enqueue,
                        EnqueueMiss, EnqueueStore, AppendOrRefuse
    <3> QED
      BY <1>2, <3>1, <3>2
  <2> QED
    BY <2>1, <2>2
<1>4. ASSUME NEW r \in Requests, Dispatched(r) PROVE SlotsUnchanged \/ SlotReleased
  <2>1. CASE CompleteNow(r) \/ DelayEnds(r)
    BY <2>1 DEF CompleteNow, DelayEnds, SlotReleased, SlotHolders
  <2>2. CASE CompleteDelayed(r)
    BY <1>2, <2>2 DEF CompleteDelayed, queueVars
  <2>3. CASE SignalFreed(r)
    BY <1>2, <2>3 DEF SignalFreed, queueVars
  <2> QED
    BY <1>4, <2>1, <2>2, <2>3 DEF Dispatched
<1>5. ASSUME Worker PROVE SlotsUnchanged \/ SlotTaken
  <2>1. CASE WorkerTurn \/ PassEntered \/ PassOpen \/ PassOpenMiss \/ PassOpenStore
             \/ ScanMiss \/ Resignal
    BY <1>1, <2>1 DEF WorkerTurn, PassEntered, PassOpen, PassOpenMiss,
                      PassOpenStore, ScanMiss, Resignal, requestVars, queueVars
  <2>2. CASE ScanEnds
    BY <1>1, <2>2 DEF ScanEnds, EndPass
  <2>3. ASSUME NEW gate, gate \in Gates \cup {NoEntry}, cachedGate' = gate,
               worker \in {"scan", "rereading"}, worker = "scan" => ~shuttingDown,
               scanned < Len(requestQueue),
               Visit(gate)
        PROVE  SlotsUnchanged \/ SlotTaken
    <3>1. CASE EndPass
      BY <1>1, <3>1 DEF EndPass
    <3>2. CASE ActiveRequests < gate /\ Reserve
      <4>1. gate \in Gates
        BY <2>3, <3>2 DEF TypeOK, NoEntry
      <4> QED
        BY <2>3, <3>2, <4>1 DEF SlotTaken
    <3> QED
      BY <2>3, <3>1, <3>2 DEF Visit
  <2>4. CASE ScanVisit
    BY <2>3, <2>4 DEF ScanVisit, gateVars, TypeOK
  <2>5. CASE ScanStore
    BY <2>3, <2>5 DEF ScanStore, TypeOK, PassPosition
  <2>6. CASE Launch
    <3>1. \A r \in Requests : req'[r] \in {"reserved", "running", "delaying"}
                          <=> req[r] \in {"reserved", "running", "delaying"}
      BY <2>6 DEF Launch
    <3> QED
      BY <2>6, <3>1 DEF Launch, queueVars, SlotsUnchanged, SlotHolders
  <2> QED
    BY <1>5, <2>1, <2>2, <2>4, <2>5, <2>6 DEF Worker
<1>6. ASSUME GateChange PROVE SlotsUnchanged
  BY <1>1, <1>6 DEF GateChange, FetchConcurrency, ConfigPostSet, ConfigPostSignal,
                    CacheExpires, requestVars, queueVars
<1>7. ASSUME Shutdown PROVE SlotsUnchanged
  <2>1. CASE ShutdownReject
    <3>1. \A r \in Requests : req'[r] \in {"reserved", "running", "delaying"}
                          <=> req[r] \in {"reserved", "running", "delaying"}
      BY <2>1 DEF ShutdownReject
    <3> QED
      BY <2>1, <3>1 DEF ShutdownReject, SlotsUnchanged, SlotHolders
  <2>2. CASE ~ShutdownReject
    BY <1>1, <1>7, <2>2 DEF Shutdown, ShutdownFlag, ShutdownClear,
                            ShutdownBroadcast, ShutdownExit, requestVars, queueVars
  <2> QED
    BY <2>1, <2>2
<1>8. CASE UNCHANGED vars
  BY <1>1, <1>8 DEF vars, requestVars, queueVars
<1> QED
  BY <1>3, <1>4, <1>5, <1>6, <1>7, <1>8 DEF Next, Exited

\* What taking and releasing do to the set of holders.
LEMMA TakenHolders ==
  ASSUME QueueInv, SlotTaken
  PROVE  LET r == requestQueue[scanned + 1]
         IN  /\ r \in Requests /\ req[r] = "queued" /\ r \notin SlotHolders
             /\ SlotHolders' = SlotHolders \cup {r}
             /\ ActiveRequests' = ActiveRequests + 1
<1> DEFINE r == requestQueue[scanned + 1]
<1>1. r \in Requests /\ req[r] = "queued"
  BY DEF QueueInv, TypeOK, SlotTaken, Ownership
<1>2. \A s \in Requests : req'[s] = IF s = r THEN "reserved" ELSE req[s]
  BY <1>1 DEF SlotTaken, Reserve, MoveTo, QueueInv, TypeOK
<1> QED
  BY <1>1, <1>2 DEF SlotTaken, Reserve, SlotHolders

\* A release removes exactly the releasing request from the holders.
LEMMA ReleasedHolders ==
  ASSUME QueueInv, NEW r \in SlotHolders, ReleaseSlot(r)
  PROVE  SlotHolders' = SlotHolders \ {r}
<1>1. \A s \in Requests : req'[s] = IF s = r THEN "freed" ELSE req[s]
  BY DEF ReleaseSlot, MoveTo, QueueInv, TypeOK, SlotHolders
<1> QED
  BY <1>1 DEF SlotHolders

SlotInv == QueueInv /\ SlotAccounting /\ \E gate \in Gates : ActiveRequests <= gate

\* No slot is held at the start.
LEMMA SlotInit == Init => SlotInv
<1> SUFFICES ASSUME Init PROVE SlotInv
  OBVIOUS
<1>1. SlotHolders = {}
  BY DEF Init, SlotHolders
<1> QED
  BY <1>1, QueueInit, FS_EmptySet, QueueAssumption DEF Init, SlotInv, SlotAccounting

\* Every step of Next keeps the slot accounting and the bound.
LEMMA SlotInvStep == SlotInv /\ [Next]_vars => SlotInv'
<1> SUFFICES ASSUME SlotInv, [Next]_vars PROVE SlotInv'
  OBVIOUS
<1> USE DEF SlotInv
<1>1. QueueInv'
  BY TypeStep, LockStep, QueueStep DEF QueueInv
<1>2. IsFiniteSet(SlotHolders) /\ Cardinality(SlotHolders) \in Nat
  BY HoldersFinite DEF QueueInv
<1>3. CASE SlotsUnchanged
  BY <1>1, <1>3 DEF SlotsUnchanged, SlotAccounting
<1>4. CASE SlotTaken
  <2>1. SlotAccounting'
    BY <1>2, <1>4, TakenHolders, FS_AddElement DEF SlotAccounting
  <2>2. ActiveRequests' <= cachedGate' /\ cachedGate' \in Gates
    BY <1>4, TakenHolders, QueueAssumption DEF SlotTaken, QueueInv, TypeOK
  <2> QED
    BY <1>1, <2>1, <2>2
<1>5. CASE SlotReleased
  <2>1. PICK r \in SlotHolders : ReleaseSlot(r)
    BY <1>5 DEF SlotReleased
  <2>2. /\ Cardinality(SlotHolders') = Cardinality(SlotHolders) - 1
        /\ Cardinality(SlotHolders) # 0
    BY <1>2, <2>1, ReleasedHolders, FS_RemoveElement, FS_EmptySet
  <2>3. ActiveRequests' = ActiveRequests - 1
    BY <1>2, <2>1, <2>2 DEF ReleaseSlot, SlotAccounting
  <2>4. SlotAccounting'
    BY <2>2, <2>3 DEF SlotAccounting
  <2>5. \E gate \in Gates : ActiveRequests' <= gate
    BY <2>3, QueueAssumption DEF QueueInv, TypeOK
  <2> QED
    BY <1>1, <2>4, <2>5
<1> QED
  BY <1>3, <1>4, <1>5, SlotStep

\* The inductive invariant of the slots.
LEMMA SlotInvariant == Spec => []SlotInv
BY SlotInit, SlotInvStep, PTL DEF Spec

\* ActiveRequests is the number of requests that hold a slot, always.
THEOREM SlotsAccounted == Spec => []SlotAccounting
BY SlotInvariant, PTL DEF SlotInv

\* At no time do more requests hold a slot than some configured gate allows.
THEOREM InFlightStaysBounded == Spec => []InFlightBounded
<1>1. SlotInv => InFlightBounded
  BY DEF SlotInv, SlotAccounting, InFlightBounded
<1> QED
  BY <1>1, SlotInvariant, PTL

\* Every reservation happens below the gate in the cache at that moment.
THEOREM ReservationsRespectGate == Spec => GateRespected
<1>1. QueueInv /\ [Next]_vars =>
        [ActiveRequests' > ActiveRequests => ActiveRequests' <= cachedGate']_vars
  <2> SUFFICES ASSUME QueueInv, [Next]_vars, ActiveRequests' > ActiveRequests
               PROVE  ActiveRequests' <= cachedGate'
    OBVIOUS
  <2>1. SlotTaken
    BY SlotStep DEF SlotsUnchanged, SlotReleased, ReleaseSlot, QueueInv, TypeOK
  <2> QED
    BY <2>1, TakenHolders, QueueAssumption DEF SlotTaken, QueueInv, TypeOK
<1> QED
  BY <1>1, QueueInvariant, PTL DEF Spec, GateRespected

------------------------------------------------------------------------------
(* Shutdown. *)

StopInv ==
  /\ shuttingDown <=> shutdown # "off"
  /\ shutdown \notin {"off", "flagged"} => worker # "rereading"

\* ShutdownClear takes queueMu, so it waits for a pass that read the flag too
\* early to finish; later passes read it set.
LEMMA StopStep == LockOwner /\ StopInv /\ [Next]_vars => StopInv'
<1> SUFFICES ASSUME LockOwner, StopInv, [Next]_vars PROVE StopInv'
  OBVIOUS
<1> USE DEF StopInv, stopVars
<1>1. ASSUME NEW r \in Requests, Handler(r) PROVE StopInv'
  BY <1>1 DEF Handler, RefuseAtEntry, PassEntryCheck, Enqueue, EnqueueMiss,
              EnqueueStore, TimeoutWaiting, AppendOrRefuse, TrySignalQueueLocked
<1>2. ASSUME NEW r \in Requests, Dispatched(r) PROVE StopInv'
  BY <1>2 DEF Dispatched, CompleteNow, CompleteDelayed, DelayEnds, SignalFreed,
              ReleaseSlot, TrySignalQueueLocked
<1>3. CASE Worker
  <2>1. (worker' = "rereading" => ~shuttingDown) /\ UNCHANGED stopVars
    BY <1>3 DEF Worker, WorkerTurn, PassEntered, PassOpen, PassOpenMiss,
                PassOpenStore, ScanEnds, ScanVisit, ScanMiss, ScanStore, Launch,
                Resignal, TrySignalQueueLocked, Visit, EndPass, Reserve
  <2> QED
    BY <2>1
<1>4. CASE GateChange
  BY <1>4 DEF GateChange, FetchConcurrency, ConfigPostSet, ConfigPostSignal,
              CacheExpires, TrySignalQueueLocked
<1>5. CASE Shutdown
  BY <1>5 DEF Shutdown, ShutdownFlag, ShutdownClear, ShutdownBroadcast,
              ShutdownReject, ShutdownExit, LockOwner
<1>6. CASE UNCHANGED vars
  BY <1>6 DEF vars
<1> QED
  BY <1>1, <1>2, <1>3, <1>4, <1>5, <1>6 DEF Next, Exited

\* Once Shutdown has held queueMu the set of requests with a slot only
\* shrinks: the drain loop cannot be fed.
THEOREM DrainIsNotFed == Spec => StoppingOnlyShrinks
<1>1. Init => StopInv
  BY DEF Init, StopInv
<1>2. QueueInv /\ StopInv /\ [Next]_vars => StopInv'
  BY StopStep DEF QueueInv
<1>3. QueueInv /\ StopInv /\ [Next]_vars =>
        [shutdown \notin {"off", "flagged"}
           => SlotHolders' \subseteq SlotHolders]_vars
  <2> SUFFICES ASSUME QueueInv, StopInv, [Next]_vars,
                      shutdown \notin {"off", "flagged"}
               PROVE  SlotHolders' \subseteq SlotHolders
    OBVIOUS
  <2>1. ~SlotTaken
    BY DEF StopInv, SlotTaken
  <2> QED
    BY <2>1, SlotStep, ReleasedHolders DEF SlotsUnchanged, SlotReleased
<1> QED
  BY <1>1, <1>2, <1>3, QueueInvariant, PTL DEF Spec, StoppingOnlyShrinks

------------------------------------------------------------------------------
(* The queue implements SlotGate. *)

Outside == {r \in Requests : req[r] \in {"new", "checked", "enqueuing"}}
Waiting == SubSeq(requestQueue, scanned + 1, Len(requestQueue))

\* A suffix of a sequence: its members, its length, its items.
LEMMA SuffixProperties ==
  ASSUME NEW S, NEW q \in Seq(S), NEW k \in Nat, k <= Len(q)
  PROVE  /\ SubSeq(q, k + 1, Len(q)) \in Seq(S)
         /\ Len(SubSeq(q, k + 1, Len(q))) = Len(q) - k
         /\ \A i \in 1 .. Len(q) - k : SubSeq(q, k + 1, Len(q))[i] = q[k + i]
<1> DEFINE n == Len(q)
           W == SubSeq(q, k + 1, n)
<1>1. n \in Nat /\ k + 1 \in Int /\ n \in Int
  OBVIOUS
<1>2. \A i \in k + 1 .. n : q[i] \in S
  BY <1>1
<1>3. /\ W \in Seq(S)
      /\ Len(W) = IF k + 1 <= n THEN n - (k + 1) + 1 ELSE 0
      /\ \A i \in 1 .. n - (k + 1) + 1 : W[i] = q[k + 1 + i - 1]
  <2> HIDE DEF n
  <2> QED
    BY <1>1, <1>2, SubSeqProperties
<1> HIDE DEF n, W
<1>4. n - (k + 1) + 1 = n - k /\ (k + 1 <= n \/ n - k = 0)
  BY <1>1 DEF n
<1>5. Len(W) = n - k
  BY <1>3, <1>4
<1>6. ASSUME NEW i \in 1 .. n - k PROVE W[i] = q[k + i]
  <2>1. k + 1 + i - 1 = k + i
    BY <1>1
  <2> QED
    BY <1>3, <1>4, <2>1
<1> QED
  BY <1>3, <1>5, <1>6 DEF n, W

\* What waits is a sequence of requests.
LEMMA WaitingSeq ==
  ASSUME TypeOK, PassPosition
  PROVE  /\ Waiting \in Seq(Requests)
         /\ Len(Waiting) = Len(requestQueue) - scanned
         /\ \A i \in 1 .. Len(requestQueue) - scanned :
              Waiting[i] = requestQueue[scanned + i]
<1>1. /\ Len(requestQueue) \in Nat /\ scanned \in Nat
      /\ scanned <= Len(requestQueue)
  BY DEF TypeOK, PassPosition
<1>2. requestQueue \in Seq(Requests)
  BY DEF TypeOK
<1> QED
  BY <1>1, <1>2, SuffixProperties DEF Waiting

\* A goroutine that changes its state inside or outside the queue's view.
LEMMA OutsideAfterMove ==
  ASSUME TypeOK, NEW r \in Requests, NEW state, MoveTo(r, state)
  PROVE  Outside' = IF state \in {"new", "checked", "enqueuing"}
                    THEN Outside \cup {r} ELSE Outside \ {r}
<1>1. \A s \in Requests : req'[s] = IF s = r THEN state ELSE req[s]
  BY DEF MoveTo, TypeOK
<1> QED
  BY <1>1 DEF Outside

\* A suffix of a longer sequence is the longer suffix.
LEMMA SuffixOfAppend ==
  ASSUME NEW S, NEW q \in Seq(S), NEW r \in S, NEW k \in Nat, k <= Len(q)
  PROVE  SubSeq(Append(q, r), k + 1, Len(Append(q, r))) =
           Append(SubSeq(q, k + 1, Len(q)), r)
<1> DEFINE n == Len(q)
           m == n - k
           Q == Append(q, r)
           W == SubSeq(q, k + 1, n)
           X == SubSeq(Q, k + 1, Len(Q))
           A == Append(W, r)
<1>1. n \in Nat /\ m \in Nat /\ k \in Nat /\ n = m + k
  BY LenProperties
<1>2. /\ Q \in Seq(S) /\ Len(Q) = n + 1 /\ Q[n + 1] = r
      /\ \A i \in 1..n : Q[i] = q[i]
  BY AppendProperties
<1>3. W \in Seq(S) /\ Len(W) = m /\ \A i \in 1..m : W[i] = q[k + i]
  BY SuffixProperties
<1>4. /\ A \in Seq(S) /\ Len(A) = m + 1 /\ A[m + 1] = r
      /\ \A i \in 1..m : A[i] = W[i]
  <2> HIDE DEF W, m
  <2> QED
    BY <1>3, AppendProperties
<1>5. /\ X \in Seq(S) /\ Len(X) = Len(Q) - k
      /\ \A i \in 1 .. Len(Q) - k : X[i] = Q[k + i]
  <2>1. k <= Len(Q)
    BY <1>1, <1>2
  <2> HIDE DEF Q
  <2> QED
    BY <1>2, <2>1, SuffixProperties
<1> HIDE DEF n, m, Q, W, X, A
<1>6. Len(Q) - k = m + 1
  BY <1>1, <1>2
<1>7. Len(X) = Len(A)
  BY <1>4, <1>5, <1>6
<1>8. ASSUME NEW i \in 1 .. Len(X) PROVE X[i] = A[i]
  <2>1. i \in 1 .. m + 1 /\ X[i] = Q[k + i]
    BY <1>5, <1>6, <1>8
  <2>2. CASE i = m + 1
    <3>1. k + i = n + 1
      BY <1>1, <2>2
    <3> QED
      BY <1>2, <1>4, <2>1, <2>2, <3>1
  <2>3. CASE i \in 1..m
    <3>1. k + i \in 1..n
      BY <1>1, <2>3
    <3> QED
      BY <1>2, <1>3, <1>4, <2>1, <2>3, <3>1
  <2>4. i = m + 1 \/ i \in 1..m
    BY <1>1, <2>1
  <2> QED
    BY <2>2, <2>3, <2>4
<1>9. X = A
  BY <1>4, <1>5, <1>7, <1>8, SeqEqual
<1> QED
  BY <1>9 DEF X, A, W, Q, n

\* Appending to the queue appends to what waits.
LEMMA WaitingAfterAppend ==
  ASSUME TypeOK, PassPosition, NEW r \in Requests,
         requestQueue' = Append(requestQueue, r), UNCHANGED scanned
  PROVE  Waiting' = Append(Waiting, r)
<1>1. requestQueue \in Seq(Requests) /\ scanned \in Nat
      /\ scanned <= Len(requestQueue)
  BY DEF TypeOK, PassPosition
<1>2. Waiting' = SubSeq(Append(requestQueue, r), scanned + 1,
                       Len(Append(requestQueue, r)))
  BY DEF Waiting
<1> QED
  BY <1>1, <1>2, SuffixOfAppend DEF Waiting

\* The end of a pass does not change what waits.
LEMMA WaitingAfterEndPass ==
  ASSUME TypeOK, PassPosition, EndPass
  PROVE  Waiting' = Waiting
<1>1. requestQueue' = Waiting /\ scanned' = 0
  BY DEF EndPass, Waiting
<1>2. Waiting \in Seq(Requests)
  BY WaitingSeq
<1>3. SubSeq(Waiting, 1, Len(Waiting)) = Waiting
  BY <1>2, SubSeqFull
<1>4. Waiting' = SubSeq(requestQueue', scanned' + 1, Len(requestQueue'))
  BY DEF Waiting
<1>5. scanned' + 1 = 1
  BY <1>1
<1> HIDE DEF Waiting
<1> QED
  BY <1>1, <1>3, <1>4, <1>5

\* A reservation takes the head of what waits.
LEMMA WaitingAfterReserve ==
  ASSUME TypeOK, PassPosition, scanned < Len(requestQueue), Reserve
  PROVE  /\ Waiting # << >>
         /\ Head(Waiting) = requestQueue[scanned + 1]
         /\ Waiting' = Tail(Waiting)
<1>1. /\ scanned + 1 \in 1 .. Len(requestQueue)
      /\ Len(requestQueue) \in scanned + 1 .. Len(requestQueue)
      /\ requestQueue \in Seq(Requests)
      /\ scanned \in Nat /\ Len(requestQueue) \in Nat
  BY DEF TypeOK
<1>2. /\ Head(Waiting) = requestQueue[scanned + 1]
      /\ Tail(Waiting) = SubSeq(requestQueue, scanned + 1 + 1, Len(requestQueue))
  BY <1>1, HeadTailOfSubSeq DEF Waiting
<1>3. Len(Waiting) # 0
  BY WaitingSeq DEF TypeOK
<1>4. Waiting # << >>
  BY <1>3, EmptySeq
<1> QED
  BY <1>2, <1>4 DEF Reserve, Waiting

\* The steps of SlotGate in terms of the mapping.
AbstractStep == [Gate!Next]_(Gate!gateVars)

\* A step that moves none of the three abstract variables stutters.
LEMMA AbstractStutter ==
  ASSUME UNCHANGED <<Outside, Waiting, SlotHolders>>
  PROVE  AbstractStep
BY DEF AbstractStep, Gate!gateVars, Outside, Waiting

\* A refused request leaves the outside of the gate.
LEMMA AbstractTurnAway ==
  ASSUME NEW r \in Outside, Outside' = Outside \ {r},
         UNCHANGED <<Waiting, SlotHolders>>
  PROVE  AbstractStep
<1>1. Gate!TurnAway(r)
  BY DEF Gate!TurnAway, Outside, Waiting
<1> QED
  BY <1>1 DEF AbstractStep, Gate!Next, Outside

\* An appended request joins the end of the line.
LEMMA AbstractJoin ==
  ASSUME NEW r \in Outside, Outside' = Outside \ {r},
         Waiting' = Append(Waiting, r), UNCHANGED SlotHolders
  PROVE  AbstractStep
<1>1. Gate!Join(r)
  BY DEF Gate!Join, Outside, Waiting
<1> QED
  BY <1>1 DEF AbstractStep, Gate!Next, Outside

\* A released slot is a Leave of the gate.
LEMMA AbstractLeave ==
  ASSUME NEW r \in SlotHolders, SlotHolders' = SlotHolders \ {r},
         UNCHANGED <<Outside, Waiting>>
  PROVE  AbstractStep
<1>1. Gate!Leave(r)
  BY DEF Gate!Leave, Outside, Waiting
<1>2. r \in Requests
  BY DEF SlotHolders
<1> QED
  BY <1>1, <1>2 DEF AbstractStep, Gate!Next

\* A reserved slot is an Admit of the gate.
LEMMA AbstractAdmit ==
  ASSUME Waiting # << >>, \E gate \in Gates : Cardinality(SlotHolders) < gate,
         SlotHolders' = SlotHolders \cup {Head(Waiting)},
         Waiting' = Tail(Waiting), UNCHANGED Outside
  PROVE  AbstractStep
<1>1. Gate!Admit
  BY DEF Gate!Admit, Gate!Cardinality, Cardinality, Outside, Waiting
<1> QED
  BY <1>1 DEF AbstractStep, Gate!Next

\* A rejected queue is a Close of the gate.
LEMMA AbstractClose ==
  ASSUME Waiting' = << >>, UNCHANGED <<Outside, SlotHolders>>
  PROVE  AbstractStep
<1>1. Gate!Close
  BY DEF Gate!Close, Outside, Waiting
<1> QED
  BY <1>1 DEF AbstractStep, Gate!Next

\* Steps that leave every request and the queue alone are invisible.
LEMMA InvisibleStep ==
  ASSUME UNCHANGED <<req, requestQueue, scanned>>
  PROVE  AbstractStep
BY AbstractStutter DEF Outside, Waiting, SlotHolders

\* Handler steps are TurnAway, Join or stutters of the gate.
LEMMA HandlerRefines ==
  ASSUME SlotInv, SlotInv', NEW r \in Requests, Handler(r), [Next]_vars
  PROVE  AbstractStep
<1> USE DEF SlotInv, QueueInv
<1>1. CASE TimeoutWaiting(r)
  BY <1>1, InvisibleStep DEF TimeoutWaiting, queueVars, passVars
<1> SUFFICES ASSUME ~TimeoutWaiting(r) PROVE AbstractStep
  BY <1>1
<1>2. r \in Outside /\ r \notin SlotHolders
  BY DEF Handler, RefuseAtEntry, PassEntryCheck, Enqueue, EnqueueMiss,
         EnqueueStore, Outside, SlotHolders
<1>3. UNCHANGED scanned
  BY DEF Handler, RefuseAtEntry, PassEntryCheck, Enqueue, EnqueueMiss,
         EnqueueStore, passVars
<1>4. ASSUME NEW state, state \notin {"reserved", "running", "delaying"},
             MoveTo(r, state)
      PROVE  SlotHolders' = SlotHolders
  <2>1. \A s \in Requests : req'[s] = IF s = r THEN state ELSE req[s]
    BY <1>4 DEF MoveTo, TypeOK
  <2> QED
    BY <1>2, <1>4, <2>1 DEF SlotHolders
<1>5. CASE PassEntryCheck(r) \/ EnqueueMiss(r)
  <2>1. PICK state \in {"checked", "enqueuing"} : MoveTo(r, state)
    BY <1>5 DEF PassEntryCheck, EnqueueMiss
  <2>2. Outside' = Outside
    BY <1>2, <2>1, OutsideAfterMove
  <2>3. Waiting' = Waiting
    BY <1>3, <1>5 DEF PassEntryCheck, EnqueueMiss, queueVars, Waiting
  <2> QED
    BY <1>4, <2>1, <2>2, <2>3, AbstractStutter
<1>6. CASE RefuseAtEntry(r)
  <2>1. MoveTo(r, "refused503") /\ UNCHANGED requestQueue
    BY <1>6 DEF RefuseAtEntry, queueVars
  <2>2. Outside' = Outside \ {r}
    BY <2>1, OutsideAfterMove
  <2>3. Waiting' = Waiting
    BY <1>3, <2>1 DEF Waiting
  <2> QED
    BY <1>2, <1>4, <2>1, <2>2, <2>3, AbstractTurnAway
<1>7. ASSUME AppendOrRefuse(r) PROVE AbstractStep
  <2>1. CASE MoveTo(r, "refused429") /\ UNCHANGED requestQueue
    <3>1. Outside' = Outside \ {r}
      BY <2>1, OutsideAfterMove
    <3>2. Waiting' = Waiting
      BY <1>3, <2>1 DEF Waiting
    <3> QED
      BY <1>2, <1>4, <2>1, <3>1, <3>2, AbstractTurnAway
  <2>2. CASE MoveTo(r, "queued") /\ requestQueue' = Append(requestQueue, r)
    <3>1. Outside' = Outside \ {r}
      BY <2>2, OutsideAfterMove
    <3>2. Waiting' = Append(Waiting, r)
      BY <1>3, <2>2, WaitingAfterAppend
    <3> QED
      BY <1>2, <1>4, <2>2, <3>1, <3>2, AbstractJoin
  <2> QED
    BY <1>7, <2>1, <2>2 DEF AppendOrRefuse
<1> QED
  BY <1>5, <1>6, <1>7 DEF Handler, Enqueue, EnqueueStore

\* Completion steps are Leave or stutters of the gate.
LEMMA DispatchedRefines ==
  ASSUME SlotInv, NEW r \in Requests, Dispatched(r)
  PROVE  AbstractStep
<1> USE DEF SlotInv, QueueInv
<1>1. UNCHANGED <<requestQueue, scanned>>
  BY DEF Dispatched, CompleteNow, CompleteDelayed, DelayEnds, SignalFreed,
         ReleaseSlot, queueVars, passVars
<1>2. Waiting' = Waiting
  BY <1>1 DEF Waiting
<1>3. PICK state \in {"freed", "delaying", "finished"} : MoveTo(r, state)
  BY DEF Dispatched, CompleteNow, CompleteDelayed, DelayEnds, SignalFreed,
         ReleaseSlot
<1>4. r \notin Outside
  BY DEF Dispatched, CompleteNow, CompleteDelayed, DelayEnds, SignalFreed, Outside
<1>5. Outside' = Outside
  BY <1>3, <1>4, OutsideAfterMove
<1>6. CASE CompleteNow(r) \/ DelayEnds(r)
  <2>1. r \in SlotHolders /\ ReleaseSlot(r)
    BY <1>6 DEF CompleteNow, DelayEnds, SlotHolders
  <2> QED
    BY <1>2, <1>5, <2>1, ReleasedHolders, AbstractLeave
<1>7. CASE CompleteDelayed(r) \/ SignalFreed(r)
  <2>1. \A s \in Requests : req'[s] \in {"reserved", "running", "delaying"}
                        <=> req[s] \in {"reserved", "running", "delaying"}
    BY <1>7 DEF CompleteDelayed, SignalFreed, MoveTo, TypeOK
  <2> QED
    BY <1>2, <1>5, <2>1, AbstractStutter DEF SlotHolders
<1> QED
  BY <1>6, <1>7 DEF Dispatched

\* Worker steps are Admit or stutters of the gate.
LEMMA WorkerRefines ==
  ASSUME SlotInv, Worker, [Next]_vars
  PROVE  AbstractStep
<1> USE DEF SlotInv, QueueInv
<1>1. CASE WorkerTurn \/ PassEntered \/ PassOpen \/ PassOpenMiss \/ PassOpenStore
           \/ ScanMiss \/ Resignal
  BY <1>1, InvisibleStep DEF WorkerTurn, PassEntered, PassOpen, PassOpenMiss,
     PassOpenStore, ScanMiss, Resignal, requestVars, queueVars, passVars
<1>2. CASE EndPass
  <2>1. Waiting' = Waiting
    BY <1>2, WaitingAfterEndPass
  <2> QED
    BY <1>2, <2>1, AbstractStutter DEF EndPass, Outside, SlotHolders
<1>3. CASE Launch
  <2>1. \A r \in Requests : req'[r] = IF req[r] = "reserved" THEN "running" ELSE req[r]
    BY <1>3 DEF Launch
  <2>2. SlotHolders' = SlotHolders /\ Outside' = Outside
    BY <2>1 DEF SlotHolders, Outside
  <2>3. Waiting' = Waiting
    BY <1>3 DEF Launch, queueVars, passVars, Waiting
  <2> QED
    BY <2>2, <2>3, AbstractStutter
<1>4. CASE Reserve /\ SlotTaken
  <2> DEFINE r == requestQueue[scanned + 1]
  <2>1. /\ r \in Requests /\ req[r] = "queued"
        /\ SlotHolders' = SlotHolders \cup {r}
    BY <1>4, TakenHolders
  <2>2. Waiting # << >> /\ Head(Waiting) = r /\ Waiting' = Tail(Waiting)
    BY <1>4, WaitingAfterReserve DEF SlotTaken
  <2>3. Outside' = Outside
    <3>1. MoveTo(r, "reserved") /\ r \notin Outside
      BY <1>4, <2>1 DEF Reserve, Outside
    <3> QED
      BY <2>1, <3>1, OutsideAfterMove
  <2>4. \E gate \in Gates : Cardinality(SlotHolders) < gate
    BY <1>4 DEF SlotTaken, SlotAccounting
  <2> QED
    BY <2>1, <2>2, <2>3, <2>4, AbstractAdmit
<1>5. Reserve => SlotTaken
  <2>1. Reserve => ActiveRequests' = ActiveRequests + 1 /\ ActiveRequests \in Nat
    BY DEF Reserve, TypeOK
  <2>2. SlotsUnchanged => ActiveRequests' = ActiveRequests
    BY DEF SlotsUnchanged
  <2>3. SlotReleased => ActiveRequests' <= ActiveRequests
    BY DEF SlotReleased, ReleaseSlot, TypeOK
  <2> QED
    BY <2>1, <2>2, <2>3, SlotStep
<1> QED
  BY <1>1, <1>2, <1>3, <1>4, <1>5 DEF Worker, ScanEnds, ScanVisit, ScanStore, Visit

\* rejectQueueLocked is a Close of the gate.
LEMMA RejectRefines ==
  ASSUME SlotInv, ShutdownReject
  PROVE  AbstractStep
<1>1. \A r \in Requests :
        /\ req'[r] \in {"new", "checked", "enqueuing"}
             <=> req[r] \in {"new", "checked", "enqueuing"}
        /\ req'[r] \in {"reserved", "running", "delaying"}
             <=> req[r] \in {"reserved", "running", "delaying"}
  BY DEF ShutdownReject
<1>2. Outside' = Outside /\ SlotHolders' = SlotHolders
  BY <1>1 DEF Outside, SlotHolders
<1>3. scanned' = 0 /\ requestQueue' = << >>
  BY DEF ShutdownReject, passVars, SlotInv, QueueInv, PassPosition
<1>4. Waiting' = << >>
  <2>1. Waiting' = SubSeq(requestQueue', scanned' + 1, Len(requestQueue'))
    BY DEF Waiting
  <2>2. Len(requestQueue') < scanned' + 1 /\ scanned' + 1 \in Int
        /\ Len(requestQueue') \in Int
    BY <1>3, EmptySeq
  <2> QED
    BY <2>1, <2>2, SubSeqEmpty
<1> QED
  BY <1>2, <1>4, AbstractClose

\* The queue, worker, lock, gate cache and shutdown together implement the
\* first-come-first-served gate.
THEOREM QueueImplementsSlotGate == Spec => ImplementsSlotGate
<1>1. Init => Gate!Init
  <2> SUFFICES ASSUME Init PROVE Gate!Init
    OBVIOUS
  <2>1. SubSeq(requestQueue, scanned + 1, Len(requestQueue)) = << >>
    <3>1. Len(requestQueue) = 0 /\ scanned = 0
      BY EmptySeq DEF Init
    <3> QED
      BY <3>1, SubSeqEmpty
  <2> QED
    BY <2>1 DEF Init, Gate!Init, SlotHolders
<1>2. SlotInv /\ SlotInv' /\ [Next]_vars => AbstractStep
  <2> SUFFICES ASSUME SlotInv, SlotInv', [Next]_vars PROVE AbstractStep
    OBVIOUS
  <2>1. CASE GateChange
    BY <2>1, InvisibleStep
       DEF GateChange, FetchConcurrency, ConfigPostSet, ConfigPostSignal,
           CacheExpires, requestVars, queueVars, passVars
  <2>2. CASE ShutdownFlag \/ ShutdownClear \/ ShutdownBroadcast \/ ShutdownExit
    BY <2>2, InvisibleStep
       DEF ShutdownFlag, ShutdownClear, ShutdownBroadcast, ShutdownExit,
           requestVars, queueVars, passVars
  <2>3. CASE UNCHANGED vars
    BY <2>3, InvisibleStep DEF vars, requestVars, queueVars, passVars
  <2> QED
    BY <2>1, <2>2, <2>3, HandlerRefines, DispatchedRefines, WorkerRefines,
       RejectRefines DEF Next, Shutdown, Exited
<1> QED
  BY <1>1, <1>2, SlotInvariant, PTL
     DEF Spec, ImplementsSlotGate, Gate!Spec, AbstractStep
==============================================================================
