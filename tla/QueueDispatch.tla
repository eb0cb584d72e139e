---------------------------- MODULE QueueDispatch ----------------------------
(***************************************************************************)
(* The concurrency queue of src/src/queue.go and the shutdown of           *)
(* src/src/handlers.go.  HTTP handlers append requests to requestQueue,    *)
(* one worker goroutine (queueWorker) sleeps on a condition variable and   *)
(* runs a ProcessQueue pass per signal, dispatched requests give their     *)
(* slot back, and the gate (how many requests may be upstream at once) is  *)
(* read through a cache that other goroutines invalidate.                  *)
(*                                                                         *)
(* Grain.  One action is one critical section of queueMu, or one read or   *)
(* write of state that queueMu does not protect: shuttingDown is an        *)
(* atomic, and the gate cache has a lock of its own, so both can change    *)
(* while a pass holds queueMu.  gateLimit is therefore two steps on a      *)
(* cache miss: compute the gate, then store it.                            *)
(*                                                                         *)
(* Not here: the branches for a negative gate (dispatchItem and the drain  *)
(* of ProcessQueue) and the branch for a cancelled context.  gateLimit     *)
(* answers 1 where its comment says -1, and a queued request's context is  *)
(* detachedContext, which is never cancelled: no state reaches them.       *)
(***************************************************************************)
EXTENDS Integers, Sequences, FiniteSets

CONSTANTS
  Requests,      \* the requests that may arrive
  Gates,         \* the values gateLimit can compute
  MaxQueueSize   \* capacity of requestQueue

ASSUME QueueAssumption ==
  /\ IsFiniteSet(Requests)
  /\ Gates # {} /\ Gates \subseteq Nat
  /\ MaxQueueSize \in Nat \ {0}

VARIABLES
  req,            \* how far each request's goroutine has come
  claimed,        \* requests whose response the timeout middleware took
  requestQueue, ActiveRequests, ThrottledCount, queuePending, shuttingDown,
  queueMu,        \* who keeps queueMu locked between two steps
  worker,         \* program counter of queueWorker and its ProcessQueue pass
  scanned,        \* items reserved so far by the pass: len(toDispatch)
  passGate,       \* the gate the pass started with
  snapshot,       \* the gate a cache miss has computed and not yet stored
  currentGate,    \* what gateLimit would compute from the configuration now
  cachedGate,     \* its cache, NoEntry when invalidated or older than 1 s
  configPost,     \* "signal" while HandleConfigPost still owes signalQueue
  shutdown        \* program counter of Shutdown

requestVars == <<req, claimed>>
queueVars   == <<requestQueue, ActiveRequests, ThrottledCount>>
passVars    == <<scanned, passGate, snapshot>>
gateVars    == <<currentGate, cachedGate, configPost>>
stopVars    == <<shuttingDown, shutdown>>
vars == <<requestVars, queueVars, queuePending, queueMu, worker, passVars,
          gateVars, stopVars>>

NoEntry == -1

RequestStates ==
  {"new", "checked", "enqueuing", "queued", "reserved", "running",
   "delaying", "freed", "finished", "refused429", "refused503", "abandoned"}
WorkerStates ==
  {"loop", "asleep", "entered", "locking", "opening", "scan", "rereading",
   "launch", "resignal", "exited"}
ShutdownStates ==
  {"off", "flagged", "cleared", "joining", "draining", "exited"}

\* The requests counted by ActiveRequests: from the reservation to the release.
SlotHolders == {r \in Requests : req[r] \in {"reserved", "running", "delaying"}}

TypeOK ==
  /\ req \in [Requests -> RequestStates]
  /\ claimed \subseteq Requests
  /\ requestQueue \in Seq(Requests)
  /\ ActiveRequests \in Nat
  /\ ThrottledCount \in Nat
  /\ queuePending \in BOOLEAN
  /\ shuttingDown \in BOOLEAN
  /\ queueMu \in {"free", "worker", "handler"}
  /\ worker \in WorkerStates
  /\ scanned \in Nat
  /\ passGate \in Gates \cup {NoEntry}
  /\ snapshot \in Gates \cup {NoEntry}
  /\ currentGate \in Gates
  /\ cachedGate \in Gates \cup {NoEntry}
  /\ configPost \in {"idle", "signal"}
  /\ shutdown \in ShutdownStates

Init ==
  /\ req = [r \in Requests |-> "new"]
  /\ claimed = {}
  /\ requestQueue = << >>
  /\ ActiveRequests = 0
  /\ ThrottledCount = 0
  /\ queuePending = FALSE
  /\ shuttingDown = FALSE
  /\ queueMu = "free"
  /\ worker = "loop"
  /\ scanned = 0
  /\ passGate = NoEntry
  /\ snapshot = NoEntry
  /\ currentGate \in Gates
  /\ cachedGate = NoEntry
  /\ configPost = "idle"
  /\ shutdown = "off"

MoveTo(r, state) == req' = [req EXCEPT ![r] = state]

\* trySignalQueueLocked by a caller after whose own step the worker is at pc.
\* Signal wakes the worker only if it sleeps in queueCond.Wait.
TrySignalQueueLocked(pc) ==
  IF queuePending \/ shuttingDown
  THEN /\ worker' = pc
       /\ UNCHANGED queuePending
  ELSE /\ worker' = IF pc = "asleep" THEN "loop" ELSE pc
       /\ queuePending' = TRUE

------------------------------------------------------------------------------
(* The handler: TryEnqueueOrDispatch. *)

\* The entry check reads shuttingDown before queueMu is taken.
RefuseAtEntry(r) ==
  /\ req[r] = "new" /\ shuttingDown
  /\ MoveTo(r, "refused503")
  /\ UNCHANGED <<claimed, queueVars, queuePending, queueMu, worker, passVars,
                 gateVars, stopVars>>

PassEntryCheck(r) ==
  /\ req[r] = "new" /\ ~shuttingDown
  /\ MoveTo(r, "checked")
  /\ UNCHANGED <<claimed, queueVars, queuePending, queueMu, worker, passVars,
                 gateVars, stopVars>>

\* Mutant: the newcomer goes to the head of the queue.
AppendOrRefuseAtHead(r) ==
  \/ /\ Len(requestQueue) >= MaxQueueSize
     /\ ThrottledCount' = ThrottledCount + 1
     /\ MoveTo(r, "refused429")
     /\ UNCHANGED <<requestQueue, queuePending, worker>>
  \/ /\ Len(requestQueue) < MaxQueueSize
     /\ requestQueue' = <<r>> \o requestQueue
     /\ MoveTo(r, "queued")
     /\ TrySignalQueueLocked(worker)
     /\ UNCHANGED ThrottledCount

\* Full: count and refuse with 429.  Room: append and signal the worker.
AppendOrRefuse(r) ==
  \/ /\ Len(requestQueue) >= MaxQueueSize
     /\ ThrottledCount' = ThrottledCount + 1
     /\ MoveTo(r, "refused429")
     /\ UNCHANGED <<requestQueue, queuePending, worker>>
  \/ /\ Len(requestQueue) < MaxQueueSize
     /\ requestQueue' = Append(requestQueue, r)
     /\ MoveTo(r, "queued")
     /\ TrySignalQueueLocked(worker)
     /\ UNCHANGED ThrottledCount

\* queueMu held throughout, gateLimit answered by its cache.
Enqueue(r) ==
  /\ req[r] = "checked" /\ queueMu = "free"
  /\ cachedGate # NoEntry
  /\ AppendOrRefuse(r)
  /\ UNCHANGED <<claimed, ActiveRequests, queueMu, passVars, gateVars, stopVars>>

\* The cache missed: the gate is computed with queueMu held, then stored.
EnqueueMiss(r) ==
  /\ req[r] = "checked" /\ queueMu = "free"
  /\ cachedGate = NoEntry
  /\ MoveTo(r, "enqueuing")
  /\ queueMu' = "handler"
  /\ snapshot' = currentGate
  /\ UNCHANGED <<claimed, queueVars, queuePending, worker, scanned, passGate,
                 gateVars, stopVars>>

EnqueueStore(r) ==
  /\ req[r] = "enqueuing"
  /\ cachedGate' = snapshot
  /\ snapshot' = NoEntry
  /\ queueMu' = "free"
  /\ AppendOrRefuse(r)
  /\ UNCHANGED <<claimed, ActiveRequests, scanned, passGate, currentGate,
                 configPost, stopVars>>

\* ServeHTTP's deadline passes while the request waits: Claim succeeds and the
\* client gets its 504; the item stays where it is.
TimeoutWaiting(r) ==
  /\ req[r] \in {"checked", "enqueuing", "queued", "reserved"}
  /\ claimed' = claimed \cup {r}
  /\ UNCHANGED <<req, queueVars, queuePending, queueMu, worker, passVars,
                 gateVars, stopVars>>

------------------------------------------------------------------------------
(* The worker: queueWorker and ProcessQueue. *)

\* One locked turn of the loop: sleep (Wait gives queueMu back), exit, or
\* consume the signal.
WorkerTurn ==
  /\ worker = "loop" /\ queueMu = "free"
  /\ \/ /\ ~queuePending /\ ~shuttingDown
        /\ worker' = "asleep"
        /\ UNCHANGED queuePending
     \/ /\ shuttingDown
        /\ worker' = "exited"
        /\ queuePending' = FALSE
     \/ /\ queuePending /\ ~shuttingDown
        /\ worker' = "entered"
        /\ queuePending' = FALSE
  /\ UNCHANGED <<requestVars, queueVars, queueMu, passVars, gateVars, stopVars>>

\* ProcessQueue's first check, before it locks.
PassEntered ==
  /\ worker = "entered"
  /\ worker' = IF shuttingDown THEN "loop" ELSE "locking"
  /\ UNCHANGED <<requestVars, queueVars, queuePending, queueMu, passVars,
                 gateVars, stopVars>>

\* Lock and read the gate of this pass.
PassOpen ==
  /\ worker = "locking" /\ queueMu = "free"
  /\ cachedGate # NoEntry
  /\ queueMu' = "worker"
  /\ passGate' = cachedGate
  /\ worker' = "scan"
  /\ UNCHANGED <<requestVars, queueVars, queuePending, scanned, snapshot,
                 gateVars, stopVars>>

PassOpenMiss ==
  /\ worker = "locking" /\ queueMu = "free"
  /\ cachedGate = NoEntry
  /\ queueMu' = "worker"
  /\ snapshot' = currentGate
  /\ worker' = "opening"
  /\ UNCHANGED <<requestVars, queueVars, queuePending, scanned, passGate,
                 gateVars, stopVars>>

PassOpenStore ==
  /\ worker = "opening"
  /\ cachedGate' = snapshot
  /\ passGate' = snapshot
  /\ snapshot' = NoEntry
  /\ worker' = "scan"
  /\ UNCHANGED <<requestVars, queueVars, queuePending, queueMu, scanned,
                 currentGate, configPost, stopVars>>

\* Mutant: the queue is cut one item short of the reserved prefix.
EndPassShort ==
  /\ requestQueue' = SubSeq(requestQueue, IF scanned = 0 THEN 1 ELSE scanned,
                            Len(requestQueue))
  /\ queueMu' = "free"
  /\ worker' = IF scanned > 0 THEN "launch" ELSE "loop"
  /\ scanned' = 0
  /\ passGate' = NoEntry
  /\ UNCHANGED <<req, ActiveRequests>>

\* The loop ends: drop the reserved prefix and unlock.  Only a pass that
\* reserved something has goroutines to launch and signals again.
EndPass ==
  /\ requestQueue' = SubSeq(requestQueue, scanned + 1, Len(requestQueue))
  /\ queueMu' = "free"
  /\ worker' = IF scanned > 0 THEN "launch" ELSE "loop"
  /\ scanned' = 0
  /\ passGate' = NoEntry
  /\ UNCHANGED <<req, ActiveRequests>>

\* Take a slot for the next item; it leaves the queue when the pass ends.
Reserve ==
  /\ MoveTo(requestQueue[scanned + 1], "reserved")
  /\ ActiveRequests' = ActiveRequests + 1
  /\ scanned' = scanned + 1
  /\ worker' = "scan"
  /\ UNCHANGED <<requestQueue, queueMu, passGate>>

\* Mutant: one slot too many, > for >=.
VisitOneMore(gate) ==
  \/ /\ gate # passGate \/ ActiveRequests > gate
     /\ EndPass
  \/ /\ gate = passGate /\ ActiveRequests <= gate
     /\ Reserve

\* Mutant: the pass goes on under the gate it started with.
VisitPassGate(gate) ==
  \/ /\ ActiveRequests >= passGate
     /\ EndPass
  \/ /\ ActiveRequests < passGate
     /\ Reserve

\* The loop body once gateLimit has answered gate.
Visit(gate) ==
  \/ /\ gate # passGate \/ ActiveRequests >= gate
     /\ EndPass
  \/ /\ gate = passGate /\ ActiveRequests < gate
     /\ Reserve

ScanEnds ==
  /\ worker = "scan"
  /\ shuttingDown \/ scanned = Len(requestQueue)
  /\ EndPass
  /\ UNCHANGED <<claimed, ThrottledCount, queuePending, snapshot, gateVars,
                 stopVars>>

\* Mutant: the loop does not look at shuttingDown again.
ScanVisitBlind ==
  /\ worker = "scan" /\ scanned < Len(requestQueue)
  /\ cachedGate # NoEntry
  /\ Visit(cachedGate)
  /\ UNCHANGED <<claimed, ThrottledCount, queuePending, snapshot, gateVars,
                 stopVars>>

ScanVisit ==
  /\ worker = "scan" /\ ~shuttingDown /\ scanned < Len(requestQueue)
  /\ cachedGate # NoEntry
  /\ Visit(cachedGate)
  /\ UNCHANGED <<claimed, ThrottledCount, queuePending, snapshot, gateVars,
                 stopVars>>

ScanMiss ==
  /\ worker = "scan" /\ ~shuttingDown /\ scanned < Len(requestQueue)
  /\ cachedGate = NoEntry
  /\ snapshot' = currentGate
  /\ worker' = "rereading"
  /\ UNCHANGED <<requestVars, queueVars, queuePending, queueMu, scanned,
                 passGate, gateVars, stopVars>>

ScanStore ==
  /\ worker = "rereading"
  /\ cachedGate' = snapshot
  /\ snapshot' = NoEntry
  /\ Visit(snapshot)
  /\ UNCHANGED <<claimed, ThrottledCount, queuePending, currentGate,
                 configPost, stopVars>>

\* go p.runDispatch(item) for every reserved item, queueMu not held.
Launch ==
  /\ worker = "launch"
  /\ req' = [r \in Requests |-> IF req[r] = "reserved" THEN "running" ELSE req[r]]
  /\ worker' = "resignal"
  /\ UNCHANGED <<claimed, queueVars, queuePending, queueMu, passVars, gateVars,
                 stopVars>>

Resignal ==
  /\ worker = "resignal" /\ queueMu = "free"
  /\ TrySignalQueueLocked("loop")
  /\ UNCHANGED <<requestVars, queueVars, queueMu, passVars, gateVars, stopVars>>

Worker ==
  \/ WorkerTurn \/ PassEntered \/ PassOpen \/ PassOpenMiss \/ PassOpenStore
  \/ ScanEnds \/ ScanVisit \/ ScanMiss \/ ScanStore \/ Launch \/ Resignal

------------------------------------------------------------------------------
(* A dispatched request ends (or panics): runDispatch's OnRequestComplete. *)

\* "if p.ActiveRequests > 0 { p.ActiveRequests-- }" under queueMu.
ReleaseSlot(r) ==
  /\ queueMu = "free"
  /\ ActiveRequests' = IF ActiveRequests > 0 THEN ActiveRequests - 1
                                             ELSE ActiveRequests
  /\ MoveTo(r, "freed")
  /\ UNCHANGED <<claimed, requestQueue, ThrottledCount, queuePending, queueMu,
                 worker, passVars, gateVars, stopVars>>

\* No Slot Free Delay, or shutting down: release in the request's goroutine.
\* The delay is configuration that may change at any time: either may happen.
CompleteNow(r) == req[r] = "running" /\ ReleaseSlot(r)

\* Mutant: the slot is given back before the delay as well as after it.
CompleteDelayedTwice(r) ==
  /\ req[r] = "running" /\ ~shuttingDown /\ queueMu = "free"
  /\ MoveTo(r, "delaying")
  /\ ActiveRequests' = IF ActiveRequests > 0 THEN ActiveRequests - 1
                                             ELSE ActiveRequests
  /\ UNCHANGED <<claimed, requestQueue, ThrottledCount, queuePending, queueMu,
                 worker, passVars, gateVars, stopVars>>

CompleteDelayed(r) ==
  /\ req[r] = "running" /\ ~shuttingDown
  /\ MoveTo(r, "delaying")
  /\ UNCHANGED <<claimed, queueVars, queuePending, queueMu, worker, passVars,
                 gateVars, stopVars>>

\* The delay's timer fires, or Shutdown closed queueDone.
DelayEnds(r) == req[r] = "delaying" /\ ReleaseSlot(r)

\* Mutant: the slot is released and nobody is told.
SignalFreedSilently(r) ==
  /\ req[r] = "freed" /\ queueMu = "free"
  /\ MoveTo(r, "finished")
  /\ UNCHANGED <<claimed, queueVars, queuePending, queueMu, worker, passVars,
                 gateVars, stopVars>>

\* signalQueue, a critical section of its own after the release.
SignalFreed(r) ==
  /\ req[r] = "freed" /\ queueMu = "free"
  /\ MoveTo(r, "finished")
  /\ TrySignalQueueLocked(worker)
  /\ UNCHANGED <<claimed, queueVars, queueMu, passVars, gateVars, stopVars>>

------------------------------------------------------------------------------
(* The gate. *)

\* Mutant: the invalidation resets the cached value and not its timestamp.
FetchConcurrencyKeepsTime ==
  /\ currentGate' \in Gates
  /\ cachedGate' = 0
  /\ UNCHANGED <<requestVars, queueVars, queuePending, queueMu, worker,
                 passVars, configPost, stopVars>>

\* FetchConcurrency stores new limits and invalidates the cache.  It does not
\* signal the worker.
FetchConcurrency ==
  /\ currentGate' \in Gates
  /\ cachedGate' = NoEntry
  /\ UNCHANGED <<requestVars, queueVars, queuePending, queueMu, worker,
                 passVars, configPost, stopVars>>

\* HandleConfigPost changes the mode or the manual limit and invalidates the
\* cache under configMu, and signals the queue after the unlock.
ConfigPostSet ==
  /\ configPost = "idle"
  /\ currentGate' \in Gates
  /\ cachedGate' = NoEntry
  /\ configPost' = "signal"
  /\ UNCHANGED <<requestVars, queueVars, queuePending, queueMu, worker,
                 passVars, stopVars>>

ConfigPostSignal ==
  /\ configPost = "signal" /\ queueMu = "free"
  /\ configPost' = "idle"
  /\ TrySignalQueueLocked(worker)
  /\ UNCHANGED <<requestVars, queueVars, queueMu, passVars, currentGate,
                 cachedGate, stopVars>>

\* A second has passed since the cache was filled.
CacheExpires ==
  /\ cachedGate # NoEntry
  /\ cachedGate' = NoEntry
  /\ UNCHANGED <<requestVars, queueVars, queuePending, queueMu, worker,
                 passVars, currentGate, configPost, stopVars>>

------------------------------------------------------------------------------
(* Shutdown. *)

ShutdownFlag ==
  /\ shutdown = "off"
  /\ shutdown' = "flagged"
  /\ shuttingDown' = TRUE
  /\ UNCHANGED <<requestVars, queueVars, queuePending, queueMu, worker,
                 passVars, gateVars>>

ShutdownClear ==
  /\ shutdown = "flagged" /\ queueMu = "free"
  /\ shutdown' = "cleared"
  /\ queuePending' = FALSE
  /\ UNCHANGED <<requestVars, queueVars, queueMu, worker, passVars, gateVars,
                 shuttingDown>>

\* Mutant: the broadcast is missing.
ShutdownNoBroadcast ==
  /\ shutdown = "cleared"
  /\ shutdown' = "joining"
  /\ UNCHANGED <<requestVars, queueVars, queuePending, queueMu, worker,
                 passVars, gateVars, shuttingDown>>

\* queueCond.Broadcast, queueMu not held.
ShutdownBroadcast ==
  /\ shutdown = "cleared"
  /\ shutdown' = "joining"
  /\ worker' = IF worker = "asleep" THEN "loop" ELSE worker
  /\ UNCHANGED <<requestVars, queueVars, queuePending, queueMu, passVars,
                 gateVars, shuttingDown>>

\* workerWG.Wait, then rejectQueueLocked: an item whose response is already
\* committed is dropped without closing its Done channel.
ShutdownReject ==
  /\ shutdown = "joining" /\ worker = "exited" /\ queueMu = "free"
  /\ shutdown' = "draining"
  /\ req' = [r \in Requests |->
               IF req[r] # "queued" THEN req[r]
               ELSE IF r \in claimed THEN "abandoned" ELSE "refused503"]
  /\ requestQueue' = << >>
  /\ UNCHANGED <<claimed, ActiveRequests, ThrottledCount, queuePending, queueMu,
                 worker, passVars, gateVars, shuttingDown>>

\* No active request is left, or the 5 s deadline passed; the process exits.
ShutdownExit ==
  /\ shutdown = "draining"
  /\ shutdown' = "exited"
  /\ UNCHANGED <<requestVars, queueVars, queuePending, queueMu, worker,
                 passVars, gateVars, shuttingDown>>

Shutdown ==
  \/ ShutdownFlag \/ ShutdownClear \/ ShutdownBroadcast
  \/ ShutdownReject \/ ShutdownExit

------------------------------------------------------------------------------

Handler(r) ==
  \/ RefuseAtEntry(r) \/ PassEntryCheck(r)
  \/ Enqueue(r) \/ EnqueueMiss(r) \/ EnqueueStore(r) \/ TimeoutWaiting(r)

Dispatched(r) ==
  \/ CompleteNow(r) \/ CompleteDelayed(r) \/ DelayEnds(r) \/ SignalFreed(r)

GateChange ==
  FetchConcurrency \/ ConfigPostSet \/ ConfigPostSignal \/ CacheExpires

\* The process is gone: nothing moves any more.
Exited == shutdown = "exited" /\ UNCHANGED vars

Next ==
  \/ /\ shutdown # "exited"
     /\ \/ \E r \in Requests : Handler(r) \/ Dispatched(r)
        \/ Worker
        \/ GateChange
        \/ Shutdown
  \/ Exited

Spec == Init /\ [][Next]_vars

(***************************************************************************)
(* Fairness, one conjunct per goroutine.  A goroutine that can move does,  *)
(* also when it waits for queueMu and others keep taking it: a sync.Mutex  *)
(* in starvation mode hands the lock to the longest waiter, so the         *)
(* conjuncts are strong.  An upstream call ends (the upstream client has   *)
(* timeouts).  Arrivals, client timeouts, gate changes and the start of a  *)
(* shutdown need never happen.                                             *)
(***************************************************************************)
Alive == shutdown # "exited"

RequestMoves(r) == Enqueue(r) \/ EnqueueMiss(r) \/ EnqueueStore(r) \/ Dispatched(r)

Fairness ==
  /\ SF_vars(Alive /\ Worker)
  /\ SF_vars(Alive /\ ConfigPostSignal)
  /\ SF_vars(Alive /\ shutdown # "off" /\ Shutdown)
  /\ \A r \in Requests : SF_vars(Alive /\ RequestMoves(r))

FairSpec == Spec /\ Fairness

------------------------------------------------------------------------------
(* Properties. *)

\* ActiveRequests counts exactly the requests that hold a slot: no path of
\* runDispatch or of the delay goroutine leaks a slot or frees one twice, and
\* the "> 0" guard of the decrement never hides an error.
SlotAccounting == ActiveRequests = Cardinality(SlotHolders)

\* An item has one owner.  What the pass has not reached is exactly what waits,
\* each item once; what it has reached holds a slot.  A broken hand-over would
\* dispatch an item twice, close its Done channel twice, or lose it.
ExclusiveOwnership ==
  /\ scanned <= Len(requestQueue)
  /\ \A i, j \in 1..Len(requestQueue) :
       requestQueue[i] = requestQueue[j] => i = j
  /\ \A i \in 1..scanned : req[requestQueue[i]] = "reserved"
  /\ {r \in Requests : req[r] = "queued"} =
       {requestQueue[i] : i \in scanned + 1 .. Len(requestQueue)}

\* No request beyond the largest gate the configuration allows is upstream or
\* owns a slot, whatever the order of gate changes, expiries and completions.
InFlightBounded == \E gate \in Gates : Cardinality(SlotHolders) <= gate

\* A slot is only reserved below the gate that gateLimit has just answered: a
\* pass that started under a larger gate does not go on with it.
GateRespected ==
  [][ActiveRequests' > ActiveRequests => ActiveRequests' <= cachedGate']_vars

\* From the moment Shutdown has held queueMu once, no request takes a slot:
\* neither a pass that began before the flag was set nor an item appended
\* after it feeds the set that the drain loop waits for.
StoppingOnlyShrinks ==
  [][shutdown \notin {"off", "flagged"} => SlotHolders' \subseteq SlotHolders]_vars

\* The queue implements the first-come-first-served gate of SlotGate.  Items a
\* pass has reserved are still in requestQueue but no longer wait.
Gate == INSTANCE SlotGate WITH
  outside   <- {r \in Requests : req[r] \in {"new", "checked", "enqueuing"}},
  waiting   <- SubSeq(requestQueue, scanned + 1, Len(requestQueue)),
  inService <- SlotHolders

\* Requests get slots in the order in which they joined, one slot each, and
\* only while fewer than a configured gate hold one.
ImplementsSlotGate == Gate!Spec

\* While the gate does not change, a request that passed the entry check is
\* served to the end or refused, or the server is stopping: no signal is lost
\* between the release of a slot, the pending flag and the sleeping worker.
QueuedIsServed ==
  \A r \in Requests :
    req[r] = "checked" ~> (shuttingDown \/ req[r] \in {"finished", "refused429"})

\* A shutdown that has begun ends: the broadcast reaches a worker wherever it
\* is, and workerWG.Wait returns.
ShutdownTerminates == shuttingDown ~> shutdown = "exited"

\* Stated by the comment in Shutdown: "No new items can arrive because
\* handlers check shuttingDown first and TryEnqueueOrDispatch rejects when
\* true".  Nothing is in the queue after it was rejected.
NothingQueuedAfterReject == shutdown = "draining" => requestQueue = << >>

\* Stated by the comment in HandleChatCompletions: "We keep the timeout
\* deadline".  A request whose deadline passed in the queue gets no slot.
NoSlotAfterTimeout ==
  [][\A r \in claimed : req'[r] = "reserved" => req[r] = "reserved"]_vars
==============================================================================
