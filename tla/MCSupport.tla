------------------------------ MODULE MCSupport ------------------------------
(***************************************************************************)
(* The parts around the queue, and the queue under one gate, in one        *)
(* instance.  They share no variable, so a behaviour of this module is a   *)
(* behaviour of one of them: `part' says of which, and the variables of    *)
(* the others stay at one initial value.  A property of a part holds here  *)
(* if and only if it holds of its module.                                  *)
(***************************************************************************)
EXTENDS ResponseTracker, ConfigLock, Conversations, ConcurrencyLimits, UsageCaches,
        ConfigPersistence, Catalog, ImageHandoff

CONSTANTS
  x, y,                            \* two images
  Requests, Gates, MaxQueueSize    \* of the queue

VARIABLES
  part,
  queueReq, queueGate,             \* the queue's req and cachedGate
  claimed, requestQueue, ActiveRequests, ThrottledCount, queuePending, shuttingDown,
  queueMu, worker, scanned, passGate, snapshot, currentGate, configPost, shutdown

Queue == INSTANCE QueueDispatch WITH req <- queueReq, cachedGate <- queueGate

queueVars == <<queueReq, queueGate, claimed, requestQueue, ActiveRequests, ThrottledCount,
               queuePending, shuttingDown, queueMu, worker, scanned, passGate, snapshot,
               currentGate, configPost, shutdown>>

Parts == {"tracker", "lock", "conversations", "limits", "usage", "persistence",
          "catalog", "handoff", "queue"}

\* The values of the constants that a configuration file cannot write.
MCChatFormat == [c \in Chats |-> IF c = "anthropic" THEN "anthropic" ELSE "openai"]
MCReports == {[limit |-> 2, hardCap |-> 3], [limit |-> Nil, hardCap |-> 0]}
Image(i, m) == [image |-> i, message |-> m]
MCPayloads == {<<Image(x, 0), Image(x, 1), Image(y, 1)>>, <<Image(y, 0), Image(x, 0)>>}

Init ==
  /\ part \in Parts
  /\ TrackerInit
  /\ LockInit
  /\ ConversationInit
  /\ CatalogInit
  /\ LimitsInit
  /\ override = 1
  /\ part # "limits" => mode = "soft" /\ manual = 0
  /\ UsageInit
  /\ part # "usage" => endpoint = "status"
  /\ PersistenceInit
  /\ part # "persistence" => \A p \in Submitters : kind[p] = "config"
  /\ HandoffInit
  /\ part # "handoff" =>
       /\ maxImages = 0 /\ cacheOn /\ handoffOn
       /\ \A v \in Viewers : payload[v] = <<Image(y, 0), Image(x, 0)>>
  /\ Queue!Init

Next ==
  /\ \/ part = "tracker" /\ TrackerNext
     \/ part # "tracker" /\ UNCHANGED trackerVars
  /\ \/ part = "lock" /\ LockNext
     \/ part # "lock" /\ UNCHANGED lockVars
  /\ \/ part = "conversations" /\ ConversationNext
     \/ part # "conversations" /\ UNCHANGED convVars
  /\ \/ part = "limits" /\ LimitsNext
     \/ part # "limits" /\ UNCHANGED limitVars
  /\ \/ part = "usage" /\ UsageNext
     \/ part # "usage" /\ UNCHANGED usageVars
  /\ \/ part = "persistence" /\ PersistenceNext
     \/ part # "persistence" /\ UNCHANGED persistVars
  /\ \/ part = "catalog" /\ CatalogNext
     \/ part # "catalog" /\ UNCHANGED catalogVars
  /\ \/ part = "handoff" /\ HandoffNext
     \/ part # "handoff" /\ UNCHANGED handoffVars
  /\ \/ part = "queue" /\ Queue!Next
     \/ part # "queue" /\ UNCHANGED queueVars
  /\ UNCHANGED part

vars == <<part, trackerVars, lockVars, convVars, limitVars, usageVars, persistVars,
          catalogVars, handoffVars, queueVars>>

\* The fairness of each part, in the behaviours that are of it.  The queue gets less
\* than QueueDispatch justifies: only the requests need theirs to be strong.
Fairness ==
  /\ WF_trackerVars(part = "tracker" /\ Handler)
  /\ WF_trackerVars(part = "tracker" /\ Dispatch)
  /\ WF_trackerVars(part = "tracker" /\ Rejection)
  /\ WF_trackerVars(part = "tracker" /\ ServeHTTP)
  /\ WF_trackerVars(part = "tracker" /\ DeadlineExpires)
  /\ WF_limitVars(part = "limits" /\ FetchConcurrency /\ storing # {})
  /\ \A a \in Askers : WF_limitVars(part = "limits" /\ UseLimits(a) /\ ask[a] # "idle")
  /\ WF_limitVars(part = "limits" /\ PostConfigLimits /\ post # "idle")
  /\ WF_limitVars(part = "limits" /\ GateExpires)
  /\ \A p \in Submitters : WF_persistVars(part = "persistence" /\ Post(p) /\ poster[p] # "idle")
  /\ \A s \in Savers : WF_persistVars(part = "persistence" /\ Save(s))
  /\ \A v \in Viewers : WF_handoffVars(part = "handoff" /\ HandOff(v))
  /\ \A t \in Viewers \X Slots : WF_handoffVars(part = "handoff" /\ DescribeImage(t))
  /\ WF_queueVars(part = "queue" /\ Queue!Alive /\ Queue!Worker)
  /\ WF_queueVars(part = "queue" /\ Queue!Alive /\ Queue!ConfigPostSignal)
  /\ WF_queueVars(part = "queue" /\ Queue!Alive /\ shutdown # "off" /\ Queue!Shutdown)
  /\ \A r \in Requests : SF_queueVars(part = "queue" /\ Queue!Alive /\ Queue!RequestMoves(r))

Spec == Init /\ [][Next]_vars /\ Fairness

\* Every part keeps its types; those of the queue are checked in the queue's own run.
SupportTypeOK ==
  /\ TrackerTypeOK
  /\ LockTypeOK
  /\ ConversationTypeOK
  /\ LimitsTypeOK
  /\ UsageTypeOK
  /\ PersistenceTypeOK
  /\ CatalogTypeOK
  /\ HandoffTypeOK

\* While the gate does not change, a request that passed the entry check is served
\* to the end or refused, or the server is stopping: no signal is lost between the
\* release of a slot, the pending flag and the sleeping worker.
QueuedIsServed == Queue!QueuedIsServed

\* A shutdown that has begun ends: the broadcast reaches a worker wherever it is,
\* and workerWG.Wait returns.
ShutdownTerminates == Queue!ShutdownTerminates
==============================================================================
