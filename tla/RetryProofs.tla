---------------------------- MODULE RetryProofs ----------------------------
(***************************************************************************)
(* Proofs about KeyPool and RetryPipeline, for any requests, pool sizes,   *)
(* modes and numbers of attempts.                                          *)
(***************************************************************************)
EXTENDS RetryPipeline, WellFoundedInduction, TLAPS

\* The round-robin loop passes every entry of the pool.
LEMMA LoopPassesEveryEntry ==
  ASSUME NEW p, IsPool(p), NEW e \in Entries(p)
  PROVE  \E i \in Entries(p) : EntryAt(p, i) = e
<1>1. p.size \in Nat /\ p.index \in 0 .. p.size - 1 /\ e \in 0 .. p.size - 1
  BY DEF IsPool, Entries
<1>2. CASE p.index <= e
  <2>1. e - p.index \in Entries(p) /\ EntryAt(p, e - p.index) = e
    BY <1>1, <1>2 DEF Entries, EntryAt
  <2> QED
    BY <2>1
<1>3. CASE e < p.index
  <2>1. /\ e - p.index + p.size \in Entries(p)
        /\ EntryAt(p, e - p.index + p.size) = e
    BY <1>1, <1>3 DEF Entries, EntryAt
  <2> QED
    BY <2>1
<1> QED
  BY <1>1, <1>2, <1>3

\* If the pool has a usable entry, the loop has a first turn that meets one.
LEMMA FirstUsableExists ==
  ASSUME NEW p, IsPool(p), Usable(p) # {}
  PROVE  /\ FirstUsable(p) \in Entries(p)
         /\ EntryAt(p, FirstUsable(p)) \in Usable(p)
<1> DEFINE Turns == {i \in Entries(p) : EntryAt(p, i) \in Usable(p)}
<1>1. Turns # {}
  BY LoopPassesEveryEntry DEF Usable
<1>2. Turns \subseteq Nat
  BY DEF Entries
<1>3. PICK i \in Turns : \A j \in Turns : ~ (<<j, i>> \in OpToRel(<, Nat))
  BY <1>1, <1>2, WFMin, NatLessThanWellFounded
<1>4. \A j \in 0 .. i - 1 : EntryAt(p, j) \notin Usable(p)
  <2> SUFFICES ASSUME NEW j \in 0 .. i - 1, EntryAt(p, j) \in Usable(p)
               PROVE  FALSE
    OBVIOUS
  <2>1. p.size \in Nat /\ i \in 0 .. p.size - 1
    BY DEF IsPool, Entries
  <2>2. i \in Nat /\ j \in Nat /\ j < i /\ j \in Entries(p)
    BY <2>1 DEF Entries
  <2>3. <<j, i>> \in OpToRel(<, Nat)
    BY <2>2 DEF OpToRel
  <2> QED
    BY <1>3, <2>2, <2>3
<1> QED
  BY <1>3, <1>4 DEF FirstUsable

\* Acquire hands out an entry outside its cooldown, and nothing only if every
\* entry is inside its cooldown.
THEOREM AcquireServesWhileItCan ==
  ASSUME NEW p, IsPool(p), NEW preferred
  PROVE  IF Usable(p) = {} THEN Acquire(p, preferred) = NoSlot
                           ELSE Acquire(p, preferred) \in Usable(p)
BY FirstUsableExists DEF Acquire

\* What Acquire hands out is an index or NoSlot, and these differ.
LEMMA SlotType ==
  ASSUME NEW p, IsPool(p), NEW preferred
  PROVE  /\ Acquire(p, preferred) \in Nat \cup {NoSlot}
         /\ Acquire(p, preferred) = NoSlot <=> Usable(p) = {}
<1>1. NoSlot \notin Nat /\ Usable(p) \subseteq Nat
  BY DEF NoSlot, Usable, Entries
<1> QED
  BY <1>1, AcquireServesWhileItCan

\* Every method of the pool keeps it a pool.
LEMMA PoolMethods ==
  ASSUME NEW p, IsPool(p), NEW i \in Nat \cup {NoSlot}
  PROVE  /\ IsPool(Acquired(p, i))
         /\ Acquired(p, i).cooling = p.cooling /\ Acquired(p, i).size = p.size
         /\ IsPool(MarkUnhealthy(p, i)) /\ MarkUnhealthy(p, i).size = p.size
         /\ MarkUnhealthy(p, i).cooling \subseteq p.cooling \cup {i}
         /\ p.cooling \subseteq MarkUnhealthy(p, i).cooling
         /\ IsPool(MarkHealthy(p, i)) /\ MarkHealthy(p, i).size = p.size
         /\ MarkHealthy(p, i).cooling = p.cooling \ {i}
<1>1. /\ IsPool(Acquired(p, i))
      /\ Acquired(p, i).cooling = p.cooling /\ Acquired(p, i).size = p.size
  <2>1. CASE i \in Usable(p) \/ Usable(p) = {}
    BY <2>1 DEF Acquired
  <2>2. CASE i \notin Usable(p) /\ Usable(p) # {}
    <3>1. FirstUsable(p) \in Entries(p)
      BY <2>2, FirstUsableExists
    <3>2. EntryAt(p, FirstUsable(p) + 1) \in Entries(p)
      BY <3>1 DEF IsPool, Entries, EntryAt
    <3> QED
      BY <2>2, <3>2 DEF Acquired, IsPool, Entries
  <2> QED
    BY <2>1, <2>2
<1>2. /\ IsPool(MarkUnhealthy(p, i)) /\ MarkUnhealthy(p, i).size = p.size
      /\ MarkUnhealthy(p, i).cooling \subseteq p.cooling \cup {i}
      /\ p.cooling \subseteq MarkUnhealthy(p, i).cooling
  BY DEF MarkUnhealthy, IsPool, Entries
<1>3. /\ IsPool(MarkHealthy(p, i)) /\ MarkHealthy(p, i).size = p.size
      /\ MarkHealthy(p, i).cooling = p.cooling \ {i}
  BY DEF MarkHealthy, IsPool, Entries
<1> QED
  BY <1>1, <1>2, <1>3

------------------------------------------------------------------------------
(* Types. *)

\* Writing to a response keeps it a response.
LEMMA WritesType ==
  ASSUME NEW a \in Answers
  PROVE  /\ SSEHeaders(a) \in Answers
         /\ Data(a) \in Answers
         /\ Whole(a) \in Answers
         /\ ErrorEvent(a) \in Answers
         /\ WriteError(a) \in Answers
<1>1. SSEHeaders(a) \in Answers
  BY DEF SSEHeaders, Answers, ContentTypes
<1>2. Data(a) \in Answers
  BY DEF Data, Lost, Answers
<1>3. a.whole + 1 \in Nat /\ a.errors + 1 \in Nat
  BY DEF Answers
<1>4. \A n \in Nat : [a EXCEPT !.data = TRUE, !.whole = n] \in Answers
  BY DEF Answers
<1>5. \A n \in Nat : [a EXCEPT !.errors = n] \in Answers
  BY DEF Answers
<1>6. \A n \in Nat : [a EXCEPT !.head = "error", !.errors = n] \in Answers
  BY DEF Answers
<1> QED
  BY <1>1, <1>2, <1>3, <1>4, <1>5, <1>6 DEF Whole, ErrorEvent, WriteError

\* Fresh locals are of their type.
LEMMA LocalsType ==
  ASSUME NEW pc \in {"new", "prepare", "done"}
  PROVE  Locals(pc) \in Tasks
BY DEF Tasks, Locals, Statuses, NoSlot

\* Replacing one request's locals or response keeps the type of all.
LEMMA OneRequestType ==
  ASSUME TypeOK, NEW r \in Requests
  PROVE  /\ \A t \in Tasks : Becomes(r, t) => task' \in [Requests -> Tasks]
         /\ \A a \in Answers : Writes(r, a) => answer' \in [Requests -> Answers]
         /\ Finish(r) => task' \in [Requests -> Tasks]
         /\ BumpThrottled(r) => throttles' \in [Requests -> Nat]
BY LocalsType DEF TypeOK, Becomes, Writes, Finish, BumpThrottled

\* A request that moves keeps its locals in their type.
LEMMA GoToType ==
  ASSUME TypeOK, NEW r \in Requests,
         NEW pc \in {"mark", "rotate", "sent", "body", "streaming", "tail"},
         GoTo(r, pc)
  PROVE  task' \in [Requests -> Tasks]
<1>1. [task[r] EXCEPT !.pc = pc] \in Tasks
  BY DEF TypeOK, Tasks
<1> QED
  BY <1>1, OneRequestType DEF GoTo

\* The initial state is of the types.
LEMMA TypeInit == Init => TypeOK
<1> SUFFICES ASSUME Init PROVE TypeOK
  OBVIOUS
<1>1. IsPool(pool)
  BY RetryAssumption DEF Init, NewKeyPool, IsPool, Entries
<1>2. NoAnswer \in Answers
  BY DEF NoAnswer, Answers, ContentTypes
<1> QED
  BY <1>1, <1>2, LocalsType DEF Init, TypeOK

\* The end of a failed attempt keeps the types.
LEMMA EndAttemptType ==
  ASSUME TypeOK, NEW r \in Requests, NEW status \in Statuses,
         NEW body \in BOOLEAN, EndAttempt(r, status, body)
  PROVE  task' \in [Requests -> Tasks] /\ answer' \in [Requests -> Answers]
<1>0. task[r] \in Tasks /\ answer[r] \in Answers
  BY DEF TypeOK
<1>1. CASE ~IsLast(r) /\ Retry(r, status, body) /\ UNCHANGED answer
  <2>1. /\ task[r].attempt + 1 \in Nat \ {0}
        /\ (IF r \in OpenAI THEN 0 ELSE status) \in Statuses
        /\ (body /\ r \in Anthropic) \in BOOLEAN
    BY <1>0 DEF Tasks, Statuses
  <2>2. \A n \in Nat \ {0}, s \in Statuses, b \in BOOLEAN :
          [task[r] EXCEPT !.pc = "attempt", !.attempt = n, !.lastStatus = s,
                          !.lastBody = b] \in Tasks
    BY <1>0 DEF Tasks
  <2> QED
    BY <1>1, <2>1, <2>2, OneRequestType DEF Retry, TypeOK
<1>2. CASE Writes(r, WriteError(answer[r])) /\ Finish(r)
  BY <1>0, <1>2, WritesType, OneRequestType
<1>3. CASE /\ Becomes(r, [task[r] EXCEPT !.pc = "tail", !.lastStatus = status,
                                         !.lastBody = body])
           /\ UNCHANGED answer
  <2>1. [task[r] EXCEPT !.pc = "tail", !.lastStatus = status,
                        !.lastBody = body] \in Tasks
    BY <1>0 DEF Tasks
  <2> QED
    BY <1>3, <2>1, OneRequestType DEF TypeOK
<1> QED
  BY <1>1, <1>2, <1>3 DEF EndAttempt

\* The history variable holds requests.
LEMMA HoldersType == TypeOK /\ [Next]_vars => holders' \subseteq Requests
<1> SUFFICES ASSUME TypeOK, [Next]_vars PROVE holders' \subseteq Requests
  OBVIOUS
<1>1. holders \subseteq Requests
  BY DEF TypeOK
<1>2. CASE \E r \in Requests : Dispatch(r)
  BY <1>1, <1>2 DEF Dispatch, HoldsKey
<1>3. CASE \E r \in Requests : TimeoutClaims(r) \/ ServeHTTPReturns(r)
  BY <1>1, <1>3 DEF TimeoutClaims, ServeHTTPReturns
<1>4. CASE Environment \/ UNCHANGED vars
  BY <1>1, <1>4 DEF Environment, CooldownEnds, ReplacePool, DashboardAcquire,
                    DashboardMark, vars
<1> QED
  BY <1>2, <1>3, <1>4 DEF Next

\* Every step keeps the types.
LEMMA TypeStep == TypeOK /\ [Next]_vars => TypeOK'
<1> SUFFICES ASSUME TypeOK, [Next]_vars PROVE TypeOK'
  OBVIOUS
<1>0. /\ \A r \in Requests : /\ task[r] \in Tasks /\ answer[r] \in Answers
                             /\ task[r].key \in Nat \cup {NoSlot}
      /\ IsPool(pool) /\ NoSlot \in Nat \cup {NoSlot}
  BY DEF TypeOK, Tasks
<1> USE HoldersType
<1>1. ASSUME NEW r \in Requests, BeginWithClientKey(r) PROVE TypeOK'
  <2>1. [Locals("prepare") EXCEPT
           !.client = TRUE, !.key = IF r \in OpenAI THEN 0 ELSE NoSlot] \in Tasks
    BY LocalsType DEF Tasks
  <2> QED
    BY <1>1, <2>1, OneRequestType DEF BeginWithClientKey, TypeOK
<1>2. ASSUME NEW r \in Requests, BeginWithPoolKey(r) PROVE TypeOK'
  <2>1. PICK preferred \in Entries(pool) \cup {NoSlot} :
          /\ pool' = Acquired(pool, preferred)
          /\ Becomes(r, [Locals("prepare") EXCEPT !.key = Acquire(pool, preferred)])
    BY <1>2 DEF BeginWithPoolKey
  <2>2. [Locals("prepare") EXCEPT !.key = Acquire(pool, preferred)] \in Tasks
    BY <1>0, LocalsType, SlotType DEF Tasks
  <2>3. IsPool(pool')
    BY <1>0, <2>1, PoolMethods DEF Entries
  <2> QED
    BY <1>2, <2>1, <2>2, <2>3, OneRequestType DEF BeginWithPoolKey, TypeOK
<1>3. ASSUME NEW r \in Requests, BeginRefused(r) PROVE TypeOK'
  BY <1>0, <1>3, WritesType, OneRequestType DEF BeginRefused, TypeOK
<1>4. ASSUME NEW r \in Requests, Prepare(r) PROVE TypeOK'
  <2>1. PICK handoff \in Handoff, stream \in BOOLEAN, attempts \in RetryAttempts :
          /\ Writes(r, IF handoff /\ stream THEN SSEHeaders(answer[r])
                                            ELSE answer[r])
          /\ Becomes(r, [task[r] EXCEPT
                            !.pc = "attempt",
                            !.limit = IF attempts <= 0 THEN 1 ELSE attempts])
    BY <1>4 DEF Prepare
  <2>2. (IF attempts <= 0 THEN 1 ELSE attempts) \in Nat \ {0}
    BY RetryAssumption
  <2>3. \A n \in Nat \ {0} :
          [task[r] EXCEPT !.pc = "attempt", !.limit = n] \in Tasks
    BY <1>0 DEF Tasks
  <2>4. (IF handoff /\ stream THEN SSEHeaders(answer[r]) ELSE answer[r])
          \in Answers
    BY <1>0, WritesType
  <2>5. task' \in [Requests -> Tasks]
    BY <2>1, <2>2, <2>3, OneRequestType
  <2> QED
    BY <1>4, <2>1, <2>4, <2>5, OneRequestType DEF Prepare, TypeOK
<1>5. ASSUME NEW r \in Requests, StartAttempt(r) PROVE TypeOK'
  BY <1>5, GoToType DEF StartAttempt, TypeOK
<1>6. ASSUME NEW r \in Requests, RotateMark(r) PROVE TypeOK'
  BY <1>0, <1>6, GoToType, PoolMethods DEF RotateMark, TypeOK
<1>7. ASSUME NEW r \in Requests, RotateAcquire(r) PROVE TypeOK'
  <2>1. [task[r] EXCEPT !.pc = "sent", !.key = Acquire(pool, NoSlot)] \in Tasks
    BY <1>0, SlotType DEF Tasks
  <2> QED
    BY <1>0, <1>7, <2>1, OneRequestType, PoolMethods DEF RotateAcquire, TypeOK
<1>8. ASSUME NEW r \in Requests, RotateRefused(r) PROVE TypeOK'
  BY <1>0, <1>8, WritesType, OneRequestType DEF RotateRefused, TypeOK
<1>9. ASSUME NEW r \in Requests, NetworkError(r) PROVE TypeOK'
  <2>1. EndAttempt(r, 502, TRUE) /\ 502 \in Statuses
    BY <1>9 DEF NetworkError, Statuses
  <2>2. task' \in [Requests -> Tasks] /\ answer' \in [Requests -> Answers]
    BY <2>1, EndAttemptType
  <2> QED
    BY <1>0, <1>9, <2>2, PoolMethods DEF NetworkError, TypeOK
<1>10. ASSUME NEW r \in Requests, OtherError(r) PROVE TypeOK'
  <2>1. task' \in [Requests -> Tasks]
    BY <1>10, GoToType, OneRequestType DEF OtherError
  <2> QED
    BY <1>0, <1>10, <2>1, WritesType, OneRequestType DEF OtherError, TypeOK
<1>11. ASSUME NEW r \in Requests, NEW status \in Statuses \ {0},
              NEW body \in BOOLEAN, RetryableStatus(r, status, body)
       PROVE  TypeOK'
  <2>1. task' \in [Requests -> Tasks] /\ answer' \in [Requests -> Answers]
    BY <1>11, EndAttemptType DEF RetryableStatus
  <2>2. IsPool(pool')
    <3>1. IsPool(MarkUnhealthy(pool, task[r].key))
      BY <1>0, PoolMethods
    <3> QED
      BY <1>0, <1>11, <3>1 DEF RetryableStatus
  <2>3. throttles' \in [Requests -> Nat]
    BY <1>11, OneRequestType DEF RetryableStatus, TypeOK
  <2> QED
    BY <1>11, <2>1, <2>2, <2>3 DEF RetryableStatus, TypeOK
<1>12. ASSUME NEW r \in Requests, CreditKey(r)
       PROVE  IsPool(pool')
  <2>1. IsPool(MarkHealthy(pool, task[r].key))
    BY <1>0, PoolMethods
  <2> QED
    BY <1>0, <1>12, <2>1 DEF CreditKey, TypeOK
<1>13. ASSUME NEW r \in Requests, NEW ct \in ContentTypes, SuccessOpenAI(r, ct)
       PROVE  TypeOK'
  <2>1. [task[r] EXCEPT !.pc = "body", !.sse = IsStream(ct)] \in Tasks
    BY <1>0 DEF Tasks, IsStream
  <2> QED
    BY <1>12, <1>13, <2>1, OneRequestType DEF SuccessOpenAI, TypeOK
<1>14. ASSUME NEW r \in Requests, NEW ct \in ContentTypes, SuccessAnthropic(r, ct)
       PROVE  TypeOK'
  <2>1. /\ [answer[r] EXCEPT !.ctype = ct] \in Answers
        /\ [answer[r] EXCEPT !.ctype = ct, !.head = "ok"] \in Answers
    BY <1>0 DEF Answers
  <2>2. answer' \in [Requests -> Answers]
    BY <1>14, <2>1, OneRequestType DEF SuccessAnthropic
  <2>3. task' \in [Requests -> Tasks]
    BY <1>14, GoToType DEF SuccessAnthropic
  <2> QED
    BY <1>12, <1>14, <2>2, <2>3 DEF SuccessAnthropic, TypeOK
<1>15. ASSUME NEW r \in Requests, EmptyStream(r) PROVE TypeOK'
  <2>1. EndAttempt(r, 502, TRUE) /\ 502 \in Statuses
    BY <1>15 DEF EmptyStream, Statuses
  <2>2. task' \in [Requests -> Tasks] /\ answer' \in [Requests -> Answers]
    BY <2>1, EndAttemptType
  <2> QED
    BY <1>0, <1>15, <2>2, PoolMethods DEF EmptyStream, TypeOK
<1>16. ASSUME NEW r \in Requests, StreamStarts(r) PROVE TypeOK'
  <2>1. Data(SSEHeaders(answer[r])) \in Answers
    BY <1>0, WritesType
  <2> QED
    BY <1>16, <2>1, OneRequestType, GoToType DEF StreamStarts, TypeOK
<1>17. ASSUME NEW r \in Requests, StreamEnds(r) PROVE TypeOK'
  BY <1>0, <1>17, WritesType, OneRequestType DEF StreamEnds, TypeOK
<1>18. ASSUME NEW r \in Requests, StreamBreaks(r) PROVE TypeOK'
  BY <1>0, <1>18, WritesType, OneRequestType DEF StreamBreaks, TypeOK
<1>19. ASSUME NEW r \in Requests, PlainBody(r) PROVE TypeOK'
  <2>1. [answer[r] EXCEPT !.head = "ok"] \in Answers
    BY <1>0 DEF Answers
  <2>2. \A stream \in BOOLEAN :
          Whole(IF stream THEN SSEHeaders(answer[r])
                ELSE IF answer[r].head = "none"
                THEN [answer[r] EXCEPT !.head = "ok"] ELSE answer[r]) \in Answers
    BY <1>0, <2>1, WritesType
  <2> QED
    BY <1>19, <2>2, OneRequestType DEF PlainBody, TypeOK
<1>20. ASSUME NEW r \in Requests, PlainBodyBreaks(r) PROVE TypeOK'
  BY <1>0, <1>20, WritesType, OneRequestType DEF PlainBodyBreaks, TypeOK
<1>21. ASSUME NEW r \in Requests, PipeEnds(r) PROVE TypeOK'
  BY <1>0, <1>21, WritesType, OneRequestType, GoToType DEF PipeEnds, TypeOK
<1>22. ASSUME NEW r \in Requests, PipeBreaks(r) PROVE TypeOK'
  <2>1. (IF IsStream(answer[r].ctype)
         THEN ErrorEvent(Data(answer[r])) ELSE Data(answer[r])) \in Answers
    BY <1>0, WritesType
  <2> QED
    BY <1>22, <2>1, OneRequestType, GoToType DEF PipeBreaks, TypeOK
<1>23. ASSUME NEW r \in Requests, CallbackPanics(r) PROVE TypeOK'
  BY <1>0, <1>23, WritesType, OneRequestType DEF CallbackPanics, TypeOK
<1>24. ASSUME NEW r \in Requests, AfterLoop(r) PROVE TypeOK'
  <2>1. IsPool(MarkUnhealthy(pool, task[r].key)) /\ WriteError(answer[r]) \in Answers
    BY <1>0, PoolMethods, WritesType
  <2>2. IsPool(pool') /\ throttles' \in [Requests -> Nat]
    BY <1>0, <1>24, <2>1, OneRequestType DEF AfterLoop, TypeOK
  <2>3. answer' \in [Requests -> Answers]
    BY <1>24, <2>1, OneRequestType DEF AfterLoop, TypeOK
  <2> QED
    BY <1>24, <2>2, <2>3, OneRequestType DEF AfterLoop, TypeOK
<1>25. ASSUME NEW r \in Requests, TimeoutClaims(r) PROVE TypeOK'
  <2>1. [answer[r] EXCEPT !.head = "timeout", !.ctype = "other"] \in Answers
    BY <1>0 DEF Answers, ContentTypes
  <2> QED
    BY <1>25, <2>1, OneRequestType DEF TimeoutClaims, TypeOK
<1>26. CASE CooldownEnds
  <2>1. PICK i \in pool.cooling : pool' = MarkHealthy(pool, i)
    BY <1>26 DEF CooldownEnds
  <2>2. i \in Nat
    BY <1>0 DEF IsPool
  <2> QED
    BY <1>0, <1>26, <2>1, <2>2, PoolMethods DEF CooldownEnds, TypeOK
<1>27. CASE ReplacePool
  <2>1. IsPool(pool')
    BY <1>27, RetryAssumption DEF ReplacePool, NewKeyPool, IsPool, Entries
  <2> QED
    BY <1>27, <2>1 DEF ReplacePool, TypeOK
<1>28. CASE DashboardAcquire
  BY <1>0, <1>28, SlotType, PoolMethods DEF DashboardAcquire, TypeOK
<1>29. CASE DashboardMark
  <2>1. PICK i \in Entries(pool) : pool' = MarkHealthy(pool, i)
    BY <1>29 DEF DashboardMark
  <2>2. i \in Nat
    BY <2>1 DEF Entries
  <2> QED
    BY <1>0, <1>29, <2>1, <2>2, PoolMethods DEF DashboardMark, TypeOK
<1>30. CASE UNCHANGED vars
  BY <1>30 DEF vars, TypeOK
<1>31. ASSUME NEW r \in Requests, ServeHTTPReturns(r) PROVE TypeOK'
  <2>1. [answer[r] EXCEPT !.head = "cut"] \in Answers
    BY <1>0 DEF Answers
  <2> QED
    BY <1>31, <2>1, OneRequestType DEF ServeHTTPReturns, TypeOK
<1> QED
  BY <1>1, <1>2, <1>3, <1>4, <1>5, <1>6, <1>7, <1>8, <1>9, <1>10, <1>11, <1>13,
     <1>14, <1>15, <1>16, <1>17, <1>18, <1>19, <1>20, <1>21, <1>22, <1>23,
     <1>24, <1>25, <1>26, <1>27, <1>28, <1>29, <1>30, <1>31
     DEF Next, Dispatch, Callback, Environment

\* Every variable keeps its type; in particular the pool's round-robin index
\* and its cooling entries stay inside the pool, whatever stale indices the
\* requests use after a replacement.
THEOREM RetryTypeCorrect == Spec => []TypeOK
BY TypeInit, TypeStep, PTL DEF Spec

------------------------------------------------------------------------------
(* One outcome per request on the OpenAI path. *)

\* A response that told no outcome yet, and one that told exactly one.
Open(a) ==
  /\ a.whole = 0 /\ a.errors = 0
  /\ a.head \in {"none", "sse", "timeout", "cut"}
  /\ ~Lost(a) => (a.ctype = "sse" <=> a.head = "sse")
Settled(a) == a.whole + a.errors = IF Lost(a) THEN 0 ELSE 1
Refused(a) == a.whole = 0 /\ (a.errors = 1 \/ Lost(a))

\* A request that has not finished has told no outcome, one that has finished
\* told one, and until the body is piped the client has got no byte of it.
RequestInv(r) ==
  /\ task[r].pc \notin {"streaming", "tail", "done"} => ~answer[r].data
  /\ r \in OpenAI /\ task[r].pc # "done" =>
       /\ Open(answer[r]) /\ throttles[r] = 0
       /\ task[r].pc # "tail"
       /\ task[r].pc = "streaming" => answer[r].head # "none"
  /\ r \in OpenAI /\ task[r].pc = "done" =>
       /\ Settled(answer[r])
       /\ throttles[r] = 0 \/ (throttles[r] = 1 /\ Refused(answer[r]))

AnswerInv == \A r \in Requests : RequestInv(r)

\* What writing to an open response makes of it.
LEMMA OpenWrites ==
  ASSUME NEW a \in Answers, Open(a)
  PROVE  /\ Open(SSEHeaders(a)) /\ SSEHeaders(a) \in Answers
         /\ SSEHeaders(a).data = a.data /\ SSEHeaders(a).head # "none"
         /\ Open(Data(a)) /\ Data(a).head = a.head
         /\ Settled(Whole(a)) /\ Settled(Whole([a EXCEPT !.head = "ok"]))
         /\ Settled(ErrorEvent(a))
         /\ Settled(WriteError(a)) /\ Refused(WriteError(a))
<1>1. Open(SSEHeaders(a)) /\ SSEHeaders(a).data = a.data
      /\ SSEHeaders(a).head # "none"
  BY DEF Answers, Open, Lost, SSEHeaders
<1>2. Open(Data(a)) /\ Data(a).head = a.head
  BY DEF Answers, Open, Lost, Data
<1>3. Settled(Whole(a)) /\ Settled(Whole([a EXCEPT !.head = "ok"]))
  BY DEF Answers, Open, Lost, Whole, Settled
<1>4. Settled(ErrorEvent(a))
  BY DEF Answers, Open, Lost, ErrorEvent, Settled
<1>5. Settled(WriteError(a)) /\ Refused(WriteError(a))
  BY DEF Answers, Open, Lost, ErrorEvent, WriteError, Settled, Refused
<1> QED
  BY <1>1, <1>2, <1>3, <1>4, <1>5, WritesType

\* What one request's step makes of the locals, the response and the throttle
\* count of each.
LEMMA OneRequestFrame ==
  ASSUME TypeOK, NEW r \in Requests, NEW q \in Requests
  PROVE  /\ \A t : Becomes(r, t) => task'[q] = IF q = r THEN t ELSE task[q]
         /\ \A a : Writes(r, a) => answer'[q] = IF q = r THEN a ELSE answer[q]
         /\ BumpThrottled(r) =>
              throttles'[q] = IF q = r THEN throttles[r] + 1 ELSE throttles[q]
         /\ \A pc : GoTo(r, pc) =>
              task'[q] = IF q = r THEN [task[r] EXCEPT !.pc = pc] ELSE task[q]
         /\ Finish(r) =>
              task'[q] = IF q = r THEN Locals("done") ELSE task[q]
BY DEF TypeOK, Becomes, Writes, BumpThrottled, GoTo, Finish

\* GoTo changes where the request is and nothing else.
LEMMA GoToPc ==
  ASSUME TypeOK, NEW r \in Requests, NEW pc, GoTo(r, pc)
  PROVE  task'[r].pc = pc
<1>1. task'[r] = [task[r] EXCEPT !.pc = pc]
  BY DEF GoTo, Becomes, TypeOK
<1>2. task[r] \in Tasks
  BY DEF TypeOK
<1> QED
  BY <1>1, <1>2 DEF Tasks

\* A step of one request leaves the locals and the response of the others.
LEMMA OthersUntouched ==
  ASSUME TypeOK, NEW r \in Requests, NEW q \in Requests, q # r,
         Dispatch(r) \/ TimeoutClaims(r) \/ ServeHTTPReturns(r)
  PROVE  /\ task'[q] = task[q] /\ answer'[q] = answer[q]
         /\ throttles'[q] = throttles[q]
<1> USE OneRequestFrame
<1>1. CASE BeginWithClientKey(r) \/ BeginWithPoolKey(r) \/ BeginRefused(r)
  BY <1>1 DEF BeginWithClientKey, BeginWithPoolKey, BeginRefused
<1>2. CASE Prepare(r)
  BY <1>2 DEF Prepare
<1>3. CASE StartAttempt(r) \/ RotateMark(r) \/ RotateAcquire(r) \/ RotateRefused(r)
  BY <1>3 DEF StartAttempt, RotateMark, RotateAcquire, RotateRefused
<1>4. ASSUME NEW status, NEW body, EndAttempt(r, status, body)
      PROVE  task'[q] = task[q] /\ answer'[q] = answer[q]
  BY <1>4 DEF EndAttempt, Retry
<1>5. CASE NetworkError(r) \/ EmptyStream(r)
  <2>1. EndAttempt(r, 502, TRUE) /\ UNCHANGED throttles
    BY <1>5 DEF NetworkError, EmptyStream
  <2>2. task'[q] = task[q] /\ answer'[q] = answer[q]
    BY <1>4, <2>1, Zenon
  <2> QED
    BY <2>1, <2>2
<1>6. CASE OtherError(r)
  <2>1. /\ \E a : Writes(r, a)
        /\ UNCHANGED throttles \/ BumpThrottled(r)
        /\ Finish(r) \/ GoTo(r, "tail")
    BY <1>6, Zenon DEF OtherError
  <2> QED
    BY <2>1
<1>7. ASSUME NEW status, NEW body, RetryableStatus(r, status, body)
      PROVE  /\ task'[q] = task[q] /\ answer'[q] = answer[q]
             /\ throttles'[q] = throttles[q]
  BY <1>4, <1>7 DEF RetryableStatus
<1>8. ASSUME NEW ct, SuccessOpenAI(r, ct) \/ SuccessAnthropic(r, ct)
      PROVE  /\ task'[q] = task[q] /\ answer'[q] = answer[q]
             /\ throttles'[q] = throttles[q]
  <2>1. CASE SuccessOpenAI(r, ct)
    <3>1. (\E u : Becomes(r, u)) /\ UNCHANGED <<answer, throttles>>
      BY <2>1, Zenon DEF SuccessOpenAI
    <3> QED
      BY <3>1
  <2>2. CASE SuccessAnthropic(r, ct)
    <3>1. /\ \E a : Writes(r, a)
          /\ \E pc : GoTo(r, pc)
          /\ UNCHANGED throttles
      BY <2>2, Zenon DEF SuccessAnthropic
    <3> QED
      BY <3>1
  <2> QED
    BY <1>8, <2>1, <2>2
<1>9. CASE StreamStarts(r) \/ StreamEnds(r) \/ StreamBreaks(r) \/ PipeEnds(r)
  BY <1>9 DEF StreamStarts, StreamEnds, StreamBreaks, PipeEnds
<1>10. CASE \/ PlainBody(r) \/ PlainBodyBreaks(r) \/ PipeBreaks(r)
            \/ CallbackPanics(r)
  <2>1. /\ \E a : Writes(r, a)
        /\ Finish(r) \/ GoTo(r, "tail")
        /\ UNCHANGED throttles
    BY <1>10, Zenon DEF PlainBody, PlainBodyBreaks, PipeBreaks, CallbackPanics
  <2> QED
    BY <2>1
<1>11. CASE AfterLoop(r) \/ TimeoutClaims(r) \/ ServeHTTPReturns(r)
  BY <1>11 DEF AfterLoop, TimeoutClaims, ServeHTTPReturns
<1> QED
  BY <1>1, <1>2, <1>3, <1>5, <1>6, <1>7, <1>8, <1>9, <1>10, <1>11
     DEF Dispatch, Callback

\* A step of a request keeps its own invariant.
LEMMA OwnStep ==
  ASSUME TypeOK, NEW r \in Requests, RequestInv(r),
         Dispatch(r) \/ TimeoutClaims(r) \/ ServeHTTPReturns(r)
  PROVE  RequestInv(r)'
<1> DEFINE t == task[r]
           a == answer[r]
<1> USE DEF At
<1>0. /\ t \in Tasks /\ a \in Answers /\ throttles[r] \in Nat
      /\ OpenAI \subseteq Requests /\ OpenAI' = OpenAI /\ Requests' = Requests
      /\ r \in OpenAI <=> r \notin Anthropic
  BY RetryAssumption DEF TypeOK, OpenAI, Anthropic
<1>1. ASSUME NEW u, t.pc \notin {"streaming", "tail", "done"},
             u.pc \notin {"streaming", "tail", "done"},
             task'[r] = u, UNCHANGED <<answer, throttles>>
      PROVE  RequestInv(r)'
  BY <1>0, <1>1 DEF RequestInv
\* A request that ends with a settled response and counted no throttle.
<1>2. ASSUME t.pc # "done", Finish(r), NEW b, Writes(r, b), UNCHANGED throttles,
             r \in OpenAI => Settled(b)
      PROVE  RequestInv(r)'
  <2>1. task'[r] = Locals("done") /\ answer'[r] = b /\ Locals("done").pc = "done"
    BY <1>2, OneRequestFrame DEF Locals
  <2> QED
    BY <1>0, <1>2, <2>1 DEF RequestInv
\* A request on the OpenAI path that ends with an error, throttled or not.
<1>3. ASSUME r \in OpenAI, t.pc # "done", Finish(r), Writes(r, WriteError(a)),
             UNCHANGED throttles \/ BumpThrottled(r)
      PROVE  RequestInv(r)'
  <2>1. task'[r] = Locals("done") /\ answer'[r] = WriteError(a)
        /\ Locals("done").pc = "done"
    BY <1>3, OneRequestFrame DEF Locals
  <2>2. Settled(WriteError(a)) /\ Refused(WriteError(a)) /\ throttles[r] = 0
    BY <1>0, <1>3, OpenWrites DEF RequestInv
  <2>3. throttles'[r] \in {0, 1}
    BY <1>3, <2>2, OneRequestFrame
  <2> QED
    BY <1>0, <2>1, <2>2, <2>3 DEF RequestInv

\* On the Anthropic path nothing is claimed about the end.
<1>4. ASSUME r \in Anthropic, task'[r].pc \in {"tail", "done"}
      PROVE  RequestInv(r)'
  BY <1>0, <1>4 DEF RequestInv
<1>5. ASSUME NEW status, NEW body, EndAttempt(r, status, body),
             t.pc \notin {"streaming", "tail", "done"},
             \/ UNCHANGED throttles
             \/ BumpThrottled(r) /\ r \in OpenAI /\ IsLast(r)
      PROVE  RequestInv(r)'
  <2>1. CASE ~IsLast(r) /\ Retry(r, status, body) /\ UNCHANGED answer
    <3>1. task'[r] = [t EXCEPT !.pc = "attempt", !.attempt = @ + 1,
                        !.lastStatus = IF r \in OpenAI THEN 0 ELSE status,
                        !.lastBody = body /\ r \in Anthropic]
      BY <2>1, OneRequestFrame DEF Retry
    <3>2. task'[r].pc = "attempt"
      BY <1>0, <3>1 DEF Tasks
    <3> QED
      BY <1>1, <1>5, <2>1, <3>2
  <2>2. CASE IsLast(r) /\ r \in OpenAI /\ Writes(r, WriteError(a)) /\ Finish(r)
    BY <1>3, <1>5, <2>2
  <2>3. CASE /\ r \in Anthropic
             /\ Becomes(r, [t EXCEPT !.pc = "tail", !.lastStatus = status,
                                     !.lastBody = body])
    <3>1. task'[r] = [t EXCEPT !.pc = "tail", !.lastStatus = status,
                               !.lastBody = body]
      BY <2>3, OneRequestFrame
    <3>2. task'[r].pc = "tail"
      BY <1>0, <3>1 DEF Tasks
    <3> QED
      BY <1>4, <2>3, <3>2
  <2> QED
    BY <1>5, <2>1, <2>2, <2>3 DEF EndAttempt
<1>6. r \in OpenAI /\ t.pc # "done" =>
        /\ Open(a) /\ Settled(WriteError(a)) /\ Settled(ErrorEvent(a))
        /\ Settled(Whole(a)) /\ Settled(Whole([a EXCEPT !.head = "ok"]))
        /\ Settled(Whole(SSEHeaders(a)))
        /\ Open(SSEHeaders(a)) /\ Open(Data(SSEHeaders(a)))
        /\ Data(SSEHeaders(a)).head # "none"
  BY <1>0, OpenWrites DEF RequestInv
<1>7. CASE BeginWithClientKey(r)
  <2>1. task'[r] = [Locals("prepare") EXCEPT
                      !.client = TRUE,
                      !.key = IF r \in OpenAI THEN 0 ELSE NoSlot]
    BY <1>7, OneRequestFrame DEF BeginWithClientKey
  <2>2. task'[r].pc = "prepare"
    BY <2>1 DEF Locals
  <2> QED
    BY <1>1, <1>7, <2>2 DEF BeginWithClientKey
<1>8. CASE BeginWithPoolKey(r)
  <2>1. PICK i : task'[r] = [Locals("prepare") EXCEPT !.key = Acquire(pool, i)]
    BY <1>8, OneRequestFrame DEF BeginWithPoolKey
  <2>2. task'[r].pc = "prepare"
    BY <2>1 DEF Locals
  <2> QED
    BY <1>1, <1>8, <2>2 DEF BeginWithPoolKey
<1>9. CASE BeginRefused(r)
  BY <1>2, <1>6, <1>9 DEF BeginRefused
<1>10. CASE Prepare(r)
  <2>0. PICK handoff \in Handoff, stream \in BOOLEAN, attempts \in RetryAttempts :
          /\ Writes(r, IF handoff /\ stream THEN SSEHeaders(a) ELSE a)
          /\ Becomes(r, [t EXCEPT
                            !.pc = "attempt",
                            !.limit = IF attempts <= 0 THEN 1 ELSE attempts])
    BY <1>10 DEF Prepare
  <2>1. /\ answer'[r] = a \/ answer'[r] = SSEHeaders(a)
        /\ \E n : task'[r] = [t EXCEPT !.pc = "attempt", !.limit = n]
        /\ UNCHANGED throttles /\ t.pc = "prepare"
    <3>1. answer'[r] = IF handoff /\ stream THEN SSEHeaders(a) ELSE a
      BY <2>0, OneRequestFrame
    <3>2. task'[r] = [t EXCEPT
                        !.pc = "attempt",
                        !.limit = IF attempts <= 0 THEN 1 ELSE attempts]
      BY <2>0, OneRequestFrame
    <3> QED
      BY <1>10, <3>1, <3>2 DEF Prepare
  <2>2. task'[r].pc = "attempt"
    BY <1>0, <2>1 DEF Tasks
  <2>3. SSEHeaders(a).data = a.data
    BY <1>0 DEF SSEHeaders, Answers
  <2> QED
    BY <1>0, <1>6, <2>1, <2>2, <2>3 DEF RequestInv
<1>11. CASE StartAttempt(r) \/ RotateMark(r)
  <2>1. /\ task'[r].pc \in {"mark", "sent", "rotate"}
        /\ UNCHANGED <<answer, throttles>> /\ t.pc \in {"attempt", "mark"}
    <3>1. \E pc \in {"mark", "sent", "rotate"} : GoTo(r, pc)
      BY <1>11 DEF StartAttempt, RotateMark
    <3>2. UNCHANGED <<answer, throttles>> /\ t.pc \in {"attempt", "mark"}
      BY <1>11 DEF StartAttempt, RotateMark
    <3> QED
      BY <3>1, <3>2, GoToPc
  <2> QED
    BY <1>1, <2>1
<1>12. CASE RotateAcquire(r)
  <2>1. task'[r] = [t EXCEPT !.pc = "sent", !.key = Acquire(pool, NoSlot)]
    BY <1>12, OneRequestFrame DEF RotateAcquire
  <2>2. task'[r].pc = "sent"
    BY <1>0, <2>1 DEF Tasks
  <2> QED
    BY <1>1, <1>12, <2>2 DEF RotateAcquire
<1>13. CASE RotateRefused(r)
  BY <1>2, <1>6, <1>13 DEF RotateRefused
<1>14. CASE NetworkError(r) \/ EmptyStream(r)
  BY <1>5, <1>14 DEF NetworkError, EmptyStream
<1>15. ASSUME NEW status, NEW body, RetryableStatus(r, status, body)
       PROVE  RequestInv(r)'
  BY <1>5, <1>15 DEF RetryableStatus
<1>16. CASE OtherError(r)
  <2>1. CASE r \in OpenAI
    BY <1>3, <1>16, <2>1 DEF OtherError
  <2>2. CASE r \in Anthropic
    <3>1. GoTo(r, "tail")
      BY <1>0, <1>16, <2>2 DEF OtherError
    <3>2. task'[r].pc = "tail"
      BY <3>1, GoToPc
    <3> QED
      BY <1>4, <2>2, <3>2
  <2> QED
    BY <1>0, <2>1, <2>2
<1>17. ASSUME NEW ct, SuccessOpenAI(r, ct) PROVE RequestInv(r)'
  <2>1. task'[r] = [t EXCEPT !.pc = "body", !.sse = IsStream(ct)]
    BY <1>17, OneRequestFrame DEF SuccessOpenAI
  <2>2. task'[r].pc = "body"
    BY <1>0, <2>1 DEF Tasks
  <2> QED
    BY <1>1, <1>17, <2>2 DEF SuccessOpenAI
<1>18. ASSUME NEW ct, SuccessAnthropic(r, ct) PROVE RequestInv(r)'
  <2>1. /\ \/ answer'[r] = [a EXCEPT !.ctype = ct]
           \/ answer'[r] = [a EXCEPT !.ctype = ct, !.head = "ok"]
        /\ r \notin OpenAI /\ t.pc = "sent"
    BY <1>0, <1>18, OneRequestFrame DEF SuccessAnthropic
  <2>2. answer'[r].data = a.data
    BY <1>0, <2>1 DEF Answers
  <2> QED
    BY <1>0, <2>1, <2>2 DEF RequestInv
<1>19. CASE StreamStarts(r)
  <2>1. /\ answer'[r] = Data(SSEHeaders(a)) /\ task'[r].pc = "streaming"
        /\ UNCHANGED throttles /\ r \in OpenAI /\ t.pc = "body"
    <3>1. Writes(r, Data(SSEHeaders(a))) /\ GoTo(r, "streaming")
      BY <1>19 DEF StreamStarts
    <3>2. UNCHANGED throttles /\ r \in OpenAI /\ t.pc = "body"
      BY <1>19 DEF StreamStarts
    <3>3. answer'[r] = Data(SSEHeaders(a))
      BY <3>1, OneRequestFrame
    <3> QED
      BY <3>1, <3>2, <3>3, GoToPc
  <2> QED
    BY <1>0, <1>6, <2>1 DEF RequestInv
<1>20. CASE StreamEnds(r)
  BY <1>2, <1>6, <1>20 DEF StreamEnds
<1>21. CASE StreamBreaks(r)
  BY <1>2, <1>6, <1>21 DEF StreamBreaks
<1>22. CASE PlainBody(r)
  <2>1. PICK stream \in BOOLEAN :
          Writes(r, Whole(IF stream THEN SSEHeaders(a)
                          ELSE IF a.head = "none"
                          THEN [a EXCEPT !.head = "ok"] ELSE a))
    BY <1>22 DEF PlainBody
  <2>2. Settled(Whole(IF stream THEN SSEHeaders(a)
                      ELSE IF a.head = "none"
                      THEN [a EXCEPT !.head = "ok"] ELSE a))
    BY <1>6, <1>22 DEF PlainBody
  <2>3. Finish(r) /\ UNCHANGED throttles /\ t.pc # "done"
    BY <1>22 DEF PlainBody
  <2> QED
    BY <1>2, <2>1, <2>2, <2>3
<1>23. CASE PlainBodyBreaks(r)
  BY <1>2, <1>6, <1>23 DEF PlainBodyBreaks
<1>24. CASE PipeEnds(r) \/ PipeBreaks(r)
  <2>1. r \in Anthropic /\ GoTo(r, "tail")
    BY <1>24 DEF PipeEnds, PipeBreaks
  <2>2. task'[r].pc = "tail"
    BY <2>1, GoToPc
  <2> QED
    BY <1>4, <2>1, <2>2
<1>25. CASE CallbackPanics(r)
  BY <1>2, <1>6, <1>25 DEF CallbackPanics
<1>26. CASE AfterLoop(r)
  <2>1. r \in Anthropic /\ task'[r] = Locals("done")
    BY <1>0, <1>26, OneRequestFrame DEF AfterLoop, RequestInv
  <2> QED
    BY <1>4, <2>1 DEF Locals
<1>27. CASE TimeoutClaims(r)
  <2>1. /\ answer'[r] = [a EXCEPT !.head = "timeout", !.ctype = "other"]
        /\ a.head = "none" /\ UNCHANGED <<task, throttles>>
        /\ t.pc # "done"
    BY <1>27, OneRequestFrame DEF TimeoutClaims
  <2>2. /\ answer'[r].data = a.data
        /\ r \in OpenAI => Open(answer'[r]) /\ answer'[r].head # "none"
    BY <1>0, <1>6, <2>1 DEF Answers, Open, Lost
  <2> QED
    BY <1>0, <2>1, <2>2 DEF RequestInv
<1>28. CASE ServeHTTPReturns(r)
  <2>1. /\ answer'[r] = [a EXCEPT !.head = "cut"]
        /\ UNCHANGED <<task, throttles>> /\ t.pc # "done"
    BY <1>28, OneRequestFrame DEF ServeHTTPReturns
  <2>2. /\ answer'[r].data = a.data
        /\ r \in OpenAI => Open(answer'[r]) /\ answer'[r].head # "none"
    BY <1>0, <1>6, <2>1 DEF Answers, Open, Lost
  <2> QED
    BY <1>0, <2>1, <2>2 DEF RequestInv
<1> QED
  BY <1>7, <1>8, <1>9, <1>10, <1>11, <1>12, <1>13, <1>14, <1>15, <1>16, <1>17,
     <1>18, <1>19, <1>20, <1>21, <1>22, <1>23, <1>24, <1>25, <1>26, <1>27, <1>28
     DEF Dispatch, Callback

\* No request has begun.
LEMMA AnswerInit == Init => AnswerInv
<1> SUFFICES ASSUME Init, NEW r \in Requests PROVE RequestInv(r)
  BY DEF AnswerInv
<1>1. /\ task[r].pc = "new" /\ throttles[r] = 0
      /\ answer[r].head = "none" /\ answer[r].ctype = "other"
      /\ answer[r].data = FALSE /\ answer[r].whole = 0 /\ answer[r].errors = 0
  BY DEF Init, Locals, NoAnswer
<1> QED
  BY <1>1 DEF RequestInv, Open, Lost

\* RequestInv reads only the request's own entries.
LEMMA RequestInvLocal ==
  ASSUME NEW r \in Requests, RequestInv(r),
         task'[r] = task[r], answer'[r] = answer[r], throttles'[r] = throttles[r]
  PROVE  RequestInv(r)'
BY DEF RequestInv, Open, Settled, Refused, Lost, OpenAI

LEMMA AnswerStep == TypeOK /\ AnswerInv /\ [Next]_vars => AnswerInv'
<1> SUFFICES ASSUME TypeOK, AnswerInv, [Next]_vars, NEW q \in Requests
             PROVE  RequestInv(q)'
  BY DEF AnswerInv
<1>0. RequestInv(q)
  BY DEF AnswerInv
<1>1. ASSUME NEW r \in Requests,
             Dispatch(r) \/ TimeoutClaims(r) \/ ServeHTTPReturns(r)
      PROVE  RequestInv(q)'
  <2>1. CASE q = r
    BY <1>0, <1>1, <2>1, OwnStep
  <2>2. CASE q # r
    BY <1>0, <1>1, <2>2, OthersUntouched, RequestInvLocal
  <2> QED
    BY <2>1, <2>2
<1>2. CASE Environment \/ UNCHANGED vars
  <2>1. UNCHANGED <<task, answer, throttles>>
    BY <1>2 DEF Environment, CooldownEnds, ReplacePool, DashboardAcquire,
                DashboardMark, vars
  <2> QED
    BY <1>0, <2>1, RequestInvLocal
<1> QED
  BY <1>1, <1>2 DEF Next

\* What the two invariants imply.
LEMMA AnswerImplies ==
  TypeOK /\ AnswerInv =>
    AnsweredOnce /\ ThrottleMeansRefusal /\ CommittedIsNotRetried
<1> SUFFICES ASSUME TypeOK, AnswerInv
             PROVE  AnsweredOnce /\ ThrottleMeansRefusal /\ CommittedIsNotRetried
  OBVIOUS
<1>1. AnsweredOnce
  BY DEF AnswerInv, RequestInv, AnsweredOnce, Settled, OpenAI
<1>2. ThrottleMeansRefusal
  BY DEF AnswerInv, RequestInv, ThrottleMeansRefusal, Refused, OpenAI
<1>3. CommittedIsNotRetried
  BY DEF AnswerInv, RequestInv, CommittedIsNotRetried
<1> QED
  BY <1>1, <1>2, <1>3

\* For any number of requests, keys, attempts and any modes: proxyChatRequest
\* gives its client one outcome, never two, and none only where the timeout has
\* answered or ServeHTTP has returned over the committed response.
THEOREM OpenAIAnsweredOnce == Spec => []AnsweredOnce
<1>1. Spec => [](TypeOK /\ AnswerInv)
  BY TypeInit, TypeStep, AnswerInit, AnswerStep, PTL DEF Spec
<1> QED
  BY <1>1, AnswerImplies, PTL

\* However often it is retried, a request of the OpenAI path is counted once
\* in ThrottledCount at most, and only when its client was refused.
THEOREM ThrottlesOnlyRefusals == Spec => []ThrottleMeansRefusal
<1>1. Spec => [](TypeOK /\ AnswerInv)
  BY TypeInit, TypeStep, AnswerInit, AnswerStep, PTL DEF Spec
<1> QED
  BY <1>1, AnswerImplies, PTL

\* No byte of a body is followed by another attempt, on either path.
THEOREM NoRetryAfterData == Spec => []CommittedIsNotRetried
<1>1. Spec => [](TypeOK /\ AnswerInv)
  BY TypeInit, TypeStep, AnswerInit, AnswerStep, PTL DEF Spec
<1> QED
  BY <1>1, AnswerImplies, PTL

------------------------------------------------------------------------------
(* The rotation of keys. *)

\* Only these two steps of a request leave "rotate".
LEMMA RotateSteps ==
  ASSUME NEW r \in Requests, At(r, "rotate"), Dispatch(r)
  PROVE  RotateAcquire(r) \/ RotateRefused(r)
<1>1. ~Prepare(r) /\ ~BeginWithClientKey(r) /\ ~BeginWithPoolKey(r)
      /\ ~BeginRefused(r) /\ ~AfterLoop(r)
  BY DEF Prepare, BeginWithClientKey, BeginWithPoolKey, BeginRefused, AfterLoop,
         At
<1>2. ~StartAttempt(r) /\ ~RotateMark(r) /\ ~NetworkError(r) /\ ~OtherError(r)
      /\ ~EmptyStream(r) /\ ~StreamStarts(r) /\ ~StreamEnds(r)
      /\ ~StreamBreaks(r)
  BY DEF StartAttempt, RotateMark, NetworkError, OtherError, EmptyStream,
         StreamStarts, StreamEnds, StreamBreaks, At
<1>3. ~PlainBody(r) /\ ~PlainBodyBreaks(r) /\ ~PipeEnds(r) /\ ~PipeBreaks(r)
      /\ ~CallbackPanics(r)
  BY DEF PlainBody, PlainBodyBreaks, PipeEnds, PipeBreaks, CallbackPanics, At
<1>4. \A status, body : ~RetryableStatus(r, status, body)
  BY DEF RetryableStatus, At
<1>5. \A ct : ~SuccessOpenAI(r, ct) /\ ~SuccessAnthropic(r, ct)
  BY DEF SuccessOpenAI, SuccessAnthropic, At
<1> QED
  BY <1>1, <1>2, <1>3, <1>4, <1>5 DEF Dispatch, Callback

\* A step that changes a request's locals is its own.
LEMMA OwnTask ==
  ASSUME TypeOK, [Next]_vars, NEW r \in Requests, task'[r] # task[r]
  PROVE  Dispatch(r)
<1>1. ASSUME NEW q \in Requests, Dispatch(q) PROVE q = r
  BY <1>1, OthersUntouched
<1>2. /\ ~(\E q \in Requests : TimeoutClaims(q) \/ ServeHTTPReturns(q))
      /\ ~Environment /\ ~UNCHANGED vars
  BY DEF TimeoutClaims, ServeHTTPReturns, Environment, CooldownEnds, ReplacePool,
         DashboardAcquire, DashboardMark, vars
<1> QED
  BY <1>1, <1>2 DEF Next

LEMMA RotationStep ==
  ASSUME TypeOK, [Next]_vars, NEW r \in Requests,
         task[r].pc = "rotate", task'[r] # task[r]
  PROVE  IF task'[r].pc = "sent" THEN task'[r].key \in Usable(pool')
                                 ELSE Usable(pool) = {}
<1>0. IsPool(pool) /\ task[r] \in Tasks /\ NoSlot \in Nat \cup {NoSlot}
  BY DEF TypeOK
<1>1. RotateAcquire(r) \/ RotateRefused(r)
  BY OwnTask, RotateSteps DEF At
<1>2. CASE RotateAcquire(r)
  <2>1. task'[r] = [task[r] EXCEPT !.pc = "sent", !.key = Acquire(pool, NoSlot)]
    BY <1>2, OneRequestFrame DEF RotateAcquire
  <2>2. task'[r].pc = "sent" /\ task'[r].key = Acquire(pool, NoSlot)
    BY <1>0, <2>1 DEF Tasks
  <2>3. pool' = Acquired(pool, NoSlot) /\ Acquire(pool, NoSlot) # NoSlot
    BY <1>2 DEF RotateAcquire
  <2>4. Acquire(pool, NoSlot) \in Usable(pool)
    BY <1>0, <2>3, AcquireServesWhileItCan
  <2>5. Usable(pool') = Usable(pool)
    BY <1>0, <2>3, PoolMethods DEF Usable, Entries
  <2> QED
    BY <2>2, <2>4, <2>5
<1>3. CASE RotateRefused(r)
  <2>1. task'[r] = Locals("done") /\ Acquire(pool, NoSlot) = NoSlot
    BY <1>3, OneRequestFrame DEF RotateRefused
  <2>2. task'[r].pc # "sent"
    BY <2>1 DEF Locals
  <2> QED
    BY <1>0, <2>1, <2>2, SlotType
<1> QED
  BY <1>1, <1>2, <1>3

\* For any pool: a rotation that finds a key finds a usable one, and it gives
\* up only when the whole pool is inside its cooldown.
THEOREM RotationServesWhileItCan == Spec => RotationUsesThePool
<1>1. TypeOK /\ [Next]_vars =>
        [\A r \in Requests : task[r].pc = "rotate" /\ task'[r] # task[r] =>
           IF task'[r].pc = "sent" THEN task'[r].key \in Usable(pool')
                                   ELSE Usable(pool) = {}]_vars
  BY RotationStep
<1> QED
  BY <1>1, TypeInit, TypeStep, PTL DEF Spec, RotationUsesThePool

------------------------------------------------------------------------------
(* Who judges a key. *)

SameKeys  == pool'.cooling = pool.cooling /\ pool'.size = pool.size
Blame(r)  == /\ pool' = MarkUnhealthy(pool, task[r].key)
             /\ task'[r] # task[r]
             /\ r \in OpenAI => ~answer'[r].data
Credit(r) == pool' = MarkHealthy(pool, task[r].key) /\ ~task[r].client

\* The end of an attempt moves the request and sends no byte of a body.
LEMMA EndAttemptEffect ==
  ASSUME TypeOK, NEW r \in Requests, NEW status, NEW body,
         EndAttempt(r, status, body), task[r].pc \in {"sent", "body"},
         ~answer[r].data
  PROVE  task'[r] # task[r] /\ ~answer'[r].data
<1>0. task[r] \in Tasks /\ answer[r] \in Answers
  BY DEF TypeOK
<1>1. CASE Retry(r, status, body) /\ UNCHANGED answer
  <2>1. task'[r] = [task[r] EXCEPT !.pc = "attempt", !.attempt = @ + 1,
                      !.lastStatus = IF r \in OpenAI THEN 0 ELSE status,
                      !.lastBody = body /\ r \in Anthropic]
    BY <1>1, OneRequestFrame DEF Retry
  <2>2. task'[r].pc = "attempt"
    BY <1>0, <2>1 DEF Tasks
  <2> QED
    BY <1>1, <2>2
<1>2. CASE Writes(r, WriteError(answer[r])) /\ Finish(r)
  <2>1. task'[r] = Locals("done") /\ answer'[r] = WriteError(answer[r])
    BY <1>2, OneRequestFrame
  <2>2. WriteError(answer[r]).data = answer[r].data
    BY <1>0 DEF WriteError, ErrorEvent, Answers
  <2> QED
    BY <2>1, <2>2 DEF Locals
<1>3. CASE /\ Becomes(r, [task[r] EXCEPT !.pc = "tail", !.lastStatus = status,
                                        !.lastBody = body])
           /\ UNCHANGED answer
  <2>1. task'[r] = [task[r] EXCEPT !.pc = "tail", !.lastStatus = status,
                                   !.lastBody = body]
    BY <1>3, OneRequestFrame
  <2>2. task'[r].pc = "tail"
    BY <1>0, <2>1 DEF Tasks
  <2> QED
    BY <1>3, <2>2
<1> QED
  BY <1>1, <1>2, <1>3 DEF EndAttempt

\* A step of a request judges the key the request holds, or no key.
LEMMA Judgement ==
  ASSUME TypeOK, NEW r \in Requests, RequestInv(r), Dispatch(r)
  PROVE  SameKeys \/ Blame(r) \/ Credit(r)
<1>0. IsPool(pool) /\ NoSlot \in Nat \cup {NoSlot}
      /\ Entries(pool) \cup {NoSlot} \subseteq Nat \cup {NoSlot}
  BY DEF TypeOK, Entries
<1>1. CASE BeginWithPoolKey(r)
  <2>1. PICK i \in Entries(pool) \cup {NoSlot} : pool' = Acquired(pool, i)
    BY <1>1 DEF BeginWithPoolKey
  <2> QED
    BY <1>0, <2>1, PoolMethods DEF SameKeys
<1>2. CASE RotateAcquire(r)
  BY <1>0, <1>2, PoolMethods DEF RotateAcquire, SameKeys
<1>3. CASE RotateMark(r)
  <2>1. pool' = MarkUnhealthy(pool, task[r].key) /\ GoTo(r, "rotate")
        /\ UNCHANGED answer /\ task[r].pc = "mark"
    BY <1>3 DEF RotateMark, At
  <2>2. task'[r].pc = "rotate"
    BY <2>1, GoToPc
  <2> QED
    BY <2>1, <2>2 DEF Blame, RequestInv
<1>4. ASSUME NEW status, NEW body, EndAttempt(r, status, body),
             task[r].pc \in {"sent", "body"},
             pool' = MarkUnhealthy(pool, task[r].key)
      PROVE  Blame(r)
  BY <1>4, EndAttemptEffect DEF Blame, RequestInv
<1>5. CASE NetworkError(r) \/ EmptyStream(r)
  <2>1. /\ EndAttempt(r, 502, TRUE) /\ task[r].pc \in {"sent", "body"}
        /\ pool' = MarkUnhealthy(pool, task[r].key)
    BY <1>5 DEF NetworkError, EmptyStream, At
  <2> QED
    BY <1>4, <2>1, Zenon
<1>6. ASSUME NEW status, NEW body, RetryableStatus(r, status, body)
      PROVE  SameKeys \/ Blame(r)
  <2>1. /\ EndAttempt(r, status, body) /\ task[r].pc = "sent"
        /\ pool' = IF r \in OpenAI THEN MarkUnhealthy(pool, task[r].key)
                                   ELSE pool
    BY <1>6 DEF RetryableStatus, At
  <2> QED
    BY <1>4, <2>1 DEF SameKeys
<1>7. ASSUME NEW ct, SuccessOpenAI(r, ct) \/ SuccessAnthropic(r, ct)
      PROVE  SameKeys \/ Credit(r)
  <2>1. CreditKey(r)
    BY <1>7 DEF SuccessOpenAI, SuccessAnthropic
  <2> QED
    BY <2>1 DEF CreditKey, SameKeys, Credit
<1>8. CASE AfterLoop(r)
  <2>1. /\ UNCHANGED pool \/ pool' = MarkUnhealthy(pool, task[r].key)
        /\ Finish(r) /\ task[r].pc = "tail"
    BY <1>8 DEF AfterLoop, At
  <2>2. task'[r] = Locals("done")
    BY <2>1, OneRequestFrame
  <2>3. task'[r] # task[r]
    BY <2>1, <2>2 DEF Locals
  <2>4. r \notin OpenAI
    BY <2>1 DEF RequestInv
  <2> QED
    BY <2>1, <2>3, <2>4 DEF SameKeys, Blame
<1>9. CASE \/ BeginWithClientKey(r) \/ BeginRefused(r) \/ Prepare(r)
           \/ StartAttempt(r) \/ RotateRefused(r) \/ OtherError(r)
           \/ StreamStarts(r) \/ StreamEnds(r) \/ StreamBreaks(r)
           \/ PlainBody(r) \/ PlainBodyBreaks(r) \/ PipeEnds(r) \/ PipeBreaks(r)
           \/ CallbackPanics(r)
  <2>1. UNCHANGED pool
    BY <1>9, Zenon
       DEF BeginWithClientKey, BeginRefused, Prepare, StartAttempt,
           RotateRefused, OtherError, StreamStarts, StreamEnds, StreamBreaks,
           PlainBody, PlainBodyBreaks, PipeEnds, PipeBreaks, CallbackPanics
  <2> QED
    BY <2>1 DEF SameKeys
<1> QED
  BY <1>1, <1>2, <1>3, <1>5, <1>6, <1>7, <1>8, <1>9 DEF Dispatch, Callback

\* A holder has an index of the pool in place and does without the client's key.
HolderInv(r) ==
  task[r].pc # "new" /\ task[r].key \in Entries(pool) /\ ~task[r].client
HoldersInv == \A r \in holders : HolderInv(r)

\* What a step makes of the key a request works with: it keeps it, ends, or takes
\* one the pool has just handed out.
Keeps(r) == /\ task[r].pc \notin {"new", "rotate"}
            /\ task'[r].pc # "new"
            /\ task'[r].key = task[r].key /\ task'[r].client = task[r].client
Takes(r) == /\ task[r].pc \in {"new", "rotate"} /\ task'[r].pc # "new"
            /\ task[r].pc = "rotate" => task'[r].client = task[r].client
            /\ task'[r].client \/ task'[r].key \in Entries(pool)

LEMMA KeySteps ==
  ASSUME TypeOK, NEW r \in Requests, Dispatch(r)
  PROVE  At(r, "done")' \/ Keeps(r) \/ Takes(r)
<1>0. /\ task[r] \in Tasks /\ IsPool(pool) /\ NoSlot \in Nat \cup {NoSlot}
      /\ Usable(pool) \subseteq Entries(pool) /\ Locals("done").pc = "done"
  BY DEF TypeOK, Usable, Locals
<1>1. ASSUME Finish(r) PROVE At(r, "done")'
  BY <1>0, <1>1, OneRequestFrame DEF At
<1>2. ASSUME NEW pc \in {"mark", "rotate", "sent", "body", "streaming", "tail"},
             GoTo(r, pc), task[r].pc \notin {"new", "rotate"}
      PROVE  Keeps(r)
  <2>1. task'[r] = [task[r] EXCEPT !.pc = pc]
    BY <1>2, OneRequestFrame
  <2> QED
    BY <1>0, <1>2, <2>1 DEF Keeps, Tasks
<1>3. ASSUME NEW status, NEW body, EndAttempt(r, status, body),
             task[r].pc \notin {"new", "rotate"}
      PROVE  At(r, "done")' \/ Keeps(r)
  <2>1. CASE Retry(r, status, body)
    <3>1. task'[r] = [task[r] EXCEPT !.pc = "attempt", !.attempt = @ + 1,
                        !.lastStatus = IF r \in OpenAI THEN 0 ELSE status,
                        !.lastBody = body /\ r \in Anthropic]
      BY <2>1, OneRequestFrame DEF Retry
    <3> QED
      BY <1>0, <1>3, <3>1 DEF Keeps, Tasks
  <2>2. CASE Becomes(r, [task[r] EXCEPT !.pc = "tail", !.lastStatus = status,
                                        !.lastBody = body])
    <3>1. task'[r] = [task[r] EXCEPT !.pc = "tail", !.lastStatus = status,
                                     !.lastBody = body]
      BY <2>2, OneRequestFrame
    <3> QED
      BY <1>0, <1>3, <3>1 DEF Keeps, Tasks
  <2> QED
    BY <1>1, <1>3, <2>1, <2>2 DEF EndAttempt
<1>4. CASE BeginWithClientKey(r)
  <2>1. task'[r] = [Locals("prepare") EXCEPT
                      !.client = TRUE,
                      !.key = IF r \in OpenAI THEN 0 ELSE NoSlot]
        /\ task[r].pc = "new"
    BY <1>4, OneRequestFrame DEF BeginWithClientKey, At
  <2> QED
    BY <2>1 DEF Takes, Locals
<1>5. CASE BeginWithPoolKey(r)
  <2>1. PICK i \in Entries(pool) \cup {NoSlot} :
          /\ Acquire(pool, i) # NoSlot
          /\ task'[r] = [Locals("prepare") EXCEPT !.key = Acquire(pool, i)]
    BY <1>5, OneRequestFrame DEF BeginWithPoolKey
  <2>2. Acquire(pool, i) \in Entries(pool)
    BY <1>0, <2>1, AcquireServesWhileItCan
  <2>3. task[r].pc = "new"
    BY <1>5 DEF BeginWithPoolKey, At
  <2> QED
    BY <2>1, <2>2, <2>3 DEF Takes, Locals
<1>6. CASE RotateAcquire(r)
  <2>1. /\ Acquire(pool, NoSlot) # NoSlot /\ task[r].pc = "rotate"
        /\ task'[r] = [task[r] EXCEPT !.pc = "sent", !.key = Acquire(pool, NoSlot)]
    BY <1>6, OneRequestFrame DEF RotateAcquire, At
  <2>2. Acquire(pool, NoSlot) \in Entries(pool)
    BY <1>0, <2>1, AcquireServesWhileItCan
  <2> QED
    BY <1>0, <2>1, <2>2 DEF Takes, Tasks
<1>7. CASE Prepare(r)
  <2>1. PICK handoff \in Handoff, stream \in BOOLEAN, attempts \in RetryAttempts :
          Becomes(r, [task[r] EXCEPT
                        !.pc = "attempt",
                        !.limit = IF attempts <= 0 THEN 1 ELSE attempts])
    BY <1>7 DEF Prepare
  <2>2. task'[r] = [task[r] EXCEPT
                      !.pc = "attempt",
                      !.limit = IF attempts <= 0 THEN 1 ELSE attempts]
    BY <2>1, OneRequestFrame
  <2>3. task[r].pc = "prepare"
    BY <1>7 DEF Prepare, At
  <2> QED
    BY <1>0, <2>2, <2>3 DEF Keeps, Tasks
<1>8. CASE \/ StartAttempt(r) \/ RotateMark(r) \/ StreamStarts(r)
           \/ PipeEnds(r) \/ PipeBreaks(r)
  <2>1. /\ task[r].pc \notin {"new", "rotate"}
        /\ \E pc \in {"mark", "rotate", "sent", "streaming", "tail"} : GoTo(r, pc)
    BY <1>8 DEF StartAttempt, RotateMark, StreamStarts, PipeEnds, PipeBreaks, At
  <2> QED
    BY <1>2, <2>1
<1>9. CASE NetworkError(r) \/ EmptyStream(r)
  <2>1. EndAttempt(r, 502, TRUE) /\ task[r].pc \notin {"new", "rotate"}
    BY <1>9 DEF NetworkError, EmptyStream, At
  <2> QED
    BY <1>3, <2>1, Zenon
<1>10. ASSUME NEW status, NEW body, RetryableStatus(r, status, body)
       PROVE  At(r, "done")' \/ Keeps(r)
  <2>1. EndAttempt(r, status, body) /\ task[r].pc \notin {"new", "rotate"}
    BY <1>10 DEF RetryableStatus, At
  <2> QED
    BY <1>3, <2>1, Zenon
<1>11. ASSUME NEW ct, SuccessOpenAI(r, ct) \/ SuccessAnthropic(r, ct)
       PROVE  Keeps(r)
  <2>1. CASE SuccessOpenAI(r, ct)
    <3>1. task'[r] = [task[r] EXCEPT !.pc = "body", !.sse = IsStream(ct)]
          /\ task[r].pc = "sent"
      BY <2>1, OneRequestFrame DEF SuccessOpenAI, At
    <3> QED
      BY <1>0, <3>1 DEF Keeps, Tasks
  <2>2. CASE SuccessAnthropic(r, ct)
    <3>1. (GoTo(r, "tail") \/ GoTo(r, "body")) /\ task[r].pc = "sent"
      BY <2>2 DEF SuccessAnthropic, At
    <3> QED
      BY <1>2, <3>1
  <2> QED
    BY <1>11, <2>1, <2>2
<1>12. CASE OtherError(r)
  <2>1. (Finish(r) \/ GoTo(r, "tail")) /\ task[r].pc = "sent"
    BY <1>12 DEF OtherError, At
  <2> QED
    BY <1>1, <1>2, <2>1
<1>13. CASE \/ BeginRefused(r) \/ RotateRefused(r) \/ StreamEnds(r)
            \/ StreamBreaks(r) \/ PlainBody(r) \/ PlainBodyBreaks(r)
            \/ CallbackPanics(r) \/ AfterLoop(r)
  <2>1. Finish(r)
    BY <1>13, Zenon
       DEF BeginRefused, RotateRefused, StreamEnds, StreamBreaks, PlainBody,
           PlainBodyBreaks, CallbackPanics, AfterLoop
  <2> QED
    BY <1>1, <2>1
<1> QED
  BY <1>4, <1>5, <1>6, <1>7, <1>8, <1>9, <1>10, <1>11, <1>12, <1>13
     DEF Dispatch, Callback

\* What a step of a request does to the pool: it judges its own key or none, and
\* the pool keeps its entries.
LEMMA PoolOfAStep ==
  ASSUME TypeOK, AnswerInv, NEW r \in Requests, Dispatch(r)
  PROVE  /\ Entries(pool') = Entries(pool)
         /\ pool'.cooling \cup {task[r].key} = pool.cooling \cup {task[r].key}
         /\ r \in OpenAI /\ answer'[r].data => pool'.cooling \subseteq pool.cooling
<1>0. IsPool(pool) /\ task[r].key \in Nat \cup {NoSlot}
  BY DEF TypeOK, Tasks
<1>1. SameKeys \/ Blame(r) \/ Credit(r)
  BY Judgement DEF AnswerInv
<1>2. CASE SameKeys
  BY <1>2 DEF SameKeys, Entries
<1>3. CASE Blame(r)
  BY <1>0, <1>3, PoolMethods DEF Blame, Entries
<1>4. CASE Credit(r)
  <2>1. /\ pool'.cooling = pool.cooling \ {task[r].key}
        /\ pool'.size = pool.size
    BY <1>0, <1>4, PoolMethods DEF Credit
  <2>2. pool'.cooling \cup {task[r].key} = pool.cooling \cup {task[r].key}
    BY <2>1
  <2> QED
    BY <2>1, <2>2 DEF Entries
<1> QED
  BY <1>1, <1>2, <1>3, <1>4

LEMMA HoldersStep ==
  TypeOK /\ AnswerInv /\ HoldersInv /\ [Next]_vars => HoldersInv'
<1> SUFFICES ASSUME TypeOK, AnswerInv, HoldersInv, [Next]_vars, NEW q \in holders'
             PROVE  HolderInv(q)'
  BY DEF HoldersInv
<1>0. q \in Requests /\ holders \subseteq Requests
  BY HoldersType DEF TypeOK
<1>1. ASSUME q \in holders, task'[q] = task[q], Entries(pool') = Entries(pool)
      PROVE  HolderInv(q)'
  BY <1>1 DEF HoldersInv, HolderInv, Entries
<1>2. ASSUME NEW r \in Requests, Dispatch(r) PROVE HolderInv(q)'
  <2>1. HoldsKey(r) /\ Entries(pool') = Entries(pool)
    BY <1>2, PoolOfAStep DEF Dispatch
  <2>2. CASE q # r
    BY <1>0, <1>1, <1>2, <2>1, <2>2, OthersUntouched DEF HoldsKey
  <2>3. CASE q = r
    <3>1. ~At(r, "done")'
      BY <2>1, <2>3 DEF HoldsKey
    <3>2. Keeps(r) \/ Takes(r)
      BY <1>2, <3>1, KeySteps
    <3>3. CASE Keeps(r)
      BY <2>1, <2>3, <3>1, <3>3 DEF HoldsKey, Keeps, HoldersInv, HolderInv, Entries
    <3>4. CASE Takes(r)
      BY <2>1, <2>3, <3>1, <3>4 DEF HoldsKey, Takes, HoldersInv, HolderInv, Entries
    <3> QED
      BY <3>2, <3>3, <3>4
  <2> QED
    BY <2>2, <2>3
<1>3. CASE \E r \in Requests : TimeoutClaims(r) \/ ServeHTTPReturns(r)
  BY <1>1, <1>3 DEF TimeoutClaims, ServeHTTPReturns
<1>4. CASE ReplacePool
  BY <1>4 DEF ReplacePool
<1>5. CASE CooldownEnds \/ DashboardAcquire \/ DashboardMark
  <2>1. IsPool(pool) /\ NoSlot \in Nat \cup {NoSlot}
        /\ pool.cooling \subseteq Nat /\ Entries(pool) \subseteq Nat
    BY DEF TypeOK, IsPool, Entries
  <2>2. pool'.size = pool.size
    <3>1. CASE \E i \in Nat : pool' = MarkHealthy(pool, i)
      BY <2>1, <3>1, PoolMethods
    <3>2. CASE pool' = Acquired(pool, NoSlot)
      BY <2>1, <3>2, PoolMethods
    <3> QED
      BY <1>5, <2>1, <3>1, <3>2 DEF CooldownEnds, DashboardAcquire, DashboardMark
  <2>3. UNCHANGED <<task, holders>>
    BY <1>5 DEF CooldownEnds, DashboardAcquire, DashboardMark
  <2> QED
    BY <1>1, <2>2, <2>3 DEF Entries
<1>6. CASE UNCHANGED vars
  BY <1>1, <1>6 DEF vars
<1> QED
  BY <1>2, <1>3, <1>4, <1>5, <1>6 DEF Next, Environment

LEMMA HoldersStart == Init => HoldersInv
BY DEF Init, HoldersInv

LEMMA HoldersJudge ==
  ASSUME TypeOK, AnswerInv, HoldersInv, [Next]_vars, NEW r \in holders,
         task'[r] # task[r]
  PROVE  /\ task[r].key \in Entries(pool)
         /\ pool'.cooling \cup {task[r].key} = pool.cooling \cup {task[r].key}
         /\ r \in OpenAI /\ answer'[r].data => pool'.cooling \subseteq pool.cooling
<1>1. r \in Requests
  BY DEF TypeOK
<1>2. Dispatch(r)
  BY <1>1, OwnTask
<1> QED
  BY <1>1, <1>2, PoolOfAStep DEF HoldersInv, HolderInv

\* However requests, replacements of the pool and the dashboard interleave: a
\* request with a key of the pool in place blames and credits this key and no
\* other.
THEOREM HoldersJudgeTheirs == Spec => HoldersJudgeTheirKey
<1>1. TypeOK /\ AnswerInv /\ HoldersInv /\ [Next]_vars =>
        [\A r \in holders : task'[r] # task[r] =>
           /\ task[r].key \in Entries(pool)
           /\ pool'.cooling \cup {task[r].key} = pool.cooling \cup {task[r].key}
           /\ r \in OpenAI /\ answer'[r].data => pool'.cooling \subseteq pool.cooling
        ]_vars
  BY HoldersJudge
<1>2. Spec => [](TypeOK /\ AnswerInv /\ HoldersInv)
  BY TypeInit, TypeStep, AnswerInit, AnswerStep, HoldersStart, HoldersStep, PTL
     DEF Spec
<1> QED
  BY <1>1, <1>2, PTL DEF Spec, HoldersJudgeTheirKey
=============================================================================
