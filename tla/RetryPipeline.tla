---------------------------- MODULE RetryPipeline ----------------------------
(***************************************************************************)
(* What a dispatched request does: proxyChatRequest (format "openai") and  *)
(* proxyAnthropicRequest (format "anthropic"), with the retry loop of      *)
(* src/src/retry.go, the key pool all requests share, and the response     *)
(* that ServeHTTP's timeout may claim, or cut, meanwhile.                  *)
(*                                                                         *)
(* Grain.  One action is one call of a KeyPool method together with the    *)
(* writes its goroutine makes to its own response before the next call,    *)
(* or one stretch between two waits for the upstream.                      *)
(*                                                                         *)
(* Not here: the proxy without any configured key (KeyPool nil), whose     *)
(* requests touch no pool; sessions, whose only effect is the preferred    *)
(* index, which is any; Config.APIKey and the client key last known as     *)
(* good, which only the dashboard reads; the callbacks' guard on           *)
(* headersCommitted, which CommittedIsNotRetried shows is never taken.     *)
(***************************************************************************)
EXTENDS KeyPool, FiniteSets

CONSTANTS
  Requests,      \* the dispatched requests
  Format,        \* [Requests -> {"openai", "anthropic"}]
  Modes,         \* the API_KEY_MODEs the configuration may have
  Handoff,       \* whether a model may need the vision handoff
  RetryAttempts, \* the configured numbers of attempts
  PoolSizes      \* the sizes a configured pool may have

ASSUME RetryAssumption ==
  /\ IsFiniteSet(Requests)
  /\ Format \in [Requests -> {"openai", "anthropic"}]
  /\ Modes \subseteq {"managed", "smart", "passthrough"}
  /\ Handoff \subseteq BOOLEAN
  /\ RetryAttempts \subseteq Nat
  /\ PoolSizes \subseteq Nat

VARIABLES
  pool,          \* p.KeyPool
  task,          \* the locals of each request's goroutine
  answer,        \* what each response tells its client
  throttles,     \* how often each request called BumpThrottled
  holders        \* history: the requests that hold a key of the pool in place

vars == <<pool, task, answer, throttles, holders>>

OpenAI    == {r \in Requests : Format[r] = "openai"}
Anthropic == {r \in Requests : Format[r] = "anthropic"}

\* Content types: event-stream, event-stream with parameters, any other.
ContentTypes == {"sse", "sse;params", "other"}
IsStream(ct) == ct # "other"

\* lastStatus: 0 is none, 502 stands for every failure but a 503.
Statuses == {0, 502, 503}

Locals(pc) ==
  [pc |-> pc, attempt |-> 1, limit |-> 1, key |-> NoSlot, client |-> FALSE,
   lastStatus |-> 0, lastBody |-> FALSE, sse |-> FALSE]

\* head is the status line sent, or "cut" once ServeHTTP has returned over a
\* committed response, ctype the header map's Content-Type, data whether body
\* bytes went out, whole and errors how many complete bodies and error messages.
NoAnswer ==
  [head |-> "none", ctype |-> "other", data |-> FALSE, whole |-> 0, errors |-> 0]

Tasks ==
  [pc : {"new", "prepare", "attempt", "mark", "rotate", "sent", "body",
         "streaming", "tail", "done"},
   attempt : Nat \ {0}, limit : Nat \ {0}, key : Nat \cup {NoSlot},
   client : BOOLEAN, lastStatus : Statuses,
   lastBody : BOOLEAN, sse : BOOLEAN]

Answers ==
  [head : {"none", "sse", "ok", "error", "timeout", "cut"}, ctype : ContentTypes,
   data : BOOLEAN, whole : Nat, errors : Nat]

TypeOK ==
  /\ IsPool(pool)
  /\ task \in [Requests -> Tasks]
  /\ answer \in [Requests -> Answers]
  /\ throttles \in [Requests -> Nat]
  /\ holders \subseteq Requests

Init ==
  /\ \E n \in PoolSizes : pool = NewKeyPool(n)
  /\ task = [r \in Requests |-> Locals("new")]
  /\ answer = [r \in Requests |-> NoAnswer]
  /\ throttles = [r \in Requests |-> 0]
  /\ holders = {}

------------------------------------------------------------------------------
(* The response.  Once the timeout has claimed it, or ServeHTTP has returned *)
(* over it, every write is lost.                                             *)

Lost(a) == a.head \in {"timeout", "cut"}

\* commitSSE, or nothing if the response is committed.
SSEHeaders(a) ==
  IF a.head = "none" THEN [a EXCEPT !.head = "sse", !.ctype = "sse"] ELSE a

Data(a)  == IF Lost(a) THEN a ELSE [a EXCEPT !.data = TRUE]
Whole(a) == IF Lost(a) THEN a ELSE [a EXCEPT !.data = TRUE, !.whole = @ + 1]

\* writeSSEErrorEvent
ErrorEvent(a) == IF Lost(a) THEN a ELSE [a EXCEPT !.errors = @ + 1]

\* WriteJSON with an error: an event on an event stream, nothing on another
\* committed response, else a status line and a body.
WriteError(a) ==
  IF a.ctype = "sse" THEN ErrorEvent(a)
  ELSE IF a.head # "none" THEN a
  ELSE [a EXCEPT !.head = "error", !.errors = @ + 1]

Writes(r, a) == answer' = [answer EXCEPT ![r] = a]
Becomes(r, t) == task' = [task EXCEPT ![r] = t]
GoTo(r, pc)   == Becomes(r, [task[r] EXCEPT !.pc = pc])
Finish(r)     == Becomes(r, Locals("done"))
BumpThrottled(r) == throttles' = [throttles EXCEPT ![r] = @ + 1]

At(r, pc) == task[r].pc = pc
IsLast(r) == task[r].attempt = task[r].limit

------------------------------------------------------------------------------
(* Before the loop: the key and the vision handoff. *)

\* A client key is used as it is; the OpenAI path keeps key index 0, the
\* Anthropic path none.
BeginWithClientKey(r) ==
  /\ At(r, "new") /\ Modes \cap {"smart", "passthrough"} # {}
  /\ Becomes(r, [Locals("prepare") EXCEPT
                    !.client = TRUE, !.key = IF r \in OpenAI THEN 0 ELSE NoSlot])
  /\ UNCHANGED <<pool, answer, throttles>>

BeginWithPoolKey(r) ==
  /\ At(r, "new") /\ Modes \cap {"smart", "managed"} # {}
  /\ \E preferred \in Entries(pool) \cup {NoSlot} :
       /\ Acquire(pool, preferred) # NoSlot
       /\ pool' = Acquired(pool, preferred)
       /\ Becomes(r, [Locals("prepare") EXCEPT !.key = Acquire(pool, preferred)])
  /\ UNCHANGED <<answer, throttles>>

\* No usable key in the pool: 503.  No client key in pass-through mode: 401.
BeginRefused(r) ==
  /\ At(r, "new")
  /\ \/ /\ Modes \cap {"smart", "managed"} # {}
        /\ Acquire(pool, NoSlot) = NoSlot
     \/ "passthrough" \in Modes
  /\ Writes(r, WriteError(answer[r]))
  /\ Finish(r)
  /\ UNCHANGED <<pool, throttles>>

\* A streaming request that needs the handoff gets its SSE headers and a
\* keepalive comment now.  Then the retry loop reads the number of attempts.
\* Only the OpenAI path asks again whether the client wants a stream.
Prepare(r) ==
  /\ At(r, "prepare")
  /\ \E handoff \in Handoff, stream \in BOOLEAN, attempts \in RetryAttempts :
       /\ Writes(r, IF handoff /\ stream THEN SSEHeaders(answer[r])
                                         ELSE answer[r])
       /\ Becomes(r, [task[r] EXCEPT
                         !.pc = "attempt",
                         !.limit = IF attempts <= 0 THEN 1 ELSE attempts])
  /\ UNCHANGED <<pool, throttles>>

------------------------------------------------------------------------------
(* One attempt. *)

\* A retry with a pool key and more than one key to choose from rotates.
StartAttempt(r) ==
  /\ At(r, "attempt")
  /\ GoTo(r, IF task[r].attempt > 1 /\ ~task[r].client /\ pool.size > 1
             THEN "mark" ELSE "sent")
  /\ UNCHANGED <<pool, answer, throttles>>

RotateMark(r) ==
  /\ At(r, "mark")
  /\ pool' = MarkUnhealthy(pool, task[r].key)
  /\ GoTo(r, "rotate")
  /\ UNCHANGED <<answer, throttles>>

\* Mutant: the rotation marks the key it has just acquired.
RotateAcquireThenMark(r) ==
  /\ At(r, "rotate")
  /\ Acquire(pool, NoSlot) # NoSlot
  /\ pool' = MarkUnhealthy(Acquired(pool, NoSlot), Acquire(pool, NoSlot))
  /\ Becomes(r, [task[r] EXCEPT !.pc = "sent", !.key = Acquire(pool, NoSlot)])
  /\ UNCHANGED <<answer, throttles>>

RotateAcquire(r) ==
  /\ At(r, "rotate")
  /\ Acquire(pool, NoSlot) # NoSlot
  /\ pool' = Acquired(pool, NoSlot)
  /\ Becomes(r, [task[r] EXCEPT !.pc = "sent", !.key = Acquire(pool, NoSlot)])
  /\ UNCHANGED <<answer, throttles>>

\* Every key is in its cooldown: the loop ends with an error.
RotateRefused(r) ==
  /\ At(r, "rotate")
  /\ Acquire(pool, NoSlot) = NoSlot
  /\ Writes(r, WriteError(answer[r]))
  /\ Finish(r)
  /\ UNCHANGED <<pool, throttles>>

\* The OpenAI path's lastStatus only sets the length of a cooldown.
Retry(r, status, body) ==
  Becomes(r, [task[r] EXCEPT
                !.pc = "attempt", !.attempt = @ + 1,
                !.lastStatus = IF r \in OpenAI THEN 0 ELSE status,
                !.lastBody = body /\ r \in Anthropic])

\* A failed attempt: again, or the last one.  The OpenAI path then answers at
\* once, the Anthropic path after the loop.
EndAttempt(r, status, body) ==
  \/ /\ ~IsLast(r)
     /\ Retry(r, status, body)
     /\ UNCHANGED answer
  \/ /\ IsLast(r) /\ r \in OpenAI
     /\ Writes(r, WriteError(answer[r]))
     /\ Finish(r)
  \/ /\ IsLast(r) /\ r \in Anthropic
     /\ Becomes(r, [task[r] EXCEPT
                       !.pc = "tail", !.lastStatus = status, !.lastBody = body])
     /\ UNCHANGED answer

NetworkError(r) ==
  /\ At(r, "sent")
  /\ pool' = MarkUnhealthy(pool, task[r].key)
  /\ EndAttempt(r, 502, TRUE)
  /\ UNCHANGED throttles

\* Mutant: the OpenAI path counts the throttle on every attempt.
RetryableStatusBumps(r, status, body) ==
  /\ At(r, "sent")
  /\ pool' = IF r \in OpenAI THEN MarkUnhealthy(pool, task[r].key) ELSE pool
  /\ IF r \in OpenAI /\ status = 503
     THEN BumpThrottled(r) ELSE UNCHANGED throttles
  /\ EndAttempt(r, status, body)

\* 503, or 500 and 502, with or without a body.  The Anthropic path blames the key
\* and counts the throttle elsewhere: when it rotates and in its tail.
RetryableStatus(r, status, body) ==
  /\ At(r, "sent")
  /\ pool' = IF r \in OpenAI THEN MarkUnhealthy(pool, task[r].key) ELSE pool
  /\ IF r \in OpenAI /\ IsLast(r) /\ status = 503
     THEN BumpThrottled(r) ELSE UNCHANGED throttles
  /\ EndAttempt(r, status, body)

\* Any other status from 400 on goes to the client; 429 counts as a throttle.
OtherError(r) ==
  /\ At(r, "sent")
  /\ Writes(r, WriteError(answer[r]))
  /\ \/ UNCHANGED throttles
     \/ BumpThrottled(r)
  /\ IF r \in OpenAI THEN Finish(r) ELSE GoTo(r, "tail")
  /\ UNCHANGED pool

\* 2xx: the key is healthy, or the client's key known as good.
CreditKey(r) ==
  pool' = IF task[r].client THEN pool ELSE MarkHealthy(pool, task[r].key)

SuccessOpenAI(r, ct) ==
  /\ At(r, "sent") /\ r \in OpenAI
  /\ CreditKey(r)
  /\ Becomes(r, [task[r] EXCEPT !.pc = "body", !.sse = IsStream(ct)])
  /\ UNCHANGED <<answer, throttles>>

\* The Anthropic path sets the content type, then drops the upstream's body if
\* the response is committed, or else commits and pipes it.
SuccessAnthropic(r, ct) ==
  /\ At(r, "sent") /\ r \in Anthropic
  /\ CreditKey(r)
  /\ \/ /\ answer[r].head # "none"
        /\ Writes(r, [answer[r] EXCEPT !.ctype = ct])
        /\ GoTo(r, "tail")
     \/ /\ answer[r].head = "none"
        /\ Writes(r, [answer[r] EXCEPT !.ctype = ct, !.head = "ok"])
        /\ GoTo(r, "body")
  /\ UNCHANGED throttles

------------------------------------------------------------------------------
(* The body of a success. *)

\* An event stream that ends before its first byte is a failed attempt.
EmptyStream(r) ==
  /\ At(r, "body") /\ r \in OpenAI /\ task[r].sse
  /\ pool' = MarkUnhealthy(pool, task[r].key)
  /\ EndAttempt(r, 502, TRUE)
  /\ UNCHANGED throttles

StreamStarts(r) ==
  /\ At(r, "body") /\ r \in OpenAI /\ task[r].sse
  /\ Writes(r, Data(SSEHeaders(answer[r])))
  /\ GoTo(r, "streaming")
  /\ UNCHANGED <<pool, throttles>>

StreamEnds(r) ==
  /\ At(r, "streaming")
  /\ Writes(r, Whole(answer[r]))
  /\ Finish(r)
  /\ UNCHANGED <<pool, throttles>>

\* Mutant: a broken stream is tried again.
StreamBreaksRetry(r) ==
  /\ At(r, "streaming")
  /\ EndAttempt(r, 502, TRUE)
  /\ UNCHANGED <<pool, throttles>>

StreamBreaks(r) ==
  /\ At(r, "streaming")
  /\ Writes(r, ErrorEvent(answer[r]))
  /\ Finish(r)
  /\ UNCHANGED <<pool, throttles>>

\* Any other body is read to its end and then sent, as one event if the client
\* asked for a stream.
PlainBody(r) ==
  /\ At(r, "body") /\ r \in OpenAI /\ ~task[r].sse
  /\ \E stream \in BOOLEAN :
       Writes(r, Whole(IF stream THEN SSEHeaders(answer[r])
                       ELSE IF answer[r].head = "none"
                       THEN [answer[r] EXCEPT !.head = "ok"] ELSE answer[r]))
  /\ Finish(r)
  /\ UNCHANGED <<pool, throttles>>

\* Mutant: the error of reading the body is dropped.
PlainBodyBreaksSilently(r) ==
  /\ At(r, "body") /\ r \in OpenAI /\ ~task[r].sse
  /\ Finish(r)
  /\ UNCHANGED <<pool, answer, throttles>>

PlainBodyBreaks(r) ==
  /\ At(r, "body") /\ r \in OpenAI /\ ~task[r].sse
  /\ Writes(r, WriteError(answer[r]))
  /\ Finish(r)
  /\ UNCHANGED <<pool, throttles>>

PipeEnds(r) ==
  /\ At(r, "body") /\ r \in Anthropic
  /\ Writes(r, Whole(answer[r]))
  /\ GoTo(r, "tail")
  /\ UNCHANGED <<pool, throttles>>

\* Only an event stream can still carry an error.
PipeBreaks(r) ==
  /\ At(r, "body") /\ r \in Anthropic
  /\ Writes(r, IF IsStream(answer[r].ctype)
               THEN ErrorEvent(Data(answer[r])) ELSE Data(answer[r]))
  /\ GoTo(r, "tail")
  /\ UNCHANGED <<pool, throttles>>

\* A panic in the callback ends the loop with an error.
CallbackPanics(r) ==
  /\ task[r].pc \in {"sent", "body", "streaming"}
  /\ Writes(r, WriteError(answer[r]))
  /\ Finish(r)
  /\ UNCHANGED <<pool, throttles>>

\* After the Anthropic loop: the last recorded error, if it had a body.
AfterLoop(r) ==
  /\ At(r, "tail")
  /\ \/ /\ task[r].lastStatus # 0 /\ task[r].lastBody
        /\ Writes(r, WriteError(answer[r]))
        /\ IF task[r].lastStatus = 503
           THEN /\ pool' = MarkUnhealthy(pool, task[r].key)
                /\ BumpThrottled(r)
           ELSE UNCHANGED <<pool, throttles>>
     \/ /\ task[r].lastStatus = 0 \/ ~task[r].lastBody
        /\ UNCHANGED <<pool, answer, throttles>>
  /\ Finish(r)

------------------------------------------------------------------------------
(* Around the requests. *)

\* ServeHTTP's timeout claims a response that nobody has committed, while the
\* request waits in the queue or after its dispatch.
TimeoutClaims(r) ==
  /\ task[r].pc # "done" /\ answer[r].head = "none"
  /\ Writes(r, [answer[r] EXCEPT !.head = "timeout", !.ctype = "other"])
  /\ UNCHANGED <<pool, task, throttles, holders>>

\* A committed response is let alone for the grace of 5 seconds; then ServeHTTP
\* returns, and net/http ends the response under the request that writes it.
ServeHTTPReturns(r) ==
  /\ task[r].pc # "done" /\ answer[r].head # "none" /\ ~Lost(answer[r])
  /\ Writes(r, [answer[r] EXCEPT !.head = "cut"])
  /\ UNCHANGED <<pool, task, throttles, holders>>

CooldownEnds ==
  /\ \E i \in pool.cooling : pool' = MarkHealthy(pool, i)
  /\ UNCHANGED <<task, answer, throttles, holders>>

\* HandleConfigPost and HandleKeysPost put a new pool in the place of the old;
\* requests in flight keep their index.
ReplacePool ==
  /\ \E n \in PoolSizes : pool' = NewKeyPool(n)
  /\ holders' = {}
  /\ UNCHANGED <<task, answer, throttles>>

\* upstreamAPIKeyForDashboard takes a slot and then marks it healthy, unless the
\* mode, or a client key known as good, lets it do without the pool.  Any number
\* of handlers may be between the two, so the slot to mark is any.
DashboardAcquire ==
  /\ Modes \cap {"smart", "managed"} # {}
  /\ pool' = Acquired(pool, NoSlot)
  /\ UNCHANGED <<task, answer, throttles, holders>>

DashboardMark ==
  /\ Modes \cap {"smart", "managed"} # {}
  /\ \E i \in Entries(pool) : pool' = MarkHealthy(pool, i)
  /\ UNCHANGED <<task, answer, throttles, holders>>

Callback(r) ==
  \/ StartAttempt(r) \/ RotateMark(r) \/ RotateAcquire(r) \/ RotateRefused(r)
  \/ NetworkError(r) \/ OtherError(r)
  \/ \E status \in Statuses \ {0}, body \in BOOLEAN :
       RetryableStatus(r, status, body)
  \/ \E ct \in ContentTypes : SuccessOpenAI(r, ct) \/ SuccessAnthropic(r, ct)
  \/ EmptyStream(r) \/ StreamStarts(r) \/ StreamEnds(r) \/ StreamBreaks(r)
  \/ PlainBody(r) \/ PlainBodyBreaks(r) \/ PipeEnds(r) \/ PipeBreaks(r)
  \/ CallbackPanics(r)

\* A request holds a key of the pool from Acquire to its end, or until the pool
\* is replaced.
HoldsKey(r) ==
  holders' = IF At(r, "done")' THEN holders \ {r}
             ELSE IF task[r].pc \in {"new", "rotate"} /\ ~task'[r].client
             THEN holders \cup {r} ELSE holders

Dispatch(r) ==
  /\ \/ BeginWithClientKey(r) \/ BeginWithPoolKey(r) \/ BeginRefused(r)
     \/ Prepare(r) \/ Callback(r) \/ AfterLoop(r)
  /\ HoldsKey(r)

Environment ==
  CooldownEnds \/ ReplacePool \/ DashboardAcquire \/ DashboardMark

Next ==
  \/ \E r \in Requests : Dispatch(r) \/ TimeoutClaims(r) \/ ServeHTTPReturns(r)
  \/ Environment

Spec == Init /\ [][Next]_vars

------------------------------------------------------------------------------
(* Properties of every path. *)

\* After the first byte of a body reached the client there is no further
\* attempt (the guard on headersCommitted in both callbacks is never needed).
CommittedIsNotRetried ==
  \A r \in Requests :
    task[r].pc \in {"attempt", "mark", "rotate", "sent"} => ~answer[r].data

\* Whatever other requests, the dashboard and the timers do between its steps, a
\* request that holds a key of the pool in place has an index of that pool and
\* changes the health of this key alone, and on the OpenAI path blames it only if
\* nothing was delivered.  A request with the client's key, or with an index into
\* a pool that has been replaced, holds no key of the pool: of these the property
\* says nothing.
HoldersJudgeTheirKey ==
  [][\A r \in holders : task'[r] # task[r] =>
       /\ task[r].key \in Entries(pool)
       /\ pool'.cooling \cup {task[r].key} = pool.cooling \cup {task[r].key}
       /\ r \in OpenAI /\ answer'[r].data => pool'.cooling \subseteq pool.cooling
    ]_vars

\* A rotation ends in a key outside its cooldown, and is refused only when
\* every key of the pool is inside its cooldown.
RotationUsesThePool ==
  [][\A r \in Requests : task[r].pc = "rotate" /\ task'[r] # task[r] =>
       IF task'[r].pc = "sent" THEN task'[r].key \in Usable(pool')
                               ELSE Usable(pool) = {}]_vars

(* Properties of the OpenAI path. *)

\* A finished request told its client exactly one outcome, a complete body or
\* an error, unless the timeout told it before or ServeHTTP returned over the
\* committed response, which proxy.go:204-206 says it does not do
\* (StreamRunsToItsEnd of ResponseTracker): then it told no outcome.
AnsweredOnce ==
  \A r \in OpenAI : task[r].pc = "done" =>
    answer[r].whole + answer[r].errors = IF Lost(answer[r]) THEN 0 ELSE 1

\* ThrottledCount counts a request once at most, and only if it was refused: its
\* client got no body, and the error unless it could be told nothing any more.
ThrottleMeansRefusal ==
  \A r \in OpenAI :
    /\ throttles[r] <= 1
    /\ throttles[r] = 1 => /\ answer[r].whole = 0
                           /\ answer[r].errors = 1 \/ Lost(answer[r])

(* What the repository says and the code does not keep. *)

\* The error that ends the Anthropic path is that of exhausted retries
\* (proxy_anthropic.go:255), so none follows a complete body.
NoErrorAfterSuccess ==
  \A r \in Requests : answer[r].whole = 1 => answer[r].errors = 0

\* The handoff serves both paths (README.md:319): a response that was opened
\* with its keepalive ends with a body or an error.
KeepaliveIsFollowed ==
  \A r \in Requests : task[r].pc = "done" /\ answer[r].head = "sse" =>
    answer[r].whole + answer[r].errors > 0

\* In pass-through mode the proxy's key management is disabled (README.md:300):
\* a step of a request with a client key leaves the pool as it is.
ClientKeyLeavesPoolAlone ==
  [][\A r \in Requests :
       task[r].client /\ task'[r] # task[r] => pool' = pool]_vars
==============================================================================
