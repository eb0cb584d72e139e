---------------------------- MODULE ResponseTracker ----------------------------
(***************************************************************************)
(* One request's response and the goroutines that can write it: ServeHTTP  *)
(* (main) with its timeout, the handler goroutine it starts, the dispatch  *)
(* goroutine that serves a queued request, and a shutdown that rejects it. *)
(* All but the claimed answers go through responseWriterTracker.           *)
(*                                                                         *)
(* Grain.  One action is one critical section of the tracker's mutex, or   *)
(* one access to the underlying writer outside of it.  Tracker.Write only  *)
(* checks under the mutex and writes after it, and Header() is not guarded *)
(* at all, so WriteJSON is five steps: look, header, status, check, bytes. *)
(*                                                                         *)
(* A panic inside a proxied request ends in WriteJSON or, on a committed   *)
(* response, in nothing: the same steps as an error and as the end of a    *)
(* stream.  Abort and Hijack have no caller.  The event that the recovery  *)
(* adds to a running stream is left out: the goroutine it runs in never    *)
(* streams.                                                                *)
(***************************************************************************)
EXTENDS Integers, FiniteSets

Authors == {"main", "handler", "dispatch", "shutdown"}
ContentTypes == {"none", "json", "html", "sse"}
NoStatus == [by |-> "nobody", type |-> "none"]

VARIABLES
  at,                  \* program counter of each author
  written, hijacked,   \* the fields of responseWriterTracker
  contentType,         \* the header map's Content-Type
  statusLine,          \* the client's status line: by whom, of which type
  body,                \* the authors of the bytes the client gets
  deadline,            \* the request's timeout has fired
  client               \* "there" or "gone"

trackerVars == <<at, written, hijacked, contentType, statusLine, body,
                 deadline, client>>

\* The steps of a claimed answer, of WriteJSON, of the relay of an upstream
\* response or a page, of Tracker.Write, and of a stream.
AnswerSteps ==
  {"claimed", "claimed.head", "claimed.body", "json", "json.head",
   "relay", "relay.head", "write", "bytes", "stream", "stream.write", "stream.bytes"}
MainSteps     == {"serving", "grace", "returned"}
HandlerSteps  == {"start", "panicked", "waiting", "ending", "done"}
DispatchSteps == {"absent", "queued", "skipped", "rejected", "start", "ending", "closed"}
ShutdownSteps == {"idle", "start", "ending"}

StepsOf(a) ==
  AnswerSteps \cup CASE a = "main"     -> MainSteps
                     [] a = "handler"  -> HandlerSteps
                     [] a = "dispatch" -> DispatchSteps
                     [] a = "shutdown" -> ShutdownSteps

TrackerTypeOK ==
  /\ DOMAIN at = Authors
  /\ \A a \in Authors : at[a] \in StepsOf(a)
  /\ written \in BOOLEAN
  /\ hijacked \in BOOLEAN
  /\ contentType \in ContentTypes
  /\ statusLine \in [by : Authors, type : ContentTypes] \cup {NoStatus}
  /\ body \subseteq Authors
  /\ deadline \in BOOLEAN
  /\ client \in {"there", "gone"}

TrackerInit ==
  /\ at = [a \in Authors |-> CASE a = "main"     -> "serving"
                               [] a = "handler"  -> "start"
                               [] a = "dispatch" -> "absent"
                               [] a = "shutdown" -> "idle"]
  /\ written = FALSE
  /\ hijacked = FALSE
  /\ contentType = "none"
  /\ statusLine = NoStatus
  /\ body = {}
  /\ deadline = FALSE
  /\ client = "there"

Go(a, from, to) ==
  /\ at[a] = from
  /\ at' = [at EXCEPT ![a] = to]

IsCommitted == written \/ hijacked

\* The server closes the response and cancels its context when ServeHTTP returns.
Returned == at["main"] = "returned"
ClientDone == client = "gone" \/ Returned
ContextDone == client = "gone" \/ deadline

response == <<statusLine, body>>
flags == <<written, hijacked>>
outside == <<deadline, client>>

------------------------------------------------------------------------------
(* The tracker and the underlying writer. *)

\* The underlying WriteHeader: the header map goes out as it is now.
SendStatus(a) ==
  statusLine' = IF Returned \/ statusLine # NoStatus THEN statusLine
                ELSE [by |-> a, type |-> contentType']

\* The underlying Write: it sends an implied 200 if nothing went out before.
SendBytes(a) ==
  /\ SendStatus(a)
  /\ body' = IF Returned THEN body ELSE body \cup {a}

\* A mutant: the commit is not looked at.
WriteHeaderAnyway(a) ==
  /\ written' = TRUE
  /\ SendStatus(a)
  /\ UNCHANGED hijacked

WriteHeader(a) ==
  IF IsCommitted
  THEN UNCHANGED <<flags, statusLine>>
  ELSE /\ written' = TRUE
       /\ SendStatus(a)
       /\ UNCHANGED hijacked

\* Claim, and what its caller does with the two results.
Claim(a, from, refused) ==
  /\ Go(a, from, IF IsCommitted THEN refused ELSE "claimed")
  /\ written' = TRUE
  /\ hijacked' = (hijacked \/ ~written)
  /\ UNCHANGED <<contentType, response, outside>>

\* The answer to a claim goes to the underlying writer in three calls.
ClaimedAnswer(a, then) ==
  \/ /\ Go(a, "claimed", "claimed.head")
     /\ contentType' = "json"
     /\ UNCHANGED <<flags, response, outside>>
  \/ /\ Go(a, "claimed.head", "claimed.body")
     /\ UNCHANGED <<contentType, flags, body, outside>>
     /\ SendStatus(a)
  \/ /\ Go(a, "claimed.body", then)
     /\ UNCHANGED <<contentType, flags, outside>>
     /\ SendBytes(a)

\* WriteJSON: an event on a response whose header says event stream, else the
\* look at IsCommitted, the header, and WriteHeader.
WriteJSON(a) ==
  \/ /\ Go(a, "start", CASE contentType = "sse" -> "write"
                         [] contentType # "sse" /\ IsCommitted -> "ending"
                         [] OTHER -> "json")
     /\ UNCHANGED <<contentType, flags, response, outside>>
  \/ /\ Go(a, "json", "json.head")
     /\ contentType' = "json"
     /\ UNCHANGED <<flags, response, outside>>
  \/ /\ Go(a, "json.head", "write")
     /\ UNCHANGED <<contentType, body, outside>>
     /\ WriteHeader(a)

\* A mutant: a claimed response is written to.
WriteAnyway(a, pc, bytes, then) ==
  \/ /\ Go(a, pc, bytes)
     /\ written' = TRUE
     /\ UNCHANGED <<hijacked, contentType, response, outside>>
  \/ /\ Go(a, bytes, then)
     /\ UNCHANGED <<contentType, flags, outside>>
     /\ SendBytes(a)

\* Tracker.Write at pc, and the write itself at the next step.
Write(a, pc, bytes, then) ==
  \/ /\ Go(a, pc, IF hijacked THEN "ending" ELSE bytes)
     /\ written' = TRUE
     /\ UNCHANGED <<hijacked, contentType, response, outside>>
  \/ /\ Go(a, bytes, then)
     /\ UNCHANGED <<contentType, flags, outside>>
     /\ SendBytes(a)

\* A page or an upstream response: header first, then the look at IsCommitted
\* and the status.
Relay(a, types, then) ==
  \/ /\ Go(a, "start", "relay")
     /\ contentType' \in types
     /\ UNCHANGED <<flags, response, outside>>
  \/ /\ Go(a, "relay", IF IsCommitted THEN "ending" ELSE "relay.head")
     /\ UNCHANGED <<contentType, flags, response, outside>>
  \/ /\ Go(a, "relay.head", then)
     /\ UNCHANGED <<contentType, body, outside>>
     /\ WriteHeader(a)

------------------------------------------------------------------------------
(* The handler goroutine. *)

\* HandleChatCompletions or HandleMessages hands the request to the queue.
Enqueue ==
  /\ at["handler"] = "start"
  /\ at' = [at EXCEPT !["handler"] = "waiting", !["dispatch"] = "queued"]
  /\ UNCHANGED <<contentType, flags, response, outside>>

DoneIsClosed ==
  /\ at["dispatch"] = "closed"
  /\ Go("handler", "waiting", "ending")
  /\ UNCHANGED <<contentType, flags, response, outside>>

\* A panic in a handler without a recovery of its own: ServeHTTP's claims.
Panic ==
  /\ at["handler"] \in {"start", "relay", "relay.head", "write"}
  /\ Go("handler", at["handler"], "panicked")
  /\ UNCHANGED <<contentType, flags, response, outside>>

HandlerEnds ==
  /\ Go("handler", "ending", "done")
  /\ UNCHANGED <<contentType, flags, response, outside>>

Handler ==
  \/ WriteJSON("handler")
  \/ Relay("handler", {"html"}, "write")
  \/ Write("handler", "write", "bytes", "ending")
  \/ Enqueue \/ DoneIsClosed \/ HandlerEnds
  \/ Claim("handler", "panicked", "ending")
  \/ ClaimedAnswer("handler", "ending")

------------------------------------------------------------------------------
(* The dispatch goroutine. *)

RunDispatch ==
  /\ Go("dispatch", "queued", "start")
  /\ UNCHANGED <<contentType, flags, response, outside>>

\* A mutant: the status is left to the first event.
CommitSSEUnsent ==
  /\ Go("dispatch", "start", "stream")
  /\ IF IsCommitted
     THEN UNCHANGED <<contentType, written>>
     ELSE contentType' = "sse" /\ written' = TRUE
  /\ UNCHANGED <<statusLine, hijacked, body, outside>>

\* writeSSEHeaders: commitSSE sets header and status in one critical section;
\* a response that is taken is streamed to in vain.
CommitSSE ==
  /\ Go("dispatch", "start", "stream")
  /\ IF IsCommitted
     THEN UNCHANGED <<contentType, flags, statusLine>>
     ELSE /\ contentType' = "sse"
          /\ written' = TRUE
          /\ SendStatus("dispatch")
          /\ UNCHANGED hijacked
  /\ UNCHANGED <<body, outside>>

\* pipeBodyToResponse: a look at the client, then a read that brings a chunk,
\* the end of the upstream's body or an error.
ReadChunk ==
  /\ ~ClientDone
  /\ Go("dispatch", "stream", "stream.write")
  /\ UNCHANGED <<contentType, flags, response, outside>>

StreamEnds ==
  /\ at["dispatch"] \in {"stream", "stream.write"}
  /\ Go("dispatch", at["dispatch"], "ending")
  /\ UNCHANGED <<contentType, flags, response, outside>>

\* An attempt without an answer: a client that left, an empty error.
EndSilently ==
  /\ Go("dispatch", "start", "ending")
  /\ UNCHANGED <<contentType, flags, response, outside>>

CloseDone ==
  /\ Go("dispatch", "ending", "closed")
  /\ UNCHANGED <<contentType, flags, response, outside>>

Dispatch ==
  \/ RunDispatch \/ CommitSSE \/ ReadChunk \/ StreamEnds \/ EndSilently \/ CloseDone
  \/ WriteJSON("dispatch")
  \/ Relay("dispatch", {"json", "sse"}, "stream")
  \/ Write("dispatch", "write", "bytes", "ending")
  \/ Write("dispatch", "stream.write", "stream.bytes", "stream")

------------------------------------------------------------------------------
(* rejectQueueLocked, which passes over a committed item. *)

Reject ==
  /\ at["dispatch"] = "queued"
  /\ at["shutdown"] = "idle"
  /\ at' = IF IsCommitted
           THEN [at EXCEPT !["dispatch"] = "skipped"]
           ELSE [at EXCEPT !["dispatch"] = "rejected", !["shutdown"] = "start"]
  /\ UNCHANGED <<contentType, flags, response, outside>>

\* A mutant: the rejected item's Done channel stays open.
RejectedUnclosed ==
  /\ Go("shutdown", "ending", "idle")
  /\ UNCHANGED <<contentType, flags, response, outside>>

Rejected ==
  /\ at["shutdown"] = "ending"
  /\ at' = [at EXCEPT !["shutdown"] = "idle", !["dispatch"] = "closed"]
  /\ UNCHANGED <<contentType, flags, response, outside>>

Rejection ==
  \/ WriteJSON("shutdown")
  \/ Write("shutdown", "write", "bytes", "ending")
  \/ Rejected

------------------------------------------------------------------------------
(* ServeHTTP, its timers and its client. *)

RequestEnds ==
  /\ at["handler"] = "done"
  /\ at["main"] \in {"serving", "grace"}
  /\ Go("main", at["main"], "returned")
  /\ UNCHANGED <<contentType, flags, response, outside>>

TimeoutFires ==
  /\ ContextDone
  /\ Claim("main", "serving", "grace")

\* A mutant: the grace has no timer.
GraceUntilDone ==
  /\ at["handler"] = "done"
  /\ Go("main", "grace", "returned")
  /\ UNCHANGED <<contentType, flags, response, outside>>

GraceOver ==
  /\ Go("main", "grace", "returned")
  /\ UNCHANGED <<contentType, flags, response, outside>>

ServeHTTP == RequestEnds \/ TimeoutFires \/ ClaimedAnswer("main", "grace") \/ GraceOver

DeadlineExpires ==
  /\ ~deadline
  /\ deadline' = TRUE
  /\ UNCHANGED <<at, contentType, flags, response, client>>

ClientLeaves ==
  /\ client = "there"
  /\ client' = "gone"
  /\ UNCHANGED <<at, contentType, flags, response, deadline>>

Over ==
  /\ Returned
  /\ at["handler"] = "done" \/ at["dispatch"] = "skipped"
  /\ UNCHANGED trackerVars

TrackerNext ==
  \/ Handler \/ Panic \/ Dispatch \/ Reject \/ Rejection \/ ServeHTTP
  \/ DeadlineExpires \/ ClientLeaves \/ Over

TrackerSpec == TrackerInit /\ [][TrackerNext]_trackerVars

------------------------------------------------------------------------------
(* Properties. *)

\* A response has one voice: whoever sent the status line sent all of the body,
\* whatever the timeout, a panic, the dispatch and a shutdown do at once.
OneVoice ==
  IF statusLine = NoStatus THEN body = {} ELSE body \subseteq {statusLine.by}

\* Once the middleware has claimed a response nobody but the claimant reaches
\* the client, a write that was under way when the claim came included.
ClaimIsFinal ==
  [][hijacked =>
       /\ statusLine' # statusLine => at[statusLine'.by] = "claimed.head"
       /\ \A a \in body' \ body : at[a] = "claimed.body"]_trackerVars

\* When ServeHTTP has dealt with the timeout, by its 504 or by leaving the
\* response to a writer that was first, the client has a status line or a
\* recovery that claimed first is about to send it.
TimeoutIsAnswered ==
  at["main"] = "grace" =>
    statusLine # NoStatus \/ at["handler"] \in {"claimed", "claimed.head"}

\* ServeHTTP returns once the time is up, whatever the handler does, also when a shutdown leaves
\* the handler waiting for a Done channel that nobody closes.
ServeHTTPReturns == deadline ~> Returned

\* The handler goroutine ends too, unless a shutdown passed over its item.
HandlerIsReleased ==
  (at["handler"] = "waiting") ~> (at["handler"] = "done" \/ at["dispatch"] = "skipped")

\* ServeHTTP waits for a running stream to finish naturally
\* (proxy.go, lines 180 and 205) unless the client has left.
StreamRunsToItsEnd ==
  Returned /\ client = "there" =>
    at["dispatch"] \notin {"stream", "stream.write", "stream.bytes"}
==============================================================================
