----------------------------- MODULE TrackerProofs -----------------------------
(***************************************************************************)
(* Proofs about ResponseTracker: one author for a response, claims that    *)
(* are final, and an answer for a request whose time is up.                *)
(***************************************************************************)
EXTENDS ResponseTracker, TLAPS

ClaimSteps  == {"claimed", "claimed.head", "claimed.body"}
FreshSteps  == {"queued", "start", "json", "json.head", "relay", "relay.head"}
VoiceSteps  == {"write", "bytes", "stream", "stream.write", "stream.bytes"}
WriteSteps  == {"bytes", "stream.bytes"}
JSONSteps   == {"json", "json.head", "write", "bytes"}
RelaySteps  == {"relay", "relay.head"}
StreamSteps == {"stream", "stream.write", "stream.bytes"}
Workers     == {"handler", "dispatch", "shutdown"}

\* Each author is at a step of its own code.
Placed ==
  /\ at["main"] \in MainSteps \cup ClaimSteps
  /\ at["handler"] \in HandlerSteps \cup JSONSteps \cup RelaySteps \cup ClaimSteps
  /\ at["dispatch"] \in DispatchSteps \cup JSONSteps \cup RelaySteps \cup StreamSteps
  /\ at["shutdown"] \in ShutdownSteps \cup JSONSteps

\* The workers take turns: the handler until it has queued its item, then the
\* dispatch or the shutdown, then the handler once more to end.
TakeTurns ==
  /\ at["dispatch"] # "absent" => at["handler"] \in {"waiting", "ending", "done"}
  /\ at["dispatch"] = "absent" => at["handler"] # "waiting"
  /\ at["dispatch"] \notin {"absent", "closed"} => at["handler"] = "waiting"
  /\ at["shutdown"] # "idle" <=> at["dispatch"] = "rejected"

\* The event stream's header is only set by the dispatch when it answers.
StreamHeader ==
  contentType = "sse" =>
    at["dispatch"] \in RelaySteps \cup StreamSteps \cup {"ending", "closed"}

\* Nothing goes out before the commit, and a worker that has not yet come to
\* its own commit finds a response committed only if it was claimed.
NothingUncommitted ==
  /\ hijacked => written
  /\ ~written => /\ statusLine = NoStatus
                 /\ body = {}
                 /\ \A a \in Workers : at[a] \notin VoiceSteps
  /\ \A a \in Workers : at[a] \in FreshSteps /\ written => hijacked

\* A claim has one holder, who has sent no bytes yet, and nobody else is about to
\* send any.
OneClaimant ==
  /\ at["main"] \in ClaimSteps \/ at["handler"] \in ClaimSteps => hijacked /\ body = {}
  /\ ~(at["main"] \in ClaimSteps /\ at["handler"] \in ClaimSteps)
  /\ \A a \in {"main", "handler"} :
       /\ at[a] \in {"claimed", "claimed.head"} => statusLine = NoStatus
       /\ at[a] = "claimed.body" => statusLine = NoStatus \/ statusLine.by = a
  /\ hijacked => \A a \in Workers : at[a] \notin WriteSteps

\* Without a claim the status line is of the worker that writes.
OwnStatus ==
  \A a \in Workers :
    at[a] \in VoiceSteps => hijacked \/ statusLine = NoStatus \/ statusLine.by = a

\* While ServeHTTP runs, a commit is a status line, sent or about to be.
Answered ==
  written /\ ~Returned =>
    \/ statusLine # NoStatus
    \/ at["main"] \in {"claimed", "claimed.head"}
    \/ at["handler"] \in {"claimed", "claimed.head"}

TrackerIInv ==
  /\ TrackerTypeOK
  /\ Placed
  /\ TakeTurns
  /\ StreamHeader
  /\ NothingUncommitted
  /\ OneClaimant
  /\ OwnStatus
  /\ Answered
  /\ OneVoice
  /\ TimeoutIsAnswered

------------------------------------------------------------------------------
(* The first state, and what a status line sent leaves behind. *)

\* The sets of authors and steps are unfolded in every proof.
USE DEF Authors, ContentTypes, AnswerSteps, MainSteps, HandlerSteps,
  DispatchSteps, ShutdownSteps, ClaimSteps, FreshSteps, VoiceSteps, WriteSteps,
  JSONSteps, RelaySteps, StreamSteps, Workers

LEMMA TrackerStarts == TrackerInit => TrackerIInv
<1> SUFFICES ASSUME TrackerInit PROVE TrackerIInv
  OBVIOUS
<1> USE DEF TrackerInit, NoStatus
<1>1. TrackerTypeOK
  BY DEF TrackerTypeOK, StepsOf
<1>2. Placed /\ TakeTurns /\ StreamHeader
  BY DEF Placed, TakeTurns, StreamHeader
<1>3. NothingUncommitted /\ OneClaimant
  BY DEF NothingUncommitted, OneClaimant
<1>4. OwnStatus /\ Answered /\ OneVoice /\ TimeoutIsAnswered
  BY DEF OwnStatus, Answered, OneVoice, TimeoutIsAnswered
<1> QED
  BY <1>1, <1>2, <1>3, <1>4 DEF TrackerIInv

\* The underlying WriteHeader sends a status line of its author's exactly when
\* none went out before and the response is still open.
LEMMA StatusSent ==
  ASSUME NEW a \in Authors, TrackerTypeOK, contentType' \in ContentTypes, SendStatus(a)
  PROVE  /\ statusLine' \in [by : Authors, type : ContentTypes] \cup {NoStatus}
         /\ statusLine # NoStatus \/ Returned => statusLine' = statusLine
         /\ statusLine = NoStatus /\ ~Returned => statusLine' # NoStatus /\ statusLine'.by = a
BY DEF TrackerTypeOK, SendStatus, NoStatus

\* An author that goes on to a step of its own code is at a step it has.
LEMMA StepsTyped ==
  ASSUME NEW a \in Authors, NEW from, NEW to \in StepsOf(a), TrackerTypeOK, Go(a, from, to)
  PROVE  DOMAIN at' = Authors /\ \A b \in Authors : at'[b] \in StepsOf(b)
BY DEF TrackerTypeOK, Go

\* The names that only abbreviate: every proof from here on unfolds them.
USE DEF Go, IsCommitted, Returned, flags, response, outside

------------------------------------------------------------------------------
(* Steps that only move an author on. *)

LEMMA MovesKeep ==
  ASSUME TrackerIInv,
         \/ Enqueue \/ DoneIsClosed \/ Panic \/ HandlerEnds
         \/ RunDispatch \/ ReadChunk \/ StreamEnds \/ EndSilently \/ CloseDone
         \/ Reject \/ Rejected
         \/ RequestEnds \/ GraceOver \/ DeadlineExpires \/ ClientLeaves
  PROVE  TrackerIInv'
<1> USE DEF TrackerIInv, TrackerTypeOK, StepsOf, Placed, TakeTurns, StreamHeader,
    NothingUncommitted, OneClaimant, OwnStatus, Answered, OneVoice, TimeoutIsAnswered
<1>1. CASE Enqueue
  BY <1>1 DEF Enqueue
<1>2. CASE DoneIsClosed
  BY <1>2 DEF DoneIsClosed
<1>3. CASE Panic
  BY <1>3 DEF Panic
<1>4. CASE HandlerEnds
  BY <1>4 DEF HandlerEnds
<1>5. CASE RunDispatch
  BY <1>5 DEF RunDispatch
<1>6. CASE ReadChunk
  BY <1>6 DEF ReadChunk
<1>7. CASE StreamEnds
  BY <1>7 DEF StreamEnds
<1>8. CASE EndSilently
  BY <1>8 DEF EndSilently
<1>9. CASE CloseDone
  BY <1>9 DEF CloseDone
<1>10. CASE Reject
  BY <1>10 DEF Reject
<1>11. CASE Rejected
  BY <1>11 DEF Rejected
<1>12. CASE RequestEnds
  BY <1>12 DEF RequestEnds
<1>13. CASE GraceOver
  BY <1>13 DEF GraceOver
<1>14. CASE DeadlineExpires
  BY <1>14 DEF DeadlineExpires
<1>15. CASE ClientLeaves
  BY <1>15 DEF ClientLeaves
<1> QED
  BY <1>1, <1>2, <1>3, <1>4, <1>5, <1>6, <1>7, <1>8, <1>9, <1>10, <1>11, <1>12, <1>13,
     <1>14, <1>15

------------------------------------------------------------------------------
(* Steps of an answer. *)

\* WriteJSON: it answers once it found the response uncommitted, and its header
\* and its status go nowhere when a claim came after that look.
LEMMA WriteJSONKeeps ==
  ASSUME TrackerIInv, NEW a \in Workers, WriteJSON(a)
  PROVE  TrackerIInv'
<1> USE DEF TrackerIInv
<1>1. TrackerTypeOK'
  <2>1. DOMAIN at' = Authors /\ \A b \in Authors : at'[b] \in StepsOf(b)
    BY StepsTyped DEF WriteJSON, StepsOf
  <2>2. /\ contentType' \in ContentTypes
        /\ statusLine' \in [by : Authors, type : ContentTypes] \cup {NoStatus}
    BY StatusSent DEF WriteJSON, WriteHeader, TrackerTypeOK
  <2> QED
    BY <2>1, <2>2 DEF TrackerTypeOK, WriteJSON, WriteHeader
<1>2. Placed'
  BY DEF WriteJSON, TrackerTypeOK, Placed
<1>3. TakeTurns'
  BY DEF WriteJSON, TrackerTypeOK, TakeTurns
<1>4. StreamHeader'
  BY DEF WriteJSON, TakeTurns, StreamHeader
<1>5. NothingUncommitted'
  BY DEF WriteJSON, WriteHeader, TrackerTypeOK, TakeTurns, StreamHeader,
     NothingUncommitted
<1>6. OneClaimant'
  BY DEF WriteJSON, WriteHeader, TrackerTypeOK, OneClaimant
<1>7. OwnStatus'
  BY DEF WriteJSON, WriteHeader, TrackerTypeOK, NothingUncommitted, OwnStatus,
     SendStatus
<1>8. Answered'
  BY StatusSent DEF WriteJSON, WriteHeader, TrackerTypeOK, Answered
<1>9. OneVoice'
  BY DEF WriteJSON, WriteHeader, OneVoice, SendStatus
<1>10. TimeoutIsAnswered'
  BY DEF WriteJSON, WriteHeader, TrackerTypeOK, TimeoutIsAnswered, SendStatus
<1> QED
  BY <1>1, <1>2, <1>3, <1>4, <1>5, <1>6, <1>7, <1>8, <1>9, <1>10

\* Tracker.Write after WriteJSON or a page: the check refuses a claimed response.
LEMMA WriteKeeps ==
  ASSUME TrackerIInv, NEW a \in Workers, Write(a, "write", "bytes", "ending")
  PROVE  TrackerIInv'
<1> USE DEF TrackerIInv
<1>1. TrackerTypeOK'
  <2>1. DOMAIN at' = Authors /\ \A b \in Authors : at'[b] \in StepsOf(b)
    BY StepsTyped DEF Write, StepsOf
  <2>2. /\ contentType' \in ContentTypes
        /\ statusLine' \in [by : Authors, type : ContentTypes] \cup {NoStatus}
    BY StatusSent DEF SendBytes, Write, TrackerTypeOK
  <2> QED
    BY <2>1, <2>2 DEF TrackerTypeOK, Write, SendBytes
<1>2. Placed'
  BY DEF Write, TrackerTypeOK, Placed
<1>3. TakeTurns'
  BY DEF Write, TrackerTypeOK, TakeTurns
<1>4. StreamHeader'
  BY DEF Write, TakeTurns, StreamHeader
<1>5. NothingUncommitted'
  BY DEF Write, TrackerTypeOK, NothingUncommitted
<1>6. OneClaimant'
  BY DEF Write, TrackerTypeOK, StepsOf, OneClaimant
<1>7. OwnStatus'
  BY DEF SendBytes, Write, TrackerTypeOK, NothingUncommitted, OneClaimant,
     OwnStatus, Answered, SendStatus
<1>8. Answered'
  BY StatusSent DEF SendBytes, Write, TrackerTypeOK, NothingUncommitted,
     Answered
<1>9. OneVoice'
  BY DEF SendBytes, Write, NothingUncommitted, OneClaimant, OwnStatus, Answered,
     OneVoice, SendStatus
<1>10. TimeoutIsAnswered'
  BY DEF SendBytes, Write, TrackerTypeOK, TimeoutIsAnswered, SendStatus
<1> QED
  BY <1>1, <1>2, <1>3, <1>4, <1>5, <1>6, <1>7, <1>8, <1>9, <1>10

\* The same call for a chunk of a stream.
LEMMA StreamWriteKeeps ==
  ASSUME TrackerIInv, Write("dispatch", "stream.write", "stream.bytes", "stream")
  PROVE  TrackerIInv'
<1> USE DEF TrackerIInv
<1>1. TrackerTypeOK'
  <2>1. DOMAIN at' = Authors /\ \A b \in Authors : at'[b] \in StepsOf(b)
    BY StepsTyped DEF Write, StepsOf
  <2>2. /\ contentType' \in ContentTypes
        /\ statusLine' \in [by : Authors, type : ContentTypes] \cup {NoStatus}
    BY StatusSent DEF SendBytes, Write, TrackerTypeOK
  <2> QED
    BY <2>1, <2>2 DEF TrackerTypeOK, Write, SendBytes
<1>2. Placed'
  BY DEF Write, TrackerTypeOK, Placed
<1>3. TakeTurns'
  BY DEF Write, TrackerTypeOK, TakeTurns
<1>4. StreamHeader'
  BY DEF Write, TrackerTypeOK, StreamHeader
<1>5. NothingUncommitted'
  BY DEF Write, TrackerTypeOK, NothingUncommitted
<1>6. OneClaimant'
  BY DEF Write, TrackerTypeOK, StepsOf, OneClaimant
<1>7. OwnStatus'
  BY DEF SendBytes, Write, TrackerTypeOK, NothingUncommitted, OneClaimant,
     OwnStatus, Answered, SendStatus
<1>8. Answered'
  BY StatusSent DEF SendBytes, Write, TrackerTypeOK, NothingUncommitted,
     Answered
<1>9. OneVoice'
  BY DEF SendBytes, Write, NothingUncommitted, OneClaimant, OwnStatus, Answered,
     OneVoice, SendStatus
<1>10. TimeoutIsAnswered'
  BY DEF SendBytes, Write, TrackerTypeOK, TimeoutIsAnswered, SendStatus
<1> QED
  BY <1>1, <1>2, <1>3, <1>4, <1>5, <1>6, <1>7, <1>8, <1>9, <1>10

\* The head of a page or of an upstream's answer.
LEMMA RelayKeeps ==
  ASSUME TrackerIInv,
         \/ Relay("handler", {"html"}, "write")
         \/ Relay("dispatch", {"json", "sse"}, "stream")
  PROVE  TrackerIInv'
<1> USE DEF TrackerIInv
<1>1. TrackerTypeOK'
  <2>1. DOMAIN at' = Authors /\ \A b \in Authors : at'[b] \in StepsOf(b)
    BY StepsTyped DEF Relay, StepsOf
  <2>2. /\ contentType' \in ContentTypes
        /\ statusLine' \in [by : Authors, type : ContentTypes] \cup {NoStatus}
    BY StatusSent DEF Relay, WriteHeader, TrackerTypeOK
  <2> QED
    BY <2>1, <2>2 DEF TrackerTypeOK, Relay, WriteHeader
<1>2. Placed'
  BY DEF Relay, TrackerTypeOK, Placed
<1>3. TakeTurns'
  BY DEF Relay, TrackerTypeOK, TakeTurns
<1>4. StreamHeader'
  BY DEF Relay, TrackerTypeOK, StreamHeader
<1>5. NothingUncommitted'
  BY DEF Relay, WriteHeader, TrackerTypeOK, StepsOf, TakeTurns,
     NothingUncommitted
<1>6. OneClaimant'
  BY DEF Relay, WriteHeader, TrackerTypeOK, StepsOf, OneClaimant
<1>7. OwnStatus'
  BY DEF Relay, WriteHeader, TrackerTypeOK, NothingUncommitted, OwnStatus,
     SendStatus
<1>8. Answered'
  BY StatusSent DEF Relay, WriteHeader, TrackerTypeOK, Answered
<1>9. OneVoice'
  BY DEF Relay, WriteHeader, OneVoice, SendStatus
<1>10. TimeoutIsAnswered'
  BY DEF Relay, WriteHeader, TrackerTypeOK, TimeoutIsAnswered, SendStatus
<1> QED
  BY <1>1, <1>2, <1>3, <1>4, <1>5, <1>6, <1>7, <1>8, <1>9, <1>10

\* The head of an event stream.
LEMMA CommitSSEKeeps ==
  ASSUME TrackerIInv, CommitSSE
  PROVE  TrackerIInv'
<1> USE DEF TrackerIInv
<1>1. TrackerTypeOK'
  <2>1. DOMAIN at' = Authors /\ \A b \in Authors : at'[b] \in StepsOf(b)
    BY StepsTyped DEF CommitSSE, StepsOf
  <2>2. /\ contentType' \in ContentTypes
        /\ statusLine' \in [by : Authors, type : ContentTypes] \cup {NoStatus}
    BY StatusSent DEF CommitSSE, TrackerTypeOK
  <2> QED
    BY <2>1, <2>2 DEF TrackerTypeOK, CommitSSE
<1>2. Placed'
  BY DEF CommitSSE, Placed
<1>3. TakeTurns'
  BY DEF CommitSSE, TakeTurns
<1>4. StreamHeader'
  BY DEF CommitSSE, TrackerTypeOK, StreamHeader
<1>5. NothingUncommitted'
  BY DEF CommitSSE, TrackerTypeOK, TakeTurns, NothingUncommitted
<1>6. OneClaimant'
  BY DEF CommitSSE, OneClaimant
<1>7. OwnStatus'
  BY DEF CommitSSE, NothingUncommitted, OwnStatus, SendStatus
<1>8. Answered'
  BY StatusSent DEF CommitSSE, TrackerTypeOK, Answered
<1>9. OneVoice'
  BY DEF CommitSSE, OneVoice, SendStatus
<1>10. TimeoutIsAnswered'
  BY DEF CommitSSE, TimeoutIsAnswered, SendStatus
<1> QED
  BY <1>1, <1>2, <1>3, <1>4, <1>5, <1>6, <1>7, <1>8, <1>9, <1>10

\* A claim finds an uncommitted response, to which nobody has written, or it is refused.
LEMMA ClaimKeeps ==
  ASSUME TrackerIInv, TimeoutFires \/ Claim("handler", "panicked", "ending")
  PROVE  TrackerIInv'
<1> USE DEF TrackerIInv
<1>1. TrackerTypeOK'
  <2>1. DOMAIN at' = Authors /\ \A b \in Authors : at'[b] \in StepsOf(b)
    BY StepsTyped DEF TimeoutFires, Claim, StepsOf
  <2>2. /\ contentType' \in ContentTypes
        /\ statusLine' \in [by : Authors, type : ContentTypes] \cup {NoStatus}
    BY StatusSent DEF TimeoutFires, Claim, TrackerTypeOK
  <2> QED
    BY <2>1, <2>2 DEF TrackerTypeOK, TimeoutFires, Claim
<1>2. Placed'
  BY DEF TimeoutFires, Claim, TrackerTypeOK, Placed
<1>3. TakeTurns'
  BY DEF TimeoutFires, Claim, TrackerTypeOK, TakeTurns
<1>4. StreamHeader'
  BY DEF TimeoutFires, Claim, TrackerTypeOK, StreamHeader
<1>5. NothingUncommitted'
  BY DEF TimeoutFires, Claim, TrackerTypeOK, NothingUncommitted
<1>6. OneClaimant'
  <2>1. CASE TimeoutFires
    BY <2>1 DEF TimeoutFires, Claim, TrackerTypeOK, NothingUncommitted,
       OneClaimant
  <2>2. CASE Claim("handler", "panicked", "ending")
    BY <2>2 DEF Claim, TrackerTypeOK, NothingUncommitted, OneClaimant
  <2> QED
    BY <2>1, <2>2
<1>7. OwnStatus'
  BY DEF TimeoutFires, Claim, TrackerTypeOK, OwnStatus
<1>8. Answered'
  BY StatusSent DEF TimeoutFires, Claim, TrackerTypeOK, NothingUncommitted,
     Answered
<1>9. OneVoice'
  BY DEF TimeoutFires, Claim, OneVoice
<1>10. TimeoutIsAnswered'
  <2>1. CASE TimeoutFires
    BY <2>1 DEF TimeoutFires, Claim, NothingUncommitted, Answered,
       TimeoutIsAnswered
  <2>2. CASE Claim("handler", "panicked", "ending")
    BY <2>2 DEF Claim, TimeoutIsAnswered
  <2> QED
    BY <2>1, <2>2
<1> QED
  BY <1>1, <1>2, <1>3, <1>4, <1>5, <1>6, <1>7, <1>8, <1>9, <1>10

\* What the holder of a claim sends.
LEMMA ClaimedAnswerKeeps ==
  ASSUME TrackerIInv, ClaimedAnswer("main", "grace") \/ ClaimedAnswer("handler", "ending")
  PROVE  TrackerIInv'
<1> USE DEF TrackerIInv
<1>1. TrackerTypeOK'
  <2>1. DOMAIN at' = Authors /\ \A b \in Authors : at'[b] \in StepsOf(b)
    BY StepsTyped DEF ClaimedAnswer, StepsOf
  <2>2. /\ contentType' \in ContentTypes
        /\ statusLine' \in [by : Authors, type : ContentTypes] \cup {NoStatus}
    BY StatusSent DEF ClaimedAnswer, SendBytes, TrackerTypeOK
  <2> QED
    BY <2>1, <2>2 DEF TrackerTypeOK, ClaimedAnswer, SendBytes
<1>2. Placed'
  BY DEF ClaimedAnswer, TrackerTypeOK, Placed
<1>3. TakeTurns'
  BY DEF ClaimedAnswer, TrackerTypeOK, TakeTurns
<1>4. StreamHeader'
  BY DEF ClaimedAnswer, TrackerTypeOK, StreamHeader
<1>5. NothingUncommitted'
  BY DEF ClaimedAnswer, NothingUncommitted, OneClaimant
<1>6. OneClaimant'
  <2>1. CASE ClaimedAnswer("main", "grace")
    BY <2>1 DEF ClaimedAnswer, TrackerTypeOK, StepsOf, OneClaimant, SendStatus
  <2>2. CASE ClaimedAnswer("handler", "ending")
    BY <2>2 DEF ClaimedAnswer, TrackerTypeOK, StepsOf, OneClaimant, SendStatus
  <2> QED
    BY <2>1, <2>2
<1>7. OwnStatus'
  BY DEF ClaimedAnswer, OneClaimant, OwnStatus
<1>8. Answered'
  BY StatusSent DEF ClaimedAnswer, SendBytes, TrackerTypeOK, Answered
<1>9. OneVoice'
  BY DEF ClaimedAnswer, SendBytes, NothingUncommitted, OneClaimant, Answered,
     OneVoice, SendStatus
<1>10. TimeoutIsAnswered'
  <2>1. CASE ClaimedAnswer("main", "grace")
    BY <2>1, StatusSent DEF ClaimedAnswer, SendBytes, TrackerTypeOK,
       TimeoutIsAnswered
  <2>2. CASE ClaimedAnswer("handler", "ending")
    BY <2>2, StatusSent DEF ClaimedAnswer, SendBytes, TrackerTypeOK,
       TimeoutIsAnswered
  <2> QED
    BY <2>1, <2>2
<1> QED
  BY <1>1, <1>2, <1>3, <1>4, <1>5, <1>6, <1>7, <1>8, <1>9, <1>10

------------------------------------------------------------------------------
(* The invariant, and what follows from it. *)

LEMMA TrackerStepKeeps ==
  ASSUME TrackerIInv, [TrackerNext]_trackerVars
  PROVE  TrackerIInv'
<1>1. CASE Handler
  <2>1. CASE WriteJSON("handler")
    BY <2>1, WriteJSONKeeps
  <2>2. CASE Relay("handler", {"html"}, "write")
    BY <2>2, RelayKeeps
  <2>3. CASE Write("handler", "write", "bytes", "ending")
    BY <2>3, WriteKeeps
  <2>4. CASE Enqueue \/ DoneIsClosed \/ HandlerEnds
    BY <2>4, MovesKeep
  <2>5. CASE Claim("handler", "panicked", "ending")
    BY <2>5, ClaimKeeps
  <2>6. CASE ClaimedAnswer("handler", "ending")
    BY <2>6, ClaimedAnswerKeeps
  <2> QED
    BY <1>1, <2>1, <2>2, <2>3, <2>4, <2>5, <2>6 DEF Handler
<1>2. CASE Dispatch
  <2>1. CASE RunDispatch \/ ReadChunk \/ StreamEnds \/ EndSilently \/ CloseDone
    BY <2>1, MovesKeep
  <2>2. CASE CommitSSE
    BY <2>2, CommitSSEKeeps
  <2>3. CASE WriteJSON("dispatch")
    BY <2>3, WriteJSONKeeps
  <2>4. CASE Relay("dispatch", {"json", "sse"}, "stream")
    BY <2>4, RelayKeeps
  <2>5. CASE Write("dispatch", "write", "bytes", "ending")
    BY <2>5, WriteKeeps
  <2>6. CASE Write("dispatch", "stream.write", "stream.bytes", "stream")
    BY <2>6, StreamWriteKeeps
  <2> QED
    BY <1>2, <2>1, <2>2, <2>3, <2>4, <2>5, <2>6 DEF Dispatch
<1>3. CASE Rejection
  <2>1. CASE WriteJSON("shutdown")
    BY <2>1, WriteJSONKeeps
  <2>2. CASE Write("shutdown", "write", "bytes", "ending")
    BY <2>2, WriteKeeps
  <2>3. CASE Rejected
    BY <2>3, MovesKeep
  <2> QED
    BY <1>3, <2>1, <2>2, <2>3 DEF Rejection
<1>4. CASE ServeHTTP
  <2>1. CASE RequestEnds \/ GraceOver
    BY <2>1, MovesKeep
  <2>2. CASE TimeoutFires
    BY <2>2, ClaimKeeps
  <2>3. CASE ClaimedAnswer("main", "grace")
    BY <2>3, ClaimedAnswerKeeps
  <2> QED
    BY <1>4, <2>1, <2>2, <2>3 DEF ServeHTTP
<1>5. CASE Panic \/ Reject \/ DeadlineExpires \/ ClientLeaves
  BY <1>5, MovesKeep
<1>6. CASE Over \/ UNCHANGED trackerVars
  BY <1>6 DEF Over, trackerVars, TrackerIInv, TrackerTypeOK, StepsOf, Placed, TakeTurns,
     StreamHeader, NothingUncommitted, OneClaimant, OwnStatus, Answered, OneVoice,
     TimeoutIsAnswered
<1> QED
  BY <1>1, <1>2, <1>3, <1>4, <1>5, <1>6 DEF TrackerNext

\* The inductive invariant holds of the tracker and its authors.
THEOREM TrackerInvariant == TrackerSpec => []TrackerIInv
<1>1. TrackerIInv /\ [TrackerNext]_trackerVars => TrackerIInv'
  BY TrackerStepKeeps
<1> QED
  BY TrackerStarts, <1>1, PTL DEF TrackerSpec

\* Every author is at a step of its own and the response is one that was sent.
THEOREM TrackerTypeCorrect == TrackerSpec => []TrackerTypeOK
<1>1. TrackerIInv => TrackerTypeOK
  BY DEF TrackerIInv
<1> QED
  BY TrackerInvariant, <1>1, PTL

\* Whoever sent the status line sent all of the body.
THEOREM ResponseHasOneVoice == TrackerSpec => []OneVoice
<1>1. TrackerIInv => OneVoice
  BY DEF TrackerIInv
<1> QED
  BY TrackerInvariant, <1>1, PTL

\* A request whose time is up has been answered, or a recovery is about to.
THEOREM TimeoutsAreAnswered == TrackerSpec => []TimeoutIsAnswered
<1>1. TrackerIInv => TimeoutIsAnswered
  BY DEF TrackerIInv
<1> QED
  BY TrackerInvariant, <1>1, PTL

\* On a claimed response the two calls of the underlying writer that send
\* anything are the claimant's.
ClaimantSends ==
  hijacked =>
    /\ statusLine' # statusLine => at[statusLine'.by] = "claimed.head"
    /\ \A a \in body' \ body : at[a] = "claimed.body"

LEMMA StepsOfTheClaimant ==
  ASSUME TrackerIInv, [TrackerNext]_trackerVars
  PROVE  ClaimantSends
<1> SUFFICES ASSUME hijacked PROVE ClaimantSends
  BY DEF ClaimantSends
<1>1. \A a \in Workers : at[a] \notin WriteSteps
  BY DEF TrackerIInv, OneClaimant
<1>2. CASE UNCHANGED response
  BY <1>2 DEF ClaimantSends
<1>3. ASSUME NEW a \in Workers, WriteJSON(a) PROVE UNCHANGED response
  BY <1>3 DEF WriteJSON, WriteHeader
<1>4. ASSUME NEW a \in Workers, NEW pc, NEW bytes \in WriteSteps, NEW then,
             Write(a, pc, bytes, then)
      PROVE  UNCHANGED response
  BY <1>1, <1>4 DEF Write
<1>5. ASSUME NEW a \in Workers, NEW types, NEW then, Relay(a, types, then)
      PROVE  UNCHANGED response
  BY <1>5 DEF Relay, WriteHeader
<1>6. ASSUME NEW a \in {"main", "handler"}, NEW then, ClaimedAnswer(a, then) PROVE ClaimantSends
  <2>1. CASE at[a] = "claimed"
    BY <1>6, <2>1 DEF ClaimedAnswer, ClaimantSends
  <2>2. CASE at[a] = "claimed.head"
    BY <1>6, <2>2 DEF ClaimedAnswer, SendStatus, ClaimantSends
  <2>3. CASE at[a] = "claimed.body"
    <3>1. Returned \/ statusLine # NoStatus
      BY <2>3 DEF TrackerIInv, NothingUncommitted, OneClaimant, Answered
    <3> QED
      BY <1>6, <2>3, <3>1 DEF ClaimedAnswer, SendBytes, SendStatus, ClaimantSends
  <2> QED
    BY <1>6, <2>1, <2>2, <2>3 DEF ClaimedAnswer
<1>7. CASE Handler
  BY <1>2, <1>3, <1>4, <1>5, <1>6, <1>7
     DEF Handler, Enqueue, DoneIsClosed, HandlerEnds, Claim
<1>8. CASE Dispatch
  BY <1>2, <1>3, <1>4, <1>5, <1>8
     DEF Dispatch, RunDispatch, CommitSSE, ReadChunk, StreamEnds, EndSilently, CloseDone
<1>9. CASE Rejection
  BY <1>2, <1>3, <1>4, <1>9 DEF Rejection, Rejected
<1>10. CASE ServeHTTP
  BY <1>2, <1>6, <1>10 DEF ServeHTTP, RequestEnds, TimeoutFires, Claim, GraceOver
<1>11. CASE Panic \/ Reject \/ DeadlineExpires \/ ClientLeaves \/ Over \/ UNCHANGED trackerVars
  BY <1>2, <1>11 DEF Panic, Reject, DeadlineExpires, ClientLeaves, Over, trackerVars
<1> QED
  BY <1>7, <1>8, <1>9, <1>10, <1>11 DEF TrackerNext

\* Once a response is claimed nobody but the claimant reaches the client.
THEOREM ClaimsAreFinal == TrackerSpec => ClaimIsFinal
<1>1. TrackerIInv /\ [TrackerNext]_trackerVars => [ClaimantSends]_trackerVars
  BY StepsOfTheClaimant
<1> QED
  BY TrackerInvariant, <1>1, PTL DEF TrackerSpec, ClaimIsFinal, ClaimantSends
==============================================================================
