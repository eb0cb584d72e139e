----------------------------- MODULE Conversations -----------------------------
(***************************************************************************)
(* Conversation tracking: conversationMap, its LRU list and the requests   *)
(* of both formats that touch and track a session.                         *)
(*                                                                         *)
(* Grain.  Touch and Track lock convMu from beginning to end; the fields   *)
(* of a session (TokenIndex, RequestCount) are changed between them under  *)
(* no lock.  convLRUIndex holds exactly the elements of convLRU: the code  *)
(* changes the two together, so one sequence stands for both, the most     *)
(* recently used first.  A session is its number.                          *)
(***************************************************************************)
EXTENDS Integers, Sequences, FiniteSets, SequencesExt, Functions

CONSTANTS
  Chats,               \* the requests
  ChatFormat,          \* their format: "openai" or "anthropic"
  Fingerprints,
  ConvMapMax, ConvMapEvictTarget

ASSUME ConversationAssumption ==
  /\ IsFiniteSet(Chats)
  /\ ChatFormat \in [Chats -> {"openai", "anthropic"}]
  /\ ConvMapMax \in Nat \ {0}
  /\ ConvMapEvictTarget \in 0 .. ConvMapMax - 1

VARIABLES
  chat,                  \* program counter of each request
  fingerprint,           \* its fingerprint, NoPrint before it has one
  session,               \* the session it works with
  conversationMap,       \* function from fingerprints to sessions
  convLRU,
  globalSessionCounter

convVars == <<chat, fingerprint, session, conversationMap, convLRU,
              globalSessionCounter>>

NoPrint == "none"
NoSession == 0
Stored == DOMAIN conversationMap
Listed == ToSet(convLRU)

ConversationTypeOK ==
  /\ chat \in [Chats -> {"new", "dispatched", "found", "missed", "counted", "done",
                       "refused"}]
  /\ fingerprint \in [Chats -> Fingerprints \cup {NoPrint}]
  /\ session \in [Chats -> Nat]
  /\ Stored \subseteq Fingerprints
  /\ \A f \in Stored : conversationMap[f] \in Nat \ {NoSession}
  /\ convLRU \in Seq(Fingerprints)
  /\ globalSessionCounter \in Nat

ConversationInit ==
  /\ chat = [c \in Chats |-> "new"]
  /\ fingerprint = [c \in Chats |-> NoPrint]
  /\ session = [c \in Chats |-> NoSession]
  /\ conversationMap = << >>
  /\ convLRU = << >>
  /\ globalSessionCounter = 0

\* What TouchConversation returns: only listed fingerprints are looked up.
Found(f) == IF f \in Listed THEN conversationMap[f] ELSE NoSession

\* A mutant: the element is added and not moved.
AddToFront(list, f) == <<f>> \o list

MoveToFront(list, f) ==
  <<f>> \o IF f \in ToSet(list) THEN RemoveAt(list, CHOOSE i \in DOMAIN list : list[i] = f)
           ELSE list

TouchConversation(f) ==
  convLRU' = IF f \in Listed THEN MoveToFront(convLRU, f) ELSE convLRU

\* How many entries leave a full map for a new fingerprint: from the back of
\* the list, until the target is met or the list is empty.
Evictions(f) ==
  IF f \in Stored \/ Cardinality(Stored) < ConvMapMax THEN 0
  ELSE LET surplus == Cardinality(Stored) - ConvMapEvictTarget
       IN  IF surplus < Len(convLRU) THEN surplus ELSE Len(convLRU)

Survivors(f) == SubSeq(convLRU, 1, Len(convLRU) - Evictions(f))
Evicted(f) == Listed \ ToSet(Survivors(f))

TrackConversationSession(f, s, alreadyTouched) ==
  /\ conversationMap' = [g \in (Stored \ Evicted(f)) \cup {f} |->
                           IF g = f THEN s ELSE conversationMap[g]]
  /\ convLRU' = IF alreadyTouched THEN Survivors(f) ELSE MoveToFront(Survivors(f), f)

------------------------------------------------------------------------------
\* HandleMessages looks the session up before the request joins the queue, for
\* its preferred key; the OpenAI handler does not.
Arrive(c, f) ==
  /\ chat[c] = "new"
  /\ chat' = [chat EXCEPT ![c] = "dispatched"]
  /\ fingerprint' = [fingerprint EXCEPT ![c] = f]
  /\ IF ChatFormat[c] = "anthropic" THEN TouchConversation(f) ELSE UNCHANGED convLRU
  /\ UNCHANGED <<session, conversationMap, globalSessionCounter>>

\* The dispatched request touches its session.
Touch(c) ==
  LET f == fingerprint[c]
  IN  /\ chat[c] = "dispatched"
      /\ chat' = [chat EXCEPT ![c] = IF Found(f) = NoSession THEN "missed" ELSE "found"]
      /\ session' = [session EXCEPT ![c] = Found(f)]
      /\ TouchConversation(f)
      /\ UNCHANGED <<fingerprint, conversationMap, globalSessionCounter>>

\* No key for the request: one path asks for it after the touch, one before.
Refused(c) ==
  /\ chat[c] \in IF ChatFormat[c] = "openai" THEN {"found", "missed"} ELSE {"dispatched"}
  /\ chat' = [chat EXCEPT ![c] = "refused"]
  /\ UNCHANGED <<fingerprint, session, conversationMap, convLRU, globalSessionCounter>>

\* A mutant: the counter is read and not advanced.
NumberUnadvanced(c) ==
  /\ chat[c] = "missed"
  /\ chat' = [chat EXCEPT ![c] = "counted"]
  /\ session' = [session EXCEPT ![c] = globalSessionCounter + 1]
  /\ UNCHANGED <<fingerprint, conversationMap, convLRU, globalSessionCounter>>

NumberSession(c) ==
  /\ chat[c] = "missed"
  /\ chat' = [chat EXCEPT ![c] = "counted"]
  /\ globalSessionCounter' = globalSessionCounter + 1
  /\ session' = [session EXCEPT ![c] = globalSessionCounter']
  /\ UNCHANGED <<fingerprint, conversationMap, convLRU>>

\* The OpenAI path says whether it found the session, the Anthropic path always
\* says that it did.
Track(c) ==
  /\ chat[c] \in {"found", "counted"}
  /\ TrackConversationSession(fingerprint[c], session[c],
                              chat[c] = "found" \/ ChatFormat[c] = "anthropic")
  /\ chat' = [chat EXCEPT ![c] = "done"]
  /\ UNCHANGED <<fingerprint, session, globalSessionCounter>>

AllServed ==
  /\ \A c \in Chats : chat[c] \in {"done", "refused"}
  /\ UNCHANGED convVars

ConversationNext ==
  \/ \E c \in Chats :
       \/ \E f \in Fingerprints : Arrive(c, f)
       \/ Touch(c) \/ Refused(c) \/ NumberSession(c) \/ Track(c)
  \/ AllServed

ConversationSpec == ConversationInit /\ [][ConversationNext]_convVars

------------------------------------------------------------------------------
\* A request that leaves a stored session without a list element: of the Anthropic
\* format, or one that had found its session and tracks it again after an eviction.
Unlists(c) ==
  /\ chat[c] = "done"
  /\ \/ ChatFormat[c] = "anthropic"
     \/ \E d \in Chats \ {c} : session[d] = session[c]

\* The list and the map agree: no fingerprint is listed twice, a listed one is
\* stored, and the map outgrows its capacity only where a request has unlisted a
\* session.  It does not say that the map then stays small: no eviction reaches an
\* unlisted session, though conversation.go (line 73) wants the target to be met.
ListWellFormed ==
  /\ IsInjective(convLRU)
  /\ Listed \subseteq Stored
  /\ Cardinality(Stored) > ConvMapMax => \E c \in Chats : Unlists(c)

\* No two conversations share a session, whatever requests run at once: the
\* key one of them prefers is not overwritten by the other.
SessionsAreNotShared ==
  \A f, g \in Stored : conversationMap[f] = conversationMap[g] => f = g
==============================================================================
