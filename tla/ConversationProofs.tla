--------------------------- MODULE ConversationProofs ---------------------------
(***************************************************************************)
(* Proofs about Conversations, for any finite set of requests of any       *)
(* formats, any fingerprints and any capacity of the map.                  *)
(***************************************************************************)
EXTENDS Conversations, FiniteSetTheorems, SequenceTheorems, TLAPS

\* A list with an element in front that it does not hold.
LEMMA PushFront ==
  ASSUME NEW F, NEW list \in Seq(F), NEW f \in F, IsInjective(list), f \notin ToSet(list)
  PROVE  /\ <<f>> \o list \in Seq(F)
         /\ Len(<<f>> \o list) = Len(list) + 1
         /\ IsInjective(<<f>> \o list)
         /\ ToSet(<<f>> \o list) = ToSet(list) \cup {f}
<1> DEFINE new == <<f>> \o list
<1>1. /\ new \in Seq(F) /\ Len(new) = Len(list) + 1 /\ Len(list) \in Nat
      /\ DOMAIN new = 1..Len(list)+1 /\ DOMAIN list = 1..Len(list)
      /\ new[1] = f
      /\ \A i \in 1..Len(list) : new[i + 1] = list[i]
  OBVIOUS
<1> HIDE DEF new
<1>2. \A i \in DOMAIN new : i # 1 => i - 1 \in DOMAIN list /\ new[i] = list[i - 1]
  BY <1>1
<1>3. ASSUME NEW i \in DOMAIN list PROVE list[i] # f
  BY DEF ToSet
<1>4. ASSUME NEW i \in DOMAIN new, NEW j \in DOMAIN new, new[i] = new[j] PROVE i = j
  <2>1. CASE i = 1 /\ j = 1
    BY <2>1
  <2>2. CASE i = 1 /\ j # 1
    BY <1>1, <1>2, <1>3, <1>4, <2>2
  <2>3. CASE i # 1 /\ j = 1
    BY <1>1, <1>2, <1>3, <1>4, <2>3
  <2>4. CASE i # 1 /\ j # 1
    <3>1. i - 1 \in DOMAIN list /\ j - 1 \in DOMAIN list /\ list[i - 1] = list[j - 1]
      BY <1>2, <1>4, <2>4
    <3>2. i - 1 = j - 1
      BY <3>1 DEF IsInjective
    <3> QED
      BY <3>2, <1>1
  <2> QED
    BY <2>1, <2>2, <2>3, <2>4
<1>5. IsInjective(new)
  BY <1>4 DEF IsInjective
<1>6. ToSet(new) \subseteq ToSet(list) \cup {f}
  BY <1>1, <1>2 DEF ToSet
<1>7. ToSet(list) \subseteq ToSet(new)
  <2> SUFFICES ASSUME NEW i \in DOMAIN list PROVE list[i] \in ToSet(new)
    BY DEF ToSet
  <2>1. i + 1 \in DOMAIN new /\ new[i + 1] = list[i]
    BY <1>1
  <2> QED
    BY <2>1 DEF ToSet
<1>8. f \in ToSet(new)
  BY <1>1 DEF ToSet
<1> QED
  BY <1>1, <1>5, <1>6, <1>7, <1>8 DEF new

\* A list without the element at k.
LEMMA DropOne ==
  ASSUME NEW F, NEW list \in Seq(F), IsInjective(list), NEW k \in DOMAIN list
  PROVE  /\ RemoveAt(list, k) \in Seq(F)
         /\ Len(RemoveAt(list, k)) = Len(list) - 1
         /\ IsInjective(RemoveAt(list, k))
         /\ ToSet(RemoveAt(list, k)) = ToSet(list) \ {list[k]}
<1> DEFINE new == RemoveAt(list, k)
           at(i) == IF i < k THEN i ELSE i + 1
<1>1. k \in 1..Len(list) /\ Len(list) \in Nat /\ DOMAIN list = 1..Len(list)
  OBVIOUS
<1>2. /\ SubSeq(list, 1, k - 1) \in Seq(F) /\ Len(SubSeq(list, 1, k - 1)) = k - 1
      /\ \A i \in 1..(k-1) : SubSeq(list, 1, k - 1)[i] = list[i]
  BY <1>1
<1>3. /\ SubSeq(list, k + 1, Len(list)) \in Seq(F)
      /\ Len(SubSeq(list, k + 1, Len(list))) = Len(list) - k
      /\ \A i \in 1..(Len(list)-k) : SubSeq(list, k + 1, Len(list))[i] = list[k + i]
  BY <1>1
<1> DEFINE front == SubSeq(list, 1, k - 1)
           back == SubSeq(list, k + 1, Len(list))
<1>4. new = front \o back
  BY DEF RemoveAt
<1> HIDE DEF front, back, new
<1>5. /\ front \in Seq(F) /\ Len(front) = k - 1 /\ \A i \in 1..(k-1) : front[i] = list[i]
      /\ back \in Seq(F) /\ Len(back) = Len(list) - k
      /\ \A i \in 1..(Len(list)-k) : back[i] = list[k + i]
  BY <1>2, <1>3 DEF front, back
<1>a. /\ new \in Seq(F) /\ Len(new) = Len(front) + Len(back) /\ DOMAIN new = 1..Len(new)
      /\ \A i \in 1..Len(new) : new[i] = IF i <= Len(front) THEN front[i] ELSE back[i - Len(front)]
  <2>1. /\ front \o back \in Seq(F) /\ Len(front \o back) = Len(front) + Len(back)
        /\ \A i \in 1..(Len(front)+Len(back)) : (front \o back)[i] =
                     IF i <= Len(front) THEN front[i] ELSE back[i - Len(front)]
    BY <1>5, ConcatProperties
  <2> QED
    BY <1>4, <2>1
<1>b. Len(new) = Len(list) - 1 /\ DOMAIN new = 1..(Len(list) - 1)
  BY <1>1, <1>5, <1>a
<1>6. ASSUME NEW i \in DOMAIN new PROVE at(i) \in DOMAIN list /\ at(i) # k /\ new[i] = list[at(i)]
  <2>1. i \in 1..(Len(list) - 1)
    BY <1>b
  <2>2. CASE i < k
    <3>1. i \in 1..(k-1) /\ i <= Len(front)
      BY <1>1, <1>5, <2>1, <2>2
    <3> QED
      BY <1>1, <1>5, <1>a, <1>b, <2>1, <2>2, <3>1
  <2>3. CASE ~(i < k)
    <3>1. i - (k - 1) \in 1..(Len(list)-k) /\ k + (i - (k - 1)) = i + 1
      BY <1>1, <2>1, <2>3
    <3>2. new[i] = back[i - (k - 1)]
      BY <1>1, <1>5, <1>a, <1>b, <2>1, <2>3
    <3>3. new[i] = list[i + 1]
      BY <1>5, <3>1, <3>2
    <3> QED
      BY <1>1, <2>1, <2>3, <3>3
  <2> QED
    BY <2>2, <2>3
<1>7. IsInjective(new)
  <2> SUFFICES ASSUME NEW i \in DOMAIN new, NEW j \in DOMAIN new, new[i] = new[j] PROVE i = j
    BY DEF IsInjective
  <2>1. at(i) = at(j)
    BY <1>6 DEF IsInjective
  <2> QED
    BY <2>1, <1>1, <1>b
<1>8. ToSet(new) \subseteq ToSet(list) \ {list[k]}
  <2> SUFFICES ASSUME NEW i \in DOMAIN new PROVE new[i] \in ToSet(list) \ {list[k]}
    BY DEF ToSet
  <2>1. list[at(i)] # list[k]
    BY <1>6 DEF IsInjective
  <2> QED
    BY <1>6, <2>1 DEF ToSet
<1>9. ToSet(list) \ {list[k]} \subseteq ToSet(new)
  <2> SUFFICES ASSUME NEW j \in DOMAIN list, j # k PROVE list[j] \in ToSet(new)
    BY DEF ToSet
  <2>1. CASE j < k
    <3>1. j \in DOMAIN new /\ at(j) = j
      BY <1>1, <1>b, <2>1
    <3> QED
      BY <1>6, <3>1 DEF ToSet
  <2>2. CASE j > k
    <3>1. j - 1 \in DOMAIN new /\ at(j - 1) = j
      BY <1>1, <1>b, <2>2
    <3> QED
      BY <1>6, <3>1 DEF ToSet
  <2> QED
    BY <1>1, <2>1, <2>2
<1> QED
  BY <1>a, <1>b, <1>7, <1>8, <1>9 DEF new

\* Moving a fingerprint to the front, listed or not, lists it once and keeps the others.
LEMMA MoveToFrontList ==
  ASSUME NEW F, NEW list \in Seq(F), NEW f \in F, IsInjective(list)
  PROVE  /\ MoveToFront(list, f) \in Seq(F)
         /\ IsInjective(MoveToFront(list, f))
         /\ ToSet(MoveToFront(list, f)) = ToSet(list) \cup {f}
<1>1. CASE f \notin ToSet(list)
  <2>1. MoveToFront(list, f) = <<f>> \o list
    BY <1>1 DEF MoveToFront
  <2> QED
    BY <1>1, <2>1, PushFront
<1>2. CASE f \in ToSet(list)
  <2> DEFINE k == CHOOSE i \in DOMAIN list : list[i] = f
             rest == RemoveAt(list, k)
  <2>1. k \in DOMAIN list /\ list[k] = f
    BY <1>2 DEF ToSet
  <2>2. MoveToFront(list, f) = <<f>> \o rest
    BY <1>2 DEF MoveToFront
  <2> HIDE DEF k, rest
  <2>3. rest \in Seq(F) /\ IsInjective(rest) /\ ToSet(rest) = ToSet(list) \ {f}
    BY <2>1, DropOne DEF rest
  <2>4. f \notin ToSet(rest)
    BY <2>3
  <2>5. ToSet(rest) \cup {f} = ToSet(list) \cup {f}
    BY <2>3
  <2> QED
    BY <2>2, <2>3, <2>4, <2>5, PushFront
<1> QED
  BY <1>1, <1>2

\* The first n elements of a list are among its elements, each once.
LEMMA KeepFront ==
  ASSUME NEW F, NEW list \in Seq(F), IsInjective(list), NEW n \in 0..Len(list)
  PROVE  /\ SubSeq(list, 1, n) \in Seq(F)
         /\ IsInjective(SubSeq(list, 1, n))
         /\ ToSet(SubSeq(list, 1, n)) \subseteq ToSet(list)
         /\ Len(SubSeq(list, 1, n)) = n
<1> DEFINE new == SubSeq(list, 1, n)
<1>1. /\ new \in Seq(F) /\ Len(new) = n /\ DOMAIN new = 1..n
      /\ DOMAIN list = 1..Len(list) /\ \A i \in 1..n : new[i] = list[i]
  OBVIOUS
<1> HIDE DEF new
<1>2. \A i \in DOMAIN new : i \in DOMAIN list /\ new[i] = list[i]
  BY <1>1
<1>3. IsInjective(new)
  BY <1>2 DEF IsInjective
<1>4. ToSet(new) \subseteq ToSet(list)
  BY <1>2 DEF ToSet
<1> QED
  BY <1>1, <1>3, <1>4 DEF new

------------------------------------------------------------------------------
(***************************************************************************)
(* What Touch and Track do to the list and the map.                        *)
(***************************************************************************)

ListOK ==
  /\ convLRU \in Seq(Fingerprints)
  /\ IsInjective(convLRU)
  /\ Listed \subseteq Stored
  /\ IsFiniteSet(Stored)
  /\ Stored \subseteq Fingerprints

\* A touch changes the order of the list and nothing else.
LEMMA TouchReorders ==
  ASSUME ListOK, NEW f \in Fingerprints, TouchConversation(f)
  PROVE  convLRU' \in Seq(Fingerprints) /\ IsInjective(convLRU') /\ Listed' = Listed
<1>1. CASE f \in Listed
  <2>1. convLRU' = MoveToFront(convLRU, f)
    BY <1>1 DEF TouchConversation
  <2>2. /\ MoveToFront(convLRU, f) \in Seq(Fingerprints)
        /\ IsInjective(MoveToFront(convLRU, f))
        /\ ToSet(MoveToFront(convLRU, f)) = ToSet(convLRU) \cup {f}
    BY MoveToFrontList DEF ListOK
  <2> QED
    BY <1>1, <2>1, <2>2 DEF Listed
<1>2. CASE f \notin Listed
  BY <1>2 DEF TouchConversation, ListOK, Listed
<1> QED
  BY <1>1, <1>2

\* An eviction takes entries off the back of the list: none for a fingerprint
\* that is stored, and none while the map has room.
LEMMA EvictionsTakeTheBack ==
  ASSUME ListOK, NEW f \in Fingerprints
  PROVE  /\ Evictions(f) \in 0..Len(convLRU)
         /\ Len(convLRU) \in Nat
         /\ Survivors(f) \in Seq(Fingerprints)
         /\ IsInjective(Survivors(f))
         /\ ToSet(Survivors(f)) \subseteq Listed
         /\ f \in Stored => Evicted(f) = {}
<1>1. Cardinality(Stored) \in Nat
  BY FS_CardinalityType DEF ListOK
<1>2. Len(convLRU) \in Nat
  BY DEF ListOK
<1>3. Evictions(f) \in 0..Len(convLRU)
  <2>1. CASE f \in Stored \/ Cardinality(Stored) < ConvMapMax
    BY <1>2, <2>1 DEF Evictions
  <2>2. CASE ~(f \in Stored \/ Cardinality(Stored) < ConvMapMax)
    <3> DEFINE surplus == Cardinality(Stored) - ConvMapEvictTarget
    <3>1. Evictions(f) = IF surplus < Len(convLRU) THEN surplus ELSE Len(convLRU)
      BY <2>2 DEF Evictions
    <3>2. surplus \in Nat
      BY <1>1, <2>2, ConversationAssumption
    <3> QED
      BY <1>2, <3>1, <3>2
  <2> QED
    BY <2>1, <2>2
<1>4. Len(convLRU) - Evictions(f) \in 0..Len(convLRU)
  BY <1>2, <1>3
<1>5. /\ Survivors(f) \in Seq(Fingerprints)
      /\ IsInjective(Survivors(f))
      /\ ToSet(Survivors(f)) \subseteq Listed
  BY <1>4, KeepFront DEF Survivors, ListOK, Listed
<1>6. ASSUME f \in Stored PROVE Evicted(f) = {}
  <2>1. Evictions(f) = 0
    BY <1>6 DEF Evictions
  <2>2. Survivors(f) = SubSeq(convLRU, 1, Len(convLRU))
    BY <1>2, <2>1 DEF Survivors
  <2>3. SubSeq(convLRU, 1, Len(convLRU)) = convLRU
    BY SubSeqFull DEF ListOK
  <2> QED
    BY <2>2, <2>3 DEF Evicted, Listed
<1> QED
  BY <1>2, <1>3, <1>5, <1>6

\* What a Track leaves: the survivors, and the fingerprint, listed unless it
\* was taken to be touched.
LEMMA TrackStores ==
  ASSUME ListOK, NEW f \in Fingerprints, NEW s, NEW touched \in BOOLEAN,
         TrackConversationSession(f, s, touched)
  PROVE  /\ convLRU' \in Seq(Fingerprints) /\ IsInjective(convLRU')
         /\ Stored' = (Stored \ Evicted(f)) \cup {f}
         /\ Listed' \subseteq Stored'
         /\ ~touched => f \in Listed'
         /\ \A g \in Stored' \ {f} : g \in Listed => g \in Listed'
         /\ conversationMap'[f] = s
         /\ \A g \in Stored' \ {f} : g \in Stored /\ conversationMap'[g] = conversationMap[g]
<1>1. /\ conversationMap' = [g \in (Stored \ Evicted(f)) \cup {f} |->
                               IF g = f THEN s ELSE conversationMap[g]]
      /\ convLRU' = IF touched THEN Survivors(f) ELSE MoveToFront(Survivors(f), f)
  BY DEF TrackConversationSession
<1>2. /\ Survivors(f) \in Seq(Fingerprints)
      /\ IsInjective(Survivors(f))
      /\ ToSet(Survivors(f)) \subseteq Listed
  BY EvictionsTakeTheBack
<1>3. /\ convLRU' \in Seq(Fingerprints) /\ IsInjective(convLRU')
      /\ ToSet(convLRU') = ToSet(Survivors(f)) \cup (IF touched THEN {} ELSE {f})
  <2>1. CASE touched
    BY <1>1, <1>2, <2>1
  <2>2. CASE ~touched
    BY <1>1, <1>2, <2>2, MoveToFrontList
  <2> QED
    BY <2>1, <2>2
<1>4. Stored' = (Stored \ Evicted(f)) \cup {f}
  BY <1>1 DEF Stored
<1>5. Listed' = ToSet(Survivors(f)) \cup (IF touched THEN {} ELSE {f})
  BY <1>3 DEF Listed
<1>6. Listed' \subseteq Stored'
  BY <1>2, <1>4, <1>5 DEF ListOK, Evicted
<1>7. \A g \in Stored' \ {f} : g \in Listed => g \in Listed'
  BY <1>4, <1>5 DEF Evicted
<1>8. conversationMap'[f] = s
  BY <1>1
<1>9. \A g \in Stored' \ {f} : g \in Stored /\ conversationMap'[g] = conversationMap[g]
  BY <1>1, <1>4
<1> QED
  BY <1>3, <1>4, <1>5, <1>6, <1>7, <1>8, <1>9

\* A full map that is all in the list makes room for one more.
LEMMA EvictionMakesRoom ==
  ASSUME ListOK, NEW f \in Fingerprints \ Stored, Stored = Listed,
         Cardinality(Stored) = ConvMapMax
  PROVE  Cardinality(Stored \ Evicted(f)) < ConvMapMax
<1> DEFINE n == Len(convLRU)
<1>1. n \in Nat /\ DOMAIN convLRU = 1..n /\ convLRU \in Seq(Fingerprints)
  BY DEF ListOK
<1>2. n # 0
  <2> SUFFICES ASSUME n = 0 PROVE FALSE
    OBVIOUS
  <2>1. Listed = {}
    BY <1>1 DEF Listed, ToSet
  <2> QED
    BY <2>1, FS_EmptySet, ConversationAssumption
<1>3. n - Evictions(f) \in 0..n /\ n - Evictions(f) < n
  <2>1. ~(f \in Stored \/ Cardinality(Stored) < ConvMapMax)
    BY ConversationAssumption
  <2> DEFINE surplus == Cardinality(Stored) - ConvMapEvictTarget
  <2>2. Evictions(f) = IF surplus < n THEN surplus ELSE n
    BY <2>1 DEF Evictions
  <2>3. surplus \in Nat /\ surplus # 0
    BY ConversationAssumption
  <2> QED
    BY <1>1, <1>2, <2>2, <2>3
<1>4. convLRU[n] \in Listed
  BY <1>1, <1>2 DEF Listed, ToSet
<1>5. convLRU[n] \notin ToSet(Survivors(f))
  <2> DEFINE m == n - Evictions(f)
             kept == SubSeq(convLRU, 1, m)
  <2>1. DOMAIN kept = 1..m /\ \A i \in 1..m : kept[i] = convLRU[i]
    BY <1>1, <1>3
  <2>2. \A i \in 1..m : i \in DOMAIN convLRU /\ n \in DOMAIN convLRU /\ i # n
    <3>1. m \in 0..n /\ m < n
      BY <1>3
    <3> HIDE DEF m, n
    <3>2. \A i \in 1..m : i \in 1..n /\ n \in 1..n /\ i # n
      BY <1>1, <1>2, <3>1
    <3> QED
      BY <1>1, <3>2
  <2>3. \A i \in 1..m : convLRU[i] # convLRU[n]
    BY <2>2 DEF IsInjective, ListOK
  <2>4. Survivors(f) = kept
    BY DEF Survivors
  <2> HIDE DEF kept
  <2> QED
    BY <2>1, <2>3, <2>4 DEF ToSet
<1>6. Stored \ Evicted(f) \subseteq Stored \ {convLRU[n]}
  BY <1>4, <1>5 DEF Evicted
<1>7. /\ IsFiniteSet(Stored \ {convLRU[n]})
      /\ Cardinality(Stored \ {convLRU[n]}) = Cardinality(Stored) - 1
  BY <1>4, FS_RemoveElement DEF ListOK
<1>8. Cardinality(Stored \ Evicted(f)) <= Cardinality(Stored) - 1
  BY <1>6, <1>7, FS_Subset
<1>9. Cardinality(Stored \ Evicted(f)) \in Nat
  BY <1>6, <1>7, FS_Subset, FS_CardinalityType
<1> QED
  BY <1>8, <1>9, ConversationAssumption

------------------------------------------------------------------------------
(***************************************************************************)
(* The inductive invariant.                                                *)
(***************************************************************************)

\* A request has a fingerprint from its arrival on, and a session from its
\* lookup or its numbering on.
Located ==
  \A c \in Chats :
    /\ chat[c] # "new" => fingerprint[c] \in Fingerprints
    /\ chat[c] \in {"found", "counted", "done"} => session[c] # NoSession
    /\ chat[c] \in {"new", "dispatched", "missed"} => session[c] = NoSession

\* A session's number is used up, and is used for one fingerprint only.
Numbered ==
  /\ \A c \in Chats : session[c] <= globalSessionCounter
  /\ \A c, d \in Chats :
       session[c] = session[d] /\ session[c] # NoSession => fingerprint[c] = fingerprint[d]

\* A stored session was tracked by a request that is done.
Tracked(f, s, d) == chat[d] = "done" /\ fingerprint[d] = f /\ session[d] = s

StoredWereTracked == \A f \in Stored : \E d \in Chats : Tracked(f, conversationMap[f], d)

\* So was the session that a request has found.
FoundWereTracked ==
  \A c \in Chats : chat[c] = "found" =>
    \E d \in Chats \ {c} : Tracked(fingerprint[c], session[c], d)

\* A session outside the list was unlisted by the request that tracked it.
UnlistedHasACause ==
  \A f \in Stored \ Listed : \E c \in Chats : fingerprint[c] = f /\ Unlists(c)

\* The map keeps its capacity until a request unlists a session.
RoomUntilUnlisted ==
  Cardinality(Stored) <= ConvMapMax \/ \E c \in Chats : Unlists(c)

ConversationIInv ==
  /\ ConversationTypeOK
  /\ ListOK
  /\ Located
  /\ Numbered
  /\ StoredWereTracked
  /\ FoundWereTracked
  /\ UnlistedHasACause
  /\ RoomUntilUnlisted

LEMMA ConversationStart == ConversationInit => ConversationIInv
<1> SUFFICES ASSUME ConversationInit PROVE ConversationIInv
  OBVIOUS
<1> USE DEF ConversationInit, NoSession, NoPrint
<1>1. Stored = {} /\ Listed = {}
  BY DEF Stored, Listed, ToSet
<1>2. ConversationTypeOK
  BY <1>1 DEF ConversationTypeOK
<1>3. ListOK
  <2>1. IsInjective(convLRU)
    BY DEF IsInjective
  <2> QED
    BY <1>1, <2>1, FS_EmptySet DEF ListOK
<1>4. Located /\ Numbered
  BY DEF Located, Numbered
<1>5. StoredWereTracked /\ FoundWereTracked /\ UnlistedHasACause
  BY <1>1 DEF StoredWereTracked, FoundWereTracked, UnlistedHasACause
<1>6. RoomUntilUnlisted
  BY <1>1, FS_EmptySet, ConversationAssumption DEF RoomUntilUnlisted
<1> QED
  BY <1>2, <1>3, <1>4, <1>5, <1>6 DEF ConversationIInv

\* The list and the map after any step of a request.
LEMMA ListStep ==
  ASSUME ConversationTypeOK, ListOK, Located, NEW c \in Chats,
         \/ \E f \in Fingerprints : Arrive(c, f)
         \/ Touch(c) \/ Refused(c) \/ NumberSession(c) \/ Track(c)
  PROVE  ListOK'
<1>1. ASSUME NEW f \in Fingerprints, Arrive(c, f) PROVE ListOK'
  <2>1. UNCHANGED conversationMap /\ Stored' = Stored
    BY <1>1 DEF Arrive, Stored
  <2>2. CASE ChatFormat[c] = "anthropic"
    <3>1. TouchConversation(f)
      BY <1>1, <2>2 DEF Arrive
    <3> QED
      BY <2>1, <3>1, TouchReorders DEF ListOK
  <2>3. CASE ChatFormat[c] # "anthropic"
    <3>1. convLRU' = convLRU
      BY <1>1, <2>3 DEF Arrive
    <3> QED
      BY <2>1, <3>1 DEF ListOK, Listed
  <2> QED
    BY <2>2, <2>3
<1>2. ASSUME Touch(c) PROVE ListOK'
  <2>1. Stored' = Stored /\ TouchConversation(fingerprint[c]) /\ fingerprint[c] \in Fingerprints
    BY <1>2 DEF Touch, Stored, Located
  <2> QED
    BY <2>1, TouchReorders DEF ListOK
<1>3. ASSUME Refused(c) \/ NumberSession(c) PROVE ListOK'
  BY <1>3 DEF Refused, NumberSession, ListOK, Listed, Stored
<1>4. ASSUME Track(c) PROVE ListOK'
  <2> DEFINE f == fingerprint[c]
             touched == chat[c] = "found" \/ ChatFormat[c] = "anthropic"
  <2>1. f \in Fingerprints /\ touched \in BOOLEAN /\ TrackConversationSession(f, session[c], touched)
    BY <1>4 DEF Track, Located
  <2> HIDE DEF f, touched
  <2>2. /\ convLRU' \in Seq(Fingerprints) /\ IsInjective(convLRU')
        /\ Stored' = (Stored \ Evicted(f)) \cup {f}
        /\ Listed' \subseteq Stored'
    BY <2>1, TrackStores
  <2>3. IsFiniteSet(Stored')
    BY <2>2, FS_Subset, FS_AddElement DEF ListOK
  <2> QED
    BY <2>1, <2>2, <2>3 DEF ListOK
<1> QED
  BY <1>1, <1>2, <1>3, <1>4

\* What a touch finds is a stored session.
LEMMA FoundIsStored ==
  ASSUME ConversationTypeOK, ListOK, NEW f \in Fingerprints
  PROVE  /\ Found(f) \in Nat
         /\ Found(f) # NoSession => f \in Stored /\ Found(f) = conversationMap[f]
BY DEF ConversationTypeOK, ListOK, Found, NoSession

LEMMA TypeStep ==
  ASSUME ConversationTypeOK, ListOK, Located, NEW c \in Chats,
         \/ \E f \in Fingerprints : Arrive(c, f)
         \/ Touch(c) \/ Refused(c) \/ NumberSession(c) \/ Track(c)
  PROVE  ConversationTypeOK'
<1>0. ListOK'
  BY ListStep
<1>1. ASSUME NEW f \in Fingerprints, Arrive(c, f) PROVE ConversationTypeOK'
  BY <1>0, <1>1 DEF Arrive, ConversationTypeOK, ListOK, Stored
<1>2. ASSUME Touch(c) PROVE ConversationTypeOK'
  <2>1. Found(fingerprint[c]) \in Nat
    BY <1>2, FoundIsStored DEF Touch, Located
  <2> QED
    BY <1>0, <1>2, <2>1 DEF Touch, ConversationTypeOK, ListOK, Stored
<1>3. ASSUME Refused(c) PROVE ConversationTypeOK'
  BY <1>0, <1>3 DEF Refused, ConversationTypeOK, ListOK, Stored
<1>4. ASSUME NumberSession(c) PROVE ConversationTypeOK'
  BY <1>0, <1>4 DEF NumberSession, ConversationTypeOK, ListOK, Stored
<1>5. ASSUME Track(c) PROVE ConversationTypeOK'
  <2> DEFINE f == fingerprint[c]
             touched == chat[c] = "found" \/ ChatFormat[c] = "anthropic"
  <2>1. f \in Fingerprints /\ touched \in BOOLEAN /\ TrackConversationSession(f, session[c], touched)
    BY <1>5 DEF Track, Located
  <2>2. session[c] \in Nat \ {NoSession}
    BY <1>5 DEF Track, Located, ConversationTypeOK
  <2> HIDE DEF f, touched
  <2>3. conversationMap'[f] = session[c]
        /\ \A g \in Stored' \ {f} : g \in Stored /\ conversationMap'[g] = conversationMap[g]
    BY <2>1, TrackStores
  <2>4. \A g \in Stored' : conversationMap'[g] \in Nat \ {NoSession}
    BY <2>2, <2>3 DEF ConversationTypeOK
  <2> QED
    BY <1>0, <1>5, <2>4 DEF Track, ConversationTypeOK, ListOK
<1> QED
  BY <1>1, <1>2, <1>3, <1>4, <1>5

LEMMA LocatedStep ==
  ASSUME ConversationTypeOK, ListOK, Located, NEW c \in Chats,
         \/ \E f \in Fingerprints : Arrive(c, f)
         \/ Touch(c) \/ Refused(c) \/ NumberSession(c) \/ Track(c)
  PROVE  Located'
<1> USE DEF ConversationTypeOK, Located, NoSession
<1>1. ASSUME NEW f \in Fingerprints, Arrive(c, f) PROVE Located'
  BY <1>1 DEF Arrive
<1>2. ASSUME Touch(c) PROVE Located'
  BY <1>2 DEF Touch
<1>3. ASSUME Refused(c) PROVE Located'
  BY <1>3 DEF Refused
<1>4. ASSUME NumberSession(c) PROVE Located'
  BY <1>4 DEF NumberSession
<1>5. ASSUME Track(c) PROVE Located'
  BY <1>5 DEF Track
<1> QED
  BY <1>1, <1>2, <1>3, <1>4, <1>5

\* What stays the same about a request whose session is known.
LEMMA SessionsStay ==
  ASSUME ConversationTypeOK, Located, NEW c \in Chats, NEW d \in Chats,
         \/ \E f \in Fingerprints : Arrive(c, f)
         \/ Touch(c) \/ Refused(c) \/ NumberSession(c) \/ Track(c)
  PROVE  /\ chat[d] # "new" => fingerprint'[d] = fingerprint[d]
         /\ session[d] # NoSession => session'[d] = session[d] /\ fingerprint'[d] = fingerprint[d]
         /\ chat[d] = "done" => chat'[d] = "done"
         /\ d # c => chat'[d] = chat[d] /\ session'[d] = session[d]
<1> USE DEF ConversationTypeOK, Located, NoSession
<1>1. ASSUME NEW f \in Fingerprints, Arrive(c, f)
      PROVE  /\ chat[d] # "new" => fingerprint'[d] = fingerprint[d]
             /\ session[d] # NoSession => session'[d] = session[d] /\ fingerprint'[d] = fingerprint[d]
             /\ chat[d] = "done" => chat'[d] = "done"
             /\ d # c => chat'[d] = chat[d] /\ session'[d] = session[d]
  BY <1>1 DEF Arrive
<1>2. CASE Touch(c)
  BY <1>2 DEF Touch
<1>3. CASE Refused(c)
  BY <1>3 DEF Refused
<1>4. CASE NumberSession(c)
  BY <1>4 DEF NumberSession
<1>5. CASE Track(c)
  BY <1>5 DEF Track
<1> QED
  BY <1>1, <1>2, <1>3, <1>4, <1>5

\* A tracked session stays tracked.
LEMMA TrackedStays ==
  ASSUME ConversationTypeOK, Located, NEW c \in Chats, NEW d \in Chats, NEW f, NEW s,
         Tracked(f, s, d),
         \/ \E g \in Fingerprints : Arrive(c, g)
         \/ Touch(c) \/ Refused(c) \/ NumberSession(c) \/ Track(c)
  PROVE  Tracked(f, s, d)'
<1>1. session[d] # NoSession
  BY DEF Tracked, Located
<1> QED
  BY <1>1, SessionsStay DEF Tracked

LEMMA NumberedStep ==
  ASSUME ConversationTypeOK, ListOK, Located, Numbered, StoredWereTracked, NEW c \in Chats,
         \/ \E f \in Fingerprints : Arrive(c, f)
         \/ Touch(c) \/ Refused(c) \/ NumberSession(c) \/ Track(c)
  PROVE  Numbered'
<1>1. ASSUME NEW f \in Fingerprints, Arrive(c, f) PROVE Numbered'
  <2>1. session[c] = NoSession /\ UNCHANGED <<session, globalSessionCounter>>
    BY <1>1 DEF Arrive, Located
  <2>2. \A d \in Chats \ {c} : fingerprint'[d] = fingerprint[d]
    BY <1>1 DEF Arrive, ConversationTypeOK
  <2> QED
    BY <2>1, <2>2 DEF Numbered
<1>2. ASSUME Touch(c) PROVE Numbered'
  <2> DEFINE f == fingerprint[c]
  <2>1. /\ f \in Fingerprints /\ session[c] = NoSession
        /\ session' = [session EXCEPT ![c] = Found(f)]
        /\ UNCHANGED <<fingerprint, globalSessionCounter>>
    BY <1>2 DEF Touch, Located
  <2>2. ASSUME Found(f) # NoSession
        PROVE  \E e \in Chats \ {c} : fingerprint[e] = f /\ session[e] = Found(f)
    <3>1. f \in Stored /\ Found(f) = conversationMap[f]
      BY <2>1, <2>2, FoundIsStored
    <3>2. PICK e \in Chats : Tracked(f, Found(f), e)
      BY <3>1 DEF StoredWereTracked
    <3>3. e # c
      BY <1>2, <3>2 DEF Touch, Tracked
    <3> QED
      BY <3>2, <3>3 DEF Tracked
  <2>3. \A d \in Chats : session'[d] = IF d = c THEN Found(f) ELSE session[d]
    BY <2>1 DEF ConversationTypeOK
  <2> HIDE DEF f
  <2>4. \A d \in Chats : session'[d] <= globalSessionCounter'
    BY <2>1, <2>2, <2>3 DEF Numbered, NoSession, ConversationTypeOK
  <2>5. ASSUME NEW d \in Chats, NEW e \in Chats, session'[d] = session'[e], session'[d] # NoSession
        PROVE  fingerprint[d] = fingerprint[e]
    <3>1. CASE d # c /\ e # c
      BY <2>3, <2>5, <3>1 DEF Numbered
    <3>2. CASE d = c /\ e = c
      BY <3>2
    <3>3. CASE d = c /\ e # c
      BY <2>2, <2>3, <2>5, <3>3 DEF Numbered, f
    <3>4. CASE d # c /\ e = c
      BY <2>2, <2>3, <2>5, <3>4 DEF Numbered, f
    <3> QED
      BY <3>1, <3>2, <3>3, <3>4
  <2> QED
    BY <2>1, <2>4, <2>5 DEF Numbered
<1>3. ASSUME Refused(c) \/ Track(c) PROVE Numbered'
  BY <1>3 DEF Refused, Track, Numbered
<1>4. ASSUME NumberSession(c) PROVE Numbered'
  <2>1. /\ globalSessionCounter' = globalSessionCounter + 1
        /\ \A d \in Chats : session'[d] = IF d = c THEN globalSessionCounter + 1 ELSE session[d]
        /\ fingerprint' = fingerprint
    BY <1>4 DEF NumberSession, ConversationTypeOK
  <2>2. \A d \in Chats : session[d] \in Nat /\ globalSessionCounter \in Nat
    BY DEF ConversationTypeOK
  <2> QED
    BY <2>1, <2>2 DEF Numbered
<1> QED
  BY <1>1, <1>2, <1>3, <1>4

LEMMA StoredStep ==
  ASSUME ConversationTypeOK, ListOK, Located, StoredWereTracked, NEW c \in Chats,
         \/ \E f \in Fingerprints : Arrive(c, f)
         \/ Touch(c) \/ Refused(c) \/ NumberSession(c) \/ Track(c)
  PROVE  StoredWereTracked'
<1>1. CASE UNCHANGED conversationMap
  BY <1>1, TrackedStays DEF StoredWereTracked, Stored
<1>2. CASE Track(c)
  <2> DEFINE f == fingerprint[c]
             touched == chat[c] = "found" \/ ChatFormat[c] = "anthropic"
  <2>1. f \in Fingerprints /\ touched \in BOOLEAN /\ TrackConversationSession(f, session[c], touched)
    BY <1>2 DEF Track, Located
  <2> HIDE DEF touched
  <2>2. conversationMap'[f] = session[c]
        /\ \A g \in Stored' \ {f} : g \in Stored /\ conversationMap'[g] = conversationMap[g]
    BY <2>1, TrackStores
  <2>3. Tracked(f, session[c], c)'
    BY <1>2 DEF Track, Tracked, ConversationTypeOK
  <2>4. (fingerprint[c])' = f
    BY <1>2 DEF Track
  <2>5. \A g \in Stored' \ {f} : \E d \in Chats : Tracked(g, conversationMap[g], d)'
    BY <2>2, TrackedStays DEF StoredWereTracked
  <2> SUFFICES ASSUME NEW g \in Stored'
               PROVE  \E d \in Chats : chat'[d] = "done" /\ fingerprint'[d] = g
                                       /\ session'[d] = conversationMap'[g]
    BY DEF StoredWereTracked, Tracked
  <2>6. CASE g = f
    BY <1>2, <2>2, <2>6 DEF Track, ConversationTypeOK
  <2>7. CASE g # f
    <3>1. g \in Stored /\ conversationMap'[g] = conversationMap[g]
      BY <2>2, <2>7
    <3>2. PICK d \in Chats : Tracked(g, conversationMap[g], d)
      BY <3>1 DEF StoredWereTracked
    <3>3. session[d] # NoSession
      BY <3>2 DEF Tracked, Located
    <3>4. chat'[d] = "done" /\ fingerprint'[d] = g /\ session'[d] = conversationMap[g]
      BY <3>2, <3>3, SessionsStay DEF Tracked
    <3> QED
      BY <3>1, <3>4
  <2> QED
    BY <2>6, <2>7
<1> QED
  BY <1>1, <1>2 DEF Arrive, Touch, Refused, NumberSession

LEMMA FoundStep ==
  ASSUME ConversationTypeOK, ListOK, Located, StoredWereTracked, FoundWereTracked,
         NEW c \in Chats,
         \/ \E f \in Fingerprints : Arrive(c, f)
         \/ Touch(c) \/ Refused(c) \/ NumberSession(c) \/ Track(c)
  PROVE  FoundWereTracked'
<1> SUFFICES ASSUME NEW e \in Chats, chat'[e] = "found"
             PROVE  \E d \in Chats \ {e} : Tracked(fingerprint[e], session[e], d)'
  BY DEF FoundWereTracked
<1>1. CASE chat[e] = "found"
  <2>1. PICK d \in Chats \ {e} : Tracked(fingerprint[e], session[e], d)
    BY <1>1 DEF FoundWereTracked
  <2>2. session[e] # NoSession /\ session[d] # NoSession /\ chat[e] # "new"
    BY <1>1, <2>1 DEF Tracked, Located
  <2>3. /\ chat'[d] = "done" /\ fingerprint'[d] = fingerprint[d] /\ session'[d] = session[d]
        /\ fingerprint'[e] = fingerprint[e] /\ session'[e] = session[e]
    BY <2>1, <2>2, SessionsStay DEF Tracked
  <2> QED
    BY <2>1, <2>3 DEF Tracked
<1>2. CASE chat[e] # "found"
  <2>1. e = c
    BY <1>2, SessionsStay
  <2>2. Touch(c)
    BY <1>2, <2>1 DEF Arrive, Refused, NumberSession, Track, ConversationTypeOK
  <2>3. /\ fingerprint[c] \in Fingerprints /\ fingerprint' = fingerprint
        /\ session'[c] = Found(fingerprint[c]) /\ Found(fingerprint[c]) # NoSession
    BY <1>2, <2>1, <2>2 DEF Touch, Located, ConversationTypeOK
  <2>4. fingerprint[c] \in Stored /\ Found(fingerprint[c]) = conversationMap[fingerprint[c]]
    BY <2>3, FoundIsStored
  <2>5. PICK d \in Chats : Tracked(fingerprint[c], conversationMap[fingerprint[c]], d)
    BY <2>4 DEF StoredWereTracked
  <2>6. d # c
    BY <2>2, <2>5 DEF Touch, Tracked
  <2>7. chat'[d] = "done" /\ session'[d] = session[d] /\ fingerprint'[d] = fingerprint[d]
    BY <2>2, <2>5, <2>6 DEF Touch, Tracked, ConversationTypeOK
  <2> QED
    BY <2>1, <2>3, <2>4, <2>5, <2>6, <2>7 DEF Tracked
<1> QED
  BY <1>1, <1>2

\* A request that has unlisted a session has done so for good.
LEMMA UnlistsStays ==
  ASSUME ConversationTypeOK, Located, NEW c \in Chats, NEW e \in Chats, Unlists(e),
         \/ \E f \in Fingerprints : Arrive(c, f)
         \/ Touch(c) \/ Refused(c) \/ NumberSession(c) \/ Track(c)
  PROVE  Unlists(e)' /\ fingerprint'[e] = fingerprint[e]
<1>1. session[e] # NoSession /\ chat[e] = "done"
  BY DEF Unlists, Located
<1>2. chat'[e] = "done" /\ session'[e] = session[e] /\ fingerprint'[e] = fingerprint[e]
  BY <1>1, SessionsStay
<1>3. ASSUME NEW d \in Chats \ {e}, session[d] = session[e] PROVE session'[d] = session'[e]
  BY <1>1, <1>2, <1>3, SessionsStay
<1> QED
  BY <1>2, <1>3 DEF Unlists

LEMMA UnlistedStep ==
  ASSUME ConversationTypeOK, ListOK, Located, FoundWereTracked, UnlistedHasACause,
         NEW c \in Chats,
         \/ \E f \in Fingerprints : Arrive(c, f)
         \/ Touch(c) \/ Refused(c) \/ NumberSession(c) \/ Track(c)
  PROVE  UnlistedHasACause'
<1>1. ASSUME NEW g \in Stored \ Listed
      PROVE  \E e \in Chats : fingerprint'[e] = g /\ Unlists(e)'
  BY UnlistsStays DEF UnlistedHasACause
<1>2. CASE Track(c)
  <2> DEFINE f == fingerprint[c]
             touched == chat[c] = "found" \/ ChatFormat[c] = "anthropic"
  <2>1. f \in Fingerprints /\ touched \in BOOLEAN /\ TrackConversationSession(f, session[c], touched)
    BY <1>2 DEF Track, Located
  <2>2. /\ ~touched => f \in Listed'
        /\ \A g \in Stored' \ {f} : g \in Listed => g \in Listed'
        /\ \A g \in Stored' \ {f} : g \in Stored
    BY <2>1, TrackStores
  <2>3. ASSUME touched PROVE Unlists(c)' /\ fingerprint'[c] = f
    <3>1. chat'[c] = "done" /\ session' = session /\ fingerprint' = fingerprint
      BY <1>2 DEF Track, ConversationTypeOK
    <3>2. CASE ChatFormat[c] = "anthropic"
      BY <3>1, <3>2 DEF Unlists
    <3>3. CASE chat[c] = "found"
      <4>1. PICK d \in Chats \ {c} : Tracked(fingerprint[c], session[c], d)
        BY <3>3 DEF FoundWereTracked
      <4>2. session'[d] = session'[c]
        BY <3>1, <4>1 DEF Tracked
      <4> QED
        BY <3>1, <4>2 DEF Unlists
    <3> QED
      BY <2>3, <3>2, <3>3
  <2> SUFFICES ASSUME NEW g \in Stored' \ Listed'
               PROVE  \E e \in Chats : fingerprint'[e] = g /\ Unlists(e)'
    BY DEF UnlistedHasACause
  <2>4. CASE g = f
    BY <2>2, <2>3, <2>4
  <2>5. CASE g # f
    BY <1>1, <2>2, <2>5
  <2> QED
    BY <2>4, <2>5
<1>3. CASE ~Track(c)
  <2>1. Stored' = Stored /\ Listed' = Listed
    <3>1. ASSUME NEW f \in Fingerprints, Arrive(c, f) PROVE Stored' = Stored /\ Listed' = Listed
      <4>1. Stored' = Stored /\ (TouchConversation(f) \/ convLRU' = convLRU)
        BY <3>1 DEF Arrive, Stored
      <4> QED
        BY <4>1, TouchReorders DEF Listed
    <3>2. ASSUME Touch(c) PROVE Stored' = Stored /\ Listed' = Listed
      <4>1. Stored' = Stored /\ TouchConversation(fingerprint[c])
            /\ fingerprint[c] \in Fingerprints
        BY <3>2 DEF Touch, Stored, Located
      <4> QED
        BY <4>1, TouchReorders
    <3>3. ASSUME Refused(c) \/ NumberSession(c) PROVE Stored' = Stored /\ Listed' = Listed
      BY <3>3 DEF Refused, NumberSession, Stored, Listed
    <3> QED
      BY <1>3, <3>1, <3>2, <3>3
  <2> QED
    BY <1>1, <2>1 DEF UnlistedHasACause
<1> QED
  BY <1>2, <1>3

LEMMA RoomStep ==
  ASSUME ConversationTypeOK, ListOK, Located, UnlistedHasACause, RoomUntilUnlisted,
         NEW c \in Chats,
         \/ \E f \in Fingerprints : Arrive(c, f)
         \/ Touch(c) \/ Refused(c) \/ NumberSession(c) \/ Track(c)
  PROVE  RoomUntilUnlisted'
<1>1. CASE \E e \in Chats : Unlists(e)
  BY <1>1, UnlistsStays DEF RoomUntilUnlisted
<1>2. CASE ~ \E e \in Chats : Unlists(e)
  <2>1. Stored = Listed
    BY <1>2 DEF UnlistedHasACause, ListOK
  <2>2. Cardinality(Stored) <= ConvMapMax /\ Cardinality(Stored) \in Nat
    BY <1>2, FS_CardinalityType DEF RoomUntilUnlisted, ListOK
  <2>3. CASE Track(c)
    <3> DEFINE f == fingerprint[c]
               touched == chat[c] = "found" \/ ChatFormat[c] = "anthropic"
    <3>1. f \in Fingerprints /\ touched \in BOOLEAN /\ TrackConversationSession(f, session[c], touched)
      BY <2>3 DEF Track, Located
    <3> HIDE DEF f, touched
    <3>2. Stored' = (Stored \ Evicted(f)) \cup {f}
      BY <3>1, TrackStores
    <3>3. CASE f \in Stored
      <4>1. Stored' = Stored
        BY <3>1, <3>2, <3>3, EvictionsTakeTheBack
      <4> QED
        BY <2>2, <4>1 DEF RoomUntilUnlisted
    <3>4. CASE f \notin Stored
      <4>1. Cardinality(Stored \ Evicted(f)) < ConvMapMax
        <5>1. CASE Cardinality(Stored) = ConvMapMax
          BY <2>1, <3>1, <3>4, <5>1, EvictionMakesRoom
        <5>2. CASE Cardinality(Stored) # ConvMapMax
          <6>1. Cardinality(Stored) < ConvMapMax
            BY <2>2, <5>2, ConversationAssumption
          <6>2. /\ Cardinality(Stored \ Evicted(f)) <= Cardinality(Stored)
                /\ Cardinality(Stored \ Evicted(f)) \in Nat
            BY FS_Subset, FS_CardinalityType DEF ListOK
          <6> QED
            BY <2>2, <6>1, <6>2, ConversationAssumption
        <5> QED
          BY <5>1, <5>2
      <4>2. IsFiniteSet(Stored \ Evicted(f)) /\ Cardinality(Stored \ Evicted(f)) \in Nat
        BY FS_Subset, FS_CardinalityType DEF ListOK
      <4>3. Cardinality(Stored') = Cardinality(Stored \ Evicted(f)) + 1
        BY <3>2, <3>4, <4>2, FS_AddElement
      <4> QED
        BY <4>1, <4>2, <4>3, ConversationAssumption DEF RoomUntilUnlisted
    <3> QED
      BY <3>3, <3>4
  <2>4. CASE ~Track(c)
    <3>1. Stored' = Stored
      BY <2>4 DEF Arrive, Touch, Refused, NumberSession, Stored
    <3> QED
      BY <2>2, <3>1 DEF RoomUntilUnlisted
  <2> QED
    BY <2>3, <2>4
<1> QED
  BY <1>1, <1>2

LEMMA ConversationStep ==
  ASSUME ConversationIInv, [ConversationNext]_convVars PROVE ConversationIInv'
<1> USE DEF ConversationIInv
<1>1. ASSUME NEW c \in Chats,
             \/ \E f \in Fingerprints : Arrive(c, f)
             \/ Touch(c) \/ Refused(c) \/ NumberSession(c) \/ Track(c)
      PROVE  ConversationIInv'
  BY <1>1, TypeStep, ListStep, LocatedStep, NumberedStep, StoredStep, FoundStep,
     UnlistedStep, RoomStep
<1>2. ASSUME UNCHANGED convVars PROVE ConversationIInv'
  BY <1>2 DEF convVars, ConversationTypeOK, ListOK, Located, Numbered, StoredWereTracked,
     FoundWereTracked, UnlistedHasACause, RoomUntilUnlisted, Tracked, Unlists, Stored, Listed
<1> QED
  BY <1>1, <1>2 DEF ConversationNext, AllServed

LEMMA ConversationInvariant == ConversationSpec => []ConversationIInv
BY ConversationStart, ConversationStep, PTL DEF ConversationSpec

------------------------------------------------------------------------------
\* The variables keep their types.
THEOREM ConversationTypeCorrect == ConversationSpec => []ConversationTypeOK
<1>1. ConversationIInv => ConversationTypeOK
  BY DEF ConversationIInv
<1> QED
  BY <1>1, ConversationInvariant, PTL

\* TouchConversation, TrackConversationSession and the eviction keep the list
\* without duplicates and inside the map, and the map inside its capacity until
\* a request leaves a session in it that no list element leads to.
THEOREM ListAndMapAgree == ConversationSpec => []ListWellFormed
<1>1. ConversationIInv => ListWellFormed
  <2> SUFFICES ASSUME ConversationIInv PROVE ListWellFormed
    OBVIOUS
  <2>1. Cardinality(Stored) \in Nat
    BY FS_CardinalityType DEF ConversationIInv, ListOK
  <2> QED
    BY <2>1, ConversationAssumption
    DEF ConversationIInv, ListOK, RoomUntilUnlisted, ListWellFormed
<1> QED
  BY <1>1, ConversationInvariant, PTL

\* Two fingerprints never share a session, whatever requests run between the
\* lookup, the numbering and the tracking of one another.
THEOREM SessionsHaveOneConversation == ConversationSpec => []SessionsAreNotShared
<1>1. ConversationIInv => SessionsAreNotShared
  <2> SUFFICES ASSUME ConversationIInv, NEW f \in Stored, NEW g \in Stored,
                      conversationMap[f] = conversationMap[g]
               PROVE  f = g
    BY DEF SessionsAreNotShared
  <2>1. PICK c \in Chats : Tracked(f, conversationMap[f], c)
    BY DEF ConversationIInv, StoredWereTracked
  <2>2. PICK d \in Chats : Tracked(g, conversationMap[g], d)
    BY DEF ConversationIInv, StoredWereTracked
  <2>3. session[c] = session[d] /\ session[c] # NoSession
    BY <2>1, <2>2 DEF Tracked, ConversationIInv, Located
  <2> QED
    BY <2>1, <2>2, <2>3 DEF Tracked, ConversationIInv, Numbered
<1> QED
  BY <1>1, ConversationInvariant, PTL
==============================================================================
