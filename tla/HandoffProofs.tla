----------------------------- MODULE HandoffProofs -----------------------------
(***************************************************************************)
(* Proofs about ImageHandoff, for any requests, any images in any payloads *)
(* and any sizes of the limit, the semaphore and the cache.  The lemmas on *)
(* lists are those of the conversations, whose list is kept the same way.  *)
(***************************************************************************)
EXTENDS ImageHandoff, ConversationProofs

Tasks == Viewers \X Slots
Holding == {t \in Tasks : task[t] \in {"look", "asked", "cache", "leave"}}

\* The semaphore counts the goroutines that have acquired and not yet released.
SemaphoreCounts == IsFiniteSet(Holding) /\ Cardinality(Holding) = semaphore

\* Until its images are limited or replaced a request still has them all.
WholeUntilSent ==
  \A c \in Viewers : request[c] \notin {"limited", "described"} =>
    \A i \in DOMAIN payload[c] : parts[c][i] = Untouched

\* A request that limited its images kept as many as the limit it read, the latest.
LimitedToTheLatest ==
  \A c \in Viewers : request[c] = "limited" =>
    \E S \in Oldest(c, Surplus(c)) :
      \A i \in DOMAIN payload[c] : parts[c][i] = IF i \in S THEN Shared ELSE Untouched

\* The images that get a goroutine are those up to the limit of a handoff.
StartedUpToTheLimit ==
  \A c \in Viewers : \A i \in Slots :
    task[<<c, i>>] # "none" <=> /\ request[c] \in {"describing", "described"}
                                /\ i \in DOMAIN payload[c]
                                /\ i <= limit[c]

\* What a goroutine brings is about its image, and it caches no failure.
DescribesItsOwn ==
  \A t \in Tasks :
    /\ task[t] \in {"cache", "leave", "done"} => description[t] \in Texts(ImageOf(t))
    /\ task[t] = "cache" => description[t].text # "failed"

\* A request replaces its images when all of its goroutines are done.
ReplacedWhenDone ==
  \A c \in Viewers : request[c] = "described" =>
    /\ \A i \in Slots : task[<<c, i>>] \in {"none", "done"}
    /\ \A i \in DOMAIN payload[c] :
         parts[c][i] = IF i <= limit[c] THEN "described" ELSE Untouched

HandoffIInv ==
  /\ HandoffTypeOK
  /\ SemaphoreCounts
  /\ WholeUntilSent
  /\ LimitedToTheLatest
  /\ StartedUpToTheLimit
  /\ DescribesItsOwn
  /\ ReplacedWhenDone
  /\ CacheIsSound

------------------------------------------------------------------------------
(* The cache's list. *)

\* A list without its last element.
LEMMA DropLast ==
  ASSUME NEW F, NEW list \in Seq(F), IsInjective(list), Len(list) > 0
  PROVE  /\ Front(list) \in Seq(F)
         /\ Len(Front(list)) = Len(list) - 1
         /\ IsInjective(Front(list))
         /\ ToSet(Front(list)) = ToSet(list) \ {Last(list)}
<1> DEFINE n == Len(list)
<1>1. n \in DOMAIN list /\ n \in Nat
  OBVIOUS
<1>2. SubSeq(list, 1, n - 1) \in Seq(F) /\ SubSeq(list, n + 1, n) = << >>
  BY <1>1
<1>3. RemoveAt(list, n) = Front(list)
  BY <1>2, ConcatEmptySeq DEF RemoveAt, Front
<1> QED
  BY <1>1, <1>3, DropOne DEF Last

\* The list and the map hold the same images, each once.
CacheAgrees ==
  /\ cacheList \in Seq(Images)
  /\ IsInjective(cacheList)
  /\ ToSet(cacheList) = Cached

LEMMA UnlinkedList ==
  ASSUME CacheAgrees, NEW image \in Cached
  PROVE  /\ image \in Images
         /\ Unlinked(image) \in Seq(Images)
         /\ Len(Unlinked(image)) = Len(cacheList) - 1
         /\ IsInjective(Unlinked(image))
         /\ ToSet(Unlinked(image)) = Cached \ {image}
<1> DEFINE k == CHOOSE i \in DOMAIN cacheList : cacheList[i] = image
<1>1. k \in DOMAIN cacheList /\ cacheList[k] = image
  BY DEF CacheAgrees, ToSet
<1>2. image \in Images
  BY <1>1 DEF CacheAgrees
<1>3. Unlinked(image) = RemoveAt(cacheList, k)
  BY DEF Unlinked
<1> HIDE DEF k
<1> QED
  BY <1>1, <1>2, <1>3, DropOne DEF CacheAgrees

LEMMA RelinkedList ==
  ASSUME CacheAgrees, NEW image \in Cached
  PROVE  /\ <<image>> \o Unlinked(image) \in Seq(Images)
         /\ Len(<<image>> \o Unlinked(image)) = Len(cacheList)
         /\ IsInjective(<<image>> \o Unlinked(image))
         /\ ToSet(<<image>> \o Unlinked(image)) = Cached
<1> DEFINE rest == Unlinked(image)
<1>1. /\ image \in Images /\ rest \in Seq(Images) /\ Len(rest) = Len(cacheList) - 1
      /\ IsInjective(rest) /\ ToSet(rest) = Cached \ {image}
  BY UnlinkedList
<1> HIDE DEF rest
<1>2. /\ <<image>> \o rest \in Seq(Images) /\ Len(<<image>> \o rest) = Len(rest) + 1
      /\ IsInjective(<<image>> \o rest) /\ ToSet(<<image>> \o rest) = ToSet(rest) \cup {image}
  BY <1>1, PushFront
<1>3. Len(cacheList) \in Nat
  BY DEF CacheAgrees
<1>4. ToSet(rest) \cup {image} = Cached
  BY <1>1
<1>5. Len(rest) + 1 = Len(cacheList)
  BY <1>1, <1>3
<1> QED
  BY <1>2, <1>4, <1>5 DEF rest

\* An insertion keeps list and map alike and within the size.
LEMMA InsertKeepsCache ==
  ASSUME CacheAgrees, CacheIsSound, NEW image \in Images, NEW text, Insert(image, text)
  PROVE  /\ CacheAgrees'
         /\ Len(cacheList') <= CacheSize
         /\ \A i \in Cached' : cacheEntries'[i] = IF i = image THEN text ELSE cacheEntries[i]
         /\ Cached' \subseteq Cached \cup {image}
<1> DEFINE pushed == <<image>> \o cacheList
           full == Len(pushed) > CacheSize
<1>1. image \notin ToSet(cacheList) /\ CacheSize \in Nat /\ Len(cacheList) \in Nat
  BY HandoffAssumption DEF CacheAgrees, Insert
<1>2. /\ pushed \in Seq(Images) /\ Len(pushed) = Len(cacheList) + 1
      /\ IsInjective(pushed) /\ ToSet(pushed) = Cached \cup {image}
  BY <1>1, PushFront DEF CacheAgrees
<1>3. /\ cacheList' = IF full THEN Front(pushed) ELSE pushed
      /\ cacheEntries' = [i \in (Cached \cup {image}) \ (IF full THEN {Last(pushed)} ELSE {}) |->
                            IF i = image THEN text ELSE cacheEntries[i]]
  BY DEF Insert
<1> HIDE DEF pushed
<1>4. Cached' = (Cached \cup {image}) \ (IF full THEN {Last(pushed)} ELSE {})
  BY <1>3 DEF Cached
<1>5. CASE full
  <2>1. /\ Front(pushed) \in Seq(Images) /\ Len(Front(pushed)) = Len(pushed) - 1
        /\ IsInjective(Front(pushed)) /\ ToSet(Front(pushed)) = ToSet(pushed) \ {Last(pushed)}
    BY <1>1, <1>2, DropLast
  <2>2. Len(cacheList) <= CacheSize
    BY DEF CacheIsSound
  <2>3. CacheAgrees'
    BY <1>2, <1>3, <1>4, <1>5, <2>1 DEF CacheAgrees
  <2> QED
    BY <1>1, <1>2, <1>3, <1>4, <1>5, <2>1, <2>2, <2>3
<1>6. CASE ~full
  <2>1. CacheAgrees'
    BY <1>2, <1>3, <1>4, <1>6 DEF CacheAgrees
  <2> QED
    BY <1>1, <1>2, <1>3, <1>4, <1>6, <2>1
<1> QED
  BY <1>5, <1>6

------------------------------------------------------------------------------
(* The first state, and the steps that leave the requests alone. *)

LEMMA HandoffStarts == HandoffInit => HandoffIInv
<1> SUFFICES ASSUME HandoffInit PROVE HandoffIInv
  OBVIOUS
<1> USE DEF HandoffInit
<1>1. HandoffTypeOK
  BY HandoffAssumption DEF HandoffTypeOK
<1>2. SemaphoreCounts
  <2>1. Holding = {}
    BY DEF Holding, Tasks
  <2> QED
    BY <2>1, FS_EmptySet DEF SemaphoreCounts
<1>3. WholeUntilSent /\ LimitedToTheLatest /\ ReplacedWhenDone
  BY DEF WholeUntilSent, LimitedToTheLatest, ReplacedWhenDone
<1>4. StartedUpToTheLimit /\ DescribesItsOwn
  BY DEF StartedUpToTheLimit, DescribesItsOwn, Tasks
<1>5. CacheIsSound
  BY HandoffAssumption DEF CacheIsSound, IsInjective, ToSet, Cached
<1> QED
  BY <1>1, <1>2, <1>3, <1>4, <1>5 DEF HandoffIInv

\* What the invariant says about a payload and its images.
LEMMA PayloadTyped ==
  ASSUME HandoffTypeOK, NEW c \in Viewers
  PROVE  /\ Len(payload[c]) \in Nat
         /\ DOMAIN payload[c] = 1..Len(payload[c])
         /\ DOMAIN payload[c] \subseteq Slots
         /\ \A i \in DOMAIN payload[c] : payload[c][i].image \in Images
                                      /\ payload[c][i].message \in Nat
<1>1. payload[c] \in Payloads
  BY DEF HandoffTypeOK
<1>2. payload[c] \in Seq([image : Images, message : Nat])
  BY <1>1, HandoffAssumption
<1>3. DOMAIN payload[c] \subseteq Slots
  BY <1>1 DEF Slots
<1>4. ASSUME NEW R, NEW p \in Seq(R)
      PROVE  Len(p) \in Nat /\ DOMAIN p = 1..Len(p) /\ \A i \in DOMAIN p : p[i] \in R
  OBVIOUS
<1>5. /\ Len(payload[c]) \in Nat /\ DOMAIN payload[c] = 1..Len(payload[c])
      /\ \A i \in DOMAIN payload[c] : payload[c][i] \in [image : Images, message : Nat]
  BY <1>2, <1>4
<1> QED
  BY <1>3, <1>5

\* A goroutine that has left its first step is one of an image.
LEMMA TaskImage ==
  ASSUME HandoffTypeOK, StartedUpToTheLimit, NEW t \in Tasks, task[t] # "none"
  PROVE  /\ request[t[1]] \in {"describing", "described"}
         /\ t[1] \in Viewers
         /\ t[2] \in DOMAIN payload[t[1]]
         /\ ImageOf(t) \in Images
<1>1. t[1] \in Viewers /\ t[2] \in Slots /\ t = <<t[1], t[2]>>
  BY DEF Tasks
<1>2. request[t[1]] \in {"describing", "described"} /\ t[2] \in DOMAIN payload[t[1]]
  BY <1>1 DEF StartedUpToTheLimit
<1> QED
  BY <1>1, <1>2, PayloadTyped DEF ImageOf

\* One goroutine has moved, to the given step.
Moved(t, to) ==
  /\ task' \in [Tasks -> {"none", "waiting", "look", "asked", "cache", "leave", "done"}]
  /\ task'[t] = to
  /\ \A u \in Tasks \ {t} : task'[u] = task[u]

\* A goroutine's step, whatever it does to its description, the semaphore and the
\* cache: the requests do not see it before they replace their images.
LEMMA TaskStepFrame ==
  ASSUME HandoffIInv, NEW t \in Tasks,
         NEW from \in {"waiting", "look", "asked", "cache", "leave"},
         NEW to \in {"look", "asked", "cache", "leave", "done"}, TaskAt(t, from, to)
  PROVE  /\ Moved(t, to)
         /\ request[t[1]] = "describing"
         /\ WholeUntilSent' /\ LimitedToTheLatest' /\ StartedUpToTheLimit' /\ ReplacedWhenDone'
<1> USE DEF TaskAt, settings, requestVars
<1>1. Moved(t, to)
  BY DEF HandoffIInv, HandoffTypeOK, Tasks, Moved
<1>2. t[1] \in Viewers /\ t[2] \in Slots /\ t = <<t[1], t[2]>>
  BY DEF Tasks
<1>3. request[t[1]] = "describing"
  BY <1>2, TaskImage DEF HandoffIInv, ReplacedWhenDone
<1>4. \A c \in Viewers, i \in Slots : <<c, i>> \in Tasks /\ (<<c, i>> = t => c = t[1])
  BY <1>2 DEF Tasks
<1>5. WholeUntilSent'
  BY DEF HandoffIInv, WholeUntilSent
<1>6. LimitedToTheLatest'
  BY DEF HandoffIInv, LimitedToTheLatest, Oldest, Surplus
<1>7. StartedUpToTheLimit'
  <2>1. \A c \in Viewers, i \in Slots : task'[<<c, i>>] # "none" <=> task[<<c, i>>] # "none"
    BY <1>1, <1>4 DEF Moved
  <2>2. request' = request /\ payload' = payload /\ limit' = limit
    OBVIOUS
  <2> QED
    BY <2>1, <2>2 DEF HandoffIInv, StartedUpToTheLimit
<1>8. ReplacedWhenDone'
  BY <1>1, <1>3, <1>4 DEF HandoffIInv, ReplacedWhenDone, Moved
<1> QED
  BY <1>1, <1>3, <1>5, <1>6, <1>7, <1>8

\* A goroutine between acquiring and releasing stays one that holds.
LEMMA HoldingStays ==
  ASSUME HandoffIInv, NEW t \in Tasks, NEW from \in {"look", "asked", "cache", "leave"},
         NEW to \in {"look", "asked", "cache", "leave"}, TaskAt(t, from, to), UNCHANGED semaphore
  PROVE  SemaphoreCounts'
<1>1. Holding' = Holding
  BY TaskStepFrame DEF Holding, TaskAt, Moved
<1> QED
  BY <1>1 DEF HandoffIInv, SemaphoreCounts

LEMMA CacheAgreement ==
  ASSUME HandoffIInv
  PROVE  CacheAgrees
BY DEF HandoffIInv, HandoffTypeOK, CacheIsSound, CacheAgrees

------------------------------------------------------------------------------
(* The steps of a goroutine. *)

LEMMA AcquireKeeps ==
  ASSUME HandoffIInv, NEW t \in Tasks, Acquire(t)
  PROVE  HandoffIInv'
<1>1. TaskAt(t, "waiting", "look") /\ UNCHANGED <<description, imageCache>>
  BY DEF Acquire
<1>2. /\ Moved(t, "look")
      /\ WholeUntilSent' /\ LimitedToTheLatest' /\ StartedUpToTheLimit' /\ ReplacedWhenDone'
  BY <1>1, TaskStepFrame
<1>3. SemaphoreCounts'
  <2>1. t \notin Holding /\ Holding' = Holding \cup {t}
    BY <1>1, <1>2 DEF Holding, TaskAt, Moved
  <2> QED
    BY <2>1, FS_AddElement DEF HandoffIInv, SemaphoreCounts, Acquire
<1>4. HandoffTypeOK'
  BY <1>1, <1>2, HandoffAssumption
     DEF HandoffIInv, HandoffTypeOK, Acquire, TaskAt, settings, requestVars, imageCache, Tasks,
         Moved
<1>5. DescribesItsOwn'
  BY <1>1, <1>2 DEF HandoffIInv, DescribesItsOwn, TaskAt, requestVars, ImageOf, Moved
<1>6. CacheIsSound'
  BY <1>1 DEF HandoffIInv, CacheIsSound, imageCache, Cached
<1> QED
  BY <1>2, <1>3, <1>4, <1>5, <1>6 DEF HandoffIInv

LEMMA ReleaseKeeps ==
  ASSUME HandoffIInv, NEW t \in Tasks, Release(t)
  PROVE  HandoffIInv'
<1>1. TaskAt(t, "leave", "done") /\ UNCHANGED <<description, imageCache>>
  BY DEF Release
<1>2. /\ Moved(t, "done")
      /\ WholeUntilSent' /\ LimitedToTheLatest' /\ StartedUpToTheLimit' /\ ReplacedWhenDone'
  BY <1>1, TaskStepFrame
<1>3. semaphore' \in Nat /\ SemaphoreCounts'
  <2>1. t \in Holding /\ Holding' = Holding \ {t}
    BY <1>1, <1>2 DEF Holding, TaskAt, Moved
  <2>2. Cardinality(Holding \ {t}) = Cardinality(Holding) - 1 /\ IsFiniteSet(Holding \ {t})
    BY <2>1, FS_RemoveElement DEF HandoffIInv, SemaphoreCounts
  <2> QED
    BY <2>1, <2>2, FS_CardinalityType DEF HandoffIInv, SemaphoreCounts, Release
<1>4. HandoffTypeOK'
  BY <1>1, <1>2, <1>3, HandoffAssumption
     DEF HandoffIInv, HandoffTypeOK, Release, TaskAt, settings, requestVars, imageCache, Tasks,
         Moved
<1>5. DescribesItsOwn'
  BY <1>1, <1>2 DEF HandoffIInv, DescribesItsOwn, TaskAt, requestVars, ImageOf, Moved
<1>6. CacheIsSound'
  BY <1>1 DEF HandoffIInv, CacheIsSound, imageCache, Cached
<1> QED
  BY <1>2, <1>3, <1>4, <1>5, <1>6 DEF HandoffIInv

\* A hit brings the entry, which is of the image and no failure.
LEMMA HitKeeps ==
  ASSUME HandoffIInv, NEW t \in Tasks, Hit(t)
  PROVE  HandoffIInv'
<1> DEFINE image == ImageOf(t)
<1>1. /\ TaskAt(t, "look", "leave") /\ image \in Cached
      /\ description' = [description EXCEPT ![t] = cacheEntries[image]]
      /\ cacheList' = <<image>> \o Unlinked(image)
      /\ UNCHANGED <<semaphore, cacheEntries>>
  BY DEF Hit
<1>2. /\ Moved(t, "leave")
      /\ WholeUntilSent' /\ LimitedToTheLatest' /\ StartedUpToTheLimit' /\ ReplacedWhenDone'
  BY <1>1, TaskStepFrame
<1>3. SemaphoreCounts'
  BY <1>1, HoldingStays
<1>4. /\ cacheList' \in Seq(Images) /\ Len(cacheList') = Len(cacheList)
      /\ IsInjective(cacheList') /\ ToSet(cacheList') = Cached
  BY <1>1, CacheAgreement, RelinkedList
<1>5. CacheIsSound'
  BY <1>1, <1>4 DEF HandoffIInv, CacheIsSound, Cached
<1>6. image \in Images /\ cacheEntries[image] \in Texts(image)
  BY <1>1, CacheAgreement, UnlinkedList DEF HandoffIInv, CacheIsSound
<1>7. cacheEntries[image] \in Descriptions
  BY <1>6 DEF Descriptions
<1>8. description' \in [Tasks -> Descriptions \cup {NoText}]
  BY <1>1, <1>7 DEF HandoffIInv, HandoffTypeOK, Tasks
<1>9. HandoffTypeOK'
  BY <1>1, <1>2, <1>4, <1>8
     DEF HandoffIInv, HandoffTypeOK, TaskAt, settings, requestVars, Tasks, Cached, Moved
<1>10. DescribesItsOwn'
  BY <1>1, <1>2, <1>6
     DEF HandoffIInv, HandoffTypeOK, DescribesItsOwn, TaskAt, requestVars, ImageOf, Tasks, Moved
<1> QED
  BY <1>2, <1>3, <1>5, <1>9, <1>10 DEF HandoffIInv

LEMMA MissKeeps ==
  ASSUME HandoffIInv, NEW t \in Tasks, Miss(t)
  PROVE  HandoffIInv'
<1> DEFINE image == ImageOf(t)
<1>1. TaskAt(t, "look", "asked") /\ UNCHANGED <<description, semaphore>>
  BY DEF Miss
<1>2. /\ Moved(t, "asked")
      /\ WholeUntilSent' /\ LimitedToTheLatest' /\ StartedUpToTheLimit' /\ ReplacedWhenDone'
  BY <1>1, TaskStepFrame
<1>3. SemaphoreCounts'
  BY <1>1, HoldingStays
<1>4. CacheIsSound' /\ cacheList' \in Seq(Images) /\ Cached' \subseteq Images
  <2>1. CASE UNCHANGED imageCache
    BY <2>1 DEF HandoffIInv, HandoffTypeOK, CacheIsSound, imageCache, Cached
  <2>2. CASE /\ image \in Cached
             /\ cacheList' = Unlinked(image)
             /\ cacheEntries' = [i \in Cached \ {image} |-> cacheEntries[i]]
    <3>1. /\ cacheList' \in Seq(Images) /\ Len(cacheList') = Len(cacheList) - 1
          /\ IsInjective(cacheList') /\ ToSet(cacheList') = Cached \ {image}
      BY <2>2, CacheAgreement, UnlinkedList
    <3>2. Cached' = Cached \ {image} /\ \A i \in Cached' : cacheEntries'[i] = cacheEntries[i]
      BY <2>2 DEF Cached
    <3>3. Len(cacheList) \in Nat /\ Len(cacheList) <= CacheSize /\ CacheSize \in Nat
      BY HandoffAssumption DEF HandoffIInv, HandoffTypeOK, CacheIsSound
    <3>4. Len(cacheList') <= CacheSize
      BY <3>1, <3>3
    <3>5. \A i \in Cached' : cacheEntries'[i] \in Texts(i) /\ cacheEntries'[i].text # "failed"
      BY <3>2 DEF HandoffIInv, CacheIsSound
    <3>6. Cached' \subseteq Images
      BY <3>2 DEF HandoffIInv, HandoffTypeOK, Cached
    <3> QED
      BY <3>1, <3>2, <3>4, <3>5, <3>6 DEF CacheIsSound
  <2> QED
    BY <2>1, <2>2 DEF Miss
<1>5. HandoffTypeOK'
  BY <1>1, <1>2, <1>4
     DEF HandoffIInv, HandoffTypeOK, TaskAt, settings, requestVars, Tasks, Cached, Moved
<1>6. DescribesItsOwn'
  BY <1>1, <1>2 DEF HandoffIInv, DescribesItsOwn, TaskAt, requestVars, ImageOf, Moved
<1> QED
  BY <1>2, <1>3, <1>4, <1>5, <1>6 DEF HandoffIInv

\* The answer is a text about the image; one to be cached is no failure.
LEMMA DescribedKeeps ==
  ASSUME HandoffIInv, NEW t \in Tasks, Described(t)
  PROVE  HandoffIInv'
<1>1. PICK d \in Texts(ImageOf(t)) :
        /\ TaskAt(t, "asked", IF d.text = "failed" THEN "leave" ELSE "cache")
        /\ description' = [description EXCEPT ![t] = d]
  BY DEF Described
<1>2. UNCHANGED <<semaphore, imageCache>> /\ task[t] = "asked"
  BY DEF Described
<1> DEFINE to == IF d.text = "failed" THEN "leave" ELSE "cache"
<1>3. /\ Moved(t, to)
      /\ WholeUntilSent' /\ LimitedToTheLatest' /\ StartedUpToTheLimit' /\ ReplacedWhenDone'
  BY <1>1, TaskStepFrame
<1>4. SemaphoreCounts'
  BY <1>1, <1>2, HoldingStays
<1>5. d \in Descriptions
  BY <1>2, TaskImage DEF HandoffIInv, Descriptions
<1>6. description' \in [Tasks -> Descriptions \cup {NoText}]
  BY <1>1, <1>5 DEF HandoffIInv, HandoffTypeOK, Tasks
<1>7. HandoffTypeOK'
  BY <1>1, <1>2, <1>3, <1>6
     DEF HandoffIInv, HandoffTypeOK, TaskAt, settings, requestVars, imageCache, Tasks,
         Moved
<1>8. DescribesItsOwn'
  BY <1>1, <1>3
     DEF HandoffIInv, HandoffTypeOK, DescribesItsOwn, TaskAt, requestVars, ImageOf, Tasks, Moved
<1>9. CacheIsSound'
  BY <1>2 DEF HandoffIInv, CacheIsSound, imageCache, Cached
<1> QED
  BY <1>3, <1>4, <1>7, <1>8, <1>9 DEF HandoffIInv

LEMMA CacheDescriptionKeeps ==
  ASSUME HandoffIInv, NEW t \in Tasks, CacheDescription(t)
  PROVE  HandoffIInv'
<1> DEFINE image == ImageOf(t)
           text == description[t]
<1>1. TaskAt(t, "cache", "leave") /\ UNCHANGED <<description, semaphore>>
  BY DEF CacheDescription
<1>2. /\ Moved(t, "leave")
      /\ WholeUntilSent' /\ LimitedToTheLatest' /\ StartedUpToTheLimit' /\ ReplacedWhenDone'
  BY <1>1, TaskStepFrame
<1>3. SemaphoreCounts'
  BY <1>1, HoldingStays
<1>4. image \in Images /\ text \in Texts(image) /\ text.text # "failed"
  BY <1>1, TaskImage DEF HandoffIInv, DescribesItsOwn, TaskAt, Moved
<1> HIDE DEF image, text
<1>5. CacheIsSound' /\ cacheList' \in Seq(Images) /\ Cached' \subseteq Images
  <2>1. CASE UNCHANGED imageCache
    BY <2>1 DEF HandoffIInv, HandoffTypeOK, CacheIsSound, imageCache, Cached
  <2>2. CASE Overwrite(image, text)
    <3>1. image \in Cached /\ cacheList' = <<image>> \o Unlinked(image)
      BY <2>2 DEF Overwrite
    <3>2. /\ cacheList' \in Seq(Images) /\ Len(cacheList') = Len(cacheList)
          /\ IsInjective(cacheList') /\ ToSet(cacheList') = Cached
      BY <3>1, CacheAgreement, RelinkedList
    <3>3. /\ Cached' = Cached
          /\ \A i \in Cached : cacheEntries'[i] = IF i = image THEN text ELSE cacheEntries[i]
      BY <2>2 DEF Overwrite, Cached
    <3>4. Cached' \subseteq Images
      BY <3>3 DEF HandoffIInv, HandoffTypeOK, Cached
    <3> QED
      BY <1>4, <3>2, <3>3, <3>4 DEF HandoffIInv, CacheIsSound
  <2>3. CASE Insert(image, text)
    <3>1. /\ CacheAgrees'
          /\ Len(cacheList') <= CacheSize
          /\ \A i \in Cached' : cacheEntries'[i] = IF i = image THEN text ELSE cacheEntries[i]
          /\ Cached' \subseteq Cached \cup {image}
      BY <1>4, <2>3, CacheAgreement, InsertKeepsCache DEF HandoffIInv
    <3>2. Cached' \subseteq Images
      BY <1>4, <3>1 DEF HandoffIInv, HandoffTypeOK, Cached
    <3>3. \A i \in Cached' : cacheEntries'[i] \in Texts(i) /\ cacheEntries'[i].text # "failed"
      BY <1>4, <3>1 DEF HandoffIInv, CacheIsSound
    <3> QED
      BY <3>1, <3>2, <3>3 DEF CacheIsSound, CacheAgrees
  <2> QED
    BY <2>1, <2>2, <2>3 DEF CacheDescription, image, text
<1>6. HandoffTypeOK'
  BY <1>1, <1>2, <1>5
     DEF HandoffIInv, HandoffTypeOK, TaskAt, settings, requestVars, Tasks, Cached, Moved
<1>7. DescribesItsOwn'
  BY <1>1, <1>2 DEF HandoffIInv, DescribesItsOwn, TaskAt, requestVars, ImageOf, Moved
<1> QED
  BY <1>2, <1>3, <1>5, <1>6, <1>7 DEF HandoffIInv

------------------------------------------------------------------------------
(* The steps of a request. *)

\* Steps of the requests that leave goroutines, semaphore and cache alone.
LEMMA TasksAlone ==
  ASSUME HandoffIInv, UNCHANGED <<payload, task, description, semaphore, imageCache>>
  PROVE  SemaphoreCounts' /\ DescribesItsOwn' /\ CacheIsSound'
<1>1. SemaphoreCounts'
  BY DEF HandoffIInv, SemaphoreCounts, Holding
<1>2. DescribesItsOwn'
  BY DEF HandoffIInv, DescribesItsOwn, ImageOf
<1>3. CacheIsSound'
  BY DEF HandoffIInv, CacheIsSound, imageCache, Cached
<1> QED
  BY <1>1, <1>2, <1>3

LEMMA ReadLimitKeeps ==
  ASSUME HandoffIInv, NEW c \in Viewers, ReadLimit(c)
  PROVE  HandoffIInv'
<1> USE DEF ReadLimit, RequestAt, settings, imageCache
<1>1. SemaphoreCounts' /\ DescribesItsOwn' /\ CacheIsSound'
  BY TasksAlone
<1>2. HandoffTypeOK'
  BY HandoffAssumption DEF HandoffIInv, HandoffTypeOK
<1>3. \A d \in Viewers : d # c => request'[d] = request[d] /\ limit'[d] = limit[d]
  BY DEF HandoffIInv, HandoffTypeOK
<1>4. request[c] = "new" /\ request'[c] = "resolved"
  BY DEF HandoffIInv, HandoffTypeOK
<1>5. WholeUntilSent' /\ ReplacedWhenDone'
  BY <1>3, <1>4 DEF HandoffIInv, WholeUntilSent, ReplacedWhenDone
<1>6. LimitedToTheLatest'
  BY <1>3, <1>4 DEF HandoffIInv, LimitedToTheLatest, Oldest, Surplus
<1>7. StartedUpToTheLimit'
  BY <1>3, <1>4 DEF HandoffIInv, StartedUpToTheLimit
<1> QED
  BY <1>1, <1>2, <1>5, <1>6, <1>7 DEF HandoffIInv

LEMMA LimitImagesKeeps ==
  ASSUME HandoffIInv, NEW c \in Viewers, LimitImages(c)
  PROVE  HandoffIInv'
<1>1. SemaphoreCounts' /\ DescribesItsOwn' /\ CacheIsSound'
  BY TasksAlone DEF LimitImages
<1>2. CASE RequestAt(c, "resolved", "blind") /\ limit' = [limit EXCEPT ![c] = 0] /\ UNCHANGED parts
  <2> USE DEF RequestAt
  <2>1. UNCHANGED <<settings, payload, task, description, semaphore, imageCache>>
    BY DEF LimitImages
  <2>2. HandoffTypeOK'
    BY <1>2, <2>1 DEF HandoffIInv, HandoffTypeOK, settings, imageCache
  <2>3. \A d \in Viewers : d # c => request'[d] = request[d] /\ limit'[d] = limit[d]
    BY <1>2 DEF HandoffIInv, HandoffTypeOK
  <2>4. request[c] = "resolved" /\ request'[c] = "blind"
    BY <1>2 DEF HandoffIInv, HandoffTypeOK
  <2>5. WholeUntilSent' /\ ReplacedWhenDone'
    BY <1>2, <2>1, <2>3, <2>4 DEF HandoffIInv, WholeUntilSent, ReplacedWhenDone
  <2>6. LimitedToTheLatest'
    BY <1>2, <2>1, <2>3, <2>4 DEF HandoffIInv, LimitedToTheLatest, Oldest, Surplus
  <2>7. StartedUpToTheLimit'
    BY <2>1, <2>3, <2>4 DEF HandoffIInv, StartedUpToTheLimit
  <2> QED
    BY <1>1, <2>2, <2>5, <2>6, <2>7 DEF HandoffIInv
<1>3. ASSUME RequestAt(c, "resolved", "limited"), UNCHANGED limit, NEW S \in Oldest(c, Surplus(c)),
             parts' = [parts EXCEPT ![c] = [i \in DOMAIN @ |-> IF i \in S THEN Shared ELSE @[i]]]
      PROVE  HandoffIInv'
  <2> USE DEF RequestAt
  <2>1. UNCHANGED <<settings, payload, limit, task, description, semaphore, imageCache>>
    BY <1>3 DEF LimitImages
  <2>2. DOMAIN parts[c] = DOMAIN payload[c]
    BY DEF HandoffIInv, HandoffTypeOK
  <2>3. /\ DOMAIN parts' = Viewers
        /\ \A d \in Viewers : d # c => request'[d] = request[d] /\ parts'[d] = parts[d]
        /\ parts'[c] = [i \in DOMAIN payload[c] |-> IF i \in S THEN Shared ELSE parts[c][i]]
    BY <1>3, <2>2 DEF HandoffIInv, HandoffTypeOK
  <2>4. request[c] = "resolved" /\ request'[c] = "limited"
    BY <1>3 DEF HandoffIInv, HandoffTypeOK
  <2>5. HandoffTypeOK'
    <3>1. ASSUME NEW d \in Viewers
          PROVE  parts'[d] \in [DOMAIN payload[d] -> {Untouched, Shared, "described"}]
      <4>1. parts[d] \in [DOMAIN payload[d] -> {Untouched, Shared, "described"}]
        BY DEF HandoffIInv, HandoffTypeOK
      <4>2. CASE d = c
        BY <2>3, <4>1, <4>2
      <4> QED
        BY <2>3, <4>1, <4>2
    <3> QED
      BY <1>3, <2>1, <2>3, <3>1 DEF HandoffIInv, HandoffTypeOK, Sent, settings, imageCache
  <2>6. WholeUntilSent' /\ ReplacedWhenDone'
    BY <2>1, <2>3, <2>4 DEF HandoffIInv, WholeUntilSent, ReplacedWhenDone
  <2>7. LimitedToTheLatest'
    <3>1. \A d \in Viewers : Oldest(d, Surplus(d))' = Oldest(d, Surplus(d))
      BY <2>1 DEF Oldest, Surplus
    <3>2. \A i \in DOMAIN payload[c] : parts[c][i] = Untouched
      BY <2>4 DEF HandoffIInv, WholeUntilSent
    <3> QED
      BY <1>3, <2>1, <2>3, <2>4, <3>1, <3>2 DEF HandoffIInv, LimitedToTheLatest
  <2>8. StartedUpToTheLimit'
    BY <2>1, <2>3, <2>4 DEF HandoffIInv, StartedUpToTheLimit
  <2> QED
    BY <1>1, <2>5, <2>6, <2>7, <2>8 DEF HandoffIInv
<1> QED
  BY <1>2, <1>3 DEF LimitImages

\* The goroutines that start were none before.
LEMMA StartHandoffKeeps ==
  ASSUME HandoffIInv, NEW c \in Viewers, StartHandoff(c)
  PROVE  HandoffIInv'
<1> USE DEF RequestAt
<1>1. UNCHANGED <<settings, payload, parts, description, semaphore, imageCache>>
  BY DEF StartHandoff
<1>2. CASE RequestAt(c, "blind", "skipped") /\ UNCHANGED <<limit, task>>
  <2>1. SemaphoreCounts' /\ DescribesItsOwn' /\ CacheIsSound'
    BY <1>1, <1>2, TasksAlone
  <2>2. HandoffTypeOK'
    BY <1>1, <1>2 DEF HandoffIInv, HandoffTypeOK, Sent, settings, imageCache
  <2>3. \A d \in Viewers : d # c => request'[d] = request[d]
    BY <1>2 DEF HandoffIInv, HandoffTypeOK
  <2>4. request[c] = "blind" /\ request'[c] = "skipped"
    BY <1>2 DEF HandoffIInv, HandoffTypeOK
  <2>5. WholeUntilSent' /\ ReplacedWhenDone' /\ StartedUpToTheLimit'
    BY <1>1, <1>2, <2>3, <2>4
       DEF HandoffIInv, WholeUntilSent, ReplacedWhenDone, StartedUpToTheLimit
  <2>6. LimitedToTheLatest'
    BY <1>1, <1>2, <2>3, <2>4 DEF HandoffIInv, LimitedToTheLatest, Oldest, Surplus
  <2> QED
    BY <2>1, <2>2, <2>5, <2>6 DEF HandoffIInv
<1> DEFINE most == IF maxImages = 0 THEN FallbackLimit ELSE maxImages
           starts(t) == t[1] = c /\ t[2] \in DOMAIN payload[c] /\ t[2] <= most
<1>3. CASE /\ RequestAt(c, "blind", "describing")
           /\ limit' = [limit EXCEPT ![c] = most]
           /\ task' = [t \in Tasks |-> IF starts(t) THEN "waiting" ELSE task[t]]
  <2>1. most \in Nat
    BY HandoffAssumption DEF HandoffIInv, HandoffTypeOK
  <2>2. request[c] = "blind" /\ request'[c] = "describing" /\ limit'[c] = most
    BY <1>3 DEF HandoffIInv, HandoffTypeOK
  <2>3. \A d \in Viewers : d # c => request'[d] = request[d] /\ limit'[d] = limit[d]
    BY <1>3 DEF HandoffIInv, HandoffTypeOK
  <2>4. \A t \in Tasks : task'[t] = IF starts(t) THEN "waiting" ELSE task[t]
    BY <1>3
  <2>5. \A t \in Tasks : t[1] \in Viewers /\ t[2] \in Slots /\ t = <<t[1], t[2]>>
    BY DEF Tasks
  <2>6. \A t \in Tasks : t[1] = c => task[t] = "none"
    BY <2>2, <2>5 DEF HandoffIInv, StartedUpToTheLimit
  <2>7. HandoffTypeOK'
    <3>1. task' \in [Tasks -> {"none", "waiting", "look", "asked", "cache", "leave", "done"}]
      BY <1>3 DEF HandoffIInv, HandoffTypeOK, Tasks
    <3> HIDE DEF most, starts
    <3> QED
      BY <1>1, <1>3, <2>1, <3>1 DEF HandoffIInv, HandoffTypeOK, Tasks, settings, imageCache
  <2> HIDE DEF starts
  <2>8. SemaphoreCounts'
    <3>1. Holding' = Holding
      BY <2>4, <2>6 DEF Holding, starts
    <3> QED
      BY <1>1, <3>1 DEF HandoffIInv, SemaphoreCounts
  <2>9. DescribesItsOwn'
    BY <1>1, <2>4 DEF HandoffIInv, DescribesItsOwn, ImageOf
  <2>10. CacheIsSound'
    BY <1>1 DEF HandoffIInv, CacheIsSound, imageCache, Cached
  <2>11. WholeUntilSent'
    BY <1>1, <2>2, <2>3 DEF HandoffIInv, WholeUntilSent
  <2>12. LimitedToTheLatest'
    BY <1>1, <2>2, <2>3 DEF HandoffIInv, LimitedToTheLatest, Oldest, Surplus
  <2>13. \A d \in Viewers, i \in Slots : task'[<<d, i>>] =
            IF d = c /\ i \in DOMAIN payload[c] /\ i <= most THEN "waiting" ELSE task[<<d, i>>]
    BY <2>4 DEF Tasks, starts
  <2>14. StartedUpToTheLimit'
    <3> SUFFICES ASSUME NEW d \in Viewers, NEW i \in Slots
                 PROVE  task'[<<d, i>>] # "none" <=> /\ request'[d] \in {"describing", "described"}
                                                     /\ i \in DOMAIN payload'[d]
                                                     /\ i <= limit'[d]
      BY DEF StartedUpToTheLimit
    <3>1. task[<<d, i>>] # "none" <=> /\ request[d] \in {"describing", "described"}
                                      /\ i \in DOMAIN payload[d]
                                      /\ i <= limit[d]
      BY DEF HandoffIInv, StartedUpToTheLimit
    <3>2. CASE d = c
      BY <1>1, <2>2, <2>13, <3>1, <3>2
    <3>3. CASE d # c
      BY <1>1, <2>3, <2>13, <3>1, <3>3
    <3> QED
      BY <3>2, <3>3
  <2>15. ReplacedWhenDone'
    BY <1>1, <2>2, <2>3, <2>13 DEF HandoffIInv, ReplacedWhenDone
  <2> QED
    BY <2>7, <2>8, <2>9, <2>10, <2>11, <2>12, <2>14, <2>15 DEF HandoffIInv
<1> QED
  BY <1>2, <1>3 DEF StartHandoff, Tasks

LEMMA ReplaceKeeps ==
  ASSUME HandoffIInv, NEW c \in Viewers, Replace(c)
  PROVE  HandoffIInv'
<1>1. UNCHANGED <<settings, payload, limit, task, description, semaphore, imageCache>>
  BY DEF Replace
<1>2. SemaphoreCounts' /\ DescribesItsOwn' /\ CacheIsSound'
  BY <1>1, TasksAlone
<1>3. request[c] = "describing" /\ request'[c] = "described"
  BY DEF Replace, RequestAt, HandoffIInv, HandoffTypeOK
<1>4. DOMAIN parts[c] = DOMAIN payload[c] /\ DOMAIN payload[c] \subseteq Slots
  BY PayloadTyped DEF HandoffIInv, HandoffTypeOK
<1>5. /\ DOMAIN parts' = Viewers
      /\ \A d \in Viewers : d # c => request'[d] = request[d] /\ parts'[d] = parts[d]
      /\ parts'[c] = [i \in DOMAIN payload[c] |->
                        IF task[<<c, i>>] = "done" THEN "described" ELSE parts[c][i]]
  BY <1>4 DEF Replace, RequestAt, HandoffIInv, HandoffTypeOK
<1>6. \A i \in Slots : task[<<c, i>>] \in {"none", "done"}
  BY DEF Replace
<1>7. \A i \in DOMAIN payload[c] : task[<<c, i>>] = "done" <=> i <= limit[c]
  BY <1>3, <1>4, <1>6 DEF HandoffIInv, StartedUpToTheLimit
<1>8. HandoffTypeOK'
  <2>1. ASSUME NEW d \in Viewers
        PROVE  parts'[d] \in [DOMAIN payload[d] -> {Untouched, Shared, "described"}]
    <3>1. parts[d] \in [DOMAIN payload[d] -> {Untouched, Shared, "described"}]
      BY DEF HandoffIInv, HandoffTypeOK
    <3>2. CASE d = c
      BY <1>5, <3>1, <3>2
    <3> QED
      BY <1>5, <3>1, <3>2
  <2> QED
    BY <1>1, <1>5, <2>1
       DEF Replace, RequestAt, HandoffIInv, HandoffTypeOK, Sent, settings, imageCache
<1>9. WholeUntilSent'
  BY <1>1, <1>3, <1>5 DEF HandoffIInv, WholeUntilSent
<1>10. LimitedToTheLatest'
  BY <1>1, <1>3, <1>5 DEF HandoffIInv, LimitedToTheLatest, Oldest, Surplus
<1>11. StartedUpToTheLimit'
  BY <1>1, <1>3, <1>5 DEF HandoffIInv, StartedUpToTheLimit
<1>12. ReplacedWhenDone'
  <2>1. \A i \in DOMAIN payload[c] : parts[c][i] = Untouched
    BY <1>3 DEF HandoffIInv, WholeUntilSent
  <2> QED
    <3>1. ASSUME NEW i \in DOMAIN payload[c]
          PROVE  parts'[c][i] = IF i <= limit[c] THEN "described" ELSE Untouched
      BY <1>5, <1>7, <2>1
    <3>2. ASSUME NEW d \in Viewers, d # c, request'[d] = "described"
          PROVE  /\ \A i \in Slots : task'[<<d, i>>] \in {"none", "done"}
                 /\ \A i \in DOMAIN payload'[d] :
                      parts'[d][i] = IF i <= limit'[d] THEN "described" ELSE Untouched
      BY <1>1, <1>5, <3>2 DEF HandoffIInv, ReplacedWhenDone
    <3> QED
      BY <1>1, <1>6, <3>1, <3>2 DEF ReplacedWhenDone
<1> QED
  BY <1>2, <1>8, <1>9, <1>10, <1>11, <1>12 DEF HandoffIInv

LEMMA PostSettingsKeeps ==
  ASSUME HandoffIInv, PostSettings \/ UNCHANGED handoffVars
  PROVE  HandoffIInv'
<1>1. UNCHANGED <<requestVars, task, description, semaphore, imageCache>>
  BY DEF PostSettings, handoffVars, requestVars, imageCache
<1> USE <1>1 DEF requestVars
<1>2. SemaphoreCounts' /\ DescribesItsOwn' /\ CacheIsSound'
  BY TasksAlone
<1>3. maxImages' \in ImageLimits /\ cacheOn' \in BOOLEAN /\ handoffOn' \in BOOLEAN
  BY DEF HandoffIInv, HandoffTypeOK, PostSettings, handoffVars
<1>4. HandoffTypeOK'
  BY <1>3 DEF HandoffIInv, HandoffTypeOK, imageCache
<1>5. WholeUntilSent' /\ ReplacedWhenDone' /\ StartedUpToTheLimit'
  BY DEF HandoffIInv, WholeUntilSent, ReplacedWhenDone, StartedUpToTheLimit
<1>6. LimitedToTheLatest'
  BY DEF HandoffIInv, LimitedToTheLatest, Oldest, Surplus
<1> QED
  BY <1>2, <1>4, <1>5, <1>6 DEF HandoffIInv

------------------------------------------------------------------------------
(* The invariant, and what follows from it. *)

LEMMA HandoffStepKeeps ==
  ASSUME HandoffIInv, [HandoffNext]_handoffVars
  PROVE  HandoffIInv'
<1>1. ASSUME NEW c \in Viewers, HandOff(c) PROVE HandoffIInv'
  BY <1>1, ReadLimitKeeps, LimitImagesKeeps, StartHandoffKeeps, ReplaceKeeps DEF HandOff
<1>2. ASSUME NEW t \in Tasks, DescribeImage(t) PROVE HandoffIInv'
  BY <1>2, AcquireKeeps, HitKeeps, MissKeeps, DescribedKeeps, CacheDescriptionKeeps,
     ReleaseKeeps DEF DescribeImage
<1>3. CASE PostSettings \/ UNCHANGED handoffVars
  BY <1>3, PostSettingsKeeps
<1> QED
  BY <1>1, <1>2, <1>3 DEF HandoffNext, Tasks

\* The inductive invariant holds of the whole handoff.
THEOREM HandoffInvariant == HandoffSpec => []HandoffIInv
<1>1. HandoffIInv /\ [HandoffNext]_handoffVars => HandoffIInv'
  BY HandoffStepKeeps
<1> QED
  BY HandoffStarts, <1>1, PTL DEF HandoffSpec

\* Requests, goroutines, semaphore and cache keep their types.
THEOREM HandoffTypeCorrect == HandoffSpec => []HandoffTypeOK
<1>1. HandoffIInv => HandoffTypeOK
  BY DEF HandoffIInv
<1> QED
  BY HandoffInvariant, <1>1, PTL

\* The cache's list and map agree, and hold no failure and no more than its size.
THEOREM CacheStaysSound == HandoffSpec => []CacheIsSound
<1>1. HandoffIInv => CacheIsSound
  BY DEF HandoffIInv
<1> QED
  BY HandoffInvariant, <1>1, PTL

\* A set of images to go leaves as many as the limit.
LEMMA LeftAreTheLatest ==
  ASSUME HandoffTypeOK, NEW c \in Viewers, limit[c] # 0, NEW S \in Oldest(c, Surplus(c))
  PROVE  /\ Cardinality(DOMAIN payload[c] \ S) <= limit[c]
         /\ \A i \in DOMAIN payload[c] \ S : \A j \in S :
              payload[c][j].message <= payload[c][i].message
<1> DEFINE n == Len(payload[c])
           D == DOMAIN payload[c]
<1>1. n \in Nat /\ D = 1..n /\ limit[c] \in Nat
  BY PayloadTyped DEF HandoffTypeOK
<1>2. IsFiniteSet(D) /\ Cardinality(D) = n
  BY <1>1, FS_Interval
<1>3. /\ S \subseteq D /\ Cardinality(S) = Surplus(c)
      /\ \A i \in S : \A j \in D \ S : payload[c][i].message <= payload[c][j].message
  BY DEF Oldest
<1>4. IsFiniteSet(S)
  BY <1>2, <1>3, FS_Subset
<1>5. Cardinality(D \ S) = n - Surplus(c)
  <2>1. D \cap S = S
    BY <1>3
  <2>2. Cardinality(D \ S) = Cardinality(D) - Cardinality(D \cap S)
    BY <1>2, FS_Difference
  <2> HIDE DEF D, n
  <2> QED
    BY <1>2, <1>3, <2>1, <2>2
<1>6. n - Surplus(c) <= limit[c]
  BY <1>1 DEF Surplus
<1> QED
  BY <1>3, <1>5, <1>6

LEMMA SentAsLimited ==
  ASSUME HandoffIInv, NEW c \in Viewers, request[c] = "limited", limit[c] # 0
  PROVE  LET left == {i \in DOMAIN parts[c] : parts[c][i] = Untouched}
         IN  /\ Cardinality(left) <= limit[c]
             /\ \A i \in left : \A j \in DOMAIN parts[c] \ left :
                  payload[c][j].message <= payload[c][i].message
<1> DEFINE left == {i \in DOMAIN parts[c] : parts[c][i] = Untouched}
<1>1. PICK S \in Oldest(c, Surplus(c)) :
        \A i \in DOMAIN payload[c] : parts[c][i] = IF i \in S THEN Shared ELSE Untouched
  BY DEF HandoffIInv, LimitedToTheLatest
<1>2. DOMAIN parts[c] = DOMAIN payload[c]
  BY DEF HandoffIInv, HandoffTypeOK
<1>3. S \subseteq DOMAIN payload[c]
  BY DEF Oldest
<1>4. left = DOMAIN payload[c] \ S /\ DOMAIN parts[c] \ left = S
  BY <1>1, <1>2, <1>3 DEF Shared, Untouched
<1> QED
  BY <1>4, LeftAreTheLatest DEF HandoffIInv

LEMMA SentAsDescribed ==
  ASSUME HandoffIInv, NEW c \in Viewers, request[c] = "described"
  PROVE  LET left == {i \in DOMAIN parts[c] : parts[c][i] = Untouched}
         IN  \A i \in DOMAIN parts[c] :
               /\ i <= limit[c] => i \notin left
               /\ i \notin left => description[<<c, i>>].of = payload[c][i].image
<1> DEFINE left == {i \in DOMAIN parts[c] : parts[c][i] = Untouched}
<1>1. /\ DOMAIN parts[c] = DOMAIN payload[c] /\ limit[c] \in Nat
      /\ DOMAIN payload[c] \subseteq Slots /\ DOMAIN payload[c] \subseteq Nat
  BY PayloadTyped DEF HandoffIInv, HandoffTypeOK
<1>2. \A i \in DOMAIN payload[c] : parts[c][i] = IF i <= limit[c] THEN "described" ELSE Untouched
  BY DEF HandoffIInv, ReplacedWhenDone
<1>3. left = {i \in DOMAIN parts[c] : i > limit[c]}
  BY <1>1, <1>2 DEF Untouched
<1>4. ASSUME NEW i \in DOMAIN parts[c] \ left PROVE description[<<c, i>>].of = payload[c][i].image
  <2>1. <<c, i>> \in Tasks /\ i <= limit[c] /\ i \in DOMAIN payload[c] /\ i \in Slots
    BY <1>1, <1>3 DEF Tasks
  <2>2. task[<<c, i>>] = "done"
    BY <2>1 DEF HandoffIInv, StartedUpToTheLimit, ReplacedWhenDone
  <2>3. description[<<c, i>>] \in Texts(payload[c][i].image)
    BY <2>1, <2>2 DEF HandoffIInv, DescribesItsOwn, ImageOf
  <2> QED
    BY <2>3 DEF Texts
<1> QED
  BY <1>1, <1>3, <1>4

\* Without a handoff the latest images are left, up to the limit; with one each of
\* the first images up to the limit became a text about itself.
THEOREM ImagesAreReplacedRight == HandoffSpec => []ImagesAreReplaced
<1>1. HandoffIInv => ImagesAreReplaced
  BY SentAsLimited, SentAsDescribed DEF ImagesAreReplaced
<1> QED
  BY HandoffInvariant, <1>1, PTL
================================================================================
