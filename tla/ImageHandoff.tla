---------------------------- MODULE ImageHandoff ----------------------------
(***************************************************************************)
(* The images of a request.  For a model that can see them the oldest are  *)
(* replaced down to MaxImages (LimitImagesInMessages).  For one that       *)
(* cannot PerformVisionHandoff has them described, up to MaxImages of      *)
(* them, each by a goroutine of its own under the semaphore all requests   *)
(* share, and ImageHandoffCache keeps the descriptions.                    *)
(*                                                                         *)
(* Grain.  One action is one critical section of the configuration or of   *)
(* the cache, one operation on the semaphore, or one call of the upstream. *)
(* A payload is its images in the order of the walk, each with the index   *)
(* of its message.  The context of a queued request is never cancelled, so *)
(* the branches for a cancelled one are not modelled.                      *)
(***************************************************************************)
EXTENDS Integers, Sequences, FiniteSets, SequencesExt, Functions

CONSTANTS
  Viewers,            \* the requests
  Images,
  Payloads,           \* what they may carry
  ImageLimits,        \* the values of MaxImages
  FallbackLimit,      \* what the handoff takes for an unset limit
  SemSize, CacheSize

ASSUME HandoffAssumption ==
  /\ Payloads \subseteq Seq([image : Images, message : Nat])
  /\ ImageLimits \subseteq Nat
  /\ FallbackLimit \in Nat \ {0}
  /\ SemSize \in Nat \ {0}
  /\ CacheSize \in Nat

VARIABLES
  maxImages, cacheOn, \* the configuration
  handoffOn,          \* NeedsVisionHandoff: the setting, and the model's entry
  request,            \* program counter of each request
  payload,            \* the images it came with
  parts,              \* what has become of each
  limit,              \* MaxImages as the request read it last
  task,               \* program counter of each image's goroutine
  description,        \* what it brings
  semaphore,          \* how many goroutines hold visionHandoffSem
  cacheList,          \* lru: the cached images, the most recently used first
  cacheEntries        \* lookup: their descriptions

handoffVars == <<maxImages, cacheOn, handoffOn, request, payload, parts, limit, task,
                 description, semaphore, cacheList, cacheEntries>>
settings == <<maxImages, cacheOn, handoffOn>>
imageCache == <<cacheList, cacheEntries>>
requestVars == <<request, payload, parts, limit>>

NoText == [of |-> "nothing", text |-> "none"]
Texts(image) == {[of |-> image, text |-> t] : t \in {"whole", "partial", "failed"}}
Descriptions == UNION {Texts(i) : i \in Images}
Slots == UNION {DOMAIN images : images \in Payloads}
Untouched == "image"
Shared == "previously shared"

\* The three ways on to the upstream: limited, described, or neither because the
\* handoff was switched off after it had been decided on.
Sent == {"limited", "described", "skipped"}

HandoffTypeOK ==
  /\ maxImages \in ImageLimits
  /\ cacheOn \in BOOLEAN
  /\ handoffOn \in BOOLEAN
  /\ request \in [Viewers -> {"new", "resolved", "blind", "describing"} \cup Sent]
  /\ payload \in [Viewers -> Payloads]
  /\ DOMAIN parts = Viewers
  /\ \A c \in Viewers : parts[c] \in [DOMAIN payload[c] -> {Untouched, Shared, "described"}]
  /\ limit \in [Viewers -> Nat]
  /\ task \in [Viewers \X Slots -> {"none", "waiting", "look", "asked", "cache", "leave",
                                  "done"}]
  /\ description \in [Viewers \X Slots -> Descriptions \cup {NoText}]
  /\ semaphore \in 0..SemSize
  /\ cacheList \in Seq(Images)
  /\ DOMAIN cacheEntries \subseteq Images

HandoffInit ==
  /\ maxImages \in ImageLimits
  /\ cacheOn \in BOOLEAN
  /\ handoffOn \in BOOLEAN
  /\ request = [c \in Viewers |-> "new"]
  /\ payload \in [Viewers -> Payloads]
  /\ parts = [c \in Viewers |-> [i \in DOMAIN payload[c] |-> Untouched]]
  /\ limit = [c \in Viewers |-> 0]
  /\ task = [t \in Viewers \X Slots |-> "none"]
  /\ description = [t \in Viewers \X Slots |-> NoText]
  /\ semaphore = 0
  /\ cacheList = << >>
  /\ cacheEntries = << >>

RequestAt(c, from, to) ==
  /\ request[c] = from
  /\ request' = [request EXCEPT ![c] = to]

------------------------------------------------------------------------------
\* The snapshot of the configuration at the start of a dispatched request.
ReadLimit(c) ==
  /\ RequestAt(c, "new", "resolved")
  /\ limit' = [limit EXCEPT ![c] = maxImages]
  /\ UNCHANGED <<settings, payload, parts, task, description, semaphore, imageCache>>

\* A mutant: one image too many stays.
SurplusLessOne(c) ==
  LET n == Len(payload[c])
  IN  IF limit[c] = 0 \/ n <= limit[c] THEN 0 ELSE n - limit[c] - 1

\* LimitImagesInMessages: the surplus goes, the oldest messages first; which
\* images of one message go is up to a sort that is not stable.
Surplus(c) ==
  LET n == Len(payload[c])
  IN  IF limit[c] = 0 \/ n <= limit[c] THEN 0 ELSE n - limit[c]

Oldest(c, n) ==
  {S \in SUBSET DOMAIN payload[c] :
     /\ Cardinality(S) = n
     /\ \A i \in S : \A j \in DOMAIN payload[c] \ S :
          payload[c][i].message <= payload[c][j].message}

\* The request asks whether it needs a handoff, and limits its images if not.
LimitImages(c) ==
  /\ \/ /\ handoffOn
        /\ RequestAt(c, "resolved", "blind")
        /\ limit' = [limit EXCEPT ![c] = 0]
        /\ UNCHANGED parts
     \/ /\ ~handoffOn
        /\ RequestAt(c, "resolved", "limited")
        /\ \E S \in Oldest(c, Surplus(c)) :
             parts' = [parts EXCEPT ![c] = [i \in DOMAIN @ |-> IF i \in S THEN Shared ELSE @[i]]]
        /\ UNCHANGED limit
  /\ UNCHANGED <<settings, payload, task, description, semaphore, imageCache>>

\* PerformVisionHandoff asks once more, collects the images and cuts them at
\* MaxImages as it is now: the images beyond are left as they are.
StartHandoff(c) ==
  LET most == IF maxImages = 0 THEN FallbackLimit ELSE maxImages
  IN  /\ \/ /\ handoffOn
            /\ RequestAt(c, "blind", "describing")
            /\ limit' = [limit EXCEPT ![c] = most]
            /\ task' = [t \in Viewers \X Slots |->
                          IF t[1] = c /\ t[2] \in DOMAIN payload[c] /\ t[2] <= most
                          THEN "waiting" ELSE task[t]]
         \/ /\ ~handoffOn
            /\ RequestAt(c, "blind", "skipped")
            /\ UNCHANGED <<limit, task>>
      /\ UNCHANGED <<settings, payload, parts, description, semaphore, imageCache>>

\* wg.Wait, and the replacement of the described images.
Replace(c) ==
  /\ RequestAt(c, "describing", "described")
  /\ \A i \in Slots : task[<<c, i>>] \in {"none", "done"}
  /\ parts' = [parts EXCEPT ![c] = [i \in DOMAIN @ |->
                 IF task[<<c, i>>] = "done" THEN "described" ELSE @[i]]]
  /\ UNCHANGED <<settings, payload, limit, task, description, semaphore, imageCache>>

------------------------------------------------------------------------------
(* One image: the goroutine of PerformVisionHandoff and its call of           *)
(* analyzeImageViaHandoff.                                                    *)

ImageOf(t) == payload[t[1]][t[2]].image

TaskAt(t, from, to) ==
  /\ task[t] = from
  /\ task' = [task EXCEPT ![t] = to]
  /\ UNCHANGED <<settings, requestVars>>

\* A mutant: the semaphore has no size.
AcquireUnbounded(t) ==
  /\ TaskAt(t, "waiting", "look")
  /\ semaphore' = semaphore + 1
  /\ UNCHANGED <<description, imageCache>>

Acquire(t) ==
  /\ TaskAt(t, "waiting", "look")
  /\ semaphore < SemSize
  /\ semaphore' = semaphore + 1
  /\ UNCHANGED <<description, imageCache>>

Cached == DOMAIN cacheEntries
Unlinked(image) ==
  RemoveAt(cacheList, CHOOSE i \in DOMAIN cacheList : cacheList[i] = image)

\* ImageHandoffCache.Get: a hit moves to the front, an entry past its TTL goes.
Hit(t) ==
  LET image == ImageOf(t)
  IN  /\ cacheOn
      /\ TaskAt(t, "look", "leave")
      /\ image \in Cached
      /\ description' = [description EXCEPT ![t] = cacheEntries[image]]
      /\ cacheList' = <<image>> \o Unlinked(image)
      /\ UNCHANGED <<semaphore, cacheEntries>>

Miss(t) ==
  LET image == ImageOf(t)
  IN  /\ TaskAt(t, "look", "asked")
      /\ \/ ~(cacheOn /\ image \in Cached) /\ UNCHANGED imageCache
         \/ /\ cacheOn /\ image \in Cached
            /\ cacheList' = Unlinked(image)
            /\ cacheEntries' = [i \in Cached \ {image} |-> cacheEntries[i]]
      /\ UNCHANGED <<description, semaphore>>

\* A mutant: a failure is cached like a description.
DescribedAnyhow(t) ==
  /\ task[t] = "asked"
  /\ \E d \in Texts(ImageOf(t)) :
    /\ TaskAt(t, "asked", "cache")
    /\ description' = [description EXCEPT ![t] = d]
  /\ UNCHANGED <<semaphore, imageCache>>

\* A mutant: a failure returns without giving the semaphore back.
DescribedLeaking(t) ==
  /\ task[t] = "asked"
  /\ \E d \in Texts(ImageOf(t)) :
    /\ TaskAt(t, "asked", IF d.text = "failed" THEN "done" ELSE "cache")
    /\ description' = [description EXCEPT ![t] = d]
  /\ UNCHANGED <<semaphore, imageCache>>

\* The stream of the vision model.  One that ends early is taken for whole, only
\* an error while it is read, an error status and an empty text are failures.
Described(t) ==
  /\ task[t] = "asked"
  /\ \E d \in Texts(ImageOf(t)) :
    /\ TaskAt(t, "asked", IF d.text = "failed" THEN "leave" ELSE "cache")
    /\ description' = [description EXCEPT ![t] = d]
  /\ UNCHANGED <<semaphore, imageCache>>

\* ImageHandoffCache.Set: an entry that is there is overwritten; a new one goes in
\* front, and the one at the back out when there are too many.
Overwrite(image, text) ==
  /\ image \in Cached
  /\ cacheList' = <<image>> \o Unlinked(image)
  /\ cacheEntries' = [cacheEntries EXCEPT ![image] = text]

Insert(image, text) ==
  LET pushed == <<image>> \o cacheList
      full   == Len(pushed) > CacheSize
  IN  /\ image \notin Cached
      /\ cacheList' = IF full THEN Front(pushed) ELSE pushed
      /\ cacheEntries' = [i \in (Cached \cup {image}) \ (IF full THEN {Last(pushed)} ELSE {}) |->
                            IF i = image THEN text ELSE cacheEntries[i]]

CacheDescription(t) ==
  /\ TaskAt(t, "cache", "leave")
  /\ IF cacheOn THEN \/ Overwrite(ImageOf(t), description[t])
                     \/ Insert(ImageOf(t), description[t])
     ELSE UNCHANGED imageCache
  /\ UNCHANGED <<description, semaphore>>

Release(t) ==
  /\ TaskAt(t, "leave", "done")
  /\ semaphore' = semaphore - 1
  /\ UNCHANGED <<description, imageCache>>

DescribeImage(t) ==
  Acquire(t) \/ Hit(t) \/ Miss(t) \/ Described(t) \/ CacheDescription(t) \/ Release(t)

HandOff(c) == ReadLimit(c) \/ LimitImages(c) \/ StartHandoff(c) \/ Replace(c)

\* HandleConfigPost, the fields that concern the handoff.  A new catalog changes
\* handoffOn too.
PostSettings ==
  /\ \/ maxImages' \in ImageLimits \ {maxImages} /\ UNCHANGED <<cacheOn, handoffOn>>
     \/ cacheOn' = ~cacheOn /\ UNCHANGED <<maxImages, handoffOn>>
     \/ handoffOn' = ~handoffOn /\ UNCHANGED <<maxImages, cacheOn>>
  /\ UNCHANGED <<requestVars, task, description, semaphore, imageCache>>

HandoffNext ==
  \/ \E c \in Viewers : HandOff(c)
  \/ \E t \in Viewers \X Slots : DescribeImage(t)
  \/ PostSettings

HandoffFairness ==
  /\ \A c \in Viewers : WF_handoffVars(HandOff(c))
  /\ \A t \in Viewers \X Slots : WF_handoffVars(DescribeImage(t))

HandoffSpec == HandoffInit /\ [][HandoffNext]_handoffVars
HandoffFairSpec == HandoffSpec /\ HandoffFairness

------------------------------------------------------------------------------
\* What goes to the model.  Without a handoff no more images than the limit are
\* left, and none that is older than one that was replaced.  With one, each of the
\* first images up to the limit became a text about that image and no other,
\* whatever the goroutines, the cache and the settings do meanwhile.  It does not
\* say that the request is then text-only, which src/README.md promises (line 317):
\* the code leaves images beyond the limit in it.
ImagesAreReplaced ==
  \A c \in Viewers : LET left == {i \in DOMAIN parts[c] : parts[c][i] = Untouched} IN
    /\ request[c] = "limited" /\ limit[c] # 0 =>
         /\ Cardinality(left) <= limit[c]
         /\ \A i \in left : \A j \in DOMAIN parts[c] \ left :
              payload[c][j].message <= payload[c][i].message
    /\ request[c] = "described" => \A i \in DOMAIN parts[c] :
         /\ i <= limit[c] => i \notin left
         /\ i \notin left => description[<<c, i>>].of = payload[c][i].image

\* Whatever goroutines describe the same image at once: the cache's list and its
\* map hold the same images, each once and not more than the cache's size, and
\* each entry is a description of its own image, none of them a failure.
CacheIsSound ==
  /\ Len(cacheList) <= CacheSize
  /\ IsInjective(cacheList)
  /\ ToSet(cacheList) = Cached
  /\ \A image \in Cached : cacheEntries[image] \in Texts(image)
                          /\ cacheEntries[image].text # "failed"

\* A request that waits for its descriptions gets to the end: every way out of
\* the goroutine gives the semaphore back.
HandoffEnds == \A c \in Viewers : request[c] = "describing" ~> request[c] = "described"
==============================================================================
