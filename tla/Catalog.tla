-------------------------------- MODULE Catalog --------------------------------
(***************************************************************************)
(* The model catalog: GetCatalogData with its singleflight group and its   *)
(* cache, ValidateApiKey, which fetches the same document on its own, and  *)
(* ApplyCatalogData, with which both replace the model map.                *)
(*                                                                         *)
(* Grain.  One action is one critical section of the group's mutex, p.mu   *)
(* or catalogMu, or one call of the upstream.  The document is its version *)
(* number.  The two reads of the cache before a fetch are one: only the    *)
(* leader of the group writes the cache.                                   *)
(***************************************************************************)
EXTENDS Integers, FiniteSets

CONSTANTS
  Callers,          \* callers of GetCatalogData
  Validators,       \* callers of ValidateApiKey
  MaxCatalog        \* bound on the versions the upstream publishes

ASSUME CatalogAssumption ==
  /\ Callers \cap Validators = {}
  /\ MaxCatalog \in Nat \ {0}

VARIABLES
  published,        \* the version the upstream would answer now
  catalogCache,     \* {} or the cached version, NoData after a failure
  catalogYoung,     \* it is within its TTL
  modelMap,         \* the version of ModelInfoMap and DisplayNameMap
  flight,           \* the group has a call
  leading,          \* {} or the value of that call, once it is done
  getter,           \* program counter of each caller and validator
  result,           \* the version it has, or Failed
  floor,            \* history: the version cached when it asked
  before            \* history: the model map when its fetch began

catalogVars == <<published, catalogCache, catalogYoung, modelMap, flight, leading,
                 getter, result, floor, before>>

NoData == 0
Failed == -1
Published == 1..MaxCatalog
Getters == Callers \cup Validators

CatalogTypeOK ==
  /\ published \in Published
  /\ catalogCache \subseteq Published \cup {NoData} /\ Cardinality(catalogCache) <= 1
  /\ catalogYoung \in BOOLEAN
  /\ modelMap \in Published \cup {NoData}
  /\ flight \in BOOLEAN
  /\ leading \subseteq Published \cup {NoData, Failed} /\ Cardinality(leading) <= 1
  /\ getter \in [Getters -> {"idle", "look", "asked", "store", "failed", "apply", "finish",
                             "delete", "wait", "return"}]
  /\ result \in [Getters -> Published \cup {NoData, Failed}]
  /\ floor \in [Getters -> Published \cup {NoData}]
  /\ before \in [Getters -> Published \cup {NoData}]

CatalogInit ==
  /\ published = 1
  /\ catalogCache = {}
  /\ catalogYoung = FALSE
  /\ modelMap = NoData
  /\ flight = FALSE
  /\ leading = {}
  /\ getter = [g \in Getters |-> "idle"]
  /\ result = [g \in Getters |-> NoData]
  /\ floor = [g \in Getters |-> NoData]
  /\ before = [g \in Getters |-> NoData]

GetterAt(g, from, to) ==
  /\ getter[g] = from
  /\ getter' = [getter EXCEPT ![g] = to]

\* Return, and the locals are gone.
Return(g, from) ==
  /\ GetterAt(g, from, "idle")
  /\ result' = [result EXCEPT ![g] = NoData]
  /\ floor' = [floor EXCEPT ![g] = NoData]
  /\ before' = [before EXCEPT ![g] = NoData]

CachedVersion == IF catalogCache = {} THEN NoData ELSE CHOOSE v \in catalogCache : TRUE

caches == <<catalogCache, catalogYoung>>

------------------------------------------------------------------------------
(* catalogSingleflight.Do. *)

\* The first one leads; the others wait for its value, and the late ones, between
\* the end of the call and its removal, take the value at once.
Join(c) ==
  /\ floor' = [floor EXCEPT ![c] = CachedVersion]
  /\ \/ ~flight /\ GetterAt(c, "idle", "look") /\ UNCHANGED result
     \/ flight /\ leading = {} /\ GetterAt(c, "idle", "wait") /\ UNCHANGED result
     \/ \E v \in leading : /\ GetterAt(c, "idle", "return")
                           /\ result' = [result EXCEPT ![c] = v]
  /\ flight' = TRUE
  /\ UNCHANGED <<published, caches, modelMap, leading, before>>

\* wg.Done wakes everyone who waits.
Finish(c) ==
  LET woken == {d \in Callers : getter[d] = "wait"}
  IN  /\ getter[c] = "finish"
      /\ getter' = [g \in Getters |-> IF g = c THEN "delete"
                                      ELSE IF g \in woken THEN "return" ELSE getter[g]]
      /\ result' = [g \in Getters |-> IF g \in woken THEN result[c] ELSE result[g]]
      /\ leading' = {result[c]}
      /\ UNCHANGED <<published, caches, modelMap, flight, floor, before>>

Delete(c) ==
  /\ GetterAt(c, "delete", "return")
  /\ flight' = FALSE
  /\ leading' = {}
  /\ UNCHANGED <<published, caches, modelMap, result, floor, before>>

------------------------------------------------------------------------------
(* The call of GetCatalogData. *)

\* A failure is cached like a version, and young it is a hit like one.
LookUp(c) ==
  /\ \/ /\ catalogYoung
        /\ GetterAt(c, "look", "finish")
        /\ result' = [result EXCEPT ![c] = CachedVersion]
        /\ UNCHANGED before
     \/ /\ ~catalogYoung
        /\ GetterAt(c, "look", "asked")
        /\ before' = [before EXCEPT ![c] = modelMap]
        /\ UNCHANGED result
  /\ UNCHANGED <<published, caches, modelMap, flight, leading, floor>>

FetchModelCatalog(g) ==
  /\ \/ GetterAt(g, "asked", "store") /\ result' = [result EXCEPT ![g] = published]
     \/ GetterAt(g, "asked", "failed") /\ result' = [result EXCEPT ![g] = Failed]
  /\ UNCHANGED <<published, caches, modelMap, flight, leading, floor, before>>

StoreCatalog(c) ==
  /\ GetterAt(c, "store", "apply")
  /\ catalogCache' = {result[c]}
  /\ catalogYoung' = TRUE
  /\ UNCHANGED <<published, modelMap, flight, leading, result, floor, before>>

\* A mutant: a failure does not fall back to the stale version.
FetchFailedCold(c) ==
  /\ GetterAt(c, "failed", "finish")
  /\ catalogCache' = {NoData} /\ catalogYoung' = TRUE
  /\ UNCHANGED <<published, modelMap, flight, leading, result, floor, before>>

\* A mutant: the stale version is applied again.
FetchFailedReapplies(c) ==
  /\ IF catalogCache = {}
     THEN GetterAt(c, "failed", "finish") /\ UNCHANGED result
     ELSE GetterAt(c, "failed", "apply") /\ result' = [result EXCEPT ![c] = CachedVersion]
  /\ UNCHANGED <<published, caches, modelMap, flight, leading, floor, before>>

\* The stale version stays as old as it is; without one the failure is cached.
FetchFailed(c) ==
  /\ GetterAt(c, "failed", "finish")
  /\ IF catalogCache = {}
     THEN catalogCache' = {NoData} /\ catalogYoung' = TRUE /\ UNCHANGED result
     ELSE result' = [result EXCEPT ![c] = CachedVersion] /\ UNCHANGED <<catalogCache, catalogYoung>>
  /\ UNCHANGED <<published, modelMap, flight, leading, floor, before>>

ApplyCatalogData(g, to) ==
  /\ GetterAt(g, "apply", to)
  /\ modelMap' = result[g]
  /\ before' = [before EXCEPT ![g] = NoData]
  /\ UNCHANGED <<published, caches, flight, leading, result, floor>>

ReturnCatalog(c) ==
  /\ Return(c, "return")
  /\ UNCHANGED <<published, caches, modelMap, flight, leading>>

GetCatalogData(c) ==
  \/ Join(c) \/ LookUp(c) \/ FetchModelCatalog(c) \/ StoreCatalog(c) \/ FetchFailed(c)
  \/ ApplyCatalogData(c, "finish") \/ Finish(c) \/ Delete(c) \/ ReturnCatalog(c)

------------------------------------------------------------------------------
\* ValidateApiKey: no group, and a failure is not cached.  A look at UserInfoCache
\* that finds it young changes nothing; it may be old at any time.
ValidateApiKey(v) ==
  \/ /\ GetterAt(v, "idle", "asked")
     /\ before' = [before EXCEPT ![v] = modelMap]
     /\ UNCHANGED <<published, caches, modelMap, flight, leading, result, floor>>
  \/ FetchModelCatalog(v)
  \/ /\ GetterAt(v, "store", "apply")
     /\ UNCHANGED <<published, caches, modelMap, flight, leading, result, floor, before>>
  \/ ApplyCatalogData(v, "return")
  \/ /\ Return(v, "return") \/ Return(v, "failed")
     /\ UNCHANGED <<published, caches, modelMap, flight, leading>>

CatalogAges ==
  /\ catalogYoung
  /\ catalogYoung' = FALSE
  /\ UNCHANGED <<published, catalogCache, modelMap, flight, leading, getter, result, floor, before>>

PublishCatalog(version) ==
  /\ version = published + 1
  /\ published' = version
  /\ UNCHANGED <<caches, modelMap, flight, leading, getter, result, floor, before>>

CatalogNext ==
  \/ \E c \in Callers : GetCatalogData(c)
  \/ \E v \in Validators : ValidateApiKey(v)
  \/ CatalogAges
  \/ \E version \in Published : PublishCatalog(version)

CatalogSpec == CatalogInit /\ [][CatalogNext]_catalogVars

------------------------------------------------------------------------------
\* Whoever led the call, and whether it failed or not, nobody is given a version
\* older than the one that was cached when it asked, or nothing where there was
\* something.
NeverOlderThanCached ==
  \A c \in Callers : getter[c] = "return" =>
    IF result[c] = Failed THEN floor[c] = NoData
    ELSE result[c] >= floor[c]

\* Callers and validators replace the model map in any order.  It can go back to
\* an older version, but not to one older than what was in place when the one
\* that replaces it started.
ModelsGoBackOnlyByOverlap ==
  [][modelMap' # modelMap =>
       \E g \in Getters : /\ getter[g] = "apply" /\ getter'[g] # "apply"
                          /\ modelMap' >= before[g]
                          /\ modelMap' # NoData]_catalogVars
==============================================================================
