------------------------------ MODULE UsageCaches ------------------------------
(***************************************************************************)
(* The caches the dashboard reads through: usage, usage history, status,   *)
(* status history, and the models of the upstream with their prices.  Each *)
(* keeps one answer and the time it came.                                  *)
(* They share the steps: look, ask the upstream, store, or fall back to    *)
(* what is cached, however old; and they differ in what they compare and   *)
(* in what a failure gives.  FetchUsage also resets the throttle count     *)
(* when the usage window changes.                                          *)
(*                                                                         *)
(* Grain.  One action is one critical section of p.mu or queueMu, or one   *)
(* call of the upstream.  The endpoints share nothing with each other, so  *)
(* a behaviour is about one of them.                                       *)
(***************************************************************************)
EXTENDS Integers, FiniteSets

CONSTANTS
  Readers,
  Keys,             \* the parameters of a history request, digested
  MaxWindow,        \* bound on the usage windows the upstream opens
  MaxThrottled      \* bound on throttled requests

ASSUME UsageAssumption ==
  /\ IsFiniteSet(Readers)
  /\ MaxWindow \in Nat \ {0}
  /\ MaxThrottled \in Nat

Endpoints == {"usage", "usage history", "status", "status history",
              "models"}
NoKey == "no key"
NoWindow == 0
Answers == [key : Keys \cup {NoKey}, window : 1..MaxWindow]

VARIABLES
  endpoint,         \* which cache this is
  req,              \* program counter of each request
  key,              \* its parameters
  answer,           \* {} or the data it has
  oldWindow,        \* its snapshot of ThrottledWindow
  cache,            \* {} or the cached answer
  young,            \* the cached answer is within its TTL
  window,           \* the upstream's usage window
  throttledCount, throttledWindow,
  overlap           \* history: two fetches have been under way at once

usageVars == <<endpoint, req, key, answer, oldWindow, cache, young, window,
               throttledCount, throttledWindow, overlap>>
throttleVars == <<throttledCount, throttledWindow>>

Keyed == endpoint \in {"usage history", "status history"}
Ended == {"served", "fallback"}

UsageTypeOK ==
  /\ endpoint \in Endpoints
  /\ req \in [Readers -> {"new", "asked", "replied", "compare", "store"} \cup Ended]
  /\ key \in [Readers -> Keys \cup {NoKey}]
  /\ \A r \in Readers : answer[r] \subseteq Answers /\ Cardinality(answer[r]) <= 1
  /\ oldWindow \in [Readers -> 0..MaxWindow]
  /\ cache \subseteq Answers /\ Cardinality(cache) <= 1
  /\ young \in BOOLEAN
  /\ window \in 1..MaxWindow
  /\ throttledCount \in 0..MaxThrottled
  /\ throttledWindow \in 0..MaxWindow
  /\ overlap \in BOOLEAN

UsageInit ==
  /\ endpoint \in Endpoints
  /\ req = [r \in Readers |-> "new"]
  /\ key \in IF Keyed THEN [Readers -> Keys] ELSE [Readers -> {NoKey}]
  /\ answer = [r \in Readers |-> {}]
  /\ oldWindow = [r \in Readers |-> NoWindow]
  /\ cache = {}
  /\ young = FALSE
  /\ window = 1
  /\ throttledCount = 0
  /\ throttledWindow = NoWindow
  /\ overlap = FALSE

Fetching == {r \in Readers : req[r] \notin {"new"} \cup Ended}

ReqAt(r, from, to) ==
  /\ req[r] = from
  /\ req' = [req EXCEPT ![r] = to]
  /\ overlap' = (overlap \/ Cardinality(Fetching') > 1)
  /\ UNCHANGED <<endpoint, key, window>>

\* A mutant: the parameters are not compared.
UseAnyCached(r) ==
  \E a \in cache :
    /\ ReqAt(r, "new", "served")
    /\ young
    /\ answer' = [answer EXCEPT ![r] = {a}]
    /\ UNCHANGED <<oldWindow, cache, young, throttleVars>>

\* The look at the cache, unless the request says fresh=1.
UseCached(r) ==
  \E a \in cache :
    /\ ReqAt(r, "new", "served")
    /\ young
    /\ a.key = key[r]
    /\ answer' = [answer EXCEPT ![r] = {a}]
    /\ UNCHANGED <<oldWindow, cache, young, throttleVars>>

AskUpstream(r) ==
  /\ ReqAt(r, "new", "asked")
  /\ UNCHANGED <<answer, oldWindow, cache, young, throttleVars>>

Replied(r) ==
  /\ ReqAt(r, "asked", IF endpoint = "usage" THEN "replied" ELSE "store")
  /\ answer' = [answer EXCEPT ![r] = {[key |-> key[r], window |-> window]}]
  /\ UNCHANGED <<oldWindow, cache, young, throttleVars>>

\* A failed call gives what is cached, for whatever parameters, or nothing; the
\* models give an error.
OnFailure == IF endpoint = "models" THEN {} ELSE cache

\* An answer that does not parse gives the same, but for a status history, which
\* is empty then.
OnGarbage == IF endpoint = "status history" THEN {} ELSE OnFailure

AskFailed(r) ==
  /\ ReqAt(r, "asked", "fallback")
  /\ answer' = [answer EXCEPT ![r] = OnFailure]
  /\ UNCHANGED <<oldWindow, cache, young, throttleVars>>

\* A status is passed on without being parsed.
ParseFailed(r) ==
  /\ ReqAt(r, "asked", "fallback")
  /\ endpoint # "status"
  /\ answer' = [answer EXCEPT ![r] = OnGarbage]
  /\ UNCHANGED <<oldWindow, cache, young, throttleVars>>

\* ThrottledWindow is read under one lock, compared, and replaced under another.
ReadWindow(r) ==
  /\ ReqAt(r, "replied", "compare")
  /\ oldWindow' = [oldWindow EXCEPT ![r] = throttledWindow]
  /\ UNCHANGED <<answer, cache, young, throttleVars>>

\* A mutant: the count is reset and the window is not stored.
ResetCountOnly(r) ==
  /\ ReqAt(r, "compare", "store")
  /\ \E a \in answer[r] :
       IF a.window = oldWindow[r] THEN UNCHANGED throttleVars
       ELSE throttledCount' = 0 /\ UNCHANGED throttledWindow
  /\ UNCHANGED <<answer, oldWindow, cache, young>>

ResetThrottled(r) ==
  /\ ReqAt(r, "compare", "store")
  /\ \E a \in answer[r] :
       IF a.window = oldWindow[r] THEN UNCHANGED throttleVars
       ELSE throttledCount' = 0 /\ throttledWindow' = a.window
  /\ UNCHANGED <<answer, oldWindow, cache, young>>

StoreAnswer(r) ==
  /\ ReqAt(r, "store", "served")
  /\ cache' = answer[r]
  /\ young' = TRUE
  /\ UNCHANGED <<answer, oldWindow, throttleVars>>

BumpThrottled ==
  /\ endpoint = "usage"
  /\ throttledCount < MaxThrottled
  /\ throttledCount' = throttledCount + 1
  /\ UNCHANGED <<endpoint, req, key, answer, oldWindow, cache, young, window,
                 throttledWindow, overlap>>

CacheAges ==
  /\ young
  /\ young' = FALSE
  /\ UNCHANGED <<endpoint, req, key, answer, oldWindow, cache, window, throttleVars,
                 overlap>>

WindowChanges ==
  /\ window < MaxWindow
  /\ window' = window + 1
  /\ UNCHANGED <<endpoint, req, key, answer, oldWindow, cache, young, throttleVars,
                 overlap>>

UsageNext ==
  \/ \E r \in Readers :
       \/ UseCached(r) \/ AskUpstream(r) \/ Replied(r) \/ AskFailed(r) \/ ParseFailed(r)
       \/ ReadWindow(r) \/ ResetThrottled(r) \/ StoreAnswer(r)
  \/ BumpThrottled \/ CacheAges \/ WindowChanges

UsageSpec == UsageInit /\ [][UsageNext]_usageVars

------------------------------------------------------------------------------
\* Readers with different parameters share one cache entry and overwrite it
\* for each other.  What one of them is served is for its own parameters all
\* the same; only after a failed call may it get somebody else's history
\* (usage.go, line 132, and handlers.go, line 995, compare the key; the
\* fallbacks do not).
ServedItsOwn ==
  \A r \in Readers : \A a \in answer[r] : a.key # key[r] => req[r] = "fallback"

\* Two fetches that see the window change can both reset the count, the second
\* one after requests were throttled in the new window.  Where no two fetches
\* overlap, no throttled request is forgotten within a window (usage.go, lines
\* 85 to 98, compare under one lock and reset under another).
ForgottenOnlyByTwoFetches ==
  [][throttledCount' < throttledCount /\ throttledWindow' = throttledWindow
       => overlap]_usageVars
==============================================================================
