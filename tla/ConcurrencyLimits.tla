--------------------------- MODULE ConcurrencyLimits ---------------------------
(***************************************************************************)
(* How the gate of the queue comes about: FetchConcurrency stores the      *)
(* limits that the upstream reports for the account, HandleConfigPost      *)
(* changes the override, the mode and the manual limit, and gateLimit      *)
(* combines them.  Two caches lie in between, and both get invalidated.    *)
(*                                                                         *)
(* Grain.  One action is one critical section (of configMu, p.mu,          *)
(* queueMu, concurrencyLimitMu or cachedGateMu).  HandleConfigPost holds   *)
(* configMu over all its steps, so askers in their snapshot exclude it.    *)
(* FetchConcurrency writes LastConcurrency under p.mu, which neither       *)
(* gateLimit nor HandleConfigPost takes to read it: a data race, so the    *)
(* two fields that matter are written and read one at a time.              *)
(***************************************************************************)
EXTENDS Integers, FiniteSets

CONSTANTS
  Askers,          \* callers of gateLimit and HandleConcurrency
  Reports,         \* what the upstream reports: limit and hard cap, or Nil
  Overrides, ManualLimits,
  MaxChanges       \* bound on posts and reports

Nil == -1
Limits == Nat \cup {Nil}
Modes == {"soft", "hard", "manual"}

ASSUME LimitsAssumption ==
  /\ Reports \subseteq [limit : Limits, hardCap : Limits]
  /\ Overrides \subseteq Nat
  /\ ManualLimits \subseteq Nat
  /\ MaxChanges \in Nat

VARIABLES
  last,            \* LastConcurrency
  storing,         \* {} or the report that is being stored under p.mu
  changes,         \* how many reports and posts there have been
  ask,             \* program counter of each asker
  seen,            \* its snapshot of LastConcurrency and of the override
  effective,       \* the result of GetEffectiveConcurrency
  asked,           \* whether it is gateLimit, and the mode and manual limit it read
  effectiveCache,  \* {} or effectiveConcurrencyCache
  cachedGate,      \* {} or the gate of the last second
  post,            \* program counter of HandleConfigPost
  override, mode, manual

fetchVars == <<last, storing>>
askVars == <<ask, seen, effective, asked>>
configVars == <<post, override, mode, manual>>
limitVars == <<fetchVars, changes, askVars, effectiveCache, cachedGate, configVars>>

Effectives == [limit : Limits, hardCap : Limits, overridden : BOOLEAN]
Poster == "poster"
Users == Askers \cup {Poster}      \* of GetEffectiveConcurrency

LimitsTypeOK ==
  /\ last \in [limit : Limits, hardCap : Limits]
  /\ storing \subseteq Reports /\ Cardinality(storing) <= 1
  /\ changes \in 0..MaxChanges
  /\ ask \in [Users -> {"idle", "limit", "hardCap", "override", "lookup", "compute",
                        "mode", "manual", "publish"}]
  /\ seen \in [Users -> [limit : Limits, hardCap : Limits, override : Nat]]
  /\ effective \in [Users -> Effectives]
  /\ asked \in [Askers -> [gate : BOOLEAN, mode : Modes, manual : Nat]]
  /\ effectiveCache \subseteq Effectives /\ Cardinality(effectiveCache) <= 1
  /\ cachedGate \subseteq Nat /\ Cardinality(cachedGate) <= 1
  /\ post \in {"idle", "mode", "default", "invalidate", "manual", "last"}
  /\ override \in Nat
  /\ mode \in Modes
  /\ manual \in Nat

NothingSeen == [limit |-> Nil, hardCap |-> Nil, override |-> 0]
NoResult == [limit |-> Nil, hardCap |-> Nil, overridden |-> FALSE]
NothingAsked == [gate |-> FALSE, mode |-> "soft", manual |-> 0]

LimitsInit ==
  /\ last = [limit |-> Nil, hardCap |-> Nil]
  /\ storing = {}
  /\ changes = 0
  /\ ask = [u \in Users |-> "idle"]
  /\ seen = [u \in Users |-> NothingSeen]
  /\ effective = [u \in Users |-> NoResult]
  /\ asked = [a \in Askers |-> NothingAsked]
  /\ effectiveCache = {}
  /\ cachedGate = {}
  /\ post = "idle"
  /\ override \in Overrides
  /\ mode \in Modes
  /\ manual \in ManualLimits

------------------------------------------------------------------------------
(* The pure part: an override lowers the hard cap, and the mode chooses. *)

Effective(report, o) ==
  [limit      |-> report.limit,
   hardCap    |-> IF o > 0 /\ (report.hardCap = Nil \/ o < report.hardCap)
                  THEN o ELSE report.hardCap,
   overridden |-> o > 0]

\* A mutant: the cached hard cap is not compared.
MatchesLimitOnly(e, s) ==
  /\ e.limit = s.limit
  /\ e.overridden = (s.override > 0)

\* The cached result is compared by its effective hard cap, and by whether
\* there was an override, not by which.
Matches(e, s) ==
  /\ e.limit = s.limit
  /\ e.hardCap = s.hardCap
  /\ e.overridden = (s.override > 0)

FirstKnown(x, y) == IF x # Nil THEN x ELSE IF y # Nil THEN y ELSE 1
AtLeastOne(n) == IF n < 1 THEN 1 ELSE n

\* A mutant: a manual limit is not lowered to the hard cap.
GateUnclamped(e, m, limit) ==
  CASE m = "hard" -> FirstKnown(e.hardCap, e.limit)
    [] m = "manual" /\ limit > 0 -> limit
    [] OTHER -> FirstKnown(e.limit, e.hardCap)

GateOf(e, m, limit) ==
  CASE m = "hard" -> FirstKnown(e.hardCap, e.limit)
    [] m = "manual" /\ limit > 0 ->
         IF e.hardCap # Nil /\ limit > e.hardCap THEN AtLeastOne(e.hardCap) ELSE limit
    [] OTHER -> FirstKnown(e.limit, e.hardCap)

------------------------------------------------------------------------------
(* FetchConcurrency, once FetchUsage has given it a report, fresh or cached.  *)
(* It holds p.mu for two writes that others see one by one.                   *)

MuIsFree == storing = {}

StoreLimit ==
  /\ MuIsFree
  /\ changes < MaxChanges
  /\ changes' = changes + 1
  /\ \E r \in Reports : /\ storing' = {r}
                        /\ last' = [last EXCEPT !.limit = r.limit]
  /\ UNCHANGED <<effectiveCache, cachedGate>>

StoreHardCap ==
  /\ \E r \in storing : last' = [last EXCEPT !.hardCap = r.hardCap]
  /\ storing' = {}
  /\ effectiveCache' = {}
  /\ cachedGate' = {}
  /\ UNCHANGED changes

FetchConcurrency ==
  /\ StoreLimit \/ StoreHardCap
  /\ UNCHANGED <<askVars, configVars>>

------------------------------------------------------------------------------
(* GetEffectiveConcurrency, for an asker and for HandleConfigPost. *)

AskAt(u, from, to) ==
  /\ ask[u] = from
  /\ ask' = [ask EXCEPT ![u] = to]

\* The snapshot: the override, and LastConcurrency field by field.  configMu is
\* held for both reads, by HandleConfigPost since its start.
SeeLimit(u) ==
  /\ AskAt(u, "limit", "hardCap")
  /\ u = Poster \/ post = "idle"
  /\ seen' = [seen EXCEPT ![u] = [limit |-> last.limit, hardCap |-> Nil,
                                  override |-> override]]
  /\ UNCHANGED <<effective, effectiveCache>>

SeeHardCap(u) ==
  /\ AskAt(u, "hardCap", "lookup")
  /\ seen' = [seen EXCEPT ![u].hardCap = last.hardCap]
  /\ UNCHANGED <<effective, effectiveCache>>

Lookup(u) ==
  /\ MuIsFree
  /\ \/ \E e \in effectiveCache :
          /\ Matches(e, seen[u])
          /\ AskAt(u, "lookup", "mode")
          /\ effective' = [effective EXCEPT ![u] = e]
     \/ /\ \A e \in effectiveCache : ~Matches(e, seen[u])
        /\ AskAt(u, "lookup", "compute")
        /\ UNCHANGED effective
  /\ UNCHANGED <<seen, effectiveCache>>

Compute(u) ==
  /\ MuIsFree
  /\ AskAt(u, "compute", "mode")
  /\ effective' = [effective EXCEPT ![u] = Effective(seen[u], seen[u].override)]
  /\ effectiveCache' = {effective'[u]}
  /\ UNCHANGED seen

GetEffective(u) == SeeLimit(u) \/ SeeHardCap(u) \/ Lookup(u) \/ Compute(u)

------------------------------------------------------------------------------
(* gateLimit, which goes on when there is no gate younger than a second and *)
(* publishes the one it computes; and HandleConcurrency, which uses the same *)
(* cache with a snapshot of its own and publishes nothing.                   *)

AskGate(a) ==
  /\ AskAt(a, "idle", "limit")
  /\ cachedGate = {}
  /\ asked' = [asked EXCEPT ![a].gate = TRUE]
  /\ UNCHANGED <<seen, effective, effectiveCache, cachedGate>>

\* HandleConcurrency reads LastConcurrency whole, under p.mu, ...
AskLimits(a) ==
  /\ AskAt(a, "idle", "override")
  /\ MuIsFree
  /\ seen' = [seen EXCEPT ![a] = [limit |-> last.limit, hardCap |-> last.hardCap,
                                  override |-> 0]]
  /\ UNCHANGED <<effective, asked, effectiveCache, cachedGate>>

\* ... and then the override, under configMu.
SeeOverride(a) ==
  /\ AskAt(a, "override", "lookup")
  /\ post = "idle"
  /\ seen' = [seen EXCEPT ![a].override = override]
  /\ UNCHANGED <<effective, asked, effectiveCache, cachedGate>>

AskEffective(a) == GetEffective(a) /\ UNCHANGED <<asked, cachedGate>>

ReadMode(a) ==
  /\ AskAt(a, "mode", "manual")
  /\ asked[a].gate
  /\ asked' = [asked EXCEPT ![a].mode = mode]
  /\ UNCHANGED <<seen, effective, effectiveCache, cachedGate>>

ReadManual(a) ==
  /\ AskAt(a, "manual", "publish")
  /\ asked' = [asked EXCEPT ![a].manual = manual]
  /\ UNCHANGED <<seen, effective, effectiveCache, cachedGate>>

Gate(a) == GateOf(effective[a], asked[a].mode, asked[a].manual)

Forget(a) ==
  /\ seen' = [seen EXCEPT ![a] = NothingSeen]
  /\ effective' = [effective EXCEPT ![a] = NoResult]
  /\ asked' = [asked EXCEPT ![a] = NothingAsked]
  /\ UNCHANGED effectiveCache

PublishGate(a) ==
  /\ AskAt(a, "publish", "idle")
  /\ cachedGate' = {Gate(a)}
  /\ Forget(a)

AnswerLimits(a) ==
  /\ AskAt(a, "mode", "idle")
  /\ ~asked[a].gate
  /\ Forget(a)
  /\ UNCHANGED cachedGate

UseLimits(a) ==
  /\ \/ AskGate(a) \/ AskLimits(a) \/ SeeOverride(a) \/ AskEffective(a)
     \/ ReadMode(a) \/ ReadManual(a) \/ PublishGate(a) \/ AnswerLimits(a)
  /\ UNCHANGED <<fetchVars, changes, configVars>>

------------------------------------------------------------------------------
(* HandleConfigPost, the fields that concern the gate. *)

PostAt(from, to) == post = from /\ post' = to

\* configMu is taken: no asker is between its two reads under it.  Neither the cached
\* gate nor the cached result is invalidated for a new override.
PostOverride ==
  /\ PostAt("idle", "mode")
  /\ changes < MaxChanges
  /\ changes' = changes + 1
  /\ \A a \in Askers : ask[a] # "hardCap"
  /\ override' \in Overrides \cup {override}
  /\ UNCHANGED <<mode, manual, askVars, effectiveCache, cachedGate>>

PostMode ==
  /\ \/ /\ mode' \in Modes
        /\ IF mode' = "manual" /\ manual = 0
           THEN PostAt("mode", "default") /\ ask' = [ask EXCEPT ![Poster] = "limit"]
           ELSE PostAt("mode", "invalidate") /\ UNCHANGED ask
     \/ PostAt("mode", "manual") /\ UNCHANGED <<mode, ask>>
  /\ UNCHANGED <<changes, override, manual, seen, effective, asked,
                 effectiveCache, cachedGate>>

\* A first manual limit is the soft cap, or the hard cap.
PostDefault ==
  /\ \/ /\ GetEffective(Poster)
        /\ UNCHANGED <<post, manual>>
     \/ /\ AskAt(Poster, "mode", "idle")
        /\ PostAt("default", "invalidate")
        /\ manual' = AtLeastOne(FirstKnown(effective[Poster].limit, effective[Poster].hardCap))
        /\ seen' = [seen EXCEPT ![Poster] = NothingSeen]
        /\ effective' = [effective EXCEPT ![Poster] = NoResult]
        /\ UNCHANGED effectiveCache
  /\ UNCHANGED <<changes, override, mode, asked, cachedGate>>

PostManual ==
  /\ \/ /\ PostAt("manual", "last")
        /\ \E n \in ManualLimits : manual' = AtLeastOne(n)
     \/ PostAt("manual", "idle") /\ UNCHANGED manual
  /\ UNCHANGED <<changes, override, mode, askVars, effectiveCache, cachedGate>>

InvalidateGateCache ==
  /\ PostAt("invalidate", "manual") \/ PostAt("last", "idle")
  /\ cachedGate' = {}
  /\ UNCHANGED <<changes, override, mode, manual, askVars, effectiveCache>>

PostConfigLimits ==
  /\ PostOverride \/ PostMode \/ PostDefault \/ PostManual \/ InvalidateGateCache
  /\ UNCHANGED fetchVars

------------------------------------------------------------------------------
\* A mutant: the age of the gate is looked at in manual mode only.
GateExpiresInManual ==
  /\ mode = "manual"
  /\ cachedGate # {}
  /\ cachedGate' = {}
  /\ UNCHANGED <<fetchVars, changes, askVars, effectiveCache, configVars>>

\* The cached gate is older than a second.
GateExpires ==
  /\ cachedGate # {}
  /\ cachedGate' = {}
  /\ UNCHANGED <<fetchVars, changes, askVars, effectiveCache, configVars>>

LimitsNext ==
  \/ \E a \in Askers : UseLimits(a)
  \/ FetchConcurrency \/ PostConfigLimits \/ GateExpires

LimitsFairness ==
  /\ WF_limitVars(FetchConcurrency /\ storing # {})
  /\ \A a \in Askers : WF_limitVars(UseLimits(a) /\ ask[a] # "idle")
  /\ WF_limitVars(PostConfigLimits /\ post # "idle")
  /\ WF_limitVars(GateExpires)

LimitsSpec == LimitsInit /\ [][LimitsNext]_limitVars
LimitsFairSpec == LimitsSpec /\ LimitsFairness

------------------------------------------------------------------------------
\* The override lies under the reported hard cap, so that it has one to lower.
LowersTheCap(s) == s.override > 0 /\ s.hardCap # Nil /\ s.override < s.hardCap

\* Whatever is cached, raced or replaced meanwhile, GetEffectiveConcurrency
\* returns the limits of the report its caller saw: never a hard cap above the
\* reported one, and, but where the override has a cap to lower, exactly what
\* a computation without the cache gives (usage.go, lines 326 to 352).  That
\* the override then does lower it is OverrideIsApplied, which does not hold.
EffectiveRespectsReport ==
  \A u \in Users : ask[u] = "mode" =>
    /\ effective[u].limit = seen[u].limit
    /\ effective[u].overridden = (seen[u].override > 0)
    /\ seen[u].hardCap # Nil => effective[u].hardCap <= seen[u].hardCap
    /\ ~LowersTheCap(seen[u]) => effective[u] = Effective(seen[u], seen[u].override)

\* Stated by the comment of GetEffectiveConcurrency: "If overrideConcurrency > 0,
\* hard_cap = min(override, apiHardCap)".  A caller that has read the override in
\* force gets it applied, from the cache as from a computation.
OverrideIsApplied ==
  \A u \in Users : ask[u] = "mode" /\ seen[u].override = override =>
    effective[u].hardCap = Effective(seen[u], override).hardCap

\* The gate an asker publishes, from parts it read at different times, is zero
\* only if the upstream reported a zero, is at least one in manual mode with a
\* limit, and outside soft mode is never above the hard cap (or, for a reported
\* cap of zero in manual mode, one): gateLimit never opens the queue wider than
\* the account allows.
GateKeepsTheHardCap ==
  \A a \in Askers : ask[a] = "publish" =>
    /\ Gate(a) = 0 => 0 \in {seen[a].limit, seen[a].hardCap}
    /\ asked[a].mode = "manual" /\ asked[a].manual > 0 => Gate(a) >= 1
    /\ asked[a].mode = "hard" /\ seen[a].hardCap # Nil => Gate(a) <= seen[a].hardCap
    /\ asked[a].mode = "manual" /\ asked[a].manual > 0 /\ seen[a].hardCap # Nil
         => Gate(a) <= AtLeastOne(seen[a].hardCap)

\* A gate computed from what was replaced meanwhile does not stay: under one
\* override, when posts and reports no longer come, every cached gate is at last
\* the one of the last report, the mode and the manual limit.
GateSettles ==
  \A o \in Overrides :
    [](override = o) => <>[](cachedGate \subseteq {GateOf(Effective(last, o), mode, manual)})
==============================================================================
