---------------------------- MODULE CacheProofs ------------------------------
(***************************************************************************)
(* Proofs about what is fetched from the upstream and cached: the limits   *)
(* (ConcurrencyLimits), the account's usage (UsageCaches) and the models   *)
(* (Catalog).                                                              *)
(***************************************************************************)
EXTENDS ConcurrencyLimits, UsageCaches, Catalog, FiniteSetTheorems, TLAPS

------------------------------------------------------------------------------
(***************************************************************************)
(* The limits, for any askers, reports, overrides and manual limits: the   *)
(* effective limits are those of the report that was seen, and a gate      *)
(* computed from them keeps the hard cap.                                  *)
(***************************************************************************)

Snapshots == [limit : Limits, hardCap : Limits, override : Nat]

\* The limits e are those of the snapshot s, with a hard cap that may be lower,
\* and exact where the override has no cap to lower.
Fits(s, e) ==
  /\ e.limit = s.limit
  /\ e.overridden = (s.override > 0)
  /\ e.hardCap \in {Effective(s, s.override).hardCap, s.hardCap}
  /\ s.hardCap # Nil => e.hardCap <= s.hardCap
  /\ ~LowersTheCap(s) => e = Effective(s, s.override)

\* The inductive invariant: an overridden result in the cache has a hard cap, so
\* that it never matches a snapshot without one, and a result fits the snapshot
\* for as long as it is used, which for a gate is until it is published.
Using == {"mode", "manual", "publish"}

CacheHasItsCap == \A e \in effectiveCache : e.overridden => e.hardCap # Nil
ResultsFit == /\ CacheHasItsCap
              /\ \A u \in Users : ask[u] \in Using => Fits(seen[u], effective[u])

LimitsIInv == LimitsTypeOK /\ ResultsFit

------------------------------------------------------------------------------
(* The operators. *)

\* A computed result fits the snapshot it is computed from.
LEMMA EffectiveFits ==
  ASSUME NEW s \in Snapshots
  PROVE  /\ Effective(s, s.override) \in Effectives
         /\ Fits(s, Effective(s, s.override))
         /\ s.override > 0 => Effective(s, s.override).hardCap # Nil
<1>1. s.override \in Nat /\ s.limit \in Limits /\ s.hardCap \in Limits
  BY DEF Snapshots
<1>2. Effective(s, s.override) \in Effectives
  BY <1>1 DEF Effective, Effectives, Limits, Nil
<1>3. s.hardCap # Nil => Effective(s, s.override).hardCap <= s.hardCap
  BY <1>1 DEF Effective, Limits, Nil
<1>4. s.override > 0 => Effective(s, s.override).hardCap # Nil
  BY <1>1 DEF Effective, Nil
<1> QED
  BY <1>2, <1>3, <1>4 DEF Fits, Effective

\* So does a cached one that matches it.
LEMMA MatchFits ==
  ASSUME NEW s \in Snapshots, NEW e \in Effectives, Matches(e, s),
         e.overridden => e.hardCap # Nil
  PROVE  Fits(s, e)
<1>1. e.limit = s.limit /\ e.overridden = (s.override > 0) /\ e.hardCap = s.hardCap
  BY DEF Matches
<1>2. s.hardCap # Nil => s.hardCap <= s.hardCap
  BY DEF Snapshots, Limits, Nil
<1>3. ASSUME ~LowersTheCap(s)
      PROVE  e = Effective(s, s.override)
  <2>1. Effective(s, s.override) = [limit |-> e.limit, hardCap |-> e.hardCap,
                                    overridden |-> e.overridden]
    BY <1>1, <1>3 DEF Effective, LowersTheCap, Snapshots, Limits, Nil
  <2> QED
    BY <2>1 DEF Effectives
<1> QED
  BY <1>1, <1>2, <1>3 DEF Fits

\* gateLimit never yields a negative gate.
LEMMA GateIsNatural ==
  ASSUME NEW e \in Effectives, NEW m \in Modes, NEW n \in Nat
  PROVE  GateOf(e, m, n) \in Nat
  BY DEF GateOf, FirstKnown, AtLeastOne, Effectives, Limits, Nil, Modes

LEMMA FirstKnownIsNatural ==
  ASSUME NEW m \in Limits, NEW n \in Limits
  PROVE  FirstKnown(m, n) \in Nat /\ AtLeastOne(FirstKnown(m, n)) \in Nat
  BY DEF FirstKnown, AtLeastOne, Limits, Nil

LEMMA NothingIsSnapshot ==
  /\ NothingSeen \in Snapshots
  /\ NoResult \in Effectives
  /\ NothingAsked \in [gate : BOOLEAN, mode : Modes, manual : Nat]
  BY DEF NothingSeen, NoResult, NothingAsked, Snapshots, Effectives, Modes, Limits, Nil

\* A set of one element is as small as the caches are.
LEMMA OneIsFew == Cardinality({}) <= 1 /\ \A v : Cardinality({v}) <= 1
  BY FS_EmptySet, FS_Singleton

------------------------------------------------------------------------------
LEMMA LimitsInitial == LimitsInit => LimitsIInv
<1> SUFFICES ASSUME LimitsInit PROVE LimitsIInv
  OBVIOUS
<1>1. LimitsTypeOK
  BY LimitsAssumption, NothingIsSnapshot, OneIsFew
  DEF LimitsInit, LimitsTypeOK, Snapshots, Modes, Limits, Nil
<1>2. ResultsFit
  BY DEF LimitsInit, ResultsFit, CacheHasItsCap, Using
<1> QED
  BY <1>1, <1>2 DEF LimitsIInv

\* The asker u moves to a step, and of what askers keep only its own part changes.
LEMMA GetEffectiveKeeps ==
  ASSUME NEW u \in Users, LimitsIInv, GetEffective(u)
  PROVE  /\ ask' \in [Users -> {"idle", "limit", "hardCap", "override", "lookup", "compute",
                                "mode", "manual", "publish"}]
         /\ seen' \in [Users -> Snapshots]
         /\ effective' \in [Users -> Effectives]
         /\ effectiveCache' \subseteq Effectives /\ Cardinality(effectiveCache') <= 1
         /\ ResultsFit'
<1> USE DEF LimitsIInv
<1>0. /\ ask \in [Users -> {"idle", "limit", "hardCap", "override", "lookup", "compute",
                            "mode", "manual", "publish"}]
      /\ seen \in [Users -> Snapshots]
      /\ effective \in [Users -> Effectives]
      /\ effectiveCache \subseteq Effectives /\ Cardinality(effectiveCache) <= 1
      /\ last.limit \in Limits /\ last.hardCap \in Limits /\ Nil \in Limits /\ override \in Nat
  BY DEF LimitsTypeOK, Snapshots, Limits
<1>1. CASE SeeLimit(u)
  <2>1. [limit |-> last.limit, hardCap |-> Nil, override |-> override] \in Snapshots
    BY <1>0 DEF Snapshots
  <2> QED
    BY <1>0, <1>1, <2>1 DEF SeeLimit, AskAt, ResultsFit, CacheHasItsCap, Using
<1>2. CASE SeeHardCap(u)
  <2>1. [seen[u] EXCEPT !.hardCap = last.hardCap] \in Snapshots
    BY <1>0 DEF Snapshots
  <2> QED
    BY <1>0, <1>2, <2>1 DEF SeeHardCap, AskAt, ResultsFit, CacheHasItsCap, Using
<1>3. CASE Lookup(u)
  <2>1. CASE \E e \in effectiveCache :
               /\ Matches(e, seen[u])
               /\ AskAt(u, "lookup", "mode")
               /\ effective' = [effective EXCEPT ![u] = e]
    <3>1. PICK e \in effectiveCache :
            /\ Matches(e, seen[u])
            /\ AskAt(u, "lookup", "mode")
            /\ effective' = [effective EXCEPT ![u] = e]
      BY <2>1
    <3>2. e \in Effectives /\ Fits(seen[u], e)
      BY <1>0, <3>1, MatchFits DEF ResultsFit, CacheHasItsCap
    <3>3. UNCHANGED <<seen, effectiveCache>>
      BY <1>3 DEF Lookup
    <3> QED
      BY <1>0, <3>1, <3>2, <3>3 DEF AskAt, ResultsFit, CacheHasItsCap, Using
  <2>2. CASE AskAt(u, "lookup", "compute") /\ UNCHANGED effective
    BY <1>0, <1>3, <2>2 DEF Lookup, AskAt, ResultsFit, CacheHasItsCap, Using
  <2> QED
    BY <1>3, <2>1, <2>2 DEF Lookup
<1>4. CASE Compute(u)
  <2> DEFINE e == Effective(seen[u], seen[u].override)
  <2>1. /\ e \in Effectives /\ Fits(seen[u], e)
        /\ e.overridden => e.hardCap # Nil
    BY <1>0, EffectiveFits DEF Effective
  <2>2. effective'[u] = e /\ effectiveCache' = {e}
    BY <1>0, <1>4 DEF Compute
  <2> QED
    BY <1>0, <1>4, <2>1, <2>2, OneIsFew DEF Compute, AskAt, ResultsFit, CacheHasItsCap, Using
<1> QED
  BY <1>1, <1>2, <1>3, <1>4 DEF GetEffective

\* An asker ends: what it knew is gone, and it is at no step that uses it.
LEMMA ForgetKeeps ==
  ASSUME NEW a \in Askers, LimitsIInv, Forget(a), ask' = [ask EXCEPT ![a] = "idle"]
  PROVE  /\ seen' \in [Users -> Snapshots]
         /\ effective' \in [Users -> Effectives]
         /\ asked' \in [Askers -> [gate : BOOLEAN, mode : Modes, manual : Nat]]
         /\ ResultsFit'
<1>1. a \in Users
  BY DEF Users
<1> QED
  BY <1>1, NothingIsSnapshot
  DEF LimitsIInv, LimitsTypeOK, ResultsFit, CacheHasItsCap, Using, Forget, Snapshots

LEMMA UseLimitsKeeps ==
  ASSUME NEW a \in Askers, LimitsIInv, UseLimits(a)
  PROVE  LimitsIInv'
<1>0. /\ a \in Users
      /\ UNCHANGED <<last, storing, changes, post, override, mode, manual>>
  BY DEF Users, UseLimits, fetchVars, configVars
<1> USE DEF LimitsIInv
<1>1. CASE AskGate(a)
  BY <1>0, <1>1 DEF AskGate, AskAt, LimitsTypeOK, ResultsFit, CacheHasItsCap, Using
<1>2. CASE AskLimits(a)
  <2>1. [limit |-> last.limit, hardCap |-> last.hardCap, override |-> 0] \in
          [limit : Limits, hardCap : Limits, override : Nat]
    BY DEF LimitsTypeOK
  <2> QED
    BY <1>0, <1>2, <2>1 DEF AskLimits, AskAt, LimitsTypeOK, ResultsFit, CacheHasItsCap, Using
<1>3. CASE SeeOverride(a)
  BY <1>0, <1>3 DEF SeeOverride, AskAt, LimitsTypeOK, ResultsFit, CacheHasItsCap, Using
<1>4. CASE AskEffective(a)
  BY <1>0, <1>4, GetEffectiveKeeps DEF AskEffective, LimitsTypeOK, Snapshots
<1>5. CASE ReadMode(a)
  BY <1>0, <1>5 DEF ReadMode, AskAt, LimitsTypeOK, ResultsFit, CacheHasItsCap, Using
<1>6. CASE ReadManual(a)
  BY <1>0, <1>6 DEF ReadManual, AskAt, LimitsTypeOK, ResultsFit, CacheHasItsCap, Using
<1>7. CASE PublishGate(a)
  <2>1. Gate(a) \in Nat
    BY <1>0, GateIsNatural DEF Gate, LimitsTypeOK
  <2>2. Forget(a) /\ ask' = [ask EXCEPT ![a] = "idle"] /\ effectiveCache' = effectiveCache
    BY <1>7 DEF PublishGate, AskAt, Forget
  <2> QED
    BY <1>0, <1>7, <2>1, <2>2, ForgetKeeps, OneIsFew
    DEF PublishGate, LimitsTypeOK, Snapshots
<1>8. CASE AnswerLimits(a)
  <2>1. Forget(a) /\ ask' = [ask EXCEPT ![a] = "idle"] /\ effectiveCache' = effectiveCache
    BY <1>8 DEF AnswerLimits, AskAt, Forget
  <2> QED
    BY <1>0, <1>8, <2>1, ForgetKeeps DEF AnswerLimits, LimitsTypeOK, Snapshots
<1> QED
  BY <1>1, <1>2, <1>3, <1>4, <1>5, <1>6, <1>7, <1>8 DEF UseLimits

LEMMA FetchLimitsKeeps ==
  ASSUME LimitsIInv, FetchConcurrency
  PROVE  LimitsIInv'
<1> USE LimitsAssumption, OneIsFew DEF LimitsIInv
<1>1. UNCHANGED <<askVars, configVars>>
  BY DEF FetchConcurrency
<1>2. CASE StoreLimit
  <2>1. changes' \in 0..MaxChanges
    BY <1>2 DEF StoreLimit, LimitsTypeOK
  <2>2. storing' \subseteq Reports /\ Cardinality(storing') <= 1
    BY <1>2 DEF StoreLimit
  <2>3. last' \in [limit : Limits, hardCap : Limits]
    BY <1>2 DEF StoreLimit, LimitsTypeOK
  <2> QED
    BY <1>1, <1>2, <2>1, <2>2, <2>3
    DEF StoreLimit, LimitsTypeOK, ResultsFit, CacheHasItsCap, askVars, configVars
<1>3. CASE StoreHardCap
  <2>1. last' \in [limit : Limits, hardCap : Limits]
    BY <1>3 DEF StoreHardCap, LimitsTypeOK
  <2> QED
    BY <1>1, <1>3, <2>1 DEF StoreHardCap, LimitsTypeOK, ResultsFit, CacheHasItsCap, askVars, configVars
<1> QED
  BY <1>2, <1>3 DEF FetchConcurrency

LEMMA PostLimitsKeeps ==
  ASSUME LimitsIInv, PostConfigLimits
  PROVE  LimitsIInv'
<1> USE LimitsAssumption DEF LimitsIInv
<1>0. Poster \in Users /\ UNCHANGED <<last, storing>>
  BY DEF Users, PostConfigLimits, fetchVars
<1>1. CASE PostOverride
  <2>1. changes' \in 0..MaxChanges
    BY <1>1 DEF PostOverride, LimitsTypeOK
  <2> QED
    BY <1>0, <1>1, <2>1 DEF PostOverride, PostAt, LimitsTypeOK, ResultsFit, CacheHasItsCap, askVars
<1>2. CASE PostMode
  BY <1>0, <1>2 DEF PostMode, PostAt, LimitsTypeOK, ResultsFit, CacheHasItsCap, Using
<1>3. CASE PostDefault
  <2>1. CASE GetEffective(Poster) /\ UNCHANGED <<post, manual>>
    BY <1>0, <1>3, <2>1, GetEffectiveKeeps DEF PostDefault, LimitsTypeOK, Snapshots
  <2>2. CASE /\ AskAt(Poster, "mode", "idle")
             /\ PostAt("default", "invalidate")
             /\ manual' = AtLeastOne(FirstKnown(effective[Poster].limit, effective[Poster].hardCap))
             /\ seen' = [seen EXCEPT ![Poster] = NothingSeen]
             /\ effective' = [effective EXCEPT ![Poster] = NoResult]
             /\ UNCHANGED effectiveCache
    <3>1. effective[Poster].limit \in Limits /\ effective[Poster].hardCap \in Limits
      BY <1>0 DEF LimitsTypeOK, Effectives
    <3>2. manual' \in Nat
      BY <2>2, <3>1, FirstKnownIsNatural
    <3>3. UNCHANGED <<changes, override, mode, asked, cachedGate>>
      BY <1>3 DEF PostDefault
    <3> QED
      BY <1>0, <2>2, <3>2, <3>3, NothingIsSnapshot
      DEF AskAt, PostAt, LimitsTypeOK, ResultsFit, CacheHasItsCap, Using, Snapshots
  <2> QED
    BY <1>3, <2>1, <2>2 DEF PostDefault
<1>4. CASE PostManual
  <2>1. manual' \in Nat
    BY <1>4 DEF PostManual, AtLeastOne, LimitsTypeOK
  <2> QED
    BY <1>0, <1>4, <2>1 DEF PostManual, PostAt, LimitsTypeOK, ResultsFit, CacheHasItsCap, askVars
<1>5. CASE InvalidateGateCache
  BY <1>0, <1>5, OneIsFew DEF InvalidateGateCache, PostAt, LimitsTypeOK, ResultsFit, CacheHasItsCap, askVars
<1> QED
  BY <1>1, <1>2, <1>3, <1>4, <1>5 DEF PostConfigLimits

LEMMA LimitsInductive == LimitsIInv /\ [LimitsNext]_limitVars => LimitsIInv'
<1> SUFFICES ASSUME LimitsIInv, [LimitsNext]_limitVars
             PROVE  LimitsIInv'
  OBVIOUS
<1>1. CASE GateExpires
  BY <1>1, OneIsFew
  DEF GateExpires, LimitsIInv, LimitsTypeOK, ResultsFit, CacheHasItsCap, fetchVars, askVars, configVars
<1>2. CASE UNCHANGED limitVars
  BY <1>2 DEF limitVars, LimitsIInv, LimitsTypeOK, ResultsFit, CacheHasItsCap, fetchVars, askVars, configVars
<1> QED
  BY <1>1, <1>2, UseLimitsKeeps, FetchLimitsKeeps, PostLimitsKeeps DEF LimitsNext

LEMMA LimitsAlways == LimitsSpec => []LimitsIInv
  BY LimitsInitial, LimitsInductive, PTL DEF LimitsSpec

------------------------------------------------------------------------------
\* The gate, the limits and the caches in between keep their types: LastConcurrency
\* is known or not field by field, the gate is never negative.
THEOREM LimitsTypeCorrect == LimitsSpec => []LimitsTypeOK
  BY LimitsAlways, PTL DEF LimitsIInv

\* GetEffectiveConcurrency returns the limits of the report its caller saw, whatever
\* is cached, raced or posted meanwhile: a hard cap no higher, and the exact result
\* where the override has no cap to lower.
THEOREM EffectiveIsOfItsReport == LimitsSpec => []EffectiveRespectsReport
<1>1. LimitsIInv => EffectiveRespectsReport
  BY DEF LimitsIInv, ResultsFit, CacheHasItsCap, Using, Fits, EffectiveRespectsReport
<1> QED
  BY <1>1, LimitsAlways, PTL

\* gateLimit never opens the queue wider than the hard cap it saw, and closes it
\* only for a reported zero, from parts that it read at different times.
THEOREM GateStaysUnderTheCap == LimitsSpec => []GateKeepsTheHardCap
<1>1. ASSUME LimitsIInv, NEW a \in Askers, ask[a] = "publish"
      PROVE  /\ Gate(a) = 0 => 0 \in {seen[a].limit, seen[a].hardCap}
             /\ asked[a].mode = "manual" /\ asked[a].manual > 0 => Gate(a) >= 1
             /\ asked[a].mode = "hard" /\ seen[a].hardCap # Nil => Gate(a) <= seen[a].hardCap
             /\ asked[a].mode = "manual" /\ asked[a].manual > 0 /\ seen[a].hardCap # Nil
                  => Gate(a) <= AtLeastOne(seen[a].hardCap)
  <2> DEFINE e == effective[a]
             s == seen[a]
             m == asked[a].mode
             n == asked[a].manual
  <2>1. Fits(s, e)
    BY <1>1 DEF LimitsIInv, ResultsFit, CacheHasItsCap, Using, Users
  <2>2. e \in Effectives /\ s \in Snapshots /\ m \in Modes /\ n \in Nat
    BY <1>1 DEF LimitsIInv, LimitsTypeOK, Users, Snapshots
  <2>3. /\ e.limit = s.limit /\ s.limit \in Limits
        /\ s.hardCap \in Limits /\ s.override \in Nat /\ e.hardCap \in Limits
        /\ s.hardCap # Nil => e.hardCap # Nil /\ e.hardCap <= s.hardCap
        /\ e.hardCap = 0 => s.hardCap = 0
    BY <2>1, <2>2 DEF Fits, Effective, Effectives, Snapshots, Limits, Nil
  <2>4. Gate(a) = GateOf(e, m, n)
    BY DEF Gate
  <2> HIDE DEF e, s, m, n
  <2>5. GateOf(e, m, n) = 0 => s.limit = 0 \/ s.hardCap = 0
    BY <2>2, <2>3 DEF GateOf, FirstKnown, AtLeastOne, Limits, Nil, Modes
  <2>6. m = "manual" /\ n > 0 => GateOf(e, m, n) >= 1
    BY <2>2, <2>3 DEF GateOf, AtLeastOne, Limits, Nil
  <2>7. m = "hard" /\ s.hardCap # Nil => GateOf(e, m, n) <= s.hardCap
    BY <2>2, <2>3 DEF GateOf, FirstKnown, Limits, Nil
  <2>8. m = "manual" /\ n > 0 /\ s.hardCap # Nil => GateOf(e, m, n) <= AtLeastOne(s.hardCap)
    BY <2>2, <2>3 DEF GateOf, AtLeastOne, Limits, Nil
  <2> QED
    BY <2>4, <2>5, <2>6, <2>7, <2>8 DEF e, s, m, n
<1>2. LimitsIInv => GateKeepsTheHardCap
  BY <1>1 DEF GateKeepsTheHardCap
<1> QED
  BY <1>2, LimitsAlways, PTL

------------------------------------------------------------------------------
(***************************************************************************)
(* The usage, for any finite set of readers and any parameters: whose answer *)
(* a reader is served, and when the count of throttled requests can be     *)
(* forgotten.                                                              *)
(***************************************************************************)

\* The inductive invariant.  While no two fetches have overlapped, at most one is
\* under way, and the window it will compare with is still the stored one.
Alone ==
  ~overlap =>
    /\ \A q, r \in Fetching : q = r
    /\ \A r \in Readers : req[r] = "compare" => oldWindow[r] = throttledWindow

UsageIInv ==
  /\ UsageTypeOK
  /\ answer \in [Readers -> SUBSET Answers]
  /\ ServedItsOwn
  /\ Alone

------------------------------------------------------------------------------
\* Two members make a set of more than one.
LEMMA TwoAreMore ==
  ASSUME NEW S, IsFiniteSet(S), NEW p \in S, NEW q \in S, p # q
  PROVE  Cardinality(S) > 1
<1>1. IsFiniteSet({p}) /\ Cardinality({p}) = 1
  BY FS_Singleton
<1>2. Cardinality({p} \cup {q}) = 2
  <2>1. q \notin {p}
    OBVIOUS
  <2>2. Cardinality({p} \cup {q}) = Cardinality({p}) + 1
    BY <1>1, <2>1, FS_AddElement
  <2> QED
    BY <1>1, <2>2
<1>3. {p} \cup {q} \subseteq S
  OBVIOUS
<1>4. Cardinality({p} \cup {q}) <= Cardinality(S)
  BY <1>3, FS_Subset
<1>5. Cardinality(S) \in Nat
  BY FS_CardinalityType
<1> QED
  BY <1>2, <1>4, <1>5

\* So when no overlap has been noted, nobody else is fetching.
LEMMA AloneAfter ==
  ASSUME overlap' = (overlap \/ Cardinality(Fetching') > 1), ~overlap'
  PROVE  \A q, r \in Fetching' : q = r
<1>1. IsFiniteSet(Fetching')
  BY UsageAssumption, FS_Subset DEF Fetching
<1>2. ~(Cardinality(Fetching') > 1)
  OBVIOUS
<1> QED
  BY <1>1, <1>2, TwoAreMore

LEMMA OneAnswer == Cardinality({}) <= 1 /\ \A v : Cardinality({v}) <= 1
  BY FS_EmptySet, FS_Singleton

LEMMA UsageInitial == UsageInit => UsageIInv
<1> SUFFICES ASSUME UsageInit PROVE UsageIInv
  OBVIOUS
<1>1. key \in [Readers -> Keys \cup {NoKey}]
  BY DEF UsageInit
<1>2. answer = [r \in Readers |-> {}]
  BY DEF UsageInit
<1>3. answer \in [Readers -> SUBSET Answers] /\ ServedItsOwn
  BY <1>2 DEF ServedItsOwn
<1>4. /\ req \in [Readers -> {"new", "asked", "replied", "compare", "store"} \cup Ended]
      /\ oldWindow \in [Readers -> 0..MaxWindow]
  BY UsageAssumption DEF UsageInit, NoWindow
<1>5. UsageTypeOK
  <2>1. \A r \in Readers : answer[r] \subseteq Answers /\ Cardinality(answer[r]) <= 1
    BY <1>2, OneAnswer
  <2>2. young \in BOOLEAN /\ overlap \in BOOLEAN /\ endpoint \in Endpoints
    BY DEF UsageInit
  <2>3. cache \subseteq Answers /\ Cardinality(cache) <= 1
    BY OneAnswer DEF UsageInit
  <2>4. /\ window \in 1..MaxWindow
        /\ throttledCount \in 0..MaxThrottled
        /\ throttledWindow \in 0..MaxWindow
    BY UsageAssumption DEF UsageInit, NoWindow
  <2> QED
    BY <1>1, <1>4, <2>1, <2>2, <2>3, <2>4 DEF UsageTypeOK
<1>6. \A r \in Readers : req[r] = "new"
  BY DEF UsageInit
<1>7. Fetching = {}
  BY <1>6 DEF Fetching
<1> QED
  BY <1>3, <1>5, <1>6, <1>7 DEF UsageIInv, Alone

\* A request moves on: its step and its answer are typed, and it is served its own.
LEMMA RequestKeeps ==
  ASSUME NEW r \in Readers, NEW to, NEW from, UsageIInv, ReqAt(r, from, to),
         to \in {"asked", "replied", "compare", "store"} \cup Ended,
         NEW A \in SUBSET Answers, Cardinality(A) <= 1,
         answer' = [answer EXCEPT ![r] = A],
         to # "fallback" => \A a \in A : a.key = key[r]
  PROVE  /\ endpoint' \in Endpoints
         /\ req' \in [Readers -> {"new", "asked", "replied", "compare", "store"} \cup Ended]
         /\ key' \in [Readers -> Keys \cup {NoKey}]
         /\ \A q \in Readers : answer'[q] \subseteq Answers /\ Cardinality(answer'[q]) <= 1
         /\ window' \in 1..MaxWindow
         /\ overlap' \in BOOLEAN
         /\ answer' \in [Readers -> SUBSET Answers]
         /\ ServedItsOwn'
<1>1. /\ endpoint' \in Endpoints
      /\ key' = key /\ key' \in [Readers -> Keys \cup {NoKey}]
      /\ window' \in 1..MaxWindow
      /\ overlap' \in BOOLEAN
  BY DEF UsageIInv, UsageTypeOK, ReqAt
<1>2. req' \in [Readers -> {"new", "asked", "replied", "compare", "store"} \cup Ended]
  BY DEF UsageIInv, UsageTypeOK, ReqAt
<1>3. answer' \in [Readers -> SUBSET Answers]
  BY DEF UsageIInv
<1>4. \A q \in Readers : answer'[q] \subseteq Answers /\ Cardinality(answer'[q]) <= 1
  BY DEF UsageIInv, UsageTypeOK
<1>5. ServedItsOwn'
  <2> SUFFICES ASSUME NEW q \in Readers, NEW a \in answer'[q], a.key # key'[q]
               PROVE  req'[q] = "fallback"
    BY DEF ServedItsOwn
  <2>1. CASE q = r
    BY <2>1, <1>1 DEF UsageIInv, UsageTypeOK, ReqAt
  <2>2. CASE q # r
    BY <2>2, <1>1 DEF UsageIInv, UsageTypeOK, ReqAt, ServedItsOwn
  <2> QED
    BY <2>1, <2>2
<1> QED
  BY <1>1, <1>2, <1>3, <1>4, <1>5

\* The windows other requests compare with stay right when the stored one does.
LEMMA AloneKeeps ==
  ASSUME NEW r \in Readers, NEW to, NEW from, UsageIInv, ReqAt(r, from, to),
         UNCHANGED <<oldWindow, throttledWindow>>, to # "compare"
  PROVE  Alone'
<1> SUFFICES ASSUME ~overlap' PROVE Alone'
  BY DEF Alone
<1>1. ~overlap
  BY DEF ReqAt
<1>2. \A p, q \in Fetching' : p = q
  BY AloneAfter DEF ReqAt
<1>3. \A q \in Readers : req'[q] = "compare" => req[q] = "compare"
  BY DEF ReqAt, UsageIInv, UsageTypeOK
<1> QED
  BY <1>1, <1>2, <1>3 DEF Alone, UsageIInv

LEMMA AnswerIsItself ==
  ASSUME NEW r \in Readers, UsageIInv, UNCHANGED answer
  PROVE  /\ answer' = [answer EXCEPT ![r] = answer[r]]
         /\ answer[r] \in SUBSET Answers /\ Cardinality(answer[r]) <= 1
  BY DEF UsageIInv, UsageTypeOK

------------------------------------------------------------------------------
LEMMA UseCachedKeeps ==
  ASSUME NEW r \in Readers, UsageIInv, UseCached(r)
  PROVE  UsageIInv'
<1>1. PICK a \in cache :
        /\ ReqAt(r, "new", "served")
        /\ a.key = key[r]
        /\ answer' = [answer EXCEPT ![r] = {a}]
        /\ UNCHANGED <<oldWindow, cache, young, throttleVars>>
  BY DEF UseCached
<1>2. {a} \in SUBSET Answers /\ "served" \in Ended
  BY DEF UsageIInv, UsageTypeOK, Ended
<1>3. Alone'
  BY <1>1, AloneKeeps DEF throttleVars
<1> QED
  BY <1>1, <1>2, <1>3, RequestKeeps, OneAnswer DEF UsageIInv, UsageTypeOK, throttleVars

LEMMA AskUpstreamKeeps ==
  ASSUME NEW r \in Readers, UsageIInv, AskUpstream(r)
  PROVE  UsageIInv'
<1>1. \A a \in answer[r] : a.key = key[r]
  BY DEF UsageIInv, ServedItsOwn, AskUpstream, ReqAt
<1>2. Alone'
  BY AloneKeeps DEF AskUpstream, throttleVars
<1> QED
  BY <1>1, <1>2, AnswerIsItself, RequestKeeps
  DEF AskUpstream, UsageIInv, UsageTypeOK, throttleVars

LEMMA RepliedKeeps ==
  ASSUME NEW r \in Readers, UsageIInv, Replied(r)
  PROVE  UsageIInv'
<1> DEFINE to == IF endpoint = "usage" THEN "replied" ELSE "store"
           a == [key |-> key[r], window |-> window]
<1>1. {a} \in SUBSET Answers
  BY DEF UsageIInv, UsageTypeOK, Answers
<1>2. /\ ReqAt(r, "asked", to)
      /\ answer' = [answer EXCEPT ![r] = {a}]
      /\ UNCHANGED <<oldWindow, cache, young, throttleVars>>
      /\ to \in {"replied", "store"}
  BY DEF Replied
<1>3. \A b \in {a} : b.key = key[r]
  OBVIOUS
<1> HIDE DEF to, a
<1>4. Alone'
  BY <1>2, AloneKeeps DEF throttleVars
<1> QED
  BY <1>1, <1>2, <1>3, <1>4, RequestKeeps, OneAnswer DEF UsageIInv, UsageTypeOK, throttleVars

LEMMA FallbackKeeps ==
  ASSUME NEW r \in Readers, UsageIInv, AskFailed(r) \/ ParseFailed(r)
  PROVE  UsageIInv'
<1>1. PICK A \in {OnFailure, OnGarbage} :
        /\ ReqAt(r, "asked", "fallback")
        /\ answer' = [answer EXCEPT ![r] = A]
        /\ UNCHANGED <<oldWindow, cache, young, throttleVars>>
  BY DEF AskFailed, ParseFailed
<1>2. A \in SUBSET Answers /\ Cardinality(A) <= 1 /\ "fallback" \in Ended
  BY OneAnswer DEF OnFailure, OnGarbage, UsageIInv, UsageTypeOK, Ended
<1>3. Alone'
  BY <1>1, AloneKeeps DEF throttleVars
<1> QED
  BY <1>1, <1>2, <1>3, RequestKeeps DEF UsageIInv, UsageTypeOK, throttleVars

LEMMA ReadWindowKeeps ==
  ASSUME NEW r \in Readers, UsageIInv, ReadWindow(r)
  PROVE  UsageIInv'
<1>1. \A a \in answer[r] : a.key = key[r]
  BY DEF UsageIInv, ServedItsOwn, ReadWindow, ReqAt
<1>2. oldWindow' \in [Readers -> 0..MaxWindow]
  BY DEF ReadWindow, UsageIInv, UsageTypeOK
<1>3. Alone'
  <2> SUFFICES ASSUME ~overlap' PROVE Alone'
    BY DEF Alone
  <2>1. \A p, q \in Fetching' : p = q
    BY AloneAfter DEF ReadWindow, ReqAt
  <2>2. \A q \in Readers : req'[q] = "compare" => q = r
    BY <2>1 DEF ReadWindow, ReqAt, Fetching, Ended, UsageIInv, UsageTypeOK
  <2>3. oldWindow'[r] = throttledWindow'
    BY DEF ReadWindow, throttleVars, UsageIInv, UsageTypeOK
  <2> QED
    BY <2>1, <2>2, <2>3 DEF Alone
<1> QED
  BY <1>1, <1>2, <1>3, AnswerIsItself, RequestKeeps
  DEF ReadWindow, UsageIInv, UsageTypeOK, throttleVars

LEMMA ResetThrottledKeeps ==
  ASSUME NEW r \in Readers, UsageIInv, ResetThrottled(r)
  PROVE  UsageIInv'
<1>1. \A a \in answer[r] : a.key = key[r]
  BY DEF UsageIInv, ServedItsOwn, ResetThrottled, ReqAt
<1>2. throttledCount' \in 0..MaxThrottled /\ throttledWindow' \in 0..MaxWindow
  BY UsageAssumption DEF ResetThrottled, throttleVars, UsageIInv, UsageTypeOK, Answers
<1>3. Alone'
  <2> SUFFICES ASSUME ~overlap' PROVE Alone'
    BY DEF Alone
  <2>1. \A p, q \in Fetching' : p = q
    BY AloneAfter DEF ResetThrottled, ReqAt
  <2>2. \A q \in Readers : req'[q] # "compare"
    BY <2>1 DEF ResetThrottled, ReqAt, Fetching, Ended, UsageIInv, UsageTypeOK
  <2> QED
    BY <2>1, <2>2 DEF Alone
<1> QED
  BY <1>1, <1>2, <1>3, AnswerIsItself, RequestKeeps
  DEF ResetThrottled, UsageIInv, UsageTypeOK

LEMMA StoreAnswerKeeps ==
  ASSUME NEW r \in Readers, UsageIInv, StoreAnswer(r)
  PROVE  UsageIInv'
<1>1. \A a \in answer[r] : a.key = key[r]
  BY DEF UsageIInv, ServedItsOwn, StoreAnswer, ReqAt
<1>2. Alone'
  BY AloneKeeps DEF StoreAnswer, throttleVars
<1>3. "served" \in Ended
  BY DEF Ended
<1> QED
  BY <1>1, <1>2, <1>3, AnswerIsItself, RequestKeeps
  DEF StoreAnswer, UsageIInv, UsageTypeOK, throttleVars

\* The cache ages, the upstream opens a window, a request is throttled.
LEMMA OthersKeep ==
  ASSUME UsageIInv, BumpThrottled \/ CacheAges \/ WindowChanges \/ UNCHANGED usageVars
  PROVE  UsageIInv'
<1>1. UNCHANGED <<endpoint, req, key, answer, oldWindow, cache, throttledWindow, overlap>>
  BY DEF BumpThrottled, CacheAges, WindowChanges, usageVars, throttleVars
<1>2. window' \in 1..MaxWindow
  BY UsageAssumption
  DEF BumpThrottled, CacheAges, WindowChanges, usageVars, UsageIInv, UsageTypeOK
<1>3. throttledCount' \in 0..MaxThrottled
  BY UsageAssumption
  DEF BumpThrottled, CacheAges, WindowChanges, usageVars, throttleVars, UsageIInv, UsageTypeOK
<1>4. young' \in BOOLEAN
  BY DEF BumpThrottled, CacheAges, WindowChanges, usageVars, UsageIInv, UsageTypeOK
<1> QED
  BY <1>1, <1>2, <1>3, <1>4 DEF UsageIInv, UsageTypeOK, ServedItsOwn, Alone, Fetching

LEMMA UsageInductive == UsageIInv /\ [UsageNext]_usageVars => UsageIInv'
  BY UseCachedKeeps, AskUpstreamKeeps, RepliedKeeps, FallbackKeeps, ReadWindowKeeps,
     ResetThrottledKeeps, StoreAnswerKeeps, OthersKeep
  DEF UsageNext

LEMMA UsageAlways == UsageSpec => []UsageIInv
  BY UsageInitial, UsageInductive, PTL DEF UsageSpec

------------------------------------------------------------------------------
\* The caches and the throttle count keep their types.
THEOREM UsageTypeCorrect == UsageSpec => []UsageTypeOK
  BY UsageAlways, PTL DEF UsageIInv

\* Whatever readers with other parameters put into the shared cache entry, a reader
\* is served its own parameters' answer, unless its call has failed.
THEOREM ReadersGetTheirOwn == UsageSpec => []ServedItsOwn
  BY UsageAlways, PTL DEF UsageIInv

\* Within a window throttled requests are forgotten only when two fetches have been
\* under way at once.
THEOREM ForgettingTakesTwo == UsageSpec => ForgottenOnlyByTwoFetches
<1> DEFINE Forgotten == throttledCount' < throttledCount /\ throttledWindow' = throttledWindow
<1>1. UsageIInv /\ [UsageNext]_usageVars => [Forgotten => overlap]_usageVars
  <2> SUFFICES ASSUME UsageIInv, UsageNext, Forgotten, ~overlap
               PROVE  FALSE
    OBVIOUS
  <2>1. throttledCount \in Nat /\ throttledCount' # throttledCount
    BY UsageAssumption DEF UsageIInv, UsageTypeOK
  <2>2. ~BumpThrottled
    BY <2>1 DEF BumpThrottled
  <2>3. PICK r \in Readers : ResetThrottled(r)
    BY <2>1, <2>2 DEF UsageNext, UseCached, AskUpstream, Replied, AskFailed, ParseFailed,
       ReadWindow, StoreAnswer, CacheAges, WindowChanges, throttleVars
  <2>4. PICK a \in answer[r] :
          /\ a.window # oldWindow[r]
          /\ throttledWindow' = a.window
    BY <2>1, <2>3 DEF ResetThrottled, throttleVars
  <2>5. oldWindow[r] = throttledWindow
    BY <2>3 DEF ResetThrottled, ReqAt, UsageIInv, Alone
  <2> QED
    BY <2>4, <2>5
<1> QED
  BY <1>1, UsageAlways, PTL DEF UsageSpec, ForgottenOnlyByTwoFetches

------------------------------------------------------------------------------
(***************************************************************************)
(* The models, for any callers, validators and versions: nobody is given   *)
(* less than was cached when it asked, and the model map does not go back  *)
(* behind the start of the fetch that replaces it.                         *)
(***************************************************************************)

Steps == {"idle", "look", "asked", "store", "failed", "apply", "finish", "delete", "wait",
          "return"}
Known == Published \cup {NoData}

\* The leader of the group's call, and what it may answer: the cached version, or
\* a failure when there is none.
InCall(c) == getter[c] \in {"look", "asked", "store", "failed", "apply", "finish", "delete"}
Good(v) == IF v = Failed THEN CachedVersion = NoData ELSE v = CachedVersion

AtMostOne(S) == S = {} \/ \E v : S = {v}

\* The group has one leader, and its value is out when it is about to leave.
OneLeader ==
  /\ \A c, d \in Callers : InCall(c) /\ InCall(d) => c = d
  /\ \A c \in Callers : InCall(c) => flight
  /\ \A c \in Callers : InCall(c) /\ leading # {} => getter[c] = "delete"
  /\ leading # {} => flight
  /\ \A v \in leading : Good(v)

\* Nothing is newer than what the upstream publishes.
BehindUpstream ==
  /\ modelMap <= published
  /\ CachedVersion <= published

\* What a fetch has brought is not older than the model map at its start.
FetchedIsNewer ==
  \A g \in Getters :
    /\ getter[g] = "asked" => before[g] <= published
    /\ getter[g] \in {"store", "apply"} =>
         result[g] \in Published /\ before[g] <= result[g] /\ result[g] <= published

\* And not older than the cached version, which only the leader replaces.
LeaderIsGood ==
  \A c \in Callers :
    /\ floor[c] <= CachedVersion
    /\ getter[c] = "store" => CachedVersion <= result[c]
    /\ getter[c] = "failed" => result[c] = Failed
    /\ getter[c] \in {"apply", "finish", "delete"} => Good(result[c])

CatalogIInv ==
  /\ CatalogTypeOK
  /\ AtMostOne(catalogCache)
  /\ AtMostOne(leading)
  /\ OneLeader
  /\ BehindUpstream
  /\ FetchedIsNewer
  /\ LeaderIsGood
  /\ NeverOlderThanCached

------------------------------------------------------------------------------
(* The cached version, and sets of at most one element. *)

LEMMA TheOnlyOne == \A v : (CHOOSE w \in {v} : TRUE) = v
  OBVIOUS

LEMMA CachedIsKnown ==
  ASSUME CatalogIInv
  PROVE  /\ CachedVersion \in Known
         /\ catalogCache = {} => CachedVersion = NoData
         /\ catalogCache \subseteq {CachedVersion}
<1>1. CASE catalogCache = {}
  BY <1>1 DEF CachedVersion, Known
<1>2. CASE catalogCache # {}
  <2>1. PICK v : catalogCache = {v}
    BY <1>2 DEF CatalogIInv, AtMostOne
  <2>2. CachedVersion = v
    BY <2>1, TheOnlyOne DEF CachedVersion
  <2> QED
    BY <2>1, <2>2 DEF CatalogIInv, CatalogTypeOK, Known
<1> QED
  BY <1>1, <1>2

LEMMA CacheKept ==
  ASSUME catalogCache' = catalogCache
  PROVE  CachedVersion' = CachedVersion
  BY DEF CachedVersion

LEMMA CacheReplaced ==
  ASSUME NEW v, catalogCache' = {v}
  PROVE  CachedVersion' = v
  BY TheOnlyOne DEF CachedVersion

LEMMA VersionsAreNumbers ==
  /\ Published \subseteq Nat \ {0} /\ NoData = 0 /\ Failed = -1
  /\ Known \subseteq Nat
  /\ 1 \in Published
  BY CatalogAssumption DEF Published, Known, NoData, Failed

LEMMA CatalogInitial == CatalogInit => CatalogIInv
<1> SUFFICES ASSUME CatalogInit PROVE CatalogIInv
  OBVIOUS
<1>1. CachedVersion = NoData
  BY DEF CachedVersion, CatalogInit
<1>2. CatalogTypeOK
  BY VersionsAreNumbers, OneIsFew DEF CatalogInit, CatalogTypeOK
<1>3. AtMostOne(catalogCache) /\ AtMostOne(leading)
  BY DEF AtMostOne, CatalogInit
<1>4. \A g \in Getters : getter[g] = "idle"
  BY DEF CatalogInit
<1>5. OneLeader
  BY <1>4 DEF OneLeader, InCall, Getters, CatalogInit
<1>6. BehindUpstream /\ FetchedIsNewer
  BY <1>1, <1>4, VersionsAreNumbers DEF BehindUpstream, FetchedIsNewer, CatalogInit
<1>7. LeaderIsGood /\ NeverOlderThanCached
  BY <1>1, <1>4, VersionsAreNumbers DEF LeaderIsGood, NeverOlderThanCached, Getters, CatalogInit
<1> QED
  BY <1>2, <1>3, <1>5, <1>6, <1>7 DEF CatalogIInv

------------------------------------------------------------------------------
(* One lemma per operation. *)

LEMMA JoinKeeps ==
  ASSUME NEW c \in Callers, CatalogIInv, Join(c)
  PROVE  CatalogIInv'
<1>0. /\ c \in Getters
      /\ getter[c] = "idle"
      /\ flight' = TRUE
      /\ UNCHANGED <<published, catalogCache, catalogYoung, modelMap, leading, before>>
      /\ floor' = [floor EXCEPT ![c] = CachedVersion]
      /\ CachedVersion' = CachedVersion
      /\ CachedVersion \in Known
  BY CacheKept, CachedIsKnown DEF Join, GetterAt, Getters, caches
<1>1. PICK to \in {"look", "wait", "return"} :
        /\ getter' = [getter EXCEPT ![c] = to]
        /\ to = "look" => ~flight /\ result' = result
        /\ to = "wait" => result' = result
        /\ to = "return" => \E v \in leading : result' = [result EXCEPT ![c] = v]
  BY DEF Join, GetterAt
<1>2. CatalogTypeOK'
  BY <1>0, <1>1 DEF CatalogIInv, CatalogTypeOK, Known
<1>3. OneLeader'
  BY <1>0, <1>1 DEF CatalogIInv, CatalogTypeOK, OneLeader, InCall, Good, Getters
<1>4. BehindUpstream' /\ FetchedIsNewer'
  BY <1>0, <1>1 DEF CatalogIInv, CatalogTypeOK, BehindUpstream, FetchedIsNewer, Getters
<1>5. LeaderIsGood'
  BY <1>0, <1>1, VersionsAreNumbers
  DEF CatalogIInv, CatalogTypeOK, LeaderIsGood, Good, Getters
<1>6. NeverOlderThanCached'
  BY <1>0, <1>1, VersionsAreNumbers
  DEF CatalogIInv, CatalogTypeOK, OneLeader, Good, NeverOlderThanCached, Getters
<1> QED
  BY <1>0, <1>2, <1>3, <1>4, <1>5, <1>6 DEF CatalogIInv, AtMostOne

LEMMA FinishKeeps ==
  ASSUME NEW c \in Callers, CatalogIInv, Finish(c)
  PROVE  CatalogIInv'
<1>0. /\ c \in Getters
      /\ getter[c] = "finish" /\ getter'[c] = "delete"
      /\ leading' = {result[c]}
      /\ UNCHANGED <<published, catalogCache, catalogYoung, modelMap, flight, floor, before>>
      /\ CachedVersion' = CachedVersion
      /\ CachedVersion \in Known
  BY CacheKept, CachedIsKnown DEF Finish, Getters, caches, CatalogIInv, CatalogTypeOK
<1>1. \A g \in Getters :
        \/ g = c /\ result'[g] = result[g]
        \/ /\ g \in Callers /\ getter[g] = "wait" /\ getter'[g] = "return"
           /\ result'[g] = result[c]
        \/ ~(g \in Callers /\ getter[g] = "wait") /\ g # c
           /\ getter'[g] = getter[g] /\ result'[g] = result[g]
  BY <1>0 DEF Finish
<1>2. Good(result[c])
  BY <1>0 DEF CatalogIInv, LeaderIsGood
<1>3. CatalogTypeOK'
  <2>1. getter' \in [Getters -> Steps] /\ result' \in [Getters -> Known \cup {Failed}]
    BY <1>0 DEF Finish, CatalogIInv, CatalogTypeOK, Steps, Known
  <2>2. leading' \subseteq Known \cup {Failed} /\ Cardinality(leading') <= 1
    BY <1>0, OneIsFew DEF CatalogIInv, CatalogTypeOK, Known
  <2> QED
    BY <1>0, <2>1, <2>2 DEF CatalogIInv, CatalogTypeOK, Steps, Known
<1>4. OneLeader'
  BY <1>0, <1>1, <1>2 DEF CatalogIInv, OneLeader, InCall, Good, Getters
<1>5. BehindUpstream' /\ FetchedIsNewer'
  BY <1>0, <1>1 DEF CatalogIInv, BehindUpstream, FetchedIsNewer
<1>6. LeaderIsGood'
  BY <1>0, <1>1, <1>2 DEF CatalogIInv, LeaderIsGood, Good, Getters
<1>7. NeverOlderThanCached'
  <2> SUFFICES ASSUME NEW d \in Callers, getter'[d] = "return"
               PROVE  IF result'[d] = Failed THEN floor'[d] = NoData ELSE result'[d] >= floor'[d]
    BY DEF NeverOlderThanCached
  <2>1. d \in Getters /\ floor'[d] = floor[d] /\ floor[d] \in Nat /\ floor[d] <= CachedVersion
    BY <1>0, VersionsAreNumbers DEF CatalogIInv, CatalogTypeOK, LeaderIsGood, Getters, Known
  <2>2. CASE getter[d] = "wait"
    BY <1>0, <1>1, <1>2, <2>1, <2>2, VersionsAreNumbers DEF Good
  <2>3. CASE getter[d] # "wait"
    BY <1>0, <1>1, <2>1, <2>3 DEF CatalogIInv, NeverOlderThanCached
  <2> QED
    BY <2>2, <2>3
<1> QED
  BY <1>0, <1>3, <1>4, <1>5, <1>6, <1>7 DEF CatalogIInv, AtMostOne

LEMMA DeleteKeeps ==
  ASSUME NEW c \in Callers, CatalogIInv, Delete(c)
  PROVE  CatalogIInv'
<1>0. /\ c \in Getters
      /\ getter[c] = "delete" /\ getter' = [getter EXCEPT ![c] = "return"]
      /\ flight' = FALSE /\ leading' = {}
      /\ UNCHANGED <<published, catalogCache, catalogYoung, modelMap, result, floor, before>>
      /\ CachedVersion' = CachedVersion
      /\ CachedVersion \in Known
  BY CacheKept, CachedIsKnown DEF Delete, GetterAt, Getters, caches
<1>1. CatalogTypeOK'
  BY <1>0, OneIsFew DEF CatalogIInv, CatalogTypeOK
<1>2. OneLeader'
  BY <1>0 DEF CatalogIInv, CatalogTypeOK, OneLeader, InCall, Getters
<1>3. BehindUpstream' /\ FetchedIsNewer'
  BY <1>0 DEF CatalogIInv, CatalogTypeOK, BehindUpstream, FetchedIsNewer
<1>4. LeaderIsGood'
  BY <1>0 DEF CatalogIInv, CatalogTypeOK, LeaderIsGood, Good, Getters
<1>5. NeverOlderThanCached'
  <2>1. Good(result[c]) /\ floor[c] <= CachedVersion /\ floor[c] \in Nat
    BY <1>0, VersionsAreNumbers DEF CatalogIInv, CatalogTypeOK, LeaderIsGood, Known
  <2> QED
    BY <1>0, <2>1, VersionsAreNumbers
    DEF CatalogIInv, CatalogTypeOK, NeverOlderThanCached, Good, Getters
<1> QED
  BY <1>0, <1>1, <1>2, <1>3, <1>4, <1>5 DEF CatalogIInv, AtMostOne

LEMMA LookUpKeeps ==
  ASSUME NEW c \in Callers, CatalogIInv, LookUp(c)
  PROVE  CatalogIInv'
<1>0. /\ c \in Getters
      /\ getter[c] = "look"
      /\ UNCHANGED <<published, catalogCache, catalogYoung, modelMap, flight, leading, floor>>
      /\ CachedVersion' = CachedVersion
      /\ CachedVersion \in Known
  BY CacheKept, CachedIsKnown DEF LookUp, GetterAt, Getters, caches
<1>1. \/ /\ getter' = [getter EXCEPT ![c] = "finish"]
         /\ result' = [result EXCEPT ![c] = CachedVersion] /\ before' = before
      \/ /\ getter' = [getter EXCEPT ![c] = "asked"]
         /\ before' = [before EXCEPT ![c] = modelMap] /\ result' = result
  BY DEF LookUp, GetterAt
<1>2. CatalogTypeOK'
  BY <1>0, <1>1 DEF CatalogIInv, CatalogTypeOK, Known
<1>3. OneLeader'
  BY <1>0, <1>1 DEF CatalogIInv, CatalogTypeOK, OneLeader, InCall, Good, Getters
<1>4. BehindUpstream' /\ FetchedIsNewer'
  BY <1>0, <1>1 DEF CatalogIInv, CatalogTypeOK, BehindUpstream, FetchedIsNewer
<1>5. LeaderIsGood'
  BY <1>0, <1>1, VersionsAreNumbers
  DEF CatalogIInv, CatalogTypeOK, LeaderIsGood, Good, Getters
<1>6. NeverOlderThanCached'
  BY <1>0, <1>1 DEF CatalogIInv, CatalogTypeOK, NeverOlderThanCached, Getters
<1> QED
  BY <1>0, <1>2, <1>3, <1>4, <1>5, <1>6 DEF CatalogIInv, AtMostOne

\* The fetch of a caller or a validator.
LEMMA FetchModelCatalogKeeps ==
  ASSUME NEW g \in Getters, CatalogIInv, FetchModelCatalog(g)
  PROVE  CatalogIInv'
<1>0. /\ getter[g] = "asked"
      /\ UNCHANGED <<published, catalogCache, catalogYoung, modelMap, flight, leading, floor,
                     before>>
      /\ CachedVersion' = CachedVersion
      /\ CachedVersion \in Known
  BY CacheKept, CachedIsKnown DEF FetchModelCatalog, GetterAt, caches
<1>1. \/ /\ getter' = [getter EXCEPT ![g] = "store"]
         /\ result' = [result EXCEPT ![g] = published]
      \/ /\ getter' = [getter EXCEPT ![g] = "failed"]
         /\ result' = [result EXCEPT ![g] = Failed]
  BY DEF FetchModelCatalog, GetterAt
<1>2. published \in Published /\ CachedVersion <= published /\ before[g] <= published
      /\ published <= published
  BY <1>0, VersionsAreNumbers DEF CatalogIInv, CatalogTypeOK, BehindUpstream, FetchedIsNewer
<1>3. CatalogTypeOK'
  BY <1>0, <1>1, <1>2 DEF CatalogIInv, CatalogTypeOK
<1>4. OneLeader'
  BY <1>0, <1>1 DEF CatalogIInv, CatalogTypeOK, OneLeader, InCall, Good, Getters
<1>5. BehindUpstream' /\ FetchedIsNewer'
  BY <1>0, <1>1, <1>2 DEF CatalogIInv, CatalogTypeOK, BehindUpstream, FetchedIsNewer
<1>6. LeaderIsGood'
  BY <1>0, <1>1, <1>2 DEF CatalogIInv, CatalogTypeOK, LeaderIsGood, Good, Getters
<1>7. NeverOlderThanCached'
  BY <1>0, <1>1 DEF CatalogIInv, CatalogTypeOK, NeverOlderThanCached, Getters
<1> QED
  BY <1>0, <1>3, <1>4, <1>5, <1>6, <1>7 DEF CatalogIInv, AtMostOne

\* The leader replaces the cached version by one that is not older.
LEMMA StoreCatalogKeeps ==
  ASSUME NEW c \in Callers, CatalogIInv, StoreCatalog(c)
  PROVE  CatalogIInv'
<1>0. /\ c \in Getters
      /\ getter[c] = "store" /\ getter' = [getter EXCEPT ![c] = "apply"]
      /\ catalogCache' = {result[c]} /\ catalogYoung' = TRUE
      /\ UNCHANGED <<published, modelMap, flight, leading, result, floor, before>>
      /\ CachedVersion' = result[c]
      /\ CachedVersion \in Known
  BY CacheReplaced, CachedIsKnown DEF StoreCatalog, GetterAt, Getters
<1>1. /\ result[c] \in Published /\ result[c] <= published
      /\ CachedVersion <= result[c]
      /\ leading = {}
      /\ \A d \in Callers : InCall(d) => d = c
  BY <1>0 DEF CatalogIInv, FetchedIsNewer, LeaderIsGood, OneLeader, InCall
<1>2. CatalogTypeOK' /\ AtMostOne(catalogCache') /\ AtMostOne(leading')
  BY <1>0, <1>1, OneIsFew DEF CatalogIInv, CatalogTypeOK, AtMostOne
<1>3. OneLeader'
  BY <1>0, <1>1 DEF CatalogIInv, CatalogTypeOK, OneLeader, InCall, Getters
<1>4. BehindUpstream' /\ FetchedIsNewer'
  BY <1>0, <1>1 DEF CatalogIInv, CatalogTypeOK, BehindUpstream, FetchedIsNewer
<1>5. LeaderIsGood'
  <2> SUFFICES ASSUME NEW d \in Callers
               PROVE  /\ floor'[d] <= CachedVersion'
                      /\ getter'[d] = "store" => CachedVersion' <= result'[d]
                      /\ getter'[d] = "failed" => result'[d] = Failed
                      /\ getter'[d] \in {"apply", "finish", "delete"} => Good(result[d])'
    BY DEF LeaderIsGood
  <2>1. d \in Getters /\ floor[d] \in Nat /\ floor[d] <= CachedVersion
    BY VersionsAreNumbers DEF CatalogIInv, CatalogTypeOK, LeaderIsGood, Getters, Known
  <2>2. floor'[d] <= CachedVersion'
    <3>1. CachedVersion \in Nat /\ result[c] \in Nat
      BY <1>0, <1>1, VersionsAreNumbers
    <3>2. floor[d] <= result[c]
      BY <1>1, <2>1, <3>1
    <3> QED
      BY <1>0, <3>2
  <2>3. CASE d = c
    BY <1>0, <1>1, <2>2, <2>3, VersionsAreNumbers DEF CatalogIInv, CatalogTypeOK, Good
  <2>4. CASE d # c
    BY <1>0, <1>1, <2>1, <2>2, <2>4 DEF CatalogIInv, CatalogTypeOK, InCall
  <2> QED
    BY <2>3, <2>4
<1>6. NeverOlderThanCached'
  BY <1>0 DEF CatalogIInv, CatalogTypeOK, NeverOlderThanCached, Getters
<1> QED
  BY <1>2, <1>3, <1>4, <1>5, <1>6 DEF CatalogIInv, AtMostOne

\* A failure leaves the cached version, and is cached where there is none.
LEMMA FetchFailedKeeps ==
  ASSUME NEW c \in Callers, CatalogIInv, FetchFailed(c)
  PROVE  CatalogIInv'
<1>0. /\ c \in Getters
      /\ getter[c] = "failed" /\ getter' = [getter EXCEPT ![c] = "finish"]
      /\ result[c] = Failed
      /\ UNCHANGED <<published, modelMap, flight, leading, floor, before>>
      /\ CachedVersion \in Known
  BY CachedIsKnown DEF FetchFailed, GetterAt, Getters, CatalogIInv, LeaderIsGood
<1>1. /\ CachedVersion' = CachedVersion
      /\ catalogCache' \subseteq Known /\ Cardinality(catalogCache') <= 1
      /\ AtMostOne(catalogCache') /\ catalogYoung' \in BOOLEAN
      /\ \/ result' = result /\ CachedVersion = NoData
         \/ result' = [result EXCEPT ![c] = CachedVersion]
  <2>1. CASE catalogCache = {}
    <3>1. catalogCache' = {NoData} /\ catalogYoung' = TRUE /\ result' = result
      BY <2>1 DEF FetchFailed
    <3>2. CachedVersion' = NoData /\ CachedVersion = NoData
      BY <2>1, <3>1, CacheReplaced, CachedIsKnown
    <3> QED
      BY <3>1, <3>2, OneIsFew DEF AtMostOne, Known
  <2>2. CASE catalogCache # {}
    <3>1. /\ result' = [result EXCEPT ![c] = CachedVersion]
          /\ UNCHANGED <<catalogCache, catalogYoung>>
      BY <2>2 DEF FetchFailed
    <3> QED
      BY <3>1, CacheKept DEF CatalogIInv, CatalogTypeOK, AtMostOne, Known
  <2> QED
    BY <2>1, <2>2
<1>2. CatalogTypeOK'
  <2>1. result' \in [Getters -> Known \cup {Failed}]
    BY <1>0, <1>1 DEF CatalogIInv, CatalogTypeOK, Known
  <2> QED
    BY <1>0, <1>1, <2>1 DEF CatalogIInv, CatalogTypeOK, Known
<1>3. OneLeader'
  BY <1>0, <1>1 DEF CatalogIInv, CatalogTypeOK, OneLeader, InCall, Good, Getters
<1>4. BehindUpstream' /\ FetchedIsNewer'
  BY <1>0, <1>1 DEF CatalogIInv, CatalogTypeOK, BehindUpstream, FetchedIsNewer
<1>5. LeaderIsGood'
  BY <1>0, <1>1, VersionsAreNumbers
  DEF CatalogIInv, CatalogTypeOK, LeaderIsGood, Good, Getters
<1>6. NeverOlderThanCached'
  BY <1>0, <1>1 DEF CatalogIInv, CatalogTypeOK, NeverOlderThanCached, Getters
<1> QED
  BY <1>0, <1>1, <1>2, <1>3, <1>4, <1>5, <1>6 DEF CatalogIInv, AtMostOne

\* The map is replaced by what the fetch has brought.
LEMMA ApplyKeeps ==
  ASSUME NEW g \in Getters, NEW to \in {"finish", "return"}, CatalogIInv,
         ApplyCatalogData(g, to), to = "return" => g \notin Callers
  PROVE  CatalogIInv'
<1>0. /\ getter[g] = "apply" /\ getter' = [getter EXCEPT ![g] = to]
      /\ modelMap' = result[g]
      /\ before' = [before EXCEPT ![g] = NoData]
      /\ UNCHANGED <<published, catalogCache, catalogYoung, flight, leading, result, floor>>
      /\ CachedVersion' = CachedVersion
      /\ CachedVersion \in Known
      /\ result[g] \in Published /\ result[g] <= published
  BY CacheKept, CachedIsKnown DEF ApplyCatalogData, GetterAt, caches, CatalogIInv, FetchedIsNewer
<1>1. CatalogTypeOK'
  BY <1>0 DEF CatalogIInv, CatalogTypeOK
<1>2. OneLeader'
  BY <1>0 DEF CatalogIInv, CatalogTypeOK, OneLeader, InCall, Good, Getters
<1>3. BehindUpstream' /\ FetchedIsNewer'
  BY <1>0 DEF CatalogIInv, CatalogTypeOK, BehindUpstream, FetchedIsNewer
<1>4. LeaderIsGood'
  BY <1>0 DEF CatalogIInv, CatalogTypeOK, LeaderIsGood, Good, Getters
<1>5. NeverOlderThanCached'
  BY <1>0 DEF CatalogIInv, CatalogTypeOK, NeverOlderThanCached, Getters
<1> QED
  BY <1>0, <1>1, <1>2, <1>3, <1>4, <1>5 DEF CatalogIInv, AtMostOne

\* A caller or a validator is done.
LEMMA ReturnKeeps ==
  ASSUME NEW g \in Getters, CatalogIInv,
         Return(g, "return") \/ (Return(g, "failed") /\ g \notin Callers),
         UNCHANGED <<published, caches, modelMap, flight, leading>>
  PROVE  CatalogIInv'
<1>0. /\ getter[g] = "return" \/ (getter[g] = "failed" /\ g \notin Callers)
      /\ getter' = [getter EXCEPT ![g] = "idle"]
      /\ result' = [result EXCEPT ![g] = NoData]
      /\ floor' = [floor EXCEPT ![g] = NoData]
      /\ before' = [before EXCEPT ![g] = NoData]
      /\ UNCHANGED <<published, catalogCache, catalogYoung, modelMap, flight, leading>>
      /\ CachedVersion' = CachedVersion
      /\ CachedVersion \in Nat
  BY CacheKept, CachedIsKnown, VersionsAreNumbers DEF Return, GetterAt, caches
<1>1. CatalogTypeOK'
  BY <1>0 DEF CatalogIInv, CatalogTypeOK
<1>2. OneLeader'
  BY <1>0 DEF CatalogIInv, CatalogTypeOK, OneLeader, InCall, Good, Getters
<1>3. BehindUpstream' /\ FetchedIsNewer'
  BY <1>0 DEF CatalogIInv, CatalogTypeOK, BehindUpstream, FetchedIsNewer
<1>4. LeaderIsGood'
  BY <1>0, VersionsAreNumbers DEF CatalogIInv, CatalogTypeOK, LeaderIsGood, Good, Getters
<1>5. NeverOlderThanCached'
  BY <1>0 DEF CatalogIInv, CatalogTypeOK, NeverOlderThanCached, Getters
<1> QED
  BY <1>0, <1>1, <1>2, <1>3, <1>4, <1>5 DEF CatalogIInv, AtMostOne

LEMMA GetCatalogDataKeeps ==
  ASSUME NEW c \in Callers, CatalogIInv, GetCatalogData(c)
  PROVE  CatalogIInv'
<1>1. c \in Getters
  BY DEF Getters
<1>2. CASE ReturnCatalog(c)
  <2>1. Return(c, "return") /\ UNCHANGED <<published, caches, modelMap, flight, leading>>
    BY <1>2 DEF ReturnCatalog
  <2> QED
    BY <1>1, <2>1, ReturnKeeps
<1>3. CASE ApplyCatalogData(c, "finish")
  BY <1>1, <1>3, ApplyKeeps
<1> QED
  BY <1>1, <1>2, <1>3, JoinKeeps, LookUpKeeps, FetchModelCatalogKeeps, StoreCatalogKeeps,
     FetchFailedKeeps, FinishKeeps, DeleteKeeps DEF GetCatalogData

LEMMA ValidateKeeps ==
  ASSUME NEW v \in Validators, CatalogIInv, ValidateApiKey(v)
  PROVE  CatalogIInv'
<1>0. v \in Getters /\ v \notin Callers
  BY CatalogAssumption DEF Getters
<1>1. CASE /\ \/ /\ GetterAt(v, "idle", "asked")
                 /\ before' = [before EXCEPT ![v] = modelMap]
              \/ /\ GetterAt(v, "store", "apply")
                 /\ before' = before
           /\ UNCHANGED <<published, caches, modelMap, flight, leading, result, floor>>
  <2>0. CachedVersion' = CachedVersion
    BY <1>1, CacheKept DEF caches
  <2>1. CatalogTypeOK'
    BY <1>0, <1>1 DEF GetterAt, caches, CatalogIInv, CatalogTypeOK
  <2>2. OneLeader'
    BY <1>0, <1>1, <2>0
    DEF GetterAt, caches, CatalogIInv, CatalogTypeOK, OneLeader, InCall, Good, Getters
  <2>3. BehindUpstream' /\ FetchedIsNewer'
    BY <1>0, <1>1, <2>0
    DEF GetterAt, caches, CatalogIInv, CatalogTypeOK, BehindUpstream, FetchedIsNewer
  <2>4. LeaderIsGood' /\ NeverOlderThanCached'
    BY <1>0, <1>1, <2>0
    DEF GetterAt, CatalogIInv, CatalogTypeOK, LeaderIsGood, NeverOlderThanCached, Good, Getters
  <2> QED
    BY <1>1, <2>1, <2>2, <2>3, <2>4 DEF CatalogIInv, AtMostOne, caches
<1>2. CASE ApplyCatalogData(v, "return")
  BY <1>0, <1>2, ApplyKeeps
<1>3. CASE /\ Return(v, "return") \/ Return(v, "failed")
           /\ UNCHANGED <<published, caches, modelMap, flight, leading>>
  BY <1>0, <1>3, ReturnKeeps
<1> QED
  BY <1>0, <1>1, <1>2, <1>3, FetchModelCatalogKeeps DEF ValidateApiKey

\* Time passes, and the upstream publishes a newer document.
LEMMA UpstreamKeeps ==
  ASSUME CatalogIInv,
         CatalogAges \/ (\E version \in Published : PublishCatalog(version))
           \/ UNCHANGED catalogVars
  PROVE  CatalogIInv'
<1>1. UNCHANGED <<catalogCache, modelMap, flight, leading, getter, result, floor, before>>
  BY DEF CatalogAges, PublishCatalog, catalogVars, caches
<1>2. published' \in Published /\ published <= published'
  <2>1. published \in Published /\ published \in Nat
    BY VersionsAreNumbers DEF CatalogIInv, CatalogTypeOK
  <2>2. CASE \E version \in Published : PublishCatalog(version)
    BY <2>1, <2>2 DEF PublishCatalog
  <2>3. CASE published' = published
    BY <2>1, <2>3
  <2> QED
    BY <2>2, <2>3 DEF CatalogAges, catalogVars
<1>3. catalogYoung' \in BOOLEAN
  BY DEF CatalogAges, PublishCatalog, catalogVars, caches, CatalogIInv, CatalogTypeOK
<1>4. CachedVersion' = CachedVersion /\ CachedVersion \in Nat
  BY <1>1, CacheKept, CachedIsKnown, VersionsAreNumbers
<1>5. CatalogTypeOK'
  BY <1>1, <1>2, <1>3 DEF CatalogIInv, CatalogTypeOK
<1>6. /\ published \in Nat /\ published' \in Nat /\ modelMap \in Nat
      /\ \A g \in Getters : before[g] \in Nat
  BY <1>2, VersionsAreNumbers DEF CatalogIInv, CatalogTypeOK, Known
<1>7. BehindUpstream'
  BY <1>1, <1>2, <1>4, <1>6 DEF CatalogIInv, BehindUpstream
<1>8. FetchedIsNewer'
  <2> SUFFICES ASSUME NEW g \in Getters
               PROVE  /\ getter'[g] = "asked" => before'[g] <= published'
                      /\ getter'[g] \in {"store", "apply"} =>
                           /\ result'[g] \in Published
                           /\ before'[g] <= result'[g] /\ result'[g] <= published'
    BY DEF FetchedIsNewer
  <2>1. getter[g] = "asked" => before[g] <= published'
    BY <1>2, <1>6 DEF CatalogIInv, FetchedIsNewer
  <2>2. getter[g] \in {"store", "apply"} => result[g] \in Nat /\ result[g] <= published
    BY VersionsAreNumbers DEF CatalogIInv, FetchedIsNewer
  <2>3. getter[g] \in {"store", "apply"} => result[g] <= published'
    BY <1>2, <1>6, <2>2
  <2> QED
    BY <1>1, <2>1, <2>3 DEF CatalogIInv, FetchedIsNewer
<1> QED
  BY <1>1, <1>4, <1>5, <1>7, <1>8
  DEF CatalogIInv, AtMostOne, OneLeader, InCall, Good, LeaderIsGood, NeverOlderThanCached

LEMMA CatalogInductive == CatalogIInv /\ [CatalogNext]_catalogVars => CatalogIInv'
  BY GetCatalogDataKeeps, ValidateKeeps, UpstreamKeeps DEF CatalogNext

LEMMA CatalogAlways == CatalogSpec => []CatalogIInv
  BY CatalogInitial, CatalogInductive, PTL DEF CatalogSpec

------------------------------------------------------------------------------
\* The cache, the group's call and the model map hold versions the upstream has
\* published, or nothing.
THEOREM CatalogTypeCorrect == CatalogSpec => []CatalogTypeOK
  BY CatalogAlways, PTL DEF CatalogIInv

\* A caller of GetCatalogData, whether it leads, waits or comes late, is not given
\* less than was cached when it asked.
THEOREM CallersGetNoOlder == CatalogSpec => []NeverOlderThanCached
  BY CatalogAlways, PTL DEF CatalogIInv

\* The model map goes back only to a version that was new when the fetch began.
THEOREM MapGoesBackOnlyByOverlap == CatalogSpec => ModelsGoBackOnlyByOverlap
<1> DEFINE Replaced == modelMap' # modelMap =>
                         \E g \in Getters : /\ getter[g] = "apply" /\ getter'[g] # "apply"
                                            /\ modelMap' >= before[g]
                                            /\ modelMap' # NoData
<1>1. CatalogIInv /\ [CatalogNext]_catalogVars => [Replaced]_catalogVars
  <2> SUFFICES ASSUME CatalogIInv, CatalogNext, modelMap' # modelMap
               PROVE  Replaced
    OBVIOUS
  <2>1. PICK g \in Getters, to \in {"finish", "return"} : ApplyCatalogData(g, to)
    BY DEF CatalogNext, GetCatalogData, ValidateApiKey, Join, LookUp, FetchModelCatalog,
       StoreCatalog, FetchFailed, Finish, Delete, ReturnCatalog, CatalogAges, PublishCatalog,
       Getters
  <2>2. getter[g] = "apply" /\ getter'[g] = to /\ modelMap' = result[g]
    BY <2>1 DEF ApplyCatalogData, GetterAt, CatalogIInv, CatalogTypeOK
  <2>3. result[g] \in Published /\ before[g] <= result[g] /\ before[g] \in Nat
    BY <2>2, VersionsAreNumbers DEF CatalogIInv, CatalogTypeOK, FetchedIsNewer, Known
  <2> QED
    BY <2>2, <2>3, VersionsAreNumbers
<1> QED
  BY <1>1, CatalogAlways, PTL DEF CatalogSpec, ModelsGoBackOnlyByOverlap
==============================================================================
