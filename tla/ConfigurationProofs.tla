------------------------ MODULE ConfigurationProofs --------------------------
(***************************************************************************)
(* Proofs about the configuration: its locks (ConfigLock) and its file     *)
(* (ConfigPersistence).                                                    *)
(***************************************************************************)
EXTENDS ConfigLock, ConfigPersistence, FiniteSetTheorems, TLAPS

------------------------------------------------------------------------------
(***************************************************************************)
(* The locks, for any resolvers, gaters and posters: a writer of the       *)
(* configuration is alone, however the readers nest, and nobody waits for  *)
(* ever but through the recursive read of ResolveModelId.                  *)
(***************************************************************************)

\* The read locks a goroutine holds at each of its steps.
Held(s) ==
  IF s \in {"first", "second"} THEN 2
  ELSE IF s \in {"outer", "between", "last", "reading"} THEN 1 ELSE 0

\* The inductive invariant: who holds or waits for what, by the step it is at.
LockIInv ==
  /\ LockTypeOK
  /\ \A g \in Goroutines : reads[g] = Held(step[g])
  /\ \A g \in Goroutines : step[g] \in {"waiting", "writing"} => g \in Posters /\ writer = g
  /\ writer # Nobody => step[writer] \in {"waiting", "writing"}
  /\ \A p \in Goroutines : step[p] = "writing" => \A g \in Goroutines : reads[g] = 0

LEMMA LockInitial == LockInit => LockIInv
  BY LockAssumption DEF LockInit, LockIInv, LockTypeOK, Held, Goroutines, Nobody

\* A read lock is only taken when no writer is announced.
LEMMA RLockKeeps ==
  ASSUME NEW g \in Resolvers \cup Gaters, NEW from, NEW to, LockIInv,
         Turn(g, from, to), RLock(g),
         \/ from = "idle" /\ to = "outer"
         \/ from = "outer" /\ to = "first"
         \/ from = "between" /\ to = "second"
         \/ from = "locked" /\ to = "reading"
  PROVE  LockIInv'
<1>1. g \in Goroutines /\ step[g] = from /\ writer = Nobody
  BY DEF Goroutines, Turn, RLock, MayRead
<1>2. \A p \in Goroutines : step[p] \notin {"waiting", "writing"}
  BY <1>1, LockAssumption DEF LockIInv, Nobody, MayRead
<1>3. \A p \in Goroutines : step'[p] \notin {"waiting", "writing"}
  BY <1>1, <1>2 DEF LockIInv, LockTypeOK, Turn
<1>4. LockTypeOK'
  BY <1>1 DEF LockIInv, LockTypeOK, Turn, RLock, MayRead, Held
<1>5. \A h \in Goroutines : reads'[h] = Held(step'[h])
  BY <1>1 DEF LockIInv, LockTypeOK, Turn, RLock, MayRead, Held
<1> QED
  BY <1>1, <1>3, <1>4, <1>5 DEF LockIInv, RLock, MayRead

\* A read lock that is given back takes nobody's place.
LEMMA RUnlockKeeps ==
  ASSUME NEW g \in Resolvers \cup Gaters, NEW from, NEW to, LockIInv,
         Turn(g, from, to), RUnlock(g),
         \/ from = "first" /\ to \in {"between", "last"}
         \/ from = "second" /\ to = "last"
         \/ from = "last" /\ to = "idle"
         \/ from = "reading" /\ to = "read"
  PROVE  LockIInv'
<1>1. g \in Goroutines /\ step[g] = from /\ reads[g] > 0
  BY DEF Goroutines, Turn, LockIInv, Held
<1>2. \A p \in Goroutines : step[p] # "writing"
  BY <1>1 DEF LockIInv
<1>3. \A p \in Goroutines :
        /\ step'[p] \in {"waiting", "writing"} => step'[p] = step[p]
        /\ step[p] \in {"waiting", "writing"} => step'[p] = step[p]
  BY <1>1 DEF LockIInv, LockTypeOK, Turn
<1>4. LockTypeOK'
  BY <1>1 DEF LockIInv, LockTypeOK, Turn, RUnlock, Held
<1>5. \A h \in Goroutines : reads'[h] = Held(step'[h])
  BY <1>1 DEF LockIInv, LockTypeOK, Turn, RUnlock, Held
<1>6. writer # Nobody => writer \in Goroutines
  BY DEF LockIInv, LockTypeOK, Goroutines
<1> QED
  BY <1>2, <1>3, <1>4, <1>5, <1>6 DEF LockIInv, RUnlock

LEMMA ResolveKeeps ==
  ASSUME NEW r \in Resolvers, LockIInv, Resolve(r)
  PROVE  LockIInv'
<1>1. CASE Turn(r, "idle", "outer") /\ RLock(r)
  BY <1>1, RLockKeeps
<1>2. CASE GetEffectiveModels(r, "outer", "first", {"between", "last"})
  BY <1>2, RLockKeeps, RUnlockKeeps DEF GetEffectiveModels
<1>3. CASE GetEffectiveModels(r, "between", "second", {"last"})
  BY <1>3, RLockKeeps, RUnlockKeeps DEF GetEffectiveModels
<1>4. CASE Turn(r, "last", "idle") /\ RUnlock(r)
  BY <1>4, RUnlockKeeps
<1> QED
  BY <1>1, <1>2, <1>3, <1>4 DEF Resolve

LEMMA ReadGateKeeps ==
  ASSUME NEW g \in Gaters, LockIInv, ReadGate(g)
  PROVE  LockIInv'
<1> USE DEF Goroutines
<1>1. CASE \/ Turn(g, "idle", "locked") /\ queueLock' = g
           \/ Turn(g, "read", "idle") /\ queueLock' = Nobody
  <2>1. UNCHANGED <<reads, writer>>
    BY <1>1 DEF ReadGate, Turn, RLock, RUnlock
  <2>2. /\ g \in Goroutines
        /\ step[g] \in {"idle", "read"}
        /\ \E to \in {"idle", "locked"} : step' = [step EXCEPT ![g] = to]
        /\ queueLock' \in Gaters \cup {Nobody}
    BY <1>1 DEF Turn
  <2> QED
    BY <2>1, <2>2 DEF LockIInv, LockTypeOK, Held
<1>2. CASE Turn(g, "locked", "reading") /\ RLock(g)
  BY <1>2, RLockKeeps
<1>3. CASE Turn(g, "reading", "read") /\ RUnlock(g)
  BY <1>3, RUnlockKeeps
<1> QED
  BY <1>1, <1>2, <1>3 DEF ReadGate

LEMMA PostConfigKeeps ==
  ASSUME NEW p \in Posters, LockIInv, PostConfig(p)
  PROVE  LockIInv'
<1> USE DEF Goroutines
<1>1. CASE Announce(p)
  <2>1. \A q \in Goroutines : step[q] \notin {"waiting", "writing"}
    BY <1>1, LockAssumption DEF Announce, MayRead, LockIInv, Nobody
  <2> QED
    BY <1>1, <2>1 DEF Announce, Turn, LockIInv, LockTypeOK, Held
<1>2. CASE Lock(p)
  BY <1>2 DEF Lock, MayWrite, Turn, LockIInv, LockTypeOK, Held
<1>3. CASE Unlock(p)
  <2>1. \A q \in Goroutines \ {p} : step[q] \notin {"waiting", "writing"}
    BY <1>3 DEF Unlock, Turn, LockIInv
  <2> QED
    BY <1>3, <2>1 DEF Unlock, Turn, LockIInv, LockTypeOK, Held
<1>4. CASE Signal(p)
  BY <1>4 DEF Signal, Turn, LockIInv, LockTypeOK, Held
<1> QED
  BY <1>1, <1>2, <1>3, <1>4 DEF PostConfig

LEMMA LockInductive == LockIInv /\ [LockNext]_lockVars => LockIInv'
<1> SUFFICES ASSUME LockIInv, [LockNext]_lockVars
             PROVE  LockIInv'
  OBVIOUS
<1>1. CASE \E r \in Resolvers : Resolve(r)
  BY <1>1, ResolveKeeps
<1>2. CASE \E g \in Gaters : ReadGate(g)
  BY <1>2, ReadGateKeeps
<1>3. CASE \E p \in Posters : PostConfig(p)
  BY <1>3, PostConfigKeeps
<1>4. CASE UNCHANGED lockVars
  BY <1>4 DEF lockVars, LockIInv, LockTypeOK, Held
<1> QED
  BY <1>1, <1>2, <1>3, <1>4 DEF LockNext, LockStep, Waiting

\* Nobody reads the configuration while a post writes it, for any number of
\* resolvers with their nested reads, of gaters and of posters.
THEOREM WritersAreAlone == LockSpec => []WriterIsAlone
<1>1. LockIInv => WriterIsAlone
  BY DEF LockIInv, WriterIsAlone, Goroutines
<1> QED
  BY <1>1, LockInitial, LockInductive, PTL DEF LockSpec

\* The locks of configMu and its readers and writers keep their types.
THEOREM LockTypeCorrect == LockSpec => []LockTypeOK
<1>1. LockIInv => LockTypeOK
  BY DEF LockIInv
<1> QED
  BY <1>1, LockInitial, LockInductive, PTL DEF LockSpec

------------------------------------------------------------------------------
(* Who can be blocked by whom. *)

\* Every goroutine is at a step of its own call.
OwnSteps ==
  /\ \A r \in Resolvers : step[r] \in {"idle", "outer", "first", "between", "second", "last"}
  /\ \A g \in Gaters : step[g] \in {"idle", "locked", "reading", "read"}
  /\ \A p \in Posters : step[p] \in {"idle", "waiting", "writing", "released"}

\* queueMu is held by a gater that is reading the gate.
QueueHeld == queueLock # Nobody => step[queueLock] \in {"locked", "reading", "read"}

LockOrder == LockIInv /\ OwnSteps /\ QueueHeld

\* A goroutine's step leaves the others at theirs.
LEMMA TurnMoves ==
  ASSUME LockTypeOK, NEW g \in Goroutines, NEW from, NEW to, Turn(g, from, to)
  PROVE  step[g] = from /\ step'[g] = to /\ \A h \in Goroutines : h # g => step'[h] = step[h]
BY DEF LockTypeOK, Turn

\* queueMu is taken before the gate is read, and no other goroutine's steps move
\* its holder.
LEMMA LockOrderKept ==
  ASSUME LockOrder, [LockNext]_lockVars
  PROVE  LockOrder'
<1> USE LockAssumption DEF LockOrder, OwnSteps, QueueHeld, Goroutines
<1>1. LockIInv' /\ LockTypeOK
  BY LockInductive DEF LockIInv
<1>2. ASSUME NEW r \in Resolvers, Resolve(r) PROVE OwnSteps' /\ QueueHeld'
  <2>1. UNCHANGED queueLock /\ \E from, to \in {"idle", "outer", "first", "between", "second", "last"} :
                                   Turn(r, from, to)
    BY <1>2 DEF Resolve, GetEffectiveModels, RLock, RUnlock
  <2> QED
    BY <1>1, <2>1, TurnMoves DEF LockTypeOK
<1>3. ASSUME NEW g \in Gaters, ReadGate(g) PROVE OwnSteps' /\ QueueHeld'
  <2>1. CASE Turn(g, "idle", "locked") /\ MayQueue /\ queueLock' = g
    BY <1>1, <2>1, TurnMoves
  <2>2. CASE Turn(g, "read", "idle") /\ queueLock' = Nobody
    BY <1>1, <2>2, TurnMoves
  <2>3. CASE UNCHANGED queueLock /\ Turn(g, "locked", "reading")
    <3>1. /\ step[g] = "locked" /\ step'[g] = "reading" /\ queueLock' = queueLock
          /\ \A h \in Goroutines : h # g => step'[h] = step[h]
      BY <1>1, <2>3, TurnMoves
    <3>2. OwnSteps'
      BY <3>1
    <3>3. QueueHeld'
      BY <1>1, <3>1 DEF LockTypeOK
    <3> QED
      BY <3>2, <3>3
  <2>4. CASE UNCHANGED queueLock /\ Turn(g, "reading", "read")
    <3>1. /\ step[g] = "reading" /\ step'[g] = "read" /\ queueLock' = queueLock
          /\ \A h \in Goroutines : h # g => step'[h] = step[h]
      BY <1>1, <2>4, TurnMoves
    <3>2. OwnSteps'
      BY <3>1
    <3>3. QueueHeld'
      BY <1>1, <3>1 DEF LockTypeOK
    <3> QED
      BY <3>2, <3>3
  <2> QED
    BY <1>3, <2>1, <2>2, <2>3, <2>4 DEF ReadGate, RLock, RUnlock
<1>4. ASSUME NEW p \in Posters, PostConfig(p) PROVE OwnSteps' /\ QueueHeld'
  <2>1. UNCHANGED queueLock /\ \E from, to \in {"idle", "waiting", "writing", "released"} :
                                   Turn(p, from, to)
    BY <1>4 DEF PostConfig, Announce, Lock, Unlock, Signal
  <2> QED
    BY <1>1, <2>1, TurnMoves DEF LockTypeOK
<1>5. CASE UNCHANGED lockVars
  BY <1>1, <1>5 DEF lockVars
<1> QED
  BY <1>1, <1>2, <1>3, <1>4, <1>5 DEF LockNext, LockStep, Waiting

\* The chain of who waits for whom: for queueMu one waits for a gater, a gater
\* for a writer, a writer for a reader, and a reader that is blocked is a resolver
\* between its two locks.
LEMMA BlockedChain ==
  ASSUME LockOrder
  PROVE  StuckOnlyByRecursion
<1> DEFINE busy == {g \in Goroutines : step[g] # "idle"}
<1> SUFFICES ASSUME NEW g \in busy, \A h \in busy : Blocked(h)
             PROVE  /\ \E r \in Resolvers : step[r] \in {"outer", "between"}
                    /\ \E p \in Posters : step[p] = "waiting"
  BY DEF StuckOnlyByRecursion
<1> USE DEF LockOrder
<1>1. writer # Nobody => /\ writer \in busy /\ writer \in Posters
                         /\ step[writer] = "waiting" /\ ~MayWrite
  <2> SUFFICES ASSUME writer # Nobody
               PROVE  /\ writer \in busy /\ writer \in Posters
                      /\ step[writer] = "waiting" /\ ~MayWrite
    OBVIOUS
  <2>1. writer \in Posters /\ step[writer] \in {"waiting", "writing"}
    BY DEF LockIInv, LockTypeOK
  <2>2. writer \in busy
    BY <2>1 DEF Goroutines
  <2> QED
    BY <2>1, <2>2 DEF Blocked
<1>2. ~MayWrite => \E r \in Resolvers : step[r] \in {"outer", "between"}
  <2> SUFFICES ASSUME NEW h \in Goroutines, reads[h] # 0
               PROVE  \E r \in Resolvers : step[r] \in {"outer", "between"}
    BY DEF MayWrite
  <2>1. step[h] \in {"first", "second", "outer", "between", "last", "reading"}
    BY DEF LockIInv, Held
  <2>2. Blocked(h)
    BY <2>1
  <2>3. step[h] \in {"outer", "between"}
    BY <2>1, <2>2 DEF Blocked
  <2> QED
    BY <2>3 DEF OwnSteps, Goroutines
<1>3. ~MayRead => \E p \in Posters : step[p] = "waiting" /\ ~MayWrite
  BY <1>1 DEF MayRead
<1>4. ~MayQueue => ~MayRead
  <2> SUFFICES ASSUME queueLock # Nobody PROVE ~MayRead
    BY DEF MayQueue
  <2>1. queueLock \in Gaters /\ step[queueLock] \in {"locked", "reading", "read"}
    BY DEF LockIInv, LockTypeOK, QueueHeld
  <2>2. Blocked(queueLock)
    BY <2>1 DEF Goroutines
  <2> QED
    BY <2>1, <2>2 DEF Blocked
<1>5. ~MayRead \/ (step[g] = "waiting" /\ ~MayWrite) \/ ~MayQueue
  BY DEF Blocked
<1>6. CASE step[g] = "waiting" /\ ~MayWrite
  BY <1>2, <1>6 DEF OwnSteps, Goroutines
<1> QED
  BY <1>2, <1>3, <1>4, <1>5, <1>6

\* For any number of goroutines: those inside a call are never all blocked but
\* through the recursive read with a post in between.
THEOREM BlockedOnlyThroughRecursion == LockSpec => []StuckOnlyByRecursion
<1>1. LockInit => LockOrder
  BY LockInitial, LockAssumption DEF LockInit, LockOrder, OwnSteps, QueueHeld, Goroutines
<1>2. LockOrder /\ [LockNext]_lockVars => LockOrder'
  BY LockOrderKept
<1>3. LockOrder => StuckOnlyByRecursion
  BY BlockedChain
<1> QED
  BY <1>1, <1>2, <1>3, PTL DEF LockSpec

------------------------------------------------------------------------------
(***************************************************************************)
(* The file, for any submitters, any finite set of saves and any number of *)
(* changes: what overlapping saves and swapped copies can do to the disk,  *)
(* and that nothing else can.                                              *)
(***************************************************************************)

OneAtMost(S) == S = {} \/ \E v : S = {v}

\* What is handed over has been in memory since the start of the process.
MemoryLeads ==
  /\ newest <= memory
  /\ \A p \in Submitters : copy[p] <= memory
  /\ \A v \in timer : v <= newest
  /\ \A s \in Savers : saver[s] # "idle" => saving[s] <= newest

\* No version is newer than the newest change.
BehindChanges ==
  /\ memory <= version
  /\ \A s \in Savers : saving[s] <= version
  /\ \A i \in Inodes : content[i] <= version

\* Posts to /config alone come one after the other, each with a current copy.
ConfigPostsAreSerial ==
  (\A p \in Submitters : kind[p] = "config") =>
    /\ \A p, q \in Submitters : poster[p] # "idle" /\ poster[q] # "idle" => p = q
    /\ \A p \in Submitters : poster[p] = "copied" => copy[p] = memory
    /\ "swap" \notin trouble

\* Without overlap the one save there is has the temporary file for itself, and the
\* other file is whole.
OneSaveAtATime ==
  "overlap" \notin trouble =>
    /\ \A s, t \in Savers : saver[s] # "idle" /\ saver[t] # "idle" => s = t
    /\ ~DiskTorn
    /\ tmp = NoFile \/ tmp # config
    /\ \A s \in Savers :
         /\ saver[s] \in {"opened", "written"} => tmp # NoFile /\ file[s] = tmp
         /\ saver[s] = "opened" => content[tmp] = Torn
         /\ saver[s] = "written" => content[tmp] = saving[s]

\* Without overlap and swap every version on its way to the disk is at least as new
\* as the one there, in the order in which they will arrive.
VersionsInOrder ==
  trouble \cap {"overlap", "swap"} = {} =>
    /\ Loaded <= memory
    /\ \A p \in Submitters : poster[p] = "copied" => Loaded <= copy[p] \/ Loaded <= newest
    /\ \A v \in timer : /\ Loaded <= v
                        /\ \A s \in Savers : saver[s] # "idle" => saving[s] <= v
    /\ \A s \in Savers : saver[s] # "idle" => Loaded <= saving[s]

PersistenceIInv ==
  /\ PersistenceTypeOK
  /\ OneAtMost(timer)
  /\ MemoryLeads
  /\ BehindChanges
  /\ ConfigPostsAreSerial
  /\ OneSaveAtATime
  /\ VersionsInOrder

------------------------------------------------------------------------------
(* What the operators give. *)

LEMMA FileVersionsAreNumbers ==
  /\ Versions \subseteq Nat /\ DefaultVersion \in Versions
  /\ DefaultVersion = 0 /\ NoFile = 0 /\ Torn = -1 /\ Torn \notin Versions
  /\ NoFile \notin Inodes
  BY PersistenceAssumption DEF Versions, DefaultVersion, NoFile, Torn, Inodes

LEMMA LoadedIsVersion ==
  ASSUME PersistenceTypeOK
  PROVE  Loaded \in Versions
  BY FileVersionsAreNumbers DEF PersistenceTypeOK, Loaded, DiskTorn

\* The file that is read changes only with its name or its content.
LEMMA LoadedKept ==
  ASSUME config' = config, config # NoFile => content'[config] = content[config]
  PROVE  Loaded' = Loaded /\ (DiskTorn' <=> DiskTorn)
  BY DEF Loaded, DiskTorn

\* More saves than can have a file open do not exist: there is always a new inode.
LEMMA InodesSuffice ==
  ASSUME PersistenceTypeOK, tmp = NoFile
  PROVE  /\ UnusedInode \in Inodes
         /\ UnusedInode # config
<1> DEFINE T == {file[s] : s \in Savers}
           X == T \cup {config}
           n == Cardinality(Savers)
<1>1. file \in Surjection(Savers, T)
  BY DEF Surjection, PersistenceTypeOK
<1>2. IsFiniteSet(T) /\ Cardinality(T) <= n
  BY <1>1, PersistenceAssumption, FS_Surjection
<1>3. n \in Nat /\ Cardinality(T) \in Nat
  BY <1>2, PersistenceAssumption, FS_CardinalityType
<1> HIDE DEF T, n
<1>4. IsFiniteSet(X) /\ Cardinality(X) <= n + 1
  BY <1>2, <1>3, FS_AddElement
<1>5. IsFiniteSet(Inodes) /\ Cardinality(Inodes) = n + 2
  <2>1. Inodes = 1..(n + 2)
    BY DEF Inodes, n
  <2>2. 1 \in Int /\ n + 2 \in Int /\ ~(1 > n + 2) /\ (n + 2) - 1 + 1 = n + 2
    BY <1>3
  <2> QED
    BY <2>1, <2>2, FS_Interval
<1>6. ~(Inodes \subseteq X)
  <2> SUFFICES ASSUME Inodes \subseteq X PROVE FALSE
    OBVIOUS
  <2>1. Cardinality(Inodes) <= Cardinality(X)
    BY <1>4, FS_Subset
  <2>2. Cardinality(X) \in Nat
    BY <1>4, FS_CardinalityType
  <2> QED
    BY <1>3, <1>4, <1>5, <2>1, <2>2
<1>7. \E i \in Inodes : i \notin {tmp, config} \cup {file[s] : s \in Savers}
  BY <1>6, FileVersionsAreNumbers DEF T
<1> QED
  BY <1>7 DEF UnusedInode

LEMMA OneTimerIsFew == Cardinality({}) <= 1 /\ \A v : Cardinality({v}) <= 1
  BY FS_EmptySet, FS_Singleton

LEMMA PersistenceInitial == PersistenceInit => PersistenceIInv
<1> SUFFICES ASSUME PersistenceInit PROVE PersistenceIInv
  OBVIOUS
<1> USE FileVersionsAreNumbers
<1>1. PersistenceTypeOK
  BY OneTimerIsFew DEF PersistenceInit, PersistenceTypeOK
<1>2. OneAtMost(timer) /\ MemoryLeads /\ BehindChanges
  BY DEF PersistenceInit, OneAtMost, MemoryLeads, BehindChanges
<1>3. ConfigPostsAreSerial
  BY DEF PersistenceInit, ConfigPostsAreSerial
<1>4. OneSaveAtATime
  BY DEF PersistenceInit, OneSaveAtATime, DiskTorn
<1>5. Loaded = DefaultVersion
  BY DEF PersistenceInit, Loaded
<1>6. VersionsInOrder
  BY <1>5 DEF PersistenceInit, VersionsInOrder
<1> QED
  BY <1>1, <1>2, <1>3, <1>4, <1>6 DEF PersistenceIInv

------------------------------------------------------------------------------
(* The steps of a post. *)

\* A post leaves the saves and the files alone, so it keeps what is said of them.
LEMMA PostLeavesSaves ==
  ASSUME PersistenceIInv, UNCHANGED <<saveVars, fileVars>>,
         "overlap" \in trouble' <=> "overlap" \in trouble
  PROVE  /\ OneSaveAtATime'
         /\ Loaded' = Loaded
<1>1. Loaded' = Loaded /\ (DiskTorn' <=> DiskTorn)
  BY LoadedKept DEF fileVars
<1> QED
  BY <1>1 DEF PersistenceIInv, OneSaveAtATime, saveVars, fileVars

LEMMA ChangeKeeps ==
  ASSUME NEW p \in Submitters, PersistenceIInv, ChangeFields(p) \/ ChangeKeys(p),
         UNCHANGED <<running, kind, saveVars, fileVars>>
  PROVE  PersistenceIInv'
<1>1. /\ poster[p] = "idle" /\ poster' = [poster EXCEPT ![p] = "changed"]
      /\ version < MaxVersion /\ version' = version + 1 /\ memory' = version + 1
      /\ UNCHANGED <<copy, timer, newest, trouble, running, kind, saver, saving, file>>
      /\ UNCHANGED <<content, tmp, config>>
      /\ kind[p] = "config" => \A q \in Submitters : ~HoldsConfigMu(q)
      /\ kind[p] \in {"config", "keys"}
  BY DEF ChangeFields, ChangeKeys, NewVersion, PosterAt, saveVars, fileVars
<1>2. Loaded' = Loaded /\ OneSaveAtATime'
  BY <1>1, PostLeavesSaves
<1>3. /\ version \in Nat /\ version + 1 \in Versions /\ memory \in Nat /\ memory <= version
      /\ newest \in Nat /\ Loaded \in Nat
      /\ \A q \in Submitters : copy[q] \in Nat /\ copy[q] <= memory
  BY <1>1, PersistenceAssumption, LoadedIsVersion, FileVersionsAreNumbers
  DEF PersistenceIInv, PersistenceTypeOK, MemoryLeads, BehindChanges, Versions, DefaultVersion
<1>4. PersistenceTypeOK'
  BY <1>1, <1>3 DEF PersistenceIInv, PersistenceTypeOK
<1>5. MemoryLeads'
  BY <1>1, <1>3 DEF PersistenceIInv, MemoryLeads
<1>6. BehindChanges'
  <2>1. \A s \in Savers : saving[s] \in Nat /\ saving[s] <= version
    BY FileVersionsAreNumbers DEF PersistenceIInv, PersistenceTypeOK, BehindChanges
  <2>2. \A i \in Inodes : content[i] \in Nat \cup {-1} /\ content[i] <= version
    BY FileVersionsAreNumbers DEF PersistenceIInv, PersistenceTypeOK, BehindChanges
  <2>3. \A s \in Savers : saving[s] <= version + 1
    BY <1>3, <2>1
  <2>4. \A i \in Inodes : content[i] <= version + 1
    BY <1>3, <2>2
  <2> QED
    BY <1>1, <1>3, <2>3, <2>4 DEF BehindChanges
<1>7. ConfigPostsAreSerial'
  BY <1>1 DEF PersistenceIInv, PersistenceTypeOK, ConfigPostsAreSerial, HoldsConfigMu
<1>8. VersionsInOrder'
  BY <1>1, <1>2, <1>3 DEF PersistenceIInv, PersistenceTypeOK, VersionsInOrder
<1> QED
  BY <1>1, <1>2, <1>4, <1>5, <1>6, <1>7, <1>8 DEF PersistenceIInv, OneAtMost

LEMMA RejectKeeps ==
  ASSUME NEW p \in Submitters, PersistenceIInv, RejectPost(p),
         UNCHANGED <<running, kind, saveVars, fileVars>>
  PROVE  PersistenceIInv'
<1>1. /\ poster[p] = "changed" /\ poster' = [poster EXCEPT ![p] = "idle"]
      /\ UNCHANGED <<memory, version, copy, timer, newest, trouble, running, kind, saver, saving, file>>
      /\ UNCHANGED <<content, tmp, config>>
  BY DEF RejectPost, PosterAt, saveVars, fileVars
<1>2. Loaded' = Loaded /\ OneSaveAtATime'
  BY <1>1, PostLeavesSaves
<1>3. PersistenceTypeOK'
  BY <1>1 DEF PersistenceIInv, PersistenceTypeOK
<1>4. MemoryLeads' /\ BehindChanges'
  BY <1>1 DEF PersistenceIInv, MemoryLeads, BehindChanges
<1>5. ConfigPostsAreSerial'
  BY <1>1 DEF PersistenceIInv, PersistenceTypeOK, ConfigPostsAreSerial
<1>6. VersionsInOrder'
  BY <1>1, <1>2 DEF PersistenceIInv, PersistenceTypeOK, VersionsInOrder
<1> QED
  BY <1>1, <1>2, <1>3, <1>4, <1>5, <1>6 DEF PersistenceIInv, OneAtMost

\* The copy is as new as the memory.
LEMMA CopyKeeps ==
  ASSUME NEW p \in Submitters, PersistenceIInv, Copy(p),
         UNCHANGED <<running, kind, saveVars, fileVars>>
  PROVE  PersistenceIInv'
<1>1. /\ poster[p] = "changed" /\ poster' = [poster EXCEPT ![p] = "copied"]
      /\ copy' = [copy EXCEPT ![p] = memory]
      /\ UNCHANGED <<memory, version, timer, newest, trouble, running, kind, saver, saving, file>>
      /\ UNCHANGED <<content, tmp, config>>
  BY DEF Copy, PosterAt, saveVars, fileVars
<1>2. Loaded' = Loaded /\ OneSaveAtATime' /\ memory \in Versions /\ memory <= memory
  BY <1>1, PostLeavesSaves, FileVersionsAreNumbers DEF PersistenceIInv, PersistenceTypeOK
<1>3. PersistenceTypeOK'
  BY <1>1, <1>2 DEF PersistenceIInv, PersistenceTypeOK
<1>4. MemoryLeads' /\ BehindChanges'
  BY <1>1, <1>2 DEF PersistenceIInv, PersistenceTypeOK, MemoryLeads, BehindChanges
<1>5. ConfigPostsAreSerial'
  BY <1>1 DEF PersistenceIInv, PersistenceTypeOK, ConfigPostsAreSerial
<1>6. VersionsInOrder'
  BY <1>1, <1>2 DEF PersistenceIInv, PersistenceTypeOK, VersionsInOrder
<1> QED
  BY <1>1, <1>2, <1>3, <1>4, <1>5, <1>6 DEF PersistenceIInv, OneAtMost

\* A copy that is older than one handed over before is a swap; one that is not is
\* newer than everything on its way.
LEMMA DebounceKeeps ==
  ASSUME NEW p \in Submitters, PersistenceIInv, Debounce(p),
         UNCHANGED <<running, kind, saveVars, fileVars>>
  PROVE  PersistenceIInv'
<1>1. /\ poster[p] = "copied" /\ poster' = [poster EXCEPT ![p] = "idle"]
      /\ timer' = {copy[p]}
      /\ newest' = IF copy[p] > newest THEN copy[p] ELSE newest
      /\ trouble' = IF copy[p] < newest THEN trouble \cup {"swap"} ELSE trouble
      /\ UNCHANGED <<memory, version, copy, running, kind, saver, saving, file>>
      /\ UNCHANGED <<content, tmp, config>>
  BY DEF Debounce, PosterAt, saveVars, fileVars
<1>2. Loaded' = Loaded /\ OneSaveAtATime'
  BY <1>1, PostLeavesSaves
<1>3. /\ copy[p] \in Versions /\ newest \in Versions /\ memory \in Versions
      /\ Loaded \in Versions
      /\ copy[p] \in Nat /\ newest \in Nat /\ Loaded \in Nat
      /\ copy[p] <= memory /\ newest <= memory
      /\ \A s \in Savers : saving[s] \in Nat
  BY LoadedIsVersion, FileVersionsAreNumbers DEF PersistenceIInv, PersistenceTypeOK, MemoryLeads
<1>4. PersistenceTypeOK'
  <2>1. newest' \in Versions /\ trouble' \subseteq {"overlap", "swap", "failure", "crash"}
    BY <1>1, <1>3 DEF PersistenceIInv, PersistenceTypeOK
  <2>2. timer' \subseteq Versions /\ Cardinality(timer') <= 1
    BY <1>1, <1>3, OneTimerIsFew
  <2> QED
    BY <1>1, <2>1, <2>2 DEF PersistenceIInv, PersistenceTypeOK
<1>5. MemoryLeads' /\ BehindChanges'
  <2>1. newest' \in Nat /\ newest <= newest' /\ newest' <= memory /\ copy[p] <= newest'
    BY <1>1, <1>3
  <2>2. \A s \in Savers : saver[s] # "idle" => saving[s] <= newest'
    BY <1>3, <2>1 DEF PersistenceIInv, MemoryLeads
  <2> QED
    BY <1>1, <2>1, <2>2 DEF PersistenceIInv, MemoryLeads, BehindChanges
<1>6. ConfigPostsAreSerial'
  <2> SUFFICES ASSUME \A q \in Submitters : kind[q] = "config"
               PROVE  /\ \A q, r \in Submitters :
                           poster'[q] # "idle" /\ poster'[r] # "idle" => q = r
                      /\ \A q \in Submitters : poster'[q] = "copied" => copy'[q] = memory'
                      /\ "swap" \notin trouble'
    BY <1>1 DEF ConfigPostsAreSerial
  <2>1. copy[p] = memory /\ "swap" \notin trouble
    BY <1>1 DEF PersistenceIInv, ConfigPostsAreSerial
  <2>2. ~(copy[p] < newest)
    BY <1>3, <2>1, FileVersionsAreNumbers
  <2> QED
    BY <1>1, <2>1, <2>2 DEF PersistenceIInv, PersistenceTypeOK, ConfigPostsAreSerial
<1>7. VersionsInOrder'
  <2> SUFFICES ASSUME trouble' \cap {"overlap", "swap"} = {}
               PROVE  /\ Loaded' <= memory'
                      /\ \A q \in Submitters : poster'[q] = "copied" =>
                           Loaded' <= copy'[q] \/ Loaded' <= newest'
                      /\ \A v \in timer' : /\ Loaded' <= v
                                           /\ \A s \in Savers : saver'[s] # "idle" => saving'[s] <= v
                      /\ \A s \in Savers : saver'[s] # "idle" => Loaded' <= saving'[s]
    BY DEF VersionsInOrder
  <2>1. ~(copy[p] < newest) /\ trouble' = trouble
    BY <1>1
  <2>2. newest <= copy[p] /\ newest <= newest'
    BY <1>1, <1>3, <2>1
  <2>3. Loaded <= copy[p]
    BY <1>1, <1>3, <2>1, <2>2 DEF PersistenceIInv, VersionsInOrder
  <2>4. \A s \in Savers : saver[s] # "idle" => saving[s] <= copy[p]
    BY <1>3, <2>2 DEF PersistenceIInv, MemoryLeads
  <2>5. \A q \in Submitters : poster'[q] = "copied" => Loaded <= copy[q] \/ Loaded <= newest'
    <3> SUFFICES ASSUME NEW q \in Submitters, poster'[q] = "copied"
                 PROVE  Loaded <= copy[q] \/ Loaded <= newest'
      OBVIOUS
    <3>1. poster[q] = "copied"
      BY <1>1 DEF PersistenceIInv, PersistenceTypeOK
    <3>2. Loaded <= copy[q] \/ Loaded <= newest
      BY <2>1, <3>1 DEF PersistenceIInv, VersionsInOrder
    <3> QED
      BY <1>1, <1>3, <2>2, <3>2
  <2> QED
    BY <1>1, <1>2, <2>1, <2>3, <2>4, <2>5 DEF PersistenceIInv, VersionsInOrder
<1> QED
  BY <1>1, <1>2, <1>4, <1>5, <1>6, <1>7 DEF PersistenceIInv, OneAtMost

LEMMA PostKeeps ==
  ASSUME NEW p \in Submitters, PersistenceIInv, Post(p)
  PROVE  PersistenceIInv'
  BY ChangeKeeps, RejectKeeps, CopyKeeps, DebounceKeeps DEF Post

------------------------------------------------------------------------------
(* The steps of a save. *)

\* What a save does not touch keeps.
LEMMA SaveLeavesPosts ==
  ASSUME PersistenceIInv, UNCHANGED <<running, kind, postVars>>,
         "swap" \in trouble' <=> "swap" \in trouble
  PROVE  ConfigPostsAreSerial'
  BY DEF PersistenceIInv, ConfigPostsAreSerial, postVars

LEMMA FireKeeps ==
  ASSUME NEW s \in Savers, PersistenceIInv, Fire(s), UNCHANGED <<running, kind, postVars>>
  PROVE  PersistenceIInv'
<1>1. PICK v \in timer :
        /\ saver[s] = "idle" /\ saver' = [saver EXCEPT ![s] = "started"]
        /\ timer' = timer \ {v}
        /\ saving' = [saving EXCEPT ![s] = v]
        /\ trouble' = IF \E t \in Savers : saver[t] # "idle" THEN trouble \cup {"overlap"}
                      ELSE trouble
        /\ UNCHANGED <<file, content, tmp, config>>
  BY DEF Fire, SaverAt, fileVars
<1>2. UNCHANGED <<memory, version, poster, copy, newest, running, kind>>
  BY DEF postVars
<1>3. /\ timer' = {}
      /\ v \in Versions /\ v <= newest /\ newest <= memory /\ memory <= version
      /\ v \in Nat /\ newest \in Nat /\ memory \in Nat /\ version \in Nat
  BY <1>1, FileVersionsAreNumbers
  DEF PersistenceIInv, PersistenceTypeOK, OneAtMost, MemoryLeads, BehindChanges
<1>4. Loaded' = Loaded /\ (DiskTorn' <=> DiskTorn)
  BY <1>1, LoadedKept
<1>5. PersistenceTypeOK'
  <2>1. trouble' \subseteq {"overlap", "swap", "failure", "crash"}
    BY <1>1 DEF PersistenceIInv, PersistenceTypeOK
  <2> QED
    BY <1>1, <1>2, <1>3, <2>1, OneTimerIsFew DEF PersistenceIInv, PersistenceTypeOK
<1>6. MemoryLeads' /\ BehindChanges'
  <2>1. v <= version
    BY <1>3
  <2> QED
    BY <1>1, <1>2, <1>3, <2>1
    DEF PersistenceIInv, PersistenceTypeOK, MemoryLeads, BehindChanges
<1>7. OneSaveAtATime'
  BY <1>1, <1>4 DEF PersistenceIInv, PersistenceTypeOK, OneSaveAtATime
<1>8. ConfigPostsAreSerial'
  BY <1>1, SaveLeavesPosts
<1>9. VersionsInOrder'
  BY <1>1, <1>2, <1>3, <1>4 DEF PersistenceIInv, PersistenceTypeOK, VersionsInOrder
<1> QED
  BY <1>3, <1>5, <1>6, <1>7, <1>8, <1>9 DEF PersistenceIInv, OneAtMost

LEMMA OpenKeeps ==
  ASSUME NEW s \in Savers, PersistenceIInv, Open(s), UNCHANGED <<running, kind, postVars>>
  PROVE  PersistenceIInv'
<1> DEFINE i == IF tmp = NoFile THEN UnusedInode ELSE tmp
<1>1. /\ saver[s] = "started" /\ saver' = [saver EXCEPT ![s] = "opened"]
      /\ tmp' = i
      /\ content' = [content EXCEPT ![i] = Torn]
      /\ file' = [file EXCEPT ![s] = i]
      /\ UNCHANGED <<timer, saving, config, trouble>>
      /\ UNCHANGED <<memory, version, poster, copy, newest, running, kind>>
  BY DEF Open, SaverAt, postVars
<1>2. i \in Inodes /\ i # NoFile
  BY InodesSuffice, FileVersionsAreNumbers DEF PersistenceIInv, PersistenceTypeOK
<1>3. "overlap" \notin trouble => i # config
  BY InodesSuffice, FileVersionsAreNumbers DEF PersistenceIInv, PersistenceTypeOK, OneSaveAtATime
<1> HIDE DEF i
<1>4. content' \in [Inodes -> Versions \cup {Torn}] /\ content'[i] = Torn
  BY <1>1, <1>2 DEF PersistenceIInv, PersistenceTypeOK
<1>5. "overlap" \notin trouble => Loaded' = Loaded /\ (DiskTorn' <=> DiskTorn)
  <2>1. "overlap" \notin trouble /\ config # NoFile => content'[config] = content[config]
    BY <1>1, <1>3 DEF PersistenceIInv, PersistenceTypeOK
  <2> QED
    BY <1>1, <2>1, LoadedKept
<1>6. PersistenceTypeOK'
  BY <1>1, <1>2, <1>4 DEF PersistenceIInv, PersistenceTypeOK
<1>7. MemoryLeads' /\ BehindChanges'
  <2>1. Torn <= version
    BY FileVersionsAreNumbers DEF PersistenceIInv, PersistenceTypeOK
  <2> QED
    BY <1>1, <2>1 DEF PersistenceIInv, PersistenceTypeOK, MemoryLeads, BehindChanges
<1>8. OneSaveAtATime'
  BY <1>1, <1>2, <1>3, <1>4, <1>5 DEF PersistenceIInv, PersistenceTypeOK, OneSaveAtATime
<1>9. ConfigPostsAreSerial'
  BY <1>1, SaveLeavesPosts
<1>10. VersionsInOrder'
  BY <1>1, <1>5 DEF PersistenceIInv, PersistenceTypeOK, VersionsInOrder
<1> QED
  BY <1>1, <1>6, <1>7, <1>8, <1>9, <1>10 DEF PersistenceIInv, OneAtMost

LEMMA WriteOutKeeps ==
  ASSUME NEW s \in Savers, PersistenceIInv, WriteOut(s), UNCHANGED <<running, kind, postVars>>
  PROVE  PersistenceIInv'
<1>1. /\ saver[s] = "opened" /\ saver' = [saver EXCEPT ![s] = "written"]
      /\ UNCHANGED <<timer, saving, file, tmp, config, trouble>>
      /\ UNCHANGED <<memory, version, poster, copy, newest, running, kind>>
  BY DEF WriteOut, SaverAt, postVars
<1>2. PICK c \in {saving[s]} \cup (IF content[file[s]] = Torn THEN {} ELSE {Torn}) :
        content' = [content EXCEPT ![file[s]] = c]
  BY DEF WriteOut
<1>3. saving[s] \in Versions /\ c \in Versions \cup {Torn} /\ c <= version
  BY <1>2, FileVersionsAreNumbers DEF PersistenceIInv, PersistenceTypeOK, BehindChanges
<1>4. "overlap" \notin trouble =>
        /\ file[s] = tmp /\ tmp # NoFile /\ tmp # config /\ tmp \in Inodes
        /\ c = saving[s]
        /\ content'[tmp] = saving[s]
  BY <1>1, <1>2 DEF PersistenceIInv, PersistenceTypeOK, OneSaveAtATime
<1>5. "overlap" \notin trouble => Loaded' = Loaded /\ (DiskTorn' <=> DiskTorn)
  <2>1. "overlap" \notin trouble /\ config # NoFile => content'[config] = content[config]
    BY <1>2, <1>4 DEF PersistenceIInv, PersistenceTypeOK
  <2> QED
    BY <1>1, <2>1, LoadedKept
<1>6. PersistenceTypeOK'
  BY <1>1, <1>2, <1>3 DEF PersistenceIInv, PersistenceTypeOK
<1>7. MemoryLeads' /\ BehindChanges'
  BY <1>1, <1>2, <1>3 DEF PersistenceIInv, PersistenceTypeOK, MemoryLeads, BehindChanges
<1>8. OneSaveAtATime'
  BY <1>1, <1>4, <1>5 DEF PersistenceIInv, PersistenceTypeOK, OneSaveAtATime
<1>9. ConfigPostsAreSerial'
  BY <1>1, SaveLeavesPosts
<1>10. VersionsInOrder'
  BY <1>1, <1>5 DEF PersistenceIInv, PersistenceTypeOK, VersionsInOrder
<1> QED
  BY <1>1, <1>6, <1>7, <1>8, <1>9, <1>10 DEF PersistenceIInv, OneAtMost

\* Without overlap the file that gets the name is whole, and not older.
LEMMA RenameKeeps ==
  ASSUME NEW s \in Savers, PersistenceIInv, Rename(s), UNCHANGED <<running, kind, postVars>>
  PROVE  /\ PersistenceIInv'
         /\ trouble \cap {"overlap", "swap"} = {} => Loaded <= Loaded'
<1>1. /\ saver[s] = "written" /\ saver' = [saver EXCEPT ![s] = "idle"]
      /\ file' = [file EXCEPT ![s] = NoFile]
      /\ saving' = [saving EXCEPT ![s] = DefaultVersion]
      /\ UNCHANGED <<timer, content, trouble>>
      /\ UNCHANGED <<memory, version, poster, copy, newest, running, kind>>
      /\ IF tmp = NoFile THEN UNCHANGED <<tmp, config>> ELSE config' = tmp /\ tmp' = NoFile
  BY DEF Rename, Closed, SaverAt, postVars
<1>2. "overlap" \notin trouble =>
        /\ tmp # NoFile /\ tmp \in Inodes /\ config' = tmp /\ tmp' = NoFile
        /\ content[tmp] = saving[s] /\ saving[s] \in Versions
        /\ \A t \in Savers : saver[t] # "idle" => t = s
  BY <1>1 DEF PersistenceIInv, PersistenceTypeOK, OneSaveAtATime
<1>3. "overlap" \notin trouble => Loaded' = saving[s] /\ ~DiskTorn'
  BY <1>1, <1>2, FileVersionsAreNumbers DEF Loaded, DiskTorn
<1>4. PersistenceTypeOK'
  BY <1>1, FileVersionsAreNumbers DEF PersistenceIInv, PersistenceTypeOK
<1>5. MemoryLeads' /\ BehindChanges'
  <2>1. DefaultVersion <= version
    BY FileVersionsAreNumbers DEF PersistenceIInv, PersistenceTypeOK
  <2> QED
    BY <1>1, <2>1 DEF PersistenceIInv, PersistenceTypeOK, MemoryLeads, BehindChanges
<1>6. OneSaveAtATime'
  BY <1>1, <1>2, <1>3 DEF PersistenceIInv, PersistenceTypeOK, OneSaveAtATime
<1>7. ConfigPostsAreSerial'
  BY <1>1, SaveLeavesPosts
<1>8. ASSUME trouble \cap {"overlap", "swap"} = {}
      PROVE  /\ Loaded <= Loaded' /\ Loaded' <= memory /\ Loaded' <= newest
             /\ \A v \in timer : Loaded' <= v
  <2>1. Loaded' = saving[s] /\ saving[s] \in Nat /\ newest \in Nat /\ memory \in Nat
    BY <1>2, <1>3, <1>8, FileVersionsAreNumbers DEF PersistenceIInv, PersistenceTypeOK
  <2>2. /\ Loaded <= saving[s] /\ saving[s] <= newest /\ newest <= memory
        /\ \A v \in timer : saving[s] <= v
    BY <1>1, <1>8 DEF PersistenceIInv, VersionsInOrder, MemoryLeads
  <2> QED
    BY <2>1, <2>2
<1>9. VersionsInOrder'
  <2> SUFFICES ASSUME trouble \cap {"overlap", "swap"} = {}
               PROVE  VersionsInOrder'
    BY <1>1 DEF VersionsInOrder
  <2>1. \A t \in Savers : saver'[t] = "idle"
    BY <1>1, <1>2 DEF PersistenceIInv, PersistenceTypeOK
  <2> QED
    BY <1>1, <1>8, <2>1 DEF VersionsInOrder
<1> QED
  BY <1>1, <1>4, <1>5, <1>6, <1>7, <1>8, <1>9 DEF PersistenceIInv, OneAtMost

LEMMA SaveFailsKeeps ==
  ASSUME NEW s \in Savers, PersistenceIInv, SaveFails(s), UNCHANGED <<running, kind, postVars>>
  PROVE  PersistenceIInv'
<1>1. /\ saver[s] \in {"opened", "written"} /\ saver' = [saver EXCEPT ![s] = "idle"]
      /\ file' = [file EXCEPT ![s] = NoFile]
      /\ saving' = [saving EXCEPT ![s] = DefaultVersion]
      /\ tmp' = tmp \/ tmp' = NoFile
      /\ trouble' = trouble \cup {"failure"}
      /\ UNCHANGED <<timer, content, config>>
      /\ UNCHANGED <<memory, version, poster, copy, newest, running, kind>>
  BY DEF SaveFails, Closed, SaverAt, postVars
<1>2. Loaded' = Loaded /\ (DiskTorn' <=> DiskTorn)
  BY <1>1, LoadedKept
<1>3. PersistenceTypeOK'
  BY <1>1, FileVersionsAreNumbers DEF PersistenceIInv, PersistenceTypeOK
<1>4. MemoryLeads' /\ BehindChanges'
  <2>1. DefaultVersion <= version
    BY FileVersionsAreNumbers DEF PersistenceIInv, PersistenceTypeOK
  <2> QED
    BY <1>1, <2>1 DEF PersistenceIInv, PersistenceTypeOK, MemoryLeads, BehindChanges
<1>5. OneSaveAtATime'
  BY <1>1, <1>2 DEF PersistenceIInv, PersistenceTypeOK, OneSaveAtATime
<1>6. ConfigPostsAreSerial'
  BY <1>1, SaveLeavesPosts
<1>7. VersionsInOrder'
  BY <1>1, <1>2 DEF PersistenceIInv, PersistenceTypeOK, VersionsInOrder
<1> QED
  BY <1>1, <1>3, <1>4, <1>5, <1>6, <1>7 DEF PersistenceIInv, OneAtMost

LEMMA SaveKeeps ==
  ASSUME NEW s \in Savers, PersistenceIInv, Save(s)
  PROVE  PersistenceIInv'
  BY FireKeeps, OpenKeeps, WriteOutKeeps, RenameKeeps, SaveFailsKeeps DEF Save

------------------------------------------------------------------------------
\* After a crash nothing is under way, and memory has what the disk had.
LEMMA RestartKeeps ==
  ASSUME PersistenceIInv, Restart
  PROVE  PersistenceIInv' /\ Loaded' = Loaded
<1>1. /\ running' \in BOOLEAN
      /\ memory' = Loaded
      /\ poster' = [p \in Submitters |-> "idle"]
      /\ copy' = [p \in Submitters |-> DefaultVersion]
      /\ timer' = {}
      /\ newest' = DefaultVersion
      /\ saver' = [s \in Savers |-> "idle"]
      /\ saving' = [s \in Savers |-> DefaultVersion]
      /\ file' = [s \in Savers |-> NoFile]
      /\ trouble' = trouble \cup {"crash"}
      /\ UNCHANGED <<version, kind, content, tmp, config>>
  BY DEF Restart, fileVars
<1>2. Loaded' = Loaded /\ (DiskTorn' <=> DiskTorn)
  BY <1>1, LoadedKept
<1>3. Loaded \in Versions /\ Loaded <= version /\ DefaultVersion <= Loaded
      /\ DefaultVersion <= version /\ Loaded <= Loaded
  <2>1. version \in Nat /\ Loaded \in Nat
    BY LoadedIsVersion, FileVersionsAreNumbers DEF PersistenceIInv, PersistenceTypeOK
  <2>2. Loaded <= version
    BY <2>1, FileVersionsAreNumbers
    DEF PersistenceIInv, PersistenceTypeOK, BehindChanges, Loaded, DiskTorn
  <2> QED
    BY <2>1, <2>2, LoadedIsVersion, FileVersionsAreNumbers DEF PersistenceIInv
<1>4. PersistenceTypeOK'
  BY <1>1, <1>3, OneTimerIsFew, FileVersionsAreNumbers DEF PersistenceIInv, PersistenceTypeOK
<1>5. MemoryLeads' /\ BehindChanges'
  BY <1>1, <1>3 DEF PersistenceIInv, MemoryLeads, BehindChanges
<1>6. OneSaveAtATime'
  BY <1>1, <1>2 DEF PersistenceIInv, OneSaveAtATime
<1>7. ConfigPostsAreSerial'
  BY <1>1 DEF PersistenceIInv, ConfigPostsAreSerial
<1>8. VersionsInOrder'
  BY <1>1, <1>2, <1>3 DEF VersionsInOrder
<1> QED
  BY <1>1, <1>2, <1>4, <1>5, <1>6, <1>7, <1>8 DEF PersistenceIInv, OneAtMost

LEMMA PersistenceInductive ==
  PersistenceIInv /\ [PersistenceNext]_persistVars => PersistenceIInv'
<1> SUFFICES ASSUME PersistenceIInv, [PersistenceNext]_persistVars
             PROVE  PersistenceIInv'
  OBVIOUS
<1>1. CASE UNCHANGED persistVars
  <2>1. Loaded' = Loaded /\ (DiskTorn' <=> DiskTorn)
    BY <1>1, LoadedKept DEF persistVars
  <2> QED
    BY <1>1, <2>1 DEF persistVars, PersistenceIInv, PersistenceTypeOK, OneAtMost, MemoryLeads,
       BehindChanges, ConfigPostsAreSerial, OneSaveAtATime, VersionsInOrder
<1> QED
  BY <1>1, PostKeeps, SaveKeeps, RestartKeeps DEF PersistenceNext

LEMMA PersistenceAlways == PersistenceSpec => []PersistenceIInv
  BY PersistenceInitial, PersistenceInductive, PTL DEF PersistenceSpec

------------------------------------------------------------------------------
\* The configuration, its saves and the two files keep their types: a save that
\* opens a file finds an inode.
THEOREM PersistenceTypeCorrect == PersistenceSpec => []PersistenceTypeOK
  BY PersistenceAlways, PTL DEF PersistenceIInv

\* A torn config.json takes two saves at once; no crash and no failed save tears it.
THEOREM TornTakesTwoSaves == PersistenceSpec => []TornOnlyByOverlap
<1>1. PersistenceIInv => TornOnlyByOverlap
  BY DEF PersistenceIInv, OneSaveAtATime, TornOnlyByOverlap
<1> QED
  BY <1>1, PersistenceAlways, PTL

\* Posts to /config alone hand their copies over in order.
THEOREM ConfigPostsKeepOrder == PersistenceSpec => []ConfigPostsSaveInOrder
<1>1. PersistenceIInv => ConfigPostsSaveInOrder
  BY DEF PersistenceIInv, PersistenceTypeOK, ConfigPostsAreSerial, ConfigPostsSaveInOrder
<1> QED
  BY <1>1, PersistenceAlways, PTL

\* The configuration on the disk goes back only by an overlap or a swap.
THEOREM DiskGoesBackOnlyByRaces == PersistenceSpec => DiskNeverGoesBack
<1> DEFINE Back == Loaded' < Loaded => trouble' \cap {"overlap", "swap"} # {}
<1>1. PersistenceIInv /\ [PersistenceNext]_persistVars => [Back]_persistVars
  <2> SUFFICES ASSUME PersistenceIInv, PersistenceNext, trouble' \cap {"overlap", "swap"} = {}
               PROVE  ~(Loaded' < Loaded)
    OBVIOUS
  <2>0. Loaded \in Nat /\ Loaded' \in Nat
    <3>1. PersistenceTypeOK'
      BY PersistenceInductive DEF PersistenceIInv
    <3>2. Loaded' \in Versions
      BY <3>1, FileVersionsAreNumbers DEF PersistenceTypeOK, Loaded, DiskTorn
    <3> QED
      BY <3>2, LoadedIsVersion, FileVersionsAreNumbers DEF PersistenceIInv
  <2>1. CASE \E p \in Submitters : Post(p)
    BY <2>0, <2>1, LoadedKept DEF Post, fileVars
  <2>2. ASSUME NEW s \in Savers, Save(s)
        PROVE  ~(Loaded' < Loaded)
    <3> USE <2>2
    <3>1. UNCHANGED <<running, kind, postVars>>
      BY DEF Save
    <3>2. CASE Fire(s) \/ SaveFails(s)
      BY <2>0, <3>2, LoadedKept DEF Fire, SaveFails, fileVars
    <3>3. CASE Rename(s)
      BY <2>0, <3>1, <3>3, RenameKeeps DEF Rename
    <3>4. CASE Open(s) \/ WriteOut(s)
      <4>1. "overlap" \notin trouble /\ config' = config
        BY <3>4 DEF Open, WriteOut
      <4>2. config # NoFile => content'[config] = content[config]
        <5>1. CASE Open(s)
          <6> DEFINE i == IF tmp = NoFile THEN UnusedInode ELSE tmp
          <6>1. i # config
            BY <4>1, InodesSuffice DEF PersistenceIInv, OneSaveAtATime
          <6>2. content' = [content EXCEPT ![i] = Torn]
            BY <5>1 DEF Open
          <6> HIDE DEF i
          <6> QED
            BY <6>1, <6>2 DEF PersistenceIInv, PersistenceTypeOK
        <5>2. CASE WriteOut(s)
          BY <4>1, <5>2
          DEF WriteOut, SaverAt, PersistenceIInv, PersistenceTypeOK, OneSaveAtATime
        <5> QED
          BY <3>4, <5>1, <5>2
      <4> QED
        BY <2>0, <4>1, <4>2, LoadedKept
    <3> QED
      BY <3>2, <3>3, <3>4 DEF Save
  <2>3. CASE Restart
    BY <2>0, <2>3, RestartKeeps
  <2> QED
    BY <2>1, <2>2, <2>3 DEF PersistenceNext
<1> QED
  BY <1>1, PersistenceAlways, PTL DEF PersistenceSpec, DiskNeverGoesBack
==============================================================================
