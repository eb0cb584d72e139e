--------------------------- MODULE ConfigPersistence ---------------------------
(***************************************************************************)
(* The configuration in memory, the debounced save, the two files it goes  *)
(* through, and what is loaded after a restart.  A version is the number   *)
(* of the newest change a configuration has wholly: DefaultVersion is the  *)
(* built-in one.                                                           *)
(*                                                                         *)
(* Grain.  A post is three steps: it changes the fields, copies the        *)
(* configuration, and arms the timer.  HandleConfigPost holds configMu     *)
(* over the three, HandleKeysPost holds no lock; a copy that races with a  *)
(* change counts as the version before it.  The copy shares the array of   *)
(* Keys with the configuration in memory, so that a later update or        *)
(* deletion of a key shows in it too, after a deletion with the last key   *)
(* twice; that is left out, and a copy keeps its version.  saveConfig is   *)
(* three calls of the file system: open with truncation, write, rename.    *)
(* Two saves use the same name for the temporary file, so files are inodes *)
(* here, and the two names refer to them.                                  *)
(*                                                                         *)
(* Environment variables, which LoadConfig puts over the file, are left    *)
(* out, and so is a RequestTimeout in the file that ends the process.      *)
(***************************************************************************)
EXTENDS Integers, FiniteSets

CONSTANTS
  Submitters,     \* callers of HandleConfigPost and HandleKeysPost
  Savers,         \* goroutines that time.AfterFunc starts
  MaxVersion      \* bound on the changes

ASSUME PersistenceAssumption ==
  /\ IsFiniteSet(Savers)
  /\ MaxVersion \in Nat

VARIABLES
  running,        \* the process runs: main ends over a torn file
  memory,         \* the version in memory
  version,        \* the newest version there has been
  poster, kind,   \* program counter and endpoint of each poster
  copy,           \* the copy it hands to debouncedSaveConfig
  timer,          \* {} or the version saveTimer will save
  newest,         \* history: the newest version a timer was armed with
  saver,          \* program counter of each save
  saving,         \* the version it saves
  file,           \* the inode it has open
  content,        \* of each inode: a version, or Torn
  tmp, config,    \* the inodes of config.json.tmp and config.json, or NoFile
  trouble         \* history: what else has happened

persistVars == <<running, memory, version, poster, kind, copy, timer, newest, saver, saving,
                 file, content, tmp, config, trouble>>

postVars == <<memory, version, poster, copy, newest>>
saveVars == <<saver, saving, file>>
fileVars == <<content, tmp, config>>

DefaultVersion == 0
Versions == DefaultVersion..MaxVersion
Torn == -1
NoFile == 0
Inodes == 1 .. Cardinality(Savers) + 2

PersistenceTypeOK ==
  /\ running \in BOOLEAN
  /\ memory \in Versions
  /\ version \in Versions
  /\ poster \in [Submitters -> {"idle", "changed", "copied"}]
  /\ kind \in [Submitters -> {"config", "keys"}]
  /\ copy \in [Submitters -> Versions]
  /\ timer \subseteq Versions /\ Cardinality(timer) <= 1
  /\ newest \in Versions
  /\ saver \in [Savers -> {"idle", "started", "opened", "written"}]
  /\ saving \in [Savers -> Versions]
  /\ file \in [Savers -> Inodes \cup {NoFile}]
  /\ content \in [Inodes -> Versions \cup {Torn}]
  /\ tmp \in Inodes \cup {NoFile}
  /\ config \in Inodes \cup {NoFile}
  /\ trouble \subseteq {"overlap", "swap", "failure", "crash"}

PersistenceInit ==
  /\ running = TRUE
  /\ memory = DefaultVersion
  /\ version = DefaultVersion
  /\ poster = [p \in Submitters |-> "idle"]
  /\ kind \in [Submitters -> {"config", "keys"}]
  /\ copy = [p \in Submitters |-> DefaultVersion]
  /\ timer = {}
  /\ newest = DefaultVersion
  /\ saver = [s \in Savers |-> "idle"]
  /\ saving = [s \in Savers |-> DefaultVersion]
  /\ file = [s \in Savers |-> NoFile]
  /\ content = [i \in Inodes |-> Torn]
  /\ tmp = NoFile
  /\ config = NoFile
  /\ trouble = {}

DiskTorn == config # NoFile /\ content[config] = Torn

\* What LoadConfig gives for the file as it is: for a torn one the built-in
\* configuration, beside the error that main ends on.
Loaded == IF config = NoFile \/ DiskTorn THEN DefaultVersion ELSE content[config]

------------------------------------------------------------------------------
(* The posts. *)

PosterAt(p, from, to) ==
  /\ poster[p] = from
  /\ poster' = [poster EXCEPT ![p] = to]

\* A mutant: configMu is released after the copy.
HoldsConfigMuToCopy(p) == kind[p] = "config" /\ poster[p] = "changed"

HoldsConfigMu(p) == kind[p] = "config" /\ poster[p] # "idle"

NewVersion ==
  /\ version < MaxVersion
  /\ version' = version + 1
  /\ memory' = version'
  /\ UNCHANGED <<copy, timer, newest, trouble>>

\* HandleConfigPost takes configMu and assigns the fields the body has.
ChangeFields(p) ==
  /\ kind[p] = "config"
  /\ \A q \in Submitters : ~HoldsConfigMu(q)
  /\ PosterAt(p, "idle", "changed")
  /\ NewVersion

\* HandleKeysPost adds, updates or deletes a key, under no lock.
ChangeKeys(p) ==
  /\ kind[p] = "keys"
  /\ PosterAt(p, "idle", "changed")
  /\ NewVersion

\* A field that is out of range ends the post: the fields before it stay changed,
\* and nothing is saved.
RejectPost(p) ==
  /\ kind[p] = "config"
  /\ PosterAt(p, "changed", "idle")
  /\ UNCHANGED <<memory, version, copy, timer, newest, trouble>>

Copy(p) ==
  /\ PosterAt(p, "changed", "copied")
  /\ copy' = [copy EXCEPT ![p] = memory]
  /\ UNCHANGED <<memory, version, timer, newest, trouble>>

\* A mutant: the earlier timer is not stopped.
DebounceUnstopped(p) ==
  /\ PosterAt(p, "copied", "idle")
  /\ timer' = timer \cup {copy[p]}
  /\ newest' = IF copy[p] > newest THEN copy[p] ELSE newest
  /\ trouble' = IF copy[p] < newest THEN trouble \cup {"swap"} ELSE trouble
  /\ UNCHANGED <<memory, version, copy>>

\* A mutant: an armed timer is kept with the copy it has.
DebounceKeepsFirst(p) ==
  /\ PosterAt(p, "copied", "idle")
  /\ timer' = IF timer = {} THEN {copy[p]} ELSE timer
  /\ newest' = IF copy[p] > newest THEN copy[p] ELSE newest
  /\ trouble' = IF copy[p] < newest THEN trouble \cup {"swap"} ELSE trouble
  /\ UNCHANGED <<memory, version, copy>>

\* debouncedSaveConfig: the timer that was armed before is stopped.
Debounce(p) ==
  /\ PosterAt(p, "copied", "idle")
  /\ timer' = {copy[p]}
  /\ newest' = IF copy[p] > newest THEN copy[p] ELSE newest
  /\ trouble' = IF copy[p] < newest THEN trouble \cup {"swap"} ELSE trouble
  /\ UNCHANGED <<memory, version, copy>>

Post(p) ==
  /\ running
  /\ ChangeFields(p) \/ ChangeKeys(p) \/ RejectPost(p) \/ Copy(p) \/ Debounce(p)
  /\ UNCHANGED <<running, kind, saveVars, fileVars>>

------------------------------------------------------------------------------
(* The saves. *)

SaverAt(s, from, to) ==
  /\ saver[s] = from
  /\ saver' = [saver EXCEPT ![s] = to]

\* The timer fires.  A save that takes longer than the next debounce is still
\* running then.
Fire(s) ==
  \E v \in timer :
    /\ SaverAt(s, "idle", "started")
    /\ timer' = timer \ {v}
    /\ saving' = [saving EXCEPT ![s] = v]
    /\ trouble' = IF \E t \in Savers : saver[t] # "idle" THEN trouble \cup {"overlap"}
                  ELSE trouble
    /\ UNCHANGED <<file, fileVars>>

UnusedInode ==
  CHOOSE i \in Inodes : i \notin {tmp, config} \cup {file[s] : s \in Savers}

\* A mutant: config.json itself is opened.
OpenInPlace(s) ==
  LET i == IF config = NoFile THEN UnusedInode ELSE config
  IN  /\ SaverAt(s, "started", "opened")
      /\ config' = i
      /\ content' = [content EXCEPT ![i] = Torn]
      /\ file' = [file EXCEPT ![s] = i]
      /\ UNCHANGED <<timer, saving, tmp, trouble>>

Open(s) ==
  LET i == IF tmp = NoFile THEN UnusedInode ELSE tmp
  IN  /\ SaverAt(s, "started", "opened")
      /\ tmp' = i
      /\ content' = [content EXCEPT ![i] = Torn]
      /\ file' = [file EXCEPT ![s] = i]
      /\ UNCHANGED <<timer, saving, config, trouble>>

\* Over the text of another save the tail of the longer one stays.
WriteOut(s) ==
  /\ SaverAt(s, "opened", "written")
  /\ \E c \in {saving[s]} \cup (IF content[file[s]] = Torn THEN {} ELSE {Torn}) :
       content' = [content EXCEPT ![file[s]] = c]
  /\ UNCHANGED <<timer, saving, file, tmp, config, trouble>>

Closed(s) ==
  /\ SaverAt(s, "written", "idle")
  /\ file' = [file EXCEPT ![s] = NoFile]
  /\ saving' = [saving EXCEPT ![s] = DefaultVersion]

\* The name may be gone with another save's rename, and this one fails then.
Rename(s) ==
  /\ Closed(s)
  /\ IF tmp = NoFile THEN UNCHANGED <<tmp, config>>
     ELSE config' = tmp /\ tmp' = NoFile
  /\ UNCHANGED <<timer, content, trouble>>

\* A failed write leaves the temporary file, a failed rename removes it.  Nobody
\* hears of the failure.
SaveFails(s) ==
  /\ \/ /\ saver[s] = "opened"
        /\ saver' = [saver EXCEPT ![s] = "idle"]
        /\ file' = [file EXCEPT ![s] = NoFile]
        /\ saving' = [saving EXCEPT ![s] = DefaultVersion]
        /\ UNCHANGED tmp
     \/ Closed(s) /\ tmp' = NoFile
  /\ trouble' = trouble \cup {"failure"}
  /\ UNCHANGED <<timer, content, config>>

Save(s) ==
  /\ running
  /\ Fire(s) \/ Open(s) \/ WriteOut(s) \/ Rename(s) \/ SaveFails(s)
  /\ UNCHANGED <<running, kind, postVars>>

------------------------------------------------------------------------------
\* The process ends, by a crash or by an orderly shutdown that does not wait for
\* the timer, and starts again with what LoadConfig reads.  Over a torn file main
\* ends with the error, as often as it is started.
Restart ==
  /\ running
  /\ running' = ~DiskTorn
  /\ memory' = Loaded
  /\ poster' = [p \in Submitters |-> "idle"]
  /\ copy' = [p \in Submitters |-> DefaultVersion]
  /\ timer' = {}
  /\ newest' = DefaultVersion
  /\ saver' = [s \in Savers |-> "idle"]
  /\ saving' = [s \in Savers |-> DefaultVersion]
  /\ file' = [s \in Savers |-> NoFile]
  /\ trouble' = trouble \cup {"crash"}
  /\ UNCHANGED <<version, kind, fileVars>>

PersistenceNext ==
  \/ \E p \in Submitters : Post(p)
  \/ \E s \in Savers : Save(s)
  \/ Restart

PersistenceFairness ==
  /\ \A p \in Submitters : WF_persistVars(Post(p) /\ poster[p] # "idle")
  /\ \A s \in Savers : WF_persistVars(Save(s))

PersistenceSpec == PersistenceInit /\ [][PersistenceNext]_persistVars
PersistenceFairSpec == PersistenceSpec /\ PersistenceFairness

------------------------------------------------------------------------------
\* A crash at any moment leaves a whole configuration on the disk ("Atomic
\* write", config.go, line 271), unless two saves ran at once: they share the
\* temporary file, and one can rename what the other has just truncated.
TornOnlyByOverlap == DiskTorn => "overlap" \in trouble

\* The configuration on the disk does not go back to an older version, whatever
\* timers are stopped, saves fail and restarts come in between, unless two saves
\* ran at once or two copies were handed over in the wrong order.
DiskNeverGoesBack ==
  [][Loaded' < Loaded => trouble' \cap {"overlap", "swap"} # {}]_persistVars

\* configMu is held until the timer is armed, so that posts to /config alone hand
\* their copies over in order; HandleKeysPost is what can swap them.
ConfigPostsSaveInOrder ==
  "swap" \in trouble => \E p \in Submitters : kind[p] = "keys"

\* What has been accepted gets saved, or something newer does, when no crash, no
\* failed save, no overlap and no swap comes in between.
AcceptedIsSaved ==
  newest > Loaded ~> (newest <= Loaded \/ trouble # {})
==============================================================================
