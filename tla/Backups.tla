------------------------------- MODULE Backups -------------------------------
(***************************************************************************)
(* Snapshots of the database (operations_backup.go): the daily and the     *)
(* manual backup, one at a time, each pruning the folder before and after  *)
(* it.  A snapshot is numbered by its creation time, which is the order    *)
(* the list is sorted in; its files are "partial" while it is written and  *)
(* verified, "file" afterwards, and "manifest" once it may be listed.      *)
(***************************************************************************)
EXTENDS Integers, FiniteSets

CONSTANTS Last,              \* bound: snapshots ever started
          DailyRetention, ManualRetention,
          Budget,            \* bytes the folder may hold
          MaxBytes           \* bytes of the largest snapshot

ASSUME BackupBounds ==
  /\ {Last, DailyRetention, ManualRetention, Budget, MaxBytes} \subseteq Nat \ {0}
  /\ (ManualRetention + 1) * MaxBytes <= Budget

VARIABLES files,     \* the folder: [Snapshots -> SUBSET Parts]
          about,     \* what the manifest says, and whether the copy is sound
          taken,     \* number of the last snapshot
          job        \* what holds the manager's lock

backupVars == <<files, about, taken, job>>

Snapshots == 1..Last
Kinds == {"daily", "manual"}
Parts == {"partial", "file", "manifest"}
Unlocked == [pc |-> "idle"]
Nothing == [kind |-> "manual", bytes |-> 1, sound |-> FALSE]

BackupTypeOK ==
  /\ files \in [Snapshots -> SUBSET Parts]
  /\ about \in [Snapshots -> [kind : Kinds, bytes : 1..MaxBytes, sound : BOOLEAN]]
  /\ taken \in 0..Last
  /\ job \in [pc : {"copy", "verify", "manifest", "tidy"}, kind : Kinds]
             \cup [pc : {"prune"}, kind : Kinds, doomed : SUBSET Snapshots, next : {"copy", "idle"}]
             \cup {Unlocked}

BackupInit ==
  /\ files = [i \in Snapshots |-> {}]
  /\ about = [i \in Snapshots |-> Nothing]
  /\ taken = 0
  /\ job = Unlocked

\* manifest and list: only a file with its manifest is a backup.
Listed == {i \in Snapshots : {"file", "manifest"} \subseteq files[i]}

\* prune reads the list once, the newest first.  A backup counts against the
\* retention of its kind, and against the budget only with those kept so far.
Retention(k) == IF k = "daily" THEN DailyRetention ELSE ManualRetention
Fits(i, bytes) == bytes + about[i].bytes <= Budget \/ bytes = 0
Recent(i) ==
  Cardinality({j \in Listed : j >= i /\ about[j].kind = about[i].kind}) <= Retention(about[i].kind)
KeptBytes[i \in 1..Last + 1] ==
  IF i > Last THEN 0
  ELSE KeptBytes[i + 1]
       + IF i \in Listed /\ Recent(i) /\ Fits(i, KeptBytes[i + 1]) THEN about[i].bytes ELSE 0
Doomed == {i \in Listed : ~(Recent(i) /\ Fits(i, KeptBytes[i + 1]))}

Pruning(k, next) == [pc |-> "prune", kind |-> k, doomed |-> Doomed, next |-> next]

\* create takes the lock, or another backup is busy with it.
BackupBegins(k) ==
  /\ job = Unlocked /\ taken < Last
  /\ job' = Pruning(k, "copy")
  /\ UNCHANGED <<files, about, taken>>

BackupTidies ==
  /\ job.pc = "tidy"
  /\ job' = Pruning(job.kind, "idle")
  /\ UNCHANGED <<files, about, taken>>

\* The file goes first; what is left of it is no longer listed.
PruneRemoves ==
  /\ job.pc = "prune" /\ job.doomed # {}
  /\ LET i == CHOOSE i \in job.doomed : \A j \in job.doomed : j <= i
     IN \/ /\ "file" \in files[i]
           /\ files' = [files EXCEPT ![i] = @ \ {"file"}]
           /\ about' = [about EXCEPT ![i] = Nothing] /\ UNCHANGED job
        \/ /\ "file" \notin files[i]
           /\ files' = [files EXCEPT ![i] = {}]
           /\ job' = [job EXCEPT !.doomed = @ \ {i}] /\ UNCHANGED about
  /\ UNCHANGED taken

PruneEnds ==
  /\ job.pc = "prune" /\ job.doomed = {}
  /\ job' = IF job.next = "copy" THEN [pc |-> "copy", kind |-> job.kind] ELSE Unlocked
  /\ UNCHANGED <<files, about, taken>>

\* snapshotSQLite, into a file that no reader takes for a backup.
BackupCopies ==
  /\ job.pc = "copy"
  /\ taken' = taken + 1
  /\ files' = [files EXCEPT ![taken'] = {"partial"}]
  /\ \E bytes \in 1..MaxBytes, sound \in BOOLEAN :
       about' = [about EXCEPT ![taken'] = [kind |-> job.kind, bytes |-> bytes, sound |-> sound]]
  /\ job' = [job EXCEPT !.pc = "verify"]

Discard ==
  /\ files' = [files EXCEPT ![taken] = {}]
  /\ about' = [about EXCEPT ![taken] = Nothing]
  /\ job' = Unlocked

\* verifySnapshot opens a restored copy; only then is the file renamed.
PassesUnread(i) == TRUE
PassesRehearsal(i) == about[i].sound

BackupVerifies ==
  /\ job.pc = "verify"
  /\ \/ /\ PassesRehearsal(taken)
        /\ files' = [files EXCEPT ![taken] = {"file"}]
        /\ job' = [job EXCEPT !.pc = "manifest"] /\ UNCHANGED about
     \/ /\ ~PassesRehearsal(taken)
        /\ Discard
  /\ UNCHANGED taken

\* Without its manifest the file is withdrawn again; with it, the folder is
\* pruned a second time.
BackupListed ==
  /\ job.pc = "manifest"
  /\ files' = [files EXCEPT ![taken] = {"file", "manifest"}]
  /\ job' = [job EXCEPT !.pc = "tidy"]
  /\ UNCHANGED <<about, taken>>

\* An error at any step gives the lock back; the deferred removal takes the
\* copy away, and a manifest that could not be saved takes the file with it.
BackupFails ==
  /\ \/ job.pc \in {"verify", "manifest"} /\ Discard
     \/ job.pc \in {"prune", "copy"} /\ job' = Unlocked /\ UNCHANGED <<files, about>>
  /\ UNCHANGED taken

\* The process stops: nothing is cleaned up, then or at the next start.
BackupCrash == job # Unlocked /\ job' = Unlocked /\ UNCHANGED <<files, about, taken>>

BackupNext ==
  \/ \E k \in Kinds : BackupBegins(k)
  \/ PruneRemoves \/ PruneEnds \/ BackupTidies
  \/ BackupCopies \/ BackupVerifies \/ BackupListed
  \/ BackupFails \/ BackupCrash

BackupSpec == BackupInit /\ [][BackupNext]_backupVars

\* A point to restore from is never lost: whatever is pruned, fails or stops
\* half-way, there is a sound backup at least as new as each one before, and a
\* daily one at least as new as each daily one.
Usable == {i \in Listed : about[i].sound}
RestorePointStands ==
  [][\A i \in Usable : \E j \in Usable' :
        j >= i /\ (about[i].kind = "daily" => about'[j].kind = "daily")]_backupVars
=============================================================================
