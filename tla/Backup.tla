------------------------------- MODULE Backup -------------------------------
(***************************************************************************)
(* The configuration backups of one device (internal/backup): the runner's *)
(* schedule, the debounced trigger of a "config changed" log line, the     *)
(* operator's "back up now", and the version store with its index file.    *)
(* A backup is stamped before its SSH session and stored after it; a       *)
(* crash may fall between the files Put writes.  A configuration is a      *)
(* number; its text, its normalisation, its hash and the line counts of a  *)
(* change are abstracted to whether two configurations differ.             *)
(***************************************************************************)
EXTENDS Integers, Sequences, FiniteSets, SequencesExt

CONSTANTS
    MaxTime,        \* bound on the clock
    MaxConfigs,     \* bound on the configurations the device gets
    MaxSessions,    \* backups under way at once (Concurrency, and the console's)
    Every,          \* BackupEvery
    Soon,           \* Trigger's two minutes
    Keep            \* Store.Keep

ASSUME BackupAssumption ==
    /\ {MaxTime, MaxConfigs, MaxSessions, Every, Soon, Keep} \subseteq Nat \ {0}
    /\ Keep > 1         \* 50 in the code

VARIABLES
    time,
    config,         \* the device's configuration
    backupNext,     \* Runner.next: <<>> or <<time>>
    busy,           \* Runner.running
    failing,        \* Runner.failing
    sessions,       \* backups under way: [id, stamp, by, got]
    putting,        \* Store.mu: the session whose Put holds it and how far it is
    index,          \* devIndex.Versions in memory, <<>> while not loaded
    lastTry,        \* devIndex.Status.LastTry in memory, -1 when never
    disk,           \* index.json: [versions, lastTry]
    files,          \* the .txt.gz files: stamp -> configuration
    backupUp,
    wanted,         \* a trigger that no backup has yet answered
    shared          \* two backups were stamped in the same second

backupVars == <<time, config, backupNext, busy, failing, sessions, putting, index, lastTry, disk, files, backupUp, wanted, shared>>

Stamp == 0 .. MaxTime
Free == [at |-> "free"]
Never == -1
Version(s) == [id |-> s.stamp, cfg |-> s.got]
NoFiles == [t \in {} |-> 0]
NoIndex == [versions |-> <<>>, lastTry |-> Never]
NewIds == 1 .. MaxSessions

----------------------------------------------------------------------------
(* The runner: every 30 seconds it looks at the device.  The first look     *)
(* takes the time from the last stored attempt, else spreads it.           *)

FirstNext(t) ==
    /\ backupUp /\ backupNext = <<>>
    /\ IF lastTry # Never /\ time - lastTry < Every THEN t = lastTry + Every ELSE t \in {time, time + 1}
    /\ backupNext' = <<t>>
    /\ UNCHANGED <<time, config, busy, failing, sessions, putting, index, lastTry, disk, files, backupUp, wanted, shared>>

\* Backup begins: the stamp is taken, then the session is opened.
Begins(by) ==
    \E i \in NewIds :
        /\ \A s \in sessions : s.id # i
        /\ sessions' = sessions \cup {[id |-> i, stamp |-> time, by |-> by, got |-> 0]}
        /\ shared' = \/ shared \/ time \in DOMAIN files
                     \/ (\E s \in sessions : s.stamp = time)
                     \/ (\E v \in DOMAIN index : index[v].id = time)

Due ==
    /\ backupUp /\ backupNext # <<>> /\ backupNext[1] <= time /\ ~busy
    /\ busy' = TRUE
    /\ backupNext' = <<time + Every>>
    /\ wanted' = FALSE
    /\ Begins("schedule")
    /\ UNCHANGED <<time, config, failing, putting, index, lastTry, disk, files, backupUp>>

\* POST .../backup: neither the schedule nor the running flag is looked at.
BackupNow ==
    /\ backupUp /\ Begins("user")
    /\ UNCHANGED <<time, config, backupNext, busy, failing, putting, index, lastTry, disk, files, backupUp, wanted>>

\* Mutant: a trigger is dropped while a backup runs.
TriggerUnlessBusy ==
    /\ backupUp
    /\ backupNext' = IF ~busy /\ (backupNext = <<>> \/ backupNext[1] > time + Soon) THEN <<time + Soon>> ELSE backupNext
    /\ wanted' = TRUE
    /\ UNCHANGED <<time, config, busy, failing, sessions, putting, index, lastTry, disk, files, backupUp, shared>>

\* A "config changed" line: a backup in about two minutes, unless one is due before.
Trigger ==
    /\ backupUp
    /\ backupNext' = IF backupNext = <<>> \/ backupNext[1] > time + Soon THEN <<time + Soon>> ELSE backupNext
    /\ wanted' = TRUE
    /\ UNCHANGED <<time, config, busy, failing, sessions, putting, index, lastTry, disk, files, backupUp, shared>>

\* Fetch: the configuration as the device has it at that moment.
FetchConfig(s) ==
    /\ s \in sessions /\ s.got = 0
    /\ sessions' = (sessions \ {s}) \cup {[s EXCEPT !.got = config]}
    /\ UNCHANGED <<time, config, backupNext, busy, failing, putting, index, lastTry, disk, files, backupUp, wanted, shared>>

Ends(s) ==
    /\ sessions' = sessions \ {s}
    /\ busy' = IF s.by = "schedule" THEN FALSE ELSE busy

\* The session fails, or brings nothing: Store.Fail keeps the attempt with the index.
FetchFails(s) ==
    /\ s \in sessions /\ s.got = 0 /\ putting = Free
    /\ lastTry' = s.stamp
    /\ disk' = [versions |-> index, lastTry |-> s.stamp]
    /\ failing' = TRUE
    /\ Ends(s)
    /\ UNCHANGED <<time, config, backupNext, putting, index, files, backupUp, wanted, shared>>

----------------------------------------------------------------------------
(* Store.Put, under Store.mu: the file, the versions beyond Keep, the index. *)

\* The configuration of the newest version, 0 when there is none.
Stored == IF index = <<>> THEN 0 ELSE Last(index).cfg

PutSame(s) ==
    /\ s \in sessions /\ s.got # 0 /\ putting = Free
    /\ s.got = Stored
    /\ lastTry' = s.stamp
    /\ disk' = [versions |-> index, lastTry |-> s.stamp]
    /\ failing' = FALSE
    /\ Ends(s)
    /\ UNCHANGED <<time, config, backupNext, putting, index, files, backupUp, wanted, shared>>

PutFile(s) ==
    /\ s \in sessions /\ s.got # 0 /\ putting = Free
    /\ s.got # Stored
    /\ files' = [t \in DOMAIN files \cup {s.stamp} |-> IF t = s.stamp THEN s.got ELSE files[t]]
    /\ lastTry' = s.stamp
    /\ index' = Append(index, Version(s))
    /\ putting' = [at |-> "cap", s |-> s]
    /\ UNCHANGED <<time, config, backupNext, busy, failing, sessions, disk, backupUp, wanted, shared>>

\* Mutant: the version taken off is the newest.
DroppedNewest == Last(index)
Dropped == index[1]

PutCap ==
    /\ putting.at = "cap" /\ Len(index) > Keep
    /\ files' = [t \in DOMAIN files \ {Dropped.id} |-> files[t]]
    /\ index' = Tail(index)
    /\ UNCHANGED <<time, config, backupNext, busy, failing, sessions, putting, lastTry, disk, backupUp, wanted, shared>>

PutIndex ==
    /\ putting.at = "cap" /\ Len(index) <= Keep
    /\ disk' = [versions |-> index, lastTry |-> lastTry]
    /\ failing' = FALSE
    /\ Ends(putting.s)
    /\ putting' = Free
    /\ UNCHANGED <<time, config, backupNext, index, lastTry, files, backupUp, wanted, shared>>

\* DELETE of the device: the schedule and the history go; a session under way stays and its Put starts a new history.
ForgetBackups ==
    /\ backupUp /\ putting = Free /\ (backupNext # <<>> \/ index # <<>>)
    /\ backupNext' = <<>> /\ busy' = FALSE /\ failing' = FALSE /\ wanted' = FALSE
    /\ index' = <<>> /\ lastTry' = Never /\ disk' = NoIndex /\ files' = NoFiles
    /\ UNCHANGED <<time, config, sessions, putting, backupUp, shared>>

----------------------------------------------------------------------------
BackupCrash ==
    /\ backupUp /\ backupUp' = FALSE
    /\ backupNext' = <<>> /\ busy' = FALSE /\ failing' = FALSE /\ wanted' = FALSE
    /\ sessions' = {} /\ putting' = Free /\ index' = <<>> /\ lastTry' = Never
    /\ UNCHANGED <<time, config, disk, files, shared>>

\* Open, and the index read at the device's first use (loadLocked).
OpenBackups ==
    /\ ~backupUp /\ backupUp' = TRUE
    /\ index' = disk.versions /\ lastTry' = disk.lastTry
    /\ UNCHANGED <<time, config, backupNext, busy, failing, sessions, putting, disk, files, wanted, shared>>

TimePasses ==
    /\ time < MaxTime /\ time' = time + 1
    /\ UNCHANGED <<config, backupNext, busy, failing, sessions, putting, index, lastTry, disk, files, backupUp, wanted, shared>>

Reconfigured ==
    /\ config < MaxConfigs /\ config' = config + 1
    /\ UNCHANGED <<time, backupNext, busy, failing, sessions, putting, index, lastTry, disk, files, backupUp, wanted, shared>>

BackupInit ==
    /\ time = 0 /\ config = 1 /\ backupNext = <<>> /\ busy = FALSE /\ failing = FALSE /\ sessions = {}
    /\ putting = Free /\ index = <<>> /\ lastTry = Never /\ disk = NoIndex /\ files = NoFiles
    /\ backupUp = TRUE /\ wanted = FALSE /\ shared = FALSE

BackupNext ==
    \/ \E t \in 0 .. MaxTime + Every : FirstNext(t)
    \/ Due \/ BackupNow \/ Trigger
    \/ \E s \in sessions : FetchConfig(s) \/ FetchFails(s) \/ PutSame(s) \/ PutFile(s)
    \/ PutCap \/ PutIndex \/ ForgetBackups \/ BackupCrash \/ OpenBackups
    \/ TimePasses \/ Reconfigured

BackupSpec == BackupInit /\ [][BackupNext]_backupVars

Versions == [id : Stamp, cfg : 1 .. MaxConfigs]
BackupSession == [id : NewIds, stamp : Stamp, by : {"schedule", "user"}, got : 0 .. MaxConfigs]

BackupTypeOK ==
    /\ time \in Stamp /\ config \in 1 .. MaxConfigs
    /\ backupNext \in {<<>>} \cup {<<t>> : t \in 0 .. MaxTime + Every + Soon}
    /\ busy \in BOOLEAN /\ failing \in BOOLEAN /\ sessions \subseteq BackupSession
    /\ putting = Free \/ putting.s \in sessions
    /\ Range(index) \subseteq Versions /\ Len(index) <= Keep + 1 /\ lastTry \in Stamp \cup {Never}
    /\ Range(disk.versions) \subseteq Versions /\ disk.lastTry \in Stamp \cup {Never}
    /\ DOMAIN files \subseteq Stamp /\ backupUp \in BOOLEAN /\ wanted \in BOOLEAN /\ shared \in BOOLEAN

(* Put writes a version's file before the index that names it, and takes   *)
(* files away from the other end: whatever a crash leaves, the newest       *)
(* version of index.json can be read back and is what it was stored as -    *)
(* unless two backups were stamped, hence named, alike.                     *)
LatestReadable ==
    shared \/ disk.versions = <<>> \/
        LET v == Last(disk.versions) IN v.id \in DOMAIN files /\ files[v.id] = v.cfg

(* A trigger is not lost to a backup already under way, whose session may   *)
(* have read the configuration before the change: the next run is within    *)
(* two minutes until a run that begins later answers it.                    *)
TriggerIsKept ==
    wanted => backupNext # <<>> /\ backupNext[1] <= time + Soon

=============================================================================
