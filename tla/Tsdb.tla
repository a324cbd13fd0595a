-------------------------------- MODULE Tsdb --------------------------------
(***************************************************************************)
(* The time-series database (internal/tsdb/tsdb.go): the head in memory,   *)
(* hour files, and the daily roll-ups that replace them.                   *)
(*                                                                         *)
(* A sample is its hour and a number; chunks, series and values are left   *)
(* out, and a roll-up is the set of the samples its averages stand for.    *)
(* The lock is free while Checkpoint writes, so writing is a step of its   *)
(* own; rollover writes with the lock held.  Compact writes a day's        *)
(* roll-up, then removes its hour files one by one.                        *)
(***************************************************************************)
EXTENDS Naturals, FiniteSets

CONSTANTS
    MaxHour,      \* bound: the last hour
    PerHour,      \* bound: samples of an hour
    HoursPerDay,  \* 24
    RawHours,     \* age at which a day is rolled up (RawDays)
    KeepHours,    \* age at which a roll-up is deleted (RetentionDays)
    Ahead         \* hours a sender's dbClock may be ahead

ASSUME TsdbAssumption ==
    /\ {MaxHour, PerHour, RawHours, KeepHours, Ahead} \subseteq Nat
    /\ HoursPerDay \in Nat \ {0}
    /\ RawHours <= KeepHours

VARIABLES
    dbClock,    \* the hour it is
    hour,       \* DB.hour
    head,       \* DB.head
    headDirty,  \* DB.dirty
    writing,    \* what Checkpoint is writing: a hour and its samples, or nothing
    raw,        \* the hour files
    rollup,     \* the daily files
    removing,   \* hour files Compact has rolled up and not removed yet
    running,
    kept,       \* samples Append has taken
    excused     \* samples that may be gone (see KeptIsStored)

tsdbVars == <<dbClock, hour, head, headDirty, writing, raw, rollup, removing, running, kept, excused>>

Hour == 0 .. MaxHour
Point == Hour \X (1 .. PerHour)
DayOf(h) == h \div HoursPerDay
Of(S, h) == {p \in S : p[1] = h}
NoWrite == [at |-> MaxHour + 1, points |-> {}]

\* Midnight of the day the given number of hours ago, as a day.
Cut(hours) == IF dbClock < hours THEN 0 ELSE DayOf(dbClock - hours)

-----------------------------------------------------------------------------

\* rolloverLocked: the file of the hour that ends is replaced by the head.
Rolled(h) == IF head = {} THEN raw ELSE [raw EXCEPT ![hour] = head]

\* A checkpoint that is still writing the hour can undo it: it has copied the
\* head earlier and renames its file later.
Overtaken == IF writing.at = hour THEN head \ writing.points ELSE {}

\* Append: an older sample is dropped, one of a later hour closes the head.
AppendSample(p) ==
    /\ running
    /\ p[1] \in dbClock .. dbClock + Ahead
    /\ p \notin kept
    /\ p[1] >= hour
    /\ IF p[1] > hour
         THEN /\ raw' = Rolled(p[1])
              /\ hour' = p[1]
              /\ head' = {p}
              /\ excused' = excused \cup Overtaken
         ELSE /\ head' = head \cup {p}
              /\ UNCHANGED <<raw, hour, excused>>
    /\ headDirty' = TRUE
    /\ kept' = kept \cup {p}
    /\ UNCHANGED <<dbClock, writing, rollup, removing, running>>

\* The loop's rollover, every minute.
Rollover ==
    /\ running
    /\ dbClock > hour
    /\ raw' = Rolled(dbClock)
    /\ hour' = dbClock
    /\ head' = {}
    /\ headDirty' = FALSE
    /\ excused' = excused \cup Overtaken
    /\ UNCHANGED <<dbClock, writing, rollup, removing, running, kept>>

\* Checkpoint copies the head under the lock, ...
Checkpoint ==
    /\ running
    /\ headDirty
    /\ writing = NoWrite
    /\ writing' = [at |-> hour, points |-> head]
    /\ headDirty' = FALSE
    /\ UNCHANGED <<dbClock, hour, head, raw, rollup, removing, running, kept, excused>>

\* ... and replaces the hour's file without it (writeRaw).
CheckpointWritten ==
    /\ running
    /\ writing # NoWrite
    /\ raw' = [raw EXCEPT ![writing.at] = writing.points]
    /\ writing' = NoWrite
    /\ UNCHANGED <<dbClock, hour, head, headDirty, rollup, removing, running, kept, excused>>

-----------------------------------------------------------------------------
DayFiles(d) == {h \in Hour : DayOf(h) = d /\ raw[h] # {}}
Raws(hs) == UNION {raw[h] : h \in hs}

\* Mutant: an existing roll-up of the day is replaced.
RollupDayAfresh(d) == Raws(DayFiles(d))

\* rollupDay: the hour files; a bucket they do not have comes from the roll-up
\* that is there (an hour's buckets are its own).
RollupDay(d) ==
    Raws(DayFiles(d)) \cup {p \in rollup[d] : p[1] \notin DayFiles(d)}

\* Compact, called by the loop after its rollover and its checkpoint.
Compact(d) ==
    /\ running
    /\ dbClock <= hour
    /\ removing = {} /\ writing = NoWrite
    /\ d < Cut(RawHours)
    /\ DayFiles(d) # {}
    /\ rollup' = [rollup EXCEPT ![d] = RollupDay(d)]
    /\ removing' = DayFiles(d)
    /\ UNCHANGED <<dbClock, hour, head, headDirty, writing, raw, running, kept, excused>>

CompactRemove(h) ==
    /\ running
    /\ h \in removing
    /\ raw' = [raw EXCEPT ![h] = {}]
    /\ removing' = removing \ {h}
    /\ UNCHANGED <<dbClock, hour, head, headDirty, writing, rollup, running, kept, excused>>

\* Roll-ups past the retention are deleted.
Expire(d) ==
    /\ running
    /\ removing = {}
    /\ d < Cut(KeepHours)
    /\ rollup[d] # {}
    /\ excused' = excused \cup rollup[d]
    /\ rollup' = [rollup EXCEPT ![d] = {}]
    /\ UNCHANGED <<dbClock, hour, head, headDirty, writing, raw, removing, running, kept>>

-----------------------------------------------------------------------------
HourPasses ==
    /\ dbClock < MaxHour
    /\ dbClock' = dbClock + 1
    /\ UNCHANGED <<hour, head, headDirty, writing, raw, rollup, removing, running, kept, excused>>

\* Close: the loop ends, then a last checkpoint.
CloseDB ==
    /\ running
    /\ writing = NoWrite /\ removing = {}
    /\ raw' = IF headDirty THEN [raw EXCEPT ![hour] = head] ELSE raw
    /\ running' = FALSE
    /\ UNCHANGED <<dbClock, hour, head, headDirty, writing, rollup, removing, kept, excused>>

\* The process dies: what no file has is gone.
CrashDB ==
    /\ running
    /\ running' = FALSE
    /\ writing' = NoWrite
    /\ removing' = {}
    /\ excused' = excused \cup (head \ raw[hour])
    /\ UNCHANGED <<dbClock, hour, head, headDirty, raw, rollup, kept>>

\* Open: the head comes from the file of the hour it is now.  The file of an
\* hour a sender was ahead for will be written anew when that hour comes.
OpenDB ==
    /\ ~running
    /\ running' = TRUE
    /\ hour' = dbClock
    /\ head' = raw[dbClock]
    /\ headDirty' = FALSE
    /\ excused' = excused \cup {p \in Raws(Hour) : p[1] > dbClock}
    /\ UNCHANGED <<dbClock, writing, raw, rollup, removing, kept>>

-----------------------------------------------------------------------------
TsdbInit ==
    /\ dbClock = 0
    /\ hour = 0
    /\ head = {}
    /\ headDirty = FALSE
    /\ writing = NoWrite
    /\ raw = [h \in Hour |-> {}]
    /\ rollup = [d \in 0 .. DayOf(MaxHour) |-> {}]
    /\ removing = {}
    /\ running = TRUE
    /\ kept = {}
    /\ excused = {}

TsdbNext ==
    \/ \E p \in Point : AppendSample(p)
    \/ Rollover
    \/ Checkpoint
    \/ CheckpointWritten
    \/ \E d \in 0 .. DayOf(MaxHour) : Compact(d)
    \/ \E h \in Hour : CompactRemove(h)
    \/ \E d \in 0 .. DayOf(MaxHour) : Expire(d)
    \/ HourPasses
    \/ CloseDB
    \/ CrashDB
    \/ OpenDB

TsdbSpec == TsdbInit /\ [][TsdbNext]_tsdbVars

TsdbTypeOK ==
    /\ dbClock \in Hour /\ hour \in Hour
    /\ head \subseteq Point /\ kept \subseteq Point /\ excused \subseteq Point
    /\ {headDirty, running} \subseteq BOOLEAN
    /\ writing \in [at : Hour, points : SUBSET Point] \cup {NoWrite}
    /\ raw \in [Hour -> SUBSET Point]
    /\ rollup \in [0 .. DayOf(MaxHour) -> SUBSET Point]
    /\ removing \subseteq Hour

(***************************************************************************)
(* A sample Append has taken is in the head, in its hour's file or in its  *)
(* day's roll-up, through rollover, checkpoints, compaction in parts,      *)
(* crashes and restarts.  Excused are: samples no file had when the        *)
(* process died, roll-ups past the retention, samples a checkpoint still   *)
(* being written when their hour closed had not copied, and samples of a   *)
(* hour that a sender's clock was ahead for when the process restarted.      *)
(***************************************************************************)
KeptIsStored ==
    \A p \in kept \ excused :
       \/ running /\ p \in head
       \/ p \in raw[p[1]]
       \/ p \in rollup[DayOf(p[1])]
=============================================================================
