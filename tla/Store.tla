------------------------------- MODULE Store -------------------------------
(***************************************************************************)
(* Persistence of the object model (internal/store/store.go).  The whole   *)
(* snapshot is in memory behind one lock, a dirty flag says that it        *)
(* changed, and Save writes it to state.json through state.json.tmp and a  *)
(* rename.  Save takes the copy under the read lock and does everything    *)
(* else without it, so it is four steps, and two Saves (flushLoop's and    *)
(* Close's) use the same temporary file.                                   *)
(*                                                                         *)
(* The snapshot is abstracted to the number of the last change (ver) and   *)
(* the life of the alerts, which ArchiveResolved moves from the snapshot   *)
(* to the daily journal.  Events have a lock and files of their own        *)
(* (EventJournal).                                                         *)
(***************************************************************************)
EXTENDS Naturals

CONSTANTS
    StoredAlert,   \* alerts
    Gone,          \* no such file
    Torn,          \* a file written in part, or by two writers at once
    Overlap,       \* may Close begin while flushLoop's Save is running?
    MaxChanges,    \* bound: calls that change the snapshot
    MaxStarts      \* bound: starts of the process

ASSUME StoreAssumption ==
    /\ {MaxChanges, MaxStarts} \subseteq Nat \ {0}
    /\ Overlap \in BOOLEAN

\* Neither mark is the content of a file.
ASSUME FileAssumption ==
    /\ Torn # Gone
    /\ {Torn, Gone} \cap [ver : Nat, alerts : [StoredAlert -> {"none", "live", "resolved", "archived"}]] = {}

Saver == {"flushLoop", "close"}

VARIABLES
    mem,       \* the snapshot in memory: [ver, alerts]
    dirty,     \* st.dirty
    disk,      \* state.json
    tmp,       \* state.json.tmp, or Gone
    save,      \* the Save of each caller: [at, copy]
    archive,   \* alerts taken out of the snapshot, not yet journaled
    journal,   \* alerts/*.jsonl: the alerts in it
    cut,       \* alerts a crash inside ArchiveResolved caught between the two
    closed,    \* Close has returned
    atClose,   \* the last change when Close was called
    starts     \* how often the process started

snapVars  == <<mem, dirty, disk, tmp, save, archive, journal>>
storeVars == <<snapVars, cut, closed, atClose, starts>>

\* An alert is none, live, resolved, or no longer in the snapshot.
AlertLife == {"none", "live", "resolved", "archived"}
Snapshot  == [ver : Nat, alerts : [StoredAlert -> AlertLife]]
Blank     == [ver |-> 0, alerts |-> [a \in StoredAlert |-> "none"]]
Idle      == [at |-> "idle", copy |-> Blank]

-----------------------------------------------------------------------------
(* Changes: every Put, Set, Update and Delete is one locked assignment     *)
(* followed by touch.                                                      *)

Changed(alerts) == [ver |-> mem.ver + 1, alerts |-> alerts]

Change(alerts) ==
    /\ ~closed
    /\ mem.ver < MaxChanges
    /\ mem' = Changed(alerts)
    /\ dirty' = TRUE
    /\ UNCHANGED <<disk, tmp, save, journal, cut, closed, atClose, starts>>

PutAnything == Change(mem.alerts) /\ UNCHANGED archive

PutConfig    == PutAnything   \* settings, notification channels, sites, credentials
PutInventory == PutAnything   \* devices, interfaces, neighbours, links (see Topology)
PutTelemetry == PutAnything   \* integrations, wireless, SD-WAN and routing state
PutAccess    == PutAnything   \* maintenance windows, users, probes
PutSchedule  == PutAnything   \* reports, API tokens (touched once a minute), rules

PutAlert(a) ==
    /\ mem.alerts[a] = "none"
    /\ Change([mem.alerts EXCEPT ![a] = "live"])
    /\ UNCHANGED archive

ResolveStored(a) ==
    /\ mem.alerts[a] = "live"
    /\ Change([mem.alerts EXCEPT ![a] = "resolved"])
    /\ UNCHANGED archive

\* ArchiveResolved up to the unlock: alerts resolved long ago leave the map.
ArchiveResolved(old) ==
    /\ old # {} /\ archive = {}
    /\ \A a \in old : mem.alerts[a] = "resolved"
    /\ Change([a \in StoredAlert |-> IF a \in old THEN "archived" ELSE mem.alerts[a]])
    /\ archive' = old

\* Mutant: the journal is opened without O_APPEND and starts anew.
AppendJournalTruncates ==
    /\ ~closed /\ archive # {}
    /\ journal' = archive
    /\ archive' = {}
    /\ UNCHANGED <<mem, dirty, disk, tmp, save, cut, closed, atClose, starts>>

\* ... and the loop over appendJournal, after the unlock.
AppendJournal ==
    /\ ~closed /\ archive # {}
    /\ journal' = journal \union archive
    /\ archive' = {}
    /\ UNCHANGED <<mem, dirty, disk, tmp, save, cut, closed, atClose, starts>>

-----------------------------------------------------------------------------
(* Save.                                                                   *)

SaveAt(s, at) == save' = [save EXCEPT ![s].at = at]

\* Nothing changed: return.  Otherwise marshal a copy under the read lock.
SaveBegin(s) ==
    /\ save[s].at = "idle" /\ ~closed
    /\ dirty
    /\ save' = [save EXCEPT ![s] = [at |-> "copied", copy |-> mem]]
    /\ UNCHANGED <<mem, dirty, disk, tmp, archive, journal>>

\* WriteFile truncates the temporary file and then fills it.
SaveOpenTmp(s) ==
    /\ save[s].at = "copied"
    /\ tmp' = Torn
    /\ SaveAt(s, "writing")
    /\ UNCHANGED <<mem, dirty, disk, archive, journal>>

\* The write ends: the file holds the copy, unless another Save has it open too.  A
\* file that was renamed meanwhile is state.json itself.
SaveWritten(s) ==
    LET alone   == \A o \in Saver \ {s} : save[o].at # "writing"
        content == IF alone THEN save[s].copy ELSE Torn
    IN  /\ save[s].at = "writing"
        /\ IF tmp = Gone THEN disk' = content /\ UNCHANGED tmp
                         ELSE tmp' = content /\ UNCHANGED disk
        /\ SaveAt(s, "written")
        /\ UNCHANGED <<mem, dirty, archive, journal>>

\* Mutant: the file is copied over state.json before it is complete.
SaveRenameTorn(s) ==
    /\ save[s].at \in {"writing", "written"} /\ tmp # Gone
    /\ disk' = tmp /\ tmp' = Gone
    /\ SaveAt(s, "renamed")
    /\ UNCHANGED <<mem, dirty, archive, journal>>

\* When the other Save has renamed the file already this is an error, and dirty stays.
SaveRename(s) ==
    /\ save[s].at = "written"
    /\ IF tmp = Gone THEN SaveAt(s, "idle") /\ UNCHANGED <<disk, tmp>>
                     ELSE SaveAt(s, "renamed") /\ disk' = tmp /\ tmp' = Gone
    /\ UNCHANGED <<mem, dirty, archive, journal>>

\* Whatever changed since the copy, the flag is cleared.
SaveEnd(s) ==
    /\ save[s].at = "renamed"
    /\ dirty' = FALSE
    /\ SaveAt(s, "idle")
    /\ UNCHANGED <<mem, disk, tmp, archive, journal>>

SaveStep(s) ==
    \/ SaveOpenTmp(s) \/ SaveWritten(s) \/ SaveRename(s) \/ SaveEnd(s)

\* flushLoop's ticker; Close stops the loop but not a Save that has begun.
FlushLoop ==
    /\ \/ (Overlap \/ save["close"].at = "idle") /\ SaveBegin("flushLoop")
       \/ SaveStep("flushLoop")
    /\ UNCHANGED <<cut, closed, atClose, starts>>

-----------------------------------------------------------------------------
(* Close, crashes and starts.                                              *)

\* Close (after it flushed the events): Save runs to its end.
CloseBegin ==
    /\ Overlap \/ save["flushLoop"].at = "idle"
    /\ SaveBegin("close")
    /\ atClose' = mem.ver
    /\ UNCHANGED <<cut, closed, starts>>

CloseClean ==
    /\ ~closed /\ ~dirty /\ save["close"].at = "idle"
    /\ closed' = TRUE /\ atClose' = mem.ver
    /\ UNCHANGED <<snapVars, cut, starts>>

CloseStep ==
    /\ SaveStep("close")
    /\ closed' = (save'["close"].at = "idle")
    /\ UNCHANGED <<cut, atClose, starts>>

Close == CloseBegin \/ CloseClean \/ CloseStep

\* The process is gone, by a crash or after Close, and Open loads what is there;
\* a state.json that cannot be read stops it.
Start ==
    /\ starts < MaxStarts
    /\ disk # Torn
    /\ starts' = starts + 1
    /\ closed' = FALSE /\ atClose' = 0
    /\ mem' = disk /\ dirty' = FALSE
    /\ tmp' = Gone
    /\ save' = [s \in Saver |-> Idle]
    /\ archive' = {} /\ cut' = cut \union archive
    /\ UNCHANGED <<disk, journal>>

StoreInit ==
    /\ mem = Blank /\ dirty = FALSE /\ disk = Blank /\ tmp = Gone
    /\ save = [s \in Saver |-> Idle]
    /\ archive = {} /\ journal = {} /\ cut = {}
    /\ closed = FALSE /\ atClose = 0 /\ starts = 1

StoreNext ==
    \/ PutConfig \/ PutInventory \/ PutTelemetry \/ PutAccess \/ PutSchedule
    \/ \E a \in StoredAlert : PutAlert(a) \/ ResolveStored(a)
    \/ \E old \in SUBSET StoredAlert : ArchiveResolved(old)
    \/ AppendJournal
    \/ FlushLoop
    \/ Close
    \/ Start

StoreSpec == StoreInit /\ [][StoreNext]_storeVars

-----------------------------------------------------------------------------
(* Properties.                                                             *)

StoreTypeOK ==
    /\ mem \in Snapshot /\ dirty \in BOOLEAN
    /\ disk \in Snapshot \union {Torn}
    /\ tmp \in Snapshot \union {Torn, Gone}
    /\ save \in [Saver -> [at : {"idle", "copied", "writing", "written", "renamed"}, copy : Snapshot]]
    /\ {archive, journal, cut} \subseteq SUBSET StoredAlert
    /\ closed \in BOOLEAN /\ atClose \in Nat /\ starts \in 1..MaxStarts

\* The store implements a durable value: whatever Saves, changes and crashes
\* interleave, state.json is complete, holds a value the memory had, and never goes
\* back to an older one (Save: copy, temporary file, rename).  A torn file would be one
\* that the memory never had.
Promise == INSTANCE Durable WITH now <- mem.ver, durable <- IF disk = Torn THEN mem.ver + 1 ELSE disk.ver
IsDurable == Promise!Spec

\* An alert that ArchiveResolved took out of the snapshot is in the journal, also
\* after a crash that brings an older snapshot back and archives it again.  Only a
\* crash between the unlock and appendJournal, with a Save in between, loses one.
ArchivedIsJournaled ==
    \A a \in StoredAlert : mem.alerts[a] = "archived" => a \in journal \union archive \union cut

\* store.go, Close: "Close flushes and stops background work": every change made
\* before Close was called is in state.json.  Not so where Overlap is TRUE (README).
ClosedIsSaved == closed => disk # Torn /\ disk.ver >= atClose
=============================================================================
