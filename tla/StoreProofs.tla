---------------------------- MODULE StoreProofs ----------------------------
(***************************************************************************)
(* Proofs about the store's files, for every set of alerts, events and     *)
(* days and whatever the bounds: no archived alert is lost, a store whose  *)
(* Saves do not overlap implements the durable value of module Durable,    *)
(* and every event of the journal is in one place and on its day.          *)
(***************************************************************************)
EXTENDS Store, EventJournal, SequenceTheorems, FiniteSetTheorems, TLAPS

Archived == journal \union archive \union cut

\* Every alert that the snapshot no longer has is in the journal, or on its way.
Kept(snap) == \A a \in StoredAlert : snap.alerts[a] = "archived" => a \in Archived

\* A crash may bring any of the snapshots back that are on disk, in the temporary
\* file or in the hands of a Save; each of them has to be safe.
ArchiveInv ==
    /\ Kept(mem)
    /\ disk # Torn => Kept(disk)
    /\ tmp \notin {Torn, Gone} => Kept(tmp)
    /\ \A s \in Saver : Kept(save[s].copy)

\* One Save at a time, and where it is tells what the temporary file holds and how
\* old its copy is.
SaveOrder(s) ==
    /\ save[s].at \in {"copied", "writing", "written"} =>
           disk.ver <= save[s].copy.ver /\ save[s].copy.ver <= mem.ver
    /\ save[s].at = "writing" => tmp = Torn
    /\ save[s].at = "written" => tmp = save[s].copy

DurableInv ==
    /\ \A s, t \in Saver : save[s].at # "idle" /\ save[t].at # "idle" => s = t
    /\ disk # Torn
    /\ disk.ver <= mem.ver
    /\ \A s \in Saver : SaveOrder(s)

-----------------------------------------------------------------------------
(* Types.                                                                  *)

LEMMA MaxStartsIsPositive == MaxStarts \in Nat /\ 1 <= MaxStarts
<1>1. MaxStarts \in Nat \ {0}
  BY StoreAssumption
<1> QED BY <1>1

LEMMA StoreInitType == StoreInit => StoreTypeOK
<1> SUFFICES ASSUME StoreInit PROVE StoreTypeOK
  OBVIOUS
<1>1. Blank \in Snapshot
  BY DEF Blank, Snapshot, AlertLife
<1>2. starts \in 1..MaxStarts /\ atClose \in Nat
  BY MaxStartsIsPositive DEF StoreInit
<1>3. save \in [Saver -> [at : {"idle", "copied", "writing", "written", "renamed"}, copy : Snapshot]]
  BY <1>1 DEF StoreInit, Idle
<1> QED BY <1>1, <1>2, <1>3 DEF StoreInit, StoreTypeOK

LEMMA ChangeType ==
    ASSUME StoreTypeOK, NEW alerts \in [StoredAlert -> AlertLife], Change(alerts),
           archive' \in SUBSET StoredAlert
    PROVE  StoreTypeOK'
BY DEF StoreTypeOK, Change, Changed, Snapshot

LEMMA SaveBeginType ==
    ASSUME StoreTypeOK, NEW s \in Saver, SaveBegin(s),
           cut' = cut, closed' \in BOOLEAN, atClose' \in Nat, starts' = starts
    PROVE  StoreTypeOK'
BY DEF StoreTypeOK, SaveBegin

LEMMA SaveStepType ==
    ASSUME StoreTypeOK, NEW s \in Saver, SaveStep(s),
           cut' = cut, closed' \in BOOLEAN, atClose' = atClose, starts' = starts
    PROVE  StoreTypeOK'
<1>1. CASE SaveOpenTmp(s)
  BY <1>1 DEF StoreTypeOK, SaveOpenTmp, SaveAt
<1>2. CASE SaveWritten(s)
  BY <1>2 DEF StoreTypeOK, SaveWritten, SaveAt
<1>3. CASE SaveRename(s)
  BY <1>3 DEF StoreTypeOK, SaveRename, SaveAt
<1>4. CASE SaveEnd(s)
  BY <1>4 DEF StoreTypeOK, SaveEnd, SaveAt
<1> QED BY <1>1, <1>2, <1>3, <1>4 DEF SaveStep

LEMMA StoreStepType ==
    ASSUME StoreTypeOK, [StoreNext]_storeVars
    PROVE  StoreTypeOK'
<1>1. CASE PutAnything
  BY <1>1, ChangeType DEF PutAnything, StoreTypeOK, Snapshot
<1>2. ASSUME NEW a \in StoredAlert, PutAlert(a)
      PROVE  StoreTypeOK'
  <2>1. [mem.alerts EXCEPT ![a] = "live"] \in [StoredAlert -> AlertLife]
    BY DEF StoreTypeOK, Snapshot, AlertLife
  <2> QED BY <1>2, <2>1, ChangeType DEF PutAlert, StoreTypeOK
<1>3. ASSUME NEW a \in StoredAlert, ResolveStored(a)
      PROVE  StoreTypeOK'
  <2>1. [mem.alerts EXCEPT ![a] = "resolved"] \in [StoredAlert -> AlertLife]
    BY DEF StoreTypeOK, Snapshot, AlertLife
  <2> QED BY <1>3, <2>1, ChangeType DEF ResolveStored, StoreTypeOK
<1>4. ASSUME NEW old \in SUBSET StoredAlert, ArchiveResolved(old)
      PROVE  StoreTypeOK'
  <2>1. [a \in StoredAlert |-> IF a \in old THEN "archived" ELSE mem.alerts[a]] \in [StoredAlert -> AlertLife]
    BY DEF StoreTypeOK, Snapshot, AlertLife
  <2> QED BY <1>4, <2>1, ChangeType DEF ArchiveResolved
<1>5. CASE AppendJournal
  BY <1>5 DEF AppendJournal, StoreTypeOK
<1>6. CASE FlushLoop
  BY <1>6, SaveBeginType, SaveStepType DEF FlushLoop, Saver, StoreTypeOK
<1>7. CASE Close
  <2>1. CASE CloseBegin
    BY <2>1, SaveBeginType DEF CloseBegin, Saver, StoreTypeOK, Snapshot
  <2>2. CASE CloseClean
    BY <2>2 DEF CloseClean, StoreTypeOK, Snapshot, snapVars
  <2>3. CASE CloseStep
    BY <2>3, SaveStepType DEF CloseStep, Saver, StoreTypeOK
  <2> QED BY <1>7, <2>1, <2>2, <2>3 DEF Close
<1>8. CASE Start
  <2>1. Idle.copy \in Snapshot /\ Idle.at = "idle" /\ Idle = [at |-> "idle", copy |-> Blank]
    BY DEF Idle, Blank, Snapshot, AlertLife
  <2>2. starts' \in 1..MaxStarts /\ atClose' \in Nat
    BY <1>8, MaxStartsIsPositive DEF Start, StoreTypeOK
  <2>3. save' \in [Saver -> [at : {"idle", "copied", "writing", "written", "renamed"}, copy : Snapshot]]
    BY <1>8, <2>1 DEF Start, Idle
  <2> QED BY <1>8, <2>2, <2>3 DEF Start, StoreTypeOK
<1>9. CASE UNCHANGED storeVars
  BY <1>9 DEF storeVars, snapVars, StoreTypeOK
<1> QED
  BY <1>1, <1>2, <1>3, <1>4, <1>5, <1>6, <1>7, <1>8, <1>9
  DEF StoreNext, PutConfig, PutInventory, PutTelemetry, PutAccess, PutSchedule

\* The variables keep their types through every interleaving of changes, Saves,
\* archiving, closing and starting again (store.go).
THEOREM StoreTypeCorrect == StoreSpec => []StoreTypeOK
BY StoreInitType, StoreStepType, PTL DEF StoreSpec

-----------------------------------------------------------------------------
(* No archived alert is lost.                                              *)

\* What is archived only moves from one place to the next.
LEMMA ArchivedGrows ==
    ASSUME StoreTypeOK, [StoreNext]_storeVars
    PROVE  Archived \subseteq Archived'
<1> USE DEF Archived
<1>1. CASE PutAnything
  BY <1>1 DEF PutAnything, Change
<1>2. ASSUME NEW a \in StoredAlert, PutAlert(a) \/ ResolveStored(a)
      PROVE  Archived \subseteq Archived'
  BY <1>2 DEF PutAlert, ResolveStored, Change
<1>3. ASSUME NEW old \in SUBSET StoredAlert, ArchiveResolved(old)
      PROVE  Archived \subseteq Archived'
  BY <1>3 DEF ArchiveResolved, Change
<1>4. CASE AppendJournal
  BY <1>4 DEF AppendJournal
<1>5. ASSUME NEW s \in Saver, SaveBegin(s) \/ SaveStep(s), cut' = cut
      PROVE  Archived \subseteq Archived'
  BY <1>5 DEF SaveBegin, SaveStep, SaveOpenTmp, SaveWritten, SaveRename, SaveEnd
<1>6. CASE FlushLoop
  BY <1>5, <1>6 DEF FlushLoop, Saver
<1>7. CASE Close
  BY <1>5, <1>7 DEF Close, CloseBegin, CloseStep, CloseClean, snapVars, Saver
<1>8. CASE Start
  BY <1>8 DEF Start
<1>9. CASE UNCHANGED storeVars
  BY <1>9 DEF storeVars, snapVars
<1> QED
  BY <1>1, <1>2, <1>3, <1>4, <1>6, <1>7, <1>8, <1>9
  DEF StoreNext, PutConfig, PutInventory, PutTelemetry, PutAccess, PutSchedule

\* A change of the snapshot, given that the snapshot it makes is safe.
LEMMA ChangeArchive ==
    ASSUME StoreTypeOK, ArchiveInv, NEW alerts, Change(alerts), Archived \subseteq Archived',
           \A a \in StoredAlert : alerts[a] = "archived" => a \in Archived'
    PROVE  ArchiveInv'
BY DEF Change, Changed, ArchiveInv, Kept

\* A Save only passes snapshots on.
LEMMA SaveArchive ==
    ASSUME StoreTypeOK, ArchiveInv, NEW s \in Saver, SaveBegin(s) \/ SaveStep(s),
           Archived \subseteq Archived'
    PROVE  ArchiveInv'
<1>1. \A snap : Kept(snap) => \A a \in StoredAlert : snap.alerts[a] = "archived" => a \in Archived'
  BY DEF Kept
<1>2. save \in [Saver -> [at : {"idle", "copied", "writing", "written", "renamed"}, copy : Snapshot]]
  BY DEF StoreTypeOK
<1>3. CASE SaveBegin(s)
  BY <1>1, <1>2, <1>3 DEF SaveBegin, ArchiveInv, Kept
<1>4. CASE SaveOpenTmp(s)
  BY <1>1, <1>2, <1>4 DEF SaveOpenTmp, SaveAt, ArchiveInv, Kept
<1>5. CASE SaveWritten(s)
  BY <1>1, <1>2, <1>5 DEF SaveWritten, SaveAt, ArchiveInv, Kept
<1>6. CASE SaveRename(s)
  BY <1>1, <1>2, <1>6 DEF SaveRename, SaveAt, ArchiveInv, Kept
<1>7. CASE SaveEnd(s)
  BY <1>1, <1>2, <1>7 DEF SaveEnd, SaveAt, ArchiveInv, Kept
<1> QED BY <1>3, <1>4, <1>5, <1>6, <1>7 DEF SaveStep

LEMMA StoreStepArchive ==
    ASSUME StoreTypeOK, ArchiveInv, [StoreNext]_storeVars
    PROVE  ArchiveInv'
<1>0. Archived \subseteq Archived'
  BY ArchivedGrows
<1>1. CASE PutAnything
  BY <1>0, <1>1, ChangeArchive DEF PutAnything, ArchiveInv, Kept
<1>2. ASSUME NEW a \in StoredAlert, PutAlert(a)
      PROVE  ArchiveInv'
  <2>1. \A x \in StoredAlert : [mem.alerts EXCEPT ![a] = "live"][x] = "archived" => x \in Archived'
    BY <1>0 DEF StoreTypeOK, Snapshot, ArchiveInv, Kept
  <2> QED BY <1>0, <1>2, <2>1, ChangeArchive DEF PutAlert
<1>3. ASSUME NEW a \in StoredAlert, ResolveStored(a)
      PROVE  ArchiveInv'
  <2>1. \A x \in StoredAlert : [mem.alerts EXCEPT ![a] = "resolved"][x] = "archived" => x \in Archived'
    BY <1>0 DEF StoreTypeOK, Snapshot, ArchiveInv, Kept
  <2> QED BY <1>0, <1>3, <2>1, ChangeArchive DEF ResolveStored
<1>4. ASSUME NEW old \in SUBSET StoredAlert, ArchiveResolved(old)
      PROVE  ArchiveInv'
  <2> DEFINE alerts == [a \in StoredAlert |-> IF a \in old THEN "archived" ELSE mem.alerts[a]]
  <2>1. old \subseteq Archived'
    BY <1>4 DEF ArchiveResolved, Archived
  <2>2. \A a \in StoredAlert : alerts[a] = "archived" => a \in Archived'
    BY <1>0, <2>1 DEF ArchiveInv, Kept
  <2>3. Change(alerts)
    BY <1>4 DEF ArchiveResolved
  <2> HIDE DEF alerts
  <2> QED BY <1>0, <2>2, <2>3, ChangeArchive
<1>5. CASE AppendJournal
  BY <1>0, <1>5 DEF AppendJournal, ArchiveInv, Kept
<1>6. CASE FlushLoop
  BY <1>0, <1>6, SaveArchive DEF FlushLoop, Saver
<1>7. CASE Close
  <2>1. CASE CloseBegin \/ CloseStep
    BY <1>0, <2>1, SaveArchive DEF CloseBegin, CloseStep, Saver
  <2>2. CASE CloseClean
    BY <1>0, <2>2 DEF CloseClean, snapVars, ArchiveInv, Kept
  <2> QED BY <1>7, <2>1, <2>2 DEF Close
<1>8. CASE Start
  BY <1>0, <1>8 DEF Start, ArchiveInv, Kept, Idle, Blank
<1>9. CASE UNCHANGED storeVars
  BY <1>0, <1>9 DEF storeVars, snapVars, ArchiveInv, Kept
<1> QED
  BY <1>1, <1>2, <1>3, <1>4, <1>5, <1>6, <1>7, <1>8, <1>9
  DEF StoreNext, PutConfig, PutInventory, PutTelemetry, PutAccess, PutSchedule

\* An alert that ArchiveResolved took out of the snapshot is in the journal, on its
\* way there, or was caught by a crash between the two; whatever Saves overlap and
\* whichever snapshot a restart brings back (store.go, ArchiveResolved, Save, Open).
THEOREM NoAlertLost == StoreSpec => []ArchivedIsJournaled
<1>1. StoreInit => ArchiveInv
  BY DEF StoreInit, ArchiveInv, Kept, Blank, Idle, Saver
<1>2. ArchiveInv => ArchivedIsJournaled
  BY DEF ArchiveInv, Kept, Archived, ArchivedIsJournaled
<1> QED BY <1>1, <1>2, StoreStepArchive, StoreTypeCorrect, PTL DEF StoreSpec

-----------------------------------------------------------------------------
(* The durable value.                                                      *)

\* A snapshot is not the mark of a missing or torn file.
LEMMA SnapshotIsWhole ==
    ASSUME NEW snap \in Snapshot
    PROVE  snap # Torn /\ snap # Gone /\ snap.ver \in Nat
BY FileAssumption DEF Snapshot, AlertLife

\* Save begins with the newest snapshot, when no other Save is under way.
LEMMA SaveBeginDurable ==
    ASSUME StoreTypeOK, DurableInv, NEW s \in Saver, SaveBegin(s),
           \A o \in Saver \ {s} : save[o].at = "idle"
    PROVE  DurableInv'
<1>1. mem.ver \in Nat /\ disk \in Snapshot /\ disk.ver \in Nat
  BY SnapshotIsWhole DEF StoreTypeOK, DurableInv, Snapshot
<1>2. save \in [Saver -> [at : {"idle", "copied", "writing", "written", "renamed"}, copy : Snapshot]]
  BY DEF StoreTypeOK
<1>3. /\ save'[s].at = "copied" /\ save'[s].copy = mem
      /\ \A o \in Saver \ {s} : save'[o] = save[o]
  BY <1>2 DEF SaveBegin
<1>4. mem' = mem /\ disk' = disk /\ tmp' = tmp
  BY DEF SaveBegin
<1> QED BY <1>1, <1>2, <1>3, <1>4 DEF DurableInv, SaveOrder

\* A step of the only Save under way.
LEMMA SaveStepDurable ==
    ASSUME StoreTypeOK, DurableInv, NEW s \in Saver, SaveStep(s)
    PROVE  /\ DurableInv'
           /\ mem' = mem
           /\ disk.ver <= disk'.ver /\ disk'.ver <= mem.ver /\ disk'.ver \in Nat
<1>1. mem.ver \in Nat /\ disk \in Snapshot /\ disk.ver \in Nat
  BY SnapshotIsWhole DEF StoreTypeOK, DurableInv, Snapshot
<1>2. save \in [Saver -> [at : {"idle", "copied", "writing", "written", "renamed"}, copy : Snapshot]]
  BY DEF StoreTypeOK
<1>3. save[s].copy \in Snapshot /\ save[s].copy # Torn /\ save[s].copy # Gone /\ save[s].copy.ver \in Nat
  BY <1>2, SnapshotIsWhole
<1>4. save[s].at # "idle"
  BY DEF SaveStep, SaveOpenTmp, SaveWritten, SaveRename, SaveEnd
<1>5. \A o \in Saver \ {s} : save[o].at = "idle"
  BY <1>4 DEF DurableInv
<1>6. \A at : SaveAt(s, at) => /\ save'[s].at = at /\ save'[s].copy = save[s].copy
                               /\ \A o \in Saver \ {s} : save'[o] = save[o]
  BY <1>2 DEF SaveAt
<1>7. CASE SaveOpenTmp(s)
  BY <1>1, <1>3, <1>5, <1>6, <1>7 DEF SaveOpenTmp, DurableInv, SaveOrder
<1>8. CASE SaveWritten(s)
  <2>1. tmp = Torn /\ tmp # Gone
    BY <1>8, FileAssumption DEF SaveWritten, DurableInv, SaveOrder
  <2>2. tmp' = save[s].copy /\ disk' = disk
    BY <1>5, <1>8, <2>1 DEF SaveWritten
  <2> QED BY <1>1, <1>3, <1>5, <1>6, <1>8, <2>2 DEF SaveWritten, DurableInv, SaveOrder
<1>9. CASE SaveRename(s)
  <2>1. tmp = save[s].copy /\ disk.ver <= save[s].copy.ver /\ save[s].copy.ver <= mem.ver
    BY <1>9 DEF SaveRename, DurableInv, SaveOrder
  <2>2. disk' = save[s].copy /\ SaveAt(s, "renamed") /\ mem' = mem
    BY <1>3, <1>9, <2>1 DEF SaveRename
  <2> QED BY <1>1, <1>3, <1>5, <1>6, <2>1, <2>2 DEF DurableInv, SaveOrder
<1>10. CASE SaveEnd(s)
  BY <1>1, <1>3, <1>5, <1>6, <1>10 DEF SaveEnd, DurableInv, SaveOrder
<1> QED BY <1>7, <1>8, <1>9, <1>10 DEF SaveStep

\* Every step of the store keeps the invariant and is a step of Durable, or none.
LEMMA StoreStepDurable ==
    ASSUME ~Overlap, StoreTypeOK, DurableInv, [StoreNext]_storeVars
    PROVE  DurableInv' /\ [Promise!Next]_<<mem.ver, IF disk = Torn THEN mem.ver + 1 ELSE disk.ver>>
<1> DEFINE durable == IF disk = Torn THEN mem.ver + 1 ELSE disk.ver
<1>1. mem.ver \in Nat /\ disk \in Snapshot /\ disk # Torn /\ disk.ver \in Nat /\ durable = disk.ver
  BY SnapshotIsWhole DEF StoreTypeOK, DurableInv, Snapshot
<1>2. ASSUME DurableInv', mem'.ver > mem.ver, disk' = disk
      PROVE  Promise!Next
  BY <1>1, <1>2 DEF DurableInv, Promise!Next, Promise!Change
<1>3. ASSUME DurableInv', mem' = mem, disk' = disk
      PROVE  UNCHANGED <<mem.ver, durable>>
  BY <1>3
<1>4. ASSUME NEW alerts, Change(alerts)
      PROVE  DurableInv' /\ Promise!Next
  <2>1. mem'.ver = mem.ver + 1 /\ disk' = disk /\ save' = save /\ tmp' = tmp
    BY <1>4 DEF Change, Changed
  <2>2. \A s \in Saver : save[s].copy.ver \in Nat
    BY DEF StoreTypeOK, Snapshot
  <2>3. DurableInv'
    BY <1>1, <2>1, <2>2 DEF DurableInv, SaveOrder
  <2> QED BY <1>1, <1>2, <2>1, <2>3
<1>5. CASE PutAnything
  BY <1>4, <1>5 DEF PutAnything
<1>6. ASSUME NEW a \in StoredAlert, PutAlert(a) \/ ResolveStored(a)
      PROVE  DurableInv' /\ Promise!Next
  BY <1>4, <1>6 DEF PutAlert, ResolveStored
<1>7. ASSUME NEW old \in SUBSET StoredAlert, ArchiveResolved(old)
      PROVE  DurableInv' /\ Promise!Next
  BY <1>4, <1>7 DEF ArchiveResolved
<1>8. ASSUME UNCHANGED <<mem, disk, tmp, save>>
      PROVE  DurableInv' /\ UNCHANGED <<mem.ver, durable>>
  BY <1>8 DEF DurableInv, SaveOrder
<1>9. ASSUME NEW s \in Saver, SaveBegin(s), \A o \in Saver \ {s} : save[o].at = "idle"
      PROVE  DurableInv' /\ UNCHANGED <<mem.ver, durable>>
  BY <1>3, <1>9, SaveBeginDurable DEF SaveBegin
<1>10. ASSUME NEW s \in Saver, SaveStep(s)
       PROVE  DurableInv' /\ Promise!Next
  <2>1. /\ DurableInv' /\ mem' = mem
        /\ disk.ver <= disk'.ver /\ disk'.ver <= mem.ver /\ disk'.ver \in Nat
    BY <1>10, SaveStepDurable
  <2>2. disk' # Torn
    BY <2>1 DEF DurableInv
  <2> QED BY <1>1, <2>1, <2>2 DEF Promise!Next, Promise!Persist
<1>11. CASE FlushLoop
  <2>1. CASE SaveBegin("flushLoop")
    <3>1. save["close"].at = "idle" \/ SaveStep("flushLoop")
      BY <1>11 DEF FlushLoop
    <3> QED BY <1>9, <1>10, <2>1, <3>1 DEF Saver
  <2> QED BY <1>10, <1>11, <2>1 DEF FlushLoop, Saver
<1>12. CASE Close
  <2>1. CASE CloseBegin
    BY <1>9, <2>1 DEF CloseBegin, Saver
  <2>2. CASE CloseClean
    BY <1>8, <2>2 DEF CloseClean, snapVars
  <2>3. CASE CloseStep
    BY <1>10, <2>3 DEF CloseStep, Saver
  <2> QED BY <1>12, <2>1, <2>2, <2>3 DEF Close
<1>13. CASE Start
  <2>1. mem' = disk /\ disk' = disk /\ \A s \in Saver : save'[s].at = "idle"
    BY <1>13 DEF Start, Idle
  <2>2. DurableInv'
    BY <1>1, <2>1 DEF DurableInv, SaveOrder
  <2> QED BY <1>1, <2>1, <2>2 DEF Promise!Next, Promise!Restart
<1>14. CASE AppendJournal
  BY <1>8, <1>14 DEF AppendJournal
<1>15. CASE UNCHANGED storeVars
  BY <1>8, <1>15 DEF storeVars, snapVars
<1> QED
  BY <1>5, <1>6, <1>7, <1>11, <1>12, <1>13, <1>14, <1>15
  DEF StoreNext, PutConfig, PutInventory, PutTelemetry, PutAccess, PutSchedule

\* Save's copy, temporary file and rename implement a durable value, when Close waits
\* for flushLoop's Save: state.json is never torn, never holds what the memory did
\* not, and never goes back to an older state (store.go, Save, Close, Open).
THEOREM StoreIsDurable ==
    ASSUME ~Overlap
    PROVE  StoreSpec => IsDurable
<1>1. StoreInit => DurableInv /\ Promise!Init
  <2> SUFFICES ASSUME StoreInit PROVE DurableInv /\ Promise!Init
    OBVIOUS
  <2>1. Blank \in Snapshot /\ Blank.ver = 0
    BY DEF Blank, Snapshot, AlertLife
  <2>2. Blank # Torn
    BY <2>1, SnapshotIsWhole
  <2> QED BY <2>1, <2>2 DEF StoreInit, DurableInv, SaveOrder, Promise!Init, Idle, Saver
<1> QED
  BY <1>1, StoreStepDurable, StoreTypeCorrect, PTL DEF StoreSpec, IsDurable, Promise!Spec

-----------------------------------------------------------------------------
(* The event journal.                                                      *)

JournalEvent == Nat \X Nat \X Day
Once(s) == \A i, j \in DOMAIN s : s[i] = s[j] => i = j

EventTypes ==
    /\ evDay \in Day \union {0} /\ linked \in BOOLEAN /\ opens \in Nat /\ synced \in Nat
    /\ evBuf \in Seq(JournalEvent) /\ added \in Seq(JournalEvent)
    /\ evFiles \in [Day -> Seq(JournalEvent)]

\* The events of this process are numbered.
Numbered ==
    /\ \A i \in DOMAIN added : added[i][1] = opens /\ added[i][2] = i
    /\ synced <= Len(added)

\* The buffer has events of this process and of the open day, each once.
BufferOfDay ==
    /\ Once(evBuf)
    /\ \A e \in Range(evBuf) : e[3] = evDay /\ e \in Range(added)

\* A file has events of its day, each once, and none that is still in the buffer.
FilesOfDays ==
    \A d \in Day :
        /\ Once(evFiles[d])
        /\ \A e \in Range(evFiles[d]) : /\ e[3] = d /\ e[1] <= opens
                                        /\ e[1] = opens => e \in Range(added)
                                        /\ e \notin Range(evBuf)

\* An event is in its file, or in the buffer and not yet flushed.
Somewhere ==
    \A i \in DOMAIN added : added[i][3] \notin OldDay =>
        \/ added[i] \in Range(evFiles[added[i][3]])
        \/ i > synced /\ added[i] \in Range(evBuf)

StillLinked == evDay # 0 /\ evDay \notin OldDay => linked

EventInv == EventTypes /\ Numbered /\ BufferOfDay /\ FilesOfDays /\ Somewhere /\ StillLinked

LEMMA EventInitInv == EventInit => EventInv
<1> SUFFICES ASSUME EventInit PROVE EventInv
  OBVIOUS
<1>1. /\ evDay = 0 /\ linked = TRUE /\ evBuf = <<>> /\ evFiles = [d \in Day |-> <<>>]
      /\ added = <<>> /\ synced = 0 /\ opens = 1
  BY DEF EventInit
<1>2. Once(<<>>) /\ Range(<<>>) = {}
  BY DEF Once, Range
<1>3. EventTypes
  BY <1>1 DEF EventTypes
<1> QED BY <1>1, <1>2, <1>3 DEF EventInv, Numbered, BufferOfDay, FilesOfDays, Somewhere, StillLinked

\* Appending what is not there keeps each element once.
LEMMA AppendOnce ==
    ASSUME NEW S, NEW s \in Seq(S), NEW e \in S, Once(s), e \notin Range(s)
    PROVE  /\ Append(s, e) \in Seq(S) /\ Once(Append(s, e))
           /\ Range(Append(s, e)) = Range(s) \union {e}
<1>0. Len(s) \in Nat /\ DOMAIN s = 1 .. Len(s)
  OBVIOUS
<1> PICK t : t = Append(s, e)
  OBVIOUS
<1>1. /\ t \in Seq(S) /\ Len(t) = Len(s) + 1 /\ DOMAIN t = 1 .. Len(s) + 1
      /\ \A i \in 1 .. Len(s) : t[i] = s[i]
      /\ t[Len(s) + 1] = e
  OBVIOUS
<1>2. \A i \in 1 .. Len(s) + 1 : i \in 1 .. Len(s) \/ i = Len(s) + 1
  BY <1>0
<1>3. \A i \in 1 .. Len(s) : s[i] # e
  BY <1>0 DEF Range
<1>4. Once(t)
  BY <1>0, <1>1, <1>2, <1>3 DEF Once
<1>5. Range(t) = Range(s) \union {e}
  <2>1. Len(s) + 1 \in DOMAIN t /\ \A i \in DOMAIN s : i \in DOMAIN t
    BY <1>0, <1>1
  <2> QED BY <1>0, <1>1, <1>2, <2>1 DEF Range
<1> QED BY <1>1, <1>4, <1>5

\* So does a concatenation of sequences that share nothing.
LEMMA ConcatOnce ==
    ASSUME NEW S, NEW s \in Seq(S), NEW t \in Seq(S), Once(s), Once(t), Range(s) \intersect Range(t) = {}
    PROVE  s \o t \in Seq(S) /\ Once(s \o t) /\ Range(s \o t) = Range(s) \union Range(t)
<1>0. Len(s) \in Nat /\ DOMAIN s = 1 .. Len(s) /\ Len(t) \in Nat /\ DOMAIN t = 1 .. Len(t)
  OBVIOUS
<1> PICK u : u = s \o t
  OBVIOUS
<1>1. /\ u \in Seq(S) /\ Len(u) = Len(s) + Len(t) /\ DOMAIN u = 1 .. Len(s) + Len(t)
      /\ \A i \in 1 .. Len(s) + Len(t) : u[i] = IF i <= Len(s) THEN s[i] ELSE t[i - Len(s)]
  BY ConcatProperties
<1>2. \A i \in 1 .. Len(s) : i \in DOMAIN u /\ u[i] = s[i]
  BY <1>0, <1>1
<1>3. \A i \in 1 .. Len(t) : Len(s) + i \in DOMAIN u /\ u[Len(s) + i] = t[i]
  <2> SUFFICES ASSUME NEW i \in 1 .. Len(t) PROVE Len(s) + i \in DOMAIN u /\ u[Len(s) + i] = t[i]
    OBVIOUS
  <2>1. Len(s) + i \in 1 .. Len(s) + Len(t) /\ ~(Len(s) + i <= Len(s)) /\ (Len(s) + i) - Len(s) = i
    BY <1>0
  <2> QED BY <1>1, <2>1
<1>4. \A i \in DOMAIN u : i \in 1 .. Len(s) \/ \E k \in 1 .. Len(t) : i = Len(s) + k
  <2> SUFFICES ASSUME NEW i \in 1 .. Len(s) + Len(t), ~(i \in 1 .. Len(s)) PROVE \E k \in 1 .. Len(t) : i = Len(s) + k
    BY <1>1
  <2>1. i - Len(s) \in 1 .. Len(t) /\ i = Len(s) + (i - Len(s))
    BY <1>0
  <2> QED BY <2>1
<1>5. Range(u) = Range(s) \union Range(t)
  <2>1. \A x \in Range(u) : x \in Range(s) \union Range(t)
    BY <1>0, <1>2, <1>3, <1>4 DEF Range
  <2>2. \A x \in Range(s) : x \in Range(u)
    BY <1>0, <1>2 DEF Range
  <2>3. \A x \in Range(t) : x \in Range(u)
    BY <1>0, <1>3 DEF Range
  <2> QED BY <2>1, <2>2, <2>3
<1>6. Once(u)
  <2> SUFFICES ASSUME NEW i \in DOMAIN u, NEW j \in DOMAIN u, u[i] = u[j] PROVE i = j
    BY DEF Once
  <2>1. \A k \in 1 .. Len(s), l \in 1 .. Len(t) : s[k] # t[l]
    BY <1>0 DEF Range
  <2>2. CASE i \in 1 .. Len(s) /\ j \in 1 .. Len(s)
    BY <1>0, <1>2, <2>2 DEF Once
  <2>3. CASE i \in 1 .. Len(s) /\ ~(j \in 1 .. Len(s))
    <3>1. PICK l \in 1 .. Len(t) : j = Len(s) + l
      BY <1>4, <2>3
    <3> QED BY <1>2, <1>3, <2>1, <2>3, <3>1
  <2>4. CASE ~(i \in 1 .. Len(s)) /\ j \in 1 .. Len(s)
    <3>1. PICK k \in 1 .. Len(t) : i = Len(s) + k
      BY <1>4, <2>4
    <3> QED BY <1>2, <1>3, <2>1, <2>4, <3>1
  <2>5. CASE ~(i \in 1 .. Len(s)) /\ ~(j \in 1 .. Len(s))
    <3>1. PICK k \in 1 .. Len(t) : i = Len(s) + k
      BY <1>4, <2>5
    <3>2. PICK l \in 1 .. Len(t) : j = Len(s) + l
      BY <1>4, <2>5
    <3>3. t[k] = t[l]
      BY <1>3, <3>1, <3>2
    <3>4. k = l
      BY <1>0, <3>3 DEF Once
    <3> QED BY <3>1, <3>2, <3>4
  <2> QED BY <2>2, <2>3, <2>4, <2>5
<1> QED BY <1>1, <1>5, <1>6

\* A flush puts every event of the buffer that the retention keeps into its file.
LEMMA FlushedFacts ==
    ASSUME EventInv
    PROVE  /\ Flushed \in [Day -> Seq(JournalEvent)]
           /\ \A d \in Day : /\ Once(Flushed[d])
                             /\ \A e \in Range(Flushed[d]) : /\ e[3] = d /\ e[1] <= opens
                                                             /\ e[1] = opens => e \in Range(added)
           /\ \A i \in DOMAIN added : added[i][3] \notin OldDay => added[i] \in Range(Flushed[added[i][3]])
<1>0. EventTypes /\ Numbered /\ BufferOfDay /\ FilesOfDays /\ Somewhere /\ StillLinked
  BY DEF EventInv
<1>1. /\ evBuf \in Seq(JournalEvent) /\ added \in Seq(JournalEvent) /\ opens \in Nat
      /\ evFiles \in [Day -> Seq(JournalEvent)]
  BY <1>0 DEF EventTypes
<1>2. \A e \in Range(evBuf) : e[3] = evDay /\ e[1] <= opens /\ e \in Range(added)
  <2> SUFFICES ASSUME NEW e \in Range(evBuf) PROVE e[3] = evDay /\ e[1] <= opens /\ e \in Range(added)
    OBVIOUS
  <2>1. e[3] = evDay /\ e \in Range(added)
    BY <1>0 DEF BufferOfDay
  <2>2. e[1] = opens
    BY <1>0, <2>1 DEF Range, Numbered
  <2> QED BY <1>1, <2>1, <2>2
<1>3. ASSUME NEW d \in Day, d = evDay, linked
      PROVE  /\ evFiles[d] \o evBuf \in Seq(JournalEvent) /\ Once(evFiles[d] \o evBuf)
             /\ Range(evFiles[d] \o evBuf) = Range(evFiles[d]) \union Range(evBuf)
             /\ Flushed[d] = evFiles[d] \o evBuf
  <2>1. evFiles[d] \in Seq(JournalEvent) /\ Once(evFiles[d]) /\ Once(evBuf)
    BY <1>0, <1>1 DEF BufferOfDay, FilesOfDays
  <2>2. Range(evFiles[d]) \intersect Range(evBuf) = {}
    BY <1>0 DEF FilesOfDays
  <2>3. Flushed[d] = evFiles[d] \o evBuf
    BY <1>3 DEF Flushed
  <2> QED BY <1>1, <2>1, <2>2, <2>3, ConcatOnce
<1>4. ASSUME NEW d \in Day, ~(d = evDay /\ linked) PROVE Flushed[d] = evFiles[d]
  BY <1>4 DEF Flushed
<1>5. Flushed \in [Day -> Seq(JournalEvent)]
  <2>1. \A d \in Day : Flushed[d] \in Seq(JournalEvent)
    BY <1>1, <1>3, <1>4
  <2>2. Flushed = [d \in Day |-> Flushed[d]]
    BY DEF Flushed
  <2> QED BY <2>1, <2>2
<1>6. \A d \in Day : Once(Flushed[d])
  BY <1>0, <1>3, <1>4 DEF FilesOfDays
<1>7. ASSUME NEW d \in Day, NEW e \in Range(Flushed[d])
      PROVE  e[3] = d /\ e[1] <= opens /\ (e[1] = opens => e \in Range(added))
  <2>1. e \in Range(evFiles[d]) \/ (d = evDay /\ e \in Range(evBuf))
    BY <1>3, <1>4
  <2> QED BY <1>0, <1>2, <2>1 DEF FilesOfDays
<1>8. ASSUME NEW i \in DOMAIN added, added[i][3] \notin OldDay PROVE added[i] \in Range(Flushed[added[i][3]])
  <2>1. added[i] \in JournalEvent /\ added[i][3] \in Day
    BY <1>1 DEF JournalEvent
  <2>2. added[i] \in Range(evFiles[added[i][3]]) \/ added[i] \in Range(evBuf)
    BY <1>0, <1>8 DEF Somewhere
  <2>3. CASE added[i] \in Range(evFiles[added[i][3]])
    BY <1>3, <1>4, <2>1, <2>3
  <2>4. CASE added[i] \in Range(evBuf)
    <3>1. added[i][3] = evDay /\ evDay # 0
      BY <1>2, <2>1, <2>4, EventAssumption
    <3>2. linked
      BY <1>0, <1>8, <3>1 DEF StillLinked
    <3> QED BY <1>3, <2>1, <2>4, <3>1, <3>2
  <2> QED BY <2>2, <2>3, <2>4
<1> QED BY <1>5, <1>6, <1>7, <1>8

\* The writes that empty the buffer into the file.
LEMMA FlushKeeps == ASSUME EventInv, FlushEvents \/ CloseEvents PROVE EventInv'
<1>0. EventTypes /\ Numbered /\ StillLinked
  BY DEF EventInv
<1>1. /\ evFiles' = Flushed /\ evBuf' = <<>> /\ synced' = Len(added)
      /\ UNCHANGED <<linked, added, opens>> /\ evDay' \in {evDay, 0}
  BY DEF FlushEvents, CloseEvents
<1>2. Once(<<>>) /\ Range(<<>>) = {}
  BY DEF Once, Range
<1>3. EventTypes'
  BY <1>0, <1>1, FlushedFacts DEF EventTypes
<1>4. Numbered' /\ BufferOfDay' /\ StillLinked'
  BY <1>0, <1>1, <1>2 DEF Numbered, BufferOfDay, StillLinked
<1>5. FilesOfDays'
  BY <1>1, <1>2, FlushedFacts DEF FilesOfDays
<1>6. Somewhere'
  BY <1>1, FlushedFacts DEF Somewhere
<1> QED BY <1>3, <1>4, <1>5, <1>6 DEF EventInv

LEMMA AddEventKeeps == ASSUME EventInv, NEW d \in Day, AddEvent(d) PROVE EventInv'
<1>0. EventTypes /\ Numbered /\ BufferOfDay /\ FilesOfDays /\ Somewhere /\ StillLinked
  BY DEF EventInv
<1>1. /\ evBuf \in Seq(JournalEvent) /\ added \in Seq(JournalEvent) /\ opens \in Nat /\ synced \in Nat /\ Len(added) \in Nat
      /\ evFiles \in [Day -> Seq(JournalEvent)] /\ linked \in BOOLEAN /\ d # 0
  BY <1>0, EventAssumption DEF EventTypes
<1>e. PICK e : e = <<opens, Len(added) + 1, d>>
  OBVIOUS
<1>2. /\ added' = Append(added, e) /\ evDay' = d /\ linked' = (evDay = d => linked)
      /\ evBuf' = IF evDay = d THEN Append(evBuf, e) ELSE <<e>>
      /\ evFiles' = IF evDay = d THEN evFiles ELSE Flushed
      /\ UNCHANGED <<synced, opens>>
  BY <1>e DEF AddEvent
<1>3. e \in JournalEvent /\ e[1] = opens /\ e[2] = Len(added) + 1 /\ e[3] = d
  BY <1>1, <1>e DEF JournalEvent
<1>4. e \notin Range(added)
  <2>1. \A i \in DOMAIN added : added[i][2] = i /\ i <= Len(added)
    BY <1>0, <1>1 DEF Numbered
  <2> QED BY <1>1, <1>3, <2>1 DEF Range
<1>5. e \notin Range(evBuf) /\ \A b \in Day : e \notin Range(evFiles[b])
  BY <1>0, <1>3, <1>4 DEF BufferOfDay, FilesOfDays
<1>6. /\ added' \in Seq(JournalEvent) /\ Len(added') = Len(added) + 1 /\ DOMAIN added' = 1 .. Len(added) + 1
      /\ DOMAIN added = 1 .. Len(added)
      /\ \A i \in 1 .. Len(added) : added'[i] = added[i]
      /\ added'[Len(added) + 1] = e
  BY <1>1, <1>2, <1>3
<1>7. Range(added') = Range(added) \union {e}
  <2>1. Len(added) + 1 \in DOMAIN added' /\ \A i \in DOMAIN added : i \in DOMAIN added'
    BY <1>1, <1>6
  <2>2. \A i \in DOMAIN added' : i \in DOMAIN added \/ i = Len(added) + 1
    BY <1>1, <1>6
  <2> QED BY <1>6, <2>1, <2>2 DEF Range
<1>15. synced <= Len(added)
  BY <1>0 DEF Numbered
<1>8. Numbered'
  <2>2. synced <= Len(added')
    BY <1>1, <1>6, <1>15
  <2> SUFFICES ASSUME NEW i \in DOMAIN added' PROVE added'[i][1] = opens /\ added'[i][2] = i
    BY <1>2, <2>2 DEF Numbered
  <2>1. i \in 1 .. Len(added) \/ i = Len(added) + 1
    BY <1>1, <1>6
  <2> QED BY <1>0, <1>3, <1>6, <2>1 DEF Numbered
<1>9. /\ Flushed \in [Day -> Seq(JournalEvent)] /\ evFiles' \in [Day -> Seq(JournalEvent)]
      /\ evBuf' \in Seq(JournalEvent) /\ Once(evBuf')
      /\ Range(evBuf') = IF evDay = d THEN Range(evBuf) \union {e} ELSE {e}
  <2>0. Flushed \in [Day -> Seq(JournalEvent)]
    BY FlushedFacts
  <2>1. CASE evDay = d
    <3>1. Once(evBuf)
      BY <1>0 DEF BufferOfDay
    <3> QED BY <1>1, <1>2, <1>3, <1>5, <2>0, <2>1, <3>1, AppendOnce
  <2>2. CASE evDay # d
    <3>1. <<e>> \in Seq(JournalEvent) /\ Once(<<e>>) /\ Range(<<e>>) = {e}
      BY <1>3 DEF Once, Range
    <3> QED BY <1>2, <2>0, <2>2, <3>1
  <2> QED BY <2>1, <2>2
<1>10. EventTypes'
  <2>1. linked' \in BOOLEAN /\ evDay' \in Day
    BY <1>2
  <2> QED BY <1>1, <1>2, <1>6, <1>9, <2>1 DEF EventTypes
<1>11. BufferOfDay'
  <2>1. \A x \in Range(evBuf') : x[3] = d /\ x \in Range(added')
    BY <1>0, <1>3, <1>7, <1>9 DEF BufferOfDay
  <2> QED BY <1>2, <1>9, <2>1 DEF BufferOfDay
<1>12. FilesOfDays'
  <2> SUFFICES ASSUME NEW b \in Day
               PROVE  /\ Once(evFiles'[b])
                      /\ \A x \in Range(evFiles'[b]) : /\ x[3] = b /\ x[1] <= opens
                                                       /\ x[1] = opens => x \in Range(added')
                                                       /\ x \notin Range(evBuf')
    BY <1>2 DEF FilesOfDays
  <2>1. CASE evDay = d
    BY <1>0, <1>2, <1>5, <1>7, <1>9, <2>1 DEF FilesOfDays
  <2>2. CASE evDay # d
    <3>1. Once(evFiles'[b])
      BY <1>2, <2>2, FlushedFacts
    <3>2. \A x \in Range(evFiles'[b]) : x[3] = b /\ x[1] <= opens /\ (x[1] = opens => x \in Range(added))
      BY <1>2, <2>2, FlushedFacts
    <3>3. e \notin Range(evFiles'[b])
      BY <1>3, <1>4, <3>2
    <3> QED BY <1>7, <1>9, <2>2, <3>1, <3>2, <3>3
  <2> QED BY <2>1, <2>2
<1>13. Somewhere'
  <2> SUFFICES ASSUME NEW i \in DOMAIN added', added'[i][3] \notin OldDay
               PROVE  \/ added'[i] \in Range(evFiles'[added'[i][3]])
                      \/ i > synced /\ added'[i] \in Range(evBuf')
    BY <1>2 DEF Somewhere
  <2>1. i \in 1 .. Len(added) \/ i = Len(added) + 1
    BY <1>1, <1>6
  <2>2. CASE i \in 1 .. Len(added)
    <3>1. i \in DOMAIN added /\ added'[i] = added[i] /\ added[i][3] \notin OldDay
      BY <1>6, <2>2
    <3>2. CASE evDay = d
      BY <1>0, <1>2, <1>9, <3>1, <3>2 DEF Somewhere
    <3>3. CASE evDay # d
      BY <1>2, <3>1, <3>3, FlushedFacts
    <3> QED BY <3>2, <3>3
  <2>3. CASE i = Len(added) + 1
    <3>1. added'[i] \in Range(evBuf')
      BY <1>6, <1>9, <2>3
    <3>2. i > synced
      BY <1>1, <1>15, <2>3
    <3> QED BY <3>1, <3>2
  <2> QED BY <2>1, <2>2, <2>3
<1>14. StillLinked'
  BY <1>0, <1>1, <1>2 DEF StillLinked
<1> QED BY <1>8, <1>10, <1>11, <1>12, <1>13, <1>14 DEF EventInv

\* A process that dies leaves the files; pruning takes old ones, the open one too.
LEMMA OpenEventsKeeps == ASSUME EventInv, OpenEvents PROVE EventInv'
<1>0. EventTypes /\ FilesOfDays
  BY DEF EventInv
<1>1. /\ opens' = opens + 1 /\ evDay' = 0 /\ evBuf' = <<>> /\ added' = <<>> /\ synced' = 0
      /\ linked' = TRUE /\ UNCHANGED evFiles
  BY DEF OpenEvents
<1>2. Once(<<>>) /\ Range(<<>>) = {} /\ Len(<<>>) = 0
  BY DEF Once, Range
<1>3. EventTypes'
  BY <1>0, <1>1 DEF EventTypes
<1>4. Numbered' /\ BufferOfDay' /\ Somewhere' /\ StillLinked'
  BY <1>1, <1>2 DEF Numbered, BufferOfDay, Somewhere, StillLinked
<1>5. FilesOfDays'
  <2> SUFFICES ASSUME NEW d \in Day
               PROVE  /\ Once(evFiles[d])
                      /\ \A e \in Range(evFiles[d]) : e[3] = d /\ e[1] <= opens + 1 /\ e[1] # opens + 1
    BY <1>1, <1>2 DEF FilesOfDays
  <2>1. Once(evFiles[d]) /\ \A e \in Range(evFiles[d]) : e[3] = d /\ e[1] <= opens
    BY <1>0 DEF FilesOfDays
  <2>2. opens \in Nat /\ \A e \in Range(evFiles[d]) : e[1] \in Nat
    BY <1>0 DEF EventTypes, JournalEvent, Range
  <2> QED BY <2>1, <2>2
<1> QED BY <1>3, <1>4, <1>5 DEF EventInv

LEMMA PruneJournalsKeeps == ASSUME EventInv, NEW d \in Day, PruneJournals(d) PROVE EventInv'
<1>0. EventTypes /\ Numbered /\ BufferOfDay /\ FilesOfDays /\ Somewhere /\ StillLinked
  BY DEF EventInv
<1>1. /\ d \in OldDay /\ evFiles' = [evFiles EXCEPT ![d] = <<>>]
      /\ linked' = (linked /\ d # evDay)
      /\ UNCHANGED <<evDay, evBuf, added, synced, opens>>
  BY DEF PruneJournals
<1>2. Once(<<>>) /\ Range(<<>>) = {}
  BY DEF Once, Range
<1>3. evFiles' \in [Day -> Seq(JournalEvent)] /\ \A b \in Day : evFiles'[b] = IF b = d THEN <<>> ELSE evFiles[b]
  BY <1>0, <1>1 DEF EventTypes
<1>4. EventTypes'
  <2>1. linked' \in BOOLEAN
    BY <1>1
  <2> QED BY <1>0, <1>1, <1>3, <2>1 DEF EventTypes
<1>5. Numbered' /\ BufferOfDay' /\ StillLinked'
  BY <1>0, <1>1 DEF Numbered, BufferOfDay, StillLinked
<1>6. FilesOfDays'
  BY <1>0, <1>1, <1>2, <1>3 DEF FilesOfDays
<1>7. Somewhere'
  <2>1. \A i \in DOMAIN added : added[i][3] \in Day
    BY <1>0 DEF EventTypes, JournalEvent
  <2> QED BY <1>0, <1>1, <1>3, <2>1 DEF Somewhere
<1> QED BY <1>4, <1>5, <1>6, <1>7 DEF EventInv

LEMMA EventStep == EventInv /\ [EventNext]_eventVars => EventInv'
<1> SUFFICES ASSUME EventInv, [EventNext]_eventVars PROVE EventInv'
  OBVIOUS
<1>1. CASE UNCHANGED eventVars
  BY <1>1 DEF eventVars, EventInv, EventTypes, Numbered, BufferOfDay, FilesOfDays, Somewhere, StillLinked
<1>2. CASE \E d \in Day : AddEvent(d)
  BY <1>2, AddEventKeeps
<1>3. CASE \E d \in Day : PruneJournals(d)
  BY <1>3, PruneJournalsKeeps
<1>4. CASE FlushEvents \/ CloseEvents
  BY <1>4, FlushKeeps
<1>5. CASE OpenEvents
  BY <1>5, OpenEventsKeeps
<1> QED BY <1>1, <1>2, <1>3, <1>4, <1>5 DEF EventNext

LEMMA OccursOnce ==
    ASSUME NEW S, NEW s \in Seq(S), Once(s), NEW e
    PROVE  Occurrences(s, e) = IF e \in Range(s) THEN 1 ELSE 0
<1>1. CASE e \in Range(s)
  <2>1. PICK i \in DOMAIN s : s[i] = e
    BY <1>1 DEF Range
  <2>2. {k \in DOMAIN s : s[k] = e} = {i}
    BY <2>1 DEF Once
  <2> QED BY <1>1, <2>2, FS_Singleton DEF Occurrences
<1>2. CASE e \notin Range(s)
  <2>1. {k \in DOMAIN s : s[k] = e} = {}
    BY <1>2 DEF Range
  <2> QED BY <1>2, <2>1, FS_EmptySet DEF Occurrences
<1> QED BY <1>1, <1>2

LEMMA JournaledOnce == EventInv => EventsJournaledOnce
<1> SUFFICES ASSUME EventInv, NEW i \in DOMAIN added, added[i][3] \notin OldDay
             PROVE  LET inFiles == {d \in Day : Occurrences(evFiles[d], added[i]) > 0}
                    IN  /\ Cardinality(inFiles) + Occurrences(evBuf, added[i]) = 1
                        /\ \A d \in Day : Occurrences(evFiles[d], added[i]) <= 1
                        /\ i <= synced => inFiles # {}
  BY DEF EventsJournaledOnce
<1>0. EventTypes /\ BufferOfDay /\ FilesOfDays /\ Somewhere
  BY DEF EventInv
<1>1. PICK e : e = added[i]
  OBVIOUS
<1>2. PICK d0 : d0 = e[3]
  OBVIOUS
<1>3. d0 \in Day
  BY <1>0, <1>1, <1>2 DEF EventTypes, JournalEvent
<1>4. \A d \in Day : Occurrences(evFiles[d], e) = IF e \in Range(evFiles[d]) THEN 1 ELSE 0
  <2> SUFFICES ASSUME NEW d \in Day PROVE Occurrences(evFiles[d], e) = IF e \in Range(evFiles[d]) THEN 1 ELSE 0
    OBVIOUS
  <2>1. evFiles[d] \in Seq(JournalEvent) /\ Once(evFiles[d])
    BY <1>0 DEF EventTypes, FilesOfDays
  <2> QED BY <2>1, OccursOnce
<1>5. Occurrences(evBuf, e) = IF e \in Range(evBuf) THEN 1 ELSE 0
  <2>1. evBuf \in Seq(JournalEvent) /\ Once(evBuf)
    BY <1>0 DEF EventTypes, BufferOfDay
  <2> QED BY <2>1, OccursOnce
<1>6. PICK inFiles : inFiles = {d \in Day : Occurrences(evFiles[d], e) > 0}
  OBVIOUS
<1>7. \A d \in Day : d \in inFiles <=> e \in Range(evFiles[d])
  BY <1>4, <1>6
<1>8. \A d \in Day : e \in Range(evFiles[d]) => d = d0 /\ e \notin Range(evBuf)
  BY <1>0, <1>2 DEF FilesOfDays
<1>9. e \in Range(evFiles[d0]) \/ (i > synced /\ e \in Range(evBuf))
  BY <1>0, <1>1, <1>2 DEF Somewhere
<1>10. Cardinality(inFiles) + Occurrences(evBuf, e) = 1 /\ (i <= synced => inFiles # {})
  <2>1. CASE e \in Range(evFiles[d0])
    <3>1. inFiles = {d0} /\ e \notin Range(evBuf)
      BY <1>3, <1>6, <1>7, <1>8, <2>1
    <3>2. Cardinality(inFiles) = 1
      BY <3>1, FS_Singleton
    <3> QED BY <1>5, <3>1, <3>2
  <2>2. CASE e \notin Range(evFiles[d0])
    <3>1. inFiles = {} /\ e \in Range(evBuf) /\ i > synced
      BY <1>6, <1>7, <1>8, <1>9, <2>2
    <3>2. Cardinality(inFiles) = 0
      BY <3>1, FS_EmptySet
    <3>3. i \in Nat /\ synced \in Nat
      BY <1>0 DEF EventTypes
    <3> QED BY <1>5, <3>1, <3>2, <3>3
  <2> QED BY <2>1, <2>2
<1>11. \A d \in Day : Occurrences(evFiles[d], e) <= 1
  BY <1>4
<1> QED BY <1>1, <1>6, <1>10, <1>11

\* Every event of this process within the retention is in exactly one place, once: in the
\* journal of its day or still in the buffer, and in the journal when a flush came after
\* it, whatever order the days come in and whenever journals are pruned (AddEvent).
THEOREM EventsAreJournaled == EventSpec => []EventsJournaledOnce
BY EventInitInv, EventStep, JournaledOnce, PTL DEF EventSpec

=============================================================================
