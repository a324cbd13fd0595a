---------------------------- MODULE EventJournal ----------------------------
(***************************************************************************)
(* The store's events (internal/store/store.go, evMu): a ring of the       *)
(* newest ones and a journal file per day, written through a buffered      *)
(* writer that is switched when the day of an event changes.  Events carry *)
(* their own time, so the days need not come in order.                     *)
(***************************************************************************)
EXTENDS Naturals, Sequences, FiniteSets, SequencesExt

CONSTANTS
    Day,         \* days an event can carry, numbered from 1
    OldDay,      \* those whose files are older than the retention
    EvMax,       \* evMax: events kept in the ring
    MaxEvents,   \* bound: events of one process
    MaxOpens     \* bound: starts of the process

ASSUME EventAssumption == /\ {EvMax, MaxEvents, MaxOpens} \subseteq Nat \ {0} 
                             /\ Day \subseteq Nat \ {0} /\ OldDay \subseteq Day

VARIABLES
    evRing,    \* newest events
    evDay,     \* the day of the open file, 0 when there is none
    linked,    \* the open file still has its name
    evBuf,     \* evWriter: events not yet in the file
    evFiles,   \* events/<day>.jsonl
    added,     \* the events added by this process
    synced,    \* the number of them the callers may rely on: added before a flush
    opens      \* how often the process started

eventVars == <<evRing, evDay, linked, evBuf, evFiles, added, synced, opens>>

\* Mutant: the ring keeps one event more.
LastOfOneMore(s, n) == SubSeq(s, IF Len(s) > n THEN Len(s) - n ELSE 1, Len(s))

LastOf(s, n) == SubSeq(s, IF Len(s) > n THEN Len(s) - n + 1 ELSE 1, Len(s))

\* The files when the buffer is flushed into the open one.
Flushed == [d \in Day |-> IF d = evDay /\ linked THEN evFiles[d] \o evBuf ELSE evFiles[d]]

\* Mutant: the writer is replaced without a flush.
AddEventNoFlush(d) ==
    LET e == <<opens, Len(added) + 1, d>>
    IN  /\ Len(added) < MaxEvents
        /\ added' = Append(added, e)
        /\ evRing' = LastOf(Append(evRing, e), EvMax)
        /\ evDay' = d /\ linked' = (evDay = d => linked)
        /\ evBuf' = IF evDay = d THEN Append(evBuf, e) ELSE <<e>>
        /\ UNCHANGED <<evFiles, synced, opens>>

\* AddEvent: the ring keeps the newest EvMax; an event of another day flushes the
\* writer and opens that day's file.
AddEvent(d) ==
    LET e == <<opens, Len(added) + 1, d>>
    IN  /\ Len(added) < MaxEvents
        /\ added' = Append(added, e)
        /\ evRing' = LastOf(Append(evRing, e), EvMax)
        /\ evDay' = d /\ linked' = (evDay = d => linked)
        /\ IF evDay = d THEN evBuf' = Append(evBuf, e) /\ UNCHANGED evFiles
                        ELSE evBuf' = <<e>> /\ evFiles' = Flushed
        /\ UNCHANGED <<synced, opens>>

\* FlushEvents; AddEvent does the same when 32 kB are buffered.
FlushEvents ==
    /\ evBuf # <<>>
    /\ evFiles' = Flushed /\ evBuf' = <<>>
    /\ synced' = Len(added)
    /\ UNCHANGED <<evRing, evDay, linked, added, opens>>

\* Close flushes and closes the file; an event that comes later opens one again.
CloseEvents ==
    /\ evDay # 0
    /\ evFiles' = Flushed /\ evBuf' = <<>> /\ evDay' = 0
    /\ synced' = Len(added)
    /\ UNCHANGED <<evRing, linked, added, opens>>

\* The file of the day that has k later ones.
Newest(k) ==
    LET at == {d \in Day : evFiles[d] # <<>> /\ Cardinality({e \in Day : e > d /\ evFiles[e] # <<>>}) = k}
    IN  IF at = {} THEN <<>> ELSE evFiles[CHOOSE d \in at : TRUE]

\* loadRecentEvents: the lines of the last three files, in the order of their names.
LoadRecentEvents == LastOf(Newest(2) \o Newest(1) \o Newest(0), EvMax)

\* The process is gone, with what was buffered, and Open reads the files.
OpenEvents ==
    /\ opens < MaxOpens
    /\ opens' = opens + 1
    /\ evDay' = 0 /\ evBuf' = <<>> /\ added' = <<>> /\ synced' = 0
    /\ evRing' = LoadRecentEvents
    /\ linked' = TRUE
    /\ UNCHANGED evFiles

\* PruneJournals deletes the files that are old enough, also the open one, whose
\* later lines are lost with it.
PruneJournals(d) ==
    /\ d \in OldDay /\ evFiles[d] # <<>>
    /\ evFiles' = [evFiles EXCEPT ![d] = <<>>]
    /\ linked' = (linked /\ d # evDay)
    /\ UNCHANGED <<evRing, evDay, evBuf, added, synced, opens>>

EventInit ==
    /\ evRing = <<>> /\ evDay = 0 /\ linked = TRUE /\ evBuf = <<>> /\ evFiles = [d \in Day |-> <<>>]
    /\ added = <<>> /\ synced = 0 /\ opens = 1

EventNext ==
    \/ \E d \in Day : AddEvent(d) \/ PruneJournals(d)
    \/ FlushEvents \/ CloseEvents \/ OpenEvents

EventSpec == EventInit /\ [][EventNext]_eventVars

-----------------------------------------------------------------------------
(* Properties.                                                             *)

EventTypeOK ==
    LET Event == (1..MaxOpens) \X (1..MaxEvents) \X Day
    IN  /\ evDay \in Day \union {0} /\ linked \in BOOLEAN /\ opens \in 1..MaxOpens /\ synced \in 0..MaxEvents
        /\ {evRing, evBuf, added} \subseteq Seq(Event)
        /\ evFiles \in [Day -> Seq(Event)]
        /\ Len(evRing) <= EvMax

Occurrences(s, e) == Cardinality({i \in DOMAIN s : s[i] = e})

\* Every event of this process, within the retention, is written exactly once, to the journal of some day or
\* still to the buffer, whatever order the days come in; what was added before a flush
\* is on disk (AddEvent, FlushEvents, Close).
EventsJournaledOnce ==
    \A i \in DOMAIN added : added[i][3] \notin OldDay =>
        LET inFiles == {d \in Day : Occurrences(evFiles[d], added[i]) > 0}
        IN  /\ Cardinality(inFiles) + Occurrences(evBuf, added[i]) = 1
            /\ \A d \in Day : Occurrences(evFiles[d], added[i]) <= 1
            /\ i <= synced => inFiles # {}
=============================================================================
