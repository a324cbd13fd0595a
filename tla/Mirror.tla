------------------------------- MODULE Mirror -------------------------------
(***************************************************************************)
(* The mirror (internal/cluster/sync.go): every ten seconds a standby asks *)
(* the leader for a manifest of its data directory, fetches what differs   *)
(* file by file in the order of the paths, removes what the leader does    *)
(* not have, and reloads its read-only store when state.json was among the *)
(* changes.  Append-only journals are continued by their tail.  The        *)
(* leader goes on writing meanwhile, every fetch may fail and end the      *)
(* pass, and the leader may change between any two steps.                  *)
(*                                                                         *)
(* A file is the sequence of the writes it consists of (one for a file     *)
(* that is always written whole), its size the number of them; mtime is    *)
(* the time of the last write, which fetch copies to the local file.       *)
(***************************************************************************)
EXTENDS Naturals, Sequences, SequencesExt, FiniteSets

CONSTANTS
    Full, Collector,   \* members that keep a copy, and those that keep state.json only
    MaxClock,          \* bound: writes of leaders
    MaxPasses,         \* bound: passes begun
    MaxFailovers       \* bound: changes of the leader

ASSUME MirrorAssumption ==
    /\ Full # {} /\ Full \intersect Collector = {}
    /\ {MaxClock, MaxPasses, MaxFailovers} \subseteq Nat

Holder == Full \union Collector

\* One journal, state.json and one block of the time series, in path order.
File    == {"events", "state", "tsdb"}
InOrder == <<"events", "state", "tsdb">>
Tailed  == {"events"}           \* *.jsonl

VARIABLES
    lead,       \* the leader
    files,      \* files[n][f]: the content; <<>> is no such file
    mtime,      \* mtime[n][f]
    last,       \* m.last: what the manifest said when f was fetched, NoInfo if never
    pass,       \* the running SyncOnce of n
    view,       \* the state.json the standby's store has loaded
    sources,    \* whom, and under which leadership, the lines of n's journal were fetched from
    clock, passes, failovers

mirrorVars == <<lead, files, mtime, last, pass, view, sources, clock, passes, failovers>>

Info   == [size : Nat, mtime : Nat]
NoInfo == [size |-> 0, mtime |-> 0]

\* Manifest: path, size and mtime of every file.
Manifest(n) == [f \in File |-> [size |-> Len(files[n][f]), mtime |-> mtime[n][f]]]

Resting == [on |-> FALSE, from |-> lead, remote |-> [f \in File |-> NoInfo],
            mine |-> [f \in File |-> NoInfo], next |-> 1, changed |-> {}]

\* m.Only: a collector mirrors state.json and the profiles.
Wanted(n, f) == n \in Full \/ f = "state"

-----------------------------------------------------------------------------
(* The leader's data directory.                                            *)

Write(f, content) ==
    /\ clock < MaxClock
    /\ clock' = clock + 1
    /\ files' = [files EXCEPT ![lead][f] = content]
    /\ mtime' = [mtime EXCEPT ![lead][f] = clock + 1]
    /\ UNCHANGED <<lead, last, pass, view, sources, passes, failovers>>

AppendLine    == Write("events", Append(files[lead]["events"], clock + 1))
WriteWhole(f) == Write(f, <<clock + 1>>)

\* PruneJournals, retention.
RemoveFile(f) == files[lead][f] # <<>> /\ Write(f, <<>>)

-----------------------------------------------------------------------------
(* SyncOnce.                                                               *)

\* The manifests are read one after the other, before anything is fetched.
PassBegin(n) ==
    /\ n # lead /\ ~pass[n].on /\ passes < MaxPasses
    /\ passes' = passes + 1
    /\ pass' = [pass EXCEPT ![n] = [on |-> TRUE, from |-> lead, remote |-> Manifest(lead),
                                    mine |-> Manifest(n), next |-> 1, changed |-> {}]]
    /\ UNCHANGED <<lead, files, mtime, last, view, sources, clock, failovers>>

\* The file the pass of n has come to.
Current(n) == InOrder[pass[n].next]
AtFile(n)  == pass[n].on /\ pass[n].next <= Len(InOrder)

Listed(n, f) == pass[n].remote[f].size > 0
Same(n, f) ==
    LET rf == pass[n].remote[f]  lf == pass[n].mine[f]
    IN  lf.size = rf.size /\ last[n][f] = rf

\* Mutant: any shorter local journal is taken for a prefix.
OffsetOfLocal(n, f) ==
    LET rf == pass[n].remote[f]  lf == pass[n].mine[f]
    IN  IF f \in Tailed /\ lf.size < rf.size THEN lf.size ELSE 0

\* Where to start: at the end of our copy when it is the length that was fetched last.
Offset(n, f) ==
    LET rf == pass[n].remote[f]  lf == pass[n].mine[f]
    IN  IF f \in Tailed /\ lf.size < rf.size /\ last[n][f].size = lf.size THEN lf.size ELSE 0

Skip(n) ==
    /\ AtFile(n)
    /\ LET f == Current(n) IN ~Wanted(n, f) \/ ~Listed(n, f) \/ Same(n, f)
    /\ pass' = [pass EXCEPT ![n].next = @ + 1]
    /\ UNCHANGED <<lead, files, mtime, last, view, sources, clock, passes, failovers>>

\* fetch: the leader sends what the file holds now from the offset on.  A tail is
\* appended to the local file, anything else replaces it by a rename.
Fetch(n) ==
    LET f    == Current(n)
        src  == pass[n].from
        off  == Offset(n, f)
        tail == SubSeq(files[src][f], off + 1, Len(files[src][f]))
    IN  /\ AtFile(n)
        /\ Wanted(n, f) /\ Listed(n, f) /\ ~Same(n, f)
        /\ files[src][f] # <<>>
        /\ files' = [files EXCEPT ![n][f] = IF off > 0 THEN @ \o tail ELSE tail]
        /\ mtime' = [mtime EXCEPT ![n][f] = pass[n].remote[f].mtime]
        /\ last'  = [last EXCEPT ![n][f] = pass[n].remote[f]]
        /\ pass'  = [pass EXCEPT ![n].next = @ + 1, ![n].changed = @ \union {f}]
        /\ sources' = IF f = "events"
                      THEN [sources EXCEPT ![n] = (IF off > 0 THEN @ ELSE {}) \union {<<src, failovers>>}]
                      ELSE sources
        /\ UNCHANGED <<lead, view, clock, passes, failovers>>

\* The fetch fails: not found, or the connection breaks.  Of a tail the first k lines
\* may have been appended.  The pass ends, and with it the list of what changed.
FetchFails(n, k) ==
    LET f    == Current(n)
        src  == pass[n].from
        off  == Offset(n, f)
    IN  /\ AtFile(n)
        /\ Wanted(n, f) /\ Listed(n, f) /\ ~Same(n, f)
        /\ k \in 0..(IF off > 0 /\ Len(files[src][f]) > off THEN Len(files[src][f]) - off ELSE 0)
        /\ files' = [files EXCEPT ![n][f] = @ \o SubSeq(files[src][f], off + 1, off + k)]
        /\ mtime' = IF k = 0 THEN mtime ELSE [mtime EXCEPT ![n][f] = clock]
        /\ pass'  = [pass EXCEPT ![n] = Resting]
        /\ sources' = [sources EXCEPT ![n] = IF k = 0 THEN @ ELSE @ \union {<<src, failovers>>}]
        /\ UNCHANGED <<lead, last, view, clock, passes, failovers>>

\* What the leader's manifest did not list is removed, and the store is reloaded.
PassEnd(n) ==
    LET gone == {f \in File : Wanted(n, f) /\ ~Listed(n, f) /\ pass[n].mine[f].size > 0}
    IN  /\ pass[n].on /\ pass[n].next > Len(InOrder)
        /\ files' = [files EXCEPT ![n] = [f \in File |-> IF f \in gone THEN <<>> ELSE @[f]]]
        /\ last'  = [last EXCEPT ![n] = [f \in File |-> IF f \in gone THEN NoInfo ELSE @[f]]]
        /\ view'  = IF "state" \in pass[n].changed
                    THEN [view EXCEPT ![n] = files[n]["state"]] ELSE view
        /\ pass'  = [pass EXCEPT ![n] = Resting]
        /\ UNCHANGED <<lead, mtime, sources, clock, passes, failovers>>

-----------------------------------------------------------------------------

\* A full node is elected: it re-executes itself and goes on with the files it has;
\* so does the old leader, as a standby that remembers nothing of earlier passes.
Failover(n) ==
    /\ n \in Full \ {lead} /\ failovers < MaxFailovers
    /\ failovers' = failovers + 1
    /\ lead' = n
    /\ last'    = [m \in Holder |-> IF m \in {n, lead} THEN [f \in File |-> NoInfo] ELSE last[m]]
    /\ pass'    = [m \in Holder |-> IF m \in {n, lead} THEN [Resting EXCEPT !.from = n] ELSE pass[m]]
    /\ sources' = [m \in Holder |-> IF m \in {n, lead} THEN {} ELSE sources[m]]
    /\ view'    = [m \in Holder |-> IF m \in {n, lead} THEN files[m]["state"] ELSE view[m]]
    /\ UNCHANGED <<files, mtime, clock, passes>>

MirrorInit ==
    /\ lead \in Full
    /\ files = [n \in Holder |-> [f \in File |-> <<>>]]
    /\ mtime = [n \in Holder |-> [f \in File |-> 0]]
    /\ last  = [n \in Holder |-> [f \in File |-> NoInfo]]
    /\ pass  = [n \in Holder |-> Resting]
    /\ view  = [n \in Holder |-> <<>>]
    /\ sources = [n \in Holder |-> {}]
    /\ clock = 0 /\ passes = 0 /\ failovers = 0

MirrorNext ==
    \/ AppendLine
    \/ \E f \in File \ Tailed : WriteWhole(f)
    \/ \E f \in File \ {"state"} : RemoveFile(f)
    \/ \E n \in Holder : PassBegin(n) \/ Skip(n) \/ Fetch(n) \/ PassEnd(n)
    \/ \E n \in Holder, k \in 0..MaxClock : FetchFails(n, k)
    \/ \E n \in Holder : Failover(n)

MirrorSpec == MirrorInit /\ [][MirrorNext]_mirrorVars

-----------------------------------------------------------------------------
(* Properties.                                                             *)

MirrorTypeOK ==
    /\ lead \in Full
    /\ files \in [Holder -> [File -> Seq(1..MaxClock)]]
    /\ mtime \in [Holder -> [File -> 0..MaxClock]]
    /\ last \in [Holder -> [File -> Info]]
    /\ view \in [Holder -> Seq(1..MaxClock)]
    /\ sources \in [Holder -> SUBSET (Full \X (0..MaxFailovers))]

\* A standby whose journal was fetched from the present leader only, since it leads, has a
\* journal the leader's begins with, however many passes broke off and tails were put to
\* it, and although it may have led before with a journal of its own (SyncOnce, fetch).
\* A journal the leader has pruned or begun again is another one; so is, after two
\* changes of the leader, that of one who led twice.
Unpruned(n) == LET mine == files[n]["events"]  theirs == files[lead]["events"]
               IN  mine # <<>> => theirs # <<>> /\ Head(theirs) = Head(mine)
JournalIsCopied ==
    \A n \in Full \ {lead} :
        sources[n] = {<<lead, failovers>>} /\ Unpruned(n)
            => IsPrefix(files[n]["events"], files[lead]["events"])
=============================================================================
