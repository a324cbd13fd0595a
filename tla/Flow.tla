-------------------------------- MODULE Flow --------------------------------
(***************************************************************************)
(* One exporter of the flow aggregator (internal/flow): the open minute,   *)
(* the ring of finished minutes, the 5-minute summaries and the day        *)
(* journals they are written to.  A datagram is stamped with the clock     *)
(* before the aggregator's lock is taken (Collector.Feed), so one stamped  *)
(* with the minute before may be added after the minute has rolled over.   *)
(* A flow is a number; a summary keeps the set of the flows it counts, so  *)
(* that one counted twice can be seen.  The byte counts, the top lists and *)
(* their cuts are abstracted: a summary's totals are sums over that set.   *)
(***************************************************************************)
EXTENDS Integers, Sequences, FiniteSets, SequencesExt

CONSTANTS
    MaxFlows,       \* bound on the records an exporter sends
    MaxMinute,      \* bound on the clock
    SlotMinutes,    \* minutes of a summary (5)
    DayMinutes,     \* minutes of a day's journal
    MinuteRing,     \* finished minutes kept (minuteRing)
    FiveRing,       \* summaries kept (fiveRing)
    ShortWindow     \* minutes of the longest window read from the minutes (an hour)

ASSUME FlowAssumption ==
    /\ {MaxFlows, MaxMinute, SlotMinutes, DayMinutes, MinuteRing, FiveRing, ShortWindow} \subseteq Nat \ {0}
    /\ DayMinutes % SlotMinutes = 0 /\ ShortWindow <= MinuteRing

VARIABLES
    minute,         \* the clock
    exported,       \* records the exporter has sent
    feeds,          \* datagrams stamped and waiting for the lock: {<<flow, minute>>}
    addedAt,        \* flow -> the minute it was added under, for those of this process
    cur,            \* exporterState.cur, as a sequence of at most one bucket
    minutes,        \* exporterState.minutes
    fives,          \* exporterState.fives
    dayFile,        \* day -> the lines of its .jsonl file, the buffered ones left out
    buffer,         \* Aggregator.w: lines not yet in the file
    openDay,        \* Aggregator.day, or NoDay
    gz,             \* day -> the lines of its .jsonl.gz file
    zips,           \* compressOld goroutines: [left: days it listed, renamed]
    flowUp,         \* the process runs
    turned          \* the clock of a datagram was behind, or a stop cut compressOld in two

flowVars == <<minute, exported, feeds, addedAt, cur, minutes, fives, dayFile, buffer, openDay, gz, zips, flowUp, turned>>

Records == 1 .. MaxFlows
Minute == 0 .. MaxMinute
FlowDay == 0 .. MaxMinute \div DayMinutes
NoDay == MaxMinute + 1
Slot(m) == m - (m % SlotMinutes)
DayAt(m) == m \div DayMinutes
Summary(ts, span, flows) == [ts |-> ts, span |-> span, flows |-> flows]
Newest(seq, n) == SubSeq(seq, IF Len(seq) > n THEN Len(seq) - n + 1 ELSE 1, Len(seq))
All(seq) == UNION {seq[i].flows : i \in DOMAIN seq}

----------------------------------------------------------------------------
(* rollLocked: the open minute joins the ring; when its slot is over at    *)
(* `next`, the slot's minutes are merged into one summary.                 *)

\* Mutant: the slot is folded when its last minute opens, one minute early.
SlotOverEarly(ts, next) == next - Slot(ts) >= SlotMinutes - 1

SlotOver(ts, next) == next - Slot(ts) >= SlotMinutes

Rolled1 == Newest(Append(minutes, cur[1]), MinuteRing)

Folded(ts) ==
    Summary(Slot(ts), SlotMinutes,
            UNION {Rolled1[i].flows : i \in {j \in DOMAIN Rolled1 : Slot(Rolled1[j].ts) = Slot(ts)}})

\* What the writer's flush leaves in the files (one removed under its writer gains nothing).
WrittenOut == [d \in DOMAIN dayFile |-> dayFile[d] \o (IF d = openDay THEN buffer ELSE <<>>)]

\* persistLocked: a summary of another day closes the journal, opens that day's and starts compressOld.
PersistLocked(s) ==
    LET d == DayAt(s.ts) IN
    IF openDay = d
    THEN /\ buffer' = Append(buffer, s)
         /\ UNCHANGED <<dayFile, openDay, zips>>
    ELSE /\ dayFile' = [x \in DOMAIN dayFile \cup {d} |-> IF x \in DOMAIN dayFile THEN WrittenOut[x] ELSE <<>>]
         /\ buffer' = <<s>>
         /\ openDay' = d
         /\ zips' = zips \cup {[left |-> DOMAIN dayFile \ {d}, renamed |-> NoDay]}

RollLocked(next, flows) ==
    /\ minutes' = Rolled1
    /\ cur' = <<Summary(next, 1, flows)>>
    /\ IF SlotOver(cur[1].ts, next)
       THEN /\ fives' = Newest(Append(fives, Folded(cur[1].ts)), FiveRing)
            /\ PersistLocked(Folded(cur[1].ts))
       ELSE UNCHANGED <<fives, dayFile, buffer, openDay, zips>>

----------------------------------------------------------------------------
(* Collector.Feed stamps a datagram; Aggregator.Add takes it under the lock. *)

Feed(f) ==
    /\ flowUp /\ f = exported + 1
    /\ exported' = f
    /\ feeds' = feeds \cup {<<f, minute>>}
    /\ UNCHANGED <<minute, addedAt, cur, minutes, fives, dayFile, buffer, openDay, gz, zips, flowUp, turned>>

AddRecords(f, at) ==
    /\ flowUp /\ <<f, at>> \in feeds
    /\ feeds' = feeds \ {<<f, at>>}
    /\ addedAt' = [g \in DOMAIN addedAt \cup {f} |-> IF g = f THEN at ELSE addedAt[g]]
    /\ IF cur # <<>> /\ cur[1].ts # at
       THEN RollLocked(at, {f})
       ELSE /\ cur' = <<Summary(at, 1, {f} \cup All(cur))>>
            /\ UNCHANGED <<minutes, fives, dayFile, buffer, openDay, zips>>
    /\ turned' = (turned \/ (cur # <<>> /\ at < cur[1].ts))
    /\ UNCHANGED <<minute, exported, gz, flowUp>>

\* Tick: an idle exporter's bucket is rolled; the journal is flushed, by a tick that rolls nothing too.
TickRolls ==
    /\ flowUp /\ cur # <<>> /\ cur[1].ts # minute
    /\ RollLocked(minute, {})
    /\ UNCHANGED <<minute, exported, feeds, addedAt, gz, flowUp, turned>>

TickFlushes ==
    /\ flowUp /\ buffer # <<>>
    /\ cur = <<>> \/ cur[1].ts = minute
    /\ dayFile' = WrittenOut
    /\ buffer' = <<>>
    /\ UNCHANGED <<minute, exported, feeds, addedAt, cur, minutes, fives, openDay, gz, zips, flowUp, turned>>

MinutePasses ==
    /\ minute < MaxMinute
    /\ minute' = minute + 1
    /\ UNCHANGED <<exported, feeds, addedAt, cur, minutes, fives, dayFile, buffer, openDay, gz, zips, flowUp, turned>>

----------------------------------------------------------------------------
(* compressOld: every other day's .jsonl is copied to a .gz that takes its *)
(* place by rename, and is then removed.                                   *)

ZipRename(z, d) ==
    /\ z \in zips /\ z.renamed = NoDay /\ d \in z.left \cap DOMAIN dayFile
    /\ gz' = [x \in DOMAIN gz \cup {d} |-> IF x = d THEN dayFile[d] ELSE gz[x]]
    /\ zips' = (zips \ {z}) \cup {[z EXCEPT !.renamed = d]}
    /\ UNCHANGED <<minute, exported, feeds, addedAt, cur, minutes, fives, dayFile, buffer, openDay, flowUp, turned>>

ZipRemove(z) ==
    /\ z \in zips /\ z.renamed # NoDay
    /\ dayFile' = [x \in DOMAIN dayFile \ {z.renamed} |-> dayFile[x]]
    /\ zips' = (zips \ {z}) \cup {[left |-> z.left \ {z.renamed}, renamed |-> NoDay]}
    /\ UNCHANGED <<minute, exported, feeds, addedAt, cur, minutes, fives, buffer, openDay, gz, flowUp, turned>>

ZipEnds(z) ==
    /\ z \in zips /\ z.renamed = NoDay /\ z.left \cap DOMAIN dayFile = {}
    /\ zips' = zips \ {z}
    /\ UNCHANGED <<minute, exported, feeds, addedAt, cur, minutes, fives, dayFile, buffer, openDay, gz, flowUp, turned>>

\* Prune: the days before the one kept are deleted, whatever their form.
PruneFlows(d) ==
    /\ flowUp /\ d = DayAt(minute) - 1 /\ d \in DOMAIN dayFile \cup DOMAIN gz /\ openDay # d /\ zips = {}
    /\ dayFile' = [x \in {y \in DOMAIN dayFile : y > d} |-> dayFile[x]]
    /\ gz' = [x \in {y \in DOMAIN gz : y > d} |-> gz[x]]
    /\ UNCHANGED <<minute, exported, feeds, addedAt, cur, minutes, fives, buffer, openDay, zips, flowUp, turned>>

----------------------------------------------------------------------------
(* Close flushes the journal; a crash does not.  Either way the next       *)
(* process reads the last two days back, the plain file before the packed. *)

Stops(disk) ==
    /\ flowUp /\ flowUp' = FALSE
    /\ dayFile' = disk
    /\ turned' = (turned \/ \E z \in zips : z.renamed # NoDay)
    /\ feeds' = {} /\ addedAt' = [f \in {} |-> 0] /\ cur' = <<>> /\ minutes' = <<>> /\ fives' = <<>>
    /\ buffer' = <<>> /\ openDay' = NoDay /\ zips' = {}
    /\ UNCHANGED <<minute, exported, gz>>

FlowCrash == Stops(dayFile)
FlowClose == buffer # <<>> /\ Stops(WrittenOut)

Lines(d) ==
    (IF d \in DOMAIN dayFile THEN dayFile[d] ELSE <<>>) \o (IF d \in DOMAIN gz THEN gz[d] ELSE <<>>)

\* The summaries of a sequence that are not before minute m, by their places.
Since(seq, m) == {i \in DOMAIN seq : seq[i].ts >= m}

\* The two days' files in the order they are read.
OnDisk == (IF DayAt(minute) > 0 THEN Lines(DayAt(minute) - 1) ELSE <<>>) \o Lines(DayAt(minute))

\* `order` lists the places of S from the first to the last.
InOrder(order, S) == Range(order) = S /\ \A i, j \in DOMAIN order : i < j => order[i] < order[j]

Reload ==
    /\ ~flowUp /\ flowUp' = TRUE
    /\ \E order \in [1 .. Cardinality(Since(OnDisk, minute - DayMinutes)) -> DOMAIN OnDisk] :
           /\ InOrder(order, Since(OnDisk, minute - DayMinutes))
           /\ fives' = Newest([i \in DOMAIN order |-> OnDisk[order[i]]], FiveRing)
    /\ UNCHANGED <<minute, exported, feeds, addedAt, cur, minutes, dayFile, buffer, openDay, gz, zips, turned>>

----------------------------------------------------------------------------
(* exporterState.pick: the summaries a window adds up, <<list, place>>.     *)

NoFirst == MaxMinute + 1
Open1 == IF cur # <<>> /\ cur[1].flows # {} THEN {1} ELSE {}

\* The first minute the ring or the open minute answers for.
First(since) ==
    LET taken == {minutes[i].ts : i \in Since(minutes, since)}
    IN  IF taken # {} THEN CHOOSE m \in taken : \A n \in taken : m <= n
        ELSE IF Open1 # {} THEN cur[1].ts ELSE NoFirst

Preceding(first) == {i \in DOMAIN fives : first = NoFirst \/ fives[i].ts + fives[i].span <= first}

Pick(since, short) ==
    IF short
    THEN ({"minutes"} \X Since(minutes, since)) \cup ({"cur"} \X Open1)
            \cup ({"fives"} \X (Since(fives, since) \cap Preceding(First(since))))
    ELSE {"fives"} \X Since(fives, since)

Picked(p) == CASE p[1] = "minutes" -> minutes[p[2]] [] p[1] = "cur" -> cur[p[2]] [] p[1] = "fives" -> fives[p[2]]

----------------------------------------------------------------------------
FlowInit ==
    /\ minute = 0 /\ exported = 0 /\ feeds = {} /\ addedAt = [f \in {} |-> 0]
    /\ cur = <<>> /\ minutes = <<>> /\ fives = <<>>
    /\ dayFile = [d \in {} |-> <<>>] /\ buffer = <<>> /\ openDay = NoDay /\ gz = [d \in {} |-> <<>>]
    /\ zips = {} /\ flowUp = TRUE /\ turned = FALSE

FlowNext ==
    \/ \E f \in Records : Feed(f)
    \/ \E f \in Records, at \in Minute : AddRecords(f, at)
    \/ TickRolls \/ TickFlushes \/ MinutePasses
    \/ \E z \in zips : ZipRemove(z) \/ ZipEnds(z) \/ \E d \in FlowDay : ZipRename(z, d)
    \/ \E d \in FlowDay : PruneFlows(d)
    \/ FlowCrash \/ FlowClose \/ Reload

FlowSpec == FlowInit /\ [][FlowNext]_flowVars

Summaries(span) == [ts : Minute, span : {span}, flows : SUBSET Records]

FlowTypeOK ==
    /\ minute \in Minute /\ exported \in 0 .. MaxFlows /\ feeds \subseteq Records \X Minute
    /\ DOMAIN addedAt \subseteq Records /\ \A f \in DOMAIN addedAt : addedAt[f] \in Minute
    /\ cur \in {<<>>} \cup {<<s>> : s \in Summaries(1)}
    /\ Range(minutes) \subseteq Summaries(1) /\ Len(minutes) <= MinuteRing
    /\ Range(fives) \subseteq Summaries(SlotMinutes) /\ Len(fives) <= FiveRing
    /\ DOMAIN dayFile \subseteq FlowDay /\ DOMAIN gz \subseteq FlowDay
    /\ \A d \in DOMAIN dayFile : Range(dayFile[d]) \subseteq Summaries(SlotMinutes)
    /\ openDay \in FlowDay \cup {NoDay} /\ Range(buffer) \subseteq Summaries(SlotMinutes)
    /\ zips \subseteq [left : SUBSET FlowDay, renamed : FlowDay \cup {NoDay}]
    /\ flowUp \in BOOLEAN /\ turned \in BOOLEAN

Counted(places, f) == Cardinality({p \in places : f \in Picked(p).flows})

(* Window (agg.go pick, rollLocked, reload) counts a flow at most once,    *)
(* whether it reads minutes or summaries, and a window of up to ShortWindow *)
(* counts every flow this process added in it - unless a datagram was added *)
(* under an earlier minute than the open one (its slot is then folded a     *)
(* second time), or a stop left a day both as .jsonl and as .gz.            *)
WindowCountsOnce ==
    turned \/ \A since \in Minute :
        /\ \A f \in Records, short \in BOOLEAN : Counted(Pick(since, short), f) <= 1
        /\ since > minute - ShortWindow =>
               \A f \in DOMAIN addedAt : addedAt[f] >= since => Counted(Pick(since, TRUE), f) = 1

=============================================================================
