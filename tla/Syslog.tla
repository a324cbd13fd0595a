------------------------------- MODULE Syslog -------------------------------
(***************************************************************************)
(* Log lines (internal/syslog): the receiver takes a line of one source,    *)
(* within the rate allowed to it, stamps it with the time of arrival, and   *)
(* the log store appends it to the file of that day.  The first line of     *)
(* another day closes the old file and starts a compressor beside the       *)
(* writer; old days are pruned; a search reads a day's plain file, or its   *)
(* compressed one when there is no plain one.  A stamp is taken before the  *)
(* store's lock.  What a line says is left out; a standby hands its lines   *)
(* to the forwarder (module Forwarder).                                    *)
(***************************************************************************)
EXTENDS Integers, FiniteSets

CONSTANTS
    Handler,        \* the listeners' goroutines
    Packer,         \* compressOld goroutines at once
    Rate,           \* Receiver.PerSourceRate
    LastDay,        \* bound on the days
    MaxLines,       \* bound on the lines stored
    MaxBuffer,      \* lines the writer buffers before it flushes
    KeepDays,       \* retention
    MaxKills        \* bound on the crashes

ASSUME SyslogAssumption ==
    /\ IsFiniteSet(Handler) /\ IsFiniteSet(Packer)
    /\ {Rate, LastDay, MaxBuffer} \subseteq Nat \ {0} /\ {MaxLines, KeepDays, MaxKills} \subseteq Nat

VARIABLES
    tokens, flood,  \* the source's bucket
    handler,        \* handler -> NoLine, Unstamped, or the day its line is stamped with
    today,
    plain, packed,  \* day -> the lines of its .jsonl and .jsonl.gz file, Missing when there is none
    scratch,        \* day -> the .gz.tmp file
    logDay,         \* LogStore.day, 0 when no file is open
    attached,         \* the open file is still the one of that name
    buffer,         \* LogStore.w
    packer,         \* packer -> [at, but, todo]: the day it leaves alone, the days to do
    written,        \* lines stored, but for what a crash took from the buffer
    kills,
    crossed         \* the writer went back a day, or changed day while a compressor was at work

syslogVars == <<tokens, flood, handler, today, plain, packed, scratch, logDay, attached, buffer,
                packer, written, kills, crossed>>
packVars == <<tokens, flood, handler, today, logDay, buffer, written, kills, crossed>>
fileVars == <<plain, packed, scratch, logDay, attached, buffer, packer, written, crossed>>

LogDays == 1 .. LastDay
NoLine == 0
Unstamped == -1
Missing == {<<0, 0>>}       \* no file; a line is a pair of its number and its day
Numbers == {line[1] : line \in written} \cup {0}
NewLine(d) == <<1 + CHOOSE n \in Numbers : \A m \in Numbers : m <= n, d>>
PackerIdle == [at |-> "rest", but |-> 0, todo |-> {}]
NextOf(k) == CHOOSE d \in packer[k].todo : \A e \in packer[k].todo : d <= e

----------------------------------------------------------------------------
(* Receiver.Handle.                                                        *)

\* allow: the bucket fills with time, up to twice the rate.
Second ==
    /\ tokens < 2 * Rate
    /\ tokens' = IF tokens + Rate > 2 * Rate THEN 2 * Rate ELSE tokens + Rate
    /\ UNCHANGED <<flood, handler, today, fileVars, kills>>

\* A line over the rate is dropped; the first one raises log_flood, after the
\* unlock (an event, taken by the engine).
HandleDropped(h) ==
    /\ handler[h] = NoLine /\ tokens < 1
    /\ flood' = TRUE
    /\ UNCHANGED <<tokens, handler, today, fileVars, kills>>

HandleAllowed(h) ==
    /\ handler[h] = NoLine /\ tokens >= 1
    /\ tokens' = tokens - 1
    /\ flood' = (flood /\ ~(tokens - 1 > Rate))
    /\ handler' = [handler EXCEPT ![h] = Unstamped]
    /\ UNCHANGED <<today, fileVars, kills>>

\* Parse, with time.Now.
Stamp(h) ==
    /\ handler[h] = Unstamped
    /\ handler' = [handler EXCEPT ![h] = today]
    /\ UNCHANGED <<tokens, flood, today, fileVars, kills>>

----------------------------------------------------------------------------
(* LogStore, under its lock.                                               *)

\* The buffer goes to the open file; a file without a name is lost with it.
AfterFlush == IF logDay # 0 /\ attached THEN [plain EXCEPT ![logDay] = @ \cup buffer] ELSE plain

\* Append.  Another day closes the file, opens that day's, and starts a
\* compressor that leaves the day alone; a file that cannot be opened drops
\* the line.
SameDay(d) == logDay = d

\* A later day has a file already, or an earlier change of day is still at work.
Crosses(d) ==
    /\ ~SameDay(d)
    /\ \/ \E e \in d + 1 .. LastDay : plain[e] # Missing \/ packed[e] # Missing
       \/ \E k \in Packer : packer[k] # PackerIdle

AppendLog(h) ==
    /\ handler[h] \in LogDays
    /\ \A line \in written : line[1] < MaxLines
    /\ LET d == handler[h]
           line == NewLine(d)
           files == IF SameDay(d) THEN plain ELSE [AfterFlush EXCEPT ![d] = IF @ = Missing THEN {} ELSE @]
           full == (IF SameDay(d) THEN buffer ELSE {}) \cup {line}
           flush == Cardinality(full) > MaxBuffer
           kept == attached \/ ~SameDay(d)
       IN  /\ plain' = IF flush /\ kept THEN [files EXCEPT ![d] = @ \cup full] ELSE files
           /\ buffer' = IF flush THEN {} ELSE full
           /\ logDay' = d /\ attached' = kept
           /\ written' = written \cup {line}
           /\ crossed' = (crossed \/ Crosses(d))
           /\ IF SameDay(d) THEN UNCHANGED packer
              ELSE \E k \in Packer : /\ packer[k] = PackerIdle
                                     /\ packer' = [packer EXCEPT ![k] = [at |-> "glob", but |-> d, todo |-> {}]]
    /\ handler' = [handler EXCEPT ![h] = NoLine]
    /\ UNCHANGED <<tokens, flood, today, packed, scratch, kills>>

AppendRefused(h) ==
    /\ handler[h] \in LogDays /\ ~SameDay(handler[h])
    /\ plain' = AfterFlush /\ buffer' = {} /\ logDay' = 0 /\ attached' = TRUE
    /\ handler' = [handler EXCEPT ![h] = NoLine]
    /\ UNCHANGED <<tokens, flood, today, packed, scratch, packer, written, kills, crossed>>

\* Search begins with it.
Flush ==
    /\ buffer # {} /\ plain' = AfterFlush /\ buffer' = {}
    /\ UNCHANGED <<tokens, flood, handler, today, packed, scratch, logDay, attached, packer>>
    /\ UNCHANGED <<written, kills, crossed>>

\* What Search reads of a day: the plain file first.
Search(d) ==
    LET now == AfterFlush[d]
    IN  IF now # Missing THEN now ELSE IF packed[d] # Missing THEN packed[d] ELSE {}

----------------------------------------------------------------------------
(* compressOld, without the lock: one day after the other.                 *)

\* Mutant: the day in use is packed too.
ToPackAll(k) == {d \in LogDays : plain[d] # Missing}

ToPack(k) == {d \in LogDays : plain[d] # Missing /\ d # packer[k].but}

\* The compressor is at another point, with these days before it.
Packs(k, at, todo) == packer' = [packer EXCEPT ![k] = [at |-> at, but |-> packer[k].but, todo |-> todo]]

Glob(k) ==
    /\ packer[k].at = "glob"
    /\ Packs(k, "copy", ToPack(k))
    /\ UNCHANGED <<packVars, plain, packed, scratch, attached>>

PackEnds(k) ==
    /\ packer[k].at = "copy" /\ packer[k].todo = {}
    /\ packer' = [packer EXCEPT ![k] = PackerIdle]
    /\ UNCHANGED <<packVars, plain, packed, scratch, attached>>

\* A file that is gone is passed over.
PackCopy(k) ==
    /\ packer[k].at = "copy" /\ packer[k].todo # {}
    /\ LET d == NextOf(k) IN
       IF plain[d] = Missing
       THEN Packs(k, "copy", packer[k].todo \ {d}) /\ UNCHANGED scratch
       ELSE Packs(k, "rename", packer[k].todo) /\ scratch' = [scratch EXCEPT ![d] = plain[d]]
    /\ UNCHANGED <<packVars, plain, packed, attached>>

PackRename(k) ==
    /\ packer[k].at = "rename"
    /\ LET d == NextOf(k) IN
       /\ scratch[d] # Missing
       /\ packed' = [packed EXCEPT ![d] = scratch[d]] /\ scratch' = [scratch EXCEPT ![d] = Missing]
       /\ Packs(k, "remove", packer[k].todo)
    /\ UNCHANGED <<packVars, plain, attached>>

\* A copy or a rename that fails removes what it wrote and leaves the day plain.
PackFails(k) ==
    /\ packer[k].at = "rename"
    /\ scratch' = [scratch EXCEPT ![NextOf(k)] = Missing]
    /\ Packs(k, "copy", packer[k].todo \ {NextOf(k)})
    /\ UNCHANGED <<packVars, plain, packed, attached>>

PackRemove(k) ==
    /\ packer[k].at = "remove"
    /\ LET d == NextOf(k) IN
       /\ plain' = [plain EXCEPT ![d] = Missing]
       /\ attached' = (attached /\ logDay # d)
       /\ Packs(k, "copy", packer[k].todo \ {d})
    /\ UNCHANGED <<packVars, packed, scratch>>

\* Prune: every file of a day older than the retention and a day.
Retained(d) == today - d <= KeepDays

Prune ==
    /\ \E d \in LogDays : ~Retained(d) /\ d < today /\ (plain[d] # Missing \/ packed[d] # Missing)
    /\ plain' = [d \in LogDays |-> IF Retained(d) THEN plain[d] ELSE Missing]
    /\ packed' = [d \in LogDays |-> IF Retained(d) THEN packed[d] ELSE Missing]
    /\ scratch' = [d \in LogDays |-> IF Retained(d) THEN scratch[d] ELSE Missing]
    /\ attached' = (attached /\ (logDay # 0 => Retained(logDay)))
    /\ UNCHANGED <<packVars, packer>>

----------------------------------------------------------------------------
(* Time, stops and crashes.                                                *)

\* A day is longer than a compression.
NextDay ==
    /\ today < LastDay /\ today' = today + 1
    /\ \A k \in Packer : packer[k] = PackerIdle
    /\ UNCHANGED <<tokens, flood, handler, fileVars, kills>>

Begins ==
    /\ handler' = [h \in Handler |-> NoLine] /\ packer' = [k \in Packer |-> PackerIdle]
    /\ tokens' = Rate /\ flood' = FALSE
    /\ logDay' = 0 /\ attached' = TRUE /\ buffer' = {} /\ kills' = kills + 1

\* Close flushes; a crash loses what is in the buffer.
StopAndStart ==
    /\ kills < MaxKills /\ Begins
    /\ plain' = AfterFlush
    /\ UNCHANGED <<today, packed, scratch, written, crossed>>

Crash ==
    /\ kills < MaxKills /\ Begins
    /\ written' = written \ buffer
    /\ UNCHANGED <<today, plain, packed, scratch, crossed>>

SyslogInit ==
    /\ tokens = Rate /\ flood = FALSE /\ handler = [h \in Handler |-> NoLine] /\ today = 1
    /\ plain = [d \in LogDays |-> Missing] /\ packed = plain /\ scratch = plain
    /\ logDay = 0 /\ attached = TRUE /\ buffer = {} /\ packer = [k \in Packer |-> PackerIdle]
    /\ written = {} /\ kills = 0 /\ crossed = FALSE

SyslogNext ==
    \/ Second \/ Flush \/ Prune \/ NextDay \/ StopAndStart \/ Crash
    \/ \E h \in Handler : HandleDropped(h) \/ HandleAllowed(h) \/ Stamp(h) \/ AppendLog(h) \/ AppendRefused(h)
    \/ \E k \in Packer : Glob(k) \/ PackEnds(k) \/ PackCopy(k) \/ PackRename(k) \/ PackFails(k) \/ PackRemove(k)

SyslogSpec == SyslogInit /\ [][SyslogNext]_syslogVars

SyslogTypeOK ==
    /\ tokens \in 0 .. 2 * Rate /\ {flood, attached, crossed} \subseteq BOOLEAN
    /\ handler \in [Handler -> {NoLine, Unstamped} \cup LogDays]
    /\ today \in LogDays /\ logDay \in LogDays \cup {0} /\ kills \in 0 .. MaxKills
    /\ \A k \in Packer : /\ packer[k].todo \subseteq LogDays
                         /\ packer[k].at \in {"rename", "remove"} => packer[k].todo # {}

(* A search finds every stored line of the days kept, at every moment: in   *)
(* the buffer, while its day is compressed, after a compression that failed *)
(* or was cut off by a crash, and after days were pruned.  Except where a   *)
(* line stamped before midnight is stored after one stamped later, or the   *)
(* writer changes day while a compressor is at work: the compressor then    *)
(* takes the day in use for an old one, removes the open file, and the next *)
(* compression of that day overwrites what it saved (README).               *)
StoredIsFound ==
    ~crossed => \A line \in written : Retained(line[2]) => line \in Search(line[2])

=============================================================================
