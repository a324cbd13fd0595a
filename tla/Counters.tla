------------------------------ MODULE Counters ------------------------------
(***************************************************************************)
(* From an interface's octet counter to a rate (internal/poller/poller.go: *)
(* pollDevice, pollInterfaces, ifRates, rate).                             *)
(*                                                                         *)
(* An agent counts in 64 bits (hc) and in 32; the model counts modulo Wide *)
(* and Narrow, and the difference of two readings stands for the rate.     *)
(* A column the agent does not return in time reads as zero.               *)
(***************************************************************************)
EXTENDS Integers

CONSTANTS
    Wide,       \* stands for 2^64
    Narrow,     \* stands for 2^32
    HasHC,      \* does the agent have the 64-bit columns?
    MaxOctets,  \* bound: octets sent between two restarts of the device
    MaxUp       \* bound: uptime in seconds

\* A 64-bit counter that went back was reset: it does not come round (rate).
ASSUME CountersAssumption ==
    /\ {Wide, Narrow, MaxOctets, MaxUp} \subseteq Nat \ {0}
    /\ Narrow < Wide /\ MaxOctets < Wide
    /\ HasHC \subseteq BOOLEAN

VARIABLES
    agent,     \* the device: octets sent since its start, uptime, has it 64-bit counters
    lastRead,  \* Poller.counters of the interface, NoReading when there is none
    seen,      \* Poller.uptime of the device, -1 when there is none
    shown,     \* the sample published last: its rate, or NoRate
    sinceRead,      \* octets sent since the last reading
    spoilt,    \* what spoils the next rate: "walk" (a column was missing), "restart"
    between    \* octets sent between the last two readings, and what spoilt the rate

counterVars == <<agent, lastRead, seen, shown, sinceRead, spoilt, between>>

NoReading == [none |-> TRUE]
NoRate == -1

\* What pollInterfaces reads: the 64-bit column if the walk returns anything,
\* the 32-bit one otherwise; zero when that walk fails too.
Reading(wide, narrow) ==
    LET hc == agent.hc /\ wide IN
    [octets |-> IF hc THEN agent.octets % Wide
                ELSE IF narrow THEN agent.octets % Narrow ELSE 0,
     hc     |-> hc,
     uptime |-> agent.uptime]

\* rate: a 64-bit counter that went back was reset, a 32-bit one has wrapped.
\* The subtraction is unsigned.
Rate(prev, cur, hc) ==
    CASE cur >= prev -> cur - prev
      [] cur < prev /\ hc -> 0
      [] OTHER -> (Narrow - prev + cur) % Wide

\* pollDevice: the uptime went back by more than five seconds (Slack) and is
\* small.
Slack == 1
Rebooted(up) == seen > 0 /\ up < seen - Slack

-----------------------------------------------------------------------------
Send(n) ==
    /\ agent.octets + n <= MaxOctets /\ sinceRead + n <= MaxOctets
    /\ agent' = [agent EXCEPT !.octets = @ + n]
    /\ sinceRead' = sinceRead + n
    /\ UNCHANGED <<lastRead, seen, shown, spoilt, between>>

UpSecond ==
    /\ agent.uptime < MaxUp
    /\ agent' = [agent EXCEPT !.uptime = @ + 1]
    /\ UNCHANGED <<lastRead, seen, shown, sinceRead, spoilt, between>>

DeviceRestart ==
    /\ agent' = [agent EXCEPT !.octets = 0, !.uptime = 0]
    /\ spoilt' = spoilt \cup {"restart"}
    /\ UNCHANGED <<lastRead, seen, shown, sinceRead, between>>

\* Mutant: the reading is compared although the device restarted.
ComparableAlways(cur) == lastRead # NoReading

\* ifRates: no rate without a reading to compare with, ...
Comparable(cur) ==
    /\ lastRead # NoReading
    /\ ~Rebooted(cur.uptime)
    /\ cur.uptime >= lastRead.uptime

\* Nothing in the readings shows that the counter started again or wrapped twice.
Hidden(cur) ==
    \/ "restart" \in spoilt /\ lastRead # NoReading /\ cur.uptime >= lastRead.uptime
    \/ ~cur.hc /\ sinceRead >= Narrow

\* ... and none within a second of it (PollNow right after a poll).
PollInterfaces(wide, narrow) ==
    LET cur == Reading(wide, narrow)
        rated == Comparable(cur) /\ cur.uptime # lastRead.uptime IN
    /\ shown' = IF rated THEN Rate(lastRead.octets, cur.octets, cur.hc) ELSE NoRate
    /\ lastRead' = cur
    /\ seen' = cur.uptime
    /\ sinceRead' = 0
    /\ spoilt' = IF cur.hc = agent.hc /\ (cur.hc \/ narrow) THEN {} ELSE {"walk"}
    /\ between' = [octets |-> sinceRead,
                   spoilt |-> "walk" \in spoilt \cup spoilt' \/ Hidden(cur)]
    /\ UNCHANGED agent

-----------------------------------------------------------------------------
CountersInit ==
    /\ agent \in [octets : {0}, uptime : {0}, hc : HasHC]
    /\ lastRead = NoReading
    /\ seen = -1
    /\ shown = NoRate
    /\ sinceRead = 0
    /\ spoilt = {}
    /\ between = [octets |-> 0, spoilt |-> FALSE]

CountersNext ==
    \/ \E n \in 1 .. Narrow : Send(n)
    \/ UpSecond
    \/ DeviceRestart
    \/ \E wide, narrow \in BOOLEAN : PollInterfaces(wide, narrow)

CountersSpec == CountersInit /\ [][CountersNext]_counterVars

CountersTypeOK ==
    /\ agent \in [octets : 0 .. MaxOctets, uptime : 0 .. MaxUp, hc : BOOLEAN]
    /\ lastRead \in [octets : 0 .. Wide - 1, hc : BOOLEAN, uptime : 0 .. MaxUp] \cup {NoReading}
    /\ seen \in -1 .. MaxUp
    /\ shown \in NoRate .. Wide - 1
    /\ sinceRead \in Nat
    /\ spoilt \subseteq {"walk", "restart"}
    /\ between \in [octets : Nat, spoilt : BOOLEAN]

(***************************************************************************)
(* The rate shown is the traffic there was: over a 32-bit wrap, over polls *)
(* that came too early and over restarts of the device, which give no rate *)
(* at all.  Three things spoil it: a column missing from one of the two    *)
(* readings (it counts as zero), a restart whose uptime has already passed *)
(* the earlier reading's, and more than one wrap between two readings.     *)
(***************************************************************************)
RateIsTraffic ==
    shown # NoRate /\ ~between.spoilt => shown = between.octets
=============================================================================
