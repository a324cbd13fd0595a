--------------------------- MODULE MCStateEngine ---------------------------
(* Small instances of StateEngine for TLC.                                 *)
EXTENDS StateEngine, TLC

CONSTANTS core, dist

Pair == core :> None @@ dist :> core
NoPorts == [i \in {} |-> core]

\* Whether the device answers, and nothing else.
PlainSamples == {[icmp |-> TRUE, snmp |-> TRUE, level |-> "low"],
                 [icmp |-> FALSE, snmp |-> FALSE, level |-> "absent"]}
=============================================================================
