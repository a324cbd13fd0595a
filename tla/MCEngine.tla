----------------------------- MODULE MCEngine -----------------------------
(* The state engine for one device, with flapping, operators, generic      *)
(* events and restarts, and for a switch with one behind it, where one's   *)
(* outage folds under the other's.  A behaviour is one of one of the two.  *)
EXTENDS StateEngine, TLC

CONSTANTS core, dist

\* A device alone; it answers or not.
CoreAlone == core :> None
NoPorts == [i \in {} |-> core]
PlainSamples == {[icmp |-> TRUE, snmp |-> TRUE, level |-> "low"],
                 [icmp |-> FALSE, snmp |-> FALSE, level |-> "absent"]}

VARIABLES
    part,       \* the engine this behaviour is of
    pairObj, pairMaint, pairAlerts, pairNotes

pairVars == <<pairObj, pairMaint, pairAlerts, pairNotes>>

Pair == INSTANCE StateEngine WITH
    Device <- {core, dist}, Upstream <- core :> None @@ dist :> core, Source <- {},
    DownCycles <- 1, RuleCycles <- 1, FlapRule <- FALSE, Operators <- {},
    obj <- pairObj, maint <- pairMaint, alerts <- pairAlerts, notes <- pairNotes

EngineInit == part \in {"alone", "pair"} /\ Init /\ Pair!Init

EngineNext ==
    /\ UNCHANGED part
    /\ \/ part = "alone" /\ Next /\ UNCHANGED pairVars
       \/ part = "pair" /\ Pair!Next /\ UNCHANGED vars

EngineSpec == EngineInit /\ [][EngineNext]_<<part, vars, pairVars>>

(* AnsweringEndsOutage of the pair: whatever the other switch does and      *)
(* however the alert was folded, a device that answers loses it.            *)
PairAnsweringEndsOutage == Pair!AnsweringEndsOutage
===========================================================================
