----------------------------- MODULE MCMeasure -----------------------------
(* From what devices answer to what is shown of them: table walks, rates,   *)
(* endpoints, flows, links, the tree of parents, and the state of a device  *)
(* with a port.  The seven components share no state here; a behaviour is   *)
(* one of one of them, so that each is explored by itself.                  *)
EXTENDS StateEngine, SnmpClient, Counters, Endpoints, Flow, Topology, Parents, TLC

CONSTANTS core, port

\* One device and one port of it, and what a port can report; the place between the two
\* thresholds is tried with the device of MCServices.
CoreAlone  == core :> None
PortOfCore == port :> core
PlainSamples == {[icmp |-> TRUE, snmp |-> TRUE, level |-> "low"],
                 [icmp |-> FALSE, snmp |-> FALSE, level |-> "absent"]}
AllIfSamples == {s \in [admin : BOOLEAN, oper : BOOLEAN, level : Level \ {"mid"}] :
                    s.level # "absent" => s.admin /\ s.oper}

\* What three devices may hear of each other: a link both report, one both
\* protocols report under an interface index, and contradictory ones.
Heard1(l, r, p, s) == [lif |-> l, rem |-> r, rif |-> p, src |-> s]
SomeSights == <<{{}, {Heard1("p", 2, "p", "lldp")},
                     {Heard1("p", 3, "#p", "lldp"), Heard1("p", 3, "#p", "cdp")}},
                {{}, {Heard1("p", 1, "p", "lldp")}},
                {{}, {Heard1("#p", 1, "p", "lldp"), Heard1("q", 2, "q", "cdp")}}>>
PortNames  == ("p" :> "p") @@ ("q" :> "q") @@ ("#p" :> "p")
DrawnLinks == {<<1, "q", 2, "q">>}

\* Three devices of one site and one of another, two of them equally ranked.
TwoSites  == <<"x", "x", "x", "y">>
SomeRanks == <<1, 4, 1, 3>>

VARIABLE part       \* the component this behaviour is of

measureVars == <<part, vars, snmpVars, counterVars, epVars, flowVars, topoVars, parentVars>>

MeasureInit ==
    /\ part \in {"engine", "snmp", "counters", "endpoints", "flow", "topology", "parents"}
    /\ Init /\ SnmpInit /\ CountersInit /\ EndpointsInit /\ FlowInit /\ TopoInit /\ ParentInit
    /\ part # "snmp" => rows = {} /\ engine = 0
    /\ part # "counters" => agent.hc
    /\ part # "parents" => cable = {} /\ rootDevice = NoRoot

MeasureNext ==
    /\ UNCHANGED part
    /\ \/ /\ part = "engine" /\ Next
          /\ UNCHANGED <<snmpVars, counterVars, epVars, flowVars, topoVars, parentVars>>
       \/ /\ part = "snmp" /\ SnmpNext
          /\ UNCHANGED <<vars, counterVars, epVars, flowVars, topoVars, parentVars>>
       \/ /\ part = "counters" /\ CountersNext
          /\ UNCHANGED <<vars, snmpVars, epVars, flowVars, topoVars, parentVars>>
       \/ /\ part = "endpoints" /\ EndpointsNext
          /\ UNCHANGED <<vars, snmpVars, counterVars, flowVars, topoVars, parentVars>>
       \/ /\ part = "flow" /\ FlowNext
          /\ UNCHANGED <<vars, snmpVars, counterVars, epVars, topoVars, parentVars>>
       \/ /\ part = "topology" /\ TopoNext
          /\ UNCHANGED <<vars, snmpVars, counterVars, epVars, flowVars, parentVars>>
       \/ /\ part = "parents" /\ ParentNext
          /\ UNCHANGED <<vars, snmpVars, counterVars, epVars, flowVars, topoVars>>

MeasureSpec == MeasureInit /\ [][MeasureNext]_measureVars

(* The variables of the component that moves have their types.              *)
MeasureTypeOK ==
    CASE part = "engine"    -> TypeOK
      [] part = "snmp"      -> SnmpTypeOK
      [] part = "counters"  -> CountersTypeOK
      [] part = "endpoints" -> EndpointsTypeOK
      [] part = "flow"      -> FlowTypeOK
      [] part = "topology"  -> TopoTypeOK
      [] part = "parents"   -> ParentTypeOK
=============================================================================
