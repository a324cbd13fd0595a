----------------------------- MODULE MCServices -----------------------------
(* What users and schedules do: accounts and sessions, the inventory under  *)
(* its licence, configuration backups, probes, routing walks, and the       *)
(* threshold and event alerts of a device that operators acknowledge and    *)
(* resolve.  The six components share no state here; a behaviour is one of  *)
(* one of them, so that each is explored by itself.                         *)
EXTENDS StateEngine, Accounts, Inventory, Backup, Probe, Routing, TLC

CONSTANTS core, p1

\* One device, and everything it can report.
CoreAlone  == core :> None
NoPorts == [i \in {} |-> core]
AllSamples == {[icmp |-> FALSE, snmp |-> FALSE, level |-> "absent"]} \union
    {s \in [icmp : BOOLEAN, snmp : BOOLEAN, level : Level] :
        (s.icmp \/ s.snmp) /\ (s.level # "absent" => s.snmp)}

\* What a device's routing and layer-2 tables can be: nothing, one protocol at a
\* time in every state, and a few together.
Plain == [NoWalk EXCEPT !.other = TRUE]
PeerStates == {[state |-> "absent", prefixes |-> 0], [state |-> "idle", prefixes |-> 0]}
              \cup [state : {"established"}, prefixes : {0, 1, 4, 5}]
SomeTables ==
    {NoWalk}
    \cup {[Plain EXCEPT !.bgp[p1] = s] : s \in PeerStates}
    \cup {[Plain EXCEPT !.ospf = f] : f \in [Nbr -> {"absent", "partial", "full"}]}
    \cup {[Plain EXCEPT !.lag = l, !.stp = s] :
              l \in {[up |-> 1, members |-> 1]} \cup [up : 0 .. 2, members : {2}],
              s \in [root : {1, 2}, changes : {0, 1}]}
    \cup {[Plain EXCEPT !.bgp[p1].state = "idle", !.ospf = f, !.lag = [up |-> 1, members |-> 2]] :
              f \in [Nbr -> {"partial", "full"}]}

VARIABLE part       \* the component this behaviour is of

serviceVars == <<part, vars, accountVars, inventoryVars, backupVars, probeVars, routingVars>>

ServicesInit ==
    /\ part \in {"engine", "accounts", "inventory", "backup", "probe", "routing"}
    /\ Init /\ AccountsInit /\ InventoryInit /\ BackupInit /\ ProbeInit /\ RoutingInit

ServicesNext ==
    /\ UNCHANGED part
    /\ \/ /\ part = "engine" /\ Next
          /\ UNCHANGED <<accountVars, inventoryVars, backupVars, probeVars, routingVars>>
       \/ /\ part = "accounts" /\ AccountsNext
          /\ UNCHANGED <<vars, inventoryVars, backupVars, probeVars, routingVars>>
       \/ /\ part = "inventory" /\ InventoryNext
          /\ UNCHANGED <<vars, accountVars, backupVars, probeVars, routingVars>>
       \/ /\ part = "backup" /\ BackupNext
          /\ UNCHANGED <<vars, accountVars, inventoryVars, probeVars, routingVars>>
       \/ /\ part = "probe" /\ ProbeNext
          /\ UNCHANGED <<vars, accountVars, inventoryVars, backupVars, routingVars>>
       \/ /\ part = "routing" /\ RoutingNext
          /\ UNCHANGED <<vars, accountVars, inventoryVars, backupVars, probeVars>>

ServicesSpec == ServicesInit /\ [][ServicesNext]_serviceVars
=============================================================================
