---------------------------- MODULE MCDelivery ----------------------------
(* What must eventually happen: a node's observations reach the leader, a   *)
(* critical alert is sent, alerts are not held up by their export, devices  *)
(* go on being polled, and calls of the store return.  The five components  *)
(* share no state; a behaviour is one of one of them, so that each is       *)
(* explored by itself.  Every liveness property names its own fairness.     *)
EXTENDS Forwarder, Notify, Siem, Poller, StoreLock

VARIABLE part       \* the component this behaviour is of

deliveryVars == <<part, vars, notifyVars, siemVars, pollerVars, lockVars>>

\* The administrator changes what he likes, except "critical always".
AnySettings == [resolvedToo : BOOLEAN, minSeverity : {2, 4}, quiet : BOOLEAN, criticalAlways : {TRUE}]
TwoRanks == {2, 4}

DeliveryInit ==
    /\ part \in {"forwarder", "notify", "siem", "poller", "lock"}
    /\ Init /\ NotifyInit /\ SiemInit /\ PollerInit /\ LockInit
    /\ part # "notify" => \A a \in Alert : alerts[a].sev = 4
    /\ part # "poller" => assigned = Everything

DeliveryNext ==
    /\ UNCHANGED part
    /\ \/ /\ part = "forwarder" /\ Next
          /\ UNCHANGED <<notifyVars, siemVars, pollerVars, lockVars>>
       \/ /\ part = "notify" /\ NotifyNext
          /\ UNCHANGED <<vars, siemVars, pollerVars, lockVars>>
       \/ /\ part = "siem" /\ SiemNext
          /\ UNCHANGED <<vars, notifyVars, pollerVars, lockVars>>
       \/ /\ part = "poller" /\ PollerNext
          /\ UNCHANGED <<vars, notifyVars, siemVars, lockVars>>
       \/ /\ part = "lock" /\ LockNext
          /\ UNCHANGED <<vars, notifyVars, siemVars, pollerVars>>

DeliverySpec == DeliveryInit /\ [][DeliveryNext]_deliveryVars
=============================================================================
