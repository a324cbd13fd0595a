------------------------------ MODULE MCData ------------------------------
(* What is kept: the snapshot and the alert journal, the event journal, the *)
(* time series, the log lines, their copies on the other nodes, and the      *)
(* cluster's share of the devices.  The six components share no state here; *)
(* a behaviour is one of one of them, so that each is explored by itself.   *)
EXTENDS Store, EventJournal, Tsdb, Mirror, Membership, Syslog, TLC

CONSTANTS node1, node2, node3, dev1, dev2

\* Two devices on two sites, and hashes that give them to different nodes.
TwoSites == (dev1 :> "s1") @@ (dev2 :> "s2")
SomeHash == (node1 :> (dev1 :> 1 @@ dev2 :> 3)) @@ (node2 :> (dev1 :> 2 @@ dev2 :> 1))
                @@ (node3 :> (dev1 :> 3 @@ dev2 :> 2))

VARIABLE part       \* the component this behaviour is of

dataVars == <<part, storeVars, eventVars, tsdbVars, mirrorVars, memberVars, syslogVars>>

DataInit ==
    /\ part \in {"store", "events", "tsdb", "mirror", "members", "syslog"}
    /\ StoreInit /\ EventInit /\ TsdbInit /\ MirrorInit /\ MemberInit /\ SyslogInit
    /\ lead = CHOOSE n \in Full : TRUE          \* full nodes differ in nothing but their names
    /\ part # "members" => boss = CHOOSE n \in FullNode : TRUE

DataNext ==
    /\ UNCHANGED part
    /\ \/ /\ part = "store" /\ StoreNext
          /\ UNCHANGED <<eventVars, tsdbVars, mirrorVars, memberVars, syslogVars>>
       \/ /\ part = "events" /\ EventNext
          /\ UNCHANGED <<storeVars, tsdbVars, mirrorVars, memberVars, syslogVars>>
       \/ /\ part = "tsdb" /\ TsdbNext
          /\ UNCHANGED <<storeVars, eventVars, mirrorVars, memberVars, syslogVars>>
       \/ /\ part = "mirror" /\ MirrorNext
          /\ UNCHANGED <<storeVars, eventVars, tsdbVars, memberVars, syslogVars>>
       \/ /\ part = "members" /\ MemberNext
          /\ UNCHANGED <<storeVars, eventVars, tsdbVars, mirrorVars, syslogVars>>
       \/ /\ part = "syslog" /\ SyslogNext
          /\ UNCHANGED <<storeVars, eventVars, tsdbVars, mirrorVars, memberVars>>

DataSpec == DataInit /\ [][DataNext]_dataVars

(* The variables of the component that moves have their types.              *)
DataTypeOK ==
    CASE part = "store"   -> StoreTypeOK
      [] part = "events"  -> EventTypeOK
      [] part = "tsdb"    -> TsdbTypeOK
      [] part = "mirror"  -> MirrorTypeOK
      [] part = "members" -> MemberTypeOK
      [] part = "syslog"  -> SyslogTypeOK
=============================================================================
