----------------------------- MODULE SnmpClient -----------------------------
(***************************************************************************)
(* One walk of a column by the SNMP client (internal/snmp/client.go), over *)
(* a network that loses, delays and repeats datagrams, from an agent whose *)
(* rows come and go and that may restart.  A version 3 client that knows   *)
(* no engine first discovers it; a request stamped with boots of an earlier *)
(* life is answered by a report, from which the client takes the new boots *)
(* and sends once more.  A row is its index; keys, digests and ciphers are *)
(* abstracted to whether the agent accepts a message.                      *)
(***************************************************************************)
EXTENDS Integers, Sequences, FiniteSets, FiniteSetsExt, SequencesExt

CONSTANTS
    Rows,           \* the indices a column may have, 1 .. Rows
    MaxRep,         \* Client.MaxRep, rows of one GETBULK answer
    Retries,        \* Client.Retries
    IsV3,           \* Client.Version = V3
    MaxBoots,       \* bound on the agent's restarts
    MaxWire,        \* bound on the datagrams under way
    MaxAlters       \* bound on the rows that come and go

ASSUME SnmpAssumption ==
    /\ {Rows, MaxRep, Retries, MaxBoots, MaxWire} \subseteq Nat \ {0} /\ MaxAlters \in Nat
    /\ IsV3 \in BOOLEAN

VARIABLES
    rows,           \* the agent's rows beneath the prefix
    boots,          \* the agent's snmpEngineBoots
    wire,           \* datagrams under way, either way
    phase,          \* what the client waits for: "discover", "send", "resend", or "idle"
    attempt,        \* the attempt of request's loop
    reqID,          \* the id of the last message, from the counter all clients share
    engine,         \* Client.boots, 0 while the engine is not known
    out,            \* the rows of the walk so far
    ended,          \* how the walk ended: "", "nil" (no error), "err"
    steady,         \* rows that have been there since the walk began
    ever,           \* rows that have been there at some time of it
    alters

snmpVars == <<rows, boots, wire, phase, attempt, reqID, engine, out, ended, steady, ever, alters>>

Row == 1 .. Rows
Question(ph, id) == [to |-> "agent", kind |-> ph, id |-> id, after |-> IF out = <<>> THEN 0 ELSE Last(out), boots |-> engine]
Answer(q, kind, vbs) == [to |-> "client", kind |-> kind, id |-> q.id, vbs |-> vbs, boots |-> boots]

----------------------------------------------------------------------------
(* The agent and the network: external, as the client's code meets them.   *)

\* The rows after a given one, the first MaxRep of them, in order; the end of the column shows as fewer.
Bulk(after) ==
    LET later == {r \in rows : r > after}
    IN  {vbs \in UNION {[1 .. n -> later] : n \in 0 .. MaxRep} :
            /\ \A i, j \in DOMAIN vbs : i < j => vbs[i] < vbs[j]
            /\ \A r \in later \ Range(vbs) : Len(vbs) = MaxRep /\ vbs[MaxRep] < r}

AgentAnswers(q) ==
    /\ q \in wire /\ q.to = "agent" /\ Cardinality(wire) < MaxWire
    /\ \E kind \in {"error", "auth", "response", "report"} :
         /\ kind = "report" <=> q.kind = "discover" \/ (IsV3 /\ q.boots # boots)
         /\ \E vbs \in IF kind = "response" THEN Bulk(q.after) ELSE {<<>>} :
               wire' = wire \cup {Answer(q, kind, vbs)}
    /\ UNCHANGED <<rows, boots, phase, attempt, reqID, engine, out, ended, steady, ever, alters>>

Lost(m) ==
    /\ m \in wire
    /\ wire' = wire \ {m}
    /\ UNCHANGED <<rows, boots, phase, attempt, reqID, engine, out, ended, steady, ever, alters>>

AgentRestarts ==
    /\ boots < MaxBoots
    /\ boots' = boots + 1
    /\ UNCHANGED <<rows, wire, phase, attempt, reqID, engine, out, ended, steady, ever, alters>>

RowComesOrGoes(r) ==
    /\ alters < MaxAlters /\ alters' = alters + 1
    /\ rows' = IF r \in rows THEN rows \ {r} ELSE rows \cup {r}
    /\ steady' = steady \cap rows'
    /\ ever' = ever \cup rows'
    /\ UNCHANGED <<boots, wire, phase, attempt, reqID, engine, out, ended>>

----------------------------------------------------------------------------
(* The client: request, exchangeV2, exchangeV3, discover, sendV3.          *)

\* A message goes out under a new id and roundTrip waits for the answer that carries it.
Sends(ph, eng, rest) ==
    /\ phase' = ph
    /\ reqID' = reqID + 1
    /\ wire' = rest \cup {[Question(ph, reqID + 1) EXCEPT !.boots = eng]}

\* An attempt begins: an unknown engine is discovered first.
Attempt(eng, rest) == Sends(IF IsV3 /\ eng = 0 THEN "discover" ELSE "send", eng, rest)

GetBulk ==
    /\ phase = "idle" /\ ended = "" /\ Cardinality(wire) < MaxWire
    /\ attempt' = 0
    /\ Attempt(engine, wire)
    /\ UNCHANGED <<rows, boots, engine, out, ended, steady, ever, alters>>

WalkFails ==
    /\ phase' = "idle"
    /\ ended' = "err"

\* An attempt failed, with the engine known by then: the next one, or the request's error.
AttemptFails(eng, rest) ==
    IF attempt < Retries
    THEN /\ attempt' = attempt + 1
         /\ Attempt(eng, rest)
         /\ UNCHANGED ended
    ELSE /\ WalkFails
         /\ wire' = rest
         /\ UNCHANGED <<attempt, reqID>>

TimesOut ==
    /\ phase # "idle" /\ Cardinality(wire) < MaxWire
    /\ AttemptFails(engine, wire)
    /\ UNCHANGED <<rows, boots, engine, out, steady, ever, alters>>

\* Mutant: a reply is taken without comparing its id.
MatchesAnyReply(m) == phase # "idle" /\ m \in wire /\ m.to = "client"

Matches(m) == phase # "idle" /\ m \in wire /\ m.to = "client" /\ m.id = reqID

\* discover's answer, or a report of another life: the boots are taken over and the request goes out again.
Resynchronise(m) ==
    /\ Matches(m) /\ m.kind = "report" /\ phase # "resend"
    /\ engine' = m.boots
    /\ Sends(IF phase = "discover" THEN "send" ELSE "resend", m.boots, wire \ {m})
    /\ UNCHANGED <<rows, boots, attempt, out, ended, steady, ever, alters>>

\* A second report ends the attempt, resynchronised all the same.
SecondReport(m) ==
    /\ Matches(m) /\ m.kind = "report" /\ phase = "resend"
    /\ engine' = m.boots
    /\ AttemptFails(m.boots, wire \ {m})
    /\ UNCHANGED <<rows, boots, out, steady, ever, alters>>

\* An agent's error, or ErrAuth, is not tried again.
Refused(m) ==
    /\ Matches(m) /\ m.kind \in {"error", "auth"} /\ phase # "discover"
    /\ WalkFails
    /\ wire' = wire \ {m}
    /\ UNCHANGED <<rows, boots, attempt, reqID, engine, out, steady, ever, alters>>

\* WalkContext: rows are kept while they ascend; a row that does not, or one past the prefix, ends the walk.
Ascending(vbs) ==
    Max({n \in 0 .. Len(vbs) : \A i \in 1 .. n : vbs[i] > (IF i > 1 THEN vbs[i - 1] ELSE IF out = <<>> THEN 0 ELSE Last(out))})

Responded(m) ==
    /\ Matches(m) /\ m.kind = "response" /\ phase # "discover"
    /\ out' = out \o SubSeq(m.vbs, 1, Ascending(m.vbs))
    /\ ended' = IF Ascending(m.vbs) < MaxRep THEN "nil" ELSE ""
    /\ phase' = "idle"
    /\ wire' = wire \ {m}
    /\ UNCHANGED <<rows, boots, attempt, reqID, engine, steady, ever, alters>>

----------------------------------------------------------------------------
SnmpInit ==
    /\ rows \in SUBSET Row /\ steady = rows /\ ever = rows
    /\ boots = 1 /\ wire = {} /\ phase = "idle" /\ attempt = 0 /\ reqID = 0 /\ engine \in {0, 1}
    /\ out = <<>> /\ ended = "" /\ alters = 0

SnmpNext ==
    \/ \E m \in wire : Lost(m) \/ AgentAnswers(m)
    \/ AgentRestarts
    \/ \E r \in Row : RowComesOrGoes(r)
    \/ GetBulk \/ TimesOut
    \/ \E m \in wire : Resynchronise(m) \/ SecondReport(m) \/ Refused(m) \/ Responded(m)

SnmpSpec == SnmpInit /\ [][SnmpNext]_snmpVars

SnmpTypeOK ==
    /\ rows \subseteq Row /\ steady \subseteq rows /\ rows \subseteq ever /\ ever \subseteq Row
    /\ boots \in 1 .. MaxBoots /\ engine \in 0 .. MaxBoots /\ Cardinality(wire) <= MaxWire
    /\ phase \in {"idle", "send"} \cup (IF IsV3 THEN {"discover", "resend"} ELSE {})
    /\ attempt \in 0 .. Retries /\ reqID \in Nat /\ alters \in 0 .. MaxAlters
    /\ Range(out) \subseteq Row /\ ended \in {"", "nil", "err"}

(* WalkContext (client.go:150): a walk that returns no error returned every *)
(* row that was there from its first request to its last, each once and in  *)
(* ascending order, and no row that never was - whatever was lost, answered *)
(* twice or answered late, and although the agent restarted meanwhile.      *)
WalkMissesNoRow ==
    /\ \A i, j \in DOMAIN out : i < j => out[i] < out[j]
    /\ Range(out) \subseteq ever
    /\ ended = "nil" => steady \subseteq Range(out)

=============================================================================
