------------------------------ MODULE Election ------------------------------
(***************************************************************************)
(* Leader election among the full nodes of a TopoLight cluster             *)
(* (internal/cluster: node.go, the vote and heartbeat handlers of          *)
(* transport.go, the persistent identity of identity.go) and the process   *)
(* roles that follow from it (cmd/topolight).                              *)
(*                                                                         *)
(* Every node keeps its term and vote three times: in the Node (term,      *)
(* votedFor, under n.mu), in the in-process Identity (ident) and in        *)
(* cluster/node.json (disk).  A handler runs under n.mu and is one step;   *)
(* campaign() releases n.mu before it writes the identity, so its          *)
(* persistence is two more.                                                *)
(*                                                                         *)
(* A request stays in voteReq or hbReq until its handler runs: one that    *)
(* stays for ever was lost, one that is handled late was delayed.  The     *)
(* reply to a campaign or a beat only adds to a set that is read when      *)
(* wg.Wait() returns, so it is recorded with the handler's step and the    *)
(* caller later counts any part of it: the rest was lost or came too late. *)
(* A reply that carries a newer term is remembered in learned until        *)
(* observeTerm runs.  Time is abstract: a timeout may fire whenever the    *)
(* loop goroutine is idle.                                                 *)
(***************************************************************************)
EXTENDS Integers, FiniteSets

CONSTANTS
    Node,          \* the full members, i.e. the electorate
    Nil,           \* the empty node id
    MaxCampaigns,  \* bound: campaigns, over all nodes
    MaxBeats,      \* bound: heartbeat rounds, over all nodes
    MaxRestarts,   \* bound: crashes and -promote restarts, over all nodes
    CrashAnytime   \* may a process die while node.json lacks its last vote?

ASSUME ElectionAssumption ==
    /\ IsFiniteSet(Node)
    /\ Nil \notin Node
    /\ {MaxCampaigns, MaxBeats, MaxRestarts} \subseteq Nat
    /\ CrashAnytime \in BOOLEAN

VARIABLES
    mode,       \* Node.Mode: which program the process runs
    state,      \* Node.state
    term,       \* Node.term
    votedFor,   \* Node.votedFor
    stepping,   \* Node.stepping: Promote or Demote was called, re-exec pending
    pc,         \* where the loop goroutine is
    round,      \* the term captured by the campaign or beat in progress
    votes,      \* who granted this campaign its vote
    acks,       \* Node.acks: who acknowledged a heartbeat of this leadership
    learned,    \* the newest term a reply carried and observeTerm has yet to see
    ident,      \* the Identity in memory
    disk,       \* cluster/node.json
    voteReq, hbReq, \* RPCs in flight
    elected,    \* history: every election won, [leader, term, quorum]
    campaigns, beats, restarts \* how many there have been, for the bounds

bounds == <<campaigns, beats, restarts>>

vars == <<mode, state, term, votedFor, stepping, pc, round, votes, acks, learned,
          ident, disk, voteReq, hbReq, elected, bounds>>

Ident   == [Term : Nat, VotedFor : Node \union {Nil}, WasLeader : BOOLEAN]
Request == [term : Nat, from : Node, to : Node]

\* A majority of the full members: votes*2 > voters, ok*2 > voters.
Majority(S) == Cardinality(S) * 2 > Cardinality(Node)

-----------------------------------------------------------------------------
(* Helpers shared by the handlers.                                         *)

\* post() of a campaign or a beat still waits for the reply to its round t.
Awaits(n, where, t) == pc[n] = where /\ round[n] = t

\* The reply of n to r says that n is at a newer term.
TellNewerTerm(n, r, where) ==
    learned' = [learned EXCEPT ![r.from] =
                   IF Awaits(r.from, where, r.term) /\ term[n] > @ THEN term[n] ELSE @]

\* Mutant: the standby role is not written down before the re-exec.
DemotedUnsaved(n, down, id) == id

\* stepDownLocked: the re-exec is requested only in a leader process, once,
\* after the standby role has been put into the identity record id.
StepDown(n, down) == stepping' = [stepping EXCEPT ![n] = @ \/ (down /\ mode[n] = "leader")]
Demoted(n, down, id) ==
    IF down /\ mode[n] = "leader" /\ ~stepping[n] THEN [id EXCEPT !.WasLeader = FALSE] ELSE id

\* Save(): node.json is replaced atomically by the identity.
Save(n, id) == /\ ident' = [ident EXCEPT ![n] = id]
               /\ disk'  = [disk EXCEPT ![n] = id]

\* The identity after a newer term t was seen.
NewTerm(n, t) == [ident[n] EXCEPT !.Term = t, !.VotedFor = Nil]

\* Mutant: the newer term is acknowledged but not adopted.
AdoptNothing(n, t) == term' = term

\* A handler that accepts a request of term t >= term[n] moves to that term ...
Adopt(n, t) == term' = [term EXCEPT ![n] = t]

\* Mutant: every request finds the vote free.
VoteInAlwaysFree(n, t) == Nil

\* ... and a newer term frees the vote.
VoteIn(n, t) == IF t > term[n] THEN Nil ELSE votedFor[n]

-----------------------------------------------------------------------------
(* campaign(): one election round of the loop goroutine.                   *)

\* The election timeout fired.  Under n.mu: candidate, next term, vote for self.
CampaignBegin(n) ==
    /\ pc[n] = "idle"
    /\ state[n] # "leader"
    /\ campaigns < MaxCampaigns
    /\ campaigns' = campaigns + 1
    /\ state'    = [state EXCEPT ![n] = "candidate"]
    /\ term'     = [term EXCEPT ![n] = @ + 1]
    /\ votedFor' = [votedFor EXCEPT ![n] = n]
    /\ round'    = [round EXCEPT ![n] = term[n] + 1]
    /\ votes'    = [votes EXCEPT ![n] = {n}]
    /\ pc'       = [pc EXCEPT ![n] = "bumped"]
    /\ UNCHANGED <<mode, stepping, acks, learned, ident, disk, voteReq, hbReq, elected,
                   beats, restarts>>

\* n.mu is free: n.ID.Term is written without it ...
CampaignWriteTerm(n) ==
    /\ pc[n] = "bumped"
    /\ ident' = [ident EXCEPT ![n].Term = round[n]]
    /\ pc'    = [pc EXCEPT ![n] = "wrote"]
    /\ UNCHANGED <<mode, state, term, votedFor, stepping, round, votes, acks, learned,
                   disk, voteReq, hbReq, elected, bounds>>

\* ... then n.ID.VotedFor, the file is saved and every other full member asked.
CampaignSave(n) ==
    /\ pc[n] = "wrote"
    /\ Save(n, [ident[n] EXCEPT !.VotedFor = n])
    /\ voteReq' = voteReq \union {[term |-> round[n], from |-> n, to |-> m] : m \in Node \ {n}}
    /\ pc'      = [pc EXCEPT ![n] = "polling"]
    /\ UNCHANGED <<mode, state, term, votedFor, stepping, round, votes, acks, learned,
                   hbReq, elected, bounds>>

\* wg.Wait() returned: every member answered or its call failed; counted are
\* the granted votes whose replies arrived in time.  An elected standby
\* persists its new role and asks to be re-executed (Promote).
FinishCampaign(n) ==
    \E arrived \in SUBSET votes[n] :
        LET current == state[n] = "candidate" /\ term[n] = round[n]
            won     == current /\ Majority(arrived)
            promote == won /\ mode[n] # "leader" /\ ~stepping[n]
        IN  /\ pc[n] = "polling"
            /\ n \in arrived
            /\ pc'       = [pc EXCEPT ![n] = "idle"]
            /\ state'    = [state EXCEPT ![n] = IF won THEN "leader"
                                                ELSE IF current THEN "follower" ELSE @]
            /\ votes'    = [votes EXCEPT ![n] = {}]
            /\ learned'  = [learned EXCEPT ![n] = 0]
            /\ acks'     = [acks EXCEPT ![n] = IF won THEN {n} ELSE @]
            /\ stepping' = [stepping EXCEPT ![n] = @ \/ promote]
            /\ IF promote THEN Save(n, [ident[n] EXCEPT !.WasLeader = TRUE])
                          ELSE UNCHANGED <<ident, disk>>
            /\ elected'  = IF won THEN elected \union
                                  {[leader |-> n, term |-> term[n], quorum |-> arrived]}
                           ELSE elected
            /\ UNCHANGED <<mode, term, votedFor, round, voteReq, hbReq, bounds>>

\* observeTerm: a reply to a campaign or a beat carried a newer term.
ObserveTerm(n) ==
    LET newer == learned[n] > term[n]
        down  == newer /\ state[n] = "leader"
    IN  /\ learned[n] > 0
        /\ learned' = [learned EXCEPT ![n] = 0]
        /\ IF newer
             THEN /\ term'     = [term EXCEPT ![n] = learned[n]]
                  /\ votedFor' = [votedFor EXCEPT ![n] = Nil]
                  /\ state'    = [state EXCEPT ![n] = "follower"]
                  /\ Save(n, Demoted(n, down, NewTerm(n, learned[n])))
             ELSE UNCHANGED <<term, votedFor, state, ident, disk>>
        /\ StepDown(n, down)
        /\ UNCHANGED <<mode, pc, round, votes, acks, voteReq, hbReq, elected, bounds>>

-----------------------------------------------------------------------------
(* handleVote.                                                             *)

\* A request of an older term is answered with our term and nothing else.
RefuseStaleVote(n) ==
    \E r \in voteReq :
        /\ r.to = n
        /\ r.term < term[n]
        /\ voteReq' = voteReq \ {r}
        /\ TellNewerTerm(n, r, "polling")
        /\ UNCHANGED <<mode, state, term, votedFor, stepping, pc, round, votes, acks, ident, disk,
                       hbReq, elected, bounds>>

\* Otherwise adopt a newer term and grant the vote if it is free and the
\* candidate's data is not clearly staler (fresh abstracts the two mtimes).
HandleVote(n) ==
    \E r \in voteReq, fresh \in BOOLEAN :
        LET newer == r.term > term[n]
            vote  == VoteIn(n, r.term)
            grant == vote \in {Nil, r.from} /\ fresh
            down  == newer /\ state[n] = "leader"
            id    == Demoted(n, down, IF newer THEN NewTerm(n, r.term) ELSE ident[n])
        IN  /\ r.to = n
            /\ r.term >= term[n]
            /\ Adopt(n, r.term)
            /\ votedFor' = [votedFor EXCEPT ![n] = IF grant THEN r.from ELSE vote]
            /\ state'    = [state EXCEPT ![n] = IF newer THEN "follower" ELSE @]
            /\ StepDown(n, down)
            /\ Save(n, IF grant THEN [id EXCEPT !.VotedFor = r.from] ELSE id)
            /\ voteReq'  = voteReq \ {r}
            /\ votes'    = [votes EXCEPT ![r.from] =
                               IF grant /\ Awaits(r.from, "polling", r.term)
                               THEN @ \union {n} ELSE @]
            /\ UNCHANGED <<mode, pc, round, acks, learned, hbReq, elected, bounds>>

-----------------------------------------------------------------------------
(* beat() and handleHeartbeat.                                             *)

\* A leader's loop captures the term and posts a heartbeat to every member.
Beat(n) ==
    /\ pc[n] = "idle"
    /\ state[n] = "leader"
    /\ beats < MaxBeats
    /\ beats' = beats + 1
    /\ round' = [round EXCEPT ![n] = term[n]]
    /\ pc'    = [pc EXCEPT ![n] = "beating"]
    /\ hbReq' = hbReq \union {[term |-> term[n], from |-> n, to |-> m] : m \in Node \ {n}}
    /\ UNCHANGED <<mode, state, term, votedFor, stepping, votes, acks, learned, ident, disk,
                   voteReq, elected, campaigns, restarts>>

RefuseStaleHeartbeat(n) ==
    \E r \in hbReq :
        /\ r.to = n
        /\ r.term < term[n]
        /\ hbReq' = hbReq \ {r}
        /\ TellNewerTerm(n, r, "beating")
        /\ UNCHANGED <<mode, state, term, votedFor, stepping, pc, round, votes, acks, ident, disk,
                       voteReq, elected, bounds>>

\* A heartbeat of the current or a newer term makes this node a follower.  In
\* the Node the vote is cleared too; the Identity keeps its old VotedFor.
HandleHeartbeat(n) ==
    \E r \in hbReq :
        LET takes == r.term > term[n] \/ state[n] # "follower"
            down  == takes /\ state[n] = "leader"
            id    == IF takes THEN [ident[n] EXCEPT !.Term = r.term] ELSE ident[n]
        IN  /\ r.to = n
            /\ r.term >= term[n]
            /\ Adopt(n, r.term)
            /\ votedFor' = [votedFor EXCEPT ![n] = IF takes THEN Nil ELSE @]
            /\ state'    = [state EXCEPT ![n] = "follower"]
            /\ StepDown(n, down)
            /\ Save(n, Demoted(n, down, id))
            /\ hbReq'    = hbReq \ {r}
            /\ acks'     = [acks EXCEPT ![r.from] =
                               IF Awaits(r.from, "beating", r.term) THEN @ \union {n} ELSE @]
            /\ UNCHANGED <<mode, pc, round, votes, learned, voteReq, elected, bounds>>

\* wg.Wait() returned: the lease check counts the acknowledgements that are
\* still inside leaseWindow (any part of them: time is abstract) and steps down
\* without a majority.
EndBeat(n) ==
    \E within \in SUBSET acks[n] :
        LET lost == state[n] = "leader" /\ ~Majority(within \union {n})
        IN  /\ pc[n] = "beating"
            /\ pc'    = [pc EXCEPT ![n] = "idle"]
            /\ acks'  = [acks EXCEPT ![n] = within \union {n}]
            /\ state' = [state EXCEPT ![n] = IF lost THEN "follower" ELSE @]
            /\ StepDown(n, lost)
            /\ LET id == Demoted(n, lost, ident[n])
               IN  IF id # ident[n] THEN Save(n, id) ELSE UNCHANGED <<ident, disk>>
            /\ UNCHANGED <<mode, term, votedFor, round, votes, learned, voteReq, hbReq, elected, bounds>>

-----------------------------------------------------------------------------
(* Start-up, re-execution and crashes.                                     *)

\* A returning leader asks the members who leads before it campaigns; another
\* leader m makes it adopt m's term, step down and leave its loop for good.
FindLeader(n) ==
    \E m \in Node \ {n} :
        LET newer == term[m] > term[n]
        IN  /\ pc[n] = "probe"
            /\ state[m] = "leader"
            /\ pc'       = [pc EXCEPT ![n] = "stopped"]
            /\ term'     = [term EXCEPT ![n] = IF newer THEN term[m] ELSE @]
            /\ votedFor' = [votedFor EXCEPT ![n] = IF newer THEN Nil ELSE @]
            /\ state'    = [state EXCEPT ![n] = "follower"]
            /\ StepDown(n, TRUE)
            /\ Save(n, Demoted(n, TRUE, IF newer THEN NewTerm(n, term[m]) ELSE ident[n]))
            /\ UNCHANGED <<mode, round, votes, acks, learned, voteReq, hbReq, elected, bounds>>

\* Nobody answered as leader within the three seconds.
FindNoLeader(n) ==
    /\ pc[n] = "probe"
    /\ pc' = [pc EXCEPT ![n] = "idle"]
    /\ UNCHANGED <<mode, state, term, votedFor, stepping, round, votes, acks, learned, ident, disk,
                   voteReq, hbReq, elected, bounds>>

\* node.json holds the vote the node has cast in its current term.
DiskKeepsVote(n) ==
    /\ disk[n].Term = term[n]
    /\ votedFor[n] # Nil => disk[n].VotedFor = votedFor[n]

\* Whatever its role, a fresh node follows until it has found a leader or won.
StartState(id) == "follower"

\* prepareCluster + cluster.New on the identity id: a fresh process.
StartFrom(n, id) ==
    /\ CrashAnytime \/ DiskKeepsVote(n)
    /\ mode'     = [mode EXCEPT ![n] = IF id.WasLeader THEN "leader" ELSE "standby"]
    /\ state'    = [state EXCEPT ![n] = StartState(id)]
    /\ term'     = [term EXCEPT ![n] = id.Term]
    /\ votedFor' = [votedFor EXCEPT ![n] = id.VotedFor]
    /\ stepping' = [stepping EXCEPT ![n] = FALSE]
    /\ pc'       = [pc EXCEPT ![n] = IF id.WasLeader THEN "probe" ELSE "idle"]
    /\ round'    = [round EXCEPT ![n] = 0]
    /\ votes'    = [votes EXCEPT ![n] = {}]
    /\ acks'     = [acks EXCEPT ![n] = {}]
    /\ learned'  = [learned EXCEPT ![n] = 0]
    /\ Save(n, id)
    /\ UNCHANGED <<voteReq, hbReq, elected, campaigns, beats>>

\* restartProcess: the re-exec that Promote or Demote asked for.
Reexec(n) == stepping[n] /\ StartFrom(n, disk[n]) /\ UNCHANGED restarts

\* The process or the host dies and comes back.
Crash(n) == /\ restarts < MaxRestarts
            /\ StartFrom(n, disk[n])
            /\ restarts' = restarts + 1

\* The operator runs `topolight -promote` on a stopped node and starts it.
ForcePromote(n) ==
    /\ restarts < MaxRestarts
    /\ StartFrom(n, [disk[n] EXCEPT !.WasLeader = TRUE, !.Term = disk[n].Term + 1])
    /\ restarts' = restarts + 1

-----------------------------------------------------------------------------
\* A cluster as it is left by the joins: one node enabled clustering and is the
\* leader process, the others joined it and run as standbys.
Init ==
    \E first \in Node :
        /\ mode     = [n \in Node |-> IF n = first THEN "leader" ELSE "standby"]
        /\ state    = [n \in Node |-> "follower"]
        /\ term     = [n \in Node |-> 0]
        /\ votedFor = [n \in Node |-> Nil]
        /\ stepping = [n \in Node |-> FALSE]
        /\ pc       = [n \in Node |-> IF n = first THEN "probe" ELSE "idle"]
        /\ round    = [n \in Node |-> 0]
        /\ votes    = [n \in Node |-> {}]
        /\ acks     = [n \in Node |-> {}]
        /\ learned  = [n \in Node |-> 0]
        /\ ident    = [n \in Node |-> [Term |-> 0, VotedFor |-> Nil, WasLeader |-> n = first]]
        /\ disk     = ident
        /\ voteReq = {} /\ hbReq = {}
        /\ elected = {}
        /\ campaigns = 0 /\ beats = 0 /\ restarts = 0

Step(n) ==
    \/ CampaignBegin(n) \/ CampaignWriteTerm(n) \/ CampaignSave(n) \/ FinishCampaign(n)
    \/ ObserveTerm(n)
    \/ RefuseStaleVote(n) \/ HandleVote(n)
    \/ Beat(n) \/ RefuseStaleHeartbeat(n) \/ HandleHeartbeat(n) \/ EndBeat(n)
    \/ FindLeader(n) \/ FindNoLeader(n)
    \/ Reexec(n) \/ Crash(n) \/ ForcePromote(n)

Next == \E n \in Node : Step(n)

Spec == Init /\ [][Next]_vars

-----------------------------------------------------------------------------
(* Properties.                                                             *)

TypeOK ==
    /\ mode     \in [Node -> {"leader", "standby"}]
    /\ state    \in [Node -> {"follower", "candidate", "leader"}]
    /\ term     \in [Node -> Nat]
    /\ votedFor \in [Node -> Node \union {Nil}]
    /\ stepping \in [Node -> BOOLEAN]
    /\ pc       \in [Node -> {"probe", "idle", "bumped", "wrote", "polling", "beating", "stopped"}]
    /\ round    \in [Node -> Nat]
    /\ votes    \in [Node -> SUBSET Node]
    /\ acks     \in [Node -> SUBSET Node]
    /\ learned  \in [Node -> Nat]
    /\ ident    \in [Node -> Ident]
    /\ disk     \in [Node -> Ident]
    /\ voteReq  \in SUBSET Request
    /\ hbReq    \in SUBSET Request
    /\ elected  \in SUBSET [leader : Node, term : Nat, quorum : SUBSET Node]
    /\ {campaigns, beats, restarts} \subseteq Nat

\* campaign() may set StateLeader only once per term over the whole cluster and
\* its whole life: no two nodes ever win the election of the same term.
ElectionSafety ==
    \A e, f \in elected : e.term = f.term => e.leader = f.leader

\* v's vote of term t for c can not be cast again: v still holds it, or v has
\* moved to a newer term.
Holds(v, t, c) == term[v] > t \/ (term[v] = t /\ votedFor[v] = c)

\* A candidate is inside campaign() at the term it captured, and both it and a
\* leader keep the vote they cast for themselves (no handler overwrites it).
CandidateInCampaign ==
    \A n \in Node :
        /\ state[n] = "candidate" => /\ round[n] = term[n]
                                     /\ pc[n] \in {"bumped", "wrote", "polling"}
        /\ state[n] # "follower" => votedFor[n] = n

\* The votes a candidate has collected are still held and nobody else's.
VotesExclusive ==
    \A n \in Node : state[n] = "candidate" =>
        /\ \A v \in votes[n] : Holds(v, term[n], n)
        /\ \A m \in Node \ {n} : state[m] = "candidate" /\ term[m] = term[n] =>
               votes[m] \intersect votes[n] = {}

\* The majority that elected a leader is withheld from every other candidate
\* of that term.
QuorumWithheld ==
    \A e \in elected :
        /\ Majority(e.quorum)
        /\ e.leader \in e.quorum
        /\ \A q \in e.quorum : Holds(q, e.term, e.leader)
        /\ \A n \in Node : state[n] = "candidate" /\ term[n] = e.term =>
               n # e.leader /\ votes[n] \intersect e.quorum = {}

Elected(n, t) == \E e \in elected : e.leader = n /\ e.term = t

\* Only the winner of a term leads in it and sends heartbeats for it.
LeadersAreElected ==
    /\ \A n \in Node : state[n] = "leader" => Elected(n, term[n])
    /\ \A r \in hbReq : r.from # r.to /\ Elected(r.from, r.term)

\* The inductive invariant behind ElectionSafety.
ElectionInv ==
    /\ CandidateInCampaign
    /\ VotesExclusive
    /\ QuorumWithheld
    /\ LeadersAreElected
    /\ ElectionSafety

\* A leader that was superseded in a newer term can no longer collect the
\* heartbeat acknowledgements (beat's lease check) of a majority: too few nodes
\* are left at its term or below, so its lease runs out.
StaleLeaderCannotRenew ==
    \A n \in Node, e \in elected :
        state[n] = "leader" /\ e.term > term[n] =>
            ~Majority({v \in Node : term[v] <= term[n]})

\* "The startup path is the only path" (identity.go): whenever the process is
\* restarted, by Promote, by Demote or by a crash, node.json says which role it
\* must start in; a pending re-exec is exactly what inverts the current role.
RolePersisted ==
    \A n \in Node : disk[n].WasLeader <=> (mode[n] = "leader" <=> ~stepping[n])

\* INSTALL.md: "A returning old leader notices the new one and becomes a
\* standby".  A node whose heartbeat acknowledgement keeps another leader in
\* office runs the standby program or is about to re-execute into it.
FollowingProcessIsStandby ==
    \A n, m \in Node :
        n # m /\ state[m] = "leader" /\ n \in acks[m] /\ term[n] = term[m]
            => mode[n] = "standby" \/ stepping[n]
=============================================================================
