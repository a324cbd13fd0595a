--------------------------- MODULE ElectionProofs ---------------------------
(***************************************************************************)
(* Machine-checked proofs about Election, for every finite electorate and  *)
(* every value of the bounds.                                              *)
(***************************************************************************)
EXTENDS Election, FiniteSetTheorems, TLAPS

-----------------------------------------------------------------------------
(* Type correctness.                                                       *)

\* Every node's record stays in its type when Save replaces it by a record of
\* the type.
LEMMA SaveType ==
    ASSUME TypeOK, NEW n \in Node, NEW id \in Ident, Save(n, id)
    PROVE  ident' \in [Node -> Ident] /\ disk' \in [Node -> Ident]
BY DEF TypeOK, Save

\* The identity records the handlers build are of the type Ident.
LEMMA IdentType ==
    ASSUME TypeOK, NEW n \in Node
    PROVE  /\ ident[n] \in Ident /\ disk[n] \in Ident
           /\ \A t \in Nat : NewTerm(n, t) \in Ident /\ [ident[n] EXCEPT !.Term = t] \in Ident
           /\ \A down \in BOOLEAN, id \in Ident : Demoted(n, down, id) \in Ident
           /\ \A m \in Node, id \in Ident : [id EXCEPT !.VotedFor = m] \in Ident
           /\ \A id \in Ident : [id EXCEPT !.WasLeader = TRUE] \in Ident
<1>1. ident[n] \in Ident /\ disk[n] \in Ident
  BY DEF TypeOK
<1>2. \A t \in Nat, id \in Ident : [id EXCEPT !.Term = t] \in Ident
  BY DEF Ident
<1>3. \A t \in Nat, id \in Ident : [id EXCEPT !.Term = t, !.VotedFor = Nil] \in Ident
  BY DEF Ident
<1>4. \A m \in Node, id \in Ident : [id EXCEPT !.VotedFor = m] \in Ident
  BY DEF Ident
<1>5. \A b \in BOOLEAN, id \in Ident : [id EXCEPT !.WasLeader = b] \in Ident
  BY DEF Ident
<1> QED  BY <1>1, <1>2, <1>3, <1>4, <1>5 DEF NewTerm, Demoted

\* A fresh process starts in the type.
LEMMA StartType ==
    ASSUME TypeOK, NEW n \in Node, NEW id \in Ident, StartFrom(n, id), restarts' \in Nat
    PROVE  TypeOK'
<1>1. ident' \in [Node -> Ident] /\ disk' \in [Node -> Ident]
  BY SaveType DEF StartFrom
<1>2. id.Term \in Nat /\ id.VotedFor \in Node \union {Nil} /\ id.WasLeader \in BOOLEAN
  BY DEF Ident
<1> QED  BY <1>1, <1>2 DEF TypeOK, StartFrom, StartState

\* Every step of the election code preserves the type invariant.
LEMMA TypeStep == TypeOK /\ [Next]_vars => TypeOK'
<1> SUFFICES ASSUME TypeOK, [Next]_vars PROVE TypeOK'
  OBVIOUS
<1>0. CASE UNCHANGED vars
  BY <1>0 DEF TypeOK, vars, bounds
<1>1. ASSUME NEW n \in Node, CampaignBegin(n) PROVE TypeOK'
  BY <1>1 DEF TypeOK, CampaignBegin
<1>2. ASSUME NEW n \in Node, CampaignWriteTerm(n) PROVE TypeOK'
  <2>1. ident' \in [Node -> Ident]
    <3>1. ident' = [ident EXCEPT ![n] = [ident[n] EXCEPT !.Term = round[n]]]
      BY <1>2 DEF CampaignWriteTerm
    <3>2. ident \in [Node -> Ident] /\ round[n] \in Nat
      BY DEF TypeOK
    <3>3. [ident[n] EXCEPT !.Term = round[n]] \in Ident
      BY <3>2, IdentType
    <3> QED BY <3>1, <3>2, <3>3
  <2> QED  BY <1>2, <2>1 DEF TypeOK, CampaignWriteTerm, bounds
<1>3. ASSUME NEW n \in Node, CampaignSave(n) PROVE TypeOK'
  <2>1. ident' \in [Node -> Ident] /\ disk' \in [Node -> Ident]
    BY <1>3, SaveType, IdentType DEF CampaignSave
  <2>2. voteReq' \in SUBSET Request
    BY <1>3 DEF TypeOK, CampaignSave, Request
  <2> QED  BY <1>3, <2>1, <2>2 DEF TypeOK, CampaignSave, bounds
<1>4. ASSUME NEW n \in Node, FinishCampaign(n) PROVE TypeOK'
  <2>1. ident' \in [Node -> Ident] /\ disk' \in [Node -> Ident]
    <3>0. PICK arrived \in SUBSET votes[n] : FinishCampaign(n)!(arrived)
      BY <1>4 DEF FinishCampaign
    <3>1. CASE UNCHANGED <<ident, disk>>
      BY <3>1 DEF TypeOK
    <3>2. CASE Save(n, [ident[n] EXCEPT !.WasLeader = TRUE])
      BY <3>2, SaveType, IdentType
    <3> QED  BY <3>0, <3>1, <3>2
  <2>2. PICK arrived \in SUBSET votes[n] : FinishCampaign(n)!(arrived)
    BY <1>4 DEF FinishCampaign
  <2>3. elected' \in SUBSET [leader : Node, term : Nat, quorum : SUBSET Node]
    BY <2>2 DEF TypeOK
  <2>4. stepping' \in [Node -> BOOLEAN]
    BY <2>2 DEF TypeOK
  <2>5. votes' \in [Node -> SUBSET Node] /\ acks' \in [Node -> SUBSET Node]
    BY <2>2 DEF TypeOK
  <2> QED  BY <2>1, <2>2, <2>3, <2>4, <2>5 DEF TypeOK, bounds
<1>5. ASSUME NEW n \in Node, ObserveTerm(n) PROVE TypeOK'
  <2>1. ident' \in [Node -> Ident] /\ disk' \in [Node -> Ident]
    <3>1. CASE ~ (learned[n] > term[n])
      BY <1>5, <3>1 DEF TypeOK, ObserveTerm
    <3>2. CASE learned[n] > term[n]
      <4>1. Save(n, Demoted(n, TRUE /\ state[n] = "leader", NewTerm(n, learned[n])))
        BY <1>5, <3>2 DEF ObserveTerm
      <4>2. learned[n] \in Nat
        BY DEF TypeOK
      <4> QED  BY <4>1, <4>2, SaveType, IdentType
    <3> QED  BY <3>1, <3>2
  <2>2. stepping' \in [Node -> BOOLEAN]
    BY <1>5 DEF TypeOK, ObserveTerm, StepDown
  <2>3. /\ term' \in [Node -> Nat] /\ learned' \in [Node -> Nat]
        /\ votedFor' \in [Node -> Node \union {Nil}]
        /\ state' \in [Node -> {"follower", "candidate", "leader"}]
    BY <1>5 DEF TypeOK, ObserveTerm
  <2> QED  BY <1>5, <2>1, <2>2, <2>3 DEF TypeOK, ObserveTerm, bounds
<1>6. ASSUME NEW n \in Node, RefuseStaleVote(n) PROVE TypeOK'
  BY <1>6 DEF TypeOK, RefuseStaleVote, TellNewerTerm, Request, bounds
<1>7. ASSUME NEW n \in Node, HandleVote(n) PROVE TypeOK'
  <2>1. PICK r \in voteReq, fresh \in BOOLEAN : HandleVote(n)!(r, fresh)
    BY <1>7 DEF HandleVote
  <2>2. r \in Request /\ r.term \in Nat /\ r.from \in Node
    BY <2>1 DEF TypeOK, Request
  <2>3. ident' \in [Node -> Ident] /\ disk' \in [Node -> Ident]
    BY <2>1, <2>2, SaveType, IdentType
  <2>4. term' \in [Node -> Nat] /\ state' \in [Node -> {"follower", "candidate", "leader"}]
    BY <2>1, <2>2 DEF TypeOK, Adopt
  <2>5. votedFor' \in [Node -> Node \union {Nil}]
    BY <2>1, <2>2 DEF TypeOK, VoteIn
  <2>6. stepping' \in [Node -> BOOLEAN]
    BY <2>1 DEF TypeOK, StepDown
  <2>7. voteReq' \in SUBSET Request
    BY <2>1 DEF TypeOK
  <2>8. votes' \in [Node -> SUBSET Node]
    <3>1. \/ votes' = [votes EXCEPT ![r.from] = votes[r.from] \union {n}]
          \/ votes' = [votes EXCEPT ![r.from] = votes[r.from]]
      BY <2>1
    <3>2. votes \in [Node -> SUBSET Node]
      BY DEF TypeOK
    <3> QED BY <3>1, <3>2
  <2> QED  BY <2>1, <2>3, <2>4, <2>5, <2>6, <2>7, <2>8 DEF TypeOK, bounds
<1>8. ASSUME NEW n \in Node, Beat(n) PROVE TypeOK'
  BY <1>8 DEF TypeOK, Beat, Request
<1>9. ASSUME NEW n \in Node, RefuseStaleHeartbeat(n) PROVE TypeOK'
  BY <1>9 DEF TypeOK, RefuseStaleHeartbeat, TellNewerTerm, Request, bounds
<1>10. ASSUME NEW n \in Node, HandleHeartbeat(n) PROVE TypeOK'
  <2>1. PICK r \in hbReq : HandleHeartbeat(n)!(r)
    BY <1>10 DEF HandleHeartbeat
  <2>2. r \in Request /\ r.term \in Nat /\ r.from \in Node
    BY <2>1 DEF TypeOK, Request
  <2>3. ident' \in [Node -> Ident] /\ disk' \in [Node -> Ident]
    BY <2>1, <2>2, SaveType, IdentType
  <2>4. term' \in [Node -> Nat] /\ state' \in [Node -> {"follower", "candidate", "leader"}]
    BY <2>1, <2>2 DEF TypeOK, Adopt
  <2>5. votedFor' \in [Node -> Node \union {Nil}]
    BY <2>1 DEF TypeOK
  <2>6. stepping' \in [Node -> BOOLEAN]
    BY <2>1 DEF TypeOK, StepDown
  <2>7. hbReq' \in SUBSET Request
    BY <2>1 DEF TypeOK
  <2>8. acks' \in [Node -> SUBSET Node]
    <3>1. \/ acks' = [acks EXCEPT ![r.from] = acks[r.from] \union {n}]
          \/ acks' = [acks EXCEPT ![r.from] = acks[r.from]]
      BY <2>1
    <3>2. acks \in [Node -> SUBSET Node]
      BY DEF TypeOK
    <3> QED BY <3>1, <3>2
  <2> QED  BY <2>1, <2>3, <2>4, <2>5, <2>6, <2>7, <2>8 DEF TypeOK, bounds
<1>11. ASSUME NEW n \in Node, EndBeat(n) PROVE TypeOK'
  <2>1. PICK within \in SUBSET acks[n] : EndBeat(n)!(within)
    BY <1>11 DEF EndBeat
  <2>2. ident' \in [Node -> Ident] /\ disk' \in [Node -> Ident]
    <3>1. CASE UNCHANGED <<ident, disk>>
      BY <3>1 DEF TypeOK
    <3>2. CASE ~ UNCHANGED <<ident, disk>>
      BY <2>1, <3>2, SaveType, IdentType
    <3> QED  BY <3>1, <3>2
  <2> QED  BY <2>1, <2>2 DEF TypeOK, StepDown, bounds
<1>12. ASSUME NEW n \in Node, FindLeader(n) PROVE TypeOK'
  <2>1. PICK m \in Node \ {n} : FindLeader(n)!(m)
    BY <1>12 DEF FindLeader
  <2>2. ident' \in [Node -> Ident] /\ disk' \in [Node -> Ident]
    <3>1. term[m] \in Nat
      BY <2>1 DEF TypeOK
    <3> QED  BY <2>1, <3>1, SaveType, IdentType
  <2> QED  BY <2>1, <2>2, ElectionAssumption DEF TypeOK, StepDown, bounds
<1>13. ASSUME NEW n \in Node, FindNoLeader(n) PROVE TypeOK'
  BY <1>13 DEF TypeOK, FindNoLeader, bounds
<1>14. ASSUME NEW n \in Node, Reexec(n) \/ Crash(n) \/ ForcePromote(n) PROVE TypeOK'
  <2>1. PICK id \in Ident : StartFrom(n, id)
    <3>1. \A id \in Ident, t \in Nat : [id EXCEPT !.WasLeader = TRUE, !.Term = t] \in Ident
      BY DEF Ident
    <3>2. disk[n] \in Ident /\ disk[n].Term + 1 \in Nat
      BY DEF TypeOK, Ident
    <3>3. CASE Reexec(n) \/ Crash(n)
      BY <3>2, <3>3 DEF Reexec, Crash
    <3>4. CASE ForcePromote(n)
      <4>1. StartFrom(n, [disk[n] EXCEPT !.WasLeader = TRUE, !.Term = disk[n].Term + 1])
        BY <3>4 DEF ForcePromote
      <4> QED  BY <3>1, <3>2, <4>1
    <3> QED  BY <1>14, <3>3, <3>4
  <2>2. restarts' \in Nat
    BY <1>14 DEF TypeOK, Reexec, Crash, ForcePromote
  <2> QED  BY <2>1, <2>2, StartType
<1> QED
  BY <1>0, <1>1, <1>2, <1>3, <1>4, <1>5, <1>6, <1>7, <1>8, <1>9, <1>10, <1>11, <1>12, <1>13,
     <1>14 DEF Next, Step

\* Every variable of the election model keeps its type, whatever the handlers
\* of node.go and transport.go do.
THEOREM TypeCorrect == Spec => []TypeOK
<1>1. Init => TypeOK
  BY ElectionAssumption DEF Init, TypeOK, Ident, Request
<1> QED  BY <1>1, TypeStep, PTL DEF Spec

-----------------------------------------------------------------------------
(* The persisted role.                                                     *)

\* The invariant behind RolePersisted: the identity in memory and node.json
\* agree on the role (campaign() leaves it alone between its two writes).
RoleInv ==
    \A n \in Node : /\ ident[n].WasLeader = disk[n].WasLeader
                    /\ disk[n].WasLeader <=> (mode[n] = "leader" <=> ~stepping[n])

\* When n alone changes, and its new record says the role that the new mode
\* and stepping call for, the invariant is kept.
LEMMA RoleKept ==
    ASSUME TypeOK, RoleInv, NEW n \in Node, NEW id \in Ident, Save(n, id),
           \A m \in Node \ {n} : mode'[m] = mode[m] /\ stepping'[m] = stepping[m],
           id.WasLeader <=> (mode'[n] = "leader" <=> ~stepping'[n])
    PROVE  RoleInv'
BY DEF TypeOK, RoleInv, Save

\* Updating the term or the vote of a record leaves its role alone.
LEMMA IdentRole ==
    ASSUME TypeOK, NEW n \in Node
    PROVE  /\ \A t \in Nat : /\ NewTerm(n, t).WasLeader = ident[n].WasLeader
                             /\ [ident[n] EXCEPT !.Term = t].WasLeader = ident[n].WasLeader
           /\ [ident[n] EXCEPT !.WasLeader = TRUE].WasLeader
<1>1. \A id \in Ident, t \in Nat :
         /\ [id EXCEPT !.Term = t, !.VotedFor = Nil].WasLeader = id.WasLeader
         /\ [id EXCEPT !.Term = t].WasLeader = id.WasLeader
  BY DEF Ident
<1>2. \A id \in Ident : [id EXCEPT !.WasLeader = TRUE].WasLeader
  BY DEF Ident
<1>3. ident[n] \in Ident
  BY DEF TypeOK
<1> QED  BY <1>1, <1>2, <1>3 DEF NewTerm

\* Demoted writes the standby role exactly when StepDown asks for the re-exec.
LEMMA DemotedRole ==
    ASSUME TypeOK, RoleInv, NEW n \in Node, NEW down \in BOOLEAN, NEW id \in Ident,
           id.WasLeader = ident[n].WasLeader, StepDown(n, down), UNCHANGED mode
    PROVE  /\ Demoted(n, down, id) \in Ident
           /\ \A m \in Node \ {n} : mode'[m] = mode[m] /\ stepping'[m] = stepping[m]
           /\ Demoted(n, down, id).WasLeader <=> (mode'[n] = "leader" <=> ~stepping'[n])
<1>1. [id EXCEPT !.WasLeader = FALSE] \in Ident /\ ~ [id EXCEPT !.WasLeader = FALSE].WasLeader
  BY DEF Ident
<1>2. \A m \in Node \ {n} : mode'[m] = mode[m] /\ stepping'[m] = stepping[m]
  BY DEF TypeOK, StepDown
<1>3. stepping'[n] = (stepping[n] \/ (down /\ mode[n] = "leader"))
  BY DEF TypeOK, StepDown
<1> QED  BY <1>1, <1>2, <1>3 DEF Demoted, RoleInv, TypeOK

\* Every step keeps the role in node.json in line with the process.
LEMMA RoleStep == TypeOK /\ RoleInv /\ [Next]_vars => RoleInv'
<1> SUFFICES ASSUME TypeOK, RoleInv, [Next]_vars PROVE RoleInv'
  OBVIOUS
<1>0. CASE UNCHANGED <<mode, stepping, ident, disk>>
  BY <1>0 DEF RoleInv
<1>1. ASSUME NEW n \in Node,
             CampaignBegin(n) \/ RefuseStaleVote(n) \/ Beat(n) \/ RefuseStaleHeartbeat(n)
                \/ FindNoLeader(n)
      PROVE  RoleInv'
  BY <1>0, <1>1 DEF CampaignBegin, RefuseStaleVote, Beat, RefuseStaleHeartbeat, FindNoLeader
<1>2. ASSUME NEW n \in Node, CampaignWriteTerm(n) PROVE RoleInv'
  <2>1. \A m \in Node : ident'[m].WasLeader = ident[m].WasLeader
    BY <1>2 DEF TypeOK, CampaignWriteTerm, Ident
  <2> QED  BY <1>2, <2>1 DEF RoleInv, CampaignWriteTerm
<1>3. ASSUME NEW n \in Node, CampaignSave(n) PROVE RoleInv'
  <2>1. Save(n, [ident[n] EXCEPT !.VotedFor = n]) /\ UNCHANGED <<mode, stepping>>
    BY <1>3 DEF CampaignSave
  <2>2. /\ [ident[n] EXCEPT !.VotedFor = n] \in Ident
        /\ [ident[n] EXCEPT !.VotedFor = n].WasLeader = ident[n].WasLeader
    <3>1. ident[n] \in Ident
      BY DEF TypeOK
    <3>2. [ident[n] EXCEPT !.VotedFor = n] \in Ident
      BY <3>1, IdentType
    <3>3. [ident[n] EXCEPT !.VotedFor = n].WasLeader = ident[n].WasLeader
      BY <3>1 DEF Ident
    <3> QED BY <3>2, <3>3
  <2> HIDE DEF Save
  <2>3. [ident[n] EXCEPT !.VotedFor = n].WasLeader
           <=> (mode'[n] = "leader" <=> ~stepping'[n])
    BY <2>1, <2>2 DEF RoleInv
  <2> QED  BY <2>1, <2>2, <2>3, RoleKept
<1>4. ASSUME NEW n \in Node, FinishCampaign(n) PROVE RoleInv'
  <2>1. PICK arrived \in SUBSET votes[n] : FinishCampaign(n)!(arrived)
    BY <1>4 DEF FinishCampaign
  <2>2. CASE UNCHANGED <<ident, disk>> /\ UNCHANGED stepping
    BY <2>1, <2>2 DEF RoleInv
  <2>3. CASE /\ Save(n, [ident[n] EXCEPT !.WasLeader = TRUE])
             /\ mode[n] # "leader" /\ stepping' = [stepping EXCEPT ![n] = TRUE]
    <3>1. /\ [ident[n] EXCEPT !.WasLeader = TRUE] \in Ident
          /\ [ident[n] EXCEPT !.WasLeader = TRUE].WasLeader
      BY IdentType, IdentRole
    <3>2. /\ UNCHANGED mode /\ stepping'[n]
          /\ \A m \in Node \ {n} : stepping'[m] = stepping[m]
      BY <2>1, <2>3 DEF TypeOK
    <3> QED  BY <2>3, <3>1, <3>2, RoleKept
  <2>4. stepping[n] \in BOOLEAN /\ stepping = [stepping EXCEPT ![n] = stepping[n]]
    BY DEF TypeOK
  <2> QED  BY <2>1, <2>2, <2>3, <2>4
<1>5. ASSUME NEW n \in Node, ObserveTerm(n) PROVE RoleInv'
  <2>1. CASE ~ (learned[n] > term[n])
    BY <1>0, <1>5, <2>1 DEF ObserveTerm, StepDown, TypeOK
  <2>2. CASE learned[n] > term[n]
    <3>1. PICK down \in BOOLEAN : /\ StepDown(n, down)
                                 /\ Save(n, Demoted(n, down, NewTerm(n, learned[n])))
      BY <1>5, <2>2 DEF ObserveTerm
    <3>2. NewTerm(n, learned[n]) \in Ident /\ NewTerm(n, learned[n]).WasLeader = ident[n].WasLeader
      <4>1. learned[n] \in Nat
        BY DEF TypeOK
      <4> QED  BY <4>1, IdentType, IdentRole
    <3>3. UNCHANGED mode
      BY <1>5 DEF ObserveTerm
    <3> QED  BY <3>1, <3>2, <3>3, DemotedRole, RoleKept
  <2> QED  BY <2>1, <2>2
<1>6. ASSUME NEW n \in Node, HandleVote(n) PROVE RoleInv'
  <2>1. PICK r \in voteReq, fresh \in BOOLEAN : HandleVote(n)!(r, fresh)
    BY <1>6 DEF HandleVote
  <2> DEFINE down == r.term > term[n] /\ state[n] = "leader"
             old  == IF r.term > term[n] THEN NewTerm(n, r.term) ELSE ident[n]
             id   == Demoted(n, down, old)
  <2>2. r.term \in Nat /\ r.from \in Node
    BY <2>1 DEF TypeOK, Request
  <2>3. old \in Ident /\ old.WasLeader = ident[n].WasLeader
    BY <2>2, IdentType, IdentRole
  <2>4. StepDown(n, down) /\ UNCHANGED mode
    BY <2>1
  <2>5. Save(n, id) \/ Save(n, [id EXCEPT !.VotedFor = r.from])
    BY <2>1
  <2> HIDE DEF down, old
  <2>6. /\ id \in Ident
        /\ \A m \in Node \ {n} : mode'[m] = mode[m] /\ stepping'[m] = stepping[m]
        /\ id.WasLeader <=> (mode'[n] = "leader" <=> ~stepping'[n])
    <3>1. down \in BOOLEAN  BY DEF down
    <3> QED  BY <2>3, <2>4, <3>1, DemotedRole
  <2> HIDE DEF id
  <2>7. /\ [id EXCEPT !.VotedFor = r.from] \in Ident
        /\ [id EXCEPT !.VotedFor = r.from].WasLeader = id.WasLeader
    BY <2>2, <2>6 DEF Ident
  <2>8. CASE Save(n, id)
    BY <2>6, <2>8, RoleKept
  <2>9. CASE Save(n, [id EXCEPT !.VotedFor = r.from])
    BY <2>6, <2>7, <2>9, RoleKept
  <2> QED  BY <2>5, <2>8, <2>9
<1>7. ASSUME NEW n \in Node, HandleHeartbeat(n) PROVE RoleInv'
  <2>1. PICK r \in hbReq : HandleHeartbeat(n)!(r)
    BY <1>7 DEF HandleHeartbeat
  <2> DEFINE takes == r.term > term[n] \/ state[n] # "follower"
             old   == IF takes THEN [ident[n] EXCEPT !.Term = r.term] ELSE ident[n]
  <2>2. r.term \in Nat
    BY <2>1 DEF TypeOK, Request
  <2>3. old \in Ident /\ old.WasLeader = ident[n].WasLeader
    BY <2>2, IdentType, IdentRole
  <2>4. PICK down \in BOOLEAN : StepDown(n, down) /\ Save(n, Demoted(n, down, old))
    BY <2>1
  <2>5. UNCHANGED mode
    BY <2>1
  <2> HIDE DEF old
  <2> QED  BY <2>3, <2>4, <2>5, DemotedRole, RoleKept
<1>8. ASSUME NEW n \in Node, EndBeat(n) PROVE RoleInv'
  <2>1. PICK within \in SUBSET acks[n] : EndBeat(n)!(within)
    BY <1>8 DEF EndBeat
  <2> DEFINE lost == state[n] = "leader" /\ ~Majority(within \union {n})
             id   == Demoted(n, lost, ident[n])
  <2>2. StepDown(n, lost) /\ UNCHANGED mode
    BY <2>1
  <2>3. IF id # ident[n] THEN Save(n, id) ELSE UNCHANGED <<ident, disk>>
    BY <2>1
  <2>4. lost \in BOOLEAN /\ ident[n] \in Ident
    BY DEF TypeOK
  <2> HIDE DEF lost
  <2>5. /\ id \in Ident
        /\ \A m \in Node \ {n} : mode'[m] = mode[m] /\ stepping'[m] = stepping[m]
        /\ id.WasLeader <=> (mode'[n] = "leader" <=> ~stepping'[n])
    BY <2>2, <2>4, DemotedRole
  <2> HIDE DEF id
  <2>6. CASE Save(n, id)
    BY <2>5, <2>6, RoleKept
  <2>7. CASE id = ident[n] /\ UNCHANGED <<ident, disk>>
    BY <2>5, <2>7 DEF RoleInv
  <2> QED  BY <2>3, <2>6, <2>7
<1>9. ASSUME NEW n \in Node, FindLeader(n) PROVE RoleInv'
  <2>1. PICK m \in Node \ {n} : FindLeader(n)!(m)
    BY <1>9 DEF FindLeader
  <2> DEFINE old == IF term[m] > term[n] THEN NewTerm(n, term[m]) ELSE ident[n]
  <2>2. old \in Ident /\ old.WasLeader = ident[n].WasLeader
    <3>1. term[m] \in Nat
      BY <2>1 DEF TypeOK
    <3> QED  BY <3>1, IdentType, IdentRole
  <2>3. StepDown(n, TRUE) /\ Save(n, Demoted(n, TRUE, old)) /\ UNCHANGED mode
    BY <2>1
  <2> HIDE DEF old
  <2> QED  BY <2>2, <2>3, DemotedRole, RoleKept
<1>10. ASSUME NEW n \in Node, Reexec(n) \/ Crash(n) \/ ForcePromote(n) PROVE RoleInv'
  <2>1. PICK id \in Ident : StartFrom(n, id)
    <3>1. \A id \in Ident, t \in Nat : [id EXCEPT !.WasLeader = TRUE, !.Term = t] \in Ident
      BY DEF Ident
    <3>2. disk[n] \in Ident /\ disk[n].Term + 1 \in Nat
      BY DEF TypeOK, Ident
    <3>3. CASE Reexec(n) \/ Crash(n)
      BY <3>2, <3>3 DEF Reexec, Crash
    <3>4. CASE ForcePromote(n)
      <4>1. StartFrom(n, [disk[n] EXCEPT !.WasLeader = TRUE, !.Term = disk[n].Term + 1])
        BY <3>4 DEF ForcePromote
      <4> QED  BY <3>1, <3>2, <4>1
    <3> QED  BY <1>10, <3>3, <3>4
  <2>2. Save(n, id) /\ \A m \in Node \ {n} : mode'[m] = mode[m] /\ stepping'[m] = stepping[m]
    BY <2>1 DEF StartFrom, StartState, TypeOK
  <2>3. id.WasLeader <=> (mode'[n] = "leader" <=> ~stepping'[n])
    <3>1. id.WasLeader \in BOOLEAN
      BY DEF Ident
    <3>2. /\ mode'[n] = IF id.WasLeader THEN "leader" ELSE "standby"
          /\ stepping'[n] = FALSE
      BY <2>1 DEF StartFrom, StartState, TypeOK
    <3> QED  BY <3>1, <3>2
  <2> QED  BY <2>2, <2>3, RoleKept
<1> QED
  BY <1>0, <1>1, <1>2, <1>3, <1>4, <1>5, <1>6, <1>7, <1>8, <1>9, <1>10 DEF Next, Step, vars

\* node.json always says in which role the process has to come back, for every
\* interleaving of campaigns, heartbeats, step-downs, re-executions and crashes
\* (stepDownLocked and campaign persist WasLeader before they ask for the
\* re-exec).
THEOREM RoleIsPersisted == Spec => []RolePersisted
<1>1. Init => RoleInv
  <2> SUFFICES ASSUME Init, NEW n \in Node
               PROVE  /\ ident[n].WasLeader = disk[n].WasLeader
                      /\ disk[n].WasLeader <=> (mode[n] = "leader" <=> ~stepping[n])
    BY DEF RoleInv
  <2>1. PICK first \in Node : Init!(first)
    BY DEF Init
  <2>2. disk[n].WasLeader = (n = first) /\ ident = disk /\ stepping[n] = FALSE
    BY <2>1
  <2>3. mode[n] = IF n = first THEN "leader" ELSE "standby"
    BY <2>1
  <2> QED  BY <2>2, <2>3
<1>2. RoleInv => RolePersisted
  BY DEF RoleInv, RolePersisted
<1> QED  BY <1>1, <1>2, RoleStep, TypeCorrect, PTL DEF Spec

-----------------------------------------------------------------------------
(* One leader per term.                                                    *)

\* Two majorities of the electorate share a member.
LEMMA QuorumsMeet ==
    ASSUME NEW A \in SUBSET Node, NEW B \in SUBSET Node, Majority(A), Majority(B)
    PROVE  A \intersect B # {}
<1> SUFFICES ASSUME A \intersect B = {} PROVE FALSE
  OBVIOUS
<1>1. IsFiniteSet(A) /\ IsFiniteSet(B) /\ IsFiniteSet(A \union B)
  BY ElectionAssumption, FS_Subset
<1>2. Cardinality(A \union B) = Cardinality(A) + Cardinality(B) - 0
  BY <1>1, FS_Union, FS_EmptySet
<1>3. Cardinality(A \union B) <= Cardinality(Node)
  BY ElectionAssumption, FS_Subset
<1>4. /\ Cardinality(A) \in Nat /\ Cardinality(B) \in Nat
      /\ Cardinality(A \union B) \in Nat /\ Cardinality(Node) \in Nat
  BY <1>1, ElectionAssumption, FS_CardinalityType
<1> QED  BY <1>2, <1>3, <1>4 DEF Majority

\* What the types say about the members of the history and request sets.
LEMMA MemberTypes ==
    ASSUME TypeOK
    PROVE  /\ \A e \in elected : e.leader \in Node /\ e.term \in Nat /\ e.quorum \in SUBSET Node
           /\ \A r \in voteReq \union hbReq : r.from \in Node /\ r.to \in Node /\ r.term \in Nat
           /\ \A n \in Node : term[n] \in Nat /\ votes[n] \in SUBSET Node
BY DEF TypeOK, Request

\* The frame of the actions that collect no vote and elect nobody: node n may
\* only leave candidacy, rise to a newer term, or keep its vote in its term.
Quiet(n) ==
    /\ elected' = elected
    /\ \A m \in Node \ {n} : /\ state'[m] = state[m] /\ term'[m] = term[m]
                              /\ votedFor'[m] = votedFor[m] /\ votes'[m] = votes[m]
                              /\ round'[m] = round[m] /\ pc'[m] = pc[m]
    /\ term'[n] \in Nat
    /\ \/ term'[n] > term[n]
       \/ term'[n] = term[n] /\ (votedFor[n] # Nil => votedFor'[n] = votedFor[n])
    /\ \/ state'[n] = "follower"
       \/ /\ state'[n] = state[n] /\ term'[n] = term[n] /\ votedFor'[n] = votedFor[n]
          /\ state[n] = "candidate" => /\ round'[n] = round[n] /\ votes'[n] = votes[n]
                                       /\ pc'[n] \in {"bumped", "wrote", "polling"}

\* A quiet step can not take a vote back.
LEMMA QuietHolds ==
    ASSUME TypeOK, NEW n \in Node, Quiet(n)
    PROVE  \A v \in Node, t \in Nat, c \in Node : Holds(v, t, c) => Holds(v, t, c)'
<1> SUFFICES ASSUME NEW v \in Node, NEW t \in Nat, NEW c \in Node, Holds(v, t, c)
             PROVE  term'[v] > t \/ (term'[v] = t /\ votedFor'[v] = c)
  BY DEF Holds
<1>1. c # Nil /\ term[v] \in Nat
  BY ElectionAssumption DEF TypeOK
<1> QED  BY <1>1 DEF Quiet, Holds

\* A quiet step whose new heartbeats come from an elected leader keeps the
\* whole invariant.
LEMMA QuietKeeps ==
    ASSUME TypeOK, ElectionInv, NEW n \in Node, Quiet(n),
           \A r \in hbReq' \ hbReq : r.from # r.to /\ Elected(r.from, r.term)
    PROVE  ElectionInv'
<1>1. CandidateInCampaign'
  BY DEF ElectionInv, CandidateInCampaign, Quiet
<1>2. VotesExclusive'
  <2>1. \A m \in Node : state'[m] = "candidate" =>
           state[m] = "candidate" /\ term'[m] = term[m] /\ votes'[m] = votes[m]
    BY DEF Quiet
  <2>2. \A m \in Node : state'[m] = "candidate" => \A v \in votes'[m] : Holds(v, term[m], m)'
    BY <2>1, QuietHolds, MemberTypes DEF ElectionInv, VotesExclusive
  <2> QED  BY <2>1, <2>2 DEF ElectionInv, VotesExclusive, Holds
<1>3. QuorumWithheld'
  <2>1. \A m \in Node : state'[m] = "candidate" =>
           state[m] = "candidate" /\ term'[m] = term[m] /\ votes'[m] = votes[m]
    BY DEF Quiet
  <2>2. \A e \in elected : \A q \in e.quorum : Holds(q, e.term, e.leader)'
    BY QuietHolds, MemberTypes DEF ElectionInv, QuorumWithheld
  <2>3. elected' = elected
    BY DEF Quiet
  <2> QED  BY <2>1, <2>2, <2>3 DEF ElectionInv, QuorumWithheld, Majority
<1>4. LeadersAreElected'
  BY DEF ElectionInv, LeadersAreElected, Elected, Quiet
<1>5. ElectionSafety'
  BY DEF ElectionInv, ElectionSafety, Quiet
<1> QED  BY <1>1, <1>2, <1>3, <1>4, <1>5 DEF ElectionInv

\* The actions that are quiet.
LEMMA QuietSteps ==
    ASSUME TypeOK, ElectionInv, ~CrashAnytime, NEW n \in Node,
           \/ CampaignWriteTerm(n) \/ CampaignSave(n) \/ ObserveTerm(n) \/ RefuseStaleVote(n)
           \/ Beat(n) \/ RefuseStaleHeartbeat(n) \/ EndBeat(n)
           \/ FindLeader(n) \/ FindNoLeader(n) \/ Reexec(n) \/ Crash(n) \/ ForcePromote(n)
    PROVE  ElectionInv'
<1>0. term[n] \in Nat /\ (state[n] = "candidate" => pc[n] \in {"bumped", "wrote", "polling"})
  BY DEF TypeOK, ElectionInv, CandidateInCampaign
<1>1. CASE CampaignWriteTerm(n) \/ CampaignSave(n)
  <2>1. Quiet(n) /\ hbReq' = hbReq
    BY <1>0, <1>1 DEF CampaignWriteTerm, CampaignSave, Quiet, TypeOK
  <2> QED  BY <2>1, QuietKeeps
<1>2. CASE RefuseStaleVote(n) \/ RefuseStaleHeartbeat(n) \/ FindNoLeader(n)
  <2>1. Quiet(n) /\ hbReq' \subseteq hbReq
    BY <1>0, <1>2 DEF RefuseStaleVote, RefuseStaleHeartbeat, FindNoLeader, Quiet, TypeOK
  <2> QED  BY <2>1, QuietKeeps
<1>3. CASE ObserveTerm(n)
  <2>1. Quiet(n) /\ hbReq' = hbReq
    BY <1>0, <1>3 DEF ObserveTerm, Quiet, TypeOK
  <2> QED  BY <2>1, QuietKeeps
<1>4. CASE Beat(n)
  <2>1. Quiet(n)
    BY <1>0, <1>4 DEF Beat, Quiet, TypeOK
  <2>2. Elected(n, term[n])
    BY <1>4 DEF Beat, ElectionInv, LeadersAreElected
  <2>3. \A r \in hbReq' \ hbReq : r.from # r.to /\ r.from = n /\ r.term = term[n]
    BY <1>4 DEF Beat
  <2> QED  BY <2>1, <2>2, <2>3, QuietKeeps
<1>5. CASE EndBeat(n)
  <2>1. Quiet(n) /\ hbReq' = hbReq
    BY <1>0, <1>5 DEF EndBeat, Quiet, TypeOK
  <2> QED  BY <2>1, QuietKeeps
<1>6. CASE FindLeader(n)
  <2>1. Quiet(n) /\ hbReq' = hbReq
    BY <1>0, <1>6 DEF FindLeader, Quiet, TypeOK
  <2> QED  BY <2>1, QuietKeeps
<1>7. CASE Reexec(n) \/ Crash(n) \/ ForcePromote(n)
  <2>1. DiskKeepsVote(n) /\ hbReq' = hbReq
    BY <1>7 DEF Reexec, Crash, ForcePromote, StartFrom, StartState
  <2>2. PICK id : /\ StartFrom(n, id) /\ id.VotedFor = disk[n].VotedFor
                  /\ id.Term \in {disk[n].Term, disk[n].Term + 1}
    <3>1. CASE Reexec(n) \/ Crash(n)
      BY <3>1 DEF Reexec, Crash
    <3>2. CASE ForcePromote(n)
      <4> DEFINE new == [disk[n] EXCEPT !.WasLeader = TRUE, !.Term = disk[n].Term + 1]
      <4>1. StartFrom(n, new)
        BY <3>2 DEF ForcePromote
      <4>2. new.VotedFor = disk[n].VotedFor /\ new.Term = disk[n].Term + 1
        BY DEF TypeOK, Ident
      <4> QED  BY <4>1, <4>2
    <3> QED  BY <1>7, <3>1, <3>2
  <2>3. Quiet(n)
    BY <1>0, <2>1, <2>2 DEF StartFrom, StartState, DiskKeepsVote, Quiet, TypeOK
  <2> QED  BY <2>1, <2>3, QuietKeeps
<1> QED  BY <1>1, <1>2, <1>3, <1>4, <1>5, <1>6, <1>7

\* campaign() opens with a term of its own: nobody holds a vote of it yet.
LEMMA CampaignBeginKeeps ==
    ASSUME TypeOK, ElectionInv, NEW n \in Node, CampaignBegin(n)
    PROVE  ElectionInv'
<1>1. /\ state'[n] = "candidate" /\ term'[n] = term[n] + 1 /\ votedFor'[n] = n
      /\ round'[n] = term[n] + 1 /\ votes'[n] = {n} /\ pc'[n] = "bumped"
      /\ elected' = elected /\ hbReq' = hbReq /\ term[n] \in Nat
  BY DEF CampaignBegin, TypeOK
<1>2. \A m \in Node \ {n} : /\ state'[m] = state[m] /\ term'[m] = term[m]
                            /\ votedFor'[m] = votedFor[m] /\ votes'[m] = votes[m]
                            /\ round'[m] = round[m] /\ pc'[m] = pc[m]
  BY DEF CampaignBegin, TypeOK
<1>3. \A v \in Node, t \in Nat, c \in Node : Holds(v, t, c) => Holds(v, t, c)'
  BY <1>1, <1>2, MemberTypes DEF Holds
<1>4. \A c \in Node : ~ Holds(n, term[n] + 1, c)
  BY <1>1 DEF Holds
<1>5. CandidateInCampaign'
  BY <1>1, <1>2 DEF ElectionInv, CandidateInCampaign
<1>6. VotesExclusive'
  <2>1. \A m \in Node : state'[m] = "candidate" => \A v \in votes'[m] : Holds(v, term[m], m)'
    <3>1. Holds(n, term[n], n)'
      BY <1>1 DEF Holds
    <3> QED  BY <1>1, <1>2, <1>3, <3>1, MemberTypes DEF ElectionInv, VotesExclusive
  <2>2. \A m \in Node \ {n} : state[m] = "candidate" /\ term[m] = term[n] + 1 => n \notin votes[m]
    BY <1>4 DEF ElectionInv, VotesExclusive
  <2> QED  BY <1>1, <1>2, <2>1, <2>2 DEF ElectionInv, VotesExclusive, Holds
<1>7. QuorumWithheld'
  <2>1. \A e \in elected : e.term = term[n] + 1 => e.leader # n /\ n \notin e.quorum
    BY <1>4, MemberTypes DEF ElectionInv, QuorumWithheld
  <2>2. \A e \in elected : \A q \in e.quorum : Holds(q, e.term, e.leader)'
    BY <1>3, MemberTypes DEF ElectionInv, QuorumWithheld
  <2> QED  BY <1>1, <1>2, <2>1, <2>2 DEF ElectionInv, QuorumWithheld, Majority
<1>8. LeadersAreElected'
  BY <1>1, <1>2 DEF ElectionInv, LeadersAreElected, Elected
<1>9. ElectionSafety'
  BY <1>1 DEF ElectionInv, ElectionSafety
<1> QED  BY <1>5, <1>6, <1>7, <1>8, <1>9 DEF ElectionInv

\* The winner's quorum is new in its term: another election of that term would
\* share a vote with it.
LEMMA FinishCampaignKeeps ==
    ASSUME TypeOK, ElectionInv, NEW n \in Node, FinishCampaign(n)
    PROVE  ElectionInv'
<1>1. PICK arrived \in SUBSET votes[n] : FinishCampaign(n)!(arrived)
  BY DEF FinishCampaign
<1> DEFINE won == state[n] = "candidate" /\ term[n] = round[n] /\ Majority(arrived)
<1>2. CASE ~won
  <2>1. Quiet(n) /\ hbReq' = hbReq
    BY <1>1, <1>2 DEF Quiet, TypeOK, ElectionInv, CandidateInCampaign
  <2> QED  BY <2>1, QuietKeeps
<1>3. CASE won
  <2> DEFINE e == [leader |-> n, term |-> term[n], quorum |-> arrived]
  <2>1. /\ elected' = elected \union {e} /\ hbReq' = hbReq /\ state'[n] = "leader"
        /\ UNCHANGED <<term, votedFor, round>> /\ n \in arrived
        /\ \A m \in Node \ {n} : state'[m] = state[m] /\ votes'[m] = votes[m] /\ pc'[m] = pc[m]
    BY <1>1, <1>3 DEF TypeOK
  <2>2. arrived \in SUBSET Node /\ arrived \subseteq votes[n] /\ Majority(arrived)
    BY <1>1, <1>3, MemberTypes
  <2>3. \A q \in arrived : Holds(q, term[n], n)
    BY <1>3, <2>2 DEF ElectionInv, VotesExclusive
  <2>4. \A f \in elected : f.term # term[n]
    <3> SUFFICES ASSUME NEW f \in elected, f.term = term[n] PROVE FALSE
      OBVIOUS
    <3>1. arrived \intersect f.quorum # {}
      BY <2>2, QuorumsMeet, MemberTypes DEF ElectionInv, QuorumWithheld
    <3>2. votes[n] \intersect f.quorum = {}
      BY <1>3 DEF ElectionInv, QuorumWithheld
    <3> QED  BY <2>2, <3>1, <3>2
  <2>5. CandidateInCampaign'
    BY <1>3, <2>1 DEF ElectionInv, CandidateInCampaign
  <2>6. VotesExclusive'
    BY <2>1 DEF ElectionInv, VotesExclusive, Holds
  <2>7. QuorumWithheld'
    <3>1. \A m \in Node \ {n} : state[m] = "candidate" /\ term[m] = term[n] =>
             votes[m] \intersect arrived = {}
      BY <1>3, <2>2 DEF ElectionInv, VotesExclusive
    <3>2. ASSUME NEW f \in elected
          PROVE  /\ Majority(f.quorum) /\ f.leader \in f.quorum
                 /\ \A q \in f.quorum : Holds(q, f.term, f.leader)'
                 /\ \A m \in Node : state'[m] = "candidate" /\ term'[m] = f.term =>
                        m # f.leader /\ votes'[m] \intersect f.quorum = {}
      BY <2>1, <3>2 DEF ElectionInv, QuorumWithheld, Holds
    <3>3. /\ Majority(e.quorum) /\ e.leader \in e.quorum
          /\ \A q \in e.quorum : Holds(q, e.term, e.leader)'
          /\ \A m \in Node : state'[m] = "candidate" /\ term'[m] = e.term =>
                 m # e.leader /\ votes'[m] \intersect e.quorum = {}
      BY <2>1, <2>2, <2>3, <3>1 DEF Holds
    <3> QED  BY <2>1, <3>2, <3>3 DEF QuorumWithheld, Majority
  <2>8. LeadersAreElected'
    <3>1. \A m \in Node, t \in Nat : Elected(m, t) => Elected(m, t)'
      BY <2>1 DEF Elected
    <3>2. e \in elected' /\ e.leader = n /\ e.term = term'[n]
      BY <2>1
    <3>3. Elected(n, term[n])'
      BY <3>2 DEF Elected
    <3> QED  BY <2>1, <3>1, <3>3, MemberTypes DEF ElectionInv, LeadersAreElected
  <2>9. ElectionSafety'
    BY <2>1, <2>4 DEF ElectionInv, ElectionSafety
  <2> QED  BY <2>5, <2>6, <2>7, <2>8, <2>9 DEF ElectionInv
<1> QED  BY <1>2, <1>3

\* A vote is granted only when it is free, so it is in nobody else's hands.
LEMMA HandleVoteKeeps ==
    ASSUME TypeOK, ElectionInv, NEW n \in Node, HandleVote(n)
    PROVE  ElectionInv'
<1>1. PICK r \in voteReq, fresh \in BOOLEAN : HandleVote(n)!(r, fresh)
  BY DEF HandleVote
<1> DEFINE c == r.from
           grant == VoteIn(n, r.term) \in {Nil, c} /\ fresh
<1>2. c \in Node /\ r.term \in Nat /\ term[n] \in Nat /\ r.term >= term[n] /\ c # Nil
  BY <1>1, MemberTypes, ElectionAssumption
<1>3. CASE ~grant
  <2>1. votes' = votes
    BY <1>1, <1>3 DEF TypeOK
  <2>2. /\ term'[n] = r.term /\ UNCHANGED <<round, pc, elected, hbReq>>
        /\ votedFor'[n] = IF r.term > term[n] THEN Nil ELSE votedFor[n]
        /\ state'[n] = IF r.term > term[n] THEN "follower" ELSE state[n]
        /\ \A m \in Node \ {n} : /\ state'[m] = state[m] /\ term'[m] = term[m]
                                 /\ votedFor'[m] = votedFor[m]
    BY <1>1, <1>3 DEF Adopt, VoteIn, TypeOK
  <2>3. Quiet(n)
    BY <1>2, <2>1, <2>2 DEF Quiet, ElectionInv, CandidateInCampaign
  <2> QED  BY <2>2, <2>3, QuietKeeps
<1>4. CASE grant
  <2>1. /\ term'[n] = r.term /\ votedFor'[n] = c
        /\ term[n] < r.term \/ (term[n] = r.term /\ votedFor[n] \in {Nil, c})
        /\ state'[n] = IF r.term > term[n] THEN "follower" ELSE state[n]
    <3>1. term'[n] = r.term
      BY <1>1 DEF Adopt, TypeOK
    <3>2. votedFor'[n] = c
      BY <1>1, <1>4 DEF TypeOK
    <3>3. state'[n] = IF r.term > term[n] THEN "follower" ELSE state[n]
      BY <1>1 DEF TypeOK
    <3>4. term[n] < r.term \/ (term[n] = r.term /\ votedFor[n] \in {Nil, c})
      BY <1>2, <1>4 DEF VoteIn
    <3> QED BY <3>1, <3>2, <3>3, <3>4
  <2>2. /\ \A m \in Node \ {n} : /\ state'[m] = state[m] /\ term'[m] = term[m]
                                  /\ votedFor'[m] = votedFor[m]
        /\ round' = round /\ pc' = pc /\ elected' = elected /\ hbReq' = hbReq
    BY <1>1, <1>4 DEF Adopt, TypeOK
  <2>3. /\ \A m \in Node \ {c} : votes'[m] = votes[m]
        /\ \/ votes'[c] = votes[c]
           \/ round[c] = r.term /\ votes'[c] = votes[c] \union {n}
    BY <1>1, <1>2, <1>4 DEF Awaits, TypeOK
  <2>4. \A m \in Node : state'[m] = "candidate" =>
           state[m] = "candidate" /\ term'[m] = term[m] /\ round[m] = term[m]
    BY <1>2, <2>1, <2>2 DEF ElectionInv, CandidateInCampaign
  <2>5. \A v \in Node, t \in Nat, d \in Node : Holds(v, t, d) => Holds(v, t, d)'
    BY <1>2, <2>1, <2>2, MemberTypes, ElectionAssumption DEF Holds
  <2>6. CandidateInCampaign'
    <3>1. state'[n] # "follower" => votedFor[n] = n /\ term[n] = r.term
      BY <1>2, <2>1 DEF ElectionInv, CandidateInCampaign
    <3>2. state'[n] # "follower" => votedFor'[n] = n
      BY <1>2, <2>1, <3>1, ElectionAssumption
    <3> QED  BY <2>2, <2>4, <3>2 DEF ElectionInv, CandidateInCampaign
  <2>7. \A d \in Node \ {c} : ~ Holds(n, r.term, d)
    BY <1>2, <2>1, ElectionAssumption DEF Holds
  <2>8. VotesExclusive'
    <3>1. \A m \in Node : state'[m] = "candidate" => \A v \in votes'[m] : Holds(v, term[m], m)'
      <4>1. \A m \in Node : state'[m] = "candidate" => \A v \in votes[m] : Holds(v, term[m], m)'
        BY <2>4, <2>5, MemberTypes DEF ElectionInv, VotesExclusive
      <4>2. Holds(n, r.term, c)'
        BY <2>1 DEF Holds
      <4> QED  BY <1>2, <2>3, <2>4, <4>1, <4>2
    <3>2. \A m \in Node \ {c} : state[m] = "candidate" /\ term[m] = r.term => n \notin votes[m]
      BY <2>7 DEF ElectionInv, VotesExclusive
    <3>3. \A m \in Node : \A k \in Node \ {m} :
             state'[m] = "candidate" /\ state'[k] = "candidate" /\ term'[k] = term'[m] =>
                votes'[k] \intersect votes'[m] = {}
      <4>1. \A m \in Node : \A k \in Node \ {m} :
               state'[m] = "candidate" /\ state'[k] = "candidate" /\ term'[k] = term'[m] =>
                  votes[k] \intersect votes[m] = {}
        BY <2>4 DEF ElectionInv, VotesExclusive
      <4> QED  BY <1>2, <2>3, <2>4, <3>2, <4>1
    <3> QED  BY <3>1, <3>3 DEF VotesExclusive
  <2>9. QuorumWithheld'
    <3>1. \A e \in elected : e.term = r.term /\ e.leader # c => n \notin e.quorum
      BY <2>7, MemberTypes DEF ElectionInv, QuorumWithheld
    <3>2. \A e \in elected : \A q \in e.quorum : Holds(q, e.term, e.leader)'
      BY <2>5, MemberTypes DEF ElectionInv, QuorumWithheld
    <3>3. \A e \in elected, m \in Node : state'[m] = "candidate" /\ term'[m] = e.term =>
             m # e.leader /\ votes'[m] \intersect e.quorum = {}
      BY <1>2, <2>3, <2>4, <3>1 DEF ElectionInv, QuorumWithheld
    <3> QED  BY <2>2, <3>2, <3>3 DEF ElectionInv, QuorumWithheld, Majority
  <2>10. LeadersAreElected'
    BY <2>1, <2>2, <1>2 DEF ElectionInv, LeadersAreElected, Elected
  <2>11. ElectionSafety'
    BY <2>2 DEF ElectionInv, ElectionSafety
  <2> QED  BY <2>6, <2>8, <2>9, <2>10, <2>11 DEF ElectionInv
<1> QED  BY <1>3, <1>4

\* A heartbeat clears only a candidate's own vote, or a leader's vote in an
\* older term: one leader per term means no leader of this term is addressed.
LEMMA HandleHeartbeatKeeps ==
    ASSUME TypeOK, ElectionInv, NEW n \in Node, HandleHeartbeat(n)
    PROVE  ElectionInv'
<1>1. PICK r \in hbReq : HandleHeartbeat(n)!(r)
  BY DEF HandleHeartbeat
<1>2. /\ r.term \in Nat /\ term[n] \in Nat /\ r.term >= term[n] /\ r.to = n
      /\ r.from # n /\ Elected(r.from, r.term) /\ hbReq' \subseteq hbReq
  BY <1>1, MemberTypes DEF ElectionInv, LeadersAreElected
<1>3. CASE r.term > term[n] \/ state[n] = "follower"
  <2>1. /\ term'[n] = r.term /\ state'[n] = "follower" /\ UNCHANGED <<votes, round, pc, elected>>
        /\ votedFor'[n] = IF r.term > term[n] THEN Nil ELSE votedFor[n]
        /\ \A m \in Node \ {n} : /\ state'[m] = state[m] /\ term'[m] = term[m]
                                 /\ votedFor'[m] = votedFor[m]
    BY <1>1, <1>3 DEF Adopt, TypeOK
  <2>2. Quiet(n)
    BY <1>2, <2>1 DEF Quiet
  <2> QED  BY <1>2, <2>2, QuietKeeps
<1>4. CASE r.term = term[n] /\ state[n] # "follower"
  <2>1. /\ term' = term /\ state'[n] = "follower" /\ votedFor[n] = n
        /\ UNCHANGED <<votes, round, pc, elected>>
        /\ \A m \in Node \ {n} : state'[m] = state[m] /\ votedFor'[m] = votedFor[m]
    BY <1>1, <1>2, <1>4 DEF Adopt, TypeOK, ElectionInv, CandidateInCampaign
  <2>2. ~ Elected(n, term[n])
    BY <1>2, <1>4 DEF Elected, ElectionInv, ElectionSafety
  <2>3. \A v \in Node, t \in Nat, d \in Node :
           Holds(v, t, d) => Holds(v, t, d)' \/ (v = n /\ t = term[n] /\ d = n)
    BY <1>2, <2>1, MemberTypes DEF Holds
  <2>4. CandidateInCampaign'
    BY <2>1 DEF ElectionInv, CandidateInCampaign
  <2>5. VotesExclusive'
    <3>1. \A m \in Node : state'[m] = "candidate" => \A v \in votes[m] : Holds(v, term[m], m)'
      BY <2>1, <2>3, MemberTypes DEF ElectionInv, VotesExclusive
    <3> QED  BY <2>1, <3>1 DEF ElectionInv, VotesExclusive
  <2>6. QuorumWithheld'
    <3>1. \A e \in elected : \A q \in e.quorum : Holds(q, e.term, e.leader)'
      BY <2>2, <2>3, MemberTypes DEF ElectionInv, QuorumWithheld, Elected
    <3> QED  BY <2>1, <3>1 DEF ElectionInv, QuorumWithheld, Majority
  <2>7. LeadersAreElected'
    BY <1>2, <2>1 DEF ElectionInv, LeadersAreElected, Elected
  <2>8. ElectionSafety'
    BY <2>1 DEF ElectionInv, ElectionSafety
  <2> QED  BY <2>4, <2>5, <2>6, <2>7, <2>8 DEF ElectionInv
<1> QED  BY <1>2, <1>3, <1>4 DEF TypeOK

\* The invariant is inductive when no process dies between casting a vote and
\* having it in node.json.
LEMMA ElectionStep ==
    ASSUME ~CrashAnytime
    PROVE  TypeOK /\ ElectionInv /\ [Next]_vars => ElectionInv'
<1> SUFFICES ASSUME TypeOK, ElectionInv, [Next]_vars PROVE ElectionInv'
  OBVIOUS
<1>1. CASE UNCHANGED vars
  BY <1>1 DEF vars, ElectionInv, CandidateInCampaign, VotesExclusive, QuorumWithheld,
              LeadersAreElected, ElectionSafety, Elected, Holds, Majority
<1>2. ASSUME NEW n \in Node, Step(n) PROVE ElectionInv'
  BY <1>2, QuietSteps, CampaignBeginKeeps, FinishCampaignKeeps, HandleVoteKeeps,
     HandleHeartbeatKeeps DEF Step
<1> QED  BY <1>1, <1>2 DEF Next

\* The invariant holds throughout.
LEMMA ElectionInvariant == ASSUME ~CrashAnytime PROVE Spec => []ElectionInv
<1>1. Init => ElectionInv
  BY DEF Init, ElectionInv, CandidateInCampaign, VotesExclusive, QuorumWithheld,
         LeadersAreElected, ElectionSafety
<1> QED  BY <1>1, ElectionStep, TypeCorrect, PTL DEF Spec

\* campaign() makes at most one node the leader of a term, in every electorate,
\* for every loss, delay and reordering of votes and heartbeats and for every
\* restart, as long as node.json holds the last vote when a process dies.
THEOREM OneLeaderPerTerm == ASSUME ~CrashAnytime PROVE Spec => []ElectionSafety
<1>1. ElectionInv => ElectionSafety
  BY DEF ElectionInv
<1> QED  BY <1>1, ElectionInvariant, PTL

\* A superseded leader loses its lease: those still at its term or below are
\* not a majority, so beat()'s lease check can not succeed again once the
\* acknowledgements it has run out of leaseWindow.
THEOREM StaleLeaderLosesLease == ASSUME ~CrashAnytime PROVE Spec => []StaleLeaderCannotRenew
<1>1. TypeOK /\ ElectionInv => StaleLeaderCannotRenew
  <2> SUFFICES ASSUME TypeOK, ElectionInv, NEW n \in Node, NEW e \in elected,
                      e.term > term[n], Majority({v \in Node : term[v] <= term[n]})
               PROVE  FALSE
    BY DEF StaleLeaderCannotRenew
  <2>1. PICK q \in e.quorum : q \in {v \in Node : term[v] <= term[n]}
    BY QuorumsMeet, MemberTypes DEF ElectionInv, QuorumWithheld
  <2>2. term[q] >= e.term
    BY <2>1, MemberTypes DEF ElectionInv, QuorumWithheld, Holds
  <2> QED  BY <2>1, <2>2, MemberTypes
<1> QED  BY <1>1, ElectionInvariant, TypeCorrect, PTL
=============================================================================
