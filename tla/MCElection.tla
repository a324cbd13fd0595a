----------------------------- MODULE MCElection -----------------------------
(* Small instances of Election for TLC.                                    *)
EXTENDS Election, TLC

Symmetry == Permutations(Node)

\* Bounds the search of the crash run: terms 1 and 2 only, and at most four
\* vote requests under way at a time.
FewRequests == (\A n \in Node : term[n] <= 2) /\ Cardinality(voteReq) <= 4
=============================================================================
