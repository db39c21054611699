----------------------------- MODULE MCQosRules -----------------------------
(* Small instances of QosRules for TLC. *)
EXTENDS QosRulesInv

CONSTANTS h1, h2, net, c1, c2, s1, d1, d2

\* The prefix net contains the host h1; the resolver answers with hosts.
MCOverlap == IF net \in Addr THEN {<<net, h1>>, <<h1, net>>} ELSE {}
MCAnswers == [d \in Domain |-> SUBSET (Addr \ {net}) \ {{}}]
\* The answer moves from one host to the other.
MCMoves == [d \in Domain |-> {{h1}, {h2}}]
=============================================================================
