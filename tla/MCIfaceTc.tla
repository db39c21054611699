----------------------------- MODULE MCIfaceTc -----------------------------
(* Small instances of IfaceTc for TLC. *)
EXTENDS IfaceTc, TLC

CONSTANTS eth0, cli, dcli, w1, w2

\* Percentages that differ in two classes can be torn.
MCSplit == {Default.split, [high |-> 60, dflt |-> 30, low |-> 10]}
MCTwoRates == {1, 100}
MCOneRate == {100}
MCDefaultSplit == {Default.split}

Goroutines == Permutations({w1, w2})
=============================================================================
