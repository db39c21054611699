---------------------------- MODULE MCHtbQdisc -----------------------------
(* Small instances of HtbQdisc for TLC, in units of 8 bytes, which leaves the *)
(* arithmetic of the code as it is below its cap of 34359 Mb/s.               *)
EXTENDS HtbQdisc, TLC

CONSTANTS c1, c2, c3

Of(total, high, dflt, low) == [total |-> total, high |-> high, dflt |-> dflt, low |-> low]

\* A total that is lost in parts by rounding, one that starves a class, percentages that do not add up.
MCDemand == {Of(7, 15, 34, 51), Of(5, 50, 40, 10), Of(9, 50, 50, 10)}

MCUnits == 15625
MCWord == 2^29
MCThousand == 125

Racers == Permutations({c1, c2, c3})
=============================================================================
