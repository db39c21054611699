----------------------------- MODULE MCNftSetup -----------------------------
(* Small instances of NftSetup for TLC. *)
EXTENDS NftSetup, TLC

CONSTANTS p1, p2, p3

Racers == Permutations({p1, p2, p3})
=============================================================================
