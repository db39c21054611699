----------------------------- MODULE MCDaemonRpc ----------------------------
(* Small instances of DaemonRpc for TLC. *)
EXTENDS DaemonRpc, TLC

CONSTANTS c1, c2, d1, d2
=============================================================================
