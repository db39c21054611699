----------------------------- MODULE MCDatapath -----------------------------
(* Small instances of Datapath for TLC. *)
EXTENDS Datapath, TLC

CONSTANTS here, there, dns, other, e0, e1

\* Rules are made for two addresses and a service.
At(a, s) == [addr |-> a, service |-> s]
Local(v4) == [v4 |-> v4, src |-> At(here, other), dst |-> At(there, dns), iif |-> None, oif |-> e0]
Forwarded == [v4 |-> TRUE, src |-> At(there, dns), dst |-> At(here, other), iif |-> e0, oif |-> e1]

MCPackets == {Local(TRUE), Local(FALSE), Forwarded}
MCPacket6 == {Local(FALSE)}
=============================================================================
