----------------------------- MODULE MCNftSets -----------------------------
(* Small instances of NftListing for TLC.                                  *)
EXTENDS NftListing, TLC

CONSTANTS w1, w2, cli, web, own, high4, services, k1, k2

Net(lo, hostBits) == [addr |-> lo, lo |-> lo, size |-> TwoTo[hostBits]]

MCTop == TwoTo[Bits] - 1
MCFlushOrder == <<high4, services>>

\* A network, half of it, the host at its last address, and the network again as
\* it must not be typed.
N == Net(4, 2)
Half == Net(4, 1)
LastHost == Net(7, 0)
Typed == [N EXCEPT !.addr = 5]
MCPrefix == {N, Half, LastHost, Typed}

IPs(kind, list) == Request(kind, high4, list)
MCAsks ==
    [c \in Caller |->
        IF c = cli
        THEN {IPs("addIPs", <<N, LastHost>>), IPs("deleteIPs", <<N, Typed>>),
              Request("deleteKeys", services, <<{k1}>>)}
        ELSE {IPs("addIPs", <<Half, Typed>>), Request("addKeys", services, <<{k1}>>),
              Request("addKeys", services, <<{k1, k2}>>), Request("flushAll", "none", MCFlushOrder)}]

MCConnOf == [c \in Caller |-> IF c = cli THEN own ELSE web]
Goroutines == Permutations({w1, w2})

\* TLC computes the bytes of every prefix of the instance.
ASSUME BytesAssumption == NetworksReadBack
=============================================================================
