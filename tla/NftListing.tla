----------------------------- MODULE NftListing -----------------------------
(***************************************************************************)
(* The prefixes of NftSets with the bytes of their addresses, and what is  *)
(* listed of a set of the kernel.                                          *)
(***************************************************************************)
EXTENDS NftSets, IpBits

\* A prefix is a network of some number of host bits, typed at one of its addresses.
ASSUME PrefixAssumption ==
    /\ Top = TwoTo[Bits] - 1
    /\ \A p \in Prefix : \E h \in 0 .. Bits : p.size = TwoTo[h] /\ p.lo \in Networks(h)

Listed(set) == {reconstructNftIPRange(e.start, e.end) : e \in elems[set]}

\* What is listed is what was added, and deleting what is listed deletes the
\* element it was read from; a network of two addresses is listed as its first
\* host, and is one for the kernel, too (getIPSetElements, ipExistsInIPSets).
ReadBack ==
    \A set \in IPSet :
        /\ \A p \in Prefix : Has(set, p) /\ p.size # 2 => p \in Listed(set)
        /\ \A e \in elems[set] : Interval(reconstructNftIPRange(e.start, e.end)) = e
=============================================================================
