------------------------------- MODULE IpBits -------------------------------
(***************************************************************************)
(* The bytes behind the intervals of NftSets: how the last address of a    *)
(* prefix is computed, and how a prefix is read back from an interval.     *)
(* Addresses have NBytes bytes of ByteBits bits.                           *)
(***************************************************************************)
EXTENDS Integers

CONSTANTS NBytes, ByteBits

ASSUME BitsAssumption == NBytes \in Nat \ {0} /\ ByteBits \in Nat \ {0}

\* Powers of two, as a function: the provers know nothing of exponents.
TwoTo[n \in Nat] == IF n = 0 THEN 1 ELSE 2 * TwoTo[n - 1]

Bits == NBytes * ByteBits
Base == TwoTo[ByteBits]
Index == 1 .. NBytes
Byte == 0 .. Base - 1

\* The bits of an address below those of byte i, the first byte being the most
\* significant one.
Shift(i) == ByteBits * (NBytes - i)

\* The bytes of an address, and the address of some bytes.
AsSlice(a) == [i \in Index |-> (a \div TwoTo[Shift(i)]) % Base]
AddrFromSlice(b) ==
    LET read[n \in 0 .. NBytes] == IF n = 0 THEN 0 ELSE read[n - 1] * Base + b[n]
    IN  read[NBytes]

\* The host bits from byte i on.
HostBitsOf(i, hostBits) == hostBits - Shift(i)

mask(b, hostBits) ==
    [i \in Index |->
        LET h == HostBitsOf(i, hostBits) IN
        IF h >= ByteBits THEN Base - 1
        ELSE IF h > 0 THEN (b[i] - (b[i] % TwoTo[h])) + TwoTo[h] - 1
        ELSE b[i]]

LastAddr(lo, hostBits) == AddrFromSlice(mask(AsSlice(lo), hostBits))

\* The leading bits in which two bytes agree.
LeadingZeros(x, y) ==
    CHOOSE n \in 0 .. ByteBits :
        /\ x \div TwoTo[ByteBits - n] = y \div TwoTo[ByteBits - n]
        /\ n < ByteBits => x \div TwoTo[ByteBits - n - 1] # y \div TwoTo[ByteBits - n - 1]

\* The loop does not stop at the first byte that differs.
commonPrefixLen(a, b) ==
    LET len[n \in 0 .. NBytes] == IF n = 0 THEN 0 ELSE len[n - 1] + LeadingZeros(a[n], b[n])
    IN  len[NBytes]

\* The prefix that is read from an interval: an end next to the start is a host.
reconstructNftIPRange(start, end) ==
    IF start + 1 = end THEN [addr |-> start, lo |-> start, size |-> 1]
    ELSE [addr |-> start, lo |-> start,
          size |-> TwoTo[Bits - commonPrefixLen(AsSlice(start), AsSlice(end))]]

\* The network addresses with h host bits.
Networks(h) == {lo \in 0 .. TwoTo[Bits] - 1 : lo % TwoTo[h] = 0}

\* mask sets the host bits of a network address and no others, and from such an
\* interval the prefix is read back, for every prefix of the width; a network of
\* two addresses is read as its first one (ipIntervalEnd).
NetworksReadBack ==
    \A h \in 1 .. Bits : \A lo \in Networks(h) :
        /\ LastAddr(lo, h) = lo + TwoTo[h] - 1
        /\ reconstructNftIPRange(lo, LastAddr(lo, h)).size = IF h = 1 THEN 1 ELSE TwoTo[h]
=============================================================================
