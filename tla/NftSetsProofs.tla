--------------------------- MODULE NftSetsProofs ---------------------------
(***************************************************************************)
(* The named sets, for any callers, connections, prefixes and faults: what *)
(* is queued is sent or dropped by who queued it, the networks of a set    *)
(* are nested in no way but one and read back as they were added, and who  *)
(* has a connection of its own is answered truly.                          *)
(***************************************************************************)
EXTENDS NftListing, TLAPS, WellFoundedInduction

-----------------------------------------------------------------------------
(* Bytes.                                                                  *)

\* A set of naturals has a least element: induction, with the set of what is not so.
LEMMA Least ==
    ASSUME NEW T, T \subseteq Nat, T # {}
    PROVE  \E n \in T : \A m \in T : n <= m
<1>1. IsWellFoundedOn(OpToRel(<, Nat), Nat)
  BY NatLessThanWellFounded
<1>2. PICK n \in T : \A m \in T : <<m, n>> \notin OpToRel(<, Nat)
  BY <1>1, WFMin
<1>3. \A m \in T : ~(m < n)
  BY <1>2 DEF OpToRel
<1> QED
  BY <1>3

\* Powers of two up to n.
Powers(f, n) ==
    /\ f \in [0 .. n -> Nat]
    /\ \A k \in 0 .. n : f[k] = IF k = 0 THEN 1 ELSE 2 * f[k - 1]

LEMMA PowersExist == \A n \in Nat : \E f : Powers(f, n)
<1> DEFINE T == {n \in Nat : ~\E f : Powers(f, n)}
<1>1. SUFFICES ASSUME T # {} PROVE FALSE
  OBVIOUS
<1>2. PICK n \in T : \A m \in T : n <= m
  BY <1>1, Least
<1>3. CASE n = 0
  <2>1. Powers([k \in 0 .. n |-> 1], n)
    BY <1>3 DEF Powers
  <2> QED
    BY <2>1
<1>4. CASE n # 0
  <2>1. n - 1 \in Nat /\ n - 1 \notin T
    BY <1>2, <1>4
  <2>2. PICK g : Powers(g, n - 1)
    BY <2>1
  <2>3. Powers([k \in 0 .. n |-> IF k = n THEN 2 * g[n - 1] ELSE g[k]], n)
    BY <2>1, <2>2 DEF Powers
  <2> QED
    BY <2>3
<1> QED
  BY <1>3, <1>4

LEMMA PowersAgree ==
    ASSUME NEW n \in Nat, NEW f, NEW g, Powers(f, n), NEW m \in 0 .. n, Powers(g, m)
    PROVE  \A k \in 0 .. m : f[k] = g[k]
<1> DEFINE T == {k \in Nat : k <= m /\ f[k] # g[k]}
<1>1. SUFFICES ASSUME T # {} PROVE FALSE
  OBVIOUS
<1>2. PICK k \in T : \A l \in T : k <= l
  BY <1>1, Least
<1>3. CASE k = 0
  BY <1>2, <1>3 DEF Powers
<1>4. CASE k # 0
  <2>1. k - 1 \in Nat /\ k - 1 \notin T
    BY <1>2, <1>4
  <2>2. f[k - 1] = g[k - 1]
    BY <2>1
  <2> QED
    BY <1>2, <1>4, <2>2 DEF Powers
<1> QED
  BY <1>3, <1>4

\* The recursive definition of TwoTo defines a function.
LEMMA TwoToIs == TwoTo = [n \in Nat |-> IF n = 0 THEN 1 ELSE 2 * TwoTo[n - 1]]
<1> DEFINE P(n) == CHOOSE f : Powers(f, n)
           F == [n \in Nat |-> P(n)[n]]
<1>1. \A n \in Nat : Powers(P(n), n)
  BY PowersExist
<1> HIDE DEF P
<1>2. ASSUME NEW n \in Nat PROVE F[n] = IF n = 0 THEN 1 ELSE 2 * F[n - 1]
  <2>1. CASE n = 0
    BY <1>1, <2>1 DEF Powers
  <2>2. CASE n # 0
    <3>1. n - 1 \in 0 .. n /\ n - 1 \in Nat
      BY <2>2
    <3>2. P(n)[n - 1] = P(n - 1)[n - 1]
      <4>1. \A k \in 0 .. n - 1 : P(n)[k] = P(n - 1)[k]
        BY <1>1, <3>1, PowersAgree
      <4> QED
        BY <4>1, <3>1
    <3>3. P(n)[n] = 2 * P(n)[n - 1]
      BY <1>1, <2>2 DEF Powers
    <3> QED
      BY <2>2, <3>1, <3>2, <3>3
  <2> QED
    BY <2>1, <2>2
<1>3. F = [n \in Nat |-> IF n = 0 THEN 1 ELSE 2 * F[n - 1]]
  <2>1. F = [n \in Nat |-> F[n]]
    OBVIOUS
  <2> HIDE DEF F
  <2> QED
    BY <1>2, <2>1
<1> HIDE DEF F
<1> QED
  BY <1>3 DEF TwoTo

LEMMA TwoToType == \A n \in Nat : TwoTo[n] \in Nat \ {0}
<1> DEFINE T == {n \in Nat : TwoTo[n] \notin Nat \ {0}}
<1>1. SUFFICES ASSUME T # {} PROVE FALSE
  OBVIOUS
<1>2. PICK n \in T : \A m \in T : n <= m
  BY <1>1, Least
<1>3. TwoTo[n] = IF n = 0 THEN 1 ELSE 2 * TwoTo[n - 1]
  BY TwoToIs
<1>4. n # 0
  BY <1>2, <1>3
<1>5. n - 1 \in Nat /\ n - 1 \notin T
  BY <1>2, <1>4
<1>6. TwoTo[n - 1] \in Nat \ {0}
  BY <1>5
<1> QED
  BY <1>2, <1>3, <1>4, <1>6

LEMMA TwoToNext == TwoTo[0] = 1 /\ \A n \in Nat : TwoTo[n + 1] = 2 * TwoTo[n]
<1>1. \A n \in Nat : TwoTo[n] = IF n = 0 THEN 1 ELSE 2 * TwoTo[n - 1]
  BY TwoToIs
<1>2. ASSUME NEW n \in Nat PROVE TwoTo[n + 1] = 2 * TwoTo[n]
  <2>1. n + 1 \in Nat /\ n + 1 # 0 /\ (n + 1) - 1 = n
    OBVIOUS
  <2> QED
    BY <1>1, <2>1
<1> QED
  BY <1>1, <1>2

LEMMA TwoToSum == \A m \in Nat : \A n \in Nat : TwoTo[m + n] = TwoTo[m] * TwoTo[n]
<1>1. SUFFICES ASSUME NEW m \in Nat PROVE \A n \in Nat : TwoTo[m + n] = TwoTo[m] * TwoTo[n]
  OBVIOUS
<1> DEFINE T == {n \in Nat : TwoTo[m + n] # TwoTo[m] * TwoTo[n]}
<1>2. SUFFICES ASSUME T # {} PROVE FALSE
  OBVIOUS
<1>3. PICK n \in T : \A k \in T : n <= k
  BY <1>2, Least
<1>4. TwoTo[m] \in Nat /\ TwoTo[n] \in Nat
  BY TwoToType
<1>5. n # 0
  <2>1. TwoTo[m + 0] = TwoTo[m] * TwoTo[0]
    BY <1>4, TwoToNext
  <2> QED
    BY <1>3, <2>1
<1>6. n - 1 \in Nat /\ n - 1 \notin T
  BY <1>3, <1>5
<1> DEFINE k == n - 1
<1>7. TwoTo[m + k] = TwoTo[m] * TwoTo[k] /\ n = k + 1 /\ k \in Nat
  BY <1>6
<1> HIDE DEF k
<1>8. TwoTo[m + n] = 2 * TwoTo[m + k] /\ TwoTo[n] = 2 * TwoTo[k]
  <2>1. m + n = (m + k) + 1 /\ m + k \in Nat
    BY <1>7
  <2> QED
    BY <1>7, <2>1, TwoToNext
<1>9. TwoTo[k] \in Nat
  BY <1>7, TwoToType
<1>10. TwoTo[m + n] = TwoTo[m] * TwoTo[n]
  BY <1>4, <1>7, <1>8, <1>9
<1> QED
  BY <1>3, <1>10

\* Division with remainder.
LEMMA Division ==
    ASSUME NEW a \in Nat, NEW d \in Nat \ {0}
    PROVE  a = d * (a \div d) + (a % d) /\ a % d \in 0 .. d - 1 /\ a \div d \in Nat
OBVIOUS

LEMMA Multiples ==
    ASSUME NEW d \in Nat \ {0}, NEW q \in Nat, NEW p \in Nat, q < p
    PROVE  d * q + d <= d * p
<1>1. PICK k \in Nat : p = q + 1 + k
  OBVIOUS
<1>2. d * p = d * q + d + d * k
  BY <1>1
<1>3. d * k \in Nat
  OBVIOUS
<1> QED
  BY <1>2, <1>3

\* Quotient and remainder are what they should be.
LEMMA DivMod ==
    ASSUME NEW d \in Nat \ {0}, NEW q \in Nat, NEW r \in 0 .. d - 1, NEW a, a = d * q + r
    PROVE  a \div d = q /\ a % d = r
<1>1. a \in Nat
  OBVIOUS
<1> DEFINE p == a \div d
           s == a % d
<1>2. a = d * p + s /\ s \in 0 .. d - 1 /\ p \in Nat
  BY <1>1, Division
<1> HIDE DEF p, s
<1> DEFINE x == d * p
           y == d * q
<1>3. x \in Nat /\ y \in Nat /\ x + s = y + r
  BY <1>2
<1>4. ~(q < p)
  <2>1. q < p => y + d <= x
    BY <1>2, Multiples
  <2> HIDE DEF x, y
  <2> QED
    BY <1>2, <1>3, <2>1
<1>5. ~(p < q)
  <2>1. p < q => x + d <= y
    BY <1>2, Multiples
  <2> HIDE DEF x, y
  <2> QED
    BY <1>2, <1>3, <2>1
<1>6. p = q
  BY <1>2, <1>4, <1>5
<1>7. s = r
  BY <1>2, <1>3, <1>6
<1> QED
  BY <1>6, <1>7 DEF p, s

\* To divide twice is to divide by the product.
LEMMA DivTwice ==
    ASSUME NEW a \in Nat, NEW x \in Nat \ {0}, NEW y \in Nat \ {0}
    PROVE  (a \div x) \div y = a \div (x * y)
<1> DEFINE q == a \div x
           r == a % x
           p == q \div y
           s == q % y
<1>1. a = x * q + r /\ r \in 0 .. x - 1 /\ q \in Nat
  BY Division
<1> HIDE DEF q, r
<1>2. q = y * p + s /\ s \in 0 .. y - 1 /\ p \in Nat
  BY <1>1, Division
<1> HIDE DEF p, s
<1>3. a = (x * y) * p + (x * s + r)
  BY <1>1, <1>2
<1>4. x * s + r \in 0 .. x * y - 1
  <2>1. x * s + x <= x * y
    BY <1>2, Multiples
  <2> DEFINE u == x * s
             v == x * y
  <2>2. u \in Nat /\ v \in Nat
    BY <1>2
  <2> HIDE DEF u, v
  <2> QED
    BY <1>1, <2>1, <2>2 DEF u, v
<1>5. x * y \in Nat \ {0}
  OBVIOUS
<1>6. a \div (x * y) = p
  BY <1>2, <1>3, <1>4, <1>5, DivMod
<1> QED
  BY <1>6 DEF p, q

-----------------------------------------------------------------------------
(* Loops over the bytes of an address.                                     *)

\* A loop that folds the first n values of b with a weight.
Loop(f, n, w, b) ==
    /\ f \in [0 .. n -> Nat]
    /\ \A k \in 0 .. n : f[k] = IF k = 0 THEN 0 ELSE f[k - 1] * w + b[k]

LEMMA LoopExists ==
    ASSUME NEW N \in Nat, NEW w \in Nat, NEW b, \A k \in 1 .. N : b[k] \in Nat
    PROVE  \E f : Loop(f, N, w, b)
<1> DEFINE T == {n \in Nat : n <= N /\ ~\E f : Loop(f, n, w, b)}
<1>1. SUFFICES ASSUME T # {} PROVE FALSE
  OBVIOUS
<1>2. PICK n \in T : \A m \in T : n <= m
  BY <1>1, Least
<1>3. CASE n = 0
  <2>1. Loop([k \in 0 .. n |-> 0], n, w, b)
    BY <1>3 DEF Loop
  <2> QED
    BY <2>1
<1>4. CASE n # 0
  <2>1. n - 1 \in Nat /\ n - 1 \notin T /\ n \in 1 .. N
    BY <1>2, <1>4
  <2>2. PICK g : Loop(g, n - 1, w, b)
    BY <2>1
  <2> DEFINE v == g[n - 1] * w + b[n]
  <2>3. g[n - 1] \in Nat /\ b[n] \in Nat
    BY <2>1, <2>2 DEF Loop
  <2>4. v \in Nat
    BY <2>3
  <2>5. Loop([k \in 0 .. n |-> IF k = n THEN v ELSE g[k]], n, w, b)
    <3> HIDE DEF v
    <3>1. \A k \in 0 .. n - 1 : g[k] \in Nat /\ g[k] = IF k = 0 THEN 0 ELSE g[k - 1] * w + b[k]
      BY <2>2 DEF Loop
    <3> DEFINE h == [k \in 0 .. n |-> IF k = n THEN v ELSE g[k]]
    <3>2. \A k \in 0 .. n : h[k] = IF k = n THEN v ELSE g[k]
      OBVIOUS
    <3>3. h \in [0 .. n -> Nat]
      BY <2>1, <2>4, <3>1
    <3>4. v = g[n - 1] * w + b[n]
      BY DEF v
    <3> HIDE DEF h
    <3>5. ASSUME NEW k \in 0 .. n PROVE h[k] = IF k = 0 THEN 0 ELSE h[k - 1] * w + b[k]
      <4>1. CASE k = n
        <5>1. h[k] = v /\ h[k - 1] = g[n - 1]
          BY <1>4, <2>1, <3>2, <4>1
        <5> QED
          BY <1>4, <3>4, <4>1, <5>1
      <4>2. CASE k # n /\ k # 0
        <5>1. h[k] = g[k] /\ h[k - 1] = g[k - 1] /\ k \in 0 .. n - 1
          BY <2>1, <3>2, <4>2
        <5> QED
          BY <3>1, <4>2, <5>1
      <4>3. CASE k # n /\ k = 0
        BY <2>1, <3>1, <3>2, <4>3
      <4> QED
        BY <4>1, <4>2, <4>3
    <3> QED
      BY <3>3, <3>5 DEF Loop, h
  <2> QED
    BY <2>5
<1> QED
  BY <1>3, <1>4

\* What AddrFromSlice computes.
LEMMA AddrLoop ==
    ASSUME NEW b, \A k \in Index : b[k] \in Nat
    PROVE  \E f : /\ AddrFromSlice(b) = f[NBytes]
                  /\ f[0] = 0
                  /\ \A n \in 1 .. NBytes : f[n] = f[n - 1] * Base + b[n]
<1> DEFINE read == CHOOSE f : f = [n \in 0 .. NBytes |-> IF n = 0 THEN 0 ELSE f[n - 1] * Base + b[n]]
<1>1. NBytes \in Nat /\ Base \in Nat
  BY BitsAssumption, TwoToType DEF Base
<1>2. PICK f : Loop(f, NBytes, Base, b)
  BY <1>1, LoopExists DEF Index
<1>3. f = [n \in 0 .. NBytes |-> IF n = 0 THEN 0 ELSE f[n - 1] * Base + b[n]]
  BY <1>1, <1>2 DEF Loop
<1>4. read = [n \in 0 .. NBytes |-> IF n = 0 THEN 0 ELSE read[n - 1] * Base + b[n]]
  BY <1>3
<1>5. AddrFromSlice(b) = read[NBytes]
  BY DEF AddrFromSlice
<1> HIDE DEF read
<1>6. \A n \in 0 .. NBytes : read[n] = IF n = 0 THEN 0 ELSE read[n - 1] * Base + b[n]
  BY <1>4
<1>7. read[0] = 0 /\ \A n \in 1 .. NBytes : read[n] = read[n - 1] * Base + b[n]
  BY <1>1, <1>6
<1> QED
  BY <1>5, <1>7

\* What commonPrefixLen computes.
LEMMA PrefixLoop ==
    ASSUME NEW a, NEW b, \A k \in Index : LeadingZeros(a[k], b[k]) \in Nat
    PROVE  \E f : /\ commonPrefixLen(a, b) = f[NBytes]
                  /\ f[0] = 0
                  /\ \A n \in 1 .. NBytes : f[n] = f[n - 1] + LeadingZeros(a[n], b[n])
<1> DEFINE c == [k \in Index |-> LeadingZeros(a[k], b[k])]
           len == CHOOSE f : f = [n \in 0 .. NBytes |->
                                     IF n = 0 THEN 0 ELSE f[n - 1] + LeadingZeros(a[n], b[n])]
<1>1. NBytes \in Nat
  BY BitsAssumption
<1>2. \A k \in 1 .. NBytes : c[k] \in Nat /\ c[k] = LeadingZeros(a[k], b[k])
  BY DEF Index
<1>3. PICK f : Loop(f, NBytes, 1, c)
  <2> HIDE DEF c
  <2> QED
    BY <1>1, <1>2, LoopExists
<1>4. f = [n \in 0 .. NBytes |-> IF n = 0 THEN 0 ELSE f[n - 1] + LeadingZeros(a[n], b[n])]
  <2>1. ASSUME NEW n \in 0 .. NBytes
        PROVE  f[n] = IF n = 0 THEN 0 ELSE f[n - 1] + LeadingZeros(a[n], b[n])
    <3>1. f[n] = IF n = 0 THEN 0 ELSE f[n - 1] * 1 + c[n]
      BY <1>3 DEF Loop
    <3>2. n # 0 => f[n - 1] \in Nat /\ n \in 1 .. NBytes
      BY <1>1, <1>3 DEF Loop
    <3> HIDE DEF c
    <3> QED
      BY <1>2, <3>1, <3>2
  <2>2. f = [n \in 0 .. NBytes |-> f[n]]
    BY <1>3 DEF Loop
  <2> QED
    BY <2>1, <2>2
<1>5. len = [n \in 0 .. NBytes |-> IF n = 0 THEN 0 ELSE len[n - 1] + LeadingZeros(a[n], b[n])]
  BY <1>4
<1>6. commonPrefixLen(a, b) = len[NBytes]
  BY DEF commonPrefixLen
<1> HIDE DEF len
<1>7. \A n \in 0 .. NBytes : len[n] = IF n = 0 THEN 0 ELSE len[n - 1] + LeadingZeros(a[n], b[n])
  BY <1>5
<1>8. len[0] = 0 /\ \A n \in 1 .. NBytes : len[n] = len[n - 1] + LeadingZeros(a[n], b[n])
  BY <1>1, <1>7
<1> QED
  BY <1>6, <1>8

LEMMA BaseType == /\ NBytes \in Nat \ {0} /\ ByteBits \in Nat \ {0} /\ Bits \in Nat
                  /\ Base \in Nat \ {0} /\ Base = TwoTo[ByteBits]
<1>1. NBytes \in Nat \ {0} /\ ByteBits \in Nat \ {0}
  BY BitsAssumption
<1> QED
  BY <1>1, TwoToType DEF Bits, Base

\* q and r are the quotient and the remainder of a by d.
Splits(a, d, q, r) == d \in Nat \ {0} /\ q \in Nat /\ r \in 0 .. d - 1 /\ a = d * q + r

LEMMA Split == ASSUME NEW a, NEW d, NEW q, NEW r, Splits(a, d, q, r)
               PROVE  a \div d = q /\ a % d = r
BY DivMod DEF Splits

\* Where the bytes begin.
LEMMA Shifts ==
    /\ Shift(0) = Bits /\ Shift(NBytes) = 0
    /\ \A i \in 0 .. NBytes : Shift(i) \in Nat /\ Shift(i) = Bits - ByteBits * i
    /\ \A i \in Index : Shift(i - 1) = Shift(i) + ByteBits
<1>1. NBytes \in Nat /\ ByteBits \in Nat
  BY BaseType
<1>2. ASSUME NEW i \in 0 .. NBytes PROVE Shift(i) \in Nat /\ Shift(i) = Bits - ByteBits * i
  <2>1. PICK k \in Nat : k = NBytes - i
    BY <1>1
  <2>2. ByteBits * k \in Nat
    BY <1>1
  <2>3. ByteBits * (NBytes - i) = NBytes * ByteBits - ByteBits * i
    BY <1>1
  <2> QED
    BY <2>1, <2>2, <2>3 DEF Shift, Bits
<1>3. ASSUME NEW i \in Index PROVE Shift(i - 1) = Shift(i) + ByteBits
  <2>1. ByteBits * (NBytes - (i - 1)) = ByteBits * (NBytes - i) + ByteBits
    BY <1>1 DEF Index
  <2> QED
    BY <2>1 DEF Shift
<1>4. ByteBits * (NBytes - 0) = NBytes * ByteBits /\ ByteBits * (NBytes - NBytes) = 0
  BY <1>1
<1> QED
  BY <1>2, <1>3, <1>4 DEF Shift, Bits

\* A byte of an address is a byte.
LEMMA SliceBytes ==
    ASSUME NEW a \in Nat, NEW i \in Index
    PROVE  /\ AsSlice(a)[i] = (a \div TwoTo[Shift(i)]) % Base
           /\ AsSlice(a)[i] \in Byte /\ AsSlice(a)[i] \in Nat
<1>1. Shift(i) \in Nat
  BY Shifts DEF Index
<1>2. TwoTo[Shift(i)] \in Nat \ {0}
  BY <1>1, TwoToType
<1>3. a \div TwoTo[Shift(i)] \in Nat
  BY <1>2, Division
<1>4. (a \div TwoTo[Shift(i)]) % Base \in 0 .. Base - 1
  BY <1>3, BaseType, Division
<1> QED
  BY <1>4, BaseType DEF AsSlice, Byte

\* An address is read back from its bytes.
LEMMA BytesBack ==
    ASSUME NEW a \in 0 .. TwoTo[Bits] - 1
    PROVE  AddrFromSlice(AsSlice(a)) = a
<1>0. a \in Nat /\ NBytes \in Nat /\ TwoTo[Bits] \in Nat \ {0}
  BY BaseType, TwoToType
<1>1. \A k \in Index : AsSlice(a)[k] \in Nat
  BY <1>0, SliceBytes
<1>2. PICK f : /\ AddrFromSlice(AsSlice(a)) = f[NBytes] /\ f[0] = 0
               /\ \A n \in 1 .. NBytes : f[n] = f[n - 1] * Base + AsSlice(a)[n]
  BY <1>1, AddrLoop
<1> DEFINE T == {n \in Nat : n <= NBytes /\ f[n] # a \div TwoTo[Shift(n)]}
<1>3. T = {}
  <2>1. SUFFICES ASSUME T # {} PROVE FALSE
    OBVIOUS
  <2>2. PICK n \in T : \A m \in T : n <= m
    BY <2>1, Least
  <2>3. n # 0
    <3>1. a = TwoTo[Bits] * 0 + a
      BY <1>0
    <3>2. a \div TwoTo[Bits] = 0
      BY <1>0, <3>1, DivMod
    <3>3. f[0] = a \div TwoTo[Shift(0)]
      BY <1>2, <3>2, Shifts
    <3> QED
      BY <2>2, <3>3
  <2>4. n - 1 \in Nat /\ n - 1 \notin T /\ n - 1 <= NBytes /\ n \in Index /\ n \in 1 .. NBytes
    BY <1>0, <2>2, <2>3 DEF Index
  <2>5. f[n - 1] = a \div TwoTo[Shift(n - 1)]
    BY <2>4
  <2> DEFINE e == TwoTo[Shift(n)]
             x == a \div e
  <2>6. Shift(n) \in Nat /\ e \in Nat \ {0}
    BY <1>0, <2>4, Shifts, TwoToType
  <2>7. TwoTo[Shift(n - 1)] = e * Base
    BY <2>4, <2>6, BaseType, Shifts, TwoToSum
  <2>8. f[n] = f[n - 1] * Base + (x % Base)
    BY <1>0, <1>2, <2>4, SliceBytes
  <2> HIDE DEF e
  <2>9. f[n - 1] = x \div Base
    BY <1>0, <2>5, <2>6, <2>7, BaseType, DivTwice
  <2>10. x \in Nat
    BY <1>0, <2>6, Division
  <2> HIDE DEF x
  <2>11. x = Base * (x \div Base) + (x % Base) /\ x \div Base \in Nat
    BY <2>10, BaseType, Division
  <2>12. f[n] = x
    BY <2>8, <2>9, <2>11, BaseType
  <2> QED
    BY <2>2, <2>12 DEF x, e
<1>4. f[NBytes] = a \div TwoTo[Shift(NBytes)]
  BY <1>0, <1>3
<1>5. a \div 1 = a
  BY <1>0
<1> QED
  BY <1>2, <1>4, <1>5, Shifts, TwoToNext

\* A byte of the first and of the last address of a network with h host bits: alike
\* above the host bits, zeros and ones within them.
LEMMA FirstAndLast ==
    ASSUME NEW h \in 1 .. Bits, NEW lo \in Networks(h), NEW i \in Index,
           NEW x, x = AsSlice(lo)[i], NEW y, y = AsSlice(lo + TwoTo[h] - 1)[i],
           NEW g, g = HostBitsOf(i, h)
    PROVE  /\ x \in Byte /\ y \in Byte /\ g \in Int
           /\ g <= 0 => y = x
           /\ 0 < g /\ g < ByteBits =>
                 x % TwoTo[g] = 0 /\ \E s \in Nat : x = TwoTo[g] * s /\ y = x + TwoTo[g] - 1
           /\ g >= ByteBits => x = 0 /\ y = Base - 1
<1> DEFINE H == TwoTo[h]
           E == TwoTo[Shift(i)]
           last == lo + H - 1
           q == lo \div H
<1>1. h \in Nat /\ H \in Nat \ {0} /\ lo \in Nat /\ lo % H = 0
  BY BaseType, TwoToType DEF Networks
<1>2. Shift(i) \in Nat /\ E \in Nat \ {0} /\ g = h - Shift(i) /\ g \in Int
  BY <1>1, Shifts, TwoToType DEF Index, HostBitsOf
<1>3. lo = H * q /\ q \in Nat
  <2> HIDE DEF H
  <2>1. lo = H * q + (lo % H) /\ q \in Nat
    BY <1>1, Division
  <2> HIDE DEF q
  <2> QED
    BY <1>1, <2>1
<1>4. last \in Nat
  BY <1>1
<1>5. x = (lo \div E) % Base /\ y = (last \div E) % Base /\ x \in Byte /\ y \in Byte
  BY <1>1, <1>4, SliceBytes
<1> HIDE DEF H, E, q
<1>6. ASSUME g <= 0 PROVE y = x
  <2> DEFINE K == TwoTo[Shift(i) - h]
  <2>1. Shift(i) - h \in Nat /\ Shift(i) = h + (Shift(i) - h)
    BY <1>1, <1>2, <1>6
  <2>2. E = H * K /\ K \in Nat \ {0}
    BY <1>1, <2>1, TwoToSum, TwoToType DEF E, H
  <2>3. last = H * q + (H - 1) /\ H - 1 \in 0 .. H - 1
    BY <1>1, <1>3
  <2>4. last \div H = q
    <3>1. Splits(last, H, q, H - 1)
      BY <1>1, <1>3, <2>3 DEF Splits
    <3> HIDE DEF last
    <3> QED
      BY <3>1, Split
  <2> HIDE DEF K, last
  <2>5. last \div E = q \div K
    BY <1>1, <1>4, <2>2, <2>4, DivTwice
  <2>6. lo \div E = q \div K
    BY <1>1, <2>2, DivTwice DEF q
  <2> QED
    BY <1>5, <2>5, <2>6
<1>7. ASSUME 0 < g PROVE /\ TwoTo[g] \in Nat \ {0}
                         /\ lo \div E = TwoTo[g] * q
                         /\ last \div E = TwoTo[g] * q + (TwoTo[g] - 1)
  <2> DEFINE G == TwoTo[g]
             m == G * q
             n == m + (G - 1)
  <2>1. g \in Nat /\ h = Shift(i) + g
    BY <1>1, <1>2, <1>7
  <2>2. H = E * G /\ G \in Nat \ {0}
    BY <1>2, <2>1, TwoToSum, TwoToType DEF E, H
  <2> HIDE DEF G
  <2>3. lo = E * m /\ m \in Nat
    BY <1>2, <1>3, <2>2
  <2> HIDE DEF m
  <2>4. lo = E * m + 0 /\ 0 \in 0 .. E - 1
    BY <1>1, <1>2, <2>3
  <2>5. lo \div E = m
    <3>1. Splits(lo, E, m, 0)
      BY <1>2, <2>3, <2>4 DEF Splits
    <3> QED
      BY <3>1, Split
  <2>6. n \in Nat /\ E - 1 \in 0 .. E - 1
    BY <1>2, <2>2, <2>3
  <2>7. E * n = E * m + E * G - E
    BY <1>2, <2>2, <2>3
  <2>8. last = E * m + E * G - 1
    BY <2>2, <2>3
  <2> HIDE DEF n
  <2>9. last = E * n + (E - 1)
    BY <1>2, <2>2, <2>3, <2>6, <2>7, <2>8
  <2>10. last \div E = n
    <3> HIDE DEF last
    <3>1. Splits(last, E, n, E - 1)
      BY <1>2, <2>6, <2>9 DEF Splits
    <3> QED
      BY <3>1, Split
  <2> QED
    BY <2>2, <2>5, <2>10 DEF G, m, n
<1>8. ASSUME 0 < g, g < ByteBits
      PROVE  x % TwoTo[g] = 0 /\ \E s \in Nat : x = TwoTo[g] * s /\ y = x + TwoTo[g] - 1
  <2> DEFINE G == TwoTo[g]
             C == TwoTo[ByteBits - g]
             u == q \div C
             s == q % C
  <2>1. g \in Nat /\ ByteBits - g \in Nat /\ ByteBits = g + (ByteBits - g)
    BY <1>2, <1>8, BaseType
  <2>2. Base = G * C /\ C \in Nat \ {0} /\ G \in Nat \ {0}
    BY <2>1, BaseType, TwoToSum, TwoToType
  <2>3. q = C * u + s /\ u \in Nat /\ s \in 0 .. C - 1
    BY <1>3, <2>2, Division
  <2>4. lo \div E = G * q /\ last \div E = G * q + (G - 1)
    BY <1>7, <1>8
  <2> HIDE DEF G, C, u, s
  <2>5. G * q = Base * u + G * s
    BY <2>2, <2>3
  <2>6. G * s + G <= Base
    BY <2>2, <2>3, Multiples
  <2>7. G * s \in Nat
    BY <2>2, <2>3
  <2> DEFINE z == G * s
             v == z + (G - 1)
             m == G * q
             n == m + (G - 1)
  <2>8. z \in 0 .. Base - 1 /\ v \in 0 .. Base - 1
    <3> HIDE DEF z
    <3> QED
      BY <2>2, <2>6, <2>7, BaseType DEF z
  <2>9. m = Base * u + z
    BY <2>5
  <2> HIDE DEF z, m
  <2>10. n = Base * u + v
    <3>1. Base * u \in Nat
      BY <2>3, BaseType
    <3> QED
      BY <2>2, <2>8, <2>9, <3>1
  <2> HIDE DEF v, n
  <2>11. m % Base = z
    <3>1. Splits(m, Base, u, z)
      BY <2>3, <2>8, <2>9, BaseType DEF Splits
    <3> QED
      BY <3>1, Split
  <2>12. n % Base = v
    <3>1. Splits(n, Base, u, v)
      BY <2>3, <2>8, <2>10, BaseType DEF Splits
    <3> QED
      BY <3>1, Split
  <2>13. x = z /\ y = v
    BY <1>5, <2>4, <2>11, <2>12 DEF m, n
  <2>14. s \in Nat /\ z = G * s + 0 /\ 0 \in 0 .. G - 1
    BY <2>2, <2>3, <2>7 DEF z
  <2>15. z % G = 0
    <3>1. Splits(z, G, s, 0)
      BY <2>2, <2>14 DEF Splits
    <3> QED
      BY <3>1, Split
  <2>16. x = G * s /\ y = x + G - 1
    BY <2>2, <2>7, <2>13 DEF z, v
  <2> QED
    BY <2>13, <2>14, <2>15, <2>16 DEF G
<1>9. ASSUME g >= ByteBits PROVE x = 0 /\ y = Base - 1
  <2> DEFINE G == TwoTo[g]
             D == TwoTo[g - ByteBits]
  <2>0. 0 < g
    BY <1>2, <1>9, BaseType
  <2>1. g \in Nat /\ g - ByteBits \in Nat /\ g = ByteBits + (g - ByteBits)
    BY <1>2, <1>9, BaseType
  <2>2. G = Base * D /\ D \in Nat \ {0}
    BY <2>1, BaseType, TwoToSum, TwoToType
  <2>3. lo \div E = G * q /\ last \div E = G * q + (G - 1)
    BY <1>7, <2>0
  <2> HIDE DEF G, D
  <2> DEFINE w == D * q
             t == w + (D - 1)
             m == G * q
             n == m + (G - 1)
  <2>4. m = Base * w /\ w \in Nat
    BY <1>3, <2>2, BaseType
  <2> HIDE DEF w, m
  <2>5. t \in Nat /\ Base - 1 \in 0 .. Base - 1 /\ 0 \in 0 .. Base - 1
    BY <2>2, <2>4, BaseType
  <2>6. m = Base * w + 0
    BY <2>4, BaseType
  <2>7. n = Base * t + (Base - 1)
    <3>1. Base * t = Base * w + Base * D - Base
      BY <2>2, <2>4, BaseType
    <3> DEFINE c == Base * w
               e == Base * D
    <3>2. c \in Nat /\ e \in Nat /\ m = c /\ G = e /\ Base * t = c + e - Base
      BY <2>2, <2>4, <3>1, BaseType
    <3> HIDE DEF c, e, t
    <3> QED
      BY <3>2, BaseType
  <2> HIDE DEF t, n
  <2>8. m % Base = 0
    <3>1. Splits(m, Base, w, 0)
      BY <2>4, <2>5, <2>6, BaseType DEF Splits
    <3> QED
      BY <3>1, Split
  <2>9. n % Base = Base - 1
    <3>1. Splits(n, Base, t, Base - 1)
      BY <2>5, <2>7, BaseType DEF Splits
    <3> QED
      BY <3>1, Split
  <2> QED
    BY <1>5, <2>3, <2>8, <2>9 DEF m, n
<1> QED
  BY <1>2, <1>5, <1>6, <1>8, <1>9

\* A network does not reach past the last address.
LEMMA NetworkFits ==
    ASSUME NEW h \in 0 .. Bits, NEW lo \in Networks(h)
    PROVE  lo \in Nat /\ lo + TwoTo[h] - 1 \in 0 .. TwoTo[Bits] - 1
<1> DEFINE H == TwoTo[h]
           P == TwoTo[Bits - h]
           q == lo \div H
<1>1. h \in Nat /\ Bits - h \in Nat /\ Bits = h + (Bits - h)
  BY BaseType
<1>2. TwoTo[Bits] = H * P /\ H \in Nat \ {0} /\ P \in Nat \ {0}
  BY <1>1, TwoToSum, TwoToType
<1>3. lo \in Nat /\ lo < TwoTo[Bits] /\ lo % H = 0
  BY <1>2, BaseType DEF Networks
<1> HIDE DEF H, P
<1>4. lo = H * q + (lo % H) /\ q \in Nat
  BY <1>2, <1>3, Division
<1> HIDE DEF q
<1>5. q < P
  <2>1. SUFFICES ASSUME P <= q PROVE FALSE
    BY <1>2, <1>4
  <2>2. PICK k \in Nat : q = P + k
    BY <1>2, <1>4, <2>1
  <2>3. H * q = H * P + H * k /\ H * k \in Nat
    BY <1>2, <2>2
  <2> QED
    BY <1>2, <1>3, <1>4, <2>3
<1>6. H * q + H <= H * P
  BY <1>2, <1>4, <1>5, Multiples
<1>7. lo + H <= TwoTo[Bits]
  BY <1>2, <1>3, <1>4, <1>6
<1>8. TwoTo[Bits] \in Nat
  BY BaseType, TwoToType
<1> QED
  BY <1>2, <1>3, <1>7, <1>8 DEF H

\* mask sets exactly the host bits.
LEMMA MaskIs ==
    ASSUME NEW h \in 1 .. Bits, NEW lo \in Networks(h)
    PROVE  mask(AsSlice(lo), h) = AsSlice(lo + TwoTo[h] - 1)
<1> DEFINE b == AsSlice(lo)
           c == AsSlice(lo + TwoTo[h] - 1)
<1>1. ASSUME NEW i \in Index PROVE mask(b, h)[i] = c[i]
  <2> DEFINE g == HostBitsOf(i, h)
  <2>1. mask(b, h)[i] = IF g >= ByteBits THEN Base - 1
                        ELSE IF g > 0 THEN (b[i] - (b[i] % TwoTo[g])) + TwoTo[g] - 1
                        ELSE b[i]
    BY DEF mask
  <2> HIDE DEF b, c, g
  <2>2. /\ b[i] \in Byte /\ c[i] \in Byte /\ g \in Int
        /\ g <= 0 => c[i] = b[i]
        /\ 0 < g /\ g < ByteBits => b[i] % TwoTo[g] = 0 /\ c[i] = b[i] + TwoTo[g] - 1
        /\ g >= ByteBits => c[i] = Base - 1
    BY FirstAndLast DEF b, c, g
  <2>3. b[i] \in Nat /\ ByteBits \in Nat \ {0}
    BY <2>2, BaseType DEF Byte
  <2>4. 0 < g /\ g < ByteBits => TwoTo[g] \in Nat
    BY <2>2, TwoToType
  <2> QED
    BY <2>1, <2>2, <2>3, <2>4
<1>2. mask(b, h) = [i \in Index |-> mask(b, h)[i]] /\ c = [i \in Index |-> c[i]]
  BY DEF mask, AsSlice
<1> HIDE DEF b, c
<1>3. mask(b, h) = c
  BY <1>1, <1>2
<1> QED
  BY <1>3 DEF b, c

LEMMA LastIs ==
    ASSUME NEW h \in 1 .. Bits, NEW lo \in Networks(h)
    PROVE  LastAddr(lo, h) = lo + TwoTo[h] - 1
<1>1. lo + TwoTo[h] - 1 \in 0 .. TwoTo[Bits] - 1
  BY BaseType, NetworkFits
<1> QED
  BY <1>1, MaskIs, BytesBack DEF LastAddr

\* Bytes that agree in their first n bits agree in fewer.
LEMMA AgreeBelow ==
    ASSUME NEW x \in Nat, NEW y \in Nat, NEW n \in 0 .. ByteBits, NEW k \in 0 .. n,
           x \div TwoTo[ByteBits - n] = y \div TwoTo[ByteBits - n]
    PROVE  x \div TwoTo[ByteBits - k] = y \div TwoTo[ByteBits - k]
<1>1. /\ ByteBits - n \in Nat /\ n - k \in Nat
      /\ ByteBits - k = (ByteBits - n) + (n - k)
  BY BaseType
<1> DEFINE d == TwoTo[ByteBits - n]
           e == TwoTo[n - k]
<1>2. TwoTo[ByteBits - k] = d * e /\ d \in Nat \ {0} /\ e \in Nat \ {0}
  BY <1>1, TwoToSum, TwoToType
<1>3. x \div d = y \div d
  OBVIOUS
<1> HIDE DEF d, e
<1>4. (x \div d) \div e = x \div (d * e) /\ (y \div d) \div e = y \div (d * e)
  BY <1>2, DivTwice
<1> QED
  BY <1>2, <1>3, <1>4

\* There is one such number of bits.
LEMMA LeadingZerosIs ==
    ASSUME NEW x \in Nat, NEW y \in Nat, NEW n \in 0 .. ByteBits,
           x \div TwoTo[ByteBits - n] = y \div TwoTo[ByteBits - n],
           n < ByteBits => x \div TwoTo[ByteBits - n - 1] # y \div TwoTo[ByteBits - n - 1]
    PROVE  LeadingZeros(x, y) = n
<1> DEFINE L(m) == /\ x \div TwoTo[ByteBits - m] = y \div TwoTo[ByteBits - m]
                   /\ m < ByteBits => x \div TwoTo[ByteBits - m - 1] # y \div TwoTo[ByteBits - m - 1]
<1>1. ASSUME NEW m \in 0 .. ByteBits, NEW k \in 0 .. ByteBits, L(m), L(k) PROVE ~(m < k)
  <2>1. SUFFICES ASSUME m < k PROVE FALSE
    OBVIOUS
  <2>2. m + 1 \in 0 .. k /\ m < ByteBits /\ ByteBits - (m + 1) = ByteBits - m - 1
    BY <2>1, BaseType
  <2>3. x \div TwoTo[ByteBits - (m + 1)] = y \div TwoTo[ByteBits - (m + 1)]
    BY <1>1, <2>2, AgreeBelow
  <2> QED
    BY <1>1, <2>2, <2>3
<1>2. L(n)
  OBVIOUS
<1>3. LeadingZeros(x, y) = CHOOSE m \in 0 .. ByteBits : L(m)
  BY DEF LeadingZeros
<1> HIDE DEF L
<1>4. \A m \in 0 .. ByteBits : L(m) => m = n
  BY <1>1, <1>2, BaseType
<1> QED
  BY <1>2, <1>3, <1>4

\* How many bits the bytes of the first and of the last address share.
LEMMA LeadingZerosOfNetwork ==
    ASSUME NEW h \in 1 .. Bits, NEW lo \in Networks(h), NEW i \in Index,
           NEW z, z = LeadingZeros(AsSlice(lo)[i], AsSlice(lo + TwoTo[h] - 1)[i]),
           NEW g, g = HostBitsOf(i, h)
    PROVE  /\ g \in Int
           /\ g <= 0 => z = ByteBits
           /\ 0 < g /\ g < ByteBits => z = ByteBits - g
           /\ g >= ByteBits => z = 0
<1> DEFINE x == AsSlice(lo)[i]
           y == AsSlice(lo + TwoTo[h] - 1)[i]
<1>1. /\ x \in Byte /\ y \in Byte /\ g \in Int
      /\ g <= 0 => y = x
      /\ 0 < g /\ g < ByteBits => \E s \in Nat : x = TwoTo[g] * s /\ y = x + TwoTo[g] - 1
      /\ g >= ByteBits => x = 0 /\ y = Base - 1
  BY FirstAndLast
<1>2. z = LeadingZeros(x, y)
  OBVIOUS
<1> HIDE DEF x, y
<1>3. x \in Nat /\ y \in Nat /\ ByteBits \in Nat \ {0} /\ Base \in Nat \ {0}
  BY <1>1, BaseType DEF Byte
<1>4. ASSUME g <= 0 PROVE z = ByteBits
  <2>1. ByteBits \in 0 .. ByteBits
    BY <1>3
  <2> QED
    BY <1>1, <1>2, <1>3, <1>4, <2>1, LeadingZerosIs
<1>5. ASSUME 0 < g, g < ByteBits PROVE z = ByteBits - g
  <2>1. PICK s \in Nat : x = TwoTo[g] * s /\ y = x + TwoTo[g] - 1
    BY <1>1, <1>5
  <2>2. g - 1 \in Nat /\ g = (g - 1) + 1 /\ g \in Nat
    BY <1>1, <1>5
  <2> DEFINE G == TwoTo[g]
             D == TwoTo[g - 1]
  <2>3. G = 2 * D /\ D \in Nat \ {0} /\ G \in Nat \ {0}
    BY <2>2, TwoToNext, TwoToType
  <2>4. x = G * s /\ y = G * s + (G - 1)
    BY <2>1, <2>3
  <2> HIDE DEF G, D
  <2>5. Splits(x, G, s, 0) /\ Splits(y, G, s, G - 1)
    BY <1>3, <2>3, <2>4 DEF Splits
  <2> DEFINE t == 2 * s
  <2>6. x = D * t /\ y = D * (t + 1) + (D - 1) /\ t \in Nat
    BY <2>3, <2>4
  <2>7. t + 1 \in Nat /\ t + 1 # t
    OBVIOUS
  <2> HIDE DEF t
  <2>8. Splits(x, D, t, 0) /\ Splits(y, D, t + 1, D - 1)
    BY <1>3, <2>3, <2>6, <2>7 DEF Splits
  <2>9. x \div G = y \div G /\ x \div D # y \div D
    BY <2>5, <2>7, <2>8, Split
  <2>10. /\ ByteBits - g \in 0 .. ByteBits
         /\ ByteBits - (ByteBits - g) = g /\ ByteBits - (ByteBits - g) - 1 = g - 1
    BY <1>1, <1>3, <1>5
  <2> QED
    BY <1>2, <1>3, <2>9, <2>10, LeadingZerosIs DEF G, D
<1>6. ASSUME g >= ByteBits PROVE z = 0
  <2>1. x = 0 /\ y = Base - 1
    BY <1>1, <1>6
  <2> DEFINE D == TwoTo[ByteBits - 1]
  <2>2. ByteBits - 1 \in Nat /\ ByteBits = (ByteBits - 1) + 1
    BY <1>3
  <2>3. Base = 2 * D /\ D \in Nat \ {0}
    BY <2>2, BaseType, TwoToNext, TwoToType
  <2> HIDE DEF D
  <2>4. /\ Splits(x, Base, 0, 0) /\ Splits(y, Base, 0, Base - 1)
        /\ Splits(x, D, 0, 0) /\ Splits(y, D, 1, D - 1)
    BY <1>3, <2>1, <2>3 DEF Splits
  <2>5. x \div Base = y \div Base /\ x \div D # y \div D
    BY <2>4, Split
  <2>6. 0 \in 0 .. ByteBits /\ ByteBits - 0 = ByteBits /\ ByteBits - 0 - 1 = ByteBits - 1
    BY <1>3
  <2> QED
    BY <1>2, <1>3, <2>5, <2>6, BaseType, LeadingZerosIs DEF D
<1> QED
  BY <1>1, <1>4, <1>5, <1>6

\* The first and the last address of a network share the bits that are not host bits.
LEMMA CommonPrefixOfNetwork ==
    ASSUME NEW h \in 1 .. Bits, NEW lo \in Networks(h)
    PROVE  commonPrefixLen(AsSlice(lo), AsSlice(lo + TwoTo[h] - 1)) = Bits - h
<1> DEFINE a == AsSlice(lo)
           b == AsSlice(lo + TwoTo[h] - 1)
           z(i) == LeadingZeros(a[i], b[i])
           g(i) == HostBitsOf(i, h)
           F(n) == IF h - Shift(n) <= 0 THEN ByteBits * n ELSE Bits - h
<1>1. NBytes \in Nat \ {0} /\ ByteBits \in Nat \ {0} /\ Bits \in Nat /\ h \in Nat \ {0}
  BY BaseType
<1>2. \A i \in Index : /\ g(i) \in Int
                       /\ g(i) <= 0 => z(i) = ByteBits
                       /\ 0 < g(i) /\ g(i) < ByteBits => z(i) = ByteBits - g(i)
                       /\ g(i) >= ByteBits => z(i) = 0
  BY LeadingZerosOfNetwork
<1>3. \A i \in Index : z(i) \in Nat
  <2> HIDE DEF z, g
  <2> QED
    BY <1>1, <1>2
<1>4. PICK f : /\ commonPrefixLen(a, b) = f[NBytes] /\ f[0] = 0
               /\ \A n \in 1 .. NBytes : f[n] = f[n - 1] + z(n)
  <2> HIDE DEF a, b
  <2> QED
    BY <1>3, PrefixLoop
<1> HIDE DEF z
<1> DEFINE T == {n \in Nat : n <= NBytes /\ f[n] # F(n)}
<1>5. T = {}
  <2>1. SUFFICES ASSUME T # {} PROVE FALSE
    OBVIOUS
  <2>2. PICK n \in T : \A m \in T : n <= m
    BY <2>1, Least
  <2>3. n # 0
    <3>1. ByteBits * 0 = 0 /\ h - Shift(0) <= 0
      BY <1>1, Shifts
    <3>2. f[0] = F(0)
      BY <1>4, <3>1
    <3> QED
      BY <2>2, <3>2
  <2>4. n - 1 \in Nat /\ n - 1 \notin T /\ n - 1 <= NBytes /\ n \in Index /\ n \in 1 .. NBytes
    BY <1>1, <2>2, <2>3 DEF Index
  <2>5. f[n - 1] = F(n - 1)
    BY <2>4
  <2>6. f[n] = f[n - 1] + z(n)
    BY <1>4, <2>4
  <2>7. g(n) = h - Shift(n)
    BY DEF HostBitsOf
  <2>8. Shift(n - 1) = Shift(n) + ByteBits /\ Shift(n) \in Nat
    BY <1>1, <2>4, Shifts
  <2> DEFINE c == ByteBits * n
             d == ByteBits * (n - 1)
  <2>9. Shift(n) = Bits - c /\ c = d + ByteBits /\ c \in Nat /\ d \in Nat
    BY <1>1, <2>4, Shifts
  <2>10. F(n) = (IF h - Shift(n) <= 0 THEN c ELSE Bits - h)
         /\ F(n - 1) = (IF h - Shift(n - 1) <= 0 THEN d ELSE Bits - h)
    OBVIOUS
  <2>11. /\ h - Shift(n) <= 0 => z(n) = ByteBits
         /\ 0 < h - Shift(n) /\ h - Shift(n) < ByteBits => z(n) = ByteBits - (h - Shift(n))
         /\ h - Shift(n) >= ByteBits => z(n) = 0
    <3> HIDE DEF c, d
    <3> QED
      BY <1>2, <2>4, <2>7
  <2> HIDE DEF c, d, F, g
  <2>12. f[n] = F(n)
    BY <1>1, <2>5, <2>6, <2>8, <2>9, <2>10, <2>11
  <2> QED
    BY <2>2, <2>12
<1>6. f[NBytes] = F(NBytes)
  BY <1>1, <1>5
<1>7. F(NBytes) = Bits - h
  <2>1. ~(h - Shift(NBytes) <= 0)
    BY <1>1, Shifts
  <2> QED
    BY <2>1
<1> QED
  BY <1>4, <1>6, <1>7

THEOREM BytesCorrect == NetworksReadBack
<1>1. SUFFICES ASSUME NEW h \in 1 .. Bits, NEW lo \in Networks(h)
               PROVE  /\ LastAddr(lo, h) = lo + TwoTo[h] - 1
                      /\ reconstructNftIPRange(lo, LastAddr(lo, h)).size
                           = IF h = 1 THEN 1 ELSE TwoTo[h]
  BY DEF NetworksReadBack
<1>2. LastAddr(lo, h) = lo + TwoTo[h] - 1 /\ lo \in Nat /\ h \in Nat \ {0}
  BY BaseType, LastIs, NetworkFits
<1> DEFINE H == TwoTo[h]
           c == commonPrefixLen(AsSlice(lo), AsSlice(lo + H - 1))
<1>3. c = Bits - h /\ Bits - c = h
  BY BaseType, CommonPrefixOfNetwork
<1>4. H = 2 <=> h = 1
  <2>1. CASE h = 1
    <3>1. TwoTo[0 + 1] = 2 * TwoTo[0] /\ TwoTo[0] = 1
      BY TwoToNext
    <3> QED
      BY <2>1, <3>1
  <2>2. CASE h # 1
    <3>1. h - 2 \in Nat /\ h - 1 \in Nat /\ h = (h - 1) + 1 /\ h - 1 = (h - 2) + 1
      BY <1>2, <2>2
    <3>2. TwoTo[h] = 2 * TwoTo[h - 1] /\ TwoTo[h - 1] = 2 * TwoTo[h - 2]
      BY <3>1, TwoToNext
    <3>3. TwoTo[h - 2] \in Nat \ {0}
      BY <3>1, TwoToType
    <3> QED
      BY <2>2, <3>2, <3>3
  <2> QED
    BY <2>1, <2>2
<1>5. H \in Nat \ {0}
  BY <1>2, TwoToType
<1>6. reconstructNftIPRange(lo, lo + H - 1).size =
        IF lo + 1 = lo + H - 1 THEN 1 ELSE TwoTo[Bits - c]
  BY DEF reconstructNftIPRange
<1> HIDE DEF c
<1>7. reconstructNftIPRange(lo, lo + H - 1).size = IF h = 1 THEN 1 ELSE H
  <2>1. TwoTo[Bits - c] = H
    BY <1>3
  <2> HIDE DEF H
  <2>2. (lo + 1 = lo + H - 1) <=> h = 1
    BY <1>2, <1>4, <1>5
  <2> QED
    BY <1>6, <2>1, <2>2
<1> QED
  BY <1>2, <1>7

-----------------------------------------------------------------------------
(* Networks.                                                               *)

\* Of two networks the one with fewer host bits is inside the other or apart from it.
LEMMA SmallerNests ==
    ASSUME NEW h \in 0 .. Bits, NEW k \in h .. Bits, NEW p \in Networks(h), NEW q \in Networks(k)
    PROVE  \/ p + TwoTo[h] <= q
           \/ q + TwoTo[k] <= p
           \/ q <= p /\ p + TwoTo[h] <= q + TwoTo[k]
<1> DEFINE A == TwoTo[h]
           C == TwoTo[k - h]
           x == p \div A
           z == q \div (A * C)
<1>1. h \in Nat /\ k - h \in Nat /\ k = h + (k - h)
  BY BaseType
<1>2. TwoTo[k] = A * C /\ A \in Nat \ {0} /\ C \in Nat \ {0} /\ A * C \in Nat \ {0}
  BY <1>1, TwoToSum, TwoToType
<1>3. /\ p \in Nat /\ p % A = 0
      /\ q \in Nat /\ q % (A * C) = 0
  BY <1>2, BaseType, TwoToType DEF Networks
<1> HIDE DEF A, C
<1>4. p = A * x /\ x \in Nat
  <2>1. p = A * x + (p % A) /\ x \in Nat
    BY <1>2, <1>3, Division
  <2> HIDE DEF x
  <2> QED
    BY <1>2, <1>3, <2>1
<1>5. q = (A * C) * z /\ z \in Nat
  <2> DEFINE D == A * C
  <2>1. D \in Nat \ {0} /\ q \in Nat /\ q % D = 0 /\ z = q \div D
    BY <1>2, <1>3
  <2> HIDE DEF D, z
  <2>2. q = D * (q \div D) + (q % D) /\ q \div D \in Nat
    BY <2>1, Division
  <2> QED
    BY <2>1, <2>2 DEF D
<1> HIDE DEF x, z
<1> DEFINE y == C * z
<1>6. q = A * y /\ y \in Nat
  BY <1>2, <1>5
<1>7. q + TwoTo[k] = A * (y + C)
  BY <1>2, <1>6
<1> HIDE DEF y
<1>8. CASE x < y
  <2>1. A * x + A <= A * y
    BY <1>2, <1>4, <1>6, <1>8, Multiples
  <2> QED
    BY <1>4, <1>6, <2>1 DEF A
<1>9. CASE y + C <= x
  <2>1. A * (y + C) <= A * x
    <3>1. CASE x = y + C
      <4>1. A * x \in Nat
        BY <1>2, <1>4
      <4> QED
        BY <3>1, <4>1
    <3>2. CASE y + C < x
      <4> DEFINE v == y + C
      <4>1. v \in Nat /\ v < x
        BY <1>2, <1>6, <3>2
      <4> HIDE DEF v
      <4>2. A * v + A <= A * x /\ A * v \in Nat /\ A * x \in Nat
        BY <1>2, <1>4, <4>1, Multiples
      <4> QED
        BY <1>2, <4>2 DEF v
    <3> QED
      BY <1>2, <1>4, <1>6, <1>9, <3>1, <3>2
  <2> QED
    BY <1>4, <1>7, <2>1
<1>10. CASE y <= x /\ x < y + C
  <2> DEFINE v == y + C
  <2>1. v \in Nat /\ x < v
    BY <1>2, <1>6, <1>10
  <2>2. q + TwoTo[k] = A * v
    BY <1>7
  <2> HIDE DEF v
  <2>3. A * x + A <= A * v
    BY <1>2, <1>4, <2>1, Multiples
  <2>4. A * y <= A * x
    <3>1. PICK n \in Nat : x = y + n
      BY <1>4, <1>6, <1>10
    <3>2. A * x = A * y + A * n /\ A * n \in Nat /\ A * y \in Nat
      BY <1>2, <1>6, <3>1
    <3> QED
      BY <3>2
  <2> QED
    BY <1>4, <1>6, <2>2, <2>3, <2>4 DEF A
<1> QED
  BY <1>2, <1>4, <1>6, <1>8, <1>9, <1>10 DEF A

\* Two networks are disjoint or one contains the other, for every width: what
\* SetsAssumption says of the prefixes that are typed (netip.Prefix).
THEOREM NetworksNest ==
    \A h \in 0 .. Bits : \A k \in 0 .. Bits : \A p \in Networks(h) : \A q \in Networks(k) :
        \/ p + TwoTo[h] <= q
        \/ q + TwoTo[k] <= p
        \/ p <= q /\ q + TwoTo[k] <= p + TwoTo[h]
        \/ q <= p /\ p + TwoTo[h] <= q + TwoTo[k]
<1>1. SUFFICES ASSUME NEW h \in 0 .. Bits, NEW k \in 0 .. Bits,
                      NEW p \in Networks(h), NEW q \in Networks(k)
               PROVE  \/ p + TwoTo[h] <= q
                      \/ q + TwoTo[k] <= p
                      \/ p <= q /\ q + TwoTo[k] <= p + TwoTo[h]
                      \/ q <= p /\ p + TwoTo[h] <= q + TwoTo[k]
  OBVIOUS
<1>2. k \in h .. Bits \/ h \in k .. Bits
  BY BaseType
<1> QED
  BY <1>2, SmallerNests

-----------------------------------------------------------------------------
USE SetsAssumption, AsksAssumption

-----------------------------------------------------------------------------
(* Sequences.                                                              *)

\* The elements of a sequence: of the empty one,
LEMMA RangeEmpty == Range(<<>>) = {}
BY DEF Range

\* of one over a set,
LEMMA RangeIn == ASSUME NEW S, NEW s \in Seq(S) PROVE Range(s) \subseteq S
BY DEF Range

\* of none but the empty one when there are none,
LEMMA RangeNonempty == ASSUME NEW S, NEW s \in Seq(S), Range(s) = {} PROVE s = <<>>
<1>1. Len(s) \in Nat /\ DOMAIN s = 1 .. Len(s)
  OBVIOUS
<1>2. ASSUME Len(s) # 0 PROVE FALSE
  <2>1. 1 \in DOMAIN s
    BY <1>1, <1>2
  <2>2. QED
    BY <2>1 DEF Range
<1>3. QED
  BY <1>2

\* of one with another at its end,
LEMMA RangeAppend ==
    ASSUME NEW S, NEW s \in Seq(S), NEW e \in S
    PROVE  /\ Append(s, e) \in Seq(S) /\ Range(Append(s, e)) = Range(s) \cup {e}
           /\ Len(Append(s, e)) = Len(s) + 1
<1>1. /\ Append(s, e) \in Seq(S) /\ Len(Append(s, e)) = Len(s) + 1 /\ Len(s) \in Nat
      /\ DOMAIN s = 1 .. Len(s) /\ DOMAIN Append(s, e) = 1 .. (Len(s) + 1)
      /\ \A x \in 1 .. Len(s) : Append(s, e)[x] = s[x]
      /\ Append(s, e)[Len(s) + 1] = e
  OBVIOUS
<1>2. \A x \in 1 .. (Len(s) + 1) : x = Len(s) + 1 \/ x \in 1 .. Len(s)
  BY <1>1
<1>3. \A x \in 1 .. Len(s) : x \in 1 .. (Len(s) + 1)
  BY <1>1
<1>4. Len(s) + 1 \in 1 .. (Len(s) + 1)
  BY <1>1
<1> DEFINE t == Append(s, e)
<1> HIDE DEF t
<1>5. Range(t) = Range(s) \cup {e}
  <2>1. \A y \in Range(t) : y \in Range(s) \cup {e}
    BY <1>1, <1>2 DEF Range, t
  <2>2. \A y \in Range(s) : y \in Range(t)
    BY <1>1, <1>3 DEF Range, t
  <2>3. e \in Range(t)
    BY <1>1, <1>4 DEF Range, t
  <2>4. QED
    BY <2>1, <2>2, <2>3
<1>6. QED
  BY <1>1, <1>5 DEF t

\* and of one without its first.
LEMMA RangeTail ==
    ASSUME NEW S, NEW s \in Seq(S), s # <<>>
    PROVE  /\ Head(s) \in S /\ Tail(s) \in Seq(S)
           /\ Range(s) = {Head(s)} \cup Range(Tail(s))
           /\ Len(s) \in Nat /\ Len(Tail(s)) = Len(s) - 1
           /\ Len(s) = 1 => Tail(s) = <<>>
<1>1. /\ Len(s) \in Nat \ {0} /\ DOMAIN s = 1 .. Len(s) /\ Head(s) = s[1] /\ 1 \in DOMAIN s
      /\ Tail(s) \in Seq(S) /\ DOMAIN Tail(s) = 1 .. (Len(s) - 1) /\ Len(Tail(s)) = Len(s) - 1
      /\ \A x \in 1 .. (Len(s) - 1) : Tail(s)[x] = s[x + 1]
  OBVIOUS
<1>2. \A x \in 1 .. (Len(s) - 1) : x + 1 \in DOMAIN s
  BY <1>1
<1>3. \A x \in DOMAIN s : x = 1 \/ (x - 1 \in 1 .. (Len(s) - 1) /\ (x - 1) + 1 = x)
  BY <1>1
<1>4. Head(s) \in S
  BY <1>1
<1>5. Len(s) = 1 => Tail(s) = <<>>
  BY <1>1
<1> DEFINE t == Tail(s)
           h == Head(s)
<1> HIDE DEF t, h
<1>6. Range(s) = {h} \cup Range(t)
  <2>1. \A y \in Range(t) : y \in Range(s)
    BY <1>1, <1>2 DEF Range, t
  <2>2. \A y \in Range(s) : y = h \/ y \in Range(t)
    <3> SUFFICES ASSUME NEW x \in DOMAIN s PROVE s[x] = h \/ s[x] \in Range(t)
      BY DEF Range
    <3>1. CASE x = 1
      BY <1>1, <3>1 DEF h
    <3>2. CASE x # 1
      <4>1. x - 1 \in DOMAIN t /\ t[x - 1] = s[x]
        BY <1>1, <1>3, <3>2 DEF t
      <4>2. QED
        BY <4>1 DEF Range
    <3>3. QED
      BY <3>1, <3>2
  <2>3. h \in Range(s)
    BY <1>1 DEF Range, h
  <2>4. QED
    BY <2>1, <2>2, <2>3
<1>7. QED
  BY <1>1, <1>4, <1>5, <1>6 DEF t, h
\* More than one to do leaves something to do.
LEMMA LongTail == ASSUME NEW S, NEW s \in Seq(S), Len(s) > 1 PROVE Tail(s) # <<>>
<1>1. Len(Tail(s)) = Len(s) - 1 /\ Len(s) \in Nat /\ Len(<<>>) = 0
  OBVIOUS
<1>2. Len(s) - 1 # 0
  <2> DEFINE n == Len(s)
  <2>1. n \in Nat /\ n > 1
    BY <1>1
  <2> HIDE DEF n
  <2>2. n - 1 # 0
    BY <2>1
  <2>3. QED
    BY <2>2 DEF n
<1>3. QED
  BY <1>1, <1>2, Zenon

\* A sequence that is neither empty nor longer than one has one element.
LEMMA OneLong == ASSUME NEW S, NEW s \in Seq(S), s # <<>>, Len(s) <= 1 PROVE Len(s) = 1
<1> DEFINE n == Len(s)
<1>1. n \in Nat /\ n # 0 /\ n <= 1
  OBVIOUS
<1> HIDE DEF n
<1>2. n = 1
  BY <1>1
<1>3. QED
  BY <1>2 DEF n
-----------------------------------------------------------------------------
(* Prefixes.                                                               *)

\* Of two networks whose elements do not overlap, none is inside the other, but ...
LEMMA NestedApart ==
    ASSUME NEW p \in Prefix, NEW q \in Prefix, p.addr = p.lo, q.addr = q.lo, Inside(p, q),
           Interval(p) = Interval(q) \/ ~Overlap(Interval(p), Interval(q))
    PROVE  \/ p.lo = q.lo /\ p.size = q.size
           \/ p.size = 1 /\ p.lo = q.lo + q.size - 1
           \/ p.size = 1 /\ q.size = 2
<1>1. /\ p.lo \in Nat /\ q.lo \in Nat /\ p.size \in Nat \ {0} /\ q.size \in Nat \ {0}
      /\ q.lo <= p.lo /\ p.lo + p.size <= q.lo + q.size
  BY DEF Inside
<1>2. CASE Interval(p) = Interval(q)
  <2>1. p.lo = q.lo /\ ipIntervalEnd(p) = ipIntervalEnd(q)
    BY <1>2 DEF Interval
  <2>2. QED
    BY <1>1, <2>1 DEF ipIntervalEnd
<1>3. CASE ~Overlap(Interval(p), Interval(q))
  <2>1. ~(p.lo < ipIntervalEnd(q) /\ q.lo < ipIntervalEnd(p))
    BY <1>3 DEF Interval, Overlap
  <2>2. QED
    BY <1>1, <2>1 DEF ipIntervalEnd
<1>4. QED
  BY <1>2, <1>3

\* The element of a prefix.
LEMMA TheInterval == ASSUME NEW p \in Prefix PROVE Interval(p) \in Intervals
<1>1. /\ p.addr \in 0 .. Top /\ p.lo \in 0 .. Top /\ p.size \in Nat \ {0}
      /\ p.lo + p.size <= Top + 1
  OBVIOUS
<1>2. ipIntervalEnd(p) \in 0 .. Top + 1
  BY <1>1 DEF ipIntervalEnd
<1>3. QED
  BY <1>1, <1>2 DEF Interval, Intervals

\* A network that the kernel adds overlaps no element.
LEMMA StaysApart ==
    ASSUME NEW m \in Changes, OneNetwork(m), NEW sets \in Sets, Apart(sets),
           Wrong(m, sets[m.set]) = {}
    PROVE  /\ [sets EXCEPT ![m.set] = Effect(m, @)] \in Sets
           /\ Apart([sets EXCEPT ![m.set] = Effect(m, @)])
<1> DEFINE new == [sets EXCEPT ![m.set] = Effect(m, @)]
<1>1. /\ m.set \in SetName /\ m.items \subseteq Elem(m.set)
      /\ sets \in [SetName -> SUBSET (Intervals \cup Key)] /\ \A n \in SetName : sets[n] \subseteq Elem(n)
      /\ m.items \subseteq Intervals \cup Key
  BY DEF Changes, Sets
<1>2. new[m.set] = Effect(m, sets[m.set]) /\ \A n \in SetName : n # m.set => new[n] = sets[n]
  BY <1>1
<1>3. Effect(m, sets[m.set]) \subseteq sets[m.set] \cup m.items
      /\ (m.op # "add" => Effect(m, sets[m.set]) \subseteq sets[m.set])
  BY DEF Effect
<1>4. new \in Sets
  BY <1>1, <1>2, <1>3 DEF Sets
<1>5. ASSUME NEW set \in IPSet
      PROVE  /\ \A e \in new[set] : \E p \in Prefix : p.addr = p.lo /\ e = Interval(p)
             /\ \A e, f \in new[set] : e = f \/ ~Overlap(e, f)
  <2>1. set \in SetName
    BY DEF SetName
  <2>2. CASE set # m.set \/ m.op # "add"
    <3>1. new[set] \subseteq sets[set]
      BY <1>2, <1>3, <2>1, <2>2
    <3>2. QED
      BY <3>1 DEF Apart
  <2>3. CASE set = m.set /\ m.op = "add"
    <3>1. PICK p \in Prefix : p.addr = p.lo /\ m.items = {Interval(p)}
      BY <2>3 DEF OneNetwork
    <3>2. new[set] = sets[set] \cup {Interval(p)}
      BY <1>2, <2>1, <2>3, <3>1 DEF Effect
    <3>3. \A f \in sets[set] : Interval(p) # f => ~Overlap(Interval(p), f)
      BY <2>3, <3>1 DEF Wrong
    <3>4. \A f \in sets[set] : Interval(p) # f => ~Overlap(f, Interval(p))
      BY <3>3 DEF Overlap
    <3>5. QED
      BY <3>1, <3>2, <3>3, <3>4 DEF Apart
  <2>4. QED
    BY <2>2, <2>3
<1>6. QED
  BY <1>4, <1>5 DEF Apart
-----------------------------------------------------------------------------
(* What a step leaves alone.                                               *)

Same(c) == at'[c] = at[c] /\ asked'[c] = asked[c] /\ job'[c] = job[c]

\* What a caller asks for now is a matter of its own variables.
LEMMA AskedFrame == ASSUME NEW c, Same(c), AskedNow(c) PROVE AskedNow(c)'
BY DEF Same, AskedNow

\* A caller with its own connection depends on its queue and, once sent, the batch.
LEMMA AloneFrame ==
    ASSUME NEW c, Same(c), AloneAt(c), queue'[ConnOf[c]] = queue[ConnOf[c]],
           at[c] = "sent" => UNCHANGED <<tx, elems>>
    PROVE  AloneAt(c)'
BY DEF Same, AloneAt

\* Types of the queues and of the batch.
LEMMA TheTypes ==
    ASSUME TypeOK
    PROVE  /\ \A k \in Conn : queue[k] \in Seq(Changes) /\ Range(queue[k]) \subseteq Changes
           /\ tx.left \in Seq(Changes) /\ Range(tx.left) \subseteq Changes
           /\ elems \in Sets /\ tx.elems \in Sets /\ tx.errs \subseteq {"invalid", "exist", "noent"}
           /\ tx.by \in Caller \cup {None} /\ tx.open \in BOOLEAN
           /\ \A c \in Caller : /\ at[c] \in {"idle", "read", "queue", "flush", "sent"}
                                /\ job[c] \in Requests /\ asked[c] \subseteq Changes
                                /\ at[c] = "sent" <=> tx.by = c
                                /\ ConnOf[c] \in Conn
           /\ tx.by # None => tx.open
           /\ tx.left # <<>> => tx.open
<1>1. \A k \in Conn : queue[k] \in Seq(Changes)
  BY DEF TypeOK
<1>2. /\ tx.left \in Seq(Changes) /\ tx.elems \in Sets /\ tx.errs \subseteq {"invalid", "exist", "noent"}
      /\ tx.by \in Caller \cup {None} /\ tx.open \in BOOLEAN
  BY DEF TypeOK
<1>3. \A c \in Caller : at[c] \in {"idle", "read", "queue", "flush", "sent"} /\ job[c] \in Requests
  BY DEF TypeOK
<1>4. \A c \in Caller : asked[c] \subseteq Changes
  BY DEF TypeOK
<1>5. \A c \in Caller : (at[c] = "sent" <=> tx.by = c) /\ ConnOf[c] \in Conn
  BY DEF TypeOK
<1>6. elems \in Sets /\ (tx.by # None => tx.open) /\ (tx.left # <<>> => tx.open)
  BY DEF TypeOK
<1>7. QED
  BY <1>1, <1>2, <1>3, <1>4, <1>5, <1>6, RangeIn

\* The queue of a lone caller holds that caller's changes.
LEMMA OwnQueue ==
    ASSUME IInv, NEW c \in Caller, Alone(c), NEW m \in Range(queue[ConnOf[c]])
    PROVE  m.by = c /\ at[c] \in {"queue", "flush"} /\ m \in asked[c]
<1>1. ConnOf[c] \in Conn /\ m \in Changes
  BY TheTypes DEF IInv
<1>2. m.by \in Caller
  BY <1>1 DEF Changes
<1>3. QED
  BY <1>1, <1>2 DEF IInv, NothingLeftQueued, Alone

\* What is true of the other callers stays so.
LEMMA OtherCallers ==
    ASSUME IInv, NEW c \in Caller, \A d \in Caller : d # c => Same(d),
           \A k \in Conn : k # ConnOf[c] => queue'[k] = queue[k],
           (\E d \in Caller : d # c /\ at[d] = "sent") => UNCHANGED <<tx, elems>>
    PROVE  \A d \in Caller : d # c => AskedNow(d)' /\ (Alone(d) => AloneAt(d)')
<1> SUFFICES ASSUME NEW d \in Caller, d # c PROVE AskedNow(d)' /\ (Alone(d) => AloneAt(d)')
  OBVIOUS
<1>1. AskedNow(d)'
  BY AskedFrame DEF IInv
<1>2. ASSUME Alone(d) PROVE AloneAt(d)'
  <2>1. ConnOf[d] # ConnOf[c] /\ ConnOf[d] \in Conn
    BY <1>2 DEF Alone
  <2>2. QED
    BY <1>2, <2>1, AloneFrame DEF IInv
<1>3. QED
  BY <1>1, <1>2

\* A caller has nothing asked for: it begins, has returned, or goes on with its
\* next prefix.
LEMMA Settles ==
    ASSUME IInv, NEW c \in Caller, \A d \in Caller : d # c => Same(d),
           queue' = queue \/ queue' = [queue EXCEPT ![ConnOf[c]] = <<>>],
           \A m \in Range(queue'[ConnOf[c]]) : m.by # c,
           asked'[c] = {}, at'[c] \in {"idle", "read", "queue"},
           (\E d \in Caller : d # c /\ at[d] = "sent") => UNCHANGED <<tx, elems>>,
           TypeOK', Apart(elems)', Apart(tx.elems)', Range(tx'.left) \subseteq Range(tx.left)
    PROVE  IInv'
<1>1. TypeOK /\ \A k \in Conn : queue[k] \in Seq(Changes) /\ Range(queue[k]) \subseteq Changes
  BY TheTypes DEF IInv
<1>2. /\ ConnOf[c] \in Conn
      /\ \A k \in Conn : k # ConnOf[c] => queue'[k] = queue[k]
      /\ \A k \in Conn : Range(queue'[k]) \subseteq Range(queue[k]) /\ queue'[k] \in Seq(Changes)
  <2>1. ConnOf[c] \in Conn /\ DOMAIN queue = Conn /\ <<>> \in Seq(Changes)
    BY DEF IInv, TypeOK
  <2>2. \A k \in Conn : queue'[k] = queue[k] \/ (k = ConnOf[c] /\ queue'[k] = <<>>)
    BY <2>1
  <2>3. QED
    BY <1>1, <2>1, <2>2, RangeEmpty
<1>3. NothingLeftQueued'
  <2> SUFFICES ASSUME NEW k \in Conn, NEW m \in Range(queue'[k])
               PROVE  ConnOf[m.by] = k /\ at'[m.by] \in {"queue", "flush"} /\ m \in asked'[m.by]
    BY DEF NothingLeftQueued
  <2>1. m \in Range(queue[k]) /\ m \in Changes
    BY <1>1, <1>2
  <2>2. /\ m.by \in Caller
        /\ ConnOf[m.by] = k /\ at[m.by] \in {"queue", "flush"} /\ m \in asked[m.by]
    <3>1. m.by \in Caller
      BY <2>1 DEF Changes
    <3>2. QED
      BY <2>1, <3>1 DEF IInv, NothingLeftQueued
  <2>3. m.by # c
    BY <2>2
  <2>4. QED
    BY <2>2, <2>3 DEF Same
<1>4. AskedNow(c)'
  BY DEF AskedNow
<1>5. ASSUME Alone(c) PROVE AloneAt(c)'
  <2>1. Range(queue'[ConnOf[c]]) = {}
    BY <1>2, <1>5, OwnQueue
  <2>2. queue'[ConnOf[c]] = <<>>
    BY <1>2, <2>1, RangeNonempty
  <2>3. QED
    BY <2>1, <2>2 DEF AloneAt
<1>6. \A d \in Caller : AskedNow(d)' /\ (Alone(d) => AloneAt(d)')
  BY <1>2, <1>4, <1>5, OtherCallers
<1>7. /\ \A k \in Conn : \A m \in Range(queue'[k]) : OneNetwork(m)
      /\ \A m \in Range(tx'.left) : OneNetwork(m)
  BY <1>2 DEF IInv
<1>8. QED
  BY <1>3, <1>6, <1>7 DEF IInv, Alone
-----------------------------------------------------------------------------
(* Types of the callers.                                                   *)

CallersOK ==
    /\ job \in [Caller -> Requests]
    /\ at \in [Caller -> {"idle", "read", "queue", "flush", "sent"}]
    /\ said \in [Caller -> {"none", "ok", "refused", "overlaps", "missing", "error"}]
    /\ asked \in [Caller -> SUBSET Changes]
    /\ \A c \in Caller :
          /\ at[c] # "idle" => job[c] # NoRequest /\ said[c] = "none"
          /\ at[c] = "read" => job[c].kind = "deleteKeys"
          /\ at[c] \in {"read", "queue"} => job[c].todo # <<>>

\* Types of what the callers own.
LEMMA CallersTyped == ASSUME TypeOK PROVE CallersOK
BY DEF TypeOK, CallersOK

\* What a caller may ask for is a request, with something to do.
LEMMA NewIsRequest ==
    ASSUME NEW r \in NewRequests
    PROVE  r \in Requests /\ r # NoRequest /\ r.todo # <<>>
<1>1. CASE r \in [kind : {"addIPs", "deleteIPs"}, set : IPSet, todo : Seq(Prefix) \ {<<>>}]
  BY <1>1 DEF Requests, NoRequest, Request
<1>2. CASE r \in [kind : {"addKeys", "deleteKeys"}, set : KeySet, todo : {<<K>> : K \in SUBSET Key}]
  <2>1. PICK K \in SUBSET Key : r.todo = <<K>>
    BY <1>2
  <2>2. r.todo \in Seq(SUBSET Key) /\ r.todo # <<>>
    BY <2>1
  <2>3. QED
    BY <1>2, <2>2 DEF Requests, NoRequest, Request
<1>3. CASE r \in [kind : {"flushAll"}, set : {"none"}, todo : {FlushOrder}]
  BY <1>3 DEF Requests, NoRequest, Request, SetName
<1>4. QED
  BY <1>1, <1>2, <1>3 DEF NewRequests

\* The kinds of requests with something to do.
LEMMA RequestKinds ==
    ASSUME NEW r \in Requests, r.todo # <<>>
    PROVE  \/ r \in [kind : {"addIPs", "deleteIPs"}, set : IPSet, todo : Seq(Prefix)]
           \/ r \in [kind : {"addKeys", "deleteKeys"}, set : KeySet, todo : Seq(SUBSET Key)]
           \/ r \in [kind : {"flushAll"}, set : {"none"}, todo : Seq(SetName)]
BY DEF Requests, NoRequest, Request

\* What is left of a request is a request.
LEMMA LessToDo ==
    ASSUME NEW r \in Requests, r.todo # <<>>
    PROVE  /\ [r EXCEPT !.todo = Tail(@)] \in Requests
           /\ [r EXCEPT !.todo = Tail(@)] # NoRequest
           /\ [r EXCEPT !.todo = Tail(@)].kind = r.kind
           /\ [r EXCEPT !.todo = Tail(@)].todo = Tail(r.todo)
<1>1. CASE r \in [kind : {"addIPs", "deleteIPs"}, set : IPSet, todo : Seq(Prefix)]
  BY <1>1, RangeTail DEF Requests, NoRequest, Request
<1>2. CASE r \in [kind : {"addKeys", "deleteKeys"}, set : KeySet, todo : Seq(SUBSET Key)]
  BY <1>2, RangeTail DEF Requests, NoRequest, Request
<1>3. CASE r \in [kind : {"flushAll"}, set : {"none"}, todo : Seq(SetName)]
  BY <1>3, RangeTail DEF Requests, NoRequest, Request
<1>4. QED
  BY <1>1, <1>2, <1>3, RequestKinds

\* What is queued next: a change of the caller's that adds one network, if it adds
\* to a set of addresses.
LEMMA NextIsChange ==
    ASSUME NEW c \in Caller, job[c] \in Requests, job[c].todo # <<>>, ~Refused(job[c])
    PROVE  /\ NextChange(c) \in Changes /\ NextChange(c).by = c /\ OneNetwork(NextChange(c))
           /\ job[c].kind = "flushAll" => NextChange(c).op = "flush"
<1> DEFINE r == job[c]
<1>1. CASE r \in [kind : {"addIPs", "deleteIPs"}, set : IPSet, todo : Seq(Prefix)]
  <2>1. Head(r.todo) \in Prefix /\ r.set \in SetName /\ Elem(r.set) = Intervals
    BY <1>1, RangeTail DEF SetName, Elem
  <2>2. Interval(Head(r.todo)) \in Intervals
    BY <2>1, TheInterval
  <2>3. \A op \in {"add", "delete"} : Change(c, op, r.set, {Interval(Head(r.todo))}) \in Changes
    BY <2>1, <2>2 DEF Changes, Change
  <2>4. CASE r.kind = "addIPs"
    <3>1. NextChange(c) = Change(c, "add", r.set, {Interval(Head(r.todo))})
      BY <2>4 DEF NextChange
    <3>2. Head(r.todo).addr = Head(r.todo).lo
      BY <2>4 DEF Refused
    <3>3. QED
      BY <2>1, <2>3, <2>4, <3>1, <3>2 DEF OneNetwork, Change
  <2>5. CASE r.kind = "deleteIPs"
    <3>1. NextChange(c) = Change(c, "delete", r.set, {Interval(Head(r.todo))})
      BY <2>5 DEF NextChange
    <3>2. QED
      BY <2>3, <2>5, <3>1 DEF OneNetwork, Change
  <2>6. QED
    BY <1>1, <2>4, <2>5
<1>2. CASE r \in [kind : {"addKeys", "deleteKeys"}, set : KeySet, todo : Seq(SUBSET Key)]
  <2>1. Head(r.todo) \subseteq Key /\ r.set \in SetName /\ r.set \notin IPSet /\ Elem(r.set) = Key
    BY <1>2, RangeTail DEF SetName, Elem
  <2>2. \A op \in {"add", "delete"} : Change(c, op, r.set, Head(r.todo)) \in Changes
    BY <2>1 DEF Changes, Change
  <2>3. NextChange(c) = Change(c, "add", r.set, Head(r.todo))
        \/ NextChange(c) = Change(c, "delete", r.set, Head(r.todo))
    BY <1>2 DEF NextChange
  <2>4. QED
    BY <1>2, <2>1, <2>2, <2>3 DEF OneNetwork, Change
<1>3. CASE r \in [kind : {"flushAll"}, set : {"none"}, todo : Seq(SetName)]
  <2>1. Head(r.todo) \in SetName
    BY <1>3, RangeTail
  <2>2. NextChange(c) = Change(c, "flush", Head(r.todo), {})
    BY <1>3 DEF NextChange
  <2>3. QED
    BY <2>1, <2>2 DEF OneNetwork, Change, Changes
<1>4. QED
  BY <1>1, <1>2, <1>3, RequestKinds

\* An operation that returns, and nobody else moves.
LEMMA ReturnTypes ==
    ASSUME CallersOK, NEW c \in Caller, NEW a \in {"ok", "refused", "overlaps", "missing", "error"},
           Return(c, a)
    PROVE  /\ CallersOK' /\ at'[c] = "idle" /\ asked'[c] = {} /\ said'[c] = a
           /\ \A d \in Caller : d # c => Same(d) /\ said'[d] = said[d]
<1>1. NoRequest \in Requests
  BY DEF Requests
<1>2. /\ job' \in [Caller -> Requests]
      /\ at' \in [Caller -> {"idle", "read", "queue", "flush", "sent"}]
      /\ said' \in [Caller -> {"none", "ok", "refused", "overlaps", "missing", "error"}]
      /\ asked' \in [Caller -> SUBSET Changes]
  BY <1>1 DEF CallersOK, Return
<1>3. at'[c] = "idle" /\ asked'[c] = {} /\ said'[c] = a
  BY DEF CallersOK, Return
<1>4. \A d \in Caller : d # c => Same(d) /\ said'[d] = said[d]
  BY DEF CallersOK, Return, Same
<1>5. QED
  BY <1>2, <1>3, <1>4 DEF CallersOK, Same

\* A part of an operation that is done, and nobody else moves.
LEMMA DoneTypes ==
    ASSUME CallersOK, NEW c \in Caller, Done(c), at[c] # "idle"
    PROVE  /\ CallersOK' /\ at'[c] \in {"idle", "queue"} /\ asked'[c] = {}
           /\ said'[c] \in {"none", "ok"}
           /\ \A d \in Caller : d # c => Same(d) /\ said'[d] = said[d]
<1>1. CASE job[c].todo = <<>>
  BY <1>1, ReturnTypes DEF Done
<1>2. CASE job[c].todo # <<>>
  <2>1. /\ at' = [at EXCEPT ![c] = "queue"] /\ asked' = [asked EXCEPT ![c] = {}]
        /\ said' = said /\ job' = job
    BY <1>2 DEF Done
  <2>2. /\ at'[c] = "queue" /\ asked'[c] = {} /\ \A d \in Caller : d # c => Same(d)
        /\ at' \in [Caller -> {"idle", "read", "queue", "flush", "sent"}]
        /\ asked' \in [Caller -> SUBSET Changes]
    BY <2>1 DEF CallersOK, Same
  <2>3. QED
    BY <1>2, <2>1, <2>2 DEF CallersOK, Same
<1>3. QED
  BY <1>1, <1>2

\* A caller that waits for no Flush has nothing queued.
LEMMA NotMine ==
    ASSUME IInv, NEW c \in Caller, at[c] \notin {"queue", "flush"} \/ asked[c] = {},
           NEW k \in Conn
    PROVE  \A m \in Range(queue[k]) : m.by # c
BY DEF IInv, NothingLeftQueued

\* Types of the callers and of the rest are the types.
LEMMA TypesFromParts ==
    ASSUME CallersOK', elems' \in Sets, faults' \in Nat,
           tx' \in [by : Caller \cup {None}, open : BOOLEAN, left : Seq(Changes), elems : Sets,
                    errs : SUBSET {"invalid", "exist", "noent"}],
           tx'.by # None \/ tx'.left # <<>> => tx'.open,
           queue' \in [Conn -> Seq(Changes)],
           \A c \in Caller : at'[c] = "sent" <=> tx'.by = c
    PROVE  TypeOK'
BY DEF CallersOK, TypeOK
-----------------------------------------------------------------------------
(* Every step preserves the invariant.                                     *)

\* The steps keep the invariant: a request comes in,
LEMMA StepBegin ==
    ASSUME IInv, NEW c \in Caller, NEW r \in Asks[c], Begin(c, r) PROVE IInv'
<1>1. TypeOK /\ CallersOK /\ at[c] = "idle" /\ asked[c] = {}
  BY CallersTyped DEF IInv, Begin, AskedNow
<1>2. r \in NewRequests
  OBVIOUS
<1>3. /\ r \in Requests /\ r # NoRequest /\ r.todo # <<>>
      /\ job' = [job EXCEPT ![c] = r] /\ said' = [said EXCEPT ![c] = "none"]
      /\ at' = [at EXCEPT ![c] = IF r.kind = "deleteKeys" THEN "read" ELSE "queue"]
      /\ elems' = elems /\ tx' = tx /\ queue' = queue /\ asked' = asked /\ faults' = faults
  BY <1>2, NewIsRequest DEF Begin
<1>4. /\ \A d \in Caller : d # c => Same(d) /\ said'[d] = said[d]
      /\ asked'[c] = {} /\ at'[c] \in {"read", "queue"}
      /\ at'[c] = "read" => r.kind = "deleteKeys"
      /\ job'[c] = r /\ said'[c] = "none"
  BY <1>1, <1>3 DEF CallersOK, Same
<1>5. CallersOK'
  <2>1. /\ job' \in [Caller -> Requests] /\ asked' \in [Caller -> SUBSET Changes]
        /\ at' \in [Caller -> {"idle", "read", "queue", "flush", "sent"}]
        /\ said' \in [Caller -> {"none", "ok", "refused", "overlaps", "missing", "error"}]
    BY <1>1, <1>3 DEF CallersOK
  <2>2. QED
    BY <1>1, <1>3, <1>4, <2>1 DEF CallersOK, Same
<1>6. TypeOK'
  BY <1>1, <1>3, <1>4, <1>5, TypesFromParts DEF TypeOK, Same
<1>7. \A m \in Range(queue'[ConnOf[c]]) : m.by # c
  BY <1>1, <1>3, NotMine
<1>8. Apart(elems)' /\ Apart(tx.elems)'
  BY <1>3 DEF IInv, Apart
<1>9. QED
  BY <1>3, <1>4, <1>6, <1>7, <1>8, Settles

\* A caller returns or goes on, and the kernel and the queues are left alone.
LEMMA StepsQuietly ==
    ASSUME IInv, NEW c \in Caller, CallersOK', \A d \in Caller : d # c => Same(d),
           asked'[c] = {}, at[c] # "sent", at'[c] \in {"idle", "queue"},
           \/ /\ queue' = queue
              /\ at[c] \notin {"queue", "flush"} \/ asked[c] = {} \/ queue[ConnOf[c]] = <<>>
           \/ queue' = [queue EXCEPT ![ConnOf[c]] = <<>>],
           elems' = elems, tx' = tx, faults' \in Nat
    PROVE  IInv'
<1>1. TypeOK /\ ConnOf[c] \in Conn /\ DOMAIN queue = Conn
  BY DEF IInv, TypeOK
<1>2. TypeOK'
  <2>1. queue' \in [Conn -> Seq(Changes)]
    <3>1. queue \in [Conn -> Seq(Changes)] /\ <<>> \in Seq(Changes)
      BY <1>1 DEF TypeOK
    <3>2. QED
      BY <3>1
  <2>2. \A d \in Caller : at'[d] = "sent" <=> tx'.by = d
    BY <1>1 DEF TypeOK, Same
  <2>3. QED
    BY <1>1, <2>1, <2>2, TypesFromParts DEF TypeOK
<1>3. \A m \in Range(queue'[ConnOf[c]]) : m.by # c
  <2>1. CASE queue'[ConnOf[c]] = <<>>
    BY <2>1, RangeEmpty
  <2>2. CASE queue' = queue /\ (at[c] \notin {"queue", "flush"} \/ asked[c] = {})
    BY <1>1, <2>2, NotMine
  <2>3. QED
    BY <1>1, <2>1, <2>2
<1>4. Apart(elems)' /\ Apart(tx.elems)'
  BY DEF IInv, Apart
<1>5. QED
  BY <1>2, <1>3, <1>4, Settles

\* the elements of the set are read,
LEMMA StepRead == ASSUME IInv, NEW c \in Caller, Read(c) PROVE IInv'
<1>1. TypeOK /\ CallersOK /\ at[c] = "read" /\ asked[c] = {} /\ faults \in Nat
  BY CallersTyped DEF IInv, Read, AskedNow, TypeOK
<1>2. elems' = elems /\ tx' = tx /\ queue' = queue /\ faults' = faults
  BY DEF Read
<1>3. CASE Head(job[c].todo) \subseteq elems[job[c].set]
  <2>1. at' = [at EXCEPT ![c] = "queue"] /\ said' = said /\ job' = job /\ asked' = asked
    BY <1>3 DEF Read
  <2>2. CallersOK' /\ at'[c] = "queue" /\ asked'[c] = {} /\ \A d \in Caller : d # c => Same(d)
    BY <1>1, <2>1 DEF CallersOK, Same
  <2>3. QED
    BY <1>1, <1>2, <2>2, StepsQuietly
<1>4. CASE ~(Head(job[c].todo) \subseteq elems[job[c].set])
  <2>1. Return(c, "missing")
    BY <1>4 DEF Read
  <2>2. QED
    BY <1>1, <1>2, <2>1, ReturnTypes, StepsQuietly
<1>5. QED
  BY <1>3, <1>4

\* a request is refused before anything is queued,
LEMMA StepRefuse == ASSUME IInv, NEW c \in Caller, Refuse(c) PROVE IInv'
<1>1. TypeOK /\ CallersOK /\ at[c] = "queue" /\ faults \in Nat /\ Refused(job[c])
  BY CallersTyped DEF IInv, Refuse, TypeOK
<1>2. job[c].kind # "flushAll" /\ asked[c] = {}
  BY <1>1 DEF IInv, AskedNow, Refused
<1>3. elems' = elems /\ tx' = tx /\ queue' = queue /\ faults' = faults /\ Return(c, "refused")
  BY DEF Refuse
<1>4. QED
  BY <1>1, <1>2, <1>3, ReturnTypes, StepsQuietly

\* a flush has nothing queued to send,
LEMMA StepFlushNothing == ASSUME IInv, NEW c \in Caller, FlushNothing(c) PROVE IInv'
<1>1. TypeOK /\ CallersOK /\ at[c] = "flush" /\ faults \in Nat
  BY CallersTyped DEF IInv, FlushNothing, TypeOK
<1>2. /\ elems' = elems /\ tx' = tx /\ queue' = queue /\ faults' = faults /\ Done(c)
      /\ queue[ConnOf[c]] = <<>>
  BY DEF FlushNothing
<1>3. QED
  BY <1>1, <1>2, DoneTypes, StepsQuietly

\* the batch cannot be sent,
LEMMA StepSendFails == ASSUME IInv, NEW c \in Caller, SendFails(c) PROVE IInv'
<1>1. TypeOK /\ CallersOK /\ at[c] = "flush" /\ faults \in Nat
  BY CallersTyped DEF IInv, SendFails, TypeOK
<1>2. /\ elems' = elems /\ tx' = tx /\ queue' = [queue EXCEPT ![ConnOf[c]] = <<>>]
      /\ faults' = faults + 1 /\ faults + 1 \in Nat /\ Return(c, "error")
  BY <1>1 DEF SendFails
<1>3. QED
  BY <1>1, <1>2, ReturnTypes, StepsQuietly

\* The batch is done with.
LEMMA Finishes ==
    ASSUME IInv, Finish
    PROVE  /\ elems' \in Sets /\ Apart(elems)' /\ Apart(tx.elems)' /\ Range(tx'.left) = {}
           /\ tx' \in [by : Caller \cup {None}, open : BOOLEAN, left : Seq(Changes), elems : Sets,
                       errs : SUBSET {"invalid", "exist", "noent"}]
           /\ tx'.by = None /\ tx'.left = <<>> /\ queue' = queue
           /\ elems' = IF tx.errs = {} THEN tx.elems ELSE elems
<1>1. TypeOK /\ Apart(elems) /\ Apart(tx.elems)
  BY DEF IInv
<1>2. tx' = NoTx /\ queue' = queue /\ elems' = IF tx.errs = {} THEN tx.elems ELSE elems
  BY DEF Finish
<1>3. elems' \in Sets /\ Apart(elems)'
  BY <1>1, <1>2 DEF TypeOK, Apart
<1>4. [s \in SetName |-> {}] \in Sets
  BY DEF Sets
<1>5. <<>> \in Seq(Changes)
  OBVIOUS
<1>6. tx' \in [by : Caller \cup {None}, open : BOOLEAN, left : Seq(Changes), elems : Sets,
               errs : SUBSET {"invalid", "exist", "noent"}]
      /\ tx'.by = None /\ tx'.left = <<>> /\ tx'.elems = [s \in SetName |-> {}]
  BY <1>2, <1>4, <1>5 DEF NoTx
<1>7. Apart(tx.elems)'
  BY <1>6 DEF Apart, SetName
<1>8. QED
  BY <1>2, <1>3, <1>6, <1>7, RangeEmpty

\* The caller of a batch that is done with returns or goes on.
LEMMA StepHeard ==
    ASSUME IInv, Finish, NEW c \in Caller, tx.by = c, CallersOK', \A d \in Caller : d # c => Same(d),
           asked'[c] = {}, at'[c] \in {"idle", "queue"}, faults' \in Nat
    PROVE  IInv'
<1>1. TypeOK /\ at[c] = "sent" /\ \A d \in Caller : d # c => at[d] # "sent"
  BY DEF IInv, TypeOK
<1>2. TypeOK'
  <2>1. queue' \in [Conn -> Seq(Changes)]
    BY <1>1, Finishes DEF TypeOK
  <2>2. \A d \in Caller : at'[d] # "sent" /\ tx'.by # d
    BY <1>1, Finishes DEF Same
  <2>3. QED
    BY <2>1, <2>2, Finishes, TypesFromParts
<1>3. \A m \in Range(queue'[ConnOf[c]]) : m.by # c
  <2>1. ConnOf[c] \in Conn
    OBVIOUS
  <2>2. QED
    BY <1>1, <2>1, NotMine, Finishes
<1>4. QED
  BY <1>1, <1>2, <1>3, Settles, Finishes

\* the kernel answers,
LEMMA StepAnswer == ASSUME IInv, Answer PROVE IInv'
<1> DEFINE c == tx.by
<1>1. /\ CallersOK /\ c \in Caller /\ at[c] = "sent" /\ Finish /\ faults' \in Nat
      /\ IF tx.errs = {} THEN Done(c) ELSE Return(c, Reading(job[c].kind, tx.errs))
  BY CallersTyped, TheTypes DEF IInv, Answer, TypeOK
<1>2. Reading(job[c].kind, tx.errs) \in {"overlaps", "missing", "error"}
  BY DEF Reading
<1>3. /\ CallersOK' /\ at'[c] \in {"idle", "queue"} /\ asked'[c] = {}
      /\ \A d \in Caller : d # c => Same(d)
  BY <1>1, <1>2, DoneTypes, ReturnTypes
<1>4. QED
  BY <1>1, <1>3, StepHeard

\* its answer is lost,
LEMMA StepAnswerLost == ASSUME IInv, AnswerLost PROVE IInv'
<1>1. /\ CallersOK /\ tx.by \in Caller /\ Finish /\ faults' \in Nat /\ Return(tx.by, "error")
  BY CallersTyped, TheTypes DEF IInv, AnswerLost, TypeOK
<1>2. /\ CallersOK' /\ at'[tx.by] = "idle" /\ asked'[tx.by] = {}
      /\ \A d \in Caller : d # tx.by => Same(d)
  BY <1>1, ReturnTypes
<1>3. QED
  BY <1>1, <1>2, StepHeard

\* nobody is left to hear it,
LEMMA StepNobodyListens == ASSUME IInv, NobodyListens PROVE IInv'
<1>1. /\ TypeOK /\ CallersOK /\ tx.by = None /\ Finish
      /\ at' = at /\ job' = job /\ said' = said /\ asked' = asked /\ faults' = faults
  BY CallersTyped DEF IInv, NobodyListens
<1>2. CallersOK' /\ faults' \in Nat
  BY <1>1 DEF CallersOK, TypeOK
<1>3. \A d \in Caller : at[d] # "sent" /\ Same(d) /\ ConnOf[d] \in Conn
  BY <1>1 DEF TypeOK, Same
<1>4. TypeOK'
  <2>1. queue' \in [Conn -> Seq(Changes)]
    BY <1>1, Finishes DEF TypeOK
  <2>2. \A d \in Caller : at'[d] = "sent" <=> tx'.by = d
    BY <1>1, <1>3, Finishes
  <2>3. QED
    BY <1>1, <1>2, <2>1, <2>2, Finishes, TypesFromParts
<1>5. \A d \in Caller : AskedNow(d)' /\ (Alone(d) => AloneAt(d)')
  BY <1>3, AskedFrame, AloneFrame, Finishes, <1>1 DEF IInv
<1>6. NothingLeftQueued'
  BY <1>1, Finishes DEF IInv, NothingLeftQueued
<1>7. QED
  BY <1>1, <1>4, <1>5, <1>6, Finishes DEF IInv, Alone

\* a change is queued,
LEMMA StepQueue == ASSUME IInv, NEW c \in Caller, Queue(c) PROVE IInv'
<1> DEFINE k == ConnOf[c]
           n == NextChange(c)
           more == job[c].kind = "flushAll" /\ Len(job[c].todo) > 1
<1>1. /\ TypeOK /\ CallersOK /\ at[c] = "queue" /\ ~Refused(job[c])
      /\ queue' = [queue EXCEPT ![k] = Append(@, n)]
      /\ asked' = [asked EXCEPT ![c] = @ \cup {n}]
      /\ job' = [job EXCEPT ![c].todo = Tail(@)]
      /\ at' = [at EXCEPT ![c] = IF more THEN "queue" ELSE "flush"]
      /\ elems' = elems /\ tx' = tx /\ said' = said /\ faults' = faults
  BY CallersTyped DEF IInv, Queue
<1>2. /\ job[c] \in Requests /\ job[c].todo # <<>> /\ k \in Conn
      /\ asked[c] \subseteq Changes /\ said[c] = "none"
  BY <1>1 DEF CallersOK
<1>3. /\ n \in Changes /\ n.by = c /\ OneNetwork(n)
      /\ job[c].kind = "flushAll" => n.op = "flush"
  BY <1>1, <1>2, NextIsChange
<1>4. queue[k] \in Seq(Changes) /\ queue \in [Conn -> Seq(Changes)]
  BY <1>1, <1>2 DEF TypeOK
<1> HIDE DEF n
<1>5. /\ queue' \in [Conn -> Seq(Changes)]
      /\ Range(queue'[k]) = Range(queue[k]) \cup {n} /\ Len(queue'[k]) = Len(queue[k]) + 1
      /\ \A l \in Conn : l # k => queue'[l] = queue[l]
  <2>1. queue'[k] = Append(queue[k], n) /\ \A l \in Conn : l # k => queue'[l] = queue[l]
    BY <1>1, <1>2, <1>4
  <2>2. Append(queue[k], n) \in Seq(Changes)
    BY <1>3, <1>4, RangeAppend
  <2>3. queue' \in [Conn -> Seq(Changes)]
    BY <1>1, <1>4, <2>2
  <2>4. QED
    BY <1>3, <1>4, <2>1, <2>3, RangeAppend
<1>6. /\ asked'[c] = asked[c] \cup {n} /\ asked' \in [Caller -> SUBSET Changes]
      /\ at'[c] = (IF more THEN "queue" ELSE "flush")
      /\ at' \in [Caller -> {"idle", "read", "queue", "flush", "sent"}]
      /\ \A d \in Caller : d # c => Same(d)
  BY <1>1, <1>2, <1>3 DEF CallersOK, Same
<1>7. /\ job' \in [Caller -> Requests] /\ job'[c] # NoRequest /\ job'[c].kind = job[c].kind
      /\ job'[c].todo = Tail(job[c].todo)
  <2>1. job'[c] = [job[c] EXCEPT !.todo = Tail(@)]
    BY <1>1 DEF CallersOK
  <2>2. [job[c] EXCEPT !.todo = Tail(@)] \in Requests
    BY <1>2, LessToDo
  <2>3. job' \in [Caller -> Requests]
    BY <1>1, <2>2 DEF CallersOK
  <2>4. QED
    BY <1>2, <2>1, <2>3, LessToDo
<1>8. more => job'[c].todo # <<>>
  <2>1. job[c].kind = "flushAll" => job[c].todo \in Seq(SetName)
    BY <1>2, RequestKinds
  <2>2. more => Tail(job[c].todo) # <<>>
    BY <2>1, LongTail
  <2>3. QED
    BY <1>7, <2>2
<1>9. CallersOK'
  BY <1>1, <1>6, <1>7, <1>8 DEF CallersOK, Same
<1>10. TypeOK'
  <2>1. \A d \in Caller : at'[d] = "sent" <=> tx'.by = d
    BY <1>1, <1>6 DEF TypeOK, Same
  <2>2. QED
    BY <1>1, <1>5, <1>9, <2>1, TypesFromParts DEF TypeOK
<1>11. NothingLeftQueued'
  <2> SUFFICES ASSUME NEW l \in Conn, NEW m \in Range(queue'[l])
               PROVE  ConnOf[m.by] = l /\ at'[m.by] \in {"queue", "flush"} /\ m \in asked'[m.by]
    BY DEF NothingLeftQueued
  <2>1. CASE l = k /\ m = n
    BY <1>3, <1>6, <2>1
  <2>2. CASE m \in Range(queue[l])
    <3>1. m \in Changes
      BY <1>1, <2>2, TheTypes
    <3>2. m.by \in Caller
      BY <3>1 DEF Changes
    <3>3. ConnOf[m.by] = l /\ at[m.by] \in {"queue", "flush"} /\ m \in asked[m.by]
      BY <2>2 DEF IInv, NothingLeftQueued
    <3>4. QED
      BY <1>6, <3>2, <3>3 DEF Same
  <2>3. QED
    BY <1>5, <2>1, <2>2
<1>12. AskedNow(c)'
  <2>1. AskedNow(c)
    BY DEF IInv
  <2>2. job[c].kind # "flushAll" => asked'[c] = {n}
    BY <1>1, <1>6, <2>1 DEF AskedNow
  <2>3. QED
    BY <1>3, <1>6, <1>7, <2>1, <2>2 DEF AskedNow
<1>13. ASSUME Alone(c) PROVE AloneAt(c)'
  <2>1. AskedNow(c) /\ AloneAt(c) /\ asked[c] = Range(queue[k])
    BY <1>1, <1>13 DEF IInv, AloneAt
  <2>2. job[c].kind # "flushAll" => queue[k] = <<>>
    <3>1. job[c].kind # "flushAll" => Range(queue[k]) = {}
      BY <1>1, <2>1 DEF AskedNow
    <3>2. QED
      BY <1>4, <3>1, RangeNonempty
  <2>3. job[c].kind # "flushAll" => Len(queue'[k]) = 1
    BY <1>5, <2>2
  <2>4. QED
    BY <1>5, <1>6, <1>7, <2>1, <2>3 DEF AloneAt
<1>14. \A d \in Caller : AskedNow(d)' /\ (Alone(d) => AloneAt(d)')
  BY <1>1, <1>5, <1>6, <1>12, <1>13, OtherCallers
<1>15. /\ \A l \in Conn : \A m \in Range(queue'[l]) : OneNetwork(m)
       /\ \A m \in Range(tx'.left) : OneNetwork(m)
  BY <1>1, <1>3, <1>5 DEF IInv, Apart
<1>16. Apart(elems)' /\ Apart(tx.elems)'
  BY <1>1 DEF IInv, Apart
<1>17. QED
  BY <1>10, <1>11, <1>14, <1>15, <1>16 DEF IInv, Alone

\* the queue is sent as a batch,
LEMMA StepSend == ASSUME IInv, NEW c \in Caller, Send(c) PROVE IInv'
<1> DEFINE k == ConnOf[c]
<1>1. /\ TypeOK /\ CallersOK /\ at[c] = "flush" /\ ~tx.open /\ queue[k] # <<>>
      /\ tx' = [NoTx EXCEPT !.by = c, !.open = TRUE, !.left = queue[k], !.elems = elems]
      /\ queue' = [queue EXCEPT ![k] = <<>>] /\ at' = [at EXCEPT ![c] = "sent"]
      /\ elems' = elems /\ job' = job /\ said' = said /\ asked' = asked /\ faults' = faults
  BY CallersTyped DEF IInv, Send
<1>2. /\ k \in Conn /\ queue[k] \in Seq(Changes) /\ queue \in [Conn -> Seq(Changes)]
      /\ elems \in Sets /\ tx.by = None
  BY <1>1 DEF TypeOK
<1>3. /\ tx' = [by |-> c, open |-> TRUE, left |-> queue[k], elems |-> elems, errs |-> {}]
  BY <1>1 DEF NoTx
<1>4. /\ queue' \in [Conn -> Seq(Changes)] /\ queue'[k] = <<>>
      /\ \A l \in Conn : l # k => queue'[l] = queue[l]
  <2>1. <<>> \in Seq(Changes)
    OBVIOUS
  <2>2. QED
    BY <1>1, <1>2, <2>1
<1>5. /\ at'[c] = "sent" /\ \A d \in Caller : at[d] # "sent" /\ (d # c => Same(d))
      /\ at' \in [Caller -> {"idle", "read", "queue", "flush", "sent"}]
  BY <1>1, <1>2 DEF CallersOK, Same, TypeOK
<1>6. CallersOK'
  BY <1>1, <1>5 DEF CallersOK, Same
<1>7. TypeOK'
  <2>1. \A d \in Caller : at'[d] = "sent" <=> tx'.by = d
    BY <1>3, <1>5 DEF Same
  <2>2. tx' \in [by : Caller \cup {None}, open : BOOLEAN, left : Seq(Changes), elems : Sets,
                 errs : SUBSET {"invalid", "exist", "noent"}]
        /\ tx'.open
    BY <1>2, <1>3
  <2>3. QED
    BY <1>1, <1>4, <1>6, <2>1, <2>2, TypesFromParts DEF TypeOK
<1>8. NothingLeftQueued'
  <2> SUFFICES ASSUME NEW l \in Conn, NEW m \in Range(queue'[l])
               PROVE  ConnOf[m.by] = l /\ at'[m.by] \in {"queue", "flush"} /\ m \in asked'[m.by]
    BY DEF NothingLeftQueued
  <2>1. l # k /\ m \in Range(queue[l])
    BY <1>4, RangeEmpty
  <2>2. m \in Changes
    BY <1>1, <2>1, TheTypes
  <2>3. m.by \in Caller
    BY <2>2 DEF Changes
  <2>4. ConnOf[m.by] = l /\ at[m.by] \in {"queue", "flush"} /\ m \in asked[m.by]
    BY <2>1 DEF IInv, NothingLeftQueued
  <2>5. QED
    BY <1>5, <2>1, <2>3, <2>4 DEF Same
<1>9. AskedNow(c)'
  BY <1>1, <1>5 DEF IInv, AskedNow
<1>10. ASSUME Alone(c) PROVE AloneAt(c)'
  <2>1. asked[c] = Range(queue[k]) /\ (job[c].kind # "flushAll" => Len(queue[k]) <= 1)
    BY <1>1, <1>10 DEF IInv, AloneAt
  <2>2. job[c].kind # "flushAll" => Len(queue[k]) = 1
    <3>1. Len(queue[k]) <= 1 => Len(queue[k]) = 1
      BY <1>1, <1>2, OneLong
    <3>2. QED
      BY <2>1, <3>1
  <2>3. Len(queue'[k]) <= 1
    BY <1>4
  <2>4. /\ tx'.left = queue[k] /\ tx'.errs = {} /\ tx'.elems = elems'
        /\ asked'[c] = Range(queue[k]) /\ job'[c].kind = job[c].kind
    <3>1. tx'.left = queue[k] /\ tx'.errs = {} /\ tx'.elems = elems
      BY <1>3
    <3>2. elems' = elems /\ asked' = asked /\ job' = job
      BY <1>1
    <3>3. QED
      BY <2>1, <3>1, <3>2
  <2>5. QED
    BY <1>5, <2>2, <2>3, <2>4 DEF AloneAt
<1>11. \A d \in Caller : AskedNow(d)' /\ (Alone(d) => AloneAt(d)')
  BY <1>4, <1>5, <1>9, <1>10, OtherCallers
<1>12. /\ \A l \in Conn : \A m \in Range(queue'[l]) : OneNetwork(m)
       /\ \A m \in Range(tx'.left) : OneNetwork(m)
  BY <1>2, <1>3, <1>4, RangeEmpty DEF IInv
<1>13. Apart(elems)' /\ Apart(tx.elems)'
  BY <1>1, <1>3 DEF IInv, Apart
<1>14. QED
  BY <1>7, <1>8, <1>11, <1>12, <1>13 DEF IInv, Alone

\* The kernel evaluates the next change of the batch.
LEMMA StepEvaluate == ASSUME IInv, Evaluate PROVE IInv'
<1> DEFINE m == Head(tx.left)
           cur == tx.elems[m.set]
           wrong == Wrong(m, cur)
<1>1. /\ TypeOK /\ CallersOK /\ tx.left # <<>> /\ tx.left \in Seq(Changes) /\ tx.elems \in Sets
      /\ elems' = elems /\ queue' = queue /\ job' = job /\ at' = at /\ said' = said
      /\ asked' = asked /\ faults' = faults
  BY CallersTyped, TheTypes DEF IInv, Evaluate
<1>2. /\ m \in Changes /\ Tail(tx.left) \in Seq(Changes)
      /\ Range(tx.left) = {m} \cup Range(Tail(tx.left)) /\ Len(tx.left) \in Nat
      /\ Len(tx.left) = 1 => Tail(tx.left) = <<>>
  BY <1>1, RangeTail
<1>3. m.set \in SetName /\ OneNetwork(m)
  BY <1>2 DEF Changes, IInv
<1>4. /\ tx'.by = tx.by /\ tx'.open = tx.open /\ tx'.left = Tail(tx.left)
      /\ tx'.errs = tx.errs \cup wrong
      /\ tx'.elems = [tx.elems EXCEPT ![m.set] = IF wrong = {} THEN Effect(m, cur) ELSE cur]
      /\ tx' \in [by : {tx'.by}, open : {tx'.open}, left : {tx'.left}, elems : {tx'.elems},
                  errs : {tx'.errs}]
  <2>1. tx \in [by : {tx.by}, open : {tx.open}, left : {tx.left}, elems : {tx.elems},
                errs : {tx.errs}]
    BY <1>1 DEF TypeOK
  <2>2. tx.elems \in [SetName -> SUBSET (Intervals \cup Key)]
    BY <1>1 DEF Sets
  <2>3. QED
    BY <1>3, <2>1, <2>2 DEF Evaluate
<1>5. wrong \subseteq {"invalid", "exist", "noent"}
  BY DEF Wrong
<1>6. tx'.elems = IF wrong = {} THEN [tx.elems EXCEPT ![m.set] = Effect(m, @)] ELSE tx.elems
  <2>1. tx.elems \in [SetName -> SUBSET (Intervals \cup Key)]
    BY <1>1 DEF Sets
  <2>2. QED
    BY <1>3, <1>4, <2>1
<1> HIDE DEF wrong, m
<1>7. tx'.elems \in Sets /\ Apart(tx'.elems)
  <2>1. Apart(tx.elems)
    BY DEF IInv
  <2>2. CASE wrong = {}
    <3>1. Wrong(m, tx.elems[m.set]) = {}
      BY <2>2 DEF wrong
    <3>2. tx'.elems = [tx.elems EXCEPT ![m.set] = Effect(m, @)]
      BY <1>6, <2>2
    <3>3. /\ [tx.elems EXCEPT ![m.set] = Effect(m, @)] \in Sets
          /\ Apart([tx.elems EXCEPT ![m.set] = Effect(m, @)])
      <4> DEFINE sets == tx.elems
      <4>1. sets \in Sets /\ Apart(sets) /\ Wrong(m, sets[m.set]) = {}
        BY <1>1, <2>1, <3>1
      <4> HIDE DEF sets
      <4>2. /\ [sets EXCEPT ![m.set] = Effect(m, @)] \in Sets
            /\ Apart([sets EXCEPT ![m.set] = Effect(m, @)])
        BY <1>2, <1>3, <4>1, StaysApart
      <4>3. QED
        BY <4>2 DEF sets
    <3>4. QED
      BY <3>2, <3>3
  <2>3. CASE wrong # {}
    BY <1>1, <1>6, <2>1, <2>3
  <2>4. QED
    BY <2>2, <2>3
<1>8. TypeOK'
  <2>1. tx.open
    BY <1>1 DEF TypeOK
  <2>2. tx' \in [by : Caller \cup {None}, open : BOOLEAN, left : Seq(Changes), elems : Sets,
                 errs : SUBSET {"invalid", "exist", "noent"}]
    <3>1. /\ tx'.by \in Caller \cup {None} /\ tx'.open \in BOOLEAN /\ tx'.left \in Seq(Changes)
          /\ tx.errs \subseteq {"invalid", "exist", "noent"}
      BY <1>1, <1>2, <1>4, TheTypes
    <3>2. tx'.elems \in Sets /\ tx'.errs \subseteq {"invalid", "exist", "noent"}
      BY <1>4, <1>5, <1>7, <3>1
    <3>3. tx' \in [by : {tx'.by}, open : {tx'.open}, left : {tx'.left}, elems : {tx'.elems},
                   errs : {tx'.errs}]
      BY <1>4
    <3>4. QED
      BY <3>1, <3>2, <3>3
  <2>3. QED
    BY <1>1, <1>4, <2>1, <2>2 DEF TypeOK
<1>9. \A c \in Caller : Same(c) /\ ConnOf[c] \in Conn
  BY <1>1 DEF Same
<1>10. ASSUME NEW c \in Caller, Alone(c) PROVE AloneAt(c)'
  <2>1. CASE at[c] # "sent"
    BY <1>1, <1>9, <1>10, <2>1, AloneFrame DEF IInv
  <2>2. CASE at[c] = "sent"
    <3>1. AloneAt(c) /\ AskedNow(c) /\ m \in asked[c] /\ Range(tx'.left) \subseteq asked[c]
      BY <1>2, <1>4, <1>10, <2>2 DEF IInv, AloneAt
    <3>2. wrong = {} => InEffect(m, tx'.elems[m.set])
      <4>1. wrong = {} => tx'.elems[m.set] = Effect(m, cur)
        BY <1>1, <1>3, <1>6 DEF Sets
      <4>2. wrong = {} => InEffect(m, Effect(m, cur))
        BY <1>2 DEF InEffect, Effect, Changes
      <4>3. QED
        BY <4>1, <4>2
    <3>3. CASE job[c].kind = "flushAll"
      <4>1. m.op = "flush" /\ Effect(m, cur) = {}
        BY <3>1, <3>3 DEF AskedNow, Effect
      <4>2. wrong = {}
        BY <4>1 DEF Wrong, wrong
      <4>3. \A s \in SetName : tx'.elems[s] = {} \/ tx'.elems[s] = tx.elems[s]
        BY <1>1, <1>3, <1>6, <4>1, <4>2 DEF Sets
      <4>4. ASSUME NEW n \in asked[c]
            PROVE  n \in Range(tx'.left) \/ tx'.errs # {} \/ InEffect(n, tx'.elems[n.set])
        <5>1. n \in Range(tx.left) \/ tx.errs # {} \/ InEffect(n, tx.elems[n.set])
          BY <2>2, <3>1 DEF AloneAt
        <5>2. n.op = "flush" /\ n.set \in SetName
          <6>1. n \in Changes
            BY <1>1 DEF CallersOK
          <6>2. QED
            BY <3>1, <3>3, <6>1 DEF AskedNow, Changes
        <5>3. QED
          BY <1>2, <1>4, <3>2, <4>2, <4>3, <5>1, <5>2 DEF InEffect
      <4>5. QED
        BY <1>1, <2>2, <3>1, <3>3, <4>4 DEF AloneAt
    <3>4. CASE job[c].kind # "flushAll"
      <4>1. Len(tx.left) = 1 /\ tx.errs = {} /\ tx.elems = elems /\ Len(queue[ConnOf[c]]) <= 1
        BY <1>1, <2>2, <3>1, <3>4 DEF AloneAt
      <4>2. tx'.left = <<>> /\ tx'.errs = wrong /\ \A n \in asked[c] : n = m
        BY <1>2, <1>4, <3>1, <3>4, <4>1 DEF AskedNow
      <4>3. \A n \in asked[c] : tx'.errs = Wrong(n, elems'[n.set])
        BY <1>1, <4>1, <4>2 DEF wrong
      <4>4. \A n \in asked[c] : tx'.errs # {} \/ InEffect(n, tx'.elems[n.set])
        BY <3>2, <4>2
      <4>5. QED
        BY <1>1, <2>2, <3>1, <3>4, <4>1, <4>2, <4>3, <4>4 DEF AloneAt
    <3>5. QED
      BY <3>3, <3>4
  <2>3. QED
    BY <2>1, <2>2
<1>11. \A c \in Caller : AskedNow(c)'
  BY <1>9, AskedFrame DEF IInv
<1>12. NothingLeftQueued' /\ Apart(elems)'
  BY <1>1 DEF IInv, NothingLeftQueued, Apart
<1>13. /\ \A k \in Conn : \A n \in Range(queue'[k]) : OneNetwork(n)
       /\ \A n \in Range(tx'.left) : OneNetwork(n)
  BY <1>1, <1>2, <1>4 DEF IInv
<1>14. Apart(tx.elems)'
  BY <1>7
<1>15. QED
  BY <1>8, <1>10, <1>11, <1>12, <1>13, <1>14 DEF IInv, Alone

\* a process ends,
LEMMA StepCrash == ASSUME IInv, NEW k \in Conn, Crash(k) PROVE IInv'
<1> DEFINE gone == {c \in Caller : ConnOf[c] = k}
<1>1. /\ TypeOK /\ CallersOK /\ faults' = faults + 1 /\ faults \in Nat /\ elems' = elems
      /\ queue' = [queue EXCEPT ![k] = <<>>]
      /\ tx' = [tx EXCEPT !.by = IF @ \in gone THEN None ELSE @]
      /\ at' = [c \in Caller |-> IF c \in gone THEN "idle" ELSE at[c]]
      /\ said' = [c \in Caller |-> IF c \in gone THEN "none" ELSE said[c]]
      /\ job' = [c \in Caller |-> IF c \in gone THEN NoRequest ELSE job[c]]
      /\ asked' = [c \in Caller |-> IF c \in gone THEN {} ELSE asked[c]]
  BY CallersTyped DEF IInv, Crash, TypeOK
<1>2. \A c \in Caller : /\ c \in gone => at'[c] = "idle" /\ asked'[c] = {} /\ job'[c] = NoRequest
                        /\ c \notin gone => Same(c) /\ said'[c] = said[c]
  BY <1>1 DEF Same
<1>3. CallersOK'
  <2>1. NoRequest \in Requests
    BY DEF Requests
  <2>2. /\ job' \in [Caller -> Requests] /\ asked' \in [Caller -> SUBSET Changes]
        /\ at' \in [Caller -> {"idle", "read", "queue", "flush", "sent"}]
        /\ said' \in [Caller -> {"none", "ok", "refused", "overlaps", "missing", "error"}]
    BY <1>1, <2>1 DEF CallersOK
  <2>3. QED
    BY <1>1, <1>2, <2>2 DEF CallersOK, Same
<1>4. /\ queue' \in [Conn -> Seq(Changes)] /\ queue'[k] = <<>>
      /\ \A l \in Conn : l # k => queue'[l] = queue[l]
  <2>1. <<>> \in Seq(Changes) /\ queue \in [Conn -> Seq(Changes)]
    BY <1>1 DEF TypeOK
  <2>2. QED
    BY <1>1, <2>1
<1>5. /\ tx'.left = tx.left /\ tx'.open = tx.open /\ tx'.elems = tx.elems /\ tx'.errs = tx.errs
      /\ tx'.by = (IF tx.by \in gone THEN None ELSE tx.by)
      /\ tx' \in [by : Caller \cup {None}, open : BOOLEAN, left : Seq(Changes), elems : Sets,
                  errs : SUBSET {"invalid", "exist", "noent"}]
      /\ tx.by \notin gone => tx' = tx
  <2>1. tx \in [by : Caller \cup {None}, open : BOOLEAN, left : Seq(Changes), elems : Sets,
                errs : SUBSET {"invalid", "exist", "noent"}]
    BY <1>1 DEF TypeOK
  <2>2. (IF tx.by \in gone THEN None ELSE tx.by) \in Caller \cup {None}
    BY <2>1
  <2>3. tx' = [tx EXCEPT !.by = IF tx.by \in gone THEN None ELSE tx.by]
    BY <1>1
  <2> HIDE DEF gone
  <2>4. QED
    BY <2>1, <2>2, <2>3
<1>6. TypeOK'
  <2>1. \A d \in Caller : at'[d] = "sent" <=> tx'.by = d
    BY <1>1, <1>2, <1>5 DEF TypeOK, Same
  <2>2. tx'.by # None \/ tx'.left # <<>> => tx'.open
    BY <1>1, <1>5 DEF TypeOK
  <2>3. elems' \in Sets /\ faults' \in Nat
    BY <1>1 DEF TypeOK
  <2>4. QED
    BY <1>3, <1>4, <1>5, <2>1, <2>2, <2>3, TypesFromParts
<1>7. NothingLeftQueued'
  <2> SUFFICES ASSUME NEW l \in Conn, NEW m \in Range(queue'[l])
               PROVE  ConnOf[m.by] = l /\ at'[m.by] \in {"queue", "flush"} /\ m \in asked'[m.by]
    BY DEF NothingLeftQueued
  <2>1. l # k /\ m \in Range(queue[l])
    BY <1>4, RangeEmpty
  <2>2. m \in Changes
    BY <1>1, <2>1, TheTypes
  <2>3. m.by \in Caller
    BY <2>2 DEF Changes
  <2>4. ConnOf[m.by] = l /\ at[m.by] \in {"queue", "flush"} /\ m \in asked[m.by]
    BY <2>1 DEF IInv, NothingLeftQueued
  <2>5. QED
    BY <1>2, <2>1, <2>3, <2>4 DEF Same
<1>8. ASSUME NEW c \in Caller PROVE AskedNow(c)' /\ (Alone(c) => AloneAt(c)')
  <2>1. CASE c \in gone
    <3>1. job'[c].kind = "none"
      BY <1>2, <2>1 DEF NoRequest, Request
    <3>2. queue'[ConnOf[c]] = <<>>
      BY <1>4, <2>1
    <3>3. AskedNow(c)'
      BY <1>2, <2>1 DEF AskedNow
    <3>4. AloneAt(c)'
      BY <1>2, <2>1, <3>1, <3>2, RangeEmpty DEF AloneAt
    <3>5. QED
      BY <3>3, <3>4
  <2>2. CASE c \notin gone
    <3>1. Same(c) /\ queue'[ConnOf[c]] = queue[ConnOf[c]]
      BY <1>2, <1>4, <2>2
    <3>2. at[c] = "sent" => UNCHANGED <<tx, elems>>
      BY <1>1, <1>5, <2>2 DEF TypeOK
    <3>3. QED
      BY <3>1, <3>2, AskedFrame, AloneFrame DEF IInv
  <2>3. QED
    BY <2>1, <2>2
<1>9. /\ \A l \in Conn : \A n \in Range(queue'[l]) : OneNetwork(n)
      /\ \A n \in Range(tx'.left) : OneNetwork(n)
  BY <1>4, <1>5, RangeEmpty DEF IInv
<1>10. Apart(elems)' /\ Apart(tx.elems)'
  BY <1>1, <1>5 DEF IInv, Apart
<1>11. QED
  BY <1>6, <1>7, <1>8, <1>9, <1>10 DEF IInv, Alone

\* or nothing happens.
LEMMA StepStutter == ASSUME IInv, UNCHANGED vars PROVE IInv'
<1>1. /\ elems' = elems /\ tx' = tx /\ queue' = queue /\ job' = job /\ at' = at /\ said' = said
      /\ asked' = asked /\ faults' = faults
  BY DEF vars
<1>2. TypeOK'
  BY <1>1 DEF IInv, TypeOK
<1>3. NothingLeftQueued' /\ Apart(elems)' /\ Apart(tx.elems)'
  BY <1>1 DEF IInv, NothingLeftQueued, Apart
<1>4. \A c \in Caller : AskedNow(c)' /\ (Alone(c) => AloneAt(c)')
  BY <1>1, AskedFrame, AloneFrame DEF IInv, Same
<1>5. /\ \A k \in Conn : \A m \in Range(queue'[k]) : OneNetwork(m)
      /\ \A m \in Range(tx'.left) : OneNetwork(m)
  BY <1>1 DEF IInv
<1>6. QED
  BY <1>2, <1>3, <1>4, <1>5 DEF IInv, Alone

\* It holds in the beginning,
LEMMA Starts == ASSUME Init PROVE IInv
<1>1. TypeOK
  <2>1. NoRequest \in Requests /\ [s \in SetName |-> {}] \in Sets /\ <<>> \in Seq(Changes)
    BY DEF Requests, Sets
  <2>2. QED
    BY <2>1 DEF Init, TypeOK, NoTx
<1>2. NothingLeftQueued /\ \A k \in Conn : \A m \in Range(queue[k]) : OneNetwork(m)
  BY RangeEmpty DEF Init, NothingLeftQueued
<1>3. tx.left = <<>> /\ Apart(elems) /\ Apart(tx.elems)
  BY DEF Init, NoTx, Apart, SetName
<1>4. \A c \in Caller : AskedNow(c) /\ (Alone(c) => AloneAt(c))
  <2>1. \A c \in Caller : at[c] = "idle" /\ asked[c] = {} /\ queue[ConnOf[c]] = <<>>
    BY DEF Init
  <2>2. QED
    BY <2>1, RangeEmpty DEF AskedNow, AloneAt
<1>5. QED
  BY <1>1, <1>2, <1>3, <1>4, RangeEmpty DEF IInv

\* every step keeps it,
LEMMA Steps == ASSUME IInv, [Next]_vars PROVE IInv'
BY StepBegin, StepRead, StepRefuse, StepQueue, StepFlushNothing, StepSend, StepSendFails,
   StepEvaluate, StepAnswer, StepAnswerLost, StepNobodyListens, StepCrash, StepStutter DEF Next

\* and so it always holds.
LEMMA Inductive == Spec => []IInv
<1>1. Init => IInv
  BY Starts
<1>2. IInv /\ [Next]_vars => IInv'
  BY Steps
<1>3. QED
  BY <1>1, <1>2, PTL DEF Spec
-----------------------------------------------------------------------------
(* Who is alone with its connection is answered truly.                     *)

\* The kernel has made every change of a batch without errors.
LEMMA MadeWhenSent ==
    ASSUME IInv, NEW c \in Caller, Alone(c), at[c] = "sent", tx.left = <<>>, tx.errs = {}
    PROVE  \A m \in asked[c] : InEffect(m, tx.elems[m.set])
BY RangeEmpty DEF IInv, AloneAt

\* "exist" and "noent" are about the one change of the batch.
LEMMA WhatIsWrong ==
    ASSUME IInv, NEW c \in Caller, Alone(c), at[c] = "sent", tx.left = <<>>, tx.errs # {},
           job[c].kind # "flushAll", NEW m \in asked[c]
    PROVE  /\ "exist" \in tx.errs =>
                 \E e \in m.items, f \in elems[m.set] : e # f /\ Overlap(e, f)
           /\ "noent" \in tx.errs => ~(m.items \subseteq elems[m.set])
<1>1. Len(tx.left) # 1
  OBVIOUS
<1>2. tx.errs = Wrong(m, elems[m.set])
  BY <1>1 DEF IInv, AloneAt
<1>3. QED
  BY <1>2 DEF Wrong

True(c) ==
    Alone(c) /\ at[c] \in {"flush", "sent"} /\ at'[c] \notin {"flush", "sent"} =>
        \A m \in asked[c] :
            /\ Succeeds(c) => InEffect(m, elems'[m.set])
            /\ said'[c] = "overlaps" =>
                  \E e \in m.items, f \in elems'[m.set] : e # f /\ Overlap(e, f)
            /\ said'[c] = "missing" => ~(m.items \subseteq elems'[m.set])

\* The kernel's answer is passed on.
LEMMA AnswerTrue == ASSUME IInv, Answer, NEW c \in Caller PROVE True(c)
<1>1. /\ CallersOK /\ TypeOK /\ tx.by \in Caller /\ at[tx.by] = "sent" /\ Finish
      /\ tx.left = <<>> /\ elems' = IF tx.errs = {} THEN tx.elems ELSE elems
      /\ IF tx.errs = {} THEN Done(tx.by) ELSE Return(tx.by, Reading(job[tx.by].kind, tx.errs))
  BY CallersTyped, TheTypes DEF IInv, Answer, Finish
<1>2. Reading(job[tx.by].kind, tx.errs) \in {"overlaps", "missing", "error"}
  BY DEF Reading
<1>3. CASE c # tx.by
  <2>1. Same(c)
    BY <1>1, <1>2, <1>3, DoneTypes, ReturnTypes
  <2>2. QED
    BY <2>1 DEF Same, True
<1>4. CASE c = tx.by /\ tx.errs = {}
  <2>1. said'[c] \in {"none", "ok"}
    BY <1>1, <1>4, DoneTypes
  <2>2. Alone(c) => \A m \in asked[c] : InEffect(m, elems'[m.set])
    BY <1>1, <1>4, MadeWhenSent
  <2>3. QED
    BY <2>1, <2>2 DEF True
<1>5. CASE c = tx.by /\ tx.errs # {}
  <2>1. at'[c] = "idle" /\ said'[c] = Reading(job[c].kind, tx.errs) /\ elems' = elems
    BY <1>1, <1>2, <1>5, ReturnTypes
  <2>2. ~Succeeds(c)
    BY <1>2, <1>5, <2>1 DEF Succeeds
  <2>3. /\ said'[c] = "overlaps" => "exist" \in tx.errs /\ job[c].kind = "addIPs"
        /\ said'[c] = "missing" => "noent" \in tx.errs /\ job[c].kind = "deleteIPs"
    BY <2>1 DEF Reading
  <2>4. QED
    BY <1>1, <1>5, <2>1, <2>2, <2>3, WhatIsWrong DEF True
<1>6. QED
  BY <1>3, <1>4, <1>5

\* A caller that returns with an error has not succeeded.
LEMMA ErrorIsTrue ==
    ASSUME NEW c \in Caller, at'[c] = "idle", said'[c] \in {"none", "error"} PROVE True(c)
BY DEF True, Succeeds

\* A caller that does not return now has no answer.
LEMMA SameIsTrue == ASSUME NEW c \in Caller, at'[c] = at[c] \/ at[c] \notin {"flush", "sent"} PROVE True(c)
BY DEF True

\* No step of anybody makes an answer untrue.
LEMMA TrueSteps == ASSUME IInv, [Next]_vars, NEW c \in Caller PROVE True(c)
<1>1. TypeOK /\ CallersOK
  BY CallersTyped DEF IInv
<1>2. ASSUME NEW d \in Caller,
             \/ \E r \in Asks[d] : Begin(d, r)
             \/ Read(d) \/ Refuse(d) \/ Queue(d) \/ FlushNothing(d) \/ Send(d) \/ SendFails(d)
      PROVE  True(c)
  <2>1. CASE d = c /\ FlushNothing(d)
    <3>1. Alone(c) => asked[c] = {}
      BY <2>1, RangeEmpty DEF IInv, AloneAt, FlushNothing
    <3>2. QED
      BY <3>1 DEF True
  <2>2. CASE d = c /\ SendFails(d)
    BY <1>1, <2>2, ReturnTypes, ErrorIsTrue DEF SendFails
  <2>3. CASE d = c /\ Send(d)
    <3>1. at'[c] = "sent"
      BY <1>1, <2>3 DEF Send, CallersOK
    <3>2. QED
      BY <3>1 DEF True
  <2>4. CASE d = c /\ ((\E r \in Asks[d] : Begin(d, r)) \/ Read(d) \/ Refuse(d) \/ Queue(d))
    <3>1. at[c] \in {"idle", "read", "queue"}
      BY <2>4 DEF Begin, Read, Refuse, Queue
    <3>2. QED
      BY <3>1, SameIsTrue
  <2>5. CASE d # c
    <3>1. at'[c] = at[c]
      <4>1. \A a : Return(d, a) => at'[c] = at[c]
        BY <1>1, <2>5 DEF Return, CallersOK
      <4>2. Done(d) => at'[c] = at[c]
        BY <1>1, <2>5, <4>1 DEF Done, CallersOK
      <4>3. QED
        BY <1>1, <1>2, <2>5, <4>1, <4>2
           DEF Begin, Read, Refuse, Queue, FlushNothing, Send, SendFails, CallersOK
    <3>2. QED
      BY <3>1, SameIsTrue
  <2>6. QED
    BY <1>2, <2>1, <2>2, <2>3, <2>4, <2>5
<1>3. CASE Evaluate \/ NobodyListens \/ UNCHANGED vars
  BY <1>3, SameIsTrue DEF Evaluate, NobodyListens, vars
<1>4. CASE Answer
  BY <1>4, AnswerTrue
<1>5. CASE AnswerLost
  <2>1. tx.by \in Caller /\ Return(tx.by, "error")
    BY <1>1, <1>5, TheTypes DEF AnswerLost
  <2>2. CASE c = tx.by
    BY <1>1, <2>1, <2>2, ReturnTypes, ErrorIsTrue
  <2>3. CASE c # tx.by
    BY <1>1, <2>1, <2>3, ReturnTypes, SameIsTrue DEF Same
  <2>4. QED
    BY <2>2, <2>3
<1>6. ASSUME NEW k \in Conn, Crash(k) PROVE True(c)
  <2>1. /\ at'[c] = (IF ConnOf[c] = k THEN "idle" ELSE at[c])
        /\ ConnOf[c] = k => said'[c] = "none"
    BY <1>6 DEF Crash
  <2>2. QED
    BY <2>1, ErrorIsTrue, SameIsTrue
<1>7. QED
  BY <1>2, <1>3, <1>4, <1>5, <1>6 DEF Next

-----------------------------------------------------------------------------
\* A network is read from its interval, and the interval of what is read is the same.
LEMMA PrefixRead ==
    ASSUME NEW p \in Prefix, p.addr = p.lo
    PROVE  /\ p.size # 2 => reconstructNftIPRange(Interval(p).start, Interval(p).end) = p
           /\ Interval(reconstructNftIPRange(Interval(p).start, Interval(p).end)) = Interval(p)
<1>1. PICK h \in 0 .. Bits : p.size = TwoTo[h] /\ p.lo \in Networks(h)
  BY PrefixAssumption
<1>2. p \in [addr : 0 .. Top, lo : 0 .. Top, size : Nat \ {0}] /\ Top \in Nat
  OBVIOUS
<1>3. p = [addr |-> p.lo, lo |-> p.lo, size |-> p.size] /\ p.lo \in Nat /\ p.size \in Nat \ {0}
  BY <1>2
<1> DEFINE r == reconstructNftIPRange(Interval(p).start, Interval(p).end)
<1>4. CASE p.size = 1 \/ p.size = 2
  <2>1. Interval(p) = [start |-> p.lo, end |-> p.lo + 1]
    BY <1>3, <1>4 DEF Interval, ipIntervalEnd
  <2>2. r = [addr |-> p.lo, lo |-> p.lo, size |-> 1]
    BY <2>1 DEF reconstructNftIPRange
  <2>3. Interval(r) = [start |-> p.lo, end |-> p.lo + 1]
    BY <2>2 DEF Interval, ipIntervalEnd
  <2>4. p.size # 2 => r = p
    BY <1>3, <1>4, <2>2
  <2> QED
    BY <2>1, <2>3, <2>4
<1>5. CASE p.size # 1 /\ p.size # 2
  <2>1. h \in 1 .. Bits /\ h # 1
    <3>1. TwoTo[0] = 1 /\ TwoTo[0 + 1] = 2 * TwoTo[0]
      BY TwoToNext
    <3>2. TwoTo[1] = 2
      BY <3>1
    <3>3. h # 0 /\ h # 1
      BY <1>1, <1>5, <3>1, <3>2
    <3> QED
      BY <1>1, <3>3, BaseType
  <2>2. Interval(p) = [start |-> p.lo, end |-> p.lo + p.size - 1]
    BY <1>3, <1>5 DEF Interval, ipIntervalEnd
  <2>3. /\ LastAddr(p.lo, h) = p.lo + p.size - 1
        /\ reconstructNftIPRange(p.lo, LastAddr(p.lo, h)).size = p.size
    BY <1>1, <2>1, BytesCorrect DEF NetworksReadBack
  <2>4. r.size = p.size
    BY <2>2, <2>3
  <2>5. r = [addr |-> p.lo, lo |-> p.lo, size |-> r.size]
    BY <2>2 DEF reconstructNftIPRange
  <2>6. r = p
    BY <1>3, <2>4, <2>5
  <2> QED
    BY <2>6
<1> QED
  BY <1>4, <1>5

-----------------------------------------------------------------------------
\* Every state is well typed: a caller at work has something to do, the sets of
\* the kernel hold elements of their kind.
THEOREM TypeCorrect == Spec => []TypeOK
<1>1. IInv => TypeOK
  BY DEF IInv
<1>2. QED
  BY <1>1, Inductive, PTL

\* Whoever returns leaves nothing at its connection for somebody else's Flush, at
\* any number of callers that share connections (addIPs, FlushAllRules).
THEOREM NothingLeftCorrect == Spec => []NothingLeftQueued
<1>1. IInv => NothingLeftQueued
  BY DEF IInv
<1>2. QED
  BY <1>1, Inductive, PTL

\* In a set of addresses no network is inside another, for any prefixes, except
\* for what the end that ipIntervalEnd gives leaves out.
THEOREM NestedCorrect == Spec => []NestedOnlyAtLast
<1>1. IInv => NestedOnlyAtLast
  <2> SUFFICES ASSUME IInv, NEW set \in IPSet
               PROVE  /\ \A e \in elems[set] : \E p \in Prefix : p.addr = p.lo /\ e = Interval(p)
                      /\ \A p \in Prefix : \A q \in Prefix :
                            Has(set, p) /\ Has(set, q) /\ Inside(p, q) =>
                                \/ p.lo = q.lo /\ p.size = q.size
                                \/ p.size = 1 /\ p.lo = q.lo + q.size - 1
                                \/ p.size = 1 /\ q.size = 2
    BY DEF NestedOnlyAtLast
  <2>1. \A e \in elems[set] : \E p \in Prefix : p.addr = p.lo /\ e = Interval(p)
    BY DEF IInv, Apart
  <2>2. ASSUME NEW p \in Prefix, NEW q \in Prefix, Has(set, p), Has(set, q), Inside(p, q)
        PROVE  \/ p.lo = q.lo /\ p.size = q.size
               \/ p.size = 1 /\ p.lo = q.lo + q.size - 1
               \/ p.size = 1 /\ q.size = 2
    <3>1. Interval(p) = Interval(q) \/ ~Overlap(Interval(p), Interval(q))
      BY <2>2 DEF IInv, Apart, Has
    <3>2. p.addr = p.lo /\ q.addr = q.lo
      BY <2>2 DEF Has
    <3>3. QED
      BY <2>2, <3>1, <3>2, NestedApart
  <2>3. QED
    BY <2>1, <2>2
<1>2. QED
  BY <1>1, Inductive, PTL

\* What is listed of a set is what was added to it, and a listed prefix names the
\* element it was read from, for addresses of every width (reconstructNftIPRange).
THEOREM ReadBackCorrect == Spec => []ReadBack
<1>1. IInv => ReadBack
  <2>1. ASSUME NEW p \in Prefix, p.addr = p.lo
        PROVE  /\ p.size # 2 => reconstructNftIPRange(Interval(p).start, Interval(p).end) = p
               /\ Interval(reconstructNftIPRange(Interval(p).start, Interval(p).end)) = Interval(p)
    BY <2>1, PrefixRead
  <2>2. SUFFICES ASSUME IInv, NEW set \in IPSet
                 PROVE  /\ \A p \in Prefix : Has(set, p) /\ p.size # 2 => p \in Listed(set)
                        /\ \A e \in elems[set] : Interval(reconstructNftIPRange(e.start, e.end)) = e
    BY DEF ReadBack
  <2>3. \A e \in elems[set] : \E p \in Prefix : p.addr = p.lo /\ e = Interval(p)
    BY <2>2 DEF IInv, Apart
  <2>4. ASSUME NEW p \in Prefix, Has(set, p), p.size # 2 PROVE p \in Listed(set)
    BY <2>1, <2>4 DEF Has, Listed
  <2>5. ASSUME NEW e \in elems[set] PROVE Interval(reconstructNftIPRange(e.start, e.end)) = e
    BY <2>1, <2>3
  <2> QED
    BY <2>4, <2>5
<1>2. QED
  BY <1>1, Inductive, PTL

\* Who has a connection of its own hears what the kernel has done.
THEOREM AnswersCorrect == Spec => AnswersTrue
<1>1. IInv /\ [Next]_vars => [\A c \in Caller :
          Alone(c) /\ at[c] \in {"flush", "sent"} /\ at'[c] \notin {"flush", "sent"} =>
              \A m \in asked[c] :
                  /\ Succeeds(c) => InEffect(m, elems'[m.set])
                  /\ said'[c] = "overlaps" =>
                        \E e \in m.items, f \in elems'[m.set] : e # f /\ Overlap(e, f)
                  /\ said'[c] = "missing" => ~(m.items \subseteq elems'[m.set])]_vars
  BY TrueSteps DEF True
<1>2. QED
  BY <1>1, Inductive, PTL DEF Spec, AnswersTrue
=============================================================================
