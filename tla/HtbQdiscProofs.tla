--------------------------- MODULE HtbQdiscProofs ---------------------------
(***************************************************************************)
(* The qdisc of an interface, for any processes, demands and faults, and   *)
(* for words of any size: what the classes share, where half-made qdiscs   *)
(* come from, and that its seven requests are one qdisc to the interface   *)
(* manager.                                                                *)
(***************************************************************************)
EXTENDS HtbQdisc, TLAPS

USE HtbAssumption

\* What a process may be at.
Points == {"idle", "find", "root", "findOld", "delete"} \cup Pieces

\* The points are different, and follow one another.
LEMMA ThePoints ==
    /\ \A o \in ClassName : /\ o \in Pieces /\ o \notin {"idle", "find", "root", "findOld", "delete"}
                            /\ o \notin FilterName /\ After(o) \in Pieces
    /\ \A o \in FilterName : /\ o \in Pieces /\ o \notin {"idle", "find", "root", "findOld", "delete"}
                             /\ After(o) \in Pieces \cup {"idle"}
                             /\ (After(o) = "idle" <=> o = "lowFilter")
    /\ After("root") = "parent"
BY DEF Pieces, ClassName, FilterName, After

\* A piece comes after what is before it.
LEMMA Successor ==
    ASSUME NEW o \in Pieces
    PROVE  /\ o \notin Before(o)
           /\ o # "lowFilter" => Before(After(o)) = Before(o) \cup {o}
           /\ o = "lowFilter" => Before(o) \cup {o} = Pieces
           /\ o # "parent" => "parent" \in Before(o)
           /\ Before(o) \subseteq Pieces
BY DEF Pieces, ClassName, FilterName, After, Before

\* The classes of a verified demand fit into its total rate.
LEMMA Division ==
    ASSUME NEW d \in Demand, Verify(d)
    PROVE  LET sum == ClassRate(d, "high") + ClassRate(d, "dflt") + ClassRate(d, "low")
           IN  sum <= d.total /\ d.total < sum + 3
<1> DEFINE h == d.total * d.high
           f == d.total * d.dflt
           l == d.total * d.low
<1>1. d.total \in Nat /\ d.high \in Nat /\ d.dflt \in Nat /\ d.low \in Nat
  OBVIOUS
<1>2. h \in Nat /\ f \in Nat /\ l \in Nat
  BY <1>1
<1>3. d.dflt + d.high + d.low = 100
  BY DEF Verify
<1>4. f + h + l = 100 * d.total
  <2>1. f + h + l = d.total * (d.dflt + d.high + d.low)
    BY <1>1
  <2>2. QED
    BY <1>1, <1>3, <2>1
<1>5. /\ ClassRate(d, "high") = h \div 100
      /\ ClassRate(d, "dflt") = f \div 100
      /\ ClassRate(d, "low") = l \div 100
  BY DEF ClassRate
<1> HIDE DEF h, f, l
<1>6. QED
  BY <1>1, <1>2, <1>4, <1>5

\* A rate in bytes is positive when it is so in megabits.
LEMMA BytesPositive ==
    ASSUME NEW mb \in Nat, mb > 0
    PROVE  bytesPerSecFromMBsPerSec(mb) \in Nat /\ bytesPerSecFromMBsPerSec(mb) > 0
<1>1. mb * BytesPerMb \in Nat /\ mb * BytesPerMb > 0
  OBVIOUS
<1>2. QED
  BY <1>1 DEF bytesPerSecFromMBsPerSec, Lesser

\* Rates are numbers of megabits.
LEMMA RateIsNat ==
    ASSUME NEW d \in Demand, NEW k \in ClassName
    PROVE  ClassRate(d, k) \in Nat
<1>1. CASE k = "parent"
  BY <1>1 DEF ClassRate
<1>2. CASE k # "parent"
  <2>1. d.total \in Nat /\ d[k] \in Nat
    BY <1>2 DEF ClassName
  <2>2. d.total * d[k] \in Nat
    BY <2>1
  <2>3. QED
    BY <1>2, <2>2 DEF ClassRate
<1>3. QED
  BY <1>1, <1>2
-----------------------------------------------------------------------------
(* Every step preserves the invariant.                                     *)

\* A process begins: nobody is alone any more.
LEMMA BeginStep ==
    ASSUME IInv, NEW p \in Proc, NEW o, NEW d,
           (o = "find" /\ d \in Demand) \/ (o = "findOld" /\ d = None), Begin(p, o, d)
    PROVE  IInv'
<1>1. /\ ~Busy(p) /\ at' = [at EXCEPT ![p] = o] /\ want' = [want EXCEPT ![p] = d]
      /\ UNCHANGED <<root, class, filter, faults>>
      /\ o \notin Pieces \cup {"idle", "root"} /\ TypeOK
  BY DEF Begin, Goto, IInv, Pieces, ClassName, FilterName
<1>2. /\ \A q \in Proc : q # p => at'[q] = at[q] /\ want'[q] = want[q] /\ (alone'[q] <=> alone[q] /\ ~Busy(q))
      /\ at'[p] = o /\ want'[p] = d /\ (alone'[p] <=> \A q \in Proc : ~Busy(q))
      /\ flawed' = (flawed \/ \E q \in Proc : Busy(q))
  BY <1>1 DEF Begin, TypeOK
<1>3. /\ \A q \in Proc : q # p => (Making(q)' <=> Making(q)) /\ (Busy(q)' <=> Busy(q))
      /\ ~Making(p)' /\ Busy(p)' /\ ~Making(p)
  BY <1>1, <1>2 DEF Making, Busy, Pieces, ClassName, FilterName
<1>4. TypeOK'
  <2>1. alone' \in [Proc -> BOOLEAN] /\ flawed' \in BOOLEAN
    BY <1>1, <1>2 DEF Begin, TypeOK
  <2>2. want' \in [Proc -> Demand \cup {None}] /\ faults' \in Nat
        /\ at' \in [Proc -> {"idle", "find", "root", "findOld", "delete"} \cup ClassName \cup FilterName]
    BY <1>1 DEF TypeOK
  <2>3. \A q \in Proc : Busy(q)' => (want'[q] = None <=> at'[q] \in {"findOld", "delete"})
    BY <1>1, <1>2, <1>3 DEF TypeOK, Busy
  <2>4. QED
    BY <1>1, <2>1, <2>2, <2>3 DEF TypeOK
<1>5. Undisturbed'
  BY <1>1, <1>2, <1>3 DEF Undisturbed
<1>6. \A q \in Proc : Making(q)' /\ ~flawed' => FALSE
  BY <1>2, <1>3 DEF Making, Busy, Pieces, ClassName, FilterName
<1>7. root' /\ ~flawed' /\ (\A q \in Proc : ~Making(q)') =>
         (Complete \/ (class["parent"] # None /\ Starves(class["parent"])))'
  BY <1>1, <1>2, <1>3 DEF IInv, Complete, Starves
<1>8. \A q \in Proc : Making(q)' \/ at'[q] = "root" => Verified(want'[q])
  BY <1>1, <1>2, <1>3 DEF IInv
<1>9. QED
  BY <1>1, <1>4, <1>5, <1>6, <1>7, <1>8 DEF IInv

\* A process moves on, or comes to its end, and changes nothing.
LEMMA MoveStep ==
    ASSUME IInv, NEW p \in Proc, NEW o \in {"idle", "delete", "root"}, Busy(p),
           Goto(p, o), UNCHANGED <<root, class, filter, want, alone>>, faults' \in Nat,
           flawed' \in BOOLEAN, flawed => flawed',
           o = "root" => at[p] = "find" /\ ~root /\ Verified(want[p]),
           o = "delete" => at[p] = "findOld",
           Making(p) => flawed' \/ (class["parent"] # None /\ Starves(class["parent"]))
    PROVE  IInv'
<1>1. /\ at' = [at EXCEPT ![p] = o] /\ TypeOK /\ at \in [Proc -> Points]
      /\ o \notin Pieces
  BY DEF Goto, IInv, Points, Pieces, TypeOK, ClassName, FilterName
<1>2. at'[p] = o /\ \A q \in Proc : q # p => at'[q] = at[q]
  BY <1>1
<1>3. /\ \A q \in Proc : q # p => (Making(q)' <=> Making(q)) /\ (Busy(q)' <=> Busy(q))
      /\ ~Making(p)' /\ \A q \in Proc : Busy(q)' => Busy(q)
  BY <1>1, <1>2 DEF Making, Busy
<1>4. TypeOK'
  <2>1. at' \in [Proc -> {"idle", "find", "root", "findOld", "delete"} \cup ClassName \cup FilterName]
    BY <1>1 DEF TypeOK
  <2>2. \A q \in Proc : Busy(q)' => (want'[q] = None <=> at'[q] \in {"findOld", "delete"})
    BY <1>1, <1>2 DEF TypeOK, Busy
  <2>3. QED
    BY <1>1, <2>1, <2>2 DEF TypeOK
<1>5. Undisturbed'
  <2> SUFFICES ASSUME NEW q \in Proc, Busy(q)', alone[q]
               PROVE  /\ \A r \in Proc : Busy(r)' => r = q
                      /\ at'[q] = "root" => ~root
                      /\ Making(q)' => OwnOnly(q)'
    BY DEF Undisturbed
  <2>1. \A r \in Proc : Busy(r)' => r = q
    BY <1>3 DEF IInv, Undisturbed
  <2>2. at'[q] = "root" => ~root
    BY <1>2, <1>3 DEF IInv, Undisturbed
  <2>3. Making(q)' => OwnOnly(q)'
    <3>1. CASE q = p
      BY <1>3, <3>1
    <3>2. CASE q # p
      BY <1>2, <1>3, <3>2 DEF IInv, Undisturbed, OwnOnly
    <3>3. QED
      BY <3>1, <3>2
  <2>4. QED
    BY <2>1, <2>2, <2>3
<1>6. \A q \in Proc : Making(q)' /\ ~flawed' => alone[q]
  BY <1>3 DEF IInv
<1>7. root /\ ~flawed' /\ (\A q \in Proc : ~Making(q)') =>
         Complete \/ (class["parent"] # None /\ Starves(class["parent"]))
  <2> SUFFICES ASSUME root, ~flawed', \A q \in Proc : ~Making(q)'
               PROVE  Complete \/ (class["parent"] # None /\ Starves(class["parent"]))
    OBVIOUS
  <2>1. CASE Making(p)
    BY <2>1
  <2>2. CASE ~Making(p)
    BY <1>3, <2>2 DEF IInv
  <2>3. QED
    BY <2>1, <2>2
<1>8. \A q \in Proc : Making(q)' \/ at'[q] = "root" => Verified(want[q])
  BY <1>2, <1>3 DEF IInv
<1>9. (Complete' <=> Complete) /\ (Starves(class["parent"])' <=> Starves(class["parent"]))
  BY DEF Complete, Starves
<1>10. QED
  BY <1>4, <1>5, <1>6, <1>7, <1>8, <1>9 DEF IInv

\* InitHTBOnIface finds what is there, CreateQdisc verifies the demand.
LEMMA FindStep == ASSUME IInv, NEW p \in Proc, Find(p) PROVE IInv'
<1>1. at[p] = "find" /\ Busy(p) /\ ~Making(p) /\ want[p] \in Demand
  BY DEF Find, Busy, Making, Pieces, ClassName, FilterName, IInv, TypeOK
<1>2. Goto(p, "idle") \/ (Goto(p, "root") /\ ~root /\ Verified(want[p]))
  <2>1. want[p].total \in Nat
    BY <1>1
  <2>2. QED
    BY <1>1, <2>1 DEF Find, Verified
<1>3. /\ UNCHANGED <<root, class, filter, want, alone, faults, flawed>>
      /\ flawed \in BOOLEAN /\ faults \in Nat
  BY DEF Find, IInv, TypeOK
<1>4. QED
  BY <1>1, <1>2, <1>3, MoveStep

\* FlushQdiscFromIface finds what is there.
LEMMA FindOldStep == ASSUME IInv, NEW p \in Proc, FindOld(p) PROVE IInv'
<1>1. at[p] = "findOld" /\ Busy(p) /\ ~Making(p)
  BY DEF FindOld, Busy, Making, Pieces, ClassName, FilterName
<1>2. Goto(p, "idle") \/ Goto(p, "delete")
  BY DEF FindOld
<1>3. /\ UNCHANGED <<root, class, filter, want, alone, faults, flawed>>
      /\ flawed \in BOOLEAN /\ faults \in Nat
  BY DEF FindOld, IInv, TypeOK
<1>4. QED
  BY <1>1, <1>2, <1>3, MoveStep

\* The root is made: who is alone made it for himself.
LEMMA AddRootStep == ASSUME IInv, NEW p \in Proc, AddRoot(p) PROVE IInv'
<1>1. at[p] = "root" /\ TypeOK /\ Busy(p) /\ ~Making(p) /\ Verified(want[p])
  BY DEF AddRoot, IInv, Busy, Making, Pieces, ClassName, FilterName
<1>2. CASE root
  <2>1. Goto(p, "idle") /\ UNCHANGED <<root, class, filter, want, alone, faults, flawed>>
    BY <1>2 DEF AddRoot
  <2>2. QED
    BY <1>1, <2>1, MoveStep DEF TypeOK
<1>3. CASE ~root
  <2>1. /\ at' = [at EXCEPT ![p] = "parent"] /\ root' = TRUE /\ (flawed' <=> ~alone[p])
        /\ UNCHANGED <<class, filter, want, alone, faults>>
    BY <1>3, ThePoints DEF AddRoot, Goto
  <2>2. at'[p] = "parent" /\ \A q \in Proc : q # p => at'[q] = at[q]
    BY <1>1, <2>1 DEF TypeOK
  <2>3. /\ \A q \in Proc : q # p => (Making(q)' <=> Making(q)) /\ (Busy(q)' <=> Busy(q))
        /\ Making(p)' /\ Busy(p)'
    BY <2>2 DEF Making, Busy, Pieces, ClassName
  <2>4. TypeOK'
    <3>1. at' \in [Proc -> {"idle", "find", "root", "findOld", "delete"} \cup ClassName \cup FilterName]
      BY <1>1, <2>1 DEF TypeOK, ClassName
    <3>2. \A q \in Proc : Busy(q)' => (want'[q] = None <=> at'[q] \in {"findOld", "delete"})
      BY <1>1, <2>1, <2>2, <2>3 DEF TypeOK, Busy
    <3>3. flawed' \in BOOLEAN
      BY DEF AddRoot, IInv, TypeOK
    <3>4. QED
      BY <1>1, <2>1, <3>1, <3>2, <3>3 DEF TypeOK
  <2>5. OwnOnly(p)'
    BY <1>3, <2>1, <2>2 DEF OwnOnly, IInv, Before
  <2>6. Undisturbed'
    <3> SUFFICES ASSUME NEW q \in Proc, Busy(q)', alone[q]
                 PROVE  /\ \A r \in Proc : Busy(r)' => r = q
                        /\ at'[q] # "root"
                        /\ Making(q)' => OwnOnly(q)'
      BY <2>1 DEF Undisturbed
    <3>1. q = p
      BY <1>1, <2>3 DEF IInv, Undisturbed
    <3>2. \A r \in Proc : Busy(r)' => r = q
      BY <1>1, <2>3 DEF IInv, Undisturbed
    <3>3. QED
      BY <2>2, <2>5, <3>1, <3>2
  <2>7. \A q \in Proc : Making(q)' /\ ~flawed' => alone[q]
    BY <1>1, <2>1, <2>3 DEF IInv, Undisturbed, Making, Busy, Pieces, ClassName, FilterName
  <2>8. \A q \in Proc : Making(q)' \/ at'[q] = "root" => Verified(want[q])
    BY <1>1, <2>2, <2>3 DEF IInv
  <2>9. QED
    BY <2>1, <2>3, <2>4, <2>6, <2>7, <2>8 DEF IInv
<1>4. QED
  BY <1>2, <1>3

\* What an undisturbed maker has made when it goes on to the next piece.
LEMMA NextPiece ==
    ASSUME IInv, NEW p \in Proc, NEW o \in Pieces, at[p] = o, alone[p], root' = root,
           at' = [at EXCEPT ![p] = After(o)], want' = want,
           IF o \in ClassName THEN class' = [class EXCEPT ![o] = want[p]] /\ filter' = filter
                              ELSE filter' = filter \cup {o} /\ class' = class
    PROVE  /\ o # "lowFilter" => OwnOnly(p)'
           /\ o = "lowFilter" => Complete'
<1>1. /\ OwnOnly(p) /\ TypeOK /\ at'[p] = After(o) /\ want[p] # None
      /\ class \in [ClassName -> Demand \cup {None}]
  <2>1. Making(p) /\ Busy(p) /\ at[p] \notin {"findOld", "delete"}
    BY DEF Making, Busy, Pieces, ClassName, FilterName
  <2>2. QED
    BY <2>1 DEF IInv, Undisturbed, TypeOK
<1>2. \A k \in ClassName : class'[k] = IF k \in Before(o) \cup {o} THEN want[p] ELSE None
  BY <1>1 DEF OwnOnly
<1>3. filter' = (Before(o) \cup {o}) \cap FilterName
  BY <1>1, ThePoints DEF OwnOnly, Pieces
<1>4. CASE o # "lowFilter"
  BY <1>1, <1>2, <1>3, <1>4, Successor DEF OwnOnly
<1>5. CASE o = "lowFilter"
  BY <1>1, <1>2, <1>3, <1>5, Successor DEF OwnOnly, Complete, Pieces
<1>6. QED
  BY <1>4, <1>5

\* A piece is made.
LEMMA PieceStep ==
    ASSUME IInv, NEW p \in Proc, NEW o \in Pieces, at[p] = o, root,
           at' = [at EXCEPT ![p] = After(o)],
           UNCHANGED <<root, want, alone, flawed, faults>>,
           o \in ClassName => class[o] = None /\ ClassRate(want[p], o) > 0,
           IF o \in ClassName THEN class' = [class EXCEPT ![o] = want[p]] /\ filter' = filter
                              ELSE filter' = filter \cup {o} /\ class' = class
    PROVE  IInv'
<1>1. /\ TypeOK /\ Making(p) /\ Busy(p) /\ Verified(want[p]) /\ want[p] # None
      /\ o \notin {"idle", "find", "root", "findOld", "delete"}
      /\ After(o) \in Pieces \cup {"idle"} /\ (After(o) = "idle" <=> o = "lowFilter")
      /\ "idle" \notin Pieces
      /\ \A x \in Pieces : x \notin {"root", "findOld", "delete"}
  BY ThePoints DEF IInv, Making, Busy, Pieces, ClassName, FilterName, TypeOK, Verified, After
<1>2. at'[p] = After(o) /\ \A q \in Proc : q # p => at'[q] = at[q]
  BY <1>1 DEF TypeOK
<1>3. /\ \A q \in Proc : q # p => (Making(q)' <=> Making(q)) /\ (Busy(q)' <=> Busy(q))
      /\ Making(p)' <=> o # "lowFilter"
      /\ \A q \in Proc : Busy(q)' => Busy(q)
  BY <1>1, <1>2 DEF Making, Busy
<1>4. TypeOK'
  <2>1. at' \in [Proc -> {"idle", "find", "root", "findOld", "delete"} \cup ClassName \cup FilterName]
    BY <1>1 DEF TypeOK, Pieces
  <2>2. class' \in [ClassName -> Demand \cup {None}] /\ filter' \subseteq FilterName
    BY <1>1 DEF TypeOK, Pieces, Verified
  <2>3. \A q \in Proc : Busy(q)' => (want'[q] = None <=> at'[q] \in {"findOld", "delete"})
    BY <1>1, <1>2, <1>3 DEF TypeOK, Busy
  <2>4. QED
    BY <1>1, <2>1, <2>2, <2>3 DEF TypeOK
<1>5. Undisturbed'
  <2> SUFFICES ASSUME NEW q \in Proc, Busy(q)', alone[q]
               PROVE  /\ \A r \in Proc : Busy(r)' => r = q
                      /\ at'[q] # "root"
                      /\ Making(q)' => OwnOnly(q)'
    BY DEF Undisturbed
  <2>1. q = p /\ \A r \in Proc : Busy(r)' => r = q
    BY <1>1, <1>3 DEF IInv, Undisturbed
  <2>2. at'[p] # "root"
    BY <1>1, <1>2
  <2>3. Making(p)' => OwnOnly(p)'
    BY <1>3, <2>1, NextPiece
  <2>4. QED
    BY <2>1, <2>2, <2>3
<1>6. \A q \in Proc : Making(q)' /\ ~flawed' => alone'[q]
  BY <1>1, <1>3 DEF IInv
<1>7. \A q \in Proc : Making(q)' \/ at'[q] = "root" => Verified(want'[q])
  BY <1>1, <1>2, <1>3 DEF IInv
<1>8. \A k \in ClassName : class'[k] # None => Verified(class'[k]) /\ ClassRate(class'[k], k) > 0
  BY <1>1 DEF IInv, TypeOK
<1>9. ASSUME ~flawed, \A q \in Proc : ~Making(q)' PROVE Complete'
  <2>1. o = "lowFilter" /\ alone[p]
    BY <1>1, <1>3, <1>9 DEF IInv
  <2>2. QED
    BY <2>1, NextPiece
<1>10. QED
  BY <1>4, <1>5, <1>6, <1>7, <1>8, <1>9 DEF IInv

\* A class is made or refused.
LEMMA AddClassStep == ASSUME IInv, NEW p \in Proc, AddClass(p) PROVE IInv'
<1>1. at[p] \in ClassName /\ at[p] \in Pieces
  BY DEF AddClass, Pieces
<1>2. CASE Accepts(p, at[p])
  <2>1. /\ root /\ class[at[p]] = None /\ ClassRate(want[p], at[p]) > 0
        /\ class' = [class EXCEPT ![at[p]] = want[p]] /\ at' = [at EXCEPT ![p] = After(at[p])]
        /\ UNCHANGED <<root, filter, want, alone, flawed, faults>>
    BY <1>2 DEF AddClass, Accepts, Goto
  <2>2. QED
    BY <1>1, <2>1, PieceStep
<1>3. CASE ~Accepts(p, at[p])
  <2>1. Goto(p, "idle") /\ UNCHANGED <<root, class, filter, want, alone, flawed, faults>>
    BY <1>3 DEF AddClass
  <2>2. /\ Busy(p) /\ Making(p) /\ Verified(want[p]) /\ flawed \in BOOLEAN /\ faults \in Nat
        /\ at[p] \notin {"find", "findOld"}
    BY <1>1 DEF Busy, Making, Pieces, ClassName, FilterName, IInv, TypeOK
  <2>3. ASSUME ~flawed PROVE class["parent"] # None /\ Starves(class["parent"])
    <3>1. OwnOnly(p) /\ want[p] # None
      BY <2>2, <2>3 DEF IInv, Undisturbed, Verified
    <3>2. root /\ class[at[p]] = None
      BY <1>1, <3>1, Successor DEF OwnOnly
    <3>3. ClassRate(want[p], at[p]) = 0
      BY <1>1, <1>3, <2>2, <3>2, RateIsNat DEF Accepts, Verified
    <3>4. at[p] # "parent"
      BY <2>2, <3>3 DEF Verified, ClassRate
    <3>5. class["parent"] = want[p]
      BY <1>1, <3>1, <3>4, Successor DEF OwnOnly, ClassName
    <3>6. QED
      BY <1>1, <3>1, <3>3, <3>5 DEF Starves
  <2>4. QED
    BY <2>1, <2>2, <2>3, MoveStep
<1>4. QED
  BY <1>2, <1>3

\* A filter is made or refused.
LEMMA AddFilterStep == ASSUME IInv, NEW p \in Proc, AddFilter(p) PROVE IInv'
<1>1. at[p] \in FilterName /\ at[p] \in Pieces /\ at[p] \notin ClassName
  BY ThePoints DEF AddFilter, Pieces
<1>2. CASE root /\ at[p] \notin filter
  <2>1. /\ filter' = filter \cup {at[p]} /\ at' = [at EXCEPT ![p] = After(at[p])]
        /\ UNCHANGED <<root, class, want, alone, flawed, faults>>
    BY <1>2 DEF AddFilter, Goto
  <2>2. QED
    BY <1>1, <1>2, <2>1, PieceStep
<1>3. CASE ~(root /\ at[p] \notin filter)
  <2>1. Goto(p, "idle") /\ UNCHANGED <<root, class, filter, want, alone, flawed, faults>>
    BY <1>3 DEF AddFilter
  <2>2. /\ Busy(p) /\ Making(p) /\ flawed \in BOOLEAN /\ faults \in Nat
        /\ at[p] \notin {"find", "findOld"}
    BY <1>1 DEF Busy, Making, Pieces, ClassName, FilterName, IInv, TypeOK
  <2>3. flawed
    BY <1>1, <1>3, <2>2, Successor DEF IInv, Undisturbed, OwnOnly
  <2>4. QED
    BY <2>1, <2>2, <2>3, MoveStep
<1>4. QED
  BY <1>2, <1>3

\* The root is deleted, and all with it.
LEMMA DeleteStep == ASSUME IInv, NEW p \in Proc, Delete(p) PROVE IInv'
<1>1. /\ TypeOK /\ at[p] = "delete" /\ at' = [at EXCEPT ![p] = "idle"] /\ root' = FALSE
      /\ class' = [k \in ClassName |-> None] /\ filter' = {}
      /\ UNCHANGED <<want, alone, flawed, faults>>
  BY DEF Delete, IInv, Goto
<1>2. /\ at'[p] = "idle" /\ \A q \in Proc : q # p => at'[q] = at[q]
      /\ Busy(p)
  BY <1>1 DEF TypeOK, Busy
<1>3. /\ \A q \in Proc : q # p => (Making(q)' <=> Making(q)) /\ (Busy(q)' <=> Busy(q))
      /\ ~Making(p)' /\ ~Busy(p)'
  BY <1>1, <1>2 DEF Making, Busy, Pieces, ClassName, FilterName
<1>4. TypeOK'
  <2>1. at' \in [Proc -> {"idle", "find", "root", "findOld", "delete"} \cup ClassName \cup FilterName]
    BY <1>1 DEF TypeOK
  <2>2. \A q \in Proc : Busy(q)' => (want'[q] = None <=> at'[q] \in {"findOld", "delete"})
    BY <1>1, <1>2, <1>3 DEF TypeOK, Busy
  <2>3. class' \in [ClassName -> Demand \cup {None}] /\ filter' \subseteq FilterName
    BY <1>1
  <2>4. QED
    BY <1>1, <2>1, <2>2, <2>3 DEF TypeOK
<1>5. \A q \in Proc : Busy(q)' => ~alone[q]
  BY <1>2, <1>3 DEF IInv, Undisturbed
<1>6. QED
  BY <1>1, <1>2, <1>3, <1>4, <1>5 DEF IInv, Undisturbed, Making

\* A request fails, or a process is killed.
LEMMA AbortStep == ASSUME IInv, NEW p \in Proc, Abort(p) PROVE IInv'
<1>1. /\ Goto(p, "idle") /\ Busy(p) /\ flawed' = TRUE /\ faults' \in Nat
      /\ UNCHANGED <<root, class, filter, want, alone>>
  BY DEF Abort, IInv, TypeOK
<1>2. QED
  BY <1>1, MoveStep

\* The invariant holds at the beginning and is preserved.
LEMMA Inductive == Spec => []IInv
<1>1. Init => IInv
  <2> SUFFICES ASSUME Init PROVE IInv
    OBVIOUS
  <2>1. \A p \in Proc : ~Busy(p) /\ ~Making(p) /\ at[p] # "root"
    BY DEF Init, Busy, Making, Pieces, ClassName, FilterName
  <2>2. TypeOK
    BY <2>1 DEF Init, TypeOK
  <2>3. QED
    BY <2>1, <2>2 DEF Init, IInv, Undisturbed
<1>2. IInv /\ [Next]_vars => IInv'
  <2> SUFFICES ASSUME IInv, [Next]_vars PROVE IInv'
    OBVIOUS
  <2>1. ASSUME NEW p \in Proc, NEW d \in Demand, AskCreate(p, d) PROVE IInv'
    BY <2>1, BeginStep DEF AskCreate
  <2>2. ASSUME NEW p \in Proc, AskFlush(p) PROVE IInv'
    BY <2>2, BeginStep DEF AskFlush
  <2>3. CASE UNCHANGED vars
    <3>1. /\ \A p \in Proc : (Busy(p)' <=> Busy(p)) /\ (Making(p)' <=> Making(p))
                             /\ (OwnOnly(p)' <=> OwnOnly(p))
          /\ (Complete' <=> Complete) /\ (Starves(class["parent"])' <=> Starves(class["parent"]))
      BY <2>3 DEF vars, Busy, Making, OwnOnly, Complete, Starves
    <3>2. TypeOK' /\ Undisturbed'
      BY <2>3, <3>1 DEF vars, IInv, TypeOK, Undisturbed
    <3>3. QED
      BY <2>3, <3>1, <3>2 DEF vars, IInv
  <2>4. QED
    BY <2>1, <2>2, <2>3, FindStep, AddRootStep, AddClassStep, AddFilterStep,
       FindOldStep, DeleteStep, AbortStep DEF Next
<1>3. QED
  BY <1>1, <1>2, PTL DEF Spec

\* Who makes a qdisc has a demand, and the classes that are there were demanded
\* (CreateQdisc).
THEOREM TypeCorrect == Spec => []TypeOK
<1>1. IInv => TypeOK
  BY DEF IInv
<1>2. QED
  BY <1>1, Inductive, PTL

\* Whatever is asked for: the classes of a qdisc never exceed its rate together,
\* leave less than 3 Mb/s of it unused, and none has a rate of 0 (getClassRates,
\* CreateQdisc).
THEOREM RatesCorrect == Spec => []RatesFit
<1>1. IInv => RatesFit
  <2> SUFFICES ASSUME IInv, NEW d \in Demand, Complete, OneDemand(d)
               PROVE  LET sum == ClassRate(d, "high") + ClassRate(d, "dflt") + ClassRate(d, "low") IN
                      /\ sum <= d.total /\ d.total < sum + 3
                      /\ \A k \in ClassName : bytesPerSecFromMBsPerSec(ClassRate(d, k)) > 0
    BY DEF RatesFit
  <2>1. /\ \A k \in ClassName : class[k] = d /\ class[k] # None /\ ClassRate(d, k) > 0
        /\ Verify(d)
    BY DEF IInv, Complete, OneDemand, Verified, ClassName
  <2>2. \A k \in ClassName : bytesPerSecFromMBsPerSec(ClassRate(d, k)) > 0
    BY <2>1, RateIsNat, BytesPositive
  <2>3. QED
    BY <2>1, <2>2, Division
<1>2. QED
  BY <1>1, Inductive, PTL

\* A half-made qdisc, which InitHTBOnIface takes for a qdisc, comes from a failing
\* request, a race or a demand that starves a class, and from nothing else.
THEOREM HalfMadeCorrect == Spec => []HalfMadeByFailure
<1>1. IInv => HalfMadeByFailure
  <2> SUFFICES ASSUME IInv, root, ~Complete, \A p \in Proc : ~Busy(p), ~flawed
               PROVE  \E d \in Demand : class["parent"] = d /\ Starves(d)
    BY DEF HalfMadeByFailure
  <2>1. \A p \in Proc : ~Making(p)
    BY DEF Making, Busy, Pieces, ClassName, FilterName
  <2>2. class["parent"] # None /\ Starves(class["parent"])
    BY <2>1 DEF IInv
  <2>3. class["parent"] \in Demand
    BY <2>2 DEF IInv, TypeOK, ClassName
  <2>4. QED
    BY <2>2, <2>3
<1>2. QED
  BY <1>1, Inductive, PTL
-----------------------------------------------------------------------------
(* The refinement.                                                         *)

\* What leaves the pieces alone leaves what is seen of the qdisc alone.
LEMMA SeenSame ==
    ASSUME UNCHANGED <<root, class, filter>>
    PROVE  Seen' = Seen /\ (Complete' <=> Complete)
<1>1. (Complete' <=> Complete) /\ \A d : (OneDemand(d)' <=> OneDemand(d))
  BY DEF Complete, OneDemand
<1>2. QED
  BY <1>1 DEF Seen, State

\* The one qdisc there is.
LEMMA OneQdisc ==
    /\ Qdiscs["this"] = Seen
    /\ Seen' = Seen => Qdiscs' = Qdiscs
    /\ Qdiscs' = [Qdiscs EXCEPT !["this"] = Seen']
    /\ Qdiscs'["this"] = Seen'
BY DEF Qdiscs, This

\* What a process that is at work has of it.
LEMMA WorkSays ==
    ASSUME NEW p \in Proc, Busy(p)
    PROVE  Scopes[p] = This /\ Aims[p] = want[p] /\ (Alones[p] <=> alone[p])
BY DEF Scopes, Aims, Alones

\* Demands are demands before and after.
LEMMA AimsType == ASSUME TypeOK PROVE Aims \in [Proc -> Demand \cup {None}]
BY DEF TypeOK, Aims

\* A process moves: it is at work as before, or no longer.
LEMMA WorkMoves ==
    ASSUME IInv, NEW p \in Proc, NEW o, Busy(p), Goto(p, o), UNCHANGED <<want, alone>>
    PROVE  Life!Goes(p)
<1>1. at'[p] = o /\ \A q \in Proc : q # p => at'[q] = at[q]
  BY DEF Goto, IInv, TypeOK
<1>2. \A q \in Proc : q # p => (Busy(q)' <=> Busy(q))
  BY <1>1 DEF Busy
<1>3. Busy(p)' <=> o # "idle"
  BY <1>1 DEF Busy
<1>4. CASE o # "idle"
  <2>1. \A q \in Proc : Busy(q)' <=> Busy(q)
    BY <1>2, <1>3, <1>4
  <2>2. Scopes' = Scopes
    BY <2>1 DEF Scopes
  <2>3. Aims' = Aims
    BY <2>1 DEF Aims
  <2>4. Alones' = Alones
    BY <2>1 DEF Alones
  <2>5. Aims \in [Proc -> Demand \cup {None}] /\ Scopes[p] # {}
    BY AimsType, WorkSays DEF IInv, This
  <2>6. QED
    BY <2>2, <2>3, <2>4, <2>5 DEF Life!Goes, Life!Turns
<1>5. CASE o = "idle"
  <2>1. \A q \in Proc : Busy(q)' <=> Busy(q) /\ q # p
    BY <1>2, <1>3, <1>5
  <2>2. Scopes' = [q \in Proc |-> IF q \in {p} THEN {} ELSE Scopes[q]]
    BY <2>1 DEF Scopes
  <2>3. Aims' = [q \in Proc |-> IF q \in {p} THEN None ELSE Aims[q]]
    BY <2>1 DEF Aims
  <2>4. Alones' = [q \in Proc |-> q \in {p} \/ Alones[q]]
    <3>1. \A q \in Proc : (Busy(q)' => alone[q]) <=> (q \in {p} \/ (Busy(q) => alone[q]))
      BY <2>1
    <3>2. QED
      BY <3>1 DEF Alones
  <2>5. Scopes[p] # {}
    BY WorkSays DEF This
  <2>6. QED
    BY <2>2, <2>3, <2>4, <2>5 DEF Life!Goes, Life!Leave
<1>6. QED
  BY <1>4, <1>5

\* A step that leaves the qdisc as it looks.
LEMMA QuietStep ==
    ASSUME IInv, NEW p \in Proc, NEW o, Busy(p), Goto(p, o),
           Seen' = Seen, UNCHANGED <<want, alone>>
    PROVE  Life!Next
<1>1. Life!Go(p)
  BY WorkMoves, OneQdisc DEF Life!Go
<1>2. QED
  BY <1>1 DEF Life!Next

\* The steps of the pieces as steps of a qdisc's life: a beginning,
LEMMA BeginRefines ==
    ASSUME IInv, IInv', NEW p \in Proc, NEW o, o # "idle", NEW d \in Demand \cup {None}, Begin(p, o, d)
    PROVE  Life!Next
<1>1. /\ Seen' = Seen /\ want' = [want EXCEPT ![p] = d] /\ ~Busy(p)
      /\ at'[p] = o /\ \A q \in Proc : q # p => at'[q] = at[q]
      /\ alone' = [q \in Proc |-> IF q = p THEN ~\E r \in Proc : Busy(r) ELSE alone[q] /\ ~Busy(q)]
  BY SeenSame DEF Begin, Goto, IInv, TypeOK
<1>2. \A q \in Proc : Busy(q)' <=> q = p \/ Busy(q)
  BY <1>1 DEF Busy
<1>3. \A q \in Proc : Scopes[q] \cap This = {} <=> ~Busy(q)
  BY DEF Scopes, This
<1>4. Scopes' = [Scopes EXCEPT ![p] = This] /\ Scopes[p] = {}
  BY <1>1, <1>2 DEF Scopes
<1>5. Alones' = [q \in Proc |-> IF q = p THEN \A r \in Proc : Scopes[r] \cap This = {}
                                ELSE Alones[q] /\ Scopes[q] \cap This = {}]
  <2> DEFINE A(q) == IF q = p THEN \A r \in Proc : Scopes[r] \cap This = {}
                     ELSE Alones[q] /\ Scopes[q] \cap This = {}
  <2>1. Alones' = [q \in Proc |-> Busy(q)' => alone'[q]]
    BY DEF Alones
  <2>2. ASSUME NEW q \in Proc PROVE (Busy(q)' => alone'[q]) = A(q)
    <3>1. CASE q = p
      <4>1. alone'[q] = ~\E r \in Proc : Busy(r)
        BY <1>1, <3>1
      <4>2. QED
        BY <1>2, <1>3, <3>1, <4>1
    <3>2. CASE q # p
      <4>1. (alone'[q] <=> alone[q] /\ ~Busy(q)) /\ (Busy(q)' <=> Busy(q))
        BY <1>1, <1>2, <3>2
      <4>2. Alones[q] <=> (Busy(q) => alone[q])
        BY DEF Alones
      <4>3. (Busy(q)' => alone'[q]) <=> Alones[q] /\ Scopes[q] \cap This = {}
        BY <1>3, <4>1, <4>2
      <4>4. QED
        BY <3>2, <4>3
    <3>3. QED
      BY <3>1, <3>2
  <2>3. QED
    BY <2>1, <2>2
<1>6. Life!Turns(p)
  <2>1. Aims' \in [Proc -> Demand \cup {None}]
    BY DEF IInv, TypeOK, Aims
  <2>2. \A q \in Proc \ {p} : Aims'[q] = Aims[q]
    BY <1>1, <1>2 DEF Aims, IInv, TypeOK
  <2>3. QED
    BY <2>1, <2>2 DEF Life!Turns
<1>7. Life!Begin(p, This)
  BY <1>1, <1>4, <1>5, <1>6, OneQdisc DEF Life!Begin, This
<1>8. QED
  BY <1>7 DEF Life!Next

\* the root, from which on the qdisc is there,
LEMMA AddRootRefines == ASSUME IInv, NEW p \in Proc, AddRoot(p) PROVE Life!Next
<1>1. at[p] = "root" /\ Busy(p) /\ want[p] # None
  BY DEF AddRoot, Busy, IInv, Verified
<1>2. CASE root
  <2>1. root \in BOOLEAN /\ UNCHANGED <<root, class, filter, want, alone>> /\ Goto(p, "idle")
    BY <1>2 DEF AddRoot, IInv, TypeOK
  <2>2. QED
    BY <1>1, <2>1, QuietStep, SeenSame
<1>3. CASE ~root
  <2>1. /\ Goto(p, "parent") /\ root' = TRUE /\ UNCHANGED <<class, want, alone>>
        /\ class["parent"] = None
    BY <1>3, ThePoints DEF AddRoot, IInv, ClassName
  <2>2. Seen.state = "none" /\ Seen' = State("root", None)
    BY <1>3, <2>1 DEF Seen, State, Complete, ClassName
  <2>3. Life!MakeRoot(p, "this")
    BY <1>1, <2>1, <2>2, OneQdisc, WorkMoves, WorkSays DEF Life!MakeRoot, Life!State, State
  <2>4. QED
    BY <1>1, <2>3, WorkSays DEF Life!Next, This
<1>4. QED
  BY <1>2, <1>3

\* The piece that completes the qdisc: of one who was alone it is the last.
LEMMA PieceRefines ==
    ASSUME IInv, NEW p \in Proc, NEW o \in Pieces, at[p] = o, root, ~Complete,
           Goto(p, After(o)), UNCHANGED <<root, want, alone>>,
           IF o \in ClassName THEN class' = [class EXCEPT ![o] = want[p]] /\ filter' = filter
                              ELSE filter' = filter \cup {o} /\ class' = class
    PROVE  Life!Next
<1>1. Busy(p) /\ Making(p) /\ want[p] \in Demand /\ want[p] # None
      /\ class' \in [ClassName -> Demand \cup {None}]
  <2>1. Busy(p) /\ Making(p)
    BY DEF Busy, Making, Pieces, ClassName, FilterName
  <2>2. want[p] \in Demand
    BY <2>1 DEF IInv, Verified
  <2>3. QED
    BY <2>1, <2>2 DEF IInv, TypeOK
<1>2. Seen = State("root", None)
  BY DEF Seen
<1>3. CASE ~Complete'
  <2>1. Seen' = Seen
    BY <1>2, <1>3 DEF Seen
  <2>2. QED
    BY <1>1, <2>1, QuietStep
<1>4. CASE Complete'
  <2>1. /\ Seen' = State("whole", class'["parent"]) \/ Seen' = State("mixed", None)
        /\ class'["parent"] \in Demand
    BY <1>1, <1>4 DEF Seen, Complete, ClassName
  <2>2. ASSUME alone[p] PROVE Seen' = State("whole", want[p])
    <3>1. OwnOnly(p) /\ at' = [at EXCEPT ![p] = After(o)] /\ at'[p] = After(o)
      BY <1>1, <2>2 DEF IInv, Undisturbed, Goto, TypeOK
    <3>2. CASE o # "lowFilter"
      <4>1. OwnOnly(p)' /\ After(o) \in Pieces
        BY <2>2, <3>1, <3>2, NextPiece, ThePoints DEF Pieces
      <4>2. filter' = Before(After(o)) \cap FilterName
        BY <3>1, <4>1 DEF OwnOnly
      <4>3. "lowFilter" \notin Before(After(o))
        BY <4>1 DEF Before, Pieces, ClassName, FilterName
      <4>4. QED
        BY <1>4, <4>2, <4>3 DEF Complete, FilterName
    <3>3. CASE o = "lowFilter"
      <4>1. class' = class /\ ClassName \subseteq Before(o)
        BY <3>3 DEF ClassName, Before
      <4>2. \A k \in ClassName : class'[k] = want[p]
        BY <3>1, <4>1 DEF OwnOnly
      <4>3. OneDemand(want[p])' /\ class'["parent"] = want[p] /\ want' = want
        BY <4>2 DEF OneDemand, ClassName
      <4>4. (Seen = IF OneDemand(class["parent"]) THEN State("whole", class["parent"]) ELSE State("mixed", None))'
        BY <1>4 DEF Seen, Complete
      <4>5. OneDemand(class["parent"])'
        BY <4>2, <4>3 DEF OneDemand
      <4>6. QED
        BY <4>3, <4>4, <4>5 DEF State
    <3>4. QED
      BY <3>2, <3>3
  <2>3. /\ Life!Goes(p) /\ Aims[p] = want[p] /\ (Alones[p] <=> alone[p])
        /\ Scopes[p] = This
    BY <1>1, WorkMoves, WorkSays
  <2>4. \/ Qdiscs'["this"] = Life!State("whole", want[p])
        \/ ~alone[p] /\ Qdiscs'["this"] \in [state : {"whole"}, of : Demand] \cup {Life!State("mixed", None)}
    BY <2>1, <2>2, OneQdisc DEF Life!State, State
  <2>5. Qdiscs["this"].state = "root" /\ Qdiscs' = [Qdiscs EXCEPT !["this"] = Qdiscs'["this"]]
    <3>1. Qdiscs["this"] = Seen /\ Qdiscs' = [Qdiscs EXCEPT !["this"] = Qdiscs'["this"]]
      BY OneQdisc
    <3>2. QED
      BY <1>2, <3>1 DEF State
  <2>6. Life!Complete(p, "this")
    BY <1>1, <2>3, <2>4, <2>5 DEF Life!Complete
  <2>7. QED
    BY <2>3, <2>6 DEF Life!Next, This
<1>5. QED
  BY <1>3, <1>4

\* A class or a filter is refused, or made on an incomplete qdisc.
LEMMA AddClassRefines == ASSUME IInv, NEW p \in Proc, AddClass(p) PROVE Life!Next
<1>1. at[p] \in ClassName /\ at[p] \in Pieces /\ Busy(p)
  BY DEF AddClass, Pieces, Busy, ClassName
<1>2. CASE Accepts(p, at[p])
  <2>1. /\ root /\ ~Complete /\ class' = [class EXCEPT ![at[p]] = want[p]] /\ Goto(p, After(at[p]))
        /\ UNCHANGED <<root, filter, want, alone>>
    BY <1>1, <1>2 DEF AddClass, Accepts, Complete
  <2>2. QED
    BY <1>1, <2>1, PieceRefines
<1>3. CASE ~Accepts(p, at[p])
  BY <1>1, <1>3, QuietStep, SeenSame DEF AddClass
<1>4. QED
  BY <1>2, <1>3

\* a filter, the last of which completes it,
LEMMA AddFilterRefines == ASSUME IInv, NEW p \in Proc, AddFilter(p) PROVE Life!Next
<1>1. at[p] \in FilterName /\ at[p] \in Pieces /\ at[p] \notin ClassName /\ Busy(p)
  BY DEF AddFilter, Pieces, Busy, FilterName, ClassName
<1>2. CASE root /\ at[p] \notin filter
  <2>1. /\ ~Complete /\ filter' = filter \cup {at[p]} /\ Goto(p, After(at[p]))
        /\ UNCHANGED <<root, class, want, alone>>
    BY <1>1, <1>2 DEF AddFilter, Complete
  <2>2. QED
    BY <1>1, <1>2, <2>1, PieceRefines
<1>3. CASE ~(root /\ at[p] \notin filter)
  BY <1>1, <1>3, QuietStep, SeenSame DEF AddFilter
<1>4. QED
  BY <1>2, <1>3

\* and the deletion of the root, which takes everything.
LEMMA DeleteRefines == ASSUME IInv, NEW p \in Proc, Delete(p) PROVE Life!Next
<1>1. /\ at[p] = "delete" /\ Busy(p) /\ want[p] = None /\ Goto(p, "idle")
      /\ UNCHANGED <<want, alone>> /\ Seen' = State("none", None)
  BY DEF Delete, Busy, IInv, TypeOK, Seen
<1>2. CASE ~root
  BY <1>1, <1>2, QuietStep DEF Seen
<1>3. CASE root
  <2>1. Seen.state # "none"
    BY <1>3 DEF Seen, State
  <2>2. Life!Remove(p, "this")
    BY <1>1, <2>1, OneQdisc, WorkMoves, WorkSays DEF Life!Remove, Life!State, State
  <2>3. QED
    BY <1>1, <2>2, WorkSays DEF Life!Next, This
<1>4. QED
  BY <1>2, <1>3

\* Whatever fails and whoever meets: the seven requests of a creation are one qdisc,
\* which is seen at its root or complete, as demanded when nobody else was at work
\* (CreateQdisc, FlushQdiscFromIface, iface_mgmt.go:40-140).
THEOREM LifeCorrect == Spec => LivesAsOne
<1>1. Init => Life!Init
  <2> SUFFICES ASSUME Init PROVE Life!Init
    OBVIOUS
  <2>1. \A p \in Proc : ~Busy(p)
    BY DEF Init, Busy
  <2>2. /\ Qdiscs = [i \in This |-> Life!State("none", None)]
        /\ Scopes = [p \in Proc |-> {}] /\ Aims = [p \in Proc |-> None]
    BY <2>1 DEF Init, Seen, Qdiscs, Scopes, Aims, State, Life!State
  <2>3. Alones = [p \in Proc |-> TRUE]
    <3>1. \A p \in Proc : (Busy(p) => alone[p]) = TRUE
      BY <2>1
    <3>2. QED
      BY <3>1 DEF Alones
  <2>4. QED
    BY <2>2, <2>3 DEF Life!Init
<1>2. IInv /\ IInv' /\ [Next]_vars => [Life!Next]_(Life!vars)
  <2> SUFFICES ASSUME IInv, IInv', [Next]_vars PROVE [Life!Next]_(Life!vars)
    OBVIOUS
  <2>1. ASSUME NEW p \in Proc, NEW d \in Demand, AskCreate(p, d) PROVE Life!Next
    BY <2>1, BeginRefines DEF AskCreate
  <2>2. ASSUME NEW p \in Proc, AskFlush(p) PROVE Life!Next
    BY <2>2, BeginRefines DEF AskFlush
  <2>3. ASSUME NEW p \in Proc, Find(p) \/ FindOld(p) \/ Abort(p) PROVE Life!Next
    <3>1. /\ Busy(p) /\ UNCHANGED <<root, class, filter, want, alone>>
          /\ \E o \in {"idle", "root", "delete"} : Goto(p, o)
      BY <2>3 DEF Find, FindOld, Abort, Busy
    <3>2. QED
      BY <3>1, QuietStep, SeenSame
  <2>4. CASE UNCHANGED vars
    <3>1. Seen' = Seen /\ \A p \in Proc : Busy(p)' <=> Busy(p)
      BY <2>4, SeenSame DEF vars, Busy
    <3>2. Scopes' = Scopes /\ Aims' = Aims
      BY <2>4, <3>1 DEF vars, Scopes, Aims
    <3>3. Alones' = Alones
      BY <2>4, <3>1 DEF vars, Alones
    <3>4. QED
      BY <3>1, <3>2, <3>3, OneQdisc DEF Life!vars
  <2>5. QED
    BY <2>1, <2>2, <2>3, <2>4, AddRootRefines, AddClassRefines, AddFilterRefines, DeleteRefines DEF Next
<1>3. QED
  BY <1>1, <1>2, Inductive, PTL DEF Spec, LivesAsOne, Life!Spec
-----------------------------------------------------------------------------
(* Bursts.                                                                 *)

\* The burst is worth 5 ms as long as five times the rate fits into the uint32 it
\* is computed in; beyond that it is too small (calcBurst, vars.go:103).
THEOREM BurstExact ==
    ASSUME NEW mb \in Nat
    PROVE  LET five == 5 * bytesPerSecFromMBsPerSec(mb) IN
           /\ five < Word => BurstIsFiveMs(mb)
           /\ five >= Word => calcBurst(mb) < five \div Thousand
<1> DEFINE five == bytesPerSecFromMBsPerSec(mb) * 5
<1>1. five \in Nat /\ 5 * bytesPerSecFromMBsPerSec(mb) = five
  BY DEF bytesPerSecFromMBsPerSec, Lesser
<1>2. calcBurst(mb) = (five % Word) \div Thousand
  BY DEF calcBurst
<1> HIDE DEF five
<1>3. ASSUME five < Word PROVE five % Word = five
  BY <1>1, <1>3
<1>4. ASSUME five >= Word PROVE (five % Word) + Thousand <= five /\ five % Word \in Nat
  BY <1>1, <1>4
<1>5. \A x \in Nat : x + Thousand <= five => x \div Thousand < five \div Thousand
  BY <1>1
<1>6. QED
  BY <1>1, <1>2, <1>3, <1>4, <1>5 DEF BurstIsFiveMs, five
=============================================================================
