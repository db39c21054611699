------------------------------ MODULE HtbQdisc ------------------------------
(***************************************************************************)
(* The HTB qdisc of one interface: its root, four classes and two filters, *)
(* made one after the other, each by a request of its own, and the rates   *)
(* and bursts of the classes.  Commands in direct mode and goroutines of   *)
(* the web server make and remove it at the same time; nothing locks it.   *)
(*                                                                         *)
(* Rates are Mb/s, as on the command line, until the kernel gets them in   *)
(* bytes per second, a uint32.                                             *)
(***************************************************************************)
EXTENDS Naturals

CONSTANTS
    Proc,        \* processes and goroutines
    Demand,      \* rates and percentages that are asked for
    BytesPerMb,  \* bytes in a megabit: 125000
    Word,        \* 2^32, the values of a uint32
    Thousand,    \* 1000, the divisor of calcBurst
    MaxFaults,   \* bound: failing requests, killed processes
    None

ASSUME HtbAssumption ==
    /\ Demand \subseteq [total : Nat, high : Nat, dflt : Nat, low : Nat]
    /\ None \notin Demand
    /\ BytesPerMb \in Nat \ {0}
    /\ Thousand \in Nat \ {0} /\ Word \in Nat /\ Word > Thousand
    /\ MaxFaults \in Nat

ClassName == {"parent", "high", "low", "dflt"}
FilterName == {"highFilter", "lowFilter"}

VARIABLES
    root,     \* kernel: the root qdisc 1:0 is there
    class,    \* kernel: the demand each class was made for, None: no class
    filter,   \* kernel: the firewall filters
    at,       \* the object each process is concerned with
    want,     \* its demand
    alone,    \* history: nobody else was at work since it began
    flawed,   \* history: the root that is there has met a failure or a race
    faults    \* history: injected failures

vars == <<root, class, filter, at, want, alone, flawed, faults>>

-----------------------------------------------------------------------------
(* Rates.                                                                  *)

Lesser(x, y) == IF x < y THEN x ELSE y

bytesPerSecFromMBsPerSec(mb) == Lesser(mb * BytesPerMb, Word - 1)

\* Bytes; the product is computed in 32 bits.
calcBurst(mb) == ((bytesPerSecFromMBsPerSec(mb) * 5) % Word) \div Thousand

\* A mutant: rates are rounded up.
RoundedUp(d, k) == IF k = "parent" THEN d.total ELSE (d.total * d[k] + 99) \div 100

\* getClassRates, in Mb/s; the parent has the total rate.
ClassRate(d, k) == IF k = "parent" THEN d.total ELSE (d.total * d[k]) \div 100

isValidPercentage(n) == n <= 100

Verify(d) ==
    /\ isValidPercentage(d.high) /\ isValidPercentage(d.low) /\ isValidPercentage(d.dflt)
    /\ d.dflt + d.high + d.low = 100

-----------------------------------------------------------------------------
(* Control.                                                                *)

\* A mutant: the filter of the low class is forgotten.
AfterButLow(o) ==
    CASE o = "root" -> "parent"
      [] o = "parent" -> "high"
      [] o = "high" -> "low"
      [] o = "low" -> "dflt"
      [] o = "dflt" -> "highFilter"
      [] OTHER -> "idle"

\* The order of CreateQdisc.
After(o) ==
    CASE o = "root" -> "parent"
      [] o = "parent" -> "high"
      [] o = "high" -> "low"
      [] o = "low" -> "dflt"
      [] o = "dflt" -> "highFilter"
      [] o = "highFilter" -> "lowFilter"
      [] OTHER -> "idle"

Busy(p) == at[p] # "idle"

Goto(p, o) == at' = [at EXCEPT ![p] = o]

Begin(p, o, d) ==
    LET met == \E q \in Proc : Busy(q) IN
    /\ ~Busy(p)
    /\ Goto(p, o)
    /\ want' = [want EXCEPT ![p] = d]
    /\ alone' = [q \in Proc |-> IF q = p THEN ~met ELSE alone[q] /\ ~Busy(q)]
    /\ flawed' = (flawed \/ met)
    /\ UNCHANGED <<root, class, filter, faults>>

\* A mutant: creating removes first what is there.
CreateAnew(p, d) == Begin(p, "findOld", d)

AskCreate(p, d) == Begin(p, "find", d)
AskFlush(p) == Begin(p, "findOld", None)

\* InitHTBOnIface looks for a root; CreateQdisc verifies percentages and rate.
Find(p) ==
    /\ at[p] = "find"
    /\ Goto(p, IF root \/ ~Verify(want[p]) \/ want[p].total = 0 THEN "idle" ELSE "root")
    /\ UNCHANGED <<root, class, filter, want, alone, flawed, faults>>

\* What exists already is an error.
AddRoot(p) ==
    /\ at[p] = "root"
    /\ Goto(p, IF root THEN "idle" ELSE After("root"))
    /\ root' = TRUE
    /\ flawed' = (IF root THEN flawed ELSE ~alone[p])
    /\ UNCHANGED <<class, filter, want, alone, faults>>

\* A mutant: classes are replaced when they exist.
AcceptsAny(p, k) == root /\ ClassRate(want[p], k) > 0

\* The kernel takes no class without a rate.
Accepts(p, k) == root /\ class[k] = None /\ ClassRate(want[p], k) > 0

\* A class whose parent is missing becomes a class of the root's.
AddClass(p) ==
    LET k == at[p] IN
    /\ k \in ClassName
    /\ IF Accepts(p, k)
       THEN class' = [class EXCEPT ![k] = want[p]] /\ Goto(p, After(k))
       ELSE Goto(p, "idle") /\ UNCHANGED class
    /\ UNCHANGED <<root, filter, want, alone, flawed, faults>>

AddFilter(p) ==
    LET f == at[p] IN
    /\ f \in FilterName
    /\ IF root /\ f \notin filter
       THEN filter' = filter \cup {f} /\ Goto(p, After(f))
       ELSE Goto(p, "idle") /\ UNCHANGED filter
    /\ UNCHANGED <<root, class, want, alone, flawed, faults>>

\* FlushQdiscFromIface: ErrQdiscNotFound, or on to the deletion ...
FindOld(p) ==
    /\ at[p] = "findOld"
    /\ Goto(p, IF root THEN "delete" ELSE "idle")
    /\ UNCHANGED <<root, class, filter, want, alone, flawed, faults>>

\* ... which takes classes and filters with it, whosoever they are by now.
Delete(p) ==
    /\ at[p] = "delete"
    /\ Goto(p, "idle")
    /\ root' = FALSE
    /\ class' = [k \in ClassName |-> None]
    /\ filter' = {}
    /\ UNCHANGED <<want, alone, flawed, faults>>

\* A request fails or the process is killed: what was made is left behind.
Abort(p) ==
    /\ faults < MaxFaults
    /\ Busy(p)
    /\ Goto(p, "idle")
    /\ faults' = faults + 1
    /\ flawed' = TRUE
    /\ UNCHANGED <<root, class, filter, want, alone>>

Init ==
    /\ root = FALSE
    /\ class = [k \in ClassName |-> None]
    /\ filter = {}
    /\ at = [p \in Proc |-> "idle"]
    /\ want = [p \in Proc |-> None]
    /\ alone = [p \in Proc |-> FALSE]
    /\ flawed = FALSE
    /\ faults = 0

Next ==
    \E p \in Proc :
        \/ \E d \in Demand : AskCreate(p, d)
        \/ AskFlush(p)
        \/ Find(p) \/ AddRoot(p) \/ AddClass(p) \/ AddFilter(p)
        \/ FindOld(p) \/ Delete(p) \/ Abort(p)

Spec == Init /\ [][Next]_vars

-----------------------------------------------------------------------------
\* validateClasses and validateFilters.
Complete ==
    /\ root
    /\ \A k \in ClassName : class[k] # None
    /\ filter = FilterName

OneDemand(d) == \A k \in ClassName : class[k] = d

\* Who creates has a demand, and the classes that are there were demanded
\* (CreateQdisc).
TypeOK ==
    /\ root \in BOOLEAN
    /\ class \in [ClassName -> Demand \cup {None}]
    /\ filter \subseteq FilterName
    /\ at \in [Proc -> {"idle", "find", "root", "findOld", "delete"} \cup ClassName \cup FilterName]
    /\ want \in [Proc -> Demand \cup {None}]
    /\ \A p \in Proc : Busy(p) => (want[p] = None <=> at[p] \in {"findOld", "delete"})
    /\ alone \in [Proc -> BOOLEAN]
    /\ flawed \in BOOLEAN
    /\ faults \in Nat

\* The classes of a qdisc that was made for one demand share its rate: together
\* they never exceed the parent's, rounding loses less than 3 Mb/s, and none of
\* them starves with a rate of 0 (getClassRates, CreateQdisc).
RatesFit ==
    \A d \in Demand :
        Complete /\ OneDemand(d) =>
            LET sum == ClassRate(d, "high") + ClassRate(d, "dflt") + ClassRate(d, "low") IN
            /\ sum <= d.total /\ d.total < sum + 3
            /\ \A k \in ClassName : bytesPerSecFromMBsPerSec(ClassRate(d, k)) > 0

\* A demand that the kernel refuses only when the root is there already.
Starves(d) == \E k \in ClassName : ClassRate(d, k) = 0

\* "Half-made" qdiscs, which InitHTBOnIface takes for one that exists, come from
\* a failure, a race, or a demand that leaves a class without a rate, and from
\* nothing else (CreateQdisc).
HalfMadeByFailure ==
    root /\ ~Complete /\ (\A p \in Proc : ~Busy(p)) =>
        flawed \/ \E d \in Demand : class["parent"] = d /\ Starves(d)

State(s, d) == [state |-> s, of |-> d]

\* What the interface manager sees of it (iface_mgmt.go:40-140).
Seen ==
    IF ~root THEN State("none", None)
    ELSE IF ~Complete THEN State("root", None)
    ELSE IF OneDemand(class["parent"]) THEN State("whole", class["parent"])
    ELSE State("mixed", None)

\* The one interface, and who is at work on it.
This == {"this"}
Qdiscs == [i \in This |-> Seen]
Scopes == [p \in Proc |-> IF Busy(p) THEN This ELSE {}]
Aims == [p \in Proc |-> IF Busy(p) THEN want[p] ELSE None]
Alones == [p \in Proc |-> Busy(p) => alone[p]]

Life == INSTANCE QdiscLife WITH
    Iface <- This, qdisc <- Qdiscs, scope <- Scopes, aim <- Aims, alone <- Alones

\* The seven requests are one qdisc to everybody who looks for a complete one.
LivesAsOne == Life!Spec

\* "allow a burst worth of 5ms at the given rate" (vars.go:103).
BurstIsFiveMs(mb) ==
    calcBurst(mb) = (bytesPerSecFromMBsPerSec(mb) * 5) \div Thousand
-----------------------------------------------------------------------------
(* Why: the inductive invariant.                                           *)

Pieces == ClassName \cup FilterName

\* The pieces that are made before a piece.
Before(o) ==
    CASE o = "parent" -> {}
      [] o = "high" -> {"parent"}
      [] o = "low" -> {"parent", "high"}
      [] o = "dflt" -> {"parent", "high", "low"}
      [] o = "highFilter" -> ClassName
      [] OTHER -> ClassName \cup {"highFilter"}

\* The pieces that are there are those that p has made.
OwnOnly(p) ==
    /\ root
    /\ \A k \in ClassName : class[k] = IF k \in Before(at[p]) THEN want[p] ELSE None
    /\ filter = Before(at[p]) \cap FilterName

Making(p) == at[p] \in Pieces

Undisturbed ==
    \A p \in Proc : Busy(p) /\ alone[p] =>
        /\ \A q \in Proc : Busy(q) => q = p
        /\ at[p] = "root" => ~root
        /\ Making(p) => OwnOnly(p)

Verified(d) == d \in Demand /\ Verify(d) /\ d.total > 0

IInv ==
    /\ TypeOK
    /\ ~root => filter = {} /\ \A k \in ClassName : class[k] = None
    /\ \A p \in Proc : Making(p) \/ at[p] = "root" => Verified(want[p])
    /\ \A k \in ClassName : class[k] # None => Verified(class[k]) /\ ClassRate(class[k], k) > 0
    /\ Undisturbed
    /\ \A p \in Proc : Making(p) /\ ~flawed => alone[p]
    /\ root /\ ~flawed /\ (\A p \in Proc : ~Making(p)) =>
          Complete \/ (class["parent"] # None /\ Starves(class["parent"]))
=============================================================================
