--------------------------- MODULE NftSetupProofs ---------------------------
(***************************************************************************)
(* What NftSetup guarantees for any number of processes, sets, chains and  *)
(* rules, whoever is interrupted.                                          *)
(***************************************************************************)
EXTENDS NftSetup, FiniteSetTheorems, TLAPS

Target == Objects \ {Idle, Ready}

\* The fields of an object are what it was made of.
LEMMA Fields ==
    \A what, n, r : /\ Object(what, n, r).what = what
                    /\ Object(what, n, r).n = n
                    /\ Object(what, n, r).r = r
BY DEF Object

\* The four sorts of objects.
LEMMA Sorts ==
    ASSUME NEW o \in Target
    PROVE  \/ o = Object("table", 0, 0) /\ o.what = "table"
           \/ /\ o = Object("set", o.n, 0) /\ o.what = "set"
              /\ o.n \in 1 .. NSets
           \/ /\ o = Object("chain", o.n, 0) /\ o.what = "chain"
              /\ o.n \in Chain
           \/ /\ o = Object("rule", o.n, o.r) /\ o.what = "rule"
              /\ o.n \in Chain /\ o.r \in 1 .. NRules
BY Fields DEF Target, Objects

\* The objects of the table.
LEMMA InObjects ==
    /\ Idle \in Objects /\ Ready \in Objects /\ Object("table", 0, 0) \in Objects
    /\ \A n \in 1 .. NSets : Object("set", n, 0) \in Objects
    /\ \A j \in Chain : Object("chain", j, 0) \in Objects
    /\ \A j \in Chain, r \in 1 .. NRules : Object("rule", j, r) \in Objects
BY DEF Objects

\* Where a process goes from a chain it is done with.
LEMMA AfterChainCases ==
    ASSUME NEW j \in Chain
    PROVE  /\ AfterChain(j) \in Objects
           /\ \/ j < NChains /\ j + 1 \in Chain /\ AfterChain(j) = Object("chain", j + 1, 0)
              \/ j = NChains /\ AfterChain(j) = Ready
BY InObjects, SetupAssumption DEF AfterChain, Chain

\* The object that follows, for each sort of object.
LEMMA AfterCases ==
    ASSUME NEW o \in Target
    PROVE  /\ After(o) \in Objects
           /\ o.what = "table" => After(o) = Object("set", 1, 0)
           /\ o.what = "set" /\ o.n < NSets => After(o) = Object("set", o.n + 1, 0)
           /\ o.what = "set" /\ ~(o.n < NSets) => After(o) = Object("chain", 1, 0)
           /\ o.what = "chain" => After(o) = Object("rule", o.n, 1)
           /\ o.what = "rule" /\ o.r < NRules => After(o) = Object("rule", o.n, o.r + 1)
           /\ o.what = "rule" /\ ~(o.r < NRules) => After(o) = AfterChain(o.n)
<1>1. CASE o.what = "table"
  BY <1>1, InObjects, SetupAssumption DEF After
<1>2. CASE o.what = "set"
  BY <1>2, InObjects, SetupAssumption, Sorts DEF After, Chain
<1>3. CASE o.what = "chain"
  BY <1>3, InObjects, SetupAssumption, Sorts DEF After, Chain
<1>4. CASE o.what = "rule"
  BY <1>4, InObjects, SetupAssumption, Sorts, AfterChainCases DEF After, Chain
<1>5. QED
  BY <1>1, <1>2, <1>3, <1>4, Sorts

\* Appending a rule adds it behind the others.
LEMMA HoldsAppend ==
    ASSUME NEW s \in Seq(1 .. NRules), NEW r \in 1 .. NRules
    PROVE  /\ Append(s, r) \in Seq(1 .. NRules)
           /\ Len(Append(s, r)) = Len(s) + 1
           /\ \A x \in 1 .. Len(s) : Append(s, r)[x] = s[x]
           /\ Append(s, r)[Len(s) + 1] = r
           /\ \A q : Holds(Append(s, r), q) <=> Holds(s, q) \/ q = r
<1>1. /\ Append(s, r) \in Seq(1 .. NRules)
      /\ Len(Append(s, r)) = Len(s) + 1
      /\ \A x \in 1 .. Len(s) : Append(s, r)[x] = s[x]
      /\ Append(s, r)[Len(s) + 1] = r
  OBVIOUS
<1>2. DOMAIN s = 1 .. Len(s) /\ DOMAIN Append(s, r) = 1 .. Len(s) + 1 /\ Len(s) \in Nat
  BY <1>1
<1>3. ASSUME NEW q PROVE Holds(Append(s, r), q) <=> Holds(s, q) \/ q = r
  BY <1>1, <1>2 DEF Holds
<1>4. QED
  BY <1>1, <1>3

-----------------------------------------------------------------------------
(* Type correctness.                                                       *)

\* A table without rules, and nobody at work, has the types.
LEMMA Fresh ==
    /\ [j \in Chain |-> <<>>] \in [Chain -> Seq(1 .. NRules)]
    /\ [p \in Proc |-> Idle] \in [Proc -> Objects]
    /\ [p \in Proc |-> FALSE] \in [Proc -> BOOLEAN]
<1>1. <<>> \in Seq(1 .. NRules)
  OBVIOUS
<1>2. QED
  BY <1>1, InObjects

\* The initial state has the types.
LEMMA InitType == Init => TypeOK
<1> SUFFICES ASSUME Init PROVE TypeOK
  OBVIOUS
<1>1. table \in BOOLEAN /\ sets \in SUBSET (1 .. NSets) /\ chains \in SUBSET Chain
  BY DEF Init
<1>2. rules \in [Chain -> Seq(1 .. NRules)] /\ at \in [Proc -> Objects]
  BY Fresh DEF Init
<1>3. missing \in [Proc -> BOOLEAN] /\ \A p \in Proc : missing[p] => Busy(p)
  BY Fresh DEF Init
<1>4. QED
  BY <1>1, <1>2, <1>3 DEF Init, TypeOK

\* A process that is busy is concerned with an object of the table.
LEMMA BusyAtTarget ==
    ASSUME TypeOK, NEW p \in Proc, Busy(p)
    PROVE  at[p] \in Target
BY DEF TypeOK, Busy, Target

\* Whoever goes on to an object of the table keeps the types.
LEMMA GotoType ==
    ASSUME TypeOK, NEW p \in Proc, NEW o \in Objects, NEW m \in BOOLEAN, Goto(p, o, m),
           m => o \in Target
    PROVE  /\ at' \in [Proc -> Objects] /\ missing' \in [Proc -> BOOLEAN]
           /\ (\A q \in Proc : missing[q] => Busy(q))'
<1>1. at' \in [Proc -> Objects] /\ missing' \in [Proc -> BOOLEAN]
  BY DEF TypeOK, Goto
<1>2. ASSUME NEW q \in Proc, missing'[q] PROVE at'[q] \notin {Idle, Ready}
  <2>1. CASE q = p
    BY <1>2, <2>1 DEF TypeOK, Goto, Target
  <2>2. CASE q # p
    BY <1>2, <2>2 DEF TypeOK, Goto, Busy
  <2>3. QED
    BY <2>1, <2>2
<1>3. QED
  BY <1>1, <1>2 DEF Busy

\* A creation appends to one chain, and only when its object is a rule.
LEMMA CreateRules ==
    ASSUME TypeOK, NEW p \in Proc, Busy(p), Create(p)
    PROVE  /\ rules' \in [Chain -> Seq(1 .. NRules)]
           /\ \A j \in Chain : \/ rules'[j] = rules[j]
                               \/ /\ at[p] = Object("rule", j, at[p].r)
                                  /\ at[p].r \in 1 .. NRules
                                  /\ rules'[j] = Append(rules[j], at[p].r)
           /\ \A j \in Chain, q \in 1 .. NRules :
                 Holds(rules'[j], q) <=> Holds(rules[j], q) \/ at[p] = Object("rule", j, q)
<1> DEFINE o == at[p]
<1>0. o \in Target BY BusyAtTarget
<1>1. CASE o.what = "rule"
  <2>1. /\ o = Object("rule", o.n, o.r) /\ o.n \in Chain /\ o.r \in 1 .. NRules
    BY <1>0, <1>1, Sorts, Fields
  <2>2. rules' = [rules EXCEPT ![o.n] = Append(@, o.r)]
    BY <1>1 DEF Create
  <2>3. rules[o.n] \in Seq(1 .. NRules) /\ rules \in [Chain -> Seq(1 .. NRules)]
    BY <2>1 DEF TypeOK
  <2>4. Append(rules[o.n], o.r) \in Seq(1 .. NRules)
    BY <2>1, <2>3, HoldsAppend
  <2>5. \A j \in Chain : rules'[j] = IF j = o.n THEN Append(rules[j], o.r) ELSE rules[j]
    BY <2>1, <2>2, <2>3
  <2>6. \A q : Holds(Append(rules[o.n], o.r), q) <=> Holds(rules[o.n], q) \/ q = o.r
    BY <2>1, <2>3, HoldsAppend
  <2>7. \A j, q : o = Object("rule", j, q) <=> j = o.n /\ q = o.r
    BY <2>1, Fields
  <2>8. rules' \in [Chain -> Seq(1 .. NRules)]
    BY <2>2, <2>3, <2>4
  <2>9. ASSUME NEW j \in Chain
        PROVE  \/ rules'[j] = rules[j]
               \/ /\ o = Object("rule", j, o.r)
                  /\ o.r \in 1 .. NRules
                  /\ rules'[j] = Append(rules[j], o.r)
    BY <2>1, <2>5, <2>7
  <2>10. ASSUME NEW j \in Chain, NEW q \in 1 .. NRules
         PROVE Holds(rules'[j], q) <=> Holds(rules[j], q) \/ o = Object("rule", j, q)
    BY <2>5, <2>6, <2>7
  <2>11. QED
    BY <2>8, <2>9, <2>10
<1>2. CASE o.what # "rule"
  <2>1. rules' = rules
    BY <1>2 DEF Create
  <2>2. \A j, q : o # Object("rule", j, q)
    BY <1>2, Fields
  <2>3. QED
    BY <2>1, <2>2 DEF TypeOK
<1>3. QED
  BY <1>1, <1>2
\* Every step keeps the types.
LEMMA TypeStep ==
    ASSUME TypeOK, Next
    PROVE  TypeOK'
<1>1. ASSUME NEW p \in Proc, Start(p) PROVE TypeOK'
  <2>1. Object("table", 0, 0) \in Target
    BY Fields, InObjects DEF Target, Idle, Ready
  <2>2. /\ at' \in [Proc -> Objects] /\ missing' \in [Proc -> BOOLEAN]
        /\ (\A q \in Proc : missing[q] => Busy(q))'
    BY <1>1, <2>1, GotoType, InObjects DEF Start
  <2>3. QED
    BY <1>1, <2>2 DEF TypeOK, Start
<1>2. ASSUME NEW p \in Proc, Lookup(p) PROVE TypeOK'
  <2>1. at[p] \in Target /\ at[p] \in Objects
    BY <1>2, BusyAtTarget DEF Lookup, Target
  <2>2. After(at[p]) \in Objects
    BY <2>1, AfterCases
  <2>3. /\ at' \in [Proc -> Objects] /\ missing' \in [Proc -> BOOLEAN]
        /\ (\A q \in Proc : missing[q] => Busy(q))'
    BY <1>2, <2>1, <2>2, GotoType DEF Lookup
  <2>4. QED
    BY <1>2, <2>3 DEF TypeOK, Lookup
<1>3. ASSUME NEW p \in Proc, LookupRule(p) PROVE TypeOK'
  <2>1. at[p] \in Target /\ at[p] \in Objects /\ at[p].n \in Chain
    BY <1>3, BusyAtTarget, Sorts DEF LookupRule, Target
  <2>2. AfterChain(at[p].n) \in Objects
    BY <2>1, AfterChainCases
  <2>3. /\ at' \in [Proc -> Objects] /\ missing' \in [Proc -> BOOLEAN]
        /\ (\A q \in Proc : missing[q] => Busy(q))'
    BY <1>3, <2>1, <2>2, GotoType DEF LookupRule
  <2>4. QED
    BY <1>3, <2>3 DEF TypeOK, LookupRule
<1>4. ASSUME NEW p \in Proc, Create(p) PROVE TypeOK'
  <2>0. Busy(p)
    BY <1>4 DEF TypeOK, Create
  <2>1. at[p] \in Target
    BY <2>0, BusyAtTarget
  <2>2. After(at[p]) \in Objects
    BY <2>1, AfterCases
  <2>3. /\ at' \in [Proc -> Objects] /\ missing' \in [Proc -> BOOLEAN]
        /\ (\A q \in Proc : missing[q] => Busy(q))'
    BY <1>4, <2>2, GotoType DEF Create
  <2>4. rules' \in [Chain -> Seq(1 .. NRules)]
    BY <1>4, <2>0, CreateRules
  <2>5. table' \in BOOLEAN /\ sets' \in SUBSET (1 .. NSets) /\ chains' \in SUBSET Chain
    BY <1>4, <2>1, Sorts DEF TypeOK, Create
  <2>6. QED
    BY <1>4, <2>3, <2>4, <2>5 DEF TypeOK, Create
<1>5. ASSUME NEW p \in Proc, Abort(p) PROVE TypeOK'
  <2>1. /\ at' \in [Proc -> Objects] /\ missing' \in [Proc -> BOOLEAN]
        /\ (\A q \in Proc : missing[q] => Busy(q))'
    BY <1>5, GotoType, InObjects DEF Abort
  <2>2. QED
    BY <1>5, <2>1 DEF TypeOK, Abort
<1>6. ASSUME NEW p \in Proc, RuleFails(p) PROVE TypeOK'
  <2>1. at[p] \in Target /\ at[p].n \in Chain
    BY <1>6, BusyAtTarget, Sorts DEF RuleFails
  <2>2. AfterChain(at[p].n) \in Objects
    BY <2>1, AfterChainCases
  <2>3. /\ at' \in [Proc -> Objects] /\ missing' \in [Proc -> BOOLEAN]
        /\ (\A q \in Proc : missing[q] => Busy(q))'
    BY <1>6, <2>2, GotoType DEF RuleFails
  <2>4. QED
    BY <1>6, <2>3 DEF TypeOK, RuleFails
<1>7. ASSUME Reboot PROVE TypeOK'
  <2>1. /\ table' \in BOOLEAN /\ sets' \in SUBSET (1 .. NSets)
        /\ chains' \in SUBSET Chain /\ rules' \in [Chain -> Seq(1 .. NRules)]
    BY <1>7, Fresh DEF Reboot
  <2>2. /\ at' \in [Proc -> Objects] /\ missing' \in [Proc -> BOOLEAN]
        /\ \A q \in Proc : ~missing'[q]
    BY <1>7, Fresh DEF Reboot
  <2>3. faults' \in Nat
    BY <1>7 DEF Reboot
  <2>4. QED
    BY <2>1, <2>2, <2>3 DEF TypeOK
<1>8. QED
  BY <1>1, <1>2, <1>3, <1>4, <1>5, <1>6, <1>7 DEF Next
-----------------------------------------------------------------------------
(* What processes know, and the order of the rules.                        *)

\* At the next chain a process knows no more than at the last rule.
LEMMA AfterChainKnown ==
    TypeOK => \A o \in Target : KnownAt(o) /\ o.what = "rule" => KnownAt(AfterChain(o.n))
<1> SUFFICES ASSUME TypeOK, NEW o \in Target, KnownAt(o), o.what = "rule"
             PROVE  KnownAt(AfterChain(o.n))
  OBVIOUS
<1>1. table /\ sets = 1 .. NSets /\ o.n \in Chain
  BY Sorts DEF KnownAt
<1>2. \/ AfterChain(o.n) = Object("chain", o.n + 1, 0)
      \/ AfterChain(o.n) = Object("ready", 0, 0)
  BY <1>1, AfterChainCases DEF Ready
<1>3. QED
  BY <1>1, <1>2, Fields DEF KnownAt

\* When an object exists, what must be known at the next one is known.
LEMMA AfterKnown ==
    TypeOK => \A o \in Target : KnownAt(o) /\ Exists(o) => KnownAt(After(o))
<1> SUFFICES ASSUME TypeOK, NEW o \in Target, KnownAt(o), Exists(o)
             PROVE  KnownAt(After(o))
  OBVIOUS
<1>1. CASE o.what = "table"
  <2>1. After(o) = Object("set", 1, 0) /\ table
    BY <1>1, AfterCases DEF Exists
  <2>2. QED
    BY <2>1, Fields DEF KnownAt
<1>2. CASE o.what = "set"
  <2>1. table /\ 1 .. o.n - 1 \subseteq sets /\ o.n \in sets /\ o.n \in 1 .. NSets
    BY <1>2, Sorts DEF KnownAt, Exists
  <2>2. CASE o.n < NSets
    <3>1. After(o) = Object("set", o.n + 1, 0)
      BY <1>2, <2>2, AfterCases
    <3>2. 1 .. o.n + 1 - 1 \subseteq sets
      BY <2>1
    <3>3. QED
      BY <2>1, <3>1, <3>2, Fields DEF KnownAt
  <2>3. CASE ~(o.n < NSets)
    <3>1. After(o) = Object("chain", 1, 0)
      BY <1>2, <2>3, AfterCases
    <3>2. o.n = NSets /\ sets \subseteq 1 .. NSets
      BY <2>1, <2>3, SetupAssumption DEF TypeOK
    <3>3. ASSUME NEW n \in 1 .. NSets PROVE n \in sets
      <4>1. n = o.n \/ n \in 1 .. o.n - 1
        BY <3>2, SetupAssumption
      <4>2. QED
        BY <2>1, <4>1
    <3>4. sets = 1 .. NSets
      BY <3>2, <3>3
    <3>5. QED
      BY <2>1, <3>1, <3>4, Fields DEF KnownAt
  <2>4. QED
    BY <2>2, <2>3
<1>3. CASE o.what = "chain"
  <2>1. After(o) = Object("rule", o.n, 1) /\ table /\ sets = 1 .. NSets /\ o.n \in chains
    BY <1>3, AfterCases DEF KnownAt, Exists
  <2>2. QED
    BY <2>1, Fields DEF KnownAt
<1>4. CASE o.what = "rule"
  <2>1. CASE o.r < NRules
    <3>1. After(o) = Object("rule", o.n, o.r + 1) /\ o.r \in 1 .. NRules
      BY <1>4, <2>1, AfterCases, Sorts
    <3>2. table /\ sets = 1 .. NSets /\ o.n \in chains
      BY <1>4 DEF KnownAt
    <3>3. \A q \in 1 .. o.r - 1 : Holds(rules[o.n], q)
      BY <1>4 DEF KnownAt
    <3>4. Holds(rules[o.n], o.r)
      BY <1>4, Fields DEF Exists
    <3>5. \A q \in 1 .. o.r + 1 - 1 : Holds(rules[o.n], q)
      BY <3>1, <3>3, <3>4
    <3>6. QED
      BY <3>1, <3>2, <3>5, Fields DEF KnownAt
  <2>2. CASE ~(o.r < NRules)
    BY <1>4, <2>2, AfterCases, AfterChainKnown
  <2>3. QED
    BY <2>1, <2>2
<1>5. QED
  BY <1>1, <1>2, <1>3, <1>4, Sorts

\* Nothing that is known is lost by a creation, and what is created exists.
LEMMA CreateGrows ==
    ASSUME TypeOK, NEW p \in Proc, Create(p)
    PROVE  /\ Busy(p) /\ at[p] \in Target
           /\ table => table'
           /\ sets \subseteq sets' /\ chains \subseteq chains'
           /\ \A j \in Chain, q \in 1 .. NRules : Holds(rules[j], q) => Holds(rules'[j], q)
           /\ \A o \in Objects : KnownAt(o) => KnownAt(o)'
           /\ \A o \in Objects : o = at[p] => Exists(o)'
<1>1. Busy(p) /\ at[p] \in Target
  BY BusyAtTarget DEF TypeOK, Create
<1>2. (table => table') /\ sets \subseteq sets' /\ chains \subseteq chains'
  BY DEF Create
<1>3. \A j \in Chain, q \in 1 .. NRules :
          Holds(rules'[j], q) <=> Holds(rules[j], q) \/ at[p] = Object("rule", j, q)
  BY <1>1, CreateRules
<1>4. sets' \subseteq 1 .. NSets
  BY <1>1, Sorts DEF TypeOK, Create
<1>5. ASSUME NEW o \in Objects, KnownAt(o) PROVE KnownAt(o)'
  <2>1. o.what = "rule" => o.n \in Chain /\ o.r \in 1 .. NRules
    BY Sorts, Fields DEF Target, Idle, Ready
  <2>2. o.what = "rule" => \A q \in 1 .. o.r - 1 : Holds(rules'[o.n], q)
    BY <1>3, <1>5, <2>1, SetupAssumption DEF KnownAt
  <2>3. o.what = "rule" => o.n \in chains'
    BY <1>2, <1>5 DEF KnownAt
  <2>4. o.what \in {"set", "chain", "rule"} => table'
    BY <1>2, <1>5 DEF KnownAt
  <2>5. o.what = "set" => 1 .. o.n - 1 \subseteq sets'
    BY <1>2, <1>5 DEF KnownAt
  <2>6. o.what \in {"chain", "rule"} => sets' = 1 .. NSets
    BY <1>2, <1>4, <1>5 DEF KnownAt
  <2>7. QED
    BY <2>2, <2>3, <2>4, <2>5, <2>6 DEF KnownAt
<1>6. ASSUME NEW o \in Objects, o = at[p] PROVE Exists(o)'
  <2>1. (o.what = "table" => table') /\ (o.what = "set" => o.n \in sets')
        /\ (o.what = "chain" => o.n \in chains')
    BY <1>6 DEF Create
  <2>2. o.what = "rule" => Holds(rules'[o.n], o.r)
    BY <1>1, <1>3, <1>6, Sorts
  <2>3. QED
    BY <1>1, <1>6, <2>1, <2>2, Sorts DEF Exists
<1>7. QED
  BY <1>1, <1>2, <1>3, <1>5, <1>6

\* A process that has moved on knows what it needs where it is, and the others
\* know as much as before.
LEMMA KnownStep ==
    ASSUME TypeOK, TypeOK', Next, \A q \in Proc : KnownAt(at[q])
    PROVE  \A q \in Proc : KnownAt(at[q])'
<1>0. /\ \A o : o \in {Idle, Ready, Object("table", 0, 0)} => KnownAt(o)
      /\ \A o : o \in {Idle, Ready, Object("table", 0, 0)} => KnownAt(o)'
  BY Fields DEF KnownAt, Idle, Ready
<1>1. ASSUME NEW p \in Proc, NEW o \in Objects, NEW m, Goto(p, o, m),
             KnownAt(o)', \A q \in Proc : \A x \in Objects : x = at[q] => KnownAt(x)'
      PROVE  \A q \in Proc : KnownAt(at[q])'
  <2>1. \A q \in Proc : at'[q] = IF q = p THEN o ELSE at[q]
    BY <1>1 DEF Goto, TypeOK
  <2>2. \A q \in Proc : at[q] \in Objects
    BY DEF TypeOK
  <2>3. ASSUME NEW q \in Proc, NEW x \in Objects, at'[q] = x, KnownAt(x)'
        PROVE  KnownAt(at[q])'
    BY <2>3 DEF KnownAt
  <2>4. QED
    BY <1>1, <2>1, <2>2, <2>3
<1>2. ASSUME UNCHANGED <<table, sets, chains, rules>>
      PROVE  \A x \in Objects : KnownAt(x) => KnownAt(x)'
  BY <1>2 DEF KnownAt
<1>3. ASSUME NEW q \in Proc PROVE at[q] \in Objects
  BY DEF TypeOK
<1>4. ASSUME NEW p \in Proc, NEW o \in Objects, NEW m, Goto(p, o, m), KnownAt(o),
             UNCHANGED <<table, sets, chains, rules>>
      PROVE  \A q \in Proc : KnownAt(at[q])'
  <2>1. KnownAt(o)'
    BY <1>2, <1>4
  <2>2. ASSUME NEW q \in Proc, NEW x \in Objects, x = at[q] PROVE KnownAt(x)'
    BY <1>2, <1>4, <2>2
  <2>3. QED
    BY <1>1, <1>4, <2>1, <2>2
<1>5. ASSUME NEW p \in Proc, Start(p) PROVE \A q \in Proc : KnownAt(at[q])'
  BY <1>5, <1>0, <1>4, InObjects DEF Start
<1>6. ASSUME NEW p \in Proc, Lookup(p) PROVE \A q \in Proc : KnownAt(at[q])'
  <2>1. at[p] \in Target /\ at[p] \in Objects
    BY <1>6, BusyAtTarget DEF Lookup, Target
  <2>2. KnownAt(at[p]) /\ (Exists(at[p]) => KnownAt(After(at[p])))
    BY <2>1, AfterKnown
  <2>3. After(at[p]) \in Objects
    BY <2>1, AfterCases
  <2>4. QED
    BY <1>4, <1>6, <2>1, <2>2, <2>3 DEF Lookup
<1>7. ASSUME NEW p \in Proc, LookupRule(p) \/ RuleFails(p)
      PROVE  \A q \in Proc : KnownAt(at[q])'
  <2>1. at[p] \in Target /\ at[p] \in Objects /\ at[p].what = "rule" /\ at[p].n \in Chain
    BY <1>7, BusyAtTarget, Sorts DEF LookupRule, RuleFails, Target
  <2>2. KnownAt(at[p]) /\ KnownAt(AfterChain(at[p].n))
    BY <2>1, AfterChainKnown
  <2>3. AfterChain(at[p].n) \in Objects
    BY <2>1, AfterChainCases
  <2>4. QED
    BY <1>4, <1>7, <2>1, <2>2, <2>3 DEF LookupRule, RuleFails
<1>8. ASSUME NEW p \in Proc, Create(p) PROVE \A q \in Proc : KnownAt(at[q])'
  <2>1. /\ at[p] \in Target /\ at[p] \in Objects
        /\ \A o \in Objects : KnownAt(o) => KnownAt(o)'
        /\ \A o \in Objects : o = at[p] => Exists(o)'
    BY <1>8, CreateGrows DEF Target
  <2>2. (TypeOK => \A o \in Target : KnownAt(o) /\ Exists(o) => KnownAt(After(o)))'
    BY AfterKnown, PTL
  <2>3. PICK o \in Target : o = at[p]
    BY <2>1
  <2>4. o \in Objects /\ After(o) \in Objects
    BY AfterCases DEF Target
  <2>5. KnownAt(o)' /\ Exists(o)'
    BY <2>1, <2>3, <2>4
  <2>6. KnownAt(After(o))'
    BY <2>2, <2>5
  <2>7. Goto(p, After(o), FALSE)
    BY <1>8, <2>3 DEF Create
  <2>8. \A q \in Proc : \A x \in Objects : x = at[q] => KnownAt(x)'
    BY <2>1
  <2>9. QED
    BY <1>1, <2>4, <2>6, <2>7, <2>8
<1>9. ASSUME NEW p \in Proc, Abort(p) PROVE \A q \in Proc : KnownAt(at[q])'
  BY <1>9, <1>0, <1>4, InObjects DEF Abort
<1>10. ASSUME Reboot PROVE \A q \in Proc : KnownAt(at[q])'
  <2>1. \A q \in Proc : at'[q].what = "idle"
    BY <1>10, Fields DEF Reboot, Idle
  <2>2. QED
    BY <2>1 DEF KnownAt
<1>11. QED
  BY <1>5, <1>6, <1>7, <1>8, <1>9, <1>10 DEF Next
-----------------------------------------------------------------------------
(* The rules of a chain.                                                   *)

\* In front of a rule of a chain in order stand all that precede it.
LEMMA OrderedHolds ==
    ASSUME TypeOK, RulesInOrder, NEW j \in Chain, NEW q \in 1 .. NRules,
           Holds(rules[j], q), NEW r \in 1 .. q - 1
    PROVE  Holds(rules[j], r)
<1>1. rules[j] \in Seq(1 .. NRules) /\ DOMAIN rules[j] = 1 .. Len(rules[j])
  BY DEF TypeOK
<1>2. PICK x \in DOMAIN rules[j] : rules[j][x] = q
  BY DEF Holds
<1>3. PICK y \in 1 .. x - 1 : rules[j][y] = r
  BY <1>2 DEF RulesInOrder
<1>4. y \in DOMAIN rules[j]
  BY <1>1, <1>2, <1>3
<1>5. QED
  BY <1>3, <1>4 DEF Holds

\* Every step keeps the rules in order: nobody appends a rule too early.
LEMMA OrderStep ==
    ASSUME TypeOK, Next, \A q \in Proc : KnownAt(at[q]), RulesInOrder
    PROVE  RulesInOrder'
<1>1. CASE UNCHANGED rules
  BY <1>1 DEF RulesInOrder
<1>2. ASSUME NEW p \in Proc, Create(p) PROVE RulesInOrder'
  <2>1. \A j \in Chain : \/ rules'[j] = rules[j]
                         \/ /\ at[p] = Object("rule", j, at[p].r)
                            /\ at[p].r \in 1 .. NRules
                            /\ rules'[j] = Append(rules[j], at[p].r)
    BY <1>2, CreateGrows, CreateRules
  <2>2. SUFFICES ASSUME NEW j \in Chain, NEW x \in DOMAIN rules'[j],
                        NEW r \in 1 .. rules'[j][x] - 1
                 PROVE  \E y \in 1 .. x - 1 : rules'[j][y] = r
    BY DEF RulesInOrder
  <2>3. CASE rules'[j] = rules[j]
    BY <2>3 DEF RulesInOrder
  <2>4. CASE /\ at[p] = Object("rule", j, at[p].r)
             /\ at[p].r \in 1 .. NRules
             /\ rules'[j] = Append(rules[j], at[p].r)
    <3>1. rules[j] \in Seq(1 .. NRules)
      BY DEF TypeOK
    <3>2. DOMAIN rules[j] = 1 .. Len(rules[j]) /\ Len(rules[j]) \in Nat
      BY <3>1
    <3>3. /\ DOMAIN rules'[j] = 1 .. Len(rules[j]) + 1
          /\ \A y \in 1 .. Len(rules[j]) : rules'[j][y] = rules[j][y]
          /\ rules'[j][Len(rules[j]) + 1] = at[p].r
      BY <2>4, <3>1
    <3>4. CASE x \in 1 .. Len(rules[j])
      <4>1. r \in 1 .. rules[j][x] - 1
        BY <3>3, <3>4
      <4>2. PICK y \in 1 .. x - 1 : rules[j][y] = r
        BY <3>2, <3>4, <4>1 DEF RulesInOrder
      <4>3. y \in 1 .. Len(rules[j])
        BY <3>2, <3>4
      <4>4. QED
        BY <3>3, <4>2, <4>3
    <3>5. CASE x = Len(rules[j]) + 1
      <4>1. r \in 1 .. at[p].r - 1
        BY <3>3, <3>5
      <4>2. at[p].what = "rule" /\ at[p].n = j
        BY <2>4, Fields
      <4>3. Holds(rules[j], r)
        BY <4>1, <4>2 DEF KnownAt
      <4>4. PICK y \in 1 .. Len(rules[j]) : rules[j][y] = r
        BY <3>2, <4>3 DEF Holds
      <4>5. y \in 1 .. x - 1 /\ rules'[j][y] = r
        BY <3>2, <3>3, <3>5, <4>4
      <4>6. QED
        BY <4>5
    <3>6. QED
      BY <3>2, <3>3, <3>4, <3>5
  <2>5. QED
    BY <2>1, <2>3, <2>4
<1>3. CASE Reboot
  <2>1. \A j \in Chain : rules'[j] = <<>>
    BY <1>3 DEF Reboot
  <2>2. QED
    BY <2>1 DEF RulesInOrder
<1>4. QED
  BY <1>1, <1>2, <1>3 DEF Next, Start, Lookup, LookupRule, Abort, RuleFails

\* Every step keeps the sets behind the rules.
LEMMA SetsStep ==
    ASSUME TypeOK, TypeOK', Next, \A q \in Proc : KnownAt(at[q]), RulesHaveSets
    PROVE  RulesHaveSets'
<1>1. CASE UNCHANGED <<table, sets, chains, rules>>
  BY <1>1 DEF RulesHaveSets
<1>2. ASSUME NEW p \in Proc, Create(p), NEW j \in Chain, rules'[j] # <<>>
      PROVE  table' /\ j \in chains' /\ sets' = 1 .. NSets
  <2>1. /\ table => table'
        /\ sets \subseteq sets' /\ chains \subseteq chains'
        /\ at[p] \in Target /\ Busy(p)
    BY <1>2, CreateGrows
  <2>2. \/ rules'[j] = rules[j]
        \/ at[p] = Object("rule", j, at[p].r)
    BY <1>2, <2>1, CreateRules
  <2>3. table /\ j \in chains /\ sets = 1 .. NSets
    <3>1. CASE rules'[j] = rules[j]
      BY <1>2, <3>1 DEF RulesHaveSets
    <3>2. CASE at[p] = Object("rule", j, at[p].r)
      <4>1. at[p].what = "rule" /\ at[p].n = j
        BY <3>2, Fields
      <4>2. QED
        BY <4>1 DEF KnownAt
    <3>3. QED
      BY <2>2, <3>1, <3>2
  <2>4. sets' \subseteq 1 .. NSets
    BY DEF TypeOK
  <2>5. QED
    BY <2>1, <2>3, <2>4
<1>3. CASE Reboot
  <2>1. \A j \in Chain : rules'[j] = <<>>
    BY <1>3 DEF Reboot
  <2>2. QED
    BY <2>1 DEF RulesHaveSets
<1>4. QED
  BY <1>1, <1>2, <1>3 DEF Next, Start, Lookup, LookupRule, Abort, RuleFails, RulesHaveSets
-----------------------------------------------------------------------------
(* Set-ups that nothing interrupts.                                        *)

\* Whom a step moves, and where to.
LEMMA Moves ==
    ASSUME TypeOK, NEW p \in Proc, NEW o, NEW m, Goto(p, o, m)
    PROVE  at'[p] = o /\ \A q \in Proc \ {p} : at'[q] = at[q]
BY DEF TypeOK, Goto

\* Leaving the last rule of a chain, or a rule that is there, passes the chain.
LEMMA PassedAfterChain ==
    ASSUME NEW o \in Target, o.what = "rule", NEW j \in Chain,
           \/ /\ AfterChain(o.n).what \in {"chain", "rule"}
              /\ j < AfterChain(o.n).n
           \/ AfterChain(o.n) = Ready
    PROVE  j < o.n \/ j = o.n
<1>1. o.n \in Chain
  BY Sorts
<1>2. CASE AfterChain(o.n) = Object("chain", o.n + 1, 0)
  BY <1>1, <1>2, Fields, SetupAssumption DEF Chain, Ready
<1>3. CASE o.n = NChains
  BY <1>1, <1>3, SetupAssumption DEF Chain
<1>4. QED
  BY <1>1, <1>2, <1>3, AfterChainCases

\* A process reaches its next object with everything behind it in place.
LEMMA PassedStep ==
    ASSUME TypeOK, TypeOK', NEW p \in Proc, NEW o \in Target, o = at[p],
           \A q \in Proc : KnownAt(at[q]), Undisturbed,
           NEW m,
           \/ Goto(p, After(o), m)
           \/ o.what = "rule" /\ Goto(p, AfterChain(o.n), m),
           sets \subseteq sets',
           \A j \in Chain : Holds(rules[j], 1) => Holds(rules'[j], 1),
           o.what = "rule" => Holds(rules'[o.n], o.r),
           o.what = "rule" => \A q \in 1 .. o.r - 1 : Holds(rules'[o.n], q)
    PROVE  /\ \A q \in Proc : at'[q] = Ready => sets' = 1 .. NSets
           /\ \A q \in Proc, j \in Chain : Passed(q, j)' => Holds(rules'[j], 1)
<1> DEFINE n == at'[p]
<1>1. \A q \in Proc \ {p} : at'[q] = at[q]
  BY Moves
<1>2. \/ o.what = "table" /\ n = Object("set", 1, 0)
      \/ o.what = "set" /\ (n = Object("set", o.n + 1, 0) \/ n = Object("chain", 1, 0))
      \/ o.what = "chain" /\ n = Object("rule", o.n, 1)
      \/ o.what = "rule" /\ n = Object("rule", o.n, o.r + 1)
      \/ o.what = "rule" /\ n = AfterChain(o.n)
  <2>1. n = After(o) \/ (o.what = "rule" /\ n = AfterChain(o.n))
    BY Moves
  <2>2. QED
    BY <2>1, AfterCases, Sorts
<1>3. sets' \subseteq 1 .. NSets
  BY DEF TypeOK
<1>4. ASSUME NEW q \in Proc, at'[q] = Ready PROVE sets' = 1 .. NSets
  <2>1. CASE q = p
    <3>1. o.what = "rule"
      BY <1>2, <1>4, <2>1, Fields DEF Ready
    <3>2. sets = 1 .. NSets
      BY <3>1 DEF KnownAt
    <3>3. QED
      BY <1>3, <3>2
  <2>2. CASE q # p
    BY <1>1, <1>3, <1>4, <2>2 DEF Undisturbed
  <2>3. QED
    BY <2>1, <2>2
<1>5. ASSUME NEW q \in Proc, NEW j \in Chain, Passed(q, j)'
      PROVE  Holds(rules'[j], 1)
  <2>1. CASE q = p
    <3>0. (n.what \in {"chain", "rule"} /\ j < n.n) \/ n = Ready
      BY <1>5, <2>1 DEF Passed
    <3>1. CASE o.what \in {"table", "set"}
      BY <1>2, <3>0, <3>1, Fields DEF Ready, Chain
    <3>2. CASE Passed(p, j)
      BY <3>2 DEF Undisturbed
    <3>3. CASE o.what \in {"chain", "rule"} /\ ~Passed(p, j)
      <4>1. ~(j < o.n)
        BY <3>3 DEF Passed
      <4>2. o.what = "rule" /\ n = AfterChain(o.n)
        BY <1>2, <3>0, <3>3, <4>1, Fields DEF Ready
      <4>3. j = o.n
        BY <3>0, <4>1, <4>2, PassedAfterChain
      <4>4. o.r \in 1 .. NRules
        BY <4>2, Sorts
      <4>5. Holds(rules'[o.n], 1)
        <5>1. CASE o.r = 1
          BY <4>2, <5>1
        <5>2. CASE o.r # 1
          <6>1. 1 \in 1 .. o.r - 1
            BY <4>4, <5>2
          <6>2. QED
            BY <4>2, <6>1
        <5>3. QED
          BY <5>1, <5>2
      <4>6. QED
        BY <4>3, <4>5
    <3>4. QED
      BY <3>1, <3>2, <3>3, Sorts
  <2>2. CASE q # p
    <3>1. Passed(q, j)
      BY <1>1, <1>5, <2>2 DEF Passed
    <3>2. QED
      BY <3>1 DEF Undisturbed
  <2>3. QED
    BY <2>1, <2>2
<1>6. QED
  BY <1>4, <1>5
\* Underway survives any step that neither appends to the chain nor moves the one
\* who is to create its next rule.
LEMMA UnderwayKept ==
    ASSUME NEW j \in Chain, Underway(j), rules'[j] = rules[j],
           NEW p \in Proc, \A q \in Proc \ {p} : at'[q] = at[q],
           \/ at'[p] = at[p]
           \/ at[p].what # "rule"
           \/ at[p].n # j
           \/ Holds(rules[j], at[p].r)
    PROVE  Underway(j)'
<1>1. CASE \A r \in 1 .. NRules : Holds(rules[j], r)
  BY <1>1 DEF Underway
<1>2. CASE \E w \in Proc : /\ at[w].what = "rule" /\ at[w].n = j
                          /\ ~Holds(rules[j], at[w].r)
  <2>1. PICK w \in Proc : /\ at[w].what = "rule" /\ at[w].n = j
                         /\ ~Holds(rules[j], at[w].r)
    BY <1>2
  <2>2. at'[w] = at[w]
    BY <2>1
  <2>3. at'[w].what = "rule" /\ at'[w].n = j /\ ~Holds(rules'[j], at'[w].r)
    BY <2>1, <2>2
  <2>4. QED
    BY <2>3 DEF Underway
<1>3. QED
  BY <1>1, <1>2 DEF Underway

\* Who appends a rule to a chain goes on to the next one.
LEMMA UnderwayCreate ==
    ASSUME TypeOK, RulesInOrder, \A q \in Proc : KnownAt(at[q]),
           NEW p \in Proc, Create(p),
           NEW j \in Chain, Holds(rules[j], 1) => Underway(j), Holds(rules'[j], 1)
    PROVE  Underway(j)'
<1>0. Busy(p) /\ at[p] \in Target
  BY CreateGrows
<1>1. /\ at'[p] = After(at[p]) /\ \A q \in Proc \ {p} : at'[q] = at[q]
  BY Moves DEF Create
<1>2. \A q \in 1 .. NRules :
          Holds(rules'[j], q) <=> Holds(rules[j], q) \/ at[p] = Object("rule", j, q)
  BY <1>0, CreateRules
<1>3. CASE rules'[j] = rules[j] /\ (at[p].what # "rule" \/ at[p].n # j)
  BY <1>1, <1>3, UnderwayKept
<1>4. CASE at[p].what = "rule" /\ at[p].n = j
  <2>1. /\ at[p].r \in 1 .. NRules
        /\ \A q \in 1 .. NRules : Holds(rules'[j], q) <=> Holds(rules[j], q) \/ q = at[p].r
    <3>1. at[p] = Object("rule", j, at[p].r) /\ at[p].r \in 1 .. NRules
      BY <1>0, <1>4, Sorts
    <3>2. \A q : at[p] = Object("rule", j, q) <=> q = at[p].r
      BY <3>1, Fields
    <3>3. QED
      BY <1>2, <3>1, <3>2
  <2>2. CASE Holds(rules[j], at[p].r)
    <3>1. \A q \in 1 .. NRules : Holds(rules'[j], q) <=> Holds(rules[j], q)
      BY <2>1, <2>2
    <3>2. Underway(j)
      BY <3>1, SetupAssumption
    <3>3. CASE \A r \in 1 .. NRules : Holds(rules[j], r)
      BY <3>1, <3>3 DEF Underway
    <3>4. CASE \E w \in Proc : /\ at[w].what = "rule" /\ at[w].n = j
                              /\ ~Holds(rules[j], at[w].r)
      <4>1. PICK w \in Proc : /\ at[w].what = "rule" /\ at[w].n = j
                             /\ ~Holds(rules[j], at[w].r)
        BY <3>4
      <4>2. w # p
        BY <2>2, <4>1
      <4>3. at'[w] = at[w]
        BY <1>1, <4>2
      <4>4. at[w].r \in 1 .. NRules
        <5>1. at[w] \in Target
          BY <4>1, Fields DEF TypeOK, Target, Idle, Ready
        <5>2. QED
          BY <4>1, <5>1, Sorts
      <4>5. at'[w].what = "rule" /\ at'[w].n = j /\ ~Holds(rules'[j], at'[w].r)
        BY <3>1, <4>1, <4>3, <4>4
      <4>6. QED
        BY <4>5 DEF Underway
    <3>5. QED
      BY <3>2, <3>3, <3>4 DEF Underway
  <2>3. CASE ~Holds(rules[j], at[p].r) /\ at[p].r < NRules
    <3>1. at'[p] = Object("rule", j, at[p].r + 1)
      BY <1>0, <1>1, <1>4, <2>3, AfterCases
    <3>2. at[p].r + 1 \in 1 .. NRules /\ at[p].r \in 1 .. at[p].r + 1 - 1
      BY <2>1, <2>3, SetupAssumption
    <3>3. ~Holds(rules[j], at[p].r + 1)
      BY <2>3, <3>2, OrderedHolds
    <3>4. ~Holds(rules'[j], at[p].r + 1)
      BY <2>1, <3>2, <3>3
    <3>5. at'[p].what = "rule" /\ at'[p].n = j /\ at'[p].r = at[p].r + 1
      BY <3>1, Fields
    <3>6. QED
      BY <3>4, <3>5 DEF Underway
  <2>4. CASE ~(at[p].r < NRules)
    <3>1. at[p].r = NRules
      BY <2>1, <2>4, SetupAssumption
    <3>2. \A q \in 1 .. at[p].r - 1 : Holds(rules[j], q)
      BY <1>4 DEF KnownAt
    <3>3. ASSUME NEW q \in 1 .. NRules PROVE Holds(rules'[j], q)
      <4>1. q = at[p].r \/ q \in 1 .. at[p].r - 1
        BY <3>1, SetupAssumption
      <4>2. QED
        BY <2>1, <3>2, <4>1
    <3>4. QED
      BY <3>3 DEF Underway
  <2>5. QED
    BY <2>2, <2>3, <2>4
<1>5. QED
  <2>1. \/ rules'[j] = rules[j]
        \/ at[p] = Object("rule", j, at[p].r)
    BY <1>0, CreateRules
  <2>2. at[p] = Object("rule", j, at[p].r) => at[p].what = "rule" /\ at[p].n = j
    BY Fields
  <2>3. QED
    BY <1>3, <1>4, <2>1, <2>2

\* Without a failure, a chain that has begun to fill is being filled.
LEMMA UndisturbedStep ==
    ASSUME IInv, TypeOK', Next, faults' = 0
    PROVE  Undisturbed'
<1> USE DEF IInv
<1>1. ASSUME NEW p \in Proc, Start(p) PROVE Undisturbed'
  <2>1. faults = 0 /\ Undisturbed
    BY <1>1 DEF Start
  <2>2. /\ at'[p] = Object("table", 0, 0) /\ \A q \in Proc \ {p} : at'[q] = at[q]
        /\ rules' = rules /\ sets' = sets
    BY <1>1, Moves DEF Start
  <2>3. at[p].what # "rule"
    BY <1>1, Fields DEF Start, Busy, Idle, Ready
  <2>4. \A q \in Proc : at'[q] = Ready => sets' = 1 .. NSets
    BY <2>1, <2>2, Fields DEF Undisturbed, Ready
  <2>5. \A q \in Proc, j \in Chain : Passed(q, j)' => Holds(rules'[j], 1)
    BY <2>1, <2>2, Fields DEF Undisturbed, Passed, Ready
  <2>6. ASSUME NEW j \in Chain, Holds(rules'[j], 1) PROVE Underway(j)'
    BY <2>1, <2>2, <2>3, <2>6, UnderwayKept DEF Undisturbed
  <2>7. QED
    BY <2>4, <2>5, <2>6 DEF Undisturbed
<1>2. ASSUME NEW p \in Proc, Lookup(p) \/ LookupRule(p), at'[p] = at[p] PROVE Undisturbed'
  <2>1. faults = 0 /\ Undisturbed
    BY <1>2 DEF Lookup, LookupRule
  <2>2. at' = at /\ rules' = rules /\ sets' = sets
    BY <1>2 DEF Lookup, LookupRule, Goto, TypeOK
  <2>3. QED
    BY <2>1, <2>2 DEF Undisturbed, Passed, Underway
<1>3. ASSUME NEW p \in Proc, Lookup(p), Exists(at[p]) PROVE Undisturbed'
  <2>1. /\ faults = 0 /\ Undisturbed /\ rules' = rules /\ sets' = sets
        /\ Goto(p, After(at[p]), FALSE) /\ at[p].what # "rule"
    BY <1>3 DEF Lookup
  <2>2. PICK o \in Target : o = at[p]
    BY <1>3, BusyAtTarget DEF Lookup
  <2>3. /\ \A q \in Proc : at'[q] = Ready => sets' = 1 .. NSets
        /\ \A q \in Proc, j \in Chain : Passed(q, j)' => Holds(rules'[j], 1)
    BY <2>1, <2>2, PassedStep
  <2>4. \A q \in Proc \ {p} : at'[q] = at[q]
    BY <2>1, Moves
  <2>5. ASSUME NEW j \in Chain, Holds(rules'[j], 1) PROVE Underway(j)'
    BY <2>1, <2>4, <2>5, UnderwayKept DEF Undisturbed
  <2>6. QED
    BY <2>3, <2>5 DEF Undisturbed
<1>4. ASSUME NEW p \in Proc, LookupRule(p), Exists(at[p]) PROVE Undisturbed'
  <2>1. /\ faults = 0 /\ Undisturbed /\ rules' = rules /\ sets' = sets
        /\ Goto(p, AfterChain(at[p].n), FALSE) /\ at[p].what = "rule"
    BY <1>4 DEF LookupRule
  <2>2. PICK o \in Target : o = at[p]
    BY <1>4, BusyAtTarget DEF LookupRule
  <2>3. Holds(rules[o.n], o.r) /\ \A q \in 1 .. o.r - 1 : Holds(rules[o.n], q)
    BY <1>4, <2>1, <2>2 DEF Exists, KnownAt
  <2>4. /\ \A q \in Proc : at'[q] = Ready => sets' = 1 .. NSets
        /\ \A q \in Proc, j \in Chain : Passed(q, j)' => Holds(rules'[j], 1)
    BY <2>1, <2>2, <2>3, PassedStep
  <2>5. \A q \in Proc \ {p} : at'[q] = at[q]
    BY <2>1, Moves
  <2>6. ASSUME NEW j \in Chain, Holds(rules'[j], 1) PROVE Underway(j)'
    BY <2>1, <2>2, <2>3, <2>5, <2>6, UnderwayKept DEF Undisturbed
  <2>7. QED
    BY <2>4, <2>6 DEF Undisturbed
<1>5. ASSUME NEW p \in Proc, Create(p) PROVE Undisturbed'
  <2>1. faults = 0 /\ Undisturbed /\ Goto(p, After(at[p]), FALSE)
    BY <1>5 DEF Create
  <2>2. /\ at[p] \in Target /\ Busy(p) /\ sets \subseteq sets'
        /\ \A j \in Chain, q \in 1 .. NRules : Holds(rules[j], q) => Holds(rules'[j], q)
    BY <1>5, CreateGrows
  <2>3. PICK o \in Target : o = at[p]
    BY <2>2
  <2>4. \A j \in Chain : Holds(rules[j], 1) => Holds(rules'[j], 1)
    BY <2>2, SetupAssumption
  <2>5. o.what = "rule" => /\ Holds(rules'[o.n], o.r)
                          /\ \A q \in 1 .. o.r - 1 : Holds(rules'[o.n], q)
    <3> SUFFICES ASSUME o.what = "rule"
                 PROVE  /\ Holds(rules'[o.n], o.r)
                        /\ \A q \in 1 .. o.r - 1 : Holds(rules'[o.n], q)
      OBVIOUS
    <3>1. o = Object("rule", o.n, o.r) /\ o.n \in Chain /\ o.r \in 1 .. NRules
      BY Sorts
    <3>2. Holds(rules'[o.n], o.r)
      BY <1>5, <2>2, <2>3, <3>1, CreateRules
    <3>3. \A q \in 1 .. o.r - 1 : Holds(rules[o.n], q)
      BY <2>3 DEF KnownAt
    <3>4. QED
      BY <2>2, <3>1, <3>2, <3>3, SetupAssumption
  <2>6. /\ \A q \in Proc : at'[q] = Ready => sets' = 1 .. NSets
        /\ \A q \in Proc, j \in Chain : Passed(q, j)' => Holds(rules'[j], 1)
    BY <2>1, <2>2, <2>3, <2>4, <2>5, PassedStep
  <2>7. ASSUME NEW j \in Chain, Holds(rules'[j], 1) PROVE Underway(j)'
    BY <1>5, <2>1, <2>7, UnderwayCreate DEF Undisturbed
  <2>8. QED
    BY <2>6, <2>7 DEF Undisturbed
<1>6. ASSUME NEW p \in Proc, Abort(p) \/ RuleFails(p) PROVE FALSE
  <2>1. faults' = faults + 1
    BY <1>6 DEF Abort, RuleFails
  <2>2. faults \in Nat
    BY DEF TypeOK
  <2>3. QED
    BY <2>1, <2>2
<1>7. CASE Reboot
  <2>1. /\ \A q \in Proc : at'[q] = Idle
        /\ \A j \in Chain : rules'[j] = <<>>
    BY <1>7 DEF Reboot
  <2>2. \A j \in Chain : \A q : ~Holds(rules'[j], q)
    BY <2>1 DEF Holds
  <2>3. \A q \in Proc : at'[q].what = "idle" /\ at'[q] # Ready
    BY <2>1, Fields DEF Idle, Ready
  <2>4. QED
    BY <2>2, <2>3 DEF Undisturbed, Passed
<1>8. ASSUME NEW p \in Proc, Lookup(p) \/ LookupRule(p)
      PROVE  at'[p] = at[p] \/ Exists(at[p])
  BY <1>8 DEF Lookup, LookupRule, Goto, TypeOK
<1>9. QED
  BY <1>1, <1>2, <1>3, <1>4, <1>5, <1>6, <1>7, <1>8 DEF Next

-----------------------------------------------------------------------------
\* The invariant holds before anybody has started.
LEMMA InitIInv == Init => IInv
<1> SUFFICES ASSUME Init PROVE IInv
  OBVIOUS
<1>1. TypeOK
  BY InitType
<1>2. \A q \in Proc : at[q] = Idle
  BY DEF Init
<1>3. \A j \in Chain : rules[j] = <<>>
  BY DEF Init
<1>4. \A j \in Chain : \A q : ~Holds(rules[j], q)
  BY <1>3 DEF Holds
<1>5. \A q \in Proc : at[q].what = "idle" /\ at[q] # Ready
  BY <1>2, Fields DEF Idle, Ready
<1>6. (\A q \in Proc : KnownAt(at[q])) /\ RulesInOrder /\ RulesHaveSets /\ Undisturbed
  BY <1>3, <1>4, <1>5 DEF KnownAt, RulesInOrder, RulesHaveSets, Undisturbed, Passed
<1>7. QED
  BY <1>1, <1>6 DEF IInv

\* The invariant is preserved by every step.
LEMMA NextIInv == IInv /\ [Next]_vars => IInv'
<1> SUFFICES ASSUME IInv, [Next]_vars PROVE IInv'
  OBVIOUS
<1>1. CASE Next
  <2>1. TypeOK'
    BY <1>1, TypeStep DEF IInv
  <2>2. (\A q \in Proc : KnownAt(at[q]))' /\ RulesInOrder' /\ RulesHaveSets'
    BY <1>1, <2>1, KnownStep, OrderStep, SetsStep DEF IInv
  <2>3. (faults = 0 => Undisturbed)'
    BY <1>1, <2>1, UndisturbedStep
  <2>4. QED
    BY <2>1, <2>2, <2>3 DEF IInv
<1>2. CASE UNCHANGED vars
  <2>1. TypeOK'
    BY <1>2 DEF IInv, TypeOK, Busy, vars
  <2>2. (\A q \in Proc : KnownAt(at[q]))' /\ RulesInOrder' /\ RulesHaveSets'
    BY <1>2 DEF IInv, KnownAt, RulesInOrder, RulesHaveSets, vars
  <2>3. (faults = 0 => Undisturbed)'
    BY <1>2 DEF IInv, Undisturbed, Passed, Underway, vars
  <2>4. QED
    BY <2>1, <2>2, <2>3 DEF IInv
<1>3. QED
  BY <1>1, <1>2

\* When all the processes of an uninterrupted boot are done, nobody is left to
\* create a rule: every chain that has begun to fill is full.
LEMMA Settled == IInv => SettledComplete
<1> SUFFICES ASSUME IInv, faults = 0, \A p \in Proc : ~Busy(p),
                    NEW p \in Proc, at[p] = Ready
             PROVE  /\ sets = 1 .. NSets
                    /\ \A j \in Chain, r \in 1 .. NRules : Holds(rules[j], r)
  BY DEF SettledComplete
<1>1. Undisturbed
  BY DEF IInv
<1>2. sets = 1 .. NSets
  BY <1>1 DEF Undisturbed
<1>3. \A q \in Proc : at[q].what # "rule"
  BY Fields DEF Busy, Idle, Ready
<1>4. \A j \in Chain : Holds(rules[j], 1)
  BY <1>1 DEF Undisturbed, Passed
<1>5. ASSUME NEW j \in Chain PROVE \A r \in 1 .. NRules : Holds(rules[j], r)
  BY <1>1, <1>3, <1>4 DEF Undisturbed, Underway
<1>6. QED
  BY <1>2, <1>5

\* The invariant of the module is one (NftSetup).
THEOREM Inductive == Spec => []IInv
BY InitIInv, NextIInv, PTL DEF Spec

\* The variables have their types, and who is about to create something is busy
\* (initTable to initRules).
THEOREM TypeCorrect == Spec => []TypeOK
<1>1. IInv => TypeOK
  BY DEF IInv
<1>2. QED
  BY <1>1, Inductive, PTL

\* For any number of processes that race, fail and are killed: high priority is
\* evaluated before low (initRules).
THEOREM OrderCorrect == Spec => []RulesInOrder
<1>1. IInv => RulesInOrder
  BY DEF IInv
<1>2. QED
  BY <1>1, Inductive, PTL

\* No rule is installed before the sets it looks its packets up in (initSets).
THEOREM SetsCorrect == Spec => []RulesHaveSets
<1>1. IInv => RulesHaveSets
  BY DEF IInv
<1>2. QED
  BY <1>1, Inductive, PTL

\* Without interruption the set-up is complete whoever raced (lookupQosRule): a
\* process that skips the rest of a chain leaves it to one that creates it.
THEOREM CompleteCorrect == Spec => []SettledComplete
BY Settled, Inductive, PTL

-----------------------------------------------------------------------------
(* Counting the copies of a rule: whoever is about to install it counts as *)
(* one, and nobody new decides to once it is there.                         *)

\* The processes that have not found the rule and will create it.
Pending(j, r) == {p \in Proc : missing[p] /\ at[p] = Object("rule", j, r)}

CopiesPromised ==
    \A j \in Chain, r \in 1 .. NRules :
        Copies(j, r) + Cardinality(Pending(j, r)) <= Cardinality(Proc)

Places(s, r) == {x \in DOMAIN s : s[x] = r}

\* The places of a rule in a chain can be counted.
LEMMA PlacesFinite ==
    ASSUME NEW s \in Seq(1 .. NRules), NEW r
    PROVE  IsFiniteSet(Places(s, r)) /\ Cardinality(Places(s, r)) \in Nat
<1>1. Places(s, r) \in SUBSET (1 .. Len(s)) /\ Len(s) \in Nat
  BY DEF Places
<1>2. IsFiniteSet(1 .. Len(s))
  BY <1>1, FS_Interval
<1>3. IsFiniteSet(Places(s, r))
  BY <1>1, <1>2, FS_Subset
<1>4. QED
  BY <1>3, FS_CardinalityType

\* An appended rule has one place more, every other one the places it had.
LEMMA PlacesAppend ==
    ASSUME NEW s \in Seq(1 .. NRules), NEW q \in 1 .. NRules, NEW r \in 1 .. NRules
    PROVE  Cardinality(Places(Append(s, q), r)) =
              Cardinality(Places(s, r)) + (IF q = r THEN 1 ELSE 0)
<1>1. /\ DOMAIN s = 1 .. Len(s) /\ Len(s) \in Nat
      /\ DOMAIN Append(s, q) = 1 .. Len(s) + 1
      /\ \A x \in 1 .. Len(s) : Append(s, q)[x] = s[x]
      /\ Append(s, q)[Len(s) + 1] = q
  BY HoldsAppend
<1>2. \A x \in 1 .. Len(s) + 1 : x \in 1 .. Len(s) \/ x = Len(s) + 1
  BY <1>1
<1>3. \A x \in 1 .. Len(s) : x \in 1 .. Len(s) + 1 /\ x # Len(s) + 1
  BY <1>1
<1>4. Len(s) + 1 \in 1 .. Len(s) + 1
  BY <1>1
<1>5. CASE q = r
  <2>1. Places(Append(s, q), r) = Places(s, r) \cup {Len(s) + 1}
    BY <1>1, <1>2, <1>3, <1>4, <1>5 DEF Places
  <2>2. Len(s) + 1 \notin Places(s, r)
    BY <1>1, <1>3 DEF Places
  <2>3. QED
    BY <1>5, <2>1, <2>2, PlacesFinite, FS_AddElement
<1>6. CASE q # r
  <2>1. Places(Append(s, q), r) = Places(s, r)
    BY <1>1, <1>2, <1>3, <1>4, <1>6 DEF Places
  <2>2. QED
    BY <1>6, <2>1, PlacesFinite
<1>7. QED
  BY <1>5, <1>6

\* The copies are the places, before and after a step.
LEMMA CopiesPlaces ==
    ASSUME TypeOK, NEW j \in Chain, NEW r
    PROVE  /\ rules[j] \in Seq(1 .. NRules)
           /\ Copies(j, r) = Cardinality(Places(rules[j], r))
           /\ Copies(j, r) \in Nat
           /\ Copies(j, r)' = Cardinality(Places(rules'[j], r))
<1>1. rules[j] \in Seq(1 .. NRules)
  BY DEF TypeOK
<1>2. Copies(j, r) = Cardinality(Places(rules[j], r))
  BY DEF Copies, Places
<1>3. Copies(j, r)' = Cardinality(Places(rules'[j], r))
  BY DEF Copies, Places
<1>4. QED
  BY <1>1, <1>2, <1>3, PlacesFinite

\* The copies of a rule that a chain does not hold are none.
LEMMA NoPlaces ==
    ASSUME NEW s, NEW r, ~Holds(s, r)
    PROVE  Cardinality(Places(s, r)) = 0
<1>1. Places(s, r) = {}
  BY DEF Places, Holds
<1>2. QED
  BY <1>1, FS_EmptySet

\* The processes can be counted, and some of them are not more than all.
LEMMA PendingFinite ==
    ASSUME NEW S \in SUBSET Proc
    PROVE  /\ IsFiniteSet(S) /\ Cardinality(S) \in Nat
           /\ Cardinality(Proc) \in Nat /\ Cardinality(S) <= Cardinality(Proc)
BY SetupAssumption, FS_Subset, FS_CardinalityType

\* Nobody new is about to install a rule, except one that has not found it.
LEMMA PendingStays ==
    ASSUME TypeOK, NEW p \in Proc, NEW o \in Objects, NEW m \in BOOLEAN, Goto(p, o, m),
           NEW j \in Chain, NEW r \in 1 .. NRules,
           m /\ o = Object("rule", j, r) => p \in Pending(j, r)
    PROVE  Pending(j, r)' \subseteq Pending(j, r)
<1>1. \A q \in Proc : q # p => at'[q] = at[q] /\ missing'[q] = missing[q]
  BY DEF TypeOK, Goto
<1>2. at'[p] = o /\ missing'[p] = m
  BY DEF TypeOK, Goto
<1>3. QED
  BY <1>1, <1>2 DEF Pending

\* Fewer promises keep the bound.
LEMMA PromisedKept ==
    ASSUME TypeOK, NEW j \in Chain, NEW r \in 1 .. NRules,
           Copies(j, r) + Cardinality(Pending(j, r)) <= Cardinality(Proc),
           Copies(j, r)' = Copies(j, r), Pending(j, r)' \subseteq Pending(j, r)
    PROVE  (Copies(j, r) + Cardinality(Pending(j, r)) <= Cardinality(Proc))'
<1>2. IsFiniteSet(Pending(j, r)) /\ Cardinality(Pending(j, r)) \in Nat
  BY PendingFinite DEF Pending
<1>3. Cardinality(Pending(j, r)') \in Nat /\ Cardinality(Pending(j, r)') <= Cardinality(Pending(j, r))
  BY <1>2, FS_Subset, FS_CardinalityType
<1>4. Copies(j, r) \in Nat
  BY CopiesPlaces
<1>5. Cardinality(Proc) \in Nat
  BY SetupAssumption, FS_CardinalityType
<1>6. QED
  BY <1>2, <1>3, <1>4, <1>5

\* Every step keeps the count.
LEMMA PromisedStep ==
    ASSUME TypeOK, CopiesPromised, Next
    PROVE  CopiesPromised'
<1> SUFFICES ASSUME NEW j \in Chain, NEW r \in 1 .. NRules
             PROVE  (Copies(j, r) + Cardinality(Pending(j, r)) <= Cardinality(Proc))'
  BY DEF CopiesPromised
<1> DEFINE rule == Object("rule", j, r)
<1>0. /\ Copies(j, r) + Cardinality(Pending(j, r)) <= Cardinality(Proc)
      /\ rule.what = "rule" /\ rule.n = j /\ rule.r = r
  BY Fields DEF CopiesPromised
<1>1. CASE /\ rules' = rules
           /\ \E p \in Proc, o \in Objects, m \in BOOLEAN :
                 Goto(p, o, m) /\ ~(m /\ o = rule)
  <2>1. Pending(j, r)' \subseteq Pending(j, r)
    BY <1>1, PendingStays
  <2>2. Copies(j, r)' = Copies(j, r)
    BY <1>1 DEF Copies
  <2>3. QED
    BY <1>0, <2>1, <2>2, PromisedKept
<1>2. ASSUME NEW p \in Proc, Start(p) PROVE \E o \in Objects, m \in BOOLEAN : Goto(p, o, m) /\ ~(m /\ o = rule)
  BY <1>2, InObjects DEF Start
<1>3. ASSUME NEW p \in Proc, Lookup(p) PROVE \E o \in Objects, m \in BOOLEAN : Goto(p, o, m) /\ ~(m /\ o = rule)
  <2>1. at[p] \in Objects /\ After(at[p]) \in Objects /\ at[p] # rule
    BY <1>0, <1>3, BusyAtTarget, AfterCases DEF Lookup, Target
  <2>2. QED
    BY <1>3, <2>1 DEF Lookup
<1>4. ASSUME NEW p \in Proc, Abort(p) PROVE \E o \in Objects, m \in BOOLEAN : Goto(p, o, m) /\ ~(m /\ o = rule)
  BY <1>4, InObjects DEF Abort
<1>5. ASSUME NEW p \in Proc, RuleFails(p) PROVE \E o \in Objects, m \in BOOLEAN : Goto(p, o, m) /\ ~(m /\ o = rule)
  <2>1. AfterChain(at[p].n) \in Objects
    BY <1>5, BusyAtTarget, Sorts, AfterChainCases DEF RuleFails
  <2>2. QED
    BY <1>5, <2>1 DEF RuleFails
<1>6. ASSUME NEW p \in Proc, LookupRule(p)
      PROVE  (Copies(j, r) + Cardinality(Pending(j, r)) <= Cardinality(Proc))'
  <2>1. at[p] \in Objects /\ AfterChain(at[p].n) \in Objects
    BY <1>6, BusyAtTarget, Sorts, AfterChainCases DEF LookupRule, Target
  <2>2. CASE Exists(at[p]) \/ at[p] # rule
    BY <1>1, <1>6, <2>1, <2>2 DEF LookupRule
  <2>3. CASE ~Exists(at[p]) /\ at[p] = rule
    <3>1. ~Holds(rules'[j], r)
      BY <1>0, <1>6, <2>3 DEF LookupRule, Exists
    <3>2. Copies(j, r)' = 0
      BY <3>1, NoPlaces DEF Copies, Places
    <3>3. QED
      BY <3>2, PendingFinite DEF Pending
  <2>4. QED
    BY <2>2, <2>3
<1>7. ASSUME NEW p \in Proc, Create(p)
      PROVE  (Copies(j, r) + Cardinality(Pending(j, r)) <= Cardinality(Proc))'
  <2>1. /\ missing[p] /\ Goto(p, After(at[p]), FALSE) /\ After(at[p]) \in Objects /\ Busy(p)
    BY <1>7, BusyAtTarget, AfterCases DEF Create, TypeOK
  <2>2. Pending(j, r)' \subseteq Pending(j, r) /\ p \notin Pending(j, r)'
    BY <2>1, PendingStays DEF Pending, Goto, TypeOK
  <2>3. CASE at[p] = rule
    <3>1. p \in Pending(j, r)
      BY <2>1, <2>3 DEF Pending
    <3>2. Pending(j, r)' \in SUBSET (Pending(j, r) \ {p})
      BY <2>2
    <3>3. /\ IsFiniteSet(Pending(j, r)) /\ Cardinality(Pending(j, r)) \in Nat
          /\ Cardinality(Proc) \in Nat
      BY PendingFinite DEF Pending
    <3>4. /\ IsFiniteSet(Pending(j, r) \ {p})
          /\ Cardinality(Pending(j, r) \ {p}) = Cardinality(Pending(j, r)) - 1
      BY <3>1, <3>3, FS_RemoveElement
    <3>5. /\ Cardinality(Pending(j, r)') <= Cardinality(Pending(j, r)) - 1
          /\ Cardinality(Pending(j, r)') \in Nat
      BY <3>2, <3>4, FS_Subset, FS_CardinalityType
    <3>6. rules'[j] = Append(rules[j], r) /\ rules[j] \in Seq(1 .. NRules)
      BY <1>0, <1>7, <2>3 DEF Create, TypeOK
    <3>7. Copies(j, r)' = Copies(j, r) + 1 /\ Copies(j, r) \in Nat
      <4>1. Cardinality(Places(Append(rules[j], r), r)) = Cardinality(Places(rules[j], r)) + 1
        BY <3>6, PlacesAppend
      <4>2. /\ Copies(j, r)' = Cardinality(Places(rules'[j], r))
            /\ Copies(j, r) = Cardinality(Places(rules[j], r)) /\ Copies(j, r) \in Nat
        BY CopiesPlaces
      <4>3. QED
        BY <3>6, <4>1, <4>2
    <3>8. QED
      BY <1>0, <3>3, <3>5, <3>7
  <2>4. CASE at[p] # rule
    <3>1. \/ rules'[j] = rules[j]
          \/ /\ at[p] = Object("rule", j, at[p].r)
             /\ at[p].r \in 1 .. NRules
             /\ rules'[j] = Append(rules[j], at[p].r)
      BY <1>7, <2>1, CreateRules
    <3>2. rules[j] \in Seq(1 .. NRules)
      BY DEF TypeOK
    <3>3. Copies(j, r)' = Copies(j, r)
      <4>1. CASE rules'[j] = rules[j]
        BY <4>1 DEF Copies
      <4>2. CASE at[p] = Object("rule", j, at[p].r) /\ at[p].r \in 1 .. NRules
                 /\ rules'[j] = Append(rules[j], at[p].r)
        <5>1. Cardinality(Places(Append(rules[j], at[p].r), r)) = Cardinality(Places(rules[j], r))
          <6>1. at[p].r # r
            BY <2>4, <4>2
          <6>2. Cardinality(Places(rules[j], r)) \in Nat
            BY <3>2, PlacesFinite
          <6>3. QED
            BY <3>2, <4>2, <6>1, <6>2, PlacesAppend
        <5>2. /\ Copies(j, r)' = Cardinality(Places(rules'[j], r))
              /\ Copies(j, r) = Cardinality(Places(rules[j], r))
          BY CopiesPlaces
        <5>3. QED
          BY <4>2, <5>1, <5>2
      <4>3. QED
        BY <3>1, <4>1, <4>2
    <3>4. QED
      BY <1>0, <2>2, <3>3, PromisedKept
  <2>5. QED
    BY <2>3, <2>4
<1>8. CASE Reboot
  <2>1. ~Holds(rules'[j], r)
    BY <1>8 DEF Reboot, Holds
  <2>2. Copies(j, r)' = 0
    BY <2>1, NoPlaces DEF Copies, Places
  <2>3. QED
    BY <2>2, PendingFinite DEF Pending
<1>9. \A p \in Proc : Start(p) \/ Lookup(p) \/ Abort(p) \/ RuleFails(p) => rules' = rules
  BY DEF Start, Lookup, Abort, RuleFails
<1>10. QED
  BY <1>1, <1>2, <1>3, <1>4, <1>5, <1>6, <1>7, <1>8, <1>9 DEF Next

\* Processes that race install a rule at most once each, and starting them again
\* later installs it no more (lookupQosRule).
THEOREM CopiesCorrect == Spec => []CopiesBounded
<1>1. Init => CopiesPromised
  <2>1. SUFFICES ASSUME Init, NEW j \in Chain, NEW r \in 1 .. NRules
                 PROVE  Copies(j, r) + Cardinality(Pending(j, r)) <= Cardinality(Proc)
    BY DEF CopiesPromised
  <2>2. ~Holds(rules[j], r)
    BY <2>1 DEF Init, Holds
  <2>3. Copies(j, r) = 0
    BY <2>2, NoPlaces DEF Copies, Places
  <2>4. QED
    BY <2>3, PendingFinite DEF Pending
<1>2. TypeOK /\ CopiesPromised /\ [Next]_vars => CopiesPromised'
  <2>1. CASE UNCHANGED vars
    BY <2>1 DEF CopiesPromised, Copies, Pending, vars
  <2>2. QED
    BY <2>1, PromisedStep
<1>3. TypeOK /\ CopiesPromised => CopiesBounded
  <2>1. SUFFICES ASSUME TypeOK, CopiesPromised, NEW j \in Chain, NEW r \in 1 .. NRules
                 PROVE  Copies(j, r) <= Cardinality(Proc)
    BY DEF CopiesBounded
  <2>2. Copies(j, r) \in Nat
    BY <2>1, CopiesPlaces
  <2>3. /\ Cardinality(Pending(j, r)) \in Nat /\ Cardinality(Proc) \in Nat
        /\ Copies(j, r) + Cardinality(Pending(j, r)) <= Cardinality(Proc)
    BY <2>1, PendingFinite DEF CopiesPromised, Pending
  <2>4. QED
    BY <2>2, <2>3
<1>4. QED
  BY <1>1, <1>2, <1>3, TypeCorrect, PTL DEF Spec
=============================================================================
