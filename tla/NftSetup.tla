------------------------------ MODULE NftSetup ------------------------------
(***************************************************************************)
(* How qosm installs its nftables table.                                   *)
(*                                                                         *)
(* The daemon and every command that may change the table look for each    *)
(* object the table consists of and create what they do not find: the      *)
(* table, the named sets, and the chains with their marking rules.  Lookup *)
(* and creation are two netlink requests, nothing locks the table between  *)
(* them, and any number of processes do this at the same time.  Creating a *)
(* table, set or chain that exists is no error; a rule is appended to its  *)
(* chain however often it is there already.                                *)
(***************************************************************************)
EXTENDS Naturals, Sequences, FiniteSets

CONSTANTS
    Proc,        \* processes that set up the table
    NSets,       \* named sets
    NChains,     \* chains
    NRules,      \* marking rules in a chain: the first ones mark high priority
    MaxFaults    \* bound: crashes and failing requests since boot

ASSUME SetupAssumption ==
    /\ IsFiniteSet(Proc)
    /\ NSets \in Nat \ {0} /\ NChains \in Nat \ {0} /\ NRules \in Nat \ {0}
    /\ MaxFaults \in Nat

Chain == 1 .. NChains

VARIABLES
    table,    \* kernel: the table is there
    sets,     \* kernel: the named sets of the table
    chains,   \* kernel: the chains of the table
    rules,    \* kernel: the rules of each chain, in the order of evaluation
    at,       \* the object each process is concerned with
    missing,  \* its lookup has not found that object
    faults    \* history: interrupted set-ups since boot

vars == <<table, sets, chains, rules, at, missing, faults>>

\* An object of the table: set or chain n, rule r of chain n.
Object(what, n, r) == [what |-> what, n |-> n, r |-> r]
Idle == Object("idle", 0, 0)
Ready == Object("ready", 0, 0)

Holds(s, r) == \E x \in DOMAIN s : s[x] = r

Exists(o) ==
    \/ o.what = "table" /\ table
    \/ o.what = "set" /\ o.n \in sets
    \/ o.what = "chain" /\ o.n \in chains
    \/ o.what = "rule" /\ Holds(rules[o.n], o.r)

\* A mutant: the last chain is forgotten.
AfterChainButLast(j) == IF j + 1 < NChains THEN Object("chain", j + 1, 0) ELSE Ready

AfterChain(j) == IF j < NChains THEN Object("chain", j + 1, 0) ELSE Ready

\* A mutant: chains and rules before the sets they look up.
AfterChainsFirst(o) ==
    CASE o.what = "table" -> Object("chain", 1, 0)
      [] o.what = "chain" -> Object("rule", o.n, 1)
      [] o.what = "rule" -> IF o.r < NRules THEN Object("rule", o.n, o.r + 1)
                            ELSE IF o.n < NChains THEN Object("chain", o.n + 1, 0)
                            ELSE Object("set", 1, 0)
      [] OTHER -> IF o.n < NSets THEN Object("set", o.n + 1, 0) ELSE Ready

\* A mutant: one rule too many.
AfterTooMany(o) ==
    CASE o.what = "table" -> Object("set", 1, 0)
      [] o.what = "set" -> IF o.n < NSets THEN Object("set", o.n + 1, 0)
                                          ELSE Object("chain", 1, 0)
      [] o.what = "chain" -> Object("rule", o.n, 1)
      [] OTHER -> IF o.r <= NRules THEN Object("rule", o.n, o.r + 1) ELSE AfterChain(o.n)

\* The order of initTable, initSets, initChains and initRules.
After(o) ==
    CASE o.what = "table" -> Object("set", 1, 0)
      [] o.what = "set" -> IF o.n < NSets THEN Object("set", o.n + 1, 0)
                                          ELSE Object("chain", 1, 0)
      [] o.what = "chain" -> Object("rule", o.n, 1)
      [] OTHER -> IF o.r < NRules THEN Object("rule", o.n, o.r + 1) ELSE AfterChain(o.n)

Busy(p) == at[p] \notin {Idle, Ready}

Goto(p, o, m) ==
    /\ at' = [at EXCEPT ![p] = o]
    /\ missing' = [missing EXCEPT ![p] = m]

-----------------------------------------------------------------------------
Start(p) ==
    /\ ~Busy(p)
    /\ Goto(p, Object("table", 0, 0), FALSE)
    /\ UNCHANGED <<table, sets, chains, rules, faults>>

\* lookupQosTable, lookupQosSet and lookupQosChain.
Lookup(p) ==
    /\ Busy(p) /\ ~missing[p]
    /\ at[p].what # "rule"
    /\ IF Exists(at[p]) THEN Goto(p, After(at[p]), FALSE) ELSE Goto(p, at[p], TRUE)
    /\ UNCHANGED <<table, sets, chains, rules, faults>>

\* A mutant: the name of the rule is compared with another one.
LookupRuleBlind(p) ==
    /\ Busy(p) /\ ~missing[p]
    /\ at[p].what = "rule"
    /\ Goto(p, at[p], TRUE)
    /\ UNCHANGED <<table, sets, chains, rules, faults>>

\* A rule that is found is an ErrRuleNotFound: initRules returns it, initChains
\* drops it and turns to the next chain.
LookupRule(p) ==
    /\ Busy(p) /\ ~missing[p]
    /\ at[p].what = "rule"
    /\ IF Exists(at[p]) THEN Goto(p, AfterChain(at[p].n), FALSE) ELSE Goto(p, at[p], TRUE)
    /\ UNCHANGED <<table, sets, chains, rules, faults>>

Create(p) ==
    LET o == at[p] IN
    /\ missing[p]
    /\ table' = (table \/ o.what = "table")
    /\ sets' = IF o.what = "set" THEN sets \cup {o.n} ELSE sets
    /\ chains' = IF o.what = "chain" THEN chains \cup {o.n} ELSE chains
    /\ rules' = IF o.what = "rule" THEN [rules EXCEPT ![o.n] = Append(@, o.r)] ELSE rules
    /\ Goto(p, After(o), FALSE)
    /\ UNCHANGED faults

\* A netlink request fails or the process is killed: set-up returns an error.
Abort(p) ==
    /\ faults < MaxFaults
    /\ Busy(p)
    /\ Goto(p, Idle, FALSE)
    /\ faults' = faults + 1
    /\ UNCHANGED <<table, sets, chains, rules>>

\* A mutant: set-up goes on with the next rule.
RuleFailsAlone(p) ==
    /\ faults < MaxFaults
    /\ Busy(p) /\ at[p].what = "rule"
    /\ Goto(p, After(at[p]), FALSE)
    /\ faults' = faults + 1
    /\ UNCHANGED <<table, sets, chains, rules>>

\* A request of initRules fails: the error is dropped like any other of them.
RuleFails(p) ==
    /\ faults < MaxFaults
    /\ Busy(p) /\ at[p].what = "rule"
    /\ Goto(p, AfterChain(at[p].n), FALSE)
    /\ faults' = faults + 1
    /\ UNCHANGED <<table, sets, chains, rules>>

Init ==
    /\ table = FALSE
    /\ sets = {}
    /\ chains = {}
    /\ rules = [j \in Chain |-> <<>>]
    /\ at = [p \in Proc |-> Idle]
    /\ missing = [p \in Proc |-> FALSE]
    /\ faults = 0

\* The ruleset of the kernel does not survive.
Reboot ==
    /\ table' = FALSE
    /\ sets' = {}
    /\ chains' = {}
    /\ rules' = [j \in Chain |-> <<>>]
    /\ at' = [p \in Proc |-> Idle]
    /\ missing' = [p \in Proc |-> FALSE]
    /\ faults' = 0

Next ==
    \/ \E p \in Proc :
          Start(p) \/ Lookup(p) \/ LookupRule(p) \/ Create(p) \/ Abort(p) \/ RuleFails(p)
    \/ Reboot

Spec == Init /\ [][Next]_vars

-----------------------------------------------------------------------------
Objects ==
    {Idle, Ready, Object("table", 0, 0)}
    \cup {Object("set", n, 0) : n \in 1 .. NSets}
    \cup {Object("chain", j, 0) : j \in Chain}
    \cup {Object("rule", j, r) : j \in Chain, r \in 1 .. NRules}

\* The kernel holds objects of the table only, and who is about to create one is
\* at work on it (initTable to initRules).
TypeOK ==
    /\ table \in BOOLEAN
    /\ sets \in SUBSET (1 .. NSets)
    /\ chains \in SUBSET Chain
    /\ rules \in [Chain -> Seq(1 .. NRules)]
    /\ at \in [Proc -> Objects]
    /\ missing \in [Proc -> BOOLEAN]
    /\ \A p \in Proc : missing[p] => Busy(p)
    /\ faults \in Nat

\* "Order is important here" (nft_core.go:117): a packet is marked by the first
\* rule that matches, and in front of a rule stand all the rules that precede it
\* in initRules, whoever created them and whatever was interrupted.  A rule of
\* low priority is never evaluated before one of high priority.
RulesInOrder ==
    \A j \in Chain : \A x \in DOMAIN rules[j] : \A r \in 1 .. rules[j][x] - 1 :
        \E y \in 1 .. x - 1 : rules[j][y] = r

\* A rule is only there when its chain and all the sets it may look up are.
RulesHaveSets ==
    \A j \in Chain : rules[j] # <<>> => table /\ j \in chains /\ sets = 1 .. NSets

Copies(j, r) == Cardinality({x \in DOMAIN rules[j] : rules[j][x] = r})

\* Processes that race install a rule at most once each, and starting them again
\* later installs it no more.
CopiesBounded ==
    \A j \in Chain, r \in 1 .. NRules : Copies(j, r) <= Cardinality(Proc)

\* When nothing was interrupted since boot, the table is complete as soon as
\* everyone who set it up is done, in whatever order they overlapped.
SettledComplete ==
    (faults = 0 /\ (\A p \in Proc : ~Busy(p)) /\ (\E p \in Proc : at[p] = Ready))
        => /\ sets = 1 .. NSets
           /\ \A j \in Chain, r \in 1 .. NRules : Holds(rules[j], r)

-----------------------------------------------------------------------------
(* Why: the inductive invariant.                                           *)

\* What a process knows when it has come to object o.  The rules of a chain it
\* has passed cannot be relied on: their errors are dropped.
KnownAt(o) ==
    /\ o.what \in {"set", "chain", "rule"} => table
    /\ o.what = "set" => 1 .. o.n - 1 \subseteq sets
    /\ o.what \in {"chain", "rule"} => sets = 1 .. NSets
    /\ o.what = "rule" => /\ o.n \in chains
                         /\ \A q \in 1 .. o.r - 1 : Holds(rules[o.n], q)

Passed(p, j) ==
    \/ at[p].what \in {"chain", "rule"} /\ j < at[p].n
    \/ at[p] = Ready

\* Somebody will create the next rule of a chain that has begun to fill.
Underway(j) ==
    \/ \A r \in 1 .. NRules : Holds(rules[j], r)
    \/ \E p \in Proc : /\ at[p].what = "rule" /\ at[p].n = j
                       /\ ~Holds(rules[j], at[p].r)

Undisturbed ==
    /\ \A p \in Proc : at[p] = Ready => sets = 1 .. NSets
    /\ \A p \in Proc, j \in Chain : Passed(p, j) => Holds(rules[j], 1)
    /\ \A j \in Chain : Holds(rules[j], 1) => Underway(j)

IInv ==
    /\ TypeOK
    /\ \A p \in Proc : KnownAt(at[p])
    /\ RulesInOrder
    /\ RulesHaveSets
    /\ faults = 0 => Undisturbed
=============================================================================
