------------------------------ MODULE RuleBook ------------------------------
(***************************************************************************)
(* What the database of rules promises to whoever reads it: a target has   *)
(* at most one rule, a rule keeps its id and its priority as long as it    *)
(* exists, and an id that was given out never names another rule.          *)
(***************************************************************************)
EXTENDS Naturals

CONSTANTS Target, Tables   \* Tables: the targets that one flush removes together

VARIABLES book, last

Absent == [id |-> 0, prio |-> "none"]

Init ==
    /\ book = [t \in Target |-> Absent]
    /\ last = 0

Add(t, k) ==
    /\ book[t] = Absent
    /\ book' = [book EXCEPT ![t] = [id |-> last + 1, prio |-> k]]
    /\ last' = last + 1

Remove(t) ==
    /\ book[t] # Absent
    /\ book' = [book EXCEPT ![t] = Absent]
    /\ UNCHANGED last

Flush(T) ==
    /\ book' = [t \in Target |-> IF t \in T THEN Absent ELSE book[t]]
    /\ UNCHANGED last

Next ==
    \/ \E t \in Target, k \in {"high", "low"} : Add(t, k)
    \/ \E t \in Target : Remove(t)
    \/ \E T \in Tables : Flush(T)

vars == <<book, last>>

Spec == Init /\ [][Next]_vars
=============================================================================
