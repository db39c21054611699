----------------------------- MODULE QdiscLife -----------------------------
(***************************************************************************)
(* What the interface manager relies on when it has qdiscs made or taken   *)
(* away: nobody sees more of a qdisc than its root until it is complete,   *)
(* a root is made only where there is none, only who means to take a qdisc *)
(* away does, and a qdisc is the one that was asked for unless somebody    *)
(* else was at work on the same interfaces.                                *)
(***************************************************************************)
CONSTANTS Iface, Proc, Demand, None

VARIABLES
    qdisc,   \* "none", "root", "mixed", or "whole" and the demand it was made for
    scope,   \* the interfaces each process is at work on
    aim,     \* the demand it works for; None: to take a qdisc away, or nothing
    alone    \* it has met nobody there since it began

vars == <<qdisc, scope, aim, alone>>

State(s, d) == [state |-> s, of |-> d]

\* A process turns to a demand, or away from one.
Turns(p) ==
    /\ aim' \in [Proc -> Demand \cup {None}]
    /\ \A q \in Proc \ {p} : aim'[q] = aim[q]

Begin(p, S) ==
    /\ scope[p] = {} /\ S # {}
    /\ scope' = [scope EXCEPT ![p] = S]
    /\ alone' = [q \in Proc |-> IF q = p THEN \A r \in Proc : scope[r] \cap S = {}
                                ELSE alone[q] /\ scope[q] \cap S = {}]
    /\ Turns(p)
    /\ UNCHANGED qdisc

Leave(P) ==
    /\ scope' = [p \in Proc |-> IF p \in P THEN {} ELSE scope[p]]
    /\ aim' = [p \in Proc |-> IF p \in P THEN None ELSE aim[p]]
    /\ alone' = [p \in Proc |-> p \in P \/ alone[p]]

\* It goes on with its work, or its work is over.
Goes(p) ==
    /\ scope[p] # {}
    /\ \/ Turns(p) /\ UNCHANGED <<scope, alone>>
       \/ Leave({p})

Go(p) == Goes(p) /\ UNCHANGED qdisc

MakeRoot(p, i) ==
    /\ aim[p] # None
    /\ qdisc[i].state = "none"
    /\ qdisc' = [qdisc EXCEPT ![i] = State("root", None)]
    /\ Goes(p)

Complete(p, i) ==
    /\ aim[p] # None
    /\ qdisc[i].state = "root"
    /\ qdisc' = [qdisc EXCEPT ![i] = qdisc'[i]]
    /\ \/ qdisc'[i] = State("whole", aim[p])
       \/ ~alone[p] /\ qdisc'[i] \in [state : {"whole"}, of : Demand] \cup {State("mixed", None)}
    /\ Goes(p)

Remove(p, i) ==
    /\ aim[p] = None
    /\ qdisc[i].state # "none"
    /\ qdisc' = [qdisc EXCEPT ![i] = State("none", None)]
    /\ Goes(p)

\* Another tool comes in the way, and may take a qdisc away.
Interfere(i) ==
    /\ qdisc' \in {qdisc, [qdisc EXCEPT ![i] = State("none", None)]}
    /\ alone' = [p \in Proc |-> alone[p] /\ i \notin scope[p]]
    /\ UNCHANGED <<scope, aim>>

\* Processes end, and what they have made stays ...
Stop(P) == Leave(P) /\ UNCHANGED qdisc

\* ... unless the host does.
Reboot == Leave(Proc) /\ qdisc' = [i \in Iface |-> State("none", None)]

Init ==
    /\ qdisc = [i \in Iface |-> State("none", None)]
    /\ scope = [p \in Proc |-> {}]
    /\ aim = [p \in Proc |-> None]
    /\ alone = [p \in Proc |-> TRUE]

Next ==
    \/ \E p \in Proc :
          \/ \E S \in SUBSET Iface : Begin(p, S)
          \/ Go(p)
          \/ \E i \in scope[p] : MakeRoot(p, i) \/ Complete(p, i) \/ Remove(p, i)
    \/ \E i \in Iface : Interfere(i)
    \/ \E P \in SUBSET Proc : Stop(P)
    \/ Reboot

Spec == Init /\ [][Next]_vars
=============================================================================
