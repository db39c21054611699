---------------------------- MODULE IfaceTcInv ----------------------------
(***************************************************************************)
(* Why kernel and database agree: the inductive invariant of IfaceTc.      *)
(*                                                                         *)
(* An interface for which qosm answers is in step, or one operation alone  *)
(* is at work on it, and what kernel and database have of it follows from  *)
(* where that operation is.                                                *)
(***************************************************************************)
EXTENDS IfaceTc

Whole(j) == [state |-> "whole", rate |-> j.rate, split |-> j.split]

\* The statements of a change: there is nothing left to do to the kernel.
Storing == {"rate", "high", "dflt", "low"}

\* The steps that concern one interface.
AtWork == RequestPC \cup Storing \cup {"enter", "look", "save", "off"}

\* Which operation can be where, and on which interface.
Bound(c, p, j) ==
    /\ p \in {"idle", "fill", "exit"} => j.scope = {}
    /\ p \in AtWork => j.iface \in j.scope
    /\ j.op # "restore" => j.scope \subseteq {j.iface}
    /\ j.op = "restore" => \A x \in j.left : x.iface \in j.scope
    /\ j.dead => c \in DaemonClient /\ p \in RequestPC
    /\ p = "next" => j.op = "restore"
    /\ p = "enter" => j.op \in {"enable", "disable", "rate", "split"}
    /\ p \in {"look", "save"} => j.op \in {"enable", "restore"}
    /\ p \in {"find", "root", "classes", "mark"} => j.op \in {"enable", "restore", "rate", "split"}
    /\ p \in {"flush", "unmark"} => j.op \in {"disable", "rate", "split"}
    /\ p = "unmark" => j.op = "disable" \/ c \in DaemonClient
    /\ p = "off" => j.op = "disable"
    /\ p = "rate" => j.op = "rate"
    /\ p \in {"high", "dflt", "low"} => j.op = "split"
    /\ p = "note" => j.op # "restore"

\* Who has met nobody meets nobody, and two are never at work on an interface for
\* which qosm answers.
Apart(c, d) ==
    /\ job[c].alone => job[c].scope \cap job[d].scope = {}
    /\ job[c].scope \cap job[d].scope \cap clean = {}

\* What an operation has done to the kernel that has met nobody and no error.
Made(c) ==
    LET p == pc[c]
        j == job[c]
    IN
    j.alone /\ ~j.err =>
        /\ p \in {"mark", "save"} => qdisc[j.iface] = Whole(j)
        /\ p = "save" => j.iface \in ifset
        /\ p \in {"unmark", "off"} => qdisc[j.iface].state = "none"
        /\ p = "off" => j.iface \notin ifset

\* The database has what a change of rate or percentages leaves alone.
Kept(j) ==
    LET e == Load(j.iface) IN
    /\ e.enabled
    /\ j.op = "rate" => e.split = j.split
    /\ j.op = "split" => e.rate = j.rate

\* What an operation can rely on when qosm answers for its interface.
Phase(c) ==
    LET p == pc[c]
        j == job[c]
        i == j.iface
        e == Load(i)
    IN
    /\ j.alone /\ ~j.dead /\ ~j.err
    /\ p \in {"enter", "look", "flush", "note"} => InStep(i)
    /\ p = "enter" /\ j.op \in {"enable", "split"} => Valid(j.split)
    /\ p \in {"look", "flush", "unmark", "find", "root", "classes"} /\ j.op # "disable" =>
          Valid(j.split) /\ ~Starves(j.rate, j.split)
    /\ p \in {"find", "root"} => qdisc[i].state = "none"
    /\ p = "classes" => qdisc[i].state = "root"
    /\ p \in RequestPC /\ Changes(c) => Kept(j)
    /\ p \in {"find", "root", "classes"} /\ Changes(c) /\ c \notin DaemonClient => i \in ifset
    /\ p \in Storing => \/ ~e.enabled /\ InStep(i)
                        \/ Kept(j) /\ qdisc[i] = Whole(j) /\ i \in ifset
    /\ p \in {"dflt", "low"} /\ e.enabled => e.split.high = j.split.high
    /\ p = "low" /\ e.enabled => e.split.dflt = j.split.dflt

\* A restore passes over the interfaces that are in step.
Restored(c) ==
    \A i \in job[c].scope \cap clean :
        /\ InStep(i) /\ Load(i).enabled
        /\ pc[c] \in {"find", "root", "classes", "mark", "save"} => job[c].iface # i

Held(c) ==
    IF job[c].op = "restore" THEN Restored(c) ELSE job[c].scope \cap clean # {} => Phase(c)

SyncInv ==
    /\ \A c \in Client : Bound(c, pc[c], job[c]) /\ Made(c) /\ Held(c)
    /\ \A c \in Client : \A d \in Client \ {c} : Apart(c, d)
    /\ IfaceInSync
=============================================================================
