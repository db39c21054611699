------------------------------ MODULE IfaceTc ------------------------------
(***************************************************************************)
(* QoS on the interfaces: enabling, disabling, rate and class percentages. *)
(*                                                                         *)
(* What qosm knows of an interface lives in four places: its HTB qdisc and *)
(* its membership of the nftables interface set, both in the kernel; its   *)
(* row of the database; and the map Ifaces of each manager.  A CLI process *)
(* fills its map from the database when it starts; the goroutines of the   *)
(* web server share one, which nothing locks.  In daemon mode the kernel's *)
(* part is a request to the daemon, which serves one at a time.            *)
(***************************************************************************)
EXTENDS Naturals

CONSTANTS
    Iface,          \* interfaces of the host
    Client,         \* CLI processes and goroutines of the web server
    WebClient,      \* the goroutines
    DaemonClient,   \* those with Options.DaemonMode
    Rate,           \* total rates that are asked for
    Split,          \* class percentages that are asked for
    None,           \* no client, no interface, no row, not in the map
    MaxFaults       \* bound: failing requests and statements, processes killed,
                    \* reboots and alterations without qosm

Percentages == [high : Nat, dflt : Nat, low : Nat]
Valid(s) == s.high + s.dflt + s.low = 100
Entry == [enabled : BOOLEAN, rate : Nat, split : Percentages]
Demand == [rate : Nat, split : Percentages]

ASSUME IfaceAssumption ==
    /\ WebClient \subseteq Client /\ DaemonClient \subseteq Client
    /\ Rate \subseteq Nat /\ Split \subseteq Percentages
    /\ None \notin Client \cup Iface \cup Entry \cup Demand
    /\ MaxFaults \in Nat

VARIABLES
    qdisc,       \* kernel: the root HTB qdisc of each interface
    ifset,       \* kernel: the nftables set of interfaces
    row,         \* database: the row of each interface
    web,         \* memory: the map of the web server
    pc,          \* where each client's operation is
    job,         \* its local variables
    serving,     \* the client whose request the daemon executes
    clean,       \* history: interfaces for which qosm answers
    faults       \* failures and alterations so far

vars == <<qdisc, ifset, row, web, pc, job, serving, clean, faults>>

Default == [enabled |-> FALSE, rate |-> 100,
            split |-> [high |-> 50, dflt |-> 40, low |-> 10]]

\* A qdisc has its root first, then its classes and filters (module HtbQdisc);
\* two that make one at the same time may mix it.
Qdisc == [state : {"none", "root", "mixed", "whole"}, rate : Nat, split : Percentages]
NoQdisc == [state |-> "none", rate |-> 0, split |-> Default.split]

RequestPC == {"find", "root", "classes", "mark", "flush", "unmark"}
PC == RequestPC \cup {"idle", "enter", "look", "next", "save", "rate",
                      "high", "dflt", "low", "off", "note", "fill", "exit"}

Op == {"none", "enable", "disable", "rate", "split", "restore", "stats", "reload"}

\* alone: it has met no other operation.  dead: its client is, but not its request.
\* err: the daemon's error, which nobody has looked at.
Job == [op : Op, iface : Iface \cup {None}, scope : SUBSET Iface, rate : Nat,
        split : Percentages, entry : Entry, left : SUBSET [iface : Iface, entry : Entry],
        alone : BOOLEAN, dead : BOOLEAN, err : BOOLEAN]

Idle == [op |-> "none", iface |-> None, scope |-> {}, rate |-> 0,
         split |-> Default.split, entry |-> Default, left |-> {},
         alone |-> TRUE, dead |-> FALSE, err |-> FALSE]

\* A mutant: rates are rounded up.
RoundedUp(r, percent) == (r * percent + 99) \div 100

\* getClassRates, in Mb/s.
ClassRate(r, percent) == (r * percent) \div 100

\* The kernel takes no class with a rate of 0.
Starves(r, s) == \E n \in {s.high, s.dflt, s.low} : ClassRate(r, n) = 0

\* What getNetInterfaces finds for an interface.
Load(i) == IF row[i] = None THEN Default ELSE row[i]

IsWeb(c) == c \in WebClient
WebIsUp == \E i \in Iface : web[i] # None
Starting == \E c \in WebClient : job[c].op = "restore"

-----------------------------------------------------------------------------
(* Control.                                                                *)

\* An operation begins.  From here on it is in the way of every other one on
\* the same interfaces, and they are in its way.
Ask(c, p, j) ==
    LET Meets(d) == d # c /\ job[d].scope \cap j.scope # {} IN
    /\ pc[c] = "idle"
    /\ pc' = [pc EXCEPT ![c] = p]
    /\ job' = [d \in Client |->
          IF d = c THEN [j EXCEPT !.alone = ~ \E e \in Client : Meets(e)]
          ELSE [job[d] EXCEPT !.alone = @ /\ ~Meets(d)]]
    /\ clean' = clean \ UNION {job[d].scope \cap j.scope : d \in Client \ {c}}
    /\ UNCHANGED <<qdisc, ifset, row, serving, faults>>

Goto(c, p, j) ==
    /\ pc' = [pc EXCEPT ![c] = p]
    /\ job' = [job EXCEPT ![c] = j]

End(c) == Goto(c, "idle", Idle)

\* The operation returns; in the web server, the copy of the map's entry that it
\* worked on is written back first.
Return(c, j) == IF IsWeb(c) /\ j.op # "restore" THEN Goto(c, "note", j) ELSE End(c)

\* The web server gives up its start, and its process is to exit.
Exit(c) == Goto(c, "exit", [Idle EXCEPT !.op = "restore"])

\* It returns an error: only EnableTcOnInterface defers the write to the map.
Fail(c) ==
    IF job[c].op = "enable" THEN Return(c, job[c])
    ELSE IF job[c].op = "restore" /\ IsWeb(c) THEN Exit(c)
    ELSE End(c)

Released(c) == IF serving = c THEN None ELSE serving
AtKernel(c, p) == pc[c] = p /\ (c \in DaemonClient => serving = c)

-----------------------------------------------------------------------------
(* Requests of the user.                                                   *)

Request(op, i, r, s) ==
    [Idle EXCEPT !.op = op, !.iface = i, !.scope = {i}, !.rate = r, !.split = s,
                 !.entry = Load(i)]

\* Rate and percentages are verified before anything else.
AskEnable(c, i, r, s) ==
    /\ r # 0 /\ Valid(s)
    /\ IsWeb(c) => web[i] # None /\ ~web[i].enabled /\ ~Starting
    /\ Ask(c, "enter", Request("enable", i, r, s))
    /\ UNCHANGED web

AskDisable(c, i) ==
    /\ IsWeb(c) => web[i] # None /\ web[i].enabled /\ ~Starting
    /\ Ask(c, "enter", Request("disable", i, 0, Default.split))
    /\ UNCHANGED web

\* The rate is not verified.
AskRate(c, i, r) ==
    /\ IsWeb(c) => web[i] # None /\ r # web[i].rate /\ ~Starting
    /\ Ask(c, "enter", Request("rate", i, r, Default.split))
    /\ UNCHANGED web

AskSplit(c, i, s) ==
    /\ Valid(s)
    /\ IsWeb(c) => web[i] # None /\ s # web[i].split /\ ~Starting
    /\ Ask(c, "enter", Request("split", i, 0, s))
    /\ UNCHANGED web

\* RestoreInterfaceStates of the CLI, with the map it has just loaded.
Restoring ==
    LET S == {i \in Iface : Load(i).enabled} IN
    [Idle EXCEPT !.op = "restore", !.scope = S,
                 !.left = {[iface |-> i, entry |-> Load(i)] : i \in S}]

AskRestore(c) ==
    /\ ~IsWeb(c)
    /\ Ask(c, "next", Restoring)
    /\ UNCHANGED web

\* The web server starts: it fills its map and restores.
WebStart(c) ==
    /\ IsWeb(c) /\ ~WebIsUp
    /\ \A d \in WebClient : pc[d] = "idle"
    /\ web' = [i \in Iface |-> Load(i)]
    /\ Ask(c, "next", Restoring)

\* The dashboard's statistics write the copy they have read back to the map.
AskStats(c, i) ==
    /\ IsWeb(c) /\ ~Starting
    /\ web[i] # None /\ web[i].enabled /\ qdisc[i].state \in {"mixed", "whole"}
    /\ Ask(c, "note", [Idle EXCEPT !.op = "stats", !.iface = i, !.entry = web[i]])
    /\ UNCHANGED web

\* RefreshInterfaces empties the map ...
AskReload(c) ==
    /\ IsWeb(c) /\ ~Starting /\ WebIsUp
    /\ Ask(c, "fill", [Idle EXCEPT !.op = "reload",
                       !.left = {[iface |-> i, entry |-> Default] : i \in Iface}])
    /\ web' = [i \in Iface |-> None]

\* ... and fills it, one interface after the other.
Fill(c) ==
    /\ pc[c] = "fill"
    /\ IF job[c].left = {} THEN End(c) /\ UNCHANGED web
       ELSE \E x \in job[c].left :
               /\ web' = [web EXCEPT ![x.iface] = Load(x.iface)]
               /\ Goto(c, "fill", [job[c] EXCEPT !.left = @ \ {x}])
    /\ UNCHANGED <<qdisc, ifset, row, serving, clean, faults>>
-----------------------------------------------------------------------------
(* The steps of an operation.                                              *)

\* The entry that the operation works on is read: by the web server from the map
\* that all its goroutines share, by the CLI from the one it filled at its start.
Enter(c) ==
    LET i == job[c].iface
        e == IF IsWeb(c) THEN web[i] ELSE job[c].entry
        Start == IF job[c].op = "enable" THEN "look"
                 ELSE IF job[c].op = "disable" \/ e.enabled THEN "flush"
                 ELSE IF job[c].op = "rate" THEN "rate" ELSE "high"
        j == [job[c] EXCEPT !.entry = e,
                            !.rate = IF job[c].op = "split" THEN e.rate ELSE @,
                            !.split = IF job[c].op = "rate" THEN e.split ELSE @]
    IN
    /\ pc[c] = "enter"
    /\ IF e = None THEN End(c) /\ UNCHANGED clean
       ELSE /\ Goto(c, Start, j)
            /\ clean' = IF e # Load(i) \/ (j.op # "disable" /\ Starves(j.rate, j.split))
                        THEN clean \ {i} ELSE clean
    /\ UNCHANGED <<qdisc, ifset, row, web, serving, faults>>

\* The next enabled interface of a restore.
NextIface(c) ==
    /\ pc[c] = "next"
    /\ \E x \in job[c].left :
          LET j == [job[c] EXCEPT !.iface = x.iface, !.entry = x.entry,
                                  !.rate = x.entry.rate, !.split = x.entry.split,
                                  !.left = @ \ {x}]
          IN IF x.entry.rate = 0 \/ ~Valid(x.entry.split) THEN Fail(c)
             ELSE Goto(c, "look", j)
    /\ UNCHANGED <<qdisc, ifset, row, web, serving, clean, faults>>

RestoreDone(c) ==
    /\ pc[c] = "next"
    /\ job[c].left = {}
    /\ End(c)
    /\ UNCHANGED <<qdisc, ifset, row, web, serving, clean, faults>>

\* A restore failed when the web server started: it does not serve anybody.
WebExit(c) ==
    /\ pc[c] = "exit"
    /\ web' = [i \in Iface |-> None]
    /\ End(c)
    /\ UNCHANGED <<qdisc, ifset, row, serving, clean, faults>>

\* HasHTBQdisc.  Restore takes an interface with a qdisc for restored.
Look(c) ==
    LET q == qdisc[job[c].iface].state IN
    /\ pc[c] = "look"
    /\ \/ q = "none" /\ Goto(c, "find", job[c])
       \/ q # "none" /\ job[c].op = "restore" /\ Goto(c, "next", job[c])
       \/ q # "none" /\ job[c].op = "enable" /\ Fail(c)
    /\ UNCHANGED <<qdisc, ifset, row, web, serving, clean, faults>>

-----------------------------------------------------------------------------
(* Requests to the kernel, in direct mode or by the daemon.                *)

\* One request to the daemon disables, another one enables.
Accept(c) ==
    /\ c \in DaemonClient
    /\ serving = None
    /\ pc[c] \in {"find", "flush"}
    /\ serving' = c
    /\ UNCHANGED <<qdisc, ifset, row, web, pc, job, clean, faults>>

Changes(c) == job[c].op \in {"rate", "split"}

\* The kernel's part is done: on to the statement on the database.
Save(c) ==
    IF job[c].dead THEN End(c)
    ELSE CASE job[c].op = "rate" -> Goto(c, "rate", job[c])
           [] job[c].op = "split" -> Goto(c, "high", job[c])
           [] OTHER -> Goto(c, "save", job[c])

\* The requests of a disable, and of a change before it creates its qdisc anew.
Removing == {"flush", "unmark"}

\* The error is there and the statement on the database comes all the same.
Overlook(c) == Goto(c, "off", [job[c] EXCEPT !.err = TRUE])

\* A request ends in an error.  DisableTcOnInterface in daemon mode takes no notice
\* of it, nor does a change whose new qdisc the daemon does not create: the next
\* assignment to err overwrites it.  In direct mode a change takes no notice of
\* ErrQdiscExists, and a restore passes over it.
Refused(c, exists) ==
    LET daemon == c \in DaemonClient IN
    /\ serving' = Released(c)
    /\ IF job[c].dead THEN End(c)
       ELSE IF job[c].op = "disable" /\ daemon THEN Overlook(c)
       ELSE IF Changes(c) /\ pc[c] \notin Removing /\ (daemon \/ exists) THEN Save(c)
       ELSE IF job[c].op = "restore" /\ exists /\ ~daemon THEN Goto(c, "next", job[c])
       ELSE Fail(c)

\* InitHTBOnIface looks again; CreateQdisc verifies rate and percentages.
Find(c) ==
    LET exists == qdisc[job[c].iface].state # "none" IN
    /\ AtKernel(c, "find")
    /\ IF exists \/ job[c].rate = 0 \/ ~Valid(job[c].split) THEN Refused(c, exists)
       ELSE Goto(c, "root", job[c]) /\ UNCHANGED serving
    /\ UNCHANGED <<qdisc, ifset, row, web, clean, faults>>

\* A mutant: a root that is there is replaced.
AddRootAnew(c) ==
    LET i == job[c].iface IN
    /\ AtKernel(c, "root")
    /\ qdisc' = [qdisc EXCEPT ![i] =
           [state |-> "root", rate |-> job[c].rate, split |-> job[c].split]]
    /\ Goto(c, "classes", job[c])
    /\ UNCHANGED <<ifset, row, web, serving, clean, faults>>

AddRoot(c) ==
    LET i == job[c].iface IN
    /\ AtKernel(c, "root")
    /\ IF qdisc[i].state = "none"
       THEN /\ qdisc' = [qdisc EXCEPT ![i] =
                   [state |-> "root", rate |-> job[c].rate, split |-> job[c].split]]
            /\ Goto(c, "classes", job[c])
            /\ UNCHANGED serving
       ELSE Refused(c, FALSE) /\ UNCHANGED qdisc
    /\ UNCHANGED <<ifset, row, web, clean, faults>>

\* Classes and filters fit any root, and fail without one or with another's; a
\* class without a rate leaves the root behind.
AddClasses(c) ==
    LET i == job[c].iface IN
    /\ AtKernel(c, "classes")
    /\ IF qdisc[i].state = "root" /\ ~Starves(job[c].rate, job[c].split)
       THEN /\ qdisc' = [qdisc EXCEPT ![i] =
                   [state |-> "whole", rate |-> job[c].rate, split |-> job[c].split]]
            /\ IF Changes(c) /\ c \notin DaemonClient THEN Save(c)
               ELSE Goto(c, "mark", job[c])
            /\ UNCHANGED serving
       ELSE Refused(c, FALSE) /\ UNCHANGED qdisc
    /\ UNCHANGED <<ifset, row, web, clean, faults>>

\* Who has met somebody may find that some classes are another's, which QdiscLife
\* allows; the daemon serves one at a time.
AddClassesMixed(c) ==
    LET i == job[c].iface IN
    /\ AtKernel(c, "classes") /\ ~job[c].alone /\ DaemonClient # Client
    /\ qdisc[i].state = "root"
    /\ \/ qdisc' = [qdisc EXCEPT ![i].state = "mixed"]
       \/ \E r \in Rate, s \in Split :
             /\ Valid(s) /\ ~Starves(r, s)
             /\ qdisc' = [qdisc EXCEPT ![i] = [state |-> "whole", rate |-> r, split |-> s]]
    /\ IF Changes(c) /\ c \notin DaemonClient THEN Save(c)
       ELSE Goto(c, "mark", job[c])
    /\ UNCHANGED <<ifset, row, web, serving, clean, faults>>

\* A mutant: the answer is sent, the connection is not closed.
MarkUnreleased(c) ==
    /\ AtKernel(c, "mark")
    /\ ifset' = ifset \cup {job[c].iface}
    /\ Save(c)
    /\ UNCHANGED <<qdisc, row, web, serving, clean, faults>>

\* AddIfaces: an element that is there is no error.
Mark(c) ==
    /\ AtKernel(c, "mark")
    /\ ifset' = ifset \cup {job[c].iface}
    /\ serving' = Released(c)
    /\ Save(c)
    /\ UNCHANGED <<qdisc, row, web, clean, faults>>

\* FlushQdiscFromIface: ErrQdiscNotFound stops only a change in direct mode.
Flush(c) ==
    LET i == job[c].iface
        direct == Changes(c) /\ c \notin DaemonClient IN
    /\ AtKernel(c, "flush")
    /\ qdisc' = [qdisc EXCEPT ![i] = NoQdisc]
    /\ IF ~direct THEN Goto(c, "unmark", job[c])
       ELSE IF qdisc[i].state = "none" THEN Fail(c)
       ELSE Goto(c, "find", job[c])
    /\ UNCHANGED <<ifset, row, web, serving, clean, faults>>

\* DeleteIfaces: ErrSetElementNotExists is ignored.
Unmark(c) ==
    /\ AtKernel(c, "unmark")
    /\ ifset' = ifset \ {job[c].iface}
    /\ serving' = Released(c)
    /\ IF job[c].dead THEN End(c)
       ELSE Goto(c, IF Changes(c) THEN "find" ELSE "off", job[c])
    /\ UNCHANGED <<qdisc, row, web, clean, faults>>

-----------------------------------------------------------------------------
(* Statements on the database, and the map of the web server.              *)

\* Whatever was before: from here on qosm answers for the interface, unless its
\* request has failed.
Settles(c) ==
    clean' = IF job[c].alone /\ ~job[c].err THEN clean \cup {job[c].iface} ELSE clean

\* A mutant: INSERT OR IGNORE.
SaveRowOrIgnore(c) ==
    LET i == job[c].iface
        e == [enabled |-> TRUE, rate |-> job[c].rate, split |-> job[c].split] IN
    /\ pc[c] = "save"
    /\ row' = IF row[i] = None THEN [row EXCEPT ![i] = e] ELSE row
    /\ IF job[c].op = "restore" THEN Goto(c, "next", job[c])
       ELSE Return(c, [job[c] EXCEPT !.entry = e])
    /\ Settles(c)
    /\ UNCHANGED <<qdisc, ifset, web, serving, faults>>

\* AddInterface: INSERT OR REPLACE.
SaveRow(c) ==
    LET i == job[c].iface
        e == [enabled |-> TRUE, rate |-> job[c].rate, split |-> job[c].split] IN
    /\ pc[c] = "save"
    /\ row' = [row EXCEPT ![i] = e]
    /\ IF job[c].op = "restore" THEN Goto(c, "next", job[c])
       ELSE Return(c, [job[c] EXCEPT !.entry = e])
    /\ Settles(c)
    /\ UNCHANGED <<qdisc, ifset, web, serving, faults>>

\* UPDATE ... WHERE name: it changes a row that exists and nothing else.
Update(c, p, e) ==
    LET i == job[c].iface IN
    /\ pc[c] = p
    /\ row' = IF row[i] = None THEN row ELSE [row EXCEPT ![i] = e]
    /\ UNCHANGED <<qdisc, ifset, web, serving, faults>>

SaveOff(c) ==
    /\ Update(c, "off", [row[job[c].iface] EXCEPT !.enabled = FALSE])
    /\ Return(c, [job[c] EXCEPT !.entry.enabled = FALSE])
    /\ Settles(c)

SaveRate(c) ==
    /\ Update(c, "rate", [row[job[c].iface] EXCEPT !.rate = job[c].rate])
    /\ Return(c, [job[c] EXCEPT !.entry.rate = job[c].rate])
    /\ UNCHANGED clean

\* The percentages are three statements.
SaveHigh(c) ==
    /\ Update(c, "high", [row[job[c].iface] EXCEPT !.split.high = job[c].split.high])
    /\ Goto(c, "dflt", job[c])
    /\ UNCHANGED clean

\* A mutant: the second statement is left out.
SaveDfltNot(c) ==
    /\ Update(c, "dflt", row[job[c].iface])
    /\ Goto(c, "low", job[c])
    /\ UNCHANGED clean

SaveDflt(c) ==
    /\ Update(c, "dflt", [row[job[c].iface] EXCEPT !.split.dflt = job[c].split.dflt])
    /\ Goto(c, "low", job[c])
    /\ UNCHANGED clean

SaveLow(c) ==
    /\ Update(c, "low", [row[job[c].iface] EXCEPT !.split.low = job[c].split.low])
    /\ Return(c, [job[c] EXCEPT !.entry.split = job[c].split])
    /\ UNCHANGED clean

\* m.Ifaces[ifaceName] = iface.
Note(c) ==
    /\ pc[c] = "note"
    /\ web' = [web EXCEPT ![job[c].iface] = job[c].entry]
    /\ End(c)
    /\ UNCHANGED <<qdisc, ifset, row, serving, clean, faults>>

-----------------------------------------------------------------------------
(* Failures.                                                               *)

Disturb(S) ==
    /\ faults < MaxFaults
    /\ faults' = faults + 1
    /\ clean' = clean \ S
    /\ UNCHANGED row

\* A CLI process is killed, or a statement or a request in direct mode fails.  What
\* becomes of a request that the daemon has is told below.
Abort(c) ==
    /\ Disturb(job[c].scope)
    /\ pc[c] \notin {"idle", "note", "exit"}
    /\ c \in DaemonClient /\ pc[c] \in RequestPC =>
           ~IsWeb(c) /\ serving # c /\ ~job[c].dead
    /\ IF pc[c] = "enter" THEN End(c) ELSE Fail(c)
    /\ UNCHANGED <<qdisc, ifset, web, serving>>

\* A request fails: the kernel refuses it, or the daemon is down or goes down.
RequestFails(c) ==
    /\ Disturb(job[c].scope)
    /\ pc[c] \in RequestPC
    /\ Refused(c, FALSE)
    /\ UNCHANGED <<qdisc, ifset, web>>

\* The daemon goes down when all is done, but before it answers.
AnswerLost(c) ==
    /\ Disturb(job[c].scope)
    /\ c \in DaemonClient
    /\ \/ AtKernel(c, "mark") /\ ifset' = ifset \cup {job[c].iface}
       \/ AtKernel(c, "unmark") /\ ifset' = ifset \ {job[c].iface}
    /\ Refused(c, FALSE)
    /\ UNCHANGED <<qdisc, web>>

\* The client is killed after it wrote its request: the daemon serves it.
Orphan(c) ==
    /\ Disturb(job[c].scope)
    /\ c \in DaemonClient \ WebClient
    /\ pc[c] \in RequestPC /\ ~job[c].dead
    /\ job' = [job EXCEPT ![c].dead = TRUE]
    /\ UNCHANGED <<qdisc, ifset, web, pc, serving>>

\* The web server stops, with all its goroutines.
WebStop ==
    LET Served(c) == c \in DaemonClient /\ pc[c] \in RequestPC IN
    /\ Disturb(UNION {job[c].scope : c \in WebClient})
    /\ WebIsUp
    /\ web' = [i \in Iface |-> None]
    /\ pc' = [c \in Client |-> IF IsWeb(c) /\ ~Served(c) THEN "idle" ELSE pc[c]]
    /\ job' = [c \in Client |-> IF ~IsWeb(c) THEN job[c]
                               ELSE IF Served(c) THEN [job[c] EXCEPT !.dead = TRUE]
                               ELSE Idle]
    /\ serving' = IF serving # None /\ IsWeb(serving) /\ ~Served(serving) THEN None
                  ELSE serving
    /\ UNCHANGED <<qdisc, ifset>>

\* The kernel's state is altered without qosm.
Alter(i) ==
    /\ Disturb({i})
    /\ \/ qdisc' = [qdisc EXCEPT ![i] = NoQdisc] /\ UNCHANGED ifset
       \/ ifset' = ifset \ {i} /\ UNCHANGED qdisc
    /\ job' = [c \in Client |-> [job[c] EXCEPT !.alone = @ /\ i \notin job[c].scope]]
    /\ UNCHANGED <<web, pc, serving>>

\* The database survives.
Reboot ==
    /\ faults < MaxFaults
    /\ faults' = faults + 1
    /\ qdisc' = [i \in Iface |-> NoQdisc]
    /\ ifset' = {}
    /\ web' = [i \in Iface |-> None]
    /\ pc' = [c \in Client |-> "idle"]
    /\ job' = [c \in Client |-> Idle]
    /\ serving' = None
    /\ clean' = {i \in Iface : ~Load(i).enabled}
    /\ UNCHANGED row

-----------------------------------------------------------------------------
Init ==
    /\ qdisc = [i \in Iface |-> NoQdisc]
    /\ ifset = {}
    /\ row = [i \in Iface |-> None]
    /\ web = [i \in Iface |-> None]
    /\ pc = [c \in Client |-> "idle"]
    /\ job = [c \in Client |-> Idle]
    /\ serving = None
    /\ clean = Iface
    /\ faults = 0

Asks(c) ==
    \/ \E i \in Iface, r \in Rate, s \in Split : AskEnable(c, i, r, s)
    \/ \E i \in Iface, r \in Rate : AskRate(c, i, r)
    \/ \E i \in Iface, s \in Split : AskSplit(c, i, s)
    \/ \E i \in Iface : AskDisable(c, i) \/ AskStats(c, i)
    \/ AskRestore(c) \/ WebStart(c) \/ AskReload(c)

KernelStep(c) ==
    Find(c) \/ AddRoot(c) \/ AddClasses(c) \/ AddClassesMixed(c) \/ Mark(c) \/ Flush(c) \/ Unmark(c)

DbStep(c) ==
    SaveRow(c) \/ SaveOff(c) \/ SaveRate(c) \/ SaveHigh(c) \/ SaveDflt(c) \/ SaveLow(c)

Step(c) ==
    \/ Enter(c) \/ NextIface(c) \/ RestoreDone(c) \/ WebExit(c) \/ Look(c)
    \/ Accept(c) \/ KernelStep(c) \/ DbStep(c)
    \/ Note(c) \/ Fill(c)

Fault(c) == Abort(c) \/ RequestFails(c) \/ AnswerLost(c) \/ Orphan(c)

Next ==
    \/ \E c \in Client : Asks(c) \/ Step(c) \/ Fault(c)
    \/ WebStop
    \/ \E i \in Iface : Alter(i)
    \/ Reboot

Spec == Init /\ [][Next]_vars

-----------------------------------------------------------------------------
\* Qdiscs, rows and entries of the map have their types, and the daemon serves
\* only a client whose request it has: it always comes free again (handleConnection).
TypeOK ==
    /\ qdisc \in [Iface -> Qdisc]
    /\ ifset \in SUBSET Iface
    /\ row \in [Iface -> Entry \cup {None}]
    /\ web \in [Iface -> Entry \cup {None}]
    /\ pc \in [Client -> PC]
    /\ job \in [Client -> Job]
    /\ serving \in DaemonClient \cup {None}
    /\ serving # None => pc[serving] \in RequestPC
    /\ clean \in SUBSET Iface
    /\ faults \in Nat

\* Kernel and database agree on an interface.
InStep(i) ==
    LET e == Load(i) IN
    /\ e.enabled => qdisc[i] = [state |-> "whole", rate |-> e.rate, split |-> e.split]
    /\ ~e.enabled => qdisc[i].state = "none"
    /\ i \in ifset <=> e.enabled

\* Shaping, marking and the database are in step on an interface that no operation
\* is concerned with.  To enable or to disable an interface with nobody in the way,
\* and with no request that fails, puts it in step whatever was before.  Out of step
\* it gets only by an operation that overlaps another, is interrupted, has a request
\* or a statement fail, works on an outdated map, or asks for a rate that leaves a
\* class without one.
IfaceInSync ==
    \A i \in clean : (\A c \in Client : i \notin job[c].scope) => InStep(i)

\* Whoever crashes or asks for what: a complete qdisc that is not mixed divides its
\* rate among its classes without remainder, and gives each 1 Mb/s at least
\* (CreateQdisc, getClassRates).
QdiscDivides ==
    \A i \in Iface : qdisc[i].state = "whole" =>
        LET s == qdisc[i].split IN
        /\ Valid(s)
        /\ \A n \in {s.high, s.dflt, s.low} : qdisc[i].rate * n >= 100

\* The qdiscs, and who is at work on them, as HtbQdisc has them.
Seen(i) == [state |-> qdisc[i].state,
            of |-> IF qdisc[i].state = "whole"
                   THEN [rate |-> qdisc[i].rate, split |-> qdisc[i].split] ELSE None]
Aim(c) == IF pc[c] \in {"find", "root", "classes"}
          THEN [rate |-> job[c].rate, split |-> job[c].split] ELSE None
Qdiscs == [i \in Iface |-> Seen(i)]
Scopes == [c \in Client |-> job[c].scope]
Aims == [c \in Client |-> Aim(c)]
Alones == [c \in Client |-> job[c].alone \/ job[c].scope = {}]

Life == INSTANCE QdiscLife WITH
    Proc <- Client, qdisc <- Qdiscs, scope <- Scopes, aim <- Aims, alone <- Alones

\* Operations leave qdiscs to each other as QdiscLife says, which HtbQdisc keeps: an
\* operation works within its interfaces, makes a root only where there is none, and
\* takes away only what it means to replace or to remove (EnableTcOnInterface,
\* DisableTcOnInterface, ChangeInterfaceRate).
LivesByQdisc == Life!Spec
=============================================================================
