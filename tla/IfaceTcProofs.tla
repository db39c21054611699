--------------------------- MODULE IfaceTcProofs ---------------------------
(***************************************************************************)
(* What holds of IfaceTc for any interfaces, clients, rates and            *)
(* percentages, whoever races, fails or crashes.                           *)
(*                                                                         *)
(* IInv: every variable keeps its type, and no complete qdisc that one     *)
(* operation has made has a class without a rate or percentages that do    *)
(* not add up.  SyncInv, on top of it: kernel and database agree on every  *)
(* interface for which qosm answers.  From both, every step is one of      *)
(* QdiscLife or changes nothing that it sees.                              *)
(***************************************************************************)
EXTENDS IfaceTcInv, TLAPS

\* Everything but where the clients are.
Settled ==
    /\ qdisc \in [Iface -> Qdisc]
    /\ ifset \in SUBSET Iface
    /\ row \in [Iface -> Entry \cup {None}]
    /\ web \in [Iface -> Entry \cup {None}]
    /\ clean \in SUBSET Iface
    /\ faults \in Nat

Placed ==
    /\ pc \in [Client -> PC]
    /\ job \in [Client -> Job]

\* Who is about to create a qdisc has passed the checks of CreateQdisc.
Verified ==
    \A c \in Client : pc[c] \in {"root", "classes"} =>
        job[c].rate # 0 /\ Valid(job[c].split)

Served ==
    /\ serving \in DaemonClient \cup {None}
    /\ serving # None => pc[serving] \in RequestPC

\* An operation on an interface has one.
Has(p, j) == p \notin {"idle", "next", "fill", "exit"} \/ j.op = "enable" => j.iface \in Iface
Named == \A c \in Client : Has(pc[c], job[c])

IInv == Settled /\ Placed /\ Served /\ Named /\ Verified /\ QdiscDivides

\* The type invariant is that of the state, of the clients and of the daemon.
LEMMA TypeParts == TypeOK <=> Settled /\ Placed /\ Served
BY DEF TypeOK, Settled, Placed, Served

\* The initial and default values are of their types.
LEMMA Constants ==
    /\ Default \in Entry /\ Default.split \in Percentages /\ NoQdisc \in Qdisc
    /\ Idle \in Job /\ None \notin Client
    /\ DaemonClient \subseteq Client /\ WebClient \subseteq Client
<1>1. Default \in Entry /\ Default.split \in Percentages
  BY DEF Default, Entry, Percentages
<1>2. NoQdisc \in Qdisc
  BY <1>1 DEF NoQdisc, Qdisc
<1>3. Idle \in Job
  BY <1>1 DEF Idle, Job, Op
<1>4. QED
  BY <1>1, <1>2, <1>3, IfaceAssumption

\* What an operation has in its local variables.
LEMMA Fields ==
    ASSUME NEW j \in Job
    PROVE  /\ j.op \in Op /\ j.iface \in Iface \cup {None} /\ j.scope \in SUBSET Iface
           /\ j.rate \in Nat /\ j.split \in Percentages /\ j.entry \in Entry
           /\ j.left \in SUBSET [iface : Iface, entry : Entry]
           /\ j.alone \in BOOLEAN /\ j.dead \in BOOLEAN /\ j.err \in BOOLEAN
BY DEF Job

\* What the invariant says something of.
Same(j, k) == k.rate = j.rate /\ k.split = j.split /\ k.op = j.op /\ k.iface = j.iface

\* Another operation that comes in the way changes nothing else of a job.
LEMMA AloneUpdate ==
    ASSUME NEW j \in Job, NEW b \in BOOLEAN
    PROVE  [j EXCEPT !.alone = b] \in Job /\ Same(j, [j EXCEPT !.alone = b])
BY DEF Job, Same

\* The death of a client changes nothing else of its request.
LEMMA DeadUpdate ==
    ASSUME NEW j \in Job
    PROVE  [j EXCEPT !.dead = TRUE] \in Job /\ Same(j, [j EXCEPT !.dead = TRUE])
BY DEF Job, Same

\* An error that is overlooked changes nothing else of a job.
LEMMA ErrUpdate ==
    ASSUME NEW j \in Job
    PROVE  [j EXCEPT !.err = TRUE] \in Job /\ Same(j, [j EXCEPT !.err = TRUE])
BY DEF Job, Same

\* A restore has one interface less to do.
LEMMA LeftUpdate ==
    ASSUME NEW j \in Job, NEW x
    PROVE  [j EXCEPT !.left = @ \ {x}] \in Job
BY DEF Job

\* An UPDATE of one column leaves a row a row.
LEMMA EntryUpdates ==
    ASSUME NEW e \in Entry
    PROVE  /\ [e EXCEPT !.enabled = FALSE] \in Entry
           /\ \A r \in Nat : [e EXCEPT !.rate = r] \in Entry
           /\ \A s \in Percentages : [e EXCEPT !.split = s] \in Entry
           /\ \A n \in Nat : /\ [e EXCEPT !.split.high = n] \in Entry
                             /\ [e EXCEPT !.split.dflt = n] \in Entry
                             /\ [e EXCEPT !.split.low = n] \in Entry
BY DEF Entry, Percentages

\* The copy of an entry that an operation writes back is an entry.
LEMMA NestedUpdates ==
    ASSUME NEW j \in Job
    PROVE  /\ [j EXCEPT !.entry.enabled = FALSE] \in Job
           /\ [j EXCEPT !.entry.rate = j.rate] \in Job
           /\ [j EXCEPT !.entry.split = j.split] \in Job
BY DEF Job, Entry
-----------------------------------------------------------------------------
(* Control.                                                                *)

\* A client goes to another place with other local variables; nobody else moves.
LEMMA Moves ==
    ASSUME Placed, NEW c \in Client, NEW p \in PC, NEW j \in Job, Goto(c, p, j)
    PROVE  /\ Placed'
           /\ pc'[c] = p /\ job'[c] = j
           /\ \A d \in Client \ {c} : pc'[d] = pc[d] /\ job'[d] = job[d]
BY DEF Placed, Goto

\* The step of one client: it keeps the daemon only while it needs it, and has
\* verified what it is about to create.
LEMMA OneStep ==
    ASSUME IInv, NEW c \in Client, NEW p \in PC, NEW j \in Job, Goto(c, p, j),
           Settled', QdiscDivides',
           p \in {"root", "classes"} => j.rate # 0 /\ Valid(j.split), Has(p, j),
           serving' \in {serving, Released(c)},
           serving' = c => p \in RequestPC
    PROVE  IInv'
<1>1. /\ Placed' /\ pc'[c] = p /\ job'[c] = j
      /\ \A d \in Client \ {c} : pc'[d] = pc[d] /\ job'[d] = job[d]
  BY Moves DEF IInv
<1>2. Verified'
  BY <1>1 DEF IInv, Verified
<1>3. serving' \in DaemonClient \cup {None} /\ (serving' # None => serving' = serving)
  BY DEF IInv, Served, Released
<1>4. serving' # None => pc'[serving'] \in RequestPC
  BY <1>1, <1>3, Constants DEF IInv, Served
<1>5. Named'
  BY <1>1 DEF IInv, Named, Has
<1>6. QED
  BY <1>1, <1>2, <1>3, <1>4, <1>5 DEF IInv, Served

\* QdiscDivides is about the qdiscs only.
LEMMA QdiscsStay == ASSUME QdiscDivides, UNCHANGED qdisc PROVE QdiscDivides'
BY DEF QdiscDivides

\* The operation goes on with the variables it has, or overlooks an error, or ends.
Leads(c, P) == End(c) \/ Exit(c) \/ Overlook(c) \/ \E p \in P : Goto(c, p, job[c])

\* An operation that fails ends, or writes its copy of the entry back.
LEMMA FailLeads == ASSUME NEW c, Fail(c) PROVE Leads(c, {"note"})
BY DEF Fail, Return, Leads

\* After the kernel's part comes a statement on the database.
LEMMA SaveLeads == ASSUME NEW c, Save(c) PROVE Leads(c, {"rate", "high", "save"})
BY DEF Save, Leads

Quiet == {"note", "rate", "high", "dflt", "low", "save", "off", "next",
          "enter", "look", "fill"}

\* A request that is refused is over, and the daemon free.
LEMMA RefusedLeads ==
    ASSUME NEW c, NEW b, Refused(c, b)
    PROVE  Leads(c, Quiet) /\ serving' = Released(c)
BY FailLeads, SaveLeads DEF Refused, Leads, Quiet

\* A step to a place without requests, and away from the daemon.
LEMMA StepQuiet ==
    ASSUME IInv, NEW c \in Client, Leads(c, Quiet),
           job[c].iface \in Iface \/ End(c) \/ Exit(c),
           Settled', QdiscDivides', serving' \in {serving, Released(c)}, serving' # c
    PROVE  IInv'
<1>1. Idle \in Job /\ Idle.op = "none" /\ job[c] \in Job
  BY Constants DEF Idle, IInv, Placed
<1>2. CASE End(c)
  BY <1>1, <1>2, OneStep DEF End, Has, PC
<1>3. CASE job[c].iface \in Iface /\ \E p \in Quiet : Goto(c, p, job[c])
  <2>1. PICK p \in Quiet : Goto(c, p, job[c])
    BY <1>3
  <2>2. p \in PC /\ p \notin {"root", "classes"} /\ Has(p, job[c])
    BY <1>3 DEF PC, Quiet, Has
  <2>3. QED
    BY <1>1, <2>1, <2>2, OneStep
<1>4. CASE Exit(c)
  <2>1. [Idle EXCEPT !.op = "restore"] \in Job /\ "exit" \in PC \ {"root", "classes"}
    BY <1>1 DEF Job, Op, PC
  <2>2. Has("exit", [Idle EXCEPT !.op = "restore"])
    BY DEF Has, Idle
  <2>3. QED
    BY <1>4, <2>1, <2>2, OneStep DEF Exit
<1>5. CASE job[c].iface \in Iface /\ Overlook(c)
  <2>1. [job[c] EXCEPT !.err = TRUE] \in Job /\ Same(job[c], [job[c] EXCEPT !.err = TRUE])
    BY <1>1, ErrUpdate
  <2>2. "off" \in PC \ {"root", "classes"} /\ Has("off", [job[c] EXCEPT !.err = TRUE])
    BY <1>5, <2>1 DEF PC, Has, Same
  <2>3. QED
    BY <1>5, <2>1, <2>2, OneStep DEF Overlook
<1>6. QED
  BY <1>2, <1>3, <1>4, <1>5 DEF Leads

\* An operation fails, with whatever it was concerned with.
LEMMA FailStep ==
    ASSUME IInv, NEW c \in Client, Fail(c), Settled', QdiscDivides',
           serving' \in {serving, Released(c)}, serving' # c
    PROVE  IInv'
<1>1. Leads(c, Quiet)
  BY FailLeads DEF Leads, Quiet
<1>2. job[c].iface \in Iface \/ End(c) \/ Exit(c)
  BY DEF Fail, IInv, Named, Has
<1>3. QED
  BY <1>1, <1>2, StepQuiet

\* The daemon serves nobody who is not at a request.
LEMMA NotServed ==
    ASSUME IInv, NEW c \in Client
    PROVE  /\ pc[c] \notin RequestPC => serving # c
           /\ Released(c) # c
BY Constants DEF IInv, Served, Released
-----------------------------------------------------------------------------
(* The beginning of an operation.                                          *)

\* What is loaded from the database is an entry.
LEMMA LoadType == ASSUME Settled, NEW i \in Iface PROVE Load(i) \in Entry
BY Constants DEF Settled, Load

\* What the user asks for is a job.
LEMMA RequestType ==
    ASSUME Settled, NEW i \in Iface, NEW op \in Op, NEW r \in Nat, NEW s \in Percentages
    PROVE  Request(op, i, r, s) \in Job
BY LoadType, Constants DEF Request, Idle, Job

\* A request of the user names its interface.
LEMMA RequestHas ==
    ASSUME NEW i \in Iface, NEW op, NEW r, NEW s PROVE Has("enter", Request(op, i, r, s))
BY DEF Has, Request, Idle

\* A restore is a job with entries to restore.
LEMMA RestoringType ==
    ASSUME Settled PROVE Restoring \in Job /\ Has("next", Restoring)
<1>1. \A i \in Iface : [iface |-> i, entry |-> Load(i)] \in [iface : Iface, entry : Entry]
  BY LoadType
<1> DEFINE S == {i \in Iface : Load(i).enabled}
           L == {[iface |-> i, entry |-> Load(i)] : i \in S}
<1>2. S \in SUBSET Iface /\ L \in SUBSET [iface : Iface, entry : Entry]
  BY <1>1
<1>3. Restoring = [Idle EXCEPT !.op = "restore", !.scope = S, !.left = L]
  BY DEF Restoring
<1> HIDE DEF S, L
<1>4. QED
  BY <1>2, <1>3, Constants DEF Idle, Job, Op, Has

\* Every operation begins at a place without requests.
LEMMA AskStep ==
    ASSUME IInv, NEW c \in Client, NEW p \in Quiet, NEW j \in Job, Ask(c, p, j),
           Has(p, j), web' \in [Iface -> Entry \cup {None}]
    PROVE  IInv'
<1>1. p \in PC /\ p \notin {"root", "classes"} /\ "idle" \notin RequestPC
  BY DEF Quiet, PC, RequestPC
<1>2. pc' = [pc EXCEPT ![c] = p] /\ pc[c] = "idle"
  BY DEF Ask
<1>3. /\ pc' \in [Client -> PC] /\ pc'[c] = p
      /\ \A d \in Client \ {c} : pc'[d] = pc[d]
  BY <1>1, <1>2 DEF IInv, Placed
<1>4. /\ job' = [d \in Client |-> job'[d]]
      /\ \E b \in BOOLEAN : job'[c] = [j EXCEPT !.alone = b]
      /\ \A d \in Client \ {c} : \E b \in BOOLEAN : job'[d] = [job[d] EXCEPT !.alone = b]
  BY Fields DEF Ask, IInv, Placed
<1>5. /\ \A d \in Client : job'[d] \in Job
      /\ Same(j, job'[c]) /\ \A d \in Client \ {c} : Same(job[d], job'[d])
  <2>1. job'[c] \in Job /\ Same(j, job'[c])
    <3>1. PICK b \in BOOLEAN : job'[c] = [j EXCEPT !.alone = b]
      BY <1>4
    <3>2. QED
      BY <3>1, AloneUpdate
  <2>2. ASSUME NEW d \in Client \ {c}
        PROVE  job'[d] \in Job /\ Same(job[d], job'[d])
    <3>1. job[d] \in Job
      BY DEF IInv, Placed
    <3>2. PICK b \in BOOLEAN : job'[d] = [job[d] EXCEPT !.alone = b]
      BY <1>4
    <3>3. QED
      BY <3>1, <3>2, AloneUpdate
  <2>3. QED
    BY <2>1, <2>2
<1>6. Placed'
  BY <1>3, <1>4, <1>5 DEF Placed
<1>7. Verified' /\ Named'
  BY <1>1, <1>3, <1>5 DEF IInv, Verified, Named, Has, Same
<1>8. serving' = serving /\ serving # c
  BY <1>1, <1>2, NotServed DEF Ask
<1>9. Served'
  BY <1>3, <1>8, Constants DEF IInv, Served
<1>10. Settled'
  BY DEF Ask, IInv, Settled
<1>11. QdiscDivides'
  BY QdiscsStay DEF Ask, IInv
<1>12. QED
  BY <1>6, <1>7, <1>9, <1>10, <1>11 DEF IInv

\* Nothing that is asked for changes the kernel.
LEMMA AsksStep ==
    ASSUME IInv, NEW c \in Client, Asks(c)
    PROVE  IInv'
<1>0. /\ Settled /\ web \in [Iface -> Entry \cup {None}]
      /\ Rate \subseteq Nat /\ Split \subseteq Percentages
      /\ {"enter", "next", "note", "fill"} \subseteq Quiet
  BY IfaceAssumption DEF IInv, Settled, Quiet
<1>1. ASSUME NEW i \in Iface, NEW r \in Rate, NEW s \in Split, AskEnable(c, i, r, s)
      PROVE  IInv'
  <2>1. Request("enable", i, r, s) \in Job /\ Has("enter", Request("enable", i, r, s))
    BY <1>0, RequestType, RequestHas DEF Op
  <2>2. QED
    BY <1>0, <1>1, <2>1, AskStep DEF AskEnable
<1>2. ASSUME NEW i \in Iface, NEW r \in Rate, AskRate(c, i, r) PROVE IInv'
  <2>1. Request("rate", i, r, Default.split) \in Job /\ Has("enter", Request("rate", i, r, Default.split))
    BY <1>0, RequestType, RequestHas, Constants DEF Op
  <2>2. QED
    BY <1>0, <1>2, <2>1, AskStep DEF AskRate
<1>3. ASSUME NEW i \in Iface, NEW s \in Split, AskSplit(c, i, s) PROVE IInv'
  <2>1. Request("split", i, 0, s) \in Job /\ Has("enter", Request("split", i, 0, s))
    BY <1>0, RequestType, RequestHas DEF Op
  <2>2. QED
    BY <1>0, <1>3, <2>1, AskStep DEF AskSplit
<1>4. ASSUME NEW i \in Iface, AskDisable(c, i) PROVE IInv'
  <2>1. Request("disable", i, 0, Default.split) \in Job /\ Has("enter", Request("disable", i, 0, Default.split))
    BY <1>0, RequestType, RequestHas, Constants DEF Op
  <2>2. QED
    BY <1>0, <1>4, <2>1, AskStep DEF AskDisable
<1>5. ASSUME NEW i \in Iface, AskStats(c, i) PROVE IInv'
  <2>1. web[i] \in Entry
    BY <1>0, <1>5 DEF AskStats
  <2>2. [Idle EXCEPT !.op = "stats", !.iface = i, !.entry = web[i]] \in Job
    BY <2>1, Constants DEF Idle, Job, Op
  <2>3. Has("note", [Idle EXCEPT !.op = "stats", !.iface = i, !.entry = web[i]])
    BY DEF Idle, Has
  <2>4. QED
    BY <1>0, <1>5, <2>2, <2>3, AskStep DEF AskStats
<1>6. CASE AskRestore(c)
  BY <1>0, <1>6, RestoringType, AskStep DEF AskRestore
<1>7. CASE WebStart(c)
  <2>1. web' \in [Iface -> Entry \cup {None}]
    BY <1>0, <1>7, LoadType DEF WebStart
  <2>2. QED
    BY <1>0, <1>7, <2>1, RestoringType, AskStep DEF WebStart
<1>8. CASE AskReload(c)
  <2> DEFINE L == {[iface |-> i, entry |-> Default] : i \in Iface}
             j == [Idle EXCEPT !.op = "reload", !.left = L]
  <2>1. L \in SUBSET [iface : Iface, entry : Entry]
    BY Constants
  <2>2. Ask(c, "fill", j) /\ web' \in [Iface -> Entry \cup {None}]
    BY <1>8 DEF AskReload
  <2> HIDE DEF L
  <2>3. j \in Job /\ Has("fill", j)
    BY <2>1, Constants DEF Idle, Job, Op, Has
  <2> HIDE DEF j
  <2>4. QED
    BY <1>0, <2>2, <2>3, AskStep
<1>9. QED
  BY <1>1, <1>2, <1>3, <1>4, <1>5, <1>6, <1>7, <1>8 DEF Asks
-----------------------------------------------------------------------------
(* The steps of an operation.                                              *)

\* The types of a client's local variables.
LEMMA JobTypes ==
    ASSUME IInv, NEW c \in Client
    PROVE  /\ pc[c] \in PC /\ job[c] \in Job
           /\ job[c].rate \in Nat /\ job[c].split \in Percentages /\ job[c].entry \in Entry
           /\ job[c].left \in SUBSET [iface : Iface, entry : Entry]
           /\ job[c].iface \in Iface \cup {None}
BY Fields DEF IInv, Placed

\* The entry is read; what is about to be created is verified later.
LEMMA EnterStep == ASSUME IInv, NEW c \in Client, Enter(c) PROVE IInv'
<1> DEFINE i == job[c].iface
           e == IF IsWeb(c) THEN web[i] ELSE job[c].entry
           r == IF job[c].op = "split" THEN e.rate ELSE job[c].rate
           s == IF job[c].op = "rate" THEN e.split ELSE job[c].split
           j == [job[c] EXCEPT !.entry = e, !.rate = r, !.split = s]
           Start == IF job[c].op = "enable" THEN "look"
                    ELSE IF job[c].op = "disable" \/ e.enabled THEN "flush"
                    ELSE IF job[c].op = "rate" THEN "rate" ELSE "high"
<1>0. i \in Iface
  BY DEF Enter, IInv, Named, Has
<1>1. /\ Settled' /\ QdiscDivides'
      /\ serving' = serving /\ serving # c
  BY QdiscsStay, NotServed DEF Enter, IInv, Settled, RequestPC
<1>2. CASE e = None
  BY <1>1, <1>2, StepQuiet DEF Enter, Leads
<1>3. CASE e # None
  <2>1. e \in Entry
    BY <1>0, <1>3, JobTypes DEF IInv, Settled
  <2>2. r \in Nat /\ s \in Percentages
    BY <2>1, JobTypes DEF Entry
  <2>3. Goto(c, Start, j)
    BY <1>3 DEF Enter
  <2>4. Start \in PC /\ Start \notin {"root", "classes"}
    BY DEF PC, RequestPC
  <2> HIDE DEF e, r, s, Start
  <2>5. j \in Job /\ j.iface = i
    BY <2>1, <2>2, JobTypes DEF Job
  <2>6. Has(Start, j)
    BY <1>0, <2>5 DEF Has
  <2> HIDE DEF j
  <2>7. QED
    BY <1>1, <2>3, <2>4, <2>5, <2>6, OneStep
<1>4. QED
  BY <1>2, <1>3

\* Restore turns to its next interface.
LEMMA NextStep == ASSUME IInv, NEW c \in Client, NextIface(c) PROVE IInv'
<1>1. /\ Settled' /\ QdiscDivides'
      /\ serving' = serving /\ serving # c
  BY QdiscsStay, NotServed DEF NextIface, IInv, Settled, RequestPC
<1>2. CASE Fail(c)
  BY <1>1, <1>2, FailStep
<1>3. ASSUME NEW x \in job[c].left,
             Goto(c, "look", [job[c] EXCEPT !.iface = x.iface, !.entry = x.entry,
                                  !.rate = x.entry.rate, !.split = x.entry.split,
                                  !.left = @ \ {x}])
      PROVE  IInv'
  <2> DEFINE j == [job[c] EXCEPT !.iface = x.iface, !.entry = x.entry,
                                  !.rate = x.entry.rate, !.split = x.entry.split,
                                  !.left = @ \ {x}]
  <2>1. x.iface \in Iface /\ x.entry \in Entry
    BY JobTypes
  <2>2. x.entry.rate \in Nat /\ x.entry.split \in Percentages
    BY <2>1 DEF Entry
  <2>3. j \in Job /\ Has("look", j)
    BY <2>1, <2>2, JobTypes DEF Job, Has
  <2>4. "look" \in PC \ {"root", "classes"} /\ Goto(c, "look", j)
    BY <1>3 DEF PC
  <2> HIDE DEF j
  <2>5. QED
    BY <1>1, <2>3, <2>4, OneStep
<1>4. QED
  BY <1>2, <1>3 DEF NextIface

\* Restore is done.
LEMMA RestoreDoneStep == ASSUME IInv, NEW c \in Client, RestoreDone(c) PROVE IInv'
<1>1. /\ Settled' /\ QdiscDivides'
      /\ serving' = serving /\ serving # c
  BY QdiscsStay, NotServed DEF RestoreDone, IInv, Settled, RequestPC
<1>2. QED
  BY <1>1, StepQuiet DEF RestoreDone, Leads

\* Where an operation is that has begun on its interface.
LEMMA OnInterface ==
    ASSUME IInv, NEW c \in Client, pc[c] \notin {"idle", "next", "fill", "exit"}
    PROVE  job[c].iface \in Iface
BY DEF IInv, Named, Has

\* A qdisc is looked for before one is created.
LEMMA LookStep == ASSUME IInv, NEW c \in Client, Look(c) PROVE IInv'
<1>1. /\ Settled' /\ QdiscDivides'
      /\ serving' = serving /\ serving # c
  BY QdiscsStay, NotServed DEF Look, IInv, Settled, RequestPC
<1>2. job[c].iface \in Iface
  BY OnInterface DEF Look
<1>3. CASE Goto(c, "find", job[c])
  <2>1. "find" \in PC \ {"root", "classes"} /\ Has("find", job[c])
    BY <1>2 DEF PC, RequestPC, Has
  <2>2. QED
    BY <1>1, <1>3, <2>1, JobTypes, OneStep
<1>4. CASE Goto(c, "next", job[c]) \/ Fail(c)
  <2>1. Leads(c, Quiet)
    BY <1>4, FailLeads DEF Leads, Quiet
  <2>2. QED
    BY <1>1, <1>2, <2>1, StepQuiet
<1>5. QED
  BY <1>3, <1>4 DEF Look

\* The daemon takes the next request.
LEMMA AcceptStep == ASSUME IInv, NEW c \in Client, Accept(c) PROVE IInv'
<1>1. Settled' /\ Placed' /\ Verified' /\ Named' /\ QdiscDivides'
  BY QdiscsStay DEF Accept, IInv, Settled, Placed, Verified, Named
<1>2. Served'
  BY DEF Accept, Served, RequestPC
<1>3. QED
  BY <1>1, <1>2 DEF IInv

\* The web server exits, and its map is gone.
LEMMA WebExitStep == ASSUME IInv, NEW c \in Client, WebExit(c) PROVE IInv'
<1>1. /\ Settled' /\ QdiscDivides'
      /\ serving' = serving /\ serving # c
  BY QdiscsStay, NotServed DEF WebExit, IInv, Settled, RequestPC
<1>2. QED
  BY <1>1, StepQuiet DEF WebExit, Leads

\* An entry is written to the map of the web server.
LEMMA NoteStep == ASSUME IInv, NEW c \in Client, Note(c) PROVE IInv'
<1>1. /\ Settled' /\ QdiscDivides'
      /\ serving' = serving /\ serving # c
  BY QdiscsStay, NotServed, JobTypes DEF Note, IInv, Settled, RequestPC
<1>2. QED
  BY <1>1, StepQuiet DEF Note, Leads

\* The map of the web server is filled anew.
LEMMA FillStep == ASSUME IInv, NEW c \in Client, Fill(c) PROVE IInv'
<1>1. QdiscDivides' /\ serving' = serving /\ serving # c
  BY QdiscsStay, NotServed DEF Fill, IInv, RequestPC
<1>2. CASE End(c) /\ UNCHANGED web
  <2>1. Settled'
    BY <1>2 DEF Fill, IInv, Settled
  <2>2. QED
    BY <1>1, <1>2, <2>1, StepQuiet DEF Leads
<1>3. ASSUME NEW x \in job[c].left, web' = [web EXCEPT ![x.iface] = Load(x.iface)],
             Goto(c, "fill", [job[c] EXCEPT !.left = @ \ {x}])
      PROVE  IInv'
  <2> DEFINE j == [job[c] EXCEPT !.left = @ \ {x}]
  <2>1. x.iface \in Iface
    BY JobTypes
  <2>2. Load(x.iface) \in Entry
    BY <2>1, LoadType DEF IInv
  <2>3. Settled'
    BY <1>3, <2>2 DEF Fill, IInv, Settled
  <2>4. j \in Job /\ j.op = job[c].op /\ j.iface = job[c].iface
    BY JobTypes, LeftUpdate DEF Job
  <2>5. "fill" \in PC \ {"root", "classes"} /\ Has("fill", j)
    BY <2>4 DEF PC, Has, IInv, Named
  <2> HIDE DEF j
  <2>6. Goto(c, "fill", j)
    BY <1>3 DEF j
  <2>7. QED
    BY <1>1, <2>3, <2>4, <2>5, <2>6, OneStep
<1>4. QED
  BY <1>2, <1>3 DEF Fill
-----------------------------------------------------------------------------
(* Requests to the kernel.                                                 *)

\* The operation goes on with the variables it has.
LEMMA StepTo ==
    ASSUME IInv, NEW c \in Client, NEW p \in PC, Goto(c, p, job[c]),
           job[c].iface \in Iface, Settled', QdiscDivides',
           p \in {"root", "classes"} => job[c].rate # 0 /\ Valid(job[c].split),
           serving' \in {serving, Released(c)},
           serving' = c => p \in RequestPC
    PROVE  IInv'
BY JobTypes, OneStep DEF Has

\* In direct mode there is no daemon to release.
LEMMA Direct ==
    ASSUME IInv, NEW c \in Client, c \notin DaemonClient PROVE serving # c
BY Constants DEF IInv, Served

\* A refused request leaves the kernel as it was.
LEMMA RefusedStep ==
    ASSUME IInv, NEW c \in Client, NEW b, Refused(c, b), job[c].iface \in Iface,
           Settled', QdiscDivides'
    PROVE  IInv'
BY RefusedLeads, NotServed, StepQuiet

\* Who is at a request is concerned with an interface.
LEMMA AtRequest ==
    ASSUME NEW c \in Client, NEW p \in RequestPC, AtKernel(c, p)
    PROVE  pc[c] = p /\ pc[c] \notin {"idle", "next", "fill", "exit"}
BY DEF AtKernel, RequestPC

\* The verification of CreateQdisc: the step the invariant turns on.
LEMMA FindStep == ASSUME IInv, NEW c \in Client, Find(c) PROVE IInv'
<1>1. Settled' /\ QdiscDivides'
  BY QdiscsStay DEF Find, IInv, Settled
<1>2. job[c].iface \in Iface
  BY OnInterface, AtRequest DEF Find, RequestPC
<1>3. CASE \E b : Refused(c, b)
  BY <1>1, <1>2, <1>3, RefusedStep
<1>4. CASE /\ job[c].rate # 0 /\ Valid(job[c].split)
           /\ Goto(c, "root", job[c]) /\ UNCHANGED serving
  BY <1>1, <1>2, <1>4, StepTo DEF PC, RequestPC
<1>5. QED
  BY <1>3, <1>4 DEF Find

\* The root is created with what was verified.
LEMMA AddRootStep == ASSUME IInv, NEW c \in Client, AddRoot(c) PROVE IInv'
<1>1. /\ job[c].iface \in Iface /\ pc[c] = "root"
      /\ job[c].rate # 0 /\ Valid(job[c].split)
  BY OnInterface, AtRequest DEF AddRoot, RequestPC, IInv, Verified
<1>2. CASE Refused(c, FALSE) /\ UNCHANGED qdisc
  <2>1. Settled' /\ QdiscDivides'
    BY <1>2, QdiscsStay DEF AddRoot, IInv, Settled
  <2>2. QED
    BY <1>1, <1>2, <2>1, RefusedStep
<1>3. CASE /\ qdisc' = [qdisc EXCEPT ![job[c].iface] =
                   [state |-> "root", rate |-> job[c].rate, split |-> job[c].split]]
           /\ Goto(c, "classes", job[c])
           /\ UNCHANGED serving
  <2>1. [state |-> "root", rate |-> job[c].rate, split |-> job[c].split] \in Qdisc
    BY JobTypes DEF Qdisc
  <2>2. Settled'
    BY <1>3, <2>1 DEF AddRoot, IInv, Settled
  <2>3. QdiscDivides'
    BY <1>3 DEF IInv, Settled, QdiscDivides
  <2>4. QED
    BY <1>1, <1>3, <2>2, <2>3, StepTo DEF PC, RequestPC
<1>4. QED
  BY <1>2, <1>3 DEF AddRoot

\* A demand that starves no class gives each 1 Mb/s at least.
LEMMA FedClasses ==
    ASSUME NEW r \in Nat, NEW s \in Percentages, ~Starves(r, s)
    PROVE  \A n \in {s.high, s.dflt, s.low} : r * n >= 100
<1>1. s.high \in Nat /\ s.dflt \in Nat /\ s.low \in Nat
  BY DEF Percentages
<1>2. ASSUME NEW n \in Nat, ClassRate(r, n) # 0 PROVE r * n >= 100
  <2>1. ASSUME NEW m \in Nat, m \div 100 # 0 PROVE m >= 100
    BY <2>1
  <2>2. r * n \in Nat
    OBVIOUS
  <2>3. QED
    BY <1>2, <2>1, <2>2 DEF ClassRate
<1>3. QED
  BY <1>1, <1>2 DEF Starves

\* With the classes made, the operation goes on to the set of interfaces or to the
\* database.
LEMMA ClassesMade ==
    ASSUME IInv, NEW c \in Client, job[c].iface \in Iface, Settled', QdiscDivides',
           UNCHANGED serving,
           IF Changes(c) /\ c \notin DaemonClient THEN Save(c) ELSE Goto(c, "mark", job[c])
    PROVE  IInv'
<1>1. CASE Save(c) /\ c \notin DaemonClient
  <2>1. Leads(c, Quiet)
    BY <1>1, SaveLeads DEF Leads, Quiet
  <2>2. QED
    BY <1>1, <2>1, Direct, StepQuiet
<1>2. CASE Goto(c, "mark", job[c])
  BY <1>2, StepTo DEF PC, RequestPC
<1>3. QED
  BY <1>1, <1>2

\* The classes are created with what was verified.
LEMMA AddClassesStep == ASSUME IInv, NEW c \in Client, AddClasses(c) PROVE IInv'
<1>1. /\ job[c].iface \in Iface /\ pc[c] = "classes"
      /\ job[c].rate # 0 /\ Valid(job[c].split)
  BY OnInterface, AtRequest DEF AddClasses, RequestPC, IInv, Verified
<1>2. CASE Refused(c, FALSE) /\ UNCHANGED qdisc
  <2>1. Settled' /\ QdiscDivides'
    BY <1>2, QdiscsStay DEF AddClasses, IInv, Settled
  <2>2. QED
    BY <1>1, <1>2, <2>1, RefusedStep
<1>3. CASE /\ ~Starves(job[c].rate, job[c].split)
           /\ qdisc' = [qdisc EXCEPT ![job[c].iface] =
                   [state |-> "whole", rate |-> job[c].rate, split |-> job[c].split]]
           /\ IF Changes(c) /\ c \notin DaemonClient THEN Save(c)
              ELSE Goto(c, "mark", job[c])
           /\ UNCHANGED serving
  <2>1. [state |-> "whole", rate |-> job[c].rate, split |-> job[c].split] \in Qdisc
    BY JobTypes DEF Qdisc
  <2>2. Settled'
    BY <1>3, <2>1 DEF AddClasses, IInv, Settled
  <2>3. \A n \in {job[c].split.high, job[c].split.dflt, job[c].split.low} : job[c].rate * n >= 100
    BY <1>3, JobTypes, FedClasses
  <2>4. QdiscDivides'
    BY <1>1, <1>3, <2>3 DEF IInv, Settled, QdiscDivides
  <2>5. QED
    BY <1>1, <1>3, <2>2, <2>4, ClassesMade
<1>4. QED
  BY <1>2, <1>3 DEF AddClasses

\* Classes that are another's were verified, too.
LEMMA AddClassesMixedStep == ASSUME IInv, NEW c \in Client, AddClassesMixed(c) PROVE IInv'
<1>1. job[c].iface \in Iface
  BY OnInterface, AtRequest DEF AddClassesMixed, RequestPC
<1>2. CASE qdisc' = [qdisc EXCEPT ![job[c].iface].state = "mixed"]
  <2>1. [qdisc[job[c].iface] EXCEPT !.state = "mixed"] \in Qdisc
    BY <1>1 DEF IInv, Settled, Qdisc
  <2>2. Settled'
    BY <1>1, <1>2, <2>1 DEF AddClassesMixed, IInv, Settled
  <2>3. QdiscDivides'
    BY <1>1, <1>2, <2>1 DEF IInv, Settled, QdiscDivides, Qdisc
  <2>4. QED
    BY <1>1, <2>2, <2>3, ClassesMade DEF AddClassesMixed
<1>3. ASSUME NEW r \in Rate, NEW s \in Split, Valid(s), ~Starves(r, s),
             qdisc' = [qdisc EXCEPT ![job[c].iface] = [state |-> "whole", rate |-> r, split |-> s]]
      PROVE  IInv'
  <2>1. r \in Nat /\ s \in Percentages
    BY IfaceAssumption
  <2>2. Settled'
    BY <1>3, <2>1 DEF AddClassesMixed, IInv, Settled, Qdisc
  <2>3. \A n \in {s.high, s.dflt, s.low} : r * n >= 100
    BY <1>3, <2>1, FedClasses
  <2>4. QdiscDivides'
    BY <1>1, <1>3, <2>3 DEF IInv, Settled, QdiscDivides
  <2>5. QED
    BY <1>1, <2>2, <2>4, ClassesMade DEF AddClassesMixed
<1>4. QED
  BY <1>2, <1>3 DEF AddClassesMixed

\* The interface is put into the set of nftables.
LEMMA MarkStep == ASSUME IInv, NEW c \in Client, Mark(c) PROVE IInv'
<1>1. job[c].iface \in Iface
  BY OnInterface, AtRequest DEF Mark, RequestPC
<1>2. Settled' /\ QdiscDivides'
  BY <1>1, QdiscsStay DEF Mark, IInv, Settled
<1>3. Leads(c, Quiet) /\ serving' = Released(c)
  BY SaveLeads DEF Mark, Leads, Quiet
<1>4. QED
  BY <1>1, <1>2, <1>3, NotServed, StepQuiet

\* A qdisc that is deleted divides nothing.
LEMMA FlushStep == ASSUME IInv, NEW c \in Client, Flush(c) PROVE IInv'
<1>1. job[c].iface \in Iface
  BY OnInterface, AtRequest DEF Flush, RequestPC
<1>2. Settled'
  BY Constants DEF Flush, IInv, Settled
<1>3. QdiscDivides'
  BY DEF Flush, IInv, Settled, QdiscDivides, NoQdisc
<1>4. CASE Goto(c, "unmark", job[c]) \/ Goto(c, "find", job[c])
  BY <1>1, <1>2, <1>3, <1>4, StepTo DEF Flush, PC, RequestPC
<1>5. CASE c \notin DaemonClient /\ Fail(c)
  <2>1. Leads(c, Quiet) /\ serving # c
    BY <1>5, FailLeads, Direct DEF Leads, Quiet
  <2>2. QED
    BY <1>1, <1>2, <1>3, <2>1, StepQuiet DEF Flush
<1>6. QED
  BY <1>4, <1>5 DEF Flush

\* The interface is taken out of the set of nftables.
LEMMA UnmarkStep == ASSUME IInv, NEW c \in Client, Unmark(c) PROVE IInv'
<1>1. job[c].iface \in Iface /\ serving' = Released(c) /\ serving' # c
  BY OnInterface, AtRequest, NotServed DEF Unmark, RequestPC
<1>2. Settled' /\ QdiscDivides'
  BY QdiscsStay DEF Unmark, IInv, Settled
<1>3. CASE End(c) \/ Goto(c, "off", job[c])
  <2>1. Leads(c, Quiet)
    BY <1>3 DEF Leads, Quiet
  <2>2. QED
    BY <1>1, <1>2, <2>1, StepQuiet
<1>4. CASE Goto(c, "find", job[c])
  BY <1>1, <1>2, <1>4, StepTo DEF PC, RequestPC
<1>5. QED
  BY <1>3, <1>4 DEF Unmark
-----------------------------------------------------------------------------
(* Statements on the database.                                             *)

\* An operation returns from a statement on the database.
LEMMA ReturnStep ==
    ASSUME IInv, NEW c \in Client, NEW j \in Job, j.iface \in Iface, Return(c, j),
           Settled', UNCHANGED <<qdisc, serving>>, pc[c] \notin RequestPC
    PROVE  IInv'
<1>1. QdiscDivides' /\ serving' = serving /\ serving # c
  BY QdiscsStay, NotServed DEF IInv
<1>2. CASE End(c)
  BY <1>1, <1>2, StepQuiet DEF Leads
<1>3. CASE Goto(c, "note", j)
  BY <1>1, <1>3, OneStep DEF PC, Has
<1>4. QED
  BY <1>2, <1>3 DEF Return

\* A statement on the row, and what it settles.
LEMMA RowStep ==
    ASSUME IInv, NEW c \in Client, job[c].iface \in Iface,
           NEW e \in Entry,
           row' \in {row, [row EXCEPT ![job[c].iface] = e]},
           UNCHANGED <<qdisc, ifset, web, faults>>, Settles(c) \/ UNCHANGED clean
    PROVE  Settled'
BY DEF IInv, Settled, Settles

\* INSERT OR REPLACE.
LEMMA SaveRowStep == ASSUME IInv, NEW c \in Client, SaveRow(c) PROVE IInv'
<1> DEFINE e == [enabled |-> TRUE, rate |-> job[c].rate, split |-> job[c].split]
<1>1. e \in Entry
  BY JobTypes DEF Entry
<1>2. job[c].iface \in Iface /\ pc[c] \notin RequestPC
  BY OnInterface DEF SaveRow, RequestPC
<1>3. Settled' /\ UNCHANGED <<qdisc, serving>>
  BY <1>1, <1>2, RowStep DEF SaveRow
<1>4. CASE Goto(c, "next", job[c])
  <2>1. Leads(c, Quiet) /\ QdiscDivides' /\ serving # c
    BY <1>2, <1>3, <1>4, QdiscsStay, NotServed DEF Leads, Quiet, IInv
  <2>2. QED
    BY <1>2, <1>3, <2>1, StepQuiet
<1>5. CASE Return(c, [job[c] EXCEPT !.entry = e])
  <2> HIDE DEF e
  <2>1. /\ [job[c] EXCEPT !.entry = e] \in Job
        /\ [job[c] EXCEPT !.entry = e].iface = job[c].iface
    BY <1>1, JobTypes DEF Job
  <2>2. QED
    BY <1>2, <1>3, <1>5, <2>1, ReturnStep
<1>6. QED
  BY <1>4, <1>5 DEF SaveRow

\* UPDATE changes a row that exists.
LEMMA UpdateStep ==
    ASSUME IInv, NEW c \in Client, NEW p, NEW e, Update(c, p, e),
           job[c].iface \in Iface, Settles(c) \/ UNCHANGED clean,
           row[job[c].iface] \in Entry => e \in Entry
    PROVE  Settled' /\ UNCHANGED <<qdisc, serving>>
<1>1. CASE row[job[c].iface] = None
  BY <1>1, Constants, RowStep DEF Update
<1>2. CASE row[job[c].iface] # None
  BY <1>2, RowStep DEF Update, IInv, Settled
<1>3. QED
  BY <1>1, <1>2

\* The interface is disabled in the database.
LEMMA SaveOffStep == ASSUME IInv, NEW c \in Client, SaveOff(c) PROVE IInv'
<1>1. job[c].iface \in Iface /\ pc[c] \notin RequestPC
  BY OnInterface DEF SaveOff, Update, RequestPC
<1>2. Settled' /\ UNCHANGED <<qdisc, serving>>
  BY <1>1, EntryUpdates, UpdateStep DEF SaveOff
<1>3. /\ [job[c] EXCEPT !.entry.enabled = FALSE] \in Job
      /\ [job[c] EXCEPT !.entry.enabled = FALSE].iface = job[c].iface
  BY JobTypes, NestedUpdates DEF Job
<1>4. QED
  BY <1>1, <1>2, <1>3, ReturnStep DEF SaveOff

\* The new rate is stored.
LEMMA SaveRateStep == ASSUME IInv, NEW c \in Client, SaveRate(c) PROVE IInv'
<1>1. job[c].iface \in Iface /\ pc[c] \notin RequestPC
  BY OnInterface DEF SaveRate, Update, RequestPC
<1>2. Settled' /\ UNCHANGED <<qdisc, serving>>
  BY <1>1, EntryUpdates, JobTypes, UpdateStep DEF SaveRate
<1>3. /\ [job[c] EXCEPT !.entry.rate = job[c].rate] \in Job
      /\ [job[c] EXCEPT !.entry.rate = job[c].rate].iface = job[c].iface
  BY JobTypes, NestedUpdates DEF Job
<1>4. QED
  BY <1>1, <1>2, <1>3, ReturnStep DEF SaveRate

\* The first of the three percentages is stored.
LEMMA SaveHighStep == ASSUME IInv, NEW c \in Client, SaveHigh(c) PROVE IInv'
<1>1. job[c].iface \in Iface /\ job[c].split.high \in Nat /\ serving # c
  BY OnInterface, JobTypes, NotServed DEF SaveHigh, Update, Percentages, RequestPC
<1>2. Settled' /\ UNCHANGED <<qdisc, serving>>
  BY <1>1, EntryUpdates, UpdateStep DEF SaveHigh
<1>3. Leads(c, Quiet) /\ QdiscDivides'
  BY <1>2, QdiscsStay DEF SaveHigh, Leads, Quiet, IInv
<1>4. QED
  BY <1>1, <1>2, <1>3, StepQuiet

\* The second of the three percentages is stored.
LEMMA SaveDfltStep == ASSUME IInv, NEW c \in Client, SaveDflt(c) PROVE IInv'
<1>1. job[c].iface \in Iface /\ job[c].split.dflt \in Nat /\ serving # c
  BY OnInterface, JobTypes, NotServed DEF SaveDflt, Update, Percentages, RequestPC
<1>2. Settled' /\ UNCHANGED <<qdisc, serving>>
  BY <1>1, EntryUpdates, UpdateStep DEF SaveDflt
<1>3. Leads(c, Quiet) /\ QdiscDivides'
  BY <1>2, QdiscsStay DEF SaveDflt, Leads, Quiet, IInv
<1>4. QED
  BY <1>1, <1>2, <1>3, StepQuiet

\* The last of the three percentages is stored.
LEMMA SaveLowStep == ASSUME IInv, NEW c \in Client, SaveLow(c) PROVE IInv'
<1>1. /\ job[c].iface \in Iface /\ pc[c] \notin RequestPC
      /\ job[c].split.low \in Nat
  BY OnInterface, JobTypes DEF SaveLow, Update, Percentages, RequestPC
<1>2. Settled' /\ UNCHANGED <<qdisc, serving>>
  BY <1>1, EntryUpdates, UpdateStep DEF SaveLow
<1>3. /\ [job[c] EXCEPT !.entry.split = job[c].split] \in Job
      /\ [job[c] EXCEPT !.entry.split = job[c].split].iface = job[c].iface
  BY JobTypes, NestedUpdates DEF Job
<1>4. QED
  BY <1>1, <1>2, <1>3, ReturnStep DEF SaveLow

\* Every step of an operation preserves the invariant.
LEMMA StepStep == ASSUME IInv, NEW c \in Client, Step(c) PROVE IInv'
BY EnterStep, NextStep, RestoreDoneStep, WebExitStep, LookStep, AcceptStep, NoteStep, FillStep,
   FindStep, AddRootStep, AddClassesStep, AddClassesMixedStep, MarkStep, FlushStep, UnmarkStep,
   SaveRowStep, SaveOffStep, SaveRateStep, SaveHighStep, SaveDfltStep, SaveLowStep
   DEF Step, KernelStep, DbStep
-----------------------------------------------------------------------------
(* Failures.                                                               *)

\* A failure that leaves the kernel alone leaves its qdiscs complete.
LEMMA DisturbType ==
    ASSUME IInv, NEW S, Disturb(S), UNCHANGED <<qdisc, ifset, web>>
    PROVE  Settled' /\ QdiscDivides'
BY QdiscsStay DEF Disturb, IInv, Settled

\* An operation is cut short.
LEMMA AbortStep == ASSUME IInv, NEW c \in Client, Abort(c) PROVE IInv'
<1>1. Settled' /\ QdiscDivides' /\ serving' = serving /\ serving # c
  BY DisturbType, NotServed, Direct DEF Abort
<1>2. CASE End(c)
  BY <1>1, <1>2, StepQuiet DEF Leads
<1>3. CASE Fail(c)
  BY <1>1, <1>3, FailStep
<1>4. QED
  BY <1>2, <1>3 DEF Abort

\* A request fails.
LEMMA RequestFailsStep == ASSUME IInv, NEW c \in Client, RequestFails(c) PROVE IInv'
<1>1. job[c].iface \in Iface
  BY OnInterface DEF RequestFails, RequestPC
<1>2. QED
  BY <1>1, DisturbType, RefusedStep DEF RequestFails

\* All that is asked for is done, but not answered.
LEMMA AnswerLostStep == ASSUME IInv, NEW c \in Client, AnswerLost(c) PROVE IInv'
<1>1. job[c].iface \in Iface
  BY OnInterface, AtRequest DEF AnswerLost, RequestPC
<1>2. Settled' /\ QdiscDivides'
  BY <1>1, QdiscsStay DEF AnswerLost, Disturb, IInv, Settled
<1>3. QED
  BY <1>1, <1>2, RefusedStep DEF AnswerLost

\* Clients change in nothing but their place and whether they are dead or alone.
Stays(d) == \/ pc'[d] = pc[d] /\ Same(job[d], job'[d])
            \/ pc'[d] = "idle" /\ job'[d] = Idle

\* Several clients end or die at once; the others stay where they are.
LEMMA ManySteps ==
    ASSUME IInv, pc' \in [Client -> PC], job' \in [Client -> Job],
           \A d \in Client : Stays(d), Settled', Served', QdiscDivides'
    PROVE  IInv'
<1>1. Placed'
  BY DEF Placed
<1>2. Idle.op = "none"
  BY DEF Idle
<1>3. ASSUME NEW d \in Client
      PROVE  /\ Has(pc'[d], job'[d])
             /\ pc'[d] \in {"root", "classes"} =>
                    job'[d].rate # 0 /\ Valid(job'[d].split)
  <2>1. CASE pc'[d] = pc[d] /\ Same(job[d], job'[d])
    BY <2>1 DEF Same, Has, IInv, Named, Verified
  <2>2. CASE pc'[d] = "idle" /\ job'[d] = Idle
    BY <1>2, <2>2 DEF Has
  <2>3. QED
    BY <2>1, <2>2 DEF Stays
<1>4. Named' /\ Verified'
  BY <1>3 DEF Named, Verified
<1>5. QED
  BY <1>1, <1>4 DEF IInv

\* A client dies whose request is served.
LEMMA OrphanStep == ASSUME IInv, NEW c \in Client, Orphan(c) PROVE IInv'
<1>1. Settled' /\ QdiscDivides'
  BY DisturbType DEF Orphan
<1>2. /\ job' = [job EXCEPT ![c] = [job[c] EXCEPT !.dead = TRUE]]
      /\ [job[c] EXCEPT !.dead = TRUE] \in Job
      /\ Same(job[c], [job[c] EXCEPT !.dead = TRUE])
  BY JobTypes, DeadUpdate DEF Orphan
<1>3. /\ pc' \in [Client -> PC] /\ job' \in [Client -> Job]
      /\ \A d \in Client : Stays(d)
  BY <1>2 DEF Orphan, IInv, Placed, Same, Stays
<1>4. Served'
  BY DEF Orphan, IInv, Served
<1>5. QED
  BY <1>1, <1>3, <1>4, ManySteps

\* The web server stops with all its goroutines.
LEMMA WebStopStep == ASSUME IInv, WebStop PROVE IInv'
<1> DEFINE Asked(c) == c \in DaemonClient /\ pc[c] \in RequestPC
<1>1. Settled' /\ QdiscDivides'
  BY QdiscsStay DEF WebStop, Disturb, IInv, Settled
<1>2. ASSUME NEW d \in Client
      PROVE  /\ pc'[d] \in PC /\ job'[d] \in Job /\ Stays(d)
             /\ Asked(d) => pc'[d] = pc[d]
             /\ ~IsWeb(d) => pc'[d] = pc[d]
  <2>1. CASE IsWeb(d) /\ ~Asked(d)
    BY <2>1, Constants DEF WebStop, Stays, PC
  <2>2. CASE IsWeb(d) /\ Asked(d)
    <3>1. job'[d] = [job[d] EXCEPT !.dead = TRUE] /\ pc'[d] = pc[d]
      BY <2>2 DEF WebStop
    <3>2. QED
      BY <3>1, JobTypes, DeadUpdate DEF Stays
  <2>3. CASE ~IsWeb(d)
    BY <2>3, JobTypes DEF WebStop, Stays, Same
  <2>4. QED
    BY <2>1, <2>2, <2>3
<1>3. pc' \in [Client -> PC] /\ job' \in [Client -> Job]
  <2>1. pc' = [c \in Client |-> pc'[c]] /\ job' = [c \in Client |-> job'[c]]
    BY DEF WebStop
  <2>2. QED
    BY <1>2, <2>1
<1>4. Served'
  <2>1. CASE serving' = None
    BY <2>1 DEF Served
  <2>2. CASE serving' # None
    <3>1. /\ serving' = serving /\ serving \in DaemonClient
          /\ pc[serving] \in RequestPC
      BY <2>2 DEF WebStop, IInv, Served
    <3>2. pc'[serving] = pc[serving]
      BY <1>2, <3>1, Constants
    <3>3. QED
      BY <3>1, <3>2 DEF Served
  <2>3. QED
    BY <2>1, <2>2
<1>5. QED
  BY <1>1, <1>2, <1>3, <1>4, ManySteps

\* A qdisc or a member of the set disappears without qosm.
LEMMA AlterStep == ASSUME IInv, NEW i \in Iface, Alter(i) PROVE IInv'
<1>1. Settled'
  BY Constants DEF Alter, Disturb, IInv, Settled
<1>2. QdiscDivides'
  BY DEF Alter, IInv, Settled, QdiscDivides, NoQdisc
<1>3. ASSUME NEW d \in Client
      PROVE  pc'[d] \in PC /\ job'[d] \in Job /\ Stays(d)
  <2>1. PICK b \in BOOLEAN : job'[d] = [job[d] EXCEPT !.alone = b]
    BY Fields, JobTypes DEF Alter
  <2>2. QED
    BY <2>1, JobTypes, AloneUpdate DEF Alter, Stays
<1>4. pc' \in [Client -> PC] /\ job' \in [Client -> Job]
  <2>1. job' = [c \in Client |-> job'[c]]
    BY DEF Alter
  <2>2. QED
    BY <1>3, <2>1 DEF Alter, IInv, Placed
<1>5. Served'
  BY DEF Alter, IInv, Served
<1>6. QED
  BY <1>1, <1>2, <1>3, <1>4, <1>5, ManySteps

\* After a reboot there is no qdisc.
LEMMA RebootStep == ASSUME IInv, Reboot PROVE IInv'
<1>1. Settled'
  BY Constants DEF Reboot, IInv, Settled
<1>2. QdiscDivides'
  BY DEF Reboot, QdiscDivides, NoQdisc
<1>3. /\ pc' \in [Client -> PC] /\ job' \in [Client -> Job]
      /\ \A d \in Client : Stays(d)
  BY Constants DEF Reboot, PC, Stays
<1>4. Served'
  BY DEF Reboot, Served
<1>5. QED
  BY <1>1, <1>2, <1>3, <1>4, ManySteps
-----------------------------------------------------------------------------
\* The inductive invariant: what every step of every client, every failure and
\* every alteration preserves.
THEOREM Inductive == Spec => []IInv
<1>1. Init => IInv
  <2> SUFFICES ASSUME Init PROVE IInv
    OBVIOUS
  <2>1. Settled /\ Placed
    BY Constants DEF Init, Settled, Placed, PC
  <2>2. Served /\ Verified /\ QdiscDivides
    BY DEF Init, Served, Verified, QdiscDivides, NoQdisc
  <2>3. Named
    BY DEF Init, Named, Has, Idle
  <2>4. QED
    BY <2>1, <2>2, <2>3 DEF IInv
<1>2. IInv /\ [Next]_vars => IInv'
  <2> SUFFICES ASSUME IInv, [Next]_vars PROVE IInv'
    OBVIOUS
  <2>1. ASSUME NEW c \in Client, Fault(c) PROVE IInv'
    BY <2>1, AbortStep, RequestFailsStep, AnswerLostStep, OrphanStep DEF Fault
  <2>2. CASE UNCHANGED vars
    BY <2>2 DEF vars, IInv, Settled, Placed, Served, Named, Verified, QdiscDivides
  <2>3. QED
    BY <2>1, <2>2, AsksStep, StepStep, WebStopStep, AlterStep, RebootStep DEF Next
<1>3. QED
  BY <1>1, <1>2, PTL DEF Spec

\* Every variable keeps its type, and the daemon serves only a client that waits
\* for an answer (Run, handleConnection: one connection at a time).
THEOREM TypeCorrect == Spec => []TypeOK
<1>1. IInv => TypeOK
  BY TypeParts DEF IInv
<1>2. QED
  BY <1>1, Inductive, PTL

\* Whatever is asked for, and whoever races or crashes: a complete qdisc has a rate
\* that is not zero, and percentages that add up to 100 (CreateQdisc, Verify).
THEOREM DividesCorrect == Spec => []QdiscDivides
<1>1. IInv => QdiscDivides
  BY DEF IInv
<1>2. QED
  BY <1>1, Inductive, PTL
-----------------------------------------------------------------------------
(* Kernel and database agree.                                              *)

\* A step of c does nothing, except to the interface it is at work on, and lets
\* qosm answer for that one only when nobody has come in the way.
Elsewhere(i) ==
    \A k \in Iface \ {i} : /\ qdisc'[k] = qdisc[k] /\ row'[k] = row[k]
                           /\ k \in ifset' <=> k \in ifset
                           /\ k \in clean' => k \in clean
Reaches(c) ==
    \/ UNCHANGED <<qdisc, ifset, row>> /\ clean' \subseteq clean
    \/ /\ job[c].iface \in job[c].scope
       /\ Elsewhere(job[c].iface)
       /\ job[c].iface \in clean' => job[c].iface \in clean \/ job[c].alone

\* A step takes nothing more into the scope of its operation.
Narrows(c) ==
    /\ job'[c].scope \subseteq job[c].scope
    /\ job'[c].alone => job[c].alone \/ job'[c].scope = {}

\* What is in the scope of c is in step after the step of c.
InOrder(c) == \A k \in job[c].scope : k \in clean' => InStep(k)'

\* What a step leaves of its own operation.
Owned(c) ==
    /\ Bound(c, pc'[c], job'[c]) /\ Made(c)' /\ Held(c)'
    /\ \A k \in job[c].scope \ job'[c].scope : k \in clean' => InStep(k)'

\* An interface that is not touched stays in step, or out of step.
LEMMA Untouched ==
    ASSUME NEW k, qdisc'[k] = qdisc[k], row'[k] = row[k], k \in ifset' <=> k \in ifset
    PROVE  Load(k)' = Load(k) /\ (InStep(k)' <=> InStep(k))
BY DEF Load, InStep

\* An operation that is nowhere leaves nothing behind.
LEMMA IdleJob ==
    /\ Idle.scope = {} /\ Idle.op = "none" /\ Idle.alone = TRUE
    /\ Idle.dead = FALSE /\ Idle.err = FALSE /\ Idle.left = {} /\ Idle.iface = None
BY DEF Idle

\* What the invariant says of one operation.
LEMMA Knows ==
    ASSUME SyncInv, NEW c \in Client
    PROVE  Bound(c, pc[c], job[c]) /\ Made(c) /\ Held(c)
BY DEF SyncInv

\* Nobody else has an interface of c's in his scope for which qosm answers after
\* the step.
LEMMA Sole ==
    ASSUME SyncInv, NEW c \in Client, NEW d \in Client \ {c}, Reaches(c),
           NEW k \in Iface, k \in job[d].scope, k \in clean'
    PROVE  /\ k \in clean
           /\ qdisc'[k] = qdisc[k] /\ row'[k] = row[k] /\ (k \in ifset' <=> k \in ifset)
<1>1. Apart(c, d) /\ Apart(d, c)
  BY DEF SyncInv
<1>2. CASE UNCHANGED <<qdisc, ifset, row>> /\ clean' \subseteq clean
  BY <1>2
<1>3. CASE /\ job[c].iface \in job[c].scope
           /\ Elsewhere(job[c].iface)
           /\ job[c].iface \in clean' => job[c].iface \in clean \/ job[c].alone
  <2>1. k # job[c].iface
    BY <1>1, <1>3 DEF Apart
  <2>2. QED
    BY <1>3, <2>1 DEF Elsewhere
<1>4. QED
  BY <1>2, <1>3 DEF Reaches

\* Nor does the step of c touch what somebody has alone.
LEMMA SoleAlone ==
    ASSUME SyncInv, NEW c \in Client, NEW d \in Client \ {c}, Reaches(c),
           NEW k \in Iface, k \in job[d].scope, job[d].alone
    PROVE  qdisc'[k] = qdisc[k] /\ row'[k] = row[k] /\ (k \in ifset' <=> k \in ifset)
<1>1. Apart(d, c)
  BY DEF SyncInv
<1>2. CASE job[c].iface \in job[c].scope /\ Elsewhere(job[c].iface)
  <2>1. k # job[c].iface
    BY <1>1, <1>2 DEF Apart
  <2>2. QED
    BY <1>2, <2>1 DEF Elsewhere
<1>3. QED
  BY <1>2 DEF Reaches

\* The scope of an operation is made of interfaces.
LEMMA ScopeType ==
    ASSUME IInv, NEW c \in Client
    PROVE  job[c].scope \subseteq Iface /\ job[c].alone \in BOOLEAN
BY Fields DEF IInv, Placed

\* What an operation relies on is about its own interface.
LEMMA PhaseKept ==
    ASSUME NEW d \in Client, Phase(d), pc'[d] = pc[d], job'[d] = job[d],
           qdisc'[job[d].iface] = qdisc[job[d].iface], row'[job[d].iface] = row[job[d].iface],
           job[d].iface \in ifset' <=> job[d].iface \in ifset
    PROVE  Phase(d)'
BY DEF Phase, InStep, Load, Kept, Whole, Changes, Starves, ClassRate, Valid

\* The step of c changes nothing of what another operation relies on.
LEMMA OthersStay ==
    ASSUME IInv, SyncInv, NEW c \in Client, NEW d \in Client \ {c}, Reaches(c),
           pc'[d] = pc[d], job'[d] = job[d]
    PROVE  Made(d)' /\ Held(d)'
<1>1. /\ Bound(d, pc[d], job[d]) /\ Made(d) /\ Held(d)
      /\ job[d].scope \subseteq Iface
  BY Knows, ScopeType
<1>2. Made(d)'
  <2>1. CASE job[d].alone /\ pc[d] \in {"mark", "save", "unmark", "off"}
    <3>1. job[d].iface \in job[d].scope
      BY <1>1, <2>1 DEF Bound, AtWork, RequestPC
    <3>2. /\ qdisc'[job[d].iface] = qdisc[job[d].iface]
          /\ job[d].iface \in ifset' <=> job[d].iface \in ifset
      BY <1>1, <2>1, <3>1, SoleAlone
    <3>3. QED
      BY <1>1, <3>2 DEF Made, Whole
  <2>2. CASE ~(job[d].alone /\ pc[d] \in {"mark", "save", "unmark", "off"})
    BY <2>2 DEF Made
  <2>3. QED
    BY <2>1, <2>2
<1>3. Held(d)'
  <2>1. CASE job[d].op = "restore"
    <3>1. ASSUME NEW k \in job[d].scope, k \in clean'
          PROVE  /\ InStep(k)' /\ (Load(k).enabled)'
                 /\ pc[d] \in {"find", "root", "classes", "mark", "save"} => job[d].iface # k
      <4>1. /\ k \in clean
            /\ qdisc'[k] = qdisc[k] /\ row'[k] = row[k] /\ (k \in ifset' <=> k \in ifset)
        BY <1>1, <3>1, Sole
      <4>2. QED
        BY <1>1, <2>1, <4>1, Untouched DEF Held, Restored
    <3>2. QED
      BY <2>1, <3>1 DEF Held, Restored
  <2>2. CASE job[d].op # "restore" /\ job[d].scope \cap clean' # {}
    <3>1. PICK k \in job[d].scope : k \in clean'
      BY <2>2
    <3>2. k = job[d].iface
      BY <1>1, <2>2 DEF Bound
    <3>3. /\ k \in clean
          /\ qdisc'[k] = qdisc[k] /\ row'[k] = row[k] /\ (k \in ifset' <=> k \in ifset)
      BY <1>1, <3>1, Sole
    <3>4. Phase(d)
      BY <1>1, <2>2, <3>1, <3>3 DEF Held
    <3>5. Phase(d)'
      BY <3>2, <3>3, <3>4, PhaseKept
    <3>6. QED
      BY <2>2, <3>5 DEF Held
  <2>3. CASE job[d].op # "restore" /\ job[d].scope \cap clean' = {}
    BY <2>3 DEF Held
  <2>4. QED
    BY <2>1, <2>2, <2>3
<1>4. QED
  BY <1>2, <1>3

\* A step that leaves its own operation and interface in order leaves all of them.
LEMMA Local ==
    ASSUME IInv, IInv', SyncInv, NEW c \in Client, Reaches(c), Narrows(c), Owned(c),
           \A d \in Client \ {c} : pc'[d] = pc[d] /\ job'[d] = job[d]
    PROVE  SyncInv'
<1>1. ASSUME NEW d \in Client PROVE (Bound(d, pc[d], job[d]))' /\ Made(d)' /\ Held(d)'
  <2>1. CASE d = c
    BY <2>1 DEF Owned
  <2>2. CASE d # c
    <3>1. Made(d)' /\ Held(d)'
      BY <2>2, OthersStay
    <3>2. (Bound(d, pc[d], job[d]))'
      BY <2>2, Knows DEF Bound
    <3>3. QED
      BY <3>1, <3>2
  <2>3. QED
    BY <2>1, <2>2
<1>2. ASSUME NEW d \in Client, NEW e \in Client \ {d} PROVE Apart(d, e)'
  <2>1. Apart(d, e) /\ Apart(e, d)
    BY DEF SyncInv
  <2>2. /\ job'[d].scope \subseteq job[d].scope /\ job'[e].scope \subseteq job[e].scope
        /\ job'[d].alone => job[d].alone \/ job'[d].scope = {}
    BY DEF Narrows
  <2>3. ASSUME NEW k \in job[d].scope, k \in job[e].scope, k \in clean' PROVE k \in clean
    <3>1. k \in Iface /\ (d # c \/ e # c)
      BY ScopeType
    <3>2. QED
      BY <2>3, <3>1, Sole
  <2>4. job'[d].alone => job'[d].scope \cap job'[e].scope = {}
    BY <2>1, <2>2 DEF Apart
  <2>5. job'[d].scope \cap job'[e].scope \cap clean' = {}
    BY <2>1, <2>2, <2>3 DEF Apart
  <2>6. QED
    BY <2>4, <2>5 DEF Apart
<1>3. ASSUME NEW k \in clean', \A d \in Client : k \notin job'[d].scope PROVE InStep(k)'
  <2>1. CASE k \in job[c].scope
    BY <1>3, <2>1 DEF Owned
  <2>2. CASE k \notin job[c].scope
    <3>1. k \in Iface
      BY DEF IInv, Settled
    <3>2. /\ k \in clean
          /\ qdisc'[k] = qdisc[k] /\ row'[k] = row[k] /\ (k \in ifset' <=> k \in ifset)
      BY <2>2, <3>1 DEF Reaches, Elsewhere
    <3>3. \A d \in Client : k \notin job[d].scope
      BY <1>3, <2>2
    <3>4. InStep(k)
      BY <3>2, <3>3 DEF SyncInv, IfaceInSync
    <3>5. QED
      BY <3>2, <3>4, Untouched
  <2>3. QED
    BY <2>1, <2>2
<1>4. IfaceInSync'
  BY <1>3 DEF IfaceInSync
<1>5. QED
  BY <1>1, <1>2, <1>4 DEF SyncInv

\* The operation goes on, on the same interfaces.
LEMMA GoesOn ==
    ASSUME IInv, IInv', SyncInv, NEW c \in Client, NEW p \in PC, NEW j \in Job, Goto(c, p, j),
           j.scope = job[c].scope, j.alone = job[c].alone, Reaches(c),
           Bound(c, p, j), Made(c)', Held(c)'
    PROVE  SyncInv'
<1>1. /\ pc'[c] = p /\ job'[c] = j
      /\ \A d \in Client \ {c} : pc'[d] = pc[d] /\ job'[d] = job[d]
  BY Moves DEF IInv
<1>2. Narrows(c) /\ Owned(c)
  BY <1>1 DEF Narrows, Owned
<1>3. QED
  BY <1>1, <1>2, Local

\* The operation ends, and its interfaces are in step.
LEMMA Ends ==
    ASSUME IInv, IInv', SyncInv, NEW c \in Client, End(c) \/ Exit(c), Reaches(c), InOrder(c)
    PROVE  SyncInv'
<1>1. PICK p \in {"idle", "exit"}, j \in Job :
          /\ Goto(c, p, j)
          /\ j.scope = {} /\ j.alone = TRUE /\ j.dead = FALSE /\ j.left = {}
          /\ j.op \in {"none", "restore"}
  <2>1. CASE End(c)
    BY <2>1, Constants, IdleJob DEF End
  <2>2. CASE Exit(c)
    <3> DEFINE j == [Idle EXCEPT !.op = "restore"]
    <3>1. /\ j \in Job /\ j.op = "restore"
          /\ j.scope = {} /\ j.alone = TRUE /\ j.dead = FALSE /\ j.left = {}
      BY Constants DEF Idle, Job, Op
    <3>2. Goto(c, "exit", j)
      BY <2>2 DEF Exit
    <3> HIDE DEF j
    <3>3. QED
      BY <3>1, <3>2
  <2>3. QED
    BY <2>1, <2>2
<1>2. p \in PC
  BY DEF PC
<1>4. /\ pc'[c] = p /\ job'[c] = j
      /\ \A d \in Client \ {c} : pc'[d] = pc[d] /\ job'[d] = job[d]
  BY <1>1, <1>2, Moves DEF IInv
<1>5. Bound(c, p, j)
  BY <1>1 DEF Bound, AtWork, RequestPC, Storing
<1>6. Made(c)' /\ Held(c)'
  BY <1>1, <1>4 DEF Made, Held, Restored
<1>7. Narrows(c) /\ Owned(c)
  BY <1>1, <1>4, <1>5, <1>6 DEF Narrows, Owned, InOrder
<1>8. QED
  BY <1>4, <1>7, Local

\* What is left of an operation in the web server that has only its entry to write
\* back.
LEMMA Notes ==
    ASSUME IInv, IInv', SyncInv, NEW c \in Client, NEW j \in Job, Goto(c, "note", j),
           Same(job[c], j), j.scope = job[c].scope, j.alone = job[c].alone,
           j.dead = job[c].dead, ~j.dead, j.err = job[c].err, j.op # "restore", Reaches(c), InOrder(c),
           job[c].scope \cap clean' # {} => job[c].alone /\ ~job[c].err
    PROVE  SyncInv'
<1>1. /\ pc'[c] = "note" /\ job'[c] = j
  BY Moves DEF IInv, PC
<1>2. Bound(c, pc[c], job[c])
  BY Knows
<1>3. Bound(c, "note", j)
  BY <1>2 DEF Bound, Same, AtWork, RequestPC, Storing
<1>4. Made(c)'
  BY <1>1 DEF Made
<1>5. ASSUME j.scope \cap clean' # {} PROVE Phase(c)'
  <2>1. j.iface \in j.scope /\ j.iface \in clean'
    BY <1>3, <1>5 DEF Bound
  <2>2. InStep(j.iface)'
    BY <2>1 DEF InOrder
  <2>3. InStep(job[c].iface)'
    BY <1>1, <2>2 DEF InStep, Load
  <2>4. QED
    BY <1>1, <1>5, <2>3 DEF Phase, RequestPC, Storing
<1>6. Held(c)'
  BY <1>1, <1>5 DEF Held
<1>7. QED
  BY <1>1, <1>3, <1>4, <1>6, GoesOn DEF PC

\* An operation returns with its interface in step.
LEMMA Returns ==
    ASSUME IInv, IInv', SyncInv, NEW c \in Client, NEW j \in Job, Return(c, j),
           Same(job[c], j), j.scope = job[c].scope, j.alone = job[c].alone,
           j.dead = job[c].dead, ~j.dead, j.err = job[c].err, Reaches(c), InOrder(c),
           job[c].scope \cap clean' # {} => job[c].alone /\ ~job[c].err
    PROVE  SyncInv'
<1>1. CASE IsWeb(c) /\ j.op # "restore"
  BY <1>1, Notes DEF Return
<1>2. CASE ~(IsWeb(c) /\ j.op # "restore")
  BY <1>2, Ends DEF Return
<1>3. QED
  BY <1>1, <1>2

\* An operation fails, and leaves its interfaces in step or disclaimed.
LEMMA Fails ==
    ASSUME IInv, IInv', SyncInv, NEW c \in Client, Fail(c), ~job[c].dead,
           clean' \subseteq clean, Reaches(c), InOrder(c)
    PROVE  SyncInv'
<1>1. CASE job[c].op = "enable"
  <2>1. job[c].scope \cap clean' # {} => job[c].alone /\ ~job[c].err
    BY <1>1, Knows DEF Held, Phase
  <2>2. QED
    BY <1>1, <2>1, JobTypes, Returns DEF Fail, Same
<1>2. CASE job[c].op # "enable"
  BY <1>2, Ends DEF Fail
<1>3. QED
  BY <1>1, <1>2

\* Nothing that qosm answers for is touched: what was in step stays in step.
LEMMA StillInOrder ==
    ASSUME IInv, SyncInv, NEW c \in Client, UNCHANGED <<qdisc, ifset, row>>, clean' \subseteq clean,
           \A k \in job[c].scope \cap clean' : InStep(k)
    PROVE  Reaches(c) /\ InOrder(c)
BY Untouched DEF Reaches, InOrder

\* The operation goes on with the variables it has.
LEMMA Proceeds ==
    ASSUME IInv, IInv', SyncInv, NEW c \in Client, NEW p \in PC, Goto(c, p, job[c]), Reaches(c),
           Bound(c, p, job[c]),
           pc'[c] = p /\ job'[c] = job[c] => Made(c)' /\ Held(c)'
    PROVE  SyncInv'
<1>1. pc'[c] = p /\ job'[c] = job[c]
  BY JobTypes, Moves DEF IInv
<1>2. QED
  BY <1>1, JobTypes, GoesOn

\* An interface of c's for which qosm answers is the one it is at work on.
LEMMA Concerned ==
    ASSUME IInv, SyncInv, NEW c \in Client, job[c].op # "restore",
           NEW k \in job[c].scope, k \in clean
    PROVE  k = job[c].iface /\ k \in Iface /\ Phase(c) /\ job[c].alone /\ ~job[c].dead /\ ~job[c].err
<1>1. Bound(c, pc[c], job[c]) /\ Held(c) /\ job[c].scope \subseteq Iface
  BY Knows, ScopeType
<1>2. Phase(c)
  BY <1>1 DEF Held
<1>3. QED
  BY <1>1, <1>2 DEF Bound, Phase

\* Before an operation has changed anything its interfaces are in step, and a
\* restore keeps them so.
LEMMA NowInOrder ==
    ASSUME IInv, SyncInv, NEW c \in Client, NEW k \in job[c].scope, k \in clean,
           job[c].op = "restore" \/ pc[c] \in {"enter", "look", "flush", "note"}
    PROVE  InStep(k)
<1>1. CASE job[c].op = "restore"
  BY <1>1, Knows DEF Held, Restored
<1>2. CASE job[c].op # "restore"
  BY <1>2, Concerned DEF Phase
<1>3. QED
  BY <1>1, <1>2

\* An entry that is stored is in step with a qdisc that is complete.
LEMMA InStepDivides ==
    ASSUME IInv, NEW i \in Iface, InStep(i), Load(i).enabled
    PROVE  /\ qdisc[i] = [state |-> "whole", rate |-> Load(i).rate, split |-> Load(i).split]
           /\ Valid(Load(i).split) /\ i \in ifset
BY DEF InStep, IInv, QdiscDivides

\* A demand that starves no class is not zero.
LEMMA FedRate ==
    ASSUME NEW r \in Nat, NEW s \in Percentages, ~Starves(r, s)
    PROVE  r # 0
<1>1. s.high \in Nat /\ ClassRate(r, s.high) # 0
  BY DEF Starves, Percentages
<1>2. 0 * s.high = 0 /\ 0 \div 100 = 0
  BY <1>1
<1>3. QED
  BY <1>1, <1>2 DEF ClassRate
-----------------------------------------------------------------------------
(* The steps that change nothing of kernel and database.                   *)

\* An operation whose interface is in step, or disclaimed, has read its entry.
LEMMA EnterSync == ASSUME IInv, IInv', SyncInv, NEW c \in Client, Enter(c) PROVE SyncInv'
<1>0. PICK i \in Iface : i = job[c].iface
  BY OnInterface DEF Enter
<1> DEFINE e == IF IsWeb(c) THEN web[i] ELSE job[c].entry
           r == IF job[c].op = "split" THEN e.rate ELSE job[c].rate
           s == IF job[c].op = "rate" THEN e.split ELSE job[c].split
           j == [job[c] EXCEPT !.entry = e, !.rate = r, !.split = s]
           Start == IF job[c].op = "enable" THEN "look"
                    ELSE IF job[c].op = "disable" \/ e.enabled THEN "flush"
                    ELSE IF job[c].op = "rate" THEN "rate" ELSE "high"
<1>1. /\ pc[c] = "enter" /\ UNCHANGED <<qdisc, ifset, row>> /\ clean' \subseteq clean
  BY DEF Enter
<1>2. Bound(c, "enter", job[c])
  BY <1>1, Knows
<1>3. \A k \in job[c].scope \cap clean' : k = i /\ InStep(k) /\ Phase(c)
  BY <1>0, <1>1, <1>2, Concerned, NowInOrder DEF Bound
<1>4. Reaches(c) /\ InOrder(c)
  BY <1>1, <1>3, StillInOrder
<1>5. CASE e = None
  BY <1>0, <1>4, <1>5, Ends DEF Enter
<1>6. CASE e # None
  <2>1. /\ Goto(c, Start, j)
        /\ i \in clean' => e = Load(i) /\ (job[c].op = "disable" \/ ~Starves(r, s))
    <3>1. j.op = job[c].op /\ j.rate = r /\ j.split = s
      BY JobTypes DEF Job
    <3>2. clean' = IF e # Load(i) \/ (j.op # "disable" /\ Starves(j.rate, j.split))
                   THEN clean \ {i} ELSE clean
      BY <1>0, <1>6 DEF Enter
    <3>3. QED
      BY <1>0, <1>6, <3>1, <3>2 DEF Enter
  <2>2. e \in Entry
    BY <1>0, <1>6, JobTypes DEF IInv, Settled
  <2>3. r \in Nat /\ s \in Percentages
    BY <2>2, JobTypes DEF Entry
  <2>4. /\ j \in Job
        /\ j.iface = i /\ j.op = job[c].op /\ j.rate = r /\ j.split = s
        /\ j.scope = job[c].scope /\ j.alone = job[c].alone /\ j.dead = job[c].dead /\ j.err = job[c].err
        /\ j.left = job[c].left
    BY <1>0, <2>2, <2>3, JobTypes DEF Job
  <2>5. /\ Start \in {"look", "flush", "rate", "high"} /\ Start \in PC
        /\ Start = "look" => job[c].op = "enable"
        /\ Start = "flush" /\ job[c].op # "disable" => e.enabled /\ job[c].op \in {"rate", "split"}
        /\ Start = "flush" => job[c].op \in {"disable", "rate", "split"}
        /\ Start = "rate" => job[c].op = "rate" /\ ~e.enabled
        /\ Start = "high" => job[c].op = "split" /\ ~e.enabled
    BY <1>2, <2>2 DEF PC, RequestPC, Bound, Entry
  <2>6. /\ job[c].op = "rate" => s = e.split
        /\ job[c].op = "split" => r = e.rate
        /\ job[c].op # "rate" => s = job[c].split
    OBVIOUS
  <2> HIDE DEF r, s, j, Start
  <2>7. pc'[c] = Start /\ job'[c] = j
    BY <2>1, <2>4, <2>5, Moves DEF IInv
  <2>8. Bound(c, Start, j)
    BY <1>0, <1>2, <2>4, <2>5 DEF Bound, AtWork, RequestPC, Storing
  <2>9. Made(c)'
    BY <2>5, <2>7 DEF Made
  <2>10. ASSUME j.scope \cap clean' # {} PROVE Phase(c)'
    <3>1. /\ i \in clean' /\ InStep(i) /\ Phase(c) /\ job[c].alone /\ ~job[c].dead /\ ~job[c].err
          /\ e = Load(i) /\ (job[c].op = "disable" \/ ~Starves(r, s))
      BY <1>3, <2>1, <2>4, <2>10 DEF Phase
    <3>2. InStep(i)' /\ Load(i)' = Load(i)
      BY <1>1, <3>1, Untouched
    <3>3. job[c].op \in {"enable", "split"} => Valid(job[c].split)
      BY <1>1, <3>1 DEF Phase
    <3>4. Load(i).enabled => Valid(Load(i).split)
      BY <1>1, <3>1, InStepDivides
    <3>5. Start \in {"look", "flush"} /\ job[c].op # "disable" => Valid(s)
      BY <1>2, <2>5, <2>6, <3>1, <3>3, <3>4 DEF Bound
    <3>6. CASE Start = "look"
      BY <2>4, <2>5, <2>7, <3>1, <3>2, <3>5, <3>6 DEF Phase, RequestPC, Storing, InStep, Load
    <3>7. CASE Start = "flush"
      <4>1. /\ pc'[c] = "flush" /\ job'[c].iface = i /\ job'[c].op = job[c].op
            /\ job'[c].rate = r /\ job'[c].split = s /\ job'[c].alone /\ ~job'[c].dead /\ ~job'[c].err
        BY <2>4, <2>7, <3>1, <3>7
      <4>2. Load(job[c].iface)' = e /\ InStep(job[c].iface)'
        BY <3>1, <3>2, <4>1 DEF InStep, Load
      <4>3. Changes(c)' => Kept(job[c])'
        BY <2>5, <2>6, <3>7, <4>1, <4>2 DEF Changes, Kept
      <4>4. QED
        BY <3>1, <3>5, <3>7, <4>1, <4>2, <4>3 DEF Phase, RequestPC, Storing
    <3>8. CASE Start \in {"rate", "high"}
      BY <1>1, <2>4, <2>5, <2>7, <3>1, <3>2, <3>8 DEF Phase, RequestPC, Storing, InStep, Load
    <3>9. QED
      BY <2>5, <3>6, <3>7, <3>8
  <2>11. Held(c)'
    BY <1>2, <2>4, <2>7, <2>10 DEF Held, Bound
  <2>12. QED
    BY <1>4, <2>1, <2>4, <2>5, <2>8, <2>9, <2>11, GoesOn
<1>7. QED
  BY <1>5, <1>6

\* Where the interface at hand may be out of step.
AtKernelOrRow == {"find", "root", "classes", "mark", "save"}

\* What a restore has found in step is in step still.
LEMMA RestoreKeeps ==
    ASSUME SyncInv, NEW c \in Client, job[c].op = "restore",
           UNCHANGED <<qdisc, ifset, row>>, clean' \subseteq clean,
           job'[c].op = "restore", job'[c].scope = job[c].scope,
           pc'[c] \in AtKernelOrRow => job'[c].iface \notin clean
    PROVE  Held(c)'
<1>1. ASSUME NEW k \in job[c].scope, k \in clean' PROVE InStep(k)' /\ (Load(k).enabled)'
  <2>1. InStep(k) /\ Load(k).enabled
    BY <1>1, Knows DEF Held, Restored
  <2>2. QED
    BY <2>1, Untouched
<1>2. QED
  BY <1>1 DEF Held, Restored, AtKernelOrRow

\* Restore turns to its next interface.
LEMMA NextSync == ASSUME IInv, IInv', SyncInv, NEW c \in Client, NextIface(c) PROVE SyncInv'
<1>1. /\ UNCHANGED <<qdisc, ifset, row>> /\ clean' = clean /\ pc[c] = "next"
      /\ Bound(c, "next", job[c]) /\ job[c].op = "restore" /\ ~job[c].dead
  BY Knows DEF NextIface, Bound, RequestPC
<1>2. Reaches(c) /\ InOrder(c)
  BY <1>1, NowInOrder, StillInOrder
<1>3. CASE Fail(c)
  BY <1>1, <1>2, <1>3, Fails
<1>4. ASSUME NEW x \in job[c].left,
             Goto(c, "look", [job[c] EXCEPT !.iface = x.iface, !.entry = x.entry,
                                  !.rate = x.entry.rate, !.split = x.entry.split,
                                  !.left = @ \ {x}])
      PROVE  SyncInv'
  <2> DEFINE j == [job[c] EXCEPT !.iface = x.iface, !.entry = x.entry,
                                  !.rate = x.entry.rate, !.split = x.entry.split,
                                  !.left = @ \ {x}]
  <2>1. x.iface \in Iface /\ x.entry \in Entry
    BY JobTypes
  <2>2. x.entry.rate \in Nat /\ x.entry.split \in Percentages
    BY <2>1 DEF Entry
  <2>3. /\ j \in Job /\ j.iface = x.iface /\ j.op = "restore" /\ j.left \subseteq job[c].left
        /\ j.scope = job[c].scope /\ j.alone = job[c].alone /\ j.dead = job[c].dead /\ j.err = job[c].err
    BY <1>1, <2>1, <2>2, JobTypes DEF Job
  <2>4. "look" \in PC /\ Goto(c, "look", j)
    BY <1>4 DEF PC
  <2> HIDE DEF j
  <2>5. pc'[c] = "look" /\ job'[c] = j
    BY <2>3, <2>4, Moves DEF IInv
  <2>6. Bound(c, "look", j)
    BY <1>1, <2>3 DEF Bound, RequestPC, Storing, AtWork
  <2>7. Made(c)' /\ Held(c)'
    BY <1>1, <2>3, <2>5, RestoreKeeps DEF Made, AtKernelOrRow
  <2>8. QED
    BY <1>2, <2>3, <2>4, <2>6, <2>7, GoesOn
<1>5. QED
  BY <1>3, <1>4 DEF NextIface

\* Restore is done.
LEMMA RestoreDoneSync == ASSUME IInv, IInv', SyncInv, NEW c \in Client, RestoreDone(c) PROVE SyncInv'
<1>1. /\ UNCHANGED <<qdisc, ifset, row>> /\ clean' = clean /\ pc[c] = "next" /\ End(c)
      /\ Bound(c, pc[c], job[c])
  BY Knows DEF RestoreDone
<1>2. Reaches(c) /\ InOrder(c)
  BY <1>1, NowInOrder, StillInOrder DEF Bound
<1>3. QED
  BY <1>1, <1>2, Ends

\* An operation without interfaces in its scope.
LEMMA NoScope ==
    ASSUME IInv, SyncInv, NEW c \in Client, UNCHANGED <<qdisc, ifset, row>>, clean' = clean,
           pc[c] \in {"note", "exit", "fill"}
    PROVE  Reaches(c) /\ InOrder(c)
<1>1. Bound(c, pc[c], job[c])
  BY Knows
<1>2. \A k \in job[c].scope \cap clean' : InStep(k)
  BY <1>1, NowInOrder DEF Bound
<1>3. QED
  BY <1>2, StillInOrder

\* The web server exits.
LEMMA WebExitSync == ASSUME IInv, IInv', SyncInv, NEW c \in Client, WebExit(c) PROVE SyncInv'
BY NoScope, Ends DEF WebExit

\* The operation has written its entry back.
LEMMA NoteSync == ASSUME IInv, IInv', SyncInv, NEW c \in Client, Note(c) PROVE SyncInv'
BY NoScope, Ends DEF Note

\* The map of the web server is filled anew.
LEMMA FillSync == ASSUME IInv, IInv', SyncInv, NEW c \in Client, Fill(c) PROVE SyncInv'
<1>1. Reaches(c) /\ InOrder(c)
  BY NoScope DEF Fill
<1>2. CASE End(c)
  BY <1>1, <1>2, Ends
<1>3. ASSUME NEW x \in job[c].left, Goto(c, "fill", [job[c] EXCEPT !.left = @ \ {x}])
      PROVE  SyncInv'
  <2> DEFINE j == [job[c] EXCEPT !.left = @ \ {x}]
  <2>1. /\ j \in Job /\ j.op = job[c].op /\ j.iface = job[c].iface /\ j.left \subseteq job[c].left
        /\ j.scope = job[c].scope /\ j.alone = job[c].alone /\ j.dead = job[c].dead /\ j.err = job[c].err
    BY JobTypes, LeftUpdate DEF Job
  <2>2. "fill" \in PC /\ Goto(c, "fill", j)
    BY <1>3 DEF PC
  <2> HIDE DEF j
  <2>3. pc'[c] = "fill" /\ job'[c] = j
    BY <2>1, <2>2, Moves DEF IInv
  <2>4. Bound(c, "fill", job[c])
    BY Knows DEF Fill
  <2>5. Bound(c, "fill", j) /\ j.scope = {}
    BY <2>1, <2>4 DEF Bound, RequestPC, Storing, AtWork
  <2>6. Made(c)' /\ Held(c)'
    BY <2>3, <2>5 DEF Made, Held, Restored
  <2>7. QED
    BY <1>1, <2>1, <2>2, <2>5, <2>6, GoesOn
<1>4. QED
  BY <1>2, <1>3 DEF Fill

\* The daemon takes the next request.
LEMMA AcceptSync == ASSUME SyncInv, NEW c \in Client, Accept(c) PROVE SyncInv'
<1>1. UNCHANGED <<qdisc, ifset, row, pc, job, clean>>
  BY DEF Accept
<1>2. QED
  BY <1>1 DEF SyncInv, Bound, Made, Held, Restored, Phase, Kept, Whole, Apart, IfaceInSync, InStep, Load,
              Changes

\* A qdisc is looked for before one is created.
LEMMA LookSync == ASSUME IInv, IInv', SyncInv, NEW c \in Client, Look(c) PROVE SyncInv'
<1>0. PICK i \in Iface : i = job[c].iface
  BY OnInterface DEF Look
<1>1. /\ UNCHANGED <<qdisc, ifset, row>> /\ clean' = clean /\ pc[c] = "look"
      /\ Bound(c, "look", job[c]) /\ ~job[c].dead
  BY Knows DEF Look, Bound, RequestPC
<1>2. Reaches(c) /\ InOrder(c)
  BY <1>1, NowInOrder, StillInOrder
<1>3. CASE Fail(c)
  BY <1>1, <1>2, <1>3, Fails
<1>4. CASE qdisc[i].state # "none" /\ job[c].op = "restore" /\ Goto(c, "next", job[c])
  <2>1. Bound(c, "next", job[c]) /\ "next" \in PC
    BY <1>1, <1>4 DEF Bound, RequestPC, Storing, AtWork, PC
  <2>2. ASSUME pc'[c] = "next" /\ job'[c] = job[c] PROVE Made(c)' /\ Held(c)'
    BY <1>1, <1>4, <2>2, RestoreKeeps DEF Made, AtKernelOrRow
  <2>3. QED
    BY <1>2, <1>4, <2>1, <2>2, Proceeds
<1>5. CASE qdisc[i].state = "none" /\ Goto(c, "find", job[c])
  <2>1. Bound(c, "find", job[c]) /\ "find" \in PC
    BY <1>1 DEF Bound, RequestPC, Storing, AtWork, PC
  <2>2. ASSUME pc'[c] = "find" /\ job'[c] = job[c] PROVE Made(c)' /\ Held(c)'
    <3>1. CASE job[c].op = "restore"
      <4>1. ASSUME i \in job[c].scope, i \in clean PROVE qdisc[i].state = "whole"
        <5>1. InStep(i) /\ Load(i).enabled
          BY <3>1, <4>1, Knows DEF Held, Restored
        <5>2. QED
          BY <5>1 DEF InStep
      <4>2. i \in job[c].scope
        BY <1>0, <1>1 DEF Bound, AtWork
      <4>3. QED
        BY <1>0, <1>1, <1>5, <2>2, <3>1, <4>1, <4>2, RestoreKeeps DEF Made
    <3>2. CASE job[c].op # "restore"
      <4>1. job[c].op = "enable"
        BY <1>1, <3>2 DEF Bound
      <4>2. ASSUME job[c].scope \cap clean' # {} PROVE Phase(c)'
        <5>1. Phase(c)
          BY <1>1, <3>2, <4>2, Concerned
        <5>2. QED
          BY <1>0, <1>1, <1>5, <2>2, <4>1, <5>1 DEF Phase, RequestPC, Storing, Changes
      <4>3. QED
        BY <2>2, <3>2, <4>2 DEF Made, Held
    <3>3. QED
      BY <3>1, <3>2
  <2>3. QED
    BY <1>2, <1>5, <2>1, <2>2, Proceeds
<1>6. QED
  BY <1>0, <1>3, <1>4, <1>5 DEF Look
-----------------------------------------------------------------------------
(* Requests to the kernel.                                                 *)

\* What creates a qdisc.
Creating == {"find", "root", "classes", "mark"}

\* The operation has its qdisc and turns to the database; who is dead is done.
LEMMA Saves ==
    ASSUME IInv, IInv', SyncInv, NEW c \in Client, Save(c), Reaches(c),
           pc[c] \in Creating,
           job[c].dead => InOrder(c),
           ~job[c].dead /\ job'[c] = job[c]
               /\ \/ pc'[c] = "rate" /\ job[c].op = "rate"
                  \/ pc'[c] = "high" /\ job[c].op = "split"
                  \/ pc'[c] = "save" /\ job[c].op \in {"enable", "restore"}
               => Made(c)' /\ Held(c)'
    PROVE  SyncInv'
<1>1. CASE End(c) /\ job[c].dead
  BY <1>1, Ends
<1>2. ASSUME NEW p \in {"rate", "high", "save"}, Goto(c, p, job[c]), ~job[c].dead,
             p = "rate" => job[c].op = "rate",
             p = "high" => job[c].op = "split",
             p = "save" => job[c].op \notin {"rate", "split"}
      PROVE  SyncInv'
  <2>1. Bound(c, pc[c], job[c]) /\ p \in PC
    BY Knows DEF PC
  <2>2. job[c].op \in {"enable", "restore", "rate", "split"}
    BY <2>1 DEF Bound, Creating
  <2>3. Bound(c, p, job[c])
    BY <1>2, <2>1, <2>2 DEF Bound, RequestPC, AtWork, Storing, Creating
  <2>4. QED
    BY <1>2, <2>1, <2>2, <2>3, Proceeds
<1>3. QED
  BY <1>1, <1>2 DEF Save

\* What is out of the daemon's reach: an operation that is refused leaves kernel and
\* database as they are, with its interface in step or disclaimed.
LEMMA Refuses ==
    ASSUME IInv, IInv', SyncInv, NEW c \in Client, NEW b, Refused(c, b),
           UNCHANGED <<qdisc, ifset, row>>, clean' \subseteq clean, pc[c] \in Creating,
           job[c].op # "restore" => job[c].scope \cap clean' = {}
    PROVE  SyncInv'
<1>1. Reaches(c) /\ InOrder(c)
  BY NowInOrder, StillInOrder
<1>2. Bound(c, pc[c], job[c])
  BY Knows
<1>3. CASE Save(c) /\ Changes(c)
  <2>1. ASSUME pc'[c] \in {"rate", "high", "save"}, job'[c] = job[c], job[c].op \in {"rate", "split"},
               pc'[c] # "save"
        PROVE  Made(c)' /\ Held(c)'
    BY <2>1 DEF Made, Held
  <2>2. QED
    BY <1>1, <1>3, <2>1, Saves DEF Changes
<1>4. CASE Goto(c, "next", job[c]) /\ job[c].op = "restore" /\ c \notin DaemonClient
  <2>1. Bound(c, "next", job[c]) /\ "next" \in PC
    BY <1>2, <1>4 DEF Bound, RequestPC, Storing, AtWork, PC, Creating
  <2>2. ASSUME pc'[c] = "next" /\ job'[c] = job[c] PROVE Made(c)' /\ Held(c)'
    BY <1>4, <2>2, RestoreKeeps DEF Made, AtKernelOrRow
  <2>3. QED
    BY <1>1, <1>4, <2>1, <2>2, Proceeds
<1>5. CASE End(c)
  BY <1>1, <1>5, Ends
<1>6. CASE Fail(c) /\ ~job[c].dead
  BY <1>1, <1>6, Fails
<1>7. job[c].op # "disable"
  BY <1>2 DEF Bound, Creating
<1>8. QED
  BY <1>3, <1>4, <1>5, <1>6, <1>7 DEF Refused

\* A restore is at work on an interface only when qosm does not answer for it.
LEMMA RestoreAt ==
    ASSUME SyncInv, NEW c \in Client, job[c].op = "restore", pc[c] \in AtKernelOrRow
    PROVE  job[c].iface \notin clean
<1>1. job[c].iface \in job[c].scope
  BY Knows DEF Bound, AtKernelOrRow, AtWork, RequestPC
<1>2. QED
  BY <1>1, Knows DEF Held, Restored, AtKernelOrRow

\* A restore that is at work on an interface keeps the others in step.
LEMMA RestoreWorks ==
    ASSUME IInv, SyncInv, NEW c \in Client, job[c].op = "restore", job[c].iface \notin clean,
           Elsewhere(job[c].iface), clean' \subseteq clean, job'[c] = job[c]
    PROVE  Held(c)'
<1>1. ASSUME NEW k \in job[c].scope, k \in clean'
      PROVE  InStep(k)' /\ (Load(k).enabled)' /\ k # job[c].iface
  <2>1. InStep(k) /\ Load(k).enabled /\ k \in Iface /\ k # job[c].iface
    BY <1>1, Knows, ScopeType DEF Held, Restored
  <2>2. QED
    BY <2>1, Untouched DEF Elsewhere
<1>2. QED
  BY <1>1 DEF Held, Restored

\* A request to the kernel concerns one interface.
LEMMA OneQdisc ==
    ASSUME IInv, SyncInv, NEW c \in Client, pc[c] \in AtWork, NEW q,
           qdisc' = [qdisc EXCEPT ![job[c].iface] = q],
           UNCHANGED <<ifset, row, clean>>
    PROVE  Reaches(c) /\ Elsewhere(job[c].iface)
<1>1. job[c].iface \in job[c].scope
  BY Knows DEF Bound
<1>2. \A k \in Iface \ {job[c].iface} : qdisc'[k] = qdisc[k]
  BY DEF IInv, Settled
<1>3. QED
  BY <1>1, <1>2 DEF Reaches, Elsewhere

\* InitHTBOnIface looks again.
LEMMA FindSync == ASSUME IInv, IInv', SyncInv, NEW c \in Client, Find(c) PROVE SyncInv'
<1>0. PICK i \in Iface : i = job[c].iface
  BY OnInterface, AtRequest DEF Find, RequestPC
<1>1. /\ UNCHANGED <<qdisc, ifset, row>> /\ clean' = clean /\ pc[c] = "find"
      /\ Bound(c, "find", job[c])
  BY Knows DEF Find, AtKernel
<1>2. Reaches(c)
  BY <1>1 DEF Reaches
<1>3. ASSUME job[c].op # "restore", job[c].scope \cap clean # {}
      PROVE  /\ Phase(c) /\ qdisc[i].state = "none" /\ job[c].rate # 0 /\ Valid(job[c].split)
  <2>1. Phase(c) /\ job[c].op # "disable"
    BY <1>1, <1>3, Concerned DEF Bound
  <2>2. Valid(job[c].split) /\ ~Starves(job[c].rate, job[c].split) /\ qdisc[i].state = "none"
    BY <1>0, <1>1, <2>1 DEF Phase
  <2>3. QED
    BY <2>1, <2>2, JobTypes, FedRate
<1>4. ASSUME NEW b, Refused(c, b),
             qdisc[i].state # "none" \/ job[c].rate = 0 \/ ~Valid(job[c].split)
      PROVE  SyncInv'
  BY <1>1, <1>3, <1>4, Refuses DEF Creating
<1>5. CASE Goto(c, "root", job[c])
  <2>1. Bound(c, "root", job[c]) /\ "root" \in PC
    BY <1>1 DEF Bound, RequestPC, Storing, AtWork, PC
  <2>2. ASSUME pc'[c] = "root" /\ job'[c] = job[c] PROVE Made(c)' /\ Held(c)'
    <3>1. CASE job[c].op = "restore"
      BY <1>1, <2>2, <3>1, RestoreAt, RestoreKeeps DEF Made, AtKernelOrRow
    <3>2. CASE job[c].op # "restore"
      <4>1. ASSUME job[c].scope \cap clean' # {} PROVE Phase(c)'
        BY <1>0, <1>1, <1>3, <2>2, <3>2, <4>1
           DEF Phase, RequestPC, Storing, Changes, Kept, Load
      <4>2. QED
        BY <2>2, <3>2, <4>1 DEF Made, Held
    <3>3. QED
      BY <3>1, <3>2
  <2>3. QED
    BY <1>2, <1>5, <2>1, <2>2, Proceeds
<1>6. QED
  BY <1>0, <1>4, <1>5 DEF Find

\* The root is created.
LEMMA AddRootSync == ASSUME IInv, IInv', SyncInv, NEW c \in Client, AddRoot(c) PROVE SyncInv'
<1>0. PICK i \in Iface : i = job[c].iface
  BY OnInterface, AtRequest DEF AddRoot, RequestPC
<1>1. /\ UNCHANGED <<ifset, row>> /\ clean' = clean /\ pc[c] = "root"
      /\ Bound(c, "root", job[c])
  BY Knows DEF AddRoot, AtKernel
<1>2. ASSUME job[c].op # "restore", job[c].scope \cap clean # {}
      PROVE  Phase(c) /\ qdisc[i].state = "none"
  BY <1>0, <1>1, <1>2, Concerned DEF Phase
<1>3. CASE qdisc[i].state # "none" /\ Refused(c, FALSE) /\ UNCHANGED qdisc
  BY <1>1, <1>2, <1>3, Refuses DEF Creating
<1>4. CASE /\ qdisc' = [qdisc EXCEPT ![job[c].iface] =
                   [state |-> "root", rate |-> job[c].rate, split |-> job[c].split]]
           /\ Goto(c, "classes", job[c])
  <2>1. Reaches(c) /\ Elsewhere(job[c].iface)
    BY <1>1, <1>4, OneQdisc DEF AtWork, RequestPC
  <2>2. Bound(c, "classes", job[c]) /\ "classes" \in PC
    BY <1>1 DEF Bound, RequestPC, Storing, AtWork, PC
  <2>3. qdisc'[i].state = "root" /\ Load(i)' = Load(i)
    BY <1>0, <1>1, <1>4 DEF IInv, Settled, Load
  <2>4. ASSUME pc'[c] = "classes" /\ job'[c] = job[c] PROVE Made(c)' /\ Held(c)'
    <3>1. CASE job[c].op = "restore"
      BY <1>1, <2>1, <2>4, <3>1, RestoreAt, RestoreWorks DEF Made, AtKernelOrRow
    <3>2. CASE job[c].op # "restore"
      <4>1. ASSUME job[c].scope \cap clean' # {} PROVE Phase(c)'
        BY <1>0, <1>1, <1>2, <2>3, <2>4, <3>2, <4>1
           DEF Phase, RequestPC, Storing, Changes, Kept, Load
      <4>2. QED
        BY <2>4, <3>2, <4>1 DEF Made, Held
    <3>3. QED
      BY <3>1, <3>2
  <2>5. QED
    BY <1>4, <2>1, <2>2, <2>4, Proceeds
<1>5. QED
  BY <1>0, <1>3, <1>4 DEF AddRoot

\* With the classes made, the operation turns to the set of interfaces or to the
\* database.
LEMMA MadeSync ==
    ASSUME IInv, IInv', SyncInv, NEW c \in Client, pc[c] = "classes", Reaches(c),
           Elsewhere(job[c].iface), UNCHANGED <<ifset, row, clean>>,
           job[c].alone => qdisc'[job[c].iface] = Whole(job[c]),
           IF Changes(c) /\ c \notin DaemonClient THEN Save(c) ELSE Goto(c, "mark", job[c])
    PROVE  SyncInv'
<1>0. PICK i \in Iface : i = job[c].iface
  BY OnInterface
<1>1. Bound(c, "classes", job[c])
  BY Knows
<1>2. ASSUME job[c].op # "restore", job[c].scope \cap clean' # {}
      PROVE  /\ Phase(c) /\ job[c].alone /\ ~job[c].dead /\ ~job[c].err
             /\ qdisc'[i] = Whole(job[c])
             /\ Load(i)' = Load(i) /\ (i \in ifset' <=> i \in ifset)
             /\ job[c].op \in {"rate", "split"} => /\ Kept(job[c])
                                                   /\ c \notin DaemonClient => i \in ifset
  BY <1>0, <1>2, Concerned DEF Phase, Load, Changes, RequestPC
<1>3. ASSUME job[c].op = "restore", job'[c] = job[c] PROVE Held(c)'
  BY <1>3, RestoreAt, RestoreWorks DEF AtKernelOrRow
<1>4. CASE Goto(c, "mark", job[c])
  <2>1. Bound(c, "mark", job[c]) /\ "mark" \in PC
    BY <1>1 DEF Bound, RequestPC, Storing, AtWork, PC
  <2>2. ASSUME pc'[c] = "mark" /\ job'[c] = job[c] PROVE Made(c)' /\ Held(c)'
    <3>1. Made(c)'
      BY <2>2 DEF Made, Whole
    <3>2. ASSUME job[c].op # "restore", job[c].scope \cap clean' # {} PROVE Phase(c)'
      BY <1>0, <1>2, <2>2, <3>2 DEF Phase, RequestPC, Storing, Changes, Kept, Load
    <3>3. QED
      BY <1>3, <2>2, <3>1, <3>2 DEF Held
  <2>3. QED
    BY <1>4, <2>1, <2>2, Proceeds
<1>5. CASE Save(c) /\ Changes(c) /\ c \notin DaemonClient
  <2>1. ~job[c].dead
    BY <1>1, <1>5 DEF Bound
  <2>2. ASSUME pc'[c] \in {"rate", "high"}, job'[c] = job[c]
        PROVE  Made(c)' /\ Held(c)'
    <3>1. ASSUME job[c].scope \cap clean' # {} PROVE Phase(c)'
      BY <1>0, <1>2, <1>5, <2>2, <3>1 DEF Phase, RequestPC, Storing, Changes, Kept, Load, Whole
    <3>2. QED
      BY <1>5, <2>2, <3>1 DEF Made, Held, Changes
  <2>3. QED
    BY <1>5, <2>1, <2>2, Saves DEF Creating, Changes
<1>6. QED
  BY <1>4, <1>5

\* Classes and filters are created.
LEMMA AddClassesSync == ASSUME IInv, IInv', SyncInv, NEW c \in Client, AddClasses(c) PROVE SyncInv'
<1>0. PICK i \in Iface : i = job[c].iface
  BY OnInterface, AtRequest DEF AddClasses, RequestPC
<1>1. /\ UNCHANGED <<ifset, row>> /\ clean' = clean /\ pc[c] = "classes"
      /\ Bound(c, "classes", job[c])
  BY Knows DEF AddClasses, AtKernel
<1>2. ASSUME job[c].op # "restore", job[c].scope \cap clean # {}
      PROVE  qdisc[i].state = "root" /\ ~Starves(job[c].rate, job[c].split)
  BY <1>0, <1>1, <1>2, Concerned DEF Phase, Bound
<1>3. CASE /\ ~(qdisc[i].state = "root" /\ ~Starves(job[c].rate, job[c].split))
           /\ Refused(c, FALSE) /\ UNCHANGED qdisc
  BY <1>1, <1>2, <1>3, Refuses DEF Creating
<1>4. CASE /\ qdisc' = [qdisc EXCEPT ![job[c].iface] =
                   [state |-> "whole", rate |-> job[c].rate, split |-> job[c].split]]
           /\ IF Changes(c) /\ c \notin DaemonClient THEN Save(c) ELSE Goto(c, "mark", job[c])
  <2>1. Reaches(c) /\ Elsewhere(job[c].iface)
    BY <1>1, <1>4, OneQdisc DEF AtWork, RequestPC
  <2>2. qdisc'[job[c].iface] = Whole(job[c])
    BY <1>0, <1>4 DEF IInv, Settled, Whole
  <2>3. QED
    BY <1>1, <1>4, <2>1, <2>2, MadeSync
<1>5. QED
  BY <1>0, <1>3, <1>4 DEF AddClasses

\* Who has met somebody does not answer for what they have made together.
LEMMA AddClassesMixedSync ==
    ASSUME IInv, IInv', SyncInv, NEW c \in Client, AddClassesMixed(c) PROVE SyncInv'
<1>1. /\ UNCHANGED <<ifset, row, clean>> /\ pc[c] = "classes" /\ ~job[c].alone
      /\ IF Changes(c) /\ c \notin DaemonClient THEN Save(c) ELSE Goto(c, "mark", job[c])
  BY DEF AddClassesMixed, AtKernel
<1>2. PICK q : qdisc' = [qdisc EXCEPT ![job[c].iface] = q]
  BY DEF AddClassesMixed
<1>3. Reaches(c) /\ Elsewhere(job[c].iface)
  BY <1>1, <1>2, OneQdisc DEF AtWork, RequestPC
<1>4. QED
  BY <1>1, <1>3, MadeSync

\* A request concerns one interface's membership.
LEMMA OneMember ==
    ASSUME IInv, SyncInv, NEW c \in Client, pc[c] \in AtWork,
           ifset' \in {ifset \cup {job[c].iface}, ifset \ {job[c].iface}},
           UNCHANGED <<qdisc, row, clean>>
    PROVE  Reaches(c) /\ Elsewhere(job[c].iface)
<1>1. job[c].iface \in job[c].scope
  BY Knows DEF Bound
<1>2. QED
  BY <1>1 DEF Reaches, Elsewhere

\* The request of a client that is dead answers for nothing, but a restore keeps
\* what is in step.
LEMMA DeadInOrder ==
    ASSUME IInv, SyncInv, NEW c \in Client, job[c].dead, clean' = clean,
           Elsewhere(job[c].iface), job[c].op = "restore" => job[c].iface \notin clean
    PROVE  InOrder(c)
<1>1. ASSUME NEW k \in job[c].scope, k \in clean' PROVE InStep(k)'
  <2>1. job[c].op = "restore"
    BY <1>1, Concerned
  <2>2. InStep(k) /\ k \in Iface \ {job[c].iface}
    BY <1>1, <2>1, Knows, ScopeType DEF Held, Restored
  <2>3. QED
    BY <2>2, Untouched DEF Elsewhere
<1>2. QED
  BY <1>1 DEF InOrder

\* The interface is put into the set of nftables.
LEMMA MarkSync == ASSUME IInv, IInv', SyncInv, NEW c \in Client, Mark(c) PROVE SyncInv'
<1>0. PICK i \in Iface : i = job[c].iface
  BY OnInterface, AtRequest DEF Mark, RequestPC
<1>1. /\ UNCHANGED <<qdisc, row, clean>> /\ pc[c] = "mark" /\ Save(c)
      /\ ifset' = ifset \cup {job[c].iface}
      /\ Bound(c, "mark", job[c]) /\ Made(c)
  BY Knows DEF Mark, AtKernel
<1>2. Reaches(c) /\ Elsewhere(job[c].iface)
  BY <1>1, OneMember DEF AtWork, RequestPC
<1>3. job[c].op = "restore" => job[c].iface \notin clean
  BY <1>1, RestoreAt DEF AtKernelOrRow
<1>4. job[c].dead => InOrder(c)
  BY <1>1, <1>2, <1>3, DeadInOrder
<1>5. job[c].alone /\ ~job[c].err => qdisc[i] = Whole(job[c])
  BY <1>0, <1>1 DEF Made
<1>6. ASSUME job'[c] = job[c],
             \/ pc'[c] = "rate" /\ job[c].op = "rate"
             \/ pc'[c] = "high" /\ job[c].op = "split"
             \/ pc'[c] = "save" /\ job[c].op \in {"enable", "restore"}
      PROVE  Made(c)' /\ Held(c)'
  <2>1. Made(c)'
    BY <1>0, <1>1, <1>5, <1>6 DEF Made, Whole
  <2>2. ASSUME job[c].op # "restore", job[c].scope \cap clean' # {} PROVE Phase(c)'
    <3>1. /\ Phase(c) /\ job[c].alone /\ ~job[c].dead /\ ~job[c].err
          /\ job[c].op \in {"rate", "split"} => Kept(job[c])
      BY <1>1, <2>2, Concerned DEF Phase, RequestPC, Changes
    <3>2. i \in ifset' /\ qdisc'[i] = Whole(job[c]) /\ Load(i)' = Load(i)
      BY <1>0, <1>1, <1>5, <3>1 DEF Load
    <3>3. QED
      BY <1>0, <1>6, <3>1, <3>2 DEF Phase, RequestPC, Storing, Changes, Kept, Load, Whole
  <2>3. QED
    BY <1>2, <1>3, <1>1, <1>6, <2>1, <2>2, RestoreWorks DEF Held
<1>7. QED
  BY <1>1, <1>2, <1>4, <1>6, Saves DEF Creating

\* The qdisc is deleted.
LEMMA FlushSync == ASSUME IInv, IInv', SyncInv, NEW c \in Client, Flush(c) PROVE SyncInv'
<1>0. PICK i \in Iface : i = job[c].iface
  BY OnInterface, AtRequest DEF Flush, RequestPC
<1>1. /\ UNCHANGED <<ifset, row, clean>> /\ pc[c] = "flush"
      /\ qdisc' = [qdisc EXCEPT ![job[c].iface] = NoQdisc]
      /\ Bound(c, "flush", job[c])
  BY <1>0, Knows DEF Flush, AtKernel
<1>2. Reaches(c) /\ Elsewhere(job[c].iface)
  BY <1>1, OneQdisc DEF AtWork, RequestPC
<1>3. /\ qdisc'[i].state = "none" /\ Load(i)' = Load(i) /\ (i \in ifset' <=> i \in ifset)
  BY <1>0, <1>1 DEF IInv, Settled, NoQdisc, Load
<1>4. ASSUME job[c].scope \cap clean' # {}
      PROVE  /\ Phase(c) /\ job[c].alone /\ ~job[c].dead /\ ~job[c].err
             /\ job[c].op # "disable" => /\ Valid(job[c].split) /\ ~Starves(job[c].rate, job[c].split)
                                         /\ Kept(job[c]) /\ Load(i).enabled
             /\ InStep(i)
  <2>1. Phase(c) /\ job[c].alone /\ ~job[c].dead /\ ~job[c].err
    BY <1>1, <1>4, Concerned DEF Bound
  <2>2. InStep(i)
    BY <1>0, <1>1, <2>1 DEF Phase
  <2>3. job[c].op # "disable" => /\ Valid(job[c].split) /\ ~Starves(job[c].rate, job[c].split)
                                 /\ Kept(job[c])
    BY <1>1, <2>1 DEF Phase, Bound, RequestPC, Changes
  <2>4. QED
    BY <1>0, <2>1, <2>2, <2>3 DEF Kept
<1>5. CASE Goto(c, "unmark", job[c]) /\ (job[c].op = "disable" \/ c \in DaemonClient)
  <2>1. Bound(c, "unmark", job[c]) /\ "unmark" \in PC
    BY <1>1, <1>5 DEF Bound, RequestPC, Storing, AtWork, PC
  <2>2. ASSUME pc'[c] = "unmark" /\ job'[c] = job[c] PROVE Made(c)' /\ Held(c)'
    <3>1. Made(c)'
      BY <1>0, <1>3, <2>2 DEF Made
    <3>2. ASSUME job[c].scope \cap clean' # {} PROVE Phase(c)'
      BY <1>0, <1>1, <1>3, <1>4, <2>2, <3>2
         DEF Phase, RequestPC, Storing, Changes, Kept, Load, Bound
    <3>3. QED
      BY <1>1, <2>2, <3>1, <3>2 DEF Held, Bound
  <2>3. QED
    BY <1>2, <1>5, <2>1, <2>2, Proceeds
<1>6. CASE Goto(c, "find", job[c]) /\ Changes(c) /\ c \notin DaemonClient
  <2>1. Bound(c, "find", job[c]) /\ "find" \in PC
    BY <1>1, <1>6 DEF Bound, RequestPC, Storing, AtWork, PC, Changes
  <2>2. ASSUME pc'[c] = "find" /\ job'[c] = job[c] PROVE Made(c)' /\ Held(c)'
    <3>1. ASSUME job[c].scope \cap clean' # {} PROVE Phase(c)'
      <4>1. i \in ifset'
        BY <1>3, <1>4, <1>6, <3>1 DEF InStep, Changes
      <4>2. QED
        BY <1>0, <1>3, <1>4, <1>6, <2>2, <3>1, <4>1
           DEF Phase, RequestPC, Storing, Changes, Kept, Load
    <3>2. QED
      BY <1>1, <2>2, <3>1 DEF Made, Held, Bound
  <2>3. QED
    BY <1>2, <1>6, <2>1, <2>2, Proceeds
<1>7. CASE Fail(c) /\ qdisc[i].state = "none" /\ Changes(c) /\ c \notin DaemonClient
  <2>1. job[c].scope \cap clean' = {}
    BY <1>4, <1>7 DEF InStep, Changes
  <2>2. InOrder(c) /\ ~job[c].dead
    BY <1>1, <1>7, <2>1 DEF InOrder, Bound
  <2>3. QED
    BY <1>1, <1>2, <1>7, <2>2, Fails
<1>8. QED
  BY <1>0, <1>1, <1>5, <1>6, <1>7 DEF Flush, Changes, Bound

\* The interface is taken out of the set of nftables.
LEMMA UnmarkSync == ASSUME IInv, IInv', SyncInv, NEW c \in Client, Unmark(c) PROVE SyncInv'
<1>0. PICK i \in Iface : i = job[c].iface
  BY OnInterface, AtRequest DEF Unmark, RequestPC
<1>1. /\ UNCHANGED <<qdisc, row, clean>> /\ pc[c] = "unmark"
      /\ ifset' = ifset \ {job[c].iface}
      /\ Bound(c, "unmark", job[c]) /\ Made(c)
  BY Knows DEF Unmark, AtKernel
<1>2. Reaches(c) /\ Elsewhere(job[c].iface)
  BY <1>1, OneMember DEF AtWork, RequestPC
<1>3. /\ job[c].alone /\ ~job[c].err => qdisc'[i].state = "none"
      /\ i \notin ifset' /\ Load(i)' = Load(i)
  BY <1>0, <1>1 DEF Made, Load
<1>4. ASSUME job[c].scope \cap clean' # {}
      PROVE  /\ Phase(c) /\ job[c].alone /\ ~job[c].dead /\ ~job[c].err
             /\ job[c].op # "disable" => /\ Valid(job[c].split) /\ ~Starves(job[c].rate, job[c].split)
                                         /\ Kept(job[c])
  <2>1. Phase(c) /\ job[c].alone /\ ~job[c].dead /\ ~job[c].err
    BY <1>1, <1>4, Concerned DEF Bound
  <2>2. QED
    BY <1>1, <2>1 DEF Phase, Bound, RequestPC, Changes
<1>5. CASE End(c) /\ job[c].dead
  <2>1. InOrder(c)
    BY <1>1, <1>4, <1>5 DEF InOrder
  <2>2. QED
    BY <1>2, <1>5, <2>1, Ends
<1>6. CASE Goto(c, "find", job[c]) /\ Changes(c) /\ ~job[c].dead
  <2>1. Bound(c, "find", job[c]) /\ "find" \in PC /\ c \in DaemonClient
    BY <1>1, <1>6 DEF Bound, RequestPC, Storing, AtWork, PC, Changes
  <2>2. ASSUME pc'[c] = "find" /\ job'[c] = job[c] PROVE Made(c)' /\ Held(c)'
    <3>1. ASSUME job[c].scope \cap clean' # {} PROVE Phase(c)'
      BY <1>0, <1>3, <1>4, <1>6, <2>1, <2>2, <3>1
         DEF Phase, RequestPC, Storing, Changes, Kept, Load
    <3>2. QED
      BY <1>1, <2>2, <3>1 DEF Made, Held, Bound
  <2>3. QED
    BY <1>2, <1>6, <2>1, <2>2, Proceeds
<1>7. CASE Goto(c, "off", job[c]) /\ ~Changes(c) /\ ~job[c].dead
  <2>1. Bound(c, "off", job[c]) /\ "off" \in PC
    BY <1>1, <1>7 DEF Bound, RequestPC, Storing, AtWork, PC, Changes
  <2>2. ASSUME pc'[c] = "off" /\ job'[c] = job[c] PROVE Made(c)' /\ Held(c)'
    <3>1. Made(c)'
      BY <1>0, <1>3, <2>2 DEF Made
    <3>2. ASSUME job[c].scope \cap clean' # {} PROVE Phase(c)'
      BY <1>4, <2>2, <3>2 DEF Phase, RequestPC, Storing
    <3>3. QED
      BY <1>1, <2>2, <3>1, <3>2 DEF Held, Bound
  <2>3. QED
    BY <1>2, <1>7, <2>1, <2>2, Proceeds
<1>8. QED
  BY <1>5, <1>6, <1>7 DEF Unmark
-----------------------------------------------------------------------------
(* Statements on the database.                                             *)

\* A statement concerns one row, and settles its interface only for an operation
\* that has met nobody.
LEMMA OneRow ==
    ASSUME IInv, SyncInv, NEW c \in Client, pc[c] \in AtWork, NEW e,
           row' = row \/ row' = [row EXCEPT ![job[c].iface] = e],
           UNCHANGED <<qdisc, ifset>>, Settles(c) \/ UNCHANGED clean
    PROVE  Reaches(c) /\ Elsewhere(job[c].iface)
<1>1. job[c].iface \in job[c].scope
  BY Knows DEF Bound
<1>2. \A k \in Iface \ {job[c].iface} : row'[k] = row[k]
  BY DEF IInv, Settled
<1>3. \A k : k \in clean' => k \in clean \/ (k = job[c].iface /\ job[c].alone)
  BY DEF Settles
<1>4. QED
  BY <1>1, <1>2, <1>3 DEF Reaches, Elsewhere

\* An operation answers for its interface after its last statement when nobody has
\* come in the way.
LEMMA SettlesAlone ==
    ASSUME IInv, SyncInv, NEW c \in Client, pc[c] \in AtWork, Settles(c),
           job[c].op = "restore" => pc[c] = "save",
           job[c].iface \in clean'
    PROVE  job[c].alone /\ ~job[c].err
<1>1. job[c].iface \in job[c].scope
  BY Knows DEF Bound
<1>2. CASE job[c].op = "restore"
  BY <1>2, RestoreAt DEF Settles, AtKernelOrRow
<1>3. CASE job[c].op # "restore"
  BY <1>1, <1>3, Concerned DEF Settles
<1>4. QED
  BY <1>2, <1>3

\* INSERT OR REPLACE: what the kernel has is stored.
LEMMA SaveRowSync == ASSUME IInv, IInv', SyncInv, NEW c \in Client, SaveRow(c) PROVE SyncInv'
<1>0. PICK i \in Iface : i = job[c].iface
  BY OnInterface DEF SaveRow
<1> DEFINE e == [enabled |-> TRUE, rate |-> job[c].rate, split |-> job[c].split]
<1>1. /\ UNCHANGED <<qdisc, ifset>> /\ pc[c] = "save" /\ Settles(c)
      /\ row' = [row EXCEPT ![job[c].iface] = e]
      /\ Bound(c, "save", job[c]) /\ Made(c) /\ ~job[c].dead
  BY <1>0, Knows DEF SaveRow, Bound, RequestPC
<1>2. Reaches(c) /\ Elsewhere(job[c].iface)
  <2> HIDE DEF e
  <2>1. QED
    BY <1>1, OneRow DEF AtWork
<1>3. i \in clean' => job[c].alone /\ ~job[c].err
  BY <1>0, <1>1, SettlesAlone DEF AtWork
<1>4. e \in Entry /\ Load(i)' = e
  <2>1. e \in Entry /\ row'[i] = e
    BY <1>0, <1>1, JobTypes DEF IInv, Settled, Entry
  <2>2. e # None
    BY <2>1, IfaceAssumption
  <2>3. QED
    BY <2>1, <2>2 DEF Load
<1>5. job[c].alone /\ ~job[c].err => InStep(i)'
  <2>1. job[c].alone /\ ~job[c].err => qdisc'[i] = Whole(job[c]) /\ i \in ifset'
    BY <1>0, <1>1 DEF Made
  <2>2. QED
    BY <1>4, <2>1 DEF InStep, Whole
<1>6. ASSUME NEW k \in job[c].scope, k \in clean'
      PROVE  InStep(k)' /\ (job[c].op = "restore" => (Load(k).enabled)')
  <2>1. CASE k = i
    BY <1>3, <1>4, <1>5, <1>6, <2>1
  <2>2. CASE k # i
    <3>1. job[c].op = "restore"
      BY <1>0, <1>1, <2>2 DEF Bound
    <3>2. k \in Iface /\ k \in clean
      BY <1>0, <1>2, <1>6, <2>2, ScopeType DEF Elsewhere
    <3>3. InStep(k) /\ Load(k).enabled
      BY <1>6, <3>1, <3>2, Knows DEF Held, Restored
    <3>4. QED
      BY <1>0, <1>2, <2>2, <3>2, <3>3, Untouched DEF Elsewhere
  <2>3. QED
    BY <2>1, <2>2
<1>7. CASE job[c].op = "restore" /\ Goto(c, "next", job[c])
  <2>1. Bound(c, "next", job[c]) /\ "next" \in PC
    BY <1>1, <1>7 DEF Bound, RequestPC, Storing, AtWork, PC
  <2>2. ASSUME pc'[c] = "next" /\ job'[c] = job[c] PROVE Made(c)' /\ Held(c)'
    BY <1>6, <1>7, <2>2 DEF Made, Held, Restored
  <2>3. QED
    BY <1>2, <1>7, <2>1, <2>2, Proceeds
<1>8. CASE job[c].op # "restore" /\ Return(c, [job[c] EXCEPT !.entry = e])
  <2> DEFINE j == [job[c] EXCEPT !.entry = e]
  <2> HIDE DEF e
  <2>1. /\ j \in Job /\ Same(job[c], j) /\ j.scope = job[c].scope /\ j.alone = job[c].alone
        /\ j.dead = job[c].dead /\ j.err = job[c].err
    BY <1>4, JobTypes DEF Job, Same
  <2>2. job[c].scope \cap clean' # {} => job[c].alone /\ ~job[c].err
    BY <1>0, <1>1, <1>3, <1>8 DEF Bound
  <2>3. Return(c, j) /\ InOrder(c)
    BY <1>6, <1>8 DEF InOrder
  <2> HIDE DEF j
  <2>4. QED
    BY <1>1, <1>2, <2>1, <2>2, <2>3, Returns
<1>9. QED
  BY <1>7, <1>8 DEF SaveRow

\* What an UPDATE leaves of the row.
LEMMA Updated ==
    ASSUME IInv, NEW c \in Client, NEW p, NEW e, Update(c, p, e), NEW i \in Iface, i = job[c].iface,
           row[i] # None => e \in Entry
    PROVE  /\ pc[c] = p /\ UNCHANGED <<qdisc, ifset>>
           /\ row' = row \/ row' = [row EXCEPT ![job[c].iface] = e]
           /\ Load(i)' = IF row[i] = None THEN Default ELSE e
           /\ Load(i) = IF row[i] = None THEN Default ELSE row[i]
           /\ row[i] # None => row[i] \in Entry
<1>1. /\ row' = IF row[i] = None THEN row ELSE [row EXCEPT ![i] = e]
      /\ row[i] # None => row[i] \in Entry
  BY DEF Update, IInv, Settled
<1>2. row'[i] = IF row[i] = None THEN None ELSE e
  BY <1>1 DEF IInv, Settled
<1>3. row[i] # None => e # None
  BY IfaceAssumption
<1>4. row' = row \/ row' = [row EXCEPT ![job[c].iface] = e]
  BY <1>1
<1>5. /\ Load(i)' = IF row[i] = None THEN Default ELSE e
      /\ Load(i) = IF row[i] = None THEN Default ELSE row[i]
  BY <1>2, <1>3 DEF Load
<1>6. pc[c] = p /\ UNCHANGED <<qdisc, ifset>>
  BY DEF Update
<1>7. QED
  BY <1>1, <1>4, <1>5, <1>6

\* The interface is disabled in the database, as it is in the kernel.
LEMMA SaveOffSync == ASSUME IInv, IInv', SyncInv, NEW c \in Client, SaveOff(c) PROVE SyncInv'
<1>0. PICK i \in Iface : i = job[c].iface
  BY OnInterface DEF SaveOff, Update
<1> DEFINE e == [row[job[c].iface] EXCEPT !.enabled = FALSE]
           j == [job[c] EXCEPT !.entry.enabled = FALSE]
<1>1. row[i] # None => row[i] \in Entry /\ e \in Entry /\ e.enabled = FALSE
  BY <1>0, EntryUpdates DEF IInv, Settled, Entry
<1>2. Update(c, "off", e) /\ Return(c, j) /\ Settles(c)
  BY DEF SaveOff
<1>3. /\ j \in Job /\ Same(job[c], j) /\ j.scope = job[c].scope /\ j.alone = job[c].alone
      /\ j.dead = job[c].dead /\ j.err = job[c].err
  BY JobTypes, NestedUpdates DEF Job, Same
<1> HIDE DEF e, j
<1>4. /\ UNCHANGED <<qdisc, ifset>> /\ pc[c] = "off"
      /\ row' = row \/ row' = [row EXCEPT ![job[c].iface] = e]
      /\ Load(i)' = IF row[i] = None THEN Default ELSE e
  BY <1>0, <1>1, <1>2, Updated
<1>5. Bound(c, "off", job[c]) /\ Made(c) /\ ~job[c].dead
  BY <1>4, Knows DEF Bound, RequestPC
<1>6. Reaches(c)
  BY <1>2, <1>4, OneRow DEF AtWork
<1>7. job[c].iface \in clean' => job[c].alone /\ ~job[c].err
  BY <1>2, <1>4, <1>5, SettlesAlone DEF AtWork, Bound
<1>8. (Load(i).enabled)' = FALSE
  BY <1>1, <1>4 DEF Default
<1>9. job[c].alone /\ ~job[c].err => InStep(i)'
  BY <1>0, <1>4, <1>5, <1>8 DEF InStep, Made
<1>10. InOrder(c) /\ (job[c].scope \cap clean' # {} => job[c].alone /\ ~job[c].err)
  BY <1>0, <1>5, <1>7, <1>9 DEF InOrder, Bound
<1>11. QED
  BY <1>2, <1>3, <1>5, <1>6, <1>10, Returns

\* What the statements of a change rely on.
LEMMA Changing ==
    ASSUME IInv, SyncInv, NEW c \in Client, pc[c] \in Storing, NEW i \in Iface, i = job[c].iface,
           job[c].scope \cap clean # {}
    PROVE  /\ job[c].alone /\ ~job[c].dead /\ ~job[c].err
           /\ \/ ~Load(i).enabled /\ InStep(i)
              \/ Kept(job[c]) /\ qdisc[i] = Whole(job[c]) /\ i \in ifset
           /\ pc[c] \in {"dflt", "low"} /\ Load(i).enabled => Load(i).split.high = job[c].split.high
           /\ pc[c] = "low" /\ Load(i).enabled => Load(i).split.dflt = job[c].split.dflt
<1>1. job[c].op # "restore"
  BY Knows DEF Bound, Storing
<1>2. Phase(c)
  BY <1>1, Concerned
<1>3. QED
  BY <1>2 DEF Phase

\* The last statement of a change puts the interface in step.
LEMMA LastStatement ==
    ASSUME IInv, IInv', SyncInv, NEW c \in Client, pc[c] \in Storing,
           NEW e, row' = row \/ row' = [row EXCEPT ![job[c].iface] = e],
           UNCHANGED <<qdisc, ifset, clean>>,
           NEW j \in Job, Return(c, j), Same(job[c], j), j.scope = job[c].scope,
           j.alone = job[c].alone, j.dead = job[c].dead, j.err = job[c].err,
           NEW i \in Iface, i = job[c].iface,
           job[c].scope \cap clean # {} => InStep(i)'
    PROVE  SyncInv'
<1>1. Bound(c, pc[c], job[c])
  BY Knows
<1>2. Reaches(c)
  BY OneRow DEF AtWork
<1>3. InOrder(c) /\ ~job[c].dead
  BY <1>1 DEF InOrder, Bound, Storing, RequestPC
<1>4. job[c].scope \cap clean' # {} => job[c].alone /\ ~job[c].err
  BY Changing
<1>5. QED
  BY <1>2, <1>3, <1>4, Returns

\* The new rate is stored.
LEMMA SaveRateSync == ASSUME IInv, IInv', SyncInv, NEW c \in Client, SaveRate(c) PROVE SyncInv'
<1>0. PICK i \in Iface : i = job[c].iface
  BY OnInterface DEF SaveRate, Update
<1> DEFINE e == [row[job[c].iface] EXCEPT !.rate = job[c].rate]
           j == [job[c] EXCEPT !.entry.rate = job[c].rate]
<1>1. row[i] # None => /\ row[i] \in Entry /\ e \in Entry /\ e.enabled = row[i].enabled
                       /\ e.split = row[i].split /\ e.rate = job[c].rate
  <2>1. row[i] # None => row[i] \in Entry
    BY DEF IInv, Settled
  <2>2. job[c].rate \in Nat /\ e = [row[i] EXCEPT !.rate = job[c].rate]
    BY <1>0, JobTypes
  <2> HIDE DEF e
  <2>3. row[i] \in Entry => e \in Entry
    BY <2>2, EntryUpdates
  <2>4. row[i] \in Entry => e.enabled = row[i].enabled /\ e.split = row[i].split /\ e.rate = job[c].rate
    BY <2>2 DEF Entry
  <2>5. QED
    BY <2>1, <2>3, <2>4
<1>2. Update(c, "rate", e) /\ Return(c, j) /\ clean' = clean
  BY DEF SaveRate
<1>3. /\ j \in Job /\ Same(job[c], j) /\ j.scope = job[c].scope /\ j.alone = job[c].alone
      /\ j.dead = job[c].dead /\ j.err = job[c].err
  BY JobTypes, NestedUpdates DEF Job, Same
<1> HIDE DEF e, j
<1>4. /\ UNCHANGED <<qdisc, ifset>> /\ pc[c] = "rate"
      /\ row' = row \/ row' = [row EXCEPT ![job[c].iface] = e]
      /\ Load(i)' = IF row[i] = None THEN Default ELSE e
      /\ Load(i) = IF row[i] = None THEN Default ELSE row[i]
  BY <1>0, <1>1, <1>2, Updated
<1>5. job[c].op = "rate"
  BY <1>4, Knows DEF Bound
<1>6. ASSUME job[c].scope \cap clean # {} PROVE InStep(i)'
  <2>1. CASE ~Load(i).enabled /\ InStep(i)
    BY <1>1, <1>4, <2>1 DEF InStep, Default
  <2>2. CASE Kept(job[c]) /\ qdisc[i] = Whole(job[c]) /\ i \in ifset
    <3>1. Load(i).enabled /\ Load(i).split = job[c].split
      BY <1>0, <1>5, <2>2 DEF Kept
    <3>2. row[i] # None
      BY <1>4, <3>1 DEF Default
    <3>3. (Load(i).enabled)' /\ (Load(i).split)' = job[c].split /\ (Load(i).rate)' = job[c].rate
      BY <1>1, <1>4, <3>1, <3>2
    <3>4. QED
      BY <1>4, <2>2, <3>3 DEF InStep, Whole
  <2>3. QED
    BY <1>0, <1>4, <1>6, <2>1, <2>2, Changing DEF Storing
<1>7. QED
  BY <1>0, <1>2, <1>3, <1>4, <1>6, LastStatement DEF Storing

\* The statements of a change before its last one leave it under way.
LEMMA NextStatement ==
    ASSUME IInv, IInv', SyncInv, NEW c \in Client, NEW p \in {"dflt", "low"},
           pc[c] \in {"high", "dflt"}, Goto(c, p, job[c]),
           NEW e, row' = row \/ row' = [row EXCEPT ![job[c].iface] = e],
           UNCHANGED <<qdisc, ifset, clean>>,
           NEW i \in Iface, i = job[c].iface,
           (Load(i).enabled)' = Load(i).enabled, (Load(i).rate)' = Load(i).rate,
           Load(i).enabled /\ (p = "low" => Load(i).split.high = job[c].split.high) =>
               /\ (Load(i).split.high)' = job[c].split.high
               /\ p = "low" => (Load(i).split.dflt)' = job[c].split.dflt,
           p = "low" => pc[c] = "dflt"
    PROVE  SyncInv'
<1>1. Bound(c, pc[c], job[c]) /\ job[c].op = "split"
  BY Knows DEF Bound
<1>2. Reaches(c)
  BY OneRow DEF AtWork, Storing
<1>3. Bound(c, p, job[c]) /\ p \in PC
  BY <1>1 DEF Bound, AtWork, Storing, RequestPC, PC
<1>4. ASSUME pc'[c] = p /\ job'[c] = job[c] PROVE Made(c)' /\ Held(c)'
  <2>1. ASSUME job[c].scope \cap clean # {} PROVE Phase(c)'
    <3>1. /\ job[c].alone /\ ~job[c].dead /\ ~job[c].err
          /\ \/ ~Load(i).enabled /\ InStep(i)
             \/ Kept(job[c]) /\ qdisc[i] = Whole(job[c]) /\ i \in ifset
          /\ pc[c] = "dflt" /\ Load(i).enabled => Load(i).split.high = job[c].split.high
      BY <2>1, Changing DEF Storing
    <3>2. \/ ~(Load(i).enabled)' /\ InStep(i)'
          \/ Kept(job[c])' /\ qdisc'[i] = Whole(job[c]) /\ i \in ifset'
      <4>1. CASE ~Load(i).enabled /\ InStep(i)
        BY <4>1 DEF InStep
      <4>2. CASE Kept(job[c]) /\ qdisc[i] = Whole(job[c]) /\ i \in ifset
        <5>1. Load(i).enabled /\ Load(i).rate = job[c].rate
          BY <1>1, <4>2 DEF Kept
        <5>2. Kept(job[c])'
          BY <1>1, <1>4, <5>1 DEF Kept, Load
        <5>3. QED
          BY <4>2, <5>2
      <4>3. QED
        BY <3>1, <4>1, <4>2
    <3>3. /\ (Load(i).enabled)' => (Load(i).split.high)' = job[c].split.high
          /\ p = "low" /\ (Load(i).enabled)' => (Load(i).split.dflt)' = job[c].split.dflt
      BY <3>1
    <3>4. QED
      BY <1>1, <1>4, <3>1, <3>2, <3>3 DEF Phase, Storing, RequestPC, Kept, Load, Whole, InStep
  <2>2. QED
    BY <1>1, <1>4, <2>1 DEF Made, Held
<1>5. QED
  BY <1>2, <1>3, <1>4, Proceeds

\* An UPDATE of one percentage changes that one.
LEMMA HighUpdates ==
    ASSUME NEW e \in Entry, NEW n \in Nat, NEW f, f = [e EXCEPT !.split.high = n]
    PROVE  /\ f \in Entry /\ f.enabled = e.enabled /\ f.rate = e.rate
           /\ f.split.high = n
           /\ f.split.dflt = e.split.dflt
BY DEF Entry, Percentages

LEMMA DfltUpdates ==
    ASSUME NEW e \in Entry, NEW n \in Nat, NEW f, f = [e EXCEPT !.split.dflt = n]
    PROVE  /\ f \in Entry /\ f.enabled = e.enabled /\ f.rate = e.rate
           /\ f.split.dflt = n
           /\ f.split.high = e.split.high
BY DEF Entry, Percentages

LEMMA LowUpdates ==
    ASSUME NEW e \in Entry, NEW n \in Nat, NEW f, f = [e EXCEPT !.split.low = n]
    PROVE  /\ f \in Entry /\ f.enabled = e.enabled /\ f.rate = e.rate
           /\ f.split.low = n
           /\ f.split.high = e.split.high /\ f.split.dflt = e.split.dflt
BY DEF Entry, Percentages

\* The first of the three percentages is stored.
LEMMA SaveHighSync == ASSUME IInv, IInv', SyncInv, NEW c \in Client, SaveHigh(c) PROVE SyncInv'
<1>0. PICK i \in Iface : i = job[c].iface
  BY OnInterface DEF SaveHigh, Update
<1> DEFINE e == [row[job[c].iface] EXCEPT !.split.high = job[c].split.high]
<1>1. Update(c, "high", e) /\ Goto(c, "dflt", job[c]) /\ clean' = clean
  BY DEF SaveHigh
<1>2. row[i] # None =>
         /\ e \in Entry /\ e.enabled = row[i].enabled /\ e.rate = row[i].rate
         /\ e.split.high = job[c].split.high /\ e.split.dflt = row[i].split.dflt
  <2>1. (row[i] # None => row[i] \in Entry) /\ job[c].split.high \in Nat
    BY JobTypes DEF IInv, Settled, Percentages
  <2>2. e = [row[i] EXCEPT !.split.high = job[c].split.high]
    BY <1>0
  <2> DEFINE n == job[c].split.high
             r == row[i]
  <2>3. (r # None => r \in Entry) /\ n \in Nat /\ e = [r EXCEPT !.split.high = n]
    BY <2>1, <2>2
  <2>4. n = job[c].split.high /\ r = row[i]
    OBVIOUS
  <2> HIDE DEF e, n, r
  <2>5. ASSUME r # None
        PROVE  /\ e \in Entry /\ e.enabled = r.enabled /\ e.rate = r.rate /\ e.split.high = n
               /\ e.split.dflt = r.split.dflt
    BY <2>3, <2>5, HighUpdates
  <2>6. QED
    BY <2>4, <2>5
<1> HIDE DEF e
<1>3. /\ UNCHANGED <<qdisc, ifset>> /\ pc[c] = "high"
      /\ row' = row \/ row' = [row EXCEPT ![job[c].iface] = e]
      /\ Load(i)' = IF row[i] = None THEN Default ELSE e
      /\ Load(i) = IF row[i] = None THEN Default ELSE row[i]
  BY <1>0, <1>1, <1>2, Updated
<1>4. (Load(i).enabled)' = Load(i).enabled /\ (Load(i).rate)' = Load(i).rate
  BY <1>2, <1>3
<1>5. Load(i).enabled => /\ (Load(i).split.high)' = job[c].split.high
                         /\ (Load(i).split.dflt)' = Load(i).split.dflt
  BY <1>2, <1>3 DEF Default
<1>6. QED
  BY <1>0, <1>1, <1>3, <1>4, <1>5, NextStatement

\* The second of the three percentages is stored.
LEMMA SaveDfltSync == ASSUME IInv, IInv', SyncInv, NEW c \in Client, SaveDflt(c) PROVE SyncInv'
<1>0. PICK i \in Iface : i = job[c].iface
  BY OnInterface DEF SaveDflt, Update
<1> DEFINE e == [row[job[c].iface] EXCEPT !.split.dflt = job[c].split.dflt]
<1>1. Update(c, "dflt", e) /\ Goto(c, "low", job[c]) /\ clean' = clean
  BY DEF SaveDflt
<1>2. row[i] # None =>
         /\ e \in Entry /\ e.enabled = row[i].enabled /\ e.rate = row[i].rate
         /\ e.split.dflt = job[c].split.dflt /\ e.split.high = row[i].split.high
  <2>1. (row[i] # None => row[i] \in Entry) /\ job[c].split.dflt \in Nat
    BY JobTypes DEF IInv, Settled, Percentages
  <2>2. e = [row[i] EXCEPT !.split.dflt = job[c].split.dflt]
    BY <1>0
  <2> DEFINE n == job[c].split.dflt
             r == row[i]
  <2>3. (r # None => r \in Entry) /\ n \in Nat /\ e = [r EXCEPT !.split.dflt = n]
    BY <2>1, <2>2
  <2>4. n = job[c].split.dflt /\ r = row[i]
    OBVIOUS
  <2> HIDE DEF e, n, r
  <2>5. ASSUME r # None
        PROVE  /\ e \in Entry /\ e.enabled = r.enabled /\ e.rate = r.rate /\ e.split.dflt = n
               /\ e.split.high = r.split.high
    BY <2>3, <2>5, DfltUpdates
  <2>6. QED
    BY <2>4, <2>5
<1> HIDE DEF e
<1>3. /\ UNCHANGED <<qdisc, ifset>> /\ pc[c] = "dflt"
      /\ row' = row \/ row' = [row EXCEPT ![job[c].iface] = e]
      /\ Load(i)' = IF row[i] = None THEN Default ELSE e
      /\ Load(i) = IF row[i] = None THEN Default ELSE row[i]
  BY <1>0, <1>1, <1>2, Updated
<1>4. (Load(i).enabled)' = Load(i).enabled /\ (Load(i).rate)' = Load(i).rate
  BY <1>2, <1>3
<1>5. Load(i).enabled => /\ (Load(i).split.dflt)' = job[c].split.dflt
                         /\ (Load(i).split.high)' = Load(i).split.high
  BY <1>2, <1>3 DEF Default
<1>6. QED
  BY <1>0, <1>1, <1>3, <1>4, <1>5, NextStatement

\* Percentages are known from the three of them.
LEMMA SplitOf ==
    ASSUME NEW s \in Percentages, NEW t \in Percentages,
           s.high = t.high, s.dflt = t.dflt, s.low = t.low
    PROVE  s = t
BY DEF Percentages

\* The last of the three percentages is stored, and what is stored is what was asked
\* for.
LEMMA SaveLowSync == ASSUME IInv, IInv', SyncInv, NEW c \in Client, SaveLow(c) PROVE SyncInv'
<1>0. PICK i \in Iface : i = job[c].iface
  BY OnInterface DEF SaveLow, Update
<1> DEFINE e == [row[job[c].iface] EXCEPT !.split.low = job[c].split.low]
           j == [job[c] EXCEPT !.entry.split = job[c].split]
<1>1. Update(c, "low", e) /\ Return(c, j) /\ clean' = clean
  BY DEF SaveLow
<1>2. /\ row[i] # None =>
         /\ e \in Entry /\ e.enabled = row[i].enabled /\ e.rate = row[i].rate
         /\ e.split.high = row[i].split.high /\ e.split.dflt = row[i].split.dflt
         /\ e.split.low = job[c].split.low
  <2>1. (row[i] # None => row[i] \in Entry) /\ job[c].split.low \in Nat
    BY JobTypes DEF IInv, Settled, Percentages
  <2>2. e = [row[i] EXCEPT !.split.low = job[c].split.low]
    BY <1>0
  <2> DEFINE n == job[c].split.low
             r == row[i]
  <2>3. (r # None => r \in Entry) /\ n \in Nat /\ e = [r EXCEPT !.split.low = n]
    BY <2>1, <2>2
  <2>4. n = job[c].split.low /\ r = row[i]
    OBVIOUS
  <2> HIDE DEF e, n, r
  <2>5. ASSUME r # None
        PROVE  /\ e \in Entry /\ e.enabled = r.enabled /\ e.rate = r.rate /\ e.split.low = n
               /\ e.split.high = r.split.high /\ e.split.dflt = r.split.dflt
    BY <2>3, <2>5, LowUpdates
  <2>6. QED
    BY <2>4, <2>5
<1>3. /\ j \in Job /\ Same(job[c], j) /\ j.scope = job[c].scope /\ j.alone = job[c].alone
      /\ j.dead = job[c].dead /\ j.err = job[c].err
  BY JobTypes, NestedUpdates DEF Job, Same
<1> HIDE DEF e, j
<1>4. /\ UNCHANGED <<qdisc, ifset>> /\ pc[c] = "low"
      /\ row' = row \/ row' = [row EXCEPT ![job[c].iface] = e]
      /\ Load(i)' = IF row[i] = None THEN Default ELSE e
      /\ Load(i) = IF row[i] = None THEN Default ELSE row[i]
  BY <1>0, <1>1, <1>2, Updated
<1>5. job[c].op = "split"
  BY <1>4, Knows DEF Bound
<1>6. ASSUME job[c].scope \cap clean # {} PROVE InStep(i)'
  <2>1. CASE ~Load(i).enabled /\ InStep(i)
    BY <1>2, <1>4, <2>1 DEF InStep, Default
  <2>2. CASE Load(i).enabled /\ Kept(job[c]) /\ qdisc[i] = Whole(job[c]) /\ i \in ifset
    <3>1. Load(i).rate = job[c].rate
      BY <1>0, <1>5, <2>2 DEF Kept
    <3>2. row[i] # None
      BY <1>4, <2>2 DEF Default
    <3>3. Load(i).split.high = job[c].split.high /\ Load(i).split.dflt = job[c].split.dflt
      BY <1>0, <1>4, <1>6, <2>2, Changing DEF Storing
    <3>4. e.split = job[c].split
      <4>1. e.split \in Percentages /\ job[c].split \in Percentages
        BY <1>2, <3>2, JobTypes DEF Entry
      <4>2. QED
        BY <1>2, <1>4, <3>2, <3>3, <4>1, SplitOf
    <3>5. (Load(i).enabled)' /\ (Load(i).split)' = job[c].split /\ (Load(i).rate)' = job[c].rate
      BY <1>2, <1>4, <2>2, <3>1, <3>2, <3>4
    <3>6. QED
      BY <1>4, <2>2, <3>5 DEF InStep, Whole
  <2>3. Kept(job[c]) => Load(i).enabled
    BY <1>0 DEF Kept
  <2>4. QED
    BY <1>0, <1>4, <1>6, <2>1, <2>2, <2>3, Changing DEF Storing
<1>7. QED
  BY <1>0, <1>1, <1>3, <1>4, <1>6, LastStatement DEF Storing

\* Every step of an operation preserves the invariant.
LEMMA StepSync == ASSUME IInv, IInv', SyncInv, NEW c \in Client, Step(c) PROVE SyncInv'
BY EnterSync, NextSync, RestoreDoneSync, WebExitSync, LookSync, AcceptSync, NoteSync, FillSync,
   FindSync, AddRootSync, AddClassesSync, AddClassesMixedSync, MarkSync, FlushSync, UnmarkSync,
   SaveRowSync, SaveOffSync, SaveRateSync, SaveHighSync, SaveDfltSync, SaveLowSync
   DEF Step, KernelStep, DbStep
-----------------------------------------------------------------------------
(* The beginning of an operation, and what comes in its way.               *)

\* Local variables that differ in nothing but whether the operation is alone.
SameBut(j, k) ==
    /\ Same(j, k) /\ k.scope = j.scope /\ k.entry = j.entry /\ k.left = j.left
    /\ k.dead = j.dead /\ k.err = j.err

\* Being met changes whether an operation is alone.
LEMMA Met ==
    ASSUME NEW j \in Job, NEW b \in BOOLEAN
    PROVE  SameBut(j, [j EXCEPT !.alone = b]) /\ [j EXCEPT !.alone = b].alone = b
BY DEF Job, SameBut, Same

\* Which operation can be where has nothing to do with whether it is alone.
LEMMA BoundBut ==
    ASSUME NEW c, NEW p, NEW j, NEW k, SameBut(j, k), Bound(c, p, j)
    PROVE  Bound(c, p, k)
BY DEF SameBut, Same, Bound

\* An operation whose interface nothing has happened to, and that is as alone as it
\* was.
LEMMA PhaseBut ==
    ASSUME NEW d \in Client, Phase(d), pc'[d] = pc[d], SameBut(job[d], job'[d]), job'[d].alone,
           NEW k, k = job[d].iface,
           qdisc'[k] = qdisc[k], row'[k] = row[k], k \in ifset' <=> k \in ifset
    PROVE  Phase(d)'
BY DEF Phase, InStep, Load, Kept, Whole, Changes, SameBut, Same, Starves, ClassRate, Valid

\* The interfaces of D are disturbed; qosm answers for none of them, and who has one
\* in his scope is not alone.
Survives(d, D) ==
    /\ pc'[d] = pc[d] /\ SameBut(job[d], job'[d])
    /\ job'[d].alone <=> job[d].alone /\ job[d].scope \cap D = {}
Dies(d) == pc'[d] = "idle" /\ job'[d] = Idle /\ job[d].scope \cap clean' = {}
Serves(d) ==
    /\ d \in DaemonClient /\ pc[d] \in RequestPC
    /\ pc'[d] = pc[d] /\ Same(job[d], job'[d]) /\ job'[d].scope = job[d].scope
    /\ job'[d].left = job[d].left /\ job'[d].alone = job[d].alone
    /\ job'[d].err = job[d].err
    /\ job[d].scope \cap clean' = {}

\* What a disturbance leaves of one operation.
LEMMA DisturbOne ==
    ASSUME IInv, SyncInv, NEW d \in Client, NEW D \in SUBSET Iface,
           \A k \in Iface \ D : /\ qdisc'[k] = qdisc[k] /\ row'[k] = row[k]
                                /\ k \in ifset' <=> k \in ifset,
           clean' \subseteq clean, clean' \cap D = {},
           Survives(d, D) \/ Dies(d) \/ (Serves(d) /\ D = {})
    PROVE  /\ (Bound(d, pc[d], job[d]))' /\ Made(d)' /\ Held(d)'
           /\ job'[d].scope \subseteq job[d].scope
           /\ job'[d].alone => job[d].alone \/ job'[d].scope = {}
           /\ \A k \in job[d].scope \ job'[d].scope : k \notin clean'
<1>1. /\ Bound(d, pc[d], job[d]) /\ Made(d) /\ Held(d)
      /\ job[d].scope \subseteq Iface
  BY Knows, ScopeType
<1>2. CASE Dies(d)
  <2>1. (Bound(d, pc[d], job[d]))'
    BY <1>2, IdleJob DEF Dies, Bound, AtWork, Storing, RequestPC
  <2>2. Made(d)' /\ Held(d)'
    BY <1>2, IdleJob DEF Dies, Made, Held
  <2>3. QED
    BY <1>2, <2>1, <2>2, IdleJob DEF Dies
<1>3. CASE Serves(d) /\ D = {}
  <2>1. (Bound(d, pc[d], job[d]))'
    BY <1>1, <1>3 DEF Serves, Same, Bound
  <2>2. \A k \in Iface : qdisc'[k] = qdisc[k] /\ (k \in ifset' <=> k \in ifset)
    BY <1>3
  <2>3. Made(d)'
    <3>1. pc[d] \in {"mark", "unmark"} => job[d].iface \in Iface
      BY <1>1 DEF Bound, AtWork, RequestPC
    <3>2. QED
      BY <1>1, <1>3, <2>2, <3>1 DEF Serves, Same, Made, Whole, RequestPC
  <2>4. Held(d)'
    BY <1>3 DEF Serves, Same, Held, Restored
  <2>5. QED
    BY <1>3, <2>1, <2>3, <2>4 DEF Serves
<1>4. CASE Survives(d, D)
  <2>1. (Bound(d, pc[d], job[d]))'
    BY <1>1, <1>4, BoundBut DEF Survives
  <2>2. Made(d)'
    <3>1. CASE job'[d].alone /\ pc[d] \in {"mark", "save", "unmark", "off"}
      <4>1. job[d].iface \in Iface \ D
        BY <1>1, <1>4, <3>1 DEF Bound, AtWork, RequestPC, Survives
      <4>2. QED
        BY <1>1, <1>4, <3>1, <4>1 DEF Survives, SameBut, Same, Made, Whole
    <3>2. CASE ~(job'[d].alone /\ pc[d] \in {"mark", "save", "unmark", "off"})
      BY <1>4, <3>2 DEF Made, Survives
    <3>3. QED
      BY <3>1, <3>2
  <2>3. Held(d)'
    <3>1. CASE job[d].op = "restore"
      <4>1. ASSUME NEW k \in job[d].scope, k \in clean'
            PROVE  /\ InStep(k)' /\ (Load(k).enabled)'
                   /\ pc[d] \in {"find", "root", "classes", "mark", "save"} => job[d].iface # k
        <5>1. k \in Iface \ D /\ k \in clean
          BY <1>1, <4>1
        <5>2. QED
          BY <1>1, <3>1, <5>1, Untouched DEF Held, Restored
      <4>2. QED
        BY <1>4, <3>1, <4>1 DEF Held, Restored, Survives, SameBut, Same
    <3>2. CASE job[d].op # "restore"
      <4>1. ASSUME job[d].scope \cap clean' # {} PROVE Phase(d)'
        <5>1. PICK k \in job[d].scope : k \in clean'
          BY <4>1
        <5>2. k = job[d].iface /\ Phase(d) /\ job[d].alone /\ k \in Iface \ D
          BY <3>2, <5>1, Concerned
        <5>3. job[d].scope \cap D = {}
          BY <1>1, <3>2, <5>2 DEF Bound
        <5>4. QED
          BY <1>4, <5>2, <5>3, PhaseBut DEF Survives
      <4>2. QED
        BY <1>4, <3>2, <4>1 DEF Held, Survives, SameBut, Same
    <3>3. QED
      BY <3>1, <3>2
  <2>4. QED
    BY <1>4, <2>1, <2>2, <2>3 DEF Survives, SameBut
<1>5. QED
  BY <1>2, <1>3, <1>4

\* A disturbance, of all the operations it concerns.
LEMMA Disturbed ==
    ASSUME IInv, SyncInv, NEW D \in SUBSET Iface,
           \A k \in Iface \ D : /\ qdisc'[k] = qdisc[k] /\ row'[k] = row[k]
                                /\ k \in ifset' <=> k \in ifset,
           clean' \subseteq clean, clean' \cap D = {},
           \A d \in Client : Survives(d, D) \/ Dies(d) \/ (Serves(d) /\ D = {})
    PROVE  SyncInv'
<1>1. \A d \in Client :
         /\ (Bound(d, pc[d], job[d]))' /\ Made(d)' /\ Held(d)'
         /\ job'[d].scope \subseteq job[d].scope
         /\ job'[d].alone => job[d].alone \/ job'[d].scope = {}
         /\ \A k \in job[d].scope \ job'[d].scope : k \notin clean'
  BY DisturbOne
<1>2. ASSUME NEW d \in Client, NEW e \in Client \ {d} PROVE Apart(d, e)'
  BY <1>1 DEF SyncInv, Apart
<1>3. ASSUME NEW k \in clean', \A d \in Client : k \notin job'[d].scope PROVE InStep(k)'
  <2>1. k \in clean /\ k \in Iface \ D
    BY DEF IInv, Settled
  <2>2. \A d \in Client : k \notin job[d].scope
    BY <1>1, <1>3
  <2>3. InStep(k)
    BY <2>1, <2>2 DEF SyncInv, IfaceInSync
  <2>4. QED
    BY <2>1, <2>3, Untouched
<1>4. IfaceInSync'
  BY <1>3 DEF IfaceInSync
<1>5. QED
  BY <1>1, <1>2, <1>4 DEF SyncInv

\* An operation that is cut short disclaims its interfaces.
LEMMA AbortSync == ASSUME IInv, IInv', SyncInv, NEW c \in Client, Abort(c) PROVE SyncInv'
<1>1. /\ UNCHANGED <<qdisc, ifset, row>> /\ clean' = clean \ job[c].scope
      /\ End(c) \/ (Fail(c) /\ ~job[c].dead)
  BY Knows DEF Abort, Disturb, Bound
<1>2. Reaches(c) /\ InOrder(c)
  BY <1>1 DEF Reaches, InOrder
<1>3. QED
  BY <1>1, <1>2, Ends, Fails

\* So does one whose request fails, the one that overlooks it too.
LEMMA FailedRequest ==
    ASSUME IInv, IInv', SyncInv, NEW c \in Client, pc[c] \in RequestPC, Refused(c, FALSE),
           clean' = clean \ job[c].scope, Reaches(c)
    PROVE  SyncInv'
<1>1. InOrder(c) /\ job[c].scope \cap clean' = {}
  BY DEF InOrder
<1>2. Bound(c, pc[c], job[c])
  BY Knows
<1>3. CASE Save(c) /\ Changes(c) /\ pc[c] \notin Removing
  <2>1. ASSUME pc'[c] \in {"rate", "high"}, job'[c] = job[c] PROVE Made(c)' /\ Held(c)'
    BY <1>1, <1>3, <2>1 DEF Made, Held, Changes
  <2>2. pc[c] \in Creating
    BY <1>3 DEF Creating, Removing, RequestPC
  <2>3. QED
    BY <1>1, <1>3, <2>1, <2>2, Saves DEF Changes
<1>4. CASE Overlook(c) /\ job[c].op = "disable" /\ ~job[c].dead
  <2> DEFINE j == [job[c] EXCEPT !.err = TRUE]
  <2>1. /\ j \in Job /\ Same(job[c], j) /\ j.scope = job[c].scope /\ j.alone = job[c].alone
        /\ j.dead = job[c].dead /\ j.left = job[c].left /\ j.err = TRUE
    BY JobTypes, ErrUpdate DEF Job
  <2>2. Goto(c, "off", j) /\ "off" \in PC
    BY <1>4 DEF Overlook, PC
  <2> HIDE DEF j
  <2>3. pc'[c] = "off" /\ job'[c] = j
    BY <2>1, <2>2, Moves DEF IInv
  <2>4. Bound(c, "off", j)
    BY <1>2, <1>4, <2>1 DEF Bound, Same, AtWork, RequestPC, Storing
  <2>5. Made(c)' /\ Held(c)'
    BY <1>1, <1>4, <2>1, <2>3 DEF Made, Held, Same
  <2>6. QED
    BY <2>1, <2>2, <2>4, <2>5, GoesOn
<1>5. CASE End(c)
  BY <1>1, <1>5, Ends
<1>6. CASE Fail(c) /\ ~job[c].dead
  BY <1>1, <1>6, Fails
<1>7. QED
  BY <1>3, <1>4, <1>5, <1>6 DEF Refused

\* A request fails.
LEMMA RequestFailsSync == ASSUME IInv, IInv', SyncInv, NEW c \in Client, RequestFails(c) PROVE SyncInv'
<1>1. /\ UNCHANGED <<qdisc, ifset, row>> /\ clean' = clean \ job[c].scope
      /\ pc[c] \in RequestPC /\ Refused(c, FALSE)
  BY DEF RequestFails, Disturb
<1>2. QED
  BY <1>1, FailedRequest DEF Reaches

\* The daemon's answer is lost.
LEMMA AnswerLostSync == ASSUME IInv, IInv', SyncInv, NEW c \in Client, AnswerLost(c) PROVE SyncInv'
<1>1. /\ UNCHANGED <<qdisc, row>> /\ clean' = clean \ job[c].scope
      /\ pc[c] \in RequestPC /\ Refused(c, FALSE)
      /\ ifset' \in {ifset \cup {job[c].iface}, ifset \ {job[c].iface}}
  BY DEF AnswerLost, Disturb, AtKernel, RequestPC
<1>2. job[c].iface \in job[c].scope
  BY <1>1, Knows DEF Bound, AtWork
<1>3. Reaches(c)
  BY <1>1, <1>2 DEF Reaches, Elsewhere
<1>4. QED
  BY <1>1, <1>3, FailedRequest

\* Nothing happens to an operation.
LEMMA Unmoved ==
    ASSUME NEW d \in Client, pc'[d] = pc[d], job'[d] = job[d]
    PROVE  Survives(d, {})
BY DEF Survives, SameBut, Same

\* The daemon serves the request of a client that is dead.
LEMMA DeadServes ==
    ASSUME IInv, NEW d \in Client, d \in DaemonClient, pc[d] \in RequestPC, pc'[d] = pc[d],
           job'[d] = [job[d] EXCEPT !.dead = TRUE], job[d].scope \cap clean' = {}
    PROVE  Serves(d)
<1>1. job[d] \in Job
  BY JobTypes
<1>2. /\ Same(job[d], job'[d]) /\ job'[d].scope = job[d].scope /\ job'[d].left = job[d].left
      /\ job'[d].alone = job[d].alone /\ job'[d].err = job[d].err
  BY <1>1 DEF Job, Same
<1>3. QED
  BY <1>2 DEF Serves

\* A client is killed whose request the daemon has.
LEMMA OrphanSync == ASSUME IInv, SyncInv, NEW c \in Client, Orphan(c) PROVE SyncInv'
<1>1. /\ UNCHANGED <<qdisc, ifset, row, pc>> /\ clean' = clean \ job[c].scope
      /\ c \in DaemonClient /\ pc[c] \in RequestPC
      /\ job' = [job EXCEPT ![c].dead = TRUE]
  BY DEF Orphan, Disturb
<1>2. ASSUME NEW d \in Client PROVE Survives(d, {}) \/ Serves(d)
  <2>1. job \in [Client -> Job]
    BY DEF IInv, Placed
  <2>2. CASE d = c
    <3>1. job'[c] = [job[c] EXCEPT !.dead = TRUE]
      BY <1>1, <2>1
    <3>2. QED
      BY <1>1, <2>2, <3>1, DeadServes
  <2>3. CASE d # c
    BY <1>1, <2>1, <2>3, Unmoved
  <2>4. QED
    BY <2>2, <2>3
<1> DEFINE D == {}
<1>3. /\ D \in SUBSET Iface /\ clean' \cap D = {} /\ clean' \subseteq clean
      /\ \A k \in Iface \ D : /\ qdisc'[k] = qdisc[k] /\ row'[k] = row[k]
                              /\ k \in ifset' <=> k \in ifset
  BY <1>1
<1>4. QED
  BY <1>2, <1>3, Disturbed

\* The web server stops, and the daemon serves what it has of its goroutines.
LEMMA WebStopSync == ASSUME IInv, SyncInv, WebStop PROVE SyncInv'
<1>1. /\ UNCHANGED <<qdisc, ifset, row>>
      /\ clean' = clean \ UNION {job[c].scope : c \in WebClient}
      /\ WebClient \subseteq Client
  BY Constants DEF WebStop, Disturb
<1>2. ASSUME NEW d \in Client PROVE Survives(d, {}) \/ Dies(d) \/ Serves(d)
  <2>1. CASE ~IsWeb(d)
    <3>1. pc'[d] = pc[d] /\ job'[d] = job[d]
      BY <2>1 DEF WebStop
    <3>2. QED
      BY <3>1, Unmoved
  <2>2. CASE IsWeb(d) /\ d \in DaemonClient /\ pc[d] \in RequestPC
    <3>1. pc'[d] = pc[d] /\ job'[d] = [job[d] EXCEPT !.dead = TRUE]
      BY <2>2 DEF WebStop
    <3>2. job[d].scope \cap clean' = {}
      BY <1>1, <2>2 DEF IsWeb
    <3>3. QED
      BY <2>2, <3>1, <3>2, DeadServes
  <2>3. CASE IsWeb(d) /\ ~(d \in DaemonClient /\ pc[d] \in RequestPC)
    <3>1. pc'[d] = "idle" /\ job'[d] = Idle
      BY <2>3 DEF WebStop
    <3>2. job[d].scope \cap clean' = {}
      BY <1>1, <2>3 DEF IsWeb
    <3>3. QED
      BY <3>1, <3>2 DEF Dies
  <2>4. QED
    BY <2>1, <2>2, <2>3
<1> DEFINE D == {}
<1>3. /\ D \in SUBSET Iface /\ clean' \cap D = {} /\ clean' \subseteq clean
      /\ \A k \in Iface \ D : /\ qdisc'[k] = qdisc[k] /\ row'[k] = row[k]
                              /\ k \in ifset' <=> k \in ifset
  BY <1>1
<1>4. QED
  BY <1>2, <1>3, Disturbed

\* Whoever has an interface in his scope that is altered is not alone any more.
LEMMA AlterSync == ASSUME IInv, SyncInv, NEW i \in Iface, Alter(i) PROVE SyncInv'
<1>1. /\ UNCHANGED <<row, pc>> /\ clean' = clean \ {i}
      /\ qdisc' = [qdisc EXCEPT ![i] = NoQdisc] \/ qdisc' = qdisc
      /\ ifset' = ifset \ {i} \/ ifset' = ifset
      /\ qdisc \in [Iface -> Qdisc]
  BY DEF Alter, Disturb, IInv, Settled
<1>2. ASSUME NEW d \in Client PROVE Survives(d, {i})
  <2> DEFINE b == job[d].alone /\ i \notin job[d].scope
  <2>1. job'[d] = [job[d] EXCEPT !.alone = b] /\ b \in BOOLEAN /\ job[d] \in Job
    BY JobTypes, ScopeType DEF Alter
  <2>2. b <=> job[d].alone /\ job[d].scope \cap {i} = {}
    OBVIOUS
  <2> HIDE DEF b
  <2>3. SameBut(job[d], job'[d]) /\ job'[d].alone = b
    BY <2>1, Met
  <2>4. QED
    BY <1>1, <2>2, <2>3 DEF Survives
<1>3. \A k \in Iface \ {i} : /\ qdisc'[k] = qdisc[k] /\ row'[k] = row[k]
                             /\ k \in ifset' <=> k \in ifset
  BY <1>1
<1>4. QED
  BY <1>1, <1>2, <1>3, Disturbed

\* After a reboot, what is not enabled is in step.
LEMMA RebootSync == ASSUME Reboot PROVE SyncInv'
<1>1. ASSUME NEW d \in Client PROVE pc'[d] = "idle" /\ job'[d] = Idle
  BY DEF Reboot
<1>2. ASSUME NEW d \in Client PROVE (Bound(d, pc[d], job[d]))' /\ Made(d)' /\ Held(d)'
  BY <1>1, IdleJob DEF Bound, Made, Held, AtWork, Storing, RequestPC
<1>3. ASSUME NEW d \in Client, NEW e \in Client \ {d} PROVE Apart(d, e)'
  BY <1>1, IdleJob DEF Apart
<1>4. ASSUME NEW k \in clean' PROVE InStep(k)'
  BY DEF Reboot, InStep, Load, NoQdisc
<1>5. QED
  BY <1>2, <1>3, <1>4 DEF SyncInv, IfaceInSync
-----------------------------------------------------------------------------
(* An operation begins.                                                    *)

\* What a beginning makes of everybody's local variables.
LEMMA AskMoves ==
    ASSUME IInv, SyncInv, NEW c \in Client, NEW p \in PC, NEW j \in Job, Ask(c, p, j)
    PROVE  /\ pc'[c] = p /\ SameBut(j, job'[c]) /\ job[c].scope = {}
           /\ job'[c].alone <=> \A d \in Client \ {c} : job[d].scope \cap j.scope = {}
           /\ \A d \in Client \ {c} :
                 /\ pc'[d] = pc[d] /\ SameBut(job[d], job'[d])
                 /\ job'[d].alone <=> job[d].alone /\ job[d].scope \cap j.scope = {}
<1> DEFINE Meets(d) == d # c /\ job[d].scope \cap j.scope # {}
<1>1. /\ pc[c] = "idle" /\ pc' = [pc EXCEPT ![c] = p]
      /\ job' = [d \in Client |->
            IF d = c THEN [j EXCEPT !.alone = ~ \E e \in Client : Meets(e)]
            ELSE [job[d] EXCEPT !.alone = @ /\ ~Meets(d)]]
  BY DEF Ask
<1>2. pc \in [Client -> PC] /\ Bound(c, pc[c], job[c])
  BY Knows DEF IInv, Placed
<1>3. pc'[c] = p /\ job[c].scope = {} /\ \A d \in Client \ {c} : pc'[d] = pc[d]
  BY <1>1, <1>2 DEF Bound
<1>4. SameBut(j, job'[c]) /\ (job'[c].alone <=> ~ \E e \in Client : Meets(e))
  <2> DEFINE b == ~ \E e \in Client : Meets(e)
  <2>1. job'[c] = [j EXCEPT !.alone = b] /\ b \in BOOLEAN
    BY <1>1
  <2> HIDE DEF b
  <2>2. SameBut(j, job'[c]) /\ job'[c].alone = b
    BY <2>1, Met
  <2>3. QED
    BY <2>2 DEF b
<1>5. ASSUME NEW d \in Client \ {c}
      PROVE  SameBut(job[d], job'[d]) /\ (job'[d].alone <=> job[d].alone /\ ~Meets(d))
  <2> DEFINE b == job[d].alone /\ ~Meets(d)
  <2>1. job'[d] = [job[d] EXCEPT !.alone = b] /\ b \in BOOLEAN /\ job[d] \in Job
    BY <1>1, ScopeType, JobTypes
  <2> HIDE DEF b
  <2>2. SameBut(job[d], job'[d]) /\ job'[d].alone = b
    BY <2>1, Met
  <2>3. QED
    BY <2>2 DEF b
<1>6. QED
  BY <1>3, <1>4, <1>5

\* An operation begins: who asks finds in step what qosm answers for, and what he
\* shares with somebody qosm does not answer for any more.
LEMMA AskSync ==
    ASSUME IInv, SyncInv, NEW c \in Client, NEW p \in PC, NEW j \in Job, Ask(c, p, j),
           p = "enter" \/ p = "next" \/ p = "note" \/ p = "fill", Bound(c, p, j), ~j.dead, ~j.err,
           j.op = "restore" => \A k \in j.scope : Load(k).enabled,
           p = "enter" /\ j.op \in {"enable", "split"} => Valid(j.split)
    PROVE  SyncInv'
<1>1. /\ pc'[c] = p /\ SameBut(j, job'[c]) /\ job[c].scope = {}
      /\ job'[c].alone <=> \A d \in Client \ {c} : job[d].scope \cap j.scope = {}
      /\ \A d \in Client \ {c} :
            /\ pc'[d] = pc[d] /\ SameBut(job[d], job'[d])
            /\ job'[d].alone <=> job[d].alone /\ job[d].scope \cap j.scope = {}
  BY AskMoves
<1>2. /\ UNCHANGED <<qdisc, ifset, row>> /\ clean' \subseteq clean
      /\ \A d \in Client \ {c} : job[d].scope \cap j.scope \cap clean' = {}
  BY DEF Ask
<1>3. j.scope \subseteq Iface
  BY Fields
<1>4. ASSUME NEW k \in j.scope, k \in clean' PROVE InStep(k)'
  <2>1. k \in Iface /\ k \in clean /\ \A d \in Client : k \notin job[d].scope
    BY <1>1, <1>2, <1>3, <1>4
  <2>2. InStep(k)
    BY <2>1 DEF SyncInv, IfaceInSync
  <2>3. QED
    BY <1>2, <2>2, Untouched
<1>5. (Bound(c, pc[c], job[c]))' /\ Made(c)' /\ Held(c)'
  <2>1. (Bound(c, pc[c], job[c]))'
    BY <1>1, BoundBut
  <2>2. Made(c)'
    BY <1>1 DEF Made
  <2>3. CASE j.op = "restore"
    <3>1. ASSUME NEW k \in j.scope, k \in clean' PROVE InStep(k)' /\ (Load(k).enabled)'
      BY <1>2, <1>4, <2>3, <3>1 DEF Load
    <3>2. QED
      BY <1>1, <2>1, <2>2, <2>3, <3>1 DEF Held, Restored, SameBut, Same
  <2>4. CASE j.op # "restore"
    <3>1. ASSUME j.scope \cap clean' # {} PROVE Phase(c)'
      <4>1. PICK k \in j.scope : k \in clean'
        BY <3>1
      <4>2. k = j.iface /\ j.scope = {k}
        BY <2>4, <4>1 DEF Bound
      <4>3. job'[c].alone /\ ~job'[c].dead /\ ~job'[c].err
        BY <1>1, <1>2, <4>1, <4>2 DEF SameBut
      <4>4. InStep(k)' /\ k = job'[c].iface
        BY <1>1, <1>4, <4>1, <4>2 DEF SameBut, Same
      <4>5. InStep(job[c].iface)'
        BY <4>4 DEF InStep, Load
      <4>6. p = "enter" /\ j.op \in {"enable", "split"} => Valid(job'[c].split)
        BY <1>1 DEF SameBut, Same
      <4>7. QED
        BY <1>1, <4>3, <4>5, <4>6 DEF Phase, SameBut, Same, RequestPC, Storing, Valid
    <3>2. QED
      BY <1>1, <2>1, <2>2, <2>4, <3>1 DEF Held, SameBut, Same
  <2>5. QED
    BY <2>3, <2>4
<1>6. ASSUME NEW d \in Client \ {c} PROVE (Bound(d, pc[d], job[d]))' /\ Made(d)' /\ Held(d)'
  <2>0. pc'[d] = pc[d] /\ SameBut(job[d], job'[d])
    BY <1>1
  <2>1. Bound(d, pc[d], job[d]) /\ Made(d) /\ Held(d)
    BY Knows
  <2>2. (Bound(d, pc[d], job[d]))'
    BY <1>1, <2>1, BoundBut
  <2>3. Made(d)'
    BY <1>1, <1>2, <2>1 DEF Made, Whole, SameBut, Same
  <2>4. CASE job[d].op = "restore"
    <3>1. ASSUME NEW k \in job[d].scope, k \in clean'
          PROVE  /\ InStep(k)' /\ (Load(k).enabled)'
                 /\ pc[d] \in {"find", "root", "classes", "mark", "save"} => job[d].iface # k
      BY <1>2, <2>1, <2>4, <3>1, Untouched DEF Held, Restored
    <3>2. QED
      BY <2>0, <2>2, <2>3, <2>4, <3>1 DEF Held, Restored, SameBut, Same
  <2>5. CASE job[d].op # "restore"
    <3>1. ASSUME job[d].scope \cap clean' # {} PROVE Phase(d)'
      <4>1. PICK k \in job[d].scope : k \in clean'
        BY <3>1
      <4>2. k = job[d].iface /\ Phase(d) /\ job[d].alone /\ job[d].scope = {k}
        BY <1>2, <2>1, <2>5, <4>1, Concerned DEF Bound
      <4>3. job'[d].alone
        BY <1>1, <1>2, <4>1, <4>2
      <4>4. QED
        BY <1>1, <1>2, <4>2, <4>3, PhaseBut
    <3>2. QED
      BY <2>0, <2>2, <2>3, <2>5, <3>1 DEF Held, SameBut, Same
  <2>6. QED
    BY <2>2, <2>3, <2>4, <2>5
<1>7. ASSUME NEW d \in Client, NEW e \in Client \ {d} PROVE Apart(d, e)'
  <2>1. CASE d # c /\ e # c
    <3>1. Apart(d, e)
      BY DEF SyncInv
    <3>2. QED
      BY <1>1, <1>2, <2>1, <3>1 DEF Apart, SameBut
  <2>2. CASE d = c \/ e = c
    BY <1>1, <1>2, <2>2 DEF Apart, SameBut
  <2>3. QED
    BY <2>1, <2>2
<1>8. ASSUME NEW k \in clean', \A d \in Client : k \notin job'[d].scope PROVE InStep(k)'
  <2>1. k \in clean /\ k \in Iface
    BY <1>2 DEF IInv, Settled
  <2>2. \A d \in Client : k \notin job[d].scope
    BY <1>1, <1>8 DEF SameBut
  <2>3. InStep(k)
    BY <2>1, <2>2 DEF SyncInv, IfaceInSync
  <2>4. QED
    BY <1>2, <2>3, Untouched
<1>9. QED
  BY <1>5, <1>6, <1>7, <1>8 DEF SyncInv, IfaceInSync

\* What a request of the user says of itself.
LEMMA RequestBound ==
    ASSUME Settled, NEW c \in Client, NEW i \in Iface, NEW r \in Nat, NEW s \in Percentages,
           NEW op, op = "enable" \/ op = "disable" \/ op = "rate" \/ op = "split",
           NEW j, j = Request(op, i, r, s)
    PROVE  j \in Job /\ Bound(c, "enter", j) /\ ~j.dead /\ ~j.err /\ j.op = op /\ j.split = s
<1>1. j \in Job
  BY RequestType DEF Op
<1>2. j.op = op /\ j.iface = i /\ j.scope = {i} /\ j.split = s /\ j.dead = FALSE /\ j.err = FALSE
  BY DEF Request, Idle
<1>3. Bound(c, "enter", j)
  BY <1>2 DEF Bound, AtWork, Storing, RequestPC
<1>4. QED
  BY <1>1, <1>2, <1>3

\* What the user asks for.
LEMMA RequestSync ==
    ASSUME IInv, SyncInv, NEW c \in Client, NEW i \in Iface, NEW r \in Nat, NEW s \in Percentages,
           NEW op, op = "enable" \/ op = "disable" \/ op = "rate" \/ op = "split",
           Ask(c, "enter", Request(op, i, r, s)),
           op = "enable" \/ op = "split" => Valid(s)
    PROVE  SyncInv'
<1>1. PICK j : j = Request(op, i, r, s)
  OBVIOUS
<1>2. j \in Job /\ Bound(c, "enter", j) /\ ~j.dead /\ ~j.err /\ j.op = op /\ j.split = s
  BY <1>1, RequestBound DEF IInv
<1>3. "enter" \in PC
  BY DEF PC
<1>4. QED
  BY <1>1, <1>2, <1>3, AskSync

\* A restore is about the interfaces that are enabled.
LEMMA RestoringSync ==
    ASSUME IInv, SyncInv, NEW c \in Client, Ask(c, "next", Restoring)
    PROVE  SyncInv'
<1>1. PICK j : j = Restoring
  OBVIOUS
<1>2. j \in Job
  BY <1>1, RestoringType DEF IInv
<1>3. /\ j.op = "restore" /\ j.dead = FALSE /\ j.err = FALSE
      /\ \A k \in j.scope : Load(k).enabled
      /\ \A x \in j.left : x.iface \in j.scope
  BY <1>1 DEF Restoring, Idle
<1>4. Bound(c, "next", j)
  BY <1>3 DEF Bound, AtWork, Storing, RequestPC
<1>5. "next" \in PC
  BY DEF PC
<1>6. QED
  BY <1>1, <1>2, <1>3, <1>4, <1>5, AskSync

\* Every beginning of an operation preserves the invariant.
LEMMA AsksSync == ASSUME IInv, SyncInv, NEW c \in Client, Asks(c) PROVE SyncInv'
<1>0. /\ Rate \subseteq Nat /\ Split \subseteq Percentages /\ 0 \in Nat
      /\ Default.split \in Percentages
  BY IfaceAssumption, Constants
<1>1. ASSUME NEW i \in Iface, NEW r \in Rate, NEW s \in Split, AskEnable(c, i, r, s)
      PROVE  SyncInv'
  BY <1>0, <1>1, RequestSync DEF AskEnable
<1>2. ASSUME NEW i \in Iface, NEW r \in Rate, AskRate(c, i, r) PROVE SyncInv'
  BY <1>0, <1>2, RequestSync DEF AskRate
<1>3. ASSUME NEW i \in Iface, NEW s \in Split, AskSplit(c, i, s) PROVE SyncInv'
  BY <1>0, <1>3, RequestSync DEF AskSplit
<1>4. ASSUME NEW i \in Iface, AskDisable(c, i) PROVE SyncInv'
  BY <1>0, <1>4, RequestSync DEF AskDisable
<1>5. ASSUME NEW i \in Iface, AskStats(c, i) PROVE SyncInv'
  <2>1. web[i] \in Entry
    BY <1>5 DEF AskStats, IInv, Settled
  <2>2. PICK j : j = [Idle EXCEPT !.op = "stats", !.iface = i, !.entry = web[i]]
    OBVIOUS
  <2>3. j \in Job /\ j.op = "stats" /\ j.scope = {} /\ j.dead = FALSE /\ j.err = FALSE
    BY <2>1, <2>2, Constants DEF Idle, Job, Op
  <2>4. Bound(c, "note", j) /\ "note" \in PC
    BY <2>3 DEF Bound, AtWork, Storing, RequestPC, PC
  <2>5. Ask(c, "note", j)
    BY <1>5, <2>2 DEF AskStats
  <2>6. QED
    BY <2>3, <2>4, <2>5, AskSync
<1>6. ASSUME AskReload(c) PROVE SyncInv'
  <2> DEFINE L == {[iface |-> i, entry |-> Default] : i \in Iface}
  <2>1. L \in SUBSET [iface : Iface, entry : Entry]
    BY Constants
  <2>2. PICK j : j = [Idle EXCEPT !.op = "reload", !.left = L]
    OBVIOUS
  <2>5. Ask(c, "fill", j)
    BY <1>6, <2>2 DEF AskReload
  <2> HIDE DEF L
  <2>3. j \in Job /\ j.op = "reload" /\ j.scope = {} /\ j.dead = FALSE /\ j.err = FALSE
    BY <2>1, <2>2, Constants DEF Idle, Job, Op
  <2>4. Bound(c, "fill", j) /\ "fill" \in PC
    BY <2>3 DEF Bound, AtWork, Storing, RequestPC, PC
  <2>6. QED
    BY <2>3, <2>4, <2>5, AskSync
<1>7. QED
  BY <1>1, <1>2, <1>3, <1>4, <1>5, <1>6, RestoringSync DEF Asks, AskRestore, WebStart
-----------------------------------------------------------------------------
\* The second inductive invariant, on the first: an interface for which qosm answers is
\* in step, or one operation alone is at work on it and has made of it what its place
\* says.
THEOREM SyncInductive == Spec => []SyncInv
<1>1. Init => SyncInv
  <2> SUFFICES ASSUME Init PROVE SyncInv
    OBVIOUS
  <2>1. ASSUME NEW d \in Client PROVE pc[d] = "idle" /\ job[d] = Idle
    BY DEF Init
  <2>2. ASSUME NEW d \in Client PROVE Bound(d, pc[d], job[d]) /\ Made(d) /\ Held(d)
    BY <2>1, IdleJob DEF Bound, Made, Held, AtWork, Storing, RequestPC
  <2>3. ASSUME NEW d \in Client, NEW e \in Client \ {d} PROVE Apart(d, e)
    BY <2>1, IdleJob DEF Apart
  <2>4. ASSUME NEW k \in clean PROVE InStep(k)
    BY DEF Init, InStep, Load, NoQdisc, Default
  <2>5. QED
    BY <2>2, <2>3, <2>4 DEF SyncInv, IfaceInSync
<1>2. IInv /\ IInv' /\ SyncInv /\ [Next]_vars => SyncInv'
  <2> SUFFICES ASSUME IInv, IInv', SyncInv, [Next]_vars PROVE SyncInv'
    OBVIOUS
  <2>1. ASSUME NEW c \in Client, Fault(c) PROVE SyncInv'
    BY <2>1, AbortSync, RequestFailsSync, AnswerLostSync, OrphanSync DEF Fault
  <2>2. CASE UNCHANGED vars
    <3>1. UNCHANGED <<qdisc, ifset, row, pc, job, clean>>
      BY <2>2 DEF vars
    <3>2. QED
      BY <3>1 DEF SyncInv, Bound, Made, Held, Restored, Phase, Kept, Whole, Apart, IfaceInSync,
                  InStep, Load, Changes
  <2>3. QED
    BY <2>1, <2>2, AsksSync, StepSync, WebStopSync, AlterSync, RebootSync DEF Next
<1>3. QED
  BY <1>1, <1>2, Inductive, PTL DEF Spec

\* Kernel and database agree on every interface for which qosm answers and with which
\* no operation is concerned: for any interfaces, clients, rates, percentages and
\* failures (EnableTcOnInterface to RestoreInterfaceStates).
THEOREM IfaceSyncCorrect == Spec => []IfaceInSync
<1>1. SyncInv => IfaceInSync
  BY DEF SyncInv
<1>2. QED
  BY <1>1, SyncInductive, PTL
-----------------------------------------------------------------------------
(* A qdisc's life.                                                         *)

LifeStep == Life!Next \/ UNCHANGED Life!vars

\* A step of c alone, which goes on with its work or is done with it.
LifeOwn(c) ==
    /\ \A d \in Client \ {c} : pc'[d] = pc[d] /\ job'[d] = job[d]
    /\ \/ job'[c].scope = job[c].scope /\ job'[c].alone = job[c].alone
       \/ job'[c].scope = {}

\* What is asked for is a demand.
LEMMA LifeAim ==
    ASSUME IInv, NEW c \in Client
    PROVE  /\ Aim(c) \in Demand \cup {None}
           /\ pc[c] \in {"find", "root", "classes"} =>
                 Aim(c) = [rate |-> job[c].rate, split |-> job[c].split] /\ Aim(c) # None
<1>1. [rate |-> job[c].rate, split |-> job[c].split] \in Demand /\ None \notin Demand
  BY JobTypes, IfaceAssumption DEF Demand
<1>2. QED
  BY <1>1 DEF Aim

\* Who is at work on nothing is at no demand.
LEMMA LifeNoAim ==
    ASSUME SyncInv, NEW c \in Client, job[c].scope = {}
    PROVE  Aim(c) = None
BY Knows DEF Bound, AtWork, RequestPC, Aim

\* So it is after the step.
LEMMA LifeAimAfter ==
    ASSUME IInv', SyncInv', NEW c \in Client
    PROVE  /\ Aim(c)' \in Demand \cup {None}
           /\ job'[c].scope = {} => Aim(c)' = None
<1>1. /\ job'[c].rate \in Nat /\ job'[c].split \in Percentages
  BY DEF IInv, Placed, Job
<1>2. Aim(c)' \in Demand \cup {None}
  BY <1>1 DEF Demand, Aim
<1>3. Bound(c, pc[c], job[c])'
  BY DEF SyncInv
<1>4. job'[c].scope = {} => Aim(c)' = None
  BY <1>3 DEF Bound, AtWork, RequestPC, Aim
<1>5. QED
  BY <1>2, <1>4

\* The functions of the mapping, pointwise.
LEMMA LifePoints ==
    /\ \A i \in Iface : Qdiscs[i] = Seen(i) /\ Qdiscs'[i] = Seen(i)'
    /\ \A c \in Client : /\ Scopes[c] = job[c].scope /\ Scopes'[c] = job'[c].scope
                         /\ Aims[c] = Aim(c) /\ Aims'[c] = Aim(c)'
                         /\ Alones[c] <=> job[c].alone \/ job[c].scope = {}
                         /\ Alones'[c] <=> job'[c].alone \/ job'[c].scope = {}
BY DEF Qdiscs, Scopes, Aims, Alones

\* A client that nothing happens to looks the same.
LEMMA LifeSame ==
    ASSUME NEW d \in Client, pc'[d] = pc[d], job'[d] = job[d]
    PROVE  /\ Scopes'[d] = Scopes[d] /\ Aims'[d] = Aims[d]
           /\ (job'[d].alone \/ job'[d].scope = {}) = (job[d].alone \/ job[d].scope = {})
BY LifePoints DEF Aim

\* An operation goes on, or it is over.
LEMMA LifeGoes ==
    ASSUME IInv, IInv', SyncInv, SyncInv', NEW c \in Client, LifeOwn(c), job[c].scope # {}
    PROVE  Life!Goes(c)
<1>1. Scopes[c] # {}
  BY LifePoints
<1>2. \A d \in Client \ {c} : Aims'[d] = Aims[d]
  BY LifeSame DEF LifeOwn
<1>3. CASE job'[c].scope = job[c].scope /\ job'[c].alone = job[c].alone
  <2>1. Scopes' = Scopes
    BY <1>3 DEF Scopes, LifeOwn
  <2>2. Alones' = Alones
    <3>1. \A d \in Client : job'[d].scope = job[d].scope /\ job'[d].alone = job[d].alone
      BY <1>3 DEF LifeOwn
    <3>2. QED
      BY <3>1 DEF Alones
  <2>3. Aims' \in [Client -> Demand \cup {None}]
    <3>1. \A d \in Client : Aim(d)' \in Demand \cup {None}
      BY LifeAimAfter
    <3>2. QED
      BY <3>1 DEF Aims
  <2>4. QED
    BY <1>1, <1>2, <2>1, <2>2, <2>3 DEF Life!Goes, Life!Turns
<1>4. CASE job'[c].scope = {}
  <2>1. \A d \in Client : job'[d].scope = IF d \in {c} THEN {} ELSE job[d].scope
    BY <1>4 DEF LifeOwn
  <2>2. Scopes' = [d \in Client |-> IF d \in {c} THEN {} ELSE Scopes[d]]
    BY <2>1 DEF Scopes
  <2>3. Aim(c)' = None
    BY <1>4, LifeAimAfter
  <2>4. Aims' = [d \in Client |-> IF d \in {c} THEN None ELSE Aims[d]]
    <3>1. \A d \in Client : Aims'[d] = IF d \in {c} THEN None ELSE Aims[d]
      BY <1>2, <2>3, LifePoints
    <3>2. Aims' = [d \in Client |-> Aims'[d]]
      BY DEF Aims
    <3>3. QED
      BY <3>1, <3>2
  <2>5. Alones' = [d \in Client |-> d \in {c} \/ Alones[d]]
    <3>1. ASSUME NEW d \in Client
          PROVE  (job'[d].alone \/ job'[d].scope = {}) = (d \in {c} \/ Alones[d])
      <4>1. CASE d = c
        BY <1>4, <4>1
      <4>2. CASE d # c
        BY <4>2, LifeSame DEF LifeOwn, Alones
      <4>3. QED
        BY <4>1, <4>2
    <3>2. QED
      BY <3>1 DEF Alones
  <2>6. QED
    BY <1>1, <2>2, <2>4, <2>5 DEF Life!Goes, Life!Leave
<1>5. QED
  BY <1>3, <1>4 DEF LifeOwn

\* A step that leaves the qdiscs as they look.
LEMMA LifeQuiet ==
    ASSUME IInv, IInv', SyncInv, SyncInv', NEW c \in Client, LifeOwn(c), Qdiscs' = Qdiscs
    PROVE  LifeStep
<1>1. CASE job[c].scope # {}
  <2>1. Life!Go(c)
    BY <1>1, LifeGoes DEF Life!Go
  <2>2. QED
    BY <2>1 DEF LifeStep, Life!Next
<1>2. CASE job[c].scope = {}
  <2>1. job'[c].scope = {}
    BY <1>2 DEF LifeOwn
  <2>2. Aim(c) = None
    BY <1>2, LifeNoAim
  <2>3. Aim(c)' = None
    BY <2>1, LifeAimAfter
  <2>4. Scopes' = Scopes
    BY <1>2, <2>1 DEF Scopes, LifeOwn
  <2>5. Aims' = Aims
    BY <2>2, <2>3 DEF Aims, LifeOwn, Aim
  <2>6. Alones' = Alones
    <3>1. ASSUME NEW d \in Client
          PROVE  (job'[d].alone \/ job'[d].scope = {}) = (job[d].alone \/ job[d].scope = {})
      BY <1>2, <2>1, LifeSame DEF LifeOwn
    <3>2. QED
      BY <3>1 DEF Alones
  <2>7. QED
    BY <2>4, <2>5, <2>6 DEF LifeStep, Life!vars
<1>3. QED
  BY <1>1, <1>2

\* Where the kernel's qdiscs do not change, nobody sees another.
LEMMA LifeQdiscs == ASSUME UNCHANGED qdisc PROVE Qdiscs' = Qdiscs
BY DEF Qdiscs, Seen

\* A client that goes somewhere with its scope, or without any.
LEMMA LifeGoto ==
    ASSUME IInv, NEW c \in Client, NEW p, NEW j, Goto(c, p, j),
           (j.scope = job[c].scope /\ j.alone = job[c].alone) \/ j.scope = {}
    PROVE  LifeOwn(c)
<1>1. pc' = [pc EXCEPT ![c] = p] /\ job' = [job EXCEPT ![c] = j]
  BY DEF Goto
<1>2. pc \in [Client -> PC] /\ job \in [Client -> Job]
  BY DEF IInv, Placed
<1>3. job'[c] = j /\ \A d \in Client \ {c} : pc'[d] = pc[d] /\ job'[d] = job[d]
  BY <1>1, <1>2
<1>4. QED
  BY <1>3 DEF LifeOwn

\* An operation that goes on with the variables it has, or ends.
LEMMA LifeLeads == ASSUME IInv, NEW c \in Client, NEW P, Leads(c, P) PROVE LifeOwn(c)
<1>1. CASE End(c)
  BY <1>1, IdleJob, LifeGoto DEF End
<1>2. CASE Exit(c)
  <2>1. [Idle EXCEPT !.op = "restore"].scope = {}
    BY DEF Idle
  <2>2. QED
    BY <1>2, <2>1, LifeGoto DEF Exit
<1>3. ASSUME NEW p \in P, Goto(c, p, job[c]) PROVE LifeOwn(c)
  BY <1>3, LifeGoto
<1>4. CASE Overlook(c)
  <2>1. /\ [job[c] EXCEPT !.err = TRUE].scope = job[c].scope
        /\ [job[c] EXCEPT !.err = TRUE].alone = job[c].alone
    BY JobTypes DEF Job
  <2>2. QED
    BY <1>4, <2>1, LifeGoto DEF Overlook
<1>5. QED
  BY <1>1, <1>2, <1>3, <1>4 DEF Leads

\* How an operation leaves a request or a statement.
LEMMA LifeLeaves ==
    ASSUME IInv, NEW c \in Client
    PROVE  /\ Fail(c) => LifeOwn(c)
           /\ Save(c) => LifeOwn(c)
           /\ End(c) => LifeOwn(c)
           /\ \A b : Refused(c, b) => LifeOwn(c)
           /\ \A p : Goto(c, p, job[c]) => LifeOwn(c)
<1>1. Fail(c) => LifeOwn(c)
  BY FailLeads, LifeLeads
<1>2. Save(c) => LifeOwn(c)
  BY SaveLeads, LifeLeads
<1>3. End(c) => LifeOwn(c)
  BY LifeLeads DEF Leads
<1>4. \A b : Refused(c, b) => LifeOwn(c)
  BY RefusedLeads, LifeLeads
<1>5. \A p : Goto(c, p, job[c]) => LifeOwn(c)
  BY LifeGoto
<1>6. QED
  BY <1>1, <1>2, <1>3, <1>4, <1>5

\* An operation returns with another copy of the entry.
LEMMA LifeReturns ==
    ASSUME IInv, NEW c \in Client, NEW j, Return(c, j),
           j.scope = job[c].scope /\ j.alone = job[c].alone
    PROVE  LifeOwn(c)
BY LifeGoto, LifeLeaves DEF Return

\* The steps of an operation in memory and on the database.
LEMMA LifeMemory ==
    ASSUME IInv, NEW c \in Client,
           \/ Enter(c) \/ NextIface(c) \/ RestoreDone(c) \/ WebExit(c) \/ Look(c)
           \/ DbStep(c) \/ Note(c) \/ Fill(c)
    PROVE  LifeOwn(c) /\ UNCHANGED qdisc
<1>0. job[c] \in Job
  BY JobTypes
<1>1. CASE Enter(c)
  <2> DEFINE e == IF IsWeb(c) THEN web[job[c].iface] ELSE job[c].entry
             r == IF job[c].op = "split" THEN e.rate ELSE job[c].rate
             s == IF job[c].op = "rate" THEN e.split ELSE job[c].split
             j == [job[c] EXCEPT !.entry = e, !.rate = r, !.split = s]
  <2>1. End(c) \/ \E p : Goto(c, p, j)
    BY <1>1 DEF Enter
  <2> HIDE DEF e, r, s
  <2>2. j.scope = job[c].scope /\ j.alone = job[c].alone
    BY <1>0 DEF Job
  <2> HIDE DEF j
  <2>3. QED
    BY <1>1, <2>1, <2>2, LifeGoto, LifeLeaves DEF Enter
<1>2. CASE NextIface(c)
  <2>1. ASSUME NEW x \in job[c].left,
               Goto(c, "look", [job[c] EXCEPT !.iface = x.iface, !.entry = x.entry,
                                    !.rate = x.entry.rate, !.split = x.entry.split,
                                    !.left = @ \ {x}])
        PROVE  LifeOwn(c)
    <3> DEFINE j == [job[c] EXCEPT !.iface = x.iface, !.entry = x.entry,
                                    !.rate = x.entry.rate, !.split = x.entry.split,
                                    !.left = @ \ {x}]
    <3>1. j.scope = job[c].scope /\ j.alone = job[c].alone /\ Goto(c, "look", j)
      BY <1>0, <2>1 DEF Job
    <3> HIDE DEF j
    <3>2. QED
      BY <3>1, LifeGoto
  <2>2. QED
    BY <1>2, <2>1, LifeLeaves DEF NextIface
<1>3. CASE RestoreDone(c) \/ WebExit(c) \/ Note(c)
  BY <1>3, LifeLeaves DEF RestoreDone, WebExit, Note
<1>4. CASE Look(c)
  BY <1>4, LifeLeaves DEF Look
<1>5. CASE Fill(c)
  <2>1. ASSUME NEW x, Goto(c, "fill", [job[c] EXCEPT !.left = @ \ {x}]) PROVE LifeOwn(c)
    <3>1. /\ [job[c] EXCEPT !.left = @ \ {x}].scope = job[c].scope
          /\ [job[c] EXCEPT !.left = @ \ {x}].alone = job[c].alone
      BY <1>0 DEF Job
    <3>2. QED
      BY <2>1, <3>1, LifeGoto
  <2>2. QED
    BY <1>5, <2>1, LifeLeaves DEF Fill
<1>6. CASE SaveRow(c)
  <2>1. \A e : /\ [job[c] EXCEPT !.entry = e].scope = job[c].scope
               /\ [job[c] EXCEPT !.entry = e].alone = job[c].alone
    BY <1>0 DEF Job
  <2>2. QED
    BY <1>6, <2>1, LifeReturns, LifeLeaves DEF SaveRow
<1>7. CASE SaveHigh(c) \/ SaveDflt(c)
  BY <1>7, LifeLeaves DEF SaveHigh, SaveDflt, Update
<1>8. CASE SaveOff(c) \/ SaveRate(c) \/ SaveLow(c)
  <2>1. \A j \in {[job[c] EXCEPT !.entry.enabled = FALSE],
                  [job[c] EXCEPT !.entry.rate = job[c].rate],
                  [job[c] EXCEPT !.entry.split = job[c].split]} :
           j.scope = job[c].scope /\ j.alone = job[c].alone
    BY <1>0 DEF Job
  <2>2. QED
    BY <1>8, <2>1, LifeReturns DEF SaveOff, SaveRate, SaveLow, Update
<1>9. QED
  BY <1>1, <1>2, <1>3, <1>4, <1>5, <1>6, <1>7, <1>8 DEF DbStep

\* Who is at a request is at work on an interface of his scope.
LEMMA LifeAt ==
    ASSUME IInv, SyncInv, NEW c \in Client, NEW p \in RequestPC, AtKernel(c, p)
    PROVE  /\ job[c].iface \in Iface /\ job[c].iface \in job[c].scope /\ job[c].scope # {}
           /\ p \in {"find", "root", "classes"} =>
                 Aims[c] = [rate |-> job[c].rate, split |-> job[c].split] /\ Aims[c] # None
           /\ p \notin {"find", "root", "classes"} => Aims[c] = None
           /\ Scopes[c] = job[c].scope
           /\ Alones[c] <=> job[c].alone
<1>1. pc[c] = p /\ job[c].iface \in Iface
  BY AtRequest, OnInterface
<1>2. job[c].iface \in job[c].scope
  BY <1>1, Knows DEF Bound, AtWork
<1>3. Aims[c] = Aim(c) /\ Scopes[c] = job[c].scope /\ (Alones[c] <=> job[c].alone)
  BY <1>2, LifePoints
<1>4. QED
  BY <1>1, <1>2, <1>3, LifeAim DEF Aim

\* One qdisc changes.
LEMMA LifeOneQdisc ==
    ASSUME IInv, NEW i \in Iface, NEW q, qdisc' = [qdisc EXCEPT ![i] = q]
    PROVE  /\ Qdiscs' = [Qdiscs EXCEPT ![i] = Seen(i)']
           /\ Qdiscs[i] = Seen(i) /\ Qdiscs'[i] = Seen(i)' /\ qdisc'[i] = q
<1>1. qdisc'[i] = q /\ \A k \in Iface \ {i} : qdisc'[k] = qdisc[k]
  BY DEF IInv, Settled
<1>2. \A k \in Iface \ {i} : Seen(k)' = Seen(k)
  BY <1>1 DEF Seen
<1>3. Qdiscs' = [k \in Iface |-> Seen(k)'] /\ Qdiscs = [k \in Iface |-> Seen(k)]
  BY DEF Qdiscs
<1>4. QED
  BY <1>1, <1>2, <1>3

\* A step on one of an operation's own qdiscs.
LEMMA LifeNext ==
    ASSUME NEW c \in Client, NEW i \in Scopes[c],
           Life!MakeRoot(c, i) \/ Life!Complete(c, i) \/ Life!Remove(c, i)
    PROVE  LifeStep
BY DEF LifeStep, Life!Next

\* A qdisc's root is made,
LEMMA LifeAddRoot ==
    ASSUME IInv, IInv', SyncInv, SyncInv', NEW c \in Client, AddRoot(c) PROVE LifeStep
<1>0. PICK i \in Iface : i = job[c].iface
  BY LifeAt DEF AddRoot, RequestPC
<1>1. i \in Scopes[c] /\ job[c].scope # {} /\ Aims[c] # None
  BY <1>0, LifeAt DEF AddRoot, RequestPC
<1> PICK q : q = [state |-> "root", rate |-> job[c].rate, split |-> job[c].split]
  OBVIOUS
<1>2. CASE Refused(c, FALSE) /\ UNCHANGED qdisc
  BY <1>2, LifeLeaves, LifeQdiscs, LifeQuiet
<1>3. CASE qdisc[i].state = "none" /\ qdisc' = [qdisc EXCEPT ![i] = q] /\ Goto(c, "classes", job[c])
  <2>1. Life!Goes(c)
    BY <1>1, <1>3, LifeLeaves, LifeGoes
  <2>2. /\ Qdiscs' = [Qdiscs EXCEPT ![i] = Seen(i)'] /\ Qdiscs[i] = Seen(i)
        /\ Qdiscs'[i] = Seen(i)' /\ qdisc'[i] = q
    <3>1. qdisc' = [qdisc EXCEPT ![i] = q]
      BY <1>3
    <3>2. QED
      BY <3>1, LifeOneQdisc
  <2>3. Qdiscs[i].state = "none" /\ Seen(i)' = Life!State("root", None)
    BY <1>3, <2>2 DEF Seen, Life!State
  <2>4. Life!MakeRoot(c, i)
    BY <1>1, <2>1, <2>2, <2>3 DEF Life!MakeRoot
  <2>5. QED
    BY <1>1, <2>4, LifeNext
<1>4. QED
  BY <1>0, <1>2, <1>3 DEF AddRoot

\* it is completed, as demanded,
LEMMA LifeAddClasses ==
    ASSUME IInv, IInv', SyncInv, SyncInv', NEW c \in Client, AddClasses(c) PROVE LifeStep
<1>0. PICK i \in Iface : i = job[c].iface
  BY LifeAt DEF AddClasses, RequestPC
<1>1. /\ i \in Scopes[c] /\ job[c].scope # {} /\ Aims[c] # None
      /\ Aims[c] = [rate |-> job[c].rate, split |-> job[c].split]
  BY <1>0, LifeAt DEF AddClasses, RequestPC
<1> PICK q : q = [state |-> "whole", rate |-> job[c].rate, split |-> job[c].split]
  OBVIOUS
<1>2. CASE Refused(c, FALSE) /\ UNCHANGED qdisc
  BY <1>2, LifeLeaves, LifeQdiscs, LifeQuiet
<1>3. CASE /\ qdisc[i].state = "root" /\ qdisc' = [qdisc EXCEPT ![i] = q]
           /\ Save(c) \/ Goto(c, "mark", job[c])
  <2>1. Life!Goes(c)
    BY <1>1, <1>3, LifeLeaves, LifeGoes
  <2>2. /\ Qdiscs' = [Qdiscs EXCEPT ![i] = Seen(i)'] /\ Qdiscs[i] = Seen(i)
        /\ Qdiscs'[i] = Seen(i)' /\ qdisc'[i] = q
    BY <1>1, <1>3, LifeOneQdisc
  <2>3. Qdiscs[i].state = "root" /\ Seen(i)' = Life!State("whole", Aims[c])
    BY <1>1, <1>3, <2>2 DEF Seen, Life!State
  <2>4. Life!Complete(c, i)
    BY <1>1, <2>1, <2>2, <2>3 DEF Life!Complete
  <2>5. QED
    BY <1>1, <2>4, LifeNext
<1>4. QED
  BY <1>0, <1>2, <1>3 DEF AddClasses

\* or in part as somebody else demands,
LEMMA LifeAddClassesMixed ==
    ASSUME IInv, IInv', SyncInv, SyncInv', NEW c \in Client, AddClassesMixed(c) PROVE LifeStep
<1>0. PICK i \in Iface : i = job[c].iface
  BY LifeAt DEF AddClassesMixed, RequestPC
<1>1. i \in Scopes[c] /\ job[c].scope # {} /\ Aims[c] # None /\ ~Alones[c]
  BY <1>0, LifeAt DEF AddClassesMixed, RequestPC
<1>2. Life!Goes(c)
  BY <1>1, LifeLeaves, LifeGoes DEF AddClassesMixed
<1>3. ASSUME NEW q, qdisc' = [qdisc EXCEPT ![i] = q],
             \/ q.state = "mixed"
             \/ q.state = "whole" /\ q.rate \in Nat /\ q.split \in Percentages
      PROVE  LifeStep
  <2>1. /\ Qdiscs' = [Qdiscs EXCEPT ![i] = Seen(i)'] /\ Qdiscs[i] = Seen(i)
        /\ Qdiscs'[i] = Seen(i)' /\ qdisc'[i] = q
    BY <1>1, <1>3, LifeOneQdisc
  <2>2. Seen(i)' \in [state : {"whole"}, of : Demand] \cup {Life!State("mixed", None)}
    BY <1>3, <2>1 DEF Seen, Life!State, Demand
  <2>3. Qdiscs[i].state = "root"
    BY <1>0, <2>1 DEF Seen, AddClassesMixed
  <2>4. Life!Complete(c, i)
    BY <1>1, <1>2, <2>1, <2>2, <2>3 DEF Life!Complete
  <2>5. QED
    BY <1>1, <2>4, LifeNext
<1>4. CASE qdisc' = [qdisc EXCEPT ![i].state = "mixed"]
  <2>1. PICK q : q = [qdisc[i] EXCEPT !.state = "mixed"]
    OBVIOUS
  <2>2. q.state = "mixed"
    BY <2>1 DEF IInv, Settled, Qdisc
  <2>3. QED
    BY <1>3, <1>4, <2>1, <2>2
<1>5. ASSUME NEW r \in Rate, NEW s \in Split,
             qdisc' = [qdisc EXCEPT ![i] = [state |-> "whole", rate |-> r, split |-> s]]
      PROVE  LifeStep
  <2>1. PICK q : q = [state |-> "whole", rate |-> r, split |-> s]
    OBVIOUS
  <2>2. q.state = "whole" /\ q.rate \in Nat /\ q.split \in Percentages
    BY <2>1, IfaceAssumption
  <2>3. QED
    BY <1>3, <1>5, <2>1, <2>2
<1>6. QED
  BY <1>0, <1>4, <1>5 DEF AddClassesMixed

\* and it is taken away by who means to.
LEMMA LifeFlush ==
    ASSUME IInv, IInv', SyncInv, SyncInv', NEW c \in Client, Flush(c) PROVE LifeStep
<1>0. PICK i \in Iface : i = job[c].iface
  BY LifeAt DEF Flush, RequestPC
<1>1. i \in Scopes[c] /\ job[c].scope # {} /\ Aims[c] = None
  BY <1>0, LifeAt DEF Flush, RequestPC
<1>2. LifeOwn(c)
  BY LifeLeaves DEF Flush
<1>3. /\ Qdiscs' = [Qdiscs EXCEPT ![i] = Seen(i)'] /\ Qdiscs[i] = Seen(i)
      /\ qdisc'[i] = NoQdisc
  <2>1. qdisc' = [qdisc EXCEPT ![i] = NoQdisc]
    BY <1>0 DEF Flush
  <2>2. QED
    BY <2>1, LifeOneQdisc
<1>4. Seen(i)' = Life!State("none", None)
  BY <1>3 DEF Seen, NoQdisc, Life!State
<1>5. CASE qdisc[i].state = "none"
  <2>1. Seen(i)' = Seen(i)
    BY <1>4, <1>5 DEF Seen, Life!State
  <2>2. Qdiscs' = Qdiscs
    BY <1>3, <2>1 DEF Qdiscs
  <2>3. QED
    BY <1>2, <2>2, LifeQuiet
<1>6. CASE qdisc[i].state # "none"
  <2>1. Life!Goes(c)
    BY <1>1, <1>2, LifeGoes
  <2>2. Qdiscs[i].state # "none"
    BY <1>3, <1>6 DEF Seen
  <2>3. Life!Remove(c, i)
    BY <1>1, <1>3, <1>4, <2>1, <2>2 DEF Life!Remove
  <2>4. QED
    BY <1>1, <2>3, LifeNext
<1>7. QED
  BY <1>5, <1>6

\* The other steps of an operation leave the qdiscs alone, and the daemon's choice
\* of whom it serves leaves everything.
LEMMA LifeSteps ==
    ASSUME IInv, IInv', SyncInv, SyncInv', NEW c \in Client, Step(c) PROVE LifeStep
<1>1. CASE Find(c) \/ Mark(c) \/ Unmark(c)
  <2>1. LifeOwn(c) /\ UNCHANGED qdisc
    BY <1>1, LifeLeaves DEF Find, Mark, Unmark
  <2>2. QED
    BY <2>1, LifeQdiscs, LifeQuiet
<1>2. CASE Accept(c)
  <2>1. UNCHANGED <<qdisc, pc, job>>
    BY <1>2 DEF Accept
  <2>2. QED
    BY <2>1, LifeQdiscs DEF LifeStep, Life!vars, Scopes, Aims, Alones, Aim
<1>3. CASE \/ Enter(c) \/ NextIface(c) \/ RestoreDone(c) \/ WebExit(c) \/ Look(c)
           \/ DbStep(c) \/ Note(c) \/ Fill(c)
  BY <1>3, LifeMemory, LifeQdiscs, LifeQuiet
<1>4. QED
  BY <1>1, <1>2, <1>3, LifeAddRoot, LifeAddClasses, LifeAddClassesMixed, LifeFlush
     DEF Step, KernelStep

\* An operation begins: whom it meets is not alone any more, and neither is it. One that
\* works on no qdisc is not seen.
LEMMA LifeBegins ==
    ASSUME IInv, IInv', SyncInv, SyncInv', NEW c \in Client, NEW p \in PC, NEW j \in Job, Ask(c, p, j)
    PROVE  LifeStep
<1>1. /\ SameBut(j, job'[c]) /\ job[c].scope = {}
      /\ job'[c].alone <=> \A d \in Client \ {c} : job[d].scope \cap j.scope = {}
      /\ \A d \in Client \ {c} :
            /\ pc'[d] = pc[d] /\ SameBut(job[d], job'[d])
            /\ job'[d].alone <=> job[d].alone /\ job[d].scope \cap j.scope = {}
  BY AskMoves
<1>2. job'[c].scope = j.scope /\ \A d \in Client \ {c} : job'[d].scope = job[d].scope
  BY <1>1 DEF SameBut
<1>3. Qdiscs' = Qdiscs
  BY LifeQdiscs DEF Ask
<1>4. ASSUME NEW d \in Client \ {c} PROVE Aims'[d] = Aims[d]
  <2>1. pc'[d] = pc[d] /\ job'[d].rate = job[d].rate /\ job'[d].split = job[d].split
    BY <1>1 DEF SameBut, Same
  <2>2. Aim(d)' = Aim(d)
    BY <2>1 DEF Aim
  <2>3. QED
    BY <2>2, LifePoints
<1>5. Scopes[c] = {} /\ j.scope \in SUBSET Iface
  BY <1>1, LifePoints, Fields
<1>6. CASE j.scope # {}
  <2>1. Scopes' = [Scopes EXCEPT ![c] = j.scope]
    BY <1>2 DEF Scopes
  <2>2. Alones' = [d \in Client |-> IF d = c THEN \A e \in Client : Scopes[e] \cap j.scope = {}
                                    ELSE Alones[d] /\ Scopes[d] \cap j.scope = {}]
    <3> DEFINE A(d) == IF d = c THEN \A e \in Client : Scopes[e] \cap j.scope = {}
                       ELSE Alones[d] /\ Scopes[d] \cap j.scope = {}
    <3>1. ASSUME NEW d \in Client PROVE (job'[d].alone \/ job'[d].scope = {}) = A(d)
      <4>1. CASE d = c
        <5>1. \A e \in Client : Scopes[e] = job[e].scope
          BY LifePoints
        <5>2. job'[c].alone <=> \A e \in Client : Scopes[e] \cap j.scope = {}
          BY <1>1, <1>5, <5>1
        <5>3. job'[c].scope # {}
          BY <1>2, <1>6
        <5>4. QED
          BY <4>1, <5>2, <5>3
      <4>2. CASE d # c
        <5>1. (job'[d].alone <=> job[d].alone /\ job[d].scope \cap j.scope = {})
          BY <1>1, <4>2
        <5>2. job'[d].scope = job[d].scope
          BY <1>2, <4>2
        <5>3. (Alones[d] <=> job[d].alone \/ job[d].scope = {}) /\ Scopes[d] = job[d].scope
          BY LifePoints
        <5>4. (job'[d].alone \/ job'[d].scope = {}) <=> Alones[d] /\ Scopes[d] \cap j.scope = {}
          BY <5>1, <5>2, <5>3
        <5>5. QED
          BY <4>2, <5>4
      <4>3. QED
        BY <4>1, <4>2
    <3>2. Alones' = [d \in Client |-> (job'[d].alone \/ job'[d].scope = {})]
      BY DEF Alones
    <3>3. QED
      BY <3>1, <3>2
  <2>3. Aims' \in [Client -> Demand \cup {None}]
    <3>1. \A d \in Client : Aim(d)' \in Demand \cup {None}
      BY LifeAimAfter
    <3>2. QED
      BY <3>1 DEF Aims
  <2>4. Life!Begin(c, j.scope)
    BY <1>3, <1>4, <1>5, <1>6, <2>1, <2>2, <2>3 DEF Life!Begin, Life!Turns
  <2>5. QED
    BY <1>5, <2>4 DEF LifeStep, Life!Next
<1>7. CASE j.scope = {}
  <2>1. Scopes' = Scopes
    BY <1>1, <1>2, <1>7 DEF Scopes
  <2>2. Aims'[c] = None /\ Aims[c] = None
    BY <1>1, <1>2, <1>7, LifeNoAim, LifeAimAfter, LifePoints
  <2>3. Aims' = Aims
    <3>1. Aims' = [d \in Client |-> Aims'[d]] /\ Aims = [d \in Client |-> Aims[d]]
      BY DEF Aims
    <3>2. \A d \in Client : Aims'[d] = Aims[d]
      BY <1>4, <2>2
    <3>3. QED
      BY <3>1, <3>2
  <2>4. Alones' = Alones
    <3>1. ASSUME NEW d \in Client
          PROVE  (job'[d].alone \/ job'[d].scope = {}) = (job[d].alone \/ job[d].scope = {})
      <4>1. CASE d = c
        BY <1>1, <1>2, <1>7, <4>1
      <4>2. CASE d # c
        <5>1. (job'[d].alone <=> job[d].alone) /\ job'[d].scope = job[d].scope
          BY <1>1, <1>2, <1>7, <4>2
        <5>2. QED
          BY <5>1
      <4>3. QED
        BY <4>1, <4>2
    <3>2. QED
      BY <3>1 DEF Alones
  <2>5. QED
    BY <1>3, <2>1, <2>3, <2>4 DEF LifeStep, Life!vars
<1>8. QED
  BY <1>6, <1>7

\* So does every operation that is asked for.
LEMMA LifeAsks ==
    ASSUME IInv, IInv', SyncInv, SyncInv', NEW c \in Client, Asks(c) PROVE LifeStep
<1>0. /\ Settled /\ Rate \subseteq Nat /\ Split \subseteq Percentages /\ 0 \in Nat
      /\ Default.split \in Percentages
  BY IfaceAssumption, Constants DEF IInv
<1>1. ASSUME NEW op \in Op, NEW i \in Iface, NEW r \in Nat, NEW s \in Percentages,
             Ask(c, "enter", Request(op, i, r, s))
      PROVE  LifeStep
  <2>1. Request(op, i, r, s) \in Job
    BY <1>0, RequestType
  <2>2. QED
    BY <1>1, <2>1, LifeBegins DEF PC
<1>2. \A op \in {"enable", "rate", "split", "disable"} : op \in Op
  BY DEF Op
<1>3. ASSUME NEW i \in Iface, NEW r \in Rate, NEW s \in Split, AskEnable(c, i, r, s)
      PROVE  LifeStep
  BY <1>0, <1>1, <1>2, <1>3 DEF AskEnable
<1>4. ASSUME NEW i \in Iface, NEW r \in Rate, AskRate(c, i, r) PROVE LifeStep
  BY <1>0, <1>1, <1>2, <1>4 DEF AskRate
<1>5. ASSUME NEW i \in Iface, NEW s \in Split, AskSplit(c, i, s) PROVE LifeStep
  BY <1>0, <1>1, <1>2, <1>5 DEF AskSplit
<1>6. ASSUME NEW i \in Iface, AskDisable(c, i) PROVE LifeStep
  BY <1>0, <1>1, <1>2, <1>6 DEF AskDisable
<1>7. ASSUME NEW i \in Iface, AskStats(c, i) PROVE LifeStep
  <2>1. web[i] \in Entry
    BY <1>7 DEF AskStats, IInv, Settled
  <2>2. [Idle EXCEPT !.op = "stats", !.iface = i, !.entry = web[i]] \in Job
    BY <2>1, Constants DEF Idle, Job, Op
  <2>3. QED
    BY <1>7, <2>2, LifeBegins DEF AskStats, PC
<1>8. CASE AskRestore(c) \/ WebStart(c)
  <2>1. Restoring \in Job
    BY <1>0, RestoringType
  <2>2. QED
    BY <1>8, <2>1, LifeBegins DEF AskRestore, WebStart, PC
<1>9. CASE AskReload(c)
  <2> DEFINE L == {[iface |-> i, entry |-> Default] : i \in Iface}
             j == [Idle EXCEPT !.op = "reload", !.left = L]
  <2>1. L \in SUBSET [iface : Iface, entry : Entry]
    BY Constants
  <2>2. Ask(c, "fill", j)
    BY <1>9 DEF AskReload
  <2> HIDE DEF L
  <2>3. j \in Job
    BY <2>1, Constants DEF Idle, Job, Op
  <2> HIDE DEF j
  <2>4. QED
    BY <2>2, <2>3, LifeBegins DEF PC
<1>10. QED
  BY <1>3, <1>4, <1>5, <1>6, <1>7, <1>8, <1>9 DEF Asks

\* Some operations are over, and nothing else happens.
LEMMA LifeStops ==
    ASSUME IInv', SyncInv', NEW P \in SUBSET Client,
           \A d \in Client \ P : /\ job'[d].scope = job[d].scope /\ job'[d].alone = job[d].alone
                                 /\ Aim(d)' = Aim(d),
           \A d \in P : job'[d].scope = {}
    PROVE  Life!Leave(P)
<1>1. Scopes' = [d \in Client |-> IF d \in P THEN {} ELSE Scopes[d]]
  <2>1. \A d \in Client : job'[d].scope = IF d \in P THEN {} ELSE Scopes[d]
    BY LifePoints
  <2>2. QED
    BY <2>1 DEF Scopes
<1>2. Aims' = [d \in Client |-> IF d \in P THEN None ELSE Aims[d]]
  <2>1. \A d \in Client : Aim(d)' = IF d \in P THEN None ELSE Aims[d]
    BY LifePoints, LifeAimAfter
  <2>2. QED
    BY <2>1 DEF Aims
<1>3. Alones' = [d \in Client |-> d \in P \/ Alones[d]]
  <2>1. ASSUME NEW d \in Client
        PROVE  (job'[d].alone \/ job'[d].scope = {}) = (d \in P \/ Alones[d])
    <3>1. CASE d \in P
      BY <3>1
    <3>2. CASE d \notin P
      BY <3>2 DEF Alones
    <3>3. QED
      BY <3>1, <3>2
  <2>2. QED
    BY <2>1 DEF Alones
<1>4. QED
  BY <1>1, <1>2, <1>3 DEF Life!Leave

\* An operation that fails or is killed leaves the qdiscs; one that the daemon serves
\* goes on without its client.
LEMMA LifeFaults ==
    ASSUME IInv, IInv', SyncInv, SyncInv', NEW c \in Client, Fault(c) PROVE LifeStep
<1>1. CASE Abort(c) \/ RequestFails(c) \/ AnswerLost(c)
  <2>1. LifeOwn(c) /\ UNCHANGED qdisc
    BY <1>1, LifeLeaves DEF Abort, RequestFails, AnswerLost
  <2>2. QED
    BY <2>1, LifeQdiscs, LifeQuiet
<1>2. CASE Orphan(c)
  <2>1. job' = [job EXCEPT ![c] = [job[c] EXCEPT !.dead = TRUE]]
    BY <1>2 DEF Orphan
  <2>2. /\ [job[c] EXCEPT !.dead = TRUE].scope = job[c].scope
        /\ [job[c] EXCEPT !.dead = TRUE].alone = job[c].alone
    BY JobTypes DEF Job
  <2>3. job \in [Client -> Job] /\ UNCHANGED <<qdisc, pc>>
    BY <1>2 DEF Orphan, IInv, Placed
  <2>4. LifeOwn(c)
    BY <2>1, <2>2, <2>3 DEF LifeOwn
  <2>5. QED
    BY <2>3, <2>4, LifeQdiscs, LifeQuiet
<1>3. QED
  BY <1>1, <1>2 DEF Fault

\* The web server stops: what it does itself is over.
LEMMA LifeWebStop == ASSUME IInv, IInv', SyncInv, SyncInv', WebStop PROVE LifeStep
<1> DEFINE Asked(d) == d \in DaemonClient /\ pc[d] \in RequestPC
           P == {d \in Client : IsWeb(d) /\ ~Asked(d)}
<1>1. ASSUME NEW d \in P PROVE job'[d].scope = {}
  BY IdleJob DEF WebStop
<1>2. ASSUME NEW d \in Client \ P
      PROVE  /\ job'[d].scope = job[d].scope /\ job'[d].alone = job[d].alone
             /\ Aim(d)' = Aim(d)
  <2>1. pc'[d] = pc[d] /\ (job'[d] = job[d] \/ job'[d] = [job[d] EXCEPT !.dead = TRUE])
    BY <1>2 DEF WebStop
  <2>2. CASE job'[d] = [job[d] EXCEPT !.dead = TRUE]
    <3>1. /\ job'[d].scope = job[d].scope /\ job'[d].alone = job[d].alone
          /\ job'[d].rate = job[d].rate /\ job'[d].split = job[d].split
      BY <2>2, JobTypes DEF Job
    <3>2. QED
      BY <2>1, <3>1 DEF Aim
  <2>3. QED
    BY <2>1, <2>2 DEF Aim
<1>3. P \in SUBSET Client /\ UNCHANGED qdisc
  BY DEF WebStop
<1> HIDE DEF P
<1>4. Life!Stop(P)
  BY <1>1, <1>2, <1>3, LifeStops, LifeQdiscs DEF Life!Stop
<1>5. QED
  BY <1>3, <1>4 DEF LifeStep, Life!Next

\* Another tool comes in the way of who is at work on the interface.
LEMMA LifeAlter ==
    ASSUME IInv, IInv', SyncInv, SyncInv', NEW i \in Iface, Alter(i) PROVE LifeStep
<1>1. ASSUME NEW d \in Client
      PROVE  /\ SameBut(job[d], job'[d])
             /\ job'[d].alone <=> job[d].alone /\ i \notin job[d].scope
  <2> DEFINE b == job[d].alone /\ i \notin job[d].scope
  <2>1. job'[d] = [job[d] EXCEPT !.alone = b] /\ b \in BOOLEAN /\ job[d] \in Job
    BY JobTypes, ScopeType DEF Alter
  <2> HIDE DEF b
  <2>2. SameBut(job[d], job'[d]) /\ job'[d].alone = b
    BY <2>1, Met
  <2>3. QED
    BY <2>2 DEF b
<1>2. Qdiscs' \in {Qdiscs, [Qdiscs EXCEPT ![i] = Life!State("none", None)]}
  <2>1. CASE qdisc' = [qdisc EXCEPT ![i] = NoQdisc]
    <3>1. Qdiscs' = [Qdiscs EXCEPT ![i] = Seen(i)'] /\ qdisc'[i] = NoQdisc
      BY <2>1, LifeOneQdisc
    <3>2. Seen(i)' = Life!State("none", None)
      BY <3>1 DEF Seen, NoQdisc, Life!State
    <3>3. QED
      BY <3>1, <3>2
  <2>2. CASE UNCHANGED qdisc
    BY <2>2, LifeQdiscs
  <2>3. QED
    BY <2>1, <2>2 DEF Alter
<1>3. Scopes' = Scopes
  BY <1>1 DEF Scopes, SameBut
<1>4. Aims' = Aims
  <2>1. ASSUME NEW d \in Client PROVE Aim(d)' = Aim(d)
    <3>1. pc'[d] = pc[d] /\ job'[d].rate = job[d].rate /\ job'[d].split = job[d].split
      BY <1>1 DEF Alter, SameBut, Same
    <3>2. QED
      BY <3>1 DEF Aim
  <2>2. QED
    BY <2>1 DEF Aims
<1>5. Alones' = [d \in Client |-> Alones[d] /\ i \notin Scopes[d]]
  <2>1. ASSUME NEW d \in Client
        PROVE  (job'[d].alone \/ job'[d].scope = {}) = (Alones[d] /\ i \notin Scopes[d])
    <3>1. (job'[d].alone <=> job[d].alone /\ i \notin job[d].scope) /\ job'[d].scope = job[d].scope
      BY <1>1 DEF SameBut
    <3>2. (Alones[d] <=> job[d].alone \/ job[d].scope = {}) /\ Scopes[d] = job[d].scope
      BY LifePoints
    <3>3. (job'[d].alone \/ job'[d].scope = {}) <=> Alones[d] /\ i \notin Scopes[d]
      BY <3>1, <3>2
    <3>4. QED
      BY <3>3
  <2>2. Alones' = [d \in Client |-> (job'[d].alone \/ job'[d].scope = {})]
    BY DEF Alones
  <2>3. QED
    BY <2>1, <2>2
<1>6. Life!Interfere(i)
  BY <1>2, <1>3, <1>4, <1>5 DEF Life!Interfere
<1>7. QED
  BY <1>6 DEF LifeStep, Life!Next

\* After a reboot there is neither a qdisc nor an operation.
LEMMA LifeReboot == ASSUME IInv, IInv', SyncInv, SyncInv', Reboot PROVE LifeStep
<1>1. \A d \in Client : job'[d].scope = {}
  BY IdleJob DEF Reboot
<1>2. Life!Leave(Client)
  BY <1>1, LifeStops
<1>3. Qdiscs' = [i \in Iface |-> Life!State("none", None)]
  BY DEF Reboot, Qdiscs, Seen, NoQdisc, Life!State
<1>4. QED
  BY <1>2, <1>3 DEF LifeStep, Life!Next, Life!Reboot

\* Operations leave qdiscs to each other as QdiscLife says, for any interfaces, clients,
\* rates, percentages and failures: what HtbQdisc shows of one qdisc is what they rely
\* on of each (EnableTcOnInterface, DisableTcOnInterface, ChangeInterfaceRate).
THEOREM LifeCorrect == Spec => LivesByQdisc
<1>1. Init => Life!Init
  <2> SUFFICES ASSUME Init PROVE Life!Init
    OBVIOUS
  <2>1. \A d \in Client : pc[d] = "idle" /\ job[d] = Idle
    BY DEF Init
  <2>2. Qdiscs = [i \in Iface |-> Life!State("none", None)]
    BY DEF Init, Qdiscs, Seen, NoQdisc, Life!State
  <2>3. Scopes = [d \in Client |-> {}] /\ Aims = [d \in Client |-> None]
    BY <2>1, IdleJob DEF Scopes, Aims, Aim
  <2>4. Alones = [d \in Client |-> TRUE]
    <3>1. ASSUME NEW d \in Client PROVE (job[d].alone \/ job[d].scope = {}) = TRUE
      BY <2>1, IdleJob
    <3>2. QED
      BY <3>1 DEF Alones
  <2>5. QED
    BY <2>2, <2>3, <2>4 DEF Life!Init
<1>2. IInv /\ IInv' /\ SyncInv /\ SyncInv' /\ [Next]_vars => [Life!Next]_(Life!vars)
  <2> SUFFICES ASSUME IInv, IInv', SyncInv, SyncInv', [Next]_vars PROVE LifeStep
    BY DEF LifeStep
  <2>1. CASE UNCHANGED vars
    <3>1. UNCHANGED <<qdisc, pc, job>>
      BY <2>1 DEF vars
    <3>2. QED
      BY <3>1, LifeQdiscs DEF LifeStep, Life!vars, Scopes, Aims, Alones, Aim
  <2>2. QED
    BY <2>1, LifeAsks, LifeSteps, LifeFaults, LifeWebStop, LifeAlter, LifeReboot DEF Next
<1>3. QED
  BY <1>1, <1>2, Inductive, SyncInductive, PTL DEF Spec, LivesByQdisc, Life!Spec
=============================================================================
