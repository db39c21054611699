--------------------------- MODULE QosRulesProofs ---------------------------
(***************************************************************************)
(* Theorems about QosRules, for any number of clients, prefixes, services, *)
(* domains, faults and reboots.                                            *)
(***************************************************************************)
EXTENDS QosRulesInv, TLAPS

USE RulesAssumption

\* A client without an operation has local variables of their types.
LEMMA IdleIsJob == Idle \in Job
BY DEF Idle, Job, Kind, Prio

\* An operation that begins keeps the types.
LEMMA TypeBegin ==
    ASSUME TypeOK, NEW c \in Client, NEW p \in PC, NEW j \in Job,
           NEW S \in SUBSET Everything, Begin(c, p, j, S), tainted' \in SUBSET Everything
    PROVE  TypeOK'
BY DEF TypeOK, Begin

\* An operation that goes on keeps the types.
LEMMA TypeGoto ==
    ASSUME TypeOK, NEW c \in Client, NEW p \in PC, NEW j \in Job, Goto(c, p, j)
    PROVE  /\ pc' \in [Client -> PC]
           /\ job' \in [Client -> Job]
           /\ touch' \in [Client -> SUBSET Everything]
           /\ faults' \in Nat /\ reboots' \in Nat
BY DEF TypeOK, Goto

\* An operation that ends keeps the types.
LEMMA TypeEnd ==
    ASSUME TypeOK, NEW c \in Client, End(c)
    PROVE  /\ pc' \in [Client -> PC]
           /\ job' \in [Client -> Job]
           /\ touch' \in [Client -> SUBSET Everything]
           /\ faults' \in Nat /\ reboots' \in Nat
BY IdleIsJob DEF TypeOK, End, PC

\* An operation that fails keeps the types.
LEMMA TypeFail ==
    ASSUME TypeOK, NEW c \in Client, Fail(c), serving' \in Client \cup {None}
    PROVE  TypeOK'
BY TypeEnd DEF TypeOK, Fail

\* The daemon serves a client or nobody.
LEMMA TypeReleased ==
    ASSUME TypeOK, NEW c \in Client
    PROVE  Released(c) \in Client \cup {None}
BY DEF TypeOK, Released

\* Records of a job and of a row stay of their type when one field changes.
LEMMA JobUpdate ==
    ASSUME NEW j \in Job
    PROVE  /\ \A T \in SUBSET Elem : [j EXCEPT !.todo = T] \in Job
           /\ \A T, R \in SUBSET Elem : 
                /\ [j EXCEPT !.todo = T, !.rest = R] \in Job
                /\ [j EXCEPT !.prio = "low", !.todo = T, !.rest = R] \in Job
                /\ [j EXCEPT !.kind = "restoreSvc", !.prio = "high", !.todo = T, !.rest = R] \in Job
           /\ \A i \in Nat, T \in SUBSET Elem : [j EXCEPT !.id = i, !.todo = T] \in Job
           /\ \A t \in Target, i \in Nat, k \in Prio, T, A \in SUBSET Elem, P \in SUBSET Snapshot :
                [j EXCEPT !.target = t, !.id = i, !.prio = k, !.todo = T, !.ips = A,
                          !.pending = P] \in Job
           /\ [j EXCEPT !.dead = TRUE] \in Job
<1>1. \A T \in SUBSET Elem : [j EXCEPT !.todo = T] \in Job
  BY DEF Job
<1>2. \A T, R \in SUBSET Elem : [j EXCEPT !.todo = T, !.rest = R] \in Job
  BY DEF Job
<1>3. \A T, R \in SUBSET Elem : [j EXCEPT !.prio = "low", !.todo = T, !.rest = R] \in Job
  BY DEF Job, Prio
<1>4. \A T, R \in SUBSET Elem :
        [j EXCEPT !.kind = "restoreSvc", !.prio = "high", !.todo = T, !.rest = R] \in Job
  BY DEF Job, Prio, Kind
<1>5. \A i \in Nat, T \in SUBSET Elem : [j EXCEPT !.id = i, !.todo = T] \in Job
  BY DEF Job
<1>6. \A t \in Target, i \in Nat, k \in Prio, T, A \in SUBSET Elem, P \in SUBSET Snapshot :
        [j EXCEPT !.target = t, !.id = i, !.prio = k, !.todo = T, !.ips = A,
                  !.pending = P] \in Job
  BY DEF Job
<1>7. [j EXCEPT !.dead = TRUE] \in Job
  BY DEF Job
<1> QED
  BY <1>1, <1>2, <1>3, <1>4, <1>5, <1>6, <1>7

\* A row with other addresses is a row.
LEMMA RowIps ==
    ASSUME TypeOK, NEW t \in Target, NEW X \in SUBSET Elem
    PROVE  [rules EXCEPT ![t].ips = X] \in [Target -> Row]
<1>1. [rules[t] EXCEPT !.ips = X] \in Row
  BY DEF TypeOK, Row
<1> QED
  BY <1>1 DEF TypeOK

\* What rows claim are elements.
LEMMA ClaimedType == TypeOK => \A T, k : ClaimedIn(T, k) \subseteq Elem
BY DEF ClaimedIn

\* Requests to the kernel keep the types.
LEMMA TypeKernel ==
    ASSUME TypeOK, NEW c \in Client, KernelStep(c)
    PROVE  TypeOK'
<1>0. /\ job[c] \in Job /\ pc[c] \in PC /\ job[c].prio \in Prio
      /\ job[c].todo \in SUBSET Elem /\ job[c].rest \in SUBSET Elem
      /\ Released(c) \in Client \cup {None}
  BY TypeReleased DEF TypeOK, Job
<1>1. CASE AddToSet(c)
  <2>1. PICK S \in Batches(job[c].todo) :
           /\ nft' = [nft EXCEPT ![job[c].prio] = @ \cup S]
           /\ Goto(c, "kadd", [job[c] EXCEPT !.todo = @ \ S])
    BY <1>1 DEF AddToSet
  <2>2. S \subseteq Elem
    BY <1>0 DEF Batches
  <2>3. nft' \in [Prio -> SUBSET Elem]
    BY <1>0, <2>1, <2>2 DEF TypeOK
  <2>4. [job[c] EXCEPT !.todo = @ \ S] \in Job
    BY <1>0, JobUpdate
  <2> QED
    BY <1>1, <2>1, <2>3, <2>4, TypeGoto DEF AddToSet, TypeOK, PC, KernelPC
<1>2. CASE AddRejected(c)
  BY <1>0, <1>2, TypeFail DEF AddRejected
<1>3. CASE RemoveFromSet(c)
  <2>1. PICK e \in job[c].todo \cap nft[job[c].prio] :
           /\ nft' = [nft EXCEPT ![job[c].prio] = @ \ {e}]
           /\ Goto(c, "kdel", [job[c] EXCEPT !.todo = @ \ {e}])
    BY <1>3 DEF RemoveFromSet
  <2>2. nft' \in [Prio -> SUBSET Elem]
    BY <2>1 DEF TypeOK
  <2>3. [job[c] EXCEPT !.todo = @ \ {e}] \in Job
    BY <1>0, JobUpdate
  <2> QED
    BY <1>3, <2>1, <2>2, <2>3, TypeGoto DEF RemoveFromSet, TypeOK, PC, KernelPC
<1>4. CASE RemoveMissing(c)
  <2>1. CASE Fail(c) /\ serving' = Released(c)
    BY <1>0, <2>1, TypeFail
  <2>2. CASE /\ Goto(c, "drop", job[c])
             /\ tainted' = tainted \cup touch[c]
             /\ UNCHANGED <<nft, rules, nextId, serving>>
    BY <1>0, <2>2, TypeGoto DEF TypeOK, PC
  <2> QED
    BY <1>4, <2>1, <2>2 DEF RemoveMissing
<1>5. CASE FlushSets(c)
  <2>1. nft' \in [Prio -> SUBSET Elem]
    BY <1>5 DEF FlushSets
  <2>2. CASE End(c)
    BY <1>0, <1>5, <2>1, <2>2, TypeEnd DEF FlushSets, TypeOK
  <2>3. CASE Goto(c, "fdom", job[c])
    BY <1>0, <1>5, <2>1, <2>3, TypeGoto DEF FlushSets, TypeOK, PC
  <2> QED
    BY <1>5, <2>2, <2>3 DEF FlushSets
<1>6. ASSUME NEW p, RequestDone(c, p),
             End(c) \/ \E q \in PC, j \in Job : Goto(c, q, j)
      PROVE  TypeOK'
  <2>1. CASE End(c)
    BY <1>0, <1>6, <2>1, TypeEnd DEF RequestDone, TypeOK
  <2>2. CASE \E q \in PC, j \in Job : Goto(c, q, j)
    BY <1>0, <1>6, <2>2, TypeGoto DEF RequestDone, TypeOK
  <2> QED
    BY <1>6, <2>1, <2>2
<1>7. CASE AddDone(c)
  BY <1>0, <1>6, <1>7 DEF AddDone, PC
<1>8. CASE RemoveDone(c)
  BY <1>0, <1>6, <1>8 DEF RemoveDone, PC
<1>9. CASE RestoreHighDone(c)
  <2>1. [job[c] EXCEPT !.prio = "low", !.todo = job[c].rest, !.rest = {}] \in Job
    BY <1>0, JobUpdate
  <2> QED
    BY <1>6, <1>9, <2>1 DEF RestoreHighDone, PC, KernelPC
<1>10. CASE RestoreHostsDone(c)
  BY <1>0, <1>6, <1>10 DEF RestoreHostsDone, PC
<1>11. CASE RestoreDone(c)
  BY <1>6, <1>11 DEF RestoreDone
<1>12. CASE OrphanDone(c)
  BY <1>6, <1>12 DEF OrphanDone
<1> QED
  BY <1>1, <1>2, <1>3, <1>4, <1>5, <1>7, <1>8, <1>9, <1>10, <1>11, <1>12 DEF KernelStep

\* Statements on the database keep the types.
LEMMA TypeDb ==
    ASSUME TypeOK, NEW c \in Client, Shape(c), DbStep(c)
    PROVE  TypeOK'
<1>0. /\ job[c] \in Job /\ pc[c] \in PC /\ job[c].prio \in Prio
      /\ job[c].todo \in SUBSET Elem /\ job[c].rest \in SUBSET Elem
      /\ job[c].ips \in SUBSET Elem /\ job[c].pending \in SUBSET Snapshot
      /\ job[c].target \in Target \cup {None}
  BY DEF TypeOK, Job
<1>00. \A t \in Target : rules[t].id \in Nat /\ rules[t].ips \in SUBSET Elem
  BY DEF TypeOK, Row
<1>01. NoRow \in Row
  BY DEF NoRow, Row
<1>1. CASE InsertRow(c)
  <2>1. PICK t : t = job[c].target
    OBVIOUS
  <2>2. t \in Target
    BY <1>1, <2>1 DEF InsertRow, Shape, Place, Reach, Plan
  <2>3. [id |-> nextId, prio |-> job[c].prio, ips |-> IF t \in Domain THEN {} ELSE {t}] \in Row
    BY <1>0, <2>2 DEF Row, TypeOK, Target, Elem
  <2>4. rules' \in [Target -> Row] /\ nextId' \in Nat \ {0}
    BY <1>1, <2>1, <2>3 DEF InsertRow, TypeOK
  <2> QED
    BY <1>0, <1>1, <2>4, TypeGoto, TypeEnd DEF InsertRow, TypeOK, PC
<1>2. CASE ReadRow(c)
  <2>1. CASE Fail(c)
    BY <1>2, <2>1, TypeFail DEF ReadRow, TypeOK
  <2>2. CASE Goto(c, "ips", [job[c] EXCEPT !.id = rules[job[c].target].id, !.todo = job[c].ips])
             /\ UNCHANGED <<nft, rules, nextId, tainted>>
    <3>1. job[c].target \in Target
      BY <1>2 DEF ReadRow, Target, Shape, Place, Reach, Plan
    <3>2. [job[c] EXCEPT !.id = rules[job[c].target].id, !.todo = job[c].ips] \in Job
      BY <1>0, <1>00, <3>1, JobUpdate
    <3> QED
      BY <1>2, <2>2, <3>2, TypeGoto DEF ReadRow, TypeOK, PC
  <2> QED
    BY <1>2, <2>1, <2>2 DEF ReadRow
<1>3. CASE InsertIP(c)
  <2>1. PICK e \in job[c].todo :
        /\ rules' = IF rules[job[c].target].id = job[c].id
                    THEN [rules EXCEPT ![job[c].target].ips = @ \cup {e}] ELSE rules
        /\ Goto(c, "ips", [job[c] EXCEPT !.todo = @ \ {e}])
    BY <1>3 DEF InsertIP
  <2>2. rules' \in [Target -> Row]
    <3>1. job[c].target \in Target
      BY <1>3 DEF InsertIP, Target, Shape, Place, Reach, Plan
    <3>2. rules[job[c].target].ips \cup {e} \in SUBSET Elem
      BY <1>0, <1>00, <2>1, <3>1
    <3>3. [rules EXCEPT ![job[c].target].ips = @ \cup {e}] \in [Target -> Row]
      BY <3>1, <3>2, RowIps
    <3> QED
      BY <2>1, <3>3 DEF TypeOK
  <2>3. [job[c] EXCEPT !.todo = @ \ {e}] \in Job
    BY <1>0, JobUpdate
  <2> QED
    BY <1>3, <2>1, <2>2, <2>3, TypeGoto DEF InsertIP, TypeOK, PC
<1>4. CASE IPsDone(c)
  BY <1>0, <1>4, TypeGoto, TypeEnd DEF IPsDone, TypeOK, PC
<1>5. CASE DropRow(c)
  BY <1>0, <1>01, <1>5, TypeEnd DEF DropRow, TypeOK
<1>6. ASSUME NEW p, NEW T, FlushTable(c, p, T), End(c) \/ \E q \in PC : Goto(c, q, job[c])
      PROVE  TypeOK'
  <2>1. rules' \in [Target -> Row]
    BY <1>6, <1>01 DEF FlushTable, TypeOK
  <2>2. CASE End(c)
    BY <1>6, <2>1, <2>2, TypeEnd DEF FlushTable, TypeOK
  <2>3. CASE \E q \in PC : Goto(c, q, job[c])
    BY <1>0, <1>6, <2>1, <2>3, TypeGoto DEF FlushTable, TypeOK
  <2> QED
    BY <1>6, <2>2, <2>3
<1>7. CASE FlushDomainRules(c) \/ FlushIPRules(c) \/ FlushServiceRules(c)
  BY <1>6, <1>7 DEF FlushDomainRules, FlushIPRules, FlushServiceRules, PC
<1>8. CASE RestoreReadDomains(c)
  <2>1. [job[c] EXCEPT !.todo = @ \cup ClaimedIn(Domain, "high"),
                       !.rest = @ \cup ClaimedIn(Domain, "low")] \in Job
    BY <1>0, ClaimedType, JobUpdate
  <2> QED
    BY <1>8, <2>1, TypeGoto DEF RestoreReadDomains, TypeOK, PC, KernelPC
<1>9. CASE RestoreReadServices(c)
  <2>1. [job[c] EXCEPT !.kind = "restoreSvc", !.prio = "high",
                       !.todo = ClaimedIn(Service, "high"),
                       !.rest = ClaimedIn(Service, "low")] \in Job
    BY <1>0, ClaimedType, JobUpdate
  <2> QED
    BY <1>9, <2>1, TypeGoto DEF RestoreReadServices, TypeOK, PC, KernelPC
<1>10. CASE Resolve(c)
  <2>1. PICK r \in job[c].pending, A \in UNION {Answers[d] : d \in Domain} :
        /\ A \in Answers[r.dom]
        /\ Goto(c, "kdel", [job[c] EXCEPT !.target = r.dom, !.id = r.id, !.prio = r.prio,
                                          !.todo = r.ips, !.ips = A,
                                          !.pending = @ \ {r}])
        /\ tainted' = tainted \cup SharedWith(r.dom, r.prio, r.ips)
    BY <1>10 DEF Resolve
  <2>2. /\ r.dom \in Target /\ r.id \in Nat /\ r.prio \in Prio /\ r.ips \in SUBSET Elem
        /\ A \in SUBSET Elem
    BY <1>0, <2>1 DEF Snapshot, Target, Elem
  <2>3. [job[c] EXCEPT !.target = r.dom, !.id = r.id, !.prio = r.prio,
                       !.todo = r.ips, !.ips = A, !.pending = @ \ {r}] \in Job
    BY <1>0, <2>2, JobUpdate
  <2>4. tainted' \in SUBSET Everything
    BY <2>1, <2>2 DEF SharedWith, TypeOK, Everything, Elem, Target
  <2> QED
    BY <1>10, <2>1, <2>3, <2>4, TypeGoto DEF Resolve, TypeOK, PC, KernelPC
<1>11. CASE RefreshDone(c)
  BY <1>11, TypeEnd DEF RefreshDone, TypeOK
<1>12. CASE ClearIPs(c)
  <2>1. rules' \in [Target -> Row]
    <3>1. job[c].target \in Target
      BY <1>12 DEF ClearIPs, Target, Shape, Place, Reach, Plan
    <3>2. [rules EXCEPT ![job[c].target].ips = {}] \in [Target -> Row]
      BY <3>1, RowIps
    <3> QED
      BY <1>12, <3>2 DEF ClearIPs, TypeOK
  <2>2. [job[c] EXCEPT !.todo = job[c].ips] \in Job
    BY <1>0, JobUpdate
  <2> QED
    BY <1>12, <2>1, <2>2, TypeGoto DEF ClearIPs, TypeOK, PC, KernelPC
<1> QED
  BY <1>1, <1>2, <1>3, <1>4, <1>5, <1>7, <1>8, <1>9, <1>10, <1>11, <1>12 DEF DbStep

\* What the user asks for keeps the types.
LEMMA TypeRequest ==
    ASSUME TypeOK, NEW c \in Client, Request(c)
    PROVE  TypeOK'
<1>0. \A S, T : Clash(S, T) \subseteq S \cup T
  BY DEF Clash
<1>1. \A S \in SUBSET Everything : Clashes(c, S) \subseteq Everything
  BY <1>0 DEF Clashes, TypeOK
<1>2. CASE \E t \in Wanted, k \in Prio : BeginAdd(c, t, k)
  <2>1. PICK t \in Wanted, k \in Prio : BeginAdd(c, t, k)
    BY <1>2
  <2>2. PICK A \in (IF t \in Domain THEN Answers[t] ELSE {{t}}) :
        /\ Begin(c, "kadd", [Idle EXCEPT !.kind = "add", !.target = t, !.prio = k,
                                         !.todo = A, !.ips = A], {t} \cup A)
        /\ tainted' = tainted \cup Clashes(c, {t} \cup A)
    BY <2>1 DEF BeginAdd
  <2>3. A \in SUBSET Elem
    BY DEF Elem, Target
  <2>4. [Idle EXCEPT !.kind = "add", !.target = t, !.prio = k, !.todo = A, !.ips = A] \in Job
    BY <2>3 DEF Idle, Job, Kind
  <2>5. {t} \cup A \in SUBSET Everything
    BY <2>3 DEF Everything, Target, Elem
  <2> QED
    BY <1>1, <2>2, <2>4, <2>5, TypeBegin DEF PC, KernelPC, TypeOK
<1>3. CASE \E t \in Target, byName \in BOOLEAN : BeginDelete(c, t, byName)
  <2>1. PICK t \in Target, byName \in BOOLEAN : BeginDelete(c, t, byName)
    BY <1>3
  <2>2. rules[t].id \in Nat /\ rules[t].prio \in Prio /\ rules[t].ips \in SUBSET Elem
    BY <2>1 DEF BeginDelete, TypeOK, Row
  <2>3. [Idle EXCEPT !.kind = "delete", !.target = t, !.byName = byName, !.id = rules[t].id,
                     !.prio = rules[t].prio, !.todo = rules[t].ips,
                     !.ips = rules[t].ips] \in Job
    BY <2>2 DEF Idle, Job, Kind
  <2>4. {t} \cup rules[t].ips \in SUBSET Everything
    BY <2>2 DEF Everything, Target, Elem
  <2>5. tainted' \in SUBSET Everything
    BY <1>1, <2>1, <2>4 DEF BeginDelete, SharedWith, TypeOK
  <2> QED
    BY <2>1, <2>3, <2>4, <2>5, TypeBegin DEF BeginDelete, PC, KernelPC
<1>4. CASE BeginFlush(c)
  <2>1. [Idle EXCEPT !.kind = "flush"] \in Job
    BY DEF Idle, Job, Kind, Prio
  <2>2. tainted' \in SUBSET Everything
    BY <1>1, <1>4 DEF BeginFlush, TypeOK
  <2> QED
    BY <1>4, <2>1, <2>2, TypeBegin DEF BeginFlush, PC, KernelPC
<1>5. CASE BeginRestore(c)
  <2>1. [Idle EXCEPT !.kind = "restore", !.todo = ClaimedIn(Addr, "high"),
                     !.rest = ClaimedIn(Addr, "low")] \in Job
    BY ClaimedType DEF Idle, Job, Kind, Prio
  <2>2. tainted' \in SUBSET Everything
    BY <1>1, <1>5 DEF BeginRestore, TypeOK
  <2> QED
    BY <1>5, <2>1, <2>2, TypeBegin DEF BeginRestore, PC
<1>6. CASE BeginRefresh(c)
  <2> DEFINE D == {d \in Domain : rules[d].prio # "none"}
             P == {[dom |-> d, id |-> rules[d].id, prio |-> rules[d].prio,
                    ips |-> rules[d].ips] : d \in D}
             S == D \cup UNION {rules[d].ips \cup UNION Answers[d] : d \in D}
  <2>1. \A d \in D : rules[d].id \in Nat /\ rules[d].prio \in Prio /\ rules[d].ips \in SUBSET Elem
    BY DEF TypeOK, Row, Target
  <2>2. P \in SUBSET Snapshot
    BY <2>1 DEF Snapshot
  <2>3. [Idle EXCEPT !.kind = "refresh", !.pending = P] \in Job
    BY <2>2 DEF Idle, Job, Kind, Prio
  <2>4. S \in SUBSET Everything
    BY <2>1 DEF Everything, Target, Elem
  <2>5. Begin(c, "resolve", [Idle EXCEPT !.kind = "refresh", !.pending = P], S)
        /\ tainted' = tainted \cup Clashes(c, S)
    BY <1>6 DEF BeginRefresh
  <2>6. tainted' \in SUBSET Everything
    BY <1>1, <2>4, <2>5 DEF TypeOK
  <2>7. "resolve" \in PC
    BY DEF PC
  <2> HIDE DEF S, P
  <2> QED
    BY <2>3, <2>4, <2>5, <2>6, <2>7, TypeBegin
<1> QED
  BY <1>2, <1>3, <1>4, <1>5, <1>6 DEF Request

\* Crashes and failing statements keep the types.
LEMMA TypeFault ==
    ASSUME TypeOK, NEW c \in Client, Fault(c)
    PROVE  TypeOK'
<1>0. Released(c) \in Client \cup {None}
  BY TypeReleased
<1>1. CASE Abort(c)
  BY <1>0, <1>1, IdleIsJob DEF Abort, TypeOK, PC
<1>2. CASE Orphan(c)
  <2>1. [job[c] EXCEPT !.dead = TRUE] \in Job
    BY JobUpdate DEF TypeOK
  <2> QED
    BY <1>2, <2>1 DEF Orphan, TypeOK
<1> QED
  BY <1>1, <1>2 DEF Fault

\* A reboot keeps the types.
LEMMA TypeReboot == TypeOK /\ Reboot => TypeOK'
<1> SUFFICES ASSUME TypeOK, Reboot PROVE TypeOK'
  OBVIOUS
<1>1. tainted' \in SUBSET Everything
  BY DEF Reboot, TypeOK, Claimed, Everything, Elem, Target
<1> QED
  BY <1>1, IdleIsJob DEF Reboot, TypeOK, PC

\* The daemon's next request keeps the types.
LEMMA TypeAccept == ASSUME TypeOK, NEW c \in Client, Accept(c) PROVE TypeOK'
BY DEF Accept, TypeOK

-----------------------------------------------------------------------------
(* Control: what the three forms of a step leave in the variables.         *)

OthersKeep(c) == \A d \in Client \ {c} :
    pc'[d] = pc[d] /\ job'[d] = job[d] /\ touch'[d] = touch[d]

\* Where a client is when its operation begins.
LEMMA BeginValues ==
    ASSUME TypeOK, NEW c \in Client, NEW p, NEW j, NEW S, Begin(c, p, j, S)
    PROVE  /\ pc'[c] = p /\ job'[c] = j /\ touch'[c] = S /\ OthersKeep(c)
           /\ pc[c] = "idle"
           /\ UNCHANGED <<nft, rules, nextId>>
BY DEF TypeOK, Begin, OthersKeep

\* Where a client is when its operation goes on.
LEMMA GotoValues ==
    ASSUME TypeOK, NEW c \in Client, NEW p, NEW j, Goto(c, p, j)
    PROVE  pc'[c] = p /\ job'[c] = j /\ touch'[c] = touch[c] /\ OthersKeep(c)
BY DEF TypeOK, Goto, OthersKeep

\* Where a client is when its operation ends.
LEMMA EndValues ==
    ASSUME TypeOK, NEW c \in Client, End(c)
    PROVE  pc'[c] = "idle" /\ job'[c] = Idle /\ touch'[c] = {} /\ OthersKeep(c)
BY DEF TypeOK, End, OthersKeep

\* Where a client is when its operation fails, and what it leaves behind.
LEMMA FailValues ==
    ASSUME TypeOK, NEW c \in Client, Fail(c)
    PROVE  /\ pc'[c] = "idle" /\ job'[c] = Idle /\ touch'[c] = {} /\ OthersKeep(c)
           /\ tainted' = tainted \cup touch[c] /\ UNCHANGED <<nft, rules, nextId>>
BY EndValues DEF Fail

-----------------------------------------------------------------------------
(* The shape of operations and of rows.                                    *)

Static == TypeOK /\ RowShape /\ \A c \in Client : Shape(c)

\* A client without an operation is where it may be.
LEMMA ShapeIdle ==
    ASSUME NEW c \in Client, pc'[c] = "idle", job'[c] = Idle, touch'[c] = {}
    PROVE  Shape(c)'
BY DEF Idle, Global, Shape, Place, Reach, Plan

\* A client that does not move stays where it may be.
LEMMA ShapeOther ==
    ASSUME NEW c \in Client, NEW d \in Client, OthersKeep(c), d # c,
           tainted \subseteq tainted', Shape(d)
    PROVE  Shape(d)'
BY DEF OthersKeep, Global, Shape, Place, Reach, Plan

\* A request to the kernel leads an operation where it may be.
LEMMA ShapeKernel ==
    ASSUME Static, NEW c \in Client, KernelStep(c)
    PROVE  Shape(c)' /\ OthersKeep(c) /\ tainted \subseteq tainted'
<1>0. TypeOK /\ Shape(c) /\ job[c] \in Job
  BY DEF Static, TypeOK
<1>1. CASE AddToSet(c)
  <2>1. PICK S \in Batches(job[c].todo) : Goto(c, "kadd", [job[c] EXCEPT !.todo = @ \ S])
    BY <1>1 DEF AddToSet
  <2>2. pc[c] = "kadd" /\ tainted' = tainted
    BY <1>1 DEF AddToSet, AtKernel
  <2>3. Place(c)'
    BY <1>0, <2>1, <2>2, GotoValues DEF Job, Shape, Place
  <2>4. Reach(c)'
    BY <1>0, <2>1, <2>2, GotoValues DEF Job, Shape, Place, Reach, Plan, Global
  <2>5. Plan(c)'
    BY <1>0, <2>1, <2>2, GotoValues DEF Job, Shape, Place, Plan
  <2> QED
    BY <1>0, <2>1, <2>2, GotoValues, <2>3, <2>4, <2>5 DEF Shape
<1>2. CASE AddRejected(c)
  BY <1>0, <1>2, FailValues, ShapeIdle DEF AddRejected
<1>3. CASE RemoveFromSet(c)
  <2>1. PICK e \in job[c].todo : Goto(c, "kdel", [job[c] EXCEPT !.todo = @ \ {e}])
    BY <1>3 DEF RemoveFromSet
  <2>2. pc[c] = "kdel" /\ tainted' = tainted
    BY <1>3 DEF RemoveFromSet, AtKernel
  <2>3. Place(c)'
    BY <1>0, <2>1, <2>2, GotoValues DEF Job, Shape, Place
  <2>4. Reach(c)'
    BY <1>0, <2>1, <2>2, GotoValues DEF Job, Shape, Place, Reach, Plan, Global
  <2>5. Plan(c)'
    BY <1>0, <2>1, <2>2, GotoValues DEF Job, Shape, Place, Plan
  <2> QED
    BY <1>0, <2>1, <2>2, GotoValues, <2>3, <2>4, <2>5 DEF Shape
<1>4. CASE RemoveMissing(c)
  <2>1. CASE Fail(c)
    BY <1>0, <2>1, FailValues, ShapeIdle
  <2>2. CASE /\ Swallows(c)
             /\ Goto(c, "drop", job[c])
             /\ tainted' = tainted \cup touch[c]
    <3>1. pc[c] = "kdel"
      BY <1>4 DEF RemoveMissing, AtKernel
    <3>2. Place(c)'
      BY <1>0, <2>2, <3>1, GotoValues DEF Job, Swallows, Shape, Place
    <3>3. Reach(c)'
      BY <1>0, <2>2, <3>1, GotoValues DEF Job, Swallows, Shape, Place, Reach, Plan, Global
    <3>4. Plan(c)'
      BY <1>0, <2>2, <3>1, GotoValues DEF Job, Swallows, Shape, Place, Plan
    <3> QED
      BY <1>0, <2>2, <3>1, GotoValues, <3>2, <3>3, <3>4 DEF Shape
  <2> QED
    BY <1>4, <2>1, <2>2 DEF RemoveMissing
<1>5. CASE FlushSets(c)
  <2>1. pc[c] = "kflush" /\ tainted' = tainted
    BY <1>5 DEF FlushSets, AtKernel
  <2>2. CASE End(c)
    BY <1>0, <2>1, <2>2, EndValues, ShapeIdle
  <2>3. CASE Goto(c, "fdom", job[c])
    <3>1. Place(c)'
      BY <1>0, <2>1, <2>3, GotoValues DEF Shape, Place
    <3>2. Reach(c)'
      BY <1>0, <2>1, <2>3, GotoValues DEF Shape, Place, Reach, Plan, Global
    <3>3. Plan(c)'
      BY <1>0, <2>1, <2>3, GotoValues DEF Shape, Place, Plan
    <3> QED
      BY <1>0, <2>1, <2>3, GotoValues, <3>1, <3>2, <3>3 DEF Shape
  <2> QED
    BY <1>5, <2>2, <2>3 DEF FlushSets
<1>6. CASE AddDone(c)
  <2>1. pc[c] = "kadd" /\ tainted' = tainted
    BY <1>6 DEF AddDone, RequestDone, AtKernel
  <2>2. CASE job[c].kind = "add" /\ Goto(c, "row", job[c])
    <3>1. Place(c)'
      BY <1>0, <2>1, <2>2, GotoValues DEF Shape, Place
    <3>2. Reach(c)'
      BY <1>0, <2>1, <2>2, GotoValues DEF Shape, Place, Reach, Plan, Global
    <3>3. Plan(c)'
      BY <1>0, <2>1, <2>2, GotoValues DEF Shape, Place, Plan
    <3> QED
      BY <1>0, <2>1, <2>2, GotoValues, <3>1, <3>2, <3>3 DEF Shape
  <2>3. CASE job[c].kind = "refresh" /\ Goto(c, "read", job[c])
    <3>1. Place(c)'
      BY <1>0, <2>1, <2>3, GotoValues DEF Shape, Place, Plan
    <3>2. Reach(c)'
      BY <1>0, <2>1, <2>3, GotoValues DEF Shape, Place, Reach, Plan, Global
    <3>3. Plan(c)'
      BY <1>0, <2>1, <2>3, GotoValues DEF Shape, Place, Plan
    <3> QED
      BY <1>0, <2>1, <2>3, GotoValues, <3>1, <3>2, <3>3 DEF Shape
  <2> QED
    BY <1>6, <2>2, <2>3 DEF AddDone
<1>7. CASE RemoveDone(c)
  <2>1. pc[c] = "kdel" /\ tainted' = tainted
    BY <1>7 DEF RemoveDone, RequestDone, AtKernel
  <2>2. Place(c)'
    BY <1>0, <1>7, <2>1, GotoValues DEF RemoveDone, Shape, Place
  <2>3. Reach(c)'
    BY <1>0, <1>7, <2>1, GotoValues DEF RemoveDone, Shape, Place, Reach, Plan, Global
  <2>4. Plan(c)'
    BY <1>0, <1>7, <2>1, GotoValues DEF RemoveDone, Shape, Place, Plan
  <2> QED
    BY <1>0, <1>7, <2>1, GotoValues, <2>2, <2>3, <2>4 DEF RemoveDone, Shape
<1>8. CASE RestoreHighDone(c)
  <2>1. pc[c] = "kadd" /\ tainted' = tainted
    BY <1>8 DEF RestoreHighDone, RequestDone, AtKernel
  <2>2. /\ ~job[c].dead /\ job[c].kind \in {"restore", "restoreSvc"}
        /\ Goto(c, "kadd", [job[c] EXCEPT !.prio = "low", !.todo = job[c].rest, !.rest = {}])
    BY <1>8 DEF RestoreHighDone
  <2>3. /\ job'[c] = [job[c] EXCEPT !.prio = "low", !.todo = job[c].rest, !.rest = {}]
         /\ pc'[c] = "kadd" /\ touch'[c] = touch[c] /\ OthersKeep(c)
    BY <1>0, <2>2, GotoValues
  <2>4. /\ job'[c].kind = job[c].kind /\ job'[c].target = job[c].target /\ job'[c].id = job[c].id
        /\ job'[c].prio = "low" /\ job'[c].todo = job[c].rest /\ job'[c].ips = job[c].ips
        /\ job'[c].rest = {} /\ job'[c].pending = job[c].pending /\ job'[c].dead = job[c].dead
    BY <1>0, <2>3 DEF Job
  <2>5. Place(c)'
    BY <1>0, <2>1, <2>2, <2>4, <2>3 DEF Shape, Place
  <2>6. Reach(c)'
    BY <1>0, <2>1, <2>2, <2>4, <2>3 DEF Shape, Place, Reach, Plan, Global
  <2>7. Plan(c)'
    BY <1>0, <2>1, <2>2, <2>4, <2>3 DEF Shape, Place, Plan
  <2> QED
    BY <1>0, <2>1, <2>2, <2>4, <2>3, <2>5, <2>6, <2>7 DEF Shape
<1>9. CASE RestoreHostsDone(c)
  <2>1. pc[c] = "kadd" /\ tainted' = tainted
    BY <1>9 DEF RestoreHostsDone, RequestDone, AtKernel
  <2>2. Place(c)'
    BY <1>0, <1>9, <2>1, GotoValues DEF RestoreHostsDone, Shape, Place
  <2>3. Reach(c)'
    BY <1>0, <1>9, <2>1, GotoValues DEF RestoreHostsDone, Shape, Place, Reach, Plan, Global
  <2>4. Plan(c)'
    BY <1>0, <1>9, <2>1, GotoValues DEF RestoreHostsDone, Shape, Place, Plan
  <2> QED
    BY <1>0, <1>9, <2>1, GotoValues, <2>2, <2>3, <2>4 DEF RestoreHostsDone, Shape
<1>10. CASE RestoreDone(c) \/ OrphanDone(c)
  BY <1>0, <1>10, EndValues, ShapeIdle DEF RestoreDone, OrphanDone, RequestDone
<1> QED
  BY <1>1, <1>2, <1>3, <1>4, <1>5, <1>6, <1>7, <1>8, <1>9, <1>10 DEF KernelStep

\* A statement on the database leads an operation where it may be.
LEMMA ShapeDb ==
    ASSUME Static, NEW c \in Client, DbStep(c)
    PROVE  Shape(c)' /\ OthersKeep(c) /\ tainted \subseteq tainted'
<1>0. TypeOK /\ Shape(c) /\ job[c] \in Job /\ RowShape
  BY DEF Static, TypeOK
<1>1. CASE InsertRow(c)
  <2>1. pc[c] = "row" /\ tainted' = tainted
    BY <1>1 DEF InsertRow
  <2>2. CASE job[c].target \in Domain
    <3>1. Place(c)'
      BY <1>0, <1>1, <2>1, <2>2, GotoValues DEF InsertRow, Shape, Place
    <3>2. Reach(c)'
      BY <1>0, <1>1, <2>1, <2>2, GotoValues DEF InsertRow, Shape, Place, Reach, Plan, Global
    <3>3. Plan(c)'
      BY <1>0, <1>1, <2>1, <2>2, GotoValues DEF InsertRow, Shape, Place, Plan
    <3> QED
      BY <1>0, <1>1, <2>1, <2>2, GotoValues, <3>1, <3>2, <3>3 DEF InsertRow, Shape
  <2>3. CASE job[c].target \notin Domain
    BY <1>0, <1>1, <2>1, <2>3, EndValues, ShapeIdle DEF InsertRow
  <2> QED
    BY <2>2, <2>3
<1>2. CASE ReadRow(c)
  <2>1. pc[c] = "read"
    BY <1>2 DEF ReadRow
  <2>2. CASE Fail(c)
    BY <1>0, <2>2, FailValues, ShapeIdle
  <2>3. CASE /\ rules[job[c].target].prio # "none"
             /\ Goto(c, "ips", [job[c] EXCEPT !.id = rules[job[c].target].id, !.todo = job[c].ips])
             /\ tainted' = tainted
    <3>1. rules[job[c].target].id > 0
      BY <1>0, <2>1, <2>3 DEF RowShape, Target, Shape, Place, Reach, Plan
    <3>2. /\ job'[c] = [job[c] EXCEPT !.id = rules[job[c].target].id, !.todo = job[c].ips]
           /\ pc'[c] = "ips" /\ touch'[c] = touch[c] /\ OthersKeep(c)
      BY <1>0, <2>3, GotoValues
    <3>3. /\ job'[c].kind = job[c].kind /\ job'[c].target = job[c].target /\ job'[c].id = rules[job[c].target].id
          /\ job'[c].prio = job[c].prio /\ job'[c].todo = job[c].ips /\ job'[c].ips = job[c].ips
          /\ job'[c].rest = job[c].rest /\ job'[c].pending = job[c].pending /\ job'[c].dead = job[c].dead
      BY <1>0, <3>2 DEF Job
    <3>4. Place(c)'
      BY <1>0, <2>1, <2>3, <3>1, <3>3, <3>2 DEF Shape, Place
    <3>5. Reach(c)'
      BY <1>0, <2>1, <2>3, <3>1, <3>3, <3>2 DEF Shape, Place, Reach, Plan, Global
    <3>6. Plan(c)'
      BY <1>0, <2>1, <2>3, <3>1, <3>3, <3>2 DEF Shape, Place, Plan
    <3> QED
      BY <1>0, <2>1, <2>3, <3>1, <3>3, <3>2, <3>4, <3>5, <3>6 DEF Shape
  <2> QED
    BY <1>2, <2>2, <2>3 DEF ReadRow
<1>3. CASE InsertIP(c)
  <2>1. PICK e \in job[c].todo : Goto(c, "ips", [job[c] EXCEPT !.todo = @ \ {e}])
    BY <1>3 DEF InsertIP
  <2>2. pc[c] = "ips" /\ tainted' = tainted
    BY <1>3 DEF InsertIP
  <2>3. Place(c)'
    BY <1>0, <2>1, <2>2, GotoValues DEF Job, Shape, Place
  <2>4. Reach(c)'
    BY <1>0, <2>1, <2>2, GotoValues DEF Job, Shape, Place, Reach, Plan, Global
  <2>5. Plan(c)'
    BY <1>0, <2>1, <2>2, GotoValues DEF Job, Shape, Place, Plan
  <2> QED
    BY <1>0, <2>1, <2>2, GotoValues, <2>3, <2>4, <2>5 DEF Shape
<1>4. CASE IPsDone(c)
  <2>1. pc[c] = "ips" /\ tainted' = tainted /\ job[c].todo = {}
    BY <1>4 DEF IPsDone
  <2>2. CASE job[c].kind = "refresh"
    <3>1. Place(c)'
      BY <1>0, <1>4, <2>1, <2>2, GotoValues DEF IPsDone, Shape, Place
    <3>2. Reach(c)'
      BY <1>0, <1>4, <2>1, <2>2, GotoValues DEF IPsDone, Shape, Place, Reach, Plan, Global
    <3>3. Plan(c)'
      BY <1>0, <1>4, <2>1, <2>2, GotoValues DEF IPsDone, Shape, Place, Plan
    <3> QED
      BY <1>0, <1>4, <2>1, <2>2, GotoValues, <3>1, <3>2, <3>3 DEF IPsDone, Shape
  <2>3. CASE job[c].kind # "refresh"
    BY <1>0, <1>4, <2>1, <2>3, EndValues, ShapeIdle DEF IPsDone
  <2> QED
    BY <2>2, <2>3
<1>5. CASE DropRow(c)
  BY <1>0, <1>5, EndValues, ShapeIdle DEF DropRow
<1>6. CASE FlushDomainRules(c)
  <2>1. pc[c] = "fdom" /\ tainted' = tainted /\ Goto(c, "fip", job[c])
    BY <1>6 DEF FlushDomainRules, FlushTable
  <2>2. Place(c)'
    BY <1>0, <2>1, GotoValues DEF Shape, Place
  <2>3. Reach(c)'
    BY <1>0, <2>1, GotoValues DEF Shape, Place, Reach, Plan, Global
  <2>4. Plan(c)'
    BY <1>0, <2>1, GotoValues DEF Shape, Place, Plan
  <2> QED
    BY <1>0, <2>1, GotoValues, <2>2, <2>3, <2>4 DEF Shape
<1>7. CASE FlushIPRules(c)
  <2>1. pc[c] = "fip" /\ tainted' = tainted /\ Goto(c, "fsvc", job[c])
    BY <1>7 DEF FlushIPRules, FlushTable
  <2>2. Place(c)'
    BY <1>0, <2>1, GotoValues DEF Shape, Place
  <2>3. Reach(c)'
    BY <1>0, <2>1, GotoValues DEF Shape, Place, Reach, Plan, Global
  <2>4. Plan(c)'
    BY <1>0, <2>1, GotoValues DEF Shape, Place, Plan
  <2> QED
    BY <1>0, <2>1, GotoValues, <2>2, <2>3, <2>4 DEF Shape
<1>8. CASE FlushServiceRules(c) \/ RefreshDone(c)
  BY <1>0, <1>8, EndValues, ShapeIdle DEF FlushServiceRules, FlushTable, RefreshDone
<1>9. CASE RestoreReadDomains(c)
  <2>1. /\ pc[c] = "domains" /\ tainted' = tainted
        /\ Goto(c, "kadd", [job[c] EXCEPT !.todo = @ \cup ClaimedIn(Domain, "high"),
                                          !.rest = @ \cup ClaimedIn(Domain, "low")])
    BY <1>9 DEF RestoreReadDomains
  <2>2. ClaimedIn(Domain, "high") \subseteq Everything /\ ClaimedIn(Domain, "low") \subseteq Everything
    BY <1>0, ClaimedType DEF Everything, Elem, Target
  <2>3. /\ job'[c] = [job[c] EXCEPT !.todo = @ \cup ClaimedIn(Domain, "high"), !.rest = @ \cup ClaimedIn(Domain, "low")]
         /\ pc'[c] = "kadd" /\ touch'[c] = touch[c] /\ OthersKeep(c)
    BY <1>0, <2>1, GotoValues
  <2>4. /\ job'[c].kind = job[c].kind /\ job'[c].target = job[c].target /\ job'[c].id = job[c].id
        /\ job'[c].prio = job[c].prio /\ job'[c].todo = job[c].todo \cup ClaimedIn(Domain, "high") /\ job'[c].ips = job[c].ips
        /\ job'[c].rest = job[c].rest \cup ClaimedIn(Domain, "low") /\ job'[c].pending = job[c].pending /\ job'[c].dead = job[c].dead
    BY <1>0, <2>3 DEF Job
  <2>5. Place(c)'
    BY <1>0, <2>1, <2>2, <2>4, <2>3 DEF Shape, Place
  <2>6. Reach(c)'
    BY <1>0, <2>1, <2>2, <2>4, <2>3 DEF Shape, Place, Reach, Plan, Global
  <2>7. Plan(c)'
    BY <1>0, <2>1, <2>2, <2>4, <2>3 DEF Shape, Place, Plan
  <2> QED
    BY <1>0, <2>1, <2>2, <2>4, <2>3, <2>5, <2>6, <2>7 DEF Shape
<1>10. CASE RestoreReadServices(c)
  <2>1. /\ pc[c] = "services" /\ tainted' = tainted
        /\ Goto(c, "kadd", [job[c] EXCEPT !.kind = "restoreSvc", !.prio = "high",
                                      !.todo = ClaimedIn(Service, "high"),
                                      !.rest = ClaimedIn(Service, "low")])
    BY <1>10 DEF RestoreReadServices
  <2>2. ClaimedIn(Service, "high") \subseteq Everything /\ ClaimedIn(Service, "low") \subseteq Everything
    BY <1>0, ClaimedType DEF Everything, Elem, Target
  <2>3. /\ job'[c] = [job[c] EXCEPT !.kind = "restoreSvc", !.prio = "high", !.todo = ClaimedIn(Service, "high"), !.rest = ClaimedIn(Service, "low")]
         /\ pc'[c] = "kadd" /\ touch'[c] = touch[c] /\ OthersKeep(c)
    BY <1>0, <2>1, GotoValues
  <2>4. /\ job'[c].kind = "restoreSvc" /\ job'[c].target = job[c].target /\ job'[c].id = job[c].id
        /\ job'[c].prio = "high" /\ job'[c].todo = ClaimedIn(Service, "high") /\ job'[c].ips = job[c].ips
        /\ job'[c].rest = ClaimedIn(Service, "low") /\ job'[c].pending = job[c].pending /\ job'[c].dead = job[c].dead
    BY <1>0, <2>3 DEF Job
  <2>5. Place(c)'
    BY <1>0, <2>1, <2>2, <2>4, <2>3 DEF Shape, Place
  <2>6. Reach(c)'
    BY <1>0, <2>1, <2>2, <2>4, <2>3 DEF Shape, Place, Reach, Plan, Global
  <2>7. Plan(c)'
    BY <1>0, <2>1, <2>2, <2>4, <2>3 DEF Shape, Place, Plan
  <2> QED
    BY <1>0, <2>1, <2>2, <2>4, <2>3, <2>5, <2>6, <2>7 DEF Shape
<1>11. CASE Resolve(c)
  <2>1. PICK r \in job[c].pending, A \in UNION {Answers[d] : d \in Domain} :
        /\ A \in Answers[r.dom]
        /\ Goto(c, "kdel", [job[c] EXCEPT !.target = r.dom, !.id = r.id, !.prio = r.prio,
                                          !.todo = r.ips, !.ips = A,
                                          !.pending = @ \ {r}])
    BY <1>11 DEF Resolve
  <2>2. r.dom \in Domain /\ pc[c] = "resolve" /\ tainted \subseteq tainted'
    BY <1>0, <1>11, <2>1 DEF Resolve, Job, Snapshot
  <2>3. /\ job'[c] = [job[c] EXCEPT !.target = r.dom, !.id = r.id, !.prio = r.prio, !.todo = r.ips, !.ips = A, !.pending = @ \ {r}]
         /\ pc'[c] = "kdel" /\ touch'[c] = touch[c] /\ OthersKeep(c)
    BY <1>0, <2>1, GotoValues
  <2>4. /\ job'[c].kind = job[c].kind /\ job'[c].target = r.dom /\ job'[c].id = r.id
        /\ job'[c].prio = r.prio /\ job'[c].todo = r.ips /\ job'[c].ips = A
        /\ job'[c].rest = job[c].rest /\ job'[c].pending = job[c].pending \ {r} /\ job'[c].dead = job[c].dead
    BY <1>0, <2>3 DEF Job
  <2>5. Place(c)'
    BY <1>0, <2>1, <2>2, <2>4, <2>3 DEF Shape, Place
  <2>6. Reach(c)'
    BY <1>0, <2>1, <2>2, <2>4, <2>3 DEF Shape, Place, Reach, Plan, Global
  <2>7. Plan(c)'
    BY <1>0, <2>1, <2>2, <2>4, <2>3 DEF Shape, Place, Plan
  <2> QED
    BY <1>0, <2>1, <2>2, <2>4, <2>3, <2>5, <2>6, <2>7 DEF Shape
<1>12. CASE ClearIPs(c)
  <2>1. /\ pc[c] = "clear" /\ tainted' = tainted
        /\ Goto(c, "kadd", [job[c] EXCEPT !.todo = job[c].ips])
    BY <1>12 DEF ClearIPs
  <2>2. Place(c)'
    BY <1>0, <2>1, GotoValues DEF Job, Shape, Place
  <2>3. Reach(c)'
    BY <1>0, <2>1, GotoValues DEF Job, Shape, Place, Reach, Plan, Global
  <2>4. Plan(c)'
    BY <1>0, <2>1, GotoValues DEF Job, Shape, Place, Plan
  <2> QED
    BY <1>0, <2>1, GotoValues, <2>2, <2>3, <2>4 DEF Shape
<1> QED
  BY <1>1, <1>2, <1>3, <1>4, <1>5, <1>6, <1>7, <1>8, <1>9, <1>10, <1>11, <1>12 DEF DbStep

\* A flush on its own forgets what was tainted: then there is no other operation.
LEMMA ShapeRequest ==
    ASSUME Static, NEW c \in Client, Request(c)
    PROVE  /\ Shape(c)' /\ OthersKeep(c)
           /\ UNCHANGED <<nft, rules, nextId>>
           /\ \/ tainted \subseteq tainted'
              \/ \A d \in Client \ {c} : pc[d] = "idle"
<1>0. TypeOK /\ Shape(c) /\ RowShape
  BY DEF Static
<1>1. CASE \E t \in Wanted, k \in Prio : BeginAdd(c, t, k)
  <2>1. PICK t \in Wanted, k \in Prio : BeginAdd(c, t, k)
    BY <1>1
  <2>2. PICK A \in (IF t \in Domain THEN Answers[t] ELSE {{t}}) :
        /\ Begin(c, "kadd", [Idle EXCEPT !.kind = "add", !.target = t, !.prio = k,
                                         !.todo = A, !.ips = A], {t} \cup A)
        /\ tainted' = tainted \cup Clashes(c, {t} \cup A)
    BY <2>1 DEF BeginAdd
  <2>3. /\ job'[c] = [Idle EXCEPT !.kind = "add", !.target = t, !.prio = k,
                                  !.todo = A, !.ips = A]
        /\ pc'[c] = "kadd" /\ touch'[c] = {t} \cup A
        /\ OthersKeep(c) /\ UNCHANGED <<nft, rules, nextId>>
    BY <1>0, <2>2, BeginValues
  <2>4. /\ job'[c].kind = "add" /\ job'[c].target = t /\ job'[c].prio = k
        /\ job'[c].todo = A /\ job'[c].ips = A /\ job'[c].rest = {}
        /\ job'[c].pending = {} /\ job'[c].dead = FALSE
    BY <2>3 DEF Idle
  <2>5. t \in Target /\ A \subseteq Elem /\ (t \in Elem => A = {t}) /\ (t \in Domain => A \in Answers[t])
    BY DEF Elem, Target
  <2>6. Place(c)'
    BY <2>3, <2>4 DEF Place
  <2>7. Reach(c)'
    BY <2>3, <2>4, <2>5 DEF Reach, Global, Elem, Target
  <2>8. Plan(c)'
    BY <2>3, <2>4, <2>5 DEF Plan
  <2> QED
    BY <2>2, <2>3, <2>6, <2>7, <2>8 DEF Shape
<1>2. CASE \E t \in Target, byName \in BOOLEAN : BeginDelete(c, t, byName)
  <2>1. PICK t \in Target, byName \in BOOLEAN : BeginDelete(c, t, byName)
    BY <1>2
  <2>2. /\ job'[c] = [Idle EXCEPT !.kind = "delete", !.target = t, !.byName = byName,
                                  !.id = rules[t].id, !.prio = rules[t].prio,
                                  !.todo = rules[t].ips, !.ips = rules[t].ips]
        /\ pc'[c] = "kdel" /\ touch'[c] = {t} \cup rules[t].ips
        /\ OthersKeep(c) /\ UNCHANGED <<nft, rules, nextId>> /\ tainted \subseteq tainted'
    BY <1>0, <2>1, BeginValues DEF BeginDelete
  <2>3. /\ job'[c].kind = "delete" /\ job'[c].target = t
        /\ job'[c].todo = rules[t].ips /\ job'[c].ips = rules[t].ips /\ job'[c].rest = {}
        /\ job'[c].pending = {} /\ job'[c].dead = FALSE
    BY <2>2 DEF Idle
  <2>4. rules[t].ips \subseteq Target /\ (t \in Elem => rules[t].ips = {t})
    BY <1>0, <2>1 DEF BeginDelete, RowShape, Elem, Target
  <2>5. Place(c)'
    BY <2>2, <2>3 DEF Place
  <2>6. Reach(c)'
    BY <2>2, <2>3, <2>4 DEF Reach, Global
  <2>7. Plan(c)'
    BY <2>2, <2>3 DEF Plan
  <2> QED
    BY <2>2, <2>5, <2>6, <2>7 DEF Shape
<1>3. CASE BeginFlush(c)
  <2>1. /\ job'[c] = [Idle EXCEPT !.kind = "flush"]
        /\ pc'[c] = "kflush" /\ touch'[c] = Everything
        /\ OthersKeep(c) /\ UNCHANGED <<nft, rules, nextId>>
    BY <1>0, <1>3, BeginValues DEF BeginFlush
  <2>2. /\ job'[c].kind = "flush" /\ job'[c].todo = {} /\ job'[c].rest = {}
        /\ job'[c].pending = {} /\ job'[c].dead = FALSE
    BY <2>1 DEF Idle
  <2>3. Place(c)' /\ Reach(c)' /\ Plan(c)'
    BY <2>1, <2>2 DEF Place, Reach, Plan, Global
  <2> QED
    BY <1>3, <2>1, <2>3 DEF BeginFlush, Shape
<1>4. CASE BeginRestore(c)
  <2>1. /\ job'[c] = [Idle EXCEPT !.kind = "restore", !.todo = ClaimedIn(Addr, "high"),
                                  !.rest = ClaimedIn(Addr, "low")]
        /\ pc'[c] = "domains" /\ touch'[c] = Everything
        /\ OthersKeep(c) /\ UNCHANGED <<nft, rules, nextId>> /\ tainted \subseteq tainted'
    BY <1>0, <1>4, BeginValues DEF BeginRestore
  <2>2. /\ job'[c].kind = "restore" /\ job'[c].prio = "high"
        /\ job'[c].todo = ClaimedIn(Addr, "high") /\ job'[c].rest = ClaimedIn(Addr, "low")
        /\ job'[c].pending = {} /\ job'[c].dead = FALSE
    BY <2>1 DEF Idle
  <2>3. Place(c)'
    BY <2>1, <2>2 DEF Place
  <2>4. Reach(c)'
    BY <1>0, <2>1, <2>2, ClaimedType DEF Reach, Global, Everything, Elem, Target
  <2>5. Plan(c)'
    BY <2>1, <2>2 DEF Plan
  <2> QED
    BY <2>1, <2>3, <2>4, <2>5 DEF Shape
<1>5. CASE BeginRefresh(c)
  <2> DEFINE D == {d \in Domain : rules[d].prio # "none"}
             P == {[dom |-> d, id |-> rules[d].id, prio |-> rules[d].prio,
                    ips |-> rules[d].ips] : d \in D}
             S == D \cup UNION {rules[d].ips \cup UNION Answers[d] : d \in D}
  <2>1. Begin(c, "resolve", [Idle EXCEPT !.kind = "refresh", !.pending = P], S)
        /\ tainted' = tainted \cup Clashes(c, S)
    BY <1>5 DEF BeginRefresh
  <2>2. \A r \in P : r.dom \in D /\ r.ips = rules[r.dom].ips
                     /\ r = [dom |-> r.dom, id |-> rules[r.dom].id,
                             prio |-> rules[r.dom].prio, ips |-> rules[r.dom].ips]
    OBVIOUS
  <2>3. \A r \in P : /\ {r.dom} \cup r.ips \cup UNION Answers[r.dom] \subseteq S
                     /\ \A s \in P : s.dom = r.dom => s = r
    BY <2>2
  <2>4. S \subseteq Target
    <3>1. \A d \in D : d \in Target /\ rules[d].ips \subseteq Target /\ UNION Answers[d] \subseteq Target
      BY <1>0 DEF RowShape, Target
    <3> QED
      BY <3>1
  <2> HIDE DEF S, P, D
  <2>5. /\ job'[c] = [Idle EXCEPT !.kind = "refresh", !.pending = P]
        /\ pc'[c] = "resolve" /\ touch'[c] = S
        /\ OthersKeep(c) /\ UNCHANGED <<nft, rules, nextId>> /\ tainted \subseteq tainted'
    BY <1>0, <2>1, BeginValues
  <2>6. /\ job'[c].kind = "refresh" /\ job'[c].todo = {} /\ job'[c].rest = {}
        /\ job'[c].pending = P /\ job'[c].dead = FALSE
    BY <2>5 DEF Idle
  <2>7. Place(c)'
    BY <2>5, <2>6 DEF Place
  <2>8. Reach(c)'
    BY <2>4, <2>5, <2>6 DEF Reach, Global
  <2>9. Plan(c)'
    BY <2>3, <2>5, <2>6 DEF Plan
  <2> QED
    BY <2>5, <2>7, <2>8, <2>9 DEF Shape
<1> QED
  BY <1>1, <1>2, <1>3, <1>4, <1>5 DEF Request

\* Crashes lead an operation where it may be.
LEMMA ShapeFault ==
    ASSUME Static, NEW c \in Client, Fault(c)
    PROVE  /\ Shape(c)' /\ OthersKeep(c) /\ tainted' = tainted \cup touch[c]
           /\ UNCHANGED <<nft, rules, nextId>>
<1>0. TypeOK /\ Shape(c) /\ job[c] \in Job
  BY DEF Static, TypeOK
<1>1. CASE Abort(c)
  <2>1. pc'[c] = "idle" /\ job'[c] = Idle /\ touch'[c] = {} /\ OthersKeep(c)
    BY <1>0, <1>1 DEF Abort, TypeOK, OthersKeep
  <2> QED
    BY <1>1, <2>1, ShapeIdle DEF Abort
<1>2. CASE Orphan(c)
  <2>1. /\ job'[c] = [job[c] EXCEPT !.dead = TRUE]
        /\ pc'[c] = pc[c] /\ pc[c] # "idle" /\ touch'[c] = touch[c] /\ OthersKeep(c)
        /\ tainted' = tainted \cup touch[c]
    BY <1>0, <1>2 DEF Orphan, TypeOK, OthersKeep, KernelPC
  <2>2. /\ job'[c].kind = job[c].kind /\ job'[c].target = job[c].target
        /\ job'[c].id = job[c].id /\ job'[c].prio = job[c].prio
        /\ job'[c].todo = job[c].todo /\ job'[c].ips = job[c].ips
        /\ job'[c].rest = job[c].rest /\ job'[c].pending = job[c].pending
    BY <1>0, <2>1 DEF Job
  <2>3. Place(c)'
    BY <1>0, <2>1, <2>2 DEF Shape, Place
  <2>4. Reach(c)'
    BY <1>0, <2>1, <2>2 DEF Shape, Reach, Global
  <2>5. Plan(c)'
    BY <1>0, <2>1, <2>2 DEF Shape, Plan
  <2> QED
    BY <1>2, <2>1, <2>3, <2>4, <2>5 DEF Orphan, Shape
<1> QED
  BY <1>1, <1>2 DEF Fault

\* A row that a step leaves alone keeps its shape.
LEMMA RowsUnchanged ==
    ASSUME RowShape, TypeOK, UNCHANGED <<rules, nextId>>
    PROVE  RowShape'
BY DEF RowShape

\* A statement that concerns one target leaves the other rows alone.
LEMMA RowsChange ==
    ASSUME TypeOK, RowShape, NEW t \in Target, NEW r \in Row,
           rules' = [rules EXCEPT ![t] = r], nextId' \in Nat, nextId <= nextId',
           r.id < nextId',
           r.prio = "none" => r = NoRow,
           r.prio # "none" => /\ r.id > 0
                              /\ IF t \in Domain THEN r.ips \subseteq Addr
                                                 ELSE r.ips = {t}
    PROVE  RowShape'
<1> SUFFICES ASSUME NEW u \in Target
             PROVE  /\ rules'[u].id < nextId'
                    /\ rules'[u].prio = "none" => rules'[u] = NoRow
                    /\ rules'[u].prio # "none" =>
                          /\ rules'[u].id > 0
                          /\ IF u \in Domain THEN rules'[u].ips \subseteq Addr
                                             ELSE rules'[u].ips = {u}
  BY DEF RowShape
<1>1. CASE u = t
  BY <1>1 DEF TypeOK
<1>2. CASE u # t
  <2>1. rules'[u] = rules[u]
    BY <1>2 DEF TypeOK
  <2>2. rules[u].id \in Nat /\ nextId \in Nat
    BY DEF TypeOK, Row
  <2> QED
    BY <2>1, <2>2 DEF RowShape
<1> QED
  BY <1>1, <1>2

\* The statements of the database keep the shape of the rows.
LEMMA RowsDb ==
    ASSUME Static, NEW c \in Client, DbStep(c)
    PROVE  RowShape'
<1>0. TypeOK /\ RowShape /\ Shape(c) /\ job[c] \in Job
  BY DEF Static, TypeOK
<1>1. \A t \in Target : rules[t] \in Row /\ rules[t].id \in Nat /\ rules[t].ips \in SUBSET Elem
  BY <1>0 DEF TypeOK, Row
<1>2. NoRow \in Row /\ NoRow.prio = "none" /\ NoRow.id = 0 /\ NoRow.ips = {}
  BY DEF NoRow, Row
<1>3. nextId \in Nat \ {0} /\ job[c].prio \in Prio
  BY <1>0 DEF TypeOK, Job
<1>4. CASE InsertRow(c)
  <2>1. CASE UNCHANGED <<rules, nextId>>
    BY <1>0, <2>1, RowsUnchanged
  <2> DEFINE t == job[c].target
             r == [id |-> nextId, prio |-> job[c].prio, ips |-> IF t \in Domain THEN {} ELSE {t}]
  <2>2. CASE rules' = [rules EXCEPT ![t] = r] /\ nextId' = nextId + 1
    <3>1. t \in Target
      BY <1>0, <1>4 DEF InsertRow, Shape, Place, Reach
    <3>2. r \in Row /\ r.id = nextId /\ r.prio # "none"
          /\ (IF t \in Domain THEN r.ips \subseteq Addr ELSE r.ips = {t})
      BY <1>3, <3>1 DEF Row, Prio, Target, Elem
    <3> HIDE DEF r, t
    <3>3. nextId' \in Nat /\ nextId <= nextId' /\ r.id < nextId' /\ r.id > 0
      BY <1>3, <2>2, <3>2
    <3> QED
      BY <1>0, <2>2, <3>1, <3>2, <3>3, RowsChange
  <2> QED
    BY <1>4, <2>1, <2>2 DEF InsertRow
<1>5. CASE InsertIP(c)
  <2>1. PICK e \in job[c].todo :
            rules' = IF rules[job[c].target].id = job[c].id
                     THEN [rules EXCEPT ![job[c].target].ips = @ \cup {e}] ELSE rules
    BY <1>5 DEF InsertIP
  <2>2. nextId' = nextId /\ pc[c] = "ips"
    BY <1>5 DEF InsertIP
  <2>3. CASE rules' = rules
    BY <1>0, <2>2, <2>3, RowsUnchanged
  <2> DEFINE t == job[c].target
             r == [rules[t] EXCEPT !.ips = @ \cup {e}]
  <2>4. CASE rules[t].id = job[c].id /\ rules' = [rules EXCEPT ![t].ips = @ \cup {e}]
    <3>1. t \in Domain /\ t \in Target /\ job[c].id > 0
      BY <1>0, <2>2 DEF Shape, Place, Reach, Target
    <3>2. e \in Addr /\ e \in Elem
      <4>1. job[c].ips \in Answers[t] /\ e \in job[c].ips
        BY <1>0, <2>1, <2>2 DEF Shape, Place, Reach, Plan
      <4> QED
        BY <3>1, <4>1 DEF Elem
    <3>3. rules[t].prio # "none" /\ rules[t].ips \subseteq Addr
      BY <1>0, <1>2, <2>4, <3>1 DEF RowShape
    <3>4. rules' = [rules EXCEPT ![t] = r]
      BY <1>0, <2>4, <3>1 DEF TypeOK
    <3>5. r \in Row /\ r.id = rules[t].id /\ r.prio = rules[t].prio /\ r.ips = rules[t].ips \cup {e}
      BY <1>1, <3>1, <3>2 DEF Row
    <3>6. rules[t].id < nextId
      BY <1>0, <3>1 DEF RowShape
    <3> HIDE DEF r, t
    <3>7. /\ nextId' \in Nat /\ nextId <= nextId' /\ r.id < nextId' /\ r.prio # "none"
          /\ r.id > 0 /\ r.ips \subseteq Addr
      BY <1>3, <2>2, <2>4, <3>1, <3>2, <3>3, <3>5, <3>6
    <3> QED
      BY <1>0, <3>1, <3>4, <3>5, <3>7, RowsChange
  <2> QED
    BY <2>1, <2>3, <2>4
<1>6. CASE DropRow(c)
  <2>1. CASE rules' = rules
    BY <1>0, <1>6, <2>1, RowsUnchanged DEF DropRow
  <2>2. CASE rules' = [rules EXCEPT ![job[c].target] = NoRow]
    <3>1. job[c].target \in Target
      BY <1>0, <1>6 DEF DropRow, Shape, Place, Reach
    <3>2. nextId' = nextId /\ 0 < nextId
      BY <1>3, <1>6 DEF DropRow
    <3>3. nextId' \in Nat /\ nextId <= nextId' /\ NoRow.id < nextId'
      BY <1>2, <1>3, <3>2
    <3> QED
      BY <1>0, <1>2, <2>2, <3>1, <3>3, RowsChange
  <2> QED
    BY <1>6, <2>1, <2>2 DEF DropRow
<1>7. ASSUME NEW p, NEW T, FlushTable(c, p, T)
      PROVE  RowShape'
  <2>1. \A t \in Target : rules'[t] = NoRow \/ rules'[t] = rules[t]
    BY <1>7 DEF FlushTable
  <2>2. nextId' = nextId
    BY <1>7 DEF FlushTable
  <2> QED
    BY <1>0, <1>2, <1>3, <2>1, <2>2 DEF RowShape
<1>8. CASE FlushDomainRules(c) \/ FlushIPRules(c) \/ FlushServiceRules(c)
  BY <1>7, <1>8 DEF FlushDomainRules, FlushIPRules, FlushServiceRules
<1>9. CASE ClearIPs(c)
  <2>1. nextId' = nextId /\ pc[c] = "clear"
    BY <1>9 DEF ClearIPs
  <2>2. CASE rules' = rules
    BY <1>0, <2>1, <2>2, RowsUnchanged
  <2> DEFINE t == job[c].target
             r == [rules[t] EXCEPT !.ips = {}]
  <2>3. CASE rules' = [rules EXCEPT ![t].ips = {}]
    <3>1. t \in Domain /\ t \in Target
      BY <1>0, <2>1 DEF Shape, Place, Plan, Target
    <3>2. rules' = [rules EXCEPT ![t] = r]
      BY <1>0, <2>3, <3>1 DEF TypeOK
    <3>3. r \in Row /\ r.id = rules[t].id /\ r.prio = rules[t].prio /\ r.ips = {}
      BY <1>1, <3>1 DEF Row
    <3>4. ASSUME rules[t].prio = "none" PROVE r = NoRow
      <4>1. rules[t] = NoRow
        BY <1>0, <3>1, <3>4 DEF RowShape
      <4>2. \A x, y \in Row : x.id = y.id /\ x.prio = y.prio /\ x.ips = y.ips => x = y
        BY DEF Row
      <4> HIDE DEF r
      <4> QED
        BY <1>2, <3>3, <3>4, <4>1, <4>2
    <3>5. rules[t].id < nextId /\ (rules[t].prio # "none" => rules[t].id > 0)
      BY <1>0, <3>1 DEF RowShape
    <3> HIDE DEF r, t
    <3>6. nextId' \in Nat /\ nextId <= nextId' /\ r.id < nextId'
          /\ (r.prio # "none" => r.id > 0) /\ (t \in Domain) /\ r.ips \subseteq Addr
      BY <1>3, <2>1, <3>1, <3>3, <3>5
    <3> QED
      BY <1>0, <3>1, <3>2, <3>3, <3>4, <3>6, RowsChange
  <2> QED
    BY <1>9, <2>2, <2>3 DEF ClearIPs
<1>10. CASE \/ ReadRow(c) \/ IPsDone(c) \/ RestoreReadDomains(c) \/ RestoreReadServices(c)
            \/ Resolve(c) \/ RefreshDone(c)
  BY <1>0, <1>10, RowsUnchanged
     DEF ReadRow, Fail, IPsDone, RestoreReadDomains, RestoreReadServices, Resolve, RefreshDone
<1> QED
  BY <1>4, <1>5, <1>6, <1>8, <1>9, <1>10 DEF DbStep

\* Requests to the kernel do not concern the database.
LEMMA KernelKeepsRows ==
    ASSUME NEW c \in Client, KernelStep(c)
    PROVE  UNCHANGED <<rules, nextId>>
BY DEF KernelStep, AddToSet, AddRejected, Fail, RemoveFromSet, RemoveMissing, FlushSets, AddDone,
       RemoveDone, RestoreHighDone, RestoreHostsDone, RestoreDone, OrphanDone, RequestDone

\* The shape of the state: types, rows, and where operations can be.
LEMMA StaticStep == Static /\ [Next]_vars => Static'
<1> SUFFICES ASSUME Static, [Next]_vars PROVE Static'
  OBVIOUS
<1>0. TypeOK /\ RowShape /\ \A c \in Client : Shape(c)
  BY DEF Static
<1>1. ASSUME NEW c \in Client, Shape(c)', OthersKeep(c),
             tainted \subseteq tainted' \/ \A d \in Client \ {c} : pc[d] = "idle"
      PROVE  \A d \in Client : Shape(d)'
  <2> SUFFICES ASSUME NEW d \in Client, d # c PROVE Shape(d)'
    BY <1>1
  <2>1. CASE tainted \subseteq tainted'
    BY <1>0, <1>1, <2>1, ShapeOther
  <2>2. CASE pc[d] = "idle"
    BY <1>0, <1>1, <2>2, ShapeIdle DEF OthersKeep, Shape, Reach
  <2> QED
    BY <1>1, <2>1, <2>2
<1>2. ASSUME NEW c \in Client, Request(c) PROVE Static'
  BY <1>0, <1>1, <1>2, ShapeRequest, TypeRequest, RowsUnchanged DEF Static
<1>3. ASSUME NEW c \in Client, Accept(c) PROVE Static'
  <2>1. \A d \in Client : Shape(d)'
    BY <1>0, <1>3 DEF Accept, Shape, Place, Reach, Plan, Global
  <2> QED
    BY <1>0, <1>3, <2>1, TypeAccept, RowsUnchanged DEF Static, Accept
<1>4. ASSUME NEW c \in Client, KernelStep(c) PROVE Static'
  BY <1>0, <1>1, <1>4, ShapeKernel, TypeKernel, KernelKeepsRows, RowsUnchanged DEF Static
<1>5. ASSUME NEW c \in Client, DbStep(c) PROVE Static'
  BY <1>0, <1>1, <1>5, ShapeDb, TypeDb, RowsDb DEF Static
<1>6. ASSUME NEW c \in Client, Fault(c) PROVE Static'
  BY <1>0, <1>1, <1>6, ShapeFault, TypeFault, RowsUnchanged DEF Static
<1>7. CASE Reboot
  <2>1. \A d \in Client : Shape(d)'
    BY <1>7, ShapeIdle DEF Reboot
  <2> QED
    BY <1>0, <1>7, <2>1, TypeReboot, RowsUnchanged DEF Static, Reboot
<1>8. CASE UNCHANGED vars
  BY <1>0, <1>8 DEF Static, vars, TypeOK, RowShape, Shape, Place, Reach, Plan, Global
<1> QED
  BY <1>2, <1>3, <1>4, <1>5, <1>6, <1>7, <1>8 DEF Next

\* An empty database has rows of the shape, and nobody is at work.
LEMMA StaticInit == Init => Static
<1> SUFFICES ASSUME Init PROVE Static
  OBVIOUS
<1>1. NoRow \in Row /\ NoRow.prio = "none" /\ NoRow.id = 0
  BY DEF NoRow, Row
<1>2. TypeOK
  BY <1>1, IdleIsJob DEF Init, TypeOK, PC, Everything
<1>3. RowShape
  BY <1>1 DEF Init, RowShape
<1>4. \A c \in Client : Shape(c)
  BY DEF Init, Shape, Place, Reach, Plan, Global, Idle
<1> QED
  BY <1>2, <1>3, <1>4 DEF Static

\* Rows are as the statements leave them, and an operation is only where its kind
\* may be, with what it may carry (the managers' methods of internal/qos).
THEOREM StaticCorrect == Spec => []Static
BY StaticInit, StaticStep, PTL DEF Spec

\* Every variable keeps its type, whatever the clients, the daemon, faults and
\* reboots do (the tables and the manager's local variables).
THEOREM TypeCorrect == Spec => []TypeOK
<1>1. Static => TypeOK
  BY DEF Static
<1> QED
  BY <1>1, StaticCorrect, PTL

-----------------------------------------------------------------------------
(* Operations go forward.                                                  *)

\* Each step of an operation at the kernel brings it nearer to its end.
LEMMA AdvanceKernel ==
    ASSUME Static, NEW c \in Client, KernelStep(c)
    PROVE  pc'[c] = "idle" \/ Nearer(c)
<1>0. TypeOK /\ Place(c) /\ job[c] \in Job
  BY DEF Static, TypeOK, Shape
<1>1. CASE AddToSet(c)
  <2>1. PICK S \in Batches(job[c].todo) : Goto(c, "kadd", [job[c] EXCEPT !.todo = @ \ S])
    BY <1>1 DEF AddToSet
  <2>2. pc[c] = "kadd" /\ \E e \in job[c].todo : e \in S
    BY <1>1, <2>1 DEF AddToSet, AtKernel, Batches
  <2>3. /\ pc'[c] = "kadd" /\ job'[c].kind = job[c].kind /\ job'[c].prio = job[c].prio
        /\ job'[c].pending = job[c].pending /\ job'[c].todo = job[c].todo \ S
    BY <1>0, <2>1, GotoValues DEF Job
  <2>4. StagesLeft(pc'[c], job'[c]) = StagesLeft(pc[c], job[c])
    BY <2>2, <2>3 DEF StagesLeft
  <2>5. StagesLeft(pc[c], job[c]) \in Nat
    BY <2>2 DEF StagesLeft
  <2> QED
    BY <2>2, <2>3, <2>4, <2>5 DEF Nearer
<1>2. CASE RemoveFromSet(c)
  <2>1. PICK e \in job[c].todo : Goto(c, "kdel", [job[c] EXCEPT !.todo = @ \ {e}])
    BY <1>2 DEF RemoveFromSet
  <2>2. pc[c] = "kdel"
    BY <1>2 DEF RemoveFromSet, AtKernel
  <2>3. /\ pc'[c] = "kdel" /\ job'[c].pending = job[c].pending
        /\ job'[c].todo = job[c].todo \ {e}
    BY <1>0, <2>1, GotoValues DEF Job
  <2>4. StagesLeft("kdel", job[c]) = 6 /\ StagesLeft("kdel", job'[c]) = 6
    BY DEF StagesLeft
  <2> QED
    BY <2>1, <2>2, <2>3, <2>4 DEF Nearer
<1>3. CASE AddRejected(c)
  BY <1>0, <1>3, FailValues DEF AddRejected
<1>4. CASE RestoreDone(c) \/ OrphanDone(c)
  BY <1>0, <1>4, EndValues DEF RestoreDone, OrphanDone
<1>5. ASSUME NEW p, Goto(c, p, job[c]),
             StagesLeft(p, job[c]) < StagesLeft(pc[c], job[c]),
             StagesLeft(p, job[c]) \in Nat, StagesLeft(pc[c], job[c]) \in Nat
      PROVE  Nearer(c)
  BY <1>0, <1>5, GotoValues DEF Nearer
<1>6. CASE RemoveMissing(c)
  <2>1. CASE Fail(c)
    BY <1>0, <2>1, FailValues
  <2>2. CASE Goto(c, "drop", job[c])
    <3>1. StagesLeft("drop", job[c]) = 0 /\ StagesLeft("kdel", job[c]) = 6
      BY DEF StagesLeft
    <3> QED
      BY <1>5, <1>6, <2>2, <3>1 DEF RemoveMissing, AtKernel
  <2> QED
    BY <1>6, <2>1, <2>2 DEF RemoveMissing
<1>7. CASE FlushSets(c)
  <2>1. CASE End(c)
    BY <1>0, <2>1, EndValues
  <2>2. CASE Goto(c, "fdom", job[c])
    <3>1. StagesLeft("fdom", job[c]) = 5 /\ StagesLeft("kflush", job[c]) = 6
      BY DEF StagesLeft
    <3> QED
      BY <1>5, <1>7, <2>2, <3>1 DEF FlushSets, AtKernel
  <2> QED
    BY <1>7, <2>1, <2>2 DEF FlushSets
<1>8. CASE AddDone(c)
  <2>1. pc[c] = "kadd" /\ job[c].kind \in {"add", "refresh"}
    BY <1>8 DEF AddDone, RequestDone, AtKernel
  <2>2. /\ StagesLeft("kadd", job[c]) = 4
        /\ StagesLeft("row", job[c]) = 3 /\ StagesLeft("read", job[c]) = 2
    BY <2>1 DEF StagesLeft
  <2> QED
    BY <1>5, <1>8, <2>1, <2>2 DEF AddDone
<1>9. CASE RemoveDone(c)
  <2>1. /\ pc[c] = "kdel" /\ StagesLeft("kdel", job[c]) = 6
        /\ StagesLeft("drop", job[c]) = 0 /\ StagesLeft("clear", job[c]) = 5
    BY <1>9 DEF RemoveDone, RequestDone, AtKernel, StagesLeft
  <2> QED
    BY <1>5, <1>9, <2>1 DEF RemoveDone
<1>10. CASE RestoreHostsDone(c)
  <2>1. pc[c] = "kadd" /\ job[c].kind = "restore" /\ job[c].prio = "low"
    BY <1>10 DEF RestoreHostsDone, RequestDone, AtKernel
  <2>2. StagesLeft("kadd", job[c]) = 10 /\ StagesLeft("services", job[c]) = 9
    BY <2>1 DEF StagesLeft
  <2> QED
    BY <1>5, <1>10, <2>1, <2>2 DEF RestoreHostsDone
<1>11. CASE RestoreHighDone(c)
  <2>1. pc[c] = "kadd" /\ job[c].kind \in {"restore", "restoreSvc"} /\ job[c].prio = "high"
    BY <1>11 DEF RestoreHighDone, RequestDone, AtKernel
  <2>2. /\ pc'[c] = "kadd" /\ job'[c].kind = job[c].kind /\ job'[c].prio = "low"
        /\ job'[c].pending = job[c].pending
    <3>1. /\ pc'[c] = "kadd"
          /\ job'[c] = [job[c] EXCEPT !.prio = "low", !.todo = job[c].rest, !.rest = {}]
      BY <1>0, <1>11, GotoValues DEF RestoreHighDone
    <3> QED
      BY <1>0, <3>1 DEF Job
  <2>3. CASE job[c].kind = "restore"
    <3>1. StagesLeft("kadd", job[c]) = 11 /\ StagesLeft("kadd", job'[c]) = 10
      BY <2>1, <2>2, <2>3 DEF StagesLeft
    <3> QED
      BY <2>1, <2>2, <3>1 DEF Nearer
  <2>4. CASE job[c].kind = "restoreSvc"
    <3>1. StagesLeft("kadd", job[c]) = 8 /\ StagesLeft("kadd", job'[c]) = 7
      BY <2>1, <2>2, <2>4 DEF StagesLeft
    <3> QED
      BY <2>1, <2>2, <3>1 DEF Nearer
  <2> QED
    BY <2>1, <2>3, <2>4
<1> QED
  BY <1>1, <1>2, <1>3, <1>4, <1>6, <1>7, <1>8, <1>9, <1>10, <1>11 DEF KernelStep

\* Each statement of an operation on the database brings it nearer to its end.
LEMMA AdvanceDb ==
    ASSUME Static, NEW c \in Client, DbStep(c)
    PROVE  pc'[c] = "idle" \/ Nearer(c)
<1>0. TypeOK /\ Place(c) /\ job[c] \in Job
  BY DEF Static, TypeOK, Shape
<1>1. ASSUME NEW p, NEW j, Goto(c, p, j), j.pending = job[c].pending,
             StagesLeft(p, j) < StagesLeft(pc[c], job[c]),
             StagesLeft(p, j) \in Nat, StagesLeft(pc[c], job[c]) \in Nat
      PROVE  Nearer(c)
  BY <1>0, <1>1, GotoValues DEF Nearer
<1>2. CASE InsertRow(c)
  <2>1. StagesLeft("row", job[c]) = 3 /\ StagesLeft("read", job[c]) = 2
    BY DEF StagesLeft
  <2>2. CASE End(c)
    BY <1>0, <2>2, EndValues
  <2>3. CASE Goto(c, "read", job[c])
    BY <1>1, <1>2, <2>1, <2>3 DEF InsertRow
  <2> QED
    BY <1>2, <2>2, <2>3 DEF InsertRow
<1>3. CASE ReadRow(c)
  <2> DEFINE j == [job[c] EXCEPT !.id = rules[job[c].target].id, !.todo = job[c].ips]
  <2>1. StagesLeft("read", job[c]) = 2 /\ StagesLeft("ips", j) = 1
    BY DEF StagesLeft
  <2>2. j.pending = job[c].pending
    BY <1>0 DEF Job
  <2>3. CASE Fail(c)
    BY <1>0, <2>3, FailValues
  <2>4. CASE Goto(c, "ips", j)
    <3> HIDE DEF j
    <3> QED
      BY <1>1, <1>3, <2>1, <2>2, <2>4 DEF ReadRow
  <2> QED
    BY <1>3, <2>3, <2>4 DEF ReadRow
<1>4. CASE InsertIP(c)
  <2>1. PICK e \in job[c].todo : Goto(c, "ips", [job[c] EXCEPT !.todo = @ \ {e}])
    BY <1>4 DEF InsertIP
  <2>2. /\ pc[c] = "ips" /\ pc'[c] = "ips" /\ job'[c].pending = job[c].pending
        /\ job'[c].todo = job[c].todo \ {e}
    BY <1>0, <1>4, <2>1, GotoValues DEF InsertIP, Job
  <2>3. StagesLeft("ips", job[c]) = 1 /\ StagesLeft("ips", job'[c]) = 1
    BY DEF StagesLeft
  <2> QED
    BY <2>1, <2>2, <2>3 DEF Nearer
<1>5. CASE IPsDone(c)
  <2>1. StagesLeft("ips", job[c]) = 1 /\ StagesLeft("resolve", job[c]) = 0
    BY DEF StagesLeft
  <2>2. CASE End(c)
    BY <1>0, <2>2, EndValues
  <2>3. CASE Goto(c, "resolve", job[c])
    BY <1>1, <1>5, <2>1, <2>3 DEF IPsDone
  <2> QED
    BY <1>5, <2>2, <2>3 DEF IPsDone
<1>6. CASE DropRow(c) \/ FlushServiceRules(c) \/ RefreshDone(c)
  BY <1>0, <1>6, EndValues DEF DropRow, FlushServiceRules, RefreshDone
<1>7. CASE FlushDomainRules(c)
  <2>1. StagesLeft("fdom", job[c]) = 5 /\ StagesLeft("fip", job[c]) = 3
    BY DEF StagesLeft
  <2> QED
    BY <1>1, <1>7, <2>1 DEF FlushDomainRules, FlushTable
<1>8. CASE FlushIPRules(c)
  <2>1. StagesLeft("fip", job[c]) = 3 /\ StagesLeft("fsvc", job[c]) = 2
    BY DEF StagesLeft
  <2> QED
    BY <1>1, <1>8, <2>1 DEF FlushIPRules, FlushTable
<1>9. CASE RestoreReadDomains(c)
  <2>1. pc[c] = "domains" /\ job[c].kind = "restore" /\ job[c].prio = "high"
    BY <1>0, <1>9 DEF RestoreReadDomains, Place
  <2>2. /\ pc'[c] = "kadd" /\ job'[c].kind = job[c].kind /\ job'[c].prio = job[c].prio
        /\ job'[c].pending = job[c].pending
    <3>1. /\ pc'[c] = "kadd"
          /\ job'[c] = [job[c] EXCEPT !.todo = @ \cup ClaimedIn(Domain, "high"),
                                      !.rest = @ \cup ClaimedIn(Domain, "low")]
      BY <1>0, <1>9, GotoValues DEF RestoreReadDomains
    <3> QED
      BY <1>0, <3>1 DEF Job
  <2>3. StagesLeft("domains", job[c]) = 12 /\ StagesLeft("kadd", job'[c]) = 11
    BY <2>1, <2>2 DEF StagesLeft
  <2> QED
    BY <2>1, <2>2, <2>3 DEF Nearer
<1>10. CASE RestoreReadServices(c)
  <2>1. pc[c] = "services"
    BY <1>10 DEF RestoreReadServices
  <2>2. /\ pc'[c] = "kadd" /\ job'[c].kind = "restoreSvc" /\ job'[c].prio = "high"
        /\ job'[c].pending = job[c].pending
    <3>1. /\ pc'[c] = "kadd"
          /\ job'[c] = [job[c] EXCEPT !.kind = "restoreSvc", !.prio = "high",
                                      !.todo = ClaimedIn(Service, "high"),
                                      !.rest = ClaimedIn(Service, "low")]
      BY <1>0, <1>10, GotoValues DEF RestoreReadServices
    <3> QED
      BY <1>0, <3>1 DEF Job
  <2>3. StagesLeft("services", job[c]) = 9 /\ StagesLeft("kadd", job'[c]) = 8
    BY <2>2 DEF StagesLeft
  <2> QED
    BY <2>1, <2>2, <2>3 DEF Nearer
<1>11. CASE ClearIPs(c)
  <2>1. pc[c] = "clear" /\ job[c].kind = "refresh"
    BY <1>0, <1>11 DEF ClearIPs, Place
  <2>2. /\ pc'[c] = "kadd" /\ job'[c].kind = "refresh" /\ job'[c].pending = job[c].pending
    BY <1>0, <1>11, <2>1, GotoValues DEF ClearIPs, Job
  <2>3. StagesLeft("clear", job[c]) = 5 /\ StagesLeft("kadd", job'[c]) = 4
    BY <2>2 DEF StagesLeft
  <2> QED
    BY <2>1, <2>2, <2>3 DEF Nearer
<1>12. CASE Resolve(c)
  <2>1. PICK r \in job[c].pending, A \in UNION {Answers[d] : d \in Domain} :
          Goto(c, "kdel", [job[c] EXCEPT !.target = r.dom, !.id = r.id, !.prio = r.prio,
                                         !.todo = r.ips, !.ips = A, !.pending = @ \ {r}])
    BY <1>12, Zenon DEF Resolve
  <2>2. job'[c] = [job[c] EXCEPT !.target = r.dom, !.id = r.id, !.prio = r.prio,
                                 !.todo = r.ips, !.ips = A, !.pending = @ \ {r}]
    BY <1>0, <2>1, GotoValues
  <2>3. job'[c].pending = job[c].pending \ {r}
    BY <1>0, <2>2 DEF Job
  <2> QED
    BY <2>3 DEF Nearer
<1> QED
  BY <1>2, <1>3, <1>4, <1>5, <1>6, <1>7, <1>8, <1>9, <1>10, <1>11, <1>12 DEF DbStep

\* Only who is idle begins something, and the daemon does not mind.
LEMMA RequestBegins ==
    ASSUME NEW c \in Client, Request(c)
    PROVE  pc[c] = "idle" /\ serving' = serving
<1>1. \E p, j, S : Begin(c, p, j, S)
  <2>1. ASSUME NEW t, NEW k, BeginAdd(c, t, k) PROVE \E p, j, S : Begin(c, p, j, S)
    BY <2>1, Zenon DEF BeginAdd
  <2>2. ASSUME NEW t, NEW byName, BeginDelete(c, t, byName) PROVE \E p, j, S : Begin(c, p, j, S)
    BY <2>2, Zenon DEF BeginDelete
  <2>3. BeginFlush(c) \/ BeginRestore(c) \/ BeginRefresh(c) => \E p, j, S : Begin(c, p, j, S)
    BY Zenon DEF BeginFlush, BeginRestore, BeginRefresh
  <2> QED
    BY <2>1, <2>2, <2>3, Zenon DEF Request
<1> QED
  BY <1>1 DEF Begin

\* What others do does not move an operation; what befalls it does not take it back.
LEMMA OthersDoNotMove ==
    ASSUME Static, [Next]_vars, NEW c \in Client, pc[c] # "idle",
           ~KernelStep(c), ~DbStep(c)
    PROVE  \/ pc'[c] = "idle"
           \/ pc'[c] = pc[c] /\ job'[c] \in {job[c], [job[c] EXCEPT !.dead = TRUE]}
<1>0. TypeOK
  BY DEF Static
<1>1. ASSUME NEW d \in Client \ {c}, OthersKeep(d)
      PROVE  pc'[c] = pc[c] /\ job'[c] = job[c]
  BY <1>1 DEF OthersKeep
<1>2. ASSUME NEW d \in Client \ {c}, Request(d) \/ KernelStep(d) \/ DbStep(d) \/ Fault(d)
      PROVE  pc'[c] = pc[c] /\ job'[c] = job[c]
  BY <1>1, <1>2, ShapeRequest, ShapeKernel, ShapeDb, ShapeFault
<1>3. ~Request(c)
  BY RequestBegins
<1>4. CASE Abort(c)
  BY <1>0, <1>4 DEF Abort, TypeOK
<1>5. CASE Orphan(c)
  BY <1>0, <1>5 DEF Orphan, TypeOK
<1>6. CASE (\E d \in Client : Accept(d)) \/ UNCHANGED vars
  BY <1>6 DEF Accept, vars
<1>7. CASE Reboot
  BY <1>7 DEF Reboot
<1> QED
  BY <1>2, <1>3, <1>4, <1>5, <1>6, <1>7 DEF Next, Fault

\* No operation goes in circles, whatever runs beside it and however often it is
\* disturbed: with what it has before it finite, it has only so many steps to take
\* (the loops over addresses, over the stages of a restore, and RefreshAllDomains'
\* over its snapshot). That it takes them is fairness, which the runs assume.
THEOREM AdvanceCorrect == Spec => OperationsAdvance
<1>1. Static /\ [Next]_vars =>
        [\A c \in Client : pc[c] # "idle" =>
          \/ pc'[c] = "idle"
          \/ Nearer(c)
          \/ /\ ~(KernelStep(c) \/ DbStep(c))
             /\ pc'[c] = pc[c]
             /\ job'[c] \in {job[c], [job[c] EXCEPT !.dead = TRUE]}]_vars
  BY AdvanceKernel, AdvanceDb, OthersDoNotMove
<1> QED
  BY <1>1, StaticCorrect, PTL DEF Spec, OperationsAdvance

\* The daemon turns to the next request as soon as one is answered or its client
\* is lost: it never stays with a client that does not wait for it (the accept
\* loop of internal/daemon/daemon.go).
THEOREM AttendsCorrect == Spec => []DaemonAttends
<1>1. Init => DaemonAttends
  BY DEF Init, DaemonAttends
<1>2. Static /\ DaemonAttends /\ [Next]_vars => DaemonAttends'
  <2> SUFFICES ASSUME Static, DaemonAttends, [Next]_vars PROVE DaemonAttends'
    OBVIOUS
  <2>0. TypeOK
    BY DEF Static
  <2>1. ASSUME NEW c \in Client, OthersKeep(c),
               serving' = Released(c) \/ (serving' = serving /\ serving # c)
        PROVE  DaemonAttends'
    BY <2>0, <2>1 DEF DaemonAttends, OthersKeep, Released, TypeOK
  <2>2. ASSUME NEW c \in Client, OthersKeep(c), serving' = serving, pc'[c] \in KernelPC
        PROVE  DaemonAttends'
    BY <2>0, <2>2 DEF DaemonAttends, OthersKeep, TypeOK
  <2>3. ASSUME NEW c \in Client, Request(c) PROVE DaemonAttends'
    <3>1. pc[c] = "idle" /\ serving' = serving
      BY <2>3, RequestBegins
    <3>2. serving # c
      BY <2>0, <3>1 DEF DaemonAttends, KernelPC, TypeOK
    <3> QED
      BY <2>1, <2>3, <3>1, <3>2, ShapeRequest
  <2>4. ASSUME NEW c \in Client, Accept(c) PROVE DaemonAttends'
    BY <2>4 DEF Accept, DaemonAttends
  <2>5. ASSUME NEW c \in Client, KernelStep(c) PROVE DaemonAttends'
    <3>1. OthersKeep(c)
      BY <2>5, ShapeKernel
    <3>2. CASE AddToSet(c)
      <4>1. serving' = serving /\ pc'[c] = "kadd"
        BY <2>0, <3>2, GotoValues DEF AddToSet
      <4> QED
        BY <2>2, <3>1, <4>1 DEF KernelPC
    <3>3. CASE RemoveFromSet(c)
      <4>1. serving' = serving /\ pc'[c] = "kdel"
        BY <2>0, <3>3, GotoValues DEF RemoveFromSet
      <4> QED
        BY <2>2, <3>1, <4>1 DEF KernelPC
    <3>4. CASE RemoveMissing(c)
      <4>1. serving' = Released(c) \/ (serving' = serving /\ c \notin DaemonClient)
        <5>1. CASE serving' = Released(c)
          BY <5>1
        <5>2. CASE Swallows(c) /\ UNCHANGED <<nft, rules, nextId, serving>>
          BY <5>2 DEF Swallows
        <5> QED
          BY <3>4, <5>1, <5>2 DEF RemoveMissing
      <4> QED
        BY <2>0, <2>1, <3>1, <4>1 DEF DaemonAttends, TypeOK
    <3>5. CASE AddRejected(c) \/ FlushSets(c)
      BY <2>1, <3>1, <3>5 DEF AddRejected, FlushSets
    <3>6. CASE \/ AddDone(c) \/ RemoveDone(c) \/ RestoreHighDone(c) \/ RestoreHostsDone(c)
               \/ RestoreDone(c) \/ OrphanDone(c)
      <4>1. \E p : RequestDone(c, p)
        BY <3>6 DEF AddDone, RemoveDone, RestoreHighDone, RestoreHostsDone, RestoreDone, OrphanDone
      <4>2. serving' = Released(c)
        BY <4>1 DEF RequestDone
      <4> QED
        BY <2>1, <3>1, <4>2
    <3> QED
      BY <2>5, <3>2, <3>3, <3>4, <3>5, <3>6 DEF KernelStep
  <2>6. ASSUME NEW c \in Client, DbStep(c) PROVE DaemonAttends'
    <3>1. serving' = serving /\ pc[c] \notin KernelPC
      <4>1. CASE InsertRow(c) \/ ReadRow(c) \/ InsertIP(c) \/ IPsDone(c) \/ DropRow(c)
        BY <4>1 DEF InsertRow, ReadRow, InsertIP, IPsDone, DropRow, KernelPC
      <4>2. CASE FlushDomainRules(c) \/ FlushIPRules(c) \/ FlushServiceRules(c)
        BY <4>2 DEF FlushTable, FlushDomainRules, FlushIPRules, FlushServiceRules, KernelPC
      <4>3. CASE RestoreReadDomains(c) \/ RestoreReadServices(c) \/ RefreshDone(c) \/ ClearIPs(c)
        BY <4>3 DEF RestoreReadDomains, RestoreReadServices, RefreshDone, ClearIPs, KernelPC
      <4>4. CASE Resolve(c)
        BY <4>4 DEF Resolve, KernelPC
      <4> QED
        BY <2>6, <4>1, <4>2, <4>3, <4>4 DEF DbStep
    <3>2. serving # c
      BY <2>0, <3>1 DEF DaemonAttends, TypeOK
    <3> QED
      BY <2>1, <2>6, <3>1, <3>2, ShapeDb
  <2>7. ASSUME NEW c \in Client, Fault(c) PROVE DaemonAttends'
    <3>1. CASE Abort(c)
      <4>1. OthersKeep(c) /\ serving' = Released(c)
        BY <2>7, <3>1, ShapeFault DEF Abort
      <4> QED
        BY <2>1, <4>1
    <3>2. CASE Orphan(c)
      BY <3>2 DEF Orphan, DaemonAttends
    <3> QED
      BY <2>7, <3>1, <3>2 DEF Fault
  <2>8. CASE Reboot
    BY <2>8 DEF Reboot, DaemonAttends
  <2>9. CASE UNCHANGED vars
    BY <2>9 DEF vars, DaemonAttends
  <2> QED
    BY <2>3, <2>4, <2>5, <2>6, <2>7, <2>8, <2>9 DEF Next
<1> QED
  BY <1>1, <1>2, StaticCorrect, PTL DEF Spec

-----------------------------------------------------------------------------
(* The database is a rule book.                                            *)

\* A step that keeps ids and priorities is a stutter of the rule book.
LEMMA BookKept ==
    ASSUME \A t \in Target : rules'[t].id = rules[t].id /\ rules'[t].prio = rules[t].prio,
           nextId' = nextId
    PROVE  UNCHANGED <<Visible, nextId - 1>>
BY DEF Visible

\* Every step is a step of the rule book or a stutter.
LEMMA BookStep ==
    ASSUME Static, [Next]_vars
    PROVE  [Book!Next]_Book!vars
<1>0. TypeOK /\ RowShape /\ \A c \in Client : Shape(c) /\ job[c] \in Job
  BY DEF Static, TypeOK
<1>1. \A t \in Target : rules[t] \in Row
  BY <1>0 DEF TypeOK
<1>2. CASE UNCHANGED <<rules, nextId>>
  BY <1>2, BookKept DEF Book!vars
<1>3. ASSUME NEW c \in Client, InsertRow(c), rules' # rules \/ nextId' # nextId
      PROVE  Book!Next
  <2> DEFINE t == job[c].target
             k == job[c].prio
  <2>1. t \in Target /\ k \in Prio
    BY <1>0, <1>3 DEF InsertRow, Shape, Place, Reach, Job
  <2>2. /\ rules[t].prio = "none"
        /\ rules' = [rules EXCEPT ![t] = [id |-> nextId, prio |-> k,
                                          ips |-> IF t \in Domain THEN {} ELSE {t}]]
        /\ nextId' = nextId + 1
    BY <1>3 DEF InsertRow
  <2> HIDE DEF t, k
  <2>3. Visible[t] = Book!Absent
    BY <1>0, <2>1, <2>2 DEF RowShape, NoRow, Visible, Book!Absent
  <2>4. nextId \in Nat /\ nextId = (nextId - 1) + 1 /\ nextId' - 1 = (nextId - 1) + 1
    BY <1>0, <2>2 DEF TypeOK
  <2>5. /\ rules'[t].id = nextId /\ rules'[t].prio = k
        /\ \A u \in Target \ {t} : rules'[u] = rules[u]
    BY <1>0, <2>1, <2>2 DEF TypeOK
  <2>6. Visible' = [Visible EXCEPT ![t] = [id |-> (nextId - 1) + 1, prio |-> k]]
    BY <2>1, <2>4, <2>5 DEF Visible
  <2>7. Book!Add(t, k)
    BY <2>3, <2>4, <2>6 DEF Book!Add
  <2> QED
    BY <2>1, <2>7 DEF Book!Next, Prio
<1>4. ASSUME NEW c \in Client, DropRow(c), rules' # rules
      PROVE  Book!Next
  <2> DEFINE t == job[c].target
  <2>1. t \in Target /\ job[c].prio \in Prio
    BY <1>0, <1>4 DEF DropRow, Shape, Place, Reach, Job
  <2>2. rules[t].prio \in Prio /\ rules' = [rules EXCEPT ![t] = NoRow] /\ nextId' = nextId
    BY <1>4, <2>1 DEF DropRow
  <2> HIDE DEF t
  <2>3. Visible[t] # Book!Absent
    <3>1. Visible[t].prio # "none" /\ Book!Absent.prio = "none"
      BY <2>1, <2>2 DEF Visible, Book!Absent, Prio
    <3> QED
      BY <3>1
  <2>4. /\ rules'[t].id = 0 /\ rules'[t].prio = "none"
        /\ \A u \in Target \ {t} : rules'[u] = rules[u]
    BY <1>0, <2>1, <2>2 DEF TypeOK, NoRow
  <2>5. Visible' = [Visible EXCEPT ![t] = Book!Absent]
    BY <2>1, <2>4 DEF Visible, Book!Absent
  <2>6. Book!Remove(t)
    BY <2>2, <2>3, <2>5 DEF Book!Remove
  <2> QED
    BY <2>1, <2>6 DEF Book!Next
<1>5. ASSUME NEW c \in Client, NEW p, NEW T \in {Domain, Addr, Service}, FlushTable(c, p, T)
      PROVE  Book!Next
  <2>1. /\ \A t \in Target : rules'[t] = IF t \in T THEN NoRow ELSE rules[t]
        /\ nextId' = nextId
    BY <1>5 DEF FlushTable
  <2>2. Visible' = [t \in Target |-> IF t \in T THEN Book!Absent ELSE Visible[t]]
    BY <2>1 DEF Visible, Book!Absent, NoRow
  <2>3. Book!Flush(T)
    BY <2>1, <2>2 DEF Book!Flush
  <2> QED
    BY <2>3 DEF Book!Next
<1>6. ASSUME NEW c \in Client, InsertIP(c) \/ ClearIPs(c)
      PROVE  UNCHANGED Book!vars
  <2>1. job[c].target \in Target
    BY <1>0, <1>6 DEF InsertIP, ClearIPs, Shape, Place, Plan, Target
  <2>2. nextId' = nextId
    BY <1>6 DEF InsertIP, ClearIPs
  <2>3. \A t \in Target : \A A : [rules[t] EXCEPT !.ips = A].id = rules[t].id
                                  /\ [rules[t] EXCEPT !.ips = A].prio = rules[t].prio
    BY <1>1 DEF Row
  <2>4. rules' = rules \/ \E A : rules' = [rules EXCEPT ![job[c].target].ips = A]
    <3>1. CASE InsertIP(c)
      <4>1. PICK e \in job[c].todo :
                rules' = IF rules[job[c].target].id = job[c].id
                         THEN [rules EXCEPT ![job[c].target].ips = @ \cup {e}] ELSE rules
        BY <3>1 DEF InsertIP
      <4> QED
        BY <4>1
    <3>2. CASE ClearIPs(c)
      BY <3>2 DEF ClearIPs
    <3> QED
      BY <1>6, <3>1, <3>2
  <2>5. CASE rules' = rules
    BY <2>2, <2>5, BookKept DEF Book!vars
  <2>6. ASSUME NEW A, rules' = [rules EXCEPT ![job[c].target].ips = A]
        PROVE  \A t \in Target : rules'[t].id = rules[t].id /\ rules'[t].prio = rules[t].prio
    BY <1>0, <2>1, <2>3, <2>6 DEF TypeOK
  <2> QED
    BY <2>2, <2>4, <2>5, <2>6, BookKept DEF Book!vars
<1>7. ASSUME NEW c \in Client, DbStep(c)
      PROVE  [Book!Next]_Book!vars
  <2>1. CASE \/ ReadRow(c) \/ IPsDone(c) \/ RestoreReadDomains(c) \/ RestoreReadServices(c)
             \/ Resolve(c) \/ RefreshDone(c)
    BY <1>2, <2>1
       DEF ReadRow, Fail, IPsDone, RestoreReadDomains, RestoreReadServices, Resolve, RefreshDone
  <2>2. CASE FlushDomainRules(c) \/ FlushIPRules(c) \/ FlushServiceRules(c)
    BY <1>5, <2>2 DEF FlushDomainRules, FlushIPRules, FlushServiceRules
  <2>3. CASE DropRow(c)
    <3>1. nextId' = nextId
      BY <2>3 DEF DropRow
    <3> QED
      BY <1>2, <1>4, <2>3, <3>1
  <2>4. CASE InsertRow(c)
    BY <1>2, <1>3, <2>4
  <2> QED
    BY <1>6, <1>7, <2>1, <2>2, <2>3, <2>4 DEF DbStep
<1>8. ASSUME NEW c \in Client, Request(c) \/ Accept(c) \/ KernelStep(c) \/ Fault(c)
      PROVE  UNCHANGED <<rules, nextId>>
  BY <1>0, <1>8, ShapeRequest, KernelKeepsRows, ShapeFault DEF Accept, Static
<1> QED
  BY <1>2, <1>7, <1>8 DEF Next, Reboot, vars

\* Whoever reads the database meanwhile sees a rule book: the statements of any
\* number of overlapping operations never replace a rule in place and never use
\* an id twice (INSERT OR IGNORE into tables with AUTOINCREMENT ids).
THEOREM BookRefined == Spec => RulesAreABook
<1>1. Init => Book!Init
  <2> SUFFICES ASSUME Init PROVE Book!Init
    OBVIOUS
  <2>1. nextId - 1 = 0
    BY DEF Init
  <2>2. Visible = [t \in Target |-> Book!Absent]
    BY DEF Init, NoRow, Visible, Book!Absent
  <2> QED
    BY <2>1, <2>2 DEF Book!Init
<1>2. Static /\ [Next]_vars => [Book!Next]_Book!vars
  BY BookStep
<1> QED
  BY <1>1, <1>2, StaticCorrect, PTL DEF Spec, RulesAreABook, Book!Spec
=============================================================================
