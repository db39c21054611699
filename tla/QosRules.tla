------------------------------ MODULE QosRules ------------------------------
(***************************************************************************)
(* The rules of qosm: which addresses and services get which priority.     *)
(*                                                                         *)
(* A rule lives in two places that no transaction spans: as elements of    *)
(* the kernel's nftables named sets, and as rows of the SQLite database.   *)
(* Every operation of the QoS manager changes the kernel first and the     *)
(* database second, one element and one statement at a time, while other   *)
(* operations (CLI processes, or the web server's goroutines) do the same. *)
(* In daemon mode the kernel half is a request that the daemon serves, one *)
(* connection at a time.                                                   *)
(*                                                                         *)
(* The three tables iprules, domainrules (with domainips) and servicerules *)
(* have the same operations, so they are one function from targets to      *)
(* rows; a row's ips are the kernel elements the row stands for.           *)
(***************************************************************************)
EXTENDS Naturals, FiniteSets

CONSTANTS
    Client,      \* processes and goroutines that run one operation at a time
    DaemonClient,\* those with Options.DaemonMode: the daemon works for them
    Addr,        \* IP prefixes
    Service,     \* protocol and port pairs
    Domain,      \* domain names
    Overlap,     \* pairs of prefixes of which one contains the other
    Answers,     \* what the resolver may answer for each domain
    Wanted,      \* bound: the targets for which rules are asked
    None,        \* no client, no target
    MaxId,       \* bound: rows ever inserted
    MaxFaults,   \* bound: crashes and failing statements
    MaxReboots   \* bound: reboots

Target == Addr \cup Service \cup Domain
Elem == Addr \cup Service
Everything == Target \cup {None}   \* what an operation on all the rules concerns

ASSUME RulesAssumption ==
    /\ Addr \cap Service = {} /\ Addr \cap Domain = {} /\ Service \cap Domain = {}
    /\ Overlap \subseteq Addr \X Addr
    /\ \A a, b \in Addr : <<a, b>> \in Overlap => a # b /\ <<b, a>> \in Overlap
    /\ Answers \in [Domain -> SUBSET (SUBSET Addr)]
    /\ DaemonClient \subseteq Client
    /\ Wanted \subseteq Target
    /\ None \notin Client \cup Target
    /\ MaxId \in Nat /\ MaxFaults \in Nat /\ MaxReboots \in Nat

Prio == {"high", "low"}

VARIABLES
    nft,      \* kernel: the elements of the named sets of each priority
    rules,    \* database: the row of each target
    nextId,   \* AUTOINCREMENT: an id is never used again
    pc,       \* where each client's operation is
    job,      \* the local variables of each client's operation
    serving,  \* the client whose request the daemon executes
    touch,    \* history: targets and elements the client's operation concerns
    tainted,  \* history: what an interrupted or overlapping operation concerned
    faults,   \* crashes and failures so far
    reboots   \* reboots so far

vars == <<nft, rules, nextId, pc, job, serving, touch, tainted, faults, reboots>>

NoRow == [id |-> 0, prio |-> "none", ips |-> {}]
Row == [id : Nat, prio : Prio \cup {"none"}, ips : SUBSET Elem]

\* The operations of the manager, and the places where they can be.
Kind == {"none", "add", "delete", "flush", "refresh", "restore", "restoreSvc"}
KernelPC == {"kadd", "kdel", "kflush"}
PC == {"idle", "row", "read", "ips", "drop", "fdom", "fip", "fsvc",
       "domains", "services", "resolve", "clear"} \cup KernelPC

Snapshot == [dom : Domain, id : Nat, prio : Prio, ips : SUBSET Elem]

Job == [kind : Kind, target : Target \cup {None}, byName : BOOLEAN, id : Nat,
        prio : Prio, todo : SUBSET Elem, ips : SUBSET Elem, rest : SUBSET Elem,
        pending : SUBSET Snapshot, dead : BOOLEAN]

Idle == [kind |-> "none", target |-> None, byName |-> FALSE, id |-> 0,
         prio |-> "high", todo |-> {}, ips |-> {}, rest |-> {},
         pending |-> {}, dead |-> FALSE]

Claims(t, k, e) == rules[t].prio = k /\ e \in rules[t].ips
Claimed(k) == {e \in Elem : \E t \in Target : Claims(t, k, e)}
ClaimedIn(T, k) == {e \in Elem : \E t \in T : Claims(t, k, e)}

-----------------------------------------------------------------------------
(* History: which elements a guarantee is still given for.                 *)

\* What two operations in flight together may spoil for each other.  Sharing
\* a domain's row concerns all the addresses both hold for it.
Clash(S, T) ==
    IF S \cap T \cap Domain = {} THEN S \cap T
    ELSE IF S = Everything THEN T
    ELSE IF T = Everything THEN S
    ELSE S \cup T

Clashes(c, S) == UNION {Clash(S, touch[d]) : d \in Client \ {c}}

\* Elements of S that a rule other than t's also claims at priority k.
SharedWith(t, k, S) == {e \in S : \E u \in Target \ {t} : Claims(u, k, e)}

-----------------------------------------------------------------------------
(* Control.                                                                *)

Begin(c, p, j, S) ==
    /\ pc[c] = "idle"
    /\ pc' = [pc EXCEPT ![c] = p]
    /\ job' = [job EXCEPT ![c] = j]
    /\ touch' = [touch EXCEPT ![c] = S]
    /\ UNCHANGED <<nft, rules, nextId, serving, faults, reboots>>

Goto(c, p, j) ==
    /\ pc' = [pc EXCEPT ![c] = p]
    /\ job' = [job EXCEPT ![c] = j]
    /\ UNCHANGED <<touch, faults, reboots>>

End(c) ==
    /\ pc' = [pc EXCEPT ![c] = "idle"]
    /\ job' = [job EXCEPT ![c] = Idle]
    /\ touch' = [touch EXCEPT ![c] = {}]
    /\ UNCHANGED <<faults, reboots>>

\* The operation returns an error: whatever it has done so far stays done.
Fail(c) ==
    /\ End(c)
    /\ tainted' = tainted \cup touch[c]
    /\ UNCHANGED <<nft, rules, nextId>>

\* In daemon mode only the request being served reaches the kernel.
Released(c) == IF serving = c THEN None ELSE serving
AtKernel(c, p) == pc[c] = p /\ (c \in DaemonClient => serving = c)

-----------------------------------------------------------------------------
(* Operations begin: checks and reads of the database, DNS lookup.         *)

BeginAdd(c, t, k) ==
    /\ rules[t].prio = "none"
    /\ nextId + Cardinality({d \in Client : job[d].kind = "add"}) <= MaxId
    /\ \E A \in (IF t \in Domain THEN Answers[t] ELSE {{t}}) :
        /\ Begin(c, "kadd", [Idle EXCEPT !.kind = "add", !.target = t, !.prio = k,
                                         !.todo = A, !.ips = A], {t} \cup A)
        /\ tainted' = tainted \cup Clashes(c, {t} \cup A)

\* A row is deleted by the id or by the name that the client gives; services
\* always by the id found.
BeginDelete(c, t, byName) ==
    LET r == rules[t] IN
    /\ r.prio # "none"
    /\ t \in Service => ~byName
    /\ Begin(c, "kdel", [Idle EXCEPT !.kind = "delete", !.target = t,
                                     !.byName = byName, !.id = r.id, !.prio = r.prio,
                                     !.todo = r.ips, !.ips = r.ips], {t} \cup r.ips)
    /\ tainted' = tainted \cup Clashes(c, {t} \cup r.ips)
                          \cup SharedWith(t, r.prio, r.ips)

\* A flush that has the system to itself makes a fresh start.
BeginFlush(c) ==
    /\ Begin(c, "kflush", [Idle EXCEPT !.kind = "flush"], Everything)
    /\ tainted' = IF \A d \in Client \ {c} : pc[d] = "idle" THEN {}
                  ELSE tainted \cup Clashes(c, Everything)

BeginRestore(c) ==
    /\ Begin(c, "domains", [Idle EXCEPT !.kind = "restore",
                                        !.todo = ClaimedIn(Addr, "high"),
                                        !.rest = ClaimedIn(Addr, "low")], Everything)
    /\ tainted' = tainted \cup Clashes(c, Everything)

\* Reached in daemon mode only: without it refresh-dns has no classifier.
BeginRefresh(c) ==
    LET D == {d \in Domain : rules[d].prio # "none"}
        S == D \cup UNION {rules[d].ips \cup UNION Answers[d] : d \in D}
    IN
    /\ c \in DaemonClient
    /\ D # {}
    /\ Begin(c, "resolve", [Idle EXCEPT !.kind = "refresh",
             !.pending = {[dom |-> d, id |-> rules[d].id, prio |-> rules[d].prio,
                           ips |-> rules[d].ips] : d \in D}], S)
    /\ tainted' = tainted \cup Clashes(c, S)

-----------------------------------------------------------------------------
(* Requests to the kernel, in direct mode or by the daemon.                *)

\* The daemon accepts the next connection when it has answered the last one.
Accept(c) ==
    /\ c \in DaemonClient
    /\ serving = None
    /\ pc[c] \in KernelPC
    /\ serving' = c
    /\ UNCHANGED <<nft, rules, nextId, pc, job, touch, tainted, faults, reboots>>

\* Addresses are sent to the kernel one by one, services in one batch.
Batches(S) == IF S \subseteq Service THEN {S} ELSE {{e} : e \in S}

Conflicting(e, k) == \E f \in nft[k] : <<e, f>> \in Overlap

AddToSet(c) ==
    /\ AtKernel(c, "kadd")
    /\ job[c].todo # {}
    /\ \E S \in Batches(job[c].todo) :
        /\ \A e \in S : ~Conflicting(e, job[c].prio)
        /\ nft' = [nft EXCEPT ![job[c].prio] = @ \cup S]
        /\ Goto(c, "kadd", [job[c] EXCEPT !.todo = @ \ S])
    /\ UNCHANGED <<rules, nextId, serving, tainted>>

\* A mutant: the error of the kernel is overlooked.
AddRejectedUnnoticed(c) ==
    /\ AtKernel(c, "kadd")
    /\ \E e \in job[c].todo : Conflicting(e, job[c].prio)
    /\ Goto(c, IF job[c].kind = "add" THEN "row" ELSE "read", job[c])
    /\ serving' = Released(c)
    /\ UNCHANGED <<nft, rules, nextId, tainted>>

\* EEXIST: a set of intervals has no room for a subnet or supernet.
AddRejected(c) ==
    /\ AtKernel(c, "kadd")
    /\ \E e \in job[c].todo : Conflicting(e, job[c].prio)
    /\ Fail(c)
    /\ serving' = Released(c)

RemoveFromSet(c) ==
    /\ AtKernel(c, "kdel")
    /\ \E e \in job[c].todo \cap nft[job[c].prio] :
        /\ nft' = [nft EXCEPT ![job[c].prio] = @ \ {e}]
        /\ Goto(c, "kdel", [job[c] EXCEPT !.todo = @ \ {e}])
    /\ UNCHANGED <<rules, nextId, serving, tainted>>

\* In direct mode deleteDomainAddrs drops the error of DeleteIPsFromPriority.
Swallows(c) == c \notin DaemonClient /\ job[c].kind = "delete" /\ job[c].target \in Domain

\* A mutant: the daemon answers the error without turning to the next client.
RemoveMissingHangs(c) ==
    /\ AtKernel(c, "kdel")
    /\ \E e \in job[c].todo : e \notin nft[job[c].prio]
    /\ ~Swallows(c)
    /\ Fail(c)
    /\ UNCHANGED serving

\* ENOENT ends the loop: the elements after the missing one stay.
RemoveMissing(c) ==
    /\ AtKernel(c, "kdel")
    /\ \E e \in job[c].todo : e \notin nft[job[c].prio]
    /\ \/ /\ ~Swallows(c)
          /\ Fail(c)
          /\ serving' = Released(c)
       \/ /\ Swallows(c)
          /\ Goto(c, "drop", job[c])
          /\ tainted' = tainted \cup touch[c]
          /\ UNCHANGED <<nft, rules, nextId, serving>>

\* All six sets in one netlink transaction.
FlushSets(c) ==
    /\ AtKernel(c, "kflush")
    /\ nft' = [k \in Prio |-> {}]
    /\ serving' = Released(c)
    /\ IF job[c].dead THEN End(c) ELSE Goto(c, "fdom", job[c])
    /\ UNCHANGED <<rules, nextId, tainted>>

-----------------------------------------------------------------------------
(* The kernel half is done: the answer of the daemon, or the call's return. *)

RequestDone(c, p) ==
    /\ AtKernel(c, p)
    /\ job[c].todo = {}
    /\ serving' = Released(c)
    /\ UNCHANGED <<nft, rules, nextId, tainted>>

AddDone(c) ==
    /\ RequestDone(c, "kadd")
    /\ ~job[c].dead
    /\ \/ job[c].kind = "add" /\ Goto(c, "row", job[c])
       \/ job[c].kind = "refresh" /\ Goto(c, "read", job[c])

RemoveDone(c) ==
    /\ RequestDone(c, "kdel")
    /\ ~job[c].dead
    /\ Goto(c, IF job[c].kind = "delete" THEN "drop" ELSE "clear", job[c])

RestoreHighDone(c) ==
    /\ RequestDone(c, "kadd")
    /\ ~job[c].dead
    /\ job[c].kind \in {"restore", "restoreSvc"} /\ job[c].prio = "high"
    /\ Goto(c, "kadd", [job[c] EXCEPT !.prio = "low", !.todo = job[c].rest, !.rest = {}])

RestoreHostsDone(c) ==
    /\ RequestDone(c, "kadd")
    /\ ~job[c].dead
    /\ job[c].kind = "restore" /\ job[c].prio = "low"
    /\ Goto(c, "services", job[c])

RestoreDone(c) ==
    /\ RequestDone(c, "kadd")
    /\ ~job[c].dead
    /\ job[c].kind = "restoreSvc" /\ job[c].prio = "low"
    /\ End(c)

\* The daemon answers a client that is gone.
OrphanDone(c) ==
    /\ \E p \in {"kadd", "kdel"} : RequestDone(c, p)
    /\ job[c].dead
    /\ End(c)

-----------------------------------------------------------------------------
(* Statements on the database.                                             *)

\* Two mutants: INSERT OR REPLACE, and a domain's name stored as its address.
InsertRowOrReplace(c) ==
    LET t == job[c].target IN
    /\ pc[c] = "row"
    /\ rules' = [rules EXCEPT ![t] = [id |-> nextId, prio |-> job[c].prio,
                                     ips |-> IF t \in Domain THEN {} ELSE {t}]]
    /\ nextId' = nextId + 1
    /\ IF t \in Domain THEN Goto(c, "read", job[c]) ELSE End(c)
    /\ UNCHANGED <<nft, serving, tainted>>

InsertRowOfName(c) ==
    LET t == job[c].target IN
    /\ pc[c] = "row"
    /\ rules' = [rules EXCEPT ![t] = [id |-> nextId, prio |-> job[c].prio, ips |-> {t}]]
    /\ nextId' = nextId + 1
    /\ IF t \in Domain THEN Goto(c, "read", job[c]) ELSE End(c)
    /\ UNCHANGED <<nft, serving, tainted>>

\* INSERT OR IGNORE: a row that is there already stays as it is.
InsertRow(c) ==
    LET t == job[c].target IN
    /\ pc[c] = "row"
    /\ IF rules[t].prio = "none"
       THEN /\ rules' = [rules EXCEPT ![t] =
                [id |-> nextId, prio |-> job[c].prio,
                 ips |-> IF t \in Domain THEN {} ELSE {t}]]
            /\ nextId' = nextId + 1
       ELSE UNCHANGED <<rules, nextId>>
    /\ IF t \in Domain THEN Goto(c, "read", job[c]) ELSE End(c)
    /\ UNCHANGED <<nft, serving, tainted>>

\* AddDomainIPstoDB looks the row up by name ...
ReadRow(c) ==
    LET r == rules[job[c].target] IN
    /\ pc[c] = "read"
    /\ \/ /\ r.prio = "none"
          /\ Fail(c)
       \/ /\ r.prio # "none"
          /\ Goto(c, "ips", [job[c] EXCEPT !.id = r.id, !.todo = job[c].ips])
          /\ UNCHANGED <<nft, rules, nextId, tainted>>
    /\ UNCHANGED serving

\* ... and inserts the addresses for its id.  Addresses of a row that has gone
\* in between belong to no rule any more.
InsertIP(c) ==
    LET t == job[c].target IN
    /\ pc[c] = "ips"
    /\ \E e \in job[c].todo :
        /\ rules' = IF rules[t].id = job[c].id
                    THEN [rules EXCEPT ![t].ips = @ \cup {e}] ELSE rules
        /\ Goto(c, "ips", [job[c] EXCEPT !.todo = @ \ {e}])
    /\ UNCHANGED <<nft, nextId, serving, tainted>>

\* A mutant: the loop may stop before the last address.
IPsDoneEarly(c) ==
    /\ pc[c] = "ips"
    /\ IF job[c].kind = "refresh" THEN Goto(c, "resolve", job[c]) ELSE End(c)
    /\ UNCHANGED <<nft, rules, nextId, serving, tainted>>

IPsDone(c) ==
    /\ pc[c] = "ips"
    /\ job[c].todo = {}
    /\ IF job[c].kind = "refresh" THEN Goto(c, "resolve", job[c]) ELSE End(c)
    /\ UNCHANGED <<nft, rules, nextId, serving, tainted>>

\* DELETE ... WHERE (id or name) AND priority: no match is no error.
DropRow(c) ==
    LET t == job[c].target
        match == /\ rules[t].prio = job[c].prio
                 /\ job[c].byName \/ rules[t].id = job[c].id
    IN
    /\ pc[c] = "drop"
    /\ rules' = IF match THEN [rules EXCEPT ![t] = NoRow] ELSE rules
    /\ End(c)
    /\ UNCHANGED <<nft, nextId, serving, tainted>>

FlushTable(c, p, T) ==
    /\ pc[c] = p
    /\ rules' = [t \in Target |-> IF t \in T THEN NoRow ELSE rules[t]]
    /\ UNCHANGED <<nft, nextId, serving, tainted>>

FlushDomainRules(c) == FlushTable(c, "fdom", Domain) /\ Goto(c, "fip", job[c])
FlushIPRules(c) == FlushTable(c, "fip", Addr) /\ Goto(c, "fsvc", job[c])
FlushServiceRules(c) == FlushTable(c, "fsvc", Service) /\ End(c)

\* A mutant: the addresses of every domain are restored at high priority.
RestoreReadDomainsHigh(c) ==
    /\ pc[c] = "domains"
    /\ Goto(c, "kadd", [job[c] EXCEPT !.todo = @ \cup ClaimedIn(Domain, "high")
                                               \cup ClaimedIn(Domain, "low")])
    /\ UNCHANGED <<nft, rules, nextId, serving, tainted>>

\* RestoreRules reads the tables one after the other.
RestoreReadDomains(c) ==
    /\ pc[c] = "domains"
    /\ Goto(c, "kadd", [job[c] EXCEPT !.todo = @ \cup ClaimedIn(Domain, "high"),
                                      !.rest = @ \cup ClaimedIn(Domain, "low")])
    /\ UNCHANGED <<nft, rules, nextId, serving, tainted>>

\* A mutant: only the services of high priority are restored.
RestoreReadHighServices(c) ==
    /\ pc[c] = "services"
    /\ Goto(c, "kadd", [job[c] EXCEPT !.kind = "restoreSvc", !.prio = "high",
                                      !.todo = ClaimedIn(Service, "high")])
    /\ UNCHANGED <<nft, rules, nextId, serving, tainted>>

RestoreReadServices(c) ==
    /\ pc[c] = "services"
    /\ Goto(c, "kadd", [job[c] EXCEPT !.kind = "restoreSvc", !.prio = "high",
                                      !.todo = ClaimedIn(Service, "high"),
                                      !.rest = ClaimedIn(Service, "low")])
    /\ UNCHANGED <<nft, rules, nextId, serving, tainted>>

\* A mutant: the domain that is resolved stays among those to come.
ResolveAgain(c) ==
    /\ pc[c] = "resolve"
    /\ \E r \in job[c].pending, A \in UNION {Answers[d] : d \in Domain} :
        /\ A \in Answers[r.dom]
        /\ Goto(c, "kdel", [job[c] EXCEPT !.target = r.dom, !.id = r.id, !.prio = r.prio,
                                          !.todo = r.ips, !.ips = A])
        /\ tainted' = tainted \cup SharedWith(r.dom, r.prio, r.ips)
    /\ UNCHANGED <<nft, rules, nextId, serving>>

\* RefreshAllDomains takes the next domain of its snapshot and resolves it.
Resolve(c) ==
    /\ pc[c] = "resolve"
    /\ \E r \in job[c].pending, A \in UNION {Answers[d] : d \in Domain} :
        /\ A \in Answers[r.dom]
        /\ Goto(c, "kdel", [job[c] EXCEPT !.target = r.dom, !.id = r.id, !.prio = r.prio,
                                          !.todo = r.ips, !.ips = A,
                                          !.pending = @ \ {r}])
        /\ tainted' = tainted \cup SharedWith(r.dom, r.prio, r.ips)
    /\ UNCHANGED <<nft, rules, nextId, serving>>

RefreshDone(c) ==
    /\ pc[c] = "resolve"
    /\ job[c].pending = {}
    /\ End(c)
    /\ UNCHANGED <<nft, rules, nextId, serving, tainted>>

\* A mutant: the old addresses stay in the database.
ClearIPsNot(c) ==
    /\ pc[c] = "clear"
    /\ Goto(c, "kadd", [job[c] EXCEPT !.todo = job[c].ips])
    /\ UNCHANGED <<nft, rules, nextId, serving, tainted>>

\* clearOldIPs deletes the addresses of the id in the snapshot, after the kernel's.
ClearIPs(c) ==
    LET t == job[c].target IN
    /\ pc[c] = "clear"
    /\ rules' = IF rules[t].id = job[c].id
                THEN [rules EXCEPT ![t].ips = {}] ELSE rules
    /\ Goto(c, "kadd", [job[c] EXCEPT !.todo = job[c].ips])
    /\ UNCHANGED <<nft, nextId, serving, tainted>>

-----------------------------------------------------------------------------
(* Failures.                                                               *)

\* The process is killed, a statement returns SQLITE_BUSY, a lookup fails or
\* the daemon is restarted: the operation ends where it is.
Abort(c) ==
    /\ faults < MaxFaults
    /\ pc[c] # "idle"
    /\ pc' = [pc EXCEPT ![c] = "idle"]
    /\ job' = [job EXCEPT ![c] = Idle]
    /\ touch' = [touch EXCEPT ![c] = {}]
    /\ tainted' = tainted \cup touch[c]
    /\ serving' = Released(c)
    /\ faults' = faults + 1
    /\ UNCHANGED <<nft, rules, nextId, reboots>>

\* The client is killed after it wrote its request: the daemon serves it.
Orphan(c) ==
    /\ faults < MaxFaults
    /\ c \in DaemonClient
    /\ pc[c] \in KernelPC
    /\ ~job[c].dead
    /\ job' = [job EXCEPT ![c].dead = TRUE]
    /\ tainted' = tainted \cup touch[c]
    /\ faults' = faults + 1
    /\ UNCHANGED <<nft, rules, nextId, pc, serving, touch, reboots>>

\* The database survives, the kernel's sets do not.
Reboot ==
    /\ reboots < MaxReboots
    /\ nft' = [k \in Prio |-> {}]
    /\ pc' = [c \in Client |-> "idle"]
    /\ job' = [c \in Client |-> Idle]
    /\ touch' = [c \in Client |-> {}]
    /\ serving' = None
    /\ tainted' = Claimed("high") \cup Claimed("low")
                  \cup (Domain \cap (tainted \cup UNION {touch[c] : c \in Client}))
    /\ reboots' = reboots + 1
    /\ UNCHANGED <<rules, nextId, faults>>

-----------------------------------------------------------------------------
Init ==
    /\ nft = [k \in Prio |-> {}]
    /\ rules = [t \in Target |-> NoRow]
    /\ nextId = 1
    /\ pc = [c \in Client |-> "idle"]
    /\ job = [c \in Client |-> Idle]
    /\ serving = None
    /\ touch = [c \in Client |-> {}]
    /\ tainted = {}
    /\ faults = 0
    /\ reboots = 0

Request(c) ==
    \/ \E t \in Wanted, k \in Prio : BeginAdd(c, t, k)
    \/ \E t \in Target, byName \in BOOLEAN : BeginDelete(c, t, byName)
    \/ BeginFlush(c)
    \/ BeginRestore(c)
    \/ BeginRefresh(c)

KernelStep(c) ==
    \/ AddToSet(c) \/ AddRejected(c)
    \/ RemoveFromSet(c) \/ RemoveMissing(c)
    \/ FlushSets(c)
    \/ AddDone(c) \/ RemoveDone(c)
    \/ RestoreHighDone(c) \/ RestoreHostsDone(c) \/ RestoreDone(c)
    \/ OrphanDone(c)

DbStep(c) ==
    \/ InsertRow(c) \/ ReadRow(c) \/ InsertIP(c) \/ IPsDone(c)
    \/ DropRow(c)
    \/ FlushDomainRules(c) \/ FlushIPRules(c) \/ FlushServiceRules(c)
    \/ RestoreReadDomains(c) \/ RestoreReadServices(c)
    \/ Resolve(c) \/ RefreshDone(c) \/ ClearIPs(c)

Fault(c) == Abort(c) \/ Orphan(c)

Next ==
    \/ \E c \in Client : Request(c) \/ Accept(c) \/ KernelStep(c) \/ DbStep(c) \/ Fault(c)
    \/ Reboot

Spec == Init /\ [][Next]_vars

\* A running operation goes on; the listening socket's queue is served in order.
Fairness == \A c \in Client : WF_vars(KernelStep(c) \/ DbStep(c)) /\ SF_vars(Accept(c))
FairSpec == Spec /\ Fairness

-----------------------------------------------------------------------------
\* Elements in the sets, rows in the tables, operations where they can be with the
\* local variables they can have (the schema of SetUp, the methods of the manager).
TypeOK ==
    /\ nft \in [Prio -> SUBSET Elem]
    /\ rules \in [Target -> Row]
    /\ nextId \in Nat \ {0}
    /\ pc \in [Client -> PC]
    /\ job \in [Client -> Job]
    /\ serving \in Client \cup {None}
    /\ touch \in [Client -> SUBSET Everything]
    /\ tainted \in SUBSET Everything
    /\ faults \in Nat
    /\ reboots \in Nat

\* The kernel and the database agree on an element, at both priorities.
InSyncAt(e) == \A k \in Prio : e \in nft[k] <=> e \in Claimed(k)

\* Kernel and database agree on every element that no operation in flight
\* concerns, unless an operation on it was cut short, overlapped another one,
\* or took it away from a second rule.
InSync ==
    \A e \in Elem :
        e \notin tainted /\ (\A c \in Client : e \notin touch[c]) => InSyncAt(e)

\* The addresses stored for a domain are one answer of the resolver: neither
\* an add nor a refresh leaves an old address behind or a new one out.
DomainIPsExact ==
    \A d \in Domain :
        /\ rules[d].prio # "none"
        /\ d \notin tainted
        /\ \A c \in Client : d \notin touch[c]
        => rules[d].ips \in Answers[d]

\* When a restore that ran alone returns success, everything the database
\* claims is in the kernel (RestoreRules).
RestoreCovers ==
    [][\A c \in Client : RestoreDone(c) =>
          \A k \in Prio : Claimed(k)' \subseteq nft'[k]]_vars

\* qosm itself keeps the two in step: out of step they get only by a reboot or
\* by changes "externally without using qosm" (cmd/restore_cmd.go:15).
QosmKeepsSync ==
    (faults = 0 /\ reboots = 0 /\ \A c \in Client : pc[c] = "idle")
        => \A e \in Elem : InSyncAt(e)

\* To its readers the database is a rule book: whatever the operations do at
\* the same time, a rule is never replaced in place and its id never reused.
Visible == [t \in Target |-> [id |-> rules[t].id, prio |-> rules[t].prio]]

Book == INSTANCE RuleBook WITH
    Tables <- {Domain, Addr, Service}, book <- Visible, last <- nextId - 1

RulesAreABook == Book!Spec

\* How many stages an operation has before it, once it works on its last domain.
StagesLeft(p, j) ==
    LET restoring == p = "kadd" /\ j.kind \in {"restore", "restoreSvc"}
        half == IF j.prio = "high" THEN 1 ELSE 0
    IN
    CASE p = "domains"                              -> 12
      [] restoring /\ j.kind = "restore"            -> 10 + half
      [] p = "services"                             -> 9
      [] restoring /\ j.kind = "restoreSvc"         -> 7 + half
      [] p = "kadd" /\ ~restoring                   -> 4
      [] p \in {"kdel", "kflush"}                   -> 6
      [] p \in {"clear", "fdom"}                    -> 5
      [] p \in {"row", "fip"}                       -> 3
      [] p \in {"read", "fsvc"}                     -> 2
      [] p = "ips"                                  -> 1
      [] OTHER                                      -> 0

\* Nearer to its end: fewer domains to refresh; as many, but in a later stage;
\* or in the same stage, with fewer elements to go through.
Nearer(c) ==
    LET i == job[c]
        j == job'[c]
        m == StagesLeft(pc[c], i)
        n == StagesLeft(pc'[c], j)
    IN
    /\ j.pending \subseteq i.pending
    /\ j.pending = i.pending => n <= m
    /\ j.pending = i.pending /\ n = m => j.todo \subseteq i.todo /\ j.todo # i.todo

\* No operation goes in circles: each step of its own brings it nearer to its
\* end or is the last one, and nobody else's step takes it back, not even that
\* of an operation that fails, is killed or works on the same rules.
OperationsAdvance ==
    [][\A c \in Client : pc[c] # "idle" =>
          \/ pc'[c] = "idle"
          \/ Nearer(c)
          \/ /\ ~(KernelStep(c) \/ DbStep(c))
             /\ pc'[c] = pc[c]
             /\ job'[c] \in {job[c], [job[c] EXCEPT !.dead = TRUE]}]_vars

\* The daemon is busy only for a client that still waits for its request: it
\* never stays with one that has its answer or has gone on to the database.
DaemonAttends == serving # None => serving \in DaemonClient /\ pc[serving] \in KernelPC

\* Every operation returns (no operation waits for another one forever).
OpTerminates == \A c \in Client : pc[c] # "idle" ~> pc[c] = "idle"
=============================================================================
