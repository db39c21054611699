---------------------------- MODULE QosRulesInv ----------------------------
(***************************************************************************)
(* The inductive invariant behind InSync and DomainIPsExact.               *)
(*                                                                         *)
(* An operation in flight owns the targets and elements it touches: as     *)
(* long as they are not tainted nobody else changes them, so what is true  *)
(* of them is known from the operation's own program counter.              *)
(***************************************************************************)
EXTENDS QosRules

Clean(e) == e \in Elem /\ e \notin tainted

\* What kernel and database say of e away from priority k, and when the
\* element is in the kernel for a claim that is about to be stored.
SyncBut(k, e) == \A q \in Prio \ {k} : e \in nft[q] <=> e \in Claimed(q)
Half(k, e) == e \in nft[k] /\ SyncBut(k, e)

Global(c) == job[c].kind \in {"flush", "restore", "restoreSvc"}

\* Rows as the statements of the database leave them.
RowShape ==
    \A t \in Target :
        /\ rules[t].id < nextId
        /\ rules[t].prio = "none" => rules[t] = NoRow
        /\ rules[t].prio # "none" =>
              /\ rules[t].id > 0
              /\ IF t \in Domain THEN rules[t].ips \subseteq Addr
                                 ELSE rules[t].ips = {t}

\* Which operation can be where.
Place(c) ==
    LET k == job[c].kind IN
    /\ pc[c] # "idle" => k # "none"
    /\ pc[c] = "row" => k = "add"
    /\ pc[c] = "drop" => k = "delete"
    /\ pc[c] = "kdel" => k \in {"delete", "refresh"}
    /\ pc[c] = "kadd" => k \in {"add", "refresh", "restore", "restoreSvc"}
    /\ pc[c] \in {"kflush", "fdom", "fip", "fsvc"} <=> k = "flush"
    /\ pc[c] \in {"read", "ips"} => k \in {"add", "refresh"} /\ job[c].target \in Domain
    /\ pc[c] \in {"resolve", "clear"} => k = "refresh"
    /\ pc[c] \in {"domains", "services"} => k = "restore"
    /\ k = "add" => pc[c] \in {"kadd", "row", "read", "ips"}
    /\ k = "delete" => pc[c] \in {"kdel", "drop"}
    /\ k \in {"restore", "restoreSvc"} => pc[c] \in {"domains", "kadd", "services"}
    /\ pc[c] = "domains" => job[c].prio = "high"

\* What an operation touches, and that it carries nothing else.
Reach(c) ==
    LET j == job[c] IN
    /\ pc[c] = "idle" => j = Idle /\ touch[c] = {}
    /\ Global(c) => touch[c] = Everything
    /\ j.kind \in {"add", "delete", "refresh"} => touch[c] \subseteq Target
    /\ j.kind \in {"add", "delete"} =>
          /\ j.target \in Target
          /\ touch[c] = {j.target} \cup j.ips
          /\ j.target \in Elem => j.ips = {j.target}
    /\ pc[c] = "kadd" /\ j.kind \in {"add", "refresh"} => j.todo \subseteq j.ips
    /\ pc[c] = "ips" => j.todo \subseteq j.ips /\ j.id > 0
    /\ j.todo \subseteq touch[c] /\ j.rest \subseteq touch[c]
    /\ j.dead => touch[c] \subseteq tainted

\* The snapshot of a refresh, and the domain it is working on.
Plan(c) ==
    LET j == job[c] IN
    /\ j.kind = "refresh" =>
          /\ \A r \in j.pending :
                /\ {r.dom} \cup r.ips \cup UNION Answers[r.dom] \subseteq touch[c]
                /\ \A s \in j.pending : s.dom = r.dom => s = r
          /\ pc[c] # "resolve" =>
                /\ j.target \in Domain
                /\ {j.target} \cup j.ips \subseteq touch[c]
                /\ \A r \in j.pending : r.dom # j.target
    /\ j.kind \in {"add", "refresh"} /\ pc[c] # "resolve" /\ j.target \in Domain
          => j.ips \in Answers[j.target]

Shape(c) == Place(c) /\ Reach(c) /\ Plan(c)

\* The addresses of a row that an operation touches are its own to change.
Cover(c) ==
    \A t \in touch[c] \cap Target : \A e \in rules[t].ips :
        Clean(e) => e \in touch[c]

Undisturbed(c) == ~(touch[c] \subseteq tainted)

\* The row of an undisturbed operation is as the operation left it.
Rows(c) ==
    LET j == job[c]
        r == rules[j.target]
    IN
    Undisturbed(c) =>
    /\ j.kind = "add" /\ pc[c] \in {"kadd", "row"} => r = NoRow
    /\ j.kind = "add" /\ pc[c] = "read" => r.prio = j.prio /\ r.ips = {}
    /\ pc[c] = "ips" => r = [id |-> j.id, prio |-> j.prio, ips |-> j.ips \ j.todo]
    /\ j.kind = "delete" => r = [id |-> j.id, prio |-> j.prio, ips |-> j.ips]
    /\ pc[c] \in {"kdel", "clear"} =>
          r.id = j.id /\ r.prio = j.prio /\ j.todo \subseteq r.ips
    /\ pc[c] \in {"drop", "clear"} => j.todo = {}
    /\ j.kind = "refresh" /\ pc[c] \in {"kadd", "read"} =>
          r = [id |-> j.id, prio |-> j.prio, ips |-> {}]
    /\ j.kind = "refresh" => \A s \in j.pending :
          rules[s.dom] = [id |-> s.id, prio |-> s.prio, ips |-> s.ips]

\* What holds of a clean element that operation c touches: before the kernel or
\* after the row the two agree, in between one of them is ahead.
Phase(c, e) ==
    LET j == job[c] IN
    /\ pc[c] = "kadd" /\ j.kind \in {"add", "refresh"} =>
          IF e \in j.ips \ j.todo THEN Half(j.prio, e) ELSE InSyncAt(e)
    /\ pc[c] \in {"row", "read"} =>
          IF e \in j.ips THEN Half(j.prio, e) ELSE InSyncAt(e)
    /\ pc[c] = "ips" =>
          IF e \in j.todo THEN Half(j.prio, e) ELSE InSyncAt(e)
    /\ pc[c] \in {"kdel", "drop", "clear"} =>
          IF e \in rules[j.target].ips
          THEN /\ e \in nft[j.prio] <=> e \in j.todo
               /\ SyncBut(j.prio, e)
               /\ \A u \in Target \ {j.target} : ~Claims(u, j.prio, e)
          ELSE InSyncAt(e)
    /\ pc[c] = "resolve" => InSyncAt(e)
    /\ j.kind \in {"restore", "restoreSvc"} =>
          /\ InSyncAt(e)
          /\ e \in j.todo => e \in Claimed(j.prio)
          /\ e \in j.rest => e \in Claimed("low")
    /\ pc[c] \in {"fdom", "fip", "fsvc"} => \A k \in Prio : e \notin nft[k]
    /\ pc[c] \in {"fip", "fsvc"} => \A k \in Prio : e \notin ClaimedIn(Domain, k)
    /\ pc[c] = "fsvc" => \A k \in Prio : e \notin ClaimedIn(Addr, k)

\* Two operations own different things: what both touch is tainted.
NoClash == \A c, d \in Client : c # d => Clash(touch[c], touch[d]) \subseteq tainted

\* An operation that is about to change the addresses of domain d.
Busy(c, d) ==
    \/ pc[c] \in {"kflush", "fdom"}
    \/ /\ job[c].target = d
       /\ \/ pc[c] \in {"read", "ips"}
          \/ pc[c] = "kadd" /\ job[c].kind = "refresh"

Exact ==
    \A d \in Domain :
        /\ rules[d].prio # "none"
        /\ d \notin tainted
        /\ \A c \in Client : ~Busy(c, d)
        => rules[d].ips \in Answers[d]

Job1(c) == Shape(c) /\ Cover(c) /\ Rows(c) /\ \A e \in touch[c] : Clean(e) => Phase(c, e)

IInv ==
    /\ TypeOK
    /\ RowShape
    /\ NoClash
    /\ \A c \in Client : Job1(c)
    /\ InSync
    /\ Exact
=============================================================================
