------------------------------ MODULE NftSets ------------------------------
(***************************************************************************)
(* How qosm changes the named sets of its nftables table.                  *)
(*                                                                         *)
(* A change is queued at a connection of the nftables library and sent by  *)
(* Flush, which sends all that is queued there as one batch; the kernel    *)
(* evaluates a whole batch and commits it or nothing of it.  The daemon    *)
(* and every command have a connection of their own, the goroutines of the *)
(* web server share one when they work without the daemon: the library     *)
(* locks the queue in Flush and in each call that queues, not in between.  *)
(*                                                                         *)
(* A prefix becomes an interval whose end is exclusive.  ipIntervalEnd     *)
(* gives its last address as the end, but the next one for a single host:  *)
(* the last address of a network belongs to no element.                    *)
(***************************************************************************)
EXTENDS Integers, Sequences, Functions

CONSTANTS
    Caller,      \* who changes sets: the daemon, commands, goroutines of the web server
    Conn,        \* connections of the nftables library
    ConnOf,      \* the connection of each caller
    IPSet,       \* names of the sets of addresses
    KeySet,      \* names of the sets of services and of interfaces
    FlushOrder,  \* the sets FlushAllRules empties, in its order
    Prefix,      \* prefixes as typed: address, first address, number of addresses
    Key,         \* services and interfaces
    LongName,    \* interfaces whose names are too long
    Top,         \* the highest address
    Asks,        \* bound: the requests each caller may make
    MaxFaults,   \* bound: failing requests and killed processes
    None

\* Two prefixes are disjoint or one contains the other.
ASSUME SetsAssumption ==
    /\ ConnOf \in [Caller -> Conn]
    /\ None \notin Caller
    /\ IPSet \cap KeySet = {}
    /\ FlushOrder \in Seq(IPSet \cup KeySet) /\ FlushOrder # <<>>
    /\ LongName \subseteq Key
    /\ Top \in Nat /\ MaxFaults \in Nat
    /\ Prefix \subseteq [addr : 0 .. Top, lo : 0 .. Top, size : Nat \ {0}]
    /\ \A p \in Prefix : p.lo <= p.addr /\ p.addr < p.lo + p.size /\ p.lo + p.size <= Top + 1
    /\ \A p \in Prefix : \A q \in Prefix :
          \/ p.lo + p.size <= q.lo
          \/ q.lo + q.size <= p.lo
          \/ p.lo <= q.lo /\ q.lo + q.size <= p.lo + p.size
          \/ q.lo <= p.lo /\ p.lo + p.size <= q.lo + q.size

SetName == IPSet \cup KeySet

VARIABLES
    elems,   \* kernel: the elements of each set
    tx,      \* kernel: the batch it evaluates, under a lock
    queue,   \* the changes queued at each connection
    job,     \* what each caller still has to queue
    at,      \* what each caller does next
    said,    \* the answer to its last request
    asked,   \* history: what each caller has queued for its next Flush
    faults   \* history: injected failures

vars == <<elems, tx, queue, job, at, said, asked, faults>>

-----------------------------------------------------------------------------
\* A mutant: the last address is the end for a host, too.
EndIsLast(p) == p.lo + p.size - 1

ipIntervalEnd(p) == IF p.size = 1 THEN p.lo + 1 ELSE p.lo + p.size - 1

Interval(p) == [start |-> p.addr, end |-> ipIntervalEnd(p)]
Intervals == [start : 0 .. Top, end : 0 .. Top + 1]

Overlap(e, f) == e.start < f.end /\ f.start < e.end

\* The end of a single host at the highest address is no address.
Malformed(set, e) == set \in IPSet /\ e.end > Top

Change(by, op, set, items) == [by |-> by, op |-> op, set |-> set, items |-> items]

Elem(set) == IF set \in IPSet THEN Intervals ELSE Key

Changes ==
    {m \in [by : Caller, op : {"add", "delete", "flush"}, set : SetName,
            items : SUBSET (Intervals \cup Key)] : m.items \subseteq Elem(m.set)}

\* What the kernel finds wrong with a change when a set holds the elements cur.
Wrong(m, cur) ==
    IF m.op # "flush" /\ \E e \in m.items : Malformed(m.set, e) THEN {"invalid"}
    ELSE IF m.op = "add" /\ m.set \in IPSet
            /\ \E e \in m.items : \E f \in cur : e # f /\ Overlap(e, f) THEN {"exist"}
    ELSE IF m.op = "delete" /\ ~(m.items \subseteq cur) THEN {"noent"}
    ELSE {}

Effect(m, cur) ==
    CASE m.op = "add" -> cur \cup m.items
      [] m.op = "delete" -> cur \ m.items
      [] OTHER -> {}

NoTx == [by |-> None, open |-> FALSE, left |-> <<>>, elems |-> [s \in SetName |-> {}], errs |-> {}]

\* Flush holds the lock of its connection until the kernel has answered.
Locked(k) == tx.by # None /\ ConnOf[tx.by] = k

-----------------------------------------------------------------------------
(* The requests of a caller.                                               *)

Request(kind, set, todo) == [kind |-> kind, set |-> set, todo |-> todo]
NoRequest == Request("none", "none", <<>>)

NewRequests ==
    [kind : {"addIPs", "deleteIPs"}, set : IPSet, todo : Seq(Prefix) \ {<<>>}]
    \cup [kind : {"addKeys", "deleteKeys"}, set : KeySet, todo : {<<K>> : K \in SUBSET Key}]
    \cup [kind : {"flushAll"}, set : {"none"}, todo : {FlushOrder}]

ASSUME AsksAssumption == Asks \in [Caller -> SUBSET NewRequests]

Begin(c, r) ==
    /\ at[c] = "idle"
    /\ job' = [job EXCEPT ![c] = r]
    /\ at' = [at EXCEPT ![c] = IF r.kind = "deleteKeys" THEN "read" ELSE "queue"]
    /\ said' = [said EXCEPT ![c] = "none"]
    /\ UNCHANGED <<elems, tx, queue, asked, faults>>

Return(c, answer) ==
    /\ at' = [at EXCEPT ![c] = "idle"]
    /\ said' = [said EXCEPT ![c] = answer]
    /\ job' = [job EXCEPT ![c] = NoRequest]
    /\ asked' = [asked EXCEPT ![c] = {}]

\* getServiceSetElements, getIfaceSetElements: what is missing is not deleted.
Read(c) ==
    /\ at[c] = "read"
    /\ IF Head(job[c].todo) \subseteq elems[job[c].set]
       THEN /\ at' = [at EXCEPT ![c] = "queue"]
            /\ UNCHANGED <<said, job, asked>>
       ELSE Return(c, "missing")
    /\ UNCHANGED <<elems, tx, queue, faults>>

\* A mutant: any address of a network may be typed.
AnyAddress(r) == r.kind = "addKeys" /\ Head(r.todo) \cap LongName # {}

\* A prefix must begin with the address of its network, a name must fit.
Refused(r) ==
    \/ r.kind = "addIPs" /\ Head(r.todo).addr # Head(r.todo).lo
    \/ r.kind = "addKeys" /\ Head(r.todo) \cap LongName # {}

Refuse(c) ==
    /\ at[c] = "queue" /\ Refused(job[c])
    /\ Return(c, "refused")
    /\ UNCHANGED <<elems, tx, queue, faults>>

NextChange(c) ==
    LET r == job[c] IN
    CASE r.kind = "addIPs" -> Change(c, "add", r.set, {Interval(Head(r.todo))})
      [] r.kind = "deleteIPs" -> Change(c, "delete", r.set, {Interval(Head(r.todo))})
      [] r.kind = "addKeys" -> Change(c, "add", r.set, Head(r.todo))
      [] r.kind = "deleteKeys" -> Change(c, "delete", r.set, Head(r.todo))
      [] OTHER -> Change(c, "flush", Head(r.todo), {})

\* SetAddElements, SetDeleteElements, FlushSet.  Prefixes are sent one by one,
\* FlushAllRules queues all its changes first.
Queue(c) ==
    LET more == job[c].kind = "flushAll" /\ Len(job[c].todo) > 1 IN
    /\ at[c] = "queue" /\ ~Refused(job[c])
    /\ ~Locked(ConnOf[c])
    /\ queue' = [queue EXCEPT ![ConnOf[c]] = Append(@, NextChange(c))]
    /\ asked' = [asked EXCEPT ![c] = @ \cup {NextChange(c)}]
    /\ job' = [job EXCEPT ![c].todo = Tail(@)]
    /\ at' = [at EXCEPT ![c] = IF more THEN "queue" ELSE "flush"]
    /\ UNCHANGED <<elems, tx, said, faults>>

\* A mutant: the loop runs past the last prefix.
PastLast(c) ==
    /\ at' = [at EXCEPT ![c] = "queue"]
    /\ asked' = [asked EXCEPT ![c] = {}]
    /\ UNCHANGED <<said, job>>

\* The change was made, or so Flush says.
Done(c) ==
    IF job[c].todo = <<>> THEN Return(c, "ok")
    ELSE /\ at' = [at EXCEPT ![c] = "queue"]
         /\ asked' = [asked EXCEPT ![c] = {}]
         /\ UNCHANGED <<said, job>>

\* Somebody else's Flush has sent the change.
FlushNothing(c) ==
    /\ at[c] = "flush" /\ ~Locked(ConnOf[c])
    /\ queue[ConnOf[c]] = <<>>
    /\ Done(c)
    /\ UNCHANGED <<elems, tx, queue, faults>>

\* A mutant: a change is sent for whoever shares the connection, as one of its own.
SendAll(c) ==
    /\ at[c] = "flush" /\ ~tx.open
    /\ \E k \in Conn : queue[k] # <<>>
    /\ tx' = [NoTx EXCEPT !.by = c, !.open = TRUE, !.elems = elems,
                          !.left = queue[CHOOSE k \in Conn : queue[k] # <<>>]]
    /\ queue' = [queue EXCEPT ![CHOOSE k \in Conn : queue[k] # <<>>] = <<>>]
    /\ at' = [at EXCEPT ![c] = "sent"]
    /\ UNCHANGED <<elems, job, said, asked, faults>>

\* All that is queued is sent.
Send(c) ==
    /\ at[c] = "flush" /\ ~tx.open
    /\ queue[ConnOf[c]] # <<>>
    /\ tx' = [NoTx EXCEPT !.by = c, !.open = TRUE, !.left = queue[ConnOf[c]], !.elems = elems]
    /\ queue' = [queue EXCEPT ![ConnOf[c]] = <<>>]
    /\ at' = [at EXCEPT ![c] = "sent"]
    /\ UNCHANGED <<elems, job, said, asked, faults>>

\* A mutant: what could not be sent stays queued.
SendFailsHalf(c) ==
    /\ faults < MaxFaults
    /\ at[c] = "flush" /\ ~Locked(ConnOf[c])
    /\ queue[ConnOf[c]] # <<>>
    /\ Return(c, "error")
    /\ faults' = faults + 1
    /\ UNCHANGED <<elems, tx, queue>>

\* Flush fails before the kernel has the batch.
SendFails(c) ==
    /\ faults < MaxFaults
    /\ at[c] = "flush" /\ ~Locked(ConnOf[c])
    /\ queue[ConnOf[c]] # <<>>
    /\ queue' = [queue EXCEPT ![ConnOf[c]] = <<>>]
    /\ Return(c, "error")
    /\ faults' = faults + 1
    /\ UNCHANGED <<elems, tx>>

\* The kernel goes on after an error, to report all of them.
Evaluate ==
    LET m == Head(tx.left) IN
    /\ tx.left # <<>>
    /\ tx' = [tx EXCEPT !.left = Tail(@),
                        !.errs = @ \cup Wrong(m, tx.elems[m.set]),
                        !.elems[m.set] = IF Wrong(m, @) = {} THEN Effect(m, @) ELSE @]
    /\ UNCHANGED <<elems, queue, job, at, said, asked, faults>>

\* How a caller reads the errors of its Flush.
Reading(kind, errs) ==
    IF kind = "addIPs" /\ "exist" \in errs THEN "overlaps"
    ELSE IF kind = "deleteIPs" /\ "noent" \in errs THEN "missing"
    ELSE "error"

Finish ==
    /\ tx.open /\ tx.left = <<>>
    /\ elems' = IF tx.errs = {} THEN tx.elems ELSE elems
    /\ tx' = NoTx
    /\ UNCHANGED queue

\* The kernel commits or aborts, and the caller that sent the batch hears of it.
Answer ==
    /\ Finish /\ tx.by # None
    /\ IF tx.errs = {} THEN Done(tx.by) ELSE Return(tx.by, Reading(job[tx.by].kind, tx.errs))
    /\ UNCHANGED faults

\* The answer of the kernel cannot be received.
AnswerLost ==
    /\ faults < MaxFaults
    /\ Finish /\ tx.by # None
    /\ Return(tx.by, "error")
    /\ faults' = faults + 1

NobodyListens ==
    /\ Finish /\ tx.by = None
    /\ UNCHANGED <<job, at, said, asked, faults>>

\* A process is killed: the queue of its connection is gone, a batch that the
\* kernel has is evaluated.
Crash(k) ==
    LET gone == {c \in Caller : ConnOf[c] = k} IN
    /\ faults < MaxFaults
    /\ \E c \in gone : at[c] # "idle"
    /\ queue' = [queue EXCEPT ![k] = <<>>]
    /\ tx' = [tx EXCEPT !.by = IF @ \in gone THEN None ELSE @]
    /\ at' = [c \in Caller |-> IF c \in gone THEN "idle" ELSE at[c]]
    /\ said' = [c \in Caller |-> IF c \in gone THEN "none" ELSE said[c]]
    /\ job' = [c \in Caller |-> IF c \in gone THEN NoRequest ELSE job[c]]
    /\ asked' = [c \in Caller |-> IF c \in gone THEN {} ELSE asked[c]]
    /\ faults' = faults + 1
    /\ UNCHANGED elems

Init ==
    /\ elems = [s \in SetName |-> {}]
    /\ tx = NoTx
    /\ queue = [k \in Conn |-> <<>>]
    /\ job = [c \in Caller |-> NoRequest]
    /\ at = [c \in Caller |-> "idle"]
    /\ said = [c \in Caller |-> "none"]
    /\ asked = [c \in Caller |-> {}]
    /\ faults = 0

Next ==
    \/ \E c \in Caller :
          \/ \E r \in Asks[c] : Begin(c, r)
          \/ Read(c) \/ Refuse(c) \/ Queue(c) \/ FlushNothing(c) \/ Send(c) \/ SendFails(c)
    \/ Evaluate \/ Answer \/ AnswerLost \/ NobodyListens
    \/ \E k \in Conn : Crash(k)

Spec == Init /\ [][Next]_vars

-----------------------------------------------------------------------------
Requests ==
    {NoRequest}
    \cup [kind : {"addIPs", "deleteIPs"}, set : IPSet, todo : Seq(Prefix)]
    \cup [kind : {"addKeys", "deleteKeys"}, set : KeySet, todo : Seq(SUBSET Key)]
    \cup [kind : {"flushAll"}, set : {"none"}, todo : Seq(SetName)]

Sets == {s \in [SetName -> SUBSET (Intervals \cup Key)] : \A n \in SetName : s[n] \subseteq Elem(n)}

\* A caller that is at work has something to do, and the sets of the kernel hold
\* elements of their kind (addIPsToIPSet, addServicesToServiceSet).
TypeOK ==
    /\ elems \in Sets
    /\ tx \in [by : Caller \cup {None}, open : BOOLEAN, left : Seq(Changes), elems : Sets,
              errs : SUBSET {"invalid", "exist", "noent"}]
    /\ tx.by # None \/ tx.left # <<>> => tx.open
    /\ queue \in [Conn -> Seq(Changes)]
    /\ job \in [Caller -> Requests]
    /\ at \in [Caller -> {"idle", "read", "queue", "flush", "sent"}]
    /\ said \in [Caller -> {"none", "ok", "refused", "overlaps", "missing", "error"}]
    /\ asked \in [Caller -> SUBSET Changes]
    /\ \A c \in Caller :
          /\ at[c] = "sent" <=> tx.by = c
          /\ at[c] # "idle" => job[c] # NoRequest /\ said[c] = "none"
          /\ at[c] = "read" => job[c].kind = "deleteKeys"
          /\ at[c] \in {"read", "queue"} => job[c].todo # <<>>
    /\ faults \in Nat

\* A change waits in a queue only until the caller that put it there, or another
\* one with the same connection, flushes: whoever returns, with an error or
\* without, leaves nothing behind for the next Flush to send.
NothingLeftQueued ==
    \A k \in Conn : \A m \in Range(queue[k]) :
        ConnOf[m.by] = k /\ at[m.by] \in {"queue", "flush"} /\ m \in asked[m.by]

Inside(p, q) == q.lo <= p.lo /\ p.lo + p.size <= q.lo + q.size
Has(set, p) == p.addr = p.lo /\ Interval(p) \in elems[set]

\* "already a subnet or supernet" (nft_sets.go:95): every element is a network
\* from its first address on, and of two networks in one set none contains the
\* other, unless it is the host at the last address, which no network includes,
\* or they are one element: a network of two addresses and its first host.
NestedOnlyAtLast ==
    \A set \in IPSet :
        /\ \A e \in elems[set] : \E p \in Prefix : p.addr = p.lo /\ e = Interval(p)
        /\ \A p \in Prefix : \A q \in Prefix :
              Has(set, p) /\ Has(set, q) /\ Inside(p, q) =>
                  \/ p.lo = q.lo /\ p.size = q.size
                  \/ p.size = 1 /\ p.lo = q.lo + q.size - 1
                  \/ p.size = 1 /\ q.size = 2

Alone(c) == \A d \in Caller : ConnOf[d] = ConnOf[c] => d = c

InEffect(m, cur) ==
    CASE m.op = "add" -> m.items \subseteq cur
      [] m.op = "delete" -> m.items \cap cur = {}
      [] OTHER -> cur = {}

Succeeds(c) == at'[c] = "queue" \/ said'[c] = "ok"

\* Who has a connection of its own is answered truly when its Flush returns: a
\* success means that the kernel has made the change, "already a subnet or
\* supernet" that the prefix overlaps an element, and a missing element that it
\* is missing (addIPsToIPSet, deleteIPsFromIPSet).
AnswersTrue ==
    [][\A c \in Caller :
          Alone(c) /\ at[c] \in {"flush", "sent"} /\ at'[c] \notin {"flush", "sent"} =>
              \A m \in asked[c] :
                  /\ Succeeds(c) => InEffect(m, elems'[m.set])
                  /\ said'[c] = "overlaps" =>
                        \E e \in m.items, f \in elems'[m.set] : e # f /\ Overlap(e, f)
                  /\ said'[c] = "missing" => ~(m.items \subseteq elems'[m.set])]_vars
-----------------------------------------------------------------------------
(* Why: the inductive invariant.                                           *)

\* A change that adds to a set of addresses adds one network.
OneNetwork(m) ==
    m.op = "add" /\ m.set \in IPSet =>
        \E p \in Prefix : p.addr = p.lo /\ m.items = {Interval(p)}

\* The elements of a set of addresses are networks that do not overlap.
Apart(sets) ==
    \A set \in IPSet :
        /\ \A e \in sets[set] : \E p \in Prefix : p.addr = p.lo /\ e = Interval(p)
        /\ \A e, f \in sets[set] : e = f \/ ~Overlap(e, f)

\* What a caller has queued since it last heard from a Flush.
AskedNow(c) ==
    /\ \A m \in asked[c] : m.by = c
    /\ at[c] \in {"idle", "read"} => asked[c] = {}
    /\ at[c] = "queue" /\ job[c].kind # "flushAll" => asked[c] = {}
    /\ job[c].kind = "flushAll" => \A m \in asked[c] : m.op = "flush"
    /\ job[c].kind # "flushAll" => \A m, n \in asked[c] : m = n

\* A connection with one caller: what is queued and sent is what that caller asked
\* for, and the kernel has evaluated a change or still will.
AloneAt(c) ==
    LET q == queue[ConnOf[c]] IN
    /\ at[c] \in {"queue", "flush"} => asked[c] = Range(q)
    /\ at[c] = "sent" =>
          /\ Range(tx.left) \subseteq asked[c]
          /\ \A m \in asked[c] :
                m \in Range(tx.left) \/ tx.errs # {} \/ InEffect(m, tx.elems[m.set])
    /\ job[c].kind # "flushAll" =>
          /\ Len(q) <= 1
          /\ at[c] = "sent" =>
                \/ Len(tx.left) = 1 /\ tx.errs = {} /\ tx.elems = elems
                \/ /\ tx.left = <<>>
                   /\ tx.errs # {} => \A m \in asked[c] : tx.errs = Wrong(m, elems[m.set])

IInv ==
    /\ TypeOK
    /\ NothingLeftQueued
    /\ Apart(elems) /\ Apart(tx.elems)
    /\ \A k \in Conn : \A m \in Range(queue[k]) : OneNetwork(m)
    /\ \A m \in Range(tx.left) : OneNetwork(m)
    /\ \A c \in Caller : AskedNow(c) /\ (Alone(c) => AloneAt(c))
=============================================================================
