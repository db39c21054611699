------------------------------ MODULE Datapath ------------------------------
(***************************************************************************)
(* The way of a packet through what qosm has put into the kernel.          *)
(*                                                                         *)
(* The chains of its hook look, rule by rule, for the address or service   *)
(* of the packet in the named sets, and give it a mark; at the egress of   *)
(* an interface with an HTB qdisc, two filters read the mark and choose    *)
(* the class.  Sets and qdiscs may change while a packet is on its way.    *)
(* A local packet passes one chain.  A forwarded one passes two, which     *)
(* have the same priority: their order is the kernel's choice.             *)
(***************************************************************************)
EXTENDS Naturals, Sequences

CONSTANTS
    Addr,         \* addresses
    Service,      \* protocols with their ports
    Iface,        \* interfaces of the host
    Packet,       \* packets: their two ends, and the interfaces they pass
    MaxChanges,   \* bound: changes while a packet is on its way
    None          \* no interface

Key == Addr \cup Service
End == [addr : Addr, service : Service]
Level == {"high", "low"}

\* A packet of this host has come in by no interface.
ASSUME DatapathAssumption ==
    /\ Packet \subseteq [v4 : BOOLEAN, src : End, dst : End, iif : Iface \cup {None}, oif : Iface]
    /\ Packet # {}
    /\ None \notin Iface
    /\ MaxChanges \in Nat

IsLocal(p) == p.iif = None

VARIABLES
    sets,     \* the entries of the sets of each level
    enabled,  \* qos_enabled_ifaces
    shaped,   \* the interfaces with a complete qdisc
    order,    \* the order of the chains of the forward hook
    pkt,      \* the packet that is on its way
    chain,    \* the number of the chain it passes
    rule,     \* and of the rule of that chain that is next
    mark,     \* its mark
    class,    \* the class it has been put into
    changes,  \* history: changes since it is on its way
    found     \* history: levels at which it had a rule at some time on its way

vars == <<sets, enabled, shaped, order, pkt, chain, rule, mark, class, changes, found>>

-----------------------------------------------------------------------------
Rule(level, kind) == [level |-> level, kind |-> kind]

\* A mutant: the rules in the order of their keys.
ByKind == <<Rule("high", "ip4"), Rule("low", "ip4"), Rule("high", "ip6"),
            Rule("low", "ip6"), Rule("high", "service"), Rule("low", "service")>>

\* initRules: "Order is important here."
Rules == <<Rule("high", "ip4"), Rule("high", "ip6"), Rule("high", "service"),
           Rule("low", "ip4"), Rule("low", "ip6"), Rule("low", "service")>>

\* The keys of the incoming direction are reversed.
KeyOf(p, ch) == IF ch = "forward_in" THEN p.src ELSE p.dst
IfaceOf(p, ch) == IF ch = "forward_in" THEN p.iif ELSE p.oif

\* A mutant: the interface is not looked up.
MatchesAnywhere(p, ch, r, s, on) ==
    LET key == KeyOf(p, ch) IN
    CASE r.kind = "ip4" -> p.v4 /\ key.addr \in s[r.level]
      [] r.kind = "ip6" -> ~p.v4 /\ key.addr \in s[r.level]
      [] OTHER -> key.service \in s[r.level]

\* createQosIPRule: the network protocol, the key, and the interface.
Matches(p, ch, r, s, on) ==
    LET key == KeyOf(p, ch) IN
    /\ CASE r.kind = "ip4" -> p.v4 /\ key.addr \in s[r.level]
         [] r.kind = "ip6" -> ~p.v4 /\ key.addr \in s[r.level]
         [] OTHER -> key.service \in s[r.level]
    /\ IfaceOf(p, ch) \in on

ChainsOf(p) == IF IsLocal(p) THEN <<"output">> ELSE order

\* The levels at which the user has a rule for a packet in a chain's direction.
Finds(p, ch, s, on) ==
    LET key == KeyOf(p, ch) IN
    {l \in Level : IfaceOf(p, ch) \in on /\ (key.addr \in s[l] \/ key.service \in s[l])}

Passed(p) == {ChainsOf(p)[n] : n \in DOMAIN ChainsOf(p)}
FindsAny(p, s, on) == UNION {Finds(p, ch, s, on) : ch \in Passed(p)}

-----------------------------------------------------------------------------
Arrive(p) ==
    /\ class = "idle"
    /\ pkt' = p
    /\ chain' = 1 /\ rule' = 1
    /\ mark' = "none" /\ class' = "none"
    /\ changes' = 0 /\ found' = FindsAny(p, sets, enabled)
    /\ UNCHANGED <<sets, enabled, shaped, order>>

\* A mutant: the last rule does not end the chain.
PastLastRule == rule > Len(Rules)

AtLastRule == rule = Len(Rules)

Here == ChainsOf(pkt)[chain]
AllPassed == chain > Len(ChainsOf(pkt))

\* A rule sets the mark, whatever it was, and returns from the chain.
Evaluate ==
    LET r == Rules[rule]
        hit == Matches(pkt, Here, r, sets, enabled) IN
    /\ class = "none" /\ ~AllPassed
    /\ mark' = IF hit THEN r.level ELSE mark
    /\ IF hit \/ AtLastRule THEN chain' = chain + 1 /\ rule' = 1
       ELSE rule' = rule + 1 /\ UNCHANGED chain
    /\ UNCHANGED <<sets, enabled, shaped, order, pkt, class, changes, found>>

\* The filters are for ETH_P_IP; what they do not know is of the default class.
Enqueue ==
    /\ class = "none" /\ AllPassed
    /\ class' = IF pkt.oif \notin shaped THEN "unshaped"
                ELSE IF pkt.v4 /\ mark # "none" THEN mark ELSE "default"
    /\ UNCHANGED <<sets, enabled, shaped, order, pkt, chain, rule, mark, changes, found>>

Leave ==
    /\ class \notin {"idle", "none"}
    /\ class' = "idle"
    /\ UNCHANGED <<sets, enabled, shaped, order, pkt, chain, rule, mark, changes, found>>

\* The other modules at work: an element is added or deleted, a qdisc made or
\* taken away.
Change(s, on, with) ==
    /\ changes < MaxChanges
    /\ <<s, on, with>> # <<sets, enabled, shaped>>
    /\ sets' = s /\ enabled' = on /\ shaped' = with
    /\ changes' = changes + 1
    /\ found' = found \cup FindsAny(pkt, s, on)
    /\ UNCHANGED <<order, pkt, chain, rule, mark, class>>

Init ==
    /\ sets = [l \in Level |-> {}]
    /\ enabled = {} /\ shaped = {}
    /\ order \in {<<"forward_out", "forward_in">>, <<"forward_in", "forward_out">>}
    /\ pkt \in Packet
    /\ chain = 1 /\ rule = 1 /\ mark = "none" /\ class = "idle"
    /\ changes = 0 /\ found = {}

Next ==
    \/ \E p \in Packet : Arrive(p)
    \/ Evaluate \/ Enqueue \/ Leave
    \/ \E l \in Level, k \in Key :
          Change([sets EXCEPT ![l] = @ \cup {k}], enabled, shaped)
    \/ \E l \in Level, k \in Key :
          Change([sets EXCEPT ![l] = @ \ {k}], enabled, shaped)
    \/ \E i \in Iface : Change(sets, enabled \cup {i}, shaped)
    \/ \E i \in Iface : Change(sets, enabled \ {i}, shaped)
    \/ \E i \in Iface : Change(sets, enabled, shaped \cup {i})
    \/ \E i \in Iface : Change(sets, enabled, shaped \ {i})

Spec == Init /\ [][Next]_vars

-----------------------------------------------------------------------------
\* A packet is at a rule of a chain until it has passed all of them (initRules).
TypeOK ==
    /\ sets \in [Level -> SUBSET Key]
    /\ enabled \subseteq Iface /\ shaped \subseteq Iface
    /\ order \in {<<"forward_out", "forward_in">>, <<"forward_in", "forward_out">>}
    /\ pkt \in Packet
    /\ chain \in 1 .. Len(ChainsOf(pkt)) + 1
    /\ rule \in DOMAIN Rules
    /\ mark \in Level \cup {"none"}
    /\ class \in Level \cup {"idle", "none", "default", "unshaped"}
    /\ changes \in Nat
    /\ found \subseteq Level

\* What a chain says of a packet: high goes before low.
Verdict(p, ch) ==
    LET f == Finds(p, ch, sets, enabled) IN
    IF "high" \in f THEN "high" ELSE IF "low" \in f THEN "low" ELSE "none"

Verdicts == {Verdict(pkt, ch) : ch \in Passed(pkt)} \ {"none"}

\* The class of a packet, when nothing has changed on its way.
Follows ==
    changes = 0 /\ class \in Level \cup {"default"} =>
        IF Verdicts = {} THEN class = "default" ELSE class \in Verdicts

\* An IPv4 packet is classed as its chain says, a forwarded one as one of its two
\* chains says, and "packets that do not match any set remain unmarked"
\* (README.md:122, initRules, createQosIPRule).
FollowsRules == pkt.v4 => Follows

\* Sets that change under a packet may cost it its class, but give it none that no
\* rule had for it at any time on its way.
NoneUndeserved == class \in Level => class \in found

\* "Traffic can be matched using IP addresses (IPv4 and IPv6)" (README.md:11-13).
EveryFamilyFollows == Follows
-----------------------------------------------------------------------------
(* Why: the inductive invariant.                                           *)

\* A mark is the verdict of a chain that is passed, no mark that of all of them.
MarkSound ==
    /\ ~AllPassed =>
          \A x \in 1 .. (rule - 1) : ~Matches(pkt, Here, Rules[x], sets, enabled)
    /\ mark # "none" => mark \in Verdicts
    /\ mark = "none" =>
          \A n \in DOMAIN ChainsOf(pkt) : n < chain => Verdict(pkt, ChainsOf(pkt)[n]) = "none"

IInv ==
    /\ TypeOK
    /\ class # "idle" =>
          /\ FindsAny(pkt, sets, enabled) \subseteq found
          /\ mark # "none" => mark \in found
          /\ changes = 0 => MarkSound
          /\ class # "none" => AllPassed
          /\ class \in Level => class = mark
          /\ class = "default" /\ pkt.v4 => mark = "none"
=============================================================================
