--------------------------- MODULE DatapathProofs ---------------------------
(***************************************************************************)
(* The class of a packet follows the rules, for any packets, interfaces,   *)
(* rules, changes on the way, and either order of the forward chains.      *)
(***************************************************************************)
EXTENDS Datapath, TLAPS

\* The chains of a packet are one or two.
LEMMA TheChains ==
    ASSUME TypeOK, NEW p
    PROVE  Len(ChainsOf(p)) \in 1 .. 2 /\ DOMAIN ChainsOf(p) = 1 .. Len(ChainsOf(p))
<1>1. /\ ChainsOf(p) = <<"output">> \/ ChainsOf(p) = <<"forward_out", "forward_in">>
         \/ ChainsOf(p) = <<"forward_in", "forward_out">>
  BY DEF TypeOK, ChainsOf
<1>2. CASE ChainsOf(p) = <<"output">>
  BY <1>2
<1>3. CASE ChainsOf(p) = <<"forward_out", "forward_in">>
  BY <1>3
<1>4. CASE ChainsOf(p) = <<"forward_in", "forward_out">>
  BY <1>4
<1>5. QED
  BY <1>1, <1>2, <1>3, <1>4

\* The first rule that matches gives the verdict of its chain.
LEMMA FirstMatch ==
    ASSUME NEW p, NEW ch, NEW x \in DOMAIN Rules,
           \A y \in 1 .. (x - 1) : ~Matches(p, ch, Rules[y], sets, enabled)
    PROVE  /\ Matches(p, ch, Rules[x], sets, enabled) =>
                 Verdict(p, ch) = Rules[x].level /\ Rules[x].level \in Finds(p, ch, sets, enabled)
           /\ x = Len(Rules) /\ ~Matches(p, ch, Rules[x], sets, enabled) =>
                 Verdict(p, ch) = "none"
<1>1. x \in 1 .. 6 /\ DOMAIN Rules = 1 .. 6 /\ Len(Rules) = 6
  BY DEF Rules
<1> DEFINE M(y) == Matches(p, ch, Rules[y], sets, enabled)
           key == KeyOf(p, ch)
           on == IfaceOf(p, ch) \in enabled
<1>2. /\ M(1) <=> on /\ p.v4 /\ key.addr \in sets["high"]
      /\ M(2) <=> on /\ ~p.v4 /\ key.addr \in sets["high"]
      /\ M(3) <=> on /\ key.service \in sets["high"]
      /\ M(4) <=> on /\ p.v4 /\ key.addr \in sets["low"]
      /\ M(5) <=> on /\ ~p.v4 /\ key.addr \in sets["low"]
      /\ M(6) <=> on /\ key.service \in sets["low"]
  BY DEF Matches, Rules, Rule
<1>3. /\ "high" \in Finds(p, ch, sets, enabled) <=> M(1) \/ M(2) \/ M(3)
      /\ "low" \in Finds(p, ch, sets, enabled) <=> M(4) \/ M(5) \/ M(6)
  BY <1>2 DEF Finds, Level
<1>4. /\ Rules[1].level = "high" /\ Rules[2].level = "high" /\ Rules[3].level = "high"
      /\ Rules[4].level = "low" /\ Rules[5].level = "low" /\ Rules[6].level = "low"
  BY DEF Rules, Rule
<1>5. \A y \in 1 .. 6 : y < x => ~M(y)
  BY <1>1
<1> HIDE DEF M, key, on
<1>6. /\ M(x) => Verdict(p, ch) = Rules[x].level /\ Rules[x].level \in Finds(p, ch, sets, enabled)
      /\ x = 6 /\ ~M(x) => Verdict(p, ch) = "none"
  <2>1. x = 1 \/ x = 2 \/ x = 3 \/ x = 4 \/ x = 5 \/ x = 6
    BY <1>1
  <2>2. (x > 3 => ~M(1) /\ ~M(2) /\ ~M(3)) /\ (x > 5 => ~M(4) /\ ~M(5))
    BY <1>1, <1>5
  <2>3. QED
    BY <1>3, <1>4, <2>1, <2>2 DEF Verdict
<1>7. QED
  BY <1>1, <1>6 DEF M
-----------------------------------------------------------------------------
\* A packet arrives: no rule is passed yet.
LEMMA ArriveStep == ASSUME IInv, NEW p \in Packet, Arrive(p) PROVE IInv'
<1>1. /\ ChainsOf(pkt)' = ChainsOf(p) /\ chain' = 1 /\ pkt' = p /\ rule' = 1
      /\ UNCHANGED <<sets, enabled, order>>
  BY DEF Arrive, ChainsOf
<1>2. TypeOK /\ Len(ChainsOf(p)) \in 1 .. 2 /\ DOMAIN ChainsOf(p) = 1 .. Len(ChainsOf(p))
  BY TheChains DEF IInv
<1>3. TypeOK'
  <2>1. 1 \in DOMAIN Rules /\ FindsAny(p, sets, enabled) \subseteq Level
    BY DEF Rules, FindsAny, Finds
  <2>2. QED
    BY <1>1, <1>2, <2>1 DEF Arrive, TypeOK
<1>4. FindsAny(pkt, sets, enabled)' = found'
  BY <1>1 DEF Arrive, FindsAny, Passed
<1>5. MarkSound'
  BY <1>1, <1>2 DEF Arrive, MarkSound
<1>6. QED
  BY <1>3, <1>4, <1>5 DEF Arrive, IInv, Level

\* A rule is evaluated: where the invariant turns on the order of the rules.
LEMMA EvaluateStep == ASSUME IInv, Evaluate PROVE IInv'
<1> DEFINE hit == Matches(pkt, Here, Rules[rule], sets, enabled)
<1>1. /\ TypeOK /\ class = "none" /\ ~AllPassed
      /\ Len(ChainsOf(pkt)) \in 1 .. 2 /\ DOMAIN ChainsOf(pkt) = 1 .. Len(ChainsOf(pkt))
  BY TheChains DEF IInv, Evaluate
<1>2. chain \in DOMAIN ChainsOf(pkt) /\ Here \in Passed(pkt)
  <2>1. chain \in DOMAIN ChainsOf(pkt)
    BY <1>1 DEF TypeOK, AllPassed
  <2>2. QED
    BY <2>1 DEF Here, Passed
<1>3. /\ ChainsOf(pkt)' = ChainsOf(pkt) /\ Passed(pkt)' = Passed(pkt)
      /\ \A ch : Verdict(pkt, ch)' = Verdict(pkt, ch)
      /\ Verdicts' = Verdicts
      /\ FindsAny(pkt, sets, enabled)' = FindsAny(pkt, sets, enabled)
  BY DEF Evaluate, ChainsOf, Passed, Verdict, Verdicts, FindsAny
<1>4. /\ rule \in 1 .. 6 /\ Len(Rules) = 6 /\ DOMAIN Rules = 1 .. 6
      /\ Rules[rule].level \in Level
  <2>1. rule \in 1 .. 6 /\ Len(Rules) = 6 /\ DOMAIN Rules = 1 .. 6
    BY <1>1 DEF TypeOK, Rules
  <2>2. QED
    BY <2>1 DEF Rules, Rule, Level
<1>5. TypeOK'
  BY <1>1, <1>2, <1>3, <1>4 DEF Evaluate, TypeOK, AtLastRule
<1>6. mark' # "none" => mark' \in found'
  <2>1. CASE hit
    <3>1. Rules[rule].level \in Finds(pkt, Here, sets, enabled)
      <4>1. Rules[rule].level \in Level /\ IfaceOf(pkt, Here) \in enabled
        BY <1>4, <2>1 DEF Matches
      <4>2. KeyOf(pkt, Here).addr \in sets[Rules[rule].level] \/ KeyOf(pkt, Here).service \in sets[Rules[rule].level]
        BY <2>1 DEF Matches
      <4>3. QED
        BY <4>1, <4>2 DEF Finds
    <3>2. Rules[rule].level \in FindsAny(pkt, sets, enabled)
      BY <1>2, <3>1 DEF FindsAny
    <3>3. QED
      BY <1>1, <2>1, <3>2 DEF Evaluate, IInv
  <2>2. CASE ~hit
    BY <1>1, <2>2 DEF Evaluate, IInv
  <2>3. QED
    BY <2>1, <2>2
<1>7. ASSUME changes = 0 PROVE MarkSound'
  <2>1. MarkSound /\ \A y \in 1 .. (rule - 1) : ~Matches(pkt, Here, Rules[y], sets, enabled)
    BY <1>1, <1>7 DEF IInv, MarkSound
  <2>2. /\ hit => Verdict(pkt, Here) = Rules[rule].level
        /\ rule = Len(Rules) /\ ~hit => Verdict(pkt, Here) = "none"
    BY <1>4, <2>1, FirstMatch
  <2>3. chain \in Nat
    BY <1>1 DEF TypeOK
  <2>4. CASE hit
    <3>1. mark' = Rules[rule].level /\ mark' # "none" /\ rule' = 1
      BY <1>4, <2>4 DEF Evaluate, Level
    <3>2. mark' \in Verdicts
      BY <1>2, <2>2, <2>4, <3>1 DEF Verdicts
    <3>3. QED
      BY <1>3, <3>1, <3>2 DEF MarkSound
  <2>5. CASE ~hit /\ AtLastRule
    <3>1. mark' = mark /\ chain' = chain + 1 /\ rule' = 1 /\ Verdict(pkt, Here) = "none"
      BY <2>2, <2>5 DEF Evaluate, AtLastRule
    <3>2. \A n \in DOMAIN ChainsOf(pkt) : n < chain' => n < chain \/ ChainsOf(pkt)[n] = Here
      BY <1>1, <2>3, <3>1 DEF Here
    <3>3. QED
      BY <1>3, <2>1, <3>1, <3>2 DEF MarkSound
  <2>6. CASE ~hit /\ ~AtLastRule
    <3>1. mark' = mark /\ chain' = chain /\ rule' = rule + 1 /\ UNCHANGED <<pkt, sets, enabled>>
      BY <2>6 DEF Evaluate
    <3>2. \A y \in 1 .. (rule' - 1) : ~Matches(pkt, Here, Rules[y], sets, enabled)
      BY <1>4, <2>1, <2>6, <3>1
    <3>3. Here' = Here
      BY <1>3, <3>1 DEF Here
    <3>4. QED
      BY <1>3, <2>1, <3>1, <3>2, <3>3 DEF MarkSound
  <2>7. QED
    BY <2>4, <2>5, <2>6
<1>8. QED
  BY <1>1, <1>3, <1>5, <1>6, <1>7 DEF Evaluate, IInv, Level

\* The filters read the mark.
LEMMA EnqueueStep == ASSUME IInv, Enqueue PROVE IInv'
<1>1. /\ ChainsOf(pkt)' = ChainsOf(pkt) /\ AllPassed' /\ AllPassed
      /\ \A ch : Verdict(pkt, ch)' = Verdict(pkt, ch)
      /\ Verdicts' = Verdicts
      /\ FindsAny(pkt, sets, enabled)' = FindsAny(pkt, sets, enabled)
  BY DEF Enqueue, ChainsOf, AllPassed, Passed, Verdict, Verdicts, FindsAny
<1>2. TypeOK'
  BY <1>1 DEF Enqueue, IInv, TypeOK, Level
<1>3. MarkSound => MarkSound'
  BY <1>1 DEF Enqueue, MarkSound
<1>4. /\ FindsAny(pkt, sets, enabled)' \subseteq found' /\ (mark' # "none" => mark' \in found')
      /\ changes' = 0 => MarkSound'
  BY <1>1, <1>3 DEF Enqueue, IInv
<1>5. /\ class' \in Level => class' = mark'
      /\ class' = "default" /\ pkt'.v4 => mark' = "none"
  BY DEF Enqueue, IInv, TypeOK, Level
<1>6. QED
  BY <1>1, <1>2, <1>4, <1>5 DEF IInv

\* The packet leaves.
LEMMA LeaveStep == ASSUME IInv, Leave PROVE IInv'
<1>1. ChainsOf(pkt)' = ChainsOf(pkt)
  BY DEF Leave, ChainsOf
<1>2. TypeOK' /\ class' = "idle"
  BY <1>1 DEF Leave, IInv, TypeOK
<1>3. QED
  BY <1>2 DEF IInv

\* Sets or qdiscs change under the packet.
LEMMA ChangeStep ==
    ASSUME IInv, NEW s \in [Level -> SUBSET Key], NEW on \in SUBSET Iface, NEW with \in SUBSET Iface,
           Change(s, on, with)
    PROVE  IInv'
<1>1. /\ ChainsOf(pkt)' = ChainsOf(pkt) /\ (AllPassed' <=> AllPassed)
      /\ FindsAny(pkt, sets, enabled)' = FindsAny(pkt, s, on)
      /\ FindsAny(pkt, s, on) \subseteq Level
  BY DEF Change, ChainsOf, AllPassed, FindsAny, Passed, Finds
<1>2. TypeOK'
  BY <1>1 DEF Change, IInv, TypeOK
<1>3. changes' # 0
  BY DEF Change, IInv, TypeOK
<1>4. QED
  BY <1>1, <1>2, <1>3 DEF Change, IInv

\* The invariant holds at the beginning and is preserved.
LEMMA Inductive == Spec => []IInv
<1>1. Init => IInv
  <2>1. 1 \in DOMAIN Rules /\ (Init => Len(ChainsOf(pkt)) \in Nat)
    BY DEF Rules, Init, ChainsOf
  <2>2. QED
    BY <2>1 DEF Init, IInv, TypeOK
<1>2. IInv /\ [Next]_vars => IInv'
  <2> SUFFICES ASSUME IInv, [Next]_vars PROVE IInv'
    OBVIOUS
  <2>1. /\ \A l \in Level : \A k \in Key :
              /\ [sets EXCEPT ![l] = @ \cup {k}] \in [Level -> SUBSET Key]
              /\ [sets EXCEPT ![l] = @ \ {k}] \in [Level -> SUBSET Key]
        /\ sets \in [Level -> SUBSET Key] /\ enabled \in SUBSET Iface /\ shaped \in SUBSET Iface
    BY DEF IInv, TypeOK
  <2>2. ASSUME NEW p \in Packet, Arrive(p) PROVE IInv'
    BY <2>2, ArriveStep
  <2>3. ASSUME NEW l \in Level, NEW k \in Key,
               \/ Change([sets EXCEPT ![l] = @ \cup {k}], enabled, shaped)
               \/ Change([sets EXCEPT ![l] = @ \ {k}], enabled, shaped)
        PROVE  IInv'
    BY <2>1, <2>3, ChangeStep
  <2>4. ASSUME NEW i \in Iface,
               \/ Change(sets, enabled \cup {i}, shaped) \/ Change(sets, enabled \ {i}, shaped)
               \/ Change(sets, enabled, shaped \cup {i}) \/ Change(sets, enabled, shaped \ {i})
        PROVE  IInv'
    <3>1. /\ enabled \cup {i} \in SUBSET Iface /\ enabled \ {i} \in SUBSET Iface
          /\ shaped \cup {i} \in SUBSET Iface /\ shaped \ {i} \in SUBSET Iface
      BY <2>1
    <3>2. QED
      BY <2>1, <2>4, <3>1, ChangeStep
  <2>5. CASE UNCHANGED vars
    <3>1. /\ ChainsOf(pkt)' = ChainsOf(pkt) /\ (AllPassed <=> AllPassed') /\ Here' = Here
          /\ \A ch : Verdict(pkt, ch)' = Verdict(pkt, ch)
          /\ Verdicts' = Verdicts
          /\ FindsAny(pkt, sets, enabled)' = FindsAny(pkt, sets, enabled)
      BY <2>5 DEF vars, ChainsOf, AllPassed, Here, Passed, Verdict, Verdicts, FindsAny
    <3>2. TypeOK'
      BY <2>5, <3>1 DEF vars, IInv, TypeOK
    <3>3. MarkSound => MarkSound'
      BY <2>5, <3>1 DEF vars, MarkSound
    <3>4. QED
      BY <2>5, <3>1, <3>2, <3>3 DEF vars, IInv
  <2>6. QED
    BY <2>2, <2>3, <2>4, <2>5, EvaluateStep, EnqueueStep, LeaveStep DEF Next
<1>3. QED
  BY <1>1, <1>2, PTL DEF Spec

\* Every state of a packet on its way is of its type (initRules).
THEOREM TypeCorrect == Spec => []TypeOK
<1>1. IInv => TypeOK
  BY DEF IInv
<1>2. QED
  BY <1>1, Inductive, PTL

\* An IPv4 packet that nothing changes under is classed as its rules say: the order
\* of the rules puts high before low, and no chain marks without a rule (initRules,
\* createQosIPRule, addFWFilter).
THEOREM FollowsCorrect == Spec => []FollowsRules
<1>1. IInv => FollowsRules
  <2> SUFFICES ASSUME IInv, pkt.v4, changes = 0, class \in Level \cup {"default"}
               PROVE  IF Verdicts = {} THEN class = "default" ELSE class \in Verdicts
    BY DEF FollowsRules, Follows
  <2>1. MarkSound /\ AllPassed /\ class \notin {"idle", "none"}
    BY DEF IInv, Level
  <2>2. CASE class \in Level
    BY <2>1, <2>2 DEF IInv, MarkSound, Level
  <2>3. CASE class = "default"
    <3>1. /\ mark = "none" /\ TypeOK
          /\ DOMAIN ChainsOf(pkt) = 1 .. Len(ChainsOf(pkt)) /\ Len(ChainsOf(pkt)) \in 1 .. 2
      BY <2>1, <2>3, TheChains DEF IInv
    <3>2. \A n \in DOMAIN ChainsOf(pkt) : n < chain
      BY <2>1, <3>1 DEF TypeOK, AllPassed
    <3>3. \A ch \in Passed(pkt) : Verdict(pkt, ch) = "none"
      BY <2>1, <3>1, <3>2 DEF MarkSound, Passed
    <3>4. Verdicts = {}
      BY <3>3 DEF Verdicts
    <3>5. QED
      BY <2>3, <3>4
  <2>4. QED
    BY <2>2, <2>3
<1>2. QED
  BY <1>1, Inductive, PTL

\* Whatever changes under a packet of whichever family: it gets no class above or
\* below the default for which there was no rule at any time on its way.
THEOREM UndeservedCorrect == Spec => []NoneUndeserved
<1>1. IInv => NoneUndeserved
  BY DEF IInv, NoneUndeserved, Level
<1>2. QED
  BY <1>1, Inductive, PTL
=============================================================================
