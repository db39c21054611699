----------------------------- MODULE QosRulesSync -----------------------------
(***************************************************************************)
(* Kernel and database stay in step: the proof of InSync, DomainIPsExact   *)
(* and RestoreCovers for any number of clients, rules, faults and reboots. *)
(*                                                                         *)
(* An operation owns what it touches.  A step of one operation therefore   *)
(* changes nothing that another one, or a clean element nobody touches,    *)
(* depends on (Frame); and where it changes something, its own program     *)
(* counter says what (Own).                                                *)
(***************************************************************************)
EXTENDS QosRulesProofs

-----------------------------------------------------------------------------
(* What two operations in flight together may spoil for each other.        *)

\* What both touch is spoiled.
LEMMA ClashMeets == ASSUME NEW S \in SUBSET Everything, NEW T \in SUBSET Everything
                    PROVE  S \cap T \subseteq Clash(S, T)
BY DEF Clash

\* It does not matter which of the two is asked.
LEMMA ClashSymmetric == ASSUME NEW S, NEW T PROVE Clash(S, T) = Clash(T, S)
<1>1. S \cap T = T \cap S /\ S \cup T = T \cup S
  OBVIOUS
<1> QED
  BY <1>1 DEF Clash

\* An operation without anything to touch spoils nothing.
LEMMA ClashNothing == ASSUME NEW S PROVE Clash(S, {}) = {} /\ Clash({}, S) = {}
BY DEF Clash

\* An operation on everything spoils all of another one's; so does any operation
\* that shares a domain with it, unless the other one is on everything.
LEMMA ClashAll ==
    ASSUME NEW S \in SUBSET Everything, NEW T \in SUBSET Everything, T # Everything,
           S = Everything \/ S \cap T \cap Domain # {}
    PROVE  T \subseteq Clash(S, T)
BY DEF Clash

\* Two operations that share a domain spoil everything of each other.
LEMMA ClashDomain ==
    ASSUME NEW S \in SUBSET Everything, NEW T \in SUBSET Everything,
           S # Everything, T # Everything, S \cap T \cap Domain # {}
    PROVE  S \cup T \subseteq Clash(S, T)
BY DEF Clash

\* An operation on particular targets is not one on everything.
LEMMA TargetsAreNotAll == ASSUME NEW S, S \subseteq Target PROVE S # Everything
BY RulesAssumption DEF Everything

-----------------------------------------------------------------------------
(* What is said of an element depends on the kernel's sets and on claims.  *)

\* A step that leaves everything as it is for element e.
Same(e) ==
    /\ \A k \in Prio : e \in nft'[k] <=> e \in nft[k]
    /\ \A t \in Target : e \in rules'[t].ips <=> e \in rules[t].ips
    /\ \A t \in Target : \A k \in Prio : Claims(t, k, e)' <=> Claims(t, k, e)

\* An element is claimed when some row claims it.
LEMMA ClaimedBy ==
    ASSUME NEW e \in Elem, NEW k
    PROVE  /\ e \in Claimed(k) <=> \E t \in Target : Claims(t, k, e)
           /\ \A T : e \in ClaimedIn(T, k) <=> \E t \in T : Claims(t, k, e)
           /\ e \in Claimed(k) <=> \/ e \in ClaimedIn(Domain, k)
                                   \/ e \in ClaimedIn(Addr, k)
                                   \/ e \in ClaimedIn(Service, k)
BY DEF Claimed, ClaimedIn, Target

\* The same after the step.
LEMMA ClaimedByNext ==
    ASSUME NEW e \in Elem, NEW k
    PROVE  /\ e \in Claimed(k)' <=> \E t \in Target : Claims(t, k, e)'
           /\ \A T : e \in ClaimedIn(T, k)' <=> \E t \in T : Claims(t, k, e)'
           /\ e \in Claimed(k)' <=> \/ e \in ClaimedIn(Domain, k)'
                                    \/ e \in ClaimedIn(Addr, k)'
                                    \/ e \in ClaimedIn(Service, k)'
BY DEF Claimed, ClaimedIn, Target

\* Claims that no row changes are claimed as before.
LEMMA SameClaimed ==
    ASSUME NEW e \in Elem, NEW k \in Prio, \A t \in Target : Claims(t, k, e)' <=> Claims(t, k, e)
    PROVE  /\ e \in Claimed(k)' <=> e \in Claimed(k)
           /\ e \in ClaimedIn(Domain, k)' <=> e \in ClaimedIn(Domain, k)
           /\ e \in ClaimedIn(Addr, k)' <=> e \in ClaimedIn(Addr, k)
BY ClaimedBy, ClaimedByNext DEF Target

\* Kernel and database agree on an element as before.
LEMMA SameSync ==
    ASSUME NEW e \in Elem, Same(e)
    PROVE  /\ InSyncAt(e)' <=> InSyncAt(e)
           /\ \A k \in Prio : SyncBut(k, e)' <=> SyncBut(k, e)
           /\ \A k \in Prio : Half(k, e)' <=> Half(k, e)
BY SameClaimed DEF Same, InSyncAt, SyncBut, Half

\* Both priorities, or one and the other.
LEMMA SyncSplit ==
    ASSUME NEW e \in Elem, NEW k \in Prio
    PROVE  InSyncAt(e) <=> SyncBut(k, e) /\ (e \in nft[k] <=> e \in Claimed(k))
BY DEF InSyncAt, SyncBut

\* The same after the step.
LEMMA SyncSplitNext ==
    ASSUME NEW e \in Elem, NEW k \in Prio
    PROVE  InSyncAt(e)' <=> SyncBut(k, e)' /\ (e \in nft'[k] <=> e \in Claimed(k)')
BY DEF InSyncAt, SyncBut

\* What holds of an element in an operation that does not move holds on.
LEMMA SamePhase ==
    ASSUME NEW d \in Client, NEW e \in Elem, Same(e), Shape(d), job[d].prio \in Prio,
           pc'[d] = pc[d], job'[d] = job[d], Phase(d, e)
    PROVE  Phase(d, e)'
<1>1. /\ InSyncAt(e)' <=> InSyncAt(e)
      /\ \A k \in Prio : SyncBut(k, e)' <=> SyncBut(k, e)
      /\ \A k \in Prio : Half(k, e)' <=> Half(k, e)
  BY SameSync
<1>2. \A k \in Prio : /\ e \in Claimed(k)' <=> e \in Claimed(k)
                      /\ e \in ClaimedIn(Domain, k)' <=> e \in ClaimedIn(Domain, k)
                      /\ e \in ClaimedIn(Addr, k)' <=> e \in ClaimedIn(Addr, k)
  BY SameClaimed DEF Same
<1>3. pc[d] \in {"kdel", "drop", "clear"} => job[d].target \in Target
  BY DEF Shape, Place, Reach, Plan, Target
<1> QED
  BY <1>1, <1>2, <1>3 DEF Phase, Same, Prio

-----------------------------------------------------------------------------
(* A step of an operation changes what the operation touches, only.        *)

\* Kernel elements and rows that operation c does not touch stay; an operation on
\* everything adds no addresses to a row.
Frame(c) ==
    /\ \A e \in Elem \ touch[c], k \in Prio : e \in nft'[k] <=> e \in nft[k]
    /\ \A t \in Target :
          \/ rules'[t] = rules[t]
          \/ t \in touch[c] /\ rules'[t].ips \subseteq rules[t].ips
          \/ /\ t \in touch[c] /\ touch[c] # Everything
             /\ rules'[t].ips \subseteq rules[t].ips \cup touch[c]

\* Nothing but the variables of the operation changes.
LEMMA FrameNothing == ASSUME NEW c \in Client, UNCHANGED <<nft, rules>> PROVE Frame(c)
BY DEF Frame

\* Requests to the kernel change what the operation touches.
LEMMA FrameKernel ==
    ASSUME Static, NEW c \in Client, KernelStep(c)
    PROVE  Frame(c)
<1>0. /\ Shape(c) /\ job[c] \in Job /\ touch[c] \in SUBSET Everything
      /\ nft \in [Prio -> SUBSET Elem]
  BY DEF Static, TypeOK
<1>1. rules' = rules
  BY KernelKeepsRows
<1>2. job[c].todo \subseteq touch[c]
  BY <1>0 DEF Shape, Reach
<1>3. CASE AddToSet(c)
  <2>1. PICK S \in Batches(job[c].todo) : nft' = [nft EXCEPT ![job[c].prio] = @ \cup S]
    BY <1>3 DEF AddToSet
  <2>2. S \subseteq touch[c]
    BY <1>2 DEF Batches
  <2> QED
    BY <1>0, <1>1, <2>1, <2>2 DEF Frame
<1>4. CASE RemoveFromSet(c)
  <2>1. PICK e \in job[c].todo : nft' = [nft EXCEPT ![job[c].prio] = @ \ {e}]
    BY <1>4 DEF RemoveFromSet
  <2> QED
    BY <1>0, <1>1, <1>2, <2>1 DEF Frame
<1>5. CASE FlushSets(c)
  <2>1. touch[c] = Everything
    BY <1>0, <1>5 DEF FlushSets, AtKernel, Shape, Place, Reach, Global
  <2> QED
    BY <1>1, <2>1 DEF Frame, Everything, Elem, Target
<1>6. CASE UNCHANGED nft
  BY <1>1, <1>6, FrameNothing
<1> QED
  BY <1>3, <1>4, <1>5, <1>6
     DEF KernelStep, AddRejected, Fail, RemoveMissing, AddDone, RemoveDone, RestoreHighDone,
         RestoreHostsDone, RestoreDone, OrphanDone, RequestDone

\* Statements on the database change what the operation touches.
LEMMA FrameDb ==
    ASSUME Static, NEW c \in Client, DbStep(c)
    PROVE  Frame(c)
<1>0. /\ Shape(c) /\ job[c] \in Job /\ touch[c] \in SUBSET Everything
      /\ rules \in [Target -> Row] /\ RowShape
  BY DEF Static, TypeOK
<1>1. UNCHANGED nft
  BY DEF DbStep, InsertRow, ReadRow, Fail, InsertIP, IPsDone, DropRow, FlushDomainRules,
         FlushIPRules, FlushServiceRules, FlushTable, RestoreReadDomains, RestoreReadServices,
         Resolve, RefreshDone, ClearIPs
<1>2. ASSUME NEW t \in Target, t \in touch[c], NEW X, X \subseteq rules[t].ips \cup touch[c],
             touch[c] # Everything, NEW r, r.ips = X,
             rules' = [rules EXCEPT ![t] = r]
      PROVE  Frame(c)
  BY <1>0, <1>1, <1>2 DEF Frame
<1>3. job[c].kind \in {"add", "delete", "refresh"} => touch[c] # Everything
  BY <1>0, TargetsAreNotAll DEF Shape, Reach
<1>4. CASE InsertRow(c)
  <2>1. CASE UNCHANGED rules
    BY <1>1, <2>1, FrameNothing
  <2>2. CASE rules' = [rules EXCEPT ![job[c].target] =
                [id |-> nextId, prio |-> job[c].prio,
                 ips |-> IF job[c].target \in Domain THEN {} ELSE {job[c].target}]]
    <3>1. job[c].kind = "add" /\ job[c].target \in Target /\ job[c].target \in touch[c]
      BY <1>0, <1>4 DEF InsertRow, Shape, Place, Reach
    <3> QED
      BY <1>2, <1>3, <2>2, <3>1
  <2> QED
    BY <1>4, <2>1, <2>2 DEF InsertRow
<1>5. CASE InsertIP(c)
  <2>1. PICK e \in job[c].todo :
            rules' = IF rules[job[c].target].id = job[c].id
                     THEN [rules EXCEPT ![job[c].target].ips = @ \cup {e}] ELSE rules
    BY <1>5 DEF InsertIP
  <2>2. pc[c] = "ips"
    BY <1>5 DEF InsertIP
  <2>3. /\ job[c].kind \in {"add", "refresh"} /\ job[c].target \in Target
        /\ job[c].target \in touch[c] /\ e \in touch[c]
    BY <1>0, <2>1, <2>2 DEF Shape, Place, Reach, Plan, Target
  <2>4. CASE UNCHANGED rules
    BY <1>1, <2>4, FrameNothing
  <2>5. CASE rules' = [rules EXCEPT ![job[c].target].ips = @ \cup {e}]
    <3> DEFINE t == job[c].target
               r == [rules[t] EXCEPT !.ips = @ \cup {e}]
    <3>1. rules' = [rules EXCEPT ![t] = r] /\ r.ips = rules[t].ips \cup {e}
      BY <1>0, <2>3, <2>5 DEF Row
    <3> QED
      BY <1>2, <1>3, <2>3, <3>1
  <2> QED
    BY <2>1, <2>4, <2>5
<1>6. CASE DropRow(c)
  <2>1. job[c].kind = "delete" /\ job[c].target \in Target /\ job[c].target \in touch[c]
    BY <1>0, <1>6 DEF DropRow, Shape, Place, Reach
  <2>2. CASE UNCHANGED rules
    BY <1>1, <2>2, FrameNothing
  <2>3. CASE rules' = [rules EXCEPT ![job[c].target] = NoRow]
    BY <1>2, <1>3, <2>1, <2>3 DEF NoRow
  <2> QED
    BY <1>6, <2>2, <2>3 DEF DropRow
<1>7. CASE FlushDomainRules(c) \/ FlushIPRules(c) \/ FlushServiceRules(c)
  <2>1. PICK T : rules' = [t \in Target |-> IF t \in T THEN NoRow ELSE rules[t]]
    BY <1>7 DEF FlushDomainRules, FlushIPRules, FlushServiceRules, FlushTable
  <2>2. touch[c] = Everything
    BY <1>0, <1>7
       DEF FlushDomainRules, FlushIPRules, FlushServiceRules, FlushTable, Shape, Place, Reach, Global
  <2>3. \A t \in Target : rules'[t] = rules[t] \/ rules'[t].ips = {}
    BY <2>1 DEF NoRow
  <2> QED
    BY <1>1, <2>2, <2>3 DEF Frame, Everything
<1>8. CASE ClearIPs(c)
  <2>1. job[c].kind = "refresh" /\ job[c].target \in Target /\ job[c].target \in touch[c]
    BY <1>0, <1>8 DEF ClearIPs, Shape, Place, Plan, Target
  <2>2. CASE UNCHANGED rules
    BY <1>1, <2>2, FrameNothing
  <2>3. CASE rules' = [rules EXCEPT ![job[c].target].ips = {}]
    <3> DEFINE t == job[c].target
               r == [rules[t] EXCEPT !.ips = {}]
    <3>1. rules' = [rules EXCEPT ![t] = r] /\ r.ips = {}
      BY <1>0, <2>1, <2>3 DEF Row
    <3> QED
      BY <1>2, <1>3, <2>1, <3>1
  <2> QED
    BY <1>8, <2>2, <2>3 DEF ClearIPs
<1>9. CASE UNCHANGED rules
  BY <1>1, <1>9, FrameNothing
<1> QED
  BY <1>4, <1>5, <1>6, <1>7, <1>8, <1>9
     DEF DbStep, ReadRow, Fail, IPsDone, RestoreReadDomains, RestoreReadServices, Resolve, RefreshDone

-----------------------------------------------------------------------------
(* What a step of operation c leaves to the others.                        *)

\* A step of operation c that disturbs no other one.
Under(c) == Frame(c) /\ OthersKeep(c) /\ tainted \subseteq tainted'

\* The operation goes on with what it touches, or ends.
GoesOn(c) == touch'[c] = touch[c] \/ (touch'[c] = {} /\ pc'[c] = "idle")

\* A clean element that c does not touch is as before: the rows c changes have it
\* neither before (Cover) nor after.
LEMMA FrameSame ==
    ASSUME TypeOK, NEW c \in Client, Frame(c), Cover(c),
           NEW e \in Elem, e \notin touch[c], e \notin tainted
    PROVE  Same(e)
<1>1. \A k \in Prio : e \in nft'[k] <=> e \in nft[k]
  BY DEF Frame
<1>2. ASSUME NEW t \in Target, rules'[t] # rules[t]
      PROVE  e \notin rules[t].ips /\ e \notin rules'[t].ips
  <2>1. t \in touch[c] /\ rules'[t].ips \subseteq rules[t].ips \cup touch[c]
    BY <1>2 DEF Frame
  <2>2. e \notin rules[t].ips
    BY <2>1 DEF Cover, Clean
  <2> QED
    BY <2>1, <2>2
<1>3. \A t \in Target : e \in rules'[t].ips <=> e \in rules[t].ips
  BY <1>2
<1>4. \A t \in Target : \A k \in Prio : Claims(t, k, e)' <=> Claims(t, k, e)
  BY <1>2 DEF Claims
<1> QED
  BY <1>1, <1>3, <1>4 DEF Same

\* What another operation touches and is clean, c does not touch.
LEMMA Apart ==
    ASSUME TypeOK, NoClash, NEW c \in Client, NEW d \in Client, c # d,
           NEW e, e \in touch[d], e \notin tainted
    PROVE  e \notin touch[c]
<1>1. touch[c] \in SUBSET Everything /\ touch[d] \in SUBSET Everything
  BY DEF TypeOK
<1>2. Clash(touch[c], touch[d]) \subseteq tainted
  BY DEF NoClash
<1> QED
  BY <1>1, <1>2, ClashMeets

\* Two operations that clash went on clashing with what they still touch.
LEMMA NoClashUnder ==
    ASSUME TypeOK, NoClash, NEW c \in Client, Under(c), GoesOn(c)
    PROVE  NoClash'
<1> SUFFICES ASSUME NEW a \in Client, NEW b \in Client, a # b
             PROVE  Clash(touch'[a], touch'[b]) \subseteq tainted'
  BY DEF NoClash, Clash
<1>1. \A d \in Client : touch'[d] = touch[d] \/ touch'[d] = {}
  BY DEF Under, OthersKeep, GoesOn
<1>2. Clash(touch[a], touch[b]) \subseteq tainted'
  BY DEF NoClash, Under
<1> QED
  BY <1>1, <1>2, ClashNothing

\* The rows that an undisturbed operation works on are its own.
LEMMA OwnRow ==
    ASSUME TypeOK, NoClash, NEW c \in Client, NEW d \in Client, c # d, Frame(c),
           NEW t \in Target, t \in touch[d], Undisturbed(d), touch[d] \subseteq Target,
           t \in Domain \/ touch[d] = {t}
    PROVE  rules'[t] = rules[t]
<1> SUFFICES ASSUME t \in touch[c] PROVE FALSE
  BY DEF Frame
<1>1. touch[c] \in SUBSET Everything /\ touch[d] \in SUBSET Everything /\ touch[d] # Everything
  BY TargetsAreNotAll DEF TypeOK
<1>2. Clash(touch[c], touch[d]) \subseteq tainted
  BY DEF NoClash
<1>3. CASE t \in Domain
  <2>1. touch[d] \subseteq Clash(touch[c], touch[d])
    BY <1>1, <1>3, ClashAll
  <2> QED
    BY <1>2, <2>1 DEF Undisturbed
<1>4. CASE touch[d] = {t}
  BY <1>1, <1>2, <1>4, ClashMeets DEF Undisturbed
<1> QED
  BY <1>3, <1>4

\* The rows of another undisturbed operation are as it left them.
LEMMA RowsOther ==
    ASSUME TypeOK, NoClash, NEW c \in Client, NEW d \in Client, c # d, Frame(c), OthersKeep(c),
           tainted \subseteq tainted', Shape(d), Rows(d)
    PROVE  Rows(d)'
<1> SUFFICES ASSUME Undisturbed(d)' PROVE Rows(d)'
  BY DEF Rows
<1>1. Undisturbed(d) /\ pc'[d] = pc[d] /\ job'[d] = job[d]
  BY DEF Undisturbed, OthersKeep
<1>2. touch[d] # {}
  BY <1>1 DEF Undisturbed
<1>3. CASE Global(d)
  BY <1>1, <1>3 DEF Rows, Shape, Place, Global
<1>4. CASE job[d].kind \in {"add", "delete"}
  <2>1. rules'[job[d].target] = rules[job[d].target]
    BY <1>1, <1>4, OwnRow DEF Shape, Reach, Target, Elem
  <2> QED
    BY <1>1, <1>4, <2>1 DEF Rows
<1>5. CASE job[d].kind = "refresh"
  <2>1. \A s \in job[d].pending : s.dom \in Domain /\ s.dom \in touch[d]
    BY <1>5 DEF TypeOK, Job, Snapshot, Shape, Plan
  <2>2. \A s \in job[d].pending : rules'[s.dom] = rules[s.dom]
    BY <1>1, <1>5, <2>1, OwnRow DEF Shape, Reach, Target
  <2>3. pc[d] # "resolve" => rules'[job[d].target] = rules[job[d].target]
    BY <1>1, <1>5, OwnRow DEF Shape, Reach, Plan, Target
  <2> QED
    BY <1>1, <1>5, <2>2, <2>3 DEF Rows, Shape, Place
<1>6. job[d].kind \in Kind /\ pc[d] # "idle"
  BY <1>2 DEF TypeOK, Job, Shape, Reach
<1> QED
  BY <1>3, <1>4, <1>5, <1>6 DEF Global, Kind, Shape, Place

\* Rows that another operation changes have no addresses this one could miss.
LEMMA CoverOther ==
    ASSUME TypeOK, RowShape', NoClash, NEW c \in Client, NEW d \in Client, c # d, Frame(c),
           OthersKeep(c), tainted \subseteq tainted', Cover(d)
    PROVE  Cover(d)'
<1> SUFFICES ASSUME NEW t \in Target, t \in touch[d], NEW e \in Elem, e \in rules'[t].ips,
                    e \notin tainted'
             PROVE  e \in touch[d]
  BY DEF Cover, Clean, OthersKeep
<1>1. touch[c] \in SUBSET Everything /\ touch[d] \in SUBSET Everything
  BY DEF TypeOK
<1>2. CASE e \in rules[t].ips
  BY <1>2 DEF Cover, Clean
<1>3. CASE e \notin rules[t].ips
  <2>1. t \in touch[c] /\ touch[c] # Everything /\ e \in touch[c]
    BY <1>3 DEF Frame
  <2>2. CASE t \in Domain
    <3>1. touch[d] # Everything => touch[c] \cup touch[d] \subseteq Clash(touch[c], touch[d])
      BY <1>1, <2>1, <2>2, ClashDomain
    <3>2. Clash(touch[c], touch[d]) \subseteq tainted
      BY DEF NoClash
    <3> QED
      BY <2>1, <3>1, <3>2 DEF Everything, Elem, Target
  <2>3. CASE t \notin Domain
    BY <2>3 DEF RowShape, NoRow
  <2> QED
    BY <2>2, <2>3
<1> QED
  BY <1>2, <1>3

\* Rows that the operation itself changes get addresses that it touches.
LEMMA CoverSelf ==
    ASSUME NEW c \in Client, Under(c), GoesOn(c), Cover(c)
    PROVE  Cover(c)'
BY DEF Under, GoesOn, Frame, Cover, Clean

\* An operation that does not move loses nothing by the step of another one.
LEMMA JobOther ==
    ASSUME Static, Static', NoClash, NEW c \in Client, NEW d \in Client, c # d, Under(c),
           Cover(c), Job1(d)
    PROVE  Job1(d)'
<1>1. TypeOK /\ RowShape' /\ Shape(d)' /\ job[d].prio \in Prio
  BY DEF Static, TypeOK, Job
<1>2. Cover(d)' /\ Rows(d)'
  BY <1>1, CoverOther, RowsOther DEF Under, Job1
<1>3. ASSUME NEW e \in touch[d], Clean(e)'
      PROVE  Phase(d, e)'
  <2>1. e \in Elem /\ e \notin tainted /\ Phase(d, e)
    BY <1>3 DEF Clean, Under, Job1
  <2>2. Same(e)
    BY <1>1, <2>1, Apart, FrameSame DEF Under
  <2> QED
    BY <1>1, <2>1, <2>2, SamePhase DEF Under, OthersKeep, Job1
<1> QED
  BY <1>1, <1>2, <1>3 DEF Job1, Under, OthersKeep

-----------------------------------------------------------------------------
(* What a step of operation c makes of what it touches.                    *)

\* After the step the operation's row and elements are as its new place says, and
\* in step when the operation has ended.
Own(c) ==
    /\ Rows(c)'
    /\ \A e \in touch[c] :
          Clean(e)' => IF pc'[c] = "idle" THEN InSyncAt(e)' ELSE Phase(c, e)'

\* An operation that is cut short has spoiled all it touched.
LEMMA OwnSpoiled ==
    ASSUME NEW c \in Client, touch[c] \subseteq tainted', touch'[c] \subseteq touch[c]
    PROVE  Own(c)
BY DEF Own, Rows, Undisturbed, Clean

\* As long as the rows stay, so do the claims.
LEMMA ClaimsStay ==
    ASSUME UNCHANGED rules
    PROVE  /\ \A t, k, e : Claims(t, k, e)' <=> Claims(t, k, e)
           /\ \A k : Claimed(k)' = Claimed(k)
           /\ \A T, k : ClaimedIn(T, k)' = ClaimedIn(T, k)
BY DEF Claims, Claimed, ClaimedIn

\* A change of the sets of one priority concerns only the elements that change.
LEMMA SetsOfOnePrio ==
    ASSUME TypeOK, NEW k \in Prio, NEW X, nft' = [nft EXCEPT ![k] = X], UNCHANGED rules, NEW e \in Elem
    PROVE  /\ SyncBut(k, e)' <=> SyncBut(k, e)
           /\ (e \in nft'[k] <=> e \in nft[k]) => Same(e)
BY ClaimsStay DEF TypeOK, SyncBut, Same

\* A clean element that the operation touches is in the phase of its place, and
\* the operation's row is as its place says.
Owned(c) == Rows(c) /\ \A e \in touch[c] : Clean(e) => Phase(c, e)

\* A batch of elements goes into the kernel's set.
LEMMA OwnAddToSet ==
    ASSUME Static, NEW c \in Client, Owned(c), AddToSet(c)
    PROVE  Own(c)
<1>0. TypeOK /\ Shape(c) /\ job[c] \in Job
  BY DEF Static, TypeOK
<1>00. PICK k \in Prio : k = job[c].prio
  BY <1>0 DEF Job
<1>1. PICK S \in Batches(job[c].todo) :
           /\ nft' = [nft EXCEPT ![job[c].prio] = @ \cup S]
           /\ Goto(c, "kadd", [job[c] EXCEPT !.todo = @ \ S])
  BY DEF AddToSet
<1>2. pc[c] = "kadd" /\ UNCHANGED <<rules, tainted>> /\ S \subseteq job[c].todo
  BY <1>1 DEF AddToSet, AtKernel, Batches
<1>3. /\ pc'[c] = "kadd" /\ touch'[c] = touch[c]
      /\ job'[c] = [job[c] EXCEPT !.todo = @ \ S]
  BY <1>0, <1>00, <1>1, GotoValues
<1>4. /\ job'[c].kind = job[c].kind /\ job'[c].target = job[c].target /\ job'[c].id = job[c].id
      /\ job'[c].prio = k /\ job'[c].todo = job[c].todo \ S
      /\ job'[c].ips = job[c].ips /\ job'[c].rest = job[c].rest
      /\ job'[c].pending = job[c].pending
  BY <1>0, <1>00, <1>3 DEF Job
<1>5. Rows(c)'
  BY <1>00, <1>2, <1>3, <1>4 DEF Owned, Rows, Undisturbed
<1>6. ASSUME NEW e \in touch[c], Clean(e)' PROVE Phase(c, e)'
  <2>0. e \in Elem /\ Phase(c, e)
    BY <1>00, <1>2, <1>6 DEF Clean, Owned
  <2>1. CASE e \notin S
    <3>0. e \in nft'[k] <=> e \in nft[k]
      BY <1>0, <1>00, <1>1, <2>1 DEF TypeOK
    <3>1. Same(e)
      BY <1>0, <1>00, <1>1, <1>2, <2>0, <3>0, SetsOfOnePrio
    <3>2. /\ InSyncAt(e)' <=> InSyncAt(e)
          /\ Half(k, e)' <=> Half(k, e)
      BY <1>0, <1>00, <2>0, <3>1, SameSync
    <3> QED
      BY <1>00, <1>2, <1>3, <1>4, <2>0, <2>1, <3>2, ClaimsStay DEF Phase
  <2>2. CASE e \in S
    <3>1. e \in nft'[k] /\ (SyncBut(k, e)' <=> SyncBut(k, e))
      BY <1>0, <1>00, <1>1, <1>2, <2>0, <2>2, SetsOfOnePrio DEF TypeOK
    <3>2. CASE job[c].kind \in {"add", "refresh"}
      <4>1. SyncBut(k, e)
        BY <1>0, <1>00, <1>2, <2>0, <2>2, <3>2, SyncSplit DEF Phase
      <4>2. Half(k, e)' /\ e \in job[c].ips
        BY <1>0, <1>00, <1>2, <2>2, <3>1, <3>2, <4>1 DEF Half, Shape, Reach
      <4> QED
        BY <1>3, <1>4, <2>2, <3>2, <4>2 DEF Phase
    <3>3. CASE job[c].kind \in {"restore", "restoreSvc"}
      <4>1. InSyncAt(e) /\ e \in Claimed(k)
        BY <1>00, <1>2, <2>0, <2>2, <3>3 DEF Phase
      <4>2. InSyncAt(e)'
        BY <1>0, <1>00, <1>2, <2>0, <3>1, <4>1, SyncSplit, SyncSplitNext, ClaimsStay
      <4> QED
        BY <1>00, <1>2, <1>3, <1>4, <2>0, <3>3, <4>2, ClaimsStay DEF Phase
    <3> QED
      BY <1>0, <1>00, <1>2, <3>2, <3>3 DEF Shape, Place
  <2> QED
    BY <2>1, <2>2
<1> QED
  BY <1>3, <1>5, <1>6 DEF Own

\* An element goes out of the kernel's set.
LEMMA OwnRemoveFromSet ==
    ASSUME Static, NEW c \in Client, Owned(c), RemoveFromSet(c)
    PROVE  Own(c)
<1>0. TypeOK /\ Shape(c) /\ job[c] \in Job
  BY DEF Static, TypeOK
<1>00. PICK k \in Prio : k = job[c].prio
  BY <1>0 DEF Job
<1>1. PICK x \in job[c].todo \cap nft[job[c].prio] :
           /\ nft' = [nft EXCEPT ![job[c].prio] = @ \ {x}]
           /\ Goto(c, "kdel", [job[c] EXCEPT !.todo = @ \ {x}])
  BY DEF RemoveFromSet
<1>2. pc[c] = "kdel" /\ UNCHANGED <<rules, tainted>>
  BY DEF RemoveFromSet, AtKernel
<1>3. /\ pc'[c] = "kdel" /\ touch'[c] = touch[c]
      /\ job'[c] = [job[c] EXCEPT !.todo = @ \ {x}]
  BY <1>0, <1>00, <1>1, GotoValues
<1>4. /\ job'[c].kind = job[c].kind /\ job'[c].target = job[c].target /\ job'[c].id = job[c].id
      /\ job'[c].prio = k /\ job'[c].todo = job[c].todo \ {x}
      /\ job'[c].ips = job[c].ips /\ job'[c].rest = job[c].rest
      /\ job'[c].pending = job[c].pending
  BY <1>0, <1>00, <1>3 DEF Job
<1>5. Rows(c)'
  BY <1>00, <1>2, <1>3, <1>4 DEF Owned, Rows, Undisturbed
<1>6. ASSUME NEW e \in touch[c], Clean(e)' PROVE Phase(c, e)'
  <2>0. e \in Elem /\ Phase(c, e) /\ Undisturbed(c)
    BY <1>00, <1>2, <1>6 DEF Clean, Owned, Undisturbed
  <2>1. job[c].todo \subseteq rules[job[c].target].ips /\ job[c].kind \in {"delete", "refresh"}
    BY <1>0, <1>00, <1>2, <2>0 DEF Owned, Rows, Shape, Place
  <2>2. CASE e \in rules[job[c].target].ips
    <3>1. SyncBut(k, e)' <=> SyncBut(k, e)
      BY <1>0, <1>00, <1>1, <1>2, <2>0, SetsOfOnePrio
    <3>2. e \in nft'[k] <=> e \in nft[k] /\ e # x
      BY <1>0, <1>00, <1>1 DEF TypeOK
    <3>3. \A u \in Target : Claims(u, k, e)' <=> Claims(u, k, e)
      BY <1>00, <1>2, ClaimsStay
    <3> QED
      BY <1>00, <1>2, <1>3, <1>4, <2>0, <2>1, <2>2, <3>1, <3>2, <3>3 DEF Phase
  <2>3. CASE e \notin rules[job[c].target].ips
    <3>1. e \in nft'[k] <=> e \in nft[k]
      BY <1>0, <1>00, <1>1, <2>1, <2>3 DEF TypeOK
    <3>2. Same(e)
      BY <1>0, <1>00, <1>1, <1>2, <2>0, <3>1, SetsOfOnePrio
    <3>3. InSyncAt(e)'
      BY <1>00, <1>2, <2>0, <2>3, <3>2, SameSync DEF Phase
    <3> QED
      BY <1>00, <1>2, <1>3, <1>4, <2>1, <2>3, <3>3 DEF Phase
  <2> QED
    BY <2>2, <2>3
<1> QED
  BY <1>3, <1>5, <1>6 DEF Own

\* A step that leaves kernel and rows alone leaves every element as it is.
LEMMA SameAll ==
    ASSUME UNCHANGED <<nft, rules>>
    PROVE  \A e \in Elem : /\ Same(e)
                           /\ InSyncAt(e)' <=> InSyncAt(e)
                           /\ \A k \in Prio : SyncBut(k, e)' <=> SyncBut(k, e)
                           /\ \A k \in Prio : Half(k, e)' <=> Half(k, e)
<1>1. \A e \in Elem : Same(e)
  BY ClaimsStay DEF Same
<1> QED
  BY <1>1, SameSync

\* A request that fails, or whose client is gone, has spoiled what it touched.
LEMMA OwnFail ==
    ASSUME Static, NEW c \in Client, Fail(c) \/ (End(c) /\ job[c].dead /\ UNCHANGED tainted)
    PROVE  Own(c)
<1>1. TypeOK /\ Shape(c)
  BY DEF Static
<1>2. touch[c] \subseteq tainted' /\ touch'[c] = {}
  BY <1>1, FailValues, EndValues DEF Shape, Reach
<1> QED
  BY <1>2, OwnSpoiled

\* The answer to a request, when no error came in between.
LEMMA OwnRequestDone ==
    ASSUME Static, NEW c \in Client, Owned(c),
           \/ AddDone(c) \/ RemoveDone(c) \/ RestoreHighDone(c)
           \/ RestoreHostsDone(c) \/ RestoreDone(c)
    PROVE  Own(c)
<1>0. TypeOK /\ Shape(c) /\ job[c] \in Job
  BY DEF Static, TypeOK
<1>1. /\ UNCHANGED <<nft, rules, tainted>> /\ job[c].todo = {}
      /\ pc[c] = IF RemoveDone(c) THEN "kdel" ELSE "kadd"
  BY DEF AddDone, RemoveDone, RestoreHighDone, RestoreHostsDone, RestoreDone, RequestDone, AtKernel
<1>2. PICK k \in Prio : k = job[c].prio
  BY <1>0 DEF Job
<1>3. \A e \in touch[c] : Clean(e)' => e \in Elem /\ Phase(c, e)
  BY <1>1 DEF Clean, Owned
<1>4. CASE AddDone(c)
  <2>1. PICK p \in {"row", "read"} : Goto(c, p, job[c])
    BY <1>4 DEF AddDone
  <2>2. pc'[c] = p /\ job'[c] = job[c] /\ touch'[c] = touch[c]
    BY <1>0, <2>1, GotoValues
  <2>3. pc[c] = "kadd" /\ job[c].kind = IF p = "row" THEN "add" ELSE "refresh"
    BY <1>0, <1>4, <2>2, GotoValues DEF AddDone, RequestDone, AtKernel
  <2>4. Rows(c)'
    BY <1>1, <2>2, <2>3 DEF Owned, Rows, Undisturbed
  <2>5. ASSUME NEW e \in touch[c], Clean(e)' PROVE Phase(c, e)'
    BY <1>1, <1>2, <1>3, <2>2, <2>3, <2>5, SameAll DEF Phase
  <2> QED
    BY <2>2, <2>4, <2>5 DEF Own
<1>5. CASE RemoveDone(c)
  <2>1. PICK p \in {"drop", "clear"} : Goto(c, p, job[c])
    BY <1>5 DEF RemoveDone
  <2>2. pc'[c] = p /\ job'[c] = job[c] /\ touch'[c] = touch[c]
    BY <1>0, <2>1, GotoValues
  <2>3. /\ pc[c] = "kdel" /\ job[c].kind \in {"delete", "refresh"}
        /\ p = "drop" <=> job[c].kind = "delete"
    BY <1>0, <1>1, <1>5, <2>2, GotoValues DEF RemoveDone, Shape, Place
  <2>4. Rows(c)'
    BY <1>1, <2>2, <2>3 DEF Owned, Rows, Undisturbed
  <2>5. ASSUME NEW e \in touch[c], Clean(e)' PROVE Phase(c, e)'
    <3>1. \A u \in Target : Claims(u, k, e)' <=> Claims(u, k, e)
      BY <1>1, ClaimsStay
    <3> QED
      BY <1>1, <1>2, <1>3, <2>2, <2>3, <2>5, <3>1, SameAll DEF Phase
  <2> QED
    BY <2>2, <2>4, <2>5 DEF Own
<1>6. CASE RestoreHighDone(c)
  <2>1. /\ job'[c] = [job[c] EXCEPT !.prio = "low", !.todo = job[c].rest, !.rest = {}]
        /\ pc'[c] = "kadd" /\ touch'[c] = touch[c]
    BY <1>0, <1>6, GotoValues DEF RestoreHighDone
  <2>2. /\ job[c].kind \in {"restore", "restoreSvc"} /\ job'[c].kind = job[c].kind
        /\ job'[c].prio = "low" /\ job'[c].todo = job[c].rest /\ job'[c].rest = {}
    BY <1>0, <1>6, <2>1 DEF RestoreHighDone, Job
  <2>3. Rows(c)'
    BY <2>1, <2>2 DEF Rows
  <2>4. ASSUME NEW e \in touch[c], Clean(e)' PROVE Phase(c, e)'
    BY <1>1, <1>3, <2>1, <2>2, <2>4, SameAll, ClaimsStay DEF Phase
  <2> QED
    BY <2>1, <2>3, <2>4 DEF Own
<1>7. CASE RestoreHostsDone(c)
  <2>1. /\ pc'[c] = "services" /\ job'[c] = job[c] /\ touch'[c] = touch[c]
        /\ job[c].kind = "restore"
    BY <1>0, <1>7, GotoValues DEF RestoreHostsDone
  <2>2. Rows(c)'
    BY <2>1 DEF Rows
  <2>3. ASSUME NEW e \in touch[c], Clean(e)' PROVE Phase(c, e)'
    BY <1>1, <1>2, <1>3, <2>1, <2>3, SameAll, ClaimsStay DEF Phase
  <2> QED
    BY <2>1, <2>2, <2>3 DEF Own
<1>8. CASE RestoreDone(c)
  <2>1. pc'[c] = "idle" /\ touch'[c] = {} /\ job[c].kind = "restoreSvc"
    BY <1>0, <1>8, EndValues DEF RestoreDone
  <2>2. Rows(c)'
    BY <2>1 DEF Rows, Undisturbed
  <2>3. ASSUME NEW e \in touch[c], Clean(e)' PROVE InSyncAt(e)'
    BY <1>1, <1>3, <2>1, <2>3, SameAll DEF Phase
  <2> QED
    BY <2>1, <2>2, <2>3 DEF Own
<1> QED
  BY <1>4, <1>5, <1>6, <1>7, <1>8

\* The kernel's sets are emptied in one transaction.
LEMMA OwnFlushSets ==
    ASSUME Static, NEW c \in Client, FlushSets(c)
    PROVE  Own(c)
<1>0. TypeOK /\ Shape(c)
  BY DEF Static
<1>1. CASE job[c].dead
  BY <1>1, OwnFail DEF FlushSets
<1>2. CASE ~job[c].dead
  <2>1. /\ pc'[c] = "fdom" /\ job'[c] = job[c] /\ touch'[c] = touch[c]
        /\ job[c].kind = "flush" /\ \A k \in Prio : nft'[k] = {}
    BY <1>0, <1>2, GotoValues DEF FlushSets, AtKernel, Shape, Place
  <2>2. Rows(c)'
    BY <2>1 DEF Rows
  <2>3. \A e \in touch[c] : Phase(c, e)'
    BY <2>1 DEF Phase
  <2> QED
    BY <2>1, <2>2, <2>3 DEF Own
<1> QED
  BY <1>1, <1>2

\* Requests to the kernel lead the operation on, or end it in step.
LEMMA OwnKernel ==
    ASSUME Static, NEW c \in Client, Owned(c), KernelStep(c)
    PROVE  Own(c)
<1>1. CASE RemoveMissing(c)
  <2>1. CASE Fail(c)
    BY <2>1, OwnFail
  <2>2. CASE Goto(c, "drop", job[c]) /\ tainted' = tainted \cup touch[c]
    <3>1. touch[c] \subseteq tainted' /\ touch'[c] = touch[c]
      BY <2>2, GotoValues DEF Static
    <3> QED
      BY <3>1, OwnSpoiled
  <2> QED
    BY <1>1, <2>1, <2>2 DEF RemoveMissing
<1> QED
  BY <1>1, OwnAddToSet, OwnRemoveFromSet, OwnFail, OwnRequestDone, OwnFlushSets
     DEF KernelStep, AddRejected, OrphanDone, RequestDone

-----------------------------------------------------------------------------
(* Statements on the database.                                             *)

\* A statement on one row concerns the claims of that row.
LEMMA ClaimsOfRow ==
    ASSUME TypeOK, NEW t \in Target, NEW r, rules' = [rules EXCEPT ![t] = r]
    PROVE  /\ \A k, e : Claims(t, k, e)' <=> r.prio = k /\ e \in r.ips
           /\ \A u \in Target \ {t} : \A k, e : Claims(u, k, e)' <=> Claims(u, k, e)
           /\ rules'[t] = r
           /\ \A u \in Target \ {t} : rules'[u] = rules[u]
BY DEF TypeOK, Claims

\* An element that the row has neither before nor after stays as it is.
LEMMA SameRow ==
    ASSUME TypeOK, NEW t \in Target, NEW r, rules' = [rules EXCEPT ![t] = r], UNCHANGED nft,
           NEW e \in Elem,
           \/ e \notin rules[t].ips /\ e \notin r.ips
           \/ (e \in rules[t].ips <=> e \in r.ips) /\ rules[t].prio = r.prio
    PROVE  Same(e)
<1>1. /\ \A k : Claims(t, k, e)' <=> Claims(t, k, e)
      /\ e \in rules'[t].ips <=> e \in rules[t].ips
  BY ClaimsOfRow DEF Claims
<1>2. ASSUME NEW u \in Target
      PROVE  /\ \A k \in Prio : Claims(u, k, e)' <=> Claims(u, k, e)
             /\ e \in rules'[u].ips <=> e \in rules[u].ips
  <2>1. CASE u = t
    BY <1>1, <2>1
  <2>2. CASE u # t
    BY <2>2, ClaimsOfRow
  <2> QED
    BY <2>1, <2>2
<1> QED
  BY <1>2 DEF Same

\* A statement on a row of one priority leaves the other priority alone.
LEMMA OtherPrioRow ==
    ASSUME TypeOK, NEW t \in Target, NEW r, NEW k \in Prio, rules' = [rules EXCEPT ![t] = r],
           UNCHANGED nft, NEW e \in Elem, e \in rules[t].ips => rules[t].prio = k,
           e \in r.ips => r.prio = k
    PROVE  SyncBut(k, e)' <=> SyncBut(k, e)
<1>1. \A q \in Prio \ {k} : \A u \in Target : Claims(u, q, e)' <=> Claims(u, q, e)
  BY ClaimsOfRow DEF Claims
<1> QED
  BY <1>1, SameClaimed DEF SyncBut

\* The new row of an add: the addresses of a domain follow, other elements are now in step.
LEMMA OwnInsertRow ==
    ASSUME Static, NEW c \in Client, Owned(c), InsertRow(c)
    PROVE  Own(c)
<1>0. TypeOK /\ Shape(c) /\ job[c] \in Job /\ RowShape
  BY DEF Static, TypeOK
<1>1. /\ UNCHANGED <<nft, tainted>> /\ pc[c] = "row" /\ job[c].kind = "add"
      /\ job[c].target \in Target
      /\ touch[c] = {job[c].target} \cup job[c].ips
      /\ job[c].target \in Elem => job[c].ips = {job[c].target}
  BY <1>0 DEF InsertRow, Shape, Place, Reach
<1>2. PICK k \in Prio : k = job[c].prio
  BY <1>0 DEF Job
<1>3. PICK t \in Target : t = job[c].target
  BY <1>1
<1>4. CASE ~Undisturbed(c)
  <2>1. touch'[c] \subseteq touch[c] /\ touch[c] \subseteq tainted'
    BY <1>0, <1>1, <1>4, GotoValues, EndValues DEF InsertRow, Undisturbed
  <2> QED
    BY <2>1, OwnSpoiled
<1>5. CASE Undisturbed(c)
  <2>1. rules[t] = NoRow /\ rules[t].prio = "none" /\ rules[t].ips = {}
    BY <1>1, <1>3, <1>5 DEF Owned, Rows, NoRow
  <2>2. PICK r : /\ r = [id |-> nextId, prio |-> k, ips |-> IF t \in Domain THEN {} ELSE {t}]
                 /\ rules' = [rules EXCEPT ![t] = r]
    BY <1>2, <1>3, <2>1 DEF InsertRow
  <2>3. /\ r.prio = k /\ r.ips = IF t \in Domain THEN {} ELSE {t}
        /\ rules' = [rules EXCEPT ![t] = r]
    BY <2>2
  <2>4. CASE t \in Domain
    <3>1. pc'[c] = "read" /\ job'[c] = job[c] /\ touch'[c] = touch[c]
      BY <1>0, <1>3, <2>4, GotoValues DEF InsertRow
    <3>0. rules'[t] = r
      BY <1>0, <2>3, ClaimsOfRow
    <3>2. Rows(c)'
      BY <1>1, <1>2, <1>3, <2>3, <2>4, <3>0, <3>1 DEF Rows
    <3>3. ASSUME NEW e \in touch[c], Clean(e)' PROVE Phase(c, e)'
      <4>1. e \in Elem /\ Phase(c, e)
        BY <1>1, <3>3 DEF Clean, Owned
      <4>2. Same(e)
        BY <1>0, <1>1, <2>1, <2>3, <2>4, <4>1, SameRow
      <4>3. (InSyncAt(e)' <=> InSyncAt(e)) /\ (Half(k, e)' <=> Half(k, e))
        BY <4>1, <4>2, SameSync
      <4> QED
        BY <1>1, <1>2, <3>1, <4>1, <4>3 DEF Phase
    <3> QED
      BY <3>1, <3>2, <3>3 DEF Own
  <2>5. CASE t \notin Domain
    <3>1. pc'[c] = "idle" /\ touch'[c] = {}
      BY <1>0, <1>3, <2>5, EndValues DEF InsertRow
    <3>2. Rows(c)'
      BY <3>1 DEF Rows, Undisturbed
    <3>3. ASSUME NEW e \in touch[c], Clean(e)' PROVE InSyncAt(e)'
      <4>1. e \in Elem /\ Phase(c, e) /\ e = t /\ e \in job[c].ips
        BY <1>1, <1>3, <2>5, <3>3 DEF Clean, Owned, Target, Elem
      <4>2. e \in nft[k] /\ SyncBut(k, e)
        BY <1>1, <1>2, <4>1 DEF Phase, Half
      <4>3. SyncBut(k, e)'
        BY <1>0, <1>1, <2>1, <2>3, <4>1, <4>2, OtherPrioRow
      <4>4. Claims(t, k, e)'
        BY <1>0, <2>3, <2>5, <4>1, ClaimsOfRow
      <4>5. e \in Claimed(k)' /\ e \in nft'[k]
        BY <1>1, <4>1, <4>2, <4>4, ClaimedByNext
      <4> QED
        BY <4>1, <4>3, <4>5, SyncSplitNext
    <3> QED
      BY <3>1, <3>2, <3>3 DEF Own
  <2> QED
    BY <2>4, <2>5
<1> QED
  BY <1>4, <1>5

\* The row is found again and its id kept: the addresses still have to go in.
LEMMA OwnReadRow ==
    ASSUME Static, NEW c \in Client, Owned(c), ReadRow(c)
    PROVE  Own(c)
<1>0. TypeOK /\ Shape(c) /\ job[c] \in Job
  BY DEF Static, TypeOK
<1>1. CASE Fail(c)
  BY <1>1, OwnFail
<1>2. CASE /\ Goto(c, "ips", [job[c] EXCEPT !.id = rules[job[c].target].id, !.todo = job[c].ips])
           /\ UNCHANGED <<nft, rules, nextId, tainted>>
  <2>1. /\ pc'[c] = "ips" /\ touch'[c] = touch[c]
        /\ job'[c] = [job[c] EXCEPT !.id = rules[job[c].target].id, !.todo = job[c].ips]
    BY <1>0, <1>2, GotoValues
  <2>2. PICK k \in Prio : k = job[c].prio
    BY <1>0 DEF Job
  <2>3. /\ job'[c].kind = job[c].kind /\ job'[c].target = job[c].target
        /\ job'[c].id = rules[job[c].target].id /\ job'[c].prio = k
        /\ job'[c].todo = job[c].ips /\ job'[c].ips = job[c].ips
        /\ job'[c].pending = job[c].pending
    BY <1>0, <2>1, <2>2 DEF Job
  <2>4. /\ pc[c] = "read" /\ job[c].kind \in {"add", "refresh"} /\ job[c].target \in Target
    BY <1>0 DEF ReadRow, Shape, Place, Target
  <2>5. Rows(c)'
    <3> SUFFICES ASSUME Undisturbed(c) PROVE Rows(c)'
      BY <1>2, <2>1 DEF Rows, Undisturbed
    <3>1. rules[job[c].target].prio = k /\ rules[job[c].target].ips = {}
      BY <2>2, <2>4 DEF Owned, Rows
    <3>2. \A r \in Row : r = [id |-> r.id, prio |-> r.prio, ips |-> r.ips]
      BY DEF Row
    <3>3. rules[job[c].target] = [id |-> rules[job[c].target].id, prio |-> k, ips |-> {}]
      BY <1>0, <2>4, <3>1, <3>2 DEF TypeOK
    <3>4. job[c].ips \ job[c].ips = {}
      OBVIOUS
    <3> QED
      BY <1>2, <2>1, <2>3, <2>4, <3>3, <3>4 DEF Rows, Owned
  <2>6. ASSUME NEW e \in touch[c], Clean(e)' PROVE Phase(c, e)'
    <3>1. e \in Elem /\ Phase(c, e)
      BY <1>2, <2>6 DEF Clean, Owned
    <3> QED
      BY <1>2, <2>1, <2>2, <2>3, <2>4, <3>1, SameAll DEF Phase
  <2> QED
    BY <2>1, <2>5, <2>6 DEF Own
<1> QED
  BY <1>1, <1>2 DEF ReadRow

\* One more address of the domain goes into the database: it is in step now.
LEMMA OwnInsertIP ==
    ASSUME Static, NEW c \in Client, Owned(c), InsertIP(c)
    PROVE  Own(c)
<1>0. TypeOK /\ Shape(c) /\ job[c] \in Job
  BY DEF Static, TypeOK
<1>1. PICK x \in job[c].todo :
        /\ rules' = IF rules[job[c].target].id = job[c].id
                    THEN [rules EXCEPT ![job[c].target].ips = @ \cup {x}] ELSE rules
        /\ Goto(c, "ips", [job[c] EXCEPT !.todo = @ \ {x}])
  BY DEF InsertIP
<1>2. PICK k \in Prio : k = job[c].prio
  BY <1>0 DEF Job
<1>3. /\ UNCHANGED <<nft, tainted>> /\ pc[c] = "ips" /\ job[c].kind \in {"add", "refresh"}
      /\ job[c].todo \subseteq job[c].ips
  BY <1>0 DEF InsertIP, Shape, Place, Reach
<1>4. PICK t \in Target : t = job[c].target
  BY <1>0, <1>3 DEF Shape, Place, Target
<1>5. /\ pc'[c] = "ips" /\ touch'[c] = touch[c]
      /\ job'[c] = [job[c] EXCEPT !.todo = @ \ {x}]
  BY <1>0, <1>1, GotoValues
<1>6. /\ job'[c].kind = job[c].kind /\ job'[c].target = t
      /\ job'[c].id = job[c].id /\ job'[c].prio = k
      /\ job'[c].todo = job[c].todo \ {x} /\ job'[c].ips = job[c].ips
      /\ job'[c].pending = job[c].pending
  BY <1>0, <1>2, <1>4, <1>5 DEF Job
<1>7. CASE ~Undisturbed(c)
  BY <1>3, <1>5, <1>7, OwnSpoiled DEF Undisturbed
<1>8. CASE Undisturbed(c)
  <2>1. rules[t] = [id |-> job[c].id, prio |-> k, ips |-> job[c].ips \ job[c].todo]
    BY <1>2, <1>3, <1>4, <1>8 DEF Owned, Rows
  <2>2. rules[t].prio = k /\ rules[t].ips = job[c].ips \ job[c].todo /\ rules[t].id = job[c].id
    BY <2>1
  <2>3. PICK r : r = [id |-> job[c].id, prio |-> k, ips |-> job[c].ips \ (job[c].todo \ {x})]
    OBVIOUS
  <2>4. r.prio = k /\ r.ips = rules[t].ips \cup {x}
    <3>1. job[c].ips \ (job[c].todo \ {x}) = (job[c].ips \ job[c].todo) \cup {x}
      BY <1>1, <1>3
    <3> QED
      BY <2>2, <2>3, <3>1
  <2>5. rules' = [rules EXCEPT ![t] = r]
    <3>1. [rules[t] EXCEPT !.ips = rules[t].ips \cup {x}] = r
      BY <2>1, <2>2, <2>3, <2>4
    <3>2. rules' = [rules EXCEPT ![t].ips = @ \cup {x}]
      BY <1>1, <1>4, <2>2
    <3> HIDE <2>1, <2>3
    <3> QED
      BY <1>0, <3>1, <3>2 DEF TypeOK
  <2>6. rules'[t] = r /\ \A u \in Target \ {t} : rules'[u] = rules[u]
    BY <1>0, <2>5, ClaimsOfRow
  <2>7. Rows(c)'
    <3>1. job[c].kind = "refresh" => \A s \in job[c].pending : s.dom \in Target \ {t}
      BY <1>0, <1>3, <1>4 DEF Shape, Plan, Job, Snapshot, Target
    <3>2. job[c].kind = "refresh" => \A s \in job[c].pending :
              rules'[s.dom] = [id |-> s.id, prio |-> s.prio, ips |-> s.ips]
      BY <1>8, <2>6, <3>1 DEF Owned, Rows
    <3> QED
      BY <1>3, <1>5, <1>6, <2>3, <2>6, <3>2 DEF Rows
  <2>8. ASSUME NEW e \in touch[c], Clean(e)' PROVE Phase(c, e)'
    <3>1. e \in Elem /\ Phase(c, e)
      BY <1>3, <2>8 DEF Clean, Owned
    <3>2. CASE e # x
      <4>1. Same(e)
        BY <1>0, <1>3, <2>2, <2>4, <2>5, <3>1, <3>2, SameRow
      <4>2. (InSyncAt(e)' <=> InSyncAt(e)) /\ (Half(k, e)' <=> Half(k, e))
        BY <3>1, <4>1, SameSync
      <4> QED
        BY <1>2, <1>3, <1>5, <1>6, <3>1, <3>2, <4>2 DEF Phase
    <3>3. CASE e = x
      <4>1. e \in nft[k] /\ SyncBut(k, e)
        BY <1>1, <1>2, <1>3, <3>1, <3>3 DEF Phase, Half
      <4>2. SyncBut(k, e)'
        BY <1>0, <1>3, <2>2, <2>4, <2>5, <3>1, <4>1, OtherPrioRow
      <4>3. Claims(t, k, e)'
        BY <1>0, <2>4, <2>5, <3>3, ClaimsOfRow
      <4>4. e \in Claimed(k)' /\ e \in nft'[k]
        BY <1>3, <3>1, <4>1, <4>3, ClaimedByNext
      <4>5. InSyncAt(e)'
        BY <3>1, <4>2, <4>4, SyncSplitNext
      <4> QED
        BY <1>3, <1>5, <1>6, <3>3, <4>5 DEF Phase
    <3> QED
      BY <3>2, <3>3
  <2> QED
    BY <1>5, <2>7, <2>8 DEF Own
<1> QED
  BY <1>7, <1>8

\* All addresses are in: the add ends, a refresh takes the next domain.
LEMMA OwnIPsDone ==
    ASSUME Static, NEW c \in Client, Owned(c), IPsDone(c) \/ RefreshDone(c)
    PROVE  Own(c)
<1>0. TypeOK /\ Shape(c)
  BY DEF Static
<1>1. UNCHANGED <<nft, rules, tainted>> /\ pc[c] \in {"ips", "resolve"}
      /\ (pc[c] = "ips" => job[c].todo = {})
  BY DEF IPsDone, RefreshDone
<1>2. ASSUME NEW e \in touch[c], Clean(e)' PROVE InSyncAt(e)'
  <2>1. e \in Elem /\ Phase(c, e)
    BY <1>1, <1>2 DEF Clean, Owned
  <2> QED
    BY <1>1, <2>1, SameAll DEF Phase
<1>3. CASE End(c)
  <2>1. pc'[c] = "idle" /\ touch'[c] = {}
    BY <1>0, <1>3, EndValues
  <2>2. Rows(c)'
    BY <2>1 DEF Rows, Undisturbed
  <2> QED
    BY <1>2, <2>1, <2>2 DEF Own
<1>4. CASE job[c].kind = "refresh" /\ Goto(c, "resolve", job[c])
  <2>1. pc'[c] = "resolve" /\ job'[c] = job[c] /\ touch'[c] = touch[c]
    BY <1>0, <1>4, GotoValues
  <2>2. Rows(c)'
    BY <1>1, <1>4, <2>1 DEF Owned, Rows, Undisturbed
  <2>3. ASSUME NEW e \in touch[c], Clean(e)' PROVE Phase(c, e)'
    BY <1>2, <1>4, <2>1, <2>3 DEF Phase
  <2> QED
    BY <2>1, <2>2, <2>3 DEF Own
<1> QED
  BY <1>3, <1>4 DEF IPsDone, RefreshDone

\* The row goes after its elements have gone from the kernel.
LEMMA OwnDropRow ==
    ASSUME Static, NEW c \in Client, Owned(c), DropRow(c)
    PROVE  Own(c)
<1>0. TypeOK /\ Shape(c) /\ job[c] \in Job
  BY DEF Static, TypeOK
<1>1. PICK k \in Prio : k = job[c].prio
  BY <1>0 DEF Job
<1>2. /\ UNCHANGED <<nft, tainted>> /\ pc[c] = "drop" /\ job[c].kind = "delete"
      /\ pc'[c] = "idle" /\ touch'[c] = {}
  BY <1>0, EndValues DEF DropRow, Shape, Place
<1>3. PICK t \in Target : t = job[c].target
  BY <1>0, <1>2 DEF Shape, Reach
<1>4. CASE ~Undisturbed(c)
  BY <1>2, <1>4, OwnSpoiled DEF Undisturbed
<1>5. CASE Undisturbed(c)
  <2>1. /\ rules[t].id = job[c].id /\ rules[t].prio = k /\ job[c].todo = {}
    BY <1>1, <1>2, <1>3, <1>5 DEF Owned, Rows
  <2>2. rules' = [rules EXCEPT ![t] = NoRow]
    BY <1>1, <1>3, <2>1 DEF DropRow
  <2>3. NoRow.prio = "none" /\ NoRow.ips = {}
    BY DEF NoRow
  <2>4. ASSUME NEW e \in touch[c], Clean(e)' PROVE InSyncAt(e)'
    <3>1. e \in Elem /\ Phase(c, e)
      BY <1>2, <2>4 DEF Clean, Owned
    <3>2. CASE e \notin rules[t].ips
      <4>1. Same(e)
        BY <1>0, <1>2, <2>2, <2>3, <3>1, <3>2, SameRow
      <4>2. InSyncAt(e)
        BY <1>2, <1>3, <3>1, <3>2 DEF Phase
      <4> QED
        BY <3>1, <4>1, <4>2, SameSync
    <3>3. CASE e \in rules[t].ips
      <4>1. e \notin nft[k] /\ SyncBut(k, e) /\ \A u \in Target \ {t} : ~Claims(u, k, e)
        BY <1>1, <1>2, <1>3, <2>1, <3>1, <3>3 DEF Phase
      <4>2. SyncBut(k, e)'
        BY <1>0, <1>2, <2>1, <2>2, <2>3, <3>1, <4>1, OtherPrioRow
      <4>3. \A u \in Target : ~Claims(u, k, e)'
        BY <1>0, <2>2, <2>3, <4>1, ClaimsOfRow
      <4>4. e \notin Claimed(k)' /\ e \notin nft'[k]
        BY <1>2, <3>1, <4>1, <4>3, ClaimedByNext
      <4> QED
        BY <3>1, <4>2, <4>4, SyncSplitNext
    <3> QED
      BY <3>2, <3>3
  <2>5. Rows(c)'
    BY <1>2 DEF Rows, Undisturbed
  <2> QED
    BY <1>2, <2>4, <2>5 DEF Own
<1> QED
  BY <1>4, <1>5

\* The old addresses of a refreshed domain go, the new ones are next.
LEMMA OwnClearIPs ==
    ASSUME Static, NEW c \in Client, Owned(c), ClearIPs(c)
    PROVE  Own(c)
<1>0. TypeOK /\ Shape(c) /\ job[c] \in Job
  BY DEF Static, TypeOK
<1>1. PICK k \in Prio : k = job[c].prio
  BY <1>0 DEF Job
<1>2. /\ UNCHANGED <<nft, tainted>> /\ pc[c] = "clear" /\ job[c].kind = "refresh"
      /\ job[c].target \in Domain
  BY <1>0 DEF ClearIPs, Shape, Place, Plan
<1>3. PICK t \in Target : t = job[c].target
  BY <1>2 DEF Target
<1>4. /\ pc'[c] = "kadd" /\ touch'[c] = touch[c]
      /\ job'[c] = [job[c] EXCEPT !.todo = job[c].ips]
  BY <1>0, GotoValues DEF ClearIPs
<1>5. /\ job'[c].kind = job[c].kind /\ job'[c].target = t
      /\ job'[c].id = job[c].id /\ job'[c].prio = k
      /\ job'[c].todo = job[c].ips /\ job'[c].ips = job[c].ips
      /\ job'[c].pending = job[c].pending
  BY <1>0, <1>1, <1>3, <1>4 DEF Job
<1>6. CASE ~Undisturbed(c)
  BY <1>2, <1>4, <1>6, OwnSpoiled DEF Undisturbed
<1>7. CASE Undisturbed(c)
  <2>1. rules[t].id = job[c].id /\ rules[t].prio = k /\ job[c].todo = {}
    BY <1>1, <1>2, <1>3, <1>7 DEF Owned, Rows
  <2>2. PICK r : r = [id |-> job[c].id, prio |-> k, ips |-> {}]
    OBVIOUS
  <2>3. r.prio = k /\ r.ips = {}
    BY <2>2
  <2>4. rules' = [rules EXCEPT ![t] = r]
    <3>0. \A x \in Row : [x EXCEPT !.ips = {}] = [id |-> x.id, prio |-> x.prio, ips |-> {}]
      BY DEF Row
    <3>1. [rules[t] EXCEPT !.ips = {}] = r
      BY <1>0, <2>1, <2>2, <3>0 DEF TypeOK
    <3>2. rules' = [rules EXCEPT ![t].ips = {}]
      BY <1>3, <2>1 DEF ClearIPs
    <3> HIDE <2>2
    <3> QED
      BY <1>0, <3>1, <3>2 DEF TypeOK
  <2>5. rules'[t] = r /\ \A u \in Target \ {t} : rules'[u] = rules[u]
    BY <1>0, <2>4, ClaimsOfRow
  <2>6. Rows(c)'
    <3>1. \A s \in job[c].pending : s.dom \in Target \ {t}
      BY <1>0, <1>2, <1>3 DEF Shape, Plan, Job, Snapshot, Target
    <3>2. \A s \in job[c].pending :
              rules'[s.dom] = [id |-> s.id, prio |-> s.prio, ips |-> s.ips]
      BY <1>2, <1>7, <2>5, <3>1 DEF Owned, Rows
    <3> QED
      BY <1>2, <1>4, <1>5, <2>2, <2>5, <3>2 DEF Rows
  <2>7. ASSUME NEW e \in touch[c], Clean(e)' PROVE Phase(c, e)'
    <3>1. e \in Elem /\ Phase(c, e)
      BY <1>2, <2>7 DEF Clean, Owned
    <3>2. CASE e \notin rules[t].ips
      <4>1. Same(e)
        BY <1>0, <1>2, <2>3, <2>4, <3>1, <3>2, SameRow
      <4>2. InSyncAt(e)
        BY <1>2, <1>3, <3>1, <3>2 DEF Phase
      <4>3. InSyncAt(e)'
        BY <3>1, <4>1, <4>2, SameSync
      <4> QED
        BY <1>2, <1>4, <1>5, <4>3 DEF Phase
    <3>3. CASE e \in rules[t].ips
      <4>1. e \notin nft[k] /\ SyncBut(k, e) /\ \A u \in Target \ {t} : ~Claims(u, k, e)
        BY <1>1, <1>2, <1>3, <2>1, <3>1, <3>3 DEF Phase
      <4>2. SyncBut(k, e)'
        BY <1>0, <1>2, <2>1, <2>3, <2>4, <3>1, <4>1, OtherPrioRow
      <4>3. \A u \in Target : ~Claims(u, k, e)'
        BY <1>0, <2>3, <2>4, <4>1, ClaimsOfRow
      <4>4. e \notin Claimed(k)' /\ e \notin nft'[k]
        BY <1>2, <3>1, <4>1, <4>3, ClaimedByNext
      <4>5. InSyncAt(e)'
        BY <3>1, <4>2, <4>4, SyncSplitNext
      <4> QED
        BY <1>2, <1>4, <1>5, <4>5 DEF Phase
    <3> QED
      BY <3>2, <3>3
  <2> QED
    BY <1>4, <2>6, <2>7 DEF Own
<1> QED
  BY <1>6, <1>7

\* One table after the other is emptied; then nothing is left on either side.
LEMMA OwnFlushTables ==
    ASSUME Static, NEW c \in Client, Owned(c),
           FlushDomainRules(c) \/ FlushIPRules(c) \/ FlushServiceRules(c)
    PROVE  Own(c)
<1>0. TypeOK /\ Shape(c)
  BY DEF Static
<1>1. UNCHANGED <<nft, tainted>> /\ job[c].kind = "flush" /\ pc[c] \in {"fdom", "fip", "fsvc"}
  BY <1>0 DEF FlushDomainRules, FlushIPRules, FlushServiceRules, FlushTable, Shape, Place
<1>2. ASSUME NEW e \in touch[c], Clean(e)'
      PROVE  e \in Elem /\ Phase(c, e) /\ \A k \in Prio : e \notin nft'[k]
  BY <1>1, <1>2 DEF Clean, Owned, Phase
<1>3. ASSUME NEW T \in SUBSET Target, NEW U \in SUBSET Target, NEW e \in Elem,
             rules' = [t \in Target |-> IF t \in T THEN NoRow ELSE rules[t]],
             \A k \in Prio : e \notin ClaimedIn(U, k)
      PROVE  \A k \in Prio : \A t \in T \cup U : ~Claims(t, k, e)'
  <2>1. \A k \in Prio : \A t \in U : ~Claims(t, k, e)
    BY <1>3, ClaimedBy
  <2> QED
    BY <1>3, <2>1 DEF Claims, NoRow
<1>4. CASE FlushDomainRules(c)
  <2>1. /\ pc'[c] = "fip" /\ job'[c] = job[c]
        /\ rules' = [t \in Target |-> IF t \in Domain THEN NoRow ELSE rules[t]]
    BY <1>0, <1>4, GotoValues DEF FlushDomainRules, FlushTable
  <2>2. Rows(c)'
    BY <1>1, <2>1 DEF Rows
  <2>3. ASSUME NEW e \in touch[c], Clean(e)' PROVE Phase(c, e)'
    <3>1. \A k \in Prio : \A t \in Domain : ~Claims(t, k, e)'
      BY <2>1 DEF Claims, NoRow, Prio, Target
    <3>2. \A k \in Prio : e \notin ClaimedIn(Domain, k)'
      BY <1>2, <2>3, <3>1, ClaimedByNext
    <3> QED
      BY <1>1, <1>2, <2>1, <2>3, <3>2 DEF Phase
  <2> QED
    BY <2>1, <2>2, <2>3 DEF Own
<1>5. CASE FlushIPRules(c)
  <2>1. /\ pc[c] = "fip" /\ pc'[c] = "fsvc" /\ job'[c] = job[c]
        /\ rules' = [t \in Target |-> IF t \in Addr THEN NoRow ELSE rules[t]]
    BY <1>0, <1>5, GotoValues DEF FlushIPRules, FlushTable
  <2>2. Rows(c)'
    BY <1>1, <2>1 DEF Rows
  <2>3. ASSUME NEW e \in touch[c], Clean(e)' PROVE Phase(c, e)'
    <3>0. e \in Elem /\ \A k \in Prio : e \notin ClaimedIn(Domain, k)
      BY <1>2, <2>1, <2>3 DEF Phase
    <3>1. \A k \in Prio : \A t \in Addr \cup Domain : ~Claims(t, k, e)'
      BY <1>3, <2>1, <3>0 DEF Target
    <3>2. \A k \in Prio : e \notin ClaimedIn(Domain, k)' /\ e \notin ClaimedIn(Addr, k)'
      BY <3>0, <3>1, ClaimedByNext
    <3> QED
      BY <1>1, <1>2, <2>1, <2>3, <3>2 DEF Phase
  <2> QED
    BY <2>1, <2>2, <2>3 DEF Own
<1>6. CASE FlushServiceRules(c)
  <2>1. /\ pc[c] = "fsvc" /\ pc'[c] = "idle" /\ touch'[c] = {}
        /\ rules' = [t \in Target |-> IF t \in Service THEN NoRow ELSE rules[t]]
    BY <1>0, <1>6, EndValues DEF FlushServiceRules, FlushTable
  <2>2. Rows(c)'
    BY <2>1 DEF Rows, Undisturbed
  <2>3. ASSUME NEW e \in touch[c], Clean(e)' PROVE InSyncAt(e)'
    <3>0. e \in Elem /\ \A k \in Prio : e \notin ClaimedIn(Domain, k) /\ e \notin ClaimedIn(Addr, k)
      BY <1>2, <2>1, <2>3 DEF Phase
    <3>1. \A k \in Prio : \A t \in Service \cup Domain : ~Claims(t, k, e)'
      BY <1>3, <2>1, <3>0 DEF Target
    <3>2. \A k \in Prio : \A t \in Service \cup Addr : ~Claims(t, k, e)'
      BY <1>3, <2>1, <3>0 DEF Target
    <3>3. \A k \in Prio : e \notin Claimed(k)'
      BY <3>0, <3>1, <3>2, ClaimedByNext DEF Target
    <3> QED
      BY <1>2, <2>3, <3>3 DEF InSyncAt
  <2> QED
    BY <2>1, <2>2, <2>3 DEF Own
<1> QED
  BY <1>4, <1>5, <1>6

\* A restore reads what the tables claim, and what they claim of clean elements stays.
LEMMA OwnRestoreReads ==
    ASSUME Static, NEW c \in Client, Owned(c), RestoreReadDomains(c) \/ RestoreReadServices(c)
    PROVE  Own(c)
<1>0. TypeOK /\ Shape(c) /\ job[c] \in Job
  BY DEF Static, TypeOK
<1>1. /\ UNCHANGED <<nft, rules, tainted>> /\ job[c].kind = "restore"
      /\ pc[c] \in {"domains", "services"}
  BY <1>0 DEF RestoreReadDomains, RestoreReadServices, Shape, Place
<1>2. ASSUME NEW e \in touch[c], Clean(e)'
      PROVE  /\ e \in Elem /\ InSyncAt(e)'
             /\ e \in job[c].todo => e \in Claimed(job[c].prio)
             /\ e \in job[c].rest => e \in Claimed("low")
             /\ \A k : Claimed(k)' = Claimed(k)
             /\ \A k : e \in ClaimedIn(Domain, k) \cup ClaimedIn(Service, k) => e \in Claimed(k)
  <2>1. e \in Elem /\ Phase(c, e)
    BY <1>1, <1>2 DEF Clean, Owned
  <2> QED
    BY <1>1, <2>1, SameAll, ClaimsStay, ClaimedBy DEF Phase
<1>3. CASE RestoreReadDomains(c)
  <2>1. /\ pc'[c] = "kadd" /\ touch'[c] = touch[c]
        /\ job'[c] = [job[c] EXCEPT !.todo = @ \cup ClaimedIn(Domain, "high"),
                                    !.rest = @ \cup ClaimedIn(Domain, "low")]
    BY <1>0, <1>3, GotoValues DEF RestoreReadDomains
  <2>2. /\ job'[c].kind = "restore" /\ job[c].prio = "high" /\ job'[c].prio = "high"
        /\ job'[c].todo = job[c].todo \cup ClaimedIn(Domain, "high")
        /\ job'[c].rest = job[c].rest \cup ClaimedIn(Domain, "low")
    BY <1>0, <1>1, <1>3, <2>1 DEF Job, RestoreReadDomains, Shape, Place
  <2>3. Rows(c)'
    BY <2>1, <2>2 DEF Rows
  <2>4. ASSUME NEW e \in touch[c], Clean(e)' PROVE Phase(c, e)'
    BY <1>2, <2>1, <2>2, <2>4 DEF Phase
  <2> QED
    BY <2>1, <2>3, <2>4 DEF Own
<1>4. CASE RestoreReadServices(c)
  <2>1. /\ pc'[c] = "kadd" /\ touch'[c] = touch[c]
        /\ job'[c] = [job[c] EXCEPT !.kind = "restoreSvc", !.prio = "high",
                                    !.todo = ClaimedIn(Service, "high"),
                                    !.rest = ClaimedIn(Service, "low")]
    BY <1>0, <1>4, GotoValues DEF RestoreReadServices
  <2>2. /\ job'[c].kind = "restoreSvc" /\ job'[c].prio = "high"
        /\ job'[c].todo = ClaimedIn(Service, "high")
        /\ job'[c].rest = ClaimedIn(Service, "low")
    BY <1>0, <2>1 DEF Job
  <2>3. Rows(c)'
    BY <2>1, <2>2 DEF Rows
  <2>4. ASSUME NEW e \in touch[c], Clean(e)' PROVE Phase(c, e)'
    BY <1>2, <2>1, <2>2, <2>4 DEF Phase
  <2> QED
    BY <2>1, <2>3, <2>4 DEF Own
<1> QED
  BY <1>3, <1>4

\* A refresh takes a domain of its snapshot: its row is still as in the snapshot,
\* and an address that another rule claims too is spoiled.
LEMMA OwnResolve ==
    ASSUME Static, NEW c \in Client, Owned(c), Resolve(c)
    PROVE  Own(c)
<1>0. TypeOK /\ Shape(c) /\ job[c] \in Job
  BY DEF Static, TypeOK
<1>1. PICK r \in job[c].pending, A \in UNION {Answers[d] : d \in Domain} :
        /\ A \in Answers[r.dom]
        /\ Goto(c, "kdel", [job[c] EXCEPT !.target = r.dom, !.id = r.id, !.prio = r.prio,
                                          !.todo = r.ips, !.ips = A,
                                          !.pending = @ \ {r}])
        /\ tainted' = tainted \cup SharedWith(r.dom, r.prio, r.ips)
  BY DEF Resolve
<1>2. /\ UNCHANGED <<nft, rules>> /\ pc[c] = "resolve" /\ job[c].kind = "refresh"
      /\ tainted \subseteq tainted'
  BY <1>0, <1>1 DEF Resolve, Shape, Place
<1>3. PICK t \in Target, k \in Prio : t = r.dom /\ k = r.prio
  BY <1>0, <1>1 DEF Job, Snapshot, Target
<1>4. /\ pc'[c] = "kdel" /\ touch'[c] = touch[c]
      /\ job'[c] = [job[c] EXCEPT !.target = r.dom, !.id = r.id, !.prio = r.prio,
                                  !.todo = r.ips, !.ips = A, !.pending = @ \ {r}]
  BY <1>0, <1>1, GotoValues
<1>5. /\ job'[c].kind = "refresh" /\ job'[c].target = t
      /\ job'[c].id = r.id /\ job'[c].prio = k
      /\ job'[c].todo = r.ips /\ job'[c].pending = job[c].pending \ {r}
  BY <1>0, <1>2, <1>3, <1>4 DEF Job
<1>6. Undisturbed(c) => \A s \in job[c].pending :
          rules[s.dom] = [id |-> s.id, prio |-> s.prio, ips |-> s.ips]
  BY <1>2 DEF Owned, Rows
<1>7. Undisturbed(c) => rules[t].id = r.id /\ rules[t].prio = k /\ rules[t].ips = r.ips
  <2>1. Undisturbed(c) => rules[t] = [id |-> r.id, prio |-> r.prio, ips |-> r.ips]
    BY <1>3, <1>6
  <2> QED
    BY <1>3, <2>1
<1>8. Rows(c)'
  <2>1. Undisturbed(c)' => Undisturbed(c)
    BY <1>2, <1>4 DEF Undisturbed
  <2> QED
    BY <1>2, <1>4, <1>5, <1>6, <1>7, <2>1 DEF Rows
<1>9. ASSUME NEW e \in touch[c], Clean(e)' PROVE Phase(c, e)'
  <2>1. e \in Elem /\ Phase(c, e) /\ Undisturbed(c)
    BY <1>2, <1>9 DEF Clean, Owned, Undisturbed
  <2>2. InSyncAt(e) /\ InSyncAt(e)' /\ SyncBut(k, e)'
    BY <1>2, <2>1, SameAll, SyncSplit DEF Phase
  <2>3. ASSUME e \in rules[t].ips
        PROVE  /\ e \in nft[k]
               /\ \A u \in Target \ {t} : ~Claims(u, k, e)
    <3>1. Claims(t, k, e)
      BY <1>7, <2>1, <2>3 DEF Claims
    <3>2. e \in Claimed(k)
      BY <2>1, <3>1, ClaimedBy
    <3>3. e \notin SharedWith(t, k, r.ips)
      BY <1>1, <1>3, <1>9 DEF Clean
    <3> QED
      BY <1>7, <2>1, <2>2, <2>3, <3>2, <3>3 DEF InSyncAt, SharedWith
  <2>4. \A u \in Target : Claims(u, k, e)' <=> Claims(u, k, e)
    BY <1>2, ClaimsStay
  <2> QED
    BY <1>2, <1>4, <1>5, <1>7, <2>1, <2>2, <2>3, <2>4 DEF Phase
<1> QED
  BY <1>4, <1>8, <1>9 DEF Own

\* Statements on the database lead the operation on, or end it in step.
LEMMA OwnDb ==
    ASSUME Static, NEW c \in Client, Owned(c), DbStep(c)
    PROVE  Own(c)
BY OwnInsertRow, OwnReadRow, OwnInsertIP, OwnIPsDone, OwnDropRow, OwnClearIPs, OwnFlushTables,
   OwnRestoreReads, OwnResolve DEF DbStep

-----------------------------------------------------------------------------
(* Requests: an operation begins.                                          *)

\* What an operation begins to touch is spoiled when another one holds it; what
\* is clean nobody holds, so that kernel and database agree on it.
LEMMA BeginFresh ==
    ASSUME TypeOK, NoClash, InSync, NEW c \in Client, touch[c] = {}, OthersKeep(c),
           NEW S \in SUBSET Everything, touch'[c] = S, tainted \cup Clashes(c, S) \subseteq tainted',
           UNCHANGED <<nft, rules>>
    PROVE  /\ NoClash'
           /\ \A e \in S : Clean(e)' => e \in Elem /\ InSyncAt(e) /\ InSyncAt(e)'
<1>1. \A d \in Client \ {c} : Clash(S, touch[d]) \subseteq tainted'
  BY DEF Clashes
<1>2. NoClash'
  <2> SUFFICES ASSUME NEW a \in Client, NEW b \in Client, a # b
               PROVE  Clash(touch'[a], touch'[b]) \subseteq tainted'
    BY DEF NoClash, Clash
  <2>1. CASE a = c
    BY <1>1, <2>1 DEF OthersKeep
  <2>2. CASE b = c
    BY <1>1, <2>2, ClashSymmetric DEF OthersKeep
  <2>3. CASE a # c /\ b # c
    BY <2>3 DEF OthersKeep, NoClash
  <2> QED
    BY <2>1, <2>2, <2>3
<1>3. ASSUME NEW e \in S, Clean(e)' PROVE e \in Elem /\ InSyncAt(e) /\ InSyncAt(e)'
  <2>1. e \in Elem /\ e \notin tainted /\ e \notin tainted'
    BY <1>3 DEF Clean
  <2>2. ASSUME NEW d \in Client PROVE e \notin touch[d]
    <3>1. CASE d = c
      BY <3>1
    <3>2. CASE d # c
      <4>1. touch[d] \in SUBSET Everything
        BY DEF TypeOK
      <4> QED
        BY <1>1, <2>1, <3>2, <4>1, ClashMeets
    <3> QED
      BY <3>1, <3>2
  <2> QED
    BY <2>1, <2>2, SameAll DEF InSync
<1> QED
  BY <1>2, <1>3

\* An operation that begins is in the phase of its first place.
Started(c) == NoClash' /\ Cover(c)' /\ Owned(c)'

\* An add finds no row and asks the kernel for elements that are in step.
LEMMA StartAdd ==
    ASSUME Static, NoClash, InSync, NEW c \in Client, NEW t \in Wanted, NEW k \in Prio,
           BeginAdd(c, t, k)
    PROVE  Started(c) /\ tainted \subseteq tainted'
<1>0. TypeOK /\ RowShape /\ Shape(c) /\ t \in Target
  BY RulesAssumption DEF Static
<1>1. PICK A \in (IF t \in Domain THEN Answers[t] ELSE {{t}}) :
        /\ Begin(c, "kadd", [Idle EXCEPT !.kind = "add", !.target = t, !.prio = k,
                                         !.todo = A, !.ips = A], {t} \cup A)
        /\ tainted' = tainted \cup Clashes(c, {t} \cup A)
  BY DEF BeginAdd
<1>2. /\ job'[c] = [Idle EXCEPT !.kind = "add", !.target = t, !.prio = k, !.todo = A, !.ips = A]
      /\ pc'[c] = "kadd" /\ touch'[c] = {t} \cup A /\ OthersKeep(c) /\ pc[c] = "idle"
      /\ UNCHANGED <<nft, rules>>
  BY <1>0, <1>1, BeginValues
<1>3. /\ job'[c].kind = "add" /\ job'[c].target = t /\ job'[c].todo = A /\ job'[c].ips = A
  BY <1>2 DEF Idle
<1>4. A \subseteq Elem /\ A \subseteq Addr \cup {t} /\ {t} \cup A \in SUBSET Everything
  BY <1>0, RulesAssumption DEF Elem, Target, Everything
<1>5. touch[c] = {}
  BY <1>0, <1>2 DEF Shape, Reach
<1>6. /\ NoClash'
      /\ \A e \in touch'[c] : Clean(e)' => e \in Elem /\ InSyncAt(e) /\ InSyncAt(e)'
  BY <1>0, <1>1, <1>2, <1>4, <1>5, BeginFresh
<1>7. rules[t] = NoRow
  BY <1>0 DEF BeginAdd, RowShape
<1>8. Cover(c)'
  <2> SUFFICES ASSUME NEW u \in Target, u \in {t} \cup A, NEW e \in rules[u].ips
               PROVE  e \in {t} \cup A
    BY <1>2 DEF Cover
  <2>1. rules[u].ips = {} \/ u \in Domain \/ rules[u].ips = {u}
    BY <1>0 DEF RowShape, NoRow
  <2>2. u \in Domain => u = t
    BY <1>4, RulesAssumption
  <2> QED
    BY <1>7, <2>1, <2>2 DEF NoRow
<1>9. Rows(c)'
  BY <1>2, <1>3, <1>7 DEF Rows
<1>10. \A e \in touch'[c] : Clean(e)' => Phase(c, e)'
  BY <1>2, <1>3, <1>6 DEF Phase
<1> QED
  BY <1>1, <1>6, <1>8, <1>9, <1>10 DEF Started, Owned

\* A delete takes the row's elements; one that another rule claims too is spoiled.
LEMMA StartDelete ==
    ASSUME Static, NoClash, InSync, NEW c \in Client, NEW t \in Target, NEW byName \in BOOLEAN,
           BeginDelete(c, t, byName)
    PROVE  Started(c) /\ tainted \subseteq tainted'
<1>0. TypeOK /\ RowShape /\ Shape(c)
  BY DEF Static
<1> DEFINE r == rules[t]
<1>1. /\ Begin(c, "kdel", [Idle EXCEPT !.kind = "delete", !.target = t,
                                     !.byName = byName, !.id = r.id, !.prio = r.prio,
                                     !.todo = r.ips, !.ips = r.ips], {t} \cup r.ips)
      /\ r.prio # "none"
      /\ tainted' = tainted \cup Clashes(c, {t} \cup r.ips) \cup SharedWith(t, r.prio, r.ips)
  BY DEF BeginDelete
<1>2. r \in Row /\ r.ips \in SUBSET Elem /\ r = [id |-> r.id, prio |-> r.prio, ips |-> r.ips]
  BY <1>0 DEF TypeOK, Row
<1>3. PICK k \in Prio, A \in SUBSET Elem : k = r.prio /\ A = r.ips
  BY <1>1, <1>2 DEF Row
<1>4. /\ job'[c] = [Idle EXCEPT !.kind = "delete", !.target = t, !.byName = byName, !.id = r.id,
                                !.prio = r.prio, !.todo = r.ips, !.ips = r.ips]
      /\ pc'[c] = "kdel" /\ touch'[c] = {t} \cup A /\ OthersKeep(c) /\ pc[c] = "idle"
      /\ UNCHANGED <<nft, rules>>
  BY <1>0, <1>1, <1>3, BeginValues
<1>5. /\ job'[c].kind = "delete" /\ job'[c].target = t /\ job'[c].id = r.id
      /\ job'[c].prio = k /\ job'[c].todo = A /\ job'[c].ips = A
  BY <1>3, <1>4 DEF Idle
<1>6. {t} \cup A \in SUBSET Everything /\ touch[c] = {}
  BY <1>0, <1>4 DEF Elem, Target, Everything, Shape, Reach
<1>7. /\ NoClash'
      /\ \A e \in touch'[c] : Clean(e)' => e \in Elem /\ InSyncAt(e) /\ InSyncAt(e)'
  BY <1>0, <1>1, <1>3, <1>4, <1>6, BeginFresh
<1>8. Cover(c)'
  <2> SUFFICES ASSUME NEW u \in Target, u \in {t} \cup A, NEW e \in rules[u].ips
               PROVE  e \in {t} \cup A
    BY <1>4 DEF Cover
  <2>1. CASE u = t
    BY <1>3, <2>1
  <2>2. CASE u # t
    <3>1. u \in Elem /\ u \notin Domain
      BY <2>2, RulesAssumption DEF Elem
    <3> QED
      BY <1>0, <3>1 DEF RowShape, NoRow
  <2> QED
    BY <2>1, <2>2
<1> HIDE DEF r
<1>9. rules'[t] = r
  BY <1>4 DEF r
<1>10. Rows(c)'
  BY <1>2, <1>3, <1>4, <1>5, <1>9 DEF Rows
<1>11. ASSUME NEW e \in touch'[c], Clean(e)' PROVE Phase(c, e)'
  <2>1. e \in Elem /\ InSyncAt(e) /\ InSyncAt(e)' /\ SyncBut(k, e)'
    BY <1>7, <1>11, SyncSplitNext
  <2>2. ASSUME e \in A
        PROVE  e \in nft[k] /\ \A u \in Target \ {t} : ~Claims(u, k, e)
    <3>1. Claims(t, k, e)
      BY <1>3, <2>2 DEF Claims, r
    <3>2. e \in Claimed(k)
      BY <2>1, <3>1, ClaimedBy
    <3>3. e \notin SharedWith(t, k, A)
      BY <1>1, <1>3, <1>11 DEF Clean
    <3> QED
      BY <2>1, <2>2, <3>2, <3>3 DEF InSyncAt, SharedWith
  <2>3. \A u \in Target : Claims(u, k, e)' <=> Claims(u, k, e)
    BY <1>4, ClaimsStay
  <2> QED
    BY <1>3, <1>4, <1>5, <1>9, <2>1, <2>2, <2>3 DEF Phase
<1> QED
  BY <1>1, <1>7, <1>8, <1>10, <1>11 DEF Started, Owned

\* A flush spoils what others hold; on its own it starts afresh.
LEMMA StartFlush ==
    ASSUME Static, NoClash, InSync, NEW c \in Client, BeginFlush(c)
    PROVE  /\ Started(c)
           /\ \/ tainted \subseteq tainted'
              \/ /\ pc'[c] = "kflush" /\ touch'[c] = Everything
                 /\ \A d \in Client \ {c} : touch'[d] = {}
<1>0. TypeOK /\ Shape(c)
  BY DEF Static
<1>1. /\ job'[c] = [Idle EXCEPT !.kind = "flush"] /\ pc'[c] = "kflush"
      /\ touch'[c] = Everything /\ OthersKeep(c) /\ pc[c] = "idle" /\ UNCHANGED <<nft, rules>>
  BY <1>0, BeginValues DEF BeginFlush
<1>2. job'[c].kind = "flush" /\ touch[c] = {}
  BY <1>0, <1>1 DEF Idle, Shape, Reach
<1>3. Cover(c)' /\ Rows(c)' /\ \A e \in touch'[c] : Phase(c, e)'
  BY <1>1, <1>2 DEF Cover, Clean, Everything, Target, Elem, Rows, Phase
<1>4. CASE \A d \in Client \ {c} : pc[d] = "idle"
  <2>1. \A d \in Client \ {c} : touch'[d] = {}
    BY <1>1, <1>4 DEF Static, Shape, Reach, OthersKeep
  <2>2. NoClash'
    BY <2>1, ClashNothing DEF NoClash, Clash
  <2> QED
    BY <1>1, <1>3, <2>1, <2>2 DEF Started, Owned
<1>5. CASE tainted' = tainted \cup Clashes(c, Everything)
  <2>1. NoClash'
    BY <1>0, <1>1, <1>2, <1>5, BeginFresh
  <2> QED
    BY <1>3, <1>5, <2>1 DEF Started, Owned
<1> QED
  BY <1>4, <1>5 DEF BeginFlush

\* A restore reads the addresses that are claimed and in step.
LEMMA StartRestore ==
    ASSUME Static, NoClash, InSync, NEW c \in Client, BeginRestore(c)
    PROVE  Started(c) /\ tainted \subseteq tainted'
<1>0. TypeOK /\ Shape(c)
  BY DEF Static
<1>1. /\ job'[c] = [Idle EXCEPT !.kind = "restore", !.todo = ClaimedIn(Addr, "high"),
                                !.rest = ClaimedIn(Addr, "low")]
      /\ pc'[c] = "domains" /\ touch'[c] = Everything /\ OthersKeep(c) /\ pc[c] = "idle"
      /\ UNCHANGED <<nft, rules>> /\ tainted' = tainted \cup Clashes(c, Everything)
  BY <1>0, BeginValues DEF BeginRestore
<1>2. /\ job'[c].kind = "restore" /\ job'[c].prio = "high"
      /\ job'[c].todo = ClaimedIn(Addr, "high") /\ job'[c].rest = ClaimedIn(Addr, "low")
      /\ touch[c] = {}
  BY <1>0, <1>1 DEF Idle, Shape, Reach
<1>3. /\ NoClash'
      /\ \A e \in touch'[c] : Clean(e)' => e \in Elem /\ InSyncAt(e) /\ InSyncAt(e)'
  BY <1>0, <1>1, <1>2, BeginFresh
<1>4. Cover(c)' /\ Rows(c)'
  BY <1>1, <1>2 DEF Cover, Clean, Everything, Target, Elem, Rows
<1>5. ASSUME NEW e \in touch'[c], Clean(e)' PROVE Phase(c, e)'
  <2>1. \A k : e \in ClaimedIn(Addr, k) => e \in Claimed(k)'
    BY <1>1, <1>3, <1>5, ClaimedBy, ClaimsStay
  <2> QED
    BY <1>1, <1>2, <1>3, <1>5, <2>1 DEF Phase
<1> QED
  BY <1>1, <1>3, <1>4, <1>5 DEF Started, Owned

\* A refresh takes a snapshot of the domains' rows.
LEMMA StartRefresh ==
    ASSUME Static, NoClash, InSync, NEW c \in Client, BeginRefresh(c)
    PROVE  Started(c) /\ tainted \subseteq tainted'
<1>0. TypeOK /\ Shape(c) /\ RowShape
  BY DEF Static
<1> DEFINE D == {d \in Domain : rules[d].prio # "none"}
           P == {[dom |-> d, id |-> rules[d].id, prio |-> rules[d].prio,
                  ips |-> rules[d].ips] : d \in D}
           S == D \cup UNION {rules[d].ips \cup UNION Answers[d] : d \in D}
<1>1. Begin(c, "resolve", [Idle EXCEPT !.kind = "refresh", !.pending = P], S)
      /\ tainted' = tainted \cup Clashes(c, S)
  BY DEF BeginRefresh
<1>2. \A s \in P : rules[s.dom] = [id |-> s.id, prio |-> s.prio, ips |-> s.ips]
  <2> SUFFICES ASSUME NEW d \in D
               PROVE  rules[d] = [id |-> rules[d].id, prio |-> rules[d].prio, ips |-> rules[d].ips]
    OBVIOUS
  <2>1. rules[d] \in Row
    BY <1>0 DEF TypeOK, Target
  <2> QED
    BY <2>1 DEF Row
<1>3. S \in SUBSET Everything
  <2>1. \A d \in D : d \in Target /\ rules[d].ips \subseteq Target /\ UNION Answers[d] \subseteq Target
    BY <1>0, RulesAssumption DEF RowShape, Target
  <2> QED
    BY <2>1 DEF Everything
<1>4. \A u \in S \cap Target : rules[u].ips \subseteq S
  <2>1. \A d \in D : rules[d].ips \subseteq Addr /\ UNION Answers[d] \subseteq Addr
    BY <1>0, RulesAssumption DEF RowShape, Target
  <2> SUFFICES ASSUME NEW u \in S \cap Target PROVE rules[u].ips \subseteq S
    OBVIOUS
  <2>2. CASE u \in D
    BY <2>2
  <2>3. CASE u \notin D
    <3>1. u \notin Domain /\ u \in S
      BY <2>1, <2>3, RulesAssumption
    <3> HIDE DEF S
    <3> QED
      BY <1>0, <3>1 DEF RowShape, NoRow
  <2> QED
    BY <2>2, <2>3
<1> HIDE DEF S, P
<1>5. /\ job'[c] = [Idle EXCEPT !.kind = "refresh", !.pending = P]
      /\ pc'[c] = "resolve" /\ touch'[c] = S /\ OthersKeep(c) /\ pc[c] = "idle"
      /\ UNCHANGED <<nft, rules>>
  BY <1>0, <1>1, BeginValues
<1>6. job'[c].kind = "refresh" /\ job'[c].pending = P /\ touch[c] = {}
  BY <1>0, <1>5 DEF Idle, Shape, Reach
<1>7. /\ NoClash'
      /\ \A e \in touch'[c] : Clean(e)' => e \in Elem /\ InSyncAt(e) /\ InSyncAt(e)'
  BY <1>0, <1>1, <1>3, <1>5, <1>6, BeginFresh
<1>8. Cover(c)'
  BY <1>4, <1>5 DEF Cover
<1>9. Rows(c)'
  BY <1>2, <1>5, <1>6 DEF Rows
<1>10. \A e \in touch'[c] : Clean(e)' => Phase(c, e)'
  BY <1>5, <1>6, <1>7 DEF Phase
<1> QED
  BY <1>1, <1>7, <1>8, <1>9, <1>10 DEF Started, Owned

\* Every request begins as its operation expects.
LEMMA StartRequest ==
    ASSUME Static, NoClash, InSync, NEW c \in Client, Request(c)
    PROVE  /\ Started(c)
           /\ \/ tainted \subseteq tainted'
              \/ /\ pc'[c] = "kflush" /\ touch'[c] = Everything
                 /\ \A d \in Client \ {c} : touch'[d] = {}
BY StartAdd, StartDelete, StartFlush, StartRestore, StartRefresh DEF Request

-----------------------------------------------------------------------------
(* The addresses stored for a domain.                                      *)

\* An operation about to change the addresses of a domain touches the domain.
LEMMA BusyTouches ==
    ASSUME NEW c \in Client, NEW d \in Domain, Shape(c), Busy(c, d)
    PROVE  d \in touch[c]
BY DEF Shape, Place, Reach, Plan, Busy, Global, Everything, Target

\* After the step of c the addresses of d are as before, or an answer of the
\* resolver, or still being changed, or nothing is promised about them.
Settled(c, d) ==
    \/ rules'[d] = rules[d] /\ ~Busy(c, d)
    \/ Busy(c, d)'
    \/ d \in tainted'
    \/ rules'[d].prio = "none"
    \/ rules'[d].ips \in Answers[d]

\* What is settled for every domain is exact.
LEMMA ExactSettled ==
    ASSUME Exact, NEW c \in Client, OthersKeep(c), tainted \subseteq tainted',
           \A d \in Domain : Settled(c, d)
    PROVE  Exact'
<1> SUFFICES ASSUME NEW d \in Domain, rules'[d].prio # "none", d \notin tainted',
                    \A a \in Client : ~Busy(a, d)'
             PROVE  rules'[d].ips \in Answers[d]
  BY DEF Exact
<1>1. CASE rules'[d].ips \in Answers[d]
  BY <1>1
<1>2. CASE rules'[d] = rules[d] /\ ~Busy(c, d)
  <2>1. \A a \in Client : ~Busy(a, d)
    BY <1>2 DEF OthersKeep, Busy
  <2> QED
    BY <1>2, <2>1 DEF Exact
<1> QED
  BY <1>1, <1>2 DEF Settled

\* An operation that is cut short leaves the rows alone and spoils its domain.
LEMMA SettledFail ==
    ASSUME NEW c \in Client, NEW d \in Domain, Shape(c), rules' = rules,
           touch[c] \subseteq tainted'
    PROVE  Settled(c, d)
BY BusyTouches DEF Settled

\* Requests to the kernel do not change the addresses stored.
LEMMA SettledKernel ==
    ASSUME Static, NEW c \in Client, NEW d \in Domain, KernelStep(c)
    PROVE  Settled(c, d)
<1>0. TypeOK /\ Shape(c) /\ job[c] \in Job /\ rules' = rules
  BY KernelKeepsRows DEF Static, TypeOK
<1>1. CASE AddToSet(c)
  <2>1. PICK S \in Batches(job[c].todo) : Goto(c, "kadd", [job[c] EXCEPT !.todo = @ \ S])
    BY <1>1 DEF AddToSet
  <2>2. /\ pc[c] = "kadd" /\ pc'[c] = "kadd" /\ job'[c].kind = job[c].kind
        /\ job'[c].target = job[c].target
    BY <1>0, <1>1, <2>1, GotoValues DEF AddToSet, AtKernel, Job
  <2> QED
    BY <1>0, <2>2 DEF Settled, Busy
<1>2. CASE Fail(c)
  BY <1>0, <1>2, SettledFail DEF Fail
<1>3. CASE RemoveFromSet(c) \/ RemoveMissing(c) \/ RemoveDone(c)
  BY <1>0, <1>3 DEF RemoveFromSet, RemoveMissing, RemoveDone, RequestDone, AtKernel, Settled, Busy
<1>4. CASE FlushSets(c)
  <2>1. CASE job[c].dead
    <3>1. touch[c] \subseteq tainted'
      BY <1>0, <1>4, <2>1 DEF FlushSets, Shape, Reach
    <3> QED
      BY <1>0, <3>1, SettledFail
  <2>2. CASE ~job[c].dead
    BY <1>0, <1>4, <2>2, GotoValues DEF FlushSets, Settled, Busy
  <2> QED
    BY <2>1, <2>2
<1>5. CASE AddDone(c)
  <2>1. CASE job[c].kind = "add"
    BY <1>0, <1>5, <2>1 DEF AddDone, RequestDone, AtKernel, Settled, Busy
  <2>2. CASE job[c].kind = "refresh" /\ Goto(c, "read", job[c])
    BY <1>0, <1>5, <2>2, GotoValues DEF AddDone, RequestDone, AtKernel, Settled, Busy
  <2> QED
    BY <1>5, <2>1, <2>2 DEF AddDone
<1>6. CASE RestoreHighDone(c) \/ RestoreHostsDone(c) \/ RestoreDone(c)
  BY <1>0, <1>6
     DEF RestoreHighDone, RestoreHostsDone, RestoreDone, RequestDone, AtKernel, Settled, Busy
<1>7. CASE OrphanDone(c)
  <2>1. touch[c] \subseteq tainted'
    BY <1>0, <1>7 DEF OrphanDone, RequestDone, Shape, Reach
  <2> QED
    BY <1>0, <2>1, SettledFail
<1> QED
  BY <1>1, <1>2, <1>3, <1>4, <1>5, <1>6, <1>7 DEF KernelStep, AddRejected

\* Statements leave the addresses of a domain an answer, or are about to make them one.
LEMMA SettledDb ==
    ASSUME Static, NEW c \in Client, NEW d \in Domain, Owned(c), DbStep(c)
    PROVE  Settled(c, d)
<1>0. TypeOK /\ Shape(c) /\ job[c] \in Job /\ d \in Target
  BY DEF Static, TypeOK, Target
<1>1. CASE InsertRow(c)
  <2>1. pc[c] = "row" /\ job[c].target \in Target
    BY <1>0, <1>1 DEF InsertRow, Shape, Place, Reach
  <2>2. CASE d = job[c].target
    BY <1>0, <1>1, <2>2, GotoValues DEF InsertRow, Settled, Busy
  <2>3. CASE d # job[c].target
    <3>1. rules'[d] = rules[d]
      BY <1>0, <1>1, <2>1, <2>3 DEF InsertRow, TypeOK
    <3> QED
      BY <2>1, <3>1 DEF Settled, Busy
  <2> QED
    BY <2>2, <2>3
<1>2. CASE ReadRow(c)
  <2>1. CASE Fail(c)
    BY <1>0, <2>1, SettledFail DEF Fail
  <2>2. CASE /\ Goto(c, "ips", [job[c] EXCEPT !.id = rules[job[c].target].id, !.todo = job[c].ips])
             /\ UNCHANGED rules
    <3>0. pc'[c] = "ips" /\ job'[c] = [job[c] EXCEPT !.id = rules[job[c].target].id,
                                                    !.todo = job[c].ips]
      BY <1>0, <2>2, GotoValues
    <3>1. pc'[c] = "ips" /\ job'[c].target = job[c].target /\ pc[c] = "read"
      BY <1>0, <1>2, <3>0 DEF ReadRow, Job
    <3> QED
      BY <2>2, <3>1 DEF Settled, Busy
  <2> QED
    BY <1>2, <2>1, <2>2 DEF ReadRow
<1>3. CASE InsertIP(c)
  <2>1. PICK x \in job[c].todo :
        /\ rules' = IF rules[job[c].target].id = job[c].id
                    THEN [rules EXCEPT ![job[c].target].ips = @ \cup {x}] ELSE rules
        /\ Goto(c, "ips", [job[c] EXCEPT !.todo = @ \ {x}])
    BY <1>3 DEF InsertIP
  <2>2. pc[c] = "ips" /\ pc'[c] = "ips" /\ job'[c].target = job[c].target
    BY <1>0, <1>3, <2>1, GotoValues DEF InsertIP, Job
  <2>3. CASE d = job[c].target
    BY <2>2, <2>3 DEF Settled, Busy
  <2>4. CASE d # job[c].target
    BY <1>0, <2>1, <2>2, <2>4 DEF TypeOK, Settled, Busy
  <2> QED
    BY <2>3, <2>4
<1>4. CASE IPsDone(c)
  <2>1. pc[c] = "ips" /\ rules' = rules /\ tainted' = tainted /\ job[c].todo = {}
    BY <1>4 DEF IPsDone
  <2>2. CASE d = job[c].target
    <3>1. /\ job[c].kind \in {"add", "refresh"}
          /\ job[c].ips \in Answers[d] /\ d \in touch[c]
      BY <1>0, <2>1, <2>2 DEF Shape, Place, Reach, Plan
    <3>2. d \notin tainted => rules[d] = [id |-> job[c].id, prio |-> job[c].prio,
                                          ips |-> job[c].ips \ job[c].todo]
      BY <2>1, <2>2, <3>1 DEF Owned, Rows, Undisturbed
    <3>3. job[c].ips \ job[c].todo = job[c].ips
      BY <2>1
    <3> QED
      BY <2>1, <3>1, <3>2, <3>3 DEF Settled
  <2>3. CASE d # job[c].target
    BY <2>1, <2>3 DEF Settled, Busy
  <2> QED
    BY <2>2, <2>3
<1>5. CASE DropRow(c)
  <2>1. pc[c] = "drop" /\ (rules' = rules \/ rules' = [rules EXCEPT ![job[c].target] = NoRow])
    BY <1>5 DEF DropRow
  <2>2. rules'[d] = rules[d] \/ rules'[d] = NoRow
    BY <1>0, <2>1 DEF TypeOK
  <2> QED
    BY <2>1, <2>2 DEF Settled, Busy, NoRow
<1>6. CASE FlushDomainRules(c)
  BY <1>0, <1>6 DEF FlushDomainRules, FlushTable, Settled, NoRow
<1>7. CASE FlushIPRules(c) \/ FlushServiceRules(c)
  <2>1. d \notin Addr \cup Service
    BY RulesAssumption
  <2>2. rules'[d] = rules[d] /\ pc[c] \in {"fip", "fsvc"}
    BY <1>0, <1>7, <2>1 DEF FlushIPRules, FlushServiceRules, FlushTable
  <2> QED
    BY <1>0, <2>2 DEF Settled, Busy
<1>8. CASE RestoreReadDomains(c) \/ RestoreReadServices(c) \/ Resolve(c) \/ RefreshDone(c)
  BY <1>8 DEF RestoreReadDomains, RestoreReadServices, Resolve, RefreshDone, Settled, Busy
<1>9. CASE ClearIPs(c)
  <2>1. pc[c] = "clear" /\ job[c].kind = "refresh"
    BY <1>0, <1>9 DEF ClearIPs, Shape, Place
  <2>2. CASE d = job[c].target
    <3>1. /\ pc'[c] = "kadd" /\ job'[c].target = job[c].target
          /\ job'[c].kind = job[c].kind
      BY <1>0, <1>9, GotoValues DEF ClearIPs, Job
    <3> QED
      BY <2>1, <2>2, <3>1 DEF Settled, Busy
  <2>3. CASE d # job[c].target
    <3>1. rules'[d] = rules[d]
      BY <1>0, <1>9, <2>3 DEF ClearIPs, TypeOK
    <3> QED
      BY <2>1, <3>1 DEF Settled, Busy
  <2> QED
    BY <2>2, <2>3
<1> QED
  BY <1>1, <1>2, <1>3, <1>4, <1>5, <1>6, <1>7, <1>8, <1>9 DEF DbStep

-----------------------------------------------------------------------------
(* The inductive invariant.                                                *)

\* The invariant, in the parts that the lemmas speak of.
LEMMA InvParts ==
    IInv <=> /\ Static /\ NoClash /\ InSync /\ Exact
             /\ \A c \in Client : Cover(c) /\ Owned(c)
BY DEF IInv, Static, Job1, Owned

\* The same after the step.
LEMMA InvPartsNext ==
    IInv' <=> /\ Static' /\ NoClash' /\ InSync' /\ Exact'
              /\ \A c \in Client : Cover(c)' /\ Owned(c)'
BY DEF IInv, Static, Job1, Owned

\* A step of an operation under way keeps the invariant.
LEMMA StepUnder ==
    ASSUME IInv, Static', NEW c \in Client, Under(c), GoesOn(c), Own(c),
           \A d \in Domain : Settled(c, d)
    PROVE  IInv'
<1>0. /\ Static /\ TypeOK /\ NoClash /\ InSync /\ Exact
      /\ \A d \in Client : Cover(d) /\ Owned(d) /\ Job1(d)
  BY InvParts DEF Static, IInv
<1>1. NoClash' /\ Exact' /\ Cover(c)'
  BY <1>0, NoClashUnder, ExactSettled, CoverSelf DEF Under
<1>2. Owned(c)'
  <2>1. CASE touch'[c] = {}
    BY <2>1 DEF Own, Owned
  <2>2. CASE touch'[c] = touch[c] /\ pc'[c] # "idle"
    BY <2>2 DEF Own, Owned
  <2>3. CASE touch'[c] = touch[c] /\ pc'[c] = "idle"
    BY <2>3 DEF Own, Owned, Static, Shape, Reach
  <2> QED
    BY <2>1, <2>2, <2>3 DEF GoesOn
<1>3. ASSUME NEW d \in Client, d # c PROVE Cover(d)' /\ Owned(d)'
  BY <1>0, <1>3, JobOther DEF Job1, Owned
<1>4. InSync'
  <2> SUFFICES ASSUME NEW e \in Elem, e \notin tainted', \A d \in Client : e \notin touch'[d]
               PROVE  InSyncAt(e)'
    BY DEF InSync
  <2>1. CASE e \in touch[c]
    BY <2>1 DEF GoesOn, Own, Clean
  <2>2. CASE e \notin touch[c]
    <3>1. e \notin tainted /\ \A d \in Client : e \notin touch[d]
      BY <2>2 DEF Under, OthersKeep
    <3>2. InSyncAt(e) /\ Same(e)
      BY <1>0, <2>2, <3>1, FrameSame DEF InSync, Under
    <3> QED
      BY <3>2, SameSync
  <2> QED
    BY <2>1, <2>2
<1> QED
  BY <1>1, <1>2, <1>3, <1>4, InvPartsNext

\* A client whose operation touches nothing owns nothing.
LEMMA TouchesNothing ==
    ASSUME NEW d \in Client, touch'[d] = {}
    PROVE  Cover(d)' /\ Owned(d)'
BY DEF Cover, Owned, Rows, Undisturbed

\* A request keeps the invariant.
LEMMA StepRequest ==
    ASSUME IInv, Static', NEW c \in Client, Request(c)
    PROVE  IInv'
<1>0. /\ Static /\ TypeOK /\ NoClash /\ InSync /\ Exact
      /\ \A d \in Client : Cover(d) /\ Job1(d)
  BY InvParts DEF Static, IInv
<1>1. /\ OthersKeep(c) /\ UNCHANGED <<nft, rules>> /\ Started(c)
      /\ \/ tainted \subseteq tainted'
         \/ /\ pc'[c] = "kflush" /\ touch'[c] = Everything
            /\ \A d \in Client \ {c} : touch'[d] = {}
  BY <1>0, ShapeRequest, StartRequest
<1>2. pc[c] = "idle" /\ touch[c] = {}
  BY <1>0 DEF Request, BeginAdd, BeginDelete, BeginFlush, BeginRestore, BeginRefresh, Begin,
              Static, Shape, Reach
<1>3. CASE tainted \subseteq tainted'
  <2>1. Under(c)
    BY <1>1, <1>3, FrameNothing DEF Under
  <2>2. ASSUME NEW d \in Client, d # c PROVE Cover(d)' /\ Owned(d)'
    BY <1>0, <2>1, <2>2, JobOther DEF Job1, Owned
  <2>3. InSync'
    BY <1>0, <1>1, <1>2, <1>3, SameAll DEF InSync, OthersKeep
  <2>4. Exact'
    BY <1>0, <1>1, <1>2, <1>3, ExactSettled DEF Settled, Busy
  <2> QED
    BY <1>1, <2>2, <2>3, <2>4, InvPartsNext DEF Started
<1>4. CASE /\ pc'[c] = "kflush" /\ touch'[c] = Everything
           /\ \A d \in Client \ {c} : touch'[d] = {}
  <2>1. InSync'
    BY <1>4 DEF InSync, Everything, Elem, Target
  <2>2. Exact'
    BY <1>4 DEF Exact, Busy
  <2>3. \A d \in Client \ {c} : Cover(d)' /\ Owned(d)'
    BY <1>4, TouchesNothing
  <2> QED
    BY <1>1, <2>1, <2>2, <2>3, InvPartsNext DEF Started
<1> QED
  BY <1>1, <1>3, <1>4

\* Requests to the kernel and statements on the database: the operation goes on or ends.
LEMMA StepsGoOn ==
    ASSUME TypeOK, NEW c \in Client, KernelStep(c) \/ DbStep(c)
    PROVE  GoesOn(c)
<1>1. CASE End(c)
  BY <1>1, EndValues DEF GoesOn
<1>2. CASE \E p, j : Goto(c, p, j)
  BY <1>2, GotoValues DEF GoesOn
<1>3. KernelStep(c) => End(c) \/ \E p, j : Goto(c, p, j)
  BY DEF KernelStep, AddToSet, AddRejected, RemoveFromSet, RemoveMissing, FlushSets, AddDone,
         RemoveDone, RestoreHighDone, RestoreHostsDone, RestoreDone, OrphanDone, Fail
<1>4. DbStep(c) => End(c) \/ \E p, j : Goto(c, p, j)
  BY DEF DbStep, InsertRow, ReadRow, InsertIP, IPsDone, DropRow, FlushDomainRules, FlushIPRules,
         FlushServiceRules, RestoreReadDomains, RestoreReadServices, Resolve, RefreshDone,
         ClearIPs, Fail
<1> QED
  BY <1>1, <1>2, <1>3, <1>4

\* The invariant is inductive.
LEMMA InvStep == IInv /\ [Next]_vars => IInv'
<1> SUFFICES ASSUME IInv, [Next]_vars PROVE IInv'
  OBVIOUS
<1>0. /\ Static /\ TypeOK /\ NoClash /\ InSync /\ Exact
      /\ \A d \in Client : Cover(d) /\ Owned(d) /\ Shape(d)
  BY InvParts DEF Static, IInv
<1>1. Static'
  BY <1>0, StaticStep
<1>2. ASSUME NEW c \in Client, Request(c) PROVE IInv'
  BY <1>1, <1>2, StepRequest
<1>3. ASSUME NEW c \in Client, KernelStep(c) PROVE IInv'
  <2>1. Under(c) /\ GoesOn(c)
    BY <1>0, <1>3, FrameKernel, ShapeKernel, StepsGoOn DEF Under
  <2>2. Own(c) /\ \A d \in Domain : Settled(c, d)
    BY <1>0, <1>3, OwnKernel, SettledKernel
  <2> QED
    BY <1>1, <2>1, <2>2, StepUnder
<1>4. ASSUME NEW c \in Client, DbStep(c) PROVE IInv'
  <2>1. Under(c) /\ GoesOn(c)
    BY <1>0, <1>4, FrameDb, ShapeDb, StepsGoOn DEF Under
  <2>2. Own(c) /\ \A d \in Domain : Settled(c, d)
    BY <1>0, <1>4, OwnDb, SettledDb
  <2> QED
    BY <1>1, <2>1, <2>2, StepUnder
<1>5. ASSUME NEW c \in Client, Fault(c) PROVE IInv'
  <2>1. /\ OthersKeep(c) /\ tainted' = tainted \cup touch[c] /\ UNCHANGED <<nft, rules>>
    BY <1>0, <1>5, ShapeFault
  <2>2. GoesOn(c) /\ touch'[c] \subseteq touch[c]
    BY <1>0, <1>5 DEF Fault, Abort, Orphan, GoesOn, TypeOK
  <2>3. Under(c) /\ Own(c) /\ \A d \in Domain : Settled(c, d)
    BY <1>0, <2>1, <2>2, FrameNothing, OwnSpoiled, SettledFail DEF Under
  <2> QED
    BY <1>1, <2>2, <2>3, StepUnder
<1>6. CASE Reboot
  <2>1. \A c \in Client : touch'[c] = {}
    BY <1>6 DEF Reboot
  <2>2. NoClash'
    BY <2>1, ClashNothing DEF NoClash, Clash
  <2>3. InSync'
    <3> SUFFICES ASSUME NEW e \in Elem, e \notin tainted' PROVE InSyncAt(e)'
      BY DEF InSync
    <3>1. \A k \in Prio : e \notin Claimed(k)' /\ e \notin nft'[k]
      BY <1>6, ClaimsStay DEF Reboot, Prio
    <3> QED
      BY <3>1 DEF InSyncAt
  <2>4. Exact'
    <3> SUFFICES ASSUME NEW d \in Domain, rules'[d].prio # "none", d \notin tainted'
                 PROVE  rules'[d].ips \in Answers[d]
      BY DEF Exact
    <3>1. d \notin tainted /\ \A c \in Client : d \notin touch[c]
      BY <1>6 DEF Reboot
    <3>2. \A c \in Client : ~Busy(c, d)
      BY <1>0, <3>1, BusyTouches
    <3> QED
      BY <1>0, <1>6, <3>1, <3>2 DEF Exact, Reboot
  <2> QED
    BY <1>1, <2>1, <2>2, <2>3, <2>4, TouchesNothing, InvPartsNext
<1>7. CASE (\E c \in Client : Accept(c)) \/ UNCHANGED vars
  <2>1. UNCHANGED <<nft, rules, nextId, pc, job, touch, tainted>>
    BY <1>7 DEF Accept, vars
  <2>2. NoClash' /\ InSync' /\ Exact'
    BY <1>0, <2>1, SameAll DEF NoClash, Clash, InSync, Exact, Busy
  <2>3. ASSUME NEW c \in Client PROVE Cover(c)' /\ Owned(c)'
    <3>1. Cover(c)' /\ Rows(c)'
      BY <1>0, <2>1 DEF Cover, Clean, Owned, Rows, Undisturbed
    <3>2. ASSUME NEW e \in touch'[c], Clean(e)' PROVE Phase(c, e)'
      <4>1. e \in Elem /\ Phase(c, e) /\ job[c].prio \in Prio
        BY <1>0, <2>1, <3>2 DEF Clean, Owned, TypeOK, Job
      <4> QED
        BY <1>0, <2>1, <4>1, SameAll, SamePhase
    <3> QED
      BY <3>1, <3>2 DEF Owned
  <2> QED
    BY <1>1, <2>2, <2>3, InvPartsNext
<1> QED
  BY <1>2, <1>3, <1>4, <1>5, <1>6, <1>7 DEF Next

\* The invariant holds of the empty system.
LEMMA InvInit == Init => IInv
<1> SUFFICES ASSUME Init PROVE IInv
  OBVIOUS
<1>1. Static
  BY StaticInit
<1>2. \A c \in Client : touch[c] = {}
  BY DEF Init
<1>3. NoClash /\ \A c \in Client : Cover(c) /\ Owned(c)
  BY <1>2, ClashNothing DEF NoClash, Cover, Owned, Rows, Undisturbed
<1>4. InSync
  BY DEF Init, NoRow, InSync, InSyncAt, Claimed, Claims
<1>5. Exact
  BY DEF Init, NoRow, Exact, Target
<1> QED
  BY <1>1, <1>3, <1>4, <1>5, InvParts

\* A domain that no operation touches is none that an operation is about to change.
LEMMA ExactWhenUntouched == IInv => DomainIPsExact
<1> SUFFICES ASSUME IInv, NEW d \in Domain, rules[d].prio # "none", d \notin tainted,
                    \A c \in Client : d \notin touch[c]
             PROVE  rules[d].ips \in Answers[d]
  BY DEF DomainIPsExact
<1>1. \A c \in Client : ~Busy(c, d)
  BY InvParts, BusyTouches DEF Static
<1> QED
  BY <1>1, InvParts DEF Exact

\* Every operation in flight owns what it touches, whatever the others do.
THEOREM OwnershipCorrect == Spec => []IInv
BY InvInit, InvStep, PTL DEF Spec

\* Kernel and database agree on every element that no operation in flight concerns,
\* unless one on it was cut short, overlapped another one, or took it from a second
\* rule: for any number of clients, with and without the daemon, across crashes,
\* failing statements and reboots (AddRule, DeleteRule, FlushRules, RefreshAllDomains).
THEOREM SyncCorrect == Spec => []InSync
<1>1. IInv => InSync
  BY DEF IInv
<1> QED
  BY <1>1, OwnershipCorrect, PTL

\* The addresses stored for a domain are one answer of the resolver, however many
\* adds and refreshes there were (AddDomainIPstoDB, clearOldIPs).
THEOREM AddressesCorrect == Spec => []DomainIPsExact
BY ExactWhenUntouched, OwnershipCorrect, PTL

-----------------------------------------------------------------------------
(* A restore that runs alone.                                              *)

\* What the tables of addresses and domains claim, and with the services' table
\* what all of them claim.
Hosts(k) == ClaimedIn(Addr, k) \cup ClaimedIn(Domain, k)
Part(c, k) == IF job[c].kind = "restore" THEN Hosts(k) ELSE Claimed(k)

\* What is claimed is in the kernel or still in the lists of the restore.
Restoring(c) ==
    LET j == job[c] IN
    /\ pc[c] = "domains" =>
          j.todo = ClaimedIn(Addr, "high") /\ j.rest = ClaimedIn(Addr, "low")
    /\ pc[c] = "kadd" /\ j.kind \in {"restore", "restoreSvc"} /\ j.prio = "high" =>
          /\ Part(c, "high") \subseteq nft["high"] \cup j.todo
          /\ Part(c, "low") \subseteq nft["low"] \cup j.rest
    /\ pc[c] = "kadd" /\ j.kind \in {"restore", "restoreSvc"} /\ j.prio = "low" =>
          /\ Part(c, "high") \subseteq nft["high"]
          /\ Part(c, "low") \subseteq nft["low"] \cup j.todo
    /\ pc[c] = "services" => \A k \in Prio : Hosts(k) \subseteq nft[k]

\* An operation that is no restore, or none at all, has nothing to show.
LEMMA NotRestoring ==
    ASSUME NEW c \in Client, pc'[c] \notin {"domains", "services"},
           pc'[c] = "kadd" => job'[c].kind \notin {"restore", "restoreSvc"}
    PROVE  Restoring(c)'
BY DEF Restoring

\* Requests to the kernel: the elements of the list go in, none goes out.
LEMMA RestoringKernel ==
    ASSUME Static, NEW c \in Client, Restoring(c), KernelStep(c)
    PROVE  Restoring(c)'
<1>0. TypeOK /\ Shape(c) /\ job[c] \in Job /\ UNCHANGED rules
  BY KernelKeepsRows DEF Static, TypeOK
<1>1. \A k : Hosts(k)' = Hosts(k) /\ Claimed(k)' = Claimed(k)
  BY <1>0, ClaimsStay DEF Hosts
<1>2. CASE End(c)
  BY <1>0, <1>2, EndValues, NotRestoring
<1>3. CASE AddToSet(c)
  <2>1. PICK S \in Batches(job[c].todo) :
           /\ nft' = [nft EXCEPT ![job[c].prio] = @ \cup S]
           /\ Goto(c, "kadd", [job[c] EXCEPT !.todo = @ \ S])
    BY <1>3 DEF AddToSet
  <2>2. pc[c] = "kadd" /\ pc'[c] = "kadd" /\ job'[c] = [job[c] EXCEPT !.todo = @ \ S]
    BY <1>0, <1>3, <2>1, GotoValues DEF AddToSet, AtKernel
  <2>3. /\ job'[c].kind = job[c].kind /\ job'[c].prio = job[c].prio
        /\ job'[c].todo = job[c].todo \ S /\ job'[c].rest = job[c].rest
    BY <1>0, <2>2 DEF Job
  <2>4. /\ job[c].prio = "high" => nft'["high"] = nft["high"] \cup S /\ nft'["low"] = nft["low"]
        /\ job[c].prio = "low" => nft'["low"] = nft["low"] \cup S /\ nft'["high"] = nft["high"]
    BY <1>0, <2>1 DEF TypeOK, Prio
  <2>5. \A k : Part(c, k)' = Part(c, k)
    BY <1>1, <2>3 DEF Part
  <2> QED
    BY <2>2, <2>3, <2>4, <2>5 DEF Restoring
<1>4. CASE RemoveFromSet(c) \/ RemoveMissing(c) \/ RemoveDone(c) \/ FlushSets(c) \/ AddDone(c)
  <2>1. End(c) \/ \E p \in {"kdel", "drop", "clear", "fdom", "row", "read"} : \E j : Goto(c, p, j)
    BY <1>4 DEF RemoveFromSet, RemoveMissing, RemoveDone, FlushSets, AddDone, Fail
  <2> QED
    BY <1>0, <1>2, <2>1, GotoValues, NotRestoring
<1>5. CASE RestoreHighDone(c)
  <2>1. /\ pc[c] = "kadd" /\ job[c].todo = {} /\ UNCHANGED nft
        /\ job[c].kind \in {"restore", "restoreSvc"} /\ job[c].prio = "high"
        /\ pc'[c] = "kadd"
        /\ job'[c] = [job[c] EXCEPT !.prio = "low", !.todo = job[c].rest, !.rest = {}]
    BY <1>0, <1>5, GotoValues DEF RestoreHighDone, RequestDone, AtKernel
  <2>2. job'[c].kind = job[c].kind /\ job'[c].prio = "low" /\ job'[c].todo = job[c].rest
    BY <1>0, <2>1 DEF Job
  <2>3. \A k : Part(c, k)' = Part(c, k)
    BY <1>1, <2>2 DEF Part
  <2> QED
    BY <2>1, <2>2, <2>3 DEF Restoring
<1>6. CASE RestoreHostsDone(c)
  <2>1. /\ pc[c] = "kadd" /\ job[c].todo = {} /\ UNCHANGED nft
        /\ job[c].kind = "restore" /\ job[c].prio = "low" /\ pc'[c] = "services"
    BY <1>0, <1>6, GotoValues DEF RestoreHostsDone, RequestDone, AtKernel
  <2> QED
    BY <1>1, <2>1 DEF Restoring, Part, Prio
<1> QED
  BY <1>2, <1>3, <1>4, <1>5, <1>6
     DEF KernelStep, AddRejected, Fail, RestoreDone, OrphanDone

\* Statements on the database: the restore reads one table after the other.
LEMMA RestoringDb ==
    ASSUME Static, NEW c \in Client, Restoring(c), DbStep(c)
    PROVE  Restoring(c)'
<1>0. TypeOK /\ Shape(c) /\ job[c] \in Job
  BY DEF Static, TypeOK
<1>1. CASE End(c)
  BY <1>0, <1>1, EndValues, NotRestoring
<1>2. CASE \E p \in {"read", "ips", "fip", "fsvc", "resolve", "kdel"} : \E j : Goto(c, p, j)
  BY <1>0, <1>2, GotoValues, NotRestoring
<1>3. CASE ClearIPs(c)
  <2>1. /\ pc'[c] = "kadd" /\ job[c].kind = "refresh"
        /\ job'[c] = [job[c] EXCEPT !.todo = job[c].ips]
    BY <1>0, <1>3, GotoValues DEF ClearIPs, Shape, Place
  <2>2. job'[c].kind = "refresh"
    BY <1>0, <2>1 DEF Job
  <2> QED
    BY <2>1, <2>2, NotRestoring
<1>4. CASE RestoreReadDomains(c)
  <2>1. /\ pc[c] = "domains" /\ pc'[c] = "kadd" /\ UNCHANGED <<nft, rules>>
        /\ job'[c] = [job[c] EXCEPT !.todo = @ \cup ClaimedIn(Domain, "high"),
                                    !.rest = @ \cup ClaimedIn(Domain, "low")]
    BY <1>0, <1>4, GotoValues DEF RestoreReadDomains
  <2>2. /\ job[c].kind = "restore" /\ job'[c].kind = "restore" /\ job'[c].prio = "high"
        /\ job'[c].todo = job[c].todo \cup ClaimedIn(Domain, "high")
        /\ job'[c].rest = job[c].rest \cup ClaimedIn(Domain, "low")
    BY <1>0, <2>1 DEF Job, Shape, Place
  <2>3. Part(c, "high")' = Hosts("high") /\ Part(c, "low")' = Hosts("low")
    BY <2>1, <2>2, ClaimsStay DEF Part, Hosts
  <2> QED
    BY <2>1, <2>2, <2>3 DEF Restoring, Hosts
<1>5. CASE RestoreReadServices(c)
  <2>1. /\ pc[c] = "services" /\ pc'[c] = "kadd" /\ UNCHANGED <<nft, rules>>
        /\ job'[c] = [job[c] EXCEPT !.kind = "restoreSvc", !.prio = "high",
                                    !.todo = ClaimedIn(Service, "high"),
                                    !.rest = ClaimedIn(Service, "low")]
    BY <1>0, <1>5, GotoValues DEF RestoreReadServices
  <2>2. /\ job'[c].kind = "restoreSvc" /\ job'[c].prio = "high"
        /\ job'[c].todo = ClaimedIn(Service, "high") /\ job'[c].rest = ClaimedIn(Service, "low")
    BY <1>0, <2>1 DEF Job
  <2>3. \A k : Part(c, k)' = Claimed(k)
    BY <2>1, <2>2, ClaimsStay DEF Part
  <2>4. \A k : Claimed(k) \subseteq Hosts(k) \cup ClaimedIn(Service, k)
    BY ClaimedBy DEF Hosts, Claimed
  <2> QED
    BY <2>1, <2>2, <2>3, <2>4 DEF Restoring, Prio
<1> QED
  BY <1>1, <1>2, <1>3, <1>4, <1>5
     DEF DbStep, InsertRow, ReadRow, Fail, InsertIP, IPsDone, DropRow, FlushDomainRules,
         FlushIPRules, FlushServiceRules, Resolve, RefreshDone

\* Nobody else is at work.
Alone(c) == \A d \in Client \ {c} : pc[d] = "idle"

\* Who is idle can only begin something.
LEMMA IdleRests ==
    ASSUME NEW d \in Client, pc[d] = "idle"
    PROVE  ~KernelStep(d) /\ ~DbStep(d) /\ ~Fault(d) /\ ~Accept(d)
<1>1. ~KernelStep(d)
  BY DEF KernelStep, AtKernel, RequestDone, AddToSet, AddRejected, RemoveFromSet, RemoveMissing,
         FlushSets, AddDone, RemoveDone, RestoreHighDone, RestoreHostsDone, RestoreDone, OrphanDone
<1>2. ~DbStep(d)
  BY DEF DbStep, InsertRow, ReadRow, InsertIP, IPsDone, DropRow, FlushTable, FlushDomainRules,
         FlushIPRules, FlushServiceRules, RestoreReadDomains, RestoreReadServices, Resolve,
         RefreshDone, ClearIPs
<1>3. ~Fault(d) /\ ~Accept(d)
  BY DEF Fault, Abort, Orphan, Accept, KernelPC
<1> QED
  BY <1>1, <1>2, <1>3

\* While nobody else is at work, only one moves.
LEMMA OnlyOne ==
    ASSUME TypeOK, NEW c \in Client, Alone(c), Alone(c)', [Next]_vars
    PROVE  \/ Request(c) \/ Accept(c) \/ KernelStep(c) \/ DbStep(c) \/ Fault(c)
           \/ Reboot \/ UNCHANGED vars
<1>1. ASSUME NEW d \in Client \ {c}
      PROVE  ~(Request(d) \/ Accept(d) \/ KernelStep(d) \/ DbStep(d) \/ Fault(d))
  <2>1. pc[d] = "idle" /\ pc'[d] = "idle"
    BY DEF Alone
  <2>2. ASSUME Request(d) PROVE FALSE
    <3>1. PICK p \in {"kadd", "kdel", "kflush", "domains", "resolve"} : \E j, S : Begin(d, p, j, S)
      BY <2>2 DEF Request, BeginAdd, BeginDelete, BeginFlush, BeginRestore, BeginRefresh
    <3> QED
      BY <2>1, <3>1 DEF Begin, TypeOK
  <2> QED
    BY <2>1, <2>2, IdleRests
<1> QED
  BY <1>1 DEF Next

\* As long as nobody else is at work, a restore has not lost anything.
LEMMA RestoringStep ==
    ASSUME Static, NEW c0 \in Client, Alone(c0), Alone(c0)', Restoring(c0), [Next]_vars
    PROVE  Restoring(c0)'
<1>0. TypeOK /\ Shape(c0) /\ job[c0] \in Job
  BY DEF Static, TypeOK
<1>1. CASE KernelStep(c0) \/ DbStep(c0)
  BY <1>0, <1>1, RestoringKernel, RestoringDb
<1>2. CASE Request(c0)
  <2>1. CASE BeginRestore(c0)
    <3>1. /\ job'[c0] = [Idle EXCEPT !.kind = "restore", !.todo = ClaimedIn(Addr, "high"),
                                     !.rest = ClaimedIn(Addr, "low")]
          /\ pc'[c0] = "domains" /\ UNCHANGED rules
      BY <1>0, <2>1, BeginValues DEF BeginRestore
    <3> QED
      BY <3>1, ClaimsStay DEF Restoring, Idle
  <2>2. CASE \E t \in Wanted, k \in Prio : BeginAdd(c0, t, k)
    <3>1. PICK t, k, A : Begin(c0, "kadd", [Idle EXCEPT !.kind = "add", !.target = t, !.prio = k,
                                                        !.todo = A, !.ips = A], {t} \cup A)
      BY <2>2 DEF BeginAdd
    <3>2. job'[c0] = [Idle EXCEPT !.kind = "add", !.target = t, !.prio = k,
                                  !.todo = A, !.ips = A] /\ pc'[c0] = "kadd"
      BY <1>0, <3>1, BeginValues
    <3>3. job'[c0].kind = "add"
      BY <3>2 DEF Idle
    <3> QED
      BY <3>2, <3>3, NotRestoring
  <2>3. CASE \/ \E t \in Target, byName \in BOOLEAN : BeginDelete(c0, t, byName)
             \/ BeginFlush(c0) \/ BeginRefresh(c0)
    <3>1. \E p \in {"kdel", "kflush", "resolve"} : \E j, S : Begin(c0, p, j, S)
      BY <2>3 DEF BeginDelete, BeginFlush, BeginRefresh
    <3> QED
      BY <1>0, <3>1, BeginValues, NotRestoring
  <2> QED
    BY <1>2, <2>1, <2>2, <2>3 DEF Request
<1>3. CASE Abort(c0) \/ Reboot
  BY <1>0, <1>3, NotRestoring DEF Abort, Reboot, TypeOK
<1>4. CASE Orphan(c0)
  <2>1. /\ job'[c0] = [job[c0] EXCEPT !.dead = TRUE] /\ pc' = pc /\ UNCHANGED <<nft, rules>>
    BY <1>0, <1>4 DEF Orphan, TypeOK
  <2>2. /\ job'[c0].kind = job[c0].kind /\ job'[c0].prio = job[c0].prio
        /\ job'[c0].todo = job[c0].todo /\ job'[c0].rest = job[c0].rest
    BY <1>0, <2>1 DEF Job
  <2>3. \A k : Hosts(k)' = Hosts(k) /\ Part(c0, k)' = Part(c0, k)
    BY <2>1, <2>2, ClaimsStay DEF Hosts, Part
  <2> QED
    BY <2>1, <2>2, <2>3, ClaimsStay DEF Restoring
<1>5. CASE Accept(c0) \/ UNCHANGED vars
  <2>1. UNCHANGED <<nft, rules, pc, job>>
    BY <1>5 DEF Accept, vars
  <2>2. \A k : Hosts(k)' = Hosts(k) /\ Part(c0, k)' = Part(c0, k)
    BY <2>1, ClaimsStay DEF Hosts, Part
  <2> QED
    BY <2>1, <2>2, ClaimsStay DEF Restoring
<1> QED
  BY <1>0, <1>1, <1>2, <1>3, <1>4, <1>5, OnlyOne DEF Fault

\* From wherever the system is: when a client restores and nobody else is at work
\* meanwhile, then at its success all that the database claims is in the kernel, after
\* a reboot and after operations that were cut short, too (RestoreRules).
THEOREM RestoreAlone ==
    ASSUME NEW c0 \in Client
    PROVE  Spec => [](pc[c0] = "idle" /\ []Alone(c0) => RestoreCovers)
<1> DEFINE Covers == \A c \in Client : RestoreDone(c) =>
                        \A k \in Prio : Claimed(k)' \subseteq nft'[k]
<1>1. pc[c0] = "idle" => Restoring(c0)
  BY DEF Restoring
<1>2. Static /\ Alone(c0) /\ Alone(c0)' /\ Restoring(c0) /\ [Next]_vars => Restoring(c0)'
  BY RestoringStep
<1>3. Static /\ Alone(c0) /\ Restoring(c0) => [Covers]_vars
  <2> SUFFICES ASSUME Alone(c0), Restoring(c0), NEW c \in Client, RestoreDone(c), NEW k \in Prio
               PROVE  Claimed(k)' \subseteq nft'[k]
    OBVIOUS
  <2>1. /\ UNCHANGED <<nft, rules>> /\ pc[c] = "kadd" /\ job[c].todo = {}
        /\ job[c].kind = "restoreSvc" /\ job[c].prio = "low"
    BY DEF RestoreDone, RequestDone, AtKernel
  <2>2. c = c0
    BY <2>1 DEF Alone
  <2>3. Claimed("high") \subseteq nft["high"] /\ Claimed("low") \subseteq nft["low"]
    BY <2>1, <2>2 DEF Restoring, Part
  <2> QED
    BY <2>1, <2>3, ClaimsStay DEF Prio
<1> QED
  BY <1>1, <1>2, <1>3, StaticInit, StaticStep, PTL DEF Spec, RestoreCovers

\* A user who works alone: every restore that returns success has brought back all that
\* the database claims.
THEOREM RestoreCorrect ==
    ASSUME NEW c0, Client = {c0}
    PROVE  Spec => RestoreCovers
<1>1. Alone(c0)
  BY DEF Alone
<1>2. Init => pc[c0] = "idle"
  BY DEF Init
<1>3. Spec => [](pc[c0] = "idle" /\ []Alone(c0) => RestoreCovers)
  BY RestoreAlone
<1> QED
  BY <1>1, <1>2, <1>3, PTL DEF Spec
=============================================================================
