--------------------------- MODULE DatapathProofs ---------------------------
(***************************************************************************)
(* Proofs about the two ends of the verdict maps.                          *)
(*                                                                         *)
(* The Programmer, which writes them (module Programmer), for every set of *)
(* policies, every set of pod tables and any number of failing Puts and    *)
(* Deletes.                                                                *)
(*                                                                         *)
(* The kernel hooks, which read them, and the event reader (module         *)
(* Datapath), for any sockets, payloads, policies and maps, and any size   *)
(* of the ring buffer.  There the maps may change to anything at any time. *)
(***************************************************************************)
EXTENDS Programmer, Datapath, SequenceTheorems, FiniteSetTheorems,
        WellFoundedInduction, TLAPS

-----------------------------------------------------------------------------
(* The Programmer.  What a rule compiles to (RuleKeys) is never unfolded:  *)
(* its results hold for any compilation.                                   *)

\* The byte written into a map is one of the two actions.
LEMMA ActionByteType == \A a : ActionByte(a) \in Actions
BY Zenon DEF ActionByte, Actions

\* The rules of a policy are counted by a natural number.
LEMMA LenNat == ASSUME TypeOK PROVE Len(peng.rules) \in Nat
BY PoliciesAssumption, Zenon DEF TypeOK

-----------------------------------------------------------------------------
\* Before Run the maps are empty.
LEMMA InitInv == PInit => PInv
<1> SUFFICES ASSUME PInit PROVE PInv
  BY Zenon
<1>1. TypeOK
  <2>1. subscribed \in BOOLEAN /\ peng \in Policies
    BY Zenon DEF PInit
  <2>2. rule \in 0..(Len(peng.rules) + 1) /\ failed \in Nat /\ faults \in 0..MaxFaults
    BY <2>1, PoliciesAssumption, MaxFaultsAssumption DEF PInit
  <2> QED
    BY <2>1, <2>2, Zenon DEF PInit, TypeOK
<1>2. NoOrphans /\ ControlInv /\ RecordedInv /\ CleanInv /\ AppliedExactly
  BY Zenon DEF PInit, NoOrphans, ControlInv, RecordedInv, CleanInv, AppliedExactly
<1> QED
  BY <1>1, <1>2, Zenon DEF PInv

-----------------------------------------------------------------------------
\* A round begins: the global default is written, or fails to be.
LEMMA BeginApplyInv == PInv /\ BeginApply => PInv'
<1> SUFFICES ASSUME PInv, BeginApply PROVE PInv'
  BY Zenon
<1> USE DEF PInv
<1>0. /\ pc = "apply" /\ pc' = "rules" /\ rule' = Len(peng.rules) + 1
      /\ todo' = {} /\ prev' = prev /\ peng' = peng /\ new = {} /\ lost' = lost
      /\ RuleIndex' = RuleIndex
  BY Zenon DEF BeginApply, ControlInv, RuleIndex
<1>1. CASE maps' = MapPut(maps, GlobalDefault, ActionByte(EffectiveDefault(peng)))
           /\ new' = {GlobalDefault}
  <2> DEFINE act == ActionByte(EffectiveDefault(peng))
  <2>0. /\ DOMAIN maps' = DOMAIN maps \cup {GlobalDefault}
        /\ maps'[GlobalDefault] = act
        /\ \A x \in DOMAIN maps : x # GlobalDefault => maps'[x] = maps[x]
        /\ act \in Actions
    BY <1>1, ActionByteType, Zenon DEF MapPut
  <2> HIDE DEF act
  <2>1. TypeOK'
    <3>1. \A k \in DOMAIN maps' : maps'[k] \in Actions
      BY <2>0, Zenon DEF TypeOK
    <3> QED
      BY <1>0, <3>1, LenNat, MaxFaultsAssumption DEF BeginApply, TypeOK
  <2>2. NoOrphans' /\ ControlInv' /\ RecordedInv' /\ AppliedExactly'
    BY <1>0, <1>1, <2>0, LenNat
    DEF NoOrphans, ControlInv, RecordedInv, AppliedExactly
  <2>3. \A j \in RuleIndex' : \A k : ~Done(j, k)'
    BY <1>0, LenNat DEF Done, RuleIndex
  <2>4. CleanInv'
    BY <1>0, <1>1, <2>0, <2>3, Zenon
    DEF act, CleanInv, NewInv, ValueInv, DesiredKeys
  <2> QED
    BY <2>1, <2>2, <2>4, Zenon
<1>2. CASE maps' = maps /\ new' = {} /\ failed' = 1
  <2>1. TypeOK'
    BY <1>0, <1>2, LenNat, MaxFaultsAssumption DEF BeginApply, TypeOK
  <2>2. NoOrphans' /\ ControlInv' /\ RecordedInv' /\ CleanInv' /\ AppliedExactly'
    BY <1>0, <1>2, LenNat
    DEF NoOrphans, ControlInv, RecordedInv, AppliedExactly, CleanInv
  <2> QED
    BY <2>1, <2>2, Zenon
<1> QED
  BY <1>1, <1>2, Zenon DEF BeginApply

\* The next rule has its turn.
LEMMA NextRuleInv == PInv /\ NextRule => PInv'
<1> SUFFICES ASSUME PInv, NextRule PROVE PInv'
  BY Zenon
<1> USE DEF PInv
<1>0. /\ pc = "rules" /\ pc' = pc /\ rule > 1 /\ rule' = rule - 1
      /\ todo = {} /\ todo' = KeysOf(rule - 1)
      /\ peng' = peng /\ podsAt' = podsAt /\ maps' = maps /\ new' = new
      /\ prev' = prev /\ failed' = failed /\ lost' = lost
      /\ rule \in Nat /\ rule <= Len(peng.rules) + 1
  BY LenNat DEF NextRule, KeysOf, TypeOK
<1>a. RuleIndex' = RuleIndex /\ \A j : KeysOf(j)' = KeysOf(j)
  BY <1>0, Zenon DEF RuleIndex, KeysOf
<1>b. rule - 1 \in RuleIndex
  BY <1>0, LenNat DEF RuleIndex
<1>1. TypeOK'
  BY <1>0, LenNat DEF NextRule, TypeOK
<1>2. NoOrphans' /\ RecordedInv' /\ AppliedExactly'
  BY <1>0, Zenon DEF NoOrphans, RecordedInv, AppliedExactly
<1>3. ControlInv'
  BY <1>0, <1>a, <1>b DEF ControlInv
<1>4. \A j \in RuleIndex : \A k \in KeysOf(j) : Done(j, k)' <=> Done(j, k)
  BY <1>0, <1>b DEF Done, RuleIndex
<1>5. CleanInv'
  <2> SUFFICES ASSUME failed = 0 PROVE NewInv' /\ ValueInv'
    BY <1>0, Zenon DEF CleanInv
  <2>1. NewInv /\ ValueInv
    BY <1>0, Zenon DEF CleanInv
  <2>2. NewInv'
    BY <1>0, <1>a, <1>4, <2>1, Zenon DEF NewInv, DesiredKeys
  <2>3. \A j \in RuleIndex : 1..(j - 1) \subseteq RuleIndex
    BY LenNat DEF RuleIndex
  <2>4. ValueInv'
    BY <1>0, <1>a, <1>4, <2>1, <2>3, Zenon DEF ValueInv
  <2> QED
    BY <2>2, <2>4, Zenon
<1> QED
  BY <1>1, <1>2, <1>3, <1>5, Zenon

\* One key is written and recorded, or its Put fails.
LEMMA PutKeyInv == ASSUME NEW k \in todo PROVE PInv /\ PutKey(k) => PInv'
<1> SUFFICES ASSUME PInv, PutKey(k) PROVE PInv'
  BY Zenon
<1> USE DEF PInv
<1>0. /\ pc = "rules" /\ pc' = pc /\ rule' = rule /\ todo' = todo \ {k}
      /\ peng' = peng /\ podsAt' = podsAt /\ prev' = prev
      /\ enabled' = enabled /\ pods' = pods /\ subscribed' = subscribed
      /\ rule \in RuleIndex /\ k \in KeysOf(rule)
  BY Zenon DEF PutKey, ControlInv
<1>a. RuleIndex' = RuleIndex /\ \A j : KeysOf(j)' = KeysOf(j)
  BY <1>0, Zenon DEF RuleIndex, KeysOf
<1>b. ControlInv'
  BY <1>0, <1>a, Zenon DEF ControlInv
<1>c. AppliedExactly'
  BY <1>0, Zenon DEF AppliedExactly
<1>1. CASE PutOk(k, ActionByte(peng.rules[rule].action))
  <2> DEFINE act == ActionByte(peng.rules[rule].action)
  <2>0. /\ DOMAIN maps' = DOMAIN maps \cup {k}
        /\ maps'[k] = act
        /\ \A x \in DOMAIN maps : x # k => maps'[x] = maps[x]
        /\ act \in Actions
        /\ new' = new \cup {k} /\ failed' = failed /\ faults' = faults
        /\ lost' = lost \ {k}
    BY <1>1, ActionByteType, Zenon DEF PutOk, MapPut
  <2>1. TypeOK'
    BY <1>0, <2>0, Zenon DEF TypeOK
  <2>2. NoOrphans' /\ RecordedInv'
    BY <1>0, <2>0, Zenon DEF NoOrphans, RecordedInv
  <2>3. CleanInv'
    <3> SUFFICES ASSUME failed = 0 PROVE NewInv' /\ ValueInv'
      BY <2>0, Zenon DEF CleanInv
    <3>1. NewInv /\ ValueInv
      BY <1>0, Zenon DEF CleanInv
    <3>2. \A j \in RuleIndex : \A x : Done(j, x)' <=> Done(j, x) \/ (j = rule /\ x = k)
      BY <1>0, Zenon DEF Done, RuleIndex
    <3>3. NewInv'
      <4>1. new' \subseteq DesiredKeys(peng, podsAt)
        BY <1>0, <2>0, <3>1, Zenon DEF NewInv, DesiredKeys, KeysOf, RuleIndex
      <4>2. GlobalDefault \in new'
        BY <2>0, <3>1, Zenon DEF NewInv
      <4>3. \A j \in RuleIndex : \A x \in KeysOf(j) : Done(j, x)' => x \in new'
        BY <2>0, <3>1, <3>2, Zenon DEF NewInv
      <4>4. DesiredKeys(peng, podsAt)' = DesiredKeys(peng, podsAt)
        BY <1>0, Zenon DEF DesiredKeys
      <4> QED
        BY <1>a, <4>1, <4>2, <4>3, <4>4, Zenon DEF NewInv
    <3>4. ASSUME NEW j \in RuleIndex, NEW x \in KeysOf(j), Done(j, x)',
                 \A i \in 1..(j - 1) : x \in KeysOf(i) => ~Done(i, x)'
          PROVE  maps'[x] = ActionByte(peng.rules[j].action)
      <4>1. CASE x = k
        <5>1. j = rule
          BY <1>0, <3>2, <3>4, <4>1 DEF Done, RuleIndex
        <5> QED
          BY <2>0, <4>1, <5>1, Zenon
      <4>2. CASE x # k
        <5>1. Done(j, x) /\ \A i \in 1..(j - 1) : x \in KeysOf(i) => ~Done(i, x)
          BY <3>2, <3>4, <4>2, LenNat DEF RuleIndex
        <5>2. x \in DOMAIN maps
          BY <3>1, <5>1, Zenon DEF NewInv, RecordedInv
        <5> QED
          BY <2>0, <3>1, <4>2, <5>1, <5>2, Zenon DEF ValueInv
      <4> QED
        BY <4>1, <4>2, Zenon
    <3>5. ASSUME \A j \in RuleIndex : GlobalDefault \in KeysOf(j)
                                        => ~Done(j, GlobalDefault)'
          PROVE  maps'[GlobalDefault] = ActionByte(EffectiveDefault(peng))
      <4>1. GlobalDefault # k
        BY <1>0, <3>2, <3>5, Zenon
      <4>2. GlobalDefault \in DOMAIN maps
        BY <3>1, Zenon DEF NewInv, RecordedInv
      <4> QED
        BY <2>0, <3>1, <3>2, <3>5, <4>1, <4>2, Zenon DEF ValueInv
    <3>6. ValueInv'
      BY <1>0, <1>a, <3>4, <3>5, Zenon DEF ValueInv
    <3> QED
      BY <3>3, <3>6, Zenon
  <2> QED
    BY <1>b, <1>c, <2>1, <2>2, <2>3, Zenon
<1>2. CASE PutFails
  <2>1. TypeOK'
    BY <1>0, <1>2, MaxFaultsAssumption DEF PutFails, TypeOK
  <2>2. failed' # 0
    BY <1>2 DEF PutFails, TypeOK
  <2>3. NoOrphans' /\ RecordedInv' /\ CleanInv'
    BY <1>0, <1>2, <2>2, Zenon DEF PutFails, NoOrphans, RecordedInv, CleanInv
  <2> QED
    BY <1>b, <1>c, <2>1, <2>3, Zenon
<1> QED
  BY <1>1, <1>2, Zenon DEF PutKey

\* All rules have had their turn: what is recorded is what is desired.
LEMMA BeginReconcileInv == PInv /\ BeginReconcile => PInv'
<1> SUFFICES ASSUME PInv, BeginReconcile PROVE PInv'
  BY Zenon
<1> USE DEF PInv
<1>0. /\ pc = "rules" /\ pc' = "reconcile" /\ todo = {} /\ rule = 1 /\ rule' = 0
      /\ todo' = prev \ (new \cup {GlobalDefault})
      /\ maps' = maps /\ peng' = peng /\ podsAt' = podsAt /\ new' = new
      /\ prev' = prev /\ failed' = failed /\ lost' = lost
  BY Zenon DEF BeginReconcile
<1>1. TypeOK'
  BY <1>0, LenNat DEF BeginReconcile, TypeOK
<1>2. NoOrphans' /\ ControlInv' /\ RecordedInv' /\ AppliedExactly'
  BY <1>0, Zenon DEF NoOrphans, ControlInv, RecordedInv, AppliedExactly
<1>3. /\ RuleIndex' = RuleIndex /\ \A j : KeysOf(j)' = KeysOf(j)
      /\ \A j \in RuleIndex : \A k : Done(j, k) /\ Done(j, k)'
      /\ \A j \in RuleIndex : 1..(j - 1) \subseteq RuleIndex
  BY <1>0, LenNat, SMTT(30) DEF Done, RuleIndex, KeysOf
<1>4. CleanInv'
  BY <1>0, <1>3, Zenon DEF CleanInv, NewInv, ValueInv, DesiredKeys
<1> QED
  BY <1>1, <1>2, <1>4, Zenon

\* One leftover is deleted, or its Delete fails.
LEMMA DeleteKeyInv == ASSUME NEW k \in todo PROVE PInv /\ DeleteKey(k) => PInv'
<1> SUFFICES ASSUME PInv, DeleteKey(k) PROVE PInv'
  BY Zenon
<1> USE DEF PInv
<1>0. /\ pc = "reconcile" /\ pc' = pc /\ todo' = todo \ {k} /\ rule' = rule
      /\ peng' = peng /\ podsAt' = podsAt /\ new' = new /\ prev' = prev
      /\ failed' = failed /\ rule = 0
      /\ k \notin new /\ k # GlobalDefault
  BY Zenon DEF DeleteKey, ControlInv
<1>a. /\ \/ DOMAIN maps' = DOMAIN maps \ {k} /\ lost' = lost
         \/ DOMAIN maps' = DOMAIN maps /\ lost' = lost \cup {k}
      /\ \A x \in DOMAIN maps : x # k => maps'[x] = maps[x]
      /\ \A x \in DOMAIN maps' : maps'[x] = maps[x]
      /\ faults' \in 0..MaxFaults
  BY MaxFaultsAssumption DEF DeleteKey, MapDelete, TypeOK
<1>1. TypeOK'
  BY <1>0, <1>a, Zenon DEF DeleteKey, TypeOK
<1>2. NoOrphans' /\ ControlInv' /\ RecordedInv' /\ AppliedExactly'
  BY <1>0, <1>a, Zenon DEF NoOrphans, ControlInv, RecordedInv, AppliedExactly
<1>3. /\ RuleIndex' = RuleIndex /\ \A j : KeysOf(j)' = KeysOf(j)
      /\ \A j \in RuleIndex : \A x : Done(j, x) /\ Done(j, x)'
      /\ \A j \in RuleIndex : 1..(j - 1) \subseteq RuleIndex
  BY <1>0, LenNat DEF Done, RuleIndex, KeysOf
<1>4. CleanInv'
  <2> SUFFICES ASSUME failed = 0 PROVE NewInv' /\ ValueInv'
    BY <1>0, Zenon DEF CleanInv
  <2>1. NewInv /\ ValueInv
    BY <1>0, Zenon DEF CleanInv
  <2>2. NewInv'
    BY <1>0, <1>3, <2>1, Zenon DEF NewInv, DesiredKeys
  <2>3. \A x \in new : maps'[x] = maps[x]
    BY <1>0, <1>a, Zenon DEF RecordedInv
  <2>4. ValueInv'
    BY <1>0, <1>3, <2>1, <2>3, Zenon DEF ValueInv, NewInv
  <2> QED
    BY <2>2, <2>4, Zenon
<1> QED
  BY <1>1, <1>2, <1>4, Zenon

\* The new key set becomes the recorded one.
LEMMA EndApplyInv == PInv /\ EndApply => PInv'
<1> SUFFICES ASSUME PInv, EndApply PROVE PInv'
  BY Zenon
<1> USE DEF PInv
<1>0. /\ pc = "reconcile" /\ pc' = "idle" /\ todo = {} /\ todo' = {}
      /\ rule = 0 /\ rule' = 0 /\ prev' = new /\ new' = {}
      /\ maps' = maps /\ peng' = peng /\ podsAt' = podsAt /\ failed' = failed
      /\ lost' = lost
  BY Zenon DEF EndApply, ControlInv
<1>1. TypeOK'
  BY <1>0, Zenon DEF EndApply, TypeOK
<1>2. NoOrphans' /\ ControlInv' /\ RecordedInv' /\ CleanInv'
  BY <1>0, Zenon DEF NoOrphans, ControlInv, RecordedInv, CleanInv
<1>3. AppliedExactly'
  <2> SUFFICES ASSUME failed = 0 PROVE Realizes(Known, peng, podsAt)
    BY <1>0, Zenon DEF AppliedExactly, Known
  <2>1. NewInv /\ ValueInv
    BY <1>0, Zenon DEF CleanInv
  <2>2. /\ \A j \in RuleIndex : \A x : Done(j, x)
        /\ \A j \in RuleIndex : 1..(j - 1) \subseteq RuleIndex
    BY <1>0, LenNat DEF Done, RuleIndex
  <2>3. DesiredKeys(peng, podsAt) \subseteq new
    BY <2>1, <2>2, Zenon DEF NewInv, DesiredKeys, KeysOf, RuleIndex
  <2>4. DOMAIN Known = DesiredKeys(peng, podsAt)
    BY <1>0, <2>1, <2>3, Zenon DEF NewInv, RecordedInv, Known
  <2>5. \A x \in DesiredKeys(peng, podsAt) : Known[x] = maps[x]
    BY <2>4, Zenon DEF Known
  <2>6. /\ GlobalDefault \in DesiredKeys(peng, podsAt)
        /\ \A j \in RuleIndex : KeysOf(j) \subseteq DesiredKeys(peng, podsAt)
    BY Zenon DEF DesiredKeys, KeysOf, RuleIndex
  <2> QED
    BY <2>1, <2>2, <2>4, <2>5, <2>6, Zenon DEF Realizes, ValueInv, RuleIndex, KeysOf
<1> QED
  BY <1>1, <1>2, <1>3, Zenon

\* The actions that leave the maps and the bookkeeping alone.
LEMMA OtherInv ==
  ASSUME PInv,
         \/ Start \/ Subscribe \/ Rewalk \/ Stop
         \/ \E p \in Policies : Snapshot(p) \/ Receive(p)
         \/ \E t \in PodTables : PodsChange(t)
         \/ UNCHANGED mpvars
  PROVE  PInv'
<1> USE DEF PInv
<1>1. /\ maps' = maps /\ new' = new /\ prev' = prev /\ todo' = todo
      /\ rule' = rule /\ podsAt' = podsAt /\ failed' = failed
      /\ faults' = faults /\ lost' = lost
      /\ \/ pc' = pc /\ peng' = peng
         \/ /\ pc \notin {"rules", "reconcile"}
            /\ pc' \notin {"rules", "reconcile", "idle"}
  BY Zenon DEF Start, Snapshot, Subscribe, Rewalk, Stop, Receive, PodsChange, mpvars, pvars
<1>2. TypeOK'
  <2>1. /\ enabled' \in {0, 1} /\ pods' \in PodTables /\ peng' \in Policies
        /\ pc' \in {"off", "snapshot", "apply", "rules", "reconcile", "idle", "stopped"}
        /\ subscribed' \in BOOLEAN
    BY Zenon DEF Start, Snapshot, Subscribe, Rewalk, Stop, Receive, Disabled, PodsChange,
       mpvars, pvars, TypeOK
  <2>2. rule' \in 0..(Len(peng'.rules) + 1)
    BY <1>1, <2>1, PoliciesAssumption DEF TypeOK, ControlInv
  <2> QED
    BY <1>1, <2>1, <2>2, Zenon DEF TypeOK
<1>3. NoOrphans' /\ RecordedInv' /\ AppliedExactly'
  BY <1>1, Zenon DEF NoOrphans, RecordedInv, AppliedExactly, Known
<1>4. ControlInv'
  BY <1>1, Zenon DEF ControlInv, RuleIndex, KeysOf
<1>5. CleanInv'
  BY <1>1, Zenon DEF CleanInv, NewInv, ValueInv, Done, RuleIndex, KeysOf
<1> QED
  BY <1>2, <1>3, <1>4, <1>5, Zenon

\* Every step of the Programmer and of its environment keeps the inductive
\* invariant.
LEMMA NextInv == PInv /\ [PNext]_mpvars => PInv'
<1> SUFFICES ASSUME PInv, [PNext]_mpvars PROVE PInv'
  BY Zenon
<1>1. CASE Apply
  BY <1>1, BeginApplyInv, NextRuleInv, PutKeyInv, BeginReconcileInv,
     DeleteKeyInv, EndApplyInv, Zenon DEF Apply
<1>2. CASE ~Apply
  BY <1>2, OtherInv, Zenon DEF PNext
<1> QED
  BY <1>1, <1>2, Zenon

\* The inductive invariant holds throughout.
THEOREM InvAlways == PSpec => []PInv
BY InitInv, NextInv, PTL DEF PSpec

\* Type correctness of the Programmer's state.
THEOREM TypeCorrect == PSpec => []TypeOK
<1>1. PInv => TypeOK
  BY Zenon DEF PInv
<1> QED
  BY <1>1, InvAlways, PTL

\* No entry in the kernel's maps is ever lost track of, whatever Puts fail,
\* unless its own Delete failed: reconcile() can still remove it.
THEOREM NeverOrphans == PSpec => []NoOrphans
<1>1. PInv => NoOrphans
  BY Zenon DEF PInv
<1> QED
  BY <1>1, InvAlways, PTL

\* After an apply() without a failed Put the maps hold exactly the entries the
\* policy asks for, each with the action of the first rule that asks for it,
\* besides those whose Delete failed.
THEOREM AppliesExactly == PSpec => []AppliedExactly
<1>1. PInv => AppliedExactly
  BY Zenon DEF PInv
<1> QED
  BY <1>1, InvAlways, PTL

\* Entries both the last round and the present policy ask for stay in the maps
\* while apply() runs.
THEOREM MakesBeforeBreaking == PSpec => []NoGap
<1>1. PInv => NoGap
  <2> SUFFICES ASSUME PInv, failed = 0, pc \in {"rules", "reconcile", "idle"}
               PROVE  prev \cap DesiredKeys(peng, podsAt) \subseteq DOMAIN maps
    BY Zenon DEF NoGap
  <2>1. CASE pc # "reconcile"
    BY <2>1, Zenon DEF PInv, RecordedInv
  <2>2. CASE pc = "reconcile"
    <3>1. NewInv /\ rule = 0
      BY <2>2, Zenon DEF PInv, CleanInv, ControlInv
    <3>2. \A j \in RuleIndex : \A x : Done(j, x)
      BY <3>1 DEF Done, RuleIndex
    <3>3. DesiredKeys(peng, podsAt) \subseteq new
      BY <3>1, <3>2, Zenon DEF NewInv, DesiredKeys, KeysOf, RuleIndex
    <3> QED
      BY <3>3, Zenon DEF PInv, RecordedInv
  <2> QED
    BY <2>1, <2>2, Zenon
<1> QED
  BY <1>1, InvAlways, PTL

-----------------------------------------------------------------------------
\* A round that finds everything in place writes what is there and deletes
\* nothing.
LEMMA RewalkStep ==
  ASSUME PInv, [PNext]_mpvars, AllHonoured(peng, podsAt),
         peng' = peng, podsAt' = podsAt, failed' = 0
  PROVE  Known' = Known
<1>0. /\ DOMAIN Known = DOMAIN maps \ lost
      /\ \A x \in DOMAIN Known : Known[x] = maps[x]
      /\ DOMAIN Known = DesiredKeys(peng, podsAt)
  BY Zenon DEF Known, AllHonoured
<1>1. CASE BeginApply
  <2>1. /\ maps' = MapPut(maps, GlobalDefault, ActionByte(EffectiveDefault(peng)))
        /\ lost' = lost
    BY <1>1 DEF BeginApply
  <2>2. /\ GlobalDefault \in DOMAIN Known
        /\ maps[GlobalDefault] = ActionByte(EffectiveDefault(peng))
    BY <1>0, Zenon DEF AllHonoured, DesiredKeys
  <2> QED
    BY <1>0, <2>1, <2>2, Zenon DEF Known, MapPut
<1>2. CASE \E k \in todo : PutKey(k)
  <2>1. PICK k \in todo : PutKey(k)
    BY <1>2, Zenon
  <2>2. PutOk(k, ActionByte(peng.rules[rule].action))
    BY <2>1, SMTT(30) DEF PutKey, PutFails, PInv, TypeOK
  <2>3. rule \in 1..Len(peng.rules) /\ k \in RuleKeys(peng, podsAt, rule)
    BY <2>1, Zenon DEF PutKey, PInv, ControlInv, RuleIndex, KeysOf
  <2>4. /\ k \in DOMAIN Known
        /\ maps[k] = ActionByte(peng.rules[rule].action)
    BY <1>0, <2>3, Zenon DEF AllHonoured, DesiredKeys
  <2> QED
    BY <1>0, <2>2, <2>4, Zenon DEF PutOk, Known, MapPut
<1>3. CASE \E k \in todo : DeleteKey(k)
  <2>1. PICK k \in todo : DeleteKey(k)
    BY <1>3, Zenon
  <2>2. NewInv /\ rule = 0 /\ k \notin new
    BY <2>1, Zenon DEF DeleteKey, PInv, CleanInv, ControlInv
  <2>3. \A j \in RuleIndex : \A x : Done(j, x)
    BY <2>2 DEF Done, RuleIndex
  <2>4. DesiredKeys(peng, podsAt) \subseteq new
    BY <2>2, <2>3, Zenon DEF NewInv, DesiredKeys, KeysOf, RuleIndex
  <2>5. k \notin DOMAIN Known
    BY <1>0, <2>2, <2>4, Zenon
  <2> QED
    BY <1>0, <2>1, <2>5, Zenon DEF DeleteKey, Known, MapDelete
<1>4. CASE maps' = maps /\ lost' = lost
  BY <1>4, Zenon DEF Known
<1> QED
  BY <1>1, <1>2, <1>3, <1>4, Zenon
  DEF PNext, Apply, Start, Snapshot, Subscribe, NextRule, BeginReconcile, EndApply,
      Rewalk, Stop, Receive, PodsChange, mpvars, pvars

\* While policy and pods stay as they are and no rules contend for a key, apply()
\* changes no verdict at any of its steps.
THEOREM RewalkNeverSeen == PSpec => RewalkIsInvisible
<1>1. PInv /\ [PNext]_mpvars
        => [/\ AllHonoured(peng, podsAt)
            /\ peng' = peng /\ podsAt' = podsAt /\ failed' = 0
            => Known' = Known]_mpvars
  BY RewalkStep, Zenon
<1> QED
  BY <1>1, InvAlways, PTL DEF PSpec, RewalkIsInvisible

-----------------------------------------------------------------------------
(* The hooks and the event reader.                                         *)

\* The events that the hooks may leave.
Events ==
  {EventOf(kind, s, p, act) : kind \in {"dns", "connect", "tls", "http"},
     s \in Sockets, p \in Payloads \cup {NoPayload}, act \in Actions}
  \cup {emit_connect_deny(s) : s \in Sockets}

DTypeOK ==
  /\ mode \in [enforcing : BOOLEAN, dry : {0, 1}]
  /\ maps \in MapStates
  /\ eng \in Policies
  /\ ring \in Seq(Events) /\ Len(ring) <= RingSize

\* Unless it is being thrown, the switch is off or on with the agent's dry-run flag;
\* outside enforce mode it is never touched.
SwitchInv ==
  LET On == [enabled |-> 1, dry |-> mode.dry]
  IN  /\ writing = NoCfg => cfg \in {Off, On}
      /\ writing # NoCfg => writing \in {Off, On} /\ mode.enforcing
      /\ ~mode.enforcing => cfg = Off

\* A hook that is not torn has found the switch on, and it is on still.
TornInv ==
  /\ torn \subseteq inside
  /\ \A s \in inside \ torn : writing = NoCfg /\ cfg.enabled = 1

DInv ==
  /\ DTypeOK /\ SwitchInv /\ TornInv
  /\ LoggedFaithfully /\ HarmlessUnlessEnforcing

-----------------------------------------------------------------------------
\* The lookup gives one of the two actions.
LEMMA VerdictIsAction ==
  ASSUME NEW m, \A k \in DOMAIN m : m[k] \in Actions, NEW cg, NEW ip, NEW port
  PROVE  verdict_for(m, cg, ip, port) \in Actions
<1> DEFINE order == LookupOrder(m, cg, ip, port)
           I == {i \in 1..Len(order) : order[i] \in DOMAIN m}
<1>1. Len(order) = 8
  BY Zenon DEF LookupOrder
<1>2. ASSUME I # {} PROVE FirstOf(I) \in I
  <2>1. \E x \in I : \A y \in I : x <= y
    <3> HIDE DEF order
    <3>1. I \subseteq 1..8
      BY <1>1, Zenon
    <3> HIDE DEF I
    <3> DEFINE R == {ss \in Nat \X Nat : ss[1] < ss[2]}
    <3>2. IsWellFoundedOn(R, Nat)
      BY NatLessThanWellFounded, Zenon DEF OpToRel
    <3>3. PICK x \in I : \A y \in I : <<y, x>> \notin R
      <4>1. I \subseteq Nat
        BY <3>1, SMTT(30)
      <4> HIDE DEF R
      <4> QED
        BY <1>2, <3>2, <4>1, WFMin, Zenon
    <3> QED
      BY <3>1, <3>3
  <2> HIDE DEF I
  <2> QED
    BY <1>2, <2>1, Zenon DEF FirstOf
<1>3. FirstOf(I) = 0 \/ FirstOf(I) \in I
  BY <1>2, Zenon DEF FirstOf
<1> QED
  BY <1>3, Zenon DEF verdict_for, Actions

\* Either hook gives one of the two actions.
LEMMA VerdictType == ASSUME DTypeOK, NEW s PROVE Verdict(s) \in Actions
BY VerdictIsAction, DatapathAssumption, Zenon DEF DTypeOK, Verdict, Actions

\* A packet's events are events, and carry a verdict.
LEMMA EventsType ==
  ASSUME DTypeOK, NEW s \in Sockets, NEW syn, NEW p \in Payloads
  PROVE  EventsOf(s, syn, p) \in Seq(Events)
<1>1. /\ EventOf("dns", s, p, ActionAllow) \in Events
      /\ EventOf("connect", s, NoPayload, Verdict(s)) \in Events
      /\ p.looks \in {"tls", "http"} => EventOf(p.looks, s, p, Verdict(s)) \in Events
  BY VerdictType DEF Events, Actions
<1> HIDE DEF Events
<1>2. <<EventOf("dns", s, p, ActionAllow)>> \in Seq(Events)
  BY <1>1
<1>3. (IF syn THEN << EventOf("connect", s, NoPayload, Verdict(s)) >> ELSE <<>>) \in Seq(Events)
  BY <1>1
<1>4. (IF p.looks \in {"tls", "http"} THEN << EventOf(p.looks, s, p, Verdict(s)) >>
       ELSE <<>>) \in Seq(Events)
  BY <1>1
<1> QED
  BY <1>2, <1>3, <1>4, ConcatProperties DEF EventsOf

\* What is submitted is put into the ring as far as there is room.
LEMMA SubmitType ==
  ASSUME DTypeOK, NEW es \in Seq(Events), submit_event(es)
  PROVE  ring' \in Seq(Events) /\ Len(ring') <= RingSize
<1> DEFINE room == RingSize - Len(ring)
           n == IF room < Len(es) THEN room ELSE Len(es)
<1> HIDE DEF Events
<1>1. n \in 0..Len(es) /\ n <= room /\ Len(ring) \in Nat /\ room \in Nat
  BY DatapathAssumption, LenProperties DEF DTypeOK
<1>2. ring' = ring \o SubSeq(es, 1, n)
  BY Zenon DEF submit_event
<1> HIDE DEF n, room
<1>3. SubSeq(es, 1, n) \in Seq(Events) /\ Len(SubSeq(es, 1, n)) = n
  BY <1>1, SubSeqProperties
<1>4. ring' \in Seq(Events) /\ Len(ring') = Len(ring) + n
  BY <1>1, <1>2, <1>3, ConcatProperties, Zenon DEF DTypeOK
<1> QED
  BY <1>1, <1>4, DatapathAssumption DEF room

\* Where there is no enforcement, or a dry run, every verdict of a hook that is not
\* torn passes.
LEMMA Harmless ==
  ASSUME SwitchInv, TornInv, ~mode.enforcing \/ mode.dry = 1,
         NEW s, s \notin torn, NEW act, s \notin inside => act = ActionAllow
  PROVE  verdict_pass(act)
<1>1. CASE s \notin inside
  BY <1>1, Zenon DEF verdict_pass, ActionAllow, ActionDeny
<1>2. CASE s \in inside
  <2>1. writing = NoCfg /\ cfg.enabled = 1
    BY <1>2, Zenon DEF TornInv
  <2>2. cfg = [enabled |-> 1, dry |-> mode.dry] /\ mode.enforcing
    BY <2>1 DEF SwitchInv, Off
  <2> QED
    BY <2>2, Zenon DEF verdict_pass
<1> QED
  BY <1>1, <1>2, Zenon

-----------------------------------------------------------------------------
\* Nothing has been sent in the beginning.
LEMMA DInvInit == Init => DInv
BY DatapathAssumption
   DEF Init, DInv, DTypeOK, SwitchInv, TornInv, LoggedFaithfully,
       HarmlessUnlessEnforcing, Nothing

\* A hook returns, having passed or not.
LEMMA HookReturns ==
  ASSUME DInv, NEW s \in Sockets, NEW pass, Leaves(s, pass),
         NEW act, s \notin inside => act = ActionAllow, verdict_pass(act) => pass,
         NEW es \in Seq(Events), submit_event(es),
         UNCHANGED <<mode, maps, cvars, uvars>>
  PROVE  DInv'
<1>0. DTypeOK /\ SwitchInv /\ TornInv /\ LoggedFaithfully /\ HarmlessUnlessEnforcing
  BY Zenon DEF DInv
<1>1. UNCHANGED <<mode, maps, cfg, writing, eng, out>>
  BY Zenon DEF cvars, uvars
<1>2. DTypeOK'
  <2> HIDE DEF Events
  <2> QED
    BY <1>0, <1>1, SubmitType, Zenon DEF DTypeOK
<1>3. SwitchInv' /\ LoggedFaithfully'
  BY <1>0, <1>1, Zenon DEF SwitchInv, LoggedFaithfully
<1>4. TornInv'
  BY <1>0, <1>1, Zenon DEF TornInv, Leaves
<1>5. HarmlessUnlessEnforcing'
  BY <1>0, <1>1, Harmless, Zenon DEF HarmlessUnlessEnforcing, Leaves
<1> QED
  BY <1>2, <1>3, <1>4, <1>5, Zenon DEF DInv

\* What connect4 submits are events.
LEMMA DenyType ==
  ASSUME NEW s \in Sockets, NEW deny \in BOOLEAN
  PROVE  (IF deny THEN << emit_connect_deny(s) >> ELSE <<>>) \in Seq(Events)
<1>1. emit_connect_deny(s) \in Events
  BY DEF Events
<1> HIDE DEF Events
<1> QED
  BY <1>1

\* connect4 refuses a socket or lets it through.
LEMMA ConnectStep == ASSUME DInv, NEW s \in Sockets, connect4(s) PROVE DInv'
<1> DEFINE deny == ConnectVerdict(s) = ActionDeny
           es == IF deny THEN << emit_connect_deny(s) >> ELSE <<>>
<1>1. /\ submit_event(es) /\ Leaves(s, verdict_pass(ConnectVerdict(s)))
      /\ UNCHANGED <<mode, maps, cvars, uvars>>
  BY Zenon DEF connect4
<1>2. es \in Seq(Events)
  BY DenyType, Zenon
<1>3. s \notin inside => ConnectVerdict(s) = ActionAllow
  BY Zenon DEF ConnectVerdict
<1> HIDE DEF es, Events
<1> QED
  BY <1>1, <1>2, <1>3, HookReturns, Zenon

\* egress drops a packet or lets it through.
LEMMA EgressStep ==
  ASSUME DInv, NEW s \in Sockets, NEW syn \in BOOLEAN, NEW p \in Payloads, egress(s, syn, p)
  PROVE  DInv'
<1>1. /\ submit_event(EventsOf(s, syn, p)) /\ Leaves(s, PacketPasses(s))
      /\ UNCHANGED <<mode, maps, cvars, uvars>>
  BY Zenon DEF egress
<1>2. EventsOf(s, syn, p) \in Seq(Events)
  BY EventsType, Zenon DEF DInv
<1>3. s \notin inside => Verdict(s) = ActionAllow
  BY Zenon DEF Verdict
<1>4. verdict_pass(Verdict(s)) => PacketPasses(s)
  BY Zenon DEF PacketPasses
<1> HIDE DEF Events
<1> QED
  BY <1>1, <1>2, <1>3, <1>4, HookReturns, Zenon

\* A hook loads `enabled`, or the maps change.
LEMMA LoadStep ==
  ASSUME DInv, (\E s \in Sockets : enforce_enabled(s)) \/ (\E m \in MapStates : ChangeMaps(m))
  PROVE  DInv'
<1>0. DTypeOK /\ SwitchInv /\ TornInv /\ LoggedFaithfully /\ HarmlessUnlessEnforcing
  BY Zenon DEF DInv
<1>1. /\ maps' \in MapStates
      /\ UNCHANGED <<mode, cfg, writing, ring, eng, out, blocked>>
      /\ \/ UNCHANGED <<inside, torn>>
         \/ /\ cfg.enabled = 1
            /\ \E s : /\ inside' = inside \cup {s}
                      /\ torn' = IF writing = NoCfg THEN torn ELSE torn \cup {s}
  BY <1>0, Zenon DEF enforce_enabled, ChangeMaps, cvars, uvars, DTypeOK
<1>2. DTypeOK'
  <2> HIDE DEF Events
  <2> QED
    BY <1>0, <1>1, Zenon DEF DTypeOK
<1>3. SwitchInv' /\ LoggedFaithfully' /\ HarmlessUnlessEnforcing'
  BY <1>0, <1>1, Zenon DEF SwitchInv, LoggedFaithfully, HarmlessUnlessEnforcing
<1>4. TornInv'
  BY <1>0, <1>1, Zenon DEF TornInv
<1> QED
  BY <1>2, <1>3, <1>4, Zenon DEF DInv

\* The switch is being thrown: whoever is inside is torn; then it is on or off.
LEMMA SwitchStep ==
  ASSUME DInv, (\E byte \in {"enabled", "dry"} : Switch(byte)) \/ Switched PROVE DInv'
<1>0. DTypeOK /\ SwitchInv /\ TornInv /\ LoggedFaithfully /\ HarmlessUnlessEnforcing
  BY Zenon DEF DInv
<1>1. UNCHANGED <<mode, maps, inside, ring, eng, out, blocked>>
  BY Zenon DEF Switch, Switched, uvars
<1>2. \/ /\ writing' \in {Off, [enabled |-> 1, dry |-> mode.dry]}
         /\ mode.enforcing /\ torn' = inside
      \/ /\ writing # NoCfg /\ cfg' = writing /\ writing' = NoCfg /\ torn' = torn
  BY Zenon DEF Switch, Switched
<1>3. /\ Off # NoCfg /\ [enabled |-> 1, dry |-> mode.dry] # NoCfg
  BY DEF Off, NoCfg
<1>4. DTypeOK'
  <2> HIDE DEF Events
  <2> QED
    BY <1>0, <1>1, Zenon DEF DTypeOK
<1>5. SwitchInv' /\ TornInv'
  BY <1>0, <1>1, <1>2, <1>3, Zenon DEF SwitchInv, TornInv
<1>6. LoggedFaithfully' /\ HarmlessUnlessEnforcing'
  BY <1>0, <1>1, Zenon DEF LoggedFaithfully, HarmlessUnlessEnforcing
<1> QED
  BY <1>4, <1>5, <1>6, Zenon DEF DInv

\* What the sink makes of an event: the kernel's verdict in enforce mode, and a
\* rule of the engine it has now.
LEMMA AnnotatedTruly ==
  ASSUME DTypeOK, NEW e \in Events
  PROVE  LET a == Annotated(e)
         IN  /\ a.of = e
             /\ a # Nothing
             /\ a.kind # "dns" =>
                  /\ mode.enforcing => a.action = e.action
                  /\ a.rule # 0 => /\ FirstMatch(eng, flowFromEvent(e)) = a.rule
                                   /\ eng.rules[a.rule].action = a.action
<1>1. e.action \in Actions /\ e.kind # "none"
  <2>1. ASSUME NEW s \in Sockets
        PROVE  \E t, p : emit_connect_deny(s) = EventOf("connect", t, p, ActionDeny)
    <3> DEFINE t == [src |-> 0, cgroup |-> s.task, addr |-> s.user_ip4,
                     port |-> s.user_port]
    <3>1. emit_connect_deny(s) = EventOf("connect", t, NoPayload, ActionDeny)
      BY Zenon DEF emit_connect_deny
    <3> HIDE DEF t
    <3> QED
      BY <3>1, Zenon
  <2>2. \E kind \in {"dns", "connect", "tls", "http"}, act \in Actions :
          \E t, p : e = EventOf(kind, t, p, act)
    BY <2>1 DEF Events, Actions
  <2> QED
    BY <2>2 DEF EventOf
<1>2. e.action # ""
  BY <1>1, Zenon DEF Actions, ActionAllow, ActionDeny
<1> QED
  BY <1>1, <1>2, Zenon DEF Annotated, Nothing, Evaluate

\* The reader takes an event and logs it, or not.
LEMMA ReaderStep == ASSUME DInv, handleEvent PROVE DInv'
<1>0. DTypeOK /\ SwitchInv /\ TornInv /\ LoggedFaithfully /\ HarmlessUnlessEnforcing
  BY Zenon DEF DInv
<1>1. /\ ring # <<>> /\ ring' = Tail(ring)
      /\ out' = Annotated(Head(ring)) \/ out' = out
      /\ UNCHANGED <<mode, maps, cfg, writing, inside, torn, blocked, eng>>
  BY Zenon DEF handleEvent, kvars, cvars
<1>2. Head(ring) \in Events /\ Tail(ring) \in Seq(Events) /\ Len(Tail(ring)) <= RingSize
  <2> HIDE DEF Events
  <2> QED
    BY <1>0, <1>1, HeadTailProperties, DatapathAssumption DEF DTypeOK
<1>3. DTypeOK'
  <2> HIDE DEF Events
  <2> QED
    BY <1>0, <1>1, <1>2, Zenon DEF DTypeOK
<1>4. SwitchInv' /\ TornInv' /\ HarmlessUnlessEnforcing'
  BY <1>0, <1>1, Zenon DEF SwitchInv, TornInv, HarmlessUnlessEnforcing
<1>5. LoggedFaithfully'
  <2>1. CASE out' = out
    BY <1>0, <1>1, <2>1, Zenon DEF LoggedFaithfully
  <2>2. CASE out' = Annotated(Head(ring))
    <3>1. /\ out'.of = Head(ring)
          /\ out'.kind # "dns" =>
               /\ mode.enforcing => out'.action = Head(ring).action
               /\ out'.rule # 0 => /\ FirstMatch(eng, flowFromEvent(Head(ring))) = out'.rule
                                   /\ eng.rules[out'.rule].action = out'.action
      BY <1>0, <1>2, <2>2, AnnotatedTruly, Zenon
    <3> QED
      BY <1>0, <1>1, <3>1, Zenon DEF LoggedFaithfully, DTypeOK
  <2> QED
    BY <1>1, <2>1, <2>2, Zenon
<1> QED
  BY <1>3, <1>4, <1>5, Zenon DEF DInv

\* The sink gets another engine.
LEMMA EngineStep == ASSUME DInv, NEW p \in Policies, SetEngine(p) PROVE DInv'
<1>1. eng' \in Policies
      /\ UNCHANGED <<mode, maps, cfg, writing, inside, torn, blocked, out, ring>>
  BY Zenon DEF SetEngine, kvars, cvars
<1>2. DTypeOK'
  <2> HIDE DEF Events
  <2> QED
    BY <1>1, Zenon DEF DInv, DTypeOK
<1>3. SwitchInv' /\ TornInv' /\ LoggedFaithfully' /\ HarmlessUnlessEnforcing'
  BY <1>1, Zenon DEF DInv, SwitchInv, TornInv, LoggedFaithfully, HarmlessUnlessEnforcing
<1> QED
  BY <1>2, <1>3, Zenon DEF DInv

\* Every step preserves the invariant.
LEMMA DInvNext == DInv /\ [Next]_vars => DInv'
<1> SUFFICES ASSUME DInv, [Next]_vars PROVE DInv'
  BY Zenon
<1>1. CASE Next
  BY <1>1, ConnectStep, EgressStep, LoadStep, SwitchStep, ReaderStep, EngineStep, Zenon
     DEF Next
<1>2. CASE UNCHANGED vars
  BY <1>2, Zenon DEF vars, kvars, cvars, uvars, DInv, DTypeOK, SwitchInv, TornInv,
     LoggedFaithfully, HarmlessUnlessEnforcing
<1> QED
  BY <1>1, <1>2, Zenon

\* The inductive invariant of the datapath holds always.
THEOREM DInvAlways == Spec => []DInv
BY DInvInit, DInvNext, PTL DEF Spec

\* What is logged is what the kernel did, and a rule some engine had for it.
THEOREM LogsFaithfully == Spec => []LoggedFaithfully
<1>1. DInv => LoggedFaithfully
  BY Zenon DEF DInv
<1> QED
  BY <1>1, DInvAlways, PTL

\* Nothing is refused or dropped in a dry run or outside enforce mode, except by a
\* hook that is running while the switch is thrown.
THEOREM HarmlessAlways == Spec => []HarmlessUnlessEnforcing
<1>1. DInv => HarmlessUnlessEnforcing
  BY Zenon DEF DInv
<1> QED
  BY <1>1, DInvAlways, PTL

-----------------------------------------------------------------------------
(* Denials are counted.                                                    *)

\* The counters count, and every denial is in one of them or in the ring buffer.
AccountInv ==
  /\ denials \in Nat /\ overrun \in Nat /\ shown \in Nat /\ skipped \in Nat
  /\ DenialsAccounted

\* Counting the denials of two sequences one after the other.
LEMMA DenialsConcat ==
  ASSUME NEW S, NEW s \in Seq(S), NEW t \in Seq(S)
  PROVE  /\ Denials(s) \in Nat /\ Denials(t) \in Nat
         /\ Denials(s \o t) = Denials(s) + Denials(t)
<1> DEFINE D(u) == {i \in DOMAIN u : IsDenial(u[i])}
           n == Len(s)
           T == {i \in (n + 1)..(n + Len(t)) : IsDenial(t[i - n])}
<1>1. n \in Nat /\ Len(t) \in Nat /\ DOMAIN s = 1..n /\ DOMAIN t = 1..Len(t)
  BY LenProperties, Zenon
<1>2. D(s \o t) = D(s) \cup T /\ D(s) \cap T = {}
  <2>1. /\ DOMAIN (s \o t) = 1..(n + Len(t))
        /\ \A i \in 1..(n + Len(t)) : (s \o t)[i] = IF i <= n THEN s[i] ELSE t[i - n]
    BY ConcatProperties, LenProperties
  <2> QED
    BY <1>1, <2>1
<1>3. IsFiniteSet(D(s)) /\ IsFiniteSet(D(t)) /\ IsFiniteSet(T)
  <2>1. IsFiniteSet(1..n) /\ IsFiniteSet(1..Len(t)) /\ IsFiniteSet((n + 1)..(n + Len(t)))
    BY <1>1, FS_Interval, SMTT(30)
  <2>2. D(s) \subseteq 1..n /\ D(t) \subseteq 1..Len(t) /\ T \subseteq (n + 1)..(n + Len(t))
    BY <1>1, Zenon
  <2> HIDE DEF D, T
  <2> QED
    BY <2>1, <2>2, FS_Subset, Zenon
<1>4. Cardinality(T) = Cardinality(D(t))
  <2> DEFINE f == [i \in D(t) |-> i + n]
  <2>1. \A i \in D(t) : i \in 1..Len(t) /\ IsDenial(t[i]) /\ i + n \in T /\ f[i] = i + n
    BY <1>1
  <2>2. \A j \in T : j - n \in D(t) /\ (j - n) + n = j
    BY <1>1
  <2>3. f \in [D(t) -> T]
    BY <2>1, Zenon
  <2>4. \A i, j \in D(t) : f[i] = f[j] => i = j
    BY <1>1, <2>1, SMTT(30)
  <2>5. \A j \in T : \E i \in D(t) : f[i] = j
    BY <2>1, <2>2, Zenon
  <2> HIDE DEF f, D, T
  <2>6. f \in Bijection(D(t), T)
    BY <2>3, <2>4, <2>5, Zenon DEF Bijection, Injection, Surjection, IsInjective
  <2> QED
    BY <1>3, <2>6, FS_Bijection, Zenon DEF ExistsBijection
<1>5. Denials(s \o t) = Cardinality(D(s) \cup T) /\ Denials(s) = Cardinality(D(s))
      /\ Denials(t) = Cardinality(D(t))
  BY <1>2, Zenon DEF Denials
<1> HIDE DEF D, T
<1>6. Cardinality(D(s) \cup T) = Cardinality(D(s)) + Cardinality(T)
  <2>1. Cardinality(D(s) \cup T)
          = Cardinality(D(s)) + Cardinality(T) - Cardinality(D(s) \cap T)
    BY <1>3, FS_Union, Zenon
  <2>2. Cardinality(D(s) \cap T) = 0
    BY <1>2, FS_EmptySet, Zenon
  <2>3. Cardinality(D(s)) \in Nat /\ Cardinality(T) \in Nat
    BY <1>3, FS_CardinalityType, Zenon
  <2> QED
    BY <2>1, <2>2, <2>3
<1> QED
  BY <1>3, <1>4, <1>5, <1>6, FS_CardinalityType, Zenon

\* What is submitted goes into the ring buffer or is lost.
LEMMA SubmitAccounts ==
  ASSUME DTypeOK, AccountInv, NEW es \in Seq(Events), submit_event(es),
         UNCHANGED <<shown, skipped>>
  PROVE  AccountInv'
<1> DEFINE room == RingSize - Len(ring)
           n == IF room < Len(es) THEN room ELSE Len(es)
           a == SubSeq(es, 1, n)
           b == SubSeq(es, n + 1, Len(es))
<1> HIDE DEF Events
<1>1. n \in 0..Len(es) /\ Len(es) \in Nat
  BY DatapathAssumption, LenProperties DEF DTypeOK
<1>2. ring' = ring \o a /\ denials' = denials + Denials(es) /\ overrun' = overrun + Denials(b)
  BY Zenon DEF submit_event
<1> HIDE DEF n
<1>3. a \in Seq(Events) /\ b \in Seq(Events)
  BY <1>1, SubSeqProperties, ElementOfSeq
<1>4. es = a \o b
  <2>1. a \o b = SubSeq(es, 1, Len(es))
    <3>1. 1 \in 1..(Len(es) + 1) /\ n \in (1 - 1)..Len(es) /\ Len(es) \in n..Len(es)
      BY <1>1, SMTT(30)
    <3> QED
      BY <3>1, ConcatAdjacentSubSeq, Zenon
  <2> QED
    BY <2>1, SubSeqFull, Zenon
<1> HIDE DEF a, b
<1>5. /\ Denials(ring) \in Nat /\ Denials(a) \in Nat /\ Denials(b) \in Nat
      /\ Denials(ring') = Denials(ring) + Denials(a)
      /\ Denials(es) = Denials(a) + Denials(b)
  BY <1>2, <1>3, <1>4, DenialsConcat, Zenon DEF DTypeOK
<1>6. Denials(ring)' = Denials(ring')
  BY Zenon DEF Denials
<1>7. /\ denials \in Nat /\ overrun \in Nat /\ shown \in Nat /\ skipped \in Nat
      /\ denials = overrun + Denials(ring) + shown + skipped
  BY Zenon DEF AccountInv, DenialsAccounted
<1>8. PICK r \in Nat, x \in Nat, y \in Nat :
          /\ Denials(ring) = r /\ Denials(ring') = r + x
          /\ Denials(es) = x + y /\ Denials(b) = y
  BY <1>5, Zenon
<1>9. /\ denials' = overrun' + Denials(ring') + shown' + skipped'
      /\ denials' \in Nat /\ overrun' \in Nat /\ shown' \in Nat /\ skipped' \in Nat
  <2>1. denials = overrun + r + shown + skipped /\ denials' = denials + x + y
        /\ overrun' = overrun + y /\ shown' = shown /\ skipped' = skipped
    BY <1>2, <1>7, <1>8
  <2> QED
    BY <1>7, <1>8, <2>1
<1> QED
  BY <1>6, <1>9, Zenon DEF AccountInv, DenialsAccounted

\* An event that is neither logged nor filtered is no denial.
LEMMA NoDenialVanishes ==
  ASSUME NEW e, Fate(e) \notin {"logged", "skipped"} PROVE ~IsDenial(e)
BY Zenon DEF Fate, Deduplicated, IsDenial

\* The denial that the reader takes out of the ring buffer is logged or filtered.
LEMMA ReaderAccounts == ASSUME DTypeOK, AccountInv, handleEvent PROVE AccountInv'
<1> DEFINE e == Head(ring)
<1> HIDE DEF Events
<1>1. ring # <<>> /\ ring' = Tail(ring) /\ ring \in Seq(Events)
      /\ UNCHANGED <<denials, overrun>>
  BY Zenon DEF handleEvent, kvars, DTypeOK
<1>2. e \in Events /\ Tail(ring) \in Seq(Events) /\ ring = <<e>> \o Tail(ring)
  BY <1>1, HeadTailProperties
<1> HIDE DEF e
<1>3. /\ Denials(<<e>>) \in Nat /\ Denials(ring') \in Nat
      /\ Denials(ring) = Denials(<<e>>) + Denials(ring')
  <2>1. <<e>> \in Seq(Events)
    BY <1>2
  <2> QED
    BY <1>1, <1>2, <2>1, DenialsConcat, Zenon
<1>4. ~IsDenial(e) => Denials(<<e>>) = 0
  <2> SUFFICES ASSUME ~IsDenial(e) PROVE Denials(<<e>>) = 0
    BY Zenon
  <2>1. {i \in DOMAIN <<e>> : IsDenial(<<e>>[i])} = {}
    OBVIOUS
  <2> QED
    BY <2>1, FS_EmptySet, Zenon DEF Denials
<1>5. /\ skipped' = IF Fate(e) = "skipped" THEN skipped + Denials(<<e>>) ELSE skipped
      /\ shown' = IF Fate(e) = "logged" THEN shown + Denials(<<e>>) ELSE shown
  BY Zenon DEF handleEvent, e
<1>6. Fate(e) \notin {"logged", "skipped"} => Denials(<<e>>) = 0
  BY <1>4, NoDenialVanishes, Zenon
<1>7. Denials(ring)' = Denials(ring')
  BY Zenon DEF Denials
<1>8. /\ denials \in Nat /\ overrun \in Nat /\ shown \in Nat /\ skipped \in Nat
      /\ denials = overrun + Denials(ring) + shown + skipped
  BY Zenon DEF AccountInv, DenialsAccounted
<1>9. PICK r \in Nat, x \in Nat :
          /\ Denials(ring) = x + r /\ Denials(ring') = r /\ Denials(<<e>>) = x
  BY <1>3, Zenon
<1>10. /\ denials' = overrun' + Denials(ring') + shown' + skipped'
       /\ denials' \in Nat /\ overrun' \in Nat /\ shown' \in Nat /\ skipped' \in Nat
  <2>1. /\ denials = overrun + x + r + shown + skipped /\ denials' = denials /\ overrun' = overrun
        /\ skipped' = IF Fate(e) = "skipped" THEN skipped + x ELSE skipped
        /\ shown' = IF Fate(e) = "logged" THEN shown + x ELSE shown
        /\ Fate(e) \notin {"logged", "skipped"} => x = 0
    BY <1>1, <1>5, <1>6, <1>8, <1>9
  <2> QED
    BY <1>8, <1>9, <2>1, SMTT(30)
<1> QED
  BY <1>7, <1>10, Zenon DEF AccountInv, DenialsAccounted

\* Every denial is accounted for: it is on its way, logged, filtered, or lost to a
\* full ring buffer.
THEOREM AlwaysAccounted == Spec => []DenialsAccounted
<1>1. Init => AccountInv
  <2>1. Denials(<<>>) = 0
    BY FS_EmptySet DEF Denials
  <2> QED
    BY <2>1 DEF Init, AccountInv, DenialsAccounted
<1>2. DInv /\ AccountInv /\ [Next]_vars => AccountInv'
  <2> SUFFICES ASSUME DInv, AccountInv, [Next]_vars PROVE AccountInv'
    BY Zenon
  <2>0. DTypeOK
    BY Zenon DEF DInv
  <2>1. ASSUME NEW s \in Sockets, connect4(s) PROVE AccountInv'
    <3> DEFINE deny == ConnectVerdict(s) = ActionDeny
               es == IF deny THEN << emit_connect_deny(s) >> ELSE <<>>
    <3>1. submit_event(es) /\ UNCHANGED <<shown, skipped>>
      BY <2>1, Zenon DEF connect4, uvars
    <3>2. es \in Seq(Events)
      BY DenyType, Zenon
    <3> HIDE DEF es
    <3> QED
      BY <2>0, <3>1, <3>2, SubmitAccounts, Zenon
  <2>2. ASSUME NEW s \in Sockets, NEW syn \in BOOLEAN, NEW p \in Payloads,
               egress(s, syn, p)
        PROVE  AccountInv'
    <3>1. submit_event(EventsOf(s, syn, p)) /\ UNCHANGED <<shown, skipped>>
      BY <2>2, Zenon DEF egress, uvars
    <3> QED
      BY <2>0, <3>1, EventsType, SubmitAccounts, Zenon
  <2>3. CASE handleEvent
    BY <2>0, <2>3, ReaderAccounts, Zenon
  <2>4. CASE UNCHANGED <<ring, denials, overrun, shown, skipped>>
    BY <2>4, Zenon DEF AccountInv, DenialsAccounted, Denials
  <2>5. CASE \/ \E s \in Sockets : enforce_enabled(s)
             \/ \E m \in MapStates : ChangeMaps(m)
             \/ \E byte \in {"enabled", "dry"} : Switch(byte)
             \/ Switched
             \/ \E p \in Policies : SetEngine(p)
             \/ UNCHANGED vars
    BY <2>4, <2>5, Zenon DEF enforce_enabled, ChangeMaps, Switch, Switched, SetEngine,
       vars, kvars, uvars
  <2> QED
    BY <2>1, <2>2, <2>3, <2>5, Zenon DEF Next
<1>3. AccountInv => DenialsAccounted
  BY Zenon DEF AccountInv
<1> QED
  BY <1>1, <1>2, <1>3, DInvAlways, PTL DEF Spec
=============================================================================
