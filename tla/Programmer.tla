----------------------------- MODULE Programmer -----------------------------
(***************************************************************************)
(* The map programmer (internal/enforce/programmer.go): it turns the       *)
(* policy in force and the pods on the node into entries of the verdict    *)
(* maps, on start, on every policy update and on a ticker.  Every Put and  *)
(* Delete is a step of its own, because the datapath reads the maps while  *)
(* apply() is running, and may fail.  An error of Run itself is only       *)
(* logged (egress.go:128): the agent goes on without a Programmer.         *)
(***************************************************************************)
EXTENDS AgentMaps

CONSTANTS
  PodTables,   \* what Resolver.Pods() may return: functions cgroup -> PodInfo
  MaxFaults    \* how many Puts and Deletes may fail (bound)

ASSUME MaxFaultsAssumption == MaxFaults \in Nat

VARIABLES
  enabled,   \* enforce_cfg[0].enabled
  pods,      \* the pods the resolver would report now
  peng,      \* the policy of the engine in use
  pc,        \* where Run/apply is
  podsAt,    \* the pods this (or the last) apply works on
  rule,      \* the rule being written; larger ones are done
  todo,      \* keys still to be Put for that rule, or still to be deleted
  new,       \* newCIDR, newVerdict and newDefault of the running apply
  prev,      \* prevCIDR, prevVerdict and prevDefault
  failed,    \* how many Puts of the current or last apply failed
  faults,    \* Puts and Deletes that have failed so far
  subscribed,  \* Run has subscribed to the policy source
  lost       \* history: keys whose Delete failed and that were not Put since

pvars == <<enabled, pods, peng, pc, podsAt, rule, todo, new, prev, failed,
           faults, subscribed, lost>>
mpvars == <<maps, pvars>>

-----------------------------------------------------------------------------
PInit ==
  /\ maps = [k \in {} |-> ActionAllow]
  /\ enabled = 0
  /\ pods \in PodTables
  /\ peng \in Policies
  /\ pc = "off"
  /\ podsAt = pods
  /\ rule = 0
  /\ todo = {}
  /\ new = {}
  /\ prev = {}
  /\ failed = 0
  /\ faults = 0
  /\ subscribed = FALSE
  /\ lost = {}

\* The deferred disable(), which may fail.
Disabled == enabled' \in {0, enabled}

\* Run turns the datapath on before anything is programmed, or returns the error.
Start ==
  /\ pc = "off"
  /\ \/ enabled' = 1 /\ pc' = "snapshot"
     \/ UNCHANGED enabled /\ pc' = "stopped"
  /\ UNCHANGED <<maps, pods, peng, podsAt, rule, todo, new, prev, failed, faults,
                 subscribed, lost>>

\* The source's snapshot p; Run returns if the engine refuses it.
Snapshot(p) ==
  /\ pc = "snapshot"
  /\ \/ peng' = p /\ pc' = "apply" /\ UNCHANGED enabled
     \/ UNCHANGED peng /\ pc' = "stopped" /\ Disabled
  /\ UNCHANGED <<maps, pods, podsAt, rule, todo, new, prev, failed, faults,
                 subscribed, lost>>

\* Fault: an existing entry keeps its value (BPF_NOEXIST).
PutOkNoExist(k, act) ==
  /\ maps' = IF k \in DOMAIN maps THEN maps ELSE MapPut(maps, k, act)
  /\ new' = new \cup {k}
  /\ lost' = lost \ {k}
  /\ UNCHANGED <<failed, faults>>

\* Fault: the key is not recorded.
PutOkUnrecorded(k, act) ==
  /\ maps' = MapPut(maps, k, act)
  /\ UNCHANGED <<new, failed, faults, lost>>

\* A Put of key k with value act, recorded in new when it succeeds.
PutOk(k, act) ==
  /\ maps' = MapPut(maps, k, act)
  /\ new' = new \cup {k}
  /\ lost' = lost \ {k}
  /\ UNCHANGED <<failed, faults>>

PutFails ==
  /\ faults < MaxFaults
  /\ faults' = faults + 1
  /\ failed' = failed + 1
  /\ UNCHANGED <<maps, new, lost>>

\* Fault: the pods of the previous round are used.
BeginApplyOldPods ==
  /\ pc = "apply"
  /\ pc' = "rules"
  /\ rule' = Len(peng.rules) + 1
  /\ todo' = {}
  /\ maps' = MapPut(maps, GlobalDefault, ActionByte(EffectiveDefault(peng)))
  /\ new' = {GlobalDefault}
  /\ failed' = 0
  /\ UNCHANGED <<enabled, pods, peng, podsAt, prev, faults, subscribed, lost>>

\* Fault: the maps are emptied first.
BeginApplyEmptied ==
  /\ pc = "apply"
  /\ pc' = "rules"
  /\ podsAt' = pods
  /\ rule' = Len(peng.rules) + 1
  /\ todo' = {}
  /\ maps' = [k \in {GlobalDefault} |-> ActionByte(EffectiveDefault(peng))]
  /\ new' = {GlobalDefault}
  /\ failed' = 0
  /\ UNCHANGED <<enabled, pods, peng, prev, faults, subscribed, lost>>

\* apply() up to the loop: read the pods, write the global default.
BeginApply ==
  /\ pc = "apply"
  /\ pc' = "rules"
  /\ podsAt' = pods
  /\ rule' = Len(peng.rules) + 1
  /\ todo' = {}
  /\ \/ /\ maps' = MapPut(maps, GlobalDefault, ActionByte(EffectiveDefault(peng)))
        /\ new' = {GlobalDefault}
        /\ failed' = 0
        /\ UNCHANGED faults
     \/ /\ faults < MaxFaults
        /\ faults' = faults + 1
        /\ failed' = 1
        /\ new' = {}
        /\ UNCHANGED maps
  /\ UNCHANGED <<enabled, pods, peng, prev, subscribed, lost>>

\* The loop runs from the last rule down to the first.
NextRule ==
  /\ pc = "rules"
  /\ todo = {}
  /\ rule > 1
  /\ rule' = rule - 1
  /\ todo' = RuleKeys(peng, podsAt, rule - 1)
  /\ UNCHANGED <<maps, enabled, pods, peng, pc, podsAt, new, prev, failed,
                 faults, subscribed, lost>>

\* One Put of the rule.  The cgroups come from ranging over a Go map, so the
\* order inside a rule is left open.
PutKey(k) ==
  /\ pc = "rules"
  /\ k \in todo
  /\ todo' = todo \ {k}
  /\ \/ PutOk(k, ActionByte(peng.rules[rule].action))
     \/ PutFails
  /\ UNCHANGED <<enabled, pods, peng, pc, podsAt, rule, prev, subscribed>>

\* Fault: reconcile() is left out.
BeginReconcileSkip ==
  /\ pc = "rules"
  /\ todo = {}
  /\ rule = 1
  /\ pc' = "reconcile"
  /\ rule' = 0
  /\ UNCHANGED <<maps, enabled, pods, peng, podsAt, todo, new, prev, failed,
                 faults, subscribed, lost>>

\* Fault: everything written before is deleted.
BeginReconcileAll ==
  /\ pc = "rules"
  /\ todo = {}
  /\ rule = 1
  /\ pc' = "reconcile"
  /\ rule' = 0
  /\ todo' = prev \ {GlobalDefault}
  /\ UNCHANGED <<maps, enabled, pods, peng, podsAt, new, prev, failed, faults,
                 subscribed, lost>>

\* The loop is over: reconcile() goes through what was written before and was
\* not written now, except the global default.
BeginReconcile ==
  /\ pc = "rules"
  /\ todo = {}
  /\ rule = 1
  /\ pc' = "reconcile"
  /\ rule' = 0
  /\ todo' = prev \ (new \cup {GlobalDefault})
  /\ UNCHANGED <<maps, enabled, pods, peng, podsAt, new, prev, failed, faults,
                 subscribed, lost>>

\* The error of a Delete is ignored: the key is forgotten either way.
DeleteKey(k) ==
  /\ pc = "reconcile"
  /\ k \in todo
  /\ todo' = todo \ {k}
  /\ \/ /\ maps' = MapDelete(maps, k)
        /\ UNCHANGED <<faults, lost>>
     \/ /\ faults < MaxFaults
        /\ faults' = faults + 1
        /\ lost' = lost \cup {k}
        /\ UNCHANGED maps
  /\ UNCHANGED <<enabled, pods, peng, pc, podsAt, rule, new, prev, failed,
                 subscribed>>

EndApply ==
  /\ pc = "reconcile"
  /\ todo = {}
  /\ prev' = new
  /\ new' = {}
  /\ pc' = "idle"
  /\ UNCHANGED <<maps, enabled, pods, peng, podsAt, rule, todo, failed, faults,
                 subscribed, lost>>

\* Run subscribes when the first apply() has returned.
Subscribe ==
  /\ pc = "idle"
  /\ ~subscribed
  /\ subscribed' = TRUE
  /\ UNCHANGED <<maps, enabled, pods, peng, pc, podsAt, rule, todo, new, prev,
                 failed, faults, lost>>

\* The select loop: a policy update (the sources publish none that the engine
\* refuses), the re-walk ticker, or shutdown.
Receive(p) ==
  /\ pc = "idle"
  /\ subscribed
  /\ peng' = p
  /\ pc' = "apply"
  /\ UNCHANGED <<maps, enabled, pods, podsAt, rule, todo, new, prev, failed, faults,
                 subscribed, lost>>

Rewalk ==
  /\ pc = "idle"
  /\ subscribed
  /\ pc' = "apply"
  /\ UNCHANGED <<maps, enabled, pods, peng, podsAt, rule, todo, new, prev, failed,
                 faults, subscribed, lost>>

Stop ==
  /\ pc = "idle"
  /\ subscribed
  /\ pc' = "stopped"
  /\ Disabled
  /\ UNCHANGED <<maps, pods, peng, podsAt, rule, todo, new, prev, failed, faults,
                 subscribed, lost>>

\* The environment: pods come, go and get their labels at any time.
PodsChange(t) ==
  /\ pods' = t
  /\ UNCHANGED <<maps, enabled, peng, pc, podsAt, rule, todo, new, prev, failed,
                 faults, subscribed, lost>>

Apply ==
  \/ BeginApply
  \/ NextRule
  \/ \E k \in todo : PutKey(k)
  \/ BeginReconcile
  \/ \E k \in todo : DeleteKey(k)
  \/ EndApply

PNext ==
  \/ Start
  \/ \E p \in Policies : Snapshot(p)
  \/ Apply
  \/ Subscribe
  \/ \E p \in Policies : Receive(p)
  \/ Rewalk
  \/ Stop
  \/ \E t \in PodTables : PodsChange(t)

PSpec == PInit /\ [][PNext]_mpvars

\* The goroutine runs on and its ticker fires; the environment owes nothing.
PFairSpec ==
  /\ PSpec
  /\ WF_mpvars(Start \/ (\E p \in Policies : Snapshot(p)) \/ Apply \/ Subscribe)
  /\ WF_mpvars(Rewalk)

-----------------------------------------------------------------------------
TypeOK ==
  /\ \A k \in DOMAIN maps : maps[k] \in Actions
  /\ enabled \in {0, 1}
  /\ pods \in PodTables
  /\ podsAt \in PodTables
  /\ peng \in Policies
  /\ pc \in {"off", "snapshot", "apply", "rules", "reconcile", "idle", "stopped"}
  /\ subscribed \in BOOLEAN
  /\ rule \in 0..(Len(peng.rules) + 1)
  /\ failed \in Nat
  /\ faults \in 0..MaxFaults

\* Whatever Puts fail, every entry in the kernel's maps is one the Programmer
\* still knows it wrote, so a later reconcile() can take it out again: a verdict
\* of an old policy stays behind for good only if its Delete failed, and then
\* until some policy asks for that key again (programmer.go:53-55, 243).
NoOrphans == DOMAIN maps \subseteq prev \cup new \cup {GlobalDefault} \cup lost

\* The maps without the entries that a failed Delete left behind.
Known == [k \in DOMAIN maps \ lost |-> maps[k]]

\* When apply() has returned and none of its Puts failed, the maps hold exactly
\* what the policy asks for on those pods, whatever was there before and
\* whatever failed in earlier rounds, besides entries whose Delete failed; on a
\* key several rules write, the first of them wins, which is what walking the
\* rules backwards is for (programmer.go:139-142).
AppliedExactly == pc = "idle" /\ failed = 0 => Realizes(Known, peng, podsAt)

\* Make before break: an entry that the last round installed and the current
\* policy and pods still ask for is never missing while apply() runs, although
\* apply() rewrites everything and deletes one key at a time.
NoGap ==
  failed = 0 /\ pc \in {"rules", "reconcile", "idle"}
    => prev \cap DesiredKeys(peng, podsAt) \subseteq DOMAIN maps

\* The re-walk ticker heals: when policy and pods settle, the maps come to hold
\* what they ask for again and again, whatever Puts failed before.
SelfHeals ==
  \A p \in Policies : \A t \in PodTables :
    <>[](peng = p /\ pods = t /\ pc # "stopped") => []<>Realizes(Known, p, t)

\* The maps hold what each rule asks for, and no other rule contends for it.
AllHonoured(p, table) ==
  /\ DOMAIN Known = DesiredKeys(p, table)
  /\ Known[GlobalDefault] = ActionByte(EffectiveDefault(p))
  /\ \A i \in 1..Len(p.rules) : \A k \in RuleKeys(p, table, i) :
       Known[k] = ActionByte(p.rules[i].action)

\* The re-walk disturbs nothing: while policy and pods stay as they are, apply()
\* rewrites every entry and never changes, adds or removes one, at any of its
\* steps, so traffic sees the same verdicts throughout.  Rules that contend for
\* a key are excluded: the loser's action is in force between the two Puts.
RewalkIsInvisible ==
  [][/\ AllHonoured(peng, podsAt)
     /\ peng' = peng /\ podsAt' = podsAt /\ failed' = 0
     => Known' = Known]_mpvars

-----------------------------------------------------------------------------
(* The inductive invariant behind NoOrphans, AppliedExactly and NoGap.     *)

\* Rule j has had its turn on key k in this round.
Done(j, k) == j > rule \/ (j = rule /\ k \notin todo)

KeysOf(j) == RuleKeys(peng, podsAt, j)

RuleIndex == 1..Len(peng.rules)

\* What todo, new and rule are for at each place of the code.
ControlInv ==
  /\ pc \notin {"rules", "reconcile"} => new = {} /\ todo = {}
  /\ pc = "rules" <=> rule # 0
  /\ pc = "rules" => \A k \in todo : rule \in RuleIndex /\ k \in KeysOf(rule)
  /\ pc = "reconcile" => todo \cap (new \cup {GlobalDefault}) = {}

\* Recorded keys are in the maps; only reconcile() takes keys of prev out.
RecordedInv ==
  /\ new \subseteq DOMAIN maps
  /\ pc # "reconcile" => prev \subseteq DOMAIN maps
  /\ pc = "reconcile"
       => DOMAIN maps \subseteq new \cup todo \cup {GlobalDefault} \cup lost
  /\ lost \cap (new \cup {GlobalDefault}) = {}

\* The keys a clean round has recorded so far.
NewInv ==
  /\ GlobalDefault \in new
  /\ new \subseteq DesiredKeys(peng, podsAt)
  /\ \A j \in RuleIndex : \A k \in KeysOf(j) : Done(j, k) => k \in new

\* The value of a key is that of the smallest rule that has had its turn.
ValueInv ==
  /\ \A j \in RuleIndex : \A k \in KeysOf(j) :
       /\ Done(j, k)
       /\ \A i \in 1..(j - 1) : k \in KeysOf(i) => ~Done(i, k)
       => maps[k] = ActionByte(peng.rules[j].action)
  /\ (\A j \in RuleIndex :
        GlobalDefault \in KeysOf(j) => ~Done(j, GlobalDefault))
       => maps[GlobalDefault] = ActionByte(EffectiveDefault(peng))

CleanInv == failed = 0 /\ pc \in {"rules", "reconcile"} => NewInv /\ ValueInv

PInv ==
  /\ TypeOK
  /\ NoOrphans
  /\ ControlInv
  /\ RecordedInv
  /\ CleanInv
  /\ AppliedExactly
=============================================================================
