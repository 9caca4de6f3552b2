-------------------------- MODULE KubernetesProofs --------------------------
(***************************************************************************)
(* Proofs about the three components that follow the Kubernetes API.  They *)
(* share no constant, no variable and no step; each has a part of its own. *)
(*                                                                         *)
(* Module Operator, for any objects, specs, numbers of user changes,       *)
(* failing requests and dying leaders: a status is always true of the      *)
(* generation it names, and never goes back to an earlier one.             *)
(*                                                                         *)
(* Module Resolver, for any number of cgroups and callers and any layout   *)
(* of the cgroup tree that the parser understands: no running pod is given *)
(* up, traffic is attributed to the pod it comes from, and Pods() misses   *)
(* none.                                                                   *)
(*                                                                         *)
(* Module CRDSource, for any number of consumers, changes and failing      *)
(* Lists: it implements the contract of a policy source, and a rebuild()   *)
(* that no other one overlapped makes everything good.                     *)
(***************************************************************************)
EXTENDS Operator, Resolver, CRDSource, BroadcastProofs

-----------------------------------------------------------------------------
(* The operator.                                                           *)

\* What a status other than the first says is true of the generation it names.
TrueStatus(specs, st) ==
  /\ st.observedGeneration \in 1..Len(specs)
  /\ st.accepted = IF AgentsTake(specs[st.observedGeneration]) THEN "True" ELSE "False"
  /\ st.ruleCount = Len(specs[st.observedGeneration].rules)

GoodObject(o) ==
  /\ o.uid \in Nat \ {0}
  /\ o = [uid |-> o.uid, specs |-> o.specs, status |-> o.status]
  /\ o.specs \in Seq(Specs) /\ Len(o.specs) # 0
  /\ o.status = NewStatus \/ TrueStatus(o.specs, o.status)

\* An update is for the generation in force in the version that was read.
GoodRequest(r) ==
  /\ r.key \in Keys
  /\ GoodObject(r.read)
  /\ r.status.observedGeneration = Len(r.read.specs)
  /\ TrueStatus(r.read.specs, r.status)

\* Every version of an object there is, wherever it is, is good.
OInv ==
  /\ changes \in Nat
  /\ DOMAIN api = Keys /\ \A k \in Keys : api[k] = NoObject \/ GoodObject(api[k])
  /\ DOMAIN cache = Keys /\ \A k \in Keys : cache[k] = NoObject \/ GoodObject(cache[k])
  /\ DOMAIN job = Controllers
  /\ \A c \in Controllers : job[c] = NoRequest \/ GoodRequest(job[c])
  /\ \A r \in late : GoodRequest(r)

-----------------------------------------------------------------------------
\* Scoping a policy to a namespace, which the operator does before it validates
\* and the agents do not, makes no difference to the validation.
LEMMA ScopingKeepsValidity ==
  ASSUME NEW spec \in Specs, NEW ns
  PROVE  Valid(ScopeToNamespace(ToPolicy(spec), ns)) <=> Valid(ToPolicy(spec))
<1> DEFINE p == ToPolicy(spec)
           q == ScopeToNamespace(p, ns)
           n == Len(spec.rules)
<1>1. n \in Nat /\ DOMAIN spec.rules = 1..n
  BY SpecsAssumption, Zenon
<1>2. p.rules = [i \in 1..n |-> ToRule(spec.rules[i])]
  BY <1>1, Zenon DEF ToPolicy
<1>3. /\ q.podSelector = p.podSelector /\ q.defaultAction = p.defaultAction
      /\ q.rules = [i \in DOMAIN p.rules |-> [p.rules[i] EXCEPT !.pod.namespace = ns]]
  BY Zenon DEF ScopeToNamespace, ToPolicy
<1>4. DOMAIN p.rules = 1..n /\ Len(p.rules) = n /\ Len(q.rules) = n
  BY <1>1, <1>2, <1>3
<1>5. ASSUME NEW i \in 1..n PROVE RuleValid(q.rules[i]) <=> RuleValid(p.rules[i])
  <2>1. p.rules[i] = ToRule(spec.rules[i])
    BY <1>2, Zenon
  <2>2. q.rules[i] = [ToRule(spec.rules[i]) EXCEPT !.pod.namespace = ns]
    BY <1>3, <1>4, <2>1, Zenon
  <2>3. q.rules[i] = [ToRule(spec.rules[i]) EXCEPT !.pod = [AnyPod EXCEPT !.namespace = ns]]
    BY <2>2, Zenon DEF ToRule
  <2>4. [AnyPod EXCEPT !.namespace = ns].exprs = AnyPod.exprs
    BY Zenon DEF AnyPod
  <2>5. /\ q.rules[i].action = p.rules[i].action
        /\ q.rules[i].mutations = p.rules[i].mutations
        /\ q.rules[i].cidrs = p.rules[i].cidrs
        /\ q.rules[i].pod.exprs = p.rules[i].pod.exprs
    <3> HIDE DEF p, q
    <3> DEFINE t == ToRule(spec.rules[i])
    <3>1. /\ [t EXCEPT !.pod = [AnyPod EXCEPT !.namespace = ns]].action = t.action
          /\ [t EXCEPT !.pod = [AnyPod EXCEPT !.namespace = ns]].mutations = t.mutations
          /\ [t EXCEPT !.pod = [AnyPod EXCEPT !.namespace = ns]].cidrs = t.cidrs
          /\ [t EXCEPT !.pod = [AnyPod EXCEPT !.namespace = ns]].pod =
                [AnyPod EXCEPT !.namespace = ns]
          /\ t.pod = AnyPod
      BY Zenon DEF ToRule
    <3> HIDE DEF t
    <3> QED
      BY <2>1, <2>3, <2>4, <3>1, Zenon DEF t
  <2> QED
    BY <2>5, Zenon DEF RuleValid
<1> QED
  BY <1>3, <1>4, <1>5, Zenon DEF Valid

\* The operator and the agents agree on every spec.
LEMMA ValidatesAsAgents ==
  ASSUME NEW k \in Keys, NEW spec \in Specs PROVE Validates(k, spec) <=> AgentsTake(spec)
BY ScopingKeepsValidity, Zenon DEF Validates, AgentsTake

\* A status that is computed is true.
LEMMA RefreshedIsTrue ==
  ASSUME NEW k \in Keys, NEW o, GoodObject(o)
  PROVE  LET st == refreshStatus(Generation(o), Len(SpecOf(o).rules),
                                 Validates(k, SpecOf(o)))
         IN  st.observedGeneration = Len(o.specs) /\ TrueStatus(o.specs, st)
<1>1. Len(o.specs) \in 1..Len(o.specs) /\ o.specs[Len(o.specs)] \in Specs
  BY DEF GoodObject
<1>2. SpecOf(o) = o.specs[Len(o.specs)]
  BY Zenon DEF SpecOf
<1>3. Validates(k, SpecOf(o)) <=> AgentsTake(SpecOf(o))
  BY <1>1, <1>2, ValidatesAsAgents, Zenon
<1> QED
  BY <1>1, <1>2, <1>3, Zenon DEF refreshStatus, Generation, TrueStatus

\* An update that is taken leaves a good object, of the generation it had.
LEMMA WriteIsGood ==
  ASSUME OInv, NEW r, GoodRequest(r)
  PROVE  /\ DOMAIN Write(r) = Keys
         /\ \A k \in Keys : Write(r)[k] = NoObject \/ GoodObject(Write(r)[k])
<1>1. \A k \in Keys : Write(r)[k] = IF k = r.key /\ api[k] = r.read
                                    THEN [r.read EXCEPT !.status = r.status] ELSE api[k]
  BY Zenon DEF OInv, GoodRequest, Write
<1>2. GoodObject([r.read EXCEPT !.status = r.status])
  <2>1. PICK u, s, t : r.read = [uid |-> u, specs |-> s, status |-> t]
    BY Zenon DEF GoodRequest, GoodObject
  <2>2. [r.read EXCEPT !.status = r.status] = [uid |-> u, specs |-> s, status |-> r.status]
    BY <2>1
  <2> QED
    BY <2>1, <2>2, Zenon DEF GoodRequest, GoodObject
<1> QED
  BY <1>1, <1>2, Zenon DEF OInv, Write

-----------------------------------------------------------------------------
\* There is no object in the beginning.
LEMMA OInvInit == OInit => OInv
BY DEF OInit, OInv

\* Users create objects without a status, and a change adds a generation.
LEMMA UserStep ==
  ASSUME OInv, NEW k \in Keys, NEW spec \in Specs,
         Create(k, spec) \/ Edit(k, spec) \/ Delete(k)
  PROVE  OInv'
<1>1. PICK o : Changed(k, o) /\ (o = NoObject \/ GoodObject(o))
  <2>1. CASE Create(k, spec)
    <3> DEFINE o == [uid |-> changes + 1, specs |-> <<spec>>, status |-> NewStatus]
    <3>1. GoodObject(o)
      BY DEF GoodObject, OInv
    <3> QED
      BY <2>1, <3>1, Zenon DEF Create
  <2>2. CASE Edit(k, spec)
    <3>1. GoodObject(api[k])
      BY <2>2, Zenon DEF Edit, OInv
    <3>2. PICK u, s, t : api[k] = [uid |-> u, specs |-> s, status |-> t]
      BY <3>1, Zenon DEF GoodObject
    <3> DEFINE o == [api[k] EXCEPT !.specs = Append(@, spec)]
    <3>3. o = [uid |-> u, specs |-> Append(s, spec), status |-> t]
      BY <3>2
    <3>4. /\ Append(s, spec) \in Seq(Specs) /\ Len(Append(s, spec)) = Len(s) + 1
          /\ s \in Seq(Specs) /\ Len(s) \in Nat
          /\ \A n \in 1..Len(s) : Append(s, spec)[n] = s[n]
      BY <3>1, <3>2 DEF GoodObject
    <3>5. TrueStatus(s, t) => TrueStatus(Append(s, spec), t)
      BY <3>4 DEF TrueStatus
    <3>6. GoodObject(o)
      BY <3>1, <3>2, <3>3, <3>4, <3>5 DEF GoodObject
    <3> QED
      BY <2>2, <3>6, Zenon DEF Edit
  <2>3. CASE Delete(k)
    BY <2>3, Zenon DEF Delete
  <2> QED
    BY <2>1, <2>2, <2>3, Zenon
<1> QED
  BY <1>1 DEF Changed, opvars, OInv

\* The informer copies what the API server has.
LEMMA DeliverStep == ASSUME OInv, NEW k \in Keys, Deliver(k) PROVE OInv'
BY Zenon DEF OInv, Deliver, uservars

\* A request is made of the version in the cache.
LEMMA ReconcileStep == ASSUME OInv, NEW k \in Keys, Reconcile(k) PROVE OInv'
<1> DEFINE o == cache[k]
           st == refreshStatus(Generation(o), Len(SpecOf(o).rules),
                               Validates(k, SpecOf(o)))
           r == [key |-> k, read |-> o, status |-> st]
<1>1. /\ job' = job \/ (o # NoObject /\ job' = [job EXCEPT ![ControllerOf(k)] = r])
      /\ UNCHANGED <<api, uservars, cache, late>>
  BY Zenon DEF Reconcile
<1>2. CASE job' = job
  BY <1>1, <1>2, Zenon DEF OInv, uservars
<1>3. CASE o # NoObject /\ job' = [job EXCEPT ![ControllerOf(k)] = r]
  <2>1. GoodObject(o)
    BY <1>3, Zenon DEF OInv
  <2>2. GoodRequest(r)
    <3> HIDE DEF st
    <3>1. st.observedGeneration = Len(o.specs) /\ TrueStatus(o.specs, st)
      BY <2>1, RefreshedIsTrue, Zenon DEF st
    <3> QED
      BY <2>1, <3>1, Zenon DEF GoodRequest
  <2> HIDE DEF r
  <2> QED
    BY <1>1, <1>3, <2>2, Zenon DEF OInv, uservars
<1> QED
  BY <1>1, <1>2, <1>3, Zenon

\* Updates, of a controller or of one that is gone, leave good objects.
LEMMA UpdateStep == ASSUME OInv, NEW c \in Controllers, Update(c) PROVE OInv'
<1>1. GoodRequest(job[c])
  BY Zenon DEF OInv, Update
<1>2. api' = api \/ api' = Write(job[c])
  BY Zenon DEF Update
<1>3. DOMAIN api' = Keys /\ \A k \in Keys : api'[k] = NoObject \/ GoodObject(api'[k])
  BY <1>1, <1>2, WriteIsGood, Zenon DEF OInv
<1> QED
  BY <1>3, Zenon DEF OInv, Update, uservars

\* A write that a former leader sent arrives, and is refused if the object changed.
LEMMA LateUpdateStep == ASSUME OInv, NEW r \in late, LateUpdate(r) PROVE OInv'
<1>1. GoodRequest(r) /\ api' = Write(r)
  BY Zenon DEF OInv, LateUpdate
<1>2. DOMAIN api' = Keys /\ \A k \in Keys : api'[k] = NoObject \/ GoodObject(api'[k])
  BY <1>1, WriteIsGood, Zenon
<1> QED
  BY <1>2, Zenon DEF OInv, LateUpdate, uservars

\* A leader that dies leaves its requests behind; the next one lists anew.
LEMMA LeaderStep == ASSUME OInv, LeaderDies \/ Lead PROVE OInv'
BY Zenon DEF OInv, LeaderDies, Lead, uservars

\* Every step preserves the invariant.
LEMMA OInvNext == OInv /\ [ONext]_ovars => OInv'
<1> SUFFICES ASSUME OInv, [ONext]_ovars PROVE OInv'
  BY Zenon
<1>1. ASSUME NEW k \in Keys, Delete(k) PROVE OInv'
  BY <1>1 DEF Delete, Changed, opvars, OInv
<1>2. CASE ONext
  BY <1>1, <1>2, UserStep, DeliverStep, ReconcileStep, UpdateStep, LateUpdateStep,
     LeaderStep, Zenon DEF ONext
<1>3. CASE UNCHANGED ovars
  BY <1>3, Zenon DEF ovars, uservars, opvars, OInv
<1> QED
  BY <1>2, <1>3, Zenon

\* The inductive invariant of the operator holds always.
THEOREM OInvAlways == OSpec => []OInv
BY OInvInit, OInvNext, PTL DEF OSpec

\* A status is true of the generation it names, whoever wrote it, and whenever.
THEOREM StatusTrue == OSpec => []StatusIsTrue
<1>1. OInv => StatusIsTrue
  BY Zenon DEF OInv, GoodObject, TrueStatus, StatusIsTrue, Generation
<1> QED
  BY <1>1, OInvAlways, PTL

\* No step takes the status of an object back to an earlier generation.
LEMMA ObservedForward ==
  ASSUME OInv, ONext, NEW k \in Keys, api[k] # NoObject, api'[k].uid = api[k].uid
  PROVE  api[k].status.observedGeneration <= api'[k].status.observedGeneration
<1>0. GoodObject(api[k])
  BY Zenon DEF OInv
<1>1. api[k].status.observedGeneration \in 0..Len(api[k].specs)
      /\ Len(api[k].specs) \in Nat
  <2>1. Len(api[k].specs) \in Nat
    BY <1>0, SMTT(30) DEF GoodObject
  <2>2. CASE api[k].status = NewStatus
    BY <2>1, <2>2, SMTT(30) DEF NewStatus
  <2>3. CASE TrueStatus(api[k].specs, api[k].status)
    BY <2>1, <2>3 DEF TrueStatus
  <2> QED
    BY <1>0, <2>1, <2>2, <2>3, Zenon DEF GoodObject
<1>2. CASE api'[k].status = api[k].status
  BY <1>1, <1>2
<1>3. ASSUME NEW r, GoodRequest(r), api' = Write(r)
      PROVE  api[k].status.observedGeneration <= api'[k].status.observedGeneration
  <2>1. api'[k] = IF k = r.key /\ api[k] = r.read
                  THEN [r.read EXCEPT !.status = r.status] ELSE api[k]
    BY <1>3, Zenon DEF OInv, GoodRequest, Write
  <2>2. CASE k = r.key /\ api[k] = r.read
    <3>1. PICK u, s, t : r.read = [uid |-> u, specs |-> s, status |-> t]
      BY <1>3, Zenon DEF GoodRequest, GoodObject
    <3>2. api'[k].status = r.status
      BY <2>1, <2>2, <3>1, Zenon
    <3> QED
      BY <1>1, <1>3, <2>2, <3>2 DEF GoodRequest
  <2>3. CASE ~(k = r.key /\ api[k] = r.read)
    BY <1>1, <2>1, <2>3
  <2> QED
    BY <2>2, <2>3, Zenon
<1>4. ASSUME NEW j \in Keys, NEW spec \in Specs, Create(j, spec) \/ Edit(j, spec)
      PROVE  api'[k].status = api[k].status
  <2>1. CASE j # k
    BY <1>4, <2>1, Zenon DEF Create, Edit, Changed, OInv
  <2>2. CASE j = k
    <3>1. PICK u, s, t : api[k] = [uid |-> u, specs |-> s, status |-> t]
      BY <1>0, Zenon DEF GoodObject
    <3> QED
      BY <1>4, <2>2, <3>1, Zenon DEF Create, Edit, Changed, OInv
  <2> QED
    BY <2>1, <2>2, Zenon
<1>5. ASSUME NEW j \in Keys, Delete(j) PROVE api'[k].status = api[k].status
  BY <1>0, <1>5, Zenon DEF Delete, Changed, OInv, GoodObject, NoObject
<1>6. ASSUME NEW c \in Controllers, Update(c)
      PROVE  api[k].status.observedGeneration <= api'[k].status.observedGeneration
  <2>1. GoodRequest(job[c]) /\ api' \in {api, Write(job[c])}
    BY <1>6, Zenon DEF OInv, Update
  <2> QED
    BY <1>2, <1>3, <2>1, Zenon
<1>7. ASSUME NEW r \in late, LateUpdate(r)
      PROVE  api[k].status.observedGeneration <= api'[k].status.observedGeneration
  BY <1>3, <1>7, Zenon DEF OInv, LateUpdate
<1>8. ASSUME UNCHANGED api PROVE api'[k].status = api[k].status
  BY <1>8, Zenon
<1> QED
  BY <1>2, <1>4, <1>5, <1>6, <1>7, <1>8, Zenon
     DEF ONext, Deliver, Reconcile, LeaderDies, Lead

\* The status of an object never goes back, whichever leader's request is last.
THEOREM ObservedGoesForward == OSpec => ObservedNeverBack
<1> DEFINE Forward ==
      \A k \in Keys :
        api[k] # NoObject /\ api'[k].uid = api[k].uid =>
          api[k].status.observedGeneration <= api'[k].status.observedGeneration
<1>1. OInv /\ [ONext]_ovars => [Forward]_ovars
  BY ObservedForward, Zenon
<1> QED
  BY <1>1, OInvAlways, PTL DEF OSpec, ObservedNeverBack

-----------------------------------------------------------------------------
(* The resolver.                                                           *)

\* What the parser makes of the path of directory d.
Parsed(d) == ParsePath(PathOf[d])

TypeOK ==
  /\ dirs \subseteq ever /\ ever \subseteq Ids
  /\ pc \in [Walkers -> {"idle", "index", "walk", "store", "cache", "enrich"}]
  /\ DOMAIN arg = Callers
  /\ all \in [Walkers -> SUBSET Ids]
  /\ some \in [Walkers -> SUBSET Ids]
  /\ idx \in [Walkers -> SUBSET Ids]
  /\ DOMAIN ent = Callers

\* A cache entry of d: what the parser makes of its path, or none if the directory
\* is gone or could not be read.
RightEntry(d, e) ==
  /\ e \in {NoPod, Parsed(d)}
  /\ d \in dirs \ unread => e = Parsed(d)

CacheInv == DOMAIN idCache \subseteq ever /\ \A d \in DOMAIN idCache : RightEntry(d, idCache[d])

\* What a call knows at each place.  The directory it asks for has existed, so if
\* it exists it has done so since the walk began.
CallInv ==
  \A c \in Callers :
    /\ pc[c] # "idle" => arg[c] \in ever
    /\ pc[c] = "walk" /\ arg[c] \in dirs => arg[c] \in all[c]
    /\ pc[c] = "store" /\ arg[c] \in dirs \ unread /\ Parsed(arg[c]) # NoPod =>
         arg[c] \in idx[c]
    /\ pc[c] \in {"cache", "enrich"} => RightEntry(arg[c], ent[c])

RInv == TypeOK /\ CacheInv /\ CallInv

-----------------------------------------------------------------------------
\* buildInoIndex records every path that ParsePath understands.
LEMMA ParsedAreKube ==
  ASSUME NEW d, Parsed(d) # NoPod PROVE hasKubepodsSegment(PathOf[d])
<1>1. {i \in DOMAIN PathOf[d] : InKubepods(PathOf[d][i])} # {}
  BY Zenon DEF Parsed, ParsePath
<1> QED
  BY <1>1, Zenon DEF hasKubepodsSegment

\* Nothing is known in the beginning.
LEMMA RInvInit == RInit => RInv
<1> SUFFICES ASSUME RInit PROVE RInv
  BY Zenon
<1>1. TypeOK
  BY Zenon DEF RInit, TypeOK
<1>2. CacheInv
  BY DEF RInit, CacheInv
<1>3. CallInv
  BY Zenon DEF RInit, CallInv, Walkers
<1> QED
  BY <1>1, <1>2, <1>3, Zenon DEF RInv

\* A directory that is made was in nobody's question.
LEMMA MkdirStep == ASSUME RInv, NEW d \in PodDirs, Mkdir(d) PROVE RInv'
<1>0. TypeOK /\ CacheInv /\ CallInv /\ d \in Ids
  BY Zenon DEF RInv, PodDirs
<1>1. TypeOK'
  BY <1>0, Zenon DEF Mkdir, TypeOK
<1>2. \A e \in ever : e \in dirs' <=> e \in dirs
  BY Zenon DEF Mkdir
<1>3. CacheInv'
  BY <1>0, <1>2, Zenon DEF Mkdir, CacheInv, RightEntry
<1>4. CallInv'
  BY <1>0, <1>2, Zenon DEF Mkdir, CallInv, RightEntry
<1> QED
  BY <1>1, <1>3, <1>4, Zenon DEF RInv

\* A directory that is removed makes no negative answer wrong.
LEMMA RmdirStep == ASSUME RInv, NEW d \in PodDirs, Rmdir(d) PROVE RInv'
<1>0. TypeOK /\ CacheInv /\ CallInv
  BY Zenon DEF RInv
<1>1. TypeOK'
  BY <1>0, Zenon DEF Rmdir, TypeOK
<1>2. CacheInv'
  BY <1>0, Zenon DEF Rmdir, CacheInv, RightEntry
<1>3. CallInv'
  BY <1>0, Zenon DEF Rmdir, CallInv, RightEntry, Walkers
<1> QED
  BY <1>1, <1>2, <1>3, Zenon DEF RInv

\* The informer changes nothing of it.
LEMMA InformerStep ==
  ASSUME RInv, NEW uid, InformerLearns(uid) \/ InformerForgets(uid) PROVE RInv'
BY Zenon DEF InformerLearns, InformerForgets, RInv, TypeOK, CacheInv, CallInv, RightEntry

\* A call begins with what is cached, or goes to the index.
LEMMA LookupStep ==
  ASSUME RInv, NEW c \in Callers, NEW id \in ever, Lookup(c, id) PROVE RInv'
<1>0. TypeOK /\ CacheInv /\ CallInv /\ c \in Walkers
  BY Zenon DEF RInv, Walkers
<1>1. TypeOK'
  BY <1>0, Zenon DEF Lookup, Goto, TypeOK
<1>2. CacheInv'
  BY <1>0, Zenon DEF Lookup, CacheInv, RightEntry
<1>3. CallInv'
  <2>1. \A b \in Callers : b # c => pc'[b] = pc[b] /\ arg'[b] = arg[b] /\ ent'[b] = ent[b]
    BY <1>0, Zenon DEF Lookup, Goto, TypeOK, Walkers
  <2>2. arg'[c] = id /\ UNCHANGED <<dirs, ever, all, idx, unread>>
        /\ \/ pc'[c] = "index"
           \/ pc'[c] = "enrich" /\ id \in DOMAIN idCache /\ ent'[c] = idCache[id]
    BY <1>0, Zenon DEF Lookup, Goto, TypeOK
  <2> QED
    BY <1>0, <2>1, <2>2, Zenon DEF CallInv, CacheInv, RightEntry
<1> QED
  BY <1>1, <1>2, <1>3, Zenon DEF RInv

\* The index is right about what it holds; otherwise a walk begins.
LEMMA LookupIndexStep ==
  ASSUME RInv, NEW c \in Callers, LookupIndex(c) PROVE RInv'
<1>0. TypeOK /\ CacheInv /\ CallInv /\ c \in Walkers
  BY Zenon DEF RInv, Walkers
<1>1. TypeOK'
  BY <1>0, Zenon DEF LookupIndex, BeginWalk, Goto, TypeOK
<1>2. CacheInv'
  BY <1>0, Zenon DEF LookupIndex, CacheInv, RightEntry
<1>3. CallInv'
  <2>1. /\ \A b \in Callers :
             b # c => pc'[b] = pc[b] /\ ent'[b] = ent[b] /\ all'[b] = all[b]
        /\ UNCHANGED <<dirs, ever, arg, idx, unread>>
    BY <1>0, Zenon DEF LookupIndex, BeginWalk, Goto, TypeOK, Walkers
  <2>2. arg[c] \in ever
    BY <1>0, Zenon DEF LookupIndex, CallInv
  <2>3. \/ pc'[c] = "cache" /\ ent'[c] = ParsePath(PathOf[arg[c]])
        \/ pc'[c] = "walk" /\ all'[c] = dirs
    BY <1>0, Zenon DEF LookupIndex, BeginWalk, Goto, TypeOK
  <2> QED
    BY <1>0, <2>1, <2>2, <2>3, Zenon DEF CallInv, RightEntry, Parsed
<1> QED
  BY <1>1, <1>2, <1>3, Zenon DEF RInv

\* A walk ends with the kube directories that were there all the time, but for
\* those it could not read.
LEMMA EndWalkStep == ASSUME RInv, NEW w \in Walkers, EndWalk(w) PROVE RInv'
<1>0. TypeOK /\ CacheInv /\ CallInv
  BY Zenon DEF RInv
<1>1. PICK hidden \in SUBSET KubeDirs(all[w]),
           seen \in SUBSET KubeDirs(some[w] \ all[w]) :
        /\ idx' = [idx EXCEPT ![w] = (KubeDirs(all[w]) \ hidden) \cup seen]
        /\ unread' = unread \cup (hidden \cap {arg[c] : c \in Callers \cap {w}})
  BY Zenon DEF EndWalk
<1>2. (KubeDirs(all[w]) \ hidden) \cup seen \subseteq Ids
  BY <1>0, Zenon DEF TypeOK, KubeDirs
<1>3. TypeOK'
  BY <1>0, <1>1, <1>2, Zenon DEF EndWalk, Goto, TypeOK
<1>4. unread \subseteq unread' /\ UNCHANGED <<dirs, ever, arg, ent, idCache>>
  BY <1>1, Zenon DEF EndWalk
<1>5. \A d, e : RightEntry(d, e) => RightEntry(d, e)'
  BY <1>4, Zenon DEF RightEntry, Parsed
<1>6. CacheInv'
  BY <1>0, <1>4, <1>5, Zenon DEF CacheInv
<1>7. /\ pc[w] = "walk" /\ pc'[w] = "store"
      /\ \A v \in Walkers : v # w => pc'[v] = pc[v] /\ idx'[v] = idx[v] /\ all'[v] = all[v]
  BY <1>0, <1>1, Zenon DEF EndWalk, Goto, TypeOK
<1>8. w \in Callers /\ arg[w] \in dirs \ unread' /\ Parsed(arg[w]) # NoPod =>
        arg[w] \in idx'[w]
  <2> SUFFICES ASSUME w \in Callers, arg[w] \in dirs \ unread', Parsed(arg[w]) # NoPod
               PROVE  arg[w] \in idx'[w]
    BY Zenon
  <2>1. arg[w] \in all[w]
    BY <1>0, <1>7, Zenon DEF CallInv
  <2>2. arg[w] \in KubeDirs(all[w])
    BY <2>1, ParsedAreKube, Zenon DEF KubeDirs
  <2>3. arg[w] \notin hidden
    BY <1>1, Zenon
  <2>4. idx'[w] = (KubeDirs(all[w]) \ hidden) \cup seen
    BY <1>0, <1>1, Zenon DEF TypeOK
  <2> QED
    BY <2>2, <2>3, <2>4, Zenon
<1>9. CallInv'
  BY <1>0, <1>4, <1>5, <1>7, <1>8, Zenon DEF CallInv, Walkers, Parsed
<1> QED
  BY <1>3, <1>6, <1>9, Zenon DEF RInv

\* An id that the caller's own walk did not find has no pod, no directory, or one
\* that the walk could not read.
LEMMA StoreIndexStep ==
  ASSUME RInv, NEW c \in Callers, StoreIndex(c) PROVE RInv'
<1>0. TypeOK /\ CacheInv /\ CallInv /\ c \in Walkers
  BY Zenon DEF RInv, Walkers
<1>1. TypeOK'
  BY <1>0, Zenon DEF StoreIndex, Goto, TypeOK
<1>2. CacheInv'
  BY <1>0, Zenon DEF StoreIndex, CacheInv, RightEntry
<1>3. CallInv'
  <2>1. /\ \A b \in Callers :
             b # c => /\ pc'[b] = pc[b] /\ ent'[b] = ent[b]
                      /\ all'[b] = all[b] /\ idx'[b] = idx[b]
        /\ UNCHANGED <<dirs, ever, arg, unread>>
    BY <1>0, Zenon DEF StoreIndex, Goto, TypeOK, Walkers
  <2>2. /\ arg[c] \in ever /\ pc'[c] = "cache"
        /\ arg[c] \in dirs \ unread /\ Parsed(arg[c]) # NoPod => arg[c] \in idx[c]
    BY <1>0, Zenon DEF StoreIndex, Goto, CallInv, TypeOK
  <2>3. ent'[c] = IF arg[c] \in idx[c] THEN Parsed(arg[c]) ELSE NoPod
    BY <1>0, Zenon DEF StoreIndex, TypeOK, Parsed
  <2>5. RightEntry(arg[c], ent'[c])
    BY <2>2, <2>3, Zenon DEF RightEntry
  <2> QED
    BY <1>0, <2>1, <2>2, <2>5, Zenon DEF CallInv, RightEntry
<1> QED
  BY <1>1, <1>2, <1>3, Zenon DEF RInv

\* The entry that is cached, and returned, is right.
LEMMA StoreEntryStep ==
  ASSUME RInv, NEW c \in Callers, StoreEntry(c) \/ Return(c) PROVE RInv'
<1>0. TypeOK /\ CacheInv /\ CallInv /\ c \in Walkers
  BY Zenon DEF RInv, Walkers
<1>1. TypeOK'
  BY <1>0, Zenon DEF StoreEntry, Return, Goto, TypeOK
<1>2. CacheInv'
  BY <1>0, Zenon DEF StoreEntry, Return, CacheInv, CallInv, RightEntry
<1>3. CallInv'
  BY <1>0, Zenon DEF StoreEntry, Return, Goto, TypeOK, CallInv, RightEntry, Walkers
<1> QED
  BY <1>1, <1>2, <1>3, Zenon DEF RInv

\* Pods() walks for itself.
LEMMA PodsStep == ASSUME RInv, PodsWalk \/ PodsReturn PROVE RInv'
<1>0. TypeOK /\ CacheInv /\ CallInv /\ Programmer \in Walkers
  BY Zenon DEF RInv, Walkers
<1>1. TypeOK'
  BY <1>0, Zenon DEF PodsWalk, PodsReturn, BeginWalk, Goto, TypeOK
<1>2. CacheInv'
  BY <1>0, Zenon DEF PodsWalk, PodsReturn, CacheInv, RightEntry
<1>3. /\ \A c \in Callers : pc'[c] = pc[c] /\ all'[c] = all[c] /\ idx'[c] = idx[c]
      /\ UNCHANGED <<dirs, ever, arg, ent, unread>>
  BY <1>0, CallersAssumption, Zenon
     DEF PodsWalk, PodsReturn, BeginWalk, Goto, TypeOK, Walkers
<1>4. CallInv'
  BY <1>0, <1>3, Zenon DEF CallInv, RightEntry
<1> QED
  BY <1>1, <1>2, <1>4, Zenon DEF RInv

\* Every step preserves the invariant.
LEMMA RInvNext == RInv /\ [RNext]_rvars => RInv'
<1> SUFFICES ASSUME RInv, [RNext]_rvars PROVE RInv'
  BY Zenon
<1>1. CASE RNext
  BY <1>1, MkdirStep, RmdirStep, InformerStep, LookupStep, LookupIndexStep, EndWalkStep,
     StoreIndexStep, StoreEntryStep, PodsStep, Zenon DEF RNext
<1>2. CASE UNCHANGED rvars
  BY <1>2, Zenon DEF rvars, RInv, TypeOK, CacheInv, CallInv, RightEntry
<1> QED
  BY <1>1, <1>2, Zenon

\* The inductive invariant of the resolver holds always.
THEOREM RInvAlways == RSpec => []RInv
BY RInvInit, RInvNext, PTL DEF RSpec

\* The layouts the last two theorems speak of: the parser makes of each path the
\* identity of the pod the kubelet made the directory for.
PathsParse == \A d \in Ids : Parsed(d) = OwnerOf[d]

\* A pod is not given up while it runs: a negative answer that is cached for ever
\* is about a cgroup that exists no more, or that the walk made for it could not
\* read.
THEOREM NegativesAreGone == ASSUME PathsParse PROVE RSpec => []NegativeMeansGone
<1>1. RInv => NegativeMeansGone
  BY Zenon DEF RInv, CacheInv, RightEntry, NegativeMeansGone, PathsParse, PodDirs
<1> QED
  BY <1>1, RInvAlways, PTL

\* However walks, callers and pods interleave, a call returns what the parser makes
\* of the path of its cgroup, for any layout at all; or none, if the cgroup is gone
\* or could not be read.
THEOREM AnswersAreParsed ==
  RSpec => [](\A c \in Callers : pc[c] = "enrich" => RightEntry(arg[c], ent[c]))
<1>1. RInv => \A c \in Callers : pc[c] = "enrich" => RightEntry(arg[c], ent[c])
  BY Zenon DEF RInv, CallInv
<1> QED
  BY <1>1, RInvAlways, PTL

\* So traffic of a running pod is attributed to that pod and no other, where the
\* parser reads the kubelet's paths right.
THEOREM RunningPodsAttributed == ASSUME PathsParse PROVE RSpec => []RunningPodAttributed
<1>1. RInv => RunningPodAttributed
  <2> SUFFICES ASSUME RInv, NEW c \in Callers, pc[c] = "enrich"
               PROVE  /\ arg[c] \in dirs \ unread /\ OwnerOf[arg[c]] # NoPod =>
                           Info(c) = enrich(OwnerOf[arg[c]])
                      /\ Info(c).uid \in {OwnerOf[arg[c]].uid, <<>>}
    BY Zenon DEF RunningPodAttributed
  <2>1. arg[c] \in Ids /\ RightEntry(arg[c], ent[c])
    BY Zenon DEF RInv, CallInv, TypeOK
  <2>2. Parsed(arg[c]) = OwnerOf[arg[c]]
    BY <2>1, Zenon DEF PathsParse
  <2>3. arg[c] \in dirs \ unread /\ OwnerOf[arg[c]] # NoPod =>
          Info(c) = enrich(OwnerOf[arg[c]])
    BY <2>1, <2>2, Zenon DEF RightEntry, Info
  <2>4. Info(c).uid \in {OwnerOf[arg[c]].uid, <<>>}
    BY <2>1, <2>2, Zenon DEF RightEntry, Info, enrich, PodInfo, NoPod
  <2> QED
    BY <2>3, <2>4, Zenon
<1> QED
  BY <1>1, RInvAlways, PTL

-----------------------------------------------------------------------------
(* The CRD source.                                                         *)

RTypeOK ==
  /\ store \in Values
  /\ events \in [Kinds -> Nat]
  /\ rpc \in [Publishers -> {"idle", "list", "list2", "publish"}]
  /\ listed \in [Publishers -> Values]
  /\ solo \in BOOLEAN

\* A goroutine is in rebuild() or in the broadcast rebuild() ends with, and while
\* solo holds no other one is in either.
SoloInv ==
  /\ \A w \in Publishers : rpc[w] # "idle" => bpc[w] = "idle"
  /\ solo => \A v, w \in Publishers : ~Idle(v) /\ ~Idle(w) => v = w

NoEvents == \A k \in Kinds : events[k] = 0

\* As long as no event has come since it began, a rebuild() on its own has what
\* the caches hold, and so has what it published.
RepairInv ==
  solo /\ NoEvents =>
    /\ \A w \in Publishers : rpc[w] = "list2" => listed[w][1] = store[1]
    /\ \A w \in Publishers : rpc[w] = "publish" => listed[w] = store
    /\ (\A w \in Publishers : rpc[w] = "idle") =>
         /\ cur = store
         /\ \A w \in Publishers : bpc[w] # "idle" => val[w] = cur
         /\ (\A w \in Publishers : bpc[w] = "idle") => (told = {} \/ sent = cur)

CInv == BInv /\ RTypeOK /\ SoloInv /\ RepairInv

-----------------------------------------------------------------------------
\* A step of the source is a step of the broadcast code, or none.
LEMMA CRDStepIsBroadcastStep == RTypeOK /\ [CNext]_vars => [BNext]_bvars
<1> SUFFICES ASSUME RTypeOK, CNext PROVE [BNext]_bvars
  BY Zenon DEF vars
<1>1. ASSUME NEW k \in Kinds, Change(k) \/ TakeEvent(k) PROVE UNCHANGED bvars
  BY <1>1, Zenon DEF Change, TakeEvent
<1>2. ASSUME NEW w \in Publishers, RebuildStep(w) \/ ListFails(w) PROVE [BNext]_bvars
  <2>1. CASE ListCluster(w) \/ ListNamespaced(w) \/ ListFails(w)
    BY <2>1, Zenon DEF ListCluster, ListNamespaced, ListFails
  <2>2. CASE PublishAggregate(w)
    <3>1. PICK p \in Values : p = listed[w]
      BY Zenon DEF RTypeOK
    <3>2. SetCur(w, p)
      BY <2>2, <3>1, Zenon DEF PublishAggregate, SetCur
    <3> QED
      BY <3>2, Zenon DEF BNext
  <2>3. CASE Publish(w)
    BY <2>3, Zenon DEF Publish, BNext
  <2> QED
    BY <1>2, <2>1, <2>2, <2>3, Zenon DEF RebuildStep
<1>3. ASSUME NEW c \in Consumers, Consume(c) PROVE BNext
  BY <1>3, Zenon DEF Consume, BNext
<1>4. CASE Rest
  BY <1>4, Zenon DEF Rest, vars
<1> QED
  BY <1>1, <1>2, <1>3, <1>4, Zenon DEF CNext

\* The invariant holds when New() begins.
LEMMA CInvInit == CInit => CInv
<1> SUFFICES ASSUME CInit PROVE CInv
  BY Zenon
<1>1. BInv
  BY BInvInit, Zenon DEF CInit
<1>2. RTypeOK
  BY CRDAssumption, SMTT(30) DEF CInit, RTypeOK
<1>3. SoloInv /\ RepairInv
  BY CRDAssumption, Zenon DEF CInit, BInit, SoloInv, RepairInv, Idle
<1> QED
  BY <1>1, <1>2, <1>3, Zenon DEF CInv

\* Types.
LEMMA CRDTypes == RTypeOK /\ [CNext]_vars => RTypeOK'
<1> SUFFICES ASSUME RTypeOK, [CNext]_vars PROVE RTypeOK'
  BY Zenon
<1>1. ASSUME NEW k \in Kinds, Change(k) PROVE RTypeOK'
  BY <1>1, CRDAssumption, SMTT(30) DEF Change, RTypeOK, Index
<1>2. ASSUME NEW k \in Kinds, TakeEvent(k) PROVE RTypeOK'
  BY <1>2, CRDAssumption, SMTT(30) DEF TakeEvent, RTypeOK
<1>3. ASSUME NEW w \in Publishers, ListCluster(w) \/ ListNamespaced(w) PROVE RTypeOK'
  <2>1. PICK a, b \in 0..MaxVersion : store = <<a, b>>
    BY CRDAssumption DEF RTypeOK
  <2>2. PICK x, y \in 0..MaxVersion : listed[w] = <<x, y>>
    BY CRDAssumption, SMTT(30) DEF RTypeOK
  <2>3. \/ listed' = [listed EXCEPT ![w] = <<a, y>>]
        \/ listed' = [listed EXCEPT ![w] = <<x, b>>]
    BY <1>3, <2>1, <2>2 DEF ListCluster, ListNamespaced
  <2>a. <<a, y>> \in Values /\ <<x, b>> \in Values
    BY CRDAssumption, Zenon
  <2>4. listed' \in [Publishers -> Values]
    BY <2>3, <2>a, Zenon DEF RTypeOK
  <2> QED
    BY <1>3, <2>4, Zenon DEF ListCluster, ListNamespaced, RTypeOK
<1>4. ASSUME NEW w \in Publishers, PublishAggregate(w) \/ ListFails(w) PROVE RTypeOK'
  <2>1. <<0, 0>> \in Values
    BY CRDAssumption, SMTT(30)
  <2>2. listed' = [listed EXCEPT ![w] = <<0, 0>>] /\ rpc' = [rpc EXCEPT ![w] = "idle"]
    BY <1>4, Zenon DEF PublishAggregate, ListFails
  <2>3. listed' \in [Publishers -> Values]
    BY <2>1, <2>2, Zenon DEF RTypeOK
  <2> QED
    BY <1>4, <2>2, <2>3, Zenon DEF PublishAggregate, ListFails, RTypeOK
<1>5. ASSUME UNCHANGED cvars PROVE RTypeOK'
  BY <1>5, Zenon DEF cvars, RTypeOK
<1> QED
  BY <1>1, <1>2, <1>3, <1>4, <1>5, Zenon DEF CNext, RebuildStep, Publish, Consume, Rest,
     vars

\* A change leaves an event behind.
LEMMA ChangeStep ==
  ASSUME CInv, NEW k \in Kinds, Change(k) PROVE SoloInv' /\ RepairInv'
<1>1. SoloInv'
  BY Zenon DEF CInv, Change, bvars, SoloInv, Idle
<1>2. ~NoEvents'
  BY SMTT(30) DEF CInv, RTypeOK, Change, NoEvents
<1> QED
  BY <1>1, <1>2, Zenon DEF RepairInv

\* An event is taken: the rebuild() begins, on its own if all others are idle.
LEMMA TakeEventStep ==
  ASSUME CInv, NEW k \in Kinds, TakeEvent(k) PROVE SoloInv' /\ RepairInv'
<1>0. k \in Publishers /\ rpc'[k] = "list" /\ UNCHANGED bvars
      /\ \A w \in Publishers : w # k => rpc'[w] = rpc[w]
  BY CRDAssumption, Zenon DEF CInv, RTypeOK, TakeEvent
<1>1. SoloInv'
  BY <1>0, Zenon DEF CInv, TakeEvent, bvars, SoloInv, Idle
<1>2. solo' => \A w \in Publishers : w # k => rpc'[w] = "idle"
  BY <1>0, Zenon DEF TakeEvent, Idle
<1> QED
  BY <1>0, <1>1, <1>2, Zenon DEF RepairInv

\* Pairs with equal first components have them in common.
LEMMA FirstOfPair ==
  ASSUME NEW a, NEW b, NEW x, NEW y, <<x, y>>[1] = <<a, b>>[1] PROVE x = a
  BY Zenon

\* The two Lists read the caches.
LEMMA ListStep ==
  ASSUME CInv, NEW w \in Publishers, ListCluster(w) \/ ListNamespaced(w)
  PROVE  SoloInv' /\ RepairInv'
<1>0. BInv /\ RTypeOK /\ SoloInv /\ RepairInv
  BY Zenon DEF CInv
<1>1. /\ UNCHANGED <<bvars, store, events, solo>>
      /\ rpc[w] # "idle" /\ rpc'[w] # "idle"
      /\ \A v \in Publishers : v # w => rpc'[v] = rpc[v] /\ listed'[v] = listed[v]
  BY <1>0, Zenon DEF ListCluster, ListNamespaced, RTypeOK
<1>2. SoloInv'
  BY <1>0, <1>1, Zenon DEF bvars, SoloInv, Idle
<1>3. RepairInv'
  <2> SUFFICES ASSUME solo, NoEvents PROVE RepairInv'
    BY <1>1, Zenon DEF RepairInv, NoEvents
  <2>1. PICK a, b \in 0..MaxVersion : store = <<a, b>>
    BY <1>0, CRDAssumption DEF RTypeOK
  <2>2. PICK x, y \in 0..MaxVersion : listed[w] = <<x, y>>
    BY <1>0, CRDAssumption, SMTT(30) DEF RTypeOK
  <2>3. CASE ListCluster(w)
    <3>1. listed'[w] = <<a, y>> /\ rpc'[w] = "list2"
      BY <1>0, <2>1, <2>2, <2>3 DEF ListCluster, RTypeOK
    <3> QED
      BY <1>0, <1>1, <2>1, <3>1, SMTT(30) DEF RepairInv
  <2>4. CASE ListNamespaced(w)
    <3>1. listed'[w] = <<x, b>> /\ rpc'[w] = "publish" /\ rpc[w] = "list2"
      BY <1>0, <2>1, <2>2, <2>4, SMTT(30) DEF ListNamespaced, RTypeOK
    <3>2. x = a
      <4>1. listed[w][1] = store[1]
        BY <1>0, <3>1, Zenon DEF RepairInv
      <4>2. <<x, y>>[1] = <<a, b>>[1]
        BY <2>1, <2>2, <4>1, Zenon
      <4> QED
        BY <4>2, FirstOfPair, Zenon
    <3> QED
      BY <1>0, <1>1, <2>1, <3>1, <3>2, Zenon DEF RepairInv
  <2> QED
    BY <2>3, <2>4, Zenon
<1> QED
  BY <1>2, <1>3, Zenon

\* A List that fails ends the claim to have been alone.
LEMMA ListFailsStep ==
  ASSUME CInv, NEW w \in Publishers, ListFails(w) PROVE SoloInv' /\ RepairInv'
BY Zenon DEF CInv, RTypeOK, ListFails, bvars, SoloInv, RepairInv

\* The aggregate is stored, and its broadcast is due.
LEMMA PublishAggregateStep ==
  ASSUME CInv, NEW w \in Publishers, PublishAggregate(w) PROVE SoloInv' /\ RepairInv'
<1>0. BTypeOK /\ RTypeOK /\ SoloInv /\ RepairInv
  BY Zenon DEF CInv, BInv
<1>1. /\ UNCHANGED <<store, events, solo, sent, told>>
      /\ rpc[w] = "publish" /\ rpc'[w] = "idle" /\ bpc'[w] = "lock"
      /\ cur' = listed[w] /\ val'[w] = listed[w]
      /\ \A v \in Publishers :
           v # w => /\ rpc'[v] = rpc[v] /\ listed'[v] = listed[v]
                    /\ bpc'[v] = bpc[v] /\ val'[v] = val[v]
  BY <1>0, Zenon DEF PublishAggregate, SetCur, RTypeOK, BTypeOK
<1>2. SoloInv'
  BY <1>0, <1>1, ZenonT(30) DEF SoloInv, Idle
<1>3. RepairInv'
  <2> SUFFICES ASSUME solo, NoEvents PROVE RepairInv'
    BY <1>1, Zenon DEF RepairInv, NoEvents
  <2>1. \A v \in Publishers : v # w => Idle(v)
    BY <1>0, <1>1, Zenon DEF SoloInv, Idle
  <2>2. listed[w] = store
    BY <1>0, <1>1, Zenon DEF RepairInv
  <2> QED
    BY <1>1, <2>1, <2>2, Zenon DEF RepairInv, Idle
<1> QED
  BY <1>2, <1>3, Zenon

\* A broadcast tells what was stored.
LEMMA CRDPublishStep ==
  ASSUME CInv, NEW w \in Publishers, Publish(w) PROVE SoloInv' /\ RepairInv'
<1>0. BInv /\ BTypeOK /\ RTypeOK /\ SoloInv /\ RepairInv
  BY Zenon DEF CInv, BInv
<1>1. UNCHANGED <<cvars, cur>> /\ bpc[w] # "idle"
  BY Zenon DEF Publish, BroadcastStep, Lock, Send, Drain, Resend, Unlock
<1>2. \A v \in Publishers : v # w => bpc'[v] = bpc[v] /\ val'[v] = val[v]
  BY <1>0, Zenon DEF Publish, BroadcastStep, Lock, Send, Drain, Resend, Unlock, BTypeOK
<1>3. \/ bpc'[w] # "idle" /\ val'[w] = val[w]
      \/ bpc'[w] = "idle" /\ UNCHANGED <<sent, told>> /\ sent = val[w]
  <2>1. CASE Unlock(w)
    <3>1. subMu = w /\ subMu # Nobody
      BY <1>0, <2>1, BroadcastAssumption, Zenon DEF Unlock, BInv, HolderInv
    <3> QED
      BY <1>0, <2>1, <3>1, Zenon DEF Unlock, BInv, SentInv, BTypeOK
  <2>2. CASE ~Unlock(w)
    BY <1>0, <2>2, Zenon DEF Publish, BroadcastStep, Lock, Send, Drain, Resend, BTypeOK
  <2> QED
    BY <2>1, <2>2, Zenon
<1>4. SoloInv'
  BY <1>0, <1>1, <1>2, Zenon DEF cvars, SoloInv, Idle
<1>5. RepairInv'
  <2> SUFFICES ASSUME solo, NoEvents PROVE RepairInv'
    BY <1>1, Zenon DEF RepairInv, NoEvents, cvars
  <2> QED
    BY <1>0, <1>1, <1>2, <1>3, ZenonT(30) DEF RepairInv, cvars
<1> QED
  BY <1>4, <1>5, Zenon

\* What consumers do is nothing to the publishers.
LEMMA CRDConsumeStep ==
  ASSUME CInv, NEW c \in Consumers, Consume(c) PROVE SoloInv' /\ RepairInv'
<1>1. UNCHANGED <<cvars, cur, bpc, val, sent, told>>
  BY Zenon DEF Consume, Snapshot, Subscribe, Receive, Quit
<1>2. UNCHANGED <<store, events, rpc, listed, solo>>
  BY <1>1, Zenon DEF cvars
<1>3. SoloInv'
  BY <1>1, <1>2, Zenon DEF CInv, SoloInv, Idle
<1>4. NoEvents' = NoEvents
  BY <1>2, Zenon DEF NoEvents
<1>5. RepairInv'
  BY <1>1, <1>2, <1>4, Zenon DEF CInv, RepairInv
<1> QED
  BY <1>3, <1>5, Zenon

\* Every step preserves the invariant.
LEMMA CInvNext == CInv /\ [CNext]_vars => CInv'
<1> SUFFICES ASSUME CInv, [CNext]_vars PROVE CInv'
  BY Zenon
<1>1. BInv' /\ RTypeOK'
  BY CRDStepIsBroadcastStep, CRDTypes, BInvNext, Zenon DEF CInv
<1>2. CASE CNext
  <2>1. ASSUME Rest PROVE SoloInv' /\ RepairInv'
    BY <2>1, Zenon
       DEF Rest, vars, cvars, bvars, CInv, SoloInv, RepairInv, Idle, NoEvents
  <2>2. SoloInv' /\ RepairInv'
    BY <1>2, <2>1, ChangeStep, TakeEventStep, ListStep, ListFailsStep,
       PublishAggregateStep, CRDPublishStep, CRDConsumeStep, Zenon DEF CNext, RebuildStep
  <2> QED
    BY <1>1, <2>2, Zenon DEF CInv
<1>3. CASE UNCHANGED vars
  BY <1>1, <1>3, Zenon DEF vars, cvars, bvars, CInv, SoloInv, RepairInv, Idle, NoEvents
<1> QED
  BY <1>2, <1>3, Zenon

\* The inductive invariant of the CRD source holds always.
THEOREM CInvAlways == CSpec => []CInv
BY CInvInit, CInvNext, PTL DEF CSpec

\* One rebuild() that nothing overlapped repairs whatever went before.
THEOREM SoloRepairs == CSpec => []SoloRebuildRepairs
<1>1. CInv => SoloRebuildRepairs
  <2> SUFFICES ASSUME CInv, Quiet, solo PROVE cur = store /\ \A c \in told : Box(c) = cur
    BY Zenon DEF SoloRebuildRepairs
  <2>1. cur = store /\ (told = {} \/ sent = cur)
    BY Zenon DEF CInv, Quiet, Idle, RepairInv, NoEvents
  <2>2. subMu = Nobody
    BY Zenon DEF CInv, BInv, BTypeOK, HolderInv, Quiet, Idle
  <2> QED
    BY <2>1, <2>2, Zenon DEF CInv, BInv, HolderInv, SentInv
<1> QED
  BY <1>1, CInvAlways, PTL

\* The CRD source implements the contract of a policy source.
THEOREM CRDSourceKeepsContract == CSpec => KeepsContract
<1>1. CInit => BInit
  BY Zenon DEF CInit
<1>2. CInv /\ [CNext]_vars => [BNext]_bvars
  BY CRDStepIsBroadcastStep, Zenon DEF CInv
<1>3. CSpec => BSpec
  BY <1>1, <1>2, CInvAlways, PTL DEF CSpec, BSpec
<1> QED
  BY <1>3, ImplementsContract, Zenon
=============================================================================
