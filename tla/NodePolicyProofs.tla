-------------------------- MODULE NodePolicyProofs --------------------------
(***************************************************************************)
(* Proofs about NodePolicy, for any objects, files, pods, ports and        *)
(* domains and any width of an address: a node's policy is valid, the      *)
(* kernel and the engine agree on it, it means what its objects or its     *)
(* file mean, and a tenant's policy stays in its namespace.                *)
(***************************************************************************)
EXTENDS KernelProofs

-----------------------------------------------------------------------------
(* The objects and the file, as users leave them.                          *)

\* The objects of an API server: finitely many, typed, told apart by their names.
Objects(O) ==
  /\ IsFiniteSet(O)
  /\ \A o \in O : o.namespace \in Nat /\ o.name \in Nat /\ RulesTyped(o.spec.rules)
  /\ \A a, b \in O : a.namespace = b.namespace /\ a.name = b.name => a = b

NInv ==
  /\ Objects(cluster) /\ Objects(tenants)
  /\ \A c \in cluster : c.namespace = 0
  /\ \A t \in tenants : t.namespace # 0
  /\ Valid(file) /\ RulesTyped(file.rules)
  /\ source \in {"crd", "file"}
  /\ source = "file" => tenants = {}

\* Replacing the object of a name keeps the objects apart.
LEMMA ReplacedObject ==
  ASSUME NEW O, Objects(O), NEW ns \in Nat, NEW n \in Nat, NEW spec, RulesTyped(spec.rules),
         NEW P \in SUBSET O, \A o \in P : o.namespace # ns \/ o.name # n
  PROVE  Objects(P \cup {[namespace |-> ns, name |-> n, spec |-> spec]}) /\ Objects(P)
<1> DEFINE x == [namespace |-> ns, name |-> n, spec |-> spec]
<1>1. x.namespace = ns /\ x.name = n /\ x.spec = spec
  BY Zenon
<1> HIDE DEF x
<1>2. IsFiniteSet(P) /\ IsFiniteSet(P \cup {x})
  BY FS_Subset, FS_AddElement, Zenon DEF Objects
<1>3. Objects(P)
  BY <1>2, Zenon DEF Objects
<1>4. Objects(P \cup {x})
  BY <1>1, <1>2, <1>3, Zenon DEF Objects
<1> QED
  BY <1>3, <1>4, Zenon DEF x

\* The state that users make of the objects and the file is a proper one.
LEMMA ObjectsTyped == Spec => []NInv
<1>1. Init => NInv
  <2> SUFFICES ASSUME Init PROVE NInv
    BY Zenon
  <2>1. Objects({})
    BY FS_EmptySet, Zenon DEF Objects
  <2>2. EmptyPolicy.rules = <<>> /\ EmptyPolicy.defaultAction = PostureAllow
          /\ EmptyPolicy.podSelector.exprs = {}
    BY Zenon DEF EmptyPolicy, EmptySelector
  <2>3. Range(<<>>) = {}
    BY DEF Range
  <2>4. Valid(EmptyPolicy) /\ RulesTyped(EmptyPolicy.rules)
    BY <2>2, <2>3 DEF Valid, RulesTyped
  <2> QED
    BY <2>1, <2>4, Zenon DEF Init, NInv
<1>2. NInv /\ [Next]_vars => NInv'
  <2> SUFFICES ASSUME NInv, [Next]_vars PROVE NInv'
    BY Zenon
  <2>1. ASSUME NEW n \in ClusterNames, NEW spec \in ClusterSpecs, PutCluster(n, spec)
        PROVE  NInv'
    <3> DEFINE P == OtherCluster(n)
    <3>1. P \in SUBSET cluster /\ \A o \in P : o.namespace # 0 \/ o.name # n
      BY Zenon DEF OtherCluster
    <3>2. n \in Nat /\ RulesTyped(spec.rules)
      BY NamesAssumption, RulesAssumption, Zenon
    <3> HIDE DEF P
    <3>3. Objects(P \cup {[namespace |-> 0, name |-> n, spec |-> spec]})
      BY <3>1, <3>2, ReplacedObject, Zenon DEF NInv
    <3> QED
      BY <2>1, <3>1, <3>3 DEF PutCluster, NInv, P
  <2>2. ASSUME NEW n \in ClusterNames, DeleteCluster(n) PROVE NInv'
    <3>1. OtherCluster(n) \in SUBSET cluster
      BY Zenon DEF OtherCluster
    <3>2. Objects(OtherCluster(n))
      BY <3>1, FS_Subset, Zenon DEF NInv, Objects
    <3> QED
      BY <2>2, <3>1, <3>2, Zenon DEF DeleteCluster, NInv
  <2>3. ASSUME NEW id \in TenantNames, NEW spec \in TenantSpecs, PutTenant(id, spec)
        PROVE  NInv'
    <3> DEFINE P == OtherTenants(id)
    <3>1. PICK ns \in Nat \ {0}, n \in Nat : id = <<ns, n>> /\ id[1] = ns /\ id[2] = n
      BY NamesAssumption
    <3>2. \A o \in P : o.namespace # ns \/ o.name # n
      BY <3>1, Zenon DEF OtherTenants
    <3>3. P \in SUBSET tenants /\ RulesTyped(spec.rules)
      BY RulesAssumption, Zenon DEF OtherTenants
    <3> HIDE DEF P
    <3>4. Objects(P \cup {[namespace |-> ns, name |-> n, spec |-> spec]})
      BY <3>2, <3>3, ReplacedObject, Zenon DEF NInv
    <3> QED
      BY <2>3, <3>1, <3>3, <3>4 DEF PutTenant, NInv, P
  <2>4. ASSUME NEW id \in TenantNames, DeleteTenant(id) PROVE NInv'
    <3>1. OtherTenants(id) \in SUBSET tenants
      BY Zenon DEF OtherTenants
    <3>2. Objects(OtherTenants(id))
      BY <3>1, FS_Subset, Zenon DEF NInv, Objects
    <3> QED
      BY <2>4, <3>1, <3>2, Zenon DEF DeleteTenant, NInv
  <2>5. ASSUME NEW p \in FilePolicies, EditFile(p) PROVE NInv'
    BY <2>5, FilePoliciesAssumption, RulesAssumption, Zenon DEF EditFile, NInv
  <2>6. CASE UNCHANGED vars
    BY <2>6, Zenon DEF vars, NInv
  <2> QED
    BY <2>1, <2>2, <2>3, <2>4, <2>5, <2>6, Zenon DEF Next
<1> QED
  BY <1>1, <1>2, PTL DEF Spec

\* The valid ones among the objects can be aggregated.
LEMMA ConvertedObjects ==
  ASSUME NEW O, Objects(O)
  PROVE  /\ Named(ValidOnes(O)) /\ HasRules(ValidOnes(O))
         /\ \A o \in ValidOnes(O) :
              /\ Valid(o.policy)
              /\ \A i \in 1..Len(o.policy.rules) :
                   RuleTyped(o.policy.rules[i]) /\ o.policy.rules[i].pod = AnyPod
<1> DEFINE Conv(o) == [namespace |-> o.namespace, name |-> o.name, policy |-> ToPolicy(o.spec)]
<1>1. ValidOnes(O) \subseteq {Conv(o) : o \in O} /\ \A o \in ValidOnes(O) : Valid(o.policy)
  BY Zenon DEF ValidOnes, Converted
<1>2. \A o : /\ Conv(o).namespace = o.namespace /\ Conv(o).name = o.name
             /\ Conv(o).policy = ToPolicy(o.spec)
  BY Zenon
<1>3. IsFiniteSet({Conv(o) : o \in O})
  <2>1. IsFiniteSet(O)
    BY Zenon DEF Objects
  <2> HIDE DEF Conv
  <2> DEFINE T == {Conv(o) : o \in O}
             g == [o \in O |-> Conv(o)]
  <2>2. g \in Surjection(O, T)
    BY Zenon DEF Surjection
  <2> HIDE DEF g, T
  <2>3. IsFiniteSet(T)
    BY <2>1, <2>2, FS_Surjection, Zenon
  <2> QED
    BY <2>3, Zenon DEF T
<1> HIDE DEF Conv
<1>4. IsFiniteSet(ValidOnes(O))
  BY <1>1, <1>3, FS_Subset, Zenon
<1>5. Named(ValidOnes(O))
  BY <1>1, <1>2, <1>4 DEF Named, Objects
<1>6. ASSUME NEW o \in ValidOnes(O)
      PROVE  /\ o.policy.rules \in Seq(Range(o.policy.rules))
             /\ \A i \in 1..Len(o.policy.rules) :
                  RuleTyped(o.policy.rules[i]) /\ o.policy.rules[i].pod = AnyPod
  <2>1. PICK x \in O : o.policy = ToPolicy(x.spec)
    BY <1>1, <1>2, Zenon
  <2>2. PICK s : s = x.spec.rules
    BY Zenon
  <2>3. s \in Seq(Range(s)) /\ \A r \in Range(s) : RuleTyped(r)
    BY <2>2, Zenon DEF Objects, RulesTyped
  <2>4. PICK n \in Nat : n = Len(s) /\ DOMAIN s = 1..n
    BY <2>3
  <2> DEFINE t == [i \in 1..n |-> ToRule(s[i])]
  <2>5. o.policy.rules = t
    BY <2>1, <2>2, <2>4 DEF ToPolicy
  <2>6. t \in Seq(Range(t)) /\ Len(t) = n
    BY DEF Range
  <2>7. ASSUME NEW i \in 1..n PROVE RuleTyped(t[i]) /\ t[i].pod = AnyPod
    <3>1. RuleTyped(s[i])
      BY <2>3, <2>4, Zenon DEF Range
    <3>2. t[i].path = s[i].path /\ t[i].cidrs = s[i].cidrs /\ t[i].pod = AnyPod
      BY Zenon DEF ToRule
    <3> QED
      BY <3>1, <3>2, Zenon DEF RuleTyped
  <2> HIDE DEF t
  <2> QED
    BY <2>5, <2>6, <2>7, Zenon
<1> QED
  BY <1>1, <1>5, <1>6, Zenon DEF HasRules

-----------------------------------------------------------------------------
(* Every policy a node gets is valid.                                      *)

\* Valid policies with proper names and rules: what an aggregation starts from.
Sound(O) ==
  /\ Named(O) /\ HasRules(O)
  /\ \A o \in O : /\ Valid(o.policy)
                  /\ \A i \in 1..Len(o.policy.rules) : RuleTyped(o.policy.rules[i])

\* Such policies contribute typed rules.
LEMMA ContributedAreTyped ==
  ASSUME NEW O, Sound(O) PROVE \A r \in Contributed(O) : RuleTyped(r)
<1> SUFFICES ASSUME NEW o \in O, NEW r \in Range(FoldedRules(o)) \cup Range(CatchAlls(o))
             PROVE  RuleTyped(r)
  BY Zenon DEF Contributed
<1>1. CASE r \in Range(FoldedRules(o))
  <2>1. PICK i \in 1..Len(o.policy.rules) :
          r = FoldRule(o.policy.rules[i], o.policy.podSelector, o.namespace)
    BY <1>1, Zenon DEF FoldedRules, Range
  <2>2. RuleTyped(o.policy.rules[i])
    BY Zenon DEF Sound
  <2>3. r.path = o.policy.rules[i].path /\ r.cidrs = o.policy.rules[i].cidrs
    BY <2>1, Zenon DEF FoldRule, WithPod
  <2> QED
    BY <2>2, <2>3, Zenon DEF RuleTyped
<1>2. CASE r \in Range(CatchAlls(o))
  <2>1. PICK c : c = SubjectCatchAll(o.policy.podSelector, o.namespace)
    BY Zenon
  <2>2. Range(<<c>>) = {c} /\ Range(<<>>) = {}
    BY DEF Range
  <2>3. CatchAlls(o) = <<c>> \/ CatchAlls(o) = <<>>
    BY <2>1, Zenon DEF CatchAlls
  <2>4. r = c
    BY <1>2, <2>2, <2>3, Zenon
  <2>5. c.path = <<>> /\ c.cidrs = {}
    BY <2>1, Zenon DEF SubjectCatchAll, WithPod, DenyAll, BlankRule
  <2> QED
    BY <2>2, <2>4, <2>5 DEF RuleTyped
<1> QED
  BY <1>1, <1>2, Zenon

\* The aggregate of such policies is valid and typed.
LEMMA AggregateOfSound ==
  ASSUME NEW C, NEW N, Sound(C), Sound(N)
  PROVE  /\ Valid(Aggregate(C, N))
         /\ \E S : Aggregate(C, N).rules \in Seq(S) /\ \A r \in S : RuleTyped(r)
<1>1. Valid(Aggregate(C, N))
  BY AggregateOfValid, Zenon DEF Sound
<1> DEFINE S == Contributed(C) \cup Contributed(N)
<1>2. Contributed(C) \subseteq S /\ Contributed(N) \subseteq S /\ \A r \in S : RuleTyped(r)
  BY ContributedAreTyped, Zenon
<1> HIDE DEF S
<1>3. Aggregate(C, N).rules \in Seq(S)
  BY <1>2, AggregateFirst, Zenon DEF Sound
<1> QED
  BY <1>1, <1>2, <1>3, Zenon

\* The objects, and the one policy Flatten makes of a file, are such policies.
LEMMA SoundSources ==
  ASSUME NInv
  PROVE  /\ Sound(ValidOnes(cluster)) /\ Sound(ValidOnes(tenants)) /\ Sound({})
         /\ Sound({[namespace |-> 0, name |-> 1, policy |-> file]})
<1>1. ASSUME NEW O, Objects(O) PROVE Sound(ValidOnes(O))
  BY <1>1, ConvertedObjects, Zenon DEF Sound
<1>2. Sound({})
  BY FS_EmptySet, Zenon DEF Sound, Named, HasRules
<1>3. PICK x : x = [namespace |-> 0, name |-> 1, policy |-> file]
  BY Zenon
<1>4. x.namespace = 0 /\ x.name = 1 /\ x.policy = file
  BY <1>3, Zenon
<1>5. Named({x})
  BY <1>4, FS_Singleton DEF Named
<1>6. Valid(file) /\ file.rules \in Seq(Range(file.rules))
  BY Zenon DEF NInv, RulesTyped
<1>7. \A i \in 1..Len(file.rules) : RuleTyped(file.rules[i])
  BY <1>6 DEF NInv, RulesTyped, Range
<1>8. Sound({x})
  BY <1>4, <1>5, <1>6, <1>7, Zenon DEF Sound, HasRules
<1> QED
  BY <1>1, <1>2, <1>3, <1>8, Zenon DEF NInv

\* What the node enforces is valid, and its rules are typed.
LEMMA NodePolicyIsSound ==
  ASSUME NInv
  PROVE  /\ AggregateIsValid
         /\ \E S : NodePolicy.rules \in Seq(S) /\ \A r \in S : RuleTyped(r)
<1>1. CASE source = "crd"
  BY <1>1, SoundSources, AggregateOfSound, Zenon DEF NodePolicy, Rebuild, AggregateIsValid
<1>2. CASE source # "crd" /\ ~SelectorEmpty(file.podSelector)
  BY <1>2, SoundSources, AggregateOfSound, Zenon DEF NodePolicy, Flatten, AggregateIsValid
<1>3. CASE source # "crd" /\ SelectorEmpty(file.podSelector)
  BY <1>3, Zenon DEF NodePolicy, Flatten, AggregateIsValid, NInv, RulesTyped
<1> QED
  BY <1>1, <1>2, <1>3, Zenon

\* Whatever objects or file users make, no consumer refuses what the node
\* aggregates or flattens from them.
THEOREM AlwaysValid == Spec => []AggregateIsValid
<1>1. NInv => AggregateIsValid
  BY NodePolicyIsSound, Zenon
<1> QED
  BY <1>1, ObjectsTyped, PTL

\* The kernel agrees with the engine on every packet about which no domain is
\* known, for every policy and every file users make, where the maps can express
\* the rules and their order agrees with that of the lookups.
THEOREM KernelAgrees == Spec => []DatapathMatchesEngine
<1>1. ASSUME NInv PROVE DatapathMatchesEngine
  <2>1. PICK p : p = NodePolicy
    BY Zenon
  <2>2. PICK S : p.rules \in Seq(S) /\ \A r \in S : RuleTyped(r)
    BY <1>1, <2>1, NodePolicyIsSound, Zenon
  <2>3. Valid(p)
    BY <1>1, <2>1, NodePolicyIsSound, Zenon DEF AggregateIsValid
  <2>4. PICK m : m = Programmed(p, PodTable)
    BY Zenon
  <2>5. Realizes(m, p, PodTable)
    BY <2>2, <2>4, ProgrammedRealizes, Zenon
  <2>6. \A ip \in Address : ip \in Nat
    BY DEF Address
  <2>7. ASSUME AllExpressible(p), NEW cg \in DOMAIN PodTable, NEW ip \in Address,
               NEW port \in Ports, RuleOrderAgrees(p, cg, ip, port)
        PROVE  verdict_for(m, cg, ip, port) =
                 ActionByte(Evaluate(p, BareFlow(PodTable[cg], ip, port)))
    BY <2>2, <2>3, <2>5, <2>6, <2>7, RealizedVerdict, Zenon
  <2> QED
    BY <2>1, <2>4, <2>7, Zenon DEF DatapathMatchesEngine
<1> QED
  BY <1>1, ObjectsTyped, PTL

\* Leaving out one tenant's policy changes only what is in its namespace.
LEMMA IsolatedTenant ==
  ASSUME NInv, source = "crd", NEW t \in tenants
  PROVE  LET C == ValidOnes(cluster)
             N == ValidOnes(tenants)
             M == ValidOnes(tenants \ {t})
         IN  /\ Sound(C) /\ Sound(N) /\ Sound(M)
             /\ M \in SUBSET N
             /\ \A o \in N \ M : o.namespace = t.namespace /\ o.namespace # 0
<1>1. Objects(tenants \ {t})
  BY FS_Subset, Zenon DEF NInv, Objects
<1>2. Sound(ValidOnes(tenants \ {t}))
  BY <1>1, ConvertedObjects, Zenon DEF Sound
<1>3. ValidOnes(tenants \ {t}) \in SUBSET ValidOnes(tenants)
  BY Zenon DEF ValidOnes, Converted
<1>4. ASSUME NEW o \in ValidOnes(tenants), o \notin ValidOnes(tenants \ {t})
      PROVE  o.namespace = t.namespace
  <2>1. PICK x \in tenants :
          o = [namespace |-> x.namespace, name |-> x.name, policy |-> ToPolicy(x.spec)]
    BY Zenon DEF ValidOnes, Converted
  <2>2. x = t
    BY <1>4, <2>1, Zenon DEF ValidOnes, Converted
  <2> QED
    BY <2>1, <2>2, Zenon
<1> QED
  BY <1>2, <1>3, <1>4, SoundSources, Zenon DEF NInv

\* A namespaced policy changes nothing for the pods of other namespaces, whatever
\* other policies there are: neither for the engine nor for the kernel.
THEOREM TenantsIsolated == Spec => []TenantIsolation
<1>1. ASSUME NInv, source = "crd", NEW t \in tenants
      PROVE  LET p == NodePolicy
                 m == Programmed(p, PodTable)
                 q == Rebuild(cluster, tenants \ {t})
                 n == Programmed(q, PodTable)
             IN  /\ \A f \in Flows :
                      ~InScope(t, f.pod) => Evaluate(p, f) = Evaluate(q, f)
                 /\ \A cg \in DOMAIN PodTable : \A ip \in Address, port \in Ports :
                      ~InScope(t, PodTable[cg])
                        => verdict_for(m, cg, ip, port) = verdict_for(n, cg, ip, port)
  <2>1. PICK C, N : C = ValidOnes(cluster) /\ N = ValidOnes(tenants)
    BY Zenon
  <2>2. PICK M \in SUBSET N :
          /\ M = ValidOnes(tenants \ {t})
          /\ Sound(C) /\ Sound(N) /\ Sound(M)
          /\ \A o \in N \ M : o.namespace = t.namespace /\ o.namespace # 0
    BY <1>1, <2>1, IsolatedTenant, Zenon
  <2>3. PICK p, q : /\ p = Aggregate(C, N) /\ q = Aggregate(C, M)
                    /\ p = NodePolicy /\ q = Rebuild(cluster, tenants \ {t})
    BY <1>1, <2>1, <2>2, Zenon DEF NodePolicy, Rebuild
  <2>4. PICK S : S = Contributed(C) \cup Contributed(N)
    BY Zenon
  <2>5. ASSUME NEW H \in SUBSET S,
               \A o \in N \ M : \A r \in Range(FoldedRules(o)) \cup Range(CatchAlls(o)) : r \notin H
        PROVE  /\ p.rules \in Seq(S) /\ q.rules \in Seq(S)
               /\ EffectiveDefault(p) = EffectiveDefault(q)
               /\ \/ NoneOf(p.rules, H) /\ NoneOf(q.rules, H)
                  \/ \E x : IsFirst(p.rules, H, x) /\ IsFirst(q.rules, H, x)
    <3>1. ASSUME NEW o \in N \ M
          PROVE  NoneOf(FoldedRules(o), H) /\ NoneOf(CatchAlls(o), H)
      <4>1. ASSUME NEW T, NEW s \in Seq(T), \A r \in Range(s) : r \notin H PROVE NoneOf(s, H)
        BY <4>1 DEF NoneOf, Range
      <4>2. FoldedRules(o) \in Seq(Contributed(N)) /\ CatchAlls(o) \in Seq(Contributed(N))
        BY <2>2, PieceTypes DEF Sound, FoldedOf, CatchAllsOf
      <4> QED
        BY <2>5, <4>1, <4>2, Zenon
    <3>2. Named(C) /\ Named(N) /\ HasRules(C) /\ HasRules(N)
      BY <2>2, Zenon DEF Sound
    <3>3. /\ p.rules \in Seq(S) /\ q.rules \in Seq(S)
          /\ q.defaultAction = p.defaultAction
          /\ \/ NoneOf(p.rules, H) /\ NoneOf(q.rules, H)
             \/ \E x : IsFirst(p.rules, H, x) /\ IsFirst(q.rules, H, x)
      BY <2>2, <2>3, <2>4, <3>1, <3>2, AggregateWithout, Zenon
    <3> QED
      BY <3>3, Zenon DEF EffectiveDefault
  <2>6. ASSUME NEW f \in Flows, ~InScope(t, f.pod) PROVE Evaluate(p, f) = Evaluate(q, f)
    <3> DEFINE H == {r \in S : RuleMatches(r, f)}
    <3>1. \A o \in N \ M : \A r \in Range(FoldedRules(o)) \cup Range(CatchAlls(o)) : r \notin H
      BY <2>2, <2>6, ScopedRules, Zenon DEF InScope
    <3>2. H \in SUBSET S /\ Matching(S, H, f)
      BY Zenon DEF Matching
    <3> HIDE DEF H
    <3>3. /\ p.rules \in Seq(S) /\ q.rules \in Seq(S)
          /\ EffectiveDefault(p) = EffectiveDefault(q)
          /\ \/ NoneOf(p.rules, H) /\ NoneOf(q.rules, H)
             \/ \E x : IsFirst(p.rules, H, x) /\ IsFirst(q.rules, H, x)
      BY <2>5, <3>1, <3>2, Zenon
    <3>4. /\ NoneOf(p.rules, H) => Evaluate(p, f) = EffectiveDefault(p)
          /\ \A x : IsFirst(p.rules, H, x) => Evaluate(p, f) = x.action
      BY <3>2, <3>3, EvaluateIs, Zenon
    <3>5. /\ NoneOf(q.rules, H) => Evaluate(q, f) = EffectiveDefault(q)
          /\ \A x : IsFirst(q.rules, H, x) => Evaluate(q, f) = x.action
      BY <3>2, <3>3, EvaluateIs, Zenon
    <3> QED
      BY <3>3, <3>4, <3>5
  <2>7. PICK m, n : m = Programmed(p, PodTable) /\ n = Programmed(q, PodTable)
    BY Zenon
  <2>8. p.rules \in Seq(S) /\ q.rules \in Seq(S)
    <3>1. {} \in SUBSET S
      BY Zenon
    <3> QED
      BY <2>5, <3>1, Zenon
  <2>9. Realizes(m, p, PodTable) /\ Realizes(n, q, PodTable)
    BY <2>7, <2>8, ProgrammedRealizes, Zenon
  <2>10. (\A k \in DOMAIN m : IsKey(k)) /\ (\A k \in DOMAIN n : IsKey(k))
    <3>1. ASSUME NEW x, NEW T, x.rules \in Seq(T), \A r \in T : RuleTyped(r), Valid(x),
                 NEW w, Realizes(w, x, PodTable), NEW k \in DOMAIN w
          PROVE  IsKey(k)
      <4>1. k = GlobalDefault \/ \E i \in 1..Len(x.rules) : k \in RuleKeys(x, PodTable, i)
        BY <3>1, Zenon DEF Realizes, DesiredKeys
      <4>2. IsKey(GlobalDefault)
        BY Zenon DEF IsKey, GlobalDefault
      <4>3. \A i \in 1..Len(x.rules) : RuleValid(x.rules[i]) /\ RuleTyped(x.rules[i])
        <5>1. \A i \in 1..Len(x.rules) : x.rules[i] \in T
          BY <3>1
        <5>2. \A i \in 1..Len(x.rules) : RuleValid(x.rules[i])
          BY <3>1, Zenon DEF Valid
        <5> QED
          BY <3>1, <5>1, <5>2, Zenon
      <4> QED
        BY <4>1, <4>2, <4>3, RuleKeysAreKeys, Zenon
    <3>2. Valid(p) /\ Valid(q)
      BY <2>2, <2>3, AggregateOfSound, Zenon
    <3>3. \A r \in S : RuleTyped(r)
      BY <2>2, <2>4, ContributedAreTyped, Zenon
    <3> QED
      BY <2>8, <2>9, <3>1, <3>2, <3>3, Zenon
  <2>11. ASSUME NEW cg \in DOMAIN PodTable, ~InScope(t, PodTable[cg]), NEW ip, NEW port
         PROVE  verdict_for(m, cg, ip, port) = verdict_for(n, cg, ip, port)
    <3>1. ASSUME NEW k, k.cgroup_id \in {0, cg}
          PROVE  /\ k \in DOMAIN m <=> k \in DOMAIN n
                 /\ k \in DOMAIN m => m[k] = n[k]
      <4> DEFINE H == {r \in S : k \in KeysOf(r)}
      <4>1. \A o \in N \ M : \A r \in Range(FoldedRules(o)) \cup Range(CatchAlls(o)) : r \notin H
        BY <2>2, <2>11, <3>1, ScopedRules, Zenon DEF InScope
      <4>2. H \in SUBSET S /\ \A r \in S : r \in H <=> k \in KeysOf(r)
        BY Zenon
      <4> HIDE DEF H
      <4>3. /\ EffectiveDefault(p) = EffectiveDefault(q)
            /\ \/ NoneOf(p.rules, H) /\ NoneOf(q.rules, H)
               \/ \E x : IsFirst(p.rules, H, x) /\ IsFirst(q.rules, H, x)
        BY <2>5, <4>1, <4>2, Zenon
      <4>4. /\ NoneOf(p.rules, H) =>
                 /\ k \in DOMAIN m <=> k = GlobalDefault
                 /\ k = GlobalDefault => m[k] = ActionByte(EffectiveDefault(p))
            /\ \A x : IsFirst(p.rules, H, x) => k \in DOMAIN m /\ m[k] = ActionByte(x.action)
        BY <2>8, <2>9, <4>2, RealizedAt, Zenon
      <4>5. /\ NoneOf(q.rules, H) =>
                 /\ k \in DOMAIN n <=> k = GlobalDefault
                 /\ k = GlobalDefault => n[k] = ActionByte(EffectiveDefault(q))
            /\ \A x : IsFirst(q.rules, H, x) => k \in DOMAIN n /\ n[k] = ActionByte(x.action)
        BY <2>8, <2>9, <4>2, RealizedAt, Zenon
      <4> QED
        BY <4>3, <4>4, <4>5, Zenon
    <3> QED
      BY <2>10, <3>1, SameVerdict
  <2> QED
    BY <2>3, <2>6, <2>7, <2>11, Zenon
<1>2. NInv => TenantIsolation
  BY <1>1, Zenon DEF TenantIsolation, NInv
<1> QED
  BY <1>2, ObjectsTyped, PTL

-----------------------------------------------------------------------------
(* The engine against the reference meaning.                               *)

\* Rule i of the policy matches the flow, and the policy is about its pod.
Hit(o, i, f) ==
  /\ o.namespace # 0 => o.namespace = f.pod.namespace
  /\ Governs(o.policy, f.pod)
  /\ RuleMatches(o.policy.rules[i], f)

NoHit(o, f) == \A i \in 1..Len(o.policy.rules) : ~Hit(o, i, f)

\* Folding loses nothing of these policies.
Foldable(O) ==
  \A o \in O : \A i \in 1..Len(o.policy.rules) :
    CanFold(o.policy.rules[i], o.policy.podSelector, o.namespace)

\* In the list that o contributes to an aggregate, the first rule in H is that of
\* the first hit of o.
FoldKeepsHits(o, H, f) ==
  /\ NoHit(o, f) => NoneOf(FoldedRules(o), H)
  /\ \A i \in 1..Len(o.policy.rules) :
       Hit(o, i, f) /\ (\A j \in 1..(i - 1) : ~Hit(o, j, f))
         => \E x : IsFirst(FoldedRules(o), H, x) /\ x.action = o.policy.rules[i].action

\* The policies are in one namespace, the flow's pod too unless it is none.
OneScope(O, f) ==
  \E ns : \A o \in O : o.namespace = ns /\ (ns # 0 => ns = f.pod.namespace)

\* The reference meaning takes the first hit of the first policy that has one.
MeansFirstHit(O, f) ==
  /\ Hits(O, f) = {} => \A o \in O : NoHit(o, f)
  /\ Hits(O, f) # {} =>
       \E o \in O : \E i \in 1..Len(o.policy.rules) :
         /\ Hit(o, i, f) /\ \A j \in 1..(i - 1) : ~Hit(o, j, f)
         /\ \A b \in O : Before(b, o) => NoHit(b, f)
         /\ ActionAt(O, FirstHit(Hits(O, f))) = o.policy.rules[i].action

\* The folded rules that match are those that matched in the policy.
LEMMA FoldedHits ==
  ASSUME NEW o, o.policy.rules \in Seq(Range(o.policy.rules)), Foldable({o}), NEW f, NEW H,
         Matching(Range(FoldedRules(o)), H, f)
  PROVE  FoldKeepsHits(o, H, f)
<1>1. PICK s : s = o.policy.rules
  BY Zenon
<1>2. PICK n \in Nat : n = Len(s)
  BY <1>1
<1>3. PICK t : t = FoldedRules(o)
  BY Zenon
<1>4. t = [i \in 1..n |-> FoldRule(s[i], o.policy.podSelector, o.namespace)] /\ Len(t) = n
  BY <1>1, <1>2, <1>3, SMTT(30) DEF FoldedRules
<1>5. ASSUME NEW i \in 1..n PROVE (t[i] \in H <=> Hit(o, i, f)) /\ t[i].action = s[i].action
  <2>1. PICK r, sel, ns : r = s[i] /\ sel = o.policy.podSelector /\ ns = o.namespace
    BY Zenon
  <2>2. CanFold(r, sel, ns)
    BY <1>1, <1>2, <2>1, Zenon DEF Foldable
  <2>3. t[i] = FoldRule(r, sel, ns) /\ t[i] \in Range(t)
    BY <1>4, <2>1, Zenon DEF Range
  <2>4. RuleMatches(FoldRule(r, sel, ns), f) <=>
          /\ ns # 0 => ns = f.pod.namespace
          /\ MatchesLabels(sel, f.pod.labels)
          /\ RuleMatches(r, f)
    BY <2>2, FoldMatches, Zenon
  <2>5. t[i] \in H <=> RuleMatches(FoldRule(r, sel, ns), f)
    BY <1>3, <2>3, Zenon DEF Matching
  <2>6. FoldRule(r, sel, ns).action = r.action
    BY Zenon DEF FoldRule, WithPod
  <2> QED
    BY <1>1, <2>1, <2>3, <2>4, <2>5, <2>6, Zenon DEF Hit, Governs
<1>6. NoHit(o, f) => NoneOf(t, H)
  BY <1>1, <1>2, <1>4, <1>5, Zenon DEF NoHit, NoneOf
<1>7. ASSUME NEW i \in 1..n, Hit(o, i, f), \A j \in 1..(i - 1) : ~Hit(o, j, f)
      PROVE  IsFirst(t, H, t[i]) /\ t[i].action = s[i].action
  <2>1. \A j \in 1..(i - 1) : j \in 1..n
    OBVIOUS
  <2>2. t[i] \in H /\ \A j \in 1..(i - 1) : t[j] \notin H
    BY <1>5, <1>7, <2>1, Zenon
  <2> QED
    BY <1>4, <1>5, <2>2, Zenon DEF IsFirst
<1> QED
  BY <1>1, <1>2, <1>3, <1>6, <1>7, Zenon DEF FoldKeepsHits

\* Hits and FirstHit find it.
LEMMA FirstHitOf ==
  ASSUME NEW O, Named(O), HasRules(O), NEW f, OneScope(O, f) PROVE MeansFirstHit(O, f)
<1>0. PICK ns : \A o \in O : o.namespace = ns /\ (ns # 0 => ns = f.pod.namespace)
  BY Zenon DEF OneScope
<1>1. PICK K : K = Hits(O, f)
  BY Zenon
<1>2. \A h : h \in K <=> \E o \in O : \E i \in 1..Len(o.policy.rules) :
                           Hit(o, i, f) /\ h = <<o.name, i>>
  BY <1>0, <1>1 DEF Hits, Hit
<1>3. K = {} => \A o \in O : NoHit(o, f)
  BY <1>2, Zenon DEF NoHit
<1>4. ASSUME K # {}
      PROVE  \E o \in O : \E i \in 1..Len(o.policy.rules) :
                /\ Hit(o, i, f) /\ \A j \in 1..(i - 1) : ~Hit(o, j, f)
                /\ \A b \in O : Before(b, o) => NoHit(b, f)
                /\ ActionAt(O, FirstHit(K)) = o.policy.rules[i].action
  <2>1. PICK P \in SUBSET O : \A o \in O : o \in P <=> ~NoHit(o, f)
    <3> DEFINE P == {o \in O : ~NoHit(o, f)}
    <3>1. P \in SUBSET O /\ \A o \in O : o \in P <=> ~NoHit(o, f)
      BY Zenon
    <3> QED
      BY <3>1, Zenon
  <2>2. P # {}
    BY <1>2, <1>4, <2>1, Zenon DEF NoHit
  <2>3. PICK o \in P : \A b \in P : b = o \/ Before(o, b)
    BY <2>2, LeastObject, Zenon
  <2>4. PICK n \in Nat : n = Len(o.policy.rules)
    BY DEF HasRules
  <2> DEFINE I == {i \in 1..n : Hit(o, i, f)}
  <2>5. I # {} /\ I \subseteq Nat
    BY <2>1, <2>3, <2>4 DEF NoHit
  <2>6. PICK i \in I : \A j \in I : i <= j
    <3> HIDE DEF I
    <3> QED
      BY <2>5, LeastNat, Zenon
  <2>7. i \in 1..n /\ Hit(o, i, f) /\ \A j \in 1..n : Hit(o, j, f) => i <= j
    BY <2>6, Zenon
  <2> HIDE DEF I
  <2>8. \A j \in 1..(i - 1) : ~Hit(o, j, f)
    BY <2>7
  <2>9. \A a, b \in O : Before(a, b) <=> a.name < b.name
    BY <1>0 DEF Before, Named
  <2>10. \A b \in O : Before(b, o) => NoHit(b, f)
    BY <2>1, <2>3, <2>9 DEF Named
  <2> DEFINE h == <<o.name, i>>
             First(x) == \A g \in K : x[1] < g[1] \/ (x[1] = g[1] /\ x[2] <= g[2])
  <2>11. h \in K
    BY <1>2, <2>4, <2>7, Zenon
  <2>12. First(h)
    <3> SUFFICES ASSUME NEW g \in K PROVE h[1] < g[1] \/ (h[1] = g[1] /\ h[2] <= g[2])
      BY Zenon
    <3>1. PICK b \in O : \E j \in 1..Len(b.policy.rules) : Hit(b, j, f) /\ g = <<b.name, j>>
      BY <1>2, Zenon
    <3>2. PICK j \in 1..Len(b.policy.rules) : Hit(b, j, f) /\ g = <<b.name, j>>
      BY <3>1, Zenon
    <3>3. b \in P
      BY <2>1, <3>2, Zenon DEF NoHit
    <3>4. CASE b = o
      BY <2>4, <2>7, <3>2, <3>4, Zenon
    <3>5. CASE Before(o, b)
      BY <2>9, <3>2, <3>5, Zenon
    <3> QED
      BY <2>3, <3>3, <3>4, <3>5, Zenon
  <2>13. ASSUME NEW x \in K, First(x) PROVE x = h
    <3>1. PICK b \in O : \E j \in 1..Len(b.policy.rules) : Hit(b, j, f) /\ x = <<b.name, j>>
      BY <1>2, Zenon
    <3>2. PICK j \in 1..Len(b.policy.rules) : x = <<b.name, j>>
      BY <3>1, Zenon
    <3>3. b.name \in Nat /\ o.name \in Nat /\ j \in Int
      BY <3>2 DEF Named
    <3>4. h[1] < x[1] \/ (h[1] = x[1] /\ h[2] <= x[2])
      BY <2>12, Zenon
    <3>5. x[1] < h[1] \/ (x[1] = h[1] /\ x[2] <= h[2])
      BY <2>11, <2>13, Zenon
    <3> QED
      BY <2>7, <3>2, <3>3, <3>4, <3>5
  <2>14. FirstHit(K) = h
    <3>1. FirstHit(K) = CHOOSE x \in K : First(x)
      BY Zenon DEF FirstHit
    <3> HIDE DEF First, h
    <3> QED
      BY <2>11, <2>12, <2>13, <3>1, Zenon
  <2>15. \A b \in O : b.name = o.name => b = o
    BY <1>0, Zenon DEF Named
  <2>16. (CHOOSE b \in O : b.name = h[1]) = o
    BY <2>15, Zenon
  <2>17. ActionAt(O, h) = o.policy.rules[i].action
    BY <2>16, Zenon DEF ActionAt
  <2> QED
    BY <2>4, <2>7, <2>8, <2>10, <2>14, <2>17, Zenon
<1> QED
  BY <1>1, <1>3, <1>4, Zenon DEF MeansFirstHit

\* The trailing rule of a policy matches the pods it denies by default.
LEMMA CatchAllHits ==
  ASSUME NEW o, NEW f, f.path = <<>>, NEW H,
         Matching(Range(CatchAlls(o)), H, f)
  PROVE  LET trailing == /\ Denies(o.policy) /\ ~NodeWide(o)
                         /\ o.namespace # 0 => o.namespace = f.pod.namespace
                         /\ Governs(o.policy, f.pod)
         IN  /\ trailing <=> ~NoneOf(CatchAlls(o), H)
             /\ \A x : IsFirst(CatchAlls(o), H, x) => x.action = ActionDeny
<1>1. PICK c, sel, ns : /\ c = SubjectCatchAll(sel, ns)
                        /\ c = SubjectCatchAll(o.policy.podSelector, o.namespace)
                        /\ sel = o.policy.podSelector /\ ns = o.namespace
  BY Zenon
<1>2. f.path \in Seq(Range(f.path))
  BY DEF Range
<1>3. /\ RuleMatches(c, f) <=>
           (ns # 0 => ns = f.pod.namespace) /\ MatchesLabels(sel, f.pod.labels)
      /\ c.action = ActionDeny
  <2>1. /\ RuleMatches(SubjectCatchAll(sel, ns), f) <=>
             (ns # 0 => ns = f.pod.namespace) /\ MatchesLabels(sel, f.pod.labels)
        /\ SubjectCatchAll(sel, ns).action = ActionDeny
    BY <1>2, CatchAllMatches, Zenon
  <2> QED
    BY <1>1, <2>1, Zenon
<1>4. CASE Denies(o.policy) /\ ~NodeWide(o)
  <2>1. CatchAlls(o) = <<c>>
    BY <1>1, <1>4, Zenon DEF CatchAlls
  <2>2. Range(<<c>>) = {c}
    BY DEF Range
  <2>3. c \in H <=> RuleMatches(c, f)
    BY <2>1, <2>2, Zenon DEF Matching
  <2>4. NoneOf(<<c>>, H) <=> c \notin H
    BY DEF NoneOf
  <2>5. \A x : IsFirst(<<c>>, H, x) => x = c
    BY DEF IsFirst
  <2> QED
    BY <1>1, <1>3, <1>4, <2>1, <2>3, <2>4, <2>5, Zenon DEF Governs
<1>5. CASE ~(Denies(o.policy) /\ ~NodeWide(o))
  <2>1. CatchAlls(o) = <<>>
    BY <1>5, Zenon DEF CatchAlls
  <2> QED
    BY <1>5, <2>1 DEF NoneOf, IsFirst
<1> QED
  BY <1>4, <1>5, Zenon

\* The engine on an aggregate gives a flow the verdict its policies mean.
LEMMA AggregateMeans ==
  ASSUME NEW C, NEW N, Sound(C), Sound(N), Foldable(C), Foldable(N),
         \A c \in C : c.namespace = 0, \A t \in N : t.namespace # 0,
         NEW f, f.path = <<>>
  PROVE  Evaluate(Aggregate(C, N), f) = Meaning(C, N, f)
<1>1. PICK L \in SUBSET N : L = {t \in N : InScope(t, f.pod)}
  BY Zenon
<1>2. PICK p, S : p = Aggregate(C, N) /\ S = Contributed(C) \cup Contributed(N)
  BY Zenon
<1>3. PICK H : Matching(S, H, f)
  <2>1. Matching(S, {r \in S : RuleMatches(r, f)}, f)
    BY Zenon DEF Matching
  <2> QED
    BY <2>1, Zenon
<1>4. Named(C) /\ Named(N) /\ HasRules(C) /\ HasRules(N)
  BY Zenon DEF Sound
<1>5. Contributed(C) \subseteq S /\ Contributed(N) \subseteq S
  BY <1>2, Zenon
<1> DEFINE NoRule(O) == \A o \in O : NoneOf(FoldedRules(o), H)
<1>6. /\ p.rules \in Seq(S)
      /\ \A o \in C : \A x :
           /\ IsFirst(FoldedRules(o), H, x)
           /\ \A b \in C : Before(b, o) => NoneOf(FoldedRules(b), H)
           => IsFirst(p.rules, H, x)
      /\ NoRule(C) => \A o \in N : \A x :
           /\ IsFirst(FoldedRules(o), H, x)
           /\ \A b \in N : Before(b, o) => NoneOf(FoldedRules(b), H)
           => IsFirst(p.rules, H, x)
      /\ NoRule(C) /\ NoRule(N) =>
           \/ /\ \A o \in C \cup N : NoneOf(CatchAlls(o), H)
              /\ NoneOf(p.rules, H)
           \/ \E o \in C \cup N : \E x :
                IsFirst(CatchAlls(o), H, x) /\ IsFirst(p.rules, H, x)
  BY <1>2, <1>4, <1>5, AggregateFirst, Zenon
<1>7. /\ NoneOf(p.rules, H) => Evaluate(p, f) = EffectiveDefault(p)
      /\ \A x : IsFirst(p.rules, H, x) => Evaluate(p, f) = x.action
  <2>1. p.rules \in Seq(S)
    BY <1>6, Zenon
  <2> QED
    BY <1>3, <2>1, EvaluateIs, Zenon
<1>8. ASSUME NEW o \in C \cup N PROVE FoldKeepsHits(o, H, f)
  <2>1. Matching(Range(FoldedRules(o)), H, f)
    BY <1>2, <1>3 DEF Contributed, Matching
  <2>2. Foldable({o})
    BY Zenon DEF Foldable
  <2>3. o.policy.rules \in Seq(Range(o.policy.rules))
    BY <1>4, Zenon DEF HasRules
  <2> QED
    BY <2>1, <2>2, <2>3, FoldedHits, Zenon
<1>9. ASSUME NEW o \in C \cup N
      PROVE  LET trailing == /\ Denies(o.policy) /\ ~NodeWide(o)
                             /\ o.namespace # 0 => o.namespace = f.pod.namespace
                             /\ Governs(o.policy, f.pod)
             IN  /\ trailing <=> ~NoneOf(CatchAlls(o), H)
                 /\ \A x : IsFirst(CatchAlls(o), H, x) => x.action = ActionDeny
  <2>1. Matching(Range(CatchAlls(o)), H, f)
    BY <1>2, <1>3 DEF Contributed, Matching
  <2> QED
    BY <2>1, CatchAllHits, Zenon
<1>10. PICK m : m = Meaning(C, N, f)
  BY Zenon
<1>11. m = IF Hits(C, f) # {} THEN ActionAt(C, FirstHit(Hits(C, f)))
           ELSE IF Hits(L, f) # {} THEN ActionAt(L, FirstHit(Hits(L, f)))
           ELSE IF \E o \in C \cup L : Denies(o.policy) /\ Governs(o.policy, f.pod)
           THEN ActionDeny
           ELSE ActionAllow
  BY <1>1, <1>10, Zenon DEF Meaning
<1>12. MeansFirstHit(C, f)
  <2>1. OneScope(C, f)
    BY Zenon DEF OneScope
  <2> QED
    BY <1>4, <2>1, FirstHitOf, Zenon
<1>13. MeansFirstHit(L, f)
  <2>1. Named(L) /\ HasRules(L)
    BY <1>4, FS_Subset, Zenon DEF Named, HasRules
  <2>2. OneScope(L, f)
    BY <1>1, Zenon DEF OneScope, InScope
  <2> QED
    BY <2>1, <2>2, FirstHitOf, Zenon
<1>14. \A o \in N \ L : NoHit(o, f)
  BY <1>1, Zenon DEF NoHit, Hit, InScope
<1>15. CASE Hits(C, f) # {}
  <2>1. PICK o \in C : \E i \in 1..Len(o.policy.rules) :
              /\ Hit(o, i, f) /\ \A j \in 1..(i - 1) : ~Hit(o, j, f)
              /\ \A b \in C : Before(b, o) => NoHit(b, f)
              /\ m = o.policy.rules[i].action
    BY <1>11, <1>12, <1>15, Zenon DEF MeansFirstHit
  <2>2. PICK x : IsFirst(FoldedRules(o), H, x) /\ x.action = m
    <3>1. FoldKeepsHits(o, H, f)
      BY <1>8, Zenon
    <3> QED
      BY <2>1, <3>1, Zenon DEF FoldKeepsHits
  <2>3. IsFirst(p.rules, H, x)
    BY <1>6, <1>8, <2>1, <2>2, Zenon DEF FoldKeepsHits
  <2> QED
    BY <1>2, <1>7, <1>10, <2>2, <2>3, Zenon
<1>16. CASE Hits(C, f) = {} /\ Hits(L, f) # {}
  <2>1. PICK o \in L : \E i \in 1..Len(o.policy.rules) :
              /\ Hit(o, i, f) /\ \A j \in 1..(i - 1) : ~Hit(o, j, f)
              /\ \A b \in L : Before(b, o) => NoHit(b, f)
              /\ m = o.policy.rules[i].action
    BY <1>11, <1>13, <1>16, Zenon DEF MeansFirstHit
  <2>2. PICK x : IsFirst(FoldedRules(o), H, x) /\ x.action = m
    <3>1. FoldKeepsHits(o, H, f)
      BY <1>8, Zenon
    <3> QED
      BY <2>1, <3>1, Zenon DEF FoldKeepsHits
  <2>3. NoRule(C)
    BY <1>8, <1>12, <1>16, Zenon DEF FoldKeepsHits, MeansFirstHit
  <2>4. \A b \in N : Before(b, o) => NoneOf(FoldedRules(b), H)
    BY <1>8, <1>14, <2>1, Zenon DEF FoldKeepsHits
  <2>5. IsFirst(p.rules, H, x)
    BY <1>6, <2>2, <2>3, <2>4, Zenon
  <2> QED
    BY <1>2, <1>7, <1>10, <2>2, <2>5, Zenon
<1>17. CASE Hits(C, f) = {} /\ Hits(L, f) = {}
  <2>1. NoRule(C) /\ NoRule(N)
    BY <1>8, <1>12, <1>13, <1>14, <1>17, Zenon DEF FoldKeepsHits, MeansFirstHit
  <2>2. m = IF \E o \in C \cup L : Denies(o.policy) /\ Governs(o.policy, f.pod)
            THEN ActionDeny ELSE ActionAllow
    BY <1>11, <1>17, Zenon
  <2>3. ASSUME NEW o \in C \cup N, NEW x, IsFirst(CatchAlls(o), H, x), IsFirst(p.rules, H, x)
        PROVE  Evaluate(p, f) = m
    <3>1. ~NoneOf(CatchAlls(o), H)
      BY <2>3, Zenon DEF NoneOf, IsFirst
    <3>2. /\ Denies(o.policy) /\ Governs(o.policy, f.pod) /\ x.action = ActionDeny
          /\ o.namespace # 0 => o.namespace = f.pod.namespace
      BY <1>9, <2>3, <3>1, Zenon
    <3>3. o \in C \cup L
      BY <1>1, <3>2, Zenon DEF InScope
    <3> QED
      BY <1>7, <2>2, <2>3, <3>2, <3>3, Zenon
  <2>4. ASSUME \A o \in C \cup N : NoneOf(CatchAlls(o), H), NoneOf(p.rules, H)
        PROVE  Evaluate(p, f) = m
    <3>1. \A o \in C \cup L : Denies(o.policy) /\ Governs(o.policy, f.pod) => NodeWide(o)
      BY <1>1, <1>9, <2>4, Zenon DEF InScope
    <3>2. \A o \in C \cup L : NodeWide(o) => o \in C /\ Governs(o.policy, f.pod)
      <4>1. \A labels : MatchesLabels(EmptySelector, labels)
        BY Zenon DEF MatchesLabels, EmptySelector, NoLabels
      <4> QED
        BY <1>1, <4>1, Zenon DEF NodeWide, SelectorEmpty, Governs
    <3>3. (\E o \in C \cup L : Denies(o.policy) /\ Governs(o.policy, f.pod))
            <=> \E c \in C : Denies(c.policy) /\ NodeWide(c)
      BY <3>1, <3>2, Zenon
    <3>4. p.defaultAction = IF \E c \in C : Denies(c.policy) /\ NodeWide(c)
                            THEN PostureDeny ELSE PostureAllow
      BY <1>2, Zenon DEF Aggregate
    <3>5. EffectiveDefault(p) = m
      BY <2>2, <3>3, <3>4, Zenon
         DEF EffectiveDefault, PostureDeny, PostureAllow, ActionDeny, ActionAllow
    <3> QED
      BY <1>7, <2>4, <3>5, Zenon
  <2> QED
    BY <1>2, <1>6, <1>10, <2>1, <2>3, <2>4, Zenon
<1> QED
  BY <1>15, <1>16, <1>17, Zenon

\* The verdicts of an agent that watches the objects are those the objects mean.
THEOREM MeaningKept == Spec => []AggregateKeepsMeaning
<1>1. ASSUME NInv, source = "crd", NEW f \in Flows
      PROVE  Evaluate(NodePolicy, f) = Meaning(ValidOnes(cluster), ValidOnes(tenants), f)
  <2>1. PICK C, N : C = ValidOnes(cluster) /\ N = ValidOnes(tenants)
    BY Zenon
  <2>2. Sound(C) /\ Sound(N)
    BY <1>1, <2>1, SoundSources, Zenon
  <2>3. ASSUME NEW O, Objects(O) PROVE Foldable(ValidOnes(O))
    <3>1. \A o \in ValidOnes(O) : \A i \in 1..Len(o.policy.rules) : o.policy.rules[i].pod = AnyPod
      BY <2>3, ConvertedObjects, Zenon
    <3> QED
      BY <3>1 DEF Foldable, CanFold, AnyPod, NoLabels
  <2>4. Foldable(C) /\ Foldable(N)
    BY <1>1, <2>1, <2>3, Zenon DEF NInv
  <2>5. (\A c \in C : c.namespace = 0) /\ \A t \in N : t.namespace # 0
    BY <1>1, <2>1 DEF NInv, ValidOnes, Converted
  <2>6. f.path = <<>>
    <3>1. \A pod, ip, port, d : Flow(pod, ip, port, d).path = <<>>
      BY Zenon DEF Flow
    <3> QED
      BY <3>1 DEF Flows
  <2>7. Evaluate(Aggregate(C, N), f) = Meaning(C, N, f)
    BY <2>2, <2>4, <2>5, <2>6, AggregateMeans, Zenon
  <2> QED
    BY <1>1, <2>1, <2>7, Zenon DEF NodePolicy, Rebuild
<1>2. NInv => AggregateKeepsMeaning
  BY <1>1, Zenon DEF AggregateKeepsMeaning
<1> QED
  BY <1>2, ObjectsTyped, PTL

\* What one valid policy without a namespace means, on its own.
LEMMA MeaningOfOne ==
  ASSUME NEW p, Valid(p), p.rules \in Seq(Range(p.rules)), NEW f, NEW x,
         x = [namespace |-> 0, name |-> 1, policy |-> p], Named({x})
  PROVE  Meaning({x}, {}, f) = IF Governs(p, f.pod) THEN Evaluate(p, f) ELSE ActionAllow
<1>1. x.namespace = 0 /\ x.policy = p
  BY Zenon
<1>2. PICK m : m = Meaning({x}, {}, f)
  BY Zenon
<1>3. m = IF Hits({x}, f) # {} THEN ActionAt({x}, FirstHit(Hits({x}, f)))
          ELSE IF Denies(p) /\ Governs(p, f.pod) THEN ActionDeny ELSE ActionAllow
  <2>2. Hits({}, f) = {}
    BY Zenon DEF Hits
  <2> QED
    BY <1>1, <1>2, <2>2, Zenon DEF Meaning
<1>4. MeansFirstHit({x}, f)
  <2>1. HasRules({x}) /\ OneScope({x}, f)
    BY <1>1, Zenon DEF HasRules, OneScope
  <2> QED
    BY <2>1, FirstHitOf, Zenon
<1>5. \A i : Hit(x, i, f) <=> Governs(p, f.pod) /\ RuleMatches(p.rules[i], f)
  BY <1>1, Zenon DEF Hit
<1>6. PICK S : S = Range(p.rules) /\ p.rules \in Seq(S)
  BY Zenon
<1>7. PICK H : Matching(S, H, f)
  <2>1. Matching(S, {r \in S : RuleMatches(r, f)}, f)
    BY Zenon DEF Matching
  <2> QED
    BY <2>1, Zenon
<1>8. /\ NoneOf(p.rules, H) => Evaluate(p, f) = EffectiveDefault(p)
      /\ \A r : IsFirst(p.rules, H, r) => Evaluate(p, f) = r.action
  BY <1>6, <1>7, EvaluateIs, Zenon
<1>9. \A i \in 1..Len(p.rules) : p.rules[i] \in H <=> RuleMatches(p.rules[i], f)
  BY <1>6, <1>7, SMTT(30) DEF Matching
<1>10. CASE Hits({x}, f) # {}
  <2>1. PICK i \in 1..Len(p.rules) :
          /\ Hit(x, i, f) /\ \A j \in 1..(i - 1) : ~Hit(x, j, f)
          /\ m = p.rules[i].action
    BY <1>1, <1>3, <1>4, <1>10, Zenon DEF MeansFirstHit
  <2>2. \A j \in 1..(i - 1) : j \in 1..Len(p.rules)
    BY <1>6
  <2>3. IsFirst(p.rules, H, p.rules[i])
    BY <1>5, <1>9, <2>1, <2>2, Zenon DEF IsFirst
  <2> QED
    BY <1>2, <1>5, <1>8, <2>1, <2>3, Zenon
<1>11. CASE Hits({x}, f) = {} /\ Governs(p, f.pod)
  <2>1. NoHit(x, f)
    BY <1>4, <1>11, Zenon DEF MeansFirstHit
  <2>2. NoneOf(p.rules, H)
    BY <1>1, <1>5, <1>9, <1>11, <2>1, Zenon DEF NoHit, NoneOf
  <2>3. EffectiveDefault(p) = IF Denies(p) THEN ActionDeny ELSE ActionAllow
    BY Zenon DEF Valid, EffectiveDefault, Denies, PostureAllow, PostureDeny, ActionAllow,
       ActionDeny
  <2> QED
    BY <1>2, <1>3, <1>8, <1>11, <2>2, <2>3, Zenon
<1>12. CASE Hits({x}, f) = {} /\ ~Governs(p, f.pod)
  BY <1>2, <1>3, <1>12, Zenon
<1> QED
  BY <1>10, <1>11, <1>12, Zenon

\* Folding the selector of a policy file into its rules keeps what it means.
THEOREM FlatteningKept == Spec => []FlattenKeepsMeaning
<1>1. ASSUME NInv, source = "file", NoClash(file), NEW f \in Flows
      PROVE  Evaluate(NodePolicy, f) = IF Governs(file, f.pod) THEN Evaluate(file, f)
                                       ELSE ActionAllow
  <2>1. NodePolicy = Flatten(file)
    BY <1>1, Zenon DEF NodePolicy
  <2>2. CASE SelectorEmpty(file.podSelector)
    <3>1. Governs(file, f.pod)
      BY <2>2 DEF Governs, SelectorEmpty, MatchesLabels, EmptySelector, NoLabels
    <3> QED
      BY <2>1, <2>2, <3>1, Zenon DEF Flatten
  <2>3. CASE ~SelectorEmpty(file.podSelector)
    <3>1. PICK x : x = [namespace |-> 0, name |-> 1, policy |-> file]
      BY Zenon
    <3>2. x.namespace = 0 /\ x.policy = file
      BY <3>1, Zenon
    <3>3. Sound({x}) /\ Sound({}) /\ Named({x})
      BY <1>1, <3>1, SoundSources, Zenon DEF Sound
    <3>4. Foldable({x}) /\ Foldable({})
      BY <1>1, <3>2 DEF Foldable, CanFold, NoClash
    <3>5. f.path = <<>>
      <4>1. \A pod, ip, port, d : Flow(pod, ip, port, d).path = <<>>
        BY Zenon DEF Flow
      <4> QED
        BY <4>1 DEF Flows
    <3>6. NodePolicy = Aggregate({x}, {})
      BY <2>1, <2>3, <3>1, Zenon DEF Flatten
    <3>7. Evaluate(Aggregate({x}, {}), f) = Meaning({x}, {}, f)
      BY <3>2, <3>3, <3>4, <3>5, AggregateMeans, Zenon
    <3>8. Valid(file) /\ file.rules \in Seq(Range(file.rules))
      BY <1>1, Zenon DEF NInv, RulesTyped
    <3>9. Meaning({x}, {}, f) = IF Governs(file, f.pod) THEN Evaluate(file, f) ELSE ActionAllow
      BY <3>1, <3>3, <3>8, MeaningOfOne, Zenon
    <3> QED
      BY <3>6, <3>7, <3>9, Zenon
  <2> QED
    BY <2>2, <2>3, Zenon
<1>2. NInv => FlattenKeepsMeaning
  BY <1>1, Zenon DEF FlattenKeepsMeaning
<1> QED
  BY <1>2, ObjectsTyped, PTL
=============================================================================
