----------------------------- MODULE NodePolicy -----------------------------
(***************************************************************************)
(* From the EgressPolicy and ClusterEgressPolicy objects of a cluster, or  *)
(* a policy file, to the verdicts on a node, as a function: crdsource's    *)
(* rebuild() aggregates the valid objects, the engine evaluates the        *)
(* aggregate, the Programmer compiles it and the kernel looks it up.  The  *)
(* state is the set of objects, which users create, change and delete, or  *)
(* the contents of the file; the pods of the node are fixed.               *)
(***************************************************************************)
EXTENDS Compile, Conversion, Aggregation

CONSTANTS
  ClusterNames, ClusterSpecs,  \* names and specs of ClusterEgressPolicies
  TenantNames, TenantSpecs,    \* <<namespace, name>>, specs of EgressPolicies
  FilePolicies,                \* what a valid policy file may say
  PodTable,                    \* the node's pods: cgroup -> PodInfo
  Ports, Domains               \* of the flows that are looked at

ASSUME PodTableAssumption == 0 \notin DOMAIN PodTable

ASSUME FilePoliciesAssumption == \A p \in FilePolicies : Valid(p)

\* Namespaced objects have a namespace.
ASSUME NamesAssumption ==
  ClusterNames \subseteq Nat /\ TenantNames \subseteq (Nat \ {0}) \X Nat

\* What the Go types of a list of rules say.
RuleTyped(r) ==
  /\ r.path \in Seq(Range(r.path))
  /\ \A c \in r.cidrs : c.addr \in Nat /\ c.ones \in Nat

RulesTyped(rules) ==
  rules \in Seq(Range(rules)) /\ \A r \in Range(rules) : RuleTyped(r)

ASSUME RulesAssumption ==
  \A p \in ClusterSpecs \cup TenantSpecs \cup FilePolicies : RulesTyped(p.rules)

VARIABLES
  source,    \* the source the agent was started with: "crd" or "file"
  cluster, tenants, file

vars == <<source, cluster, tenants, file>>

\* What EmptySource serves when no file is configured.
EmptyPolicy ==
  [podSelector |-> EmptySelector, defaultAction |-> PostureAllow, rules |-> <<>>]

Init ==
  /\ source \in {"crd", "file"}
  /\ cluster = {}
  /\ tenants = {}
  /\ file = EmptyPolicy

\* The API server: an object is created, replaced or removed.  A cluster-scoped
\* one is in namespace 0.
OtherCluster(n) == {c \in cluster : c.name # n}

PutCluster(n, spec) ==
  /\ source = "crd"
  /\ cluster' = OtherCluster(n) \cup {[namespace |-> 0, name |-> n, spec |-> spec]}
  /\ UNCHANGED <<source, tenants, file>>

DeleteCluster(n) ==
  /\ source = "crd"
  /\ cluster' = OtherCluster(n)
  /\ UNCHANGED <<source, tenants, file>>

OtherTenants(id) == {t \in tenants : <<t.namespace, t.name>> # id}

PutTenant(id, spec) ==
  /\ source = "crd"
  /\ tenants' = OtherTenants(id)
                  \cup {[namespace |-> id[1], name |-> id[2], spec |-> spec]}
  /\ UNCHANGED <<source, cluster, file>>

DeleteTenant(id) ==
  /\ source = "crd"
  /\ tenants' = OtherTenants(id)
  /\ UNCHANGED <<source, cluster, file>>

\* The policy file is edited.
EditFile(p) ==
  /\ source = "file"
  /\ file' = p
  /\ UNCHANGED <<source, cluster, tenants>>

Next ==
  \/ \E n \in ClusterNames : \E spec \in ClusterSpecs : PutCluster(n, spec)
  \/ \E n \in ClusterNames : DeleteCluster(n)
  \/ \E id \in TenantNames : \E spec \in TenantSpecs : PutTenant(id, spec)
  \/ \E id \in TenantNames : DeleteTenant(id)
  \/ \E p \in FilePolicies : EditFile(p)

Spec == Init /\ [][Next]_vars

-----------------------------------------------------------------------------
(* What the node makes of the objects.                                     *)

Converted(objects) ==
  {[namespace |-> o.namespace, name |-> o.name, policy |-> ToPolicy(o.spec)]
     : o \in objects}

ValidOnes(objects) == {o \in Converted(objects) : Valid(o.policy)}

\* Fault: invalid objects are aggregated too.
RebuildUnvalidated(cl, ns) == Aggregate(Converted(cl), Converted(ns))

\* rebuild(): an object that fails validation is left out.
Rebuild(cl, ns) == Aggregate(ValidOnes(cl), ValidOnes(ns))

NodePolicy == IF source = "crd" THEN Rebuild(cluster, tenants) ELSE Flatten(file)

\* The maps after an apply() in which every Put and every Delete succeeds: the
\* rules are written last one first, so the first one's action stays
\* (Programmer's AppliedExactly).
Programmed(p, table) ==
  LET keys == [i \in 1..Len(p.rules) |-> RuleKeys(p, table, i)]
      First(k) == FirstOf({i \in 1..Len(p.rules) : k \in keys[i]})
  IN  [k \in DesiredKeys(p, table) |->
         ActionByte(IF First(k) = 0 THEN EffectiveDefault(p)
                    ELSE p.rules[First(k)].action)]

Address == 0..(2^AddrBits - 1)

Flow(pod, ip, port, domain) ==
  [pod |-> pod, dst |-> ip, port |-> port, domain |-> domain,
   method |-> "", path |-> <<>>]

\* The flow the engine sees for a packet about which no domain is known.
BareFlow(pod, ip, port) == Flow(pod, ip, port, <<>>)

Flows == {Flow(PodTable[cg], ip, port, d) : cg \in DOMAIN PodTable,
                                            ip \in Address, port \in Ports,
                                            d \in Domains \cup {<<>>}}

-----------------------------------------------------------------------------
(* A reference meaning for a set of objects, without any folding: a policy *)
(* governs the pods of its namespace that its selector matches; the first  *)
(* matching rule of a governing cluster policy decides, then that of a     *)
(* governing tenant policy, then any governing default-deny.               *)

InScope(t, pod) == t.namespace = pod.namespace

Governs(p, pod) == MatchesLabels(p.podSelector, pod.labels)

\* <<name, index>> of the rules that match, in the objects O.
Hits(O, f) ==
  UNION { { <<o.name, i>> : i \in {i \in 1..Len(o.policy.rules) :
                                     RuleMatches(o.policy.rules[i], f)} }
          : o \in {o \in O : Governs(o.policy, f.pod)} }

FirstHit(H) ==
  CHOOSE h \in H : \A g \in H : h[1] < g[1] \/ (h[1] = g[1] /\ h[2] <= g[2])

ActionAt(O, h) == (CHOOSE o \in O : o.name = h[1]).policy.rules[h[2]].action

Meaning(cl, ns, f) ==
  LET local == {t \in ns : InScope(t, f.pod)}
  IN  IF Hits(cl, f) # {} THEN ActionAt(cl, FirstHit(Hits(cl, f)))
      ELSE IF Hits(local, f) # {} THEN ActionAt(local, FirstHit(Hits(local, f)))
      ELSE IF \E o \in cl \cup local : Denies(o.policy) /\ Governs(o.policy, f.pod)
      THEN ActionDeny
      ELSE ActionAllow

\* No rule asks for another value of a label its policy's selector fixes.
NoClash(p) ==
  \A i \in 1..Len(p.rules) :
    \A k \in DOMAIN p.rules[i].pod.labels \cap DOMAIN p.podSelector.labels :
      p.rules[i].pod.labels[k] = p.podSelector.labels[k]

-----------------------------------------------------------------------------
(* Properties.                                                             *)

\* Whatever objects exist, valid or not, the aggregate is a valid policy, and so
\* is a flattened file: no consumer ever refuses an update (crdsource.go:102-103,
\* filesource.go:61-66).
AggregateIsValid == Valid(NodePolicy)

\* The engine on the aggregate gives every flow the verdict the objects mean:
\* folding selectors into rules, forcing namespaces, sorting and turning
\* postures into trailing rules change nothing (aggregate.go:71-95).
AggregateKeepsMeaning ==
  source = "crd" =>
    LET p == NodePolicy
        cl == ValidOnes(cluster)
        ns == ValidOnes(tenants)
    IN  \A f \in Flows : Evaluate(p, f) = Meaning(cl, ns, f)

\* Folding the podSelector of a policy file into its rules keeps what the file
\* means: its rules and its posture for the pods the selector matches, nothing
\* for the others (filesource.go:64-66, aggregate.go:58-69).
FlattenKeepsMeaning ==
  source = "file" /\ NoClash(file) =>
    LET p == NodePolicy
    IN  \A f \in Flows :
          Evaluate(p, f) = IF Governs(file, f.pod) THEN Evaluate(file, f)
                           ELSE ActionAllow

\* A namespaced policy changes nothing for pods of other namespaces: neither
\* the engine's verdict nor what the kernel finds in the maps
\* (aggregate.go:20-24).
TenantIsolation ==
  LET p == NodePolicy
      m == Programmed(p, PodTable)
  IN  \A t \in tenants :
        LET q == Rebuild(cluster, tenants \ {t})
            n == Programmed(q, PodTable)
        IN  /\ \A f \in Flows :
                 ~InScope(t, f.pod) => Evaluate(p, f) = Evaluate(q, f)
            /\ \A cg \in DOMAIN PodTable : \A ip \in Address, port \in Ports :
                 ~InScope(t, PodTable[cg])
                   => verdict_for(m, cg, ip, port) = verdict_for(n, cg, ip, port)

-----------------------------------------------------------------------------
(* The datapath against the engine.                                        *)

\* The rule can be written into the maps in full, or never matches a bare flow.
Expressible(r) ==
  \/ CompiledDomains(r) # {} \/ r.path # <<>>
  \/ r.methods # {} /\ "" \notin r.methods
  \/ /\ r.domains = {}
     /\ 0 \notin r.ports
     /\ r.methods = {}
     /\ r.ports # {} => r.cidrs # {}
     /\ r.ports # {} => \A c \in r.cidrs : c.ones = AddrBits

AllExpressible(p) == \A i \in 1..Len(p.rules) : Expressible(p.rules[i])

\* The lookup for a packet may end at this key.
Covers(k, cg, ip, port) ==
  /\ k.cgroup_id \in {0, cg}
  /\ k.map = "verdicts" => k.daddr = ip /\ k.dport \in {0, port}
  /\ k.map = "cidr_verdicts" => k.daddr = Masked(ip, k.prefixlen)

\* How early the kernel's lookup gets to a key: a higher rank is tried first.
Rank(k) ==
  LET own == IF k.cgroup_id = 0 THEN 0 ELSE 1
      W == AddrBits + 1
  IN  CASE k.map = "default_action" -> own
        [] k.map = "cidr_verdicts" -> 2 + own * W + k.prefixlen
        [] OTHER -> 2 + 2 * W + 2 * own + (IF k.dport = 0 THEN 0 ELSE 1)

\* Among the rules that reach a packet, an earlier one with another action sits
\* at a key the kernel tries no later.
RuleOrderAgrees(p, cg, ip, port) ==
  LET hits == [i \in 1..Len(p.rules) |->
                 {k \in RuleKeys(p, PodTable, i) : Covers(k, cg, ip, port)}]
  IN  \A j \in 1..Len(p.rules) : \A i \in 1..(j - 1) :
        /\ hits[i] # {}
        /\ ActionByte(p.rules[i].action) # ActionByte(p.rules[j].action)
        => \A l \in hits[j] : \E k \in hits[i] : Rank(k) >= Rank(l)

\* The kernel's most-specific-first lookup gives every packet the verdict of
\* the first-match-wins engine, provided every rule can be expressed in the
\* maps and, for that packet, no earlier rule is less specific than a later one
\* it disagrees with (egress.bpf.c:102-107).
DatapathMatchesEngine ==
  LET p == NodePolicy
      m == Programmed(p, PodTable)
  IN  AllExpressible(p) =>
        \A cg \in DOMAIN PodTable : \A ip \in Address, port \in Ports :
          RuleOrderAgrees(p, cg, ip, port)
            => verdict_for(m, cg, ip, port) =
                 ActionByte(Evaluate(p, BareFlow(PodTable[cg], ip, port)))

\* "a cluster admin's rules take precedence over namespace (tenant) rules"
\* (aggregate.go:82): a packet that a cluster policy's rule decides gets that
\* rule's action from the kernel, whatever tenant policies exist.
ClusterRulesPrevail ==
  LET p == NodePolicy
      m == Programmed(p, PodTable)
  IN  source = "crd" /\ AllExpressible(p) =>
        \A cg \in DOMAIN PodTable : \A ip \in Address, port \in Ports :
          LET f == BareFlow(PodTable[cg], ip, port)
          IN  Hits(ValidOnes(cluster), f) # {}
                => verdict_for(m, cg, ip, port) = ActionByte(Evaluate(p, f))
=============================================================================
