---------------------------- MODULE Aggregation -----------------------------
(***************************************************************************)
(* The aggregation of several policies into the one a node enforces        *)
(* (internal/policy/aggregate.go).  A NamespacedPolicy is [namespace,      *)
(* name, policy]; a ClusterPolicy is one whose namespace is 0.  Lists from *)
(* the informer cache are sets, as Aggregate sorts them by their unique    *)
(* names.                                                                  *)
(***************************************************************************)
EXTENDS Policy, Functions

\* Fault: the subject's labels replace the rule's.
FoldIntoReplaces(s, sel) ==
  [namespace |-> sel.namespace, name |-> sel.name, uid |-> sel.uid,
   labels |-> s.labels, exprs |-> sel.exprs \cup s.exprs]

\* The subject's labels overwrite the rule's on a common key.
FoldInto(s, sel) ==
  [namespace |-> sel.namespace, name |-> sel.name, uid |-> sel.uid,
   labels |-> [k \in DOMAIN s.labels \cup DOMAIN sel.labels |->
                 IF k \in DOMAIN s.labels THEN s.labels[k] ELSE sel.labels[k]],
   exprs |-> sel.exprs \cup s.exprs]

InNamespace(sel, namespace) ==
  [namespace |-> IF namespace = 0 THEN sel.namespace ELSE namespace,
   name |-> sel.name, uid |-> sel.uid, labels |-> sel.labels, exprs |-> sel.exprs]

WithPod(r, pod) ==
  [name |-> r.name, pod |-> pod, domains |-> r.domains, cidrs |-> r.cidrs,
   ports |-> r.ports, methods |-> r.methods, path |-> r.path,
   action |-> r.action, mutations |-> r.mutations]

\* Fault: a tenant's rule is not confined to its namespace.
FoldRuleUnscoped(r, subject, namespace) == WithPod(r, FoldInto(subject, r.pod))

FoldRule(r, subject, namespace) ==
  WithPod(r, FoldInto(subject, InNamespace(r.pod, namespace)))

DenyAll == [BlankRule EXCEPT !.action = ActionDeny]

\* Fault: the default-deny of a policy ignores its subject.
SubjectCatchAllOfAnyPod(subject, namespace) ==
  WithPod(DenyAll, InNamespace(AnyPod, namespace))

SubjectCatchAll(subject, namespace) ==
  WithPod(DenyAll, FoldInto(subject, InNamespace(AnyPod, namespace)))

-----------------------------------------------------------------------------
Denies(p) == EffectiveDefault(p) = PostureDeny

\* A default-deny of this policy is the node's.
NodeWide(o) == o.namespace = 0 /\ SelectorEmpty(o.policy.podSelector)

\* What each policy contributes to the loops of Aggregate.
FoldedRules(o) ==
  [i \in 1..Len(o.policy.rules) |->
     FoldRule(o.policy.rules[i], o.policy.podSelector, o.namespace)]

CatchAlls(o) ==
  IF Denies(o.policy) /\ ~NodeWide(o)
  THEN <<SubjectCatchAll(o.policy.podSelector, o.namespace)>>
  ELSE <<>>

\* What a loop that appends these slices builds.
Appended(slices) ==
  LET out[i \in 0..Len(slices)] ==
        IF i = 0 THEN <<>> ELSE out[i - 1] \o slices[i]
  IN  out[Len(slices)]

Before(a, b) ==
  \/ a.namespace < b.namespace
  \/ a.namespace = b.namespace /\ a.name < b.name

\* sort.Slice, on policies with different names.
Sorted(O) ==
  CHOOSE s \in [1..Cardinality(O) -> O] :
    /\ Range(s) = O
    /\ \A i, j \in 1..Cardinality(O) : i < j => Before(s[i], s[j])

Aggregate(cluster, namespaced) ==
  LET cl == Sorted(cluster)
      ns == Sorted(namespaced)
      Folded(s) == Appended([i \in 1..Len(s) |-> FoldedRules(s[i])])
      Trailing(s) == Appended([i \in 1..Len(s) |-> CatchAlls(s[i])])
  IN  [podSelector |-> EmptySelector,
       defaultAction |-> IF \E c \in cluster : Denies(c.policy) /\ NodeWide(c)
                         THEN PostureDeny ELSE PostureAllow,
       rules |-> Folded(cl) \o Folded(ns) \o Trailing(cl) \o Trailing(ns)]

Flatten(p) ==
  IF SelectorEmpty(p.podSelector) THEN p
  ELSE Aggregate({[namespace |-> 0, name |-> 1, policy |-> p]}, {})
=============================================================================
