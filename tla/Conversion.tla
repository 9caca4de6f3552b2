----------------------------- MODULE Conversion -----------------------------
(***************************************************************************)
(* From the spec of an EgressPolicy or ClusterEgressPolicy object to a     *)
(* policy (api/v1/egresspolicy_types.go), for the agents and the operator. *)
(***************************************************************************)
EXTENDS Policy

portsToUint16(ports) == {v \in ports : v >= 0 /\ v <= 65535}

\* The rules of a spec name no pods: only its podSelector does.
ToRule(r) ==
  [name |-> r.name, pod |-> AnyPod, domains |-> r.domains, cidrs |-> r.cidrs,
   ports |-> portsToUint16(r.ports), methods |-> r.methods, path |-> r.path,
   action |-> r.action, mutations |-> r.mutations]

ToPolicy(spec) ==
  [podSelector |-> spec.podSelector, defaultAction |-> spec.defaultAction,
   rules |-> [i \in DOMAIN spec.rules |-> ToRule(spec.rules[i])]]

\* What the operator does to the policy of a namespaced object before it
\* validates it.
ScopeToNamespace(p, namespace) ==
  [p EXCEPT !.rules = [i \in DOMAIN p.rules |->
                         [p.rules[i] EXCEPT !.pod.namespace = namespace]]]
=============================================================================
