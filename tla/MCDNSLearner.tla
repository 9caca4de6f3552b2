---------------------------- MODULE MCDNSLearner ----------------------------
(***************************************************************************)
(* An instance of DNSLearner: one pod, one or two addresses, policies that *)
(* modify a name or deny it, and a map with room for one verdict.          *)
(***************************************************************************)
EXTENDS DNSLearner, TLC

MCPodTable ==
  1 :> [namespace |-> 1, name |-> 1, uid |-> 1, labels |-> "app" :> "web"]

Name == <<"a", "com">>

DomainPolicy(action, mutations) ==
  [podSelector |-> EmptySelector, defaultAction |-> PostureDeny,
   rules |-> << [BlankRule EXCEPT !.domains = {<<"*", "a", "com">>},
                                  !.action = action, !.mutations = mutations] >>]

SetHeader == [type |-> "SetHeader", header |-> "h", pathReplace |-> ""]

MCPolicies ==
  { DomainPolicy(ActionModify, {SetHeader}), DomainPolicy(ActionDeny, {}) }

A(addr, ttl) == [type |-> "A", addr |-> addr, ttl |-> ttl]
CNAME == [type |-> "CNAME", addr |-> NoAddr, ttl |-> 0]

\* The last two are ignored: no cgroup, and a name no rule mentions.
MCAnswers ==
  { [cgroup |-> 1, qname |-> Name, rrs |-> << CNAME, A(0, 1), A(1, 3) >>],
    [cgroup |-> 1, qname |-> Name, rrs |-> << A(0, 3) >>],
    [cgroup |-> 0, qname |-> Name, rrs |-> << A(0, 1) >>],
    [cgroup |-> 1, qname |-> <<"b", "com">>, rrs |-> << A(0, 1) >>] }
=============================================================================
