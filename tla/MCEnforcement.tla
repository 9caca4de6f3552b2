--------------------------- MODULE MCEnforcement ----------------------------
(***************************************************************************)
(* A small instance of Enforcement: one pod, one destination that is both  *)
(* an address of the policy and the answer to a name, so that Programmer   *)
(* and learner meet on one key.                                            *)
(***************************************************************************)
EXTENDS Enforcement, TLC

MCPodTable ==
  1 :> [namespace |-> 1, name |-> 1, uid |-> 1, labels |-> NoLabels]

Mine == [AnyPod EXCEPT !.namespace = 1]

Rule(action, match) == match @@ [BlankRule EXCEPT !.action = action, !.pod = Mine]

Name == <<"a", "com">>

Address == [cidrs |-> {[v6 |-> FALSE, addr |-> 0, ones |-> 1]}, ports |-> {1}]

SetHeader == [type |-> "SetHeader", header |-> "h", pathReplace |-> ""]

\* One policy modifies a name and allows an address.
Permits ==
  [podSelector |-> EmptySelector, defaultAction |-> PostureDeny,
   rules |-> << Rule(ActionModify, [domains |-> {Name}, ports |-> {1},
                                    mutations |-> {SetHeader}]),
                Rule(ActionAllow, Address) >>]

\* The other one denies the address, and replaces the first.
Denies ==
  [podSelector |-> EmptySelector, defaultAction |-> PostureAllow,
   rules |-> << Rule(ActionDeny, Address) >>]

MCPolicies == {Permits, Denies}
MCUpdates == {Denies}

Answer ==
  [cgroup |-> 1, qname |-> Name, rrs |-> <<[type |-> "A", addr |-> 0, ttl |-> 1]>>]

\* The last two are not captured.
MCPackets ==
  { [v4 |-> TRUE, udp |-> TRUE, sport |-> 53, answer |-> Answer],
    [v4 |-> TRUE, udp |-> FALSE, sport |-> 53, answer |-> Answer],
    [v4 |-> FALSE, udp |-> TRUE, sport |-> 53, answer |-> Answer] }

MCAnswers == {Answer}
MCPodTables == {MCPodTable}
=============================================================================
