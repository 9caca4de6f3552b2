---------------------------- MODULE MCNodePolicy ----------------------------
(***************************************************************************)
(* Small instances of NodePolicy: 2-bit addresses, three pods in two       *)
(* namespaces.                                                             *)
(***************************************************************************)
EXTENDS NodePolicy, TLC

Net(addr, ones) == [v6 |-> FALSE, addr |-> addr, ones |-> ones]
Pod(ns, name, labels) ==
  [namespace |-> ns, name |-> name, uid |-> name, labels |-> labels]

Web == "app" :> "web"
Db == "app" :> "db"
WithLabels(l) == [AnyPod EXCEPT !.labels = l]

MCPodTable ==
  (1 :> Pod(1, 1, Web @@ ("tier" :> "back"))) @@ (2 :> Pod(2, 2, Db))
    @@ (3 :> Pod(1, 3, NoLabels))

Subject(labels, exprs) == [labels |-> labels, exprs |-> exprs]
Need(key, op, values) == [key |-> key, operator |-> op, values |-> values]

Mk(subject, default, rules) ==
  [podSelector |-> subject, defaultAction |-> default, rules |-> rules]
\* Rules of an object, which name no pods, and rules of a file.
SpecRule == [f \in DOMAIN BlankRule \ {"pod"} |-> BlankRule[f]]
Allow(match) == match @@ SpecRule
Deny(match) == match @@ [SpecRule EXCEPT !["action"] = ActionDeny]
FileRule(match) == match @@ BlankRule

\* Cluster policies: a node-wide block, an allowlist for labelled pods, a
\* node-wide default-deny with a domain exception, an invalid one.
MCClusterSpecs ==
  { Mk(EmptySelector, "", << Allow([cidrs |-> {Net(0, 2)}]),
                             Deny([cidrs |-> {Net(0, 1)}]) >>),
    Mk(Subject(Web, {}), PostureDeny,
       << Allow([cidrs |-> {Net(2, 2)}, ports |-> {1}]),
          Allow([cidrs |-> {Net(0, 1)}]) >>),
    Mk(EmptySelector, PostureDeny,
       << Allow([domains |-> {<<"*", "a", "com">>}]) >>),
    Mk(EmptySelector, PostureDeny, << Allow([action |-> ActionModify]) >>) }

\* Tenant policies: a block, an allowlist for pods chosen by an expression, an
\* invalid one.
MCTenantSpecs ==
  { Mk(EmptySelector, PostureAllow, << Deny([cidrs |-> {Net(2, 1)}]) >>),
    Mk(Subject(NoLabels, {Need("app", "NotIn", {"db"})}), PostureDeny,
       << Allow([cidrs |-> {Net(1, 2), Net(3, 2)}]) >>),
    Mk(Subject(NoLabels, {Need("app", "Exists", {})}), "",
       << Deny([cidrs |-> {Net(3, 3)}]) >>) }

MCTenantNames == {<<1, 1>>, <<1, 2>>, <<2, 1>>}

MCDomains == {<<"www", "a", "com">>, <<"b", "com">>}

\* Policy files: all that combine a selector, a posture and two rules of a few.

FileRules ==
  { FileRule([action |-> ActionDeny, cidrs |-> {Net(0, 1)}]),
    FileRule([pod |-> WithLabels(Web), ports |-> {1}]),
    FileRule([pod |-> [InNamespace(AnyPod, 1) EXCEPT !.exprs = {Need("app", "Exists", {})}],
              action |-> ActionDeny, ports |-> {2}]),
    FileRule([pod |-> WithLabels("tier" :> "back"), action |-> ActionDeny]),
    FileRule([methods |-> {"GET"}, action |-> ActionDeny]) }

MCFilePolicies ==
  { Mk(subject, default, << r1, r2 >>) :
      subject \in { EmptySelector, Subject(Web, {}), Subject(Db, {}),
                    Subject(NoLabels, {Need("app", "NotIn", {"db"})}) },
      default \in {"", PostureDeny}, r1, r2 \in FileRules }

\* For the comparison with what a comment says: a cluster block with a tenant's
\* allowance inside it.
NodeBlock ==
  { Mk(EmptySelector, "", << Deny([cidrs |-> {Net(0, 1)}]) >>) }
TenantAllow ==
  { Mk(EmptySelector, "", << Allow([cidrs |-> {Net(0, 1)}]) >>) }
=============================================================================
