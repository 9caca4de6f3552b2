---------------------------- MODULE MCProgrammer ----------------------------
(***************************************************************************)
(* Small instances of Programmer: 2-bit addresses, cgroups 1 and 2.        *)
(***************************************************************************)
EXTENDS Programmer, TLC

Net(addr, ones) == [v6 |-> FALSE, addr |-> addr, ones |-> ones]
Net6 == [v6 |-> TRUE, addr |-> 0, ones |-> 1]

Pod(ns, labels) == [namespace |-> ns, name |-> 1, uid |-> 1, labels |-> labels]
InNamespace(ns) == [AnyPod EXCEPT !.namespace = ns]
Web == "app" :> "web"
WithLabels(l) == [AnyPod EXCEPT !.labels = l]

\* One pod; that pod before its labels arrive; a second pod besides it.
MCPodTables ==
  { 1 :> Pod(1, Web),
    1 :> Pod(1, NoLabels),
    (1 :> Pod(1, Web)) @@ (2 :> Pod(2, Web)) }

MkPolicy(default, rules) ==
  [podSelector |-> EmptySelector, defaultAction |-> default, rules |-> rules]

Allow(match) == match @@ BlankRule
Deny(match) == match @@ [BlankRule EXCEPT !.action = ActionDeny]

\* Two rules on one key, and a third that has a narrower one.
Blocklist ==
  MkPolicy("", << Deny([cidrs |-> {Net(0, 1)}]),
                  Allow([cidrs |-> {Net(1, 1), Net6}]),
                  Deny([cidrs |-> {Net(2, 2)}, ports |-> {1}]) >>)

\* Allow some pods something, deny them the rest; the first rule is a Modify.
Allowlist ==
  MkPolicy(PostureDeny,
    << [BlankRule EXCEPT !.action = ActionModify, !.cidrs = {Net(3, 2)},
          !.mutations = {[type |-> "SetHeader", header |-> "h",
                          pathReplace |-> ""]}],
       Allow([pod |-> InNamespace(1), cidrs |-> {Net(2, 2)}, ports |-> {1, 2}]),
       Deny([pod |-> WithLabels(Web)]) >>)

\* A catch-all rule, which lands on the global default itself, under rules the
\* maps do not express.
CatchAll ==
  MkPolicy(PostureAllow,
    << Allow([domains |-> {<<"a", "com">>}]),
       Allow([ports |-> {1}]),
       Allow([cidrs |-> {Net(0, 1)}, ports |-> {1}]),
       Deny([path |-> <<"x">>]),
       Deny(<<>>) >>)

MCPolicies == {Blocklist, Allowlist, CatchAll}
=============================================================================
