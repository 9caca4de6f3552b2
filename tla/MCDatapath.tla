----------------------------- MODULE MCDatapath -----------------------------
(***************************************************************************)
(* An instance of Datapath: 2-bit addresses, a known pod and an unknown    *)
(* cgroup, TCP, plain UDP, and DNS over IPv6.                              *)
(***************************************************************************)
EXTENDS Datapath, TLC

Sock(version, proto, src, cgroup, addr, port) ==
  [version |-> version, proto |-> proto, src |-> src, cgroup |-> cgroup,
   addr |-> addr, port |-> port, task |-> cgroup, user_ip4 |-> addr,
   user_port |-> port]

\* The first one was opened by a task of another cgroup, and what it connects to
\* is translated on the way.
MCSockets ==
  { [Sock(4, "tcp", 1, 1, 3, 1) EXCEPT !.task = 9, !.user_ip4 = 2],
    Sock(4, "udp", 1, 1, 2, 1), Sock(6, "udp", 2, 1, NoAddr, 53) }

MCPayloads ==
  { NoPayload,
    [looks |-> "http", readable |-> TRUE, domain |-> <<"a", "com">>,
     method |-> "GET", path |-> <<"x">>],
    [NoPayload EXCEPT !.looks = "tls"] }

MCPodTable ==
  1 :> [namespace |-> 1, name |-> 1, uid |-> 1, labels |-> "app" :> "web"]

MCMapStates ==
  { <<>>,
    (GlobalDefault :> ActionDeny) @@ (VKey(9, 2, 1) :> ActionAllow),
    CKey(1, 2, 1) :> ActionDeny }

Rules(default, rules) ==
  [podSelector |-> EmptySelector, defaultAction |-> default, rules |-> rules]

MCPolicies ==
  { Rules("", << [BlankRule EXCEPT !.action = ActionDeny, !.ports = {1}] >>),
    Rules(PostureDeny,
          << [BlankRule EXCEPT !.methods = {"GET"}, !.path = <<"x">>,
                               !.action = ActionDeny],
             [BlankRule EXCEPT !.domains = {<<"com">>}] >>) }

MCSkippedCidrs == { [v6 |-> FALSE, addr |-> 2, ones |-> 2] }
MCSkippedSuffixes == { <<"b">> }
=============================================================================
