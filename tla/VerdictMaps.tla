---------------------------- MODULE VerdictMaps -----------------------------
(***************************************************************************)
(* The three BPF verdict maps and the lookup the kernel does in them       *)
(* (bpf/egress.bpf.c).  They are kept together as one function from the    *)
(* keys that are present; a key names its map.  cgroup 0 is "node-global", *)
(* port 0 in a verdicts key is "any port".                                 *)
(***************************************************************************)
EXTENDS Policy

VKey(cg, ip, port) ==
  [map |-> "verdicts", cgroup_id |-> cg, daddr |-> ip, dport |-> port]

CKey(cg, net, ones) ==
  [map |-> "cidr_verdicts", cgroup_id |-> cg, daddr |-> net, prefixlen |-> ones]

DKey(cg) == [map |-> "default_action", cgroup_id |-> cg]

GlobalDefault == DKey(0)

IsVerdictKey(k) == k.map = "verdicts"

Actions == {ActionAllow, ActionDeny}

\* bpf_map_update_elem and bpf_map_delete_elem on a hash or trie.
MapPut(m, k, act) ==
  [x \in DOMAIN m \cup {k} |-> IF x = k THEN act ELSE m[x]]

MapDelete(m, k) == [x \in DOMAIN m \ {k} |-> m[x]]

\* What an update of an LRU hash of n entries may leave: a full map gives up
\* some other entry, which one is the kernel's affair.
LruPuts(m, n, k, act) ==
  IF k \in DOMAIN m \/ Cardinality(DOMAIN m) < n
  THEN {MapPut(m, k, act)}
  ELSE {MapPut(MapDelete(m, x), k, act) : x \in DOMAIN m}

-----------------------------------------------------------------------------
NoKey == [map |-> "none"]

\* The entry an LPM-trie lookup of (cgroup, address) finds.
LongestPrefix(m, cg, ip) ==
  LET hits == {k \in DOMAIN m : /\ k.map = "cidr_verdicts"
                                /\ k.cgroup_id = cg
                                /\ k.daddr = Masked(ip, k.prefixlen)}
  IN  IF hits = {} THEN NoKey
      ELSE CHOOSE k \in hits : \A l \in hits : l.prefixlen <= k.prefixlen

\* Fault: the node-global range is tried before the pod's own.
LookupOrderGlobalFirst(m, cg, ip, port) ==
  << VKey(cg, ip, port), VKey(cg, ip, 0),
     VKey(0, ip, port), VKey(0, ip, 0),
     LongestPrefix(m, 0, ip), LongestPrefix(m, cg, ip),
     DKey(cg), GlobalDefault >>

\* The lookups in the order they are tried.
LookupOrder(m, cg, ip, port) ==
  << VKey(cg, ip, port), VKey(cg, ip, 0),
     VKey(0, ip, port), VKey(0, ip, 0),
     LongestPrefix(m, cg, ip), LongestPrefix(m, 0, ip),
     DKey(cg), GlobalDefault >>

verdict_for(m, cg, ip, port) ==
  LET order == LookupOrder(m, cg, ip, port)
      i == FirstOf({j \in 1..Len(order) : order[j] \in DOMAIN m})
  IN  IF i = 0 THEN ActionAllow ELSE m[order[i]]
=============================================================================
