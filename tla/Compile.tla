------------------------------ MODULE Compile -------------------------------
(***************************************************************************)
(* How a policy becomes map entries: what apply() writes for each rule     *)
(* (internal/enforce/programmer.go), and what the maps should hold when it *)
(* is done.                                                                *)
(***************************************************************************)
EXTENDS VerdictMaps

(* What apply() writes for a rule.                                         *)

ActionByte(a) == IF a = ActionDeny THEN ActionDeny ELSE ActionAllow

MatchCgroups(sel, table) ==
  IF IsZero(sel) THEN {0}
  ELSE {cg \in DOMAIN table : PodMatches(sel, table[cg])}

\* programCIDR: the keys of one CIDR, none if the maps cannot express it.
CidrKeys(cg, c, ports) ==
  IF c.v6 THEN {}
  ELSE IF ports = {} THEN {CKey(cg, Masked(c.addr, c.ones), c.ones)}
  ELSE IF c.ones = AddrBits THEN {VKey(cg, c.addr, port) : port \in ports}
  ELSE {}

\* A rule with a method, path or domain is left to the others.
Programmable(r) == r.methods = {} /\ r.path = <<>> /\ r.domains = {}

RuleKeys(p, table, i) ==
  LET r == p.rules[i]
      cgs == MatchCgroups(r.pod, table)
  IN  IF ~Programmable(r) THEN {}
      ELSE IF r.cidrs # {}
           THEN UNION {CidrKeys(cg, c, r.ports) : cg \in cgs, c \in r.cidrs}
      ELSE IF r.ports # {} THEN {}
      ELSE {DKey(cg) : cg \in cgs}

-----------------------------------------------------------------------------
(* What apply() is for.                                                    *)

\* The keys the maps should hold for policy p on these pods.
DesiredKeys(p, table) ==
  {GlobalDefault} \cup UNION {RuleKeys(p, table, i) : i \in 1..Len(p.rules)}

\* m holds exactly the desired keys, each with the action of the first rule
\* that asks for it (the posture, for a global default no rule asks for).
Realizes(m, p, table) ==
  /\ DOMAIN m = DesiredKeys(p, table)
  /\ \A i \in 1..Len(p.rules) : \A k \in RuleKeys(p, table, i) :
       (\A j \in 1..(i - 1) : k \notin RuleKeys(p, table, j))
         => m[k] = ActionByte(p.rules[i].action)
  /\ (\A i \in 1..Len(p.rules) : GlobalDefault \notin RuleKeys(p, table, i))
       => m[GlobalDefault] = ActionByte(EffectiveDefault(p))
=============================================================================
