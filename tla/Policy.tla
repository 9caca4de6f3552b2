------------------------------- MODULE Policy -------------------------------
(***************************************************************************)
(* The policy model of ebfw and its pure functions: selectors, the         *)
(* first-match-wins engine, and validation (internal/policy).              *)
(*                                                                         *)
(* Data is cut down to what the functions tell apart:                      *)
(*   - a namespace, pod name, uid or CR name is a natural number, 0 being  *)
(*     the empty string; CR names are compared only by their order;        *)
(*   - a label set is a function from a set of keys; reading an absent key *)
(*     gives "", as indexing a Go map does;                                *)
(*   - a domain is the sequence of its labels, "" being <<>>;              *)
(*   - an IPv4 address is a number below 2^AddrBits (32 bits in the code); *)
(*   - slices whose order is never observed are sets.                      *)
(***************************************************************************)
EXTENDS Integers, Sequences, FiniteSets

CONSTANT AddrBits

ASSUME AddrBitsAssumption == AddrBits \in Nat \ {0}

ActionAllow == "Allow"
ActionDeny == "Deny"
ActionModify == "Modify"

PostureAllow == "Allow"
PostureDeny == "Deny"

NoLabels == [k \in {} |-> ""]
AnyPod == [namespace |-> 0, name |-> 0, uid |-> 0,
           labels |-> NoLabels, exprs |-> {}]
EmptySelector == [labels |-> NoLabels, exprs |-> {}]

\* A rule that constrains nothing; concrete rules override its fields.
BlankRule == [name |-> 0, pod |-> AnyPod, domains |-> {}, cidrs |-> {},
              ports |-> {}, methods |-> {}, path |-> <<>>,
              action |-> ActionAllow, mutations |-> {}]

-----------------------------------------------------------------------------
(* Selectors.                                                              *)

LabelOf(labels, k) == IF k \in DOMAIN labels THEN labels[k] ELSE ""

RequirementMatches(r, labels) ==
  LET has == r.key \in DOMAIN labels
  IN  \/ r.operator = "In" /\ has /\ LabelOf(labels, r.key) \in r.values
      \/ r.operator = "NotIn" /\ ~(has /\ LabelOf(labels, r.key) \in r.values)
      \/ r.operator = "Exists" /\ has
      \/ r.operator = "DoesNotExist" /\ ~has

\* The label half of a PodSelector, and LabelSelector.Matches: same tests.
MatchesLabels(sel, labels) ==
  /\ \A k \in DOMAIN sel.labels : LabelOf(labels, k) = sel.labels[k]
  /\ \A r \in sel.exprs : RequirementMatches(r, labels)

IsZero(sel) == sel = AnyPod

SelectorEmpty(s) == s = EmptySelector

PodMatches(sel, pod) ==
  /\ sel.namespace # 0 => sel.namespace = pod.namespace
  /\ sel.name # 0 => sel.name = pod.name
  /\ sel.uid # 0 => sel.uid = pod.uid
  /\ MatchesLabels(sel, pod.labels)

-----------------------------------------------------------------------------
(* The engine.                                                             *)

\* The address with its host bits cleared (ipnet.IP after net.ParseCIDR).
Masked(ip, ones) == (ip \div 2^(AddrBits - ones)) * 2^(AddrBits - ones)

\* net.IPNet.Contains for IPv4 destinations; an IPv6 net holds none of them.
CidrContains(c, ip) == ~c.v6 /\ Masked(ip, c.ones) = Masked(c.addr, c.ones)

NormalizeDomainPattern(p) ==
  IF Len(p) > 1 /\ p[1] = "*" THEN Tail(p) ELSE p

\* The bases compile() keeps: a pattern that normalizes to "" is dropped.
CompiledDomains(r) == {NormalizeDomainPattern(p) : p \in r.domains} \ {<<>>}

DomainMatches(base, name) ==
  /\ base # <<>> /\ name # <<>>
  /\ Len(base) <= Len(name)
  /\ SubSeq(name, Len(name) - Len(base) + 1, Len(name)) = base

HasPrefix(path, prefix) ==
  Len(prefix) <= Len(path) /\ SubSeq(path, 1, Len(prefix)) = prefix

\* Flow.DstIP is nil.
NoAddr == -1

RuleMatches(r, f) ==
  /\ PodMatches(r.pod, f.pod)
  /\ CompiledDomains(r) # {} =>
       \E b \in CompiledDomains(r) : DomainMatches(b, f.domain)
  /\ r.cidrs # {} =>
       f.dst # NoAddr /\ \E c \in r.cidrs : CidrContains(c, f.dst)
  /\ r.ports # {} => f.port \in r.ports
  /\ r.methods # {} => f.method \in r.methods
  /\ HasPrefix(f.path, r.path)

\* Where a loop over indices stops that ends with the first of these, 0 if none.
FirstOf(I) == IF I = {} THEN 0 ELSE CHOOSE i \in I : \A j \in I : i <= j

\* The index of the first matching rule, 0 when only the default applies.
FirstMatch(p, f) == FirstOf({i \in 1..Len(p.rules) : RuleMatches(p.rules[i], f)})

EffectiveDefault(p) ==
  IF p.defaultAction = "" THEN PostureAllow ELSE p.defaultAction

Evaluate(p, f) ==
  LET i == FirstMatch(p, f)
  IN  IF i = 0 THEN EffectiveDefault(p) ELSE p.rules[i].action

\* The first domain-bearing rule whose selector and domains match, 0 if none.
\* Its other dimensions are not looked at.
DomainRule(p, pod, qname) ==
  FirstOf({i \in 1..Len(p.rules) :
             /\ PodMatches(p.rules[i].pod, pod)
             /\ \E b \in CompiledDomains(p.rules[i]) : DomainMatches(b, qname)})

-----------------------------------------------------------------------------
(* Validation.                                                             *)

RequirementValid(r) ==
  /\ r.key # ""
  /\ \/ r.operator \in {"In", "NotIn"} /\ r.values # {}
     \/ r.operator \in {"Exists", "DoesNotExist"} /\ r.values = {}

MutationValid(m) ==
  \/ m.type \in {"SetHeader", "AddHeader", "RemoveHeader"} /\ m.header # ""
  \/ m.type = "RewritePath" /\ m.pathReplace # ""

\* net.ParseCIDR rejects a prefix longer than the address.
ParsesCIDR(c) == c.v6 \/ c.ones <= AddrBits

RuleValid(r) ==
  /\ \/ r.action \in {ActionAllow, ActionDeny} /\ r.mutations = {}
     \/ /\ r.action = ActionModify
        /\ r.mutations # {}
        /\ \A m \in r.mutations : MutationValid(m)
  /\ \A c \in r.cidrs : ParsesCIDR(c)
  /\ \A e \in r.pod.exprs : RequirementValid(e)

Valid(p) ==
  /\ p.defaultAction \in {"", PostureAllow, PostureDeny}
  /\ \A e \in p.podSelector.exprs : RequirementValid(e)
  /\ \A i \in 1..Len(p.rules) : RuleValid(p.rules[i])

=============================================================================
