---------------------------- MODULE LatestValue -----------------------------
(***************************************************************************)
(* What a policy source promises its subscribers (the contract in          *)
(* internal/policy/source.go): an announcement is offered once to each     *)
(* member there is at that time, an offer replaces an older one that was   *)
(* not taken yet, and a member that takes gets the latest offer.           *)
(***************************************************************************)
CONSTANTS Consumers, Values, First

VARIABLES
  members,   \* the consumers that have subscribed
  sent,      \* the last value announced
  due,       \* the members it has not been offered to yet
  box,       \* the latest value offered to each consumer
  eng        \* the value each consumer works with

vars == <<members, sent, due, box, eng>>

Init ==
  /\ members = {}
  /\ sent = First
  /\ due = {}
  /\ box = [c \in Consumers |-> First]
  /\ eng = [c \in Consumers |-> First]

\* A consumer starts from some value, then joins.
Start(c, v) ==
  /\ c \notin members
  /\ box' = [box EXCEPT ![c] = v]
  /\ eng' = [eng EXCEPT ![c] = v]
  /\ UNCHANGED <<members, sent, due>>

Join(c) ==
  /\ c \notin members
  /\ members' = members \cup {c}
  /\ UNCHANGED <<sent, due, box, eng>>

Announce(v) ==
  /\ due = {}
  /\ sent' = v
  /\ due' = members
  /\ UNCHANGED <<members, box, eng>>

Offer(c) ==
  /\ c \in due
  /\ box' = [box EXCEPT ![c] = sent]
  /\ due' = due \ {c}
  /\ UNCHANGED <<members, sent, eng>>

Take(c) ==
  /\ eng' = [eng EXCEPT ![c] = box[c]]
  /\ UNCHANGED <<members, sent, due, box>>

Next ==
  \/ \E v \in Values : Announce(v)
  \/ \E c \in Consumers :
       \/ \E v \in Values : Start(c, v)
       \/ Join(c)
       \/ Offer(c)
       \/ Take(c)

Spec == Init /\ [][Next]_vars
=============================================================================
