----------------------------- MODULE Broadcast ------------------------------
(***************************************************************************)
(* How a policy source hands policies to its consumers: Snapshot,          *)
(* Subscribe and broadcast, the same code in internal/policy/filesource.go *)
(* and internal/crdsource/crdsource.go, and the consumers' side of it in   *)
(* internal/enforce (the sink, the Programmer and the DNS learner).  A     *)
(* publisher is a goroutine that calls broadcast.  The order in which      *)
(* broadcast ranges over the subscribers is left open.                     *)
(***************************************************************************)
CONSTANTS
  Publishers, Consumers,
  Values,      \* the policies
  First,       \* the policy before the first one is published
  Nobody,      \* subMu is free
  Empty        \* a channel without a value in its one-place buffer

ASSUME BroadcastAssumption ==
  Nobody \notin Publishers /\ Empty \notin Values /\ First \in Values

VARIABLES
  cur,     \* the source's current policy, behind mu
  subMu,   \* the holder of subMu
  subs,    \* the consumers whose channels are in subs
  slot,    \* the buffer of each consumer's channel
  bpc,     \* where each publisher is
  val,     \* the policy each publisher is broadcasting, if it is
  left,    \* the subscribers the holder of subMu has not finished with
  at,      \* the subscriber whose channel was found full
  cpc,     \* where each consumer is
  eng,     \* the policy of each consumer's engine
  sent,    \* history: the policy of the last broadcast that got subMu
  told     \* history: the subscribers there were then

bvars == <<cur, subMu, subs, slot, bpc, val, left, at, cpc, eng, sent, told>>

BInit ==
  /\ cur = First
  /\ subMu = Nobody
  /\ subs = {}
  /\ slot = [c \in Consumers |-> Empty]
  /\ bpc = [w \in Publishers |-> "idle"]
  /\ val = [w \in Publishers |-> First]
  /\ left = {}
  /\ at \in Consumers
  /\ cpc = [c \in Consumers |-> "new"]
  /\ eng = [c \in Consumers |-> First]
  /\ sent = First
  /\ told = {}

-----------------------------------------------------------------------------
(* The publishers.                                                         *)

\* cur is replaced under mu, and broadcast is called after mu is released.
SetCur(w, p) ==
  /\ bpc[w] = "idle"
  /\ cur' = p
  /\ val' = [val EXCEPT ![w] = p]
  /\ bpc' = [bpc EXCEPT ![w] = "lock"]
  /\ UNCHANGED <<subMu, subs, slot, left, at, cpc, eng, sent, told>>

Lock(w) ==
  /\ bpc[w] = "lock"
  /\ subMu = Nobody
  /\ subMu' = w
  /\ left' = subs
  /\ bpc' = [bpc EXCEPT ![w] = "send"]
  /\ sent' = val[w]
  /\ told' = subs
  /\ UNCHANGED <<cur, subs, slot, val, at, cpc, eng>>

\* Fault: a full channel is skipped.
SendOrSkip(w, c) ==
  /\ bpc[w] = "send"
  /\ c \in left
  /\ slot' = [slot EXCEPT ![c] = IF @ = Empty THEN val[w] ELSE @]
  /\ left' = left \ {c}
  /\ UNCHANGED <<cur, subMu, subs, bpc, val, at, cpc, eng, sent, told>>

\* Fault: a send that blocks.
SendBlocking(w, c) ==
  /\ bpc[w] = "send"
  /\ c \in left
  /\ slot[c] = Empty
  /\ slot' = [slot EXCEPT ![c] = val[w]]
  /\ left' = left \ {c}
  /\ UNCHANGED <<cur, subMu, subs, bpc, val, at, cpc, eng, sent, told>>

\* The first select: the buffer is free, or the default branch is taken.
Send(w, c) ==
  /\ bpc[w] = "send"
  /\ c \in left
  /\ \/ /\ slot[c] = Empty
        /\ slot' = [slot EXCEPT ![c] = val[w]]
        /\ left' = left \ {c}
        /\ UNCHANGED <<bpc, at>>
     \/ /\ slot[c] # Empty
        /\ at' = c
        /\ bpc' = [bpc EXCEPT ![w] = "drain"]
        /\ UNCHANGED <<slot, left>>
  /\ UNCHANGED <<cur, subMu, subs, val, cpc, eng, sent, told>>

\* Fault: the full buffer is not drained.
DrainNothing(w) ==
  /\ bpc[w] = "drain"
  /\ bpc' = [bpc EXCEPT ![w] = "resend"]
  /\ UNCHANGED <<cur, subMu, subs, slot, val, left, at, cpc, eng, sent, told>>

\* The second select: what is in the buffer, if it still is, is thrown away.
Drain(w) ==
  /\ bpc[w] = "drain"
  /\ slot' = [slot EXCEPT ![at] = Empty]
  /\ bpc' = [bpc EXCEPT ![w] = "resend"]
  /\ UNCHANGED <<cur, subMu, subs, val, left, at, cpc, eng, sent, told>>

\* The third select: a buffer that is full again keeps what it has.
Resend(w) ==
  /\ bpc[w] = "resend"
  /\ slot' = [slot EXCEPT ![at] = IF @ = Empty THEN val[w] ELSE @]
  /\ left' = left \ {at}
  /\ bpc' = [bpc EXCEPT ![w] = "send"]
  /\ UNCHANGED <<cur, subMu, subs, val, at, cpc, eng, sent, told>>

\* broadcast returns, and its argument is gone.
Unlock(w) ==
  /\ bpc[w] = "send"
  /\ left = {}
  /\ subMu' = Nobody
  /\ bpc' = [bpc EXCEPT ![w] = "idle"]
  /\ val' = [val EXCEPT ![w] = First]
  /\ UNCHANGED <<cur, subs, slot, left, at, cpc, eng, sent, told>>

BroadcastStep(w) ==
  \/ Lock(w)
  \/ \E c \in Consumers : Send(w, c)
  \/ Drain(w)
  \/ Resend(w)
  \/ Unlock(w)

-----------------------------------------------------------------------------
(* The consumers: the first engine is built from a snapshot, the channel   *)
(* is made afterwards, and every value received replaces the engine.       *)

Snapshot(c) ==
  /\ cpc[c] = "new"
  /\ eng' = [eng EXCEPT ![c] = cur]
  /\ cpc' = [cpc EXCEPT ![c] = "snapped"]
  /\ UNCHANGED <<cur, subMu, subs, slot, bpc, val, left, at, sent, told>>

Subscribe(c) ==
  /\ cpc[c] = "snapped"
  /\ subMu = Nobody
  /\ subs' = subs \cup {c}
  /\ cpc' = [cpc EXCEPT ![c] = "ready"]
  /\ UNCHANGED <<cur, subMu, slot, bpc, val, left, at, eng, sent, told>>

Receive(c) ==
  /\ cpc[c] = "ready"
  /\ slot[c] # Empty
  /\ eng' = [eng EXCEPT ![c] = slot[c]]
  /\ slot' = [slot EXCEPT ![c] = Empty]
  /\ UNCHANGED <<cur, subMu, subs, bpc, val, left, at, cpc, sent, told>>

\* The context is cancelled; the channel stays in subs.
Quit(c) ==
  /\ cpc[c] = "ready"
  /\ cpc' = [cpc EXCEPT ![c] = "gone"]
  /\ UNCHANGED <<cur, subMu, subs, slot, bpc, val, left, at, eng, sent, told>>

BNext ==
  \/ \E w \in Publishers : BroadcastStep(w)
  \/ \E w \in Publishers : \E p \in Values : SetCur(w, p)
  \/ \E c \in Consumers : Snapshot(c) \/ Subscribe(c) \/ Receive(c) \/ Quit(c)

BSpec == BInit /\ [][BNext]_bvars

\* The goroutines run on.  Lock gets strong fairness: a sync.Mutex that others
\* take again and again hands itself to a waiter after a millisecond.
BFairness ==
  /\ \A w \in Publishers : WF_bvars(BroadcastStep(w)) /\ SF_bvars(Lock(w))
  /\ \A c \in Consumers : WF_bvars(Subscribe(c)) /\ WF_bvars(Receive(c))

-----------------------------------------------------------------------------
\* What a consumer has, or finds when it next receives.
Box(c) == IF slot[c] # Empty THEN slot[c] ELSE eng[c]

\* Between broadcasts, every consumer the last one was addressed to has it, or
\* will find it in its channel and nothing older, however its receives raced
\* with the three selects (filesource.go:110, crdsource.go:149).
LastBroadcastReaches == subMu = Nobody => \A c \in told : Box(c) = sent

\* A publisher is never held up by consumers that stopped receiving or are
\* slow: its broadcast ends.
BroadcastEnds == \A w \in Publishers : bpc[w] = "lock" ~> bpc[w] = "idle"

-----------------------------------------------------------------------------
(* The contract.                                                           *)

Resending == \E w \in Publishers : bpc[w] = "resend"

Contract == INSTANCE LatestValue WITH
  members <- subs,
  due <- IF Resending THEN left \ {at} ELSE left,
  box <- [c \in Consumers |-> IF Resending /\ c = at THEN sent ELSE Box(c)]

\* The channels and selects implement the contract of source.go:10-13: a
\* subscriber that falls behind misses intermediate policies only.
KeepsContract == Contract!Spec
=============================================================================
