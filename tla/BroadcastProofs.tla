-------------------------- MODULE BroadcastProofs ---------------------------
(***************************************************************************)
(* Proofs about module Broadcast, for any number of publishers, consumers  *)
(* and policies: the last broadcast reaches its addressees, no policy is   *)
(* dropped, and the channels implement the contract of a policy source.    *)
(***************************************************************************)
EXTENDS Broadcast, TLAPS

BTypeOK ==
  /\ cur \in Values
  /\ subMu \in Publishers \cup {Nobody}
  /\ subs \subseteq Consumers
  /\ slot \in [Consumers -> Values \cup {Empty}]
  /\ bpc \in [Publishers -> {"idle", "lock", "send", "drain", "resend"}]
  /\ val \in [Publishers -> Values]
  /\ left \subseteq subs
  /\ at \in Consumers
  /\ cpc \in [Consumers -> {"new", "snapped", "ready", "gone"}]
  /\ eng \in [Consumers -> Values]
  /\ sent \in Values
  /\ told \subseteq subs

\* Whoever is in the loop of broadcast holds subMu, and at is its subscriber.
HolderInv ==
  /\ \A w \in Publishers : bpc[w] \in {"send", "drain", "resend"} <=> subMu = w
  /\ \A w \in Publishers : bpc[w] \in {"drain", "resend"} => at \in left
  /\ subMu = Nobody => left = {}

\* A channel is made by Subscribe, and holds nothing before.
ChannelInv ==
  \A c \in Consumers :
    /\ c \in subs <=> cpc[c] \in {"ready", "gone"}
    /\ slot[c] # Empty => c \in subs

\* The default branch of the third select is never taken: since subMu admits
\* one sender, a drained buffer stays empty, and no policy is dropped.
NeverDropped == \A w \in Publishers : bpc[w] = "resend" => slot[at] = Empty

\* The holder broadcasts sent, and those it has finished with have it.
SentInv ==
  /\ subMu # Nobody => sent = val[subMu]
  /\ left \subseteq told
  /\ \A c \in told \ left : Box(c) = sent

BInv == BTypeOK /\ HolderInv /\ ChannelInv /\ NeverDropped /\ SentInv

-----------------------------------------------------------------------------
\* The invariant holds before anything is published or subscribed.
LEMMA BInvInit == BInit => BInv
BY BroadcastAssumption
   DEF BInit, BInv, BTypeOK, HolderInv, ChannelInv, NeverDropped, SentInv

\* Storing a policy leaves the broadcast in progress alone.
LEMMA SetCurStep ==
  ASSUME BInv, NEW w \in Publishers, NEW p \in Values, SetCur(w, p) PROVE BInv'
<1>0. BTypeOK /\ HolderInv /\ ChannelInv /\ NeverDropped /\ SentInv
  BY DEF BInv
<1>1. BTypeOK'
  BY <1>0 DEF SetCur, BTypeOK
<1>2. HolderInv'
  BY <1>0 DEF SetCur, BTypeOK, HolderInv
<1>3. ChannelInv'
  BY <1>0 DEF SetCur, ChannelInv
<1>4. NeverDropped'
  BY <1>0 DEF SetCur, BTypeOK, NeverDropped
<1>5. SentInv'
  BY <1>0, BroadcastAssumption DEF SetCur, BTypeOK, HolderInv, SentInv, Box
<1> QED
  BY <1>1, <1>2, <1>3, <1>4, <1>5 DEF BInv

\* A publisher takes subMu: everyone subscribed is still to be told.
LEMMA LockStep ==
  ASSUME BInv, NEW w \in Publishers, Lock(w) PROVE BInv'
<1>0. BTypeOK /\ HolderInv /\ ChannelInv /\ NeverDropped /\ SentInv
  BY DEF BInv
<1>1. BTypeOK'
  BY <1>0 DEF Lock, BTypeOK
<1>2. HolderInv'
  BY <1>0, BroadcastAssumption DEF Lock, BTypeOK, HolderInv
<1>3. ChannelInv'
  BY <1>0 DEF Lock, ChannelInv
<1>4. NeverDropped'
  BY <1>0, BroadcastAssumption DEF Lock, BTypeOK, NeverDropped
<1>5. SentInv'
  BY <1>0, BroadcastAssumption DEF Lock, BTypeOK, SentInv
<1> QED
  BY <1>1, <1>2, <1>3, <1>4, <1>5 DEF BInv

\* The first select: only the holder of subMu sends, to one subscriber.
LEMMA SendStep ==
  ASSUME BInv, NEW w \in Publishers, NEW c \in Consumers, Send(w, c) PROVE BInv'
<1>0. BTypeOK /\ HolderInv /\ ChannelInv /\ NeverDropped /\ SentInv
  BY DEF BInv
<1>a. subMu = w /\ val[w] = sent /\ sent \in Values /\ sent # Empty /\ subMu # Nobody
  BY <1>0, BroadcastAssumption DEF Send, BTypeOK, HolderInv, SentInv
<1>b. \A v \in Publishers : bpc[v] # "resend"
  BY <1>0, <1>a DEF Send, BTypeOK, HolderInv
<1>1. BTypeOK'
  BY <1>0, <1>a DEF Send, BTypeOK
<1>2. HolderInv'
  BY <1>0, <1>a DEF Send, BTypeOK, HolderInv
<1>3. ChannelInv'
  BY <1>0 DEF Send, BTypeOK, ChannelInv
<1>4. NeverDropped'
  BY <1>0, <1>b DEF Send, BTypeOK, NeverDropped
<1>5. SentInv'
  BY <1>0, <1>a DEF Send, BTypeOK, SentInv, Box
<1> QED
  BY <1>1, <1>2, <1>3, <1>4, <1>5 DEF BInv

\* The second select empties the buffer, and only its consumer could.
LEMMA DrainStep ==
  ASSUME BInv, NEW w \in Publishers, Drain(w) PROVE BInv'
<1>0. BTypeOK /\ HolderInv /\ ChannelInv /\ NeverDropped /\ SentInv
  BY DEF BInv
<1>1. BTypeOK'
  BY <1>0 DEF Drain, BTypeOK
<1>2. HolderInv'
  BY <1>0 DEF Drain, BTypeOK, HolderInv
<1>3. ChannelInv'
  BY <1>0 DEF Drain, BTypeOK, ChannelInv
<1>4. NeverDropped'
  BY <1>0 DEF Drain, BTypeOK, NeverDropped
<1>5. SentInv'
  BY <1>0 DEF Drain, BTypeOK, HolderInv, SentInv, Box
<1> QED
  BY <1>1, <1>2, <1>3, <1>4, <1>5 DEF BInv

\* The third select fills the buffer again.
LEMMA ResendStep ==
  ASSUME BInv, NEW w \in Publishers, Resend(w) PROVE BInv'
<1>0. BTypeOK /\ HolderInv /\ ChannelInv /\ NeverDropped /\ SentInv
  BY DEF BInv
<1>a. subMu = w /\ val[w] = sent /\ sent \in Values /\ sent # Empty /\ subMu # Nobody
  BY <1>0, BroadcastAssumption DEF Resend, BTypeOK, HolderInv, SentInv
<1>b. \A v \in Publishers : v # w => bpc[v] \notin {"send", "drain", "resend"}
  BY <1>0, <1>a DEF HolderInv
<1>c. slot[at] = Empty /\ at \in left
  BY <1>0 DEF Resend, NeverDropped, HolderInv
<1>1. BTypeOK'
  BY <1>0, <1>a DEF Resend, BTypeOK
<1>2. HolderInv'
  BY <1>0, <1>a, <1>b DEF Resend, BTypeOK, HolderInv
<1>3. ChannelInv'
  BY <1>0, <1>c DEF Resend, BTypeOK, ChannelInv
<1>4. NeverDropped'
  BY <1>0, <1>b DEF Resend, BTypeOK, NeverDropped
<1>5. SentInv'
  BY <1>0, <1>a, <1>c DEF Resend, BTypeOK, SentInv, Box
<1> QED
  BY <1>1, <1>2, <1>3, <1>4, <1>5 DEF BInv

\* broadcast returns when it has finished with everyone.
LEMMA UnlockStep ==
  ASSUME BInv, NEW w \in Publishers, Unlock(w) PROVE BInv'
<1>0. BTypeOK /\ HolderInv /\ ChannelInv /\ NeverDropped /\ SentInv
  BY DEF BInv
<1>a. subMu = w
  BY <1>0 DEF Unlock, HolderInv
<1>1. BTypeOK'
  BY <1>0, BroadcastAssumption DEF Unlock, BTypeOK
<1>2. HolderInv'
  BY <1>0, <1>a, BroadcastAssumption DEF Unlock, BTypeOK, HolderInv
<1>3. ChannelInv'
  BY <1>0 DEF Unlock, ChannelInv
<1>4. NeverDropped'
  BY <1>0 DEF Unlock, BTypeOK, NeverDropped
<1>5. SentInv'
  BY <1>0 DEF Unlock, SentInv, Box
<1> QED
  BY <1>1, <1>2, <1>3, <1>4, <1>5 DEF BInv

\* Consumers: a receive moves a policy from the buffer to the engine.
LEMMA ConsumerStep ==
  ASSUME BInv, NEW c \in Consumers,
         Snapshot(c) \/ Subscribe(c) \/ Receive(c) \/ Quit(c)
  PROVE  BInv'
<1>0. BTypeOK /\ HolderInv /\ ChannelInv /\ NeverDropped /\ SentInv
  BY DEF BInv
<1>1. BTypeOK'
  BY <1>0 DEF Snapshot, Subscribe, Receive, Quit, BTypeOK
<1>2. HolderInv'
  BY <1>0 DEF Snapshot, Subscribe, Receive, Quit, HolderInv
<1>3. ChannelInv'
  BY <1>0 DEF Snapshot, Subscribe, Receive, Quit, BTypeOK, ChannelInv
<1>4. NeverDropped'
  BY <1>0 DEF Snapshot, Subscribe, Receive, Quit, BTypeOK, NeverDropped
<1>5. SentInv'
  <2>1. CASE Snapshot(c)
    <3>1. c \notin told
      BY <1>0, <2>1 DEF Snapshot, BTypeOK, ChannelInv
    <3> QED
      BY <1>0, <2>1, <3>1 DEF Snapshot, BTypeOK, SentInv, Box
  <2>2. CASE Receive(c)
    <3>1. \A d \in Consumers : Box(d)' = Box(d)
      BY <1>0, <2>2 DEF Receive, BTypeOK, Box
    <3> QED
      BY <1>0, <2>2, <3>1 DEF Receive, BTypeOK, SentInv
  <2>3. CASE Subscribe(c) \/ Quit(c)
    BY <1>0, <2>3 DEF Subscribe, Quit, SentInv, Box
  <2> QED
    BY <2>1, <2>2, <2>3
<1> QED
  BY <1>1, <1>2, <1>3, <1>4, <1>5 DEF BInv

\* Every step preserves the invariant.
LEMMA BInvNext == BInv /\ [BNext]_bvars => BInv'
<1> SUFFICES ASSUME BInv, [BNext]_bvars PROVE BInv'
  OBVIOUS
<1>1. ASSUME NEW w \in Publishers, BroadcastStep(w) PROVE BInv'
  BY <1>1, LockStep, SendStep, DrainStep, ResendStep, UnlockStep DEF BroadcastStep
<1>2. ASSUME NEW w \in Publishers, NEW p \in Values, SetCur(w, p) PROVE BInv'
  BY <1>2, SetCurStep
<1>3. ASSUME NEW c \in Consumers, Snapshot(c) \/ Subscribe(c) \/ Receive(c) \/ Quit(c)
      PROVE  BInv'
  BY <1>3, ConsumerStep
<1>4. CASE UNCHANGED bvars
  BY <1>4 DEF bvars, BInv, BTypeOK, HolderInv, ChannelInv, NeverDropped, SentInv, Box
<1> QED
  BY <1>1, <1>2, <1>3, <1>4 DEF BNext

\* The inductive invariant of the broadcast code (filesource.go:106-124,
\* crdsource.go:145-163) holds always.
THEOREM BInvAlways == BSpec => []BInv
BY BInvInit, BInvNext, PTL DEF BSpec

\* Between broadcasts, every consumer the last one was addressed to has it, or
\* finds it in its channel and nothing older.
THEOREM LastReaches == BSpec => []LastBroadcastReaches
<1>1. BInv => LastBroadcastReaches
  BY DEF BInv, HolderInv, SentInv, LastBroadcastReaches
<1> QED
  BY <1>1, BInvAlways, PTL

\* No policy is dropped by the default branch of the third select.
THEOREM DropsNothing == BSpec => []NeverDropped
<1>1. BInv => NeverDropped
  BY DEF BInv
<1> QED
  BY <1>1, BInvAlways, PTL

-----------------------------------------------------------------------------
(* The contract: a step of the source or of a consumer is a step of        *)
(* LatestValue, or none.  A policy counts as offered when it is in the     *)
(* buffer, or when the buffer was drained for it.                          *)

\* Only the holder of subMu can be about to send for the second time.
LEMMA ResendingHolder ==
  ASSUME BInv, NEW w \in Publishers, subMu = w
  PROVE  Resending <=> bpc[w] = "resend"
BY DEF BInv, HolderInv, Resending

\* Nobody is, while subMu is free.
LEMMA NotResending == ASSUME BInv, subMu = Nobody PROVE ~Resending
BY BroadcastAssumption DEF BInv, HolderInv, Resending

\* The contract begins where the source begins.
LEMMA ContractInit == BInit => Contract!Init
BY BroadcastAssumption DEF BInit, Contract!Init, Resending, Box

\* Each step implements one of the contract.
LEMMA ContractNext == BInv /\ BInv' /\ [BNext]_bvars => [Contract!Next]_(Contract!vars)
<1> SUFFICES ASSUME BInv, BInv', [BNext]_bvars PROVE [Contract!Next]_(Contract!vars)
  OBVIOUS
<1>0. BTypeOK /\ HolderInv /\ ChannelInv /\ NeverDropped /\ SentInv
  BY DEF BInv
<1>1. ASSUME NEW w \in Publishers, Lock(w) PROVE Contract!Next
  <2>1. ~Resending /\ left = {}
    BY <1>0, <1>1, NotResending DEF Lock, HolderInv
  <2>2. ~Resending'
    BY <1>0, <1>1, <2>1 DEF Lock, BTypeOK, Resending
  <2>3. PICK v \in Values : v = val[w]
    BY <1>0 DEF BTypeOK
  <2>4. Contract!Announce(v)
    BY <1>1, <2>1, <2>2, <2>3 DEF Lock, Contract!Announce, Box
  <2> QED
    BY <2>4 DEF Contract!Next
<1>2. ASSUME NEW w \in Publishers, NEW c \in Consumers, Send(w, c)
      PROVE  Contract!Offer(c) \/ UNCHANGED Contract!vars
  <2>1. subMu = w /\ ~Resending
    BY <1>0, <1>2, ResendingHolder DEF Send, HolderInv
  <2>2. ~Resending'
    BY <1>0, <1>2, <2>1 DEF Send, BTypeOK, Resending
  <2>3. sent = val[w] /\ sent # Empty
    BY <1>0, <2>1, BroadcastAssumption DEF BTypeOK, SentInv
  <2>4. CASE slot[c] = Empty
    <3>1. \A d \in Consumers : Box(d)' = IF d = c THEN sent ELSE Box(d)
      BY <1>0, <1>2, <2>3, <2>4 DEF Send, BTypeOK, Box
    <3>2. c \in left /\ left' = left \ {c} /\ UNCHANGED <<subs, sent, eng>>
      BY <1>2, <2>4 DEF Send
    <3> QED
      BY <2>1, <2>2, <3>1, <3>2 DEF Contract!Offer
  <2>5. CASE slot[c] # Empty
    BY <1>0, <1>2, <2>1, <2>2, <2>5 DEF Send, Box, Contract!vars
  <2> QED
    BY <2>4, <2>5
<1>3. ASSUME NEW w \in Publishers, Drain(w) PROVE Contract!Next
  <2>1. subMu = w /\ ~Resending /\ at \in left
    BY <1>0, <1>3, ResendingHolder DEF Drain, HolderInv
  <2>2. Resending'
    BY <1>0, <1>3 DEF Drain, BTypeOK, Resending
  <2>3. PICK c \in Consumers : c = at
    BY <1>0 DEF BTypeOK
  <2>4. Contract!Offer(c)
    BY <1>0, <1>3, <2>1, <2>2, <2>3 DEF Drain, BTypeOK, Box, Contract!Offer
  <2> QED
    BY <2>4 DEF Contract!Next
<1>4. ASSUME NEW w \in Publishers, Resend(w) PROVE UNCHANGED Contract!vars
  <2>1. subMu = w /\ Resending /\ at \in left /\ slot[at] = Empty
    BY <1>0, <1>4 DEF Resend, HolderInv, NeverDropped, Resending
  <2>2. ~Resending'
    BY <1>0, <1>4, <2>1 DEF Resend, BTypeOK, HolderInv, Resending
  <2>3. sent = val[w] /\ sent # Empty
    BY <1>0, <2>1, BroadcastAssumption DEF BTypeOK, SentInv
  <2> QED
    BY <1>0, <1>4, <2>1, <2>2, <2>3 DEF Resend, BTypeOK, Box, Contract!vars
<1>5. ASSUME NEW w \in Publishers, Unlock(w) PROVE UNCHANGED Contract!vars
  <2>1. subMu = w /\ ~Resending
    BY <1>0, <1>5, ResendingHolder DEF Unlock, HolderInv
  <2>2. ~Resending'
    BY <1>0, <1>5, <2>1 DEF Unlock, BTypeOK, Resending
  <2> QED
    BY <1>5, <2>1, <2>2 DEF Unlock, Box, Contract!vars
<1>6. ASSUME NEW w \in Publishers, NEW p \in Values, SetCur(w, p)
      PROVE  UNCHANGED Contract!vars
  <2>1. Resending' <=> Resending
    BY <1>0, <1>6 DEF SetCur, BTypeOK, Resending
  <2> QED
    BY <1>6, <2>1 DEF SetCur, Box, Contract!vars
<1>7. ASSUME NEW c \in Consumers, Snapshot(c) PROVE Contract!Next
  <2>1. c \notin subs /\ slot[c] = Empty /\ c \notin left
    BY <1>0, <1>7 DEF Snapshot, BTypeOK, ChannelInv
  <2>2. (Resending' <=> Resending) /\ (Resending => c # at)
    BY <1>0, <1>7, <2>1 DEF Snapshot, HolderInv, Resending
  <2>3. PICK v \in Values : v = cur
    BY <1>0 DEF BTypeOK
  <2>4. Contract!Start(c, v)
    BY <1>0, <1>7, <2>1, <2>2, <2>3 DEF Snapshot, BTypeOK, Box, Contract!Start
  <2> QED
    BY <2>4 DEF Contract!Next
<1>8. ASSUME NEW c \in Consumers, Subscribe(c) PROVE Contract!Join(c)
  <2>1. c \notin subs
    BY <1>0, <1>8 DEF Subscribe, BTypeOK, ChannelInv
  <2>2. Resending' <=> Resending
    BY <1>8 DEF Subscribe, Resending
  <2> QED
    BY <1>8, <2>1, <2>2 DEF Subscribe, Box, Contract!Join
<1>9. ASSUME NEW c \in Consumers, Receive(c) PROVE Contract!Take(c)
  <2>1. Resending' <=> Resending
    BY <1>9 DEF Receive, Resending
  <2>2. Resending => c # at
    BY <1>0, <1>9 DEF Receive, NeverDropped, Resending
  <2>3. \A d \in Consumers : Box(d)' = Box(d)
    BY <1>0, <1>9 DEF Receive, BTypeOK, Box
  <2> QED
    BY <1>0, <1>9, <2>1, <2>2, <2>3 DEF Receive, Box, Contract!Take
<1>10. ASSUME NEW c \in Consumers, Quit(c) PROVE UNCHANGED Contract!vars
  BY <1>10 DEF Quit, Resending, Box, Contract!vars
<1>11. ASSUME UNCHANGED bvars PROVE UNCHANGED Contract!vars
  BY <1>11 DEF bvars, Resending, Box, Contract!vars
<1>12. ASSUME NEW w \in Publishers, BroadcastStep(w)
       PROVE  Contract!Next \/ UNCHANGED Contract!vars
  BY <1>1, <1>2, <1>3, <1>4, <1>5, <1>12 DEF BroadcastStep, Contract!Next
<1>13. ASSUME NEW c \in Consumers, Snapshot(c) \/ Subscribe(c) \/ Receive(c) \/ Quit(c)
       PROVE  Contract!Next \/ UNCHANGED Contract!vars
  BY <1>7, <1>8, <1>9, <1>10, <1>13 DEF Contract!Next
<1> QED
  BY <1>6, <1>11, <1>12, <1>13 DEF BNext

\* The channels and the three selects of broadcast implement the contract of a
\* policy source (source.go:10-13), for any number of publishers and consumers.
THEOREM ImplementsContract == BSpec => KeepsContract
BY BInvAlways, ContractInit, ContractNext, PTL DEF BSpec, KeepsContract, Contract!Spec
=============================================================================
