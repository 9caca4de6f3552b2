---------------------------- MODULE Enforcement -----------------------------
(***************************************************************************)
(* The enforcing agent as a whole: egress.Run (internal/egress/egress.go)  *)
(* attaches the hooks one after the other and starts the Programmer and    *)
(* the DNS learner in between, main.go stops and ends the process, and     *)
(* dns_ingress (bpf/egress.bpf.c) feeds the learner.  Both goroutines      *)
(* write the same verdicts map, which is an LRU hash.  They are the        *)
(* modules Programmer and DNSLearner, put together on one map, each with   *)
(* its channel of the policy source; here the pods stay the same.          *)
(***************************************************************************)
EXTENDS Programmer, DNSLearner

CONSTANTS
  Packets,   \* what may arrive: [v4, udp, sport, answer]
  RingSize,  \* the capacity of the dns_answers ring buffer
  Updates,   \* the policies that may be published
  MaxUpdates \* how often one is published (bound)

ASSUME PacketsAssumption == \A k \in Packets : k.answer \in Answers
ASSUME UpdatesAssumption == Updates \subseteq Policies

VARIABLES
  policy,    \* the policy source's current policy
  updates,   \* policies published so far
  apc,       \* where egress.Run is
  hooks,     \* the programs that are attached
  ctxDone,   \* the context was cancelled
  ring,      \* the dns_answers ring buffer
  pchan,     \* the Programmer's channel of the source, of capacity one
  missed,    \* history: the Programmer was not subscribed to the last update
  lpc,       \* where the learner's Run and watch() are
  lchan      \* the learner's channel

cvars == <<pchan, missed, lpc, lchan>>
avars == <<policy, updates, apc, hooks, ctxDone, ring>>
vars == <<maps, avars, cvars, pvars, lvars>>

-----------------------------------------------------------------------------
Init ==
  /\ policy \in Policies
  /\ updates = 0
  /\ apc = "load"
  /\ hooks = {}
  /\ ctxDone = FALSE
  /\ ring = <<>>
  /\ pchan = <<>>
  /\ missed = FALSE
  /\ lpc = "off"
  /\ lchan = <<>>
  /\ PInit /\ peng = policy /\ pods = PodTable
  /\ LInit /\ eng = policy

\* The order in which Run attaches; then it opens the reader.
After(stage) ==
  CASE stage = "load" -> "egress"
    [] stage = "egress" -> "ingress"
    [] stage = "ingress" -> "connect4"
    [] stage = "connect4" -> "open"
    [] stage = "open" -> "reading"

Stages == {"load", "egress", "ingress", "connect4", "open"}

Hooks == {"egress", "ingress", "connect4"}

\* One stage of Run; a goroutine is started when its hook has been attached.
Advance ==
  /\ apc \in Stages
  /\ hooks' = hooks \cup ({apc} \cap Hooks)
  /\ apc' = After(apc)
  /\ UNCHANGED <<maps, policy, updates, ctxDone, ring, cvars, pvars, lvars>>

\* Everything that exists while the process holds it: goroutines, maps, links.
Gone ==
  /\ hooks' = {}
  /\ ring' = <<>>
  /\ pchan' = <<>> /\ missed' = FALSE /\ lpc' = "off" /\ lchan' = <<>>
  /\ maps' = [k \in {} |-> ActionAllow]
  /\ enabled' = 0 /\ pc' = "off" /\ rule' = 0
  /\ todo' = {} /\ new' = {} /\ prev' = {} /\ lost' = {} /\ failed' = 0
  /\ subscribed' = FALSE /\ peng' = policy
  /\ eng' = policy /\ gen' = 0 /\ since' = 0
  /\ entries' = [k \in {} |-> 0] /\ gens' = [k \in {} |-> 0]
  /\ due' = [k \in {} |-> 0] /\ leftover' = {}
  /\ hpc' = "idle" /\ hans' = NoAnswer /\ hstart' = 0 /\ hgen' = 0
  /\ hact' = ActionAllow /\ htodo' = {} /\ hkey' = NoKey
  /\ spc' = "idle" /\ snow' = 0 /\ sleft' = {} /\ skey' = NoKey
  /\ UNCHANGED <<policy, updates, pods, podsAt, faults, now>>

\* Run returns and its deferred calls detach the hooks and close the maps.  The
\* goroutines it started may live on, but have no map to write to.
Return ==
  /\ apc' = "returned"
  /\ Gone

\* Fault: the error path leaves what was attached before it attached.
StageFailsLeaks ==
  /\ apc \in Stages
  /\ apc' = "returned"
  /\ ctxDone' = TRUE
  /\ UNCHANGED <<maps, policy, updates, hooks, ring, cvars, pvars, lvars>>

\* A stage fails: Run returns the error, and main.go cancels the context.
StageFails ==
  /\ apc \in Stages
  /\ Return
  /\ ctxDone' = TRUE

\* SIGINT or SIGTERM.
Signal ==
  /\ apc \in Stages \cup {"reading"}
  /\ ~ctxDone
  /\ ctxDone' = TRUE
  /\ UNCHANGED <<maps, policy, updates, apc, hooks, ring, cvars, pvars, lvars>>

\* The reader was closed because the context is done.
ReaderClosed ==
  /\ apc = "reading"
  /\ ctxDone
  /\ Return
  /\ UNCHANGED ctxDone

\* main returns, and the DaemonSet starts the agent again.
Restart ==
  /\ apc = "returned"
  /\ apc' = "load"
  /\ ctxDone' = FALSE
  /\ Gone

\* The process is killed; the kernel frees what it held.
Crash ==
  /\ apc # "returned"
  /\ apc' = "returned"
  /\ ctxDone' = TRUE
  /\ Gone

-----------------------------------------------------------------------------
\* The source stores policy p and offers it to those who have subscribed, in place
\* of what they have not taken yet; nobody else is told.  (How the store and the
\* sends of several writers interleave is the subject of Broadcast.)
Publish(p) ==
  /\ updates < MaxUpdates
  /\ updates' = updates + 1
  /\ policy' = p
  /\ pchan' = IF subscribed THEN <<p>> ELSE pchan
  /\ missed' = (pc \notin {"off", "snapshot"} /\ ~subscribed)
  /\ lchan' = IF lpc = "watching" THEN <<p>> ELSE lchan
  /\ UNCHANGED <<maps, apc, hooks, ctxDone, ring, lpc, pvars, lvars>>

\* Until when answers arrive, so that what they teach expires by MaxTime (bound).
LearnUntil == MaxTime - MaxTTL - 1

\* dns_ingress: IPv4, UDP, from port 53; when the ring is full, the answer is
\* delivered to the pod all the same.
DnsIngress(k) ==
  /\ "ingress" \in hooks
  /\ now <= LearnUntil
  /\ k.v4 /\ k.udp /\ k.sport = 53
  /\ ring' = IF Len(ring) < RingSize THEN Append(ring, k.answer) ELSE ring
  /\ UNCHANGED <<maps, policy, updates, apc, hooks, ctxDone, cvars, pvars, lvars>>

\* The goroutines that egress.Run has started by now.
ProgrammerRuns == apc \in {"ingress", "connect4", "open", "reading"}
LearnerRuns == apc \in {"connect4", "open", "reading"}

ProgrammerStep ==
  /\ ProgrammerRuns
  /\ Start \/ Snapshot(policy) \/ Apply \/ Subscribe \/ Rewalk
  /\ UNCHANGED <<avars, cvars, lvars>>

ProgrammerReceives ==
  /\ ProgrammerRuns
  /\ pchan # <<>>
  /\ Receive(Head(pchan))
  /\ pchan' = <<>>
  /\ UNCHANGED <<avars, missed, lpc, lchan, lvars>>

ProgrammerStops ==
  /\ ProgrammerRuns
  /\ ctxDone
  /\ Stop
  /\ UNCHANGED <<avars, cvars, lvars>>

\* The learner's Run takes the source's snapshot and starts watch() and sweep(),
\* or returns an error, which is only logged.
LearnerStarts ==
  /\ LearnerRuns
  /\ lpc = "off"
  /\ \/ lpc' = "run" /\ eng' = policy
     \/ lpc' = "stopped" /\ UNCHANGED eng
  /\ UNCHANGED <<maps, avars, pchan, missed, lchan, pvars, now, gen, since,
                 entries, gens, lhist, hvars, svars>>

\* watch() subscribes when it gets going.
LearnerSubscribes ==
  /\ LearnerRuns
  /\ lpc = "run"
  /\ lpc' = "watching"
  /\ UNCHANGED <<maps, avars, pchan, missed, lchan, pvars, lvars>>

LearnerReceives ==
  /\ LearnerRuns
  /\ lchan # <<>>
  /\ SetEngine(Head(lchan))
  /\ lchan' = <<>>
  /\ UNCHANGED <<avars, pchan, missed, lpc, pvars>>

Learning == LearnerRuns /\ lpc \in {"run", "watching"}

\* An answer that teaches nothing is read and dropped.
ReadAnswer ==
  /\ Learning
  /\ ring # <<>>
  /\ ring' = Tail(ring)
  /\ \/ Handle(Head(ring))
     \/ hpc = "idle" /\ ~Learns(Head(ring)) /\ UNCHANGED <<maps, lvars>>
  /\ UNCHANGED <<policy, updates, apc, hooks, ctxDone, cvars, pvars>>

LearnerStep ==
  /\ Learning
  /\ HandleStep \/ SweepStep
  /\ UNCHANGED <<avars, cvars, pvars>>

\* The LRU lists are kept per CPU, so an entry may go before the map is full.
Evict(k) ==
  /\ IsVerdictKey(k)
  /\ maps' = MapDelete(maps, k)
  /\ UNCHANGED <<avars, cvars, pvars, lvars>>

TimePasses ==
  /\ now < LearnUntil \/ (ring = <<>> /\ hpc = "idle")
  /\ Tick
  /\ UNCHANGED <<avars, cvars, pvars>>

RunStep == Advance \/ ReaderClosed

Next ==
  \/ RunStep \/ StageFails \/ Signal \/ Restart \/ Crash
  \/ \E p \in Updates : Publish(p)
  \/ \E k \in Packets : DnsIngress(k)
  \/ ProgrammerStep \/ ProgrammerReceives \/ ProgrammerStops
  \/ LearnerStarts \/ LearnerSubscribes \/ LearnerReceives
  \/ ReadAnswer \/ LearnerStep
  \/ \E k \in DOMAIN maps : Evict(k)
  \/ TimePasses

Spec == Init /\ [][Next]_vars

\* Run and the Programmer run on; nothing is owed by the others.  An update in the
\* channel gets strong fairness: it stays ready, and select picks any of its ready
\* cases.
FairSpec ==
  /\ Spec
  /\ WF_vars(RunStep)
  /\ WF_vars(ProgrammerStep)
  /\ SF_vars(ProgrammerReceives)

-----------------------------------------------------------------------------
Learned == DOMAIN entries \cup (IF hpc = "track" THEN {hkey} ELSE {})

\* Two owners, one map: every verdict in it is one that the Programmer or the
\* learner still knows about and will take out when its time has come, however
\* they overwrite and delete each other's entries (programmer.go:53-55,
\* dnslearn.go:26-27); or one whose Delete failed, by reconcile() or by sweep().
EveryVerdictOwned ==
  DOMAIN maps \subseteq
    prev \cup new \cup {GlobalDefault} \cup lost \cup Learned \cup leftover

Up == apc = "reading" /\ ~ctxDone

\* What rule i of policy p has the Programmer write into the verdicts map, and
\* what an answer under policy p has the learner write.
Writes(p, i) ==
  {<<k, ActionByte(p.rules[i].action)>> :
     k \in {k \in RuleKeys(p, PodTable, i) : IsVerdictKey(k)}}

Teaches(p, a) ==
  LET i == DomainRule(p, ByCgroupID(a.cgroup), a.qname)
  IN  IF i = 0 THEN {}
      ELSE {<<k, ActionByte(p.rules[i].action)>> :
              k \in LearnedKeys(a, p.rules[i].ports)}

Justified(p) ==
  UNION ({Writes(p, i) : i \in 1..Len(p.rules)}
           \cup {Teaches(p, k.answer) : k \in Packets})

\* What a replaced policy left behind is on its way out: once both have taken
\* over the new policy and the Programmer has finished its round, a verdict this
\* policy does not justify is one the learner has from an earlier engine, and
\* expires, or one whose Delete failed; although each of them may overwrite,
\* delete or keep alive what the other one wrote (dnslearn.go:26-27,
\* programmer.go:53-55).
StaleIsLearned ==
  eng = policy /\ peng = policy /\ pc = "idle" =>
    \A k \in DOMAIN maps :
      IsVerdictKey(k) /\ <<k, maps[k]>> \notin Justified(policy) =>
        \/ k \in lost \cup leftover
        \/ k \in DOMAIN entries /\ gens[k] # gen
        \/ k = hkey /\ hgen # gen

\* A verdict that the policy asks the Programmer for is there again and again,
\* although the sweeper may delete it, the learner overwrite it and the kernel
\* evict it: the ticker writes it anew (programmer.go:27-28).  This is owed while
\* the Programmer runs and unless the policy was published between its Snapshot
\* and its Subscribe (programmer.go:88-94), when it never hears of it.
VerdictsComeBack ==
  <>[](Up /\ pc # "stopped" /\ ~missed) /\ <>[][policy' = policy]_vars =>
    \A p \in Policies : \A i \in 1..Len(p.rules) : \A w \in Writes(p, i) :
      []<>(policy = p => w[1] \in DOMAIN maps /\ maps[w[1]] = w[2])

\* The agent is all there or not at all: it never stays with some of its hooks
\* attached only, although the Programmer has been switching enforcement on
\* since the first one was; nor with all of them once it is told to stop, or a
\* stage failed, even if the Programmer does not get to switch enforcement off
\* (programmer.go:79-81, main.go:111-118).
FailsOpen == []<>(hooks = {} \/ (hooks = Hooks /\ ~ctxDone))
=============================================================================
