----------------------------- MODULE DNSLearner -----------------------------
(***************************************************************************)
(* The DNS learner (internal/enforce/dnslearn.go): answers seen by the     *)
(* kernel become per-destination verdicts of the querying pod, each with   *)
(* an expiry.  Three goroutines share it: the reader runs handle() for     *)
(* each answer, sweep() removes what has expired, watch() replaces the     *)
(* engine.  mu protects eng and entries, but not the kernel's map.         *)
(***************************************************************************)
EXTENDS AgentMaps

CONSTANTS
  PodTable,         \* what ByCgroupID knows: cgroup -> PodInfo
  Answers,          \* DNS answers: [cgroup, qname, rrs]
  MinTTL, MaxTTL,   \* minLearnTTL, maxLearnTTL
  MaxEntries,       \* the capacity of the verdicts map
  MaxTime, MaxGen   \* how long we look, how often the policy changes (bounds)

ASSUME TTLAssumption ==
  /\ MinTTL \in Nat /\ MaxTTL \in Nat /\ MinTTL <= MaxTTL
  /\ MaxTime \in Nat /\ MaxGen \in Nat /\ MaxEntries \in Nat \ {0}

VARIABLES
  now,       \* the time
  eng,       \* the policy of the engine in use
  gen,       \* history: how often it was replaced
  since,     \* history: when an earlier one was last in use
  entries,   \* learned key -> expiry
  gens,      \* history: learned key -> generation of the engine that decided
  due,       \* history: key -> expiry of the verdict that handle() Put last
  leftover,  \* history: keys in the map because their Delete by sweep() failed
  hpc,       \* where handle() is
  hans,      \* the answer it works on
  hstart,    \* when it read the time, from which its entries' TTL counts
  hgen,      \* history: the generation of the engine it read
  hact,      \* the verdict
  htodo,     \* the keys it has still to write
  hkey,      \* the key it has written and not recorded yet
  spc,       \* where sweep() is; it holds mu from "locked" to "forget"
  snow,      \* the time it compares with
  sleft,     \* the expired keys it has still to remove
  skey       \* the key it has tried to remove from the map and not forgotten yet

engvars == <<eng, gen, since>>
hvars == <<hpc, hans, hstart, hgen, hact, htodo, hkey>>
svars == <<spc, snow, sleft, skey>>
lhist == <<due, leftover>>
lvars == <<now, engvars, entries, gens, lhist, hvars, svars>>
mlvars == <<maps, lvars>>

-----------------------------------------------------------------------------
(* Answers.                                                                *)

ResourceRecord == [type : STRING, addr : Int, ttl : Nat]

ASSUME AnswersAssumption == \A a \in Answers : a.rrs \in Seq(ResourceRecord)

\* Only the A records count.
ARecords(rrs) == {i \in DOMAIN rrs : rrs[i].type = "A"}

Addresses(rrs) == {rrs[i].addr : i \in ARecords(rrs)}

\* Fault: the last TTL is kept.
KeptTTLLast(rrs) ==
  LET ttl[i \in 0..Len(rrs)] ==
        IF i = 0 THEN 0 ELSE IF i \in ARecords(rrs) THEN rrs[i].ttl ELSE ttl[i - 1]
  IN  ttl[Len(rrs)]

\* The TTL parseAnswers keeps: a zero it holds gives way to any later one.
KeptTTL(rrs) ==
  LET ttl[i \in 0..Len(rrs)] ==
        IF i = 0 THEN 0
        ELSE IF i \in ARecords(rrs) /\ (ttl[i - 1] = 0 \/ rrs[i].ttl < ttl[i - 1])
        THEN rrs[i].ttl
        ELSE ttl[i - 1]
  IN  ttl[Len(rrs)]

NoAnswer == [cgroup |-> 0, qname |-> <<>>, rrs |-> <<>>]

ClampTTL(ttl) ==
  IF ttl < MinTTL THEN MinTTL ELSE IF ttl > MaxTTL THEN MaxTTL ELSE ttl

UnknownPod == [namespace |-> 0, name |-> 0, uid |-> 0, labels |-> NoLabels]

ByCgroupID(cg) == IF cg \in DOMAIN PodTable THEN PodTable[cg] ELSE UnknownPod

LearnedKeys(a, ports) ==
  {VKey(a.cgroup, ip, port) : ip \in Addresses(a.rrs),
                              port \in IF ports = {} THEN {0} ELSE ports}

\* When the entries of the running handle() expire.
hexp == hstart + ClampTTL(KeptTTL(hans.rrs))

\* handle() has put k and not recorded it yet.
Unrecorded(k) == hpc = "track" /\ hkey = k

-----------------------------------------------------------------------------
LInit ==
  /\ maps = [k \in {} |-> ActionAllow]
  /\ now = 0
  /\ eng \in Policies
  /\ gen = 0
  /\ since = 0
  /\ entries = [k \in {} |-> 0]
  /\ gens = [k \in {} |-> 0]
  /\ due = [k \in {} |-> 0]
  /\ leftover = {}
  /\ hpc = "idle"
  /\ hans = NoAnswer
  /\ hstart = 0
  /\ hgen = 0
  /\ hact = ActionAllow
  /\ htodo = {}
  /\ hkey = NoKey
  /\ spc = "idle"
  /\ snow = 0
  /\ sleft = {}
  /\ skey = NoKey

MuFree == spc \in {"idle", "lock"}

Tick ==
  /\ now < MaxTime
  /\ now' = now + 1
  /\ UNCHANGED <<maps, engvars, entries, gens, lhist, hvars, svars>>

\* watch(): a new policy.
SetEngine(p) ==
  /\ MuFree
  /\ gen < MaxGen
  /\ eng' = p
  /\ gen' = gen + 1
  /\ since' = now
  /\ UNCHANGED <<maps, now, entries, gens, lhist, hvars, svars>>

\* The domain rule that decides an answer, 0 if there is none.
DecidingRule(a) == DomainRule(eng, ByCgroupID(a.cgroup), a.qname)

\* An answer without a cgroup, a name or addresses, or for which there is no
\* domain rule, is ignored.
Learns(a) ==
  /\ a.cgroup # 0 /\ a.qname # <<>> /\ Addresses(a.rrs) # {}
  /\ DecidingRule(a) # 0

\* handle() up to the engine's verdict.
Handle(a) ==
  /\ hpc = "idle"
  /\ MuFree
  /\ Learns(a)
  /\ hact' = ActionByte(eng.rules[DecidingRule(a)].action)
  /\ htodo' = LearnedKeys(a, eng.rules[DecidingRule(a)].ports)
  /\ hpc' = "stamp"
  /\ hans' = a
  /\ hgen' = gen
  /\ UNCHANGED <<maps, now, engvars, entries, gens, lhist, hstart, hkey, svars>>

\* The time is read after the engine, which may have been replaced meanwhile.
Stamp ==
  /\ hpc = "stamp"
  /\ hpc' = "loop"
  /\ hstart' = now
  /\ since' = IF hgen # gen THEN now ELSE since
  /\ UNCHANGED <<maps, now, eng, gen, entries, gens, lhist, hans, hgen, hact, htodo,
                 hkey, svars>>

\* One Put; a key that could not be written is not recorded.
PutVerdict(k) ==
  /\ hpc = "loop"
  /\ k \in htodo
  /\ htodo' = htodo \ {k}
  /\ \/ /\ maps' \in LruPuts(maps, MaxEntries, k, hact)
        /\ due' = MapPut(due, k, hexp)
        /\ leftover' = (leftover \ {k}) \cap DOMAIN maps'
        /\ hkey' = k
        /\ hpc' = "track"
     \/ UNCHANGED <<maps, lhist, hkey, hpc>>
  /\ UNCHANGED <<now, engvars, entries, gens, hans, hstart, hgen, hact, svars>>

\* Fault: the lifetime counts from when the entry is recorded.
TrackLate ==
  /\ hpc = "track"
  /\ MuFree
  /\ entries' = MapPut(entries, hkey, now + ClampTTL(KeptTTL(hans.rrs)))
  /\ gens' = MapPut(gens, hkey, hgen)
  /\ hpc' = "loop"
  /\ hkey' = NoKey
  /\ UNCHANGED <<maps, now, engvars, lhist, hans, hstart, hgen, hact, htodo, svars>>

\* Fault: a key that is recorded already keeps its expiry.
TrackOnce ==
  /\ hpc = "track"
  /\ MuFree
  /\ entries' = IF hkey \in DOMAIN entries THEN entries ELSE MapPut(entries, hkey, hexp)
  /\ gens' = MapPut(gens, hkey, hgen)
  /\ hpc' = "loop"
  /\ hkey' = NoKey
  /\ UNCHANGED <<maps, now, engvars, lhist, hans, hstart, hgen, hact, htodo, svars>>

Track ==
  /\ hpc = "track"
  /\ MuFree
  /\ entries' = MapPut(entries, hkey, hexp)
  /\ gens' = MapPut(gens, hkey, hgen)
  /\ hpc' = "loop"
  /\ hkey' = NoKey
  /\ UNCHANGED <<maps, now, engvars, lhist, hans, hstart, hgen, hact, htodo, svars>>

\* The loops are over; what handle() worked on is forgotten.
Handled ==
  /\ hpc = "loop"
  /\ htodo = {}
  /\ hpc' = "idle"
  /\ hans' = NoAnswer
  /\ hstart' = 0
  /\ hgen' = 0
  /\ hact' = ActionAllow
  /\ UNCHANGED <<maps, now, engvars, entries, gens, lhist, htodo, hkey, svars>>

-----------------------------------------------------------------------------
\* Fault: the time is read once, before the loop.
SweepTickFrozen ==
  /\ spc = "idle"
  /\ spc' = "lock"
  /\ snow' = 0
  /\ UNCHANGED <<maps, now, engvars, entries, gens, lhist, hvars, sleft, skey>>

\* sweep() reads the time, then waits for mu.
SweepTick ==
  /\ spc = "idle"
  /\ spc' = "lock"
  /\ snow' = now
  /\ UNCHANGED <<maps, now, engvars, entries, gens, lhist, hvars, sleft, skey>>

Expired(t) == {k \in DOMAIN entries : t > entries[k]}

SweepLock ==
  /\ spc = "lock"
  /\ spc' = "locked"
  /\ sleft' = Expired(snow)
  /\ UNCHANGED <<maps, now, engvars, entries, gens, lhist, hvars, snow, skey>>

\* The error of the Delete is ignored: the key is forgotten either way.
SweepDelete(k) ==
  /\ spc = "locked"
  /\ k \in sleft
  /\ \/ maps' = MapDelete(maps, k) /\ leftover' = leftover \ {k}
     \/ UNCHANGED maps /\ leftover' = leftover \cup ({k} \cap DOMAIN maps)
  /\ skey' = k
  /\ spc' = "forget"
  /\ UNCHANGED <<now, engvars, entries, gens, due, hvars, snow, sleft>>

\* Fault: all expired entries are forgotten after the first Delete.
SweepForgetAll ==
  /\ spc = "forget"
  /\ entries' = [k \in DOMAIN entries \ sleft |-> entries[k]]
  /\ gens' = [k \in DOMAIN gens \ sleft |-> gens[k]]
  /\ sleft' = {}
  /\ spc' = "locked"
  /\ skey' = NoKey
  /\ UNCHANGED <<maps, now, engvars, lhist, hvars, snow>>

SweepForget ==
  /\ spc = "forget"
  /\ entries' = MapDelete(entries, skey)
  /\ gens' = MapDelete(gens, skey)
  /\ due' = IF Unrecorded(skey) THEN due ELSE MapDelete(due, skey)
  /\ sleft' = sleft \ {skey}
  /\ spc' = "locked"
  /\ skey' = NoKey
  /\ UNCHANGED <<maps, now, engvars, leftover, hvars, snow>>

SweepUnlock ==
  /\ spc = "locked"
  /\ sleft = {}
  /\ spc' = "idle"
  /\ snow' = 0
  /\ UNCHANGED <<maps, now, engvars, entries, gens, lhist, hvars, sleft, skey>>

HandleStep ==
  Stamp \/ (\E k \in htodo : PutVerdict(k)) \/ Track \/ Handled

SweepStep ==
  \/ SweepTick
  \/ SweepLock
  \/ \E k \in sleft : SweepDelete(k)
  \/ SweepForget
  \/ SweepUnlock

LNext ==
  \/ Tick
  \/ \E p \in Policies : SetEngine(p)
  \/ \E a \in Answers : Handle(a)
  \/ HandleStep
  \/ SweepStep

LSpec == LInit /\ [][LNext]_mlvars

\* The goroutines run on, time passes; answers and policies are not owed.
LFairSpec == LSpec /\ WF_mlvars(Tick) /\ WF_mlvars(HandleStep) /\ WF_mlvars(SweepStep)

-----------------------------------------------------------------------------
\* What is left behind in the kernel's map is left by a Delete that failed: every
\* other learned verdict has an expiry recorded, or its recording is the handler's
\* next step, however handle() and sweep() interleave around the map that mu does
\* not protect (dnslearn.go:158-163, 178-184).
NothingUntracked ==
  \A k \in DOMAIN maps : k \in DOMAIN entries \cup leftover \/ Unrecorded(k)

\* What a replaced policy taught goes away: an entry that an earlier engine
\* decided expires at most MaxTTL after that engine was replaced (or, when
\* handle() had read it before, after handle() took the time), however late the
\* entry is written and recorded (dnslearn.go:26-27).
OldVerdictsExpire ==
  \A k \in DOMAIN entries : gens[k] # gen => entries[k] <= since + MaxTTL

\* No address outlives the shortest of the answer's TTLs, when none is zero
\* (dnslearn.go:209-210, 245): a zero is taken for no TTL read so far.
SmallestTTLUsed ==
  LET rrs == hans.rrs
  IN  hpc \in {"loop", "track"} /\ (\A i \in ARecords(rrs) : rrs[i].ttl # 0) =>
        \A i \in ARecords(rrs) : hexp <= hstart + ClampTTL(rrs[i].ttl)

\* The keys some answer can lead to under some policy.
Learnable ==
  UNION {LearnedKeys(a, r.ports) :
           a \in {a \in Answers : a.cgroup # 0},
           r \in UNION {{p.rules[i] : i \in DOMAIN p.rules} : p \in Policies}}

\* No entry stays expired: it is removed, or learned again with a later expiry.
ExpiredIsSwept ==
  \A k \in Learnable : []<>(k \notin Expired(now))

\* sweep() takes a verdict out of the map before the time its answer gave it in
\* one case only: handle() has just put it over an expired one and waits for mu
\* to record it (dnslearn.go:158-163 against 178-184).  All others it removes are
\* past the expiry that is recorded and past the one they were last put for.
OnlyUnrecordedSweptEarly ==
  [][spc = "locked" /\ spc' = "forget" =>
       /\ now > entries[skey']
       /\ now > due[skey'] \/ Unrecorded(skey')]_mlvars
=============================================================================
