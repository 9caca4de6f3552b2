# ebfw: TLA+ verification

ebfw is a node agent that watches, and can block, the egress traffic of pods.
Policies come from a file or from Kubernetes objects; an engine evaluates them;
a programmer compiles them into eBPF maps; kernel programs on the cgroup hooks
look verdicts up and report events; a DNS learner adds verdicts for domain
rules. Events are attributed to pods by walking the cgroup tree, and requests
inside TLS are read at `SSL_write`. An operator writes the policies' status.

## Parts of the system and where they are modelled

| Part | Source | Module |
|------|--------|--------|
| Policy types, validation, selectors, engine | `internal/policy/{policy,selector,flow,engine}.go` | `Policy` |
| Aggregation and file flattening | `internal/policy/aggregate.go` | `Aggregation`, `NodePolicy`, `AggregationProofs`, `NodePolicyProofs` |
| CRD conversion | `api/v1/egresspolicy_types.go` | `Conversion` |
| Verdict maps and `verdict_for` | `bpf/egress.bpf.c` | `VerdictMaps`, `KernelProofs` |
| Rules to map keys | `internal/enforce/programmer.go` | `Compile`, `KernelProofs` |
| Map programmer | `internal/enforce/programmer.go` | `Programmer`, `DatapathProofs` |
| Contract of a policy source | `internal/policy/source.go` | `LatestValue` |
| Snapshot, Subscribe, broadcast | `filesource.go`, `crdsource.go`, consumers in `internal/enforce` | `Broadcast`, `BroadcastProofs` |
| File source | `internal/policy/filesource.go` | `FileSource`, `FileSourceProofs` |
| CRD source | `internal/crdsource/crdsource.go` | `CRDSource`, `KubernetesProofs` |
| DNS learner | `internal/enforce/dnslearn.go` | `DNSLearner`, `EnforcementProofs` |
| egress and connect4 hooks, event ring | `bpf/egress.bpf.c` | `Datapath`, `DatapathProofs` |
| Event reader, filter, annotating sink | `internal/egress/egress.go`, `internal/config/config.go`, `internal/enforce/sink.go` | `Datapath` |
| Enforcing agent: start, stop, failure, restart, dns_ingress | `internal/egress/egress.go`, `main.go`, `bpf/egress.bpf.c` | `Enforcement`, which composes `Programmer` and `DNSLearner`; `EnforcementProofs` |
| Pod attribution: caches, walks, path parser | `internal/attr` | `Resolver`, `KubernetesProofs` |
| HTTPS snooping, HTTP/1 and HTTP/2 decoding | `internal/sslsnoop`, `internal/l7`, `bpf/sslsnoop.bpf.c` | `Snoop` |
| Operator | `internal/controller`, `cmd/operator` | `Operator`, `KubernetesProofs` |

`Policy <- VerdictMaps <- Compile` are operator modules, each extending the one
before; so do `Conversion` and `Aggregation` extend `Policy`. `AgentMaps` adds
what the writers and readers of the verdict maps share; `Programmer`,
`DNSLearner` and `Datapath` extend it, and `Enforcement` extends the first two.
`NodePolicy` extends `Compile`, `Conversion` and `Aggregation`;
`Operator` extends `Conversion`. `FileSource` and `CRDSource` extend
`Broadcast`, which implements `LatestValue`. `MC*` modules
only give constants their values. Definitions whose comment begins with "Fault:"
are wrong variants of the definition that follows them; they are part of no
specification and show that a property can fail.

## How state and actions correspond to the code

**Policy.** Labels are functions, domains are sequences of labels, an address
has `AddrBits` bits, 0 stands for an empty namespace, name or UID. `FirstMatch`
gives the index of the deciding rule.

**Programmer.** `pc` follows `Run` and `apply`: the switch, the snapshot, the
first `apply`, the subscription, the loop. `Run` may return an error before the
loop, with or without having switched enforcement off again; `egress.go:128`
only logs it, and hooks and maps stay as they are. `new` and `prev` are the three
key sets of a round in one set each, since a key names its map. Each Put and
each Delete is a step and may fail (`MaxFaults`); `lost` remembers the keys
whose Delete failed, which `reconcile` forgets. The order of keys inside a rule
is open because cgroups come from ranging over a Go map. Pods change at any
time, and `apply` works on the list it read. Here the verdicts map is large
enough; eviction and the learner's writes are in `Enforcement`.

**NodePolicy.** The state is the agent's policy source (`main.go` picks the CRD
source or the file source once), the set of objects in the cluster and the
policy file; every property is about what the node computes from them:
`Rebuild` (conversion, validation, aggregation), `Evaluate`, `Programmed` (the
maps after a clean `apply`: a key has the action of the first rule that asks
for it, as `AppliedExactly` shows of the `Programmer`) and `verdict_for`.
`Meaning` is an independent definition of what the objects say about a flow,
without folding.

**Broadcast.** A publisher is a goroutine that stores a policy and calls
`broadcast`; its three selects are three steps. A consumer takes a snapshot,
subscribes, receives, and may quit, leaving its channel in the list. `sent` and
`told` remember the last broadcast and its addressees.

**FileSource.** The file has a version, a time stamp and a flag that says
whether it loads; stat and load are separate steps, and two writes may get one
time stamp. **CRDSource.** An aggregate is identified with the versions of the
two lists it was made from; `rebuild` is split at its two Lists, at the store
and in `broadcast`. Each informer calls its handler from one goroutine.

**DNSLearner.** Reader, sweeper and watcher interleave; `mu` is held where the
code holds it (`MuFree`), the kernel map is written outside it. `gen`, `since`
and `gens` record which engine decided an entry, `due` the expiry of the answer
a verdict was last put for, `leftover` the keys whose Delete failed, an error
that `sweep` ignores. A Put into the LRU map may evict any other key when the
map is full.

**Datapath.** Sockets connect (`connect4`) and send packets (`egress`); events
go through a bounded ring buffer to `handleEvent`. Maps and engine change at any
time. `enforce_enabled` loads `enabled` and, in a later step, `dry_run`; the
Programmer changes these two bytes in two steps, in either order (`Switch`,
`Switched`), and `torn` remembers the hooks that were running meanwhile. egress
judges by the socket's cgroup and the packet's destination, connect4 by the
task's cgroup and the destination the task named; a socket of the instance
differs in both, so the two may disagree about one connection, and nothing is
claimed about that. `denials`, `overrun`, `skipped` and `shown` are history
counters. Payloads are reduced to what they look like, whether they parse, and
the name, method and path they carry; a DNS packet asks one question. Before the
Programmer has switched enforcement on, and in other modes, connect4 lets
everything through, which is also what happens when it is not attached.

**Enforcement.** `apc` follows `egress.Run` through its stages; a stage may
fail, a signal may come and the process may be killed between any two steps,
after which everything it held is gone (`Gone`) and the DaemonSet starts it
again. `Programmer` and `DNSLearner` are extended and share `maps`; they start
when the code starts them, which is before the last hook is attached. `Publish`
stores a policy and puts it into the channels of those who have subscribed:
`Subscribe` and `LearnerSubscribes` come after the snapshot, and what is
published in between is heard of by neither (`missed`, for the Programmer).
The `Run` of either may return an error, which is only logged. The context of a
failed `egress.Run` is cancelled by `main.go`. An entry of the LRU map may be
evicted at any time, because the kernel keeps its lists per CPU.

**Resolver.** A walk of the cgroup tree is not atomic: it meets what exists
throughout and any part of what came or went meanwhile, less any directories it
cannot read (`filepath.WalkDir` and `Stat` errors are passed over); `unread`
remembers those that a lookup was made for and did not find for this reason. Two
callers of `ByCgroupID` and the Programmer's `Pods()` walk at once; each
replaces the shared index. A path is a sequence of segments with the parts the
regular expressions capture, and `ParsePath` folds over them. Cgroup ids are not
used twice. The caller asks for a cgroup that has existed (its traffic was
seen).

**Snoop.** Data is a sequence of pieces, lines of HTTP/1 or parts of HTTP/2
frames, spread over writes. The probe cuts at `MaxData` and loses events when
the ring is full; `handle` finds the decoder by pointer, which another
connection may have used before, in a table that is cleared when full. A
compression table is known by the number of blocks that went into it; a decoder
out of step is `garbled`. `spoilt` records the connections for which any of
this happened, `discoverLoop` is a goroutine of its own.

**Operator.** An object is the history of its specs, its length being
`metadata.generation`, with a status. Two controllers read a cache that lags,
and send updates that the API server refuses when the object has changed. A
request may fail before or after it took effect; a leader may die and leave a
request under way that arrives after its successor's.

## What the runs show

Passing runs:

| Run | Shows |
|-----|-------|
| `Programmer` | no leftover entry unless its Delete failed (`NoOrphans`), exact maps after a round without a failed Put (`AppliedExactly`), no entry missing in between (`NoGap`), an uneventful round changes nothing at any step (`RewalkIsInvisible`), the ticker repairs failed Puts (`SelfHeals`), the inductive invariant (`PInv`) |
| `NodePolicy` | the aggregate is valid and means what the objects mean; flattening a file keeps its meaning, unless labels clash; a tenant affects only its namespace, in engine and maps; the lookup agrees with the engine unless an earlier rule is less specific than a later one it disagrees with |
| `Broadcast` | the last broadcast reaches every addressee, refinement of `LatestValue` (`KeepsContract`), a broadcast ends whatever consumers do |
| `FileSource` | snapshot and last broadcast agree between reloads; no consumer goes back to an older version; a newer valid version reaches subscribed consumers |
| `CRDSource` | a rebuild that no other overlapped leaves everything current; a notified change gets into the snapshot unless a List failed |
| `DNSLearner` | a verdict is left untracked by a failed Delete only (`NothingUntracked`), it is swept early only while it is renewed and not yet recorded (`OnlyUnrecordedSweptEarly`), expired entries are removed, a replaced engine's verdicts expire, no address outlives the shortest TTL of its answer |
| `Datapath` | denied connects are accounted for, logged verdicts are true ones, dry run and the other modes block nothing, except what is being judged while the switch is thrown |
| `Enforcement` | two owners of one evicting map: every verdict has an owner (`EveryVerdictOwned`), what an old policy left is on its way out (`StaleIsLearned`), what the current one asks for comes back however often it is deleted, overwritten or evicted, while the Programmer runs and unless it missed the policy (`VerdictsComeBack`); hooks never stay half attached, and go when the agent stops or a stage fails (`FailsOpen`) |
| `Resolver` | a pod that exists is never cached as unknown and never taken for another, unless the walk made for it could not read its directory |
| `Snoop` | a connection to which nothing happened is decoded completely and in order, whatever happens to the others; every library gets its probe |
| `Operator` | a status is true of the generation it names, the observed generation never goes back, and the controllers come to rest with every status current |

One run in which the code does not do what a comment says, with the quotation
under `findings` in `PROJECT.json`: in `NodePolicyCluster` a tenant's entry
overrides a cluster rule in the kernel.

## Places where a comment or document says more than the code does

They have no run of their own; where a property is affected, its premise or its
statement excludes the case.

- `programmer.go:232` says reconcile deletes entries "no longer desired". An
  entry whose Put failed in this round is missing from the new key set, so its
  old version is deleted although still desired, until the next tick.
- `programmer.go:139-142` writes the rules in reverse so that the first one
  wins. When two rules with different actions contend for a key, the loser's
  action is in force between the two Puts of every round, not only when the
  policy changes (`AllHonoured` is the premise of `RewalkIsInvisible`).
- `selector.go:62-63` says a folded rule matches pods that satisfy both
  selectors. A label both of them fix is overwritten (`NoClash` is the premise
  of `FlattenKeepsMeaning`).
- `egress.bpf.c:105-107` says per-IP entries are always faithful to rule order.
  A later rule for one address wins over an earlier one for a range
  (`RuleOrderAgrees` is the premise of `DatapathMatchesEngine`).
- `egress.bpf.c:505-507` says the egress hook does not see a denied connection.
  In a dry run the connection goes on after it was reported.
- `egress.bpf.c:151-155` says that a dry run never drops. `disable()` writes
  {0, 0}, and a hook that has loaded `enabled` before and loads `dry_run` after
  that blocks; so does one that meets the two bytes half written
  (`HarmlessUnlessEnforcing` leaves out the hooks that run meanwhile).
- `docs/configuration.md:68` says a changed file is reloaded. A file replaced
  between the first load and the first stat, or by one that is not newer, is
  not (`HotReload` speaks of versions whose time stamp is newer than the one
  last seen).
- `crdsource.go:85` says Snapshot is current. Two overlapping rebuilds may store
  in the wrong order, and the older aggregate stays until the next event
  (`SoloRebuildRepairs`).
- `source.go:10` says a subscriber misses only intermediate states. A policy
  published between a consumer's Snapshot and its Subscribe (`sink.go:54`,
  `programmer.go:88-94`, `dnslearn.go:62-106`) does not reach it, until there is
  a next one (`VerdictsComeBack` leaves that case out).
- `dnslearn.go:209-210` says the smallest TTL is used. A zero TTL counts as none
  read so far and is replaced by a later, larger one (`SmallestTTLUsed` speaks
  of answers without a zero).
- `metrics.go:62` counts the entries "currently programmed" by DNS learning. A
  sweep of a key's older expiry between Put and record leaves a recorded entry
  that is not in the map: the name's address is blocked or let through by other
  entries until the next answer. `OnlyUnrecordedSweptEarly` says that this is
  the only way. A Delete of the sweeper that fails leaves the opposite, an entry
  that is not counted (`leftover`).
- `docs/comparison.md:55` says that even a client that exits before its event is
  processed is attributed correctly. If its pod's cgroup has gone, too, and was
  not resolved before, it is not; and a slow lookup may overwrite the positive
  cache entry of a cgroup that has gone with a negative one. A pod whose
  directory the walk could not read is cached as unknown, too, although it runs
  (`NegativeMeansGone` leaves out both).
- `sslsnoop.go:5-6` says "every SSL_write is reported". Writes are cut at 4096
  bytes, events are lost when the ring is full and doubled when `SSL_write` is
  retried; a pointer used again finds the old decoder; the table is cleared at
  its limit; an HTTP/1 request spread over writes is not put together; and a
  header block that does not end in its HEADERS frame is skipped, after which
  the compression tables differ (`spoilt` and `Decodable` in
  `CaptureIsComplete`).
- The operator validates an EgressPolicy after scoping it to its namespace, the
  agents without. It makes no difference: lemma `ScopingKeepsValidity` in
  `KubernetesProofs`.

## Bounds

Two address bits (one for the learner) give prefixes of every length that
matters: the whole space, a half, a single address. Two or three pods in two
namespaces, one without labels, separate selectors, namespaces and the global
cgroup. The Programmer's policies have three to five rules, among them rules
that share a key, are nested, disagree, or cannot be expressed in the maps.
`NodePolicy` has up to two cluster and three tenant objects, so that sorting and
postures of several objects meet, or a file with any two of five rules. One
failing Put, Delete or List suffices to break a round; later failures repeat it.
Two publishers and two consumers meet in `Broadcast`, three publishers in
`CRDSource`. Three writes of the file allow a broken or equally stamped version
between two good ones. The learner's clock runs to 2 with TTLs clamped to 1..2,
so that an entry expires, is swept and is learned again, also while `handle` is
between Put and record; the map has room for one entry and an answer has two
addresses, so eviction happens. In `Datapath` three sockets (TCP, opened by a
task of another cgroup and with a translated destination; plain UDP; DNS over
IPv6) send three packets in all (`MaxPackets`); connects and packets together
overflow a ring buffer of two events, and the switch is thrown any number of
times.

`Enforcement` has one pod and one key that both the Programmer (an address of
the first policy) and the learner (the answer to a name) write, to let the
traffic pass; the second policy (`Updates`) denies that address and knows
nothing of the name. It is published once (`MaxUpdates`), at any moment of the
agent's life, the ones before its start and between snapshot and subscription
included; the clock runs to 1, with answers arriving until `LearnUntil`, so that
an entry is learned, becomes stale, expires and is swept. Start, failure,
signal, crash and restart are not bounded. `Resolver` has a pod under either
cgroup driver, one of them unknown to the API server, and a directory of no pod;
two callers and the Programmer walk at once (the callers are symmetric; no
liveness is checked there). `Snoop` has four connections at three pointers for a
table of two, so that a pointer is used again and the table is cleared; frames
are spread over writes, one write is longer than `MaxData`, one header block is
split, and one host is filtered. `Operator` has an object of each kind, a valid
and an invalid spec, three changes by users and two failures, enough for an
object to be deleted and created anew while a request of a dead leader is under
way. The operator may come to rest, so deadlock is not checked there.

## Fairness

Go schedules every runnable goroutine, and tickers fire: hence weak fairness of
`apply`, of the tick, of the broadcasting and sweeping goroutines, of
`discoverLoop`, of the stages of `egress.Run`, and of consumers that have not
quit. `Lock` gets strong fairness, because a `sync.Mutex` goes into starvation
mode and hands itself to the longest waiter; the Programmer's update
(`ProgrammerReceives`) gets strong fairness, because it stays in the channel and
a `select` picks at random among its ready cases. In
`Operator` each watch delivers, a work queue forgets no key and is worked off,
requests end, and a dead leader is replaced: weak fairness of each. Nothing is
assumed of the environment: files, objects, pods, answers, packets, containers
and connections. `SelfHeals` lets policy and pods settle first,
`VerdictsComeBack` lets agent and policy settle, with the Programmer running and
told of the policy, and `StatusSettles` relies on
users' changes being bounded.

## Proofs

Every theorem holds for all values of the constants, under the assumptions that
the modules name. About each state machine there is an inductive invariant, one
lemma per action, and theorems that follow from it. Some modules hold the proofs
about several components, one after the other; lemmas about one are not used for
another there.

- `DatapathProofs`, the Programmer: `PInv` gives `NoOrphans`,
  `AppliedExactly`, `NoGap` and `RewalkIsInvisible`. `AppliedExactly` is not
  inductive: in the middle of a round the maps are neither the old nor the new
  ones. `PInv` says what is known there: which keys `todo` may hold at each
  place (`ControlInv`); that recorded keys are in the maps and that during
  reconcile nothing else is but what is still to be deleted, or was lost
  (`RecordedInv`); and, for a round without a failed Put, that the value of a
  key is that of the smallest rule that has had its turn (`ValueInv`) and that
  all these keys are recorded (`NewInv`). What a rule compiles to is never
  unfolded. Assumed: policies are valid and have finitely many rules.
- `EnforcementProofs`, the DNS learner: `LInv` says where a key may be in the
  map without a record (`ForgetInv`), that expired keys stay so while `mu` is
  held (`SweepInv`), that a handler whose engine was replaced counts from a
  time before the replacement (`ExpiryInv`), and that the recorded expiry is the
  one a verdict was put for, unless its recording is the handler's next step
  (`DueInv`). Hence `NothingUntracked`, `OldVerdictsExpire` and
  `OnlyUnrecordedSweptEarly`. `SmallestTTLUsed` is about the loop
  over an answer's records, a recursive function: that the function exists, and
  that its value is the smallest TTL read so far, follow by looking at the first
  index at which it would fail (`TTLExists`, `KeptIsSmallest`). Assumed: an
  answer is a sequence of records with natural numbers as TTLs.
- `EnforcementProofs`, both on one map: `EInv` gives `EveryVerdictOwned` and
  `StaleIsLearned`, through start, failure, stop, crash and restart, with an
  eviction between any two steps, any number of policy updates and any number of
  failed Puts and Deletes of the Programmer (the run has `MaxFaults = 0`) and of
  the learner. `ChannelInv` says that the channels hold policies and that a
  learner that has not started has learned nothing, so that its first engine
  replaces none. Neither property is inductive.
  For the first, the key that the sweeper has deleted and is about to forget may
  have come back meanwhile, and then somebody else owns it (`OwnedInv`). For the
  second, the value of every key must be known to be that of one of the two
  writers: of a rule of the engine in use, or left over and still due in this
  round, or taught by an answer under the engine of that generation
  (`WriterInv`, with `GenInv` and `HandlerInv` about the generations).
- `BroadcastProofs`: `BInv` says that whoever is in the loop holds `subMu`, that
  a drained channel stays empty, and that those the holder has finished with
  have its policy. Hence `LastBroadcastReaches`, `NeverDropped` (the default
  branch of the third select is never taken) and the refinement of
  `LatestValue`, step by step.
- `FileSourceProofs` adds that consumer, channel, snapshot and file are in the
  order of their versions (`VersionInv`), for `NeverBackwards` and
  `SnapshotIsLastSent`. `KubernetesProofs` adds for the CRD source what a
  rebuild on its own knows at each place (`RepairInv`), for
  `SoloRebuildRepairs`. Both sources map their steps to steps of `Broadcast` and
  so implement `LatestValue`, too.
- `DatapathProofs`, the hooks: `DInv` says that the switch is on in enforce mode
  only, and with the agent's dry-run flag whenever it is not being thrown
  (`SwitchInv`); that a hook that has found it on either finds it unchanged when
  it loads the flag, or is torn (`TornInv`); and that every event in the ring
  carries one of the two actions. Hence `LoggedFaithfully` and
  `HarmlessUnlessEnforcing`. Assumed: map values are actions. That the lookup
  gives an action needs the least index among the eight entries it tries, which
  exists because `<` is well-founded. `DenialsAccounted` counts the events in
  the ring; the count is a cardinality, and `DenialsConcat` says how it grows
  when a hook appends and shrinks when the reader takes the first.
- `KubernetesProofs`, the resolver: `RInv` says what a call knows at each place;
  the point is that the directory it asks for has existed, so if it still exists
  it has been there since before the walk (`CallInv`), and its own walk, not the
  shared index, decides. `AnswersAreParsed` says so for any paths at all: a call
  returns what the parser makes of the path of its own cgroup, or nothing if
  that is gone or unread. That this is the right pod is the parser's part, and
  is not proved: `NegativesAreGone` and `RunningPodsAttributed` have it as a
  premise (`PathsParse`), and the run exercises the parser on paths of both
  drivers.
- `KubernetesProofs`, the operator: `OInv` says that every version of an object,
  in the API server, in the cache or in a request under way, has a status that
  is true of the generation it names. Hence `StatusIsTrue` and
  `ObservedNeverBack`.
- `NodePolicyProofs` proves all five safety properties of `NodePolicy`, on top
  of `AggregationProofs` and `KernelProofs`. The state is simple, so the
  invariant is, too: objects are typed, finitely many, and no two have one name
  (`NInv`). The work is in the pure functions, for any number of objects and of
  rules:
  - `AggregationProofs`: finitely many objects with different names can be
    listed in the order of their names (`Listed`, `SortedIs`), and leaving one
    out keeps the first among the others (`BlocksWithout`); the appending loops
    yield the concatenation of their pieces (`AppendedIs`); the first element of
    a concatenation with some property is the first one of the first piece that
    has any (`FirstOfAppended`). Instead of induction over rules, each proof
    takes a least counterexample. What folding does to a rule is one lemma,
    `FoldMatches`: it then matches what it matched before, of the pods the
    selector matches and in the namespace.
  - `KernelProofs`: a key has a rank, the place at which `verdict_for` tries it;
    keys that cover one packet have different ranks (`RankTellsApart`), the
    longest-prefix lookup and the cascade of eight find the one of least rank
    (`LongestPrefixIs`, `VerdictIs`), and a rule matches a packet exactly if one
    of its keys covers it (`RuleCovers`).
  - Together: `AlwaysValid`; `KernelAgrees`, where rule order and rank agree;
    `TenantsIsolated`, since a tenant's rules carry its namespace and so match
    no flow and write no key of another's pods; `MeaningKept` and
    `FlatteningKept`, since the first rule of the aggregate that matches comes
    from the first matching rule of the first object in scope.

  Assumed: files pass `Validate` when they are loaded, names are numbers,
  namespaced objects have a namespace, rules have the types that Go gives them,
  and no pod has cgroup id 0.

Only model-checked: the liveness properties (`SelfHeals`, `BroadcastEnds`,
`HotReload`, `ChangeIsPublished`, `ExpiredIsSwept`, `VerdictsComeBack`,
`FailsOpen`, `EveryLibraryProbed`, `StatusSettles`), since fairness and
ENABLED are out of the prover's reach; and `CaptureIsComplete` of `Snoop`, whose
frame decoder is a recursive operator: what it yields on all data is a matter of
induction over the data.

## Not modelled

- The TLS ClientHello parser, the DNS wire format, and header parsing in the
  kernel programs: parsers over bytes. The modules that use them need only
  whether they succeed and what name, addresses and TTLs they give.
- Output and metrics: formatting and counting, with no state that anything else
  reads.
- The `policy test` command, a command line around loading and evaluation, both
  of which are modelled; the enforcer interface, a declaration.
- Loading the configuration from file, flags and environment; certificates,
  probes and flags of `cmd/operator`; generated deep copies and schema markers.
- In HTTP/2: padding, priority and header blocks without a method. HPACK itself
  is a library.
- Whether `Pods()` finds every pod: it is one walk, and what a walk misses is up
  to the file system. Whether connect4 and egress agree about a connection: they
  go by different inputs and at different times.
- Modes without a kernel policy source in `Enforcement`: nothing is programmed
  there, and `Datapath` covers them.

## Running

    tlc -config Programmer.cfg MCProgrammer
    tlapm DatapathProofs.tla

Each run's module and configuration are listed in `PROJECT.json`.
