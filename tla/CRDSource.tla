----------------------------- MODULE CRDSource ------------------------------
(***************************************************************************)
(* The CRD policy source (internal/crdsource/crdsource.go): two informers, *)
(* one per kind, each calling rebuild() from a goroutine of its own for    *)
(* every event, and New() calling it once.  rebuild() lists the two kinds  *)
(* from the informers' caches one after the other, aggregates and          *)
(* publishes.  A policy is identified with the versions of the two lists   *)
(* it was aggregated from; module NodePolicy is about the aggregate.       *)
(***************************************************************************)
EXTENDS Naturals, Sequences, Broadcast

CONSTANTS
  New,          \* the goroutine of New()
  Kinds,        \* the kinds that may change; also their event goroutines
  MaxVersion,   \* how often each kind may change (bound)
  MaxFailures   \* how often a List may fail (bound)

ASSUME CRDAssumption ==
  /\ Publishers = Kinds \cup {New} /\ New \notin Kinds
  /\ Kinds \subseteq {"cluster", "namespaced"}
  /\ Values = (0..MaxVersion) \X (0..MaxVersion) /\ First = <<0, 0>>
  /\ MaxVersion \in Nat /\ MaxFailures \in Nat

VARIABLES
  store,    \* the versions in the informers' caches, cluster then namespaced
  events,   \* notifications each kind's goroutine has still to handle
  rpc,      \* where rebuild() is in each goroutine
  listed,   \* what its lists returned, forgotten when it returns
  failures, \* Lists that have failed so far
  solo      \* history: the rebuild() that began last was then the only one

cvars == <<store, events, rpc, listed, failures, solo>>
vars == <<bvars, cvars>>

\* Objects that exist when a handler is added are notified as additions.
CInit ==
  /\ BInit
  /\ store = <<0, 0>>
  /\ events \in [Kinds -> 0..1]
  /\ rpc = [w \in Publishers |-> IF w = New THEN "list" ELSE "idle"]
  /\ listed = [w \in Publishers |-> <<0, 0>>]
  /\ failures = 0
  /\ solo = TRUE

Idle(w) == rpc[w] = "idle" /\ bpc[w] = "idle"

Index(k) == IF k = "cluster" THEN 1 ELSE 2

\* An informer: the cache is updated before the event is delivered.
Change(k) ==
  /\ store[Index(k)] < MaxVersion
  /\ store' = [store EXCEPT ![Index(k)] = @ + 1]
  /\ events' = [events EXCEPT ![k] = @ + 1]
  /\ UNCHANGED <<bvars, rpc, listed, failures, solo>>

\* The goroutine of a kind takes the next event once rebuild() has returned.
TakeEvent(k) ==
  /\ Idle(k)
  /\ events[k] > 0
  /\ events' = [events EXCEPT ![k] = @ - 1]
  /\ rpc' = [rpc EXCEPT ![k] = "list"]
  /\ solo' = \A w \in Publishers : Idle(w)
  /\ UNCHANGED <<bvars, store, listed, failures>>

ListCluster(w) ==
  /\ rpc[w] = "list"
  /\ listed' = [listed EXCEPT ![w][1] = store[1]]
  /\ rpc' = [rpc EXCEPT ![w] = "list2"]
  /\ UNCHANGED <<bvars, store, events, failures, solo>>

\* Fault: the namespaced objects are not listed.
ListNamespacedNot(w) ==
  /\ rpc[w] = "list2"
  /\ rpc' = [rpc EXCEPT ![w] = "publish"]
  /\ UNCHANGED <<bvars, store, events, listed, failures, solo>>

ListNamespaced(w) ==
  /\ rpc[w] = "list2"
  /\ listed' = [listed EXCEPT ![w][2] = store[2]]
  /\ rpc' = [rpc EXCEPT ![w] = "publish"]
  /\ UNCHANGED <<bvars, store, events, failures, solo>>

\* Either List may fail, and rebuild() gives up.
ListFails(w) ==
  /\ rpc[w] \in {"list", "list2"}
  /\ failures < MaxFailures
  /\ failures' = failures + 1
  /\ solo' = FALSE
  /\ listed' = [listed EXCEPT ![w] = <<0, 0>>]
  /\ rpc' = [rpc EXCEPT ![w] = "idle"]
  /\ UNCHANGED <<bvars, store, events>>

PublishAggregate(w) ==
  /\ rpc[w] = "publish"
  /\ SetCur(w, listed[w])
  /\ listed' = [listed EXCEPT ![w] = <<0, 0>>]
  /\ rpc' = [rpc EXCEPT ![w] = "idle"]
  /\ UNCHANGED <<store, events, failures, solo>>

Publish(w) == BroadcastStep(w) /\ UNCHANGED cvars

\* Consumers are created after New() has returned.
Consume(c) ==
  /\ Idle(New)
  /\ Snapshot(c) \/ Subscribe(c) \/ Receive(c) \/ Quit(c)
  /\ UNCHANGED cvars

RebuildStep(w) ==
  ListCluster(w) \/ ListNamespaced(w) \/ PublishAggregate(w) \/ Publish(w)

\* No goroutine of the source has anything to do.
Quiet ==
  /\ \A k \in Kinds : events[k] = 0
  /\ \A w \in Publishers : Idle(w)

\* Nothing more happens, which is how the bounded instance ends.
Rest ==
  /\ Quiet
  /\ \A c \in Consumers : cpc[c] = "ready" => slot[c] = Empty
  /\ \A c \in Consumers : cpc[c] \in {"ready", "gone"}
  /\ UNCHANGED vars

CNext ==
  \/ \E k \in Kinds : Change(k) \/ TakeEvent(k)
  \/ \E w \in Publishers : RebuildStep(w) \/ ListFails(w)
  \/ \E c \in Consumers : Consume(c)
  \/ Rest

CSpec == CInit /\ [][CNext]_vars

\* The goroutines run on, consumers that have not quit receive.
CFairness ==
  /\ \A k \in Kinds : WF_vars(TakeEvent(k))
  /\ \A w \in Publishers :
       /\ WF_vars(RebuildStep(w))
       /\ SF_vars(Lock(w) /\ UNCHANGED cvars)
  /\ \A c \in Consumers : WF_vars(Consume(c) /\ (Subscribe(c) \/ Receive(c)))

CFairSpec == CSpec /\ CFairness

-----------------------------------------------------------------------------
\* A change is not forgotten, whatever the other informer does meanwhile: some
\* snapshot published after it reflects it, unless a List failed
\* (crdsource.go:65-69).
ChangeIsPublished ==
  \A k \in Kinds : \A n \in 1..MaxVersion :
    (events[k] > 0 /\ store[Index(k)] = n) ~> (cur[Index(k)] >= n \/ failures > 0)

\* One rebuild() that no other one overlapped and that listed both kinds makes
\* good whatever overlaps and failures before it did: when the source has come
\* to rest after it, the snapshot is the aggregate of what the caches hold, and
\* every consumer the last broadcast was addressed to has that one too.
SoloRebuildRepairs ==
  Quiet /\ solo => cur = store /\ \A c \in told : Box(c) = cur
=============================================================================
