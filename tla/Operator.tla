------------------------------ MODULE Operator ------------------------------
(***************************************************************************)
(* The operator (internal/controller, cmd/operator): two controllers read  *)
(* EgressPolicy and ClusterEgressPolicy objects from an informer cache,    *)
(* which may lag behind the API server, validate them and write their      *)
(* status.  An update carries the version that was read, and the API       *)
(* server refuses it if the object has changed since.  The leader may die  *)
(* with a request under way; another one takes over.                       *)
(*                                                                         *)
(* An object is [uid, specs, status]: specs is the history of its spec,    *)
(* whose length is metadata.generation and whose last one is in force.     *)
(* Since nothing else changes, it also stands for its resourceVersion.     *)
(***************************************************************************)
EXTENDS Conversion

CONSTANTS
  Keys,        \* objects: [namespace, name], namespace 0 for a cluster object
  Specs,       \* what users write
  MaxChanges,  \* how often they create, edit or delete (bound)
  MaxErrors    \* how many requests fail and leaders die (bound)

ASSUME SpecsAssumption ==
  \A spec \in Specs : Len(spec.rules) \in Nat /\ DOMAIN spec.rules = 1..Len(spec.rules)

VARIABLES
  api,         \* the API server: key -> object or NoObject
  cache,       \* the leader's informer cache
  queue,       \* keys in the work queues
  job,         \* controller -> the update it has sent, or NoRequest
  late,        \* updates under way whose sender is gone
  leader,      \* an operator leads
  changes, errors

uservars == <<changes>>
opvars == <<cache, queue, job, late, leader, errors>>
ovars == <<api, uservars, opvars>>

NoObject == [uid |-> 0]
NoRequest == [key |-> [namespace |-> 0, name |-> 0]]

NewStatus ==
  [observedGeneration |-> 0, ruleCount |-> 0, accepted |-> "Unknown",
   conditionGeneration |-> 0]

Controllers == {"egresspolicy", "clusteregresspolicy"}
ControllerOf(k) == IF k.namespace = 0 THEN "clusteregresspolicy" ELSE "egresspolicy"

Generation(o) == Len(o.specs)
SpecOf(o) == o.specs[Len(o.specs)]

OInit ==
  /\ api = [k \in Keys |-> NoObject]
  /\ cache = api
  /\ queue = {}
  /\ job = [c \in Controllers |-> NoRequest]
  /\ late = {}
  /\ leader = TRUE
  /\ changes = 0
  /\ errors = 0

-----------------------------------------------------------------------------
(* Users.                                                                  *)

Changed(k, o) ==
  /\ changes < MaxChanges
  /\ changes' = changes + 1
  /\ api' = [api EXCEPT ![k] = o]
  /\ UNCHANGED opvars

Create(k, spec) ==
  /\ api[k] = NoObject
  /\ Changed(k, [uid |-> changes + 1, specs |-> <<spec>>, status |-> NewStatus])

Edit(k, spec) ==
  /\ api[k] # NoObject
  /\ spec # SpecOf(api[k])
  /\ Changed(k, [api[k] EXCEPT !.specs = Append(@, spec)])

Delete(k) ==
  /\ api[k] # NoObject
  /\ Changed(k, NoObject)

-----------------------------------------------------------------------------
(* The controllers.                                                        *)

\* The informer learns of a change, a status written by the operator itself
\* included, and its handler queues the key.
Deliver(k) ==
  /\ leader
  /\ cache[k] # api[k]
  /\ cache' = [cache EXCEPT ![k] = api[k]]
  /\ queue' = queue \cup {k}
  /\ UNCHANGED <<api, uservars, job, late, leader, errors>>

\* pol.Validate() of an EgressPolicy and of a ClusterEgressPolicy.
Validates(k, spec) ==
  IF k.namespace = 0 THEN Valid(ToPolicy(spec))
  ELSE Valid(ScopeToNamespace(ToPolicy(spec), k.namespace))

refreshStatus(generation, ruleCount, valid) ==
  [observedGeneration |-> generation, ruleCount |-> ruleCount,
   accepted |-> IF valid THEN "True" ELSE "False",
   conditionGeneration |-> generation]

\* Reconcile up to Status().Update: an object that is gone, or whose status is
\* right, is left alone.  A controller works on one key at a time.
Reconcile(k) ==
  LET c == ControllerOf(k)
      o == cache[k]
      st == refreshStatus(Generation(o), Len(SpecOf(o).rules), Validates(k, SpecOf(o)))
  IN  /\ leader
      /\ k \in queue
      /\ job[c] = NoRequest
      /\ queue' = queue \ {k}
      /\ job' = IF o = NoObject \/ st = o.status THEN job
                ELSE [job EXCEPT ![c] = [key |-> k, read |-> o, status |-> st]]
      /\ UNCHANGED <<api, uservars, cache, late, leader, errors>>

\* Fault: the version is not compared.
WriteForced(r) == [api EXCEPT ![r.key] = IF @ = NoObject THEN @
                                         ELSE [@ EXCEPT !.status = r.status]]

\* What the API server makes of an update; there is no object, or another
\* version of it, when the update is refused.
Write(r) == [api EXCEPT ![r.key] = IF @ = r.read THEN [@ EXCEPT !.status = r.status]
                                   ELSE @]

\* Fault: a failed update is not tried again.
UpdateForgotten(c) ==
  /\ job[c] # NoRequest
  /\ job' = [job EXCEPT ![c] = NoRequest]
  /\ \/ api' = Write(job[c]) /\ UNCHANGED errors
     \/ errors < MaxErrors /\ errors' = errors + 1 /\ UNCHANGED api
  /\ UNCHANGED <<uservars, cache, queue, late, leader>>

\* Status().Update: an error puts the key back, whether the update was refused,
\* did not get through, or only its answer was lost.
Update(c) ==
  /\ job[c] # NoRequest
  /\ job' = [job EXCEPT ![c] = NoRequest]
  /\ \/ /\ api' = Write(job[c])
        /\ queue' = IF api[job[c].key] = job[c].read THEN queue
                    ELSE queue \cup {job[c].key}
        /\ UNCHANGED errors
     \/ /\ errors < MaxErrors
        /\ errors' = errors + 1
        /\ queue' = queue \cup {job[c].key}
        /\ api' \in {api, Write(job[c])}
  /\ UNCHANGED <<uservars, cache, late, leader>>

\* The leader dies, or loses its lease and exits; its requests may be under way.
LeaderDies ==
  /\ leader
  /\ errors < MaxErrors
  /\ errors' = errors + 1
  /\ leader' = FALSE
  /\ late' = late \cup ({job[c] : c \in Controllers} \ {NoRequest})
  /\ job' = [c \in Controllers |-> NoRequest]
  /\ queue' = {}
  /\ cache' = [k \in Keys |-> NoObject]
  /\ UNCHANGED <<api, uservars>>

\* A new one lists everything before its controllers start.
Lead ==
  /\ ~leader
  /\ leader' = TRUE
  /\ cache' = api
  /\ queue' = {k \in Keys : api[k] # NoObject}
  /\ UNCHANGED <<api, uservars, job, late, errors>>

LateUpdate(r) ==
  /\ late' = late \ {r}
  /\ api' = Write(r)
  /\ UNCHANGED <<uservars, cache, queue, job, leader, errors>>

ONext ==
  \/ \E k \in Keys : \E spec \in Specs : Create(k, spec) \/ Edit(k, spec)
  \/ \E k \in Keys : Delete(k)
  \/ \E k \in Keys : Deliver(k) \/ Reconcile(k)
  \/ \E c \in Controllers : Update(c)
  \/ LeaderDies
  \/ Lead
  \/ \E r \in late : LateUpdate(r)

OSpec == OInit /\ [][ONext]_ovars

\* Watches deliver, the controllers run on, the queue forgets no key, requests
\* end, and a dead operator is replaced.
OFairSpec ==
  /\ OSpec
  /\ \A k \in Keys : WF_ovars(Deliver(k)) /\ WF_ovars(Reconcile(k))
  /\ \A c \in Controllers : WF_ovars(Update(c))
  /\ WF_ovars(Lead)

-----------------------------------------------------------------------------
\* The agents' own test, in rebuild() of crdsource.go.
AgentsTake(spec) == Valid(ToPolicy(spec))

\* What a status says is true of the generation it names, for the object it is
\* found on: Accepted is what the agents make of that very spec, although they
\* validate it without scoping it to the namespace first, and however late the
\* status was written (egresspolicy.md:94).
StatusIsTrue ==
  \A k \in Keys : api[k] # NoObject =>
    LET st == api[k].status
        spec == api[k].specs[st.observedGeneration]
    IN  st # NewStatus =>
          /\ st.observedGeneration \in 1..Generation(api[k])
          /\ st.accepted = IF AgentsTake(spec) THEN "True" ELSE "False"
          /\ st.ruleCount = Len(spec.rules)

\* The status of an object never goes back to an earlier generation, whichever
\* leader's request comes last.
ObservedNeverBack ==
  [][\A k \in Keys :
       api[k] # NoObject /\ api'[k].uid = api[k].uid =>
         api[k].status.observedGeneration <= api'[k].status.observedGeneration]_ovars

Settled ==
  /\ queue = {}
  /\ job = [c \in Controllers |-> NoRequest]
  /\ \A k \in Keys : api[k] # NoObject =>
       api[k].status.observedGeneration = Generation(api[k])

\* When users leave the objects alone (their changes are bounded here), every
\* status comes to describe the spec in force, after conflicts, errors and a
\* change of leader; and then the controllers rest: their own writes, which come
\* back as events, do not keep them going (status.go:15-17).
StatusSettles == <>[]Settled
=============================================================================
