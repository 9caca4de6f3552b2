------------------------------ MODULE Resolver ------------------------------
(***************************************************************************)
(* Pod attribution (internal/attr): from a cgroup id, captured in the      *)
(* kernel, to the pod it belongs to.  ByCgroupID, called by several event  *)
(* readers at once, keeps a cache of identities for ever, negative answers *)
(* included, and an index of the cgroup tree that each walk replaces; the  *)
(* Programmer's Pods() walks, too.  mu protects both, but no walk: while   *)
(* one is going on, pods come and go and other walks end, and a directory  *)
(* that cannot be read is passed over.                                     *)
(***************************************************************************)
EXTENDS Integers, Sequences, FiniteSets

CONSTANTS
  Ids,       \* cgroup ids; the kernel does not use one twice
  PathOf,    \* id -> path of the cgroup's directory, a sequence of segments
  OwnerOf,   \* id -> PodID of the pod the kubelet made it for, or NoPod
  Watched,   \* UIDs the API server has pods for
  Callers    \* goroutines that call ByCgroupID

VARIABLES
  dirs,      \* the directories that exist
  ever,      \* history: those that have existed
  known,     \* UIDs the pod informer knows
  inoIndex, idCache,
  pc,        \* where each caller, or the Programmer in Pods(), is
  arg,       \* the id a caller asks for
  all, some, \* history: directories there during all, or part, of the walk
  idx,       \* what the walk found
  ent,       \* the caller's cache entry
  unread     \* history: ids that the walk made to look them up passed over

rvars ==
  <<dirs, ever, known, inoIndex, idCache, pc, arg, all, some, idx, ent, unread>>

Programmer == "programmer"
Walkers == Callers \cup {Programmer}

ASSUME CallersAssumption == Programmer \notin Callers

-----------------------------------------------------------------------------
(* A segment of a path is <<form, ...>> with the parts the expressions     *)
(* capture; a UID is a sequence of characters.                             *)

NoPod == [uid |-> <<>>, container |-> "", qos |-> ""]

\* Fault: dashes are not restored.
normalizeUIDAsIs(uid) == uid

Lower == [A |-> "a", B |-> "b", C |-> "c", D |-> "d", E |-> "e", F |-> "f"]

normalizeUID(uid) ==
  [i \in DOMAIN uid |-> CASE uid[i] = "_" -> "-"
                         [] uid[i] \in DOMAIN Lower -> Lower[uid[i]]
                         [] OTHER -> uid[i]]

InKubepods(s) ==
  s[1] \in {"kubepods", "kubepods.slice", "kubepods-pod.slice", "kubepods-qos.slice"}

hasKubepodsSegment(path) == \E i \in DOMAIN path : InKubepods(path[i])

\* What one segment adds to the identity.
ParseSegment(id, s) ==
  CASE s[1] = "kubepods-pod.slice" ->
         [id EXCEPT !.qos = IF s[2] = "" THEN @ ELSE s[2], !.uid = normalizeUID(s[3])]
    [] s[1] = "pod" -> [id EXCEPT !.uid = normalizeUID(s[2])]
    [] s[1] \in {"kubepods-qos.slice", "qos"} -> [id EXCEPT !.qos = s[2]]
    [] s[1] = "container" -> [id EXCEPT !.container = s[2]]
    [] OTHER -> id

\* Segments above the kube subtree, which may be nested, do not count; a
\* guaranteed pod has no QoS segment.
ParsePath(path) ==
  LET kube == {i \in DOMAIN path : InKubepods(path[i])}
      id[i \in 0..Len(path)] == IF \A j \in kube : i < j THEN NoPod
                               ELSE ParseSegment(id[i - 1], path[i])
      last == id[Len(path)]
  IN  IF kube = {} \/ last.uid = <<>> THEN NoPod
      ELSE [last EXCEPT !.qos = IF @ = "" THEN "guaranteed" ELSE @]

\* buildInoIndex records the kube directories only.
KubeDirs(ds) == {d \in ds : hasKubepodsSegment(PathOf[d])}

\* The name, namespace, node and labels of a pod are one piece of data here.
PodInfo(id, named) ==
  [uid |-> id.uid, container |-> id.container, qos |-> id.qos, named |-> named]

enrich(id) == PodInfo(id, id.uid \in known)

PodDirs == {d \in Ids : OwnerOf[d] # NoPod}

-----------------------------------------------------------------------------
RInit ==
  /\ dirs \in {ds \in SUBSET Ids : Ids \ PodDirs \subseteq ds}
  /\ ever = dirs
  /\ known = {}
  /\ inoIndex = {}
  /\ idCache = <<>>
  /\ pc = [w \in Walkers |-> "idle"]
  /\ arg = [c \in Callers |-> 0]
  /\ all = [w \in Walkers |-> {}]
  /\ some = [w \in Walkers |-> {}]
  /\ idx = [w \in Walkers |-> {}]
  /\ ent = [c \in Callers |-> NoPod]
  /\ unread = {}

(* The node: the kubelet makes and removes the pods' directories, the      *)
(* informer learns of pods and forgets them, in any order.                 *)

Mkdir(d) ==
  /\ d \notin ever
  /\ dirs' = dirs \cup {d}
  /\ ever' = ever \cup {d}
  /\ some' = [w \in Walkers |-> some[w] \cup IF pc[w] = "walk" THEN {d} ELSE {}]
  /\ UNCHANGED <<known, inoIndex, idCache, pc, arg, all, idx, ent, unread>>

Rmdir(d) ==
  /\ d \in dirs
  /\ dirs' = dirs \ {d}
  /\ all' = [w \in Walkers |-> all[w] \ {d}]
  /\ UNCHANGED <<ever, known, inoIndex, idCache, pc, arg, some, idx, ent, unread>>

InformerLearns(uid) ==
  /\ known' = known \cup {uid}
  /\ UNCHANGED <<dirs, ever, inoIndex, idCache, pc, arg, all, some, idx, ent,
                 unread>>

InformerForgets(uid) ==
  /\ known' = known \ {uid}
  /\ UNCHANGED <<dirs, ever, inoIndex, idCache, pc, arg, all, some, idx, ent,
                 unread>>

-----------------------------------------------------------------------------
Goto(w, place) == pc' = [pc EXCEPT ![w] = place]

\* ByCgroupID looks in the cache, without a result for id 0.
Lookup(c, id) ==
  /\ pc[c] = "idle"
  /\ arg' = [arg EXCEPT ![c] = id]
  /\ \/ /\ id \in DOMAIN idCache
        /\ ent' = [ent EXCEPT ![c] = idCache[id]]
        /\ Goto(c, "enrich")
     \/ /\ id \notin DOMAIN idCache
        /\ Goto(c, "index")
        /\ UNCHANGED ent
  /\ UNCHANGED <<dirs, ever, known, inoIndex, idCache, all, some, idx, unread>>

\* Fault: a walk that is going on already is joined.
BeginWalkJoined(w) ==
  LET v == IF \E x \in Walkers : pc[x] = "walk"
           THEN CHOOSE x \in Walkers : pc[x] = "walk" ELSE w
  IN  /\ Goto(w, "walk")
      /\ all' = [all EXCEPT ![w] = IF v = w THEN dirs ELSE all[v]]
      /\ some' = [some EXCEPT ![w] = IF v = w THEN dirs ELSE some[v]]

BeginWalk(w) ==
  /\ Goto(w, "walk")
  /\ all' = [all EXCEPT ![w] = dirs]
  /\ some' = [some EXCEPT ![w] = dirs]

\* lookupPath: the index is tried before the tree.
LookupIndex(c) ==
  /\ pc[c] = "index"
  /\ \/ /\ arg[c] \in inoIndex
        /\ ent' = [ent EXCEPT ![c] = ParsePath(PathOf[arg[c]])]
        /\ Goto(c, "cache")
        /\ UNCHANGED <<all, some>>
     \/ /\ arg[c] \notin inoIndex
        /\ BeginWalk(c)
        /\ UNCHANGED ent
  /\ UNCHANGED <<dirs, ever, known, inoIndex, idCache, arg, idx, unread>>

\* A walk meets the directories that are there all the time and, of the rest, what
\* it happens to.  But it passes over one whose Stat fails and everything below one
\* that cannot be read, so any may be among the hidden ones.
EndWalk(w) ==
  /\ pc[w] = "walk"
  /\ Goto(w, "store")
  /\ \E hidden \in SUBSET KubeDirs(all[w]), seen \in SUBSET KubeDirs(some[w] \ all[w]) :
       /\ idx' = [idx EXCEPT ![w] = (KubeDirs(all[w]) \ hidden) \cup seen]
       /\ unread' = unread \cup (hidden \cap {arg[c] : c \in Callers \cap {w}})
  /\ all' = [all EXCEPT ![w] = {}]
  /\ some' = [some EXCEPT ![w] = {}]
  /\ UNCHANGED <<dirs, ever, known, inoIndex, idCache, arg, ent>>

\* The new index replaces the old one; the id is looked up in the caller's own.
StoreIndex(c) ==
  /\ pc[c] = "store"
  /\ inoIndex' = idx[c]
  /\ ent' = [ent EXCEPT ![c] = IF arg[c] \in idx[c] THEN ParsePath(PathOf[arg[c]])
                               ELSE NoPod]
  /\ Goto(c, "cache")
  /\ idx' = [idx EXCEPT ![c] = {}]
  /\ UNCHANGED <<dirs, ever, known, idCache, arg, all, some, unread>>

\* The answer is cached, also that there is none.
StoreEntry(c) ==
  /\ pc[c] = "cache"
  /\ idCache' = [d \in DOMAIN idCache \cup {arg[c]} |->
                   IF d = arg[c] THEN ent[c] ELSE idCache[d]]
  /\ Goto(c, "enrich")
  /\ UNCHANGED <<dirs, ever, known, inoIndex, arg, all, some, idx, ent, unread>>

\* What ByCgroupID returns.
Info(c) == IF ent[c] = NoPod THEN PodInfo(NoPod, FALSE) ELSE enrich(ent[c])

Return(c) ==
  /\ pc[c] = "enrich"
  /\ Goto(c, "idle")
  /\ arg' = [arg EXCEPT ![c] = 0]
  /\ ent' = [ent EXCEPT ![c] = NoPod]
  /\ UNCHANGED <<dirs, ever, known, inoIndex, idCache, all, some, idx, unread>>

\* Pods() always walks, and replaces the index like the others.  (What it returns
\* is the pods of Programmer.)
PodsWalk ==
  /\ pc[Programmer] = "idle"
  /\ BeginWalk(Programmer)
  /\ UNCHANGED <<dirs, ever, known, inoIndex, idCache, arg, idx, ent, unread>>

PodsReturn ==
  /\ pc[Programmer] = "store"
  /\ inoIndex' = idx[Programmer]
  /\ Goto(Programmer, "idle")
  /\ idx' = [idx EXCEPT ![Programmer] = {}]
  /\ UNCHANGED <<dirs, ever, known, idCache, arg, all, some, ent, unread>>

RNext ==
  \/ \E d \in PodDirs : Mkdir(d) \/ Rmdir(d)
  \/ \E uid \in Watched \ known : InformerLearns(uid)
  \/ \E uid \in known : InformerForgets(uid)
  \/ \E c \in Callers : \E id \in ever : Lookup(c, id)
  \/ \E c \in Callers : LookupIndex(c) \/ StoreIndex(c) \/ StoreEntry(c) \/ Return(c)
  \/ \E w \in Walkers : EndWalk(w)
  \/ PodsWalk \/ PodsReturn

RSpec == RInit /\ [][RNext]_rvars

-----------------------------------------------------------------------------
\* A pod is not given up while it runs: a cgroup of a pod for which "no pod" is
\* cached, for ever, does not exist any more, whichever walks replaced the index
\* meanwhile and whatever they passed over (attr.go:103-105, 130-131); unless the
\* very walk that was made to look it up could not read its directory
\* (cgroupfs.go:23-25, 34).
NegativeMeansGone ==
  \A d \in DOMAIN idCache \cap PodDirs :
    idCache[d] = NoPod => d \notin dirs \/ d \in unread

\* Traffic of a running pod is attributed to that pod and no other, and named as
\* soon as the informer knows the pod, whenever the identity was cached
\* (attr.go:58-61), or to none if the walk made for it could not read its
\* directory; traffic of anything else is attributed to none.
RunningPodAttributed ==
  \A c \in Callers : pc[c] = "enrich" =>
    LET owner == OwnerOf[arg[c]]
    IN  /\ arg[c] \in dirs \ unread /\ owner # NoPod => Info(c) = enrich(owner)
        /\ Info(c).uid \in {owner.uid, <<>>}
=============================================================================
