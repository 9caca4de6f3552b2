-------------------------- MODULE EnforcementProofs -------------------------
(***************************************************************************)
(* Proofs about the DNS learner alone (module DNSLearner), for any         *)
(* policies, answers, TTL bounds and map size; and about learner and       *)
(* Programmer on one verdicts map in the running agent (module             *)
(* Enforcement), for any policies, packets and sizes, and any number of    *)
(* failed map operations of the Programmer.                                *)
(***************************************************************************)
EXTENDS Enforcement, WellFoundedInduction, TLAPS

-----------------------------------------------------------------------------
(* What parseAnswers keeps of an answer.                                   *)

\* A set of natural numbers has a least element.
LEMMA LeastNat ==
  ASSUME NEW I, I \subseteq Nat, I # {} PROVE \E x \in I : \A y \in I : x <= y
<1> DEFINE R == {ss \in Nat \X Nat : ss[1] < ss[2]}
<1>1. IsWellFoundedOn(R, Nat)
  BY NatLessThanWellFounded, Zenon DEF OpToRel
<1>2. PICK x \in I : \A y \in I : <<y, x>> \notin R
  <2> HIDE DEF R
  <2> QED
    BY <1>1, WFMin, Zenon
<1>3. ASSUME NEW y \in I PROVE x <= y
  <2>1. x \in Nat /\ y \in Nat /\ <<y, x>> \notin R
    BY <1>2, Zenon
  <2> QED
    BY <2>1
<1> QED
  BY <1>3, Zenon

\* What parseAnswers holds after the first i records, as its loop computes it.
TTLStep(rrs, ttl, i) ==
  IF i = 0 THEN 0
  ELSE IF i \in ARecords(rrs) /\ (ttl[i - 1] = 0 \/ rrs[i].ttl < ttl[i - 1])
  THEN rrs[i].ttl
  ELSE ttl[i - 1]

\* The A records are records of the answer, with a TTL.
LEMMA ARecordType ==
  ASSUME NEW rrs \in Seq(ResourceRecord), NEW i \in ARecords(rrs)
  PROVE  i \in 1..Len(rrs) /\ rrs[i].ttl \in Nat
<1>1. i \in 1..Len(rrs) /\ rrs[i] \in ResourceRecord
  BY DEF ARecords
<1> QED
  BY <1>1, Zenon DEF ResourceRecord

\* The loop computes a TTL for every number of records.
LEMMA TTLExists ==
  ASSUME NEW rrs \in Seq(ResourceRecord), NEW n \in Nat, n <= Len(rrs)
  PROVE  \E ttl \in [0..n -> Nat] : \A i \in 0..n : ttl[i] = TTLStep(rrs, ttl, i)
<1> DEFINE Bad == {m \in 0..n : ~\E ttl \in [0..m -> Nat] :
                                   \A i \in 0..m : ttl[i] = TTLStep(rrs, ttl, i)}
<1>1. ASSUME Bad # {} PROVE FALSE
  <2>1. PICK m \in Bad : \A k \in Bad : m <= k
    <3>1. Bad \subseteq Nat
      OBVIOUS
    <3> HIDE DEF Bad
    <3> QED
      BY <1>1, <3>1, LeastNat, Zenon
  <2>2. CASE m = 0
    <3> DEFINE g == [i \in 0..0 |-> 0]
    <3>1. g \in [0..m -> Nat] /\ \A i \in 0..m : g[i] = TTLStep(rrs, g, i)
      BY <2>2 DEF TTLStep
    <3> QED
      BY <3>1, Zenon
  <2>3. CASE m # 0
    <3>1. m \in 0..n /\ m - 1 \in 0..n /\ m - 1 \notin Bad
      <4>1. m \in 0..n /\ m - 1 \in 0..n
        BY <2>3
      <4> HIDE DEF Bad
      <4> QED
        BY <2>1, <4>1
    <3>2. PICK g \in [0..(m - 1) -> Nat] : \A i \in 0..(m - 1) : g[i] = TTLStep(rrs, g, i)
      BY <3>1, Zenon
    <3>3. TTLStep(rrs, g, m) \in Nat
      <4>1. g[m - 1] \in Nat
        BY <2>3, <3>1, <3>2
      <4>2. m \in ARecords(rrs) => rrs[m].ttl \in Nat
        BY ARecordType, Zenon
      <4> QED
        BY <2>3, <4>1, <4>2, Zenon DEF TTLStep
    <3> DEFINE h == [i \in 0..m |-> IF i = m THEN TTLStep(rrs, g, m) ELSE g[i]]
    <3>4. h \in [0..m -> Nat]
      BY <3>1, <3>2, <3>3
    <3>5. ASSUME NEW i \in 0..m PROVE h[i] = TTLStep(rrs, h, i)
      <4>1. i # 0 => h[i - 1] = g[i - 1]
        BY <3>1
      <4>2. TTLStep(rrs, h, i) = TTLStep(rrs, g, i)
        BY <4>1, Zenon DEF TTLStep
      <4> QED
        BY <3>1, <3>2, <4>2
    <3> QED
      BY <3>4, <3>5, Zenon
  <2> QED
    BY <2>2, <2>3, Zenon
<1>2. n \in 0..n
  OBVIOUS
<1>3. n \notin Bad
  BY <1>1, Zenon
<1> QED
  BY <1>2, <1>3, Zenon

\* So that KeptTTL is what it has after the last one.
LEMMA KeptTTLIs ==
  ASSUME NEW rrs \in Seq(ResourceRecord)
  PROVE  \E ttl : /\ KeptTTL(rrs) = ttl[Len(rrs)]
                  /\ \A i \in 0..Len(rrs) : ttl[i] = TTLStep(rrs, ttl, i)
<1> DEFINE n == Len(rrs)
           Is(ttl) == ttl = [i \in 0..n |-> TTLStep(rrs, ttl, i)]
           T == CHOOSE ttl : Is(ttl)
<1>1. KeptTTL(rrs) = T[n]
  BY Zenon DEF KeptTTL, TTLStep
<1>2. PICK g \in [0..n -> Nat] : \A i \in 0..n : g[i] = TTLStep(rrs, g, i)
  BY TTLExists
<1>3. Is(g)
  BY <1>2, Zenon
<1>4. Is(T)
  <2> HIDE DEF Is
  <2> QED
    BY <1>3, Zenon
<1> HIDE DEF T
<1>5. \A i \in 0..n : T[i] = TTLStep(rrs, T, i)
  BY <1>4, Zenon
<1> QED
  BY <1>1, <1>5, Zenon

\* The TTL kept is a number, and none of the A records' is smaller, if none of
\* them is zero.
LEMMA KeptIsSmallest ==
  ASSUME NEW rrs \in Seq(ResourceRecord)
  PROVE  /\ KeptTTL(rrs) \in Nat
         /\ (\A i \in ARecords(rrs) : rrs[i].ttl # 0) =>
              \A i \in ARecords(rrs) : KeptTTL(rrs) <= rrs[i].ttl
<1>1. PICK ttl : /\ KeptTTL(rrs) = ttl[Len(rrs)]
                 /\ \A i \in 0..Len(rrs) : ttl[i] = TTLStep(rrs, ttl, i)
  BY KeptTTLIs, Zenon
<1> DEFINE Good(m) ==
      /\ ttl[m] \in Nat
      /\ (\A i \in ARecords(rrs) : rrs[i].ttl # 0) =>
           \A i \in ARecords(rrs) : i <= m => ttl[m] # 0 /\ ttl[m] <= rrs[i].ttl
    Bad == {m \in 0..Len(rrs) : ~Good(m)}
<1>2. ASSUME Bad # {} PROVE FALSE
  <2>1. PICK m \in Bad : \A k \in Bad : m <= k
    <3>1. Bad \subseteq Nat
      OBVIOUS
    <3> HIDE DEF Bad
    <3> QED
      BY <1>2, <3>1, LeastNat, Zenon
  <2>2. \A i \in ARecords(rrs) : i \in 1..Len(rrs) /\ rrs[i].ttl \in Nat
    BY ARecordType, Zenon
  <2>3. m \in 0..Len(rrs) /\ ttl[m] = TTLStep(rrs, ttl, m)
    BY <1>1, Zenon
  <2>4. CASE m = 0
    BY <2>2, <2>3, <2>4 DEF TTLStep
  <2>5. CASE m # 0
    <3>1. m - 1 \in 0..Len(rrs) /\ Good(m - 1)
      <4>1. m - 1 \in 0..Len(rrs) /\ m - 1 < m
        BY <2>3, <2>5
      <4> HIDE DEF Good
      <4>2. ~Good(m - 1) => m - 1 \in Bad
        BY <4>1, Zenon
      <4> HIDE DEF Bad
      <4> QED
        BY <2>1, <2>3, <4>1, <4>2
    <3>2. ttl[m] = IF m \in ARecords(rrs) /\ (ttl[m - 1] = 0 \/ rrs[m].ttl < ttl[m - 1])
                   THEN rrs[m].ttl ELSE ttl[m - 1]
      BY <2>3, <2>5, Zenon DEF TTLStep
    <3>3. ttl[m] \in Nat
      BY <2>2, <3>1, <3>2, Zenon
    <3>4. ASSUME \A i \in ARecords(rrs) : rrs[i].ttl # 0, NEW i \in ARecords(rrs), i <= m
          PROVE  ttl[m] # 0 /\ ttl[m] <= rrs[i].ttl
      BY <2>2, <2>3, <2>5, <3>1, <3>2, <3>4
    <3> QED
      BY <3>3, <3>4, Zenon
  <2> QED
    BY <2>4, <2>5, Zenon
<1>3. Good(Len(rrs))
  BY <1>2
<1>4. \A i \in ARecords(rrs) : i <= Len(rrs)
  BY ARecordType
<1> QED
  BY <1>1, <1>3, <1>4, Zenon

-----------------------------------------------------------------------------
(* The learner alone.                                                      *)

LTypeOK ==
  /\ now \in Nat /\ gen \in Nat
  /\ since \in Nat /\ since <= now
  /\ DOMAIN gens = DOMAIN entries
  /\ \A k \in DOMAIN entries : entries[k] \in Nat
  /\ hpc \in {"idle", "stamp", "loop", "track"}
  /\ hpc # "idle" => hans \in Answers
  /\ hstart \in Nat /\ hstart <= now
  /\ spc \in {"idle", "lock", "locked", "forget"}
  /\ snow \in Nat /\ snow <= now

\* A key that sweep() has removed from the map is not in it when it is forgotten,
\* unless that failed, or handle() has written it again and waits for mu to record
\* it.
ForgetInv ==
  spc = "forget" => skey \notin DOMAIN maps \/ skey \in leftover \/ Unrecorded(skey)

\* What is recorded is when the verdict is due, unless handle() has just renewed it.
DueInv ==
  /\ \A k \in DOMAIN entries :
       k \in DOMAIN due /\ (due[k] = entries[k] \/ Unrecorded(k))
  /\ hpc = "track" => hkey \in DOMAIN due /\ due[hkey] = hexp

\* While sweep() holds mu, what it found expired stays so.
SweepInv ==
  spc \in {"locked", "forget"} =>
    sleft \subseteq DOMAIN entries /\ \A k \in sleft : snow > entries[k]

\* No expiry is further away than MaxTTL, and a handle() whose engine has been
\* replaced counts from a time at which it was not long replaced.
ExpiryInv ==
  /\ \A k \in DOMAIN entries : entries[k] <= now + MaxTTL
  /\ hpc \in {"loop", "track"} /\ hgen # gen => hstart <= since

LInv ==
  /\ LTypeOK /\ NothingUntracked /\ ForgetInv /\ SweepInv /\ ExpiryInv
  /\ OldVerdictsExpire /\ DueInv

\* The lifetime of an entry is at most MaxTTL.
LEMMA ClampedTTL ==
  ASSUME NEW a \in Answers
  PROVE  ClampTTL(KeptTTL(a.rrs)) \in Nat /\ ClampTTL(KeptTTL(a.rrs)) <= MaxTTL
BY AnswersAssumption, KeptIsSmallest, TTLAssumption DEF ClampTTL

\* An update of the LRU map.
LEMMA LruPutIs ==
  ASSUME NEW m, NEW n, NEW k, NEW act, NEW x \in LruPuts(m, n, k, act)
  PROVE  /\ k \in DOMAIN x /\ x[k] = act
         /\ DOMAIN x \subseteq DOMAIN m \cup {k}
         /\ \A y \in DOMAIN x : y # k => x[y] = m[y]
BY Zenon DEF LruPuts, MapPut, MapDelete

\* Nothing is learned in the beginning.
LEMMA LInvInit == LInit => LInv
BY TTLAssumption
   DEF LInit, LInv, LTypeOK, NothingUntracked, ForgetInv, SweepInv, ExpiryInv,
       OldVerdictsExpire, DueInv

\* Time passes.
LEMMA TickStep == ASSUME LInv, Tick PROVE LInv'
<1>1. LTypeOK' /\ ExpiryInv'
  BY TTLAssumption DEF LInv, LTypeOK, ExpiryInv, Tick, engvars, hvars, svars
<1>2. NothingUntracked' /\ ForgetInv' /\ SweepInv' /\ OldVerdictsExpire' /\ DueInv'
  BY Zenon DEF LInv, NothingUntracked, ForgetInv, SweepInv, OldVerdictsExpire, DueInv,
     Unrecorded, hexp, Tick, lhist, engvars, hvars, svars
<1> QED
  BY <1>1, <1>2, Zenon DEF LInv

\* The engine is replaced: every entry was made by an earlier one now.
LEMMA SetEngineStep == ASSUME LInv, NEW p, SetEngine(p) PROVE LInv'
<1>1. LTypeOK' /\ ExpiryInv' /\ OldVerdictsExpire'
  BY TTLAssumption DEF LInv, LTypeOK, ExpiryInv, OldVerdictsExpire, SetEngine, hvars, svars
<1>2. NothingUntracked' /\ ForgetInv' /\ SweepInv' /\ DueInv'
  BY Zenon DEF LInv, NothingUntracked, ForgetInv, SweepInv, DueInv, Unrecorded, hexp,
     SetEngine, lhist, hvars, svars
<1> QED
  BY <1>1, <1>2, Zenon DEF LInv

\* handle() begins, and reads the time.
LEMMA HandleBegins ==
  ASSUME LInv, (\E a \in Answers : Handle(a)) \/ Stamp PROVE LInv'
<1>1. LTypeOK' /\ ExpiryInv' /\ OldVerdictsExpire'
  BY TTLAssumption
     DEF LInv, LTypeOK, ExpiryInv, OldVerdictsExpire, Handle, Stamp, engvars, svars
<1>2. NothingUntracked' /\ ForgetInv' /\ SweepInv' /\ DueInv'
  BY Zenon DEF LInv, NothingUntracked, ForgetInv, SweepInv, DueInv, Unrecorded, Handle,
     Stamp, lhist, engvars, svars
<1> QED
  BY <1>1, <1>2, Zenon DEF LInv

\* A verdict is written: it is tracked next, even if sweep() is about to forget
\* its key.
LEMMA PutVerdictStep == ASSUME LInv, NEW k \in htodo, PutVerdict(k) PROVE LInv'
<1>1. LTypeOK' /\ ExpiryInv' /\ OldVerdictsExpire' /\ SweepInv'
  BY Zenon DEF LInv, LTypeOK, ExpiryInv, OldVerdictsExpire, SweepInv, PutVerdict,
     engvars, svars
<1>2. \/ /\ DOMAIN maps' \subseteq DOMAIN maps \cup {k} /\ hkey' = k /\ hpc' = "track"
         /\ leftover' = (leftover \ {k}) \cap DOMAIN maps'
         /\ DOMAIN due' = DOMAIN due \cup {k} /\ due'[k] = hexp
         /\ \A j \in DOMAIN due : j # k => due'[j] = due[j]
      \/ UNCHANGED <<maps, lhist, hkey, hpc>>
  <2>1. \/ /\ maps' \in LruPuts(maps, MaxEntries, k, hact)
           /\ due' = MapPut(due, k, hexp)
           /\ leftover' = (leftover \ {k}) \cap DOMAIN maps'
           /\ hkey' = k /\ hpc' = "track"
        \/ UNCHANGED <<maps, lhist, hkey, hpc>>
    BY Zenon DEF PutVerdict
  <2> HIDE DEF hexp
  <2>2. maps' \in LruPuts(maps, MaxEntries, k, hact)
          => DOMAIN maps' \subseteq DOMAIN maps \cup {k}
    BY LruPutIs, Zenon
  <2>3. due' = MapPut(due, k, hexp) =>
          /\ DOMAIN due' = DOMAIN due \cup {k} /\ due'[k] = hexp
          /\ \A j \in DOMAIN due : j # k => due'[j] = due[j]
    BY Zenon DEF MapPut
  <2> QED
    BY <2>1, <2>2, <2>3, Zenon
<1>3. hpc = "loop" /\ UNCHANGED <<entries, spc, skey>> /\ hexp' = hexp
  BY Zenon DEF PutVerdict, svars, hexp
<1> HIDE DEF hexp
<1>4. NothingUntracked' /\ ForgetInv'
  BY <1>2, <1>3, Zenon DEF LInv, NothingUntracked, ForgetInv, Unrecorded, lhist
<1>5. DueInv'
  BY <1>2, <1>3, Zenon DEF LInv, DueInv, Unrecorded, lhist
<1> QED
  BY <1>1, <1>4, <1>5, Zenon DEF LInv

\* The verdict is recorded, while sweep() does not hold mu.
LEMMA TrackStep == ASSUME LInv, Track PROVE LInv'
<1>0. LTypeOK /\ ExpiryInv /\ OldVerdictsExpire /\ NothingUntracked /\ DueInv
  BY Zenon DEF LInv
<1>1. hexp \in Nat /\ hexp <= hstart + MaxTTL
  BY <1>0, ClampedTTL, TTLAssumption DEF LTypeOK, Track, hexp
<1>2. /\ DOMAIN entries' = DOMAIN entries \cup {hkey} /\ DOMAIN gens' = DOMAIN entries'
      /\ entries'[hkey] = hexp /\ gens'[hkey] = hgen
      /\ \A k \in DOMAIN entries : k # hkey => entries'[k] = entries[k] /\ gens'[k] = gens[k]
      /\ UNCHANGED <<maps, now, gen, since, hans, hstart, hgen, spc, snow, sleft, skey,
                     due, leftover>>
      /\ hpc = "track" /\ hpc' = "loop" /\ spc \in {"idle", "lock"}
  BY <1>0, Zenon DEF LTypeOK, Track, MapPut, MuFree, lhist, engvars, svars
<1> HIDE DEF hexp
<1>3. LTypeOK'
  BY <1>0, <1>1, <1>2, Zenon DEF LTypeOK
<1>4. ExpiryInv'
  BY <1>0, <1>1, <1>2, TTLAssumption DEF LTypeOK, ExpiryInv
<1>5. OldVerdictsExpire'
  BY <1>0, <1>1, <1>2, TTLAssumption DEF LTypeOK, ExpiryInv, OldVerdictsExpire
<1>6. NothingUntracked' /\ ForgetInv' /\ SweepInv'
  BY <1>0, <1>2, Zenon DEF NothingUntracked, ForgetInv, SweepInv, Unrecorded
<1>7. DueInv'
  BY <1>0, <1>2, Zenon DEF DueInv, Unrecorded
<1> QED
  BY <1>3, <1>4, <1>5, <1>6, <1>7, Zenon DEF LInv

\* handle() returns.
LEMMA HandledStep == ASSUME LInv, Handled PROVE LInv'
<1>1. LTypeOK' /\ ExpiryInv' /\ OldVerdictsExpire'
  BY DEF LInv, LTypeOK, ExpiryInv, OldVerdictsExpire, Handled, engvars, svars
<1>2. NothingUntracked' /\ ForgetInv' /\ SweepInv' /\ DueInv'
  BY Zenon DEF LInv, NothingUntracked, ForgetInv, SweepInv, DueInv, Unrecorded, Handled,
     lhist, engvars, svars
<1> QED
  BY <1>1, <1>2, Zenon DEF LInv

\* sweep() reads the time, takes mu, and gives it back.
LEMMA SweepBeginsEnds == ASSUME LInv, SweepTick \/ SweepLock \/ SweepUnlock PROVE LInv'
<1>1. LTypeOK' /\ ExpiryInv' /\ OldVerdictsExpire'
  BY SMTT(30) DEF LInv, LTypeOK, ExpiryInv, OldVerdictsExpire, SweepTick, SweepLock,
     SweepUnlock,
         engvars, hvars
<1>2. NothingUntracked' /\ ForgetInv' /\ SweepInv' /\ DueInv'
  BY Zenon DEF LInv, NothingUntracked, ForgetInv, SweepInv, DueInv, Unrecorded, hexp,
     Expired, SweepTick, SweepLock, SweepUnlock, lhist, engvars, hvars
<1> QED
  BY <1>1, <1>2, Zenon DEF LInv

\* A key is removed from the map first, if that works, from the entries next.
LEMMA SweepRemoves ==
  ASSUME LInv, (\E k \in sleft : SweepDelete(k)) \/ SweepForget PROVE LInv'
<1>0. LTypeOK /\ NothingUntracked /\ ForgetInv /\ SweepInv /\ ExpiryInv
      /\ OldVerdictsExpire /\ DueInv
  BY Zenon DEF LInv
<1>1. ASSUME NEW k \in sleft, SweepDelete(k) PROVE LInv'
  <2>1. LTypeOK' /\ ExpiryInv' /\ OldVerdictsExpire'
    BY <1>0, <1>1, Zenon DEF LTypeOK, ExpiryInv, OldVerdictsExpire, SweepDelete, engvars,
       hvars
  <2>2. NothingUntracked' /\ ForgetInv' /\ SweepInv' /\ DueInv'
    BY <1>0, <1>1, Zenon
       DEF NothingUntracked, ForgetInv, SweepInv, DueInv, Unrecorded, hexp, SweepDelete,
           MapDelete, hvars
  <2> QED
    BY <2>1, <2>2, Zenon DEF LInv
<1>2. CASE SweepForget
  <2>1. /\ DOMAIN entries' = DOMAIN entries \ {skey} /\ DOMAIN gens' = DOMAIN entries'
        /\ \A k \in DOMAIN entries' : entries'[k] = entries[k] /\ gens'[k] = gens[k]
        /\ UNCHANGED <<maps, now, gen, since, leftover, hpc, hans, hstart, hgen, hkey,
                       snow>>
        /\ spc = "forget" /\ spc' = "locked" /\ sleft' = sleft \ {skey}
    BY <1>0, <1>2, Zenon DEF LTypeOK, SweepForget, MapDelete, engvars, hvars
  <2>2. LTypeOK' /\ ExpiryInv' /\ OldVerdictsExpire'
    BY <1>0, <2>1, Zenon DEF LTypeOK, ExpiryInv, OldVerdictsExpire
  <2>3. NothingUntracked' /\ ForgetInv' /\ SweepInv'
    BY <1>0, <2>1, Zenon DEF NothingUntracked, ForgetInv, SweepInv, Unrecorded
  <2>4. \/ UNCHANGED due /\ Unrecorded(skey)
        \/ /\ DOMAIN due' = DOMAIN due \ {skey} /\ ~Unrecorded(skey)
           /\ \A k \in DOMAIN due' : due'[k] = due[k]
    BY <1>2, Zenon DEF SweepForget, MapDelete
  <2>5. DueInv'
    BY <1>0, <2>1, <2>4, Zenon DEF DueInv, Unrecorded, hexp
  <2> QED
    BY <2>2, <2>3, <2>5, Zenon DEF LInv
<1> QED
  BY <1>1, <1>2, Zenon

\* Every step preserves the invariant.
LEMMA LInvNext == LInv /\ [LNext]_mlvars => LInv'
<1> SUFFICES ASSUME LInv, [LNext]_mlvars PROVE LInv'
  BY Zenon
<1>1. CASE LNext
  BY <1>1, TickStep, SetEngineStep, HandleBegins, PutVerdictStep, TrackStep, HandledStep,
     SweepBeginsEnds, SweepRemoves, Zenon DEF LNext, HandleStep, SweepStep
<1>2. CASE UNCHANGED mlvars
  BY <1>2, Zenon DEF mlvars, lvars, lhist, engvars, hvars, svars, LInv, LTypeOK,
     NothingUntracked, ForgetInv, SweepInv, ExpiryInv, OldVerdictsExpire, DueInv,
     Unrecorded, hexp
<1> QED
  BY <1>1, <1>2, Zenon

\* The inductive invariant of the learner holds always.
THEOREM LInvAlways == LSpec => []LInv
BY LInvInit, LInvNext, PTL DEF LSpec

\* Every learned verdict in the kernel's map has an expiry recorded, or will have
\* next, or is there because its Delete failed.
THEOREM TracksEverything == LSpec => []NothingUntracked
<1>1. LInv => NothingUntracked
  BY Zenon DEF LInv
<1> QED
  BY <1>1, LInvAlways, PTL

\* What a replaced engine decided expires MaxTTL after it was in use, at most.
THEOREM OldOnesExpire == LSpec => []OldVerdictsExpire
<1>1. LInv => OldVerdictsExpire
  BY Zenon DEF LInv
<1> QED
  BY <1>1, LInvAlways, PTL

\* sweep() removes a verdict before its time only if handle() has just renewed it
\* and not recorded that yet.
THEOREM SweepsOnlyUnrecordedEarly == LSpec => OnlyUnrecordedSweptEarly
<1> DEFINE Swept == spc = "locked" /\ spc' = "forget" =>
             /\ now > entries[skey']
             /\ now > due[skey'] \/ Unrecorded(skey')
<1>1. LInv /\ [LNext]_mlvars => [Swept]_mlvars
  <2> SUFFICES ASSUME LInv, LNext, spc = "locked", spc' = "forget"
               PROVE  now > entries[skey'] /\ (now > due[skey'] \/ Unrecorded(skey'))
    BY Zenon
  <2>1. PICK k \in sleft : SweepDelete(k)
    BY Zenon DEF LNext, Tick, SetEngine, Handle, HandleStep, Stamp, PutVerdict, Track,
       Handled, SweepStep, SweepTick, SweepLock, SweepForget, SweepUnlock, svars
  <2>2. skey' = k /\ k \in DOMAIN entries /\ snow > entries[k] /\ snow <= now
    BY <2>1, Zenon DEF SweepDelete, LInv, SweepInv, LTypeOK
  <2>3. now > entries[k]
    BY <2>2 DEF LInv, LTypeOK
  <2>4. due[k] = entries[k] \/ Unrecorded(k)
    BY <2>2, Zenon DEF LInv, DueInv
  <2> QED
    BY <2>2, <2>3, <2>4, Zenon
<1> QED
  BY <1>1, LInvAlways, PTL DEF LSpec, OnlyUnrecordedSweptEarly

\* No address outlives the shortest of its answer's TTLs.
THEOREM UsesSmallestTTL == LSpec => []SmallestTTLUsed
<1>1. LInv => SmallestTTLUsed
  <2> SUFFICES ASSUME LInv, hpc \in {"loop", "track"},
                      \A j \in ARecords(hans.rrs) : hans.rrs[j].ttl # 0,
                      NEW i \in ARecords(hans.rrs)
               PROVE  hexp <= hstart + ClampTTL(hans.rrs[i].ttl)
    BY Zenon DEF SmallestTTLUsed
  <2>1. hstart \in Nat /\ hans.rrs \in Seq(ResourceRecord)
    BY AnswersAssumption, Zenon DEF LInv, LTypeOK
  <2>2. /\ KeptTTL(hans.rrs) \in Nat /\ hans.rrs[i].ttl \in Nat
        /\ KeptTTL(hans.rrs) <= hans.rrs[i].ttl
    BY <2>1, KeptIsSmallest, ARecordType, Zenon
  <2>3. PICK kept \in Nat, own \in Nat : kept = KeptTTL(hans.rrs) /\ own = hans.rrs[i].ttl
    BY <2>2, Zenon
  <2>4. /\ ClampTTL(kept) \in Nat /\ ClampTTL(own) \in Nat
        /\ ClampTTL(kept) <= ClampTTL(own)
    BY <2>2, <2>3, TTLAssumption DEF ClampTTL
  <2>5. hexp = hstart + ClampTTL(kept) /\ ClampTTL(hans.rrs[i].ttl) = ClampTTL(own)
    BY <2>3, Zenon DEF hexp
  <2> HIDE DEF hexp
  <2> QED
    BY <2>1, <2>4, <2>5
<1> QED
  BY <1>1, LInvAlways, PTL

-----------------------------------------------------------------------------
(* Programmer and learner on one map.                                      *)

\* Where the Programmer is in its round, and what todo and new are for there.
RoundInv ==
  /\ pods = PodTable /\ podsAt = PodTable
  /\ policy \in Policies /\ peng \in Policies /\ eng \in Policies
  /\ pc \notin {"rules", "reconcile"} => new = {} /\ todo = {}
  /\ pc = "rules" =>
       /\ rule \in 1..(Len(peng.rules) + 1)
       /\ \A k \in todo : /\ rule \in 1..Len(peng.rules)
                          /\ k \in RuleKeys(peng, PodTable, rule)
  /\ pc = "reconcile" => todo \subseteq prev /\ todo \cap (new \cup {GlobalDefault}) = {}

\* What the Programmer has in the maps: during reconcile() the keys of prev that
\* are neither new nor in todo any more are gone.
Programmed ==
  (IF pc = "reconcile" THEN new \cup todo ELSE prev \cup new)
    \cup {GlobalDefault} \cup lost

\* Every key has an owner, unless sweep() could not delete it; one that sweep() has
\* removed and is about to forget, and that is back in the map, has another one.
OwnedInv ==
  /\ DOMAIN maps \subseteq Programmed \cup Learned \cup leftover
  /\ spc = "forget" /\ skey \in DOMAIN maps
       => skey \in Programmed \cup leftover \/ (hpc = "track" /\ hkey = skey)

\* A rule of policy p asks for value act of key k; an answer teaches it.
Written(p, k, act) == \E i \in 1..Len(p.rules) : <<k, act>> \in Writes(p, i)

Taught(p, k, act) == \E x \in Packets : <<k, act>> \in Teaches(p, x.answer)

\* The value of k may be the Programmer's: its policy asks for it, or it is left
\* from an earlier round and this round is going to overwrite or delete it.
ByProgrammer(k) ==
  \/ k \in lost
  \/ k \in new /\ Written(peng, k, maps[k])
  \/ /\ k \in prev \ new
     /\ pc = "idle" => Written(peng, k, maps[k])
     /\ pc = "reconcile" => k \in todo

\* The value of k may be the learner's: its engine's policy teaches it, or it is
\* marked with an earlier generation.
ByLearner(k) ==
  IF hpc = "track" /\ hkey = k THEN hgen = gen => Taught(eng, k, maps[k])
  ELSE k \in DOMAIN entries /\ (gens[k] = gen => Taught(eng, k, maps[k]))

\* No generation is ahead of the engine's.
GenInv ==
  /\ gen \in Nat /\ hgen \in 0..gen
  /\ DOMAIN gens = DOMAIN entries
  /\ \A k \in DOMAIN gens : gens[k] \in 0..gen

\* What handle() has still to write is what the engine it read teaches.
HandlerInv ==
  /\ hpc # "idle" /\ hgen = gen => \A k \in htodo : Taught(eng, k, hact)
  /\ ring \in Seq({x.answer : x \in Packets})

\* Every verdict has a writer whose value it is, unless sweep() could not delete it.
WriterInv ==
  /\ \A k \in DOMAIN maps : IsVerdictKey(k) /\ k \notin leftover =>
       ByProgrammer(k) \/ ByLearner(k)
  /\ spc = "forget" /\ skey \in DOMAIN maps /\ IsVerdictKey(skey) /\ skey \notin leftover
       => ByProgrammer(skey) \/ (hpc = "track" /\ hkey = skey)

EInv == RoundInv /\ OwnedInv /\ GenInv /\ HandlerInv /\ WriterInv

\* What is offered are policies, and before the learner has its first engine it
\* has learned nothing.
ChannelInv ==
  /\ pchan \in Seq(Policies) /\ lchan \in Seq(Policies)
  /\ lpc = "off" => DOMAIN entries = {} /\ hpc = "idle"

\* The posture is not a verdict of the verdicts map.
LEMMA DefaultIsNoVerdict == ~IsVerdictKey(GlobalDefault)
BY Zenon DEF GlobalDefault, DKey, IsVerdictKey

\* What the Programmer writes for a rule is what the rule asks for.
LEMMA PutIsWritten ==
  ASSUME NEW p, NEW i \in 1..Len(p.rules), NEW k \in RuleKeys(p, PodTable, i),
         IsVerdictKey(k)
  PROVE  Written(p, k, ActionByte(p.rules[i].action))
BY Zenon DEF Written, Writes

\* What handle() writes for an answer is what the answer teaches.
LEMMA PutIsTaught ==
  ASSUME NEW a \in {x.answer : x \in Packets}, Learns(a),
         NEW k \in LearnedKeys(a, eng.rules[DecidingRule(a)].ports)
  PROVE  Taught(eng, k, ActionByte(eng.rules[DecidingRule(a)].action))
<1>1. PICK x \in Packets : x.answer = a
  BY Zenon
<1> DEFINE i == DomainRule(eng, ByCgroupID(a.cgroup), a.qname)
<1>2. DecidingRule(a) = i /\ i # 0
  BY Zenon DEF DecidingRule, Learns
<1>3. Teaches(eng, a) = {<<l, ActionByte(eng.rules[i].action)>> :
                           l \in LearnedKeys(a, eng.rules[i].ports)}
  BY <1>2, Zenon DEF Teaches
<1> HIDE DEF i
<1> QED
  BY <1>1, <1>2, <1>3, Zenon DEF Taught

\* The learner's side when the Programmer takes a step.
LEMMA LearnerRests ==
  ASSUME GenInv, HandlerInv, UNCHANGED <<avars, lvars>>
  PROVE  /\ GenInv' /\ HandlerInv'
         /\ UNCHANGED <<policy, eng, gen, entries, gens, hpc, hgen, hkey, spc, skey,
                     leftover>>
<1>1. UNCHANGED <<policy, ring, eng, gen, entries, gens, hpc, hgen, hact, htodo, hkey,
                  spc, skey, leftover>>
  BY Zenon DEF avars, lvars, lhist, engvars, hvars, svars
<1> QED
  BY <1>1, Zenon DEF GenInv, HandlerInv, Taught

\* A round begins.
LEMMA RoundBegins == ASSUME EInv, BeginApply, UNCHANGED <<avars, lvars>> PROVE EInv'
<1> RoundInv /\ OwnedInv /\ GenInv /\ HandlerInv /\ WriterInv
  BY Zenon DEF EInv
<1>1. /\ GenInv' /\ HandlerInv'
      /\ UNCHANGED <<policy, eng, gen, entries, gens, hpc, hgen, hkey, spc, skey,
                     leftover>>
  BY LearnerRests, Zenon
<1>2. /\ pc = "apply" /\ pc' = "rules" /\ rule' = Len(peng.rules) + 1
      /\ todo' = {} /\ new = {} /\ new' \subseteq {GlobalDefault}
      /\ podsAt' = pods /\ UNCHANGED <<pods, peng, prev, lost>>
      /\ DOMAIN maps \subseteq DOMAIN maps'
      /\ DOMAIN maps' \subseteq DOMAIN maps \cup {GlobalDefault}
      /\ \A k \in DOMAIN maps : k # GlobalDefault => maps'[k] = maps[k]
  BY Zenon DEF BeginApply, RoundInv, MapPut
<1>3. RoundInv'
  BY <1>1, <1>2, PoliciesAssumption, SMTT(30) DEF RoundInv
<1>4. OwnedInv'
  BY <1>1, <1>2, Zenon DEF OwnedInv, Programmed, Learned
<1>5. \A k \in DOMAIN maps' : IsVerdictKey(k) =>
         /\ k \in DOMAIN maps
         /\ ByProgrammer(k) => ByProgrammer(k)'
         /\ ByLearner(k) => ByLearner(k)'
  BY <1>1, <1>2, DefaultIsNoVerdict, Zenon DEF ByProgrammer, ByLearner
<1>6. WriterInv'
  BY <1>1, <1>5, Zenon DEF WriterInv
<1> QED
  BY <1>1, <1>3, <1>4, <1>6, Zenon DEF EInv

\* The next rule has its turn.
LEMMA RuleBegins == ASSUME EInv, NextRule, UNCHANGED <<avars, lvars>> PROVE EInv'
<1> RoundInv /\ OwnedInv /\ GenInv /\ HandlerInv /\ WriterInv
  BY Zenon DEF EInv
<1>1. /\ GenInv' /\ HandlerInv'
      /\ UNCHANGED <<policy, eng, gen, entries, gens, hpc, hgen, hkey, spc, skey,
                     leftover>>
  BY LearnerRests, Zenon
<1>2. /\ pc = "rules" /\ rule > 1 /\ rule' = rule - 1
      /\ todo' = RuleKeys(peng, podsAt, rule - 1)
      /\ UNCHANGED <<maps, pods, peng, pc, podsAt, new, prev, lost>>
  BY Zenon DEF NextRule
<1>3. RoundInv'
  BY <1>1, <1>2, PoliciesAssumption, SMTT(30) DEF RoundInv
<1>4. OwnedInv'
  BY <1>1, <1>2, Zenon DEF OwnedInv, Programmed, Learned
<1>5. WriterInv'
  BY <1>1, <1>2, Zenon DEF WriterInv, ByProgrammer, ByLearner
<1> QED
  BY <1>1, <1>3, <1>4, <1>5, Zenon DEF EInv

\* A key is written, be it the learner's or one that sweep() is about to forget,
\* or its Put fails.
LEMMA KeyIsPut ==
  ASSUME EInv, NEW k \in todo, PutKey(k), UNCHANGED <<avars, lvars>> PROVE EInv'
<1> RoundInv /\ OwnedInv /\ GenInv /\ HandlerInv /\ WriterInv
  BY Zenon DEF EInv
<1>1. /\ GenInv' /\ HandlerInv'
      /\ UNCHANGED <<policy, eng, gen, entries, gens, hpc, hgen, hkey, spc, skey,
                     leftover>>
  BY LearnerRests, Zenon
<1>2. /\ pc = "rules" /\ todo' = todo \ {k}
      /\ UNCHANGED <<pods, peng, pc, podsAt, rule, prev>>
      /\ rule \in 1..Len(peng.rules) /\ k \in RuleKeys(peng, PodTable, rule)
  BY Zenon DEF PutKey, RoundInv
<1>3. RoundInv'
  BY <1>1, <1>2, Zenon DEF RoundInv
<1>4. CASE PutOk(k, ActionByte(peng.rules[rule].action))
  <2> DEFINE act == ActionByte(peng.rules[rule].action)
  <2>1. /\ DOMAIN maps' = DOMAIN maps \cup {k} /\ maps'[k] = act
        /\ \A x \in DOMAIN maps : x # k => maps'[x] = maps[x]
        /\ new' = new \cup {k} /\ lost' = lost \ {k}
    BY <1>4, Zenon DEF PutOk, MapPut
  <2>2. IsVerdictKey(k) => Written(peng, k, act)
    BY <1>2, PutIsWritten, Zenon
  <2> HIDE DEF act
  <2>3. OwnedInv'
    BY <1>1, <1>2, <2>1, Zenon DEF OwnedInv, Programmed, Learned
  <2>4. IsVerdictKey(k) => ByProgrammer(k)'
    BY <1>2, <2>1, <2>2, Zenon DEF ByProgrammer
  <2>5. \A x \in DOMAIN maps : x # k =>
          /\ ByProgrammer(x) => ByProgrammer(x)'
          /\ ByLearner(x) => ByLearner(x)'
    BY <1>1, <1>2, <2>1, Zenon DEF ByProgrammer, ByLearner
  <2>6. WriterInv'
    BY <1>1, <2>1, <2>4, <2>5, Zenon DEF WriterInv
  <2> QED
    BY <1>1, <1>3, <2>3, <2>6, Zenon DEF EInv
<1>5. CASE PutFails
  <2>1. UNCHANGED <<maps, new, lost>>
    BY <1>5, Zenon DEF PutFails
  <2>2. OwnedInv'
    BY <1>1, <1>2, <2>1, Zenon DEF OwnedInv, Programmed, Learned
  <2>3. WriterInv'
    BY <1>1, <1>2, <2>1, Zenon DEF WriterInv, ByProgrammer, ByLearner
  <2> QED
    BY <1>1, <1>3, <2>2, <2>3, Zenon DEF EInv
<1> QED
  BY <1>4, <1>5, Zenon DEF PutKey

\* reconcile() finds the keys of earlier rounds.
LEMMA ReconcileBegins == ASSUME EInv, BeginReconcile, UNCHANGED <<avars, lvars>> PROVE EInv'
<1> RoundInv /\ OwnedInv /\ GenInv /\ HandlerInv /\ WriterInv
  BY Zenon DEF EInv
<1>1. /\ GenInv' /\ HandlerInv'
      /\ UNCHANGED <<policy, eng, gen, entries, gens, hpc, hgen, hkey, spc, skey,
                     leftover>>
  BY LearnerRests, Zenon
<1>2. /\ pc = "rules" /\ pc' = "reconcile"
      /\ todo' = prev \ (new \cup {GlobalDefault})
      /\ UNCHANGED <<maps, pods, peng, podsAt, new, prev, lost>>
  BY Zenon DEF BeginReconcile
<1>3. RoundInv'
  BY <1>1, <1>2, Zenon DEF RoundInv
<1>4. OwnedInv'
  BY <1>1, <1>2, Zenon DEF OwnedInv, Programmed, Learned
<1>5. \A k \in DOMAIN maps : IsVerdictKey(k) =>
         /\ ByProgrammer(k) => ByProgrammer(k)'
         /\ ByLearner(k) => ByLearner(k)'
  BY <1>1, <1>2, DefaultIsNoVerdict, Zenon DEF ByProgrammer, ByLearner
<1>6. WriterInv'
  BY <1>1, <1>2, <1>5, Zenon DEF WriterInv
<1> QED
  BY <1>1, <1>3, <1>4, <1>6, Zenon DEF EInv

\* reconcile() deletes a key, which the learner may have written meanwhile.
LEMMA KeyIsDeleted ==
  ASSUME EInv, NEW k \in todo, DeleteKey(k), UNCHANGED <<avars, lvars>> PROVE EInv'
<1> RoundInv /\ OwnedInv /\ GenInv /\ HandlerInv /\ WriterInv
  BY Zenon DEF EInv
<1>1. /\ GenInv' /\ HandlerInv'
      /\ UNCHANGED <<policy, eng, gen, entries, gens, hpc, hgen, hkey, spc, skey,
                     leftover>>
  BY LearnerRests, Zenon
<1>2. /\ pc = "reconcile" /\ todo' = todo \ {k} /\ k \notin new /\ k # GlobalDefault
      /\ UNCHANGED <<pods, peng, pc, podsAt, new, prev>>
  BY Zenon DEF DeleteKey, RoundInv
<1>3. /\ \/ DOMAIN maps' = DOMAIN maps \ {k} /\ lost' = lost
         \/ DOMAIN maps' = DOMAIN maps /\ lost' = lost \cup {k}
      /\ \A x \in DOMAIN maps' : maps'[x] = maps[x]
  BY Zenon DEF DeleteKey, MapDelete
<1>4. RoundInv'
  BY <1>1, <1>2, Zenon DEF RoundInv
<1>5. OwnedInv'
  BY <1>1, <1>2, <1>3, Zenon DEF OwnedInv, Programmed, Learned
<1>6. \A x \in DOMAIN maps' :
         /\ ByProgrammer(x) => ByProgrammer(x)'
         /\ ByLearner(x) => ByLearner(x)'
  BY <1>1, <1>2, <1>3, Zenon DEF ByProgrammer, ByLearner
<1>7. WriterInv'
  BY <1>1, <1>3, <1>6, Zenon DEF WriterInv
<1> QED
  BY <1>1, <1>4, <1>5, <1>7, Zenon DEF EInv

\* The round ends: what is left of the Programmer's is of this round.
LEMMA RoundEnds == ASSUME EInv, EndApply, UNCHANGED <<avars, lvars>> PROVE EInv'
<1> RoundInv /\ OwnedInv /\ GenInv /\ HandlerInv /\ WriterInv
  BY Zenon DEF EInv
<1>1. /\ GenInv' /\ HandlerInv'
      /\ UNCHANGED <<policy, eng, gen, entries, gens, hpc, hgen, hkey, spc, skey,
                     leftover>>
  BY LearnerRests, Zenon
<1>2. /\ pc = "reconcile" /\ pc' = "idle" /\ todo = {} /\ prev' = new /\ new' = {}
      /\ UNCHANGED <<maps, pods, peng, podsAt, todo, lost>>
  BY Zenon DEF EndApply
<1>3. RoundInv'
  BY <1>1, <1>2, Zenon DEF RoundInv
<1>4. OwnedInv'
  BY <1>1, <1>2, Zenon DEF OwnedInv, Programmed, Learned
<1>5. WriterInv'
  BY <1>1, <1>2, Zenon DEF WriterInv, ByProgrammer, ByLearner
<1> QED
  BY <1>1, <1>3, <1>4, <1>5, Zenon DEF EInv

\* The select loop: start, snapshot, subscription, ticker, update and shutdown
\* leave the maps alone.
LEMMA SelectLoop ==
  ASSUME EInv, UNCHANGED <<avars, lvars>>,
         NEW p \in Policies,
         Start \/ Snapshot(p) \/ Subscribe \/ Rewalk \/ Stop \/ Receive(p)
  PROVE  EInv'
<1> RoundInv /\ OwnedInv /\ GenInv /\ HandlerInv /\ WriterInv
  BY Zenon DEF EInv
<1>1. /\ GenInv' /\ HandlerInv'
      /\ UNCHANGED <<policy, eng, gen, entries, gens, hpc, hgen, hkey, spc, skey,
                     leftover>>
  BY LearnerRests, Zenon
<1>2. /\ pc \in {"off", "snapshot", "idle"}
      /\ \/ pc' = "apply" /\ peng' \in {peng, p}
         \/ pc' \in {"snapshot", "stopped", pc} /\ pc' # "apply" /\ peng' = peng
      /\ pc' = "idle" => pc = "idle" /\ peng' = peng
      /\ UNCHANGED <<maps, pods, podsAt, todo, new, prev, lost>>
  BY Zenon DEF Start, Snapshot, Subscribe, Rewalk, Stop, Receive
<1>3. pc' \notin {"rules", "reconcile"} /\ peng' \in {peng, p} /\ new = {} /\ todo = {}
  BY <1>2, Zenon DEF RoundInv
<1>4. RoundInv'
  BY <1>1, <1>2, <1>3, Zenon DEF RoundInv
<1>5. OwnedInv'
  BY <1>1, <1>2, <1>3, Zenon DEF OwnedInv, Programmed, Learned
<1>6. WriterInv'
  BY <1>1, <1>2, <1>3, Zenon DEF WriterInv, ByProgrammer, ByLearner
<1> QED
  BY <1>1, <1>4, <1>5, <1>6, Zenon DEF EInv

\* The Programmer's side when the learner takes a step.
LEMMA ProgrammerRests ==
  ASSUME RoundInv, policy' = policy, eng' \in Policies, UNCHANGED pvars
  PROVE  /\ RoundInv'
         /\ UNCHANGED <<peng, pc, todo, new, prev, lost>>
<1>1. UNCHANGED <<pods, peng, pc, podsAt, rule, todo, new, prev, lost>>
  BY Zenon DEF pvars
<1> QED
  BY <1>1, Zenon DEF RoundInv

\* The next generation is none of the earlier ones.
LEMMA NextGen ==
  ASSUME NEW g \in Nat
  PROVE  g + 1 \in Nat /\ \A x \in 0..g : x \in 0..(g + 1) /\ x # g + 1
OBVIOUS

\* The learner takes over a policy: all it has written is of an earlier one now.
LEMMA EngineReplaced ==
  ASSUME EInv, NEW p \in Policies, SetEngine(p), UNCHANGED <<avars, pvars>> PROVE EInv'
<1> RoundInv /\ OwnedInv /\ GenInv /\ HandlerInv /\ WriterInv
  BY Zenon DEF EInv
<1>1. /\ eng' = p /\ gen' = gen + 1
      /\ UNCHANGED <<maps, entries, gens, hpc, hgen, hact, htodo, hkey, spc, skey,
                     leftover>>
      /\ UNCHANGED <<policy, ring>>
  BY Zenon DEF SetEngine, avars, lhist, hvars, svars
<1>2. RoundInv' /\ UNCHANGED <<peng, pc, todo, new, prev, lost>>
  BY <1>1, ProgrammerRests, Zenon DEF RoundInv
<1>3. OwnedInv'
  BY <1>1, <1>2, Zenon DEF OwnedInv, Programmed, Learned
<1>4. GenInv' /\ hgen # gen' /\ \A k \in DOMAIN entries : gens[k] # gen'
  <2>1. /\ gen \in Nat /\ hgen \in 0..gen
        /\ DOMAIN gens = DOMAIN entries /\ \A k \in DOMAIN gens : gens[k] \in 0..gen
    BY Zenon DEF GenInv
  <2>2. gen' \in Nat /\ \A x \in 0..gen : x \in 0..gen' /\ x # gen'
    BY <1>1, <2>1, NextGen, Zenon
  <2> QED
    BY <2>1, <2>2, <1>1, Zenon DEF GenInv
<1>5. HandlerInv'
  BY <1>1, <1>4, Zenon DEF HandlerInv
<1>6. WriterInv'
  BY <1>1, <1>2, <1>4, Zenon DEF WriterInv, ByProgrammer, ByLearner
<1> QED
  BY <1>2, <1>3, <1>4, <1>5, <1>6, Zenon DEF EInv

\* The learner's first engine: it has learned nothing from another one.
LEMMA LearnerBegins == ASSUME EInv, ChannelInv, LearnerStarts PROVE EInv'
<1> RoundInv /\ OwnedInv /\ GenInv /\ HandlerInv /\ WriterInv
  BY Zenon DEF EInv
<1>1. /\ lpc = "off" /\ eng' \in {eng, policy}
      /\ UNCHANGED <<maps, gen, entries, gens, hpc, hgen, hact, htodo, hkey, spc, skey,
                     leftover>>
      /\ UNCHANGED <<policy, ring, pvars>>
  BY Zenon DEF LearnerStarts, avars, lhist, hvars, svars
<1>2. DOMAIN entries = {} /\ hpc = "idle" /\ eng' \in Policies
  BY <1>1, Zenon DEF ChannelInv, RoundInv
<1>3. RoundInv' /\ UNCHANGED <<peng, pc, todo, new, prev, lost>>
  BY <1>1, <1>2, ProgrammerRests, Zenon
<1>4. OwnedInv'
  BY <1>1, <1>3, Zenon DEF OwnedInv, Programmed, Learned
<1>5. GenInv' /\ HandlerInv'
  BY <1>1, <1>2, Zenon DEF GenInv, HandlerInv
<1>6. WriterInv'
  BY <1>1, <1>2, <1>3, Zenon DEF WriterInv, ByProgrammer, ByLearner
<1> QED
  BY <1>3, <1>4, <1>5, <1>6, Zenon DEF EInv

\* An answer is read from the ring buffer, and handle() begins or drops it.
LEMMA AnswerRead == ASSUME EInv, ReadAnswer PROVE EInv'
<1> RoundInv /\ OwnedInv /\ GenInv /\ HandlerInv /\ WriterInv
  BY Zenon DEF EInv
<1>1. /\ ring # <<>> /\ ring' = Tail(ring) /\ hpc = "idle"
      /\ UNCHANGED <<policy, pvars, maps, eng, gen, entries, gens, hkey, spc, skey, leftover>>
      /\ \/ Handle(Head(ring))
         \/ UNCHANGED <<hpc, hgen, hact, htodo>>
  BY Zenon DEF ReadAnswer, Handle, lvars, lhist, engvars, hvars, svars
<1>2. RoundInv' /\ UNCHANGED <<peng, pc, todo, new, prev, lost>>
  BY <1>1, ProgrammerRests, Zenon DEF RoundInv
<1>3. Head(ring) \in {x.answer : x \in Packets} /\ ring' \in Seq({x.answer : x \in Packets})
  BY <1>1 DEF HandlerInv
<1>4. CASE Handle(Head(ring))
  <2>1. /\ Learns(Head(ring)) /\ hpc' = "stamp" /\ hgen' = gen
        /\ hact' = ActionByte(eng.rules[DecidingRule(Head(ring))].action)
        /\ htodo' = LearnedKeys(Head(ring), eng.rules[DecidingRule(Head(ring))].ports)
    BY <1>4, Zenon DEF Handle
  <2>2. \A k \in htodo' : Taught(eng, k, hact')
    BY <1>3, <2>1, PutIsTaught, Zenon
  <2>3. GenInv' /\ HandlerInv'
    <3>1. GenInv'
      BY <1>1, <2>1 DEF GenInv
    <3>2. \A k \in htodo' : Taught(eng, k, hact)'
      BY <1>1, <2>2, Zenon DEF Taught, Teaches, Learns, DecidingRule
    <3> QED
      BY <1>3, <3>1, <3>2, Zenon DEF HandlerInv
  <2>4. OwnedInv'
    BY <1>1, <1>2, <2>1, Zenon DEF OwnedInv, Programmed, Learned
  <2>5. WriterInv'
    BY <1>1, <1>2, <2>1, Zenon DEF WriterInv, ByProgrammer, ByLearner
  <2> QED
    BY <1>2, <2>3, <2>4, <2>5, Zenon DEF EInv
<1>5. CASE UNCHANGED <<hpc, hgen, hact, htodo>>
  <2>1. GenInv' /\ HandlerInv'
    BY <1>1, <1>3, <1>5, Zenon DEF GenInv, HandlerInv
  <2>2. OwnedInv'
    BY <1>1, <1>2, <1>5, Zenon DEF OwnedInv, Programmed, Learned
  <2>3. WriterInv'
    BY <1>1, <1>2, <1>5, Zenon DEF WriterInv, ByProgrammer, ByLearner
  <2> QED
    BY <1>2, <2>1, <2>2, <2>3, Zenon DEF EInv
<1> QED
  BY <1>1, <1>4, <1>5, Zenon

\* handle() writes a verdict, be it the Programmer's or one that sweep() is about
\* to forget, or fails to.
LEMMA VerdictPut ==
  ASSUME EInv, NEW k \in htodo, PutVerdict(k), UNCHANGED <<avars, pvars>> PROVE EInv'
<1> RoundInv /\ OwnedInv /\ GenInv /\ HandlerInv /\ WriterInv
  BY Zenon DEF EInv
<1>1. /\ hpc = "loop" /\ htodo' = htodo \ {k}
      /\ UNCHANGED <<eng, gen, entries, gens, hgen, hact, spc, skey>>
      /\ UNCHANGED <<policy, ring>>
  BY Zenon DEF PutVerdict, avars, engvars, svars
<1>2. RoundInv' /\ UNCHANGED <<peng, pc, todo, new, prev, lost>>
  BY <1>1, ProgrammerRests, Zenon DEF RoundInv
<1>3. hgen = gen => Taught(eng, k, hact)
  BY <1>1, Zenon DEF HandlerInv
<1>4. CASE /\ maps' \in LruPuts(maps, MaxEntries, k, hact) /\ hkey' = k /\ hpc' = "track"
           /\ leftover' = (leftover \ {k}) \cap DOMAIN maps'
  <2>1. /\ k \in DOMAIN maps' /\ maps'[k] = hact
        /\ DOMAIN maps' \subseteq DOMAIN maps \cup {k}
        /\ \A y \in DOMAIN maps' : y # k => maps'[y] = maps[y]
    BY <1>4, LruPutIs
  <2>2. GenInv' /\ HandlerInv'
    BY <1>1, <1>4, Zenon DEF GenInv, HandlerInv
  <2>3. OwnedInv'
    BY <1>1, <1>2, <1>4, <2>1, Zenon DEF OwnedInv, Programmed, Learned
  <2>4. ByLearner(k)'
    BY <1>1, <1>3, <1>4, <2>1, Zenon DEF ByLearner
  <2>5. \A x \in DOMAIN maps' : x # k =>
          /\ x \in DOMAIN maps
          /\ ByProgrammer(x) => ByProgrammer(x)'
          /\ ByLearner(x) => ByLearner(x)'
    BY <1>1, <1>2, <1>4, <2>1, Zenon DEF ByProgrammer, ByLearner
  <2>6. WriterInv'
    BY <1>1, <1>4, <2>4, <2>5, Zenon DEF WriterInv
  <2> QED
    BY <1>2, <2>2, <2>3, <2>6, Zenon DEF EInv
<1>5. CASE UNCHANGED <<maps, leftover, hkey, hpc>>
  <2>1. GenInv' /\ HandlerInv'
    BY <1>1, <1>5, Zenon DEF GenInv, HandlerInv
  <2>2. OwnedInv'
    BY <1>1, <1>2, <1>5, Zenon DEF OwnedInv, Programmed, Learned
  <2>3. WriterInv'
    BY <1>1, <1>2, <1>5, Zenon DEF WriterInv, ByProgrammer, ByLearner
  <2> QED
    BY <1>2, <2>1, <2>2, <2>3, Zenon DEF EInv
<1> QED
  BY <1>4, <1>5, Zenon DEF PutVerdict, lhist

\* The verdict is recorded under the generation of the engine that decided it.
LEMMA VerdictTracked == ASSUME EInv, Track, UNCHANGED <<avars, pvars>> PROVE EInv'
<1> RoundInv /\ OwnedInv /\ GenInv /\ HandlerInv /\ WriterInv
  BY Zenon DEF EInv
<1>1. /\ hpc = "track" /\ hpc' = "loop" /\ spc # "forget"
      /\ DOMAIN entries' = DOMAIN entries \cup {hkey} /\ DOMAIN gens' = DOMAIN entries'
      /\ gens'[hkey] = hgen
      /\ \A k \in DOMAIN entries : k # hkey => gens'[k] = gens[k]
      /\ UNCHANGED <<maps, eng, gen, hgen, hact, htodo, spc, skey, leftover>>
      /\ UNCHANGED <<policy, ring>>
  BY Zenon DEF Track, GenInv, MapPut, MuFree, avars, lhist, engvars, svars
<1>2. RoundInv' /\ UNCHANGED <<peng, pc, todo, new, prev, lost>>
  BY <1>1, ProgrammerRests, Zenon DEF RoundInv
<1>3. GenInv' /\ HandlerInv'
  BY <1>1, Zenon DEF GenInv, HandlerInv
<1>4. OwnedInv'
  BY <1>1, <1>2, Zenon DEF OwnedInv, Programmed, Learned
<1>5. \A k : /\ ByProgrammer(k) => ByProgrammer(k)'
             /\ ByLearner(k) => ByLearner(k)'
  BY <1>1, <1>2, Zenon DEF ByProgrammer, ByLearner
<1>6. WriterInv'
  BY <1>1, <1>5, Zenon DEF WriterInv
<1> QED
  BY <1>2, <1>3, <1>4, <1>6, Zenon DEF EInv

\* Steps of handle(), of sweep() and of time that change neither the map nor what
\* is recorded in it.
LEMMA LearnerElsewhere ==
  ASSUME EInv, Stamp \/ Handled \/ SweepTick \/ SweepLock \/ SweepUnlock \/ Tick,
         UNCHANGED <<avars, pvars>>
  PROVE  EInv'
<1> RoundInv /\ OwnedInv /\ GenInv /\ HandlerInv /\ WriterInv
  BY Zenon DEF EInv
<1>1. /\ UNCHANGED <<maps, eng, gen, entries, gens, htodo, hkey, skey, leftover>>
      /\ UNCHANGED <<policy, ring>>
      /\ hpc = "track" <=> hpc' = "track"
      /\ hpc = "idle" => hpc' = "idle"
      /\ \/ hgen' = hgen /\ hact' = hact
         \/ hgen' = 0 /\ hpc' = "idle"
      /\ spc' = "forget" => spc = "forget"
      /\ hpc = "track" => hgen' = hgen
  BY Zenon DEF Stamp, Handled, SweepTick, SweepLock, SweepUnlock, Tick, avars, lhist,
     engvars, hvars, svars
<1>2. RoundInv' /\ UNCHANGED <<peng, pc, todo, new, prev, lost>>
  BY <1>1, ProgrammerRests, Zenon DEF RoundInv
<1>3. GenInv' /\ HandlerInv'
  BY <1>1, SMTT(30) DEF GenInv, HandlerInv
<1>4. OwnedInv'
  BY <1>1, <1>2, Zenon DEF OwnedInv, Programmed, Learned
<1>5. WriterInv'
  BY <1>1, <1>2, Zenon DEF WriterInv, ByProgrammer, ByLearner
<1> QED
  BY <1>2, <1>3, <1>4, <1>5, Zenon DEF EInv

\* sweep() removes a key from the map, although it may be the Programmer's, or
\* fails to.
LEMMA KeySwept ==
  ASSUME EInv, NEW k \in sleft, SweepDelete(k), UNCHANGED <<avars, pvars>> PROVE EInv'
<1> RoundInv /\ OwnedInv /\ GenInv /\ HandlerInv /\ WriterInv
  BY Zenon DEF EInv
<1>1. /\ skey' = k
      /\ k \in DOMAIN maps' => k \in leftover'
      /\ DOMAIN maps' \subseteq DOMAIN maps
      /\ \A x \in leftover : x # k => x \in leftover'
      /\ \A x \in DOMAIN maps' : maps'[x] = maps[x]
      /\ UNCHANGED <<eng, gen, entries, gens, hpc, hgen, hact, htodo, hkey>>
      /\ UNCHANGED <<policy, ring>>
  BY Zenon DEF SweepDelete, MapDelete, avars, engvars, hvars
<1>2. RoundInv' /\ UNCHANGED <<peng, pc, todo, new, prev, lost>>
  BY <1>1, ProgrammerRests, Zenon DEF RoundInv
<1>3. GenInv' /\ HandlerInv'
  BY <1>1, Zenon DEF GenInv, HandlerInv
<1>4. OwnedInv'
  BY <1>1, <1>2, Zenon DEF OwnedInv, Programmed, Learned
<1>5. \A x \in DOMAIN maps' :
         /\ ByProgrammer(x) => ByProgrammer(x)'
         /\ ByLearner(x) => ByLearner(x)'
  BY <1>1, <1>2, Zenon DEF ByProgrammer, ByLearner
<1>6. WriterInv'
  BY <1>1, <1>5, Zenon DEF WriterInv
<1> QED
  BY <1>2, <1>3, <1>4, <1>6, Zenon DEF EInv

\* sweep() forgets it; if it is back in the map, it is somebody else's.
LEMMA KeyForgotten == ASSUME EInv, SweepForget, UNCHANGED <<avars, pvars>> PROVE EInv'
<1> RoundInv /\ OwnedInv /\ GenInv /\ HandlerInv /\ WriterInv
  BY Zenon DEF EInv
<1>1. /\ spc = "forget" /\ spc' = "locked"
      /\ DOMAIN entries' = DOMAIN entries \ {skey} /\ DOMAIN gens' = DOMAIN entries'
      /\ \A x \in DOMAIN gens' : gens'[x] = gens[x]
      /\ UNCHANGED <<maps, eng, gen, hpc, hgen, hact, htodo, hkey, leftover>>
      /\ UNCHANGED <<policy, ring>>
  BY Zenon DEF SweepForget, GenInv, MapDelete, avars, engvars, hvars
<1>2. RoundInv' /\ UNCHANGED <<peng, pc, todo, new, prev, lost>>
  BY <1>1, ProgrammerRests, Zenon DEF RoundInv
<1>3. GenInv' /\ HandlerInv'
  BY <1>1, Zenon DEF GenInv, HandlerInv
<1>4. OwnedInv'
  BY <1>1, <1>2, Zenon DEF OwnedInv, Programmed, Learned
<1>5. \A x : /\ ByProgrammer(x) => ByProgrammer(x)'
             /\ ByLearner(x) /\ (x = skey => hpc = "track" /\ hkey = skey) => ByLearner(x)'
  BY <1>1, <1>2, Zenon DEF ByProgrammer, ByLearner, GenInv
<1>6. WriterInv'
  BY <1>1, <1>5, Zenon DEF WriterInv
<1> QED
  BY <1>2, <1>3, <1>4, <1>6, Zenon DEF EInv

\* The kernel evicts a verdict.
LEMMA VerdictEvicted == ASSUME EInv, NEW k, Evict(k) PROVE EInv'
<1> RoundInv /\ OwnedInv /\ GenInv /\ HandlerInv /\ WriterInv
  BY Zenon DEF EInv
<1>1. /\ DOMAIN maps' \subseteq DOMAIN maps
      /\ \A x \in DOMAIN maps' : maps'[x] = maps[x]
      /\ UNCHANGED <<eng, gen, entries, gens, hpc, hgen, hact, htodo, hkey, spc, skey,
                     leftover>>
      /\ UNCHANGED <<policy, ring, pvars>>
  BY Zenon DEF Evict, MapDelete, avars, lvars, lhist, engvars, hvars, svars
<1>2. RoundInv' /\ UNCHANGED <<peng, pc, todo, new, prev, lost>>
  BY <1>1, ProgrammerRests, Zenon DEF RoundInv
<1>3. GenInv' /\ HandlerInv'
  BY <1>1, Zenon DEF GenInv, HandlerInv
<1>4. OwnedInv'
  BY <1>1, <1>2, Zenon DEF OwnedInv, Programmed, Learned
<1>5. \A x \in DOMAIN maps' :
         /\ ByProgrammer(x) => ByProgrammer(x)'
         /\ ByLearner(x) => ByLearner(x)'
  BY <1>1, <1>2, Zenon DEF ByProgrammer, ByLearner
<1>6. WriterInv'
  BY <1>1, <1>5, Zenon DEF WriterInv
<1> QED
  BY <1>2, <1>3, <1>4, <1>6, Zenon DEF EInv

\* The agent goes: nothing is left to own.
LEMMA AllGone == ASSUME EInv, Gone PROVE EInv'
<1>1. /\ DOMAIN maps' = {} /\ pc' = "off" /\ todo' = {} /\ new' = {}
      /\ peng' = policy /\ eng' = policy /\ gen' = 0 /\ hgen' = 0
      /\ DOMAIN entries' = {} /\ DOMAIN gens' = {}
      /\ hpc' = "idle" /\ spc' = "idle" /\ ring' = <<>>
      /\ UNCHANGED <<policy, pods, podsAt>>
  BY Zenon DEF Gone
<1>2. RoundInv'
  BY <1>1, Zenon DEF EInv, RoundInv
<1>3. OwnedInv' /\ WriterInv'
  BY <1>1, Zenon DEF OwnedInv, WriterInv
<1>4. GenInv' /\ HandlerInv'
  BY <1>1 DEF GenInv, HandlerInv
<1> QED
  BY <1>2, <1>3, <1>4, Zenon DEF EInv

\* Run's stages, a signal, a new policy, the learner's subscription and an answer in
\* the ring buffer leave the Programmer and the learner alone.
LEMMA AgentElsewhere ==
  ASSUME EInv,
         \/ Advance \/ Signal \/ (\E p \in Updates : Publish(p)) \/ LearnerSubscribes
         \/ (\E x \in Packets : DnsIngress(x)) \/ UNCHANGED vars
  PROVE  EInv'
<1> RoundInv /\ OwnedInv /\ GenInv /\ HandlerInv /\ WriterInv
  BY Zenon DEF EInv
<1>1. /\ UNCHANGED <<maps, pods, peng, pc, podsAt, rule, todo, new, prev, lost>>
      /\ UNCHANGED <<eng, gen, entries, gens, hpc, hgen, hact, htodo, hkey, spc, skey,
                     leftover>>
      /\ policy' = policy \/ policy' \in Policies
      /\ ring' = ring \/ \E x \in Packets : ring' = Append(ring, x.answer)
  BY UpdatesAssumption, Zenon DEF Advance, Signal, Publish, LearnerSubscribes,
     DnsIngress, vars, avars, pvars, lvars, lhist, engvars, hvars, svars
<1>2. RoundInv' /\ GenInv'
  BY <1>1, Zenon DEF RoundInv, GenInv
<1>3. HandlerInv'
  BY <1>1, SMTT(30) DEF HandlerInv
<1>4. OwnedInv'
  BY <1>1, Zenon DEF OwnedInv, Programmed, Learned
<1>5. WriterInv'
  BY <1>1, Zenon DEF WriterInv, ByProgrammer, ByLearner
<1> QED
  BY <1>2, <1>3, <1>4, <1>5, Zenon DEF EInv

\* Nothing is written in the beginning.
LEMMA EInvInit == Init => EInv
<1> SUFFICES ASSUME Init PROVE EInv
  BY Zenon
<1>1. RoundInv /\ OwnedInv /\ GenInv /\ HandlerInv /\ WriterInv
  BY DEF Init, PInit, LInit, RoundInv, OwnedInv, GenInv, HandlerInv, WriterInv
<1> QED
  BY <1>1, Zenon DEF EInv

\* The channels hold policies, and only a learner that runs learns.
LEMMA ChannelInvNext == ChannelInv /\ [Next]_vars => ChannelInv'
<1> SUFFICES ASSUME ChannelInv, [Next]_vars PROVE ChannelInv'
  BY Zenon
<1>1. <<>> \in Seq(Policies) /\ \A p \in Updates : <<p>> \in Seq(Policies)
  BY UpdatesAssumption
<1>2. pchan' \in Seq(Policies) /\ lchan' \in Seq(Policies)
  <2>1. \/ pchan' \in {pchan, <<>>} /\ lchan' \in {lchan, <<>>}
        \/ \E p \in Updates : pchan' \in {pchan, <<p>>} /\ lchan' \in {lchan, <<p>>}
    BY Zenon DEF Next, RunStep, Advance, ReaderClosed, StageFails, Return, Gone, Signal,
       Restart, Crash, Publish, DnsIngress, ProgrammerStep, ProgrammerReceives,
       ProgrammerStops, LearnerStarts, LearnerSubscribes, LearnerReceives, ReadAnswer,
       LearnerStep, Evict, TimePasses, vars, cvars
  <2> QED
    BY <1>1, <2>1, Zenon DEF ChannelInv
<1>3. lpc' = "off" => DOMAIN entries' = {} /\ hpc' = "idle"
  <2>1. CASE LearnerReceives \/ ReadAnswer \/ LearnerStep
    BY <2>1, Zenon DEF LearnerReceives, SetEngine, hvars, Learning, ReadAnswer,
       LearnerStep, cvars, ChannelInv
  <2>2. CASE ReaderClosed \/ StageFails \/ Restart \/ Crash
    BY <2>2, Zenon DEF ReaderClosed, StageFails, Return, Restart, Crash, Gone
  <2>3. CASE lpc' \in {lpc, "run", "watching", "stopped"} /\ UNCHANGED <<entries, hpc>>
    BY <2>3, Zenon DEF ChannelInv
  <2>4. CASE \/ Advance \/ Signal \/ (\E p \in Updates : Publish(p))
             \/ (\E k \in Packets : DnsIngress(k)) \/ UNCHANGED vars
    BY <2>3, <2>4, Zenon DEF Advance, Signal, Publish, DnsIngress, vars, cvars, lvars, hvars
  <2>5. CASE \/ ProgrammerStep \/ ProgrammerReceives \/ ProgrammerStops
             \/ LearnerStarts \/ LearnerSubscribes
    BY <2>3, <2>5, Zenon DEF ProgrammerStep, ProgrammerReceives, ProgrammerStops,
       LearnerStarts, LearnerSubscribes, cvars, lvars, hvars
  <2>6. CASE (\E k \in DOMAIN maps : Evict(k)) \/ TimePasses
    BY <2>3, <2>6, Zenon DEF Evict, TimePasses, Tick, cvars, lvars, hvars
  <2> QED
    BY <2>1, <2>2, <2>4, <2>5, <2>6, Zenon DEF Next, RunStep
<1> QED
  BY <1>2, <1>3, Zenon DEF ChannelInv

\* Every step of the agent preserves the invariant.
LEMMA EInvNext == EInv /\ ChannelInv /\ [Next]_vars => EInv'
<1> SUFFICES ASSUME EInv, ChannelInv, [Next]_vars PROVE EInv'
  BY Zenon
<1>1. CASE ProgrammerStep \/ ProgrammerStops
  <2>1. policy \in Policies /\ UNCHANGED <<avars, lvars>>
    BY <1>1, Zenon DEF EInv, RoundInv, ProgrammerStep, ProgrammerStops
  <2> QED
    BY <1>1, <2>1, SelectLoop, RoundBegins, RuleBegins, KeyIsPut, ReconcileBegins,
       KeyIsDeleted, RoundEnds, Zenon DEF ProgrammerStep, ProgrammerStops, Apply
<1>2. CASE ProgrammerReceives
  <2>1. Head(pchan) \in Policies
    BY <1>2 DEF ProgrammerReceives, ChannelInv
  <2> QED
    BY <1>2, <2>1, SelectLoop, Zenon DEF ProgrammerReceives
<1>3. CASE LearnerReceives
  <2>1. Head(lchan) \in Policies
    BY <1>3 DEF LearnerReceives, ChannelInv
  <2> QED
    BY <1>3, <2>1, EngineReplaced, Zenon DEF LearnerReceives
<1>4. CASE LearnerStarts \/ ReadAnswer
  BY <1>4, LearnerBegins, AnswerRead, Zenon
<1>5. CASE LearnerStep \/ TimePasses
  BY <1>5, VerdictPut, VerdictTracked, LearnerElsewhere, KeySwept, KeyForgotten, Zenon
     DEF LearnerStep, HandleStep, SweepStep, TimePasses
<1>6. CASE ReaderClosed \/ StageFails \/ Restart \/ Crash
  BY <1>6, AllGone, Zenon DEF ReaderClosed, StageFails, Return, Restart, Crash
<1>7. CASE \/ Advance \/ Signal \/ (\E p \in Updates : Publish(p)) \/ LearnerSubscribes
           \/ (\E x \in Packets : DnsIngress(x)) \/ UNCHANGED vars
  BY <1>7, AgentElsewhere, Zenon
<1>8. CASE \E k \in DOMAIN maps : Evict(k)
  BY <1>8, VerdictEvicted, Zenon
<1> QED
  BY <1>1, <1>2, <1>3, <1>4, <1>5, <1>6, <1>7, <1>8, Zenon DEF Next, RunStep

\* The inductive invariant of Programmer and learner together holds always.
THEOREM EInvAlways == Spec => [](EInv /\ ChannelInv)
<1>1. Init => ChannelInv
  BY DEF Init, LInit, ChannelInv
<1> QED
  BY <1>1, EInvInit, EInvNext, ChannelInvNext, PTL DEF Spec

\* Every verdict in the map that both write has an owner.
THEOREM AllVerdictsOwned == Spec => []EveryVerdictOwned
<1>1. EInv => EveryVerdictOwned
  BY Zenon DEF EInv, RoundInv, OwnedInv, Programmed, EveryVerdictOwned
<1> QED
  BY <1>1, EInvAlways, PTL

\* What rules ask for and answers teach is what a policy justifies.
LEMMA OnlyJustified ==
  ASSUME NEW p, NEW k, NEW act, <<k, act>> \notin Justified(p)
  PROVE  ~Written(p, k, act) /\ ~Taught(p, k, act)
<1>1. \A i \in 1..Len(p.rules) : <<k, act>> \notin Writes(p, i)
  BY Zenon DEF Justified
<1>2. \A x \in Packets : <<k, act>> \notin Teaches(p, x.answer)
  BY Zenon DEF Justified
<1> QED
  BY <1>1, <1>2, Zenon DEF Written, Taught

\* When both have taken over the policy, what it does not justify expires.
THEOREM OnlyLearnedIsStale == Spec => []StaleIsLearned
<1>1. EInv => StaleIsLearned
  <2> SUFFICES ASSUME EInv, eng = policy, peng = policy, pc = "idle",
                      NEW k \in DOMAIN maps, IsVerdictKey(k),
                      <<k, maps[k]>> \notin Justified(policy)
               PROVE  \/ k \in lost \cup leftover
                      \/ k \in DOMAIN entries /\ gens[k] # gen
                      \/ k = hkey /\ hgen # gen
    BY Zenon DEF StaleIsLearned
  <2>1. ~Written(policy, k, maps[k]) /\ ~Taught(policy, k, maps[k])
    BY OnlyJustified, Zenon
  <2>2. new = {} /\ (k \in leftover \/ ByProgrammer(k) \/ ByLearner(k))
    BY Zenon DEF EInv, RoundInv, WriterInv
  <2> QED
    BY <2>1, <2>2, Zenon DEF ByProgrammer, ByLearner
<1> QED
  BY <1>1, EInvAlways, PTL
=============================================================================
