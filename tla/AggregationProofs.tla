-------------------------- MODULE AggregationProofs -------------------------
(***************************************************************************)
(* Lemmas about Aggregation, for any finite sets of policies with          *)
(* different names: what Sorted and the appending loops build, which rule  *)
(* of an aggregate comes first, what folding does to a rule, and that      *)
(* valid policies have a valid aggregate.                                  *)
(***************************************************************************)
EXTENDS Aggregation, FiniteSetTheorems, WellFoundedInduction, TLAPS

-----------------------------------------------------------------------------
(* The first element of a sequence that has a property: the loops of the   *)
(* engine, of Aggregate and of apply() all stop at, or keep, the first.    *)

\* A set of natural numbers has a least element.
LEMMA LeastNat ==
  ASSUME NEW I, I \subseteq Nat, I # {} PROVE \E x \in I : \A y \in I : x <= y
<1> DEFINE R == {ss \in Nat \X Nat : ss[1] < ss[2]}
<1>1. IsWellFoundedOn(R, Nat)
  BY NatLessThanWellFounded, Zenon DEF OpToRel
<1>2. PICK x \in I : \A y \in I : <<y, x>> \notin R
  <2> HIDE DEF R
  <2> QED
    BY <1>1, WFMin, Zenon
<1>3. ASSUME NEW y \in I PROVE x <= y
  <2>1. x \in Nat /\ y \in Nat /\ <<y, x>> \notin R
    BY <1>2, Zenon
  <2> QED
    BY <2>1
<1> QED
  BY <1>3, Zenon

\* A loop that stops at the first of some indices stops there.
LEMMA FirstOfIs ==
  ASSUME NEW I, I \subseteq Nat \ {0}
  PROVE  /\ I = {} => FirstOf(I) = 0
         /\ I # {} => FirstOf(I) \in I /\ \A j \in I : FirstOf(I) <= j
<1>1. CASE I = {}
  BY <1>1, Zenon DEF FirstOf
<1>2. CASE I # {}
  <2>1. \E x \in I : \A y \in I : x <= y
    BY <1>2, LeastNat, Zenon
  <2> QED
    BY <1>2, <2>1, Zenon DEF FirstOf
<1> QED
  BY <1>1, <1>2, Zenon

\* x is the first element of s that is in H; no element is.
IsFirst(s, H, x) ==
  \E i \in 1..Len(s) : s[i] = x /\ x \in H /\ \A j \in 1..(i - 1) : s[j] \notin H

NoneOf(s, H) == \A i \in 1..Len(s) : s[i] \notin H

\* A sequence has an element in H, and a first one, or none.
LEMMA FirstOrNone ==
  ASSUME NEW S, NEW s \in Seq(S), NEW H, ~NoneOf(s, H)
  PROVE  \E x : IsFirst(s, H, x)
<1> DEFINE I == {i \in 1..Len(s) : s[i] \in H}
<1>1. I # {} /\ I \subseteq Nat
  BY DEF NoneOf
<1>2. PICK i \in I : \A j \in I : i <= j
  <2> HIDE DEF I
  <2> QED
    BY <1>1, LeastNat, Zenon
<1>3. \A j \in 1..(i - 1) : s[j] \notin H
  BY <1>2
<1> QED
  BY <1>2, <1>3, Zenon DEF IsFirst

\* There is only one first element, and what has one has not none.
LEMMA FirstIsUnique ==
  ASSUME NEW S, NEW s \in Seq(S), NEW H, NEW x, IsFirst(s, H, x)
  PROVE  ~NoneOf(s, H) /\ \A y : IsFirst(s, H, y) => y = x
<1>1. PICK i \in 1..Len(s) : s[i] = x /\ x \in H /\ \A j \in 1..(i - 1) : s[j] \notin H
  BY Zenon DEF IsFirst
<1>2. ASSUME NEW y, IsFirst(s, H, y) PROVE y = x
  <2>1. PICK k \in 1..Len(s) : s[k] = y /\ y \in H /\ \A j \in 1..(k - 1) : s[j] \notin H
    BY <1>2, Zenon DEF IsFirst
  <2>2. ~(i < k) /\ ~(k < i)
    BY <1>1, <2>1
  <2> QED
    BY <1>1, <2>1, <2>2
<1> QED
  BY <1>1, <1>2, Zenon DEF NoneOf

\* The first element of two sequences in a row.
LEMMA FirstOfTwo ==
  ASSUME NEW S, NEW s \in Seq(S), NEW t \in Seq(S), NEW H
  PROVE  /\ s \o t \in Seq(S)
         /\ NoneOf(s, H) /\ NoneOf(t, H) => NoneOf(s \o t, H)
         /\ \A x : IsFirst(s, H, x) => IsFirst(s \o t, H, x)
         /\ \A x : NoneOf(s, H) /\ IsFirst(t, H, x) => IsFirst(s \o t, H, x)
<1>1. /\ s \o t \in Seq(S) /\ Len(s \o t) = Len(s) + Len(t)
      /\ \A i \in 1..Len(s) : (s \o t)[i] = s[i]
      /\ \A i \in 1..Len(t) : (s \o t)[Len(s) + i] = t[i]
      /\ Len(s) \in Nat /\ Len(t) \in Nat
  OBVIOUS
<1>2. \A i \in 1..Len(s \o t) : i \in 1..Len(s) \/ \E j \in 1..Len(t) : i = Len(s) + j
  <2> SUFFICES ASSUME NEW i \in 1..(Len(s) + Len(t)), i \notin 1..Len(s)
               PROVE  \E j \in 1..Len(t) : i = Len(s) + j
    BY <1>1, Zenon
  <2>1. i - Len(s) \in 1..Len(t) /\ i = Len(s) + (i - Len(s))
    BY <1>1
  <2> QED
    BY <2>1, Zenon
<1> DEFINE u == s \o t
<1> HIDE DEF u
<1>3. NoneOf(s, H) /\ NoneOf(t, H) => NoneOf(u, H)
  BY <1>1, <1>2, Zenon DEF NoneOf, u
<1>4. ASSUME NEW x, IsFirst(s, H, x) PROVE IsFirst(u, H, x)
  <2>1. PICK i \in 1..Len(s) : s[i] = x /\ x \in H /\ \A j \in 1..(i - 1) : s[j] \notin H
    BY <1>4, Zenon DEF IsFirst
  <2>2. i \in 1..Len(u) /\ u[i] = x /\ \A j \in 1..(i - 1) : j \in 1..Len(s) /\ u[j] = s[j]
    BY <1>1, <2>1 DEF u
  <2> QED
    BY <2>1, <2>2, Zenon DEF IsFirst
<1>5. ASSUME NEW x, NoneOf(s, H), IsFirst(t, H, x) PROVE IsFirst(u, H, x)
  <2>1. PICK i \in 1..Len(t) : t[i] = x /\ x \in H /\ \A j \in 1..(i - 1) : t[j] \notin H
    BY <1>5, Zenon DEF IsFirst
  <2>2. Len(s) + i \in 1..Len(u) /\ u[Len(s) + i] = x
    BY <1>1, <2>1 DEF u
  <2>3. ASSUME NEW j \in 1..(Len(s) + i - 1) PROVE u[j] \notin H
    <3>1. CASE j \in 1..Len(s)
      BY <1>1, <1>5, <3>1, Zenon DEF NoneOf, u
    <3>2. CASE j \notin 1..Len(s)
      <4>1. j - Len(s) \in 1..(i - 1) /\ j - Len(s) \in 1..Len(t) /\ j = Len(s) + (j - Len(s))
        BY <1>1, <3>2
      <4>2. u[j] = t[j - Len(s)]
        BY <1>1, <4>1, Zenon DEF u
      <4> QED
        BY <2>1, <4>1, <4>2, Zenon
    <3> QED
      BY <3>1, <3>2, Zenon
  <2> QED
    BY <2>1, <2>2, <2>3 DEF IsFirst
<1> QED
  BY <1>1, <1>3, <1>4, <1>5, Zenon DEF u

\* What the appending loop has after its first i rounds.
AppendStep(slices, out, i) == IF i = 0 THEN <<>> ELSE out[i - 1] \o slices[i]

\* The loop builds a sequence in every round.
LEMMA AppendExists ==
  ASSUME NEW S, NEW slices \in Seq(Seq(S)), NEW n \in Nat, n <= Len(slices)
  PROVE  \E out \in [0..n -> Seq(S)] : \A i \in 0..n : out[i] = AppendStep(slices, out, i)
<1> DEFINE Built(m) == \E out \in [0..m -> Seq(S)] :
                         \A i \in 0..m : out[i] = AppendStep(slices, out, i)
           Bad == {m \in 0..n : ~Built(m)}
<1>1. ASSUME Bad # {} PROVE FALSE
  <2>1. PICK m \in Bad : \A k \in Bad : m <= k
    <3>1. Bad \subseteq Nat
      OBVIOUS
    <3> HIDE DEF Bad
    <3> QED
      BY <1>1, <3>1, LeastNat, Zenon
  <2>2. CASE m = 0
    <3> DEFINE out == [i \in 0..0 |-> <<>>]
    <3>1. out \in [0..m -> Seq(S)] /\ \A i \in 0..m : out[i] = AppendStep(slices, out, i)
      BY <2>2 DEF AppendStep
    <3> HIDE DEF out
    <3> QED
      BY <2>1, <3>1, Zenon
  <2>3. CASE m # 0
    <3>1. m - 1 \in 0..n /\ m - 1 \notin Bad
      <4>1. m \in 0..n /\ m - 1 \in 0..n /\ ~(m <= m - 1)
        BY <2>3
      <4> HIDE DEF Bad
      <4> QED
        BY <2>1, <4>1, Zenon
    <3>2. Built(m - 1)
      BY <3>1, Zenon
    <3>3. PICK prev \in [0..(m - 1) -> Seq(S)] :
            \A i \in 0..(m - 1) : prev[i] = AppendStep(slices, prev, i)
      BY <3>2, Zenon
    <3> DEFINE last == prev[m - 1] \o slices[m]
               out == [i \in 0..m |-> IF i = m THEN last ELSE prev[i]]
    <3>4. m \in 1..Len(slices) /\ m - 1 \in 0..(m - 1) /\ last \in Seq(S)
      BY <2>3
    <3> HIDE DEF last
    <3>5. out \in [0..m -> Seq(S)]
      BY <3>4
    <3>6. ASSUME NEW i \in 0..m PROVE out[i] = AppendStep(slices, out, i)
      <4>1. i # 0 => out[i - 1] = prev[i - 1]
        BY <3>4
      <4>2. AppendStep(slices, out, i) = AppendStep(slices, prev, i)
        BY <4>1 DEF AppendStep
      <4>3. CASE i = m
        <5>1. AppendStep(slices, prev, i) = last
          BY <2>3, <4>3, Zenon DEF AppendStep, last
        <5> QED
          BY <4>2, <4>3, <5>1, Zenon
      <4>4. CASE i # m
        <5>1. i \in 0..(m - 1) /\ out[i] = prev[i]
          BY <3>4, <4>4
        <5> QED
          BY <3>3, <4>2, <5>1, Zenon
      <4> QED
        BY <4>3, <4>4, Zenon
    <3> HIDE DEF out
    <3> QED
      BY <2>1, <3>5, <3>6, Zenon
  <2> QED
    BY <2>2, <2>3, Zenon
<1>2. n \in 0..n
  OBVIOUS
<1>3. n \notin Bad
  BY <1>1, Zenon
<1> QED
  BY <1>2, <1>3, Zenon

\* Appended is what the loop has in the end.
LEMMA AppendedIs ==
  ASSUME NEW S, NEW slices \in Seq(Seq(S))
  PROVE  \E out \in [0..Len(slices) -> Seq(S)] :
           /\ Appended(slices) = out[Len(slices)]
           /\ \A i \in 0..Len(slices) : out[i] = AppendStep(slices, out, i)
<1> DEFINE n == Len(slices)
           Fn(g) == g = [i \in 0..n |-> IF i = 0 THEN <<>> ELSE g[i - 1] \o slices[i]]
           out == CHOOSE g : Fn(g)
<1>1. n \in Nat /\ n <= Len(slices)
  OBVIOUS
<1>2. PICK g \in [0..n -> Seq(S)] : \A i \in 0..n : g[i] = AppendStep(slices, g, i)
  <2> DEFINE m == Len(slices)
  <2>1. m \in Nat /\ m <= Len(slices)
    OBVIOUS
  <2> HIDE DEF m
  <2>2. \E g \in [0..m -> Seq(S)] : \A i \in 0..m : g[i] = AppendStep(slices, g, i)
    BY <2>1, AppendExists
  <2> QED
    BY <2>2, Zenon DEF m
<1>3. Fn(g)
  BY <1>2, Zenon DEF AppendStep
<1>4. Fn(out)
  <2> HIDE DEF Fn
  <2> QED
    BY <1>3, Zenon
<1>5. Appended(slices) = out[n]
  BY Zenon DEF Appended
<1> HIDE DEF out
<1>6. \A i \in 0..n : out[i] = AppendStep(slices, out, i)
  BY <1>4, Zenon DEF AppendStep
<1> DEFINE Bad == {i \in 0..n : out[i] # g[i]}
<1>7. ASSUME Bad # {} PROVE FALSE
  <2>1. PICK m \in Bad : \A k \in Bad : m <= k
    <3>1. Bad \subseteq Nat
      OBVIOUS
    <3> HIDE DEF Bad
    <3> QED
      BY <1>7, <3>1, LeastNat, Zenon
  <2>2. m # 0
    BY <1>2, <1>6, Zenon DEF AppendStep
  <2>3. m - 1 \in 0..n /\ m - 1 \notin Bad
    BY <2>1, <2>2
  <2> QED
    BY <1>2, <1>6, <2>2, <2>3, Zenon DEF AppendStep
<1>8. \A i \in 0..n : out[i] \in Seq(S)
  BY <1>2, <1>7, Zenon
<1>9. out = [i \in 0..n |-> out[i]]
  BY <1>4, Zenon
<1>10. out \in [0..n -> Seq(S)]
  BY <1>8, <1>9, Zenon
<1> QED
  BY <1>5, <1>6, <1>10, Zenon

\* The first element of appended sequences.
LEMMA FirstOfAppended ==
  ASSUME NEW S, NEW slices \in Seq(Seq(S)), NEW H
  PROVE  /\ Appended(slices) \in Seq(S)
         /\ (\A i \in 1..Len(slices) : NoneOf(slices[i], H)) => NoneOf(Appended(slices), H)
         /\ \A i \in 1..Len(slices) : \A x :
              IsFirst(slices[i], H, x) /\ (\A j \in 1..(i - 1) : NoneOf(slices[j], H))
                => IsFirst(Appended(slices), H, x)
<1> DEFINE n == Len(slices)
<1>1. PICK out \in [0..n -> Seq(S)] :
        /\ Appended(slices) = out[n]
        /\ \A i \in 0..n : out[i] = AppendStep(slices, out, i)
  BY AppendedIs, Zenon
<1>0. n \in Nat
  OBVIOUS
<1> DEFINE Good(m) ==
      /\ (\A i \in 1..m : NoneOf(slices[i], H)) => NoneOf(out[m], H)
      /\ \A i \in 1..m : \A x :
           IsFirst(slices[i], H, x) /\ (\A j \in 1..(i - 1) : NoneOf(slices[j], H))
             => IsFirst(out[m], H, x)
           Bad == {m \in 0..n : ~Good(m)}
<1>2. ASSUME Bad # {} PROVE FALSE
  <2>1. PICK m \in Bad : \A k \in Bad : m <= k
    <3>1. Bad \subseteq Nat
      OBVIOUS
    <3> HIDE DEF Bad
    <3> QED
      BY <1>2, <3>1, LeastNat, Zenon
  <2>2. CASE m = 0
    <3>1. out[m] = <<>>
      BY <1>1, <1>0, <2>2, Zenon DEF AppendStep
    <3>2. Good(m)
      BY <2>2, <3>1 DEF NoneOf
    <3> QED
      BY <2>1, <3>2, Zenon
  <2>3. CASE m # 0
    <3>1. m - 1 \in 0..n /\ m - 1 \notin Bad /\ m \in 1..n
      <4>1. m \in 1..n /\ m - 1 \in 0..n /\ ~(m <= m - 1)
        BY <2>3
      <4> HIDE DEF Bad
      <4> QED
        BY <2>1, <4>1, Zenon
    <3>2. Good(m - 1)
      BY <3>1, Zenon
    <3>3. out[m] = out[m - 1] \o slices[m] /\ out[m - 1] \in Seq(S) /\ slices[m] \in Seq(S)
      <4>1. m \in 0..n /\ out[m] = AppendStep(slices, out, m)
        BY <1>1, <3>1, Zenon
      <4>2. slices[m] \in Seq(S)
        <5> HIDE DEF Bad
        <5> QED
          BY <3>1
      <4>3. out[m - 1] \in Seq(S)
        BY <1>1, <3>1, Zenon
      <4> QED
        BY <2>3, <4>1, <4>2, <4>3, Zenon DEF AppendStep
    <3>4. /\ NoneOf(out[m - 1], H) /\ NoneOf(slices[m], H) => NoneOf(out[m], H)
          /\ \A x : IsFirst(out[m - 1], H, x) => IsFirst(out[m], H, x)
          /\ \A x : NoneOf(out[m - 1], H) /\ IsFirst(slices[m], H, x)
                      => IsFirst(out[m], H, x)
      <4>1. PICK s \in Seq(S), t \in Seq(S) :
              s = out[m - 1] /\ t = slices[m] /\ out[m] = s \o t
        BY <3>3, Zenon
      <4> QED
        BY <4>1, FirstOfTwo, Zenon
    <3>5. \A i \in 1..m : i = m \/ i \in 1..(m - 1)
      BY <3>1
    <3>6. \A i \in 1..(m - 1) : i \in 1..m
      BY <3>1
    <3>7. Good(m)
      BY <3>1, <3>2, <3>4, <3>5, <3>6
    <3> QED
      BY <2>1, <3>7, Zenon
  <2> QED
    BY <2>2, <2>3, Zenon
<1>3. n \in 0..n
  BY <1>0
<1>4. Good(n)
  BY <1>2, <1>3, Zenon
<1> QED
  BY <1>0, <1>1, <1>4

-----------------------------------------------------------------------------
(* Sorting: finitely many policies with different names have one order.    *)

\* Finitely many objects with numbers for names, no two with the same ones.
Named(O) ==
  /\ IsFiniteSet(O)
  /\ \A o \in O : o.namespace \in Nat /\ o.name \in Nat
  /\ \A a, b \in O : a.namespace = b.namespace /\ a.name = b.name => a = b

\* s lists O in the order of the names.
Lists(s, O) ==
  /\ s \in [1..Cardinality(O) -> O]
  /\ Range(s) = O
  /\ \A i, j \in 1..Cardinality(O) : i < j => Before(s[i], s[j])

\* One of the objects comes before all the others.
LEMMA LeastObject ==
  ASSUME NEW O, Named(O), NEW P \in SUBSET O, P # {}
  PROVE  \E a \in P : \A b \in P : b = a \/ Before(a, b)
<1> DEFINE I == {o.namespace : o \in P}
<1>1. I \subseteq Nat /\ I # {}
  BY DEF Named
<1>2. PICK n \in I : \A k \in I : n <= k
  <2> HIDE DEF I
  <2> QED
    BY <1>1, LeastNat, Zenon
<1> DEFINE J == {o.name : o \in {x \in P : x.namespace = n}}
<1>3. J \subseteq Nat /\ J # {}
  BY <1>2 DEF Named
<1>4. PICK m \in J : \A k \in J : m <= k
  <2> HIDE DEF J
  <2> QED
    BY <1>3, LeastNat, Zenon
<1>5. PICK a \in P : a.namespace = n /\ a.name = m
  BY <1>4, Zenon
<1>6. ASSUME NEW b \in P PROVE b = a \/ Before(a, b)
  <2>1. a.namespace \in Nat /\ b.namespace \in Nat /\ a.name \in Nat /\ b.name \in Nat
    BY Zenon DEF Named
  <2>2. a.namespace <= b.namespace
    BY <1>2, <1>5, Zenon
  <2>3. b.namespace = n => a.name <= b.name
    BY <1>4, <1>5, Zenon
  <2>4. a.namespace = b.namespace /\ a.name = b.name => a = b
    BY Zenon DEF Named
  <2> QED
    BY <1>5, <2>1, <2>2, <2>3, <2>4 DEF Before
<1> QED
  BY <1>6, Zenon

\* The objects can be listed in the order of their names.
LEMMA Listed ==
  ASSUME NEW O, Named(O) PROVE \E s : Lists(s, O)
<1> DEFINE Bad == {n \in Nat : \E P \in SUBSET O : Cardinality(P) = n /\ ~\E s : Lists(s, P)}
<1>1. ASSUME Bad # {} PROVE FALSE
  <2>1. PICK m \in Bad : \A k \in Bad : m <= k
    <3>1. Bad \subseteq Nat
      BY Zenon
    <3> HIDE DEF Bad
    <3> QED
      BY <1>1, <3>1, LeastNat, Zenon
  <2>2. PICK P \in SUBSET O : Cardinality(P) = m /\ ~\E s : Lists(s, P)
    BY Zenon
  <2>3. IsFiniteSet(P) /\ m \in Nat
    BY FS_Subset, Zenon DEF Named
  <2>4. CASE P = {}
    <3> DEFINE s == [i \in 1..0 |-> 0]
    <3>1. Cardinality(P) = 0
      BY <2>4, FS_EmptySet, Zenon
    <3>2. s \in [1..Cardinality(P) -> P] /\ \A i \in 1..Cardinality(P) : FALSE
      BY <3>1
    <3>3. Range(s) = P
      BY <2>4 DEF Range
    <3>4. Lists(s, P)
      BY <3>2, <3>3, Zenon DEF Lists
    <3> QED
      BY <2>2, <3>4, Zenon
  <2>5. CASE P # {}
    <3>1. PICK a \in P : \A b \in P : b = a \/ Before(a, b)
      BY <2>5, LeastObject, Zenon
    <3> DEFINE Q == P \ {a}
    <3>2. IsFiniteSet(Q) /\ Cardinality(Q) = m - 1 /\ m \in Nat /\ m # 0
      BY <2>2, <2>3, <3>1, FS_RemoveElement, FS_EmptySet, Zenon
    <3>3. m - 1 \notin Bad /\ m - 1 \in Nat
      <4>1. m - 1 \in Nat /\ ~(m <= m - 1)
        BY <3>2
      <4> HIDE DEF Bad
      <4> QED
        BY <2>1, <4>1, Zenon
    <3>4. Q \in SUBSET O
      BY Zenon
    <3>5. PICK s : Lists(s, Q)
      <4> HIDE DEF Q
      <4> QED
        BY <3>2, <3>3, <3>4, Zenon
    <3>6. /\ s \in [1..(m - 1) -> Q]
          /\ Range(s) = Q
          /\ \A i, j \in 1..(m - 1) : i < j => Before(s[i], s[j])
      BY <3>2, <3>5, Zenon DEF Lists
    <3> DEFINE t == [i \in 1..m |-> IF i = 1 THEN a ELSE s[i - 1]]
    <3>7. \A i \in 1..m : i = 1 \/ i - 1 \in 1..(m - 1)
      BY <3>2
    <3>8. /\ t \in [1..m -> P] /\ t[1] = a
          /\ \A i \in 1..m : i # 1 => t[i] = s[i - 1] /\ t[i] \in Q
      BY <3>2, <3>6, <3>7
    <3>9. Range(t) = P
      <4>1. Range(t) \subseteq P
        BY <3>8 DEF Range
      <4>2. ASSUME NEW x \in P PROVE x \in Range(t)
        <5>1. CASE x = a
          BY <3>2, <3>8, <5>1 DEF Range
        <5>2. CASE x # a
          <6>1. PICK i \in 1..(m - 1) : s[i] = x
            BY <3>6, <5>2, Zenon DEF Range
          <6>2. i + 1 \in 1..m /\ i + 1 # 1 /\ (i + 1) - 1 = i
            BY <3>2
          <6>3. t[i + 1] = x
            BY <3>8, <6>1, <6>2, Zenon
          <6> QED
            BY <3>8, <6>2, <6>3, Zenon DEF Range
        <5> QED
          BY <5>1, <5>2, Zenon
      <4> QED
        BY <4>1, <4>2, Zenon
    <3>10. ASSUME NEW i \in 1..m, NEW j \in 1..m, i < j PROVE Before(t[i], t[j])
      <4>1. j # 1 /\ j - 1 \in 1..(m - 1) /\ t[j] = s[j - 1] /\ t[j] \in Q
        BY <3>2, <3>7, <3>8, <3>10
      <4>2. CASE i = 1
        BY <3>1, <3>8, <4>1, <4>2, Zenon
      <4>3. CASE i # 1
        <5>1. i - 1 \in 1..(m - 1) /\ t[i] = s[i - 1] /\ i - 1 < j - 1
          BY <3>2, <3>7, <3>8, <3>10, <4>3
        <5> HIDE DEF t
        <5> QED
          BY <3>6, <4>1, <5>1, Zenon
      <4> QED
        BY <4>2, <4>3, Zenon
    <3> HIDE DEF t
    <3>11. Lists(t, P)
      BY <2>2, <3>8, <3>9, <3>10, Zenon DEF Lists
    <3> QED
      BY <2>2, <3>11, Zenon
  <2> QED
    BY <2>4, <2>5, Zenon
<1>2. Cardinality(O) \in Nat /\ O \in SUBSET O
  BY FS_CardinalityType, Zenon DEF Named
<1>3. Cardinality(O) \notin Bad
  BY <1>1, Zenon
<1> QED
  BY <1>2, <1>3, Zenon

\* Sorted lists the objects in the order of their names.
LEMMA SortedIs ==
  ASSUME NEW O, Named(O) PROVE Lists(Sorted(O), O) /\ Cardinality(O) \in Nat
<1>1. PICK s : Lists(s, O)
  BY Listed, Zenon
<1>2. Cardinality(O) \in Nat
  BY FS_CardinalityType, Zenon DEF Named
<1> QED
  BY <1>1, <1>2, Zenon DEF Sorted, Lists

-----------------------------------------------------------------------------
(* What Aggregate's four loops build from the sorted policies.             *)

\* What a loop over the sorted objects appends, B[o] being what it does for o.
Blocks(O, B) == Appended([i \in 1..Len(Sorted(O)) |-> B[Sorted(O)[i]]])

\* The first element in H is that of the first object that has one.
LEMMA FirstOfBlocks ==
  ASSUME NEW O, Named(O), NEW S, NEW B \in [O -> Seq(S)], NEW H
  PROVE  /\ Blocks(O, B) \in Seq(S)
         /\ (\A o \in O : NoneOf(B[o], H)) => NoneOf(Blocks(O, B), H)
         /\ \A o \in O : \A x :
              IsFirst(B[o], H, x) /\ (\A b \in O : Before(b, o) => NoneOf(B[b], H))
                => IsFirst(Blocks(O, B), H, x)
<1>1. PICK n \in Nat : n = Cardinality(O)
  BY SortedIs, Zenon
<1>2. PICK s \in [1..n -> O] :
        s = Sorted(O) /\ Range(s) = O /\ \A i, j \in 1..n : i < j => Before(s[i], s[j])
  BY <1>1, SortedIs, Zenon DEF Lists
<1>3. s \in Seq(O) /\ Len(s) = n
  OBVIOUS
<1> DEFINE slices == [i \in 1..n |-> B[s[i]]]
<1>4. slices \in Seq(Seq(S)) /\ Len(slices) = n /\ \A i \in 1..n : slices[i] = B[s[i]]
  OBVIOUS
<1>5. Blocks(O, B) = Appended(slices)
  BY <1>2, <1>3, Zenon DEF Blocks
<1> HIDE DEF slices
<1>6. /\ Appended(slices) \in Seq(S)
      /\ (\A i \in 1..n : NoneOf(slices[i], H)) => NoneOf(Appended(slices), H)
      /\ \A i \in 1..n : \A x :
           IsFirst(slices[i], H, x) /\ (\A j \in 1..(i - 1) : NoneOf(slices[j], H))
             => IsFirst(Appended(slices), H, x)
  BY <1>4, FirstOfAppended, Zenon
<1>7. ASSUME \A o \in O : NoneOf(B[o], H) PROVE NoneOf(Appended(slices), H)
  BY <1>4, <1>6, <1>7, Zenon
<1>8. ASSUME NEW o \in O, NEW x, IsFirst(B[o], H, x),
             \A b \in O : Before(b, o) => NoneOf(B[b], H)
      PROVE  IsFirst(Appended(slices), H, x)
  <2>1. PICK i \in 1..n : s[i] = o
    BY <1>2, Zenon DEF Range
  <2>2. ASSUME NEW j \in 1..(i - 1) PROVE NoneOf(slices[j], H)
    <3>1. j \in 1..n /\ j < i
      BY <1>1
    <3>2. Before(s[j], o) /\ s[j] \in O
      BY <1>2, <2>1, <3>1, Zenon
    <3> QED
      BY <1>4, <1>8, <3>1, <3>2, Zenon
  <2>3. IsFirst(slices[i], H, x)
    BY <1>4, <1>8, <2>1, Zenon
  <2> QED
    BY <1>6, <2>2, <2>3, Zenon
<1> QED
  BY <1>5, <1>6, <1>7, <1>8, Zenon

\* An object whose block has no element in H can be left out of the loop.
LEMMA BlocksWithout ==
  ASSUME NEW O, Named(O), NEW S, NEW B \in [O -> Seq(S)], NEW H,
         NEW P \in SUBSET O, NEW C \in [P -> Seq(S)],
         \A o \in P : C[o] = B[o],
         \A o \in O \ P : NoneOf(B[o], H)
  PROVE  \/ NoneOf(Blocks(O, B), H) /\ NoneOf(Blocks(P, C), H)
         \/ \E x : IsFirst(Blocks(O, B), H, x) /\ IsFirst(Blocks(P, C), H, x)
<1>1. Named(P)
  BY FS_Subset, Zenon DEF Named
<1> DEFINE Q == {o \in O : ~NoneOf(B[o], H)}
<1>2. CASE Q = {}
  <2>1. (\A o \in O : NoneOf(B[o], H)) /\ (\A o \in P : NoneOf(C[o], H))
    BY <1>2, Zenon
  <2> QED
    BY <1>1, <2>1, FirstOfBlocks, Zenon
<1>3. CASE Q # {}
  <2>1. PICK a \in Q : \A b \in Q : b = a \/ Before(a, b)
    <3>1. Q \in SUBSET O
      BY Zenon
    <3> HIDE DEF Q
    <3> QED
      BY <1>3, <3>1, LeastObject, Zenon
  <2>2. a \in O /\ a \in P /\ B[a] \in Seq(S) /\ ~NoneOf(B[a], H)
    BY Zenon
  <2>3. PICK x : IsFirst(B[a], H, x)
    BY <2>2, FirstOrNone, Zenon
  <2>4. ASSUME NEW b \in O, Before(b, a) PROVE NoneOf(B[b], H)
    <3>1. ~Before(a, b) /\ b # a
      BY <2>2, <2>4 DEF Named, Before
    <3> QED
      BY <2>1, <3>1, Zenon
  <2>5. IsFirst(Blocks(O, B), H, x)
    BY <2>2, <2>3, <2>4, FirstOfBlocks, Zenon
  <2>6. \A b \in P : Before(b, a) => NoneOf(C[b], H)
    BY <2>4, Zenon
  <2>7. IsFirst(C[a], H, x)
    BY <2>2, <2>3, Zenon
  <2>8. IsFirst(Blocks(P, C), H, x)
    BY <1>1, <2>2, <2>6, <2>7, FirstOfBlocks, Zenon
  <2> QED
    BY <2>5, <2>8, Zenon
<1> QED
  BY <1>2, <1>3, Zenon

\* The first element of four sequences in a row.
LEMMA FirstOfFour ==
  ASSUME NEW S, NEW s \in Seq(S), NEW t \in Seq(S), NEW u \in Seq(S), NEW v \in Seq(S),
         NEW H
  PROVE  LET w == s \o t \o u \o v
         IN  /\ w \in Seq(S)
             /\ NoneOf(s, H) /\ NoneOf(t, H) /\ NoneOf(u, H) /\ NoneOf(v, H)
                  => NoneOf(w, H)
             /\ \A x : IsFirst(s, H, x) => IsFirst(w, H, x)
             /\ \A x : NoneOf(s, H) /\ IsFirst(t, H, x) => IsFirst(w, H, x)
             /\ \A x : NoneOf(s, H) /\ NoneOf(t, H) /\ IsFirst(u, H, x)
                         => IsFirst(w, H, x)
             /\ \A x : NoneOf(s, H) /\ NoneOf(t, H) /\ NoneOf(u, H) /\ IsFirst(v, H, x)
                         => IsFirst(w, H, x)
<1>1. PICK a \in Seq(S) : a = s \o t
  <2>1. s \o t \in Seq(S)
    OBVIOUS
  <2> QED
    BY <2>1, Zenon
<1>2. PICK b \in Seq(S) : b = a \o u
  <2>1. a \o u \in Seq(S)
    OBVIOUS
  <2> QED
    BY <2>1, Zenon
<1>3. PICK c \in Seq(S) : c = b \o v
  <2>1. b \o v \in Seq(S)
    OBVIOUS
  <2> QED
    BY <2>1, Zenon
<1>4. /\ NoneOf(s, H) /\ NoneOf(t, H) => NoneOf(a, H)
      /\ \A x : IsFirst(s, H, x) => IsFirst(a, H, x)
      /\ \A x : NoneOf(s, H) /\ IsFirst(t, H, x) => IsFirst(a, H, x)
  BY <1>1, FirstOfTwo, Zenon
<1>5. /\ NoneOf(a, H) /\ NoneOf(u, H) => NoneOf(b, H)
      /\ \A x : IsFirst(a, H, x) => IsFirst(b, H, x)
      /\ \A x : NoneOf(a, H) /\ IsFirst(u, H, x) => IsFirst(b, H, x)
  BY <1>2, FirstOfTwo, Zenon
<1>6. /\ NoneOf(b, H) /\ NoneOf(v, H) => NoneOf(c, H)
      /\ \A x : IsFirst(b, H, x) => IsFirst(c, H, x)
      /\ \A x : NoneOf(b, H) /\ IsFirst(v, H, x) => IsFirst(c, H, x)
  BY <1>3, FirstOfTwo, Zenon
<1>7. s \o t \o u \o v = c
  BY <1>1, <1>2, <1>3, Zenon
<1> QED
  BY <1>4, <1>5, <1>6, <1>7, Zenon

\* The rules of these objects' policies are slices.
HasRules(O) == \A o \in O : o.policy.rules \in Seq(Range(o.policy.rules))

\* Every rule that the objects contribute to an aggregate.
Contributed(O) == UNION {Range(FoldedRules(o)) \cup Range(CatchAlls(o)) : o \in O}

\* What the loops of Aggregate append for each object.
FoldedOf(O) == [o \in O |-> FoldedRules(o)]
CatchAllsOf(O) == [o \in O |-> CatchAlls(o)]

\* The loops append slices of rules.
LEMMA PieceTypes ==
  ASSUME NEW O, HasRules(O), NEW S, Contributed(O) \subseteq S
  PROVE  FoldedOf(O) \in [O -> Seq(S)] /\ CatchAllsOf(O) \in [O -> Seq(S)]
<1>1. ASSUME NEW o \in O PROVE FoldedRules(o) \in Seq(S)
  <2> DEFINE g == FoldedRules(o)
  <2>1. PICK n \in Nat : n = Len(o.policy.rules)
    BY DEF HasRules
  <2>2. DOMAIN g = 1..n /\ g = [i \in 1..n |-> g[i]]
    BY <2>1, Zenon DEF FoldedRules
  <2>3. \A i \in 1..n : g[i] \in S
    BY <2>2 DEF Contributed, Range
  <2> HIDE DEF g
  <2>4. g \in Seq(S)
    BY <2>2, <2>3
  <2> QED
    BY <2>4, Zenon DEF g
<1>2. ASSUME NEW o \in O PROVE CatchAlls(o) \in Seq(S)
  <2>1. PICK c : c = SubjectCatchAll(o.policy.podSelector, o.namespace)
    BY Zenon
  <2>2. CASE CatchAlls(o) = <<c>>
    <3>1. DOMAIN <<c>> = 1..1 /\ <<c>>[1] = c
      OBVIOUS
    <3>2. c \in Range(CatchAlls(o))
      BY <2>2, <3>1 DEF Range
    <3> QED
      BY <2>2, <3>2 DEF Contributed
  <2>3. CASE CatchAlls(o) = <<>>
    BY <2>3
  <2> QED
    BY <2>1, <2>2, <2>3, Zenon DEF CatchAlls
<1> QED
  BY <1>1, <1>2, Zenon DEF FoldedOf, CatchAllsOf

\* The rules of an aggregate: cluster and tenant rules, then the catch-alls.
LEMMA AggregateRules ==
  ASSUME NEW C, NEW N, Named(C), Named(N)
  PROVE  Aggregate(C, N).rules =
           Blocks(C, FoldedOf(C)) \o Blocks(N, FoldedOf(N))
             \o Blocks(C, CatchAllsOf(C)) \o Blocks(N, CatchAllsOf(N))
<1>1. ASSUME NEW O, Named(O)
      PROVE  /\ Appended([i \in 1..Len(Sorted(O)) |-> FoldedRules(Sorted(O)[i])])
                  = Blocks(O, FoldedOf(O))
             /\ Appended([i \in 1..Len(Sorted(O)) |-> CatchAlls(Sorted(O)[i])])
                  = Blocks(O, CatchAllsOf(O))
  <2>1. PICK n \in Nat : n = Cardinality(O)
    BY <1>1, SortedIs, Zenon
  <2>2. PICK s \in [1..n -> O] : s = Sorted(O)
    BY <1>1, <2>1, SortedIs, Zenon DEF Lists
  <2>3. Len(s) = n
    OBVIOUS
  <2>4. [i \in 1..Len(s) |-> FoldedRules(s[i])] = [i \in 1..Len(s) |-> FoldedOf(O)[s[i]]]
    BY <2>3, Zenon DEF FoldedOf
  <2>5. [i \in 1..Len(s) |-> CatchAlls(s[i])] = [i \in 1..Len(s) |-> CatchAllsOf(O)[s[i]]]
    BY <2>3, Zenon DEF CatchAllsOf
  <2> QED
    BY <2>2, <2>4, <2>5, Zenon DEF Blocks
<1>2. Appended([i \in 1..Len(Sorted(C)) |-> FoldedRules(Sorted(C)[i])]) = Blocks(C, FoldedOf(C))
  BY <1>1, Zenon
<1>3. Appended([i \in 1..Len(Sorted(N)) |-> FoldedRules(Sorted(N)[i])]) = Blocks(N, FoldedOf(N))
  BY <1>1, Zenon
<1>4. Appended([i \in 1..Len(Sorted(C)) |-> CatchAlls(Sorted(C)[i])]) = Blocks(C, CatchAllsOf(C))
  BY <1>1, Zenon
<1>5. Appended([i \in 1..Len(Sorted(N)) |-> CatchAlls(Sorted(N)[i])]) = Blocks(N, CatchAllsOf(N))
  BY <1>1, Zenon
<1> QED
  BY <1>2, <1>3, <1>4, <1>5, Zenon DEF Aggregate

\* Where the first rule of an aggregate in H comes from.
LEMMA AggregateFirst ==
  ASSUME NEW C, NEW N, Named(C), Named(N), HasRules(C), HasRules(N), NEW H,
         NEW S, Contributed(C) \subseteq S, Contributed(N) \subseteq S
  PROVE  LET rules == Aggregate(C, N).rules
             NoRule(O) == \A o \in O : NoneOf(FoldedRules(o), H)
         IN  /\ rules \in Seq(S)
             /\ \A o \in C : \A x :
                  /\ IsFirst(FoldedRules(o), H, x)
                  /\ \A b \in C : Before(b, o) => NoneOf(FoldedRules(b), H)
                  => IsFirst(rules, H, x)
             /\ NoRule(C) => \A o \in N : \A x :
                  /\ IsFirst(FoldedRules(o), H, x)
                  /\ \A b \in N : Before(b, o) => NoneOf(FoldedRules(b), H)
                  => IsFirst(rules, H, x)
             /\ NoRule(C) /\ NoRule(N) =>
                  \/ /\ \A o \in C \cup N : NoneOf(CatchAlls(o), H)
                     /\ NoneOf(rules, H)
                  \/ \E o \in C \cup N : \E x :
                       IsFirst(CatchAlls(o), H, x) /\ IsFirst(rules, H, x)
<1> DEFINE CF == Blocks(C, FoldedOf(C))
           NF == Blocks(N, FoldedOf(N))
           CD == Blocks(C, CatchAllsOf(C))
           ND == Blocks(N, CatchAllsOf(N))
           rules == Aggregate(C, N).rules
           NoRule(O) == \A o \in O : NoneOf(FoldedRules(o), H)
<1>1. rules = CF \o NF \o CD \o ND
  BY AggregateRules, Zenon
<1>2. /\ FoldedOf(C) \in [C -> Seq(S)] /\ CatchAllsOf(C) \in [C -> Seq(S)]
      /\ FoldedOf(N) \in [N -> Seq(S)] /\ CatchAllsOf(N) \in [N -> Seq(S)]
  BY PieceTypes, Zenon
<1>3. ASSUME NEW O, Named(O), FoldedOf(O) \in [O -> Seq(S)], CatchAllsOf(O) \in [O -> Seq(S)]
      PROVE  /\ Blocks(O, FoldedOf(O)) \in Seq(S)
             /\ Blocks(O, CatchAllsOf(O)) \in Seq(S)
             /\ NoRule(O) => NoneOf(Blocks(O, FoldedOf(O)), H)
             /\ \A o \in O : \A x :
                  /\ IsFirst(FoldedRules(o), H, x)
                  /\ \A b \in O : Before(b, o) => NoneOf(FoldedRules(b), H)
                  => IsFirst(Blocks(O, FoldedOf(O)), H, x)
             /\ \/ /\ \A o \in O : NoneOf(CatchAlls(o), H)
                   /\ NoneOf(Blocks(O, CatchAllsOf(O)), H)
                \/ \E o \in O : \E x :
                     IsFirst(CatchAlls(o), H, x) /\ IsFirst(Blocks(O, CatchAllsOf(O)), H, x)
  <2>1. \A o \in O : FoldedOf(O)[o] = FoldedRules(o) /\ CatchAllsOf(O)[o] = CatchAlls(o)
    BY Zenon DEF FoldedOf, CatchAllsOf
  <2>2. /\ Blocks(O, FoldedOf(O)) \in Seq(S)
        /\ NoRule(O) => NoneOf(Blocks(O, FoldedOf(O)), H)
        /\ \A o \in O : \A x :
             /\ IsFirst(FoldedRules(o), H, x)
             /\ \A b \in O : Before(b, o) => NoneOf(FoldedRules(b), H)
             => IsFirst(Blocks(O, FoldedOf(O)), H, x)
    <3>1. PICK F \in [O -> Seq(S)] : F = FoldedOf(O)
      BY <1>3, Zenon
    <3>2. /\ Blocks(O, F) \in Seq(S)
          /\ (\A o \in O : NoneOf(F[o], H)) => NoneOf(Blocks(O, F), H)
          /\ \A o \in O : \A x :
               IsFirst(F[o], H, x) /\ (\A b \in O : Before(b, o) => NoneOf(F[b], H))
                 => IsFirst(Blocks(O, F), H, x)
      BY <1>3, FirstOfBlocks, Zenon
    <3>3. \A o \in O : F[o] = FoldedRules(o)
      BY <2>1, <3>1, Zenon
    <3> QED
      BY <3>1, <3>2, <3>3, Zenon
  <2>3. /\ Blocks(O, CatchAllsOf(O)) \in Seq(S)
        /\ (\A o \in O : NoneOf(CatchAlls(o), H)) => NoneOf(Blocks(O, CatchAllsOf(O)), H)
        /\ \A o \in O : \A x :
             /\ IsFirst(CatchAlls(o), H, x)
             /\ \A b \in O : Before(b, o) => NoneOf(CatchAlls(b), H)
             => IsFirst(Blocks(O, CatchAllsOf(O)), H, x)
    <3>1. PICK F \in [O -> Seq(S)] : F = CatchAllsOf(O)
      BY <1>3, Zenon
    <3>2. /\ Blocks(O, F) \in Seq(S)
          /\ (\A o \in O : NoneOf(F[o], H)) => NoneOf(Blocks(O, F), H)
          /\ \A o \in O : \A x :
               IsFirst(F[o], H, x) /\ (\A b \in O : Before(b, o) => NoneOf(F[b], H))
                 => IsFirst(Blocks(O, F), H, x)
      BY <1>3, FirstOfBlocks, Zenon
    <3>3. \A o \in O : F[o] = CatchAlls(o)
      BY <2>1, <3>1, Zenon
    <3> QED
      BY <3>1, <3>2, <3>3, Zenon
  <2> DEFINE Q == {o \in O : ~NoneOf(CatchAlls(o), H)}
  <2>4. CASE Q = {}
    BY <2>2, <2>3, <2>4, Zenon
  <2>5. CASE Q # {}
    <3>1. Q \in SUBSET O
      BY Zenon
    <3>2. PICK a \in Q : \A b \in Q : b = a \/ Before(a, b)
      <4> HIDE DEF Q
      <4> QED
        BY <1>3, <2>5, <3>1, LeastObject, Zenon
    <3>3. CatchAlls(a) \in Seq(S) /\ ~NoneOf(CatchAlls(a), H)
      BY <1>3, <2>1, Zenon
    <3>4. PICK x : IsFirst(CatchAlls(a), H, x)
      BY <3>3, FirstOrNone, Zenon
    <3>5. ASSUME NEW b \in O, Before(b, a) PROVE NoneOf(CatchAlls(b), H)
      <4>1. ~Before(a, b) /\ b # a
        BY <1>3, <3>5 DEF Named, Before
      <4> QED
        BY <3>2, <4>1, Zenon
    <3>6. IsFirst(Blocks(O, CatchAllsOf(O)), H, x)
      BY <2>3, <3>4, <3>5, Zenon
    <3> QED
      BY <2>2, <2>3, <3>4, <3>6, Zenon
  <2> QED
    BY <2>4, <2>5, Zenon
<1> DEFINE First(s) == \A x : IsFirst(s, H, x) => IsFirst(rules, H, x)
<1>4. CF \in Seq(S) /\ NF \in Seq(S) /\ CD \in Seq(S) /\ ND \in Seq(S)
  BY <1>2, <1>3, Zenon
<1>5. /\ rules \in Seq(S)
      /\ NoneOf(CF, H) /\ NoneOf(NF, H) /\ NoneOf(CD, H) /\ NoneOf(ND, H) => NoneOf(rules, H)
      /\ First(CF)
      /\ NoneOf(CF, H) => First(NF)
      /\ NoneOf(CF, H) /\ NoneOf(NF, H) => First(CD)
      /\ NoneOf(CF, H) /\ NoneOf(NF, H) /\ NoneOf(CD, H) => First(ND)
  <2> HIDE DEF CF, NF, CD, ND, rules
  <2> QED
    BY <1>1, <1>4, FirstOfFour, Zenon
<1>6. \A o \in C : \A x :
        /\ IsFirst(FoldedRules(o), H, x)
        /\ \A b \in C : Before(b, o) => NoneOf(FoldedRules(b), H)
        => IsFirst(rules, H, x)
  <2> HIDE DEF rules
  <2> QED
    BY <1>2, <1>3, <1>5, Zenon
<1>7. NoRule(C) => \A o \in N : \A x :
        /\ IsFirst(FoldedRules(o), H, x)
        /\ \A b \in N : Before(b, o) => NoneOf(FoldedRules(b), H)
        => IsFirst(rules, H, x)
  <2> HIDE DEF rules
  <2>1. NoRule(C) => First(NF)
    BY <1>2, <1>3, <1>5, Zenon
  <2> QED
    BY <1>2, <1>3, <2>1, Zenon
<1>8. ASSUME NoRule(C), NoRule(N)
      PROVE  \/ /\ \A o \in C \cup N : NoneOf(CatchAlls(o), H)
                /\ NoneOf(rules, H)
             \/ \E o \in C \cup N : \E x :
                  IsFirst(CatchAlls(o), H, x) /\ IsFirst(rules, H, x)
  <2>1. NoneOf(CF, H) /\ NoneOf(NF, H)
    BY <1>2, <1>3, <1>8, Zenon
  <2>2. \/ (\A o \in C : NoneOf(CatchAlls(o), H)) /\ NoneOf(CD, H)
        \/ \E o \in C : \E x : IsFirst(CatchAlls(o), H, x) /\ IsFirst(CD, H, x)
    BY <1>2, <1>3, Zenon
  <2>3. \/ (\A o \in N : NoneOf(CatchAlls(o), H)) /\ NoneOf(ND, H)
        \/ \E o \in N : \E x : IsFirst(CatchAlls(o), H, x) /\ IsFirst(ND, H, x)
    BY <1>2, <1>3, Zenon
  <2> HIDE DEF CF, NF, CD, ND, rules
  <2> QED
    BY <1>5, <2>1, <2>2, <2>3, Zenon
<1> QED
  BY <1>5, <1>6, <1>7, <1>8, Zenon

-----------------------------------------------------------------------------
(* Validity, and what the engine makes of a list of rules.                 *)

\* A folded rule is as valid as the rule and the selector folded into it.
LEMMA FoldIsValid ==
  ASSUME NEW r, RuleValid(r), NEW s, \A e \in s.exprs : RequirementValid(e), NEW ns
  PROVE  RuleValid(FoldRule(r, s, ns))
<1>1. /\ FoldRule(r, s, ns).action = r.action
      /\ FoldRule(r, s, ns).mutations = r.mutations
      /\ FoldRule(r, s, ns).cidrs = r.cidrs
      /\ FoldRule(r, s, ns).pod.exprs = r.pod.exprs \cup s.exprs
  BY Zenon DEF FoldRule, WithPod, FoldInto, InNamespace
<1> QED
  BY <1>1, Zenon DEF RuleValid

\* The catch-all of a selector with valid requirements is valid.
LEMMA CatchAllIsValid ==
  ASSUME NEW s, \A e \in s.exprs : RequirementValid(e), NEW ns
  PROVE  RuleValid(SubjectCatchAll(s, ns))
<1>1. /\ SubjectCatchAll(s, ns).action = ActionDeny
      /\ SubjectCatchAll(s, ns).mutations = {}
      /\ SubjectCatchAll(s, ns).cidrs = {}
      /\ SubjectCatchAll(s, ns).pod.exprs = s.exprs
  BY Zenon DEF SubjectCatchAll, WithPod, FoldInto, InNamespace, DenyAll, BlankRule, AnyPod
<1> QED
  BY <1>1, Zenon DEF RuleValid

\* Valid policies contribute valid rules.
LEMMA ContributedAreValid ==
  ASSUME NEW O, HasRules(O), \A o \in O : Valid(o.policy)
  PROVE  \A r \in Contributed(O) : RuleValid(r)
<1> SUFFICES ASSUME NEW o \in O, NEW r \in Range(FoldedRules(o)) \cup Range(CatchAlls(o))
             PROVE  RuleValid(r)
  BY Zenon DEF Contributed
<1>1. Valid(o.policy) /\ \A e \in o.policy.podSelector.exprs : RequirementValid(e)
  BY Zenon DEF Valid
<1>2. CASE r \in Range(FoldedRules(o))
  <2>1. PICK i \in 1..Len(o.policy.rules) :
          r = FoldRule(o.policy.rules[i], o.policy.podSelector, o.namespace)
    BY <1>2, Zenon DEF FoldedRules, Range
  <2>2. RuleValid(o.policy.rules[i])
    BY <1>1, Zenon DEF Valid
  <2> QED
    BY <1>1, <2>1, <2>2, FoldIsValid, Zenon
<1>3. CASE r \in Range(CatchAlls(o))
  <2>1. PICK c : c = SubjectCatchAll(o.policy.podSelector, o.namespace)
    BY Zenon
  <2>2. Range(<<c>>) = {c} /\ Range(<<>>) = {}
    BY DEF Range
  <2>3. CatchAlls(o) = <<c>> \/ CatchAlls(o) = <<>>
    BY <2>1, Zenon DEF CatchAlls
  <2>4. r = c
    BY <1>3, <2>2, <2>3, Zenon
  <2> QED
    BY <1>1, <2>1, <2>4, CatchAllIsValid, Zenon
<1> QED
  BY <1>2, <1>3, Zenon

\* The aggregate of valid policies is valid.
LEMMA AggregateOfValid ==
  ASSUME NEW C, NEW N, Named(C), Named(N), HasRules(C), HasRules(N),
         \A o \in C \cup N : Valid(o.policy)
  PROVE  Valid(Aggregate(C, N))
<1> DEFINE S == Contributed(C) \cup Contributed(N)
           p == Aggregate(C, N)
<1>1. p.rules \in Seq(S)
  <2>1. PICK T : T = S
    BY Zenon
  <2>2. Contributed(C) \subseteq T /\ Contributed(N) \subseteq T
    BY <2>1, Zenon
  <2>3. p.rules \in Seq(T)
    BY <2>2, AggregateFirst, Zenon
  <2> QED
    BY <2>1, <2>3, Zenon
<1>2. \A r \in S : RuleValid(r)
  <2>1. \A r \in Contributed(C) : RuleValid(r)
    BY ContributedAreValid, Zenon
  <2>2. \A r \in Contributed(N) : RuleValid(r)
    BY ContributedAreValid, Zenon
  <2> QED
    BY <2>1, <2>2, Zenon
<1>3. p.podSelector.exprs = {} /\ p.defaultAction \in {PostureAllow, PostureDeny}
  BY Zenon DEF Aggregate, EmptySelector
<1> HIDE DEF S, p
<1>4. \A i \in 1..Len(p.rules) : RuleValid(p.rules[i])
  BY <1>1, <1>2
<1> QED
  BY <1>3, <1>4, Zenon DEF p, Valid

\* Among these rules, H holds those that match the flow.
Matching(S, H, f) == \A r \in S : r \in H <=> RuleMatches(r, f)

\* The engine gives a flow the action of the first matching rule.
LEMMA EvaluateIs ==
  ASSUME NEW p, NEW S, p.rules \in Seq(S), NEW f, NEW H, Matching(S, H, f)
  PROVE  /\ NoneOf(p.rules, H) => Evaluate(p, f) = EffectiveDefault(p)
         /\ \A x : IsFirst(p.rules, H, x) => Evaluate(p, f) = x.action
<1> DEFINE I == {i \in 1..Len(p.rules) : RuleMatches(p.rules[i], f)}
<1>1. I = {i \in 1..Len(p.rules) : p.rules[i] \in H} /\ Len(p.rules) \in Nat
  BY DEF Matching
<1>2. /\ I = {} => FirstOf(I) = 0
      /\ I # {} => FirstOf(I) \in I /\ \A j \in I : FirstOf(I) <= j
  <2>1. I \subseteq Nat \ {0}
    BY <1>1
  <2> HIDE DEF I
  <2> QED
    BY <2>1, FirstOfIs, Zenon
<1>3. Evaluate(p, f) =
        IF FirstOf(I) = 0 THEN EffectiveDefault(p) ELSE p.rules[FirstOf(I)].action
  BY Zenon DEF Evaluate, FirstMatch
<1> HIDE DEF I
<1>4. ASSUME NoneOf(p.rules, H) PROVE I = {}
  BY <1>1, <1>4, Zenon DEF NoneOf
<1>5. ASSUME NEW x, IsFirst(p.rules, H, x) PROVE FirstOf(I) # 0 /\ p.rules[FirstOf(I)] = x
  <2>1. PICK i \in 1..Len(p.rules) :
          p.rules[i] = x /\ x \in H /\ \A j \in 1..(i - 1) : p.rules[j] \notin H
    BY <1>5, Zenon DEF IsFirst
  <2>2. i \in I
    BY <1>1, <2>1, Zenon
  <2>3. PICK k \in Nat \ {0} : k = FirstOf(I) /\ k <= i /\ p.rules[k] \in H
    <3>1. FirstOf(I) \in I /\ FirstOf(I) <= i
      BY <1>2, <2>2, Zenon
    <3>2. FirstOf(I) \in 1..Len(p.rules) /\ p.rules[FirstOf(I)] \in H
      BY <1>1, <3>1, Zenon
    <3>3. FirstOf(I) \in Nat \ {0}
      BY <1>1, <3>2
    <3> QED
      BY <3>1, <3>2, <3>3, Zenon
  <2>4. ~(k \in 1..(i - 1))
    BY <2>1, <2>3, Zenon
  <2> QED
    BY <2>1, <2>3, <2>4
<1> QED
  BY <1>2, <1>3, <1>4, <1>5, Zenon

-----------------------------------------------------------------------------
(* What folding a selector and a namespace into a rule does to it.         *)

\* A rule may be folded into the namespace and under the selector.
CanFold(r, s, ns) ==
  /\ ns = 0 \/ r.pod.namespace = 0
  /\ \A k \in DOMAIN r.pod.labels \cap DOMAIN s.labels : r.pod.labels[k] = s.labels[k]

\* Folding a selector and a namespace into a rule restricts it to their pods.
LEMMA FoldMatches ==
  ASSUME NEW r, NEW s, NEW ns, CanFold(r, s, ns), NEW f
  PROVE  RuleMatches(FoldRule(r, s, ns), f) <=>
           /\ ns # 0 => ns = f.pod.namespace
           /\ MatchesLabels(s, f.pod.labels)
           /\ RuleMatches(r, f)
<1> DEFINE q == FoldRule(r, s, ns)
<1>1. /\ q.domains = r.domains /\ q.cidrs = r.cidrs /\ q.ports = r.ports
      /\ q.methods = r.methods /\ q.path = r.path
      /\ q.pod.namespace = (IF ns = 0 THEN r.pod.namespace ELSE ns)
      /\ q.pod.name = r.pod.name /\ q.pod.uid = r.pod.uid
      /\ q.pod.exprs = r.pod.exprs \cup s.exprs
      /\ q.pod.labels = [k \in DOMAIN s.labels \cup DOMAIN r.pod.labels |->
                           IF k \in DOMAIN s.labels THEN s.labels[k] ELSE r.pod.labels[k]]
  BY Zenon DEF FoldRule, WithPod, FoldInto, InNamespace
<1> HIDE DEF q
<1>2. MatchesLabels(q.pod, f.pod.labels) <=>
        MatchesLabels(s, f.pod.labels) /\ MatchesLabels(r.pod, f.pod.labels)
  <2> DEFINE L(k) == LabelOf(f.pod.labels, k)
  <2> HIDE DEF L
  <2>1. (\A k \in DOMAIN q.pod.labels : L(k) = q.pod.labels[k]) <=>
          /\ \A k \in DOMAIN s.labels : L(k) = s.labels[k]
          /\ \A k \in DOMAIN r.pod.labels : L(k) = r.pod.labels[k]
    BY <1>1 DEF CanFold
  <2>2. (\A e \in q.pod.exprs : RequirementMatches(e, f.pod.labels)) <=>
          /\ \A e \in s.exprs : RequirementMatches(e, f.pod.labels)
          /\ \A e \in r.pod.exprs : RequirementMatches(e, f.pod.labels)
    BY <1>1, Zenon
  <2> QED
    BY <2>1, <2>2, Zenon DEF MatchesLabels, L
<1>3. PodMatches(q.pod, f.pod) <=>
        /\ ns # 0 => ns = f.pod.namespace
        /\ MatchesLabels(s, f.pod.labels)
        /\ PodMatches(r.pod, f.pod)
  BY <1>1, <1>2, Zenon DEF PodMatches, CanFold
<1>4. CompiledDomains(q) = CompiledDomains(r)
  BY <1>1, Zenon DEF CompiledDomains
<1> QED
  BY <1>1, <1>3, <1>4, Zenon DEF RuleMatches, q

\* A catch-all matches the pods of its namespace and selector, and denies.
LEMMA CatchAllMatches ==
  ASSUME NEW s, NEW ns, NEW f, f.path \in Seq(Range(f.path))
  PROVE  /\ RuleMatches(SubjectCatchAll(s, ns), f) <=>
              (ns # 0 => ns = f.pod.namespace) /\ MatchesLabels(s, f.pod.labels)
         /\ SubjectCatchAll(s, ns).action = ActionDeny
<1> DEFINE q == SubjectCatchAll(s, ns)
<1>1. /\ q.domains = {} /\ q.cidrs = {} /\ q.ports = {} /\ q.action = ActionDeny
      /\ q.methods = {} /\ q.path = <<>>
      /\ q.pod.namespace = ns /\ q.pod.name = 0 /\ q.pod.uid = 0
      /\ q.pod.exprs = s.exprs
      /\ q.pod.labels = [k \in DOMAIN s.labels |-> s.labels[k]]
  BY Zenon DEF SubjectCatchAll, WithPod, FoldInto, InNamespace, DenyAll, BlankRule,
     AnyPod, NoLabels
<1> HIDE DEF q
<1>2. MatchesLabels(q.pod, f.pod.labels) <=> MatchesLabels(s, f.pod.labels)
  BY <1>1, Zenon DEF MatchesLabels
<1>3. PodMatches(q.pod, f.pod) <=>
        (ns # 0 => ns = f.pod.namespace) /\ MatchesLabels(s, f.pod.labels)
  BY <1>1, <1>2, Zenon DEF PodMatches
<1>4. CompiledDomains(q) = {}
  BY <1>1, Zenon DEF CompiledDomains
<1>5. HasPrefix(f.path, q.path)
  BY <1>1 DEF HasPrefix
<1> QED
  BY <1>1, <1>3, <1>4, <1>5, Zenon DEF RuleMatches, q

\* An object none of whose rules is in H can be left out of an aggregate.
LEMMA AggregateWithout ==
  ASSUME NEW C, NEW N, Named(C), Named(N), HasRules(C), HasRules(N), NEW H,
         NEW M \in SUBSET N,
         \A o \in N \ M : NoneOf(FoldedRules(o), H) /\ NoneOf(CatchAlls(o), H)
  PROVE  LET p == Aggregate(C, N)
             q == Aggregate(C, M)
         IN  /\ p.rules \in Seq(Contributed(C) \cup Contributed(N))
             /\ q.rules \in Seq(Contributed(C) \cup Contributed(N))
             /\ q.defaultAction = p.defaultAction
             /\ \/ NoneOf(p.rules, H) /\ NoneOf(q.rules, H)
                \/ \E x : IsFirst(p.rules, H, x) /\ IsFirst(q.rules, H, x)
<1> DEFINE p == Aggregate(C, N)
           q == Aggregate(C, M)
<1>1. PICK S : S = Contributed(C) \cup Contributed(N)
  BY Zenon
<1>2. Named(M) /\ HasRules(M)
  BY FS_Subset, Zenon DEF Named, HasRules
<1>3. Contributed(C) \subseteq S /\ Contributed(N) \subseteq S /\ Contributed(M) \subseteq S
  BY <1>1, Zenon DEF Contributed
<1>4. /\ FoldedOf(C) \in [C -> Seq(S)] /\ CatchAllsOf(C) \in [C -> Seq(S)]
      /\ FoldedOf(N) \in [N -> Seq(S)] /\ CatchAllsOf(N) \in [N -> Seq(S)]
      /\ FoldedOf(M) \in [M -> Seq(S)] /\ CatchAllsOf(M) \in [M -> Seq(S)]
  BY <1>2, <1>3, PieceTypes, Zenon
<1> DEFINE Same(s, t) == \/ NoneOf(s, H) /\ NoneOf(t, H)
                         \/ \E x : IsFirst(s, H, x) /\ IsFirst(t, H, x)
<1>5. Same(Blocks(N, FoldedOf(N)), Blocks(M, FoldedOf(M)))
  <2>1. \A o \in M : FoldedOf(M)[o] = FoldedOf(N)[o]
    BY Zenon DEF FoldedOf
  <2>2. \A o \in N \ M : NoneOf(FoldedOf(N)[o], H)
    BY Zenon DEF FoldedOf
  <2>3. PICK F \in [N -> Seq(S)], G \in [M -> Seq(S)] : F = FoldedOf(N) /\ G = FoldedOf(M)
    BY <1>4, Zenon
  <2>4. (\A o \in M : G[o] = F[o]) /\ \A o \in N \ M : NoneOf(F[o], H)
    BY <2>1, <2>2, <2>3, Zenon
  <2>5. Same(Blocks(N, F), Blocks(M, G))
    BY <2>4, BlocksWithout, Zenon
  <2> QED
    BY <2>3, <2>5, Zenon
<1>6. Same(Blocks(N, CatchAllsOf(N)), Blocks(M, CatchAllsOf(M)))
  <2>1. \A o \in M : CatchAllsOf(M)[o] = CatchAllsOf(N)[o]
    BY Zenon DEF CatchAllsOf
  <2>2. \A o \in N \ M : NoneOf(CatchAllsOf(N)[o], H)
    BY Zenon DEF CatchAllsOf
  <2>3. PICK F \in [N -> Seq(S)], G \in [M -> Seq(S)] : F = CatchAllsOf(N) /\ G = CatchAllsOf(M)
    BY <1>4, Zenon
  <2>4. (\A o \in M : G[o] = F[o]) /\ \A o \in N \ M : NoneOf(F[o], H)
    BY <2>1, <2>2, <2>3, Zenon
  <2>5. Same(Blocks(N, F), Blocks(M, G))
    BY <2>4, BlocksWithout, Zenon
  <2> QED
    BY <2>3, <2>5, Zenon
<1>7. PICK a \in Seq(S), b \in Seq(S), c \in Seq(S), d \in Seq(S), e \in Seq(S), g \in Seq(S) :
        /\ a = Blocks(C, FoldedOf(C)) /\ c = Blocks(C, CatchAllsOf(C))
        /\ b = Blocks(N, FoldedOf(N)) /\ d = Blocks(N, CatchAllsOf(N))
        /\ e = Blocks(M, FoldedOf(M)) /\ g = Blocks(M, CatchAllsOf(M))
  <2>1. \A O : \A B \in [O -> Seq(S)] : Named(O) => Blocks(O, B) \in Seq(S)
    BY FirstOfBlocks, Zenon
  <2> QED
    BY <1>2, <1>4, <2>1, Zenon
<1> DEFINE u == p.rules
           v == q.rules
<1>8. u = a \o b \o c \o d /\ v = a \o e \o c \o g
  BY <1>2, <1>7, AggregateRules, Zenon
<1>9. q.defaultAction = p.defaultAction
  BY Zenon DEF Aggregate
<1>10. (NoneOf(a, H) \/ \E x : IsFirst(a, H, x)) /\ (NoneOf(c, H) \/ \E x : IsFirst(c, H, x))
  BY FirstOrNone, Zenon
<1> HIDE DEF p, q, u, v
<1>11. /\ u \in Seq(S)
       /\ NoneOf(a, H) /\ NoneOf(b, H) /\ NoneOf(c, H) /\ NoneOf(d, H) => NoneOf(u, H)
       /\ \A x : IsFirst(a, H, x) => IsFirst(u, H, x)
       /\ \A x : NoneOf(a, H) /\ IsFirst(b, H, x) => IsFirst(u, H, x)
       /\ \A x : NoneOf(a, H) /\ NoneOf(b, H) /\ IsFirst(c, H, x) => IsFirst(u, H, x)
       /\ \A x : NoneOf(a, H) /\ NoneOf(b, H) /\ NoneOf(c, H) /\ IsFirst(d, H, x)
                   => IsFirst(u, H, x)
  BY <1>8, FirstOfFour, Zenon
<1>12. /\ v \in Seq(S)
       /\ NoneOf(a, H) /\ NoneOf(e, H) /\ NoneOf(c, H) /\ NoneOf(g, H) => NoneOf(v, H)
       /\ \A x : IsFirst(a, H, x) => IsFirst(v, H, x)
       /\ \A x : NoneOf(a, H) /\ IsFirst(e, H, x) => IsFirst(v, H, x)
       /\ \A x : NoneOf(a, H) /\ NoneOf(e, H) /\ IsFirst(c, H, x) => IsFirst(v, H, x)
       /\ \A x : NoneOf(a, H) /\ NoneOf(e, H) /\ NoneOf(c, H) /\ IsFirst(g, H, x)
                   => IsFirst(v, H, x)
  BY <1>8, FirstOfFour, Zenon
<1>13. Same(b, e) /\ Same(d, g)
  BY <1>5, <1>6, <1>7, Zenon
<1>14. Same(u, v)
  BY <1>10, <1>11, <1>12, <1>13, Zenon
<1> QED
  BY <1>1, <1>9, <1>11, <1>12, <1>14, Zenon DEF p, q, u, v
=============================================================================
