---------------------------- MODULE KernelProofs ----------------------------
(***************************************************************************)
(* Lemmas about what a policy compiles to, for any rules, pods, ports and  *)
(* any width of an address: which key the kernel's lookup finds, which     *)
(* packets a key covers, and that the verdict it finds is that of the      *)
(* first matching rule.                                                    *)
(***************************************************************************)
EXTENDS NodePolicy, AggregationProofs

-----------------------------------------------------------------------------
(* The kernel's lookup: keys in the order in which it tries them.          *)

\* A key of one of the three maps.
IsKey(k) ==
  \/ \E c, a, pt : k = VKey(c, a, pt)
  \/ \E c, a : \E n \in 0..AddrBits : k = CKey(c, a, n)
  \/ \E c : k = DKey(c)

\* The rank of each kind of key.
LEMMA RankOf ==
  ASSUME NEW c
  PROVE  /\ Rank(DKey(c)) = (IF c = 0 THEN 0 ELSE 1)
         /\ \A n \in 0..AddrBits : \A a :
              Rank(CKey(c, a, n)) = (IF c = 0 THEN 2 + n ELSE 3 + AddrBits + n)
         /\ \A pt : \A a :
              Rank(VKey(c, a, pt)) =
                2 * AddrBits + 4 + (IF c = 0 THEN 0 ELSE 2) + (IF pt = 0 THEN 0 ELSE 1)
<1>1. Rank(DKey(c)) = (IF c = 0 THEN 0 ELSE 1)
  <2>1. DKey(c).map = "default_action" /\ DKey(c).cgroup_id = c
    BY Zenon DEF DKey
  <2> QED
    BY <2>1, Zenon DEF Rank
<1>2. ASSUME NEW n \in 0..AddrBits, NEW a
      PROVE  Rank(CKey(c, a, n)) = (IF c = 0 THEN 2 + n ELSE 3 + AddrBits + n)
  <2>1. PICK k : k = CKey(c, a, n)
    BY Zenon
  <2>2. k.map = "cidr_verdicts" /\ k.cgroup_id = c /\ k.prefixlen = n
    BY <2>1, Zenon DEF CKey
  <2>3. Rank(k) = 2 + (IF c = 0 THEN 0 ELSE 1) * (AddrBits + 1) + n
    BY <2>2, Zenon DEF Rank
  <2>4. 0 * (AddrBits + 1) = 0 /\ 1 * (AddrBits + 1) = AddrBits + 1
    BY AddrBitsAssumption
  <2>5. AddrBits \in Nat /\ n \in Nat
    BY AddrBitsAssumption
  <2> QED
    BY <2>1, <2>3, <2>4, <2>5
<1>3. ASSUME NEW pt, NEW a
      PROVE  Rank(VKey(c, a, pt)) =
               2 * AddrBits + 4 + (IF c = 0 THEN 0 ELSE 2) + (IF pt = 0 THEN 0 ELSE 1)
  <2>1. PICK k : k = VKey(c, a, pt)
    BY Zenon
  <2>2. k.map = "verdicts" /\ k.cgroup_id = c /\ k.dport = pt
    BY <2>1, Zenon DEF VKey
  <2>3. Rank(k) = 2 + 2 * (AddrBits + 1) + 2 * (IF c = 0 THEN 0 ELSE 1)
                    + (IF pt = 0 THEN 0 ELSE 1)
    BY <2>2, Zenon DEF Rank
  <2> QED
    BY <2>1, <2>3, AddrBitsAssumption
<1> QED
  BY <1>1, <1>2, <1>3, Zenon

\* A key that covers a packet is one of few.
LEMMA CoveringKeys ==
  ASSUME NEW k, IsKey(k), NEW cg, NEW ip, NEW port, Covers(k, cg, ip, port)
  PROVE  \E c \in {0, cg} :
           \/ \E pt \in {0, port} : k = VKey(c, ip, pt)
           \/ \E n \in 0..AddrBits : k = CKey(c, Masked(ip, n), n)
           \/ k = DKey(c)
<1>1. ASSUME NEW c, NEW a, NEW pt, k = VKey(c, a, pt)
      PROVE  c \in {0, cg} /\ pt \in {0, port} /\ k = VKey(c, ip, pt)
  BY <1>1, Zenon DEF Covers, VKey
<1>2. ASSUME NEW c, NEW a, NEW n \in 0..AddrBits, k = CKey(c, a, n)
      PROVE  c \in {0, cg} /\ k = CKey(c, Masked(ip, n), n)
  BY <1>2, Zenon DEF Covers, CKey
<1>3. ASSUME NEW c, k = DKey(c) PROVE c \in {0, cg}
  BY <1>3, Zenon DEF Covers, DKey
<1> QED
  BY <1>1, <1>2, <1>3, Zenon DEF IsKey

\* No two keys that cover a packet have the same rank.
LEMMA RankTellsApart ==
  ASSUME NEW k, IsKey(k), NEW l, IsKey(l), NEW cg, cg # 0, NEW ip, NEW port,
         Covers(k, cg, ip, port), Covers(l, cg, ip, port), Rank(k) = Rank(l)
  PROVE  k = l
<1>1. PICK c \in {0, cg} :
        \/ \E pt \in {0, port} : k = VKey(c, ip, pt)
        \/ \E n \in 0..AddrBits : k = CKey(c, Masked(ip, n), n)
        \/ k = DKey(c)
  BY CoveringKeys
<1>2. PICK d \in {0, cg} :
        \/ \E pt \in {0, port} : l = VKey(d, ip, pt)
        \/ \E n \in 0..AddrBits : l = CKey(d, Masked(ip, n), n)
        \/ l = DKey(d)
  BY CoveringKeys
<1>3. ASSUME NEW x
      PROVE  /\ Rank(DKey(x)) = (IF x = 0 THEN 0 ELSE 1)
             /\ \A n \in 0..AddrBits : \A a :
                  Rank(CKey(x, a, n)) = (IF x = 0 THEN 2 + n ELSE 3 + AddrBits + n)
             /\ \A pt : \A a :
                  Rank(VKey(x, a, pt)) =
                    2 * AddrBits + 4 + (IF x = 0 THEN 0 ELSE 2) + (IF pt = 0 THEN 0 ELSE 1)
  BY RankOf, Zenon
<1>4. ASSUME NEW x \in {c, d}
      PROVE  /\ Rank(DKey(x)) \in 0..1
             /\ \A n \in 0..AddrBits : \A a : Rank(CKey(x, a, n)) \in 2..(2 * AddrBits + 3)
             /\ \A pt : \A a : /\ Rank(VKey(x, a, pt)) >= 2 * AddrBits + 4
                               /\ Rank(VKey(x, a, pt)) \in Nat
  <2>1. Rank(DKey(x)) \in 0..1
    BY <1>3
  <2>2. ASSUME NEW n \in 0..AddrBits, NEW a PROVE Rank(CKey(x, a, n)) \in 2..(2 * AddrBits + 3)
    <3>1. Rank(CKey(x, a, n)) = (IF x = 0 THEN 2 + n ELSE 3 + AddrBits + n)
      BY <1>3, Zenon
    <3> QED
      BY <3>1, AddrBitsAssumption
  <2>3. ASSUME NEW pt, NEW a
        PROVE  Rank(VKey(x, a, pt)) >= 2 * AddrBits + 4 /\ Rank(VKey(x, a, pt)) \in Nat
    <3>1. Rank(VKey(x, a, pt)) =
            2 * AddrBits + 4 + (IF x = 0 THEN 0 ELSE 2) + (IF pt = 0 THEN 0 ELSE 1)
      BY <1>3, ZenonT(30)
    <3> QED
      BY <3>1, AddrBitsAssumption
  <2> QED
    BY <2>1, <2>2, <2>3, Zenon
<1>5. CASE k = DKey(c) /\ l = DKey(d)
  BY <1>3, <1>5
<1>6. ASSUME NEW n \in 0..AddrBits, NEW o \in 0..AddrBits,
             k = CKey(c, Masked(ip, n), n), l = CKey(d, Masked(ip, o), o)
      PROVE  k = l
  <2>1. (IF c = 0 THEN 2 + n ELSE 3 + AddrBits + n)
          = (IF d = 0 THEN 2 + o ELSE 3 + AddrBits + o)
    <3>1. Rank(CKey(c, Masked(ip, n), n)) = (IF c = 0 THEN 2 + n ELSE 3 + AddrBits + n)
      BY <1>3, Zenon
    <3>2. Rank(CKey(d, Masked(ip, o), o)) = (IF d = 0 THEN 2 + o ELSE 3 + AddrBits + o)
      BY <1>3, Zenon
    <3> QED
      BY <1>6, <3>1, <3>2, Zenon
  <2>2. c = d /\ n = o
    BY <2>1, AddrBitsAssumption
  <2> QED
    BY <1>6, <2>2, Zenon
<1>7. ASSUME NEW n \in {0, port}, NEW o \in {0, port},
             k = VKey(c, ip, n), l = VKey(d, ip, o)
      PROVE  k = l
  <2>1. 2 * AddrBits + 4 + (IF c = 0 THEN 0 ELSE 2) + (IF n = 0 THEN 0 ELSE 1)
          = 2 * AddrBits + 4 + (IF d = 0 THEN 0 ELSE 2) + (IF o = 0 THEN 0 ELSE 1)
    <3>1. Rank(VKey(c, ip, n)) =
            2 * AddrBits + 4 + (IF c = 0 THEN 0 ELSE 2) + (IF n = 0 THEN 0 ELSE 1)
      BY <1>3, ZenonT(30)
    <3>2. Rank(VKey(d, ip, o)) =
            2 * AddrBits + 4 + (IF d = 0 THEN 0 ELSE 2) + (IF o = 0 THEN 0 ELSE 1)
      BY <1>3, ZenonT(30)
    <3> QED
      BY <1>7, <3>1, <3>2, Zenon
  <2>2. c = d /\ n = o
    BY <2>1, AddrBitsAssumption
  <2> QED
    BY <1>7, <2>2, Zenon
<1>8. AddrBits \in Nat
  BY AddrBitsAssumption, Zenon
<1> QED
  BY <1>1, <1>2, <1>4, <1>5, <1>6, <1>7, <1>8

\* What an LPM-trie lookup can find.
TrieHits(m, cg, ip) ==
  {k \in DOMAIN m : k.map = "cidr_verdicts" /\ k.cgroup_id = cg
                      /\ k.daddr = Masked(ip, k.prefixlen)}

\* The lookup depends on that alone.
LEMMA LongestPrefixOf ==
  ASSUME NEW m, NEW cg, NEW ip
  PROVE  LongestPrefix(m, cg, ip) =
           IF TrieHits(m, cg, ip) = {} THEN NoKey
           ELSE CHOOSE k \in TrieHits(m, cg, ip) :
                  \A l \in TrieHits(m, cg, ip) : l.prefixlen <= k.prefixlen
BY DEF LongestPrefix, TrieHits

\* It finds the longest one.
LEMMA LongestPrefixIs ==
  ASSUME NEW m, \A k \in DOMAIN m : IsKey(k), NEW cg, NEW ip
  PROVE  /\ TrieHits(m, cg, ip) = {} => LongestPrefix(m, cg, ip) = NoKey
         /\ TrieHits(m, cg, ip) # {} =>
              \E n \in 0..AddrBits :
                /\ LongestPrefix(m, cg, ip) = CKey(cg, Masked(ip, n), n)
                /\ CKey(cg, Masked(ip, n), n) \in DOMAIN m
                /\ \A j \in 0..AddrBits : CKey(cg, Masked(ip, j), j) \in DOMAIN m => j <= n
<1> DEFINE hits == TrieHits(m, cg, ip)
<1>1. LongestPrefix(m, cg, ip) =
        IF hits = {} THEN NoKey
        ELSE CHOOSE k \in hits : \A l \in hits : l.prefixlen <= k.prefixlen
  BY LongestPrefixOf, Zenon
<1>2. ASSUME NEW k \in hits
      PROVE  k.prefixlen \in 0..AddrBits /\ k = CKey(cg, Masked(ip, k.prefixlen), k.prefixlen)
  <2>1. PICK c, a : \E n \in 0..AddrBits : k = CKey(c, a, n)
    BY DEF TrieHits, IsKey, VKey, DKey
  <2> QED
    BY <2>1 DEF TrieHits, CKey
<1>3. ASSUME NEW j \in 0..AddrBits, CKey(cg, Masked(ip, j), j) \in DOMAIN m
      PROVE  CKey(cg, Masked(ip, j), j) \in hits /\ CKey(cg, Masked(ip, j), j).prefixlen = j
  BY <1>3, Zenon DEF TrieHits, CKey
<1>4. ASSUME hits # {}
      PROVE  \E k \in hits : \A l \in hits : l.prefixlen <= k.prefixlen
  <2> DEFINE I == {AddrBits - k.prefixlen : k \in hits}
  <2>1. I \subseteq Nat /\ I # {}
    BY <1>2, <1>4, AddrBitsAssumption
  <2>2. PICK i \in I : \A j \in I : i <= j
    <3> HIDE DEF I
    <3> QED
      BY <2>1, LeastNat, Zenon
  <2>3. PICK k \in hits : i = AddrBits - k.prefixlen
    BY <2>2, Zenon
  <2>4. ASSUME NEW l \in hits PROVE l.prefixlen <= k.prefixlen
    <3>1. i <= AddrBits - l.prefixlen
      BY <2>2, Zenon
    <3>2. k.prefixlen \in Nat /\ l.prefixlen \in Nat /\ AddrBits \in Nat
      BY <1>2, AddrBitsAssumption
    <3> QED
      BY <2>3, <3>1, <3>2
  <2> QED
    BY <2>4, Zenon
<1>5. hits \subseteq DOMAIN m
  BY Zenon DEF TrieHits
<1> HIDE DEF hits
<1>6. ASSUME hits # {}
      PROVE  \E n \in 0..AddrBits :
                /\ LongestPrefix(m, cg, ip) = CKey(cg, Masked(ip, n), n)
                /\ CKey(cg, Masked(ip, n), n) \in DOMAIN m
                /\ \A j \in 0..AddrBits : CKey(cg, Masked(ip, j), j) \in DOMAIN m => j <= n
  <2>1. PICK k \in hits : LongestPrefix(m, cg, ip) = k /\ \A l \in hits : l.prefixlen <= k.prefixlen
    BY <1>1, <1>4, <1>6, Zenon
  <2>2. PICK n \in 0..AddrBits : n = k.prefixlen /\ k = CKey(cg, Masked(ip, n), n)
    BY <1>2, Zenon
  <2>3. \A j \in 0..AddrBits : CKey(cg, Masked(ip, j), j) \in DOMAIN m => j <= n
    BY <1>3, <2>1, <2>2, Zenon
  <2> QED
    BY <1>5, <2>1, <2>2, <2>3, Zenon
<1> QED
  BY <1>1, <1>6, Zenon DEF hits

\* The lookup ends at the covering key of the highest rank.
LEMMA VerdictIs ==
  ASSUME NEW m, \A k \in DOMAIN m : IsKey(k), GlobalDefault \in DOMAIN m,
         NEW cg, cg # 0, NEW ip, NEW port
  PROVE  \E k \in DOMAIN m :
           /\ Covers(k, cg, ip, port)
           /\ verdict_for(m, cg, ip, port) = m[k]
           /\ \A l \in DOMAIN m : Covers(l, cg, ip, port) => Rank(l) <= Rank(k)
<1> DEFINE order == LookupOrder(m, cg, ip, port)
           I == {j \in 1..8 : order[j] \in DOMAIN m}
           i == FirstOf(I)
<1>1. /\ Len(order) = 8
      /\ order[1] = VKey(cg, ip, port) /\ order[2] = VKey(cg, ip, 0)
      /\ order[3] = VKey(0, ip, port) /\ order[4] = VKey(0, ip, 0)
      /\ order[5] = LongestPrefix(m, cg, ip) /\ order[6] = LongestPrefix(m, 0, ip)
      /\ order[7] = DKey(cg) /\ order[8] = DKey(0)
  BY Zenon DEF LookupOrder, GlobalDefault
<1>2. verdict_for(m, cg, ip, port) = IF i = 0 THEN ActionAllow ELSE m[order[i]]
  <2>1. {j \in 1..Len(order) : order[j] \in DOMAIN m} = I
    BY <1>1, Zenon
  <2> HIDE DEF I
  <2> QED
    BY <2>1, Zenon DEF verdict_for
<1> HIDE DEF order
<1>3. 8 \in I
  BY <1>1 DEF GlobalDefault
<1>4. i \in I /\ \A j \in I : i <= j
  <2>1. I \subseteq Nat \ {0}
    OBVIOUS
  <2> HIDE DEF I
  <2> QED
    BY <1>3, <2>1, FirstOfIs, Zenon
<1>5. NoKey \notin DOMAIN m
  BY Zenon DEF IsKey, NoKey, VKey, CKey, DKey
<1>6. ASSUME NEW c \in {0, cg}
      PROVE  \/ /\ LongestPrefix(m, c, ip) \notin DOMAIN m
                /\ \A j \in 0..AddrBits : CKey(c, Masked(ip, j), j) \notin DOMAIN m
             \/ \E n \in 0..AddrBits :
                  /\ LongestPrefix(m, c, ip) = CKey(c, Masked(ip, n), n)
                  /\ \A j \in 0..AddrBits : CKey(c, Masked(ip, j), j) \in DOMAIN m => j <= n
  <2>1. CASE TrieHits(m, c, ip) = {}
    <3>1. LongestPrefix(m, c, ip) \notin DOMAIN m
      BY <1>5, <2>1, LongestPrefixIs, Zenon
    <3>2. ASSUME NEW j \in 0..AddrBits PROVE CKey(c, Masked(ip, j), j) \notin DOMAIN m
      BY <2>1 DEF TrieHits, CKey
    <3> QED
      BY <3>1, <3>2, Zenon
  <2>2. CASE TrieHits(m, c, ip) # {}
    BY <2>2, LongestPrefixIs, Zenon
  <2> QED
    BY <2>1, <2>2, Zenon
<1>7. ASSUME NEW x, NEW a
      PROVE  /\ Rank(DKey(x)) = (IF x = 0 THEN 0 ELSE 1)
             /\ \A n \in 0..AddrBits :
                  Rank(CKey(x, a, n)) = (IF x = 0 THEN 2 + n ELSE 3 + AddrBits + n)
             /\ \A pt : Rank(VKey(x, a, pt)) =
                    2 * AddrBits + 4 + (IF x = 0 THEN 0 ELSE 2) + (IF pt = 0 THEN 0 ELSE 1)
  BY RankOf, ZenonT(30)
<1> DEFINE p == IF port = 0 THEN 0 ELSE 1
<1>8. /\ Rank(order[1]) = 2 * AddrBits + 6 + p /\ Rank(order[2]) = 2 * AddrBits + 6
      /\ Rank(order[3]) = 2 * AddrBits + 4 + p /\ Rank(order[4]) = 2 * AddrBits + 4
      /\ Rank(order[7]) = 1 /\ Rank(order[8]) = 0
  <2>1. /\ Rank(order[1]) = 2 * AddrBits + 4 + 2 + p /\ Rank(order[2]) = 2 * AddrBits + 4 + 2 + 0
        /\ Rank(order[3]) = 2 * AddrBits + 4 + 0 + p /\ Rank(order[4]) = 2 * AddrBits + 4 + 0 + 0
        /\ Rank(order[7]) = 1 /\ Rank(order[8]) = 0
    <3>1. \A x, pt : Rank(VKey(x, ip, pt)) =
                2 * AddrBits + 4 + (IF x = 0 THEN 0 ELSE 2) + (IF pt = 0 THEN 0 ELSE 1)
      BY <1>7, Zenon
    <3>2. /\ Rank(VKey(cg, ip, port)) = 2 * AddrBits + 4 + 2 + p
          /\ Rank(VKey(cg, ip, 0)) = 2 * AddrBits + 4 + 2 + 0
          /\ Rank(VKey(0, ip, port)) = 2 * AddrBits + 4 + 0 + p
          /\ Rank(VKey(0, ip, 0)) = 2 * AddrBits + 4 + 0 + 0
      BY <3>1, Zenon
    <3>3. Rank(DKey(cg)) = 1 /\ Rank(DKey(0)) = 0
      BY <1>7, Zenon
    <3> HIDE DEF p
    <3> QED
      BY <1>1, <3>2, <3>3, Zenon
  <2> QED
    BY <2>1, AddrBitsAssumption
<1>9. 5 \in I => Rank(order[5]) \in (3 + AddrBits)..(3 + 2 * AddrBits)
  <2> SUFFICES ASSUME 5 \in I PROVE Rank(order[5]) \in (3 + AddrBits)..(3 + 2 * AddrBits)
    BY Zenon
  <2>1. PICK n \in 0..AddrBits : order[5] = CKey(cg, Masked(ip, n), n)
    BY <1>1, <1>6, Zenon
  <2>2. Rank(order[5]) = 3 + AddrBits + n
    <3>1. Rank(CKey(cg, Masked(ip, n), n)) = (IF cg = 0 THEN 2 + n ELSE 3 + AddrBits + n)
      BY <1>7, ZenonT(30)
    <3> QED
      BY <2>1, <3>1, Zenon
  <2> QED
    BY <2>2, AddrBitsAssumption
<1>10. 6 \in I => Rank(order[6]) \in 2..(2 + AddrBits)
  <2> SUFFICES ASSUME 6 \in I PROVE Rank(order[6]) \in 2..(2 + AddrBits)
    BY Zenon
  <2>1. PICK n \in 0..AddrBits : order[6] = CKey(0, Masked(ip, n), n)
    BY <1>1, <1>6, Zenon
  <2>2. Rank(order[6]) = 2 + n
    <3>1. Rank(CKey(0, Masked(ip, n), n)) = (IF 0 = 0 THEN 2 + n ELSE 3 + AddrBits + n)
      BY <1>7, Zenon
    <3> QED
      BY <2>1, <3>1, Zenon
  <2> QED
    BY <2>2, AddrBitsAssumption
<1>11. \A j \in I : Rank(order[j]) <= Rank(order[i]) /\ Rank(order[j]) \in Nat
  BY <1>4, <1>8, <1>9, <1>10, AddrBitsAssumption
<1>12. Covers(order[i], cg, ip, port)
  <2>1. \A c, n : CKey(c, Masked(ip, n), n).daddr = Masked(ip, CKey(c, Masked(ip, n), n).prefixlen)
                   /\ CKey(c, Masked(ip, n), n).map = "cidr_verdicts"
                   /\ CKey(c, Masked(ip, n), n).cgroup_id = c
    BY Zenon DEF CKey
  <2>2. i \in {5, 6} => \E c \in {0, cg} : \E n : order[i] = CKey(c, Masked(ip, n), n)
    BY <1>1, <1>4, <1>6, Zenon
  <2>3. CASE i \in {5, 6}
    BY <2>1, <2>2, <2>3 DEF Covers
  <2>4. CASE i \in {1, 2, 3, 4}
    BY <1>1, <2>4 DEF Covers, VKey
  <2>5. CASE i \in {7, 8}
    BY <1>1, <2>5 DEF Covers, DKey
  <2> QED
    BY <1>4, <2>3, <2>4, <2>5
<1>13. ASSUME NEW l \in DOMAIN m, Covers(l, cg, ip, port)
       PROVE  \E j \in I : Rank(l) \in Nat /\ Rank(l) <= Rank(order[j])
  <2>1. PICK c \in {0, cg} :
           \/ \E pt \in {0, port} : l = VKey(c, ip, pt)
           \/ \E n \in 0..AddrBits : l = CKey(c, Masked(ip, n), n)
           \/ l = DKey(c)
    BY <1>13, CoveringKeys
  <2>2. ASSUME l = DKey(c) \/ \E pt \in {0, port} : l = VKey(c, ip, pt)
        PROVE  \E j \in I : order[j] = l
    BY <1>1, <2>2
  <2>3. ASSUME NEW n \in 0..AddrBits, l = CKey(c, Masked(ip, n), n)
        PROVE  \E j \in I : Rank(l) \in Nat /\ Rank(l) <= Rank(order[j])
    <3>1. PICK o \in 0..AddrBits : LongestPrefix(m, c, ip) = CKey(c, Masked(ip, o), o) /\ n <= o
      BY <1>6, <2>3, Zenon
    <3>2. LongestPrefix(m, c, ip) \in DOMAIN m
      <4>1. TrieHits(m, c, ip) # {}
        BY <2>3 DEF TrieHits, CKey
      <4> QED
        BY <4>1, LongestPrefixIs, Zenon
    <3>3. PICK j \in I : order[j] = CKey(c, Masked(ip, o), o)
      BY <1>1, <3>1, <3>2
    <3>4. /\ Rank(l) = (IF c = 0 THEN 2 + n ELSE 3 + AddrBits + n)
          /\ Rank(order[j]) = (IF c = 0 THEN 2 + o ELSE 3 + AddrBits + o)
      <4>1. /\ Rank(CKey(c, Masked(ip, n), n)) = (IF c = 0 THEN 2 + n ELSE 3 + AddrBits + n)
            /\ Rank(CKey(c, Masked(ip, o), o)) = (IF c = 0 THEN 2 + o ELSE 3 + AddrBits + o)
        BY <1>7, ZenonT(30)
      <4> QED
        BY <2>3, <3>3, <4>1, Zenon
    <3>5. Rank(l) \in Nat /\ Rank(l) <= Rank(order[j])
      BY <3>1, <3>4, AddrBitsAssumption
    <3> QED
      BY <3>5, Zenon
  <2>4. CASE \E j \in I : order[j] = l
    <3>1. PICK j \in I : order[j] = l
      BY <2>4, Zenon
    <3>2. Rank(order[j]) \in Nat
      BY <1>11, Zenon
    <3>3. Rank(l) \in Nat /\ Rank(l) <= Rank(order[j])
      BY <3>1, <3>2
    <3> QED
      BY <3>3, Zenon
  <2> QED
    BY <2>1, <2>2, <2>3, <2>4, Zenon
<1>14. i \in I /\ order[i] \in DOMAIN m /\ i # 0
  BY <1>4
<1>15. \A l \in DOMAIN m : Covers(l, cg, ip, port) => Rank(l) <= Rank(order[i])
  <2> HIDE DEF I, i
  <2> QED
    BY <1>11, <1>13, <1>14
<1> HIDE DEF i
<1> QED
  BY <1>2, <1>12, <1>14, <1>15, Zenon

-----------------------------------------------------------------------------
(* The keys of a rule against the flows it matches.                        *)

\* A prefix of all the bits leaves an address as it is.
LEMMA MaskedFull == ASSUME NEW x \in Nat PROVE Masked(x, AddrBits) = x
<1>1. AddrBits - AddrBits = 0 /\ 2^0 = 1
  BY AddrBitsAssumption
<1>2. (x \div 1) * 1 = x
  OBVIOUS
<1> QED
  BY <1>1, <1>2, Zenon DEF Masked

\* The cgroups of a selector are those of the pods it matches, or node-global.
LEMMA CgroupsMatch ==
  ASSUME NEW sel, NEW cg \in DOMAIN PodTable
  PROVE  PodMatches(sel, PodTable[cg]) <=> \E c \in MatchCgroups(sel, PodTable) : c \in {0, cg}
<1>1. CASE IsZero(sel)
  <2>1. PodMatches(AnyPod, PodTable[cg])
    BY Zenon DEF PodMatches, MatchesLabels, AnyPod, NoLabels
  <2> QED
    BY <1>1, <2>1, Zenon DEF MatchCgroups, IsZero
<1>2. CASE ~IsZero(sel)
  BY <1>2, PodTableAssumption, Zenon DEF MatchCgroups
<1> QED
  BY <1>1, <1>2, Zenon

\* What is written for a rule are keys of the maps.
LEMMA RuleKeysAreKeys ==
  ASSUME NEW p, NEW i, RuleValid(p.rules[i]), RuleTyped(p.rules[i]),
         NEW k \in RuleKeys(p, PodTable, i)
  PROVE  IsKey(k)
<1>1. PICK r : r = p.rules[i]
  BY Zenon
<1>2. \/ \E cg \in MatchCgroups(r.pod, PodTable) : \E c \in r.cidrs : k \in CidrKeys(cg, c, r.ports)
      \/ \E cg \in MatchCgroups(r.pod, PodTable) : k = DKey(cg)
  BY <1>1 DEF RuleKeys
<1>3. ASSUME NEW cg, NEW c \in r.cidrs, k \in CidrKeys(cg, c, r.ports) PROVE IsKey(k)
  <2>1. ~c.v6 => c.ones \in 0..AddrBits
    BY <1>1, AddrBitsAssumption DEF RuleValid, RuleTyped, ParsesCIDR
  <2>2. \/ ~c.v6 /\ k = CKey(cg, Masked(c.addr, c.ones), c.ones)
        \/ \E port : k = VKey(cg, c.addr, port)
    BY <1>3, Zenon DEF CidrKeys
  <2> QED
    BY <2>1, <2>2, Zenon DEF IsKey
<1> QED
  BY <1>2, <1>3, Zenon DEF IsKey

\* A rule that the maps can express matches a packet about which no domain is
\* known just when one of the keys written for it covers the packet.
LEMMA RuleCovers ==
  ASSUME NEW p, NEW i, Expressible(p.rules[i]), RuleTyped(p.rules[i]),
         NEW cg \in DOMAIN PodTable, NEW ip \in Nat, NEW port
  PROVE  RuleMatches(p.rules[i], BareFlow(PodTable[cg], ip, port)) <=>
           \E k \in RuleKeys(p, PodTable, i) : Covers(k, cg, ip, port)
<1>1. PICK r : r = p.rules[i]
  BY Zenon
<1>2. PICK f : f = BareFlow(PodTable[cg], ip, port)
  BY Zenon
<1>3. /\ f.pod = PodTable[cg] /\ f.dst = ip /\ f.port = port /\ f.domain = <<>>
      /\ f.method = "" /\ f.path = <<>>
  BY <1>2, Zenon DEF BareFlow, Flow
<1> DEFINE cgs == MatchCgroups(r.pod, PodTable)
<1>4. PodMatches(r.pod, f.pod) <=> \E c \in cgs : c \in {0, cg}
  BY <1>3, CgroupsMatch, Zenon
<1> HIDE DEF cgs
<1>5. RuleKeys(p, PodTable, i) =
        IF ~Programmable(r) THEN {}
        ELSE IF r.cidrs # {} THEN UNION {CidrKeys(c, n, r.ports) : c \in cgs, n \in r.cidrs}
        ELSE IF r.ports # {} THEN {}
        ELSE {DKey(c) : c \in cgs}
  BY <1>1 DEF RuleKeys, cgs
<1>6. r.path \in Seq(Range(r.path))
  BY <1>1, Zenon DEF RuleTyped
<1>7. HasPrefix(f.path, r.path) <=> r.path = <<>>
  <2>1. Len(r.path) \in Nat /\ (Len(r.path) = 0 <=> r.path = <<>>)
    BY <1>6
  <2>2. Len(<<>>) = 0 /\ SubSeq(<<>>, 1, 0) = <<>>
    OBVIOUS
  <2>3. CASE r.path = <<>>
    <3>1. HasPrefix(<<>>, <<>>)
      BY <2>2 DEF HasPrefix
    <3> QED
      BY <1>3, <2>3, <3>1, Zenon
  <2>4. CASE r.path # <<>>
    <3>1. ~(Len(r.path) <= Len(<<>>))
      BY <2>1, <2>2, <2>4
    <3> QED
      BY <1>3, <2>4, <3>1, Zenon DEF HasPrefix
  <2> QED
    BY <2>3, <2>4, Zenon
<1>8. CASE \/ CompiledDomains(r) # {} \/ r.path # <<>>
           \/ r.methods # {} /\ "" \notin r.methods
  <2>1. ~Programmable(r)
    BY <1>8, Zenon DEF Programmable, CompiledDomains
  <2>2. ~RuleMatches(r, f)
    BY <1>3, <1>7, <1>8, Zenon DEF RuleMatches, DomainMatches
  <2> QED
    BY <1>1, <1>2, <1>5, <2>1, <2>2
<1>9. CASE /\ r.domains = {} /\ 0 \notin r.ports /\ r.methods = {} /\ r.path = <<>>
           /\ r.ports # {} => r.cidrs # {}
           /\ r.ports # {} => \A c \in r.cidrs : c.ones = AddrBits
  <2>1. Programmable(r) /\ CompiledDomains(r) = {}
    BY <1>9, Zenon DEF Programmable, CompiledDomains
  <2>2. RuleMatches(r, f) <=>
          /\ \E c \in cgs : c \in {0, cg}
          /\ r.cidrs # {} => \E n \in r.cidrs : CidrContains(n, ip)
          /\ r.ports # {} => port \in r.ports
    <3>1. ip # NoAddr
      BY DEF NoAddr
    <3> QED
      BY <1>3, <1>4, <1>7, <1>9, <2>1, <3>1, Zenon DEF RuleMatches
  <2>3. CASE r.cidrs = {}
    <3>1. RuleKeys(p, PodTable, i) = {DKey(c) : c \in cgs}
      BY <1>5, <1>9, <2>1, <2>3
    <3>2. \A c : Covers(DKey(c), cg, ip, port) <=> c \in {0, cg}
      BY Zenon DEF Covers, DKey
    <3> QED
      BY <1>1, <1>2, <1>9, <2>2, <2>3, <3>1, <3>2, Zenon
  <2>4. CASE r.cidrs # {} /\ r.ports = {}
    <3>1. \A k : k \in RuleKeys(p, PodTable, i) <=>
            \E c \in cgs : \E n \in r.cidrs : ~n.v6 /\ k = CKey(c, Masked(n.addr, n.ones), n.ones)
      <4>1. \A c, n, k : k \in CidrKeys(c, n, r.ports) <=>
                           ~n.v6 /\ k = CKey(c, Masked(n.addr, n.ones), n.ones)
        BY <2>4, Zenon DEF CidrKeys
      <4>2. RuleKeys(p, PodTable, i) = UNION {CidrKeys(c, n, r.ports) : c \in cgs, n \in r.cidrs}
        BY <1>5, <2>1, <2>4
      <4>3. \A k : k \in RuleKeys(p, PodTable, i) <=>
              \E c \in cgs : \E n \in r.cidrs : k \in CidrKeys(c, n, r.ports)
        BY <4>2
      <4> QED
        BY <4>1, <4>3, ZenonT(30)
    <3>2. \A c, n : Covers(CKey(c, Masked(n.addr, n.ones), n.ones), cg, ip, port) <=>
                      c \in {0, cg} /\ Masked(ip, n.ones) = Masked(n.addr, n.ones)
      BY Zenon DEF Covers, CKey
    <3>3. RuleMatches(r, f) <=>
            \E c \in cgs : \E n \in r.cidrs :
              c \in {0, cg} /\ ~n.v6 /\ Masked(ip, n.ones) = Masked(n.addr, n.ones)
      BY <2>2, <2>4, Zenon DEF CidrContains
    <3>4. ASSUME NEW c \in cgs, NEW n \in r.cidrs, c \in {0, cg}, ~n.v6,
                 Masked(ip, n.ones) = Masked(n.addr, n.ones)
          PROVE  \E k \in RuleKeys(p, PodTable, i) : Covers(k, cg, ip, port)
      BY <3>1, <3>2, <3>4, Zenon
    <3>5. ASSUME NEW k \in RuleKeys(p, PodTable, i), Covers(k, cg, ip, port)
          PROVE  \E c \in cgs : \E n \in r.cidrs :
                   c \in {0, cg} /\ ~n.v6 /\ Masked(ip, n.ones) = Masked(n.addr, n.ones)
      <4>1. PICK c \in cgs, n \in r.cidrs : ~n.v6 /\ k = CKey(c, Masked(n.addr, n.ones), n.ones)
        BY <3>1, Zenon
      <4>2. c \in {0, cg} /\ Masked(ip, n.ones) = Masked(n.addr, n.ones)
        BY <3>2, <3>5, <4>1, Zenon
      <4> QED
        BY <4>1, <4>2, Zenon
    <3> QED
      BY <1>1, <1>2, <3>3, <3>4, <3>5, Zenon
  <2>5. CASE r.cidrs # {} /\ r.ports # {}
    <3>1. \A k : k \in RuleKeys(p, PodTable, i) <=>
            \E c \in cgs : \E n \in r.cidrs : \E pt \in r.ports : ~n.v6 /\ k = VKey(c, n.addr, pt)
      <4>1. \A c, k : \A n \in r.cidrs :
              k \in CidrKeys(c, n, r.ports) <=>
                ~n.v6 /\ \E pt \in r.ports : k = VKey(c, n.addr, pt)
        BY <1>9, <2>5, Zenon DEF CidrKeys
      <4>2. RuleKeys(p, PodTable, i) = UNION {CidrKeys(c, n, r.ports) : c \in cgs, n \in r.cidrs}
        BY <1>5, <2>1, <2>5
      <4>3. \A k : k \in RuleKeys(p, PodTable, i) <=>
              \E c \in cgs : \E n \in r.cidrs : k \in CidrKeys(c, n, r.ports)
        BY <4>2
      <4> QED
        BY <4>1, <4>3
    <3>2. \A c, a, pt : Covers(VKey(c, a, pt), cg, ip, port) <=>
                          c \in {0, cg} /\ a = ip /\ pt \in {0, port}
      BY DEF Covers, VKey
    <3>3. \A n \in r.cidrs : CidrContains(n, ip) <=> ~n.v6 /\ n.addr = ip
      <4> SUFFICES ASSUME NEW n \in r.cidrs
                   PROVE  CidrContains(n, ip) <=> ~n.v6 /\ n.addr = ip
        BY Zenon
      <4>1. n.addr \in Nat /\ n.ones = AddrBits
        BY <1>1, <1>9, <2>5, Zenon DEF RuleTyped
      <4>2. Masked(ip, n.ones) = ip /\ Masked(n.addr, n.ones) = n.addr
        BY <4>1, MaskedFull, Zenon
      <4> QED
        BY <4>2, Zenon DEF CidrContains
    <3> QED
      BY <1>1, <1>2, <1>9, <2>2, <2>5, <3>1, <3>2, <3>3
  <2> QED
    BY <2>3, <2>4, <2>5, Zenon
<1> QED
  BY <1>1, <1>8, <1>9, Zenon DEF Expressible

-----------------------------------------------------------------------------
(* The verdict of the maps a policy is programmed into.                    *)

\* An apply() that succeeds leaves what the Programmer is for.
LEMMA ProgrammedRealizes ==
  ASSUME NEW p, NEW S, p.rules \in Seq(S), NEW table
  PROVE  Realizes(Programmed(p, table), p, table)
<1> DEFINE K(i) == RuleKeys(p, table, i)
           keys == [i \in 1..Len(p.rules) |-> K(i)]
           Asking(k) == {i \in 1..Len(p.rules) : k \in K(i)}
           m == Programmed(p, table)
<1>1. m = [k \in DesiredKeys(p, table) |->
             ActionByte(IF FirstOf(Asking(k)) = 0 THEN EffectiveDefault(p)
                        ELSE p.rules[FirstOf(Asking(k))].action)]
  <2>1. \A k : {i \in 1..Len(p.rules) : k \in keys[i]} = Asking(k)
    BY Zenon
  <2> QED
    BY <2>1, Zenon DEF Programmed
<1>2. Len(p.rules) \in Nat
  OBVIOUS
<1>3. \A i \in 1..Len(p.rules) : \A k \in K(i) : k \in DesiredKeys(p, table)
  BY Zenon DEF DesiredKeys
<1>4. GlobalDefault \in DesiredKeys(p, table)
  BY Zenon DEF DesiredKeys
<1> HIDE DEF m, K
<1>5. ASSUME NEW i \in 1..Len(p.rules), NEW k \in K(i), \A j \in 1..(i - 1) : k \notin K(j)
      PROVE  m[k] = ActionByte(p.rules[i].action)
  <2> DEFINE A == Asking(k)
  <2>1. i \in A /\ A \subseteq Nat \ {0} /\ A # {} /\ \A j \in A : ~(j < i)
    BY <1>2, <1>5
  <2> HIDE DEF A
  <2>2. FirstOf(A) \in A /\ FirstOf(A) <= i
    BY <2>1, FirstOfIs, Zenon
  <2>3. PICK a \in Nat \ {0} : a = FirstOf(A) /\ a <= i /\ ~(a < i)
    BY <2>1, <2>2, Zenon
  <2>4. FirstOf(A) = i /\ i # 0
    BY <2>3
  <2> QED
    BY <1>1, <1>3, <2>4, Zenon DEF A
<1>6. ASSUME \A i \in 1..Len(p.rules) : GlobalDefault \notin K(i)
      PROVE  m[GlobalDefault] = ActionByte(EffectiveDefault(p))
  <2>1. Asking(GlobalDefault) = {}
    BY <1>6, Zenon
  <2>2. FirstOf(Asking(GlobalDefault)) = 0
    BY <2>1, Zenon DEF FirstOf
  <2> QED
    BY <1>1, <1>4, <2>2, Zenon
<1> QED
  BY <1>1, <1>5, <1>6, Zenon DEF Realizes, m, K

\* Maps that realize a policy give every packet the engine's verdict, where the
\* order of the rules agrees with the order of the kernel's lookups.
LEMMA RealizedVerdict ==
  ASSUME NEW p, NEW S, p.rules \in Seq(S),
         \A r \in S : RuleTyped(r), Valid(p), AllExpressible(p),
         NEW m, Realizes(m, p, PodTable),
         NEW cg \in DOMAIN PodTable, NEW ip \in Nat, NEW port,
         RuleOrderAgrees(p, cg, ip, port)
  PROVE  verdict_for(m, cg, ip, port) =
           ActionByte(Evaluate(p, BareFlow(PodTable[cg], ip, port)))
<1> DEFINE K(i) == RuleKeys(p, PodTable, i)
           Cov(k) == Covers(k, cg, ip, port)
           Act(i) == ActionByte(p.rules[i].action)
           f == BareFlow(PodTable[cg], ip, port)
<1>1. PICK n \in Nat : n = Len(p.rules)
  BY SMTT(30)
<1>2. ASSUME NEW i \in 1..n
      PROVE  /\ RuleMatches(p.rules[i], f) <=> \E k \in K(i) : Cov(k)
             /\ \A k \in K(i) : IsKey(k) /\ k \in DOMAIN m
  <2>1. /\ RuleTyped(p.rules[i]) /\ RuleValid(p.rules[i]) /\ Expressible(p.rules[i])
    <3>1. i \in 1..Len(p.rules) /\ p.rules[i] \in S
      BY <1>1
    <3>2. RuleValid(p.rules[i])
      BY <3>1, Zenon DEF Valid
    <3>3. Expressible(p.rules[i])
      BY <3>1, Zenon DEF AllExpressible
    <3> QED
      BY <3>1, <3>2, <3>3, Zenon
  <2>2. \A k \in K(i) : k \in DOMAIN m
    BY <1>1, Zenon DEF Realizes, DesiredKeys
  <2> QED
    BY <2>1, <2>2, RuleCovers, RuleKeysAreKeys, Zenon
<1>3. /\ GlobalDefault \in DOMAIN m
      /\ \A k \in DOMAIN m : k = GlobalDefault \/ \E i \in 1..n : k \in K(i)
  BY <1>1, Zenon DEF Realizes, DesiredKeys
<1>4. IsKey(GlobalDefault) /\ Cov(GlobalDefault)
  BY Zenon DEF IsKey, GlobalDefault, Covers, DKey
<1>5. cg # 0 /\ \A k \in DOMAIN m : IsKey(k)
  BY <1>2, <1>3, <1>4, PodTableAssumption, Zenon
<1>6. PICK best \in DOMAIN m :
        /\ Cov(best) /\ verdict_for(m, cg, ip, port) = m[best]
        /\ \A l \in DOMAIN m : Cov(l) => Rank(l) <= Rank(best)
  <2> HIDE DEF Cov
  <2> QED
    BY <1>3, <1>5, VerdictIs, Zenon DEF Cov
<1>7. \A k, l \in DOMAIN m : Cov(k) /\ Cov(l) /\ Rank(k) = Rank(l) => k = l
  BY <1>5, RankTellsApart, Zenon
<1>8. \A k \in DOMAIN m : Cov(k) => Rank(k) \in Nat
  <2> SUFFICES ASSUME NEW k \in DOMAIN m, Cov(k) PROVE Rank(k) \in Nat
    BY Zenon
  <2>1. IsKey(k)
    BY <1>5, Zenon
  <2>2. \/ \E c, a, pt : k = VKey(c, a, pt)
        \/ \E c, a : \E o \in 0..AddrBits : k = CKey(c, a, o)
        \/ \E c : k = DKey(c)
    BY <2>1, Zenon DEF IsKey
  <2>3. ASSUME NEW c, k = DKey(c) PROVE Rank(k) \in Nat
    <3>1. Rank(DKey(c)) = (IF c = 0 THEN 0 ELSE 1)
      BY RankOf, Zenon
    <3> QED
      BY <2>3, <3>1
  <2>4. ASSUME NEW c, NEW a, NEW o \in 0..AddrBits, k = CKey(c, a, o) PROVE Rank(k) \in Nat
    <3>1. Rank(CKey(c, a, o)) = (IF c = 0 THEN 2 + o ELSE 3 + AddrBits + o)
      BY RankOf, Zenon
    <3> QED
      BY <2>4, <3>1, AddrBitsAssumption
  <2>5. ASSUME NEW c, NEW a, NEW pt, k = VKey(c, a, pt) PROVE Rank(k) \in Nat
    <3>1. Rank(VKey(c, a, pt)) =
            2 * AddrBits + 4 + (IF c = 0 THEN 0 ELSE 2) + (IF pt = 0 THEN 0 ELSE 1)
      BY RankOf, Zenon
    <3> QED
      BY <2>5, <3>1, AddrBitsAssumption
  <2> QED
    BY <2>2, <2>3, <2>4, <2>5, Zenon
<1> DEFINE M == {i \in 1..n : RuleMatches(p.rules[i], f)}
           i0 == FirstOf(M)
<1>9. Evaluate(p, f) = IF i0 = 0 THEN EffectiveDefault(p) ELSE p.rules[i0].action
  BY <1>1, Zenon DEF Evaluate, FirstMatch
<1>10. /\ M = {} => i0 = 0
       /\ M # {} => i0 \in M /\ \A j \in M : i0 <= j
  <2>1. M \subseteq Nat \ {0}
    OBVIOUS
  <2> HIDE DEF M
  <2> QED
    BY <2>1, FirstOfIs, Zenon
<1> HIDE DEF f, Cov, i0, K
<1>11. /\ \A i \in 1..n : \A k \in K(i) :
            (\A j \in 1..(i - 1) : k \notin K(j)) => m[k] = Act(i)
       /\ (\A i \in 1..n : GlobalDefault \notin K(i))
            => m[GlobalDefault] = ActionByte(EffectiveDefault(p))
  BY <1>1, Zenon DEF Realizes, K
<1>12. \A j \in 1..n : \A i \in 1..(j - 1) :
         (\E k \in K(i) : Cov(k)) /\ Act(i) # Act(j)
           => \A l \in K(j) : Cov(l) => \E k \in K(i) : Cov(k) /\ Rank(k) >= Rank(l)
  <2> DEFINE hits == [i \in 1..n |-> {k \in K(i) : Cov(k)}]
  <2>1. \A j \in 1..n : \A i \in 1..(j - 1) :
          /\ hits[i] # {}
          /\ Act(i) # Act(j)
          => \A l \in hits[j] : \E k \in hits[i] : Rank(k) >= Rank(l)
    BY <1>1, Zenon DEF RuleOrderAgrees, K, Cov
  <2>2. \A i \in 1..n : hits[i] = {k \in K(i) : Cov(k)}
    BY Zenon
  <2>3. \A j \in 1..n : \A i \in 1..(j - 1) : i \in 1..n
    BY <1>1, SMTT(30)
  <2> HIDE DEF hits
  <2> QED
    BY <2>1, <2>2, <2>3, Zenon
<1>13. CASE M = {}
  <2>1. \A i \in 1..n : \A k \in K(i) : ~Cov(k)
    BY <1>2, <1>13, Zenon DEF f, Cov, K
  <2>2. best = GlobalDefault /\ \A i \in 1..n : GlobalDefault \notin K(i)
    BY <1>3, <1>4, <1>6, <2>1, Zenon DEF Cov
  <2> QED
    BY <1>6, <1>9, <1>10, <1>11, <1>13, <2>2, Zenon DEF f
<1>14. CASE M # {}
  <2>1. i0 \in 1..n /\ RuleMatches(p.rules[i0], f) /\ \A j \in M : i0 <= j
    BY <1>10, <1>14, Zenon
  <2>2. PICK k0 \in K(i0) : Cov(k0)
    BY <1>2, <2>1, Zenon DEF f, Cov, K
  <2>3. \E i \in 1..n : best \in K(i)
    <3>1. CASE best = GlobalDefault
      <4>1. Rank(best) = 0
        BY <3>1, RankOf, Zenon DEF GlobalDefault
      <4>2. k0 \in DOMAIN m
        BY <1>2, <2>1, <2>2, Zenon DEF K
      <4>3. Rank(k0) = Rank(best)
        BY <1>6, <1>8, <2>2, <4>1, <4>2
      <4>4. k0 = best
        BY <1>6, <1>7, <2>2, <4>2, <4>3, Zenon
      <4> QED
        BY <2>1, <2>2, <4>4, Zenon
    <3> QED
      BY <1>3, <1>6, <3>1, Zenon DEF K
  <2> DEFINE J == {i \in 1..n : best \in K(i)}
  <2>4. PICK j \in J : \A i \in J : j <= i
    <3>1. J \subseteq Nat /\ J # {}
      BY <2>3
    <3> HIDE DEF J
    <3> QED
      BY <3>1, LeastNat, Zenon
  <2>5. j \in 1..n /\ best \in K(j) /\ \A i \in 1..(j - 1) : best \notin K(i)
    BY <2>4
  <2>6. m[best] = Act(j)
    BY <1>11, <2>5, Zenon
  <2>7. j \in M
    BY <1>2, <1>6, <2>5, Zenon DEF f, Cov, K
  <2>8. CASE j = i0
    BY <1>6, <1>9, <2>1, <2>6, <2>8, SMTT(30) DEF f
  <2>9. CASE j # i0
    <3>1. i0 \in 1..(j - 1)
      BY <2>1, <2>5, <2>7, <2>9, SMTT(30)
    <3>2. Act(i0) = Act(j)
      <4> SUFFICES ASSUME Act(i0) # Act(j) PROVE FALSE
        BY Zenon
      <4>1. PICK k \in K(i0) : Cov(k) /\ Rank(k) >= Rank(best)
        BY <1>6, <1>12, <2>2, <2>5, <3>1, Zenon
      <4>2. k \in DOMAIN m
        BY <1>2, <2>1, <4>1, Zenon DEF K
      <4>3. Rank(k) = Rank(best)
        BY <1>6, <1>8, <4>1, <4>2, SMTT(30)
      <4>4. k = best
        BY <1>6, <1>7, <4>1, <4>2, <4>3, Zenon
      <4> QED
        BY <2>5, <3>1, <4>4, Zenon
    <3> QED
      BY <1>6, <1>9, <2>1, <2>6, <3>2, SMTT(30) DEF f
  <2> QED
    BY <2>8, <2>9, Zenon
<1> QED
  BY <1>13, <1>14, Zenon

-----------------------------------------------------------------------------
(* Verdicts for the pods of another namespace.                             *)

\* The keys written for a rule, wherever it is in a policy.
KeysOf(r) == RuleKeys([rules |-> <<r>>], PodTable, 1)

\* They depend on nothing but the rule, and are those of the cgroups it selects.
LEMMA KeysOfRule ==
  /\ \A p, i : RuleKeys(p, PodTable, i) = KeysOf(p.rules[i])
  /\ \A r : \A k \in KeysOf(r) : k.cgroup_id \in MatchCgroups(r.pod, PodTable)
<1>1. ASSUME NEW p, NEW i PROVE RuleKeys(p, PodTable, i) = KeysOf(p.rules[i])
  <2>1. PICK r : r = p.rules[i]
    BY Zenon
  <2>2. [rules |-> <<r>>].rules[1] = r
    BY Zenon
  <2> QED
    BY <2>1, <2>2 DEF KeysOf, RuleKeys
<1>2. ASSUME NEW r, NEW k \in KeysOf(r) PROVE k.cgroup_id \in MatchCgroups(r.pod, PodTable)
  <2>1. [rules |-> <<r>>].rules[1] = r
    BY Zenon
  <2> DEFINE cgs == MatchCgroups(r.pod, PodTable)
  <2> HIDE DEF cgs
  <2>2. \/ \E c \in cgs : \E n \in r.cidrs : k \in CidrKeys(c, n, r.ports)
        \/ \E c \in cgs : k = DKey(c)
    BY <2>1 DEF KeysOf, RuleKeys, cgs
  <2>3. ASSUME NEW c, NEW n, k \in CidrKeys(c, n, r.ports) PROVE k.cgroup_id = c
    BY <2>3 DEF CidrKeys, CKey, VKey
  <2>4. \A c : DKey(c).cgroup_id = c
    BY Zenon DEF DKey
  <2> QED
    BY <2>2, <2>3, <2>4, Zenon DEF cgs
<1> QED
  BY <1>1, <1>2, Zenon

\* What realizing maps hold at a key.
LEMMA RealizedAt ==
  ASSUME NEW p, NEW S, p.rules \in Seq(S), NEW m, Realizes(m, p, PodTable), NEW k, NEW H,
         \A r \in S : r \in H <=> k \in KeysOf(r)
  PROVE  /\ NoneOf(p.rules, H) =>
              /\ k \in DOMAIN m <=> k = GlobalDefault
              /\ k = GlobalDefault => m[k] = ActionByte(EffectiveDefault(p))
         /\ \A x : IsFirst(p.rules, H, x) => k \in DOMAIN m /\ m[k] = ActionByte(x.action)
<1> DEFINE K(i) == RuleKeys(p, PodTable, i)
<1>1. PICK n \in Nat : n = Len(p.rules)
  OBVIOUS
<1>2. \A i \in 1..n : p.rules[i] \in H <=> k \in K(i)
  BY <1>1, KeysOfRule
<1>3. /\ k \in DOMAIN m <=> k = GlobalDefault \/ \E i \in 1..n : k \in K(i)
      /\ \A i \in 1..n : k \in K(i) /\ (\A j \in 1..(i - 1) : k \notin K(j))
           => m[k] = ActionByte(p.rules[i].action)
      /\ (\A i \in 1..n : GlobalDefault \notin K(i))
           => m[GlobalDefault] = ActionByte(EffectiveDefault(p))
  BY <1>1, Zenon DEF Realizes, DesiredKeys
<1> HIDE DEF K
<1>4. ASSUME NoneOf(p.rules, H)
      PROVE  /\ k \in DOMAIN m <=> k = GlobalDefault
             /\ k = GlobalDefault => m[k] = ActionByte(EffectiveDefault(p))
  <2>1. \A i \in 1..n : k \notin K(i)
    BY <1>1, <1>2, <1>4, Zenon DEF NoneOf
  <2> QED
    BY <1>3, <2>1, Zenon
<1>5. ASSUME NEW x, IsFirst(p.rules, H, x)
      PROVE  k \in DOMAIN m /\ m[k] = ActionByte(x.action)
  <2>1. PICK i \in 1..n : p.rules[i] = x /\ x \in H /\ \A j \in 1..(i - 1) : p.rules[j] \notin H
    BY <1>1, <1>5, Zenon DEF IsFirst
  <2>2. k \in K(i)
    BY <1>2, <2>1, Zenon
  <2>3. \A j \in 1..(i - 1) : k \notin K(j)
    <3>1. \A j \in 1..(i - 1) : j \in 1..n
      BY <1>1, SMTT(30)
    <3> QED
      BY <1>2, <2>1, <3>1, Zenon
  <2> QED
    BY <1>3, <2>1, <2>2, <2>3, Zenon
<1> QED
  BY <1>4, <1>5, Zenon

\* Maps that agree on the keys of a cgroup and the node-global ones give its
\* packets the same verdicts.
LEMMA SameVerdict ==
  ASSUME NEW m, NEW n, \A k \in DOMAIN m : IsKey(k), \A k \in DOMAIN n : IsKey(k),
         NEW cg, NEW ip, NEW port,
         \A k : k.cgroup_id \in {0, cg} =>
                  /\ k \in DOMAIN m <=> k \in DOMAIN n
                  /\ k \in DOMAIN m => m[k] = n[k]
  PROVE  verdict_for(m, cg, ip, port) = verdict_for(n, cg, ip, port)
<1>1. ASSUME NEW c \in {0, cg}
      PROVE  /\ LongestPrefix(m, c, ip) = LongestPrefix(n, c, ip)
             /\ \/ LongestPrefix(m, c, ip) = NoKey
                \/ LongestPrefix(m, c, ip).cgroup_id = c
  <2>1. TrieHits(m, c, ip) = TrieHits(n, c, ip)
    <3>1. \A k \in DOMAIN m : k.cgroup_id = c => k \in DOMAIN n
      OBVIOUS
    <3>2. \A k \in DOMAIN n : k.cgroup_id = c => k \in DOMAIN m
      OBVIOUS
    <3> QED
      BY <3>1, <3>2, Zenon DEF TrieHits
  <2>2. \A x, i : CKey(c, x, i).cgroup_id = c
    BY Zenon DEF CKey
  <2>3. CASE TrieHits(m, c, ip) = {}
    <3>1. LongestPrefix(m, c, ip) = NoKey
      BY <2>3, LongestPrefixIs, Zenon
    <3>2. LongestPrefix(n, c, ip) = NoKey
      BY <2>1, <2>3, LongestPrefixIs, Zenon
    <3> QED
      BY <3>1, <3>2, Zenon
  <2>4. CASE TrieHits(m, c, ip) # {}
    <3> DEFINE k(i) == CKey(c, Masked(ip, i), i)
    <3>1. PICK i \in 0..AddrBits :
            /\ LongestPrefix(m, c, ip) = k(i) /\ k(i) \in DOMAIN m
            /\ \A j \in 0..AddrBits : k(j) \in DOMAIN m => j <= i
      BY <2>4, LongestPrefixIs, Zenon
    <3>2. PICK j \in 0..AddrBits :
            /\ LongestPrefix(n, c, ip) = k(j) /\ k(j) \in DOMAIN n
            /\ \A l \in 0..AddrBits : k(l) \in DOMAIN n => l <= j
      BY <2>1, <2>4, LongestPrefixIs, Zenon
    <3>3. \A l : k(l) \in DOMAIN m <=> k(l) \in DOMAIN n
      BY <2>2, SMTT(30)
    <3>4. i <= j /\ j <= i
      BY <3>1, <3>2, <3>3, Zenon
    <3>5. i = j
      BY <3>4, SMTT(30)
    <3> QED
      BY <2>2, <3>1, <3>2, <3>5, Zenon
  <2> QED
    BY <2>3, <2>4, Zenon
<1>2. NoKey \notin DOMAIN m /\ NoKey \notin DOMAIN n
  BY Zenon DEF IsKey, NoKey, VKey, CKey, DKey
<1>3. LookupOrder(m, cg, ip, port) = LookupOrder(n, cg, ip, port)
  BY <1>1, Zenon DEF LookupOrder
<1> DEFINE order == LookupOrder(m, cg, ip, port)
<1>4. Len(order) = 8 /\ \A j \in 1..8 : order[j] = NoKey \/ order[j].cgroup_id \in {0, cg}
  <2>1. /\ Len(order) = 8
        /\ order[1] = VKey(cg, ip, port) /\ order[2] = VKey(cg, ip, 0)
        /\ order[3] = VKey(0, ip, port) /\ order[4] = VKey(0, ip, 0)
        /\ order[5] = LongestPrefix(m, cg, ip) /\ order[6] = LongestPrefix(m, 0, ip)
        /\ order[7] = DKey(cg) /\ order[8] = DKey(0)
    BY Zenon DEF LookupOrder, GlobalDefault
  <2>2. \A c, a, pt : VKey(c, a, pt).cgroup_id = c /\ DKey(c).cgroup_id = c
    BY Zenon DEF VKey, DKey
  <2> HIDE DEF order
  <2>3. \A j \in 1..8 : j \in {1, 2, 3, 4, 5, 6, 7, 8}
    OBVIOUS
  <2> QED
    BY <1>1, <2>1, <2>2, <2>3, SMTT(30)
<1> HIDE DEF order
<1>5. \A j \in 1..Len(order) : /\ order[j] \in DOMAIN m <=> order[j] \in DOMAIN n
                               /\ order[j] \in DOMAIN m => m[order[j]] = n[order[j]]
  BY <1>2, <1>4
<1> DEFINE I == {j \in 1..Len(order) : order[j] \in DOMAIN m}
<1>6. I = {j \in 1..Len(order) : order[j] \in DOMAIN n}
  BY <1>5, Zenon
<1>7. FirstOf(I) = 0 \/ FirstOf(I) \in I
  <2>1. I \subseteq Nat \ {0}
    BY <1>4
  <2> HIDE DEF I
  <2> QED
    BY <2>1, FirstOfIs, Zenon
<1>8. /\ verdict_for(m, cg, ip, port) = IF FirstOf(I) = 0 THEN ActionAllow ELSE m[order[FirstOf(I)]]
      /\ verdict_for(n, cg, ip, port) = IF FirstOf(I) = 0 THEN ActionAllow ELSE n[order[FirstOf(I)]]
  BY <1>3, <1>6, Zenon DEF verdict_for, order
<1> QED
  BY <1>5, <1>7, <1>8, SMTT(30)

\* The rules that a namespaced policy contributes match no pod of another
\* namespace, and write no key that another namespace's pods look up.
LEMMA ScopedRules ==
  ASSUME NEW o, o.namespace # 0, NEW r \in Range(FoldedRules(o)) \cup Range(CatchAlls(o))
  PROVE  /\ \A f : o.namespace # f.pod.namespace => ~RuleMatches(r, f)
         /\ \A cg \in DOMAIN PodTable :
              o.namespace # PodTable[cg].namespace =>
                \A k \in KeysOf(r) : k.cgroup_id \notin {0, cg}
<1>1. r.pod.namespace = o.namespace
  <2>1. CASE r \in Range(FoldedRules(o))
    <3>1. PICK i \in 1..Len(o.policy.rules) :
            r = FoldRule(o.policy.rules[i], o.policy.podSelector, o.namespace)
      BY <2>1, Zenon DEF FoldedRules, Range
    <3> QED
      BY <3>1, Zenon DEF FoldRule, WithPod, FoldInto, InNamespace
  <2>2. CASE r \in Range(CatchAlls(o))
    <3>1. PICK c : c = SubjectCatchAll(o.policy.podSelector, o.namespace)
      BY Zenon
    <3>2. Range(<<c>>) = {c} /\ Range(<<>>) = {}
      BY DEF Range
    <3>3. CatchAlls(o) = <<c>> \/ CatchAlls(o) = <<>>
      BY <3>1, Zenon DEF CatchAlls
    <3>4. r = c
      BY <2>2, <3>2, <3>3, Zenon
    <3> QED
      BY <3>1, <3>4, Zenon DEF SubjectCatchAll, WithPod, FoldInto, InNamespace
  <2> QED
    BY <2>1, <2>2, Zenon
<1>2. \A pod : o.namespace # pod.namespace => ~PodMatches(r.pod, pod)
  BY <1>1, Zenon DEF PodMatches
<1>3. \A f : o.namespace # f.pod.namespace => ~RuleMatches(r, f)
  BY <1>2, Zenon DEF RuleMatches
<1>4. ~IsZero(r.pod)
  BY <1>1 DEF IsZero, AnyPod
<1>5. MatchCgroups(r.pod, PodTable) = {cg \in DOMAIN PodTable : PodMatches(r.pod, PodTable[cg])}
  BY <1>4, Zenon DEF MatchCgroups
<1>6. ASSUME NEW cg \in DOMAIN PodTable, o.namespace # PodTable[cg].namespace,
             NEW k \in KeysOf(r)
      PROVE  k.cgroup_id \notin {0, cg}
  <2>1. k.cgroup_id \in MatchCgroups(r.pod, PodTable)
    BY KeysOfRule, Zenon
  <2> QED
    BY <1>2, <1>5, <1>6, <2>1, PodTableAssumption, Zenon
<1> QED
  BY <1>3, <1>6, Zenon
=============================================================================
