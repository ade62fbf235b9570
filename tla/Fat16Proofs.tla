---------------------------- MODULE Fat16Proofs ----------------------------
(***************************************************************************)
(* Proofs about module Fat16, for disks, directories and files of any      *)
(* size, any number of copies of the FAT and of power losses.              *)
(***************************************************************************)
EXTENDS Fat16, NaturalsInduction, WellFoundedInduction, FiniteSetTheorems, TLAPS

-----------------------------------------------------------------------------
(***************************************************************************)
(* Induction, for the set of the numbers that have the property.           *)
(***************************************************************************)
LEMMA SetInduction ==
    ASSUME NEW S, 0 \in S, \A n \in Nat : n \in S => n + 1 \in S
    PROVE  Nat \subseteq S
<1> DEFINE R == {ss \in Nat \X Nat : ss[1] < ss[2]}
           T == Nat \ S
<1>1. IsWellFoundedOn(R, Nat)
  BY NatLessThanWellFounded, Zenon DEF OpToRel
<1>2. \A x, y \in Nat : x < y => <<x, y>> \in R
  OBVIOUS
<1> HIDE DEF R
<1>3. SUFFICES ASSUME T # {} PROVE FALSE
  OBVIOUS
<1>4. PICK x \in T : \A y \in T : ~ (<<y, x>> \in R)
  <2> HIDE DEF T
  <2>1. T \subseteq Nat
    BY DEF T
  <2> QED BY <1>1, <1>3, <2>1, WFMin
<1>5. x \in Nat /\ x # 0
  OBVIOUS
<1>6. x - 1 \in Nat /\ x - 1 < x /\ x - 1 + 1 = x
  BY <1>5
<1>7. x - 1 \notin T
  BY <1>2, <1>4, <1>5, <1>6
<1> QED BY <1>5, <1>6, <1>7

(***************************************************************************)
(* A function defined by recursion on 0..n exists and keeps to T.          *)
(***************************************************************************)
Iterates(g, T, a, h, n) ==
    /\ g \in [0..n -> T]
    /\ g[0] = a
    /\ \A k \in 1..n : g[k] = h[k][g[k - 1]]

LEMMA IterateExists ==
    ASSUME NEW T, NEW a \in T, NEW h, NEW N \in Nat, h \in [1..N -> [T -> T]]
    PROVE  \E g : Iterates(g, T, a, h, N)
<1> DEFINE S == {n \in Nat : n <= N => \E g : Iterates(g, T, a, h, n)}
<1>1. 0 \in S
  <2> DEFINE g == [k \in 0..0 |-> a]
  <2>1. Iterates(g, T, a, h, 0)
    BY DEF Iterates
  <2> HIDE DEF g
  <2> QED BY <2>1
<1>2. ASSUME NEW n \in Nat, n \in S
      PROVE  n + 1 \in S
  <2> SUFFICES ASSUME n + 1 <= N PROVE \E g : Iterates(g, T, a, h, n + 1)
    OBVIOUS
  <2>1. PICK g : Iterates(g, T, a, h, n)
    BY <1>2
  <2> DEFINE k == [j \in 0..(n + 1) |-> IF j <= n THEN g[j] ELSE h[n + 1][g[n]]]
  <2>2. g[n] \in T /\ h[n + 1] \in [T -> T]
    BY <2>1 DEF Iterates
  <2>3. k \in [0..(n + 1) -> T]
    BY <2>1, <2>2 DEF Iterates
  <2>4. ASSUME NEW j \in 1..(n + 1)
        PROVE  k[j] = h[j][k[j - 1]]
    <3>1. CASE j <= n
      BY <2>1, <3>1 DEF Iterates
    <3>2. CASE j = n + 1
      BY <3>2
    <3> QED BY <3>1, <3>2
  <2>5. k[0] = a
    BY <2>1 DEF Iterates
  <2>6. Iterates(k, T, a, h, n + 1)
    <3> HIDE DEF k
    <3> QED BY <2>3, <2>4, <2>5 DEF Iterates
  <2> HIDE DEF k
  <2> QED BY <2>6
<1>3. Nat \subseteq S
  <2> HIDE DEF S
  <2> QED BY <1>1, <1>2, SetInduction
<1> QED BY <1>3

-----------------------------------------------------------------------------
(***************************************************************************)
(* Chains.  Path is what free_chain and fat16_read_file have seen of a     *)
(* chain on their way, Links the whole of it.                              *)
(***************************************************************************)
Vals == {Free, EOC} \cup Clusters

Once(s) == \A i, j \in 1..Len(s) : s[i] = s[j] => i = j

Path(f, c, s) ==
    /\ s \in Seq(Clusters) /\ Once(s)
    /\ s = << >> <=> c \notin Clusters
    /\ s # << >> => s[1] = c
    /\ \A i \in 1..(Len(s) - 1) : f[s[i]] = s[i + 1]

Ended(f, s) == s # << >> => f[s[Len(s)]] \notin Clusters \ Range(s)

Links(f, c, s) == Path(f, c, s) /\ Ended(f, s)

Start(c) == IF IsCluster(c) THEN <<c>> ELSE << >>

Further(f, s) ==
    LET x == IF s = << >> THEN Free ELSE f[s[Len(s)]]
    IN  IF IsCluster(x) /\ x \notin Range(s) THEN Append(s, x) ELSE s

LEMMA ClusterFacts ==
    /\ Clusters \subseteq Nat /\ 0 \notin Clusters /\ Free \notin Clusters /\ EOC \notin Clusters
    /\ Free # EOC /\ \A f, x : f \in [Clusters -> Vals] /\ x \in Clusters => f[x] \in Vals
  BY FatAssumption DEF Clusters, Free, EOC, Vals

LEMMA RangeSeq ==
    ASSUME NEW S, NEW s \in Seq(S)
    PROVE  /\ Len(s) \in Nat
           /\ \A x : x \in Range(s) <=> \E i \in 1..Len(s) : x = s[i]
           /\ Range(s) \subseteq S
           /\ s = << >> <=> Len(s) = 0
           /\ \A i \in 1..Len(s) : s[i] \in S /\ s[i] \in Range(s)
  BY DEF Range

LEMMA FurtherType ==
    ASSUME NEW f, NEW s \in Seq(Clusters)
    PROVE  Further(f, s) \in Seq(Clusters)
  BY DEF Further, IsCluster

LEMMA ChainWalk ==
    ASSUME NEW f, NEW c
    PROVE  \E g : /\ Chain(f, c) = g[MaxCluster]
                  /\ g \in [0..MaxCluster -> Seq(Clusters)]
                  /\ g[0] = Start(c)
                  /\ \A k \in 1..MaxCluster : g[k] = Further(f, g[k - 1])
<1> DEFINE T == Seq(Clusters)
           h == [k \in 1..MaxCluster |-> [s \in T |-> Further(f, s)]]
           walk == CHOOSE g : g = [n \in 0..MaxCluster |-> IF n = 0 THEN Start(c) ELSE Further(f, g[n - 1])]
<1>0. MaxCluster \in Nat
  BY FatAssumption
<1>1. Chain(f, c) = walk[MaxCluster]
  BY DEF Chain, Start, Further
<1>2. Start(c) \in T
  BY DEF Start, IsCluster
<1>3. h \in [1..MaxCluster -> [T -> T]]
  BY FurtherType
<1>4. PICK g : Iterates(g, T, Start(c), h, MaxCluster)
  <2> HIDE DEF h, T
  <2> QED BY <1>0, <1>2, <1>3, IterateExists
<1>5. \A k \in 1..MaxCluster : g[k - 1] \in T /\ g[k] = Further(f, g[k - 1])
  <2> SUFFICES ASSUME NEW k \in 1..MaxCluster PROVE g[k - 1] \in T /\ g[k] = Further(f, g[k - 1])
    OBVIOUS
  <2>1. k - 1 \in 0..MaxCluster /\ g[k - 1] \in T
    BY <1>0, <1>4 DEF Iterates
  <2>2. g[k] = h[k][g[k - 1]]
    BY <1>4 DEF Iterates
  <2> QED BY <2>1, <2>2
<1>6. g = [n \in 0..MaxCluster |-> IF n = 0 THEN Start(c) ELSE Further(f, g[n - 1])]
  <2>1. g = [n \in 0..MaxCluster |-> g[n]]
    BY <1>4 DEF Iterates
  <2>2. \A n \in 0..MaxCluster : g[n] = IF n = 0 THEN Start(c) ELSE Further(f, g[n - 1])
    BY <1>0, <1>4, <1>5 DEF Iterates
  <2> HIDE DEF T, h
  <2> QED BY <2>1, <2>2
<1>7. walk = [n \in 0..MaxCluster |-> IF n = 0 THEN Start(c) ELSE Further(f, walk[n - 1])]
  BY <1>6
<1> HIDE DEF walk, h
<1>8. \A k \in 1..MaxCluster : walk[k] = Further(f, walk[k - 1])
  BY <1>0, <1>7
<1>9. walk[0] = Start(c)
  BY <1>0, <1>7
<1>10. \A k \in 0..MaxCluster : walk[k] \in T
  <2> DEFINE S == {k \in Nat : k <= MaxCluster => walk[k] \in T}
  <2>1. 0 \in S
    BY <1>2, <1>9
  <2>2. ASSUME NEW k \in Nat, k \in S PROVE k + 1 \in S
    <3> SUFFICES ASSUME k + 1 <= MaxCluster PROVE walk[k + 1] \in T
      OBVIOUS
    <3>1. walk[k] \in T /\ k + 1 \in 1..MaxCluster /\ (k + 1) - 1 = k
      BY <1>0, <2>2
    <3>2. walk[k + 1] = Further(f, walk[k])
      BY <1>8, <3>1
    <3> QED BY <3>1, <3>2, FurtherType
  <2>3. Nat \subseteq S
    <3> HIDE DEF S
    <3> QED BY <2>1, <2>2, SetInduction
  <2> QED BY <2>3
<1>11. walk \in [0..MaxCluster -> T]
  BY <1>7, <1>10
<1> QED BY <1>1, <1>8, <1>9, <1>11

LEMMA FurtherPath ==
    ASSUME NEW f, NEW c, NEW s, Path(f, c, s)
    PROVE  /\ Path(f, c, Further(f, s))
           /\ \/ Further(f, s) = s /\ Ended(f, s)
              \/ Len(Further(f, s)) = Len(s) + 1
<1>1. s \in Seq(Clusters) /\ Len(s) \in Nat
  BY DEF Path
<1>2. CASE s = << >>
  BY <1>2, ClusterFacts DEF Further, Ended, IsCluster, Path
<1>3. CASE s # << >>
  <2> DEFINE x == f[s[Len(s)]]
             t == Append(s, x)
  <2>1. CASE x \in Clusters /\ x \notin Range(s)
    <3>1. Further(f, s) = t
      BY <1>3, <2>1 DEF Further, IsCluster
    <3>2. /\ t \in Seq(Clusters) /\ Len(t) = Len(s) + 1 /\ t[Len(s) + 1] = x
          /\ \A i \in 1..Len(s) : t[i] = s[i]
      BY <1>1, <2>1
    <3>3. Len(s) >= 1 /\ s[1] = c /\ c \in Clusters
      BY <1>1, <1>3 DEF Path
    <3>4. \A i \in 1..Len(s) : s[i] # x
      BY <1>1, <2>1, RangeSeq
    <3> HIDE DEF t
    <3>5. Once(t)
      <4> SUFFICES ASSUME NEW i \in 1..Len(t), NEW j \in 1..Len(t), t[i] = t[j] PROVE i = j
        BY DEF Once
      <4>1. (i \in 1..Len(s) \/ i = Len(s) + 1) /\ (j \in 1..Len(s) \/ j = Len(s) + 1)
        BY <1>1, <3>2
      <4>2. CASE i \in 1..Len(s) /\ j \in 1..Len(s)
        BY <3>2, <4>2 DEF Path, Once
      <4> QED BY <1>1, <3>2, <3>4, <4>1, <4>2
    <3>6. ASSUME NEW i \in 1..(Len(t) - 1) PROVE f[t[i]] = t[i + 1]
      <4>1. CASE i = Len(s)
        BY <3>2, <4>1
      <4>2. CASE i # Len(s)
        <5>1. i \in 1..(Len(s) - 1) /\ i + 1 \in 1..Len(s) /\ i \in 1..Len(s)
          BY <1>1, <3>2, <4>2
        <5> QED BY <3>2, <5>1 DEF Path
      <4> QED BY <4>1, <4>2
    <3>7. t[1] = c /\ t # << >>
      BY <1>1, <3>2, <3>3
    <3> QED BY <3>1, <3>2, <3>3, <3>5, <3>6, <3>7 DEF Path
  <2>2. CASE ~(x \in Clusters /\ x \notin Range(s))
    BY <1>3, <2>2 DEF Further, IsCluster, Ended
  <2> QED BY <2>1, <2>2
<1> QED BY <1>2, <1>3

(***************************************************************************)
(* The size of an interval from 1.                                         *)
(***************************************************************************)
LEMMA CardUpTo ==
    ASSUME NEW n \in Nat
    PROVE  Cardinality(1..n) = n
<1>1. 1 \in Int /\ n \in Int
  OBVIOUS
<1>2. Cardinality(1..n) = IF 1 > n THEN 0 ELSE n - 1 + 1
  BY <1>1, FS_Interval, Zenon
<1> QED
  BY <1>2

(***************************************************************************)
(* A sequence of different clusters is not longer than there are clusters. *)
(***************************************************************************)
LEMMA OnceShort ==
    ASSUME NEW s \in Seq(Clusters), Once(s)
    PROVE  Len(s) <= MaxCluster
<1>1. s \in Injection(1..Len(s), Clusters)
  BY DEF Injection, IsInjective, Once
<1>2. IsFiniteSet(Clusters) /\ Cardinality(Clusters) = MaxCluster - 1
  BY FatAssumption, FS_Interval DEF Clusters
<1>3. Cardinality(1..Len(s)) <= Cardinality(Clusters)
  BY <1>1, <1>2, FS_Injection
<1>4. Cardinality(1..Len(s)) = Len(s)
  <2>1. Len(s) \in Nat
    OBVIOUS
  <2> QED BY <2>1, CardUpTo, Zenon
<1> QED BY <1>2, <1>3, <1>4, FatAssumption

(***************************************************************************)
(* Chain follows the links to their end.                                   *)
(***************************************************************************)
LEMMA ChainLinks ==
    ASSUME NEW f, NEW c
    PROVE  Links(f, c, Chain(f, c))
<1>0. MaxCluster \in Nat
  BY FatAssumption
<1>1. PICK g : /\ Chain(f, c) = g[MaxCluster]
               /\ g \in [0..MaxCluster -> Seq(Clusters)]
               /\ g[0] = Start(c)
               /\ \A k \in 1..MaxCluster : g[k] = Further(f, g[k - 1])
  BY ChainWalk
<1> DEFINE S == {k \in Nat : k <= MaxCluster => /\ Path(f, c, g[k])
                                                /\ Ended(f, g[k]) \/ Len(g[k]) >= k + 1}
<1>2. 0 \in S
  <2>1. CASE c \in Clusters
    <3>1. g[0] = <<c>>
      BY <1>1, <2>1 DEF Start, IsCluster
    <3>2. /\ g[0] \in Seq(Clusters) /\ Len(g[0]) = 1 /\ g[0][1] = c /\ g[0] # << >>
      BY <2>1, <3>1
    <3>3. Path(f, c, g[0])
      BY <2>1, <3>2 DEF Path, Once
    <3> QED BY <3>2, <3>3
  <2>2. CASE c \notin Clusters
    <3>1. g[0] = << >>
      BY <1>1, <2>2 DEF Start, IsCluster
    <3>2. Path(f, c, g[0]) /\ Ended(f, g[0])
      BY <2>2, <3>1 DEF Path, Once, Ended
    <3> QED BY <3>2
  <2> QED BY <2>1, <2>2
<1>3. ASSUME NEW k \in Nat, k \in S PROVE k + 1 \in S
  <2> SUFFICES ASSUME k + 1 <= MaxCluster
               PROVE  Path(f, c, g[k + 1]) /\ (Ended(f, g[k + 1]) \/ Len(g[k + 1]) >= (k + 1) + 1)
    OBVIOUS
  <2>1. Path(f, c, g[k]) /\ (Ended(f, g[k]) \/ Len(g[k]) >= k + 1)
    BY <1>0, <1>3
  <2>2. g[k + 1] = Further(f, g[k])
    <3>1. k + 1 \in 1..MaxCluster /\ (k + 1) - 1 = k
      BY <1>0
    <3> QED BY <1>1, <3>1
  <2>3. /\ Path(f, c, g[k + 1])
        /\ \/ g[k + 1] = g[k] /\ Ended(f, g[k])
           \/ Len(g[k + 1]) = Len(g[k]) + 1
    BY <2>1, <2>2, FurtherPath
  <2>4. CASE g[k + 1] = g[k] /\ Ended(f, g[k])
    BY <2>3, <2>4
  <2>5. CASE Len(g[k + 1]) = Len(g[k]) + 1
    <3>1. CASE Len(g[k]) >= k + 1
      <4>1. Len(g[k]) \in Nat
        BY <2>1 DEF Path
      <4> QED BY <2>3, <2>5, <3>1, <4>1
    <3>2. CASE Ended(f, g[k])
      <4>1. Further(f, g[k]) = g[k]
        BY <3>2, ClusterFacts DEF Further, Ended, IsCluster
      <4> QED BY <2>2, <2>3, <3>2, <4>1
    <3> QED BY <2>1, <3>1, <3>2
  <2> QED BY <2>3, <2>4, <2>5
<1>4. Nat \subseteq S
  <2> HIDE DEF S
  <2> QED BY <1>2, <1>3, SetInduction
<1>5. Path(f, c, g[MaxCluster]) /\ (Ended(f, g[MaxCluster]) \/ Len(g[MaxCluster]) >= MaxCluster + 1)
  BY <1>0, <1>4
<1>6. ~(Len(g[MaxCluster]) >= MaxCluster + 1)
  <2>1. Len(g[MaxCluster]) <= MaxCluster /\ Len(g[MaxCluster]) \in Nat
    BY <1>5, OnceShort DEF Path
  <2> QED BY <1>0, <2>1
<1> QED BY <1>1, <1>5, <1>6 DEF Links

(***************************************************************************)
(* Whatever follows the links to their end is the chain.                   *)
(***************************************************************************)
LEMMA LinksPrefix ==
    ASSUME NEW f, NEW c, NEW s, NEW t, Links(f, c, s), Links(f, c, t)
    PROVE  \A i \in 1..Len(s) : i <= Len(t) /\ s[i] = t[i]
<1>1. /\ s \in Seq(Clusters) /\ t \in Seq(Clusters) /\ Len(s) \in Nat /\ Len(t) \in Nat
      /\ Once(s) /\ Once(t)
  BY DEF Links, Path
<1> SUFFICES ASSUME s # << >> PROVE \A i \in 1..Len(s) : i <= Len(t) /\ s[i] = t[i]
  BY <1>1
<1> DEFINE S == {k \in Nat : k <= Len(s) => k <= Len(t) /\ \A j \in 1..k : s[j] = t[j]}
<1>2. 0 \in S
  BY <1>1
<1>3. ASSUME NEW k \in Nat, k \in S PROVE k + 1 \in S
  <2> SUFFICES ASSUME k + 1 <= Len(s) PROVE k + 1 <= Len(t) /\ \A j \in 1..(k + 1) : s[j] = t[j]
    OBVIOUS
  <2>1. k <= Len(t) /\ \A j \in 1..k : s[j] = t[j]
    BY <1>1, <1>3
  <2>2. k + 1 <= Len(t) /\ s[k + 1] = t[k + 1]
    <3>1. CASE k = 0
      BY <1>1, <3>1 DEF Links, Path
    <3>2. CASE k # 0
      <4>1. k \in 1..(Len(s) - 1) /\ k \in 1..Len(t) /\ s[k] = t[k] /\ k + 1 \in 1..Len(s)
        BY <1>1, <2>1, <3>2
      <4>2. f[s[k]] = s[k + 1] /\ s[k + 1] \in Clusters
        BY <1>1, <4>1 DEF Links, Path
      <4>3. k # Len(t)
        <5> SUFFICES ASSUME k = Len(t) PROVE FALSE
          OBVIOUS
        <5>1. t # << >> /\ f[t[Len(t)]] = s[k + 1]
          BY <1>1, <4>1, <4>2
        <5>2. s[k + 1] \in Range(t)
          BY <4>2, <5>1 DEF Links, Ended
        <5>3. PICK j \in 1..Len(t) : s[k + 1] = t[j]
          BY <1>1, <5>2, RangeSeq
        <5>4. s[k + 1] = s[j] /\ j \in 1..Len(s)
          BY <1>1, <2>1, <4>1, <5>3
        <5>5. k + 1 = j
          BY <1>1, <4>1, <5>4 DEF Once
        <5> QED BY <1>1, <5>3, <5>5
      <4>4. k \in 1..(Len(t) - 1)
        BY <1>1, <4>1, <4>3
      <4>5. f[t[k]] = t[k + 1]
        BY <4>4 DEF Links, Path
      <4> QED BY <1>1, <4>1, <4>2, <4>4, <4>5
    <3> QED BY <3>1, <3>2
  <2> QED BY <2>1, <2>2
<1>4. Nat \subseteq S
  <2> HIDE DEF S
  <2> QED BY <1>2, <1>3, SetInduction
<1> QED BY <1>1, <1>4

LEMMA LinksChain ==
    ASSUME NEW f, NEW c, NEW s, Links(f, c, s)
    PROVE  Chain(f, c) = s
<1> DEFINE t == Chain(f, c)
<1>1. Links(f, c, t)
  BY ChainLinks
<1> HIDE DEF t
<1>2. /\ s \in Seq(Clusters) /\ t \in Seq(Clusters) /\ Len(s) \in Nat /\ Len(t) \in Nat
  BY <1>1 DEF Links, Path
<1>3. \A i \in 1..Len(s) : i <= Len(t) /\ s[i] = t[i]
  BY <1>1, LinksPrefix
<1>4. \A i \in 1..Len(t) : i <= Len(s) /\ s[i] = t[i]
  BY <1>1, LinksPrefix
<1>5. Len(s) = Len(t)
  <2>1. Len(s) <= Len(t)
    BY <1>2, <1>3
  <2>2. Len(t) <= Len(s)
    BY <1>2, <1>4
  <2> QED BY <1>2, <2>1, <2>2
<1>6. t = s
  BY <1>2, <1>3, <1>5
<1> QED BY <1>6 DEF t

(***************************************************************************)
(* Changes outside a chain leave it alone.                                 *)
(***************************************************************************)
LEMMA ChainFrame ==
    ASSUME NEW f, NEW g, NEW c, \A x \in Range(Chain(f, c)) : g[x] = f[x]
    PROVE  Chain(g, c) = Chain(f, c)
<1> DEFINE s == Chain(f, c)
<1>1. Links(f, c, s)
  BY ChainLinks
<1>2. \A x \in Range(s) : g[x] = f[x]
  OBVIOUS
<1> HIDE DEF s
<1>3. s \in Seq(Clusters) /\ Len(s) \in Nat /\ \A i \in 1..Len(s) : s[i] \in Range(s)
  <2>1. s \in Seq(Clusters)
    BY <1>1 DEF Links, Path
  <2> QED BY <2>1, RangeSeq
<1>4. \A i \in 1..(Len(s) - 1) : g[s[i]] = s[i + 1]
  BY <1>1, <1>2, <1>3 DEF Links, Path
<1>5. Ended(g, s)
  BY <1>1, <1>2, <1>3 DEF Links, Ended
<1>6. Links(g, c, s)
  BY <1>1, <1>4, <1>5 DEF Links, Path
<1>7. Chain(g, c) = s
  BY <1>6, LinksChain
<1> QED BY <1>7 DEF s

(***************************************************************************)
(* A chain that starts outside a set nobody outside points into stays      *)
(* outside.                                                                *)
(***************************************************************************)
LEMMA ChainOutside ==
    ASSUME NEW f, NEW c, NEW T, c \notin T, \A x \in Clusters \ T : f[x] \notin T
    PROVE  Range(Chain(f, c)) \cap T = {}
<1> DEFINE s == Chain(f, c)
<1>1. Links(f, c, s)
  BY ChainLinks
<1> HIDE DEF s
<1>2. s \in Seq(Clusters) /\ Len(s) \in Nat
  BY <1>1 DEF Links, Path
<1> DEFINE S == {k \in Nat : k + 1 <= Len(s) => s[k + 1] \notin T}
<1>3. 0 \in S
  BY <1>1, <1>2 DEF Links, Path
<1>4. ASSUME NEW k \in Nat, k \in S PROVE k + 1 \in S
  <2> SUFFICES ASSUME (k + 1) + 1 <= Len(s) PROVE s[(k + 1) + 1] \notin T
    OBVIOUS
  <2>1. k + 1 \in 1..(Len(s) - 1) /\ s[k + 1] \notin T /\ s[k + 1] \in Clusters
    BY <1>2, <1>4
  <2>2. f[s[k + 1]] = s[(k + 1) + 1]
    BY <1>1, <2>1 DEF Links, Path
  <2> QED BY <2>1, <2>2
<1>5. Nat \subseteq S
  <2> HIDE DEF S
  <2> QED BY <1>3, <1>4, SetInduction
<1>6. ASSUME NEW i \in 1..Len(s) PROVE s[i] \notin T
  <2>1. i - 1 \in Nat /\ (i - 1) + 1 = i
    OBVIOUS
  <2> QED BY <1>2, <1>5, <2>1
<1>7. Range(s) \cap T = {}
  BY <1>2, <1>6, RangeSeq
<1> QED BY <1>7 DEF s

-----------------------------------------------------------------------------
(***************************************************************************)
(* alloc_cluster gives different clusters that were free, and no more than *)
(* it was asked for.                                                       *)
(***************************************************************************)
Gets(f, s) ==
    LET left == {c \in Clusters : IsFree(f[c]) /\ c \notin Range(s)}
    IN  IF left = {} THEN s ELSE Append(s, CHOOSE c \in left : \A x \in left : c <= x)

LEMMA Least ==
    ASSUME NEW L, L \subseteq Nat \ {0}, L # {}
    PROVE  LET m == CHOOSE c \in L : \A x \in L : c <= x IN m \in L /\ \A x \in L : m <= x
<1> DEFINE S == {n \in Nat : \A c \in L : c > n}
<1>1. \E c \in L : \A x \in L : c <= x
  <2> SUFFICES ASSUME \A c \in L : \E x \in L : x < c PROVE FALSE
    OBVIOUS
  <2>1. 0 \in S
    OBVIOUS
  <2>2. ASSUME NEW n \in Nat, n \in S PROVE n + 1 \in S
    <3> SUFFICES ASSUME NEW c \in L PROVE c > n + 1
      OBVIOUS
    <3>1. c \in Nat /\ c > n
      BY <2>2
    <3>2. PICK x \in L : x < c
      OBVIOUS
    <3>3. x \in Nat /\ x > n
      BY <2>2
    <3> QED BY <3>1, <3>2, <3>3
  <2>3. Nat \subseteq S
    <3> HIDE DEF S
    <3> QED BY <2>1, <2>2, SetInduction
  <2>4. PICK c \in L : TRUE
    OBVIOUS
  <2>5. c \in Nat
    OBVIOUS
  <2> QED BY <2>3, <2>5
<1> QED BY <1>1

LEMMA LeastCluster ==
    ASSUME NEW L, L \subseteq Clusters, L # {}
    PROVE  (CHOOSE c \in L : \A x \in L : c <= x) \in L
<1>1. L \subseteq Nat \ {0}
  BY ClusterFacts
<1> QED BY <1>1, Least

Allotted(f, s, n) ==
    /\ s \in Seq(Clusters) /\ Once(s) /\ Len(s) <= n
    /\ \A i \in 1..Len(s) : f[s[i]] = Free

LEMMA GetsAllotted ==
    ASSUME NEW f, NEW s, NEW n \in Nat, Allotted(f, s, n)
    PROVE  Allotted(f, Gets(f, s), n + 1)
<1> DEFINE left == {c \in Clusters : IsFree(f[c]) /\ c \notin Range(s)}
           x == CHOOSE c \in left : \A y \in left : c <= y
           t == Append(s, x)
<1>1. s \in Seq(Clusters) /\ Len(s) \in Nat
  BY DEF Allotted
<1>2. CASE left = {}
  BY <1>1, <1>2 DEF Gets, Allotted
<1>3. CASE left # {}
  <2>1. x \in left
    <3>1. left \subseteq Clusters
      OBVIOUS
    <3> HIDE DEF left
    <3> QED BY <1>3, <3>1, LeastCluster
  <2>2. x \in Clusters /\ f[x] = Free /\ \A i \in 1..Len(s) : s[i] # x
    <3>1. x \in Clusters /\ IsFree(f[x]) /\ x \notin Range(s)
      BY <2>1
    <3> HIDE DEF x
    <3> QED BY <1>1, <3>1, RangeSeq DEF IsFree
  <2>3. Gets(f, s) = t
    BY <1>3 DEF Gets
  <2> HIDE DEF x
  <2>4. /\ t \in Seq(Clusters) /\ Len(t) = Len(s) + 1 /\ t[Len(s) + 1] = x
        /\ \A i \in 1..Len(s) : t[i] = s[i]
    BY <1>1, <2>2
  <2> HIDE DEF t
  <2>5. ASSUME NEW i \in 1..Len(t), NEW j \in 1..Len(t), t[i] = t[j] PROVE i = j
    <3>1. (i \in 1..Len(s) \/ i = Len(s) + 1) /\ (j \in 1..Len(s) \/ j = Len(s) + 1)
      BY <1>1, <2>4
    <3>2. CASE i \in 1..Len(s) /\ j \in 1..Len(s)
      BY <2>4, <2>5, <3>2 DEF Allotted, Once
    <3> QED BY <1>1, <2>2, <2>4, <2>5, <3>1, <3>2
  <2>6. \A i \in 1..Len(t) : f[t[i]] = Free
    <3> SUFFICES ASSUME NEW i \in 1..Len(t) PROVE f[t[i]] = Free
      OBVIOUS
    <3>1. i \in 1..Len(s) \/ i = Len(s) + 1
      BY <1>1, <2>4
    <3> QED BY <2>2, <2>4, <3>1 DEF Allotted
  <2>7. Len(t) <= n + 1
    BY <1>1, <2>4 DEF Allotted
  <2> QED BY <2>3, <2>4, <2>5, <2>6, <2>7 DEF Allotted, Once
<1> QED BY <1>2, <1>3

LEMMA GetsType ==
    ASSUME NEW f, NEW s \in Seq(Clusters)
    PROVE  Gets(f, s) \in Seq(Clusters)
<1> DEFINE left == {c \in Clusters : IsFree(f[c]) /\ c \notin Range(s)}
           x == CHOOSE c \in left : \A y \in left : c <= y
<1>1. CASE left = {}
  BY <1>1 DEF Gets
<1>2. CASE left # {}
  <2>1. x \in left
    <3>1. left \subseteq Clusters
      OBVIOUS
    <3> HIDE DEF left
    <3> QED BY <1>2, <3>1, LeastCluster
  <2>2. Gets(f, s) = Append(s, x) /\ x \in Clusters
    BY <1>2, <2>1 DEF Gets
  <2> HIDE DEF x
  <2> QED BY <2>2
<1> QED BY <1>1, <1>2

LEMMA AllocAllotted ==
    ASSUME NEW f, NEW n \in Nat
    PROVE  Allotted(f, AllocClusters(f, n), n)
<1> DEFINE T == Seq(Clusters)
           h == [k \in 1..n |-> [s \in T |-> Gets(f, s)]]
           got == CHOOSE g : g = [k \in 0..n |-> IF k = 0 THEN << >> ELSE Gets(f, g[k - 1])]
<1>1. AllocClusters(f, n) = got[n]
  BY DEF AllocClusters, Gets
<1>2. << >> \in T
  OBVIOUS
<1>3. h \in [1..n -> [T -> T]]
  BY GetsType
<1>4. PICK g : Iterates(g, T, << >>, h, n)
  <2> HIDE DEF h, T
  <2> QED BY <1>2, <1>3, IterateExists
<1>5. \A k \in 1..n : g[k] = Gets(f, g[k - 1])
  <2> SUFFICES ASSUME NEW k \in 1..n PROVE g[k] = Gets(f, g[k - 1])
    OBVIOUS
  <2>1. k - 1 \in 0..n /\ g[k - 1] \in T
    BY <1>4 DEF Iterates
  <2>2. g[k] = h[k][g[k - 1]]
    BY <1>4 DEF Iterates
  <2> QED BY <2>1, <2>2
<1>6. g = [k \in 0..n |-> IF k = 0 THEN << >> ELSE Gets(f, g[k - 1])]
  <2>1. g = [k \in 0..n |-> g[k]]
    BY <1>4 DEF Iterates
  <2>2. \A k \in 0..n : g[k] = IF k = 0 THEN << >> ELSE Gets(f, g[k - 1])
    BY <1>4, <1>5 DEF Iterates
  <2> HIDE DEF T, h
  <2> QED BY <2>1, <2>2
<1>7. got = [k \in 0..n |-> IF k = 0 THEN << >> ELSE Gets(f, got[k - 1])]
  BY <1>6
<1> HIDE DEF got, h
<1> DEFINE S == {k \in Nat : k <= n => Allotted(f, got[k], k)}
<1>8. 0 \in S
  <2>1. got[0] = << >>
    BY <1>7
  <2>2. Allotted(f, << >>, 0)
    BY DEF Allotted, Once
  <2> QED BY <2>1, <2>2
<1>9. ASSUME NEW k \in Nat, k \in S PROVE k + 1 \in S
  <2> SUFFICES ASSUME k + 1 <= n PROVE Allotted(f, got[k + 1], k + 1)
    OBVIOUS
  <2>1. got[k + 1] = Gets(f, got[k])
    BY <1>7
  <2>2. Allotted(f, got[k], k)
    BY <1>9
  <2> QED BY <2>1, <2>2, GetsAllotted
<1>10. Nat \subseteq S
  <2> HIDE DEF S
  <2> QED BY <1>8, <1>9, SetInduction
<1> QED BY <1>1, <1>10

-----------------------------------------------------------------------------
(***************************************************************************)
(* Bytes, sectors and clusters.                                            *)
(***************************************************************************)
LEMMA Division ==
    ASSUME NEW x \in Nat, NEW b \in Nat \ {0}
    PROVE  /\ x \div b \in Nat /\ (x % b) \in 0..(b - 1)
           /\ x = b * (x \div b) + (x % b)
  OBVIOUS

LEMMA Below ==
    ASSUME NEW x \in Nat, NEW b \in Nat \ {0}, NEW n \in Nat, x < b * n
    PROVE  x \div b < n
<1>1. PICK q : q = x \div b
  OBVIOUS
<1>2. PICK r : r = x % b
  OBVIOUS
<1>3. q \in Nat /\ r \in 0..(b - 1) /\ x = b * q + r
  BY <1>1, <1>2, Division
<1>4. SUFFICES ASSUME q >= n PROVE FALSE
  BY <1>1, <1>3
<1>5. b * q >= b * n
  BY <1>3, <1>4
<1> QED BY <1>3, <1>5

LEMMA RoundUp ==
    ASSUME NEW x \in Nat, NEW b \in Nat \ {0}
    PROVE  /\ (x + b - 1) \div b \in Nat
           /\ x <= b * ((x + b - 1) \div b)
           /\ b * ((x + b - 1) \div b) < x + b
           /\ (x + b - 1) \div b = 0 <=> x = 0
<1>1. PICK q : q = (x + b - 1) \div b
  OBVIOUS
<1>2. PICK r : r = (x + b - 1) % b
  OBVIOUS
<1>3. x + b - 1 \in Nat
  OBVIOUS
<1>4. q \in Nat /\ r \in 0..(b - 1) /\ x + b - 1 = b * q + r
  BY <1>1, <1>2, <1>3, Division
<1>5. x <= b * q /\ b * q < x + b
  BY <1>4
<1>6. q = 0 => b * q = 0
  OBVIOUS
<1>7. q # 0 => b * q >= b
  BY <1>4
<1> QED BY <1>1, <1>4, <1>5, <1>6, <1>7

LEMMA ClusterSizes ==
    /\ SectorSize \in Nat \ {0} /\ SectorsPerCluster \in Nat \ {0} /\ ClusterSize \in Nat \ {0}
    /\ ClusterSize = SectorSize * SectorsPerCluster
<1>1. SectorSize \in Nat \ {0} /\ SectorsPerCluster \in Nat \ {0}
  BY FatAssumption
<1> QED BY <1>1 DEF ClusterSize

(***************************************************************************)
(* The clusters a size is rounded up to hold it, and there are none for an *)
(* empty file only.                                                        *)
(***************************************************************************)
LEMMA ClustersHold ==
    ASSUME NEW z \in Nat
    PROVE  /\ NumClusters(z) \in Nat /\ z <= NumClusters(z) * ClusterSize
           /\ NumClusters(z) = 0 <=> z = 0
<1>1. PICK c : c = ClusterSize
  OBVIOUS
<1>2. c \in Nat \ {0}
  BY <1>1, ClusterSizes
<1>3. PICK q : q = (z + c - 1) \div c
  OBVIOUS
<1>4. q \in Nat /\ z <= c * q /\ (q = 0 <=> z = 0)
  BY <1>2, <1>3, RoundUp
<1>5. NumClusters(z) = q
  BY <1>1, <1>3 DEF NumClusters
<1>6. c * q = q * c
  BY <1>2, <1>4
<1> QED BY <1>1, <1>4, <1>5, <1>6

(***************************************************************************)
(* A byte within n clusters is in one of them.                             *)
(***************************************************************************)
LEMMA InCluster ==
    ASSUME NEW n \in Nat, NEW i \in 1..(n * ClusterSize)
    PROVE  /\ (i - 1) \div SectorSize \in Nat
           /\ ((i - 1) \div SectorSize) \div SectorsPerCluster + 1 \in 1..n
           /\ PlaceAt((i - 1) \div SectorSize) \in Places
<1>1. PICK a : a = SectorSize
  OBVIOUS
<1>2. PICK b : b = SectorsPerCluster
  OBVIOUS
<1>3. /\ a \in Nat \ {0} /\ b \in Nat \ {0} /\ ClusterSize = a * b
  BY <1>1, <1>2, ClusterSizes
<1>4. /\ n * ClusterSize = a * (b * n) /\ b * n \in Nat
      /\ i - 1 \in Nat /\ i - 1 < a * (b * n)
  <2>1. n * (a * b) = a * (b * n) /\ b * n \in Nat /\ a * (b * n) \in Nat
    BY <1>3
  <2> QED BY <1>3, <2>1
<1>5. PICK m : m = b * n
  OBVIOUS
<1>6. PICK k : k = (i - 1) \div a
  OBVIOUS
<1>7. k \in Nat /\ k < m
  BY <1>3, <1>4, <1>5, <1>6, Division, Below
<1>8. k \div b \in Nat /\ k \div b < n /\ (k % b) \in 0..(b - 1)
  BY <1>3, <1>5, <1>7, Division, Below
<1>9. k \div b + 1 \in 1..n
  BY <1>8
<1> QED BY <1>1, <1>2, <1>6, <1>7, <1>8, <1>9 DEF PlaceAt, Places

(***************************************************************************)
(* The sectors of a content are in its clusters, and no two are in the     *)
(* same place.                                                             *)
(***************************************************************************)
LEMMA SectorsFit ==
    ASSUME NEW z \in Nat
    PROVE  /\ NumSectors(z) \in Nat
           /\ \A j \in 1..NumSectors(z) :
                /\ (j - 1) \div SectorsPerCluster + 1 \in 1..NumClusters(z)
                /\ PlaceAt(j - 1) \in Places
           /\ \A i \in 1..z : (i - 1) \div SectorSize + 1 \in 1..NumSectors(z)
<1>1. PICK a : a = SectorSize
  OBVIOUS
<1>2. PICK b : b = SectorsPerCluster
  OBVIOUS
<1>3. a \in Nat \ {0} /\ b \in Nat \ {0} /\ ClusterSize = a * b
  BY <1>1, <1>2, ClusterSizes
<1>4. PICK m : m = (z + a - 1) \div a
  OBVIOUS
<1>5. m \in Nat /\ z <= a * m /\ a * m < z + a
  BY <1>3, <1>4, RoundUp
<1>6. NumSectors(z) = m
  BY <1>1, <1>4 DEF NumSectors
<1>7. PICK q : q = NumClusters(z)
  OBVIOUS
<1>8. q \in Nat /\ z <= q * (a * b)
  BY <1>3, <1>7, ClustersHold
<1>9. ASSUME NEW j \in 1..m PROVE (j - 1) \div b + 1 \in 1..q /\ ((j - 1) % b) \in 0..(b - 1)
  <2>1. a * (j - 1) + a <= a * m
    BY <1>3, <1>5
  <2>2. a * (j - 1) < a * (b * q)
    <3>1. a * (j - 1) < z
      BY <1>3, <1>5, <2>1
    <3>2. q * (a * b) = a * (b * q)
      BY <1>3, <1>8
    <3> QED BY <1>3, <1>5, <1>8, <3>1, <3>2
  <2>3. j - 1 < b * q /\ b * q \in Nat /\ j - 1 \in Nat
    <3>1. b * q \in Nat /\ j - 1 \in Nat
      BY <1>3, <1>8, <1>5
    <3>2. j - 1 >= b * q => a * (j - 1) >= a * (b * q)
      BY <1>3, <3>1
    <3> QED BY <1>3, <2>2, <3>1, <3>2
  <2>4. (j - 1) \div b \in Nat /\ (j - 1) \div b < q /\ ((j - 1) % b) \in 0..(b - 1)
    BY <1>3, <1>8, <2>3, Division, Below
  <2> QED BY <1>8, <2>4
<1>10. ASSUME NEW i \in 1..z PROVE (i - 1) \div a + 1 \in 1..m
  <2>1. i - 1 \in Nat /\ i - 1 < a * m
    BY <1>3, <1>5
  <2>2. (i - 1) \div a \in Nat /\ (i - 1) \div a < m
    BY <1>3, <1>5, <2>1, Division, Below
  <2> QED BY <1>5, <2>2
<1> QED BY <1>1, <1>2, <1>5, <1>6, <1>7, <1>9, <1>10 DEF PlaceAt, Places

LEMMA SamePlace ==
    ASSUME NEW j \in Nat, NEW k \in Nat, PlaceAt(j) = PlaceAt(k),
           j \div SectorsPerCluster = k \div SectorsPerCluster
    PROVE  j = k
<1>1. PICK b : b = SectorsPerCluster
  OBVIOUS
<1>2. b \in Nat \ {0}
  BY <1>1, ClusterSizes
<1>3. j = b * (j \div b) + (j % b) /\ k = b * (k \div b) + (k % b)
  BY <1>2, Division
<1>4. j % b = k % b /\ j \div b = k \div b
  BY <1>1 DEF PlaceAt
<1> QED BY <1>3, <1>4

-----------------------------------------------------------------------------
(***************************************************************************)
(* Disks and sector writes, as values.                                     *)
(***************************************************************************)
Entries == [name : Names \cup {Never, Deleted}, first : {0} \cup Clusters, size : Nat]
Fats    == [1..NUM_FATS -> [Clusters -> Vals]]
Disks   == [fat : Fats, dir : [Slots -> Entries], data : [Clusters -> [Places -> Sectors]]]

MkDisk(f, d, b) == [fat |-> f, dir |-> d, data |-> b]

FatWrites  == [at : {"fat"}, copy : 1..NUM_FATS, cluster : Clusters, value : Vals]
DataSectors == [at : {"data"}, cluster : Clusters, place : Places, value : Sectors]
DirWrites  == [at : {"dir"}, slot : Slots, value : Entries]
Writes     == FatWrites \cup DataSectors \cup DirWrites

WriteTo(d, w) ==
    MkDisk(IF w.at = "fat" THEN [d.fat EXCEPT ![w.copy][w.cluster] = w.value] ELSE d.fat,
           IF w.at = "dir" THEN [d.dir EXCEPT ![w.slot] = w.value] ELSE d.dir,
           IF w.at = "data" THEN [d.data EXCEPT ![w.cluster][w.place] = w.value] ELSE d.data)

(***************************************************************************)
(* The writes ws lead from disk d to disk e, and every disk on the way is  *)
(* in C.                                                                   *)
(***************************************************************************)
Trace(r, d, ws, e, C) ==
    /\ r \in [0..Len(ws) -> C]
    /\ r[0] = d /\ r[Len(ws)] = e
    /\ \A i \in 1..Len(ws) : r[i] = WriteTo(r[i - 1], ws[i])

Runs(d, ws, e, C) == \E r : Trace(r, d, ws, e, C)

LEMMA RunsNone ==
    ASSUME NEW C, NEW d \in C
    PROVE  Runs(d, << >>, d, C)
<1> DEFINE r == [i \in 0..0 |-> d]
<1>1. Trace(r, d, << >>, d, C)
  BY DEF Trace
<1> HIDE DEF r
<1> QED BY <1>1 DEF Runs

LEMMA RunsOne ==
    ASSUME NEW C, NEW d \in C, NEW w, NEW e \in C, e = WriteTo(d, w)
    PROVE  Runs(d, <<w>>, e, C)
<1> DEFINE r == [i \in 0..1 |-> IF i = 0 THEN d ELSE e]
<1>1. /\ r \in [0..1 -> C] /\ r[0] = d /\ r[1] = e
  OBVIOUS
<1>2. Len(<<w>>) = 1 /\ <<w>>[1] = w
  OBVIOUS
<1> HIDE DEF r
<1>3. ASSUME NEW i \in 1..1 PROVE r[i] = WriteTo(r[i - 1], <<w>>[i])
  <2>1. i = 1 /\ i - 1 = 0
    OBVIOUS
  <2> QED BY <1>1, <1>2, <2>1
<1>4. Trace(r, d, <<w>>, e, C)
  BY <1>1, <1>2, <1>3 DEF Trace
<1> QED BY <1>4 DEF Runs

Prolongs(r, p, m, q, n) ==
    (\A i \in 0..m : r[i] = p[i]) /\ \A i \in m..(m + n) : r[i] = q[i - m]

LEMMA TraceThen ==
    ASSUME NEW C, NEW d, NEW e, NEW g, NEW a \in Seq(Writes), NEW b \in Seq(Writes), NEW p, NEW q,
           Trace(p, d, a, e, C), Trace(q, e, b, g, C)
    PROVE  \E r : Trace(r, d, a \o b, g, C) /\ Prolongs(r, p, Len(a), q, Len(b))
<1> DEFINE m == Len(a)
           n == Len(b)
           r == [i \in 0..(m + n) |-> IF i <= m THEN p[i] ELSE q[i - m]]
<1>3. m \in Nat /\ n \in Nat /\ Len(a \o b) = m + n
  OBVIOUS
<1>4. /\ \A i \in 1..m : (a \o b)[i] = a[i]
      /\ \A i \in (m + 1)..(m + n) : (a \o b)[i] = b[i - m]
  OBVIOUS
<1>5. /\ p \in [0..m -> C] /\ p[0] = d /\ p[m] = e
      /\ \A i \in 1..m : p[i] = WriteTo(p[i - 1], a[i])
      /\ q \in [0..n -> C] /\ q[0] = e /\ q[n] = g
      /\ \A i \in 1..n : q[i] = WriteTo(q[i - 1], b[i])
  BY DEF Trace
<1> DEFINE ab == a \o b
<1>6. Len(ab) = m + n /\ (\A i \in 1..m : ab[i] = a[i]) /\ \A i \in (m + 1)..(m + n) : ab[i] = b[i - m]
  BY <1>3, <1>4
<1> HIDE DEF m, n, ab
<1>7. r \in [0..(m + n) -> C]
  <2> SUFFICES ASSUME NEW i \in 0..(m + n) PROVE (IF i <= m THEN p[i] ELSE q[i - m]) \in C
    OBVIOUS
  <2>1. CASE i <= m
    BY <1>3, <1>5, <2>1
  <2>2. CASE ~(i <= m)
    <3>1. i - m \in 0..n
      BY <1>3, <2>2
    <3> QED BY <1>5, <2>2, <3>1
  <2> QED BY <2>1, <2>2
<1>8. \A i \in 0..m : r[i] = p[i]
  BY <1>3
<1>9. \A i \in m..(m + n) : r[i] = q[i - m]
  <2> SUFFICES ASSUME NEW i \in m..(m + n) PROVE r[i] = q[i - m]
    OBVIOUS
  <2>1. CASE i = m
    BY <1>3, <1>5, <2>1
  <2>2. CASE i # m
    BY <1>3, <2>2
  <2> QED BY <2>1, <2>2
<1> HIDE DEF r
<1>10. ASSUME NEW i \in 1..(m + n) PROVE r[i] = WriteTo(r[i - 1], ab[i])
  <2>1. CASE i <= m
    <3>1. i \in 1..m /\ i - 1 \in 0..m /\ i \in 0..m
      BY <1>3, <2>1
    <3> QED BY <1>5, <1>6, <1>8, <3>1
  <2>2. CASE ~(i <= m)
    <3>1. i - m \in 1..n /\ i - 1 \in m..(m + n) /\ i \in m..(m + n) /\ i \in (m + 1)..(m + n)
          /\ (i - 1) - m = (i - m) - 1
      BY <1>3, <2>2
    <3> QED BY <1>5, <1>6, <1>9, <3>1
  <2> QED BY <2>1, <2>2
<1>11. r[0] = d /\ r[m + n] = g
  <2>1. 0 \in 0..m /\ m + n \in m..(m + n) /\ (m + n) - m = n
    BY <1>3
  <2> QED BY <1>5, <1>8, <1>9, <2>1
<1>12. Trace(r, d, ab, g, C)
  BY <1>6, <1>7, <1>10, <1>11 DEF Trace
<1>13. Prolongs(r, p, m, q, n)
  BY <1>8, <1>9 DEF Prolongs
<1> QED BY <1>12, <1>13 DEF ab, m, n

LEMMA RunsThen ==
    ASSUME NEW C, NEW d, NEW e, NEW g, NEW a \in Seq(Writes), NEW b \in Seq(Writes),
           Runs(d, a, e, C), Runs(e, b, g, C)
    PROVE  Runs(d, a \o b, g, C)
<1>1. PICK p : Trace(p, d, a, e, C)
  BY DEF Runs
<1>2. PICK q : Trace(q, e, b, g, C)
  BY DEF Runs
<1> QED BY <1>1, <1>2, TraceThen DEF Runs

(***************************************************************************)
(* A sequence of groups of writes.                                         *)
(***************************************************************************)
Groups(ss, N, T) ==
    /\ N \in Nat /\ Len(ss) = N /\ (N = 0 => ss = << >>)
    /\ \A k \in 1..N : ss[k] \in Seq(T)

Joins(cat, ss, N, T) ==
    /\ cat \in [0..N -> Seq(T)] /\ cat[0] = << >>
    /\ \A k \in 1..N : cat[k] = cat[k - 1] \o ss[k]
    /\ FlattenSeq(ss) = cat[N]

LEMMA FlattenWalk ==
    ASSUME NEW T, NEW ss, NEW N, Groups(ss, N, T)
    PROVE  \E cat : Joins(cat, ss, N, T)
<1> DEFINE Q == Seq(T)
           h == [k \in 1..N |-> [s \in Q |-> s \o ss[k]]]
           flat == CHOOSE g : g = [i \in 1..N |-> IF i = 1 THEN ss[i] ELSE g[i - 1] \o ss[i]]
<1>0. N \in Nat /\ Len(ss) = N /\ (N = 0 => ss = << >>) /\ \A k \in 1..N : ss[k] \in Seq(T)
  BY DEF Groups
<1>1. h \in [1..N -> [Q -> Q]]
  BY <1>0
<1>2. PICK g : Iterates(g, Q, << >>, h, N)
  <2>1. << >> \in Q
    OBVIOUS
  <2> HIDE DEF h, Q
  <2> QED BY <1>0, <1>1, <2>1, IterateExists
<1>3. \A k \in 1..N : g[k] = g[k - 1] \o ss[k]
  <2> SUFFICES ASSUME NEW k \in 1..N PROVE g[k] = g[k - 1] \o ss[k]
    OBVIOUS
  <2>1. k - 1 \in 0..N /\ g[k - 1] \in Q
    BY <1>0, <1>2 DEF Iterates
  <2>2. g[k] = h[k][g[k - 1]]
    BY <1>2 DEF Iterates
  <2> QED BY <2>1, <2>2
<1>4. g \in [0..N -> Q] /\ g[0] = << >>
  BY <1>2 DEF Iterates
<1>5. CASE N = 0
  <2>1. FlattenSeq(ss) = << >>
    BY <1>0, <1>5 DEF FlattenSeq
  <2> HIDE DEF h, flat
  <2>2. Joins(g, ss, N, T)
    BY <1>3, <1>4, <1>5, <2>1 DEF Joins
  <2> QED BY <2>2
<1>6. CASE N # 0
  <2>1. FlattenSeq(ss) = flat[N]
    BY <1>0, <1>6 DEF FlattenSeq
  <2>0. g[1] = ss[1]
    <3>1. 1 \in 1..N /\ 1 - 1 = 0
      BY <1>0, <1>6
    <3>2. g[1] = << >> \o ss[1] /\ ss[1] \in Seq(T)
      BY <1>0, <1>3, <1>4, <3>1
    <3> HIDE DEF h, flat
    <3> QED BY <3>2
  <2> DEFINE k == [i \in 1..N |-> g[i]]
  <2>2. \A i \in 1..N : k[i] = IF i = 1 THEN ss[i] ELSE k[i - 1] \o ss[i]
    <3> SUFFICES ASSUME NEW i \in 1..N PROVE k[i] = IF i = 1 THEN ss[i] ELSE k[i - 1] \o ss[i]
      OBVIOUS
    <3>1. CASE i = 1
      <4> QED BY <2>0, <3>1
    <3>2. CASE i # 1
      <4>1. i - 1 \in 1..N
        BY <1>0, <3>2
      <4> QED BY <1>3, <3>2, <4>1
    <3> QED BY <3>1, <3>2
  <2>3. k = [i \in 1..N |-> IF i = 1 THEN ss[i] ELSE k[i - 1] \o ss[i]]
    <3>1. k = [i \in 1..N |-> k[i]]
      OBVIOUS
    <3> HIDE DEF k
    <3> QED BY <2>2, <3>1
  <2>4. flat = [i \in 1..N |-> IF i = 1 THEN ss[i] ELSE flat[i - 1] \o ss[i]]
    <3> HIDE DEF k
    <3> QED BY <2>3
  <2> HIDE DEF flat, h
  <2>5. \A i \in 1..N : flat[i] = g[i]
    <3> DEFINE S == {j \in Nat : j + 1 <= N => flat[j + 1] = g[j + 1]}
    <3>1. 0 \in S
      <4>1. 1 \in 1..N
        BY <1>0, <1>6
      <4>2. flat[1] = ss[1]
        BY <2>4, <4>1
      <4> QED BY <2>0, <4>2
    <3>2. ASSUME NEW j \in Nat, j \in S PROVE j + 1 \in S
      <4> SUFFICES ASSUME (j + 1) + 1 <= N PROVE flat[(j + 1) + 1] = g[(j + 1) + 1]
        OBVIOUS
      <4>0. PICK i : i = (j + 1) + 1
        OBVIOUS
      <4>1. i \in 1..N /\ i # 1 /\ i - 1 = j + 1 /\ j + 1 <= N
        BY <1>0, <4>0
      <4>2. flat[i] = flat[i - 1] \o ss[i]
        BY <2>4, <4>1
      <4>3. g[i] = g[i - 1] \o ss[i]
        BY <1>3, <4>1
      <4>4. flat[j + 1] = g[j + 1]
        BY <3>2, <4>1
      <4> QED BY <4>0, <4>1, <4>2, <4>3, <4>4
    <3>3. Nat \subseteq S
      <4> HIDE DEF S
      <4> QED BY <3>1, <3>2, SetInduction
    <3> SUFFICES ASSUME NEW i \in 1..N PROVE flat[i] = g[i]
      OBVIOUS
    <3>4. i - 1 \in S /\ (i - 1) + 1 = i /\ i <= N
      <4> HIDE DEF S
      <4> QED BY <1>0, <3>3
    <3> QED BY <3>4
  <2>6. FlattenSeq(ss) = g[N]
    BY <1>0, <1>6, <2>1, <2>5
  <2>7. Joins(g, ss, N, T)
    BY <1>3, <1>4, <2>6 DEF Joins
  <2> QED BY <2>7
<1> QED BY <1>5, <1>6

LEMMA RunsFlat ==
    ASSUME NEW C, NEW ss, NEW D, NEW N \in Nat, Groups(ss, N, Writes), D[0] \in C,
           \A k \in 1..N : Runs(D[k - 1], ss[k], D[k], C)
    PROVE  FlattenSeq(ss) \in Seq(Writes) /\ Runs(D[0], FlattenSeq(ss), D[N], C)
<1>0. PICK cat : Joins(cat, ss, N, Writes)
  BY FlattenWalk
<1>1. /\ cat \in [0..N -> Seq(Writes)] /\ cat[0] = << >>
      /\ \A k \in 1..N : cat[k] = cat[k - 1] \o ss[k]
      /\ FlattenSeq(ss) = cat[N]
  BY <1>0 DEF Joins
<1> DEFINE S == {k \in Nat : k <= N => Runs(D[0], cat[k], D[k], C)}
<1>2. 0 \in S
  BY <1>1, RunsNone
<1>3. ASSUME NEW k \in Nat, k \in S PROVE k + 1 \in S
  <2> SUFFICES ASSUME k + 1 <= N PROVE Runs(D[0], cat[k + 1], D[k + 1], C)
    OBVIOUS
  <2>1. k + 1 \in 1..N /\ (k + 1) - 1 = k /\ k \in 0..N
    OBVIOUS
  <2>2. cat[k + 1] = cat[k] \o ss[k + 1] /\ cat[k] \in Seq(Writes) /\ ss[k + 1] \in Seq(Writes)
    BY <1>1, <2>1 DEF Groups
  <2>3. Runs(D[0], cat[k], D[k], C) /\ Runs(D[k], ss[k + 1], D[k + 1], C)
    BY <1>3, <2>1
  <2> QED BY <2>2, <2>3, RunsThen
<1>4. Nat \subseteq S
  <2> HIDE DEF S
  <2> QED BY <1>2, <1>3, SetInduction
<1>5. Runs(D[0], cat[N], D[N], C) /\ cat[N] \in Seq(Writes)
  BY <1>1, <1>4
<1> QED BY <1>1, <1>5

-----------------------------------------------------------------------------
(***************************************************************************)
(* What makes a disk fine, the files named in X excepted: no name is in    *)
(* the directory twice or behind its end; every other file has a chain of  *)
(* its own that ends where it should; nothing outside these chains leads   *)
(* into them; and every other file reads as e says.                        *)
(***************************************************************************)
Typed(d) == d \in Disks /\ \A s \in Slots : d.dir[s].size = 0 <=> d.dir[s].first = 0

DirOK(t) ==
    \A s, r \in Slots : t[s].name \in Names => /\ r < s => t[r].name # Never
                                               /\ r # s => t[r].name # t[s].name

FilesOf(d, X) == {s \in Slots : d.dir[s].name \in Names \ X}

ChainOf(d, s) == Chain(d.fat[1], d.dir[s].first)

Taken(d, X) == {x \in Clusters : \E s \in FilesOf(d, X) : x \in Range(ChainOf(d, s))}

Proper(d, X) ==
    \A s \in FilesOf(d, X) :
        /\ Len(ChainOf(d, s)) = NumClusters(d.dir[s].size)
        /\ ChainOf(d, s) # << >> => d.fat[1][ChainOf(d, s)[Len(ChainOf(d, s))]] = EOC

Apart(d, X) ==
    \A s, r \in FilesOf(d, X) : s # r => Range(ChainOf(d, s)) \cap Range(ChainOf(d, r)) = {}

Closed(d, X) ==
    /\ \A x \in Clusters \ Taken(d, X) : d.fat[1][x] \notin Taken(d, X)
    /\ \A s \in Slots : d.dir[s].name \in Names \cap X => d.dir[s].first \notin Taken(d, X)

Shorter(m, n) == IF m < n THEN m ELSE n

Content(d, s) ==
    [i \in 1..Shorter(Len(ChainOf(d, s)) * ClusterSize, d.dir[s].size) |->
        ByteAt(d.data, ChainOf(d, s), i)]

ReadIn(d, n) ==
    IF \E s \in Slots : Holds(d.dir, n, s)
    THEN Content(d, CHOOSE s \in Slots : Holds(d.dir, n, s))
    ELSE NoFile

Reads(d, X, e) == \A n \in Names \ X : ReadIn(d, n) = e[n]

Fine(d, X, e) ==
    Typed(d) /\ DirOK(d.dir) /\ Proper(d, X) /\ Apart(d, X) /\ Closed(d, X) /\ Reads(d, X, e)

LEMMA SlotFacts == Slots \subseteq Nat /\ 1 \in 1..NUM_FATS /\ NUM_FATS \in Nat
  BY FatAssumption DEF Slots

LEMMA DiskFacts ==
    ASSUME NEW d \in Disks
    PROVE  /\ d.fat \in Fats /\ d.fat[1] \in [Clusters -> Vals]
           /\ d.dir \in [Slots -> Entries] /\ d.data \in [Clusters -> [Places -> Sectors]]
           /\ d = MkDisk(d.fat, d.dir, d.data)
  BY SlotFacts DEF Disks, Fats, MkDisk

LEMMA MkFields ==
    ASSUME NEW f, NEW t, NEW b
    PROVE  MkDisk(f, t, b).fat = f /\ MkDisk(f, t, b).dir = t /\ MkDisk(f, t, b).data = b
  BY DEF MkDisk

LEMMA MkTyped ==
    ASSUME NEW f \in Fats, NEW t \in [Slots -> Entries], NEW b \in [Clusters -> [Places -> Sectors]]
    PROVE  MkDisk(f, t, b) \in Disks
  BY DEF MkDisk, Disks

LEMMA ChainFacts ==
    ASSUME NEW f, NEW c
    PROVE  /\ Chain(f, c) \in Seq(Clusters) /\ Len(Chain(f, c)) \in Nat /\ Once(Chain(f, c))
           /\ \A x : x \in Range(Chain(f, c)) <=> \E i \in 1..Len(Chain(f, c)) : x = Chain(f, c)[i]
           /\ Range(Chain(f, c)) \subseteq Clusters
           /\ Chain(f, c) = << >> <=> Len(Chain(f, c)) = 0
           /\ \A i \in 1..Len(Chain(f, c)) : Chain(f, c)[i] \in Clusters /\ Chain(f, c)[i] \in Range(Chain(f, c))
<1> DEFINE s == Chain(f, c)
<1>1. s \in Seq(Clusters) /\ Once(s)
  BY ChainLinks DEF Links, Path
<1> HIDE DEF s
<1>2. /\ Len(s) \in Nat
      /\ \A x : x \in Range(s) <=> \E i \in 1..Len(s) : x = s[i]
      /\ Range(s) \subseteq Clusters
      /\ s = << >> <=> Len(s) = 0
      /\ \A i \in 1..Len(s) : s[i] \in Clusters /\ s[i] \in Range(s)
  BY <1>1, RangeSeq
<1> QED BY <1>1, <1>2 DEF s

(***************************************************************************)
(* In a directory without hidden or double names the slot of a name is the *)
(* one that find_root_entry finds.                                         *)
(***************************************************************************)
LEMMA HoldsSlot ==
    ASSUME NEW t, DirOK(t), NEW n \in Names
    PROVE  /\ \A s \in Slots : Holds(t, n, s) <=> t[s].name = n
           /\ \A s, r \in Slots : t[s].name = n /\ t[r].name = n => s = r
<1>1. ASSUME NEW s \in Slots, NEW r \in Slots, t[s].name = n, t[r].name = n PROVE s = r
  BY <1>1 DEF DirOK
<1>2. ASSUME NEW s \in Slots, t[s].name = n PROVE Holds(t, n, s)
  <2> SUFFICES ASSUME NEW r \in Slots, r < s PROVE t[r].name \notin {n, Never}
    BY <1>2 DEF Holds
  <2>1. r # s
    BY SlotFacts
  <2> QED BY <1>2, <2>1 DEF DirOK
<1>3. \A s \in Slots : Holds(t, n, s) => t[s].name = n
  BY DEF Holds
<1> QED BY <1>1, <1>2, <1>3

LEMMA ReadSlot ==
    ASSUME NEW d, DirOK(d.dir), NEW n \in Names
    PROVE  /\ \A s \in Slots : d.dir[s].name = n => ReadIn(d, n) = Content(d, s)
           /\ (\A s \in Slots : d.dir[s].name # n) => ReadIn(d, n) = NoFile
<1>1. /\ \A s \in Slots : Holds(d.dir, n, s) <=> d.dir[s].name = n
      /\ \A s, r \in Slots : d.dir[s].name = n /\ d.dir[r].name = n => s = r
  BY HoldsSlot
<1>2. ASSUME NEW s \in Slots, d.dir[s].name = n PROVE ReadIn(d, n) = Content(d, s)
  <2>1. s = CHOOSE x \in Slots : Holds(d.dir, n, x)
    BY <1>1, <1>2
  <2>2. \E x \in Slots : Holds(d.dir, n, x)
    BY <1>1, <1>2
  <2> QED BY <2>1, <2>2, Zenon DEF ReadIn
<1>3. ASSUME \A s \in Slots : d.dir[s].name # n PROVE ReadIn(d, n) = NoFile
  BY <1>1, <1>3 DEF ReadIn
<1> QED BY <1>2, <1>3

(***************************************************************************)
(* A disk g that differs from d in nothing the files outside X rest on.    *)
(***************************************************************************)
Frames(d, g, X) ==
    /\ Typed(g) /\ DirOK(g.dir)
    /\ \A s \in Slots : d.dir[s].name \in Names \ X \/ g.dir[s].name \in Names \ X => g.dir[s] = d.dir[s]
    /\ \A x \in Taken(d, X) : g.fat[1][x] = d.fat[1][x] /\ g.data[x] = d.data[x]
    /\ \A x \in Clusters \ Taken(d, X) : g.fat[1][x] \notin Taken(d, X)
    /\ \A s \in Slots : g.dir[s].name \in Names \cap X => g.dir[s].first \notin Taken(d, X)

LEMMA FrameFine ==
    ASSUME NEW d, NEW g, NEW X, NEW e, Fine(d, X, e), Frames(d, g, X)
    PROVE  Fine(g, X, e) /\ Taken(g, X) = Taken(d, X)
<1>1. FilesOf(g, X) = FilesOf(d, X) /\ \A s \in FilesOf(d, X) : g.dir[s] = d.dir[s]
  BY DEF Frames, FilesOf
<1>2. \A s \in FilesOf(d, X) : \A x \in Range(ChainOf(d, s)) : x \in Taken(d, X)
  BY ChainFacts DEF Taken, ChainOf
<1>3. ASSUME NEW s \in FilesOf(d, X) PROVE ChainOf(g, s) = ChainOf(d, s)
  <2>1. \A x \in Range(Chain(d.fat[1], d.dir[s].first)) : g.fat[1][x] = d.fat[1][x]
    BY <1>2 DEF Frames, ChainOf
  <2>2. Chain(g.fat[1], d.dir[s].first) = Chain(d.fat[1], d.dir[s].first)
    BY <2>1, ChainFrame
  <2> QED BY <1>1, <2>2 DEF ChainOf
<1>4. Taken(g, X) = Taken(d, X)
  BY <1>1, <1>3 DEF Taken
<1>5. Proper(g, X)
  <2> SUFFICES ASSUME NEW s \in FilesOf(d, X)
               PROVE  /\ Len(ChainOf(g, s)) = NumClusters(g.dir[s].size)
                      /\ ChainOf(g, s) # << >> => g.fat[1][ChainOf(g, s)[Len(ChainOf(g, s))]] = EOC
    BY <1>1 DEF Proper
  <2>1. Len(ChainOf(d, s)) = NumClusters(d.dir[s].size)
    BY DEF Fine, Proper
  <2>2. ASSUME ChainOf(d, s) # << >> PROVE g.fat[1][ChainOf(d, s)[Len(ChainOf(d, s))]] = EOC
    <3> DEFINE x == ChainOf(d, s)[Len(ChainOf(d, s))]
    <3>1. x \in Range(ChainOf(d, s))
      BY <2>2, ChainFacts DEF ChainOf
    <3>2. d.fat[1][x] = EOC
      BY <2>2 DEF Fine, Proper
    <3> QED BY <1>2, <3>1, <3>2 DEF Frames
  <2> QED BY <1>1, <1>3, <2>1, <2>2
<1>6. Apart(g, X)
  BY <1>1, <1>3 DEF Fine, Apart
<1>7. Closed(g, X)
  BY <1>4 DEF Frames, Closed
<1>8. Reads(g, X, e)
  <2> SUFFICES ASSUME NEW n \in Names \ X PROVE ReadIn(g, n) = e[n]
    BY DEF Reads
  <2>1. ReadIn(d, n) = e[n] /\ DirOK(d.dir) /\ DirOK(g.dir)
    BY DEF Fine, Reads, Frames
  <2>2. CASE \E s \in Slots : d.dir[s].name = n
    <3>1. PICK s \in Slots : d.dir[s].name = n
      BY <2>2
    <3>2. s \in FilesOf(d, X) /\ g.dir[s] = d.dir[s]
      BY <1>1, <3>1 DEF FilesOf
    <3>3. ReadIn(g, n) = Content(g, s) /\ ReadIn(d, n) = Content(d, s)
      BY <2>1, <3>1, <3>2, ReadSlot
    <3>4. \A i \in 1..Len(ChainOf(d, s)) : g.data[ChainOf(d, s)[i]] = d.data[ChainOf(d, s)[i]]
      <4> SUFFICES ASSUME NEW i \in 1..Len(ChainOf(d, s)) PROVE g.data[ChainOf(d, s)[i]] = d.data[ChainOf(d, s)[i]]
        OBVIOUS
      <4>1. ChainOf(d, s)[i] \in Range(ChainOf(d, s))
        BY ChainFacts DEF ChainOf
      <4> QED BY <1>2, <3>2, <4>1 DEF Frames
    <3>5. PICK ch : ch = ChainOf(d, s)
      OBVIOUS
    <3>6. PICK z : z = Shorter(Len(ch) * ClusterSize, d.dir[s].size)
      OBVIOUS
    <3>7. Len(ch) \in Nat /\ d.dir[s].size \in Nat
      <4>1. d.dir[s] \in Entries
        BY <3>1, DiskFacts DEF Fine, Typed
      <4> QED BY <3>5, <4>1, ChainFacts DEF ChainOf, Entries
    <3>8. ASSUME NEW i \in 1..z PROVE ByteAt(g.data, ch, i) = ByteAt(d.data, ch, i)
      <4>1. Len(ch) * ClusterSize \in Nat
        BY <3>7, ClusterSizes
      <4>2. i \in 1..(Len(ch) * ClusterSize)
        BY <3>6, <3>7, <4>1 DEF Shorter
      <4>3. PICK m : m = ((i - 1) \div SectorSize) \div SectorsPerCluster + 1
        OBVIOUS
      <4>4. m \in 1..Len(ch)
        BY <3>7, <4>2, <4>3, InCluster
      <4>5. g.data[ch[m]] = d.data[ch[m]]
        BY <3>4, <3>5, <4>4
      <4> QED BY <4>3, <4>5 DEF ByteAt, ClusterAt
    <3>9. Content(g, s) = [i \in 1..z |-> ByteAt(g.data, ch, i)]
          /\ Content(d, s) = [i \in 1..z |-> ByteAt(d.data, ch, i)]
      BY <1>3, <3>2, <3>5, <3>6 DEF Content
    <3>10. Content(g, s) = Content(d, s)
      BY <3>8, <3>9
    <3> QED BY <2>1, <3>3, <3>10
  <2>3. CASE ~ \E s \in Slots : d.dir[s].name = n
    <3>1. \A s \in Slots : g.dir[s].name # n
      BY <2>3 DEF Frames
    <3> QED BY <2>1, <2>3, <3>1, ReadSlot
  <2> QED BY <2>2, <2>3
<1> QED BY <1>4, <1>5, <1>6, <1>7, <1>8 DEF Fine, Frames

(***************************************************************************)
(* A cluster in use leads on within its chain.                             *)
(***************************************************************************)
LEMMA ChainLeadsOn ==
    ASSUME NEW d, NEW X, Proper(d, X), NEW s \in FilesOf(d, X), NEW x \in Range(ChainOf(d, s))
    PROVE  d.fat[1][x] \in Range(ChainOf(d, s)) \cup {EOC} /\ d.fat[1][x] # Free
<1> DEFINE c == d.dir[s].first
           f == d.fat[1]
           ch == Chain(f, c)
<1>1. ChainOf(d, s) = ch
  BY DEF ChainOf
<1>2. Links(f, c, ch)
  BY ChainLinks
<1>3. ch # << >> => f[ch[Len(ch)]] = EOC
  BY <1>1 DEF Proper
<1>4. ch \in Seq(Clusters) /\ Len(ch) \in Nat /\ \A i \in 1..Len(ch) : ch[i] \in Range(ch) /\ ch[i] \in Clusters
  BY ChainFacts
<1>5. PICK i \in 1..Len(ch) : x = ch[i]
  BY <1>1, ChainFacts
<1> HIDE DEF ch
<1>6. CASE i = Len(ch)
  BY <1>1, <1>3, <1>4, <1>5, <1>6, ClusterFacts
<1>7. CASE i # Len(ch)
  <2>1. i \in 1..(Len(ch) - 1) /\ i + 1 \in 1..Len(ch)
    BY <1>4, <1>7
  <2>2. f[x] = ch[i + 1]
    BY <1>2, <1>5, <2>1 DEF Links, Path
  <2> QED BY <1>1, <1>4, <2>1, <2>2, ClusterFacts
<1> QED BY <1>6, <1>7

LEMMA TakenLeadsOn ==
    ASSUME NEW d, NEW X, NEW e, Fine(d, X, e), NEW x \in Taken(d, X)
    PROVE  d.fat[1][x] \in Taken(d, X) \cup {EOC} /\ d.fat[1][x] # Free
<1>1. PICK s \in FilesOf(d, X) : x \in Range(ChainOf(d, s))
  BY DEF Taken
<1>2. d.fat[1][x] \in Range(ChainOf(d, s)) \cup {EOC} /\ d.fat[1][x] # Free
  BY <1>1, ChainLeadsOn DEF Fine
<1>3. Range(ChainOf(d, s)) \subseteq Taken(d, X)
  BY ChainFacts DEF Taken, ChainOf
<1> QED BY <1>2, <1>3

(***************************************************************************)
(* One more exception, or one less.                                        *)
(***************************************************************************)
LEMMA DeleteOutside ==
    ASSUME NEW d, NEW X, NEW e, Fine(d, X, e), NEW n \in Names, NEW s \in Slots, d.dir[s].name = n
    PROVE  Range(ChainOf(d, s)) \cap Taken(d, X \cup {n}) = {}
<1>1. CASE n \in X
  <2>1. X \cup {n} = X
    BY <1>1
  <2>2. d.dir[s].first \notin Taken(d, X) /\ \A x \in Clusters \ Taken(d, X) : d.fat[1][x] \notin Taken(d, X)
    BY <1>1 DEF Fine, Closed
  <2> QED BY <2>1, <2>2, ChainOutside DEF ChainOf
<1>2. CASE n \notin X
  <2>1. s \in FilesOf(d, X)
    BY <1>2 DEF FilesOf
  <2>2. \A r \in FilesOf(d, X \cup {n}) : r \in FilesOf(d, X) /\ r # s
    BY DEF FilesOf
  <2>3. \A r \in FilesOf(d, X \cup {n}) : Range(ChainOf(d, s)) \cap Range(ChainOf(d, r)) = {}
    BY <2>1, <2>2 DEF Fine, Apart
  <2> QED BY <2>3 DEF Taken
<1> QED BY <1>1, <1>2

LEMMA FineMore ==
    ASSUME NEW d, NEW X, NEW e, Fine(d, X, e), NEW n \in Names
    PROVE  Fine(d, X \cup {n}, e)
<1> DEFINE Y == X \cup {n}
<1>1. FilesOf(d, Y) \subseteq FilesOf(d, X) /\ Taken(d, Y) \subseteq Taken(d, X)
  BY DEF FilesOf, Taken
<1>2. Proper(d, Y) /\ Apart(d, Y)
  BY <1>1 DEF Fine, Proper, Apart
<1>3. ASSUME NEW x \in Clusters \ Taken(d, Y) PROVE d.fat[1][x] \notin Taken(d, Y)
  <2>1. CASE x \notin Taken(d, X)
    BY <1>1, <2>1 DEF Fine, Closed
  <2>2. CASE x \in Taken(d, X)
    <3>1. PICK s \in FilesOf(d, X) : x \in Range(ChainOf(d, s))
      BY <2>2 DEF Taken
    <3>2. s \in Slots /\ d.dir[s].name = n
      BY <1>3, <3>1 DEF Taken, FilesOf
    <3>3. Range(ChainOf(d, s)) \cap Taken(d, Y) = {}
      BY <3>2, DeleteOutside
    <3>4. d.fat[1][x] \in Range(ChainOf(d, s)) \cup {EOC}
      BY <3>1, ChainLeadsOn DEF Fine
    <3>5. EOC \notin Taken(d, Y)
      BY ClusterFacts DEF Taken
    <3> QED BY <3>3, <3>4, <3>5
  <2> QED BY <2>1, <2>2
<1>4. ASSUME NEW s \in Slots, d.dir[s].name \in Names \cap Y PROVE d.dir[s].first \notin Taken(d, Y)
  <2>1. CASE d.dir[s].name \in X
    BY <1>1, <1>4, <2>1 DEF Fine, Closed
  <2>2. CASE d.dir[s].name = n
    <3>1. Range(ChainOf(d, s)) \cap Taken(d, Y) = {}
      BY <2>2, DeleteOutside
    <3> SUFFICES ASSUME d.dir[s].first \in Clusters PROVE d.dir[s].first \in Range(ChainOf(d, s))
      BY <3>1 DEF Taken
    <3>2. ChainOf(d, s) # << >> /\ ChainOf(d, s)[1] = d.dir[s].first
      BY ChainLinks DEF ChainOf, Links, Path
    <3>3. 1 \in 1..Len(ChainOf(d, s))
      BY <3>2, ChainFacts DEF ChainOf
    <3> QED BY <3>2, <3>3, ChainFacts DEF ChainOf
  <2> QED BY <1>4, <2>1, <2>2
<1>5. Closed(d, Y)
  BY <1>3, <1>4 DEF Closed
<1>6. Reads(d, Y, e)
  BY DEF Fine, Reads
<1> QED BY <1>2, <1>5, <1>6 DEF Fine

LEMMA FineExpect ==
    ASSUME NEW d, NEW X, NEW e, NEW g, Fine(d, X, e), \A m \in Names \ X : g[m] = e[m]
    PROVE  Fine(d, X, g)
  BY DEF Fine, Reads

LEMMA FineDrop ==
    ASSUME NEW d, NEW X, NEW n \in Names, NEW e, NEW g, Fine(d, X \cup {n}, e),
           \A s \in Slots : d.dir[s].name # n,
           g[n] = NoFile, \A m \in Names \ {n} : g[m] = e[m]
    PROVE  Fine(d, X, g)
<1>1. FilesOf(d, X) = FilesOf(d, X \cup {n})
  BY DEF FilesOf
<1>2. Taken(d, X) = Taken(d, X \cup {n})
  BY <1>1 DEF Taken
<1>3. Proper(d, X) /\ Apart(d, X) /\ Closed(d, X)
  BY <1>1, <1>2 DEF Fine, Proper, Apart, Closed
<1>4. ReadIn(d, n) = NoFile
  BY ReadSlot DEF Fine
<1>5. Reads(d, X, g)
  BY <1>4 DEF Fine, Reads
<1> QED BY <1>3, <1>5 DEF Fine

(***************************************************************************)
(* A new file n, when there are no exceptions besides.                     *)
(***************************************************************************)
NewFile(d, n, s) ==
    /\ s \in Slots /\ d.dir[s].name = n
    /\ Len(ChainOf(d, s)) = NumClusters(d.dir[s].size)
    /\ ChainOf(d, s) # << >> => d.fat[1][ChainOf(d, s)[Len(ChainOf(d, s))]] = EOC
    /\ Range(ChainOf(d, s)) \cap Taken(d, {n}) = {}
    /\ \A x \in Clusters \ Range(ChainOf(d, s)) : d.fat[1][x] \notin Range(ChainOf(d, s))

LEMMA FineAdd ==
    ASSUME NEW d, NEW n \in Names, NEW s, NEW e, NEW g, Fine(d, {n}, e), NewFile(d, n, s),
           g[n] = Content(d, s), \A m \in Names \ {n} : g[m] = e[m]
    PROVE  /\ Fine(d, {}, g)
           /\ Taken(d, {}) = Taken(d, {n}) \cup Range(ChainOf(d, s))
<1>1. s \in Slots /\ d.dir[s].name = n
  BY DEF NewFile
<1>2. FilesOf(d, {}) = FilesOf(d, {n}) \cup {s}
  <2>1. \A r \in Slots : d.dir[r].name = n => r = s
    BY <1>1, HoldsSlot DEF Fine
  <2> QED BY <1>1, <2>1 DEF FilesOf
<1>3. Taken(d, {}) = Taken(d, {n}) \cup Range(ChainOf(d, s))
  <2>1. Range(ChainOf(d, s)) \subseteq Clusters
    BY ChainFacts DEF ChainOf
  <2> QED BY <1>2, <2>1 DEF Taken
<1>4. \A r \in FilesOf(d, {n}) : Range(ChainOf(d, r)) \subseteq Taken(d, {n})
  BY ChainFacts DEF Taken, ChainOf
<1>5. Proper(d, {})
  BY <1>2 DEF Fine, Proper, NewFile
<1>6. Apart(d, {})
  BY <1>2, <1>4 DEF Fine, Apart, NewFile
<1>7. Closed(d, {})
  <2> SUFFICES ASSUME NEW x \in Clusters \ Taken(d, {}) PROVE d.fat[1][x] \notin Taken(d, {})
    BY DEF Closed
  <2> QED BY <1>3 DEF Fine, Closed, NewFile
<1>8. ReadIn(d, n) = Content(d, s)
  BY <1>1, ReadSlot DEF Fine
<1>9. Reads(d, {}, g)
  BY <1>8 DEF Fine, Reads
<1> QED BY <1>3, <1>5, <1>6, <1>7, <1>9 DEF Fine

-----------------------------------------------------------------------------
(***************************************************************************)
(* Disk d with the entries of g written over every copy of its FAT.        *)
(***************************************************************************)
IsMap(g) == DOMAIN g \subseteq Clusters /\ \A x \in DOMAIN g : g[x] \in Vals

OnCopy(f, g) == [x \in Clusters |-> IF x \in DOMAIN g THEN g[x] ELSE f[x]]

On(d, g) == MkDisk([k \in 1..NUM_FATS |-> OnCopy(d.fat[k], g)], d.dir, d.data)

LEMMA OnFacts ==
    ASSUME NEW d \in Disks, NEW g, IsMap(g)
    PROVE  /\ On(d, g) \in Disks /\ On(d, g).dir = d.dir /\ On(d, g).data = d.data
           /\ \A k \in 1..NUM_FATS : On(d, g).fat[k] = OnCopy(d.fat[k], g)
<1>1. \A k \in 1..NUM_FATS : OnCopy(d.fat[k], g) \in [Clusters -> Vals]
  <2> SUFFICES ASSUME NEW k \in 1..NUM_FATS PROVE OnCopy(d.fat[k], g) \in [Clusters -> Vals]
    OBVIOUS
  <2>1. d.fat[k] \in [Clusters -> Vals]
    BY DiskFacts DEF Fats
  <2> QED BY <2>1 DEF OnCopy, IsMap
<1>2. [k \in 1..NUM_FATS |-> OnCopy(d.fat[k], g)] \in Fats
  BY <1>1 DEF Fats
<1> DEFINE F == [k \in 1..NUM_FATS |-> OnCopy(d.fat[k], g)]
<1>3. On(d, g) = MkDisk(F, d.dir, d.data) /\ \A k \in 1..NUM_FATS : F[k] = OnCopy(d.fat[k], g)
  BY DEF On
<1> HIDE DEF F
<1>4. F \in Fats
  BY <1>2 DEF F
<1>5. On(d, g) \in Disks
  BY <1>3, <1>4, DiskFacts, MkTyped
<1>6. On(d, g).fat = F /\ On(d, g).dir = d.dir /\ On(d, g).data = d.data
  BY <1>3, MkFields
<1> QED BY <1>3, <1>5, <1>6

(***************************************************************************)
(* A set of disks that does not look at the other copies of the FAT.       *)
(***************************************************************************)
FirstCopy(C) ==
    \A y \in C, x \in Disks : x.fat[1] = y.fat[1] /\ x.dir = y.dir /\ x.data = y.data => x \in C

Adds(g, h, c, v) ==
    /\ IsMap(g) /\ IsMap(h) /\ c \in Clusters /\ v \in Vals
    /\ DOMAIN h = DOMAIN g \cup {c} /\ h[c] = v /\ \A x \in DOMAIN g \ {c} : h[x] = g[x]

LEMMA FatSetType ==
    ASSUME NEW c \in Clusters, NEW v \in Vals
    PROVE  /\ FatSet(c, v) \in Seq(Writes) /\ Len(FatSet(c, v)) = NUM_FATS
           /\ \A i \in 1..NUM_FATS : FatSet(c, v)[i] \in FatWrites
  BY SlotFacts DEF FatSet, Writes, FatWrites

LEMMA FatSetRuns ==
    ASSUME NEW d \in Disks, NEW g, NEW h, NEW c, NEW v, Adds(g, h, c, v),
           NEW C, FirstCopy(C), On(d, g) \in C, On(d, h) \in C
    PROVE  Runs(On(d, g), FatSet(c, v), On(d, h), C)
<1> DEFINE p == On(d, g)
           q == On(d, h)
           F(i) == [k \in 1..NUM_FATS |-> IF k <= i THEN q.fat[k] ELSE p.fat[k]]
           r == [i \in 0..NUM_FATS |-> MkDisk(F(i), d.dir, d.data)]
<1>1. /\ p \in Disks /\ p.dir = d.dir /\ p.data = d.data
      /\ q \in Disks /\ q.dir = d.dir /\ q.data = d.data
      /\ \A k \in 1..NUM_FATS : p.fat[k] = OnCopy(d.fat[k], g) /\ q.fat[k] = OnCopy(d.fat[k], h)
  BY OnFacts DEF Adds
<1>2. /\ p.fat \in Fats /\ q.fat \in Fats /\ p = MkDisk(p.fat, d.dir, d.data) /\ q = MkDisk(q.fat, d.dir, d.data)
      /\ d.dir \in [Slots -> Entries] /\ d.data \in [Clusters -> [Places -> Sectors]]
  BY <1>1, DiskFacts
<1>3. p \in C /\ q \in C
  OBVIOUS
<1>4. \A k \in 1..NUM_FATS : q.fat[k] = [p.fat[k] EXCEPT ![c] = v]
  <2> SUFFICES ASSUME NEW k \in 1..NUM_FATS PROVE OnCopy(d.fat[k], h) = [OnCopy(d.fat[k], g) EXCEPT ![c] = v]
    BY <1>1
  <2> QED BY DEF OnCopy, Adds
<1> HIDE DEF p, q
<1>5. \A i \in 0..NUM_FATS : F(i) \in Fats
  BY <1>2 DEF Fats
<1>6. F(0) = p.fat /\ F(NUM_FATS) = q.fat
  BY <1>2, SlotFacts DEF Fats
<1>7. \A i \in 1..NUM_FATS : F(i)[1] = q.fat[1]
  BY SlotFacts
<1>8. \A i \in 1..NUM_FATS : F(i) = [F(i - 1) EXCEPT ![i][c] = v]
  <2> SUFFICES ASSUME NEW i \in 1..NUM_FATS PROVE F(i) = [F(i - 1) EXCEPT ![i][c] = v]
    OBVIOUS
  <2>1. F(i - 1)[i] = p.fat[i] /\ F(i)[i] = [p.fat[i] EXCEPT ![c] = v]
    BY <1>4, SlotFacts
  <2>2. \A k \in 1..NUM_FATS : k # i => F(i)[k] = F(i - 1)[k]
    BY SlotFacts
  <2>3. [F(i - 1) EXCEPT ![i][c] = v] = [F(i - 1) EXCEPT ![i] = [F(i - 1)[i] EXCEPT ![c] = v]]
    OBVIOUS
  <2> QED BY <2>1, <2>2, <2>3
<1> HIDE DEF F
<1>9. \A i \in 0..NUM_FATS : r[i] = MkDisk(F(i), d.dir, d.data)
  OBVIOUS
<1>10. ASSUME NEW i \in 0..NUM_FATS PROVE MkDisk(F(i), d.dir, d.data) \in C
  <2>1. CASE i = 0
    BY <1>2, <1>3, <1>6, <2>1
  <2>2. CASE i # 0
    <3>1. MkDisk(F(i), d.dir, d.data) \in Disks
      BY <1>2, <1>5, MkTyped
    <3>2. F(i)[1] = q.fat[1]
      BY <1>7, <2>2, SlotFacts
    <3> QED BY <1>1, <1>3, <3>1, <3>2, MkFields DEF FirstCopy
  <2> QED BY <2>1, <2>2
<1>11. r \in [0..NUM_FATS -> C]
  BY <1>10
<1> HIDE DEF r
<1>12. r[0] = p /\ r[NUM_FATS] = q
  BY <1>2, <1>6, <1>9, SlotFacts
<1>13. c \in Clusters /\ v \in Vals
  BY DEF Adds
<1>14. ASSUME NEW i \in 1..NUM_FATS PROVE r[i] = WriteTo(r[i - 1], FatSet(c, v)[i])
  <2> DEFINE w == FatSet(c, v)[i]
  <2>1. w.at = "fat" /\ w.copy = i /\ w.cluster = c /\ w.value = v
    BY DEF FatSet
  <2> HIDE DEF w
  <2>2. i - 1 \in 0..NUM_FATS /\ i \in 0..NUM_FATS
    BY SlotFacts
  <2>3. r[i - 1] = MkDisk(F(i - 1), d.dir, d.data)
    BY <1>9, <2>2
  <2>4. WriteTo(r[i - 1], w) = MkDisk([F(i - 1) EXCEPT ![i][c] = v], d.dir, d.data)
    BY <2>1, <2>3, MkFields DEF WriteTo
  <2> QED BY <1>8, <1>9, <2>2, <2>4 DEF w
<1>15. Trace(r, p, FatSet(c, v), q, C)
  BY <1>11, <1>12, <1>13, <1>14, FatSetType DEF Trace
<1> QED BY <1>15 DEF Runs, p, q

(***************************************************************************)
(* The data writes.                                                        *)
(***************************************************************************)
At(cs, j, x, p) == x = ClusterAt(cs, j - 1) /\ p = PlaceAt(j - 1)

LEMMA SameData ==
    ASSUME NEW a \in [Clusters -> [Places -> Sectors]], NEW b \in [Clusters -> [Places -> Sectors]],
           \A x \in Clusters, p \in Places : a[x][p] = b[x][p]
    PROVE  a = b
<1>1. ASSUME NEW x \in Clusters PROVE a[x] = b[x]
  <2>1. a[x] \in [Places -> Sectors] /\ b[x] \in [Places -> Sectors]
    OBVIOUS
  <2> QED BY <2>1
<1> QED BY <1>1

Filled(d, cs, content, i) ==
    MkDisk(d.fat, d.dir,
           [x \in Clusters |-> [p \in Places |->
               IF \E j \in 1..i : At(cs, j, x, p)
               THEN SectorOf(content, (CHOOSE j \in 1..i : At(cs, j, x, p)) - 1)
               ELSE d.data[x][p]]])

IsFilled(z, d, cs, content, i) ==
    /\ z \in Disks /\ z.fat = d.fat /\ z.dir = d.dir
    /\ \A j \in 1..i : z.data[ClusterAt(cs, j - 1)][PlaceAt(j - 1)] = SectorOf(content, j - 1)
    /\ \A x \in Clusters, p \in Places : (\A j \in 1..i : ~At(cs, j, x, p)) => z.data[x][p] = d.data[x][p]

Fits(cs, content) ==
    /\ cs \in Seq(Clusters) /\ Once(cs) /\ content \in Seq(Bytes)
    /\ Len(cs) = NumClusters(Len(content))

(***************************************************************************)
(* Where the sectors go, and what they hold.                               *)
(***************************************************************************)
LEMMA Layout ==
    ASSUME NEW cs, NEW content, Fits(cs, content)
    PROVE  /\ NumSectors(Len(content)) \in Nat /\ Len(content) \in Nat /\ Len(cs) \in Nat
           /\ \A j \in 1..NumSectors(Len(content)) :
                /\ \E i \in 1..Len(cs) : ClusterAt(cs, j - 1) = cs[i]
                /\ ClusterAt(cs, j - 1) \in Clusters /\ PlaceAt(j - 1) \in Places
                /\ SectorOf(content, j - 1) \in Sectors
                /\ \A k \in 1..NumSectors(Len(content)) :
                     At(cs, k, ClusterAt(cs, j - 1), PlaceAt(j - 1)) => k = j
<1>1. /\ cs \in Seq(Clusters) /\ Once(cs) /\ content \in Seq(Bytes)
      /\ Len(cs) = NumClusters(Len(content)) /\ Len(content) \in Nat /\ Len(cs) \in Nat
  BY DEF Fits
<1>2. PICK m : m = NumSectors(Len(content))
  OBVIOUS
<1>3. /\ m \in Nat
      /\ \A j \in 1..m : /\ (j - 1) \div SectorsPerCluster + 1 \in 1..Len(cs)
                         /\ PlaceAt(j - 1) \in Places
  BY <1>1, <1>2, SectorsFit
<1>4. ASSUME NEW j \in 1..m
      PROVE  /\ \E i \in 1..Len(cs) : ClusterAt(cs, j - 1) = cs[i]
             /\ ClusterAt(cs, j - 1) \in Clusters
  <2>1. PICK i : i = (j - 1) \div SectorsPerCluster + 1
    OBVIOUS
  <2>2. i \in 1..Len(cs) /\ ClusterAt(cs, j - 1) = cs[i]
    BY <1>3, <2>1 DEF ClusterAt
  <2> QED BY <1>1, <2>2
<1>5. ASSUME NEW j \in 1..m PROVE SectorOf(content, j - 1) \in Sectors
  <2>1. PICK o : o = (j - 1) * SectorSize
    OBVIOUS
  <2>2. o \in Nat
    BY <1>3, <2>1, ClusterSizes
  <2>3. ASSUME NEW x \in 0..(SectorSize - 1), o + x < Len(content) PROVE content[o + x + 1] \in Bytes
    <3>1. o + x + 1 \in 1..Len(content)
      BY <1>1, <2>2, <2>3, ClusterSizes
    <3> QED BY <1>1, <3>1
  <2>4. Zero \in Bytes
    BY NamesAssumption
  <2>5. SectorOf(content, j - 1)
          = [x \in 0..(SectorSize - 1) |-> IF o + x < Len(content) THEN content[o + x + 1] ELSE Zero]
    BY <2>1 DEF SectorOf
  <2> QED BY <2>3, <2>4, <2>5 DEF Sectors
<1>6. ASSUME NEW j \in 1..m, NEW k \in 1..m, At(cs, k, ClusterAt(cs, j - 1), PlaceAt(j - 1))
      PROVE  k = j
  <2>1. PICK a : a = (j - 1) \div SectorsPerCluster
    OBVIOUS
  <2>2. PICK b : b = (k - 1) \div SectorsPerCluster
    OBVIOUS
  <2>3. a + 1 \in 1..Len(cs) /\ b + 1 \in 1..Len(cs) /\ j - 1 \in Nat /\ k - 1 \in Nat
    BY <1>3, <2>1, <2>2
  <2>4. a \in Nat /\ b \in Nat
    BY <2>1, <2>2, <2>3, ClusterSizes, Division
  <2>5. cs[a + 1] = cs[b + 1] /\ PlaceAt(j - 1) = PlaceAt(k - 1)
    BY <1>6, <2>1, <2>2 DEF At, ClusterAt
  <2>6. a + 1 = b + 1
    BY <1>1, <2>3, <2>5 DEF Once
  <2>7. a = b
    BY <2>4, <2>6
  <2>8. j - 1 = k - 1
    BY <2>1, <2>2, <2>3, <2>5, <2>7, SamePlace
  <2> QED BY <1>3, <2>8
<1> QED BY <1>1, <1>2, <1>3, <1>4, <1>5, <1>6

LEMMA FilledFacts ==
    ASSUME NEW d \in Disks, NEW cs, NEW content, Fits(cs, content), NEW i \in 0..NumSectors(Len(content))
    PROVE  IsFilled(Filled(d, cs, content, i), d, cs, content, i)
<1> DEFINE b == [x \in Clusters |-> [p \in Places |->
                    IF \E j \in 1..i : At(cs, j, x, p)
                    THEN SectorOf(content, (CHOOSE j \in 1..i : At(cs, j, x, p)) - 1)
                    ELSE d.data[x][p]]]
<1>0. PICK m : m = NumSectors(Len(content))
  OBVIOUS
<1>1. m \in Nat /\ i \in Nat /\ \A j \in 1..i : j \in 1..m
  BY <1>0, Layout
<1>2. ASSUME NEW x \in Clusters, NEW p \in Places
      PROVE  /\ \A j \in 1..i : At(cs, j, x, p) => b[x][p] = SectorOf(content, j - 1)
             /\ (\A j \in 1..i : ~At(cs, j, x, p)) => b[x][p] = d.data[x][p]
  <2>1. ASSUME NEW j \in 1..i, NEW k \in 1..i, At(cs, j, x, p), At(cs, k, x, p) PROVE k = j
    <3>1. x = ClusterAt(cs, j - 1) /\ p = PlaceAt(j - 1)
      BY <2>1 DEF At
    <3>2. At(cs, k, ClusterAt(cs, j - 1), PlaceAt(j - 1))
      BY <2>1, <3>1
    <3> QED BY <1>0, <1>1, <3>2, Layout
  <2>2. ASSUME NEW j \in 1..i, At(cs, j, x, p) PROVE b[x][p] = SectorOf(content, j - 1)
    <3>1. j = CHOOSE k \in 1..i : At(cs, k, x, p)
      BY <2>1, <2>2
    <3>2. \E k \in 1..i : At(cs, k, x, p)
      BY <2>2
    <3>3. b[x][p] = IF \E k \in 1..i : At(cs, k, x, p)
                    THEN SectorOf(content, (CHOOSE k \in 1..i : At(cs, k, x, p)) - 1)
                    ELSE d.data[x][p]
      OBVIOUS
    <3> HIDE DEF b
    <3> QED BY <3>1, <3>2, <3>3, Zenon
  <2> QED BY <2>2
<1>3. b \in [Clusters -> [Places -> Sectors]]
  <2> SUFFICES ASSUME NEW x \in Clusters, NEW p \in Places PROVE b[x][p] \in Sectors
    <3>1. \A x \in Clusters : b[x] \in [Places -> Sectors]
      OBVIOUS
    <3> QED BY <3>1
  <2> HIDE DEF b
  <2>1. CASE \E j \in 1..i : At(cs, j, x, p)
    <3>1. PICK j \in 1..i : At(cs, j, x, p)
      BY <2>1
    <3>2. SectorOf(content, j - 1) \in Sectors
      BY <1>0, <1>1, Layout
    <3> QED BY <1>2, <3>1, <3>2
  <2>2. CASE ~ \E j \in 1..i : At(cs, j, x, p)
    <3>1. d.data[x][p] \in Sectors
      BY DiskFacts
    <3> QED BY <1>2, <2>2, <3>1
  <2> QED BY <2>1, <2>2
<1>4. Filled(d, cs, content, i) = MkDisk(d.fat, d.dir, b)
  BY DEF Filled
<1> HIDE DEF b
<1>5. Filled(d, cs, content, i) \in Disks
  BY <1>3, <1>4, DiskFacts, MkTyped
<1>6. /\ Filled(d, cs, content, i).fat = d.fat /\ Filled(d, cs, content, i).dir = d.dir
      /\ Filled(d, cs, content, i).data = b
  BY <1>4, MkFields
<1>7. ASSUME NEW j \in 1..i PROVE b[ClusterAt(cs, j - 1)][PlaceAt(j - 1)] = SectorOf(content, j - 1)
  <2>1. ClusterAt(cs, j - 1) \in Clusters /\ PlaceAt(j - 1) \in Places
    BY <1>0, <1>1, Layout
  <2>2. At(cs, j, ClusterAt(cs, j - 1), PlaceAt(j - 1))
    BY DEF At
  <2> QED BY <1>2, <2>1, <2>2
<1> QED BY <1>2, <1>5, <1>6, <1>7 DEF IsFilled

LEMMA FilledRuns ==
    ASSUME NEW d \in Disks, NEW cs, NEW content, Fits(cs, content), NEW C,
           \A i \in 0..NumSectors(Len(content)) : Filled(d, cs, content, i) \in C
    PROVE  /\ DataWrites(cs, content) \in Seq(Writes)
           /\ Runs(d, DataWrites(cs, content), Filled(d, cs, content, NumSectors(Len(content))), C)
<1>0. PICK N : N = NumSectors(Len(content))
  OBVIOUS
<1> DEFINE W(n) == DataWrite(ClusterAt(cs, n - 1), PlaceAt(n - 1), SectorOf(content, n - 1))
           ws == [n \in 1..N |-> W(n)]
           r == [i \in 0..N |-> Filled(d, cs, content, i)]
<1>00. N \in Nat /\ DataWrites(cs, content) = ws
  BY <1>0, Layout DEF DataWrites
<1>1. ASSUME NEW n \in 1..N
      PROVE  /\ ClusterAt(cs, n - 1) \in Clusters /\ PlaceAt(n - 1) \in Places
             /\ SectorOf(content, n - 1) \in Sectors /\ W(n) \in Writes
             /\ W(n).at = "data" /\ W(n).cluster = ClusterAt(cs, n - 1)
             /\ W(n).place = PlaceAt(n - 1) /\ W(n).value = SectorOf(content, n - 1)
  <2>1. /\ ClusterAt(cs, n - 1) \in Clusters /\ PlaceAt(n - 1) \in Places
        /\ SectorOf(content, n - 1) \in Sectors
    BY <1>0, Layout
  <2>2. PICK c : c = ClusterAt(cs, n - 1)
    OBVIOUS
  <2>3. PICK p : p = PlaceAt(n - 1)
    OBVIOUS
  <2>4. PICK v : v = SectorOf(content, n - 1)
    OBVIOUS
  <2>5. W(n) = DataWrite(c, p, v)
    BY <2>2, <2>3, <2>4
  <2>6. /\ DataWrite(c, p, v) \in Writes /\ DataWrite(c, p, v).at = "data"
        /\ DataWrite(c, p, v).cluster = c /\ DataWrite(c, p, v).place = p /\ DataWrite(c, p, v).value = v
    BY <2>1, <2>2, <2>3, <2>4 DEF DataWrite, Writes, DataSectors
  <2> HIDE DEF W
  <2> QED BY <2>1, <2>2, <2>3, <2>4, <2>5, <2>6
<1>2. ws \in Seq(Writes) /\ Len(ws) = N /\ \A n \in 1..N : ws[n] = W(n)
  <2> HIDE DEF W
  <2> QED BY <1>00, <1>1
<1> HIDE DEF ws, W
<1>3. Filled(d, cs, content, 0) = d
  <2> DEFINE z == Filled(d, cs, content, 0)
  <2>1. 0 \in 0..N
    BY <1>00
  <2>2. /\ z \in Disks /\ z.fat = d.fat /\ z.dir = d.dir
        /\ \A x \in Clusters, p \in Places : z.data[x][p] = d.data[x][p]
    BY <1>0, <2>1, FilledFacts DEF IsFilled
  <2> HIDE DEF z
  <2>3. z.data \in [Clusters -> [Places -> Sectors]] /\ d.data \in [Clusters -> [Places -> Sectors]]
    BY <2>2, DiskFacts
  <2>4. z.data = d.data
    BY <2>2, <2>3, SameData
  <2>5. z = d
    BY <2>2, <2>4, DiskFacts
  <2> QED BY <2>5 DEF z
<1>4. \A i \in 0..N : r[i] = Filled(d, cs, content, i) /\ r[i] \in C
  BY <1>0
<1>5. r \in [0..N -> C]
  BY <1>0
<1> HIDE DEF r
<1>6. ASSUME NEW i \in 1..N PROVE r[i] = WriteTo(r[i - 1], ws[i])
  <2> DEFINE y == Filled(d, cs, content, i - 1)
             z == Filled(d, cs, content, i)
  <2>0. PICK c : c = ClusterAt(cs, i - 1)
    OBVIOUS
  <2>00. PICK q : q = PlaceAt(i - 1)
    OBVIOUS
  <2>000. PICK v : v = SectorOf(content, i - 1)
    OBVIOUS
  <2>1. i - 1 \in 0..N /\ i \in 0..N /\ i \in 1..N /\ \A j \in 1..i : j = i \/ j \in 1..(i - 1)
    BY <1>00
  <2>2. IsFilled(y, d, cs, content, i - 1) /\ IsFilled(z, d, cs, content, i)
    BY <1>0, <2>1, FilledFacts
  <2> HIDE DEF y, z
  <2>3. /\ y \in Disks /\ y.fat = d.fat /\ y.dir = d.dir
        /\ z \in Disks /\ z.fat = d.fat /\ z.dir = d.dir
    BY <2>2 DEF IsFilled
  <2>4. y.data \in [Clusters -> [Places -> Sectors]] /\ z.data \in [Clusters -> [Places -> Sectors]]
    BY <2>3, DiskFacts
  <2>5. c \in Clusters /\ q \in Places /\ v \in Sectors /\ z.data[c][q] = v
    BY <1>1, <2>0, <2>00, <2>000, <2>1, <2>2 DEF IsFilled
  <2>6. ASSUME NEW x \in Clusters, NEW p \in Places, ~(x = c /\ p = q) PROVE z.data[x][p] = y.data[x][p]
    <3>0. ~At(cs, i, x, p)
      BY <2>0, <2>00, <2>6 DEF At
    <3>1. CASE \E j \in 1..(i - 1) : At(cs, j, x, p)
      <4>1. PICK j \in 1..(i - 1) : At(cs, j, x, p)
        BY <3>1
      <4>2. j \in 1..i /\ x = ClusterAt(cs, j - 1) /\ p = PlaceAt(j - 1)
        BY <4>1, <1>00 DEF At
      <4>3. z.data[x][p] = SectorOf(content, j - 1)
        BY <2>2, <4>2 DEF IsFilled
      <4>4. y.data[x][p] = SectorOf(content, j - 1)
        BY <2>2, <4>2 DEF IsFilled
      <4> QED BY <4>3, <4>4
    <3>2. CASE \A j \in 1..(i - 1) : ~At(cs, j, x, p)
      <4>1. \A j \in 1..i : ~At(cs, j, x, p)
        BY <2>1, <3>0, <3>2
      <4>2. z.data[x][p] = d.data[x][p]
        BY <2>2, <4>1 DEF IsFilled
      <4>3. y.data[x][p] = d.data[x][p]
        BY <2>2, <3>2 DEF IsFilled
      <4> QED BY <4>2, <4>3
    <3> QED BY <3>1, <3>2
  <2>7. z.data = [y.data EXCEPT ![c][q] = v]
    <3>1. [y.data EXCEPT ![c][q] = v] \in [Clusters -> [Places -> Sectors]]
      BY <2>4, <2>5
    <3>2. \A x \in Clusters, p \in Places : [y.data EXCEPT ![c][q] = v][x][p] = z.data[x][p]
      BY <2>4, <2>5, <2>6
    <3>3. PICK b : b = [y.data EXCEPT ![c][q] = v]
      OBVIOUS
    <3>4. PICK a : a = z.data
      OBVIOUS
    <3>5. /\ a \in [Clusters -> [Places -> Sectors]] /\ b \in [Clusters -> [Places -> Sectors]]
          /\ \A x \in Clusters, p \in Places : a[x][p] = b[x][p]
      BY <2>4, <3>1, <3>2, <3>3, <3>4
    <3>6. a = b
      BY <3>5, SameData
    <3> QED BY <3>3, <3>4, <3>6
  <2>8. ws[i].at = "data" /\ ws[i].cluster = c /\ ws[i].place = q /\ ws[i].value = v
    BY <1>1, <1>2, <2>0, <2>00, <2>000
  <2>9. z = MkDisk(y.fat, y.dir, [y.data EXCEPT ![c][q] = v])
    BY <2>3, <2>7, DiskFacts
  <2>10. z = WriteTo(y, ws[i])
    BY <2>8, <2>9 DEF WriteTo
  <2>11. r[i] = z /\ r[i - 1] = y
    BY <1>4, <2>1 DEF y, z
  <2> QED BY <2>10, <2>11
<1>7. r[0] = d /\ r[N] = Filled(d, cs, content, N)
  BY <1>00, <1>3, <1>4
<1>8. Trace(r, d, ws, Filled(d, cs, content, N), C)
  BY <1>2, <1>5, <1>6, <1>7 DEF Trace
<1>9. Runs(d, ws, Filled(d, cs, content, N), C)
  BY <1>8 DEF Runs
<1> QED BY <1>0, <1>00, <1>2, <1>9

-----------------------------------------------------------------------------
(***************************************************************************)
(* The course of a call: first the m writes of its deletion, of which the  *)
(* last one is the mark in the directory; then writes during which the     *)
(* disk is in B, the last write alone excepted.                            *)
(***************************************************************************)
IsMark(w) == w.at = "dir" /\ w.value.name = Deleted

Course(r, m, d, ws, e, A, B) ==
    /\ ws \in Seq(Writes) /\ Trace(r, d, ws, e, A)
    /\ m \in 0..Len(ws) /\ (m > 0 => IsMark(ws[m]))
    /\ \A i \in 0..Len(ws) : m <= i /\ i < Len(ws) => r[i] \in B

Parts(A, B, d, a, y, b, z, c, e) ==
    /\ B \subseteq A
    /\ a \in Seq(Writes) /\ Runs(d, a, y, A) /\ (a # << >> => IsMark(a[Len(a)]))
    /\ b \in Seq(Writes) /\ Runs(y, b, z, B)
    /\ c \in Seq(Writes) /\ Runs(z, c, e, A) /\ Len(c) <= 1

LEMMA CourseExists ==
    ASSUME NEW A, NEW B, NEW d, NEW y, NEW z, NEW e, NEW a, NEW b, NEW c,
           Parts(A, B, d, a, y, b, z, c, e)
    PROVE  \E r, m : Course(r, m, d, a \o (b \o c), e, A, B)
<1>0. /\ B \subseteq A /\ a \in Seq(Writes) /\ b \in Seq(Writes) /\ c \in Seq(Writes)
      /\ (a # << >> => IsMark(a[Len(a)])) /\ Len(c) <= 1
  BY DEF Parts
<1>1. PICK p : Trace(p, d, a, y, A)
  BY DEF Runs, Parts
<1>2. PICK q : Trace(q, y, b, z, B)
  BY DEF Runs, Parts
<1>3. PICK t : Trace(t, z, c, e, A)
  BY DEF Runs, Parts
<1>4. Trace(q, y, b, z, A)
  BY <1>0, <1>2 DEF Trace
<1>5. PICK u : Trace(u, y, b \o c, e, A) /\ Prolongs(u, q, Len(b), t, Len(c))
  BY <1>0, <1>3, <1>4, TraceThen
<1> DEFINE bc == b \o c
<1>6. bc \in Seq(Writes) /\ Len(bc) = Len(b) + Len(c) /\ Len(b) \in Nat /\ Len(c) \in Nat /\ Len(a) \in Nat
  BY <1>0
<1>7. ASSUME NEW i \in Nat, i < Len(bc) PROVE u[i] \in B
  <2>1. i \in 0..Len(b)
    BY <1>0, <1>6, <1>7
  <2>2. q[i] \in B
    BY <1>2, <2>1 DEF Trace
  <2> QED BY <1>5, <2>1, <2>2 DEF Prolongs
<1>8. Trace(u, y, bc, e, A)
  BY <1>5
<1> HIDE DEF bc
<1>9. PICK r : Trace(r, d, a \o bc, e, A) /\ Prolongs(r, p, Len(a), u, Len(bc))
  BY <1>0, <1>1, <1>6, <1>8, TraceThen
<1> DEFINE ws == a \o bc
<1>10. ws \in Seq(Writes) /\ Len(ws) = Len(a) + Len(bc) /\ Len(bc) \in Nat /\ \A i \in 1..Len(a) : ws[i] = a[i]
  BY <1>0, <1>6
<1>11. Trace(r, d, ws, e, A)
  BY <1>9
<1> HIDE DEF ws
<1>12. Len(a) \in 0..Len(ws) /\ (Len(a) > 0 => IsMark(ws[Len(a)]))
  <2> SUFFICES ASSUME Len(a) > 0 PROVE IsMark(ws[Len(a)])
    BY <1>6, <1>10
  <2>1. a # << >> /\ Len(a) \in 1..Len(a)
    BY <1>6
  <2> QED BY <1>0, <1>10, <2>1
<1>13. ASSUME NEW i \in 0..Len(ws), Len(a) <= i, i < Len(ws) PROVE r[i] \in B
  <2>1. i - Len(a) \in Nat /\ i - Len(a) < Len(bc) /\ i \in Len(a)..(Len(a) + Len(bc))
    BY <1>6, <1>10, <1>13
  <2> QED BY <1>7, <1>9, <2>1 DEF Prolongs
<1>14. Course(r, Len(a), d, ws, e, A, B)
  BY <1>10, <1>11, <1>12, <1>13 DEF Course
<1> QED BY <1>14 DEF ws, bc

(***************************************************************************)
(* One write later.                                                        *)
(***************************************************************************)
LEMMA CourseNext ==
    ASSUME NEW A, NEW B, NEW d, NEW e, NEW r, NEW m, NEW ws, ws # << >>, Course(r, m, d, ws, e, A, B)
    PROVE  /\ r[1] = WriteTo(d, Head(ws)) /\ r[0] = d
           /\ \E s, k : Course(s, k, r[1], Tail(ws), e, A, B)
<1> DEFINE t == Tail(ws)
           s == [i \in 0..(Len(ws) - 1) |-> r[i + 1]]
           k == IF m = 0 THEN 0 ELSE m - 1
<1>1. /\ ws \in Seq(Writes) /\ Len(ws) \in Nat /\ Len(ws) > 0 /\ m \in 0..Len(ws)
      /\ r \in [0..Len(ws) -> A] /\ r[0] = d /\ r[Len(ws)] = e
      /\ \A i \in 1..Len(ws) : r[i] = WriteTo(r[i - 1], ws[i])
      /\ m > 0 => IsMark(ws[m])
      /\ \A i \in 0..Len(ws) : m <= i /\ i < Len(ws) => r[i] \in B
  BY DEF Course, Trace
<1>2. t \in Seq(Writes) /\ Len(t) = Len(ws) - 1 /\ (\A i \in 1..Len(t) : t[i] = ws[i + 1]) /\ Head(ws) = ws[1]
  BY <1>1
<1>3. r[1] = WriteTo(d, Head(ws))
  BY <1>1, <1>2
<1> HIDE DEF t
<1>4. s \in [0..Len(t) -> A] /\ (\A i \in 0..Len(t) : s[i] = r[i + 1])
  <2> SUFFICES ASSUME NEW i \in 0..(Len(ws) - 1) PROVE r[i + 1] \in A
    BY <1>2
  <2> QED BY <1>1
<1> HIDE DEF s
<1>5. ASSUME NEW i \in 1..Len(t) PROVE s[i] = WriteTo(s[i - 1], t[i])
  <2>1. i \in 0..Len(t) /\ i - 1 \in 0..Len(t) /\ (i - 1) + 1 = i /\ i + 1 \in 1..Len(ws) /\ (i + 1) - 1 = i
    BY <1>1, <1>2
  <2>2. s[i] = r[i + 1] /\ s[i - 1] = r[i] /\ t[i] = ws[i + 1]
    BY <1>2, <1>4, <2>1
  <2> QED BY <1>1, <2>1, <2>2
<1>6. s[0] = r[1] /\ s[Len(t)] = e
  BY <1>1, <1>2, <1>4
<1>7. Trace(s, r[1], t, e, A)
  BY <1>4, <1>5, <1>6 DEF Trace
<1>8. k \in 0..Len(t) /\ (k > 0 => IsMark(t[k]))
  <2>1. CASE m = 0
    BY <1>1, <1>2, <2>1
  <2>2. CASE m # 0
    <3>1. k = m - 1 /\ k \in 0..Len(t)
      BY <1>1, <1>2, <2>2
    <3> SUFFICES ASSUME k > 0 PROVE IsMark(t[k])
      BY <3>1
    <3>2. t[k] = ws[m]
      BY <1>1, <1>2, <3>1
    <3> QED BY <1>1, <2>2, <3>2
  <2> QED BY <2>1, <2>2
<1>9. ASSUME NEW i \in 0..Len(t), k <= i, i < Len(t) PROVE s[i] \in B
  <2>1. i + 1 \in 0..Len(ws) /\ m <= i + 1 /\ i + 1 < Len(ws)
    BY <1>1, <1>2, <1>9
  <2> QED BY <1>1, <1>4, <2>1
<1> HIDE DEF k
<1>10. Course(s, k, r[1], t, e, A, B)
  BY <1>2, <1>7, <1>8, <1>9 DEF Course
<1> QED BY <1>1, <1>3, <1>10 DEF t

-----------------------------------------------------------------------------
(***************************************************************************)
(* The entries of the first b clusters of cs while these are linked or     *)
(* given back: the first a are free, the others up to l lead on, and the   *)
(* rest are ends.                                                          *)
(***************************************************************************)
EntryOf(cs, a, l, j) == IF j <= a THEN Free ELSE IF j < l THEN cs[j + 1] ELSE EOC

LinkMap(cs, a, b, l) ==
    [x \in {cs[j] : j \in 1..b} |-> EntryOf(cs, a, l, CHOOSE j \in 1..b : x = cs[j])]

Cuts(cs, a, b, l) ==
    cs \in Seq(Clusters) /\ Once(cs) /\ b \in 0..Len(cs) /\ a \in 0..b /\ l \in 0..b

IsLinkMap(g, cs, a, b, l) ==
    /\ IsMap(g)
    /\ \A x : x \in DOMAIN g <=> \E j \in 1..b : x = cs[j]
    /\ \A j \in 1..b : g[cs[j]] = EntryOf(cs, a, l, j)

LEMMA LinkMapFacts ==
    ASSUME NEW cs, NEW a, NEW b, NEW l, Cuts(cs, a, b, l)
    PROVE  IsLinkMap(LinkMap(cs, a, b, l), cs, a, b, l)
<1> DEFINE g == LinkMap(cs, a, b, l)
<1>1. /\ cs \in Seq(Clusters) /\ Once(cs) /\ b \in Nat /\ a \in Nat /\ l \in Nat /\ l <= b
      /\ b <= Len(cs) /\ Len(cs) \in Nat /\ (\A j \in 1..b : j \in 1..Len(cs) /\ cs[j] \in Clusters)
  BY DEF Cuts
<1>2. DOMAIN g = {cs[j] : j \in 1..b}
  BY DEF LinkMap
<1>3. ASSUME NEW j \in 1..b PROVE g[cs[j]] = EntryOf(cs, a, l, j)
  <2>1. j = CHOOSE k \in 1..b : cs[j] = cs[k]
    BY <1>1 DEF Once
  <2>2. cs[j] \in {cs[k] : k \in 1..b}
    OBVIOUS
  <2>3. g[cs[j]] = EntryOf(cs, a, l, CHOOSE k \in 1..b : cs[j] = cs[k])
    BY <2>2, Zenon DEF LinkMap
  <2> QED BY <2>1, <2>3
<1>4. ASSUME NEW j \in 1..b PROVE EntryOf(cs, a, l, j) \in Vals
  <2>1. j < l => j + 1 \in 1..b
    BY <1>1
  <2> QED BY <1>1, <2>1 DEF EntryOf, Vals
<1> HIDE DEF g
<1>5. IsMap(g)
  <2>1. DOMAIN g \subseteq Clusters
    BY <1>1, <1>2
  <2>2. ASSUME NEW x \in DOMAIN g PROVE g[x] \in Vals
    <3>1. PICK j \in 1..b : x = cs[j]
      BY <1>2
    <3> QED BY <1>3, <1>4, <3>1
  <2> QED BY <2>1, <2>2 DEF IsMap
<1>6. IsLinkMap(g, cs, a, b, l)
  BY <1>2, <1>3, <1>5 DEF IsLinkMap
<1> QED BY <1>6 DEF g

(***************************************************************************)
(* The step from one such map to another that has one more entry, or one   *)
(* entry changed.                                                          *)
(***************************************************************************)
Step(cs, a, b, l, a1, b1, l1, k, v) ==
    /\ Cuts(cs, a, b, l) /\ Cuts(cs, a1, b1, l1)
    /\ k \in 1..b1 /\ v = EntryOf(cs, a1, l1, k)
    /\ b1 = b \/ (b1 = b + 1 /\ k = b1)
    /\ \A j \in 1..b : j # k => EntryOf(cs, a1, l1, j) = EntryOf(cs, a, l, j)

LEMMA StepAdds ==
    ASSUME NEW cs, NEW a, NEW b, NEW l, NEW a1, NEW b1, NEW l1, NEW k, NEW v,
           Step(cs, a, b, l, a1, b1, l1, k, v)
    PROVE  Adds(LinkMap(cs, a, b, l), LinkMap(cs, a1, b1, l1), cs[k], v)
<1> DEFINE g == LinkMap(cs, a, b, l)
           h == LinkMap(cs, a1, b1, l1)
<1>1. IsLinkMap(g, cs, a, b, l) /\ IsLinkMap(h, cs, a1, b1, l1)
  BY LinkMapFacts DEF Step
<1> HIDE DEF g, h
<1>2. /\ k \in 1..b1 /\ v = EntryOf(cs, a1, l1, k) /\ (b1 = b \/ (b1 = b + 1 /\ k = b1))
      /\ b \in Nat /\ b1 \in Nat /\ cs \in Seq(Clusters) /\ Once(cs) /\ b1 <= Len(cs) /\ b <= Len(cs)
      /\ \A j \in 1..b : j # k => EntryOf(cs, a1, l1, j) = EntryOf(cs, a, l, j)
  BY DEF Step, Cuts
<1>3. IsMap(g) /\ IsMap(h)
  BY <1>1 DEF IsLinkMap
<1>4. cs[k] \in DOMAIN h /\ h[cs[k]] = v
  BY <1>1, <1>2 DEF IsLinkMap
<1>5. cs[k] \in Clusters /\ v \in Vals
  BY <1>3, <1>4 DEF IsMap
<1>6. DOMAIN h = DOMAIN g \cup {cs[k]}
  <2>1. \A x : x \in DOMAIN h => x \in DOMAIN g \cup {cs[k]}
    BY <1>1, <1>2 DEF IsLinkMap
  <2>2. \A x : x \in DOMAIN g => x \in DOMAIN h
    BY <1>1, <1>2 DEF IsLinkMap
  <2> QED BY <1>4, <2>1, <2>2
<1>7. ASSUME NEW x \in DOMAIN g \ {cs[k]} PROVE h[x] = g[x]
  <2>1. PICK j \in 1..b : x = cs[j]
    BY <1>1 DEF IsLinkMap
  <2>2. j \in 1..b1 /\ j # k
    BY <1>2, <1>7, <2>1
  <2> QED BY <1>1, <1>2, <2>1, <2>2 DEF IsLinkMap
<1> QED BY <1>3, <1>4, <1>5, <1>6, <1>7 DEF Adds, g, h

LEMMA StepRuns ==
    ASSUME NEW d \in Disks, NEW C, FirstCopy(C),
           NEW cs, NEW a, NEW b, NEW l, NEW a1, NEW b1, NEW l1, NEW k, NEW v,
           Step(cs, a, b, l, a1, b1, l1, k, v),
           On(d, LinkMap(cs, a, b, l)) \in C, On(d, LinkMap(cs, a1, b1, l1)) \in C
    PROVE  /\ FatSet(cs[k], v) \in Seq(Writes)
           /\ Runs(On(d, LinkMap(cs, a, b, l)), FatSet(cs[k], v), On(d, LinkMap(cs, a1, b1, l1)), C)
<1> DEFINE g == LinkMap(cs, a, b, l)
           h == LinkMap(cs, a1, b1, l1)
<1>1. Adds(g, h, cs[k], v)
  BY StepAdds
<1> HIDE DEF g, h
<1>2. cs[k] \in Clusters /\ v \in Vals
  BY <1>1 DEF Adds
<1>3. FatSet(cs[k], v) \in Seq(Writes)
  BY <1>2, FatSetType
<1>4. On(d, g) \in C /\ On(d, h) \in C
  BY DEF g, h
<1>5. Runs(On(d, g), FatSet(cs[k], v), On(d, h), C)
  BY <1>1, <1>4, FatSetRuns
<1> QED BY <1>3, <1>5 DEF g, h

(***************************************************************************)
(* Without entries to write over it the disk is as it was.                 *)
(***************************************************************************)
LEMMA SameFats ==
    ASSUME NEW F \in Fats, NEW G \in Fats, \A k \in 1..NUM_FATS : F[k] = G[k]
    PROVE  F = G
<1> DEFINE S == 1..NUM_FATS
           T == [Clusters -> Vals]
<1>1. F \in [S -> T] /\ G \in [S -> T]
  BY DEF Fats
<1>2. \A k \in S : F[k] = G[k]
  OBVIOUS
<1> HIDE DEF S, T
<1> QED BY <1>1, <1>2

LEMMA OnNothing ==
    ASSUME NEW d \in Disks, NEW g, IsMap(g), DOMAIN g = {}
    PROVE  On(d, g) = d
<1>1. /\ On(d, g) \in Disks /\ On(d, g).dir = d.dir /\ On(d, g).data = d.data
      /\ \A k \in 1..NUM_FATS : On(d, g).fat[k] = OnCopy(d.fat[k], g)
  BY OnFacts
<1>2. /\ On(d, g).fat \in Fats /\ d.fat \in Fats
      /\ On(d, g) = MkDisk(On(d, g).fat, On(d, g).dir, On(d, g).data) /\ d = MkDisk(d.fat, d.dir, d.data)
  BY <1>1, DiskFacts
<1>3. \A k \in 1..NUM_FATS : OnCopy(d.fat[k], g) = d.fat[k]
  <2> SUFFICES ASSUME NEW k \in 1..NUM_FATS PROVE OnCopy(d.fat[k], g) = d.fat[k]
    OBVIOUS
  <2>1. d.fat[k] \in [Clusters -> Vals]
    BY <1>2 DEF Fats
  <2> QED BY <2>1 DEF OnCopy
<1>4. On(d, g).fat = d.fat
  <2>1. \A k \in 1..NUM_FATS : On(d, g).fat[k] = d.fat[k]
    BY <1>1, <1>3
  <2> QED BY <1>2, <2>1, SameFats
<1> QED BY <1>1, <1>2, <1>4

(***************************************************************************)
(* free_chain, on a chain that is not touched yet and on one that has just *)
(* been linked.                                                            *)
(***************************************************************************)
LEMMA FreeRuns ==
    ASSUME NEW C, NEW cs \in Seq(Clusters), NEW D, D[0] \in C,
           \A i \in 1..Len(cs) : /\ FatSet(cs[i], Free) \in Seq(Writes)
                                 /\ Runs(D[i - 1], FatSet(cs[i], Free), D[i], C)
    PROVE  FreeAll(cs) \in Seq(Writes) /\ Runs(D[0], FreeAll(cs), D[Len(cs)], C)
<1> DEFINE ss == [n \in 1..Len(cs) |-> FatSet(cs[n], Free)]
           N == Len(cs)
<1>1. N \in Nat /\ FreeAll(cs) = FlattenSeq(ss)
  BY DEF FreeAll
<1>2. \A k \in 1..N : ss[k] = FatSet(cs[k], Free)
  OBVIOUS
<1>3. Groups(ss, N, Writes)
  <2>1. Len(ss) = N /\ (N = 0 => ss = << >>)
    BY <1>1
  <2>2. \A k \in 1..N : ss[k] \in Seq(Writes)
    BY <1>2
  <2> HIDE DEF ss, N
  <2> QED BY <1>1, <2>1, <2>2 DEF Groups
<1>4. \A k \in 1..N : Runs(D[k - 1], ss[k], D[k], C)
  BY <1>2
<1> HIDE DEF ss, N
<1>5. FlattenSeq(ss) \in Seq(Writes) /\ Runs(D[0], FlattenSeq(ss), D[N], C)
  BY <1>1, <1>3, <1>4, RunsFlat
<1> QED BY <1>1, <1>5 DEF N

LEMMA ChainRuns ==
    ASSUME NEW d \in Disks, NEW C, FirstCopy(C), NEW cs \in Seq(Clusters), Once(cs),
           \A i \in 0..Len(cs) : On(d, LinkMap(cs, i, i, i)) \in C
    PROVE  /\ FreeAll(cs) \in Seq(Writes)
           /\ Runs(d, FreeAll(cs), On(d, LinkMap(cs, Len(cs), Len(cs), Len(cs))), C)
<1> DEFINE N == Len(cs)
           D == [i \in 0..N |-> On(d, LinkMap(cs, i, i, i))]
<1>1. N \in Nat
  OBVIOUS
<1>2. \A i \in 0..N : D[i] = On(d, LinkMap(cs, i, i, i)) /\ D[i] \in C
  OBVIOUS
<1> HIDE DEF D
<1>3. D[0] = d
  <2>1. Cuts(cs, 0, 0, 0)
    BY DEF Cuts
  <2>2. IsLinkMap(LinkMap(cs, 0, 0, 0), cs, 0, 0, 0)
    BY <2>1, LinkMapFacts
  <2>3. IsMap(LinkMap(cs, 0, 0, 0)) /\ DOMAIN LinkMap(cs, 0, 0, 0) = {}
    BY <2>2 DEF IsLinkMap
  <2> QED BY <1>1, <1>2, <2>3, OnNothing
<1>4. ASSUME NEW i \in 1..N
      PROVE  FatSet(cs[i], Free) \in Seq(Writes) /\ Runs(D[i - 1], FatSet(cs[i], Free), D[i], C)
  <2>1. Step(cs, i - 1, i - 1, i - 1, i, i, i, i, Free)
    BY <1>1 DEF Step, Cuts, EntryOf
  <2>2. i - 1 \in 0..N /\ i \in 0..N
    BY <1>1
  <2>3. On(d, LinkMap(cs, i - 1, i - 1, i - 1)) \in C /\ On(d, LinkMap(cs, i, i, i)) \in C
    BY <1>2, <2>2
  <2> QED BY <1>2, <2>1, <2>2, <2>3, StepRuns
<1>5. D[0] \in C
  BY <1>1, <1>2
<1>6. FreeAll(cs) \in Seq(Writes) /\ Runs(D[0], FreeAll(cs), D[Len(cs)], C)
  BY <1>4, <1>5, FreeRuns
<1> QED BY <1>1, <1>2, <1>3, <1>6

(***************************************************************************)
(* C has the disk in every phase of linking the clusters cs and of giving  *)
(* them back.                                                              *)
(***************************************************************************)
Hosts(C, d, cs) ==
    /\ FirstCopy(C) /\ d \in Disks /\ cs \in Seq(Clusters) /\ Once(cs)
    /\ \A a, b, l : Cuts(cs, a, b, l) => On(d, LinkMap(cs, a, b, l)) \in C

LEMMA GiveBackRuns ==
    ASSUME NEW C, NEW d, NEW cs, Hosts(C, d, cs)
    PROVE  /\ GiveBack(cs) \in Seq(Writes)
           /\ Runs(On(d, LinkMap(cs, 0, Len(cs), Len(cs))), GiveBack(cs),
                   On(d, LinkMap(cs, Len(cs), Len(cs), Len(cs))), C)
<1> DEFINE N == Len(cs)
           D == [i \in 0..N |-> On(d, LinkMap(cs, i, N, N))]
<1>1. N \in Nat /\ cs \in Seq(Clusters) /\ Once(cs) /\ d \in Disks /\ FirstCopy(C)
  BY DEF Hosts
<1>2. \A i \in 0..N : Cuts(cs, i, N, N)
  BY <1>1 DEF Cuts
<1>3. \A i \in 0..N : D[i] = On(d, LinkMap(cs, i, N, N)) /\ D[i] \in C
  BY <1>2 DEF Hosts
<1> HIDE DEF D
<1>4. ASSUME NEW i \in 1..N
      PROVE  FatSet(cs[i], Free) \in Seq(Writes) /\ Runs(D[i - 1], FatSet(cs[i], Free), D[i], C)
  <2>1. Step(cs, i - 1, N, N, i, N, N, i, Free)
    <3>1. EntryOf(cs, i, N, i) = Free /\ \A j \in 1..N : j # i => EntryOf(cs, i, N, j) = EntryOf(cs, i - 1, N, j)
      BY <1>1 DEF EntryOf
    <3>2. Cuts(cs, i - 1, N, N) /\ Cuts(cs, i, N, N)
      BY <1>1, <1>2
    <3> HIDE DEF N
    <3> QED BY <1>1, <3>1, <3>2 DEF Step
  <2>2. i - 1 \in 0..N /\ i \in 0..N
    BY <1>1
  <2>3. On(d, LinkMap(cs, i - 1, N, N)) \in C /\ On(d, LinkMap(cs, i, N, N)) \in C
    BY <1>3, <2>2
  <2> QED BY <1>1, <1>3, <2>1, <2>2, <2>3, StepRuns
<1>5. D[0] \in C
  BY <1>1, <1>3
<1>6. FreeAll(cs) \in Seq(Writes) /\ Runs(D[0], FreeAll(cs), D[Len(cs)], C)
  BY <1>1, <1>4, <1>5, FreeRuns
<1> QED BY <1>1, <1>3, <1>6 DEF GiveBack

(***************************************************************************)
(* Linking the clusters, each one marked as an end first.                  *)
(***************************************************************************)
LinkGroup(cs, n) == FatSet(cs[n], EOC) \o IF n = 1 THEN << >> ELSE FatSet(cs[n - 1], cs[n])

LEMMA LinkGroupRuns ==
    ASSUME NEW C, NEW d, NEW cs, Hosts(C, d, cs), NEW k \in 1..Len(cs)
    PROVE  /\ LinkGroup(cs, k) \in Seq(Writes)
           /\ Runs(On(d, LinkMap(cs, 0, k - 1, k - 1)), LinkGroup(cs, k), On(d, LinkMap(cs, 0, k, k)), C)
<1>1. Len(cs) \in Nat /\ cs \in Seq(Clusters) /\ Once(cs) /\ d \in Disks /\ FirstCopy(C)
  BY DEF Hosts
<1>2. ASSUME NEW b \in 0..Len(cs), NEW l \in 0..b PROVE Cuts(cs, 0, b, l) /\ On(d, LinkMap(cs, 0, b, l)) \in C
  <2>1. Cuts(cs, 0, b, l)
    BY <1>1 DEF Cuts
  <2> QED BY <2>1 DEF Hosts
<1>3. /\ k - 1 \in 0..Len(cs) /\ k \in 0..Len(cs) /\ k - 1 \in 0..k /\ k - 1 \in 0..(k - 1) /\ k \in 0..k
      /\ k \in Nat /\ k - 1 \in Nat
  BY <1>1
<1>4. /\ Cuts(cs, 0, k - 1, k - 1) /\ On(d, LinkMap(cs, 0, k - 1, k - 1)) \in C
      /\ Cuts(cs, 0, k, k - 1) /\ On(d, LinkMap(cs, 0, k, k - 1)) \in C
      /\ Cuts(cs, 0, k, k) /\ On(d, LinkMap(cs, 0, k, k)) \in C
  BY <1>2, <1>3
<1>5. CASE k = 1
  <2>1. Step(cs, 0, k - 1, k - 1, 0, k, k, k, EOC)
    BY <1>3, <1>4, <1>5 DEF Step, EntryOf
  <2>2. /\ FatSet(cs[k], EOC) \in Seq(Writes)
        /\ Runs(On(d, LinkMap(cs, 0, k - 1, k - 1)), FatSet(cs[k], EOC), On(d, LinkMap(cs, 0, k, k)), C)
    BY <1>1, <1>4, <2>1, StepRuns
  <2>3. LinkGroup(cs, k) = FatSet(cs[k], EOC)
    BY <1>5, <2>2 DEF LinkGroup
  <2> QED BY <2>2, <2>3
<1>6. CASE k # 1
  <2>1. Step(cs, 0, k - 1, k - 1, 0, k, k - 1, k, EOC)
    BY <1>3, <1>4 DEF Step, EntryOf
  <2>2. Step(cs, 0, k, k - 1, 0, k, k, k - 1, cs[k])
    BY <1>3, <1>4, <1>6 DEF Step, EntryOf
  <2>3. /\ FatSet(cs[k], EOC) \in Seq(Writes)
        /\ Runs(On(d, LinkMap(cs, 0, k - 1, k - 1)), FatSet(cs[k], EOC), On(d, LinkMap(cs, 0, k, k - 1)), C)
    BY <1>1, <1>4, <2>1, StepRuns
  <2>4. /\ FatSet(cs[k - 1], cs[k]) \in Seq(Writes)
        /\ Runs(On(d, LinkMap(cs, 0, k, k - 1)), FatSet(cs[k - 1], cs[k]), On(d, LinkMap(cs, 0, k, k)), C)
    BY <1>1, <1>4, <2>2, StepRuns
  <2>5. LinkGroup(cs, k) = FatSet(cs[k], EOC) \o FatSet(cs[k - 1], cs[k])
    BY <1>6 DEF LinkGroup
  <2> QED BY <2>3, <2>4, <2>5, RunsThen
<1> QED BY <1>5, <1>6

LEMMA LinkRuns ==
    ASSUME NEW C, NEW d, NEW cs, Hosts(C, d, cs)
    PROVE  /\ LinkClusters(cs) \in Seq(Writes)
           /\ Runs(d, LinkClusters(cs), On(d, LinkMap(cs, 0, Len(cs), Len(cs))), C)
<1> DEFINE N == Len(cs)
           D == [i \in 0..N |-> On(d, LinkMap(cs, 0, i, i))]
           ss == [n \in 1..N |-> LinkGroup(cs, n)]
<1>1. N \in Nat /\ cs \in Seq(Clusters) /\ Once(cs) /\ d \in Disks /\ FirstCopy(C)
  BY DEF Hosts
<1>2. \A i \in 0..N : D[i] = On(d, LinkMap(cs, 0, i, i))
  OBVIOUS
<1>3. D[0] = d /\ D[0] \in C
  <2>1. Cuts(cs, 0, 0, 0)
    BY <1>1 DEF Cuts
  <2>2. IsLinkMap(LinkMap(cs, 0, 0, 0), cs, 0, 0, 0)
    BY <2>1, LinkMapFacts
  <2>3. IsMap(LinkMap(cs, 0, 0, 0)) /\ DOMAIN LinkMap(cs, 0, 0, 0) = {}
    BY <2>2 DEF IsLinkMap
  <2>4. On(d, LinkMap(cs, 0, 0, 0)) \in C
    BY <2>1 DEF Hosts
  <2> QED BY <1>1, <1>2, <2>3, <2>4, OnNothing
<1>4. LinkClusters(cs) = FlattenSeq(ss)
  BY DEF LinkClusters, LinkGroup
<1>5. \A k \in 1..N : ss[k] = LinkGroup(cs, k)
  OBVIOUS
<1>6. Len(ss) = N /\ (N = 0 => ss = << >>)
  BY <1>1
<1> HIDE DEF D, ss, N
<1>7. ASSUME NEW k \in 1..N PROVE ss[k] \in Seq(Writes) /\ Runs(D[k - 1], ss[k], D[k], C)
  <2>1. k - 1 \in 0..N /\ k \in 0..N
    BY <1>1
  <2>2. /\ LinkGroup(cs, k) \in Seq(Writes)
        /\ Runs(On(d, LinkMap(cs, 0, k - 1, k - 1)), LinkGroup(cs, k), On(d, LinkMap(cs, 0, k, k)), C)
    BY LinkGroupRuns DEF N
  <2> QED BY <1>2, <1>5, <2>1, <2>2
<1>8. Groups(ss, N, Writes)
  BY <1>1, <1>6, <1>7 DEF Groups
<1>9. FlattenSeq(ss) \in Seq(Writes) /\ Runs(D[0], FlattenSeq(ss), D[N], C)
  BY <1>1, <1>3, <1>7, <1>8, RunsFlat
<1>10. D[N] = On(d, LinkMap(cs, 0, N, N))
  BY <1>1, <1>2
<1> QED BY <1>3, <1>4, <1>9, <1>10 DEF N

-----------------------------------------------------------------------------
(***************************************************************************)
(* Entries written over a disk that is fine, outside the chains in use.    *)
(***************************************************************************)
NoDangling(f) == \A x \in Clusters : f[x] \in Clusters => f[f[x]] # Free

Unlisted(d, n) == \A s \in Slots : d.dir[s].name # n

Open(d, n, T) == Unlisted(d, n) /\ (T = {} => NoDangling(d.fat[1]))

FineDisks(X, e) == {z \in Disks : Fine(z, X, e)}

OpenDisks(X, e, n, T) == {z \in Disks : Fine(z, X, e) /\ Open(z, n, T)}

LEMMA SameFine ==
    ASSUME NEW X, NEW e, NEW y, Fine(y, X, e), NEW x \in Disks,
           x.fat[1] = y.fat[1], x.dir = y.dir, x.data = y.data
    PROVE  Fine(x, X, e)
<1>1. Typed(x) /\ DirOK(x.dir)
  BY DEF Fine, Typed
<1>2. Frames(y, x, X)
  BY <1>1 DEF Frames, Fine, Closed
<1> QED BY <1>2, FrameFine

LEMMA SetsFirstCopy ==
    ASSUME NEW X, NEW e, NEW n, NEW T
    PROVE  FirstCopy(FineDisks(X, e)) /\ FirstCopy(OpenDisks(X, e, n, T))
<1>1. FirstCopy(FineDisks(X, e))
  BY SameFine DEF FirstCopy, FineDisks
<1>2. FirstCopy(OpenDisks(X, e, n, T))
  <2> SUFFICES ASSUME NEW y \in OpenDisks(X, e, n, T), NEW x \in Disks,
                      x.fat[1] = y.fat[1], x.dir = y.dir, x.data = y.data
               PROVE  x \in OpenDisks(X, e, n, T)
    BY DEF FirstCopy
  <2>1. Fine(x, X, e)
    BY SameFine DEF OpenDisks
  <2>2. Open(x, n, T)
    BY DEF OpenDisks, Open, Unlisted
  <2> QED BY <2>1, <2>2 DEF OpenDisks
<1> QED BY <1>1, <1>2

SafeMap(d, g, X) == IsMap(g) /\ \A x \in DOMAIN g : x \notin Taken(d, X) /\ g[x] \notin Taken(d, X)

LEMMA SafeFine ==
    ASSUME NEW d, NEW X, NEW e, NEW g, Fine(d, X, e), SafeMap(d, g, X)
    PROVE  /\ On(d, g) \in FineDisks(X, e) /\ Taken(On(d, g), X) = Taken(d, X)
           /\ Frames(d, On(d, g), X)
<1> DEFINE o == On(d, g)
<1>1. d \in Disks /\ IsMap(g)
  BY DEF Fine, Typed, SafeMap
<1>2. o \in Disks /\ o.dir = d.dir /\ o.data = d.data /\ o.fat[1] = OnCopy(d.fat[1], g)
  BY <1>1, OnFacts, SlotFacts
<1> HIDE DEF o
<1>3. Typed(o) /\ DirOK(o.dir)
  BY <1>2 DEF Fine, Typed
<1>4. Taken(d, X) \subseteq Clusters
  BY DEF Taken
<1>5. \A x \in Clusters : o.fat[1][x] = IF x \in DOMAIN g THEN g[x] ELSE d.fat[1][x]
  BY <1>2 DEF OnCopy
<1>6. \A x \in Taken(d, X) : o.fat[1][x] = d.fat[1][x]
  BY <1>4, <1>5 DEF SafeMap
<1>7. \A x \in Clusters \ Taken(d, X) : o.fat[1][x] \notin Taken(d, X)
  BY <1>5 DEF SafeMap, Fine, Closed
<1>8. Frames(d, o, X)
  BY <1>2, <1>3, <1>6, <1>7 DEF Frames, Fine, Closed
<1> QED BY <1>2, <1>8, FrameFine DEF FineDisks, o

(***************************************************************************)
(* Entries for clusters that were free, which lead to no free cluster.     *)
(***************************************************************************)
LooseMap(f, g) ==
    /\ IsMap(g)
    /\ \A x \in DOMAIN g : f[x] = Free
    /\ \A x \in DOMAIN g : g[x] \in Clusters => g[x] \in DOMAIN g /\ g[g[x]] # Free

LEMMA LooseSafe ==
    ASSUME NEW d, NEW X, NEW e, NEW g, Fine(d, X, e), LooseMap(d.fat[1], g)
    PROVE  SafeMap(d, g, X)
<1>1. \A x \in DOMAIN g : x \notin Taken(d, X)
  BY TakenLeadsOn DEF LooseMap
<1>2. \A x \in DOMAIN g : g[x] \notin Taken(d, X)
  BY <1>1 DEF LooseMap, Taken
<1> QED BY <1>1, <1>2 DEF SafeMap, LooseMap

LEMMA LooseDangling ==
    ASSUME NEW f \in [Clusters -> Vals], NEW g, NoDangling(f), LooseMap(f, g)
    PROVE  NoDangling(OnCopy(f, g))
<1> DEFINE o == OnCopy(f, g)
<1>1. \A x \in Clusters : o[x] = IF x \in DOMAIN g THEN g[x] ELSE f[x]
  BY DEF OnCopy
<1> HIDE DEF o
<1> SUFFICES ASSUME NEW x \in Clusters, o[x] \in Clusters PROVE o[o[x]] # Free
  BY DEF NoDangling, o
<1>2. CASE x \in DOMAIN g
  BY <1>1, <1>2 DEF LooseMap
<1>3. CASE x \notin DOMAIN g
  <2>1. o[x] = f[x] /\ f[f[x]] # Free
    BY <1>1, <1>3 DEF NoDangling
  <2>2. f[x] \notin DOMAIN g
    BY <2>1 DEF LooseMap
  <2> QED BY <1>1, <2>1, <2>2
<1> QED BY <1>2, <1>3

LEMMA LooseOpen ==
    ASSUME NEW d, NEW X, NEW e, NEW n, NEW T, NEW g, Fine(d, X, e), Open(d, n, T), LooseMap(d.fat[1], g)
    PROVE  /\ On(d, g) \in OpenDisks(X, e, n, T) /\ Taken(On(d, g), X) = Taken(d, X)
           /\ Frames(d, On(d, g), X)
<1>1. d \in Disks /\ IsMap(g)
  BY DEF Fine, Typed, LooseMap
<1>2. On(d, g) \in FineDisks(X, e) /\ Taken(On(d, g), X) = Taken(d, X) /\ Frames(d, On(d, g), X)
  BY LooseSafe, SafeFine
<1>3. On(d, g).dir = d.dir /\ On(d, g).fat[1] = OnCopy(d.fat[1], g) /\ d.fat[1] \in [Clusters -> Vals]
  BY <1>1, OnFacts, DiskFacts, SlotFacts
<1>4. Open(On(d, g), n, T)
  BY <1>3, LooseDangling DEF Open, Unlisted
<1> QED BY <1>2, <1>4 DEF FineDisks, OpenDisks

LEMMA LinkLoose ==
    ASSUME NEW f, NEW cs, NEW n, Allotted(f, cs, n), NEW a, NEW b, NEW l, Cuts(cs, a, b, l)
    PROVE  LooseMap(f, LinkMap(cs, a, b, l))
<1> DEFINE g == LinkMap(cs, a, b, l)
<1>1. IsLinkMap(g, cs, a, b, l)
  BY LinkMapFacts
<1> HIDE DEF g
<1>2. /\ cs \in Seq(Clusters) /\ b \in Nat /\ b <= Len(cs) /\ a \in Nat /\ l \in Nat /\ l <= b /\ Len(cs) \in Nat
      /\ (\A j \in 1..Len(cs) : f[cs[j]] = Free /\ cs[j] \in Clusters) /\ \A j \in 1..b : j \in 1..Len(cs)
  BY DEF Cuts, Allotted
<1>3. \A x \in DOMAIN g : f[x] = Free
  BY <1>1, <1>2 DEF IsLinkMap
<1>4. ASSUME NEW x \in DOMAIN g, g[x] \in Clusters PROVE g[x] \in DOMAIN g /\ g[g[x]] # Free
  <2>1. PICK j \in 1..b : x = cs[j]
    BY <1>1 DEF IsLinkMap
  <2>2. g[x] = EntryOf(cs, a, l, j)
    BY <1>1, <2>1 DEF IsLinkMap
  <2>3. j > a /\ j < l /\ g[x] = cs[j + 1] /\ j + 1 \in 1..b
    BY <1>2, <1>4, <2>2, ClusterFacts DEF EntryOf
  <2>4. g[x] \in DOMAIN g /\ g[g[x]] = EntryOf(cs, a, l, j + 1)
    BY <1>1, <2>3 DEF IsLinkMap
  <2>5. EntryOf(cs, a, l, j + 1) # Free
    <3>1. CASE j + 1 < l
      <4>1. (j + 1) + 1 \in 1..Len(cs) /\ ~(j + 1 <= a)
        BY <1>2, <2>3, <3>1
      <4>2. cs[(j + 1) + 1] \in Clusters
        BY <1>2, <4>1
      <4> QED BY <3>1, <4>1, <4>2, ClusterFacts DEF EntryOf
    <3>2. CASE ~(j + 1 < l)
      BY <1>2, <2>3, <3>2, ClusterFacts DEF EntryOf
    <3> QED BY <3>1, <3>2
  <2> QED BY <2>4, <2>5
<1>5. IsMap(g)
  BY <1>1 DEF IsLinkMap
<1> QED BY <1>3, <1>4, <1>5 DEF LooseMap, g

-----------------------------------------------------------------------------
(***************************************************************************)
(* The disk between two calls: T are the torn files, L the power losses so *)
(* far, and S says whether a write has found the directory full.           *)
(***************************************************************************)
Agree(d) == \A k \in 1..NUM_FATS : d.fat[k] = d.fat[1]

AllUsed(d, X) == \A x \in Clusters : d.fat[1][x] # Free => x \in Taken(d, X)

Modes(X, T, L) == (T = {} => X = {}) /\ (L = 0 => T = {})

Whole(d, X, e, T, L, S) ==
    /\ Fine(d, X, e)
    /\ T = {} => NoDangling(d.fat[1])
    /\ L = 0 => Agree(d)
    /\ L = 0 /\ ~S => AllUsed(d, {})

(***************************************************************************)
(* The same disk without the file n.                                       *)
(***************************************************************************)
Gone(d, n, X, e, T, L, S) ==
    /\ d \in OpenDisks(X \cup {n}, e, n, T)
    /\ L = 0 => Agree(d)
    /\ L = 0 /\ ~S => AllUsed(d, X \cup {n})

IsUpdate(g, e, n, v) == g[n] = v /\ \A m \in Names \ {n} : g[m] = e[m]

LEMMA GoneWhole ==
    ASSUME NEW d, NEW n \in Names, NEW X, NEW e, NEW T, NEW L, NEW S, NEW g, Modes(X, T, L),
           Gone(d, n, X, e, T, L, S), IsUpdate(g, e, n, NoFile)
    PROVE  Whole(d, X, g, T, L, S)
<1>1. Fine(d, X \cup {n}, e) /\ Unlisted(d, n) /\ (T = {} => NoDangling(d.fat[1]))
  BY DEF Gone, OpenDisks, Open
<1>2. Fine(d, X, g)
  BY <1>1, FineDrop DEF Unlisted, IsUpdate
<1>3. ASSUME L = 0, ~S PROVE AllUsed(d, {})
  <2>1. X = {}
    BY <1>3 DEF Modes
  <2>2. FilesOf(d, {}) = FilesOf(d, X \cup {n})
    BY <1>1, <2>1 DEF FilesOf, Unlisted
  <2>3. Taken(d, {}) = Taken(d, X \cup {n})
    BY <2>2 DEF Taken
  <2> QED BY <1>3, <2>3 DEF Gone, AllUsed
<1> QED BY <1>1, <1>2, <1>3 DEF Whole, Gone

LEMMA UnlistedGone ==
    ASSUME NEW d, NEW n \in Names, NEW X, NEW e, NEW T, NEW L, NEW S, Modes(X, T, L),
           Whole(d, X, e, T, L, S), Unlisted(d, n)
    PROVE  Gone(d, n, X, e, T, L, S)
<1>1. d \in Disks /\ Fine(d, X \cup {n}, e)
  BY FineMore DEF Whole, Fine, Typed
<1>2. Open(d, n, T)
  BY DEF Whole, Open
<1>3. ASSUME L = 0, ~S PROVE AllUsed(d, X \cup {n})
  <2>1. X = {}
    BY <1>3 DEF Modes
  <2>2. FilesOf(d, {}) = FilesOf(d, X \cup {n})
    BY <2>1 DEF FilesOf, Unlisted
  <2>3. Taken(d, {}) = Taken(d, X \cup {n})
    BY <2>2 DEF Taken
  <2> QED BY <1>3, <2>3 DEF Whole, AllUsed
<1> QED BY <1>1, <1>2, <1>3 DEF Gone, OpenDisks, Whole

(***************************************************************************)
(* fat16_delete_file: the chain of slot s is freed.                        *)
(***************************************************************************)
LEMMA FreedSafe ==
    ASSUME NEW d, NEW X, NEW e, Fine(d, X, e), NEW n \in Names, NEW s \in Slots, d.dir[s].name = n,
           NEW i \in 0..Len(ChainOf(d, s))
    PROVE  /\ IsLinkMap(LinkMap(ChainOf(d, s), i, i, i), ChainOf(d, s), i, i, i)
           /\ SafeMap(d, LinkMap(ChainOf(d, s), i, i, i), X \cup {n})
           /\ On(d, LinkMap(ChainOf(d, s), i, i, i)) \in FineDisks(X \cup {n}, e)
<1>1. PICK cs : cs = ChainOf(d, s)
  OBVIOUS
<1>2. cs \in Seq(Clusters) /\ Once(cs) /\ Len(cs) \in Nat /\ \A j \in 1..Len(cs) : cs[j] \in Range(cs)
  BY <1>1, ChainFacts DEF ChainOf
<1>3. Cuts(cs, i, i, i)
  BY <1>1, <1>2 DEF Cuts
<1> DEFINE g == LinkMap(cs, i, i, i)
<1>4. IsLinkMap(g, cs, i, i, i)
  BY <1>3, LinkMapFacts
<1> HIDE DEF g
<1>5. Range(cs) \cap Taken(d, X \cup {n}) = {}
  BY <1>1, DeleteOutside
<1>6. Free \notin Taken(d, X \cup {n})
  BY ClusterFacts DEF Taken
<1>7. ASSUME NEW x \in DOMAIN g PROVE x \notin Taken(d, X \cup {n}) /\ g[x] \notin Taken(d, X \cup {n})
  <2>1. PICK j \in 1..i : x = cs[j]
    BY <1>4 DEF IsLinkMap
  <2>2. j \in 1..Len(cs) /\ j <= i
    BY <1>1, <1>2
  <2>3. g[x] = Free
    BY <1>4, <2>1, <2>2 DEF IsLinkMap, EntryOf
  <2> QED BY <1>2, <1>5, <1>6, <2>1, <2>2, <2>3
<1>8. SafeMap(d, g, X \cup {n})
  BY <1>4, <1>7 DEF SafeMap, IsLinkMap
<1>9. Fine(d, X \cup {n}, e)
  BY FineMore
<1>10. On(d, g) \in FineDisks(X \cup {n}, e)
  BY <1>8, <1>9, SafeFine
<1> QED BY <1>1, <1>4, <1>8, <1>10 DEF g

FreedDisk(d, s) == On(d, LinkMap(ChainOf(d, s), Len(ChainOf(d, s)), Len(ChainOf(d, s)), Len(ChainOf(d, s))))

MarkOf(d, s) == DirWrite(s, Deleted, d.dir[s].first, d.dir[s].size)

EmptiedDisk(d, s) == WriteTo(FreedDisk(d, s), MarkOf(d, s))

IsEmptied(z, d, s) ==
    /\ z \in Disks /\ z.data = d.data
    /\ \A r \in Slots : r # s => z.dir[r] = d.dir[r]
    /\ z.dir[s] = [name |-> Deleted, first |-> d.dir[s].first, size |-> d.dir[s].size]
    /\ \A k \in 1..NUM_FATS, x \in Clusters :
            z.fat[k][x] = IF x \in Range(ChainOf(d, s)) THEN Free ELSE d.fat[k][x]

LEMMA EmptiedFacts ==
    ASSUME NEW d, NEW X, NEW e, Fine(d, X, e), NEW n \in Names, NEW s \in Slots, d.dir[s].name = n
    PROVE  /\ IsEmptied(EmptiedDisk(d, s), d, s)
           /\ FreedDisk(d, s) \in FineDisks(X \cup {n}, e)
           /\ FreedDisk(d, s).dir = d.dir /\ FreedDisk(d, s).data = d.data
           /\ MarkOf(d, s) \in Writes /\ IsMark(MarkOf(d, s))
<1>1. PICK cs : cs = ChainOf(d, s)
  OBVIOUS
<1>2. cs \in Seq(Clusters) /\ Len(cs) \in Nat /\ \A x : x \in Range(cs) <=> \E i \in 1..Len(cs) : x = cs[i]
  BY <1>1, ChainFacts DEF ChainOf
<1> DEFINE N == Len(cs)
           g == LinkMap(cs, N, N, N)
           o == FreedDisk(d, s)
<1>3. N \in 0..Len(ChainOf(d, s)) /\ o = On(d, g)
  BY <1>1, <1>2 DEF FreedDisk
<1>4. IsLinkMap(g, cs, N, N, N) /\ On(d, g) \in FineDisks(X \cup {n}, e)
  BY <1>1, <1>3, FreedSafe
<1>5. d \in Disks /\ IsMap(g)
  BY <1>4 DEF Fine, Typed, IsLinkMap
<1> HIDE DEF g
<1>6. /\ On(d, g) \in Disks /\ On(d, g).dir = d.dir /\ On(d, g).data = d.data
      /\ \A k \in 1..NUM_FATS : On(d, g).fat[k] = OnCopy(d.fat[k], g)
  BY <1>5, OnFacts
<1>7. \A x : x \in DOMAIN g <=> x \in Range(cs)
  BY <1>2, <1>4 DEF IsLinkMap
<1>8. \A x \in DOMAIN g : g[x] = Free
  BY <1>2, <1>4 DEF IsLinkMap, EntryOf
<1>9. \A k \in 1..NUM_FATS, x \in Clusters :
            On(d, g).fat[k][x] = IF x \in Range(cs) THEN Free ELSE d.fat[k][x]
  BY <1>6, <1>7, <1>8 DEF OnCopy
<1> HIDE DEF o, N
<1> DEFINE w == MarkOf(d, s)
           v == [name |-> Deleted, first |-> d.dir[s].first, size |-> d.dir[s].size]
<1>10. d.dir \in [Slots -> Entries] /\ d.dir[s] \in Entries /\ v \in Entries
  BY <1>5, DiskFacts DEF Entries
<1>11. w.at = "dir" /\ w.slot = s /\ w.value = v /\ v.name = Deleted
  BY DEF MarkOf, DirWrite
<1>12. w \in Writes
  BY <1>10 DEF MarkOf, DirWrite, Writes, DirWrites
<1> HIDE DEF w, v
<1> DEFINE t == [d.dir EXCEPT ![s] = v]
           z == EmptiedDisk(d, s)
<1>13. t \in [Slots -> Entries] /\ t[s] = v /\ \A r \in Slots : r # s => t[r] = d.dir[r]
  BY <1>10
<1>14. z = MkDisk(o.fat, t, d.data)
  <2>1. z = WriteTo(o, w)
    BY DEF EmptiedDisk, o, w
  <2>2. o.dir = d.dir /\ o.data = d.data
    BY <1>3, <1>6
  <2> HIDE DEF z
  <2> QED BY <1>11, <2>1, <2>2 DEF WriteTo
<1> HIDE DEF t, z
<1>15. z \in Disks /\ z.fat = o.fat /\ z.dir = t /\ z.data = d.data
  <2>1. o.fat \in Fats /\ d.data \in [Clusters -> [Places -> Sectors]]
    BY <1>3, <1>5, <1>6, DiskFacts
  <2> QED BY <1>13, <1>14, <2>1, MkTyped, MkFields
<1>16. IsEmptied(z, d, s)
  BY <1>1, <1>3, <1>9, <1>13, <1>15 DEF IsEmptied, v
<1> QED BY <1>3, <1>4, <1>6, <1>11, <1>12, <1>16 DEF w, o, z, IsMark

LEMMA EmptiedGone ==
    ASSUME NEW d, NEW n \in Names, NEW X, NEW e, NEW T, NEW L, NEW S, Modes(X, T, L),
           Whole(d, X, e, T, L, S), NEW s \in Slots, d.dir[s].name = n
    PROVE  Gone(EmptiedDisk(d, s), n, X, e, T, L, S)
<1> DEFINE Y == X \cup {n}
           z == EmptiedDisk(d, s)
           ch == ChainOf(d, s)
<1>1. Fine(d, X, e) /\ Fine(d, Y, e)
  BY FineMore DEF Whole
<1>2. IsEmptied(z, d, s)
  BY <1>1, EmptiedFacts
<1>3. Range(ch) \cap Taken(d, Y) = {} /\ Range(ch) \subseteq Clusters /\ Taken(d, Y) \subseteq Clusters
  BY <1>1, DeleteOutside, ChainFacts DEF ChainOf, Taken
<1> HIDE DEF z, ch
<1>4. /\ z \in Disks /\ z.data = d.data
      /\ \A r \in Slots : r # s => z.dir[r] = d.dir[r]
      /\ z.dir[s].name = Deleted /\ z.dir[s].first = d.dir[s].first /\ z.dir[s].size = d.dir[s].size
      /\ \A k \in 1..NUM_FATS, x \in Clusters : z.fat[k][x] = IF x \in Range(ch) THEN Free ELSE d.fat[k][x]
  BY <1>2 DEF IsEmptied, ch
<1>5. Deleted \notin Names /\ Deleted # Never
  BY NamesAssumption DEF Deleted, Never
<1>6. Typed(z)
  BY <1>1, <1>4 DEF Typed, Fine
<1>7. DirOK(z.dir)
  <2> SUFFICES ASSUME NEW a \in Slots, NEW r \in Slots, z.dir[a].name \in Names
               PROVE  (r < a => z.dir[r].name # Never) /\ (r # a => z.dir[r].name # z.dir[a].name)
    BY DEF DirOK
  <2>1. a # s /\ z.dir[a] = d.dir[a]
    BY <1>4, <1>5
  <2>2. (r < a => d.dir[r].name # Never) /\ (r # a => d.dir[r].name # d.dir[a].name)
    BY <1>1, <2>1 DEF Fine, DirOK
  <2> QED BY <1>4, <1>5, <2>1, <2>2
<1>8. Unlisted(z, n)
  <2>1. \A r \in Slots : d.dir[r].name = n => r = s
    BY <1>1, HoldsSlot DEF Fine
  <2> QED BY <1>4, <1>5, <2>1 DEF Unlisted
<1>9. \A x \in Clusters : z.fat[1][x] = IF x \in Range(ch) THEN Free ELSE d.fat[1][x]
  BY <1>4, SlotFacts
<1>10. Free \notin Taken(d, Y)
  BY <1>3, ClusterFacts
<1>11. Frames(d, z, Y)
  <2>1. \A r \in Slots : d.dir[r].name \in Names \ Y \/ z.dir[r].name \in Names \ Y => z.dir[r] = d.dir[r]
    BY <1>4, <1>5
  <2>2. \A x \in Taken(d, Y) : z.fat[1][x] = d.fat[1][x] /\ z.data[x] = d.data[x]
    BY <1>3, <1>4, <1>9
  <2>3. \A x \in Clusters \ Taken(d, Y) : z.fat[1][x] \notin Taken(d, Y)
    BY <1>1, <1>9, <1>10 DEF Fine, Closed
  <2>4. \A r \in Slots : z.dir[r].name \in Names \cap Y => z.dir[r].first \notin Taken(d, Y)
    BY <1>1, <1>4, <1>5 DEF Fine, Closed
  <2> QED BY <1>6, <1>7, <2>1, <2>2, <2>3, <2>4 DEF Frames
<1>12. Fine(z, Y, e) /\ Taken(z, Y) = Taken(d, Y)
  BY <1>1, <1>11, FrameFine
<1>13. ASSUME T = {} PROVE NoDangling(z.fat[1])
  <2>1. X = {} /\ NoDangling(d.fat[1])
    BY <1>13 DEF Modes, Whole
  <2>2. s \in FilesOf(d, {})
    BY DEF FilesOf
  <2>3. Range(ch) \subseteq Taken(d, {})
    BY <1>3, <2>2 DEF Taken, ch
  <2>4. ASSUME NEW x \in Clusters \ Range(ch) PROVE d.fat[1][x] \notin Range(ch)
    <3>1. CASE x \notin Taken(d, {})
      BY <1>1, <2>1, <2>3, <2>4, <3>1 DEF Fine, Closed
    <3>2. CASE x \in Taken(d, {})
      <4>1. PICK r \in FilesOf(d, {}) : x \in Range(ChainOf(d, r))
        BY <3>2 DEF Taken
      <4>2. d.fat[1][x] \in Range(ChainOf(d, r)) \cup {EOC}
        BY <1>1, <2>1, <4>1, ChainLeadsOn DEF Fine
      <4>3. r # s
        BY <2>4, <4>1 DEF ch
      <4>4. Range(ChainOf(d, r)) \cap Range(ch) = {}
        BY <1>1, <2>1, <2>2, <4>3 DEF Fine, Apart, ch
      <4> QED BY <1>3, <4>2, <4>4, ClusterFacts
    <3> QED BY <3>1, <3>2
  <2> SUFFICES ASSUME NEW x \in Clusters, z.fat[1][x] \in Clusters PROVE z.fat[1][z.fat[1][x]] # Free
    BY DEF NoDangling
  <2>5. x \notin Range(ch) /\ z.fat[1][x] = d.fat[1][x]
    BY <1>9, ClusterFacts
  <2>6. d.fat[1][x] \notin Range(ch) /\ d.fat[1][d.fat[1][x]] # Free
    BY <2>1, <2>4, <2>5 DEF NoDangling
  <2> QED BY <1>9, <2>5, <2>6
<1>14. ASSUME L = 0 PROVE Agree(z)
  <2>1. z.fat \in Fats /\ \A k \in 1..NUM_FATS : d.fat[k] = d.fat[1]
    BY <1>4, <1>14, DiskFacts DEF Whole, Agree
  <2> SUFFICES ASSUME NEW k \in 1..NUM_FATS PROVE z.fat[k] = z.fat[1]
    BY DEF Agree
  <2>2. z.fat[k] \in [Clusters -> Vals] /\ z.fat[1] \in [Clusters -> Vals]
    BY <2>1, SlotFacts DEF Fats
  <2>3. \A x \in Clusters : z.fat[k][x] = z.fat[1][x]
    BY <1>4, <2>1, SlotFacts
  <2> QED BY <2>2, <2>3
<1>15. ASSUME L = 0, ~S PROVE AllUsed(z, Y)
  <2>1. X = {} /\ AllUsed(d, {})
    BY <1>15 DEF Modes, Whole
  <2> SUFFICES ASSUME NEW x \in Clusters, z.fat[1][x] # Free PROVE x \in Taken(d, Y)
    BY <1>12 DEF AllUsed
  <2>2. x \notin Range(ch) /\ d.fat[1][x] # Free
    BY <1>9
  <2>3. PICK r \in FilesOf(d, {}) : x \in Range(ChainOf(d, r))
    BY <2>1, <2>2 DEF AllUsed, Taken
  <2>4. r # s
    BY <2>2, <2>3 DEF ch
  <2>5. d.dir[r].name # n
    BY <1>1, <2>3, <2>4, HoldsSlot DEF Fine, FilesOf
  <2>6. r \in FilesOf(d, Y)
    BY <2>1, <2>3, <2>5 DEF FilesOf
  <2> QED BY <2>3, <2>6 DEF Taken
<1> QED BY <1>4, <1>8, <1>12, <1>13, <1>14, <1>15 DEF Gone, OpenDisks, Open, z

(***************************************************************************)
(* The writes of a deletion.                                               *)
(***************************************************************************)
LEMMA DeletionRuns ==
    ASSUME NEW d, NEW n \in Names, NEW X, NEW e, Fine(d, X, e), NEW s \in Slots, d.dir[s].name = n,
           EmptiedDisk(d, s) \in FineDisks(X \cup {n}, e)
    PROVE  LET ws == FreeAll(ChainOf(d, s)) \o <<MarkOf(d, s)>>
           IN  /\ ws \in Seq(Writes) /\ ws # << >> /\ IsMark(ws[Len(ws)])
               /\ Runs(d, ws, EmptiedDisk(d, s), FineDisks(X \cup {n}, e))
<1>1. PICK C : C = FineDisks(X \cup {n}, e)
  OBVIOUS
<1>2. PICK w : w = MarkOf(d, s)
  OBVIOUS
<1>3. PICK a : a = FreeAll(ChainOf(d, s))
  OBVIOUS
<1>4. d \in Disks /\ FirstCopy(C)
  BY <1>1, SetsFirstCopy DEF Fine, Typed
<1>5. a \in Seq(Writes) /\ Runs(d, a, FreedDisk(d, s), C)
  <2>1. PICK cs : cs = ChainOf(d, s)
    OBVIOUS
  <2>2. cs \in Seq(Clusters) /\ Once(cs)
    BY <2>1, ChainFacts DEF ChainOf
  <2>3. \A i \in 0..Len(cs) : On(d, LinkMap(cs, i, i, i)) \in C
    BY <1>1, <2>1, FreedSafe
  <2>4. /\ FreeAll(cs) \in Seq(Writes)
        /\ Runs(d, FreeAll(cs), On(d, LinkMap(cs, Len(cs), Len(cs), Len(cs))), C)
    BY <1>4, <2>2, <2>3, ChainRuns
  <2> QED BY <1>3, <2>1, <2>4 DEF FreedDisk
<1>6. FreedDisk(d, s) \in C /\ w \in Writes /\ IsMark(w)
  BY <1>1, <1>2, EmptiedFacts
<1>7. Runs(FreedDisk(d, s), <<w>>, EmptiedDisk(d, s), C)
  <2>1. EmptiedDisk(d, s) = WriteTo(FreedDisk(d, s), w)
    BY <1>2 DEF EmptiedDisk
  <2> QED BY <1>1, <1>6, <2>1, RunsOne
<1>8. <<w>> \in Seq(Writes)
  BY <1>6
<1>9. Runs(d, a \o <<w>>, EmptiedDisk(d, s), C)
  BY <1>5, <1>7, <1>8, RunsThen
<1>10. a \o <<w>> \in Seq(Writes) /\ Len(a \o <<w>>) = Len(a) + 1 /\ (a \o <<w>>)[Len(a) + 1] = w
       /\ Len(a) \in Nat
  BY <1>5, <1>6
<1>11. a \o <<w>> # << >>
  BY <1>10
<1> QED BY <1>1, <1>2, <1>3, <1>6, <1>9, <1>10, <1>11

-----------------------------------------------------------------------------
(***************************************************************************)
(* fat16_write_file after its deletion, on disk d: a write that does not   *)
(* fit leaves the disk as it was.                                          *)
(***************************************************************************)
LinkedDisk(d, cs) == On(d, LinkMap(cs, 0, Len(cs), Len(cs)))

ReturnedDisk(d, cs) == On(d, LinkMap(cs, Len(cs), Len(cs), Len(cs)))

LEMMA HostsOpen ==
    ASSUME NEW d, NEW n, NEW X, NEW e, NEW T, NEW cs, NEW k, Allotted(d.fat[1], cs, k),
           Fine(d, X, e), Open(d, n, T)
    PROVE  Hosts(OpenDisks(X, e, n, T), d, cs)
<1>1. d \in Disks /\ cs \in Seq(Clusters) /\ Once(cs)
  BY DEF Fine, Typed, Allotted
<1>2. FirstCopy(OpenDisks(X, e, n, T))
  BY SetsFirstCopy
<1>3. ASSUME NEW a, NEW b, NEW l, Cuts(cs, a, b, l) PROVE On(d, LinkMap(cs, a, b, l)) \in OpenDisks(X, e, n, T)
  <2>1. LooseMap(d.fat[1], LinkMap(cs, a, b, l))
    BY <1>3, LinkLoose
  <2> QED BY <2>1, LooseOpen
<1> QED BY <1>1, <1>2, <1>3 DEF Hosts

LEMMA OnAgree ==
    ASSUME NEW d \in Disks, NEW g, IsMap(g), Agree(d)
    PROVE  Agree(On(d, g))
<1>1. \A k \in 1..NUM_FATS : On(d, g).fat[k] = OnCopy(d.fat[k], g)
  BY OnFacts
<1>2. \A k \in 1..NUM_FATS : d.fat[k] = d.fat[1]
  BY DEF Agree
<1> QED BY <1>1, <1>2, SlotFacts DEF Agree

LEMMA ReturnedGone ==
    ASSUME NEW d, NEW n \in Names, NEW X, NEW e, NEW T, NEW L, NEW S, NEW cs, NEW k,
           Gone(d, n, X, e, T, L, S), Allotted(d.fat[1], cs, k)
    PROVE  Gone(ReturnedDisk(d, cs), n, X, e, T, L, S)
<1> DEFINE N == Len(cs)
           g == LinkMap(cs, N, N, N)
<1>1. d \in Disks /\ Fine(d, X \cup {n}, e) /\ Open(d, n, T)
  BY DEF Gone, OpenDisks
<1>2. cs \in Seq(Clusters) /\ Once(cs) /\ N \in Nat
  BY DEF Allotted
<1>3. Cuts(cs, N, N, N)
  BY <1>2 DEF Cuts
<1>4. LooseMap(d.fat[1], g) /\ IsLinkMap(g, cs, N, N, N)
  BY <1>3, LinkLoose, LinkMapFacts
<1>5. ReturnedDisk(d, cs) = On(d, g)
  BY DEF ReturnedDisk
<1> HIDE DEF g, N
<1>6. IsMap(g) /\ On(d, g) \in OpenDisks(X \cup {n}, e, n, T) /\ Taken(On(d, g), X \cup {n}) = Taken(d, X \cup {n})
  BY <1>1, <1>4, LooseOpen DEF LooseMap
<1>7. L = 0 => Agree(On(d, g))
  BY <1>1, <1>6, OnAgree DEF Gone
<1>8. \A x \in DOMAIN g : g[x] = Free
  BY <1>2, <1>4 DEF IsLinkMap, EntryOf
<1>9. \A x \in Clusters : On(d, g).fat[1][x] # Free => d.fat[1][x] # Free
  <2>1. On(d, g).fat[1] = OnCopy(d.fat[1], g)
    BY <1>1, <1>6, OnFacts, SlotFacts
  <2> QED BY <1>8, <2>1 DEF OnCopy
<1>10. L = 0 /\ ~S => AllUsed(On(d, g), X \cup {n})
  BY <1>6, <1>9 DEF Gone, AllUsed
<1> QED BY <1>5, <1>6, <1>7, <1>10 DEF Gone

LEMMA FullRuns ==
    ASSUME NEW C, NEW d, NEW cs, Hosts(C, d, cs)
    PROVE  /\ LinkClusters(cs) \o GiveBack(cs) \in Seq(Writes)
           /\ Runs(d, LinkClusters(cs) \o GiveBack(cs), ReturnedDisk(d, cs), C)
<1>1. LinkClusters(cs) \in Seq(Writes) /\ Runs(d, LinkClusters(cs), LinkedDisk(d, cs), C)
  BY LinkRuns DEF LinkedDisk
<1>2. GiveBack(cs) \in Seq(Writes) /\ Runs(LinkedDisk(d, cs), GiveBack(cs), ReturnedDisk(d, cs), C)
  BY GiveBackRuns DEF LinkedDisk, ReturnedDisk
<1> QED BY <1>1, <1>2, RunsThen

(***************************************************************************)
(* A write that fits: the clusters are linked and filled.                  *)
(***************************************************************************)
EndMark(cs) == IF cs = << >> THEN << >> ELSE FatSet(cs[Len(cs)], EOC)

LEMMA EndRuns ==
    ASSUME NEW C, NEW d, NEW cs, Hosts(C, d, cs)
    PROVE  /\ LinkClusters(cs) \o EndMark(cs) \in Seq(Writes)
           /\ Runs(d, LinkClusters(cs) \o EndMark(cs), LinkedDisk(d, cs), C)
<1>1. LinkClusters(cs) \in Seq(Writes) /\ Runs(d, LinkClusters(cs), LinkedDisk(d, cs), C)
  BY LinkRuns DEF LinkedDisk
<1>2. d \in Disks /\ FirstCopy(C) /\ cs \in Seq(Clusters) /\ Once(cs) /\ Len(cs) \in Nat
  BY DEF Hosts
<1>3. Cuts(cs, 0, Len(cs), Len(cs))
  BY <1>2 DEF Cuts
<1>4. LinkedDisk(d, cs) \in C
  BY <1>3 DEF Hosts, LinkedDisk
<1>5. EndMark(cs) \in Seq(Writes) /\ Runs(LinkedDisk(d, cs), EndMark(cs), LinkedDisk(d, cs), C)
  <2>1. CASE cs = << >>
    BY <1>4, <2>1, RunsNone DEF EndMark
  <2>2. CASE cs # << >>
    <3>1. Len(cs) \in 1..Len(cs) /\ EntryOf(cs, 0, Len(cs), Len(cs)) = EOC
      BY <1>2, <2>2 DEF EntryOf
    <3>2. Step(cs, 0, Len(cs), Len(cs), 0, Len(cs), Len(cs), Len(cs), EOC)
      BY <1>3, <3>1 DEF Step
    <3>3. /\ FatSet(cs[Len(cs)], EOC) \in Seq(Writes)
          /\ Runs(LinkedDisk(d, cs), FatSet(cs[Len(cs)], EOC), LinkedDisk(d, cs), C)
      BY <1>2, <1>4, <3>2, StepRuns DEF LinkedDisk
    <3> QED BY <2>2, <3>3 DEF EndMark
  <2> QED BY <2>1, <2>2
<1> QED BY <1>1, <1>5, RunsThen

WrittenDisk(d, cs, content) == Filled(LinkedDisk(d, cs), cs, content, NumSectors(Len(content)))

LEMMA FilledOpen ==
    ASSUME NEW d, NEW n, NEW X, NEW e, NEW T, d \in OpenDisks(X, e, n, T), NEW cs, NEW content,
           Fits(cs, content), \A j \in 1..Len(cs) : cs[j] \notin Taken(d, X),
           NEW i \in 0..NumSectors(Len(content))
    PROVE  /\ Filled(d, cs, content, i) \in OpenDisks(X, e, n, T)
           /\ Taken(Filled(d, cs, content, i), X) = Taken(d, X)
<1> DEFINE z == Filled(d, cs, content, i)
<1>1. d \in Disks /\ Fine(d, X, e) /\ Open(d, n, T)
  BY DEF OpenDisks
<1>2. IsFilled(z, d, cs, content, i)
  BY <1>1, FilledFacts
<1> HIDE DEF z
<1>3. /\ z \in Disks /\ z.fat = d.fat /\ z.dir = d.dir
      /\ \A x \in Clusters, p \in Places : (\A j \in 1..i : ~At(cs, j, x, p)) => z.data[x][p] = d.data[x][p]
  BY <1>2 DEF IsFilled
<1>0. PICK m : m = NumSectors(Len(content))
  OBVIOUS
<1>00. m \in Nat /\ \A j \in 1..m : \E k \in 1..Len(cs) : ClusterAt(cs, j - 1) = cs[k]
  BY <1>0, Layout
<1>4. \A j \in 1..i : \E k \in 1..Len(cs) : ClusterAt(cs, j - 1) = cs[k]
  <2>1. \A j \in 1..i : j \in 1..m
    BY <1>0, <1>00
  <2> QED BY <1>00, <2>1
<1>5. \A x \in Taken(d, X) : z.data[x] = d.data[x]
  <2> SUFFICES ASSUME NEW x \in Taken(d, X) PROVE z.data[x] = d.data[x]
    OBVIOUS
  <2>1. x \in Clusters /\ \A j \in 1..i, p \in Places : ~At(cs, j, x, p)
    BY <1>4 DEF Taken, At
  <2>2. z.data[x] \in [Places -> Sectors] /\ d.data[x] \in [Places -> Sectors]
    BY <1>1, <1>3, <2>1, DiskFacts
  <2> QED BY <1>3, <2>1, <2>2
<1>6. Typed(z) /\ DirOK(z.dir)
  BY <1>1, <1>3 DEF Fine, Typed
<1>7. Frames(d, z, X)
  BY <1>1, <1>3, <1>5, <1>6 DEF Frames, Fine, Closed
<1>8. Fine(z, X, e) /\ Taken(z, X) = Taken(d, X)
  BY <1>1, <1>7, FrameFine
<1>9. Open(z, n, T)
  BY <1>1, <1>3 DEF Open, Unlisted
<1> QED BY <1>3, <1>8, <1>9 DEF OpenDisks, z

(***************************************************************************)
(* The disk z with the clusters of the new file filled.                    *)
(***************************************************************************)
IsWritten(z, d, cs, content) ==
    /\ z \in Disks /\ z.dir = d.dir
    /\ \A k \in 1..NUM_FATS : z.fat[k] = OnCopy(d.fat[k], LinkMap(cs, 0, Len(cs), Len(cs)))
    /\ \A j \in 1..NumSectors(Len(content)) :
         z.data[ClusterAt(cs, j - 1)][PlaceAt(j - 1)] = SectorOf(content, j - 1)

LEMMA WrittenRuns ==
    ASSUME NEW d, NEW n, NEW X, NEW e, NEW T, NEW cs, NEW k, NEW content, Allotted(d.fat[1], cs, k),
           Fine(d, X, e), Open(d, n, T), Fits(cs, content)
    PROVE  LET ws == (LinkClusters(cs) \o EndMark(cs)) \o DataWrites(cs, content)
               z == WrittenDisk(d, cs, content)
           IN  /\ ws \in Seq(Writes) /\ Runs(d, ws, z, OpenDisks(X, e, n, T))
               /\ z \in OpenDisks(X, e, n, T) /\ IsWritten(z, d, cs, content) /\ Taken(z, X) = Taken(d, X)
<1>1. PICK C : C = OpenDisks(X, e, n, T)
  OBVIOUS
<1>2. PICK y : y = LinkedDisk(d, cs)
  OBVIOUS
<1>3. PICK z : z = WrittenDisk(d, cs, content)
  OBVIOUS
<1>4. Hosts(C, d, cs)
  BY <1>1, HostsOpen
<1>5. d \in Disks /\ cs \in Seq(Clusters) /\ Len(cs) \in Nat
  BY <1>4 DEF Hosts
<1> DEFINE g == LinkMap(cs, 0, Len(cs), Len(cs))
<1>6. Cuts(cs, 0, Len(cs), Len(cs))
  BY <1>4, <1>5 DEF Hosts, Cuts
<1>7. LooseMap(d.fat[1], g)
  BY <1>6, LinkLoose
<1>8. y = On(d, g)
  BY <1>2 DEF LinkedDisk
<1> HIDE DEF g
<1>9. y \in C /\ Taken(y, X) = Taken(d, X) /\ IsMap(g)
  BY <1>1, <1>7, <1>8, LooseOpen DEF LooseMap
<1>10. \A j \in 1..Len(cs) : cs[j] \notin Taken(y, X)
  <2> SUFFICES ASSUME NEW j \in 1..Len(cs), cs[j] \in Taken(d, X) PROVE FALSE
    BY <1>9
  <2> QED BY TakenLeadsOn DEF Allotted
<1>0. PICK m : m = NumSectors(Len(content))
  OBVIOUS
<1>11. \A i \in 0..m : Filled(y, cs, content, i) \in C
  BY <1>0, <1>1, <1>9, <1>10, FilledOpen
<1>12. m \in 0..m /\ z = Filled(y, cs, content, m)
  BY <1>0, <1>2, <1>3, Layout DEF WrittenDisk
<1>13. z \in C /\ Taken(z, X) = Taken(d, X)
  BY <1>0, <1>1, <1>9, <1>10, <1>12, FilledOpen
<1>14. y \in Disks
  BY <1>1, <1>9 DEF OpenDisks
<1>15. IsFilled(z, y, cs, content, m)
  BY <1>0, <1>12, <1>14, FilledFacts
<1>16. IsWritten(z, d, cs, content)
  <2>1. y.dir = d.dir /\ \A i \in 1..NUM_FATS : y.fat[i] = OnCopy(d.fat[i], g)
    BY <1>5, <1>8, <1>9, OnFacts
  <2> QED BY <1>0, <1>15, <2>1 DEF IsWritten, IsFilled, g
<1>17. LinkClusters(cs) \o EndMark(cs) \in Seq(Writes) /\ Runs(d, LinkClusters(cs) \o EndMark(cs), y, C)
  BY <1>2, <1>4, EndRuns
<1>18. DataWrites(cs, content) \in Seq(Writes) /\ Runs(y, DataWrites(cs, content), z, C)
  BY <1>0, <1>11, <1>12, <1>14, FilledRuns
<1>19. Runs(d, (LinkClusters(cs) \o EndMark(cs)) \o DataWrites(cs, content), z, C)
  BY <1>17, <1>18, RunsThen
<1>20. (LinkClusters(cs) \o EndMark(cs)) \o DataWrites(cs, content) \in Seq(Writes)
  BY <1>17, <1>18
<1> QED BY <1>1, <1>3, <1>13, <1>16, <1>19, <1>20

LEMMA WrittenAgree ==
    ASSUME NEW z, NEW d, NEW cs, NEW content, IsWritten(z, d, cs, content), Agree(d)
    PROVE  Agree(z)
  BY SlotFacts DEF IsWritten, Agree

LEMMA WrittenGone ==
    ASSUME NEW d, NEW n, NEW X, NEW Y, NEW e, NEW T, NEW L, NEW S, NEW z, NEW cs, NEW content,
           Gone(d, n, X, e, T, L, S), Y \cup {n} = X \cup {n},
           z \in OpenDisks(X \cup {n}, e, n, T), IsWritten(z, d, cs, content)
    PROVE  Gone(z, n, Y, e, T, L, TRUE)
<1>1. L = 0 => Agree(z)
  BY WrittenAgree DEF Gone
<1> QED BY <1>1 DEF Gone

(***************************************************************************)
(* write_root_dirent: the entry of the new file goes into slot s, the      *)
(* first one that is open.                                                 *)
(***************************************************************************)
FirstOf(cs) == IF cs = << >> THEN 0 ELSE cs[1]

OpenSlot(t, s) ==
    /\ s \in Slots /\ t[s].name \in {Never, Deleted}
    /\ \A r \in Slots : r < s => t[r].name \notin {Never, Deleted}

EnteredDisk(z, s, n, cs, content) == WriteTo(z, DirWrite(s, n, FirstOf(cs), Len(content)))

IsEntered(y, z, s, n, cs, content) ==
    /\ y \in Disks /\ y.fat = z.fat /\ y.data = z.data
    /\ \A r \in Slots : r # s => y.dir[r] = z.dir[r]
    /\ y.dir[s] = [name |-> n, first |-> FirstOf(cs), size |-> Len(content)]

LEMMA EnteredFacts ==
    ASSUME NEW z \in Disks, NEW s \in Slots, NEW n \in Names, NEW cs, NEW content, Fits(cs, content)
    PROVE  /\ IsEntered(EnteredDisk(z, s, n, cs, content), z, s, n, cs, content)
           /\ DirWrite(s, n, FirstOf(cs), Len(content)) \in Writes
<1> DEFINE v == [name |-> n, first |-> FirstOf(cs), size |-> Len(content)]
           w == DirWrite(s, n, FirstOf(cs), Len(content))
           t == [z.dir EXCEPT ![s] = v]
           y == EnteredDisk(z, s, n, cs, content)
<1>1. FirstOf(cs) \in {0} \cup Clusters /\ Len(content) \in Nat
  <2>1. cs # << >> => cs[1] \in Clusters
    BY DEF Fits
  <2> QED BY <2>1 DEF Fits, FirstOf
<1>2. v \in Entries
  BY <1>1 DEF Entries
<1>3. w.at = "dir" /\ w.slot = s /\ w.value = v
  BY DEF DirWrite
<1>4. w \in Writes
  BY <1>2 DEF DirWrite, Writes, DirWrites
<1>5. y = WriteTo(z, w)
  BY DEF EnteredDisk
<1> HIDE DEF v, w, y
<1>6. z.dir \in [Slots -> Entries] /\ z.fat \in Fats /\ z.data \in [Clusters -> [Places -> Sectors]]
  BY DiskFacts
<1>7. t \in [Slots -> Entries] /\ t[s] = v /\ \A r \in Slots : r # s => t[r] = z.dir[r]
  BY <1>2, <1>6
<1>8. y = MkDisk(z.fat, t, z.data)
  BY <1>3, <1>5 DEF WriteTo
<1> HIDE DEF t
<1>9. y \in Disks /\ y.fat = z.fat /\ y.dir = t /\ y.data = z.data
  BY <1>6, <1>7, <1>8, MkTyped, MkFields
<1> QED BY <1>4, <1>7, <1>9 DEF IsEntered, v, w, y

LEMMA EnteredFine ==
    ASSUME NEW z, NEW s, NEW n \in Names, NEW X, NEW e, NEW cs, NEW content, n \in X,
           Fine(z, X, e), Unlisted(z, n), OpenSlot(z.dir, s), Fits(cs, content),
           \A j \in 1..Len(cs) : cs[j] \notin Taken(z, X)
    PROVE  LET y == EnteredDisk(z, s, n, cs, content)
           IN  y \in FineDisks(X, e) /\ Taken(y, X) = Taken(z, X)
<1> DEFINE y == EnteredDisk(z, s, n, cs, content)
<1>1. z \in Disks /\ s \in Slots
  BY DEF Fine, Typed, OpenSlot
<1>2. IsEntered(y, z, s, n, cs, content)
  BY <1>1, EnteredFacts
<1> HIDE DEF y
<1>3. /\ y \in Disks /\ y.fat = z.fat /\ y.data = z.data
      /\ \A r \in Slots : r # s => y.dir[r] = z.dir[r]
      /\ y.dir[s].name = n /\ y.dir[s].first = FirstOf(cs) /\ y.dir[s].size = Len(content)
  BY <1>2 DEF IsEntered
<1>4. /\ cs \in Seq(Clusters) /\ Len(cs) \in Nat /\ (Len(content) = 0 <=> Len(cs) = 0)
      /\ (cs = << >> <=> Len(cs) = 0)
      /\ \A j \in 1..Len(cs) : cs[j] \in Clusters
  <2>1. cs \in Seq(Clusters) /\ Len(content) \in Nat /\ Len(cs) = NumClusters(Len(content))
    BY DEF Fits
  <2>2. Len(content) = 0 <=> Len(cs) = 0
    BY <2>1, ClustersHold
  <2> QED BY <2>1, <2>2
<1>5. Len(content) = 0 <=> FirstOf(cs) = 0
  BY <1>4, ClusterFacts DEF FirstOf
<1>6. FirstOf(cs) \notin Taken(z, X)
  <2>1. 0 \notin Taken(z, X)
    BY ClusterFacts DEF Taken
  <2> QED BY <1>4, <2>1 DEF FirstOf
<1>7. Typed(y)
  BY <1>3, <1>5 DEF Typed, Fine
<1>8. {Never, Deleted} \cap Names = {}
  BY NamesAssumption
<1>9. DirOK(y.dir)
  <2> SUFFICES ASSUME NEW a \in Slots, NEW r \in Slots, y.dir[a].name \in Names
               PROVE  (r < a => y.dir[r].name # Never) /\ (r # a => y.dir[r].name # y.dir[a].name)
    BY DEF DirOK
  <2>1. CASE a = s
    <3>1. r < a => r # s
      BY <2>1, SlotFacts
    <3> QED BY <1>3, <2>1, <3>1 DEF OpenSlot, Unlisted
  <2>2. CASE a # s
    <3>1. y.dir[a] = z.dir[a] /\ (r < a => z.dir[r].name # Never) /\ (r # a => z.dir[r].name # z.dir[a].name)
      BY <1>3, <2>2 DEF Fine, DirOK
    <3> QED BY <1>3, <1>8, <3>1 DEF Unlisted
  <2> QED BY <2>1, <2>2
<1>10. Frames(z, y, X)
  <2>1. \A r \in Slots : z.dir[r].name \in Names \ X \/ y.dir[r].name \in Names \ X => y.dir[r] = z.dir[r]
    BY <1>3, <1>8 DEF OpenSlot
  <2>2. \A x \in Clusters \ Taken(z, X) : y.fat[1][x] \notin Taken(z, X)
    BY <1>3 DEF Fine, Closed
  <2>3. \A r \in Slots : y.dir[r].name \in Names \cap X => y.dir[r].first \notin Taken(z, X)
    BY <1>3, <1>6 DEF Fine, Closed
  <2> QED BY <1>3, <1>7, <1>9, <2>1, <2>2, <2>3 DEF Frames
<1> QED BY <1>3, <1>10, FrameFine DEF FineDisks, y

(***************************************************************************)
(* The chain of the new file.                                              *)
(***************************************************************************)
LEMMA NewChain ==
    ASSUME NEW f, NEW cs, NEW k, Allotted(f, cs, k)
    PROVE  LET o == OnCopy(f, LinkMap(cs, 0, Len(cs), Len(cs)))
           IN  /\ Chain(o, FirstOf(cs)) = cs
               /\ cs # << >> => o[cs[Len(cs)]] = EOC
               /\ \A x \in Clusters \ Range(cs) : o[x] = f[x]
<1> DEFINE N == Len(cs)
           g == LinkMap(cs, 0, N, N)
           o == OnCopy(f, g)
<1>1. /\ cs \in Seq(Clusters) /\ Once(cs) /\ N \in Nat /\ (cs = << >> <=> N = 0)
      /\ \A j \in 1..N : cs[j] \in Clusters
  BY DEF Allotted
<1>2. Cuts(cs, 0, N, N)
  BY <1>1 DEF Cuts
<1>3. IsLinkMap(g, cs, 0, N, N)
  BY <1>2, LinkMapFacts
<1> HIDE DEF g
<1>4. \A x \in Clusters : o[x] = IF x \in DOMAIN g THEN g[x] ELSE f[x]
  BY DEF OnCopy
<1> HIDE DEF o
<1>5. \A j \in 1..N : o[cs[j]] = EntryOf(cs, 0, N, j)
  BY <1>1, <1>3, <1>4 DEF IsLinkMap
<1>6. \A j \in 1..(N - 1) : o[cs[j]] = cs[j + 1]
  <2> SUFFICES ASSUME NEW j \in 1..(N - 1) PROVE o[cs[j]] = cs[j + 1]
    OBVIOUS
  <2>1. j \in 1..N /\ ~(j <= 0) /\ j < N
    BY <1>1
  <2> QED BY <1>5, <2>1 DEF EntryOf
<1>7. cs # << >> => o[cs[N]] = EOC
  <2> SUFFICES ASSUME cs # << >> PROVE o[cs[N]] = EOC
    OBVIOUS
  <2>1. N \in 1..N /\ ~(N <= 0) /\ ~(N < N)
    BY <1>1
  <2> QED BY <1>5, <2>1 DEF EntryOf
<1>8. \A x \in Clusters \ Range(cs) : o[x] = f[x]
  <2>1. \A x : x \in Range(cs) <=> \E i \in 1..N : x = cs[i]
    BY <1>1, RangeSeq
  <2> QED BY <1>3, <1>4, <2>1 DEF IsLinkMap
<1>9. Ended(o, cs)
  BY <1>7, ClusterFacts DEF Ended
<1>10. Path(o, FirstOf(cs), cs)
  <2>1. cs = << >> <=> FirstOf(cs) \notin Clusters
    BY <1>1, ClusterFacts DEF FirstOf
  <2>2. cs # << >> => cs[1] = FirstOf(cs)
    BY DEF FirstOf
  <2> QED BY <1>1, <1>6, <2>1, <2>2 DEF Path
<1>11. Chain(o, FirstOf(cs)) = cs
  BY <1>9, <1>10, LinksChain DEF Links
<1> QED BY <1>7, <1>8, <1>11 DEF o, g

(***************************************************************************)
(* A byte of the new file reads as it was written.                         *)
(***************************************************************************)
LEMMA WrittenByte ==
    ASSUME NEW z, NEW d, NEW cs, NEW content, Fits(cs, content), IsWritten(z, d, cs, content),
           NEW i \in 1..Len(content)
    PROVE  ByteAt(z.data, cs, i) = content[i]
<1>1. PICK a : a = SectorSize
  OBVIOUS
<1>2. PICK n : n = (i - 1) \div a
  OBVIOUS
<1>3. PICK x : x = (i - 1) % a
  OBVIOUS
<1>4. a \in Nat \ {0} /\ Len(content) \in Nat /\ i - 1 \in Nat
  BY <1>1, ClusterSizes DEF Fits
<1>5. n \in Nat /\ x \in 0..(a - 1) /\ i - 1 = a * n + x
  BY <1>2, <1>3, <1>4, Division
<1>6. n + 1 \in 1..NumSectors(Len(content))
  BY <1>1, <1>2, <1>4, SectorsFit
<1>7. z.data[ClusterAt(cs, n)][PlaceAt(n)] = SectorOf(content, n)
  <2>1. (n + 1) - 1 = n
    BY <1>5
  <2> QED BY <1>6, <2>1 DEF IsWritten
<1>8. n * a + x = i - 1
  BY <1>4, <1>5
<1>9. SectorOf(content, n)[x] = IF n * a + x < Len(content) THEN content[n * a + x + 1] ELSE Zero
  BY <1>1, <1>5 DEF SectorOf
<1>10. SectorOf(content, n)[x] = content[i]
  <2>1. n * a + x < Len(content) /\ n * a + x + 1 = i
    BY <1>4, <1>8
  <2> QED BY <1>9, <2>1
<1>11. ByteAt(z.data, cs, i) = z.data[ClusterAt(cs, n)][PlaceAt(n)][x]
  BY <1>1, <1>2, <1>3 DEF ByteAt
<1> QED BY <1>7, <1>10, <1>11

Mode(X, n, T) == IF T = {} THEN {} ELSE X \cup {n}

LEMMA EnteredWhole ==
    ASSUME NEW d, NEW z, NEW s, NEW n \in Names, NEW X, NEW e, NEW g, NEW T, NEW L, NEW S,
           NEW cs, NEW k, NEW content, Modes(X, T, L), Gone(d, n, X, e, T, L, S),
           Allotted(d.fat[1], cs, k), Fits(cs, content),
           z \in OpenDisks(X \cup {n}, e, n, T), IsWritten(z, d, cs, content),
           Taken(z, X \cup {n}) = Taken(d, X \cup {n}),
           OpenSlot(z.dir, s), IsUpdate(g, e, n, content)
    PROVE  LET y == EnteredDisk(z, s, n, cs, content)
           IN  y \in FineDisks(X \cup {n}, e) /\ Whole(y, Mode(X, n, T), g, T, L, S)
<1> DEFINE Y == X \cup {n}
           y == EnteredDisk(z, s, n, cs, content)
           f == d.fat[1]
<1>1. z \in Disks /\ Fine(z, Y, e) /\ Open(z, n, T) /\ s \in Slots
  BY DEF OpenDisks, OpenSlot
<1>2. d \in Disks /\ Fine(d, Y, e) /\ Open(d, n, T)
  BY DEF Gone, OpenDisks
<1>3. \A j \in 1..Len(cs) : f[cs[j]] = Free /\ cs[j] \in Clusters
  BY DEF Allotted
<1>4. \A j \in 1..Len(cs) : cs[j] \notin Taken(d, Y)
  BY <1>2, <1>3, TakenLeadsOn
<1>5. y \in FineDisks(Y, e) /\ Taken(y, Y) = Taken(d, Y)
  <2>1. Unlisted(z, n) /\ n \in Y /\ \A j \in 1..Len(cs) : cs[j] \notin Taken(z, Y)
    BY <1>1, <1>4 DEF Open
  <2> HIDE DEF Y
  <2>2. EnteredDisk(z, s, n, cs, content) \in FineDisks(Y, e)
        /\ Taken(EnteredDisk(z, s, n, cs, content), Y) = Taken(z, Y)
    BY <1>1, <2>1, EnteredFine
  <2> QED BY <2>2 DEF Y
<1>6. IsEntered(y, z, s, n, cs, content)
  BY <1>1, EnteredFacts
<1> HIDE DEF y
<1>7. /\ y \in Disks /\ y.fat = z.fat /\ y.data = z.data
      /\ y.dir[s].name = n /\ y.dir[s].first = FirstOf(cs) /\ y.dir[s].size = Len(content)
  BY <1>6 DEF IsEntered
<1>8. Fine(y, Y, e)
  BY <1>5 DEF FineDisks
<1>9. L = 0 => Agree(y)
  <2>1. L = 0 => Agree(z)
    BY WrittenAgree DEF Gone
  <2> QED BY <1>7, <2>1 DEF Agree
<1>10. CASE T # {}
  <2>1. Fine(y, Y, g)
    BY <1>8, FineExpect DEF IsUpdate
  <2>2. L # 0 /\ Mode(X, n, T) = Y
    BY <1>10 DEF Modes, Mode
  <2>3. Whole(y, Y, g, T, L, S)
    BY <1>10, <2>1, <2>2 DEF Whole
  <2> QED BY <1>5, <2>2, <2>3 DEF y
<1>11. CASE T = {}
  <2>1. X = {} /\ Y = {n} /\ Mode(X, n, T) = {}
    BY <1>11 DEF Modes, Mode
  <2>2. NoDangling(y.fat[1]) /\ NoDangling(f)
    BY <1>1, <1>2, <1>7, <1>11 DEF Open
  <2> DEFINE o == OnCopy(f, LinkMap(cs, 0, Len(cs), Len(cs)))
  <2>3. y.fat[1] = o
    BY <1>7, SlotFacts DEF IsWritten
  <2>4. /\ Chain(o, FirstOf(cs)) = cs
        /\ cs # << >> => o[cs[Len(cs)]] = EOC
        /\ \A x \in Clusters \ Range(cs) : o[x] = f[x]
    BY NewChain
  <2> HIDE DEF o
  <2>5. ChainOf(y, s) = cs
    BY <1>7, <2>3, <2>4 DEF ChainOf
  <2>6. \A x : x \in Range(cs) <=> \E i \in 1..Len(cs) : x = cs[i]
    BY RangeSeq DEF Fits
  <2>7. NewFile(y, n, s)
    <3>1. Len(cs) = NumClusters(y.dir[s].size)
      BY <1>7 DEF Fits
    <3>2. Range(cs) \cap Taken(y, {n}) = {}
      <4>1. Taken(y, {n}) = Taken(d, {n}) /\ \A j \in 1..Len(cs) : cs[j] \notin Taken(d, {n})
        BY <1>4, <1>5, <2>1
      <4> QED BY <2>6, <4>1
    <3>3. ASSUME NEW x \in Clusters \ Range(cs) PROVE o[x] \notin Range(cs)
      <4> SUFFICES ASSUME f[x] \in Range(cs) PROVE FALSE
        BY <2>4
      <4>1. f[x] \in Clusters /\ f[f[x]] = Free
        BY <1>3, <2>6
      <4> QED BY <2>2, <4>1 DEF NoDangling
    <3> QED BY <1>1, <1>7, <2>3, <2>4, <2>5, <3>1, <3>2, <3>3 DEF NewFile
  <2>8. Content(y, s) = content
    <3>1. content \in Seq(Bytes) /\ Len(content) \in Nat
          /\ Len(cs) \in Nat /\ Len(cs) = NumClusters(Len(content))
      BY DEF Fits
    <3>2. Shorter(Len(cs) * ClusterSize, Len(content)) = Len(content)
      <4>1. Len(content) <= Len(cs) * ClusterSize
        BY <3>1, ClustersHold
      <4>2. Len(cs) * ClusterSize \in Nat
        BY <3>1, ClusterSizes
      <4> QED BY <3>1, <4>1, <4>2 DEF Shorter
    <3>3. Content(y, s) = [i \in 1..Len(content) |-> ByteAt(y.data, cs, i)]
      BY <1>7, <2>5, <3>2 DEF Content
    <3>4. \A i \in 1..Len(content) : ByteAt(y.data, cs, i) = content[i]
      BY <1>7, WrittenByte
    <3>5. content = [i \in 1..Len(content) |-> content[i]]
      BY <3>1
    <3> QED BY <3>3, <3>4, <3>5
  <2>9. Fine(y, {}, g) /\ Taken(y, {}) = Taken(y, {n}) \cup Range(cs)
    BY <1>8, <2>1, <2>5, <2>7, <2>8, FineAdd DEF IsUpdate
  <2>10. ASSUME L = 0, ~S PROVE AllUsed(y, {})
    <3> SUFFICES ASSUME NEW x \in Clusters, o[x] # Free, x \notin Range(cs) PROVE x \in Taken(y, {n})
      BY <2>3, <2>9 DEF AllUsed
    <3>1. f[x] # Free
      BY <2>4
    <3> QED BY <1>5, <2>1, <2>10, <3>1 DEF Gone, AllUsed
  <2>11. Whole(y, {}, g, T, L, S)
    BY <1>9, <2>2, <2>9, <2>10 DEF Whole
  <2> QED BY <1>5, <2>1, <2>11 DEF y
<1> QED BY <1>10, <1>11

-----------------------------------------------------------------------------
(***************************************************************************)
(* The two calls on the disk as it is.                                     *)
(***************************************************************************)
Disk == MkDisk(fat, dir, data)

LEMMA DiskFields == Disk.fat = fat /\ Disk.dir = dir /\ Disk.data = data
  BY MkFields DEF Disk

AtDelete(z, n, X, e) ==
    /\ DeleteWrites(n) \in Seq(Writes)
    /\ DeleteWrites(n) # << >> => IsMark(DeleteWrites(n)[Len(DeleteWrites(n))])
    /\ Runs(Disk, DeleteWrites(n), z, FineDisks(X \cup {n}, e))
    /\ z.fat[1] = FatAfterDelete(n) /\ z.dir = DirAfterDelete(n)

LEMMA DeleteCase ==
    ASSUME NEW n \in Names, NEW X, NEW e, NEW T, NEW L, NEW S, Modes(X, T, L), Whole(Disk, X, e, T, L, S)
    PROVE  \E z : Gone(z, n, X, e, T, L, S) /\ AtDelete(z, n, X, e)
<1>1. Fine(Disk, X, e) /\ DirOK(dir) /\ Disk \in Disks
  BY DiskFields DEF Whole, Fine, Typed
<1>2. /\ \A s \in Slots : Holds(dir, n, s) <=> dir[s].name = n
      /\ \A s, r \in Slots : dir[s].name = n /\ dir[r].name = n => s = r
  BY <1>1, HoldsSlot
<1>3. fat \in Fats /\ dir \in [Slots -> Entries] /\ fat[1] \in [Clusters -> Vals]
  BY <1>1, DiskFields, DiskFacts
<1>4. CASE \E s \in Slots : Holds(dir, n, s)
  <2>1. PICK s \in Slots : s = CHOOSE x \in Slots : Holds(dir, n, x)
    BY <1>4
  <2>2. dir[s].name = n /\ \A r \in Slots : Holds(dir, n, r) <=> r = s
    BY <1>2, <1>4, <2>1
  <2>3. Disk.dir[s].name = n
    BY <2>2, DiskFields
  <2> DEFINE z == EmptiedDisk(Disk, s)
  <2>4. Gone(z, n, X, e, T, L, S)
    BY <1>1, <2>3, EmptiedGone
  <2>5. z \in FineDisks(X \cup {n}, e)
    BY <2>4 DEF Gone, OpenDisks, FineDisks
  <2>6. IsEmptied(z, Disk, s)
    BY <1>1, <2>3, EmptiedFacts
  <2>7. PICK ws : ws = FreeAll(ChainOf(Disk, s)) \o <<MarkOf(Disk, s)>>
    OBVIOUS
  <2>8. ws \in Seq(Writes) /\ ws # << >> /\ IsMark(ws[Len(ws)]) /\ Runs(Disk, ws, z, FineDisks(X \cup {n}, e))
    BY <1>1, <2>3, <2>5, <2>7, DeletionRuns
  <2> HIDE DEF z
  <2>9. ChainOf(Disk, s) = Chain(fat[1], dir[s].first)
    BY DiskFields DEF ChainOf
  <2>10. DeleteWrites(n) = ws
    <3>1. DeleteWrites(n) = DeleteAt(s)
      BY <1>4, <2>1 DEF DeleteWrites
    <3>2. DeleteAt(s) = ws
      BY <2>7, <2>9, DiskFields DEF DeleteAt, FreeChain, MarkOf
    <3> QED BY <3>1, <3>2
  <2>11. /\ z \in Disks /\ \A r \in Slots : r # s => z.dir[r] = dir[r]
         /\ z.dir[s] = [name |-> Deleted, first |-> dir[s].first, size |-> dir[s].size]
         /\ \A x \in Clusters : z.fat[1][x] = IF x \in Range(Chain(fat[1], dir[s].first)) THEN Free ELSE fat[1][x]
    BY <2>6, <2>9, DiskFields, SlotFacts DEF IsEmptied
  <2>12. z.fat[1] \in [Clusters -> Vals] /\ z.dir \in [Slots -> Entries]
    BY <2>11, DiskFacts
  <2>13. z.fat[1] = FatAfterDelete(n)
    <3>1. FatAfterDelete(n) = Cleared(fat[1], dir[s].first)
      BY <1>4, <2>1 DEF FatAfterDelete
    <3>2. Cleared(fat[1], dir[s].first)
            = [x \in Clusters |-> IF x \in Range(Chain(fat[1], dir[s].first)) THEN Free ELSE fat[1][x]]
      BY <1>3 DEF Cleared
    <3> QED BY <2>11, <2>12, <3>1, <3>2
  <2>14. z.dir = DirAfterDelete(n)
    <3>1. [dir[s] EXCEPT !.name = Deleted] = [name |-> Deleted, first |-> dir[s].first, size |-> dir[s].size]
      <4>1. dir[s] \in Entries
        BY <1>3
      <4> QED BY <4>1 DEF Entries
    <3> QED BY <2>2, <2>11, <2>12, <3>1 DEF DirAfterDelete
  <2>15. AtDelete(z, n, X, e)
    BY <2>8, <2>10, <2>13, <2>14 DEF AtDelete
  <2> QED BY <2>4, <2>15
<1>5. CASE ~ \E s \in Slots : Holds(dir, n, s)
  <2>1. Unlisted(Disk, n)
    BY <1>2, <1>5, DiskFields DEF Unlisted
  <2>2. Gone(Disk, n, X, e, T, L, S)
    BY <2>1, UnlistedGone
  <2>3. DeleteWrites(n) = << >> /\ FatAfterDelete(n) = fat[1]
    BY <1>5 DEF DeleteWrites, FatAfterDelete
  <2>4. DirAfterDelete(n) = dir
    BY <1>3, <1>5 DEF DirAfterDelete
  <2>5. Disk \in FineDisks(X \cup {n}, e)
    BY <2>2 DEF Gone, OpenDisks, FineDisks
  <2>6. AtDelete(Disk, n, X, e)
    BY <2>3, <2>4, <2>5, DiskFields, RunsNone DEF AtDelete
  <2> QED BY <2>2, <2>6
<1> QED BY <1>4, <1>5

(***************************************************************************)
(* The writes ws lead from disk d to one that is whole again.              *)
(***************************************************************************)
Leads(d, ws, n, X, Y, e, g, T, L, S) ==
    \E r, m, z : /\ Course(r, m, d, ws, z, FineDisks(X \cup {n}, e), OpenDisks(X \cup {n}, e, n, T))
                 /\ Whole(z, Y, g, T, L, S)

LEMMA SetsNested ==
    ASSUME NEW X, NEW e, NEW n, NEW T
    PROVE  OpenDisks(X, e, n, T) \subseteq FineDisks(X, e)
  BY DEF OpenDisks, FineDisks

LEMMA DeleteLeads ==
    ASSUME NEW n \in Names, NEW X, NEW e, NEW g, NEW T, NEW L, NEW S, Modes(X, T, L), Whole(Disk, X, e, T, L, S),
           IsUpdate(g, e, n, NoFile)
    PROVE  Leads(Disk, DeleteWrites(n), n, X, X, e, g, T, L, S)
<1>1. PICK z : Gone(z, n, X, e, T, L, S) /\ AtDelete(z, n, X, e)
  BY DeleteCase
<1>2. PICK A : A = FineDisks(X \cup {n}, e)
  OBVIOUS
<1>3. PICK B : B = OpenDisks(X \cup {n}, e, n, T)
  OBVIOUS
<1>4. B \subseteq A /\ z \in B /\ z \in A
  BY <1>1, <1>2, <1>3, SetsNested DEF Gone
<1>5. PICK a : a = DeleteWrites(n)
  OBVIOUS
<1>6. a \in Seq(Writes) /\ (a # << >> => IsMark(a[Len(a)])) /\ Runs(Disk, a, z, A)
  BY <1>1, <1>2, <1>5 DEF AtDelete
<1>7. Runs(z, << >>, z, B) /\ Runs(z, << >>, z, A) /\ << >> \in Seq(Writes) /\ Len(<< >>) <= 1
  BY <1>4, RunsNone
<1>8. a \o (<< >> \o << >>) = a
  BY <1>6
<1>9. PICK r, m : Course(r, m, Disk, a, z, A, B)
  <2>1. PICK b : b = << >>
    OBVIOUS
  <2>2. Parts(A, B, Disk, a, z, b, z, b, z)
    BY <1>4, <1>6, <1>7, <2>1 DEF Parts
  <2>3. \E r, m : Course(r, m, Disk, a \o (b \o b), z, A, B)
    BY <2>2, CourseExists
  <2>4. a \o (b \o b) = a
    BY <1>8, <2>1
  <2> QED BY <2>3, <2>4
<1>10. Whole(z, X, g, T, L, S)
  BY <1>1, GoneWhole
<1> QED BY <1>2, <1>3, <1>5, <1>9, <1>10 DEF Leads

LEMMA WholeMore ==
    ASSUME NEW d, NEW X, NEW e, NEW T, NEW L, NEW S, NEW F, Whole(d, X, e, T, L, S)
    PROVE  Whole(d, X, e, T, L, S \/ F)
  BY DEF Whole

LEMMA ModeFacts ==
    ASSUME NEW n, NEW X, NEW T, NEW L, Modes(X, T, L)
    PROVE  Mode(X, n, T) \cup {n} = X \cup {n} /\ Modes(Mode(X, n, T), T, L)
  BY DEF Modes, Mode

LEMMA GoneMode ==
    ASSUME NEW d, NEW n, NEW X, NEW Y, NEW e, NEW T, NEW L, NEW S, Y \cup {n} = X \cup {n}, Gone(d, n, X, e, T, L, S)
    PROVE  Gone(d, n, Y, e, T, L, S)
  BY DEF Gone

(***************************************************************************)
(* The slot write_root_dirent takes.                                       *)
(***************************************************************************)
LEMMA DirentSlot ==
    ASSUME NEW t, NEW n, NEW first, NEW size
    PROVE  \/ /\ \A s \in Slots : t[s].name \notin {Never, Deleted}
              /\ DirentWrites(t, n, first, size) = << >>
           \/ \E s : OpenSlot(t, s) /\ DirentWrites(t, n, first, size) = <<DirWrite(s, n, first, size)>>
<1> DEFINE L == {s \in Slots : t[s].name \in {Never, Deleted}}
           m == CHOOSE s \in L : \A r \in L : s <= r
<1>1. DirentWrites(t, n, first, size) = IF L = {} THEN << >> ELSE <<DirWrite(m, n, first, size)>>
  BY DEF DirentWrites
<1>2. CASE L = {}
  BY <1>1, <1>2
<1>3. CASE L # {}
  <2>1. L \subseteq Nat \ {0}
    BY DEF Slots
  <2>2. m \in L /\ \A x \in L : m <= x
    <3> HIDE DEF L
    <3> QED BY <1>3, <2>1, Least
  <2> HIDE DEF m
  <2>3. ASSUME NEW r \in Slots, r < m PROVE t[r].name \notin {Never, Deleted}
    <3> SUFFICES ASSUME r \in L PROVE FALSE
      OBVIOUS
    <3>1. m <= r /\ r \in Nat /\ m \in Nat
      BY <2>1, <2>2
    <3> QED BY <2>3, <3>1
  <2>4. OpenSlot(t, m)
    BY <2>2, <2>3 DEF OpenSlot
  <2> QED BY <1>1, <1>3, <2>4
<1> QED BY <1>2, <1>3

(***************************************************************************)
(* What fat16_write_file does after the deletion: b are its writes without *)
(* the one of the directory entry, c is that write.                        *)
(***************************************************************************)
Needed(content) == NumClusters(Len(content))

NewClusters(n, content) == AllocClusters(FatAfterDelete(n), Needed(content))

BodyWrites(n, content) ==
    IF Len(NewClusters(n, content)) < Needed(content)
    THEN LinkClusters(NewClusters(n, content)) \o GiveBack(NewClusters(n, content))
    ELSE (LinkClusters(NewClusters(n, content)) \o EndMark(NewClusters(n, content)))
            \o DataWrites(NewClusters(n, content), content)

EntryWrites(n, content) ==
    IF Len(NewClusters(n, content)) < Needed(content) THEN << >>
    ELSE DirentWrites(DirAfterDelete(n), n, FirstOf(NewClusters(n, content)), Len(content))

LEMMA WritesSplit ==
    ASSUME NEW n, NEW content \in Seq(Bytes), BodyWrites(n, content) \in Seq(Writes)
    PROVE  WriteWrites(n, content) = DeleteWrites(n) \o (BodyWrites(n, content) \o EntryWrites(n, content))
<1>1. PICK cs : cs = NewClusters(n, content)
  OBVIOUS
<1>2. WriteWrites(n, content) =
        DeleteWrites(n) \o
        IF Len(cs) < Needed(content)
        THEN LinkClusters(cs) \o GiveBack(cs)
        ELSE ((LinkClusters(cs) \o EndMark(cs)) \o DataWrites(cs, content))
                \o DirentWrites(DirAfterDelete(n), n, FirstOf(cs), Len(content))
  BY <1>1 DEF WriteWrites, Needed, NewClusters, InOrder, EndMark, FirstOf
<1>3. CASE Len(cs) < Needed(content)
  <2>1. BodyWrites(n, content) = LinkClusters(cs) \o GiveBack(cs) /\ EntryWrites(n, content) = << >>
    BY <1>1, <1>3 DEF BodyWrites, EntryWrites
  <2>2. BodyWrites(n, content) \o << >> = BodyWrites(n, content)
    OBVIOUS
  <2> QED BY <1>2, <1>3, <2>1, <2>2
<1>4. CASE ~(Len(cs) < Needed(content))
  BY <1>1, <1>2, <1>4 DEF BodyWrites, EntryWrites
<1> QED BY <1>3, <1>4

(***************************************************************************)
(* The end of the call: y is the disk before the entry is written, u the   *)
(* disk after it.                                                          *)
(***************************************************************************)
Result(n, content) == IF DiskFull(n, content) \/ DirFull(n) THEN NoFile ELSE content

Ends(y, u, z, n, content, X, e, g, T, L, S) ==
    /\ BodyWrites(n, content) \in Seq(Writes)
    /\ Runs(z, BodyWrites(n, content), y, OpenDisks(X \cup {n}, e, n, T))
    /\ EntryWrites(n, content) \in Seq(Writes) /\ Len(EntryWrites(n, content)) <= 1
    /\ Runs(y, EntryWrites(n, content), u, FineDisks(X \cup {n}, e))
    /\ Whole(u, Mode(X, n, T), g, T, L, S \/ DirFull(n))

LEMMA BodyEnds ==
    ASSUME NEW n \in Names, NEW content \in Seq(Bytes), NEW X, NEW e, NEW g, NEW T, NEW L, NEW S, NEW z,
           Modes(X, T, L), Gone(z, n, X, e, T, L, S),
           z.fat[1] = FatAfterDelete(n), z.dir = DirAfterDelete(n), IsUpdate(g, e, n, Result(n, content))
    PROVE  \E y, u : Ends(y, u, z, n, content, X, e, g, T, L, S)
<1>1. PICK cs : cs = NewClusters(n, content)
  OBVIOUS
<1>2. PICK Y : Y = X \cup {n}
  OBVIOUS
<1>3. PICK A : A = FineDisks(Y, e)
  OBVIOUS
<1>4. PICK B : B = OpenDisks(Y, e, n, T)
  OBVIOUS
<1>5. Needed(content) \in Nat /\ Allotted(z.fat[1], cs, Needed(content))
  <2>1. Len(content) \in Nat
    OBVIOUS
  <2>2. Needed(content) \in Nat
    BY <2>1, ClustersHold DEF Needed
  <2> QED BY <1>1, <2>2, AllocAllotted DEF NewClusters
<1>6. Fine(z, Y, e) /\ Open(z, n, T) /\ B \subseteq A
  BY <1>2, <1>3, <1>4, SetsNested DEF Gone, OpenDisks
<1>7. Hosts(B, z, cs)
  BY <1>4, <1>5, <1>6, HostsOpen
<1>8. DiskFull(n, content) <=> Len(cs) < Needed(content)
  BY <1>1 DEF DiskFull, Needed, NewClusters
<1>9. CASE Len(cs) < Needed(content)
  <2> DEFINE y == ReturnedDisk(z, cs)
             w == BodyWrites(n, content)
  <2>1. w = LinkClusters(cs) \o GiveBack(cs) /\ EntryWrites(n, content) = << >>
    BY <1>1, <1>9 DEF BodyWrites, EntryWrites
  <2>2. w \in Seq(Writes) /\ Runs(z, w, y, B)
    BY <1>7, <2>1, FullRuns
  <2>3. Gone(y, n, X, e, T, L, S)
    BY <1>5, ReturnedGone
  <2>4. y \in A
    BY <1>2, <1>4, <1>6, <2>3 DEF Gone
  <2> HIDE DEF y, w
  <2>5. Runs(y, << >>, y, A)
    BY <2>4, RunsNone
  <2>6. Gone(y, n, Mode(X, n, T), e, T, L, S) /\ Modes(Mode(X, n, T), T, L)
    BY <2>3, ModeFacts, GoneMode
  <2>7. IsUpdate(g, e, n, NoFile)
    BY <1>8, <1>9 DEF Result
  <2>8. Whole(y, Mode(X, n, T), g, T, L, S \/ DirFull(n))
    <3>1. Whole(y, Mode(X, n, T), g, T, L, S)
      BY <2>6, <2>7, GoneWhole
    <3> QED BY <3>1, WholeMore
  <2>9. << >> \in Seq(Writes) /\ Len(<< >>) <= 1
    OBVIOUS
  <2>10. Ends(y, y, z, n, content, X, e, g, T, L, S)
    BY <1>2, <1>3, <1>4, <2>1, <2>2, <2>5, <2>8, <2>9 DEF Ends, w
  <2> QED BY <2>10
<1>10. CASE ~(Len(cs) < Needed(content))
  <2>1. Fits(cs, content)
    BY <1>5, <1>10 DEF Fits, Allotted, Needed
  <2> DEFINE y == WrittenDisk(z, cs, content)
             w == BodyWrites(n, content)
             v == EntryWrites(n, content)
  <2>2. w = (LinkClusters(cs) \o EndMark(cs)) \o DataWrites(cs, content)
    BY <1>1, <1>10 DEF BodyWrites
  <2>3. v = DirentWrites(z.dir, n, FirstOf(cs), Len(content))
    BY <1>1, <1>10 DEF EntryWrites
  <2>4. w \in Seq(Writes) /\ Runs(z, w, y, B) /\ y \in B /\ IsWritten(y, z, cs, content) /\ Taken(y, Y) = Taken(z, Y)
    <3>1. LET ws == (LinkClusters(cs) \o EndMark(cs)) \o DataWrites(cs, content)
          IN  /\ ws \in Seq(Writes) /\ Runs(z, ws, y, OpenDisks(Y, e, n, T))
              /\ y \in OpenDisks(Y, e, n, T) /\ IsWritten(y, z, cs, content) /\ Taken(y, Y) = Taken(z, Y)
      BY <1>5, <1>6, <2>1, WrittenRuns
    <3> HIDE DEF y, w
    <3> QED BY <1>4, <2>2, <3>1
  <2> HIDE DEF y, w, v
  <2>5. y.dir = z.dir /\ y \in A /\ y \in Disks
    BY <1>6, <2>4 DEF IsWritten
  <2>6. \/ /\ \A s \in Slots : z.dir[s].name \notin {Never, Deleted}
           /\ v = << >>
        \/ \E s : OpenSlot(z.dir, s) /\ v = <<DirWrite(s, n, FirstOf(cs), Len(content))>>
    BY <2>3, DirentSlot
  <2>7. CASE (\A s \in Slots : z.dir[s].name \notin {Never, Deleted}) /\ v = << >>
    <3>1. DirFull(n)
      BY <2>7 DEF DirFull
    <3>2. IsUpdate(g, e, n, NoFile)
      BY <3>1 DEF Result
    <3>3. Gone(y, n, Mode(X, n, T), e, T, L, TRUE) /\ Modes(Mode(X, n, T), T, L)
      BY <1>2, <1>4, <2>4, ModeFacts, WrittenGone
    <3>4. Whole(y, Mode(X, n, T), g, T, L, TRUE)
      BY <3>2, <3>3, GoneWhole
    <3>5. Whole(y, Mode(X, n, T), g, T, L, S \/ DirFull(n))
      BY <3>1, <3>4 DEF Whole
    <3>6. Runs(y, v, y, A) /\ v \in Seq(Writes) /\ Len(v) <= 1
      BY <2>5, <2>7, RunsNone
    <3>7. Ends(y, y, z, n, content, X, e, g, T, L, S)
      BY <1>2, <1>3, <1>4, <2>4, <3>5, <3>6 DEF Ends, w, v
    <3> QED BY <3>7
  <2>8. CASE \E s : OpenSlot(z.dir, s) /\ v = <<DirWrite(s, n, FirstOf(cs), Len(content))>>
    <3>1. PICK s : OpenSlot(z.dir, s) /\ v = <<DirWrite(s, n, FirstOf(cs), Len(content))>>
      BY <2>8
    <3>2. ~DirFull(n) /\ s \in Slots
      BY <3>1 DEF DirFull, OpenSlot
    <3>3. IsUpdate(g, e, n, content)
      BY <1>8, <1>10, <3>2 DEF Result
    <3> DEFINE u == EnteredDisk(y, s, n, cs, content)
    <3>4. u \in A /\ Whole(u, Mode(X, n, T), g, T, L, S)
      BY <1>2, <1>3, <1>4, <1>5, <2>1, <2>4, <2>5, <3>1, <3>3, EnteredWhole
    <3>5. u = WriteTo(y, DirWrite(s, n, FirstOf(cs), Len(content)))
      BY DEF EnteredDisk
    <3>6. DirWrite(s, n, FirstOf(cs), Len(content)) \in Writes
      BY <2>1, <2>5, <3>2, EnteredFacts
    <3> HIDE DEF u
    <3>7. Runs(y, v, u, A) /\ v \in Seq(Writes) /\ Len(v) <= 1
      BY <2>5, <3>1, <3>4, <3>5, <3>6, RunsOne
    <3>8. Whole(u, Mode(X, n, T), g, T, L, S \/ DirFull(n))
      BY <3>4, WholeMore
    <3>9. Ends(y, u, z, n, content, X, e, g, T, L, S)
      BY <1>2, <1>3, <1>4, <2>4, <3>7, <3>8 DEF Ends, w, v
    <3> QED BY <3>9
  <2> QED BY <2>6, <2>7, <2>8
<1> QED BY <1>9, <1>10

LEMMA WriteLeads ==
    ASSUME NEW n \in Names, NEW content \in Seq(Bytes), NEW X, NEW e, NEW g, NEW T, NEW L, NEW S,
           Modes(X, T, L), Whole(Disk, X, e, T, L, S), IsUpdate(g, e, n, Result(n, content))
    PROVE  Leads(Disk, WriteWrites(n, content), n, X, Mode(X, n, T), e, g, T, L, S \/ DirFull(n))
<1>1. PICK z : Gone(z, n, X, e, T, L, S) /\ AtDelete(z, n, X, e)
  BY DeleteCase
<1>2. PICK y, u : Ends(y, u, z, n, content, X, e, g, T, L, S)
  BY <1>1, BodyEnds DEF AtDelete
<1>3. PICK A : A = FineDisks(X \cup {n}, e)
  OBVIOUS
<1>4. PICK B : B = OpenDisks(X \cup {n}, e, n, T)
  OBVIOUS
<1>5. PICK a : a = DeleteWrites(n)
  OBVIOUS
<1>6. PICK b : b = BodyWrites(n, content)
  OBVIOUS
<1>7. PICK c : c = EntryWrites(n, content)
  OBVIOUS
<1>8. WriteWrites(n, content) = a \o (b \o c)
  BY <1>2, <1>5, <1>6, <1>7, WritesSplit DEF Ends
<1>9. Parts(A, B, Disk, a, z, b, y, c, u)
  BY <1>1, <1>2, <1>3, <1>4, <1>5, <1>6, <1>7, SetsNested DEF Parts, AtDelete, Ends
<1>10. \E r, m : Course(r, m, Disk, a \o (b \o c), u, A, B)
  BY <1>9, CourseExists
<1>11. Whole(u, Mode(X, n, T), g, T, L, S \/ DirFull(n))
  BY <1>2 DEF Ends
<1> QED BY <1>3, <1>4, <1>8, <1>10, <1>11 DEF Leads

-----------------------------------------------------------------------------
(***************************************************************************)
(* The inductive invariant.  Between two calls the disk is whole; during a *)
(* call the writes that are left lead to a disk that is whole with the     *)
(* outcome of the call, and every disk on the way is one that a power loss *)
(* may leave behind.                                                       *)
(***************************************************************************)
Excepted == torn \cup late

IInv ==
    /\ todo \in Seq(Writes) /\ torn \subseteq Names /\ losses \in 0..MaxLosses
    /\ expect = [m \in Names |-> expect[m]]
    /\ Modes(Excepted, torn, losses)
    /\ Idle => Whole(Disk, Excepted, expect, torn, losses, stranded)
    /\ ~Idle => /\ call.name \in Names
                /\ Leads(Disk, todo, call.name, Excepted, Excepted, expect,
                         [expect EXCEPT ![call.name] = call.content], torn, losses, stranded)

LEMMA LeadsNone ==
    ASSUME NEW d, NEW n, NEW X, NEW Y, NEW e, NEW g, NEW T, NEW L, NEW S,
           Leads(d, << >>, n, X, Y, e, g, T, L, S)
    PROVE  Whole(d, Y, g, T, L, S)
<1>1. PICK r, m, z : /\ Course(r, m, d, << >>, z, FineDisks(X \cup {n}, e), OpenDisks(X \cup {n}, e, n, T))
                     /\ Whole(z, Y, g, T, L, S)
  BY DEF Leads
<1>2. r[0] = d /\ r[0] = z
  BY <1>1 DEF Course, Trace
<1> QED BY <1>1, <1>2

LEMMA LeadsType ==
    ASSUME NEW d, NEW ws, NEW n, NEW X, NEW Y, NEW e, NEW g, NEW T, NEW L, NEW S,
           Leads(d, ws, n, X, Y, e, g, T, L, S)
    PROVE  ws \in Seq(Writes) /\ Fine(d, X \cup {n}, e)
<1>1. PICK r, m, z : Course(r, m, d, ws, z, FineDisks(X \cup {n}, e), OpenDisks(X \cup {n}, e, n, T))
  BY DEF Leads
<1>2. ws \in Seq(Writes) /\ r[0] = d /\ r \in [0..Len(ws) -> FineDisks(X \cup {n}, e)] /\ Len(ws) \in Nat
  BY <1>1 DEF Course, Trace
<1>3. r[0] \in FineDisks(X \cup {n}, e)
  BY <1>2
<1> QED BY <1>2, <1>3 DEF FineDisks

LEMMA LeadsOn ==
    ASSUME NEW d, NEW ws, NEW n, NEW X, NEW Y, NEW e, NEW g, NEW T, NEW L, NEW S,
           Leads(d, ws, n, X, Y, e, g, T, L, S), ws # << >>
    PROVE  Leads(WriteTo(d, Head(ws)), Tail(ws), n, X, Y, e, g, T, L, S)
<1>1. PICK r, m, z : /\ Course(r, m, d, ws, z, FineDisks(X \cup {n}, e), OpenDisks(X \cup {n}, e, n, T))
                     /\ Whole(z, Y, g, T, L, S)
  BY DEF Leads
<1>2. /\ r[1] = WriteTo(d, Head(ws))
      /\ \E s, k : Course(s, k, r[1], Tail(ws), z, FineDisks(X \cup {n}, e), OpenDisks(X \cup {n}, e, n, T))
  BY <1>1, CourseNext
<1> QED BY <1>1, <1>2 DEF Leads

LEMMA LeadsOpen ==
    ASSUME NEW d, NEW ws, NEW n, NEW X, NEW Y, NEW e, NEW g, NEW T, NEW L, NEW S,
           Leads(d, ws, n, X, Y, e, g, T, L, S), ws # << >>
    PROVE  (\E i \in 1..Len(ws) : IsMark(ws[i])) \/ d \in OpenDisks(X \cup {n}, e, n, T)
<1>1. PICK r, m, z : Course(r, m, d, ws, z, FineDisks(X \cup {n}, e), OpenDisks(X \cup {n}, e, n, T))
  BY DEF Leads
<1>2. PICK B : B = OpenDisks(X \cup {n}, e, n, T)
  OBVIOUS
<1>3. PICK A : A = FineDisks(X \cup {n}, e)
  OBVIOUS
<1>4. Course(r, m, d, ws, z, A, B)
  BY <1>1, <1>2, <1>3
<1>5. /\ ws \in Seq(Writes) /\ Len(ws) \in Nat /\ m \in 0..Len(ws) /\ (m > 0 => IsMark(ws[m]))
      /\ \A i \in 0..Len(ws) : m <= i /\ i < Len(ws) => r[i] \in B
  BY <1>4 DEF Course
<1>6. r[0] = d
  BY <1>4 DEF Course, Trace
<1>7. CASE m > 0
  BY <1>5, <1>7
<1>8. CASE m = 0
  <2>1. 0 \in 0..Len(ws) /\ 0 < Len(ws) /\ m <= 0
    BY <1>5, <1>8
  <2> QED BY <1>2, <1>5, <1>6, <2>1
<1> QED BY <1>5, <1>7, <1>8

LEMMA UpdateFacts ==
    ASSUME NEW e, e = [m \in Names |-> e[m]], NEW n \in Names, NEW v
    PROVE  /\ IsUpdate([e EXCEPT ![n] = v], e, n, v)
           /\ [e EXCEPT ![n] = v] = [m \in Names |-> [e EXCEPT ![n] = v][m]]
  BY DEF IsUpdate

(***************************************************************************)
(* A freshly formatted disk is whole.                                      *)
(***************************************************************************)
LEMMA InitInv == Init => IInv
<1> SUFFICES ASSUME Init PROVE IInv
  OBVIOUS
<1>1. Disk.fat = fat /\ Disk.dir = dir /\ Disk.data = data
  BY DiskFields
<1>2. fat \in Fats /\ \A k \in 1..NUM_FATS, x \in Clusters : fat[k][x] = Free
  BY DEF Init, Fats, Vals
<1>3. dir \in [Slots -> Entries] /\ \A s \in Slots : dir[s].name = Never /\ dir[s].size = 0 /\ dir[s].first = 0
  BY DEF Init, Entries
<1>4. data \in [Clusters -> [Places -> Sectors]]
  BY NamesAssumption DEF Init, Sectors
<1>5. Disk \in Disks
  BY <1>2, <1>3, <1>4, MkTyped DEF Disk
<1>6. Never \notin Names
  BY NamesAssumption
<1>7. Typed(Disk) /\ DirOK(Disk.dir)
  BY <1>1, <1>3, <1>5, <1>6 DEF Typed, DirOK
<1>8. FilesOf(Disk, {}) = {} /\ Taken(Disk, {}) = {}
  BY <1>1, <1>3, <1>6 DEF FilesOf, Taken
<1>9. Proper(Disk, {}) /\ Apart(Disk, {}) /\ Closed(Disk, {})
  BY <1>8 DEF Proper, Apart, Closed
<1>10. Reads(Disk, {}, expect)
  <2> SUFFICES ASSUME NEW n \in Names PROVE ReadIn(Disk, n) = expect[n]
    BY DEF Reads
  <2>1. expect[n] = NoFile
    BY DEF Init
  <2>2. \A s \in Slots : Disk.dir[s].name # n
    BY <1>1, <1>3, <1>6
  <2> QED BY <1>7, <2>1, <2>2, ReadSlot
<1>11. Fine(Disk, {}, expect)
  BY <1>7, <1>9, <1>10 DEF Fine
<1>12. \A x \in Clusters : Disk.fat[1][x] = Free
  BY <1>1, <1>2, SlotFacts
<1>13. NoDangling(Disk.fat[1]) /\ AllUsed(Disk, {})
  BY <1>12, ClusterFacts DEF NoDangling, AllUsed
<1>14. Agree(Disk)
  BY <1>1, SlotFacts DEF Agree, Init
<1>15. Whole(Disk, {}, expect, torn, losses, stranded)
  BY <1>11, <1>13, <1>14 DEF Whole
<1>16. Excepted = {} /\ Idle /\ torn = {} /\ losses = 0 /\ todo = << >>
  BY DEF Init, Excepted, Idle
<1>17. expect = [m \in Names |-> expect[m]]
  BY DEF Init
<1>18. Modes(Excepted, torn, losses)
  BY <1>16 DEF Modes
<1>19. todo \in Seq(Writes) /\ torn \subseteq Names /\ losses \in 0..MaxLosses
  BY <1>16, FatAssumption
<1>20. Whole(Disk, Excepted, expect, torn, losses, stranded)
  BY <1>15, <1>16
<1> QED BY <1>16, <1>17, <1>18, <1>19, <1>20 DEF IInv

(***************************************************************************)
(* Both calls start on a whole disk.                                       *)
(***************************************************************************)
LEMMA WriteFileInv ==
    ASSUME IInv, NEW n \in Names, NEW c \in Contents, Fat16WriteFile(n, c)
    PROVE  IInv'
<1> DEFINE g == [expect EXCEPT ![n] = Result(n, c)]
<1>1. /\ todo' = WriteWrites(n, c) /\ call'.name = n /\ call'.content = Result(n, c)
      /\ expect' = (IF todo' = << >> THEN g ELSE expect)
      /\ stranded' = (stranded \/ DirFull(n)) /\ late' = (IF torn = {} THEN late ELSE late \cup {n})
      /\ torn' = torn /\ losses' = losses /\ Disk' = Disk
  BY DEF Fat16WriteFile, Result, disk, Disk
<1>2. /\ torn \subseteq Names /\ losses \in 0..MaxLosses /\ expect = [m \in Names |-> expect[m]]
      /\ Modes(Excepted, torn, losses) /\ Whole(Disk, Excepted, expect, torn, losses, stranded)
  BY DEF IInv, Fat16WriteFile
<1>3. IsUpdate(g, expect, n, Result(n, c)) /\ g = [m \in Names |-> g[m]]
  BY <1>2, UpdateFacts
<1>4. c \in Seq(Bytes)
  BY FatAssumption
<1>5. Leads(Disk, WriteWrites(n, c), n, Excepted, Mode(Excepted, n, torn), expect, g, torn, losses, stranded \/ DirFull(n))
  BY <1>2, <1>3, <1>4, WriteLeads
<1>6. Excepted' = Mode(Excepted, n, torn)
  BY <1>1, <1>2 DEF Excepted, Mode, Modes
<1>7. Excepted' \cup {n} = Excepted \cup {n} /\ Modes(Excepted', torn, losses)
  BY <1>2, <1>6, ModeFacts
<1>8. Leads(Disk, todo', n, Excepted', Excepted', expect, g, torn, losses, stranded')
  BY <1>1, <1>5, <1>6, <1>7 DEF Leads
<1>9. todo' \in Seq(Writes)
  BY <1>8, LeadsType
<1>10. CASE todo' = << >>
  <2>1. Whole(Disk, Excepted', g, torn, losses, stranded')
    BY <1>8, <1>10, LeadsNone
  <2> QED BY <1>1, <1>2, <1>3, <1>7, <1>9, <1>10, <2>1 DEF IInv, Idle
<1>11. CASE todo' # << >>
  <2>1. expect' = expect /\ [expect' EXCEPT ![call'.name] = call'.content] = g
    BY <1>1, <1>11
  <2> HIDE DEF g
  <2> QED BY <1>1, <1>2, <1>7, <1>8, <1>9, <1>11, <2>1 DEF IInv, Idle
<1> QED BY <1>10, <1>11

LEMMA DeleteFileInv ==
    ASSUME IInv, NEW n \in Names, Fat16DeleteFile(n)
    PROVE  IInv'
<1> DEFINE g == [expect EXCEPT ![n] = NoFile]
<1>1. /\ todo' = DeleteWrites(n) /\ call'.name = n /\ call'.content = NoFile
      /\ expect' = (IF todo' = << >> THEN g ELSE expect)
      /\ stranded' = stranded /\ late' = late /\ torn' = torn /\ losses' = losses /\ Disk' = Disk
  BY DEF Fat16DeleteFile, disk, Disk
<1>2. /\ torn \subseteq Names /\ losses \in 0..MaxLosses /\ expect = [m \in Names |-> expect[m]]
      /\ Modes(Excepted, torn, losses) /\ Whole(Disk, Excepted, expect, torn, losses, stranded)
  BY DEF IInv, Fat16DeleteFile
<1>3. IsUpdate(g, expect, n, NoFile) /\ g = [m \in Names |-> g[m]]
  BY <1>2, UpdateFacts
<1>4. Leads(Disk, todo', n, Excepted, Excepted, expect, g, torn, losses, stranded)
  BY <1>1, <1>2, <1>3, DeleteLeads
<1>5. Excepted' = Excepted
  BY <1>1 DEF Excepted
<1>6. todo' \in Seq(Writes)
  BY <1>4, LeadsType
<1>7. CASE todo' = << >>
  <2>1. Whole(Disk, Excepted, g, torn, losses, stranded)
    BY <1>4, <1>7, LeadsNone
  <2> QED BY <1>1, <1>2, <1>3, <1>5, <1>6, <1>7, <2>1 DEF IInv, Idle
<1>8. CASE todo' # << >>
  <2>1. expect' = expect /\ [expect' EXCEPT ![call'.name] = call'.content] = g
    BY <1>1, <1>8
  <2> HIDE DEF g
  <2> QED BY <1>1, <1>2, <1>4, <1>5, <1>6, <1>8, <2>1 DEF IInv, Idle
<1> QED BY <1>7, <1>8

(***************************************************************************)
(* A sector reaches the disk.                                              *)
(***************************************************************************)
LEMMA WriteSectorInv ==
    ASSUME IInv, WriteSector
    PROVE  IInv'
<1> DEFINE n == call.name
           g == [expect EXCEPT ![n] = call.content]
<1>1. Disk' = WriteTo(Disk, Head(todo))
  BY DiskFields DEF WriteSector, WriteTo, Disk
<1>2. /\ todo # << >> /\ todo' = Tail(todo) /\ expect' = (IF Tail(todo) = << >> THEN g ELSE expect)
      /\ call' = call /\ torn' = torn /\ late' = late /\ stranded' = stranded /\ losses' = losses
  BY DEF WriteSector, Idle
<1>3. /\ torn \subseteq Names /\ losses \in 0..MaxLosses /\ expect = [m \in Names |-> expect[m]]
      /\ Modes(Excepted, torn, losses) /\ n \in Names
      /\ Leads(Disk, todo, n, Excepted, Excepted, expect, g, torn, losses, stranded)
  BY <1>2 DEF IInv, Idle
<1>4. Leads(Disk', todo', n, Excepted, Excepted, expect, g, torn, losses, stranded)
  BY <1>1, <1>2, <1>3, LeadsOn
<1>5. Excepted' = Excepted
  BY <1>2 DEF Excepted
<1>6. todo' \in Seq(Writes)
  BY <1>4, LeadsType
<1>7. g = [m \in Names |-> g[m]]
  BY <1>3, UpdateFacts
<1>8. CASE todo' = << >>
  <2>1. Whole(Disk', Excepted, g, torn, losses, stranded)
    BY <1>4, <1>8, LeadsNone
  <2> QED BY <1>2, <1>3, <1>5, <1>6, <1>7, <1>8, <2>1 DEF IInv, Idle
<1>9. CASE todo' # << >>
  <2>1. expect' = expect /\ [expect' EXCEPT ![call'.name] = call'.content] = g
    BY <1>2, <1>9
  <2> HIDE DEF g
  <2> QED BY <1>2, <1>3, <1>4, <1>5, <1>6, <1>9, <2>1 DEF IInv, Idle
<1> QED BY <1>8, <1>9

(***************************************************************************)
(* The power is lost.                                                      *)
(***************************************************************************)
LEMMA PowerLossInv ==
    ASSUME IInv, PowerLoss
    PROVE  IInv'
<1> DEFINE n == call.name
<1>1. /\ todo # << >> /\ losses < MaxLosses /\ todo' = << >> /\ losses' = losses + 1 /\ late' = late
      /\ torn' = (IF DeletePending THEN torn \cup {n} ELSE torn)
      /\ expect' = [expect EXCEPT ![n] = IF DeletePending THEN expect[n]
                                         ELSE IF Listed(n) THEN call.content ELSE NoFile]
      /\ stranded' = stranded /\ Disk' = Disk
  BY DEF PowerLoss, Idle, disk, Disk
<1>2. /\ torn \subseteq Names /\ losses \in 0..MaxLosses /\ expect = [m \in Names |-> expect[m]]
      /\ Modes(Excepted, torn, losses) /\ n \in Names
      /\ Leads(Disk, todo, n, Excepted, Excepted, expect, [expect EXCEPT ![n] = call.content],
               torn, losses, stranded)
  BY <1>1 DEF IInv, Idle
<1>3. Fine(Disk, Excepted \cup {n}, expect)
  BY <1>2, LeadsType
<1>4. /\ losses' # 0 /\ losses' \in 0..MaxLosses /\ todo' \in Seq(Writes) /\ torn' \subseteq Names
  <2>1. losses \in 0..MaxLosses /\ losses' = losses + 1 /\ losses < MaxLosses
    BY DEF IInv, PowerLoss
  <2>2. losses' # 0 /\ losses' \in 0..MaxLosses
    BY <2>1, FatAssumption
  <2>3. todo' \in Seq(Writes)
    BY <1>1
  <2>4. torn' \subseteq Names
    BY <1>1, <1>2
  <2> QED BY <2>2, <2>3, <2>4
<1>5. expect' = [m \in Names |-> expect'[m]]
  BY <1>1, <1>2, UpdateFacts
<1>6. CASE DeletePending
  <2>1. torn' = torn \cup {n} /\ torn' # {} /\ Excepted' = Excepted \cup {n}
    BY <1>1, <1>6 DEF Excepted
  <2>2. expect' = expect
    BY <1>1, <1>2, <1>6
  <2>3. Whole(Disk', Excepted', expect', torn', losses', stranded')
    BY <1>1, <1>3, <1>4, <2>1, <2>2 DEF Whole
  <2>4. Modes(Excepted', torn', losses')
    BY <1>4, <2>1 DEF Modes
  <2> QED BY <1>1, <1>4, <1>5, <2>3, <2>4 DEF IInv, Idle
<1>7. CASE ~DeletePending
  <2>1. ~ \E i \in 1..Len(todo) : IsMark(todo[i])
    BY <1>7 DEF DeletePending, IsMark
  <2>2. Disk \in OpenDisks(Excepted \cup {n}, expect, n, torn)
    BY <1>1, <1>2, <2>1, LeadsOpen
  <2>3. Unlisted(Disk, n) /\ (torn = {} => NoDangling(Disk.fat[1]))
    BY <2>2 DEF OpenDisks, Open
  <2>4. ~Listed(n)
    BY <2>3, DiskFields DEF Listed, Holds, Unlisted
  <2>5. expect' = [expect EXCEPT ![n] = NoFile] /\ torn' = torn /\ Excepted' = Excepted
    BY <1>1, <1>7, <2>4 DEF Excepted
  <2>6. IsUpdate(expect', expect, n, NoFile)
    BY <1>2, <2>5, UpdateFacts
  <2>7. Fine(Disk, Excepted, expect')
    BY <1>2, <1>3, <2>3, <2>6, FineDrop DEF IsUpdate, Unlisted
  <2>8. Whole(Disk', Excepted', expect', torn', losses', stranded')
    BY <1>1, <1>4, <2>3, <2>5, <2>7 DEF Whole
  <2>9. Modes(Excepted', torn', losses')
    BY <1>2, <1>4, <2>5 DEF Modes
  <2> QED BY <1>1, <1>4, <1>5, <2>8, <2>9 DEF IInv, Idle
<1> QED BY <1>6, <1>7

LEMMA NextInv == IInv /\ [Next]_vars => IInv'
<1> SUFFICES ASSUME IInv, [Next]_vars PROVE IInv'
  OBVIOUS
<1>1. CASE \E n \in Names, c \in Contents : Fat16WriteFile(n, c)
  BY <1>1, WriteFileInv
<1>2. CASE \E n \in Names : Fat16DeleteFile(n)
  BY <1>2, DeleteFileInv
<1>3. CASE WriteSector
  BY <1>3, WriteSectorInv
<1>4. CASE PowerLoss
  BY <1>4, PowerLossInv
<1>5. CASE UNCHANGED vars
  <2>1. /\ Disk' = Disk /\ todo' = todo /\ call' = call /\ expect' = expect /\ torn' = torn
        /\ Excepted' = Excepted /\ stranded' = stranded /\ losses' = losses
    BY <1>5 DEF vars, Disk, Excepted
  <2> QED BY <2>1 DEF IInv, Idle
<1> QED BY <1>1, <1>2, <1>3, <1>4, <1>5 DEF Next

(***************************************************************************)
(* The inductive invariant holds: whatever the calls and wherever the      *)
(* power is lost, the disk is one of those that fat16_write_file and       *)
(* fat16_delete_file may leave.                                            *)
(***************************************************************************)
THEOREM FatInvariance == Spec => []IInv
<1>1. Init => IInv
  BY InitInv
<1>2. IInv /\ [Next]_vars => IInv'
  BY NextInv
<1> QED BY <1>1, <1>2, PTL DEF Spec

-----------------------------------------------------------------------------
(***************************************************************************)
(* What the invariant says of the disk as it is, the file of the running   *)
(* call excepted.                                                          *)
(***************************************************************************)
Apparent == Excepted \cup (IF Idle THEN {} ELSE {call.name})

LEMMA DiskFine ==
    ASSUME IInv
    PROVE  Fine(Disk, Apparent, expect)
<1>1. CASE Idle
  BY <1>1 DEF IInv, Whole, Apparent
<1>2. CASE ~Idle
  BY <1>2, LeadsType DEF IInv, Apparent
<1> QED BY <1>1, <1>2

LEMMA SettledFacts ==
    ASSUME NEW n, Settled(n), n \notin Excepted
    PROVE  n \notin Apparent
  BY DEF Settled, Apparent

(***************************************************************************)
(* fat_set, the directory writes and the data writes keep every entry in   *)
(* its range: after any number of power losses a FAT entry is free, an end *)
(* or a cluster of the disk, and a directory entry has a first cluster     *)
(* exactly if it has a size.                                               *)
(***************************************************************************)
THEOREM FatTypes == Spec => []TypeOK
<1>1. IInv => TypeOK
  <2> SUFFICES ASSUME IInv PROVE TypeOK
    OBVIOUS
  <2>1. Disk \in Disks /\ \A s \in Slots : Disk.dir[s].size = 0 <=> Disk.dir[s].first = 0
    BY DiskFine DEF Fine, Typed
  <2>2. fat \in Fats /\ dir \in [Slots -> Entries] /\ data \in [Clusters -> [Places -> Sectors]]
    BY <2>1, DiskFields, DiskFacts
  <2>3. fat \in [1..NUM_FATS -> [Clusters -> {Free, EOC} \cup Clusters]]
    BY <2>2 DEF Fats, Vals
  <2>4. ASSUME NEW s \in Slots
        PROVE  /\ dir[s].name \in Names \cup {Never, Deleted}
               /\ dir[s].size = 0 <=> dir[s].first = 0
               /\ dir[s].first \in {0} \cup Clusters
    <3>1. dir[s] \in Entries
      BY <2>2
    <3> QED BY <2>1, <3>1, DiskFields DEF Entries
  <2>5. torn \subseteq Names /\ losses \in 0..MaxLosses
    BY DEF IInv
  <2> QED BY <2>2, <2>3, <2>4, <2>5 DEF TypeOK
<1> QED BY <1>1, FatInvariance, PTL

(***************************************************************************)
(* Every file reads as the last call on it left it, whatever has been done *)
(* with other files and wherever the power was lost: the new file is there *)
(* whole or not at all, for fat16_write_file writes the directory entry    *)
(* last and no cluster in use is ever allocated again.  A file whose       *)
(* deletion was cut short, and one written after that, are excepted.       *)
(***************************************************************************)
THEOREM FilesIntact == Spec => []Intact
<1>1. IInv => Intact
  <2> SUFFICES ASSUME IInv, NEW n \in Names \ (torn \cup late), Settled(n) PROVE ReadFile(n) = expect[n]
    BY DEF Intact
  <2>1. Fine(Disk, Apparent, expect)
    BY DiskFine
  <2>2. n \in Names \ Apparent
    BY SettledFacts DEF Excepted
  <2>3. ReadIn(Disk, n) = expect[n]
    BY <2>1, <2>2 DEF Fine, Reads
  <2>4. ReadIn(Disk, n) = ReadFile(n)
    BY DiskFields, Zenon DEF ReadIn, ReadFile, Content, ChainOf, Shorter
  <2> QED BY <2>3, <2>4
<1> QED BY <1>1, FatInvariance, PTL

(***************************************************************************)
(* As long as no deletion has been cut short, no two files share a         *)
(* cluster, no name is listed twice and every chain ends after as many     *)
(* clusters as the size in its entry needs: alloc_cluster takes free ones  *)
(* only, and free_chain frees what no other chain leads to.                *)
(***************************************************************************)
THEOREM FilesApart == Spec => []ChainsApart
<1>1. IInv => ChainsApart
  <2> SUFFICES ASSUME IInv, torn = {},
                      NEW s \in {x \in InUse : Settled(dir[x].name)},
                      NEW r \in {x \in InUse : Settled(dir[x].name)}
               PROVE  LET ch == Chain(fat[1], dir[s].first)
                      IN  /\ Len(ch) = NumClusters(dir[s].size)
                          /\ ch # << >> => fat[1][ch[Len(ch)]] = EOC
                          /\ s # r => /\ dir[s].name # dir[r].name
                                      /\ Range(ch) \cap Range(Chain(fat[1], dir[r].first)) = {}
    BY DEF ChainsApart
  <2>1. Fine(Disk, Apparent, expect)
    BY DiskFine
  <2>2. Excepted = {}
    BY DEF IInv, Modes
  <2>3. s \in FilesOf(Disk, Apparent) /\ r \in FilesOf(Disk, Apparent)
    BY <2>2, SettledFacts, DiskFields DEF InUse, FilesOf
  <2>4. ChainOf(Disk, s) = Chain(fat[1], dir[s].first) /\ ChainOf(Disk, r) = Chain(fat[1], dir[r].first)
    BY DiskFields DEF ChainOf
  <2>5. /\ Len(ChainOf(Disk, s)) = NumClusters(Disk.dir[s].size)
        /\ ChainOf(Disk, s) # << >> => Disk.fat[1][ChainOf(Disk, s)[Len(ChainOf(Disk, s))]] = EOC
    BY <2>1, <2>3 DEF Fine, Proper
  <2>6. s # r => Range(ChainOf(Disk, s)) \cap Range(ChainOf(Disk, r)) = {}
    BY <2>1, <2>3 DEF Fine, Apart
  <2>7. s # r => dir[s].name # dir[r].name
    BY <2>1, <2>3, DiskFields DEF Fine, DirOK, FilesOf
  <2> QED BY <2>4, <2>5, <2>6, <2>7, DiskFields
<1> QED BY <1>1, FatInvariance, PTL

(***************************************************************************)
(* Without a power loss the copies of the FAT are the same between two     *)
(* calls, for fat_set writes every one of them.                            *)
(***************************************************************************)
THEOREM CopiesAgree == Spec => []FatsAgree
<1>1. IInv => FatsAgree
  BY DiskFields DEF IInv, FatsAgree, Whole, Agree
<1> QED BY <1>1, FatInvariance, PTL

(***************************************************************************)
(* Without power losses, and as long as the directory was never full,      *)
(* every cluster that is not free belongs to a file between two calls: a   *)
(* write that does not fit gives back all it has taken.                    *)
(***************************************************************************)
THEOREM NothingLeaks == Spec => []NoLeak
<1>1. IInv => NoLeak
  <2> SUFFICES ASSUME IInv, Idle, losses = 0, ~stranded, NEW c \in Clusters, fat[1][c] # Free
               PROVE  \E s \in InUse : c \in Range(Chain(fat[1], dir[s].first))
    BY DEF NoLeak
  <2>1. AllUsed(Disk, {})
    BY DEF IInv, Whole
  <2>2. PICK s \in FilesOf(Disk, {}) : c \in Range(ChainOf(Disk, s))
    BY <2>1, DiskFields DEF AllUsed, Taken
  <2>3. s \in InUse /\ ChainOf(Disk, s) = Chain(fat[1], dir[s].first)
    BY <2>2, DiskFields DEF InUse, FilesOf, ChainOf
  <2> QED BY <2>2, <2>3
<1> QED BY <1>1, FatInvariance, PTL
=============================================================================
