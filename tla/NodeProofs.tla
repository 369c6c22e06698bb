----------------------------- MODULE NodeProofs -----------------------------
(***************************************************************************)
(* Proofs about the main tasks of all nodes: any number of nodes, of lines *)
(* typed, of connections made and lost, in any order.                      *)
(***************************************************************************)
EXTENDS NodeProps, TLAPS, FiniteSetTheorems, FunctionTheorems, SequenceTheorems

-----------------------------------------------------------------------------
(* Sequences without repetition.                                           *)
Increasing(s) == \A i, k \in DOMAIN s : i < k => s[i] < s[k]

\* How many elements of s are not larger than x.
Rank(s, x) == Cardinality({k \in DOMAIN s : s[k] <= x})

\* The rank of an element is a position, and ranks are ordered as the elements are.
LEMMA RankProperties ==
    ASSUME NEW s \in Seq(Nat), IsInjective(s)
    PROVE  /\ IsFiniteSet(DOMAIN s)
           /\ \A i \in DOMAIN s : Rank(s, s[i]) \in DOMAIN s
           /\ \A i, k \in DOMAIN s : s[i] < s[k] <=> Rank(s, s[i]) < Rank(s, s[k])
  <1> DEFINE D == DOMAIN s
             low(x) == {k \in D : s[k] <= x}
  <1>1. D = 1..Len(s) /\ Len(s) \in Nat
    OBVIOUS
  <1>2. IsFiniteSet(D) /\ Cardinality(D) = Len(s)
    <2>1. 1 \in Int /\ Len(s) \in Int
      BY <1>1
    <2>2. /\ IsFiniteSet(1..Len(s))
          /\ Cardinality(1..Len(s)) = IF 1 > Len(s) THEN 0 ELSE Len(s) - 1 + 1
      BY <2>1, FS_Interval
    <2>. QED
      BY <1>1, <2>2
  <1>3. ASSUME NEW x
        PROVE  /\ IsFiniteSet(low(x)) /\ Cardinality(low(x)) \in Nat
               /\ Cardinality(low(x)) <= Len(s)
               /\ Rank(s, x) = Cardinality(low(x))
    <2>1. low(x) \in SUBSET D
      OBVIOUS
    <2> HIDE DEF low, D
    <2>2. IsFiniteSet(low(x)) /\ Cardinality(low(x)) <= Cardinality(D)
      BY <1>2, <2>1, FS_Subset
    <2>3. Cardinality(low(x)) \in Nat
      BY <2>2, FS_CardinalityType
    <2>. QED
      BY <1>2, <2>2, <2>3 DEF Rank, low, D
  <1>4. ASSUME NEW i \in D
        PROVE  Rank(s, s[i]) \in D
    <2>1. i \in low(s[i])
      OBVIOUS
    <2> HIDE DEF low
    <2>2. Cardinality(low(s[i])) # 0
      BY <1>3, <2>1, FS_EmptySet
    <2>. QED
      BY <1>1, <1>3, <2>2
  <1>5. ASSUME NEW i \in D, NEW k \in D, s[i] < s[k]
        PROVE  Rank(s, s[i]) < Rank(s, s[k])
    <2>1. low(s[i]) \in SUBSET low(s[k]) /\ k \in low(s[k]) /\ k \notin low(s[i])
      BY <1>5
    <2> HIDE DEF low
    <2>2. /\ Cardinality(low(s[i])) <= Cardinality(low(s[k]))
          /\ Cardinality(low(s[i])) # Cardinality(low(s[k]))
      BY <1>3, <2>1, FS_Subset
    <2>. QED
      BY <1>3, <2>2
  <1>6. ASSUME NEW i \in D, NEW k \in D, Rank(s, s[i]) < Rank(s, s[k])
        PROVE  s[i] < s[k]
    <2>1. s[i] # s[k] /\ s[i] \in Nat /\ s[k] \in Nat
      BY <1>1, <1>4, <1>6
    <2>2. ~(s[k] < s[i])
      BY <1>1, <1>4, <1>5, <1>6
    <2>. QED
      BY <2>1, <2>2
  <1>. QED
    BY <1>2, <1>4, <1>5, <1>6

\* Sorting gives the same elements in increasing order.
LEMMA SortedRight ==
    ASSUME NEW s \in Seq(Nat), IsInjective(s)
    PROVE  /\ Sorted(s) \in Seq(Elements(s)) /\ Len(Sorted(s)) = Len(s)
           /\ Increasing(Sorted(s))
           /\ Elements(Sorted(s)) = Elements(s)
  <1> DEFINE D == DOMAIN s
             rank == [i \in D |-> Rank(s, s[i])]
             Orders(p) == /\ p \in [D -> D] /\ IsInjective(p)
                          /\ \A i, k \in D : i < k => s[p[i]] <= s[p[k]]
  <1>1. D = 1..Len(s) /\ Len(s) \in Nat
    OBVIOUS
  <1>2. /\ IsFiniteSet(D) /\ rank \in [D -> D]
        /\ \A i, k \in D : s[i] < s[k] <=> rank[i] < rank[k]
    BY RankProperties
  <1>3. rank \in Injection(D, D)
    <2> SUFFICES ASSUME NEW i \in D, NEW k \in D, rank[i] = rank[k] PROVE i = k
      BY <1>2 DEF Injection, IsInjective
    <2>1. s[i] \in Nat /\ s[k] \in Nat /\ rank[i] \in Nat /\ rank[k] \in Nat
      BY <1>1, <1>2
    <2>2. ~(s[i] < s[k]) /\ ~(s[k] < s[i])
      BY <1>2, <2>1
    <2>. QED
      BY <2>1, <2>2 DEF IsInjective
  <1>4. \A k \in D : \E i \in D : rank[i] = k
    <2>1. IsFiniteSet(D) /\ Cardinality(D) = Cardinality(D)
      BY <1>2
    <2> HIDE DEF rank, D
    <2>2. rank \in Surjection(D, D)
      BY <1>3, <2>1, FS_Injection
    <2>. QED
      BY <2>2 DEF Surjection
  <1>5. \E p : Orders(p)
    <2> DEFINE p == [k \in D |-> CHOOSE i \in D : rank[i] = k]
    <2>1. \A k \in D : p[k] \in D /\ rank[p[k]] = k
      BY <1>4
    <2>2. p \in [D -> D] /\ IsInjective(p)
      BY <2>1 DEF IsInjective
    <2>3. ASSUME NEW i \in D, NEW k \in D, i < k PROVE s[p[i]] <= s[p[k]]
      <3>1. s[p[i]] < s[p[k]]
        <4>1. p[i] \in D /\ p[k] \in D /\ rank[p[i]] < rank[p[k]]
          BY <2>1, <2>3
        <4> HIDE DEF p, rank
        <4>. QED
          BY <1>2, <4>1
      <3>2. s[p[i]] \in Nat /\ s[p[k]] \in Nat
        <4>1. p[i] \in 1..Len(s) /\ p[k] \in 1..Len(s)
          BY <1>1, <2>1
        <4>2. \A l \in 1..Len(s) : s[l] \in Nat
          OBVIOUS
        <4> HIDE DEF p
        <4>. QED
          BY <4>1, <4>2
      <3>. QED
        BY <3>1, <3>2
    <2> HIDE DEF p
    <2>. QED
      BY <2>2, <2>3
  <1> DEFINE o == CHOOSE p \in [D -> D] :
                    /\ IsInjective(p)
                    /\ \A i, k \in D : i < k => s[p[i]] <= s[p[k]]
  <1>6. Orders(o)
    BY <1>5
  <1>7. Sorted(s) = [i \in D |-> s[o[i]]]
    BY DEF Sorted
  <1> HIDE DEF o
  <1>8. o \in [D -> D] /\ o \in Surjection(D, D)
    <2>1. o \in Injection(D, D)
      BY <1>6 DEF Injection
    <2>2. IsFiniteSet(D) /\ Cardinality(D) = Cardinality(D)
      BY <1>2
    <2> HIDE DEF D
    <2>. QED
      BY <1>6, <2>1, <2>2, FS_Injection
  <1>9. Sorted(s) \in Seq(Elements(s)) /\ Len(Sorted(s)) = Len(s)
    <2>1. \A i \in D : s[o[i]] \in Elements(s)
      BY <1>8 DEF Elements
    <2>2. Sorted(s) \in [1..Len(s) -> Elements(s)]
      BY <1>1, <1>7, <2>1
    <2>. QED
      BY <1>1, <2>2, SeqDef
  <1>10. Increasing(Sorted(s))
    <2> SUFFICES ASSUME NEW i \in D, NEW k \in D, i < k
                 PROVE  s[o[i]] < s[o[k]]
      BY <1>7 DEF Increasing
    <2>1. s[o[i]] <= s[o[k]] /\ o[i] # o[k] /\ o[i] \in D /\ o[k] \in D
      BY <1>1, <1>6 DEF IsInjective
    <2>2. s[o[i]] \in Nat /\ s[o[k]] \in Nat /\ s[o[i]] # s[o[k]]
      BY <1>1, <2>1 DEF IsInjective
    <2>. QED
      BY <2>1, <2>2
  <1>11. Elements(Sorted(s)) = Elements(s)
    <2>1. \A i \in D : \E k \in D : o[k] = i
      BY <1>8 DEF Surjection
    <2>. QED
      BY <1>7, <1>8, <2>1 DEF Elements
  <1>. QED
    BY <1>9, <1>10, <1>11

\* In an increasing sequence an element has its position as its rank.
LEMMA RankInIncreasing ==
    ASSUME NEW s \in Seq(Nat), Increasing(s), NEW i \in DOMAIN s
    PROVE  Cardinality({y \in Elements(s) : y <= s[i]}) = i
  <1> DEFINE T == {y \in Elements(s) : y <= s[i]}
             f == [k \in 1..i |-> s[k]]
  <1>1. i \in 1..Len(s) /\ Len(s) \in Nat /\ DOMAIN s = 1..Len(s) /\ i \in Nat
    OBVIOUS
  <1>2. \A k \in 1..Len(s) : s[k] \in Nat
    OBVIOUS
  <1>3. \A k, l \in 1..Len(s) : k < l => s[k] < s[l]
    BY <1>1 DEF Increasing
  <1>4. f \in [1..i -> T]
    <2> SUFFICES ASSUME NEW k \in 1..i PROVE s[k] \in T
      OBVIOUS
    <2>1. k \in 1..Len(s) /\ (k < i \/ k = i)
      BY <1>1
    <2>2. s[k] <= s[i]
      BY <1>1, <1>2, <1>3, <2>1
    <2>. QED
      BY <1>1, <2>1, <2>2 DEF Elements
  <1>5. IsInjective(f)
    <2> SUFFICES ASSUME NEW k \in 1..i, NEW l \in 1..i, s[k] = s[l] PROVE k = l
      BY DEF IsInjective
    <2>1. k \in 1..Len(s) /\ l \in 1..Len(s) /\ s[k] \in Nat
      BY <1>1, <1>2
    <2>2. ~(k < l) /\ ~(l < k)
      BY <1>2, <1>3, <2>1
    <2>. QED
      BY <2>1, <2>2
  <1>6. ASSUME NEW y \in T PROVE \E k \in 1..i : f[k] = y
    <2>1. PICK k \in 1..Len(s) : s[k] = y
      BY <1>1 DEF Elements
    <2>2. k <= i
      <3>1. ~(i < k)
        BY <1>1, <1>2, <1>3, <2>1
      <3>. QED
        BY <1>1, <3>1
    <2>. QED
      BY <2>1, <2>2
  <1>7. f \in Bijection(1..i, T)
    BY <1>4, <1>5, <1>6 DEF Bijection, Injection, Surjection
  <1>8. ExistsBijection(1..i, T)
    BY <1>7 DEF ExistsBijection
  <1> HIDE DEF T
  <1>9. Cardinality(T) = i
    BY <1>1, <1>8, FS_CountingElements
  <1>. QED
    BY <1>9 DEF T

\* There is one way to sort a set.
LEMMA OneOrder ==
    ASSUME NEW s \in Seq(Nat), NEW t \in Seq(Nat), Increasing(s), Increasing(t),
           Elements(s) = Elements(t)
    PROVE  s = t
  <1>1. ASSUME NEW u \in Seq(Nat), NEW v \in Seq(Nat), Increasing(u), Increasing(v),
               Elements(u) = Elements(v), NEW i \in 1..Len(u)
        PROVE  i \in 1..Len(v) /\ u[i] = v[i]
    <2>0. DOMAIN u = 1..Len(u) /\ DOMAIN v = 1..Len(v)
      OBVIOUS
    <2>1. PICK k \in 1..Len(v) : v[k] = u[i]
      <3>1. u[i] \in Elements(v)
        BY <1>1, <2>0 DEF Elements
      <3>. QED
        BY <1>1, <2>0, <3>1 DEF Elements
    <2>2. Cardinality({y \in Elements(u) : y <= u[i]}) = i
      BY <1>1, <2>0, RankInIncreasing
    <2>3. Cardinality({y \in Elements(v) : y <= v[k]}) = k
      BY <1>1, <2>0, RankInIncreasing
    <2>4. i = k
      BY <1>1, <2>1, <2>2, <2>3
    <2>. QED
      BY <2>1, <2>4
  <1>2. /\ \A i \in 1..Len(s) : i \in 1..Len(t) /\ s[i] = t[i]
        /\ \A i \in 1..Len(t) : i \in 1..Len(s)
    BY <1>1
  <1>3. Len(s) = Len(t)
    <2>1. Len(s) \in Nat /\ Len(t) \in Nat
      OBVIOUS
    <2>2. Len(s) # 0 => Len(s) \in 1..Len(t)
      BY <1>2, <2>1
    <2>3. Len(t) # 0 => Len(t) \in 1..Len(s)
      BY <1>2, <2>1
    <2>. QED
      BY <2>1, <2>2, <2>3
  <1>. QED
    BY <1>2, <1>3, SeqEqual

\* RemoveFirst takes out the one element, and only that.
LEMMA RemovesIt ==
    ASSUME NEW S, NEW s \in Seq(S), IsInjective(s), NEW e \in Elements(s)
    PROVE  /\ RemoveFirst(s, e) \in Seq(S)
           /\ IsInjective(RemoveFirst(s, e))
           /\ Elements(RemoveFirst(s, e)) = Elements(s) \ {e}
  <1> DEFINE I == {j \in 1..Len(s) : s[j] = e}
             r == RemoveFirst(s, e)
  <1>1. DOMAIN s = 1..Len(s) /\ Len(s) \in Nat
    OBVIOUS
  <1>2. PICK k \in 1..Len(s) : s[k] = e
    BY <1>1 DEF Elements
  <1>3. I = {k}
    BY <1>1, <1>2 DEF IsInjective
  <1>4. SelectInSeq(s, LAMBDA v : v = e) = k
    <2>1. SelectInSeq(s, LAMBDA v : v = e) = IF I # {} THEN Min(I) ELSE 0
      BY DEF SelectInSeq
    <2>2. Min({k}) = k
      BY <1>2 DEF Min
    <2>. QED
      BY <1>3, <2>1, <2>2
  <1>5. r = SubSeq(s, 1, k - 1) \o SubSeq(s, k + 1, Len(s))
    BY <1>2, <1>4 DEF RemoveFirst, RemoveAt
  <1> DEFINE a == SubSeq(s, 1, k - 1)
             b == SubSeq(s, k + 1, Len(s))
  <1>6. /\ a \in Seq(S) /\ Len(a) = k - 1
        /\ \A i \in 1..(k - 1) : a[i] = s[i]
    BY <1>1, <1>2
  <1>7. /\ b \in Seq(S) /\ Len(b) = Len(s) - k
        /\ \A i \in 1..(Len(s) - k) : b[i] = s[k + i]
    <2>1. /\ k + 1 \in Int /\ Len(s) \in Int /\ Len(s) - (k + 1) + 1 = Len(s) - k
          /\ \A i \in (k + 1)..Len(s) : s[i] \in S
      BY <1>1, <1>2
    <2>2. /\ b \in Seq(S)
          /\ Len(b) = IF k + 1 <= Len(s) THEN Len(s) - (k + 1) + 1 ELSE 0
          /\ \A i \in 1..(Len(s) - (k + 1) + 1) : b[i] = s[k + 1 + i - 1]
      BY <2>1, SubSeqProperties
    <2> HIDE DEF b
    <2>3. ASSUME NEW i \in 1..(Len(s) - k) PROVE b[i] = s[k + i]
      <3>1. i \in 1..(Len(s) - (k + 1) + 1) /\ k + 1 + i - 1 = k + i
        BY <1>1, <1>2
      <3>. QED
        BY <2>2, <3>1
    <2>4. Len(b) = Len(s) - k
      <3>1. CASE k + 1 <= Len(s)
        BY <2>1, <2>2, <3>1
      <3>2. CASE ~(k + 1 <= Len(s))
        <4>1. Len(b) = 0
          BY <2>2, <3>2
        <4>2. Len(s) - k = 0
          <5>1. k \in Nat /\ Len(s) \in Nat /\ k <= Len(s)
            BY <1>1, <1>2
          <5>. QED
            BY <3>2, <5>1
        <4>. QED
          BY <4>1, <4>2
      <3>. QED
        BY <3>1, <3>2
    <2>. QED
      BY <2>2, <2>3, <2>4
  <1> HIDE DEF a, b
  <1>8. /\ r \in Seq(S) /\ Len(r) = Len(s) - 1
        /\ \A i \in 1..(Len(s) - 1) : r[i] = IF i < k THEN s[i] ELSE s[i + 1]
    <2>1. r = a \o b
      BY <1>5 DEF a, b
    <2>2. /\ a \o b \in Seq(S) /\ Len(a \o b) = Len(s) - 1
          /\ \A i \in 1..(Len(s) - 1) :
               (a \o b)[i] = IF i <= k - 1 THEN a[i] ELSE b[i - (k - 1)]
      <3>1. /\ a \o b \in Seq(S) /\ Len(a \o b) = Len(a) + Len(b)
            /\ \A i \in 1..(Len(a) + Len(b)) :
                 (a \o b)[i] = IF i <= Len(a) THEN a[i] ELSE b[i - Len(a)]
        BY <1>6, <1>7, ConcatProperties
      <3>2. Len(a) = k - 1 /\ Len(a) + Len(b) = Len(s) - 1
        BY <1>1, <1>2, <1>6, <1>7
      <3>. QED
        BY <3>1, <3>2
    <2>3. ASSUME NEW i \in 1..(Len(s) - 1)
          PROVE  (a \o b)[i] = IF i < k THEN s[i] ELSE s[i + 1]
      <3>1. CASE i < k
        BY <1>1, <1>2, <1>6, <2>2, <3>1
      <3>2. CASE ~(i < k)
        <4>1. i - (k - 1) \in 1..(Len(s) - k) /\ k + (i - (k - 1)) = i + 1
          BY <1>1, <1>2, <3>2
        <4>. QED
          BY <1>1, <1>2, <1>7, <2>2, <3>2, <4>1
      <3>. QED
        BY <3>1, <3>2
    <2>. QED
      BY <2>1, <2>2, <2>3
  <1> HIDE DEF r
  <1>9. DOMAIN r = 1..(Len(s) - 1)
    BY <1>8
  <1>10. IsInjective(r)
    <2> SUFFICES ASSUME NEW i \in DOMAIN r, NEW j \in DOMAIN r, r[i] = r[j]
                 PROVE  i = j
      BY DEF IsInjective
    <2> DEFINE at(x) == IF x < k THEN x ELSE x + 1
    <2>1. at(i) \in DOMAIN s /\ at(j) \in DOMAIN s /\ r[i] = s[at(i)] /\ r[j] = s[at(j)]
      BY <1>1, <1>2, <1>8, <1>9
    <2>2. at(i) = at(j)
      <3> HIDE DEF at
      <3>. QED
        BY <2>1 DEF IsInjective
    <2>. QED
      BY <1>1, <1>2, <1>9, <2>2
  <1>11. Elements(r) = Elements(s) \ {e}
    <2>1. ASSUME NEW i \in DOMAIN r PROVE r[i] \in Elements(s) \ {e}
      <3> DEFINE l == IF i < k THEN i ELSE i + 1
      <3>1. l \in DOMAIN s /\ l # k /\ r[i] = s[l]
        BY <1>1, <1>2, <1>8, <1>9
      <3> HIDE DEF l
      <3>2. s[l] # e
        BY <1>1, <1>2, <3>1 DEF IsInjective
      <3>. QED
        BY <3>1, <3>2 DEF Elements
    <2>2. ASSUME NEW l \in DOMAIN s, s[l] # e PROVE \E i \in DOMAIN r : r[i] = s[l]
      <3> DEFINE i == IF l < k THEN l ELSE l - 1
      <3>1. l # k
        BY <1>2, <2>2
      <3>2. i \in DOMAIN r /\ s[l] = IF i < k THEN s[i] ELSE s[i + 1]
        BY <1>1, <1>2, <1>9, <3>1
      <3> HIDE DEF i
      <3>3. r[i] = s[l]
        BY <1>8, <1>9, <3>2
      <3>. QED
        BY <3>2, <3>3
    <2>. QED
      BY <2>1, <2>2 DEF Elements
  <1>. QED
    BY <1>8, <1>10, <1>11 DEF r

\* Append of what is not there yet.
LEMMA AppendsNew ==
    ASSUME NEW S, NEW s \in Seq(S), NEW e \in S
    PROVE  /\ Append(s, e) \in Seq(S)
           /\ Elements(Append(s, e)) = Elements(s) \cup {e}
           /\ IsInjective(s) /\ e \notin Elements(s) => IsInjective(Append(s, e))
  <1>1. /\ DOMAIN s = 1..Len(s) /\ Len(s) \in Nat
        /\ DOMAIN Append(s, e) = 1..(Len(s) + 1) /\ Append(s, e) \in Seq(S)
        /\ \A i \in 1..Len(s) : Append(s, e)[i] = s[i]
        /\ Append(s, e)[Len(s) + 1] = e
    BY AppendProperties, LenProperties
  <1>2. \A i \in 1..(Len(s) + 1) : i \in 1..Len(s) \/ i = Len(s) + 1
    BY <1>1
  <1>3. \A i \in 1..Len(s) : i \in 1..(Len(s) + 1) /\ i # Len(s) + 1
    BY <1>1
  <1>4. Len(s) + 1 \in 1..(Len(s) + 1)
    BY <1>1
  <1>5. Elements(Append(s, e)) = Elements(s) \cup {e}
    BY <1>1, <1>2, <1>3, <1>4 DEF Elements
  <1>6. ASSUME IsInjective(s), e \notin Elements(s)
        PROVE  IsInjective(Append(s, e))
    BY <1>1, <1>2, <1>3, <1>6 DEF IsInjective, Elements
  <1>. QED
    BY <1>1, <1>5, <1>6

\* SetToSeq has each element once.
LEMMA ListsOnce ==
    ASSUME NEW S, IsFiniteSet(S)
    PROVE  /\ SetToSeq(S) \in Seq(S) /\ IsInjective(SetToSeq(S))
           /\ Elements(SetToSeq(S)) = S
  <1> DEFINE n == Cardinality(S)
             q == SetToSeq(S)
  <1>1. n \in Nat /\ ExistsBijection(1..n, S)
    BY FS_CardinalityType
  <1>2. \E f \in [1..n -> S] : IsInjective(f)
    BY <1>1 DEF ExistsBijection, Bijection, Injection
  <1>3. q \in [1..n -> S] /\ IsInjective(q)
    BY <1>2 DEF SetToSeq
  <1>4. IsFiniteSet(1..n) /\ Cardinality(1..n) = Cardinality(S)
    <2>1. 1 \in Int /\ n \in Int
      BY <1>1
    <2> HIDE DEF n
    <2>2. IsFiniteSet(1..n) /\ Cardinality(1..n) = IF 1 > n THEN 0 ELSE n - 1 + 1
      BY <2>1, FS_Interval
    <2>3. Cardinality(1..n) = n
      BY <1>1, <2>2
    <2>. QED
      BY <2>2, <2>3 DEF n
  <1> HIDE DEF q, n
  <1>5. q \in Injection(1..n, S)
    BY <1>3 DEF Injection
  <1>6. q \in Surjection(1..n, S)
    BY <1>4, <1>5, FS_Injection
  <1>7. Elements(q) = S
    BY <1>3, <1>6 DEF Elements, Surjection
  <1>8. q \in Seq(S)
    BY <1>1, <1>3, SeqDef
  <1>. QED
    BY <1>3, <1>7, <1>8 DEF q
-----------------------------------------------------------------------------
(* The events of a swarm.                                                  *)
Pairs == {c \in Party \X Party : c[1] # c[2]}
Event == [kind : {"Established", "Closed"}, conn : Pairs]

\* An event that is still to be handled.
Pending(evs, kind, c) ==
    \E i \in DOMAIN evs : evs[i].kind = kind /\ evs[i].conn = c

\* A connection n has dialed is reported once, and closed after that.
InTurn(evs, n) ==
    \A i, j \in DOMAIN evs :
        evs[i].conn = evs[j].conn /\ evs[i].conn[1] = n =>
            /\ evs[i].kind = evs[j].kind => i = j
            /\ evs[i].kind = "Established" /\ evs[j].kind = "Closed" => i < j

\* What Report adds to the events of n.
Adds(old, new, kind, cs, n) ==
    \E r \in Seq(Event) :
        /\ new = old \o r
        /\ IsInjective(r)
        /\ \A i \in DOMAIN r : r[i].kind = kind
        /\ {r[i].conn : i \in DOMAIN r} = {c \in cs : n \in {c[1], c[2]} /\ n \in Up}

\* There are finitely many connections.
LEMMA FinitePairs == ASSUME NEW cs, cs \subseteq Pairs PROVE IsFiniteSet(cs)
  <1>1. IsFiniteSet(1..N)
    <2>1. 1 \in Int /\ N \in Int
      BY NodeAssumption
    <2>. QED
      BY <2>1, FS_Interval
  <1>2. IsFiniteSet(Party \X Party)
    BY <1>1, FS_Product DEF Party
  <1>3. cs \in SUBSET (Party \X Party)
    BY DEF Pairs
  <1>. QED
    BY <1>2, <1>3, FS_Subset

\* Report puts one event about each connection of n behind those n has.
LEMMA ReportAdds ==
    ASSUME NEW evs, NEW kind \in {"Established", "Closed"}, NEW cs, cs \subseteq Pairs,
           NEW n \in Party
    PROVE  Adds(evs[n], Report(evs, kind, cs)[n], kind, cs, n)
  <1> DEFINE T == {x \in cs : n \in {x[1], x[2]} /\ n \in Up}
             S == {[kind |-> kind, conn |-> c] : c \in T}
             f == [c \in T |-> [kind |-> kind, conn |-> c]]
  <1>1. IsFiniteSet(T)
    <2>1. T \subseteq Pairs
      OBVIOUS
    <2> HIDE DEF T
    <2>. QED
      BY <2>1, FinitePairs
  <1>2. f \in Surjection(T, S)
    BY DEF Surjection
  <1>3. IsFiniteSet(S)
    <2> HIDE DEF S, T, f
    <2>. QED
      BY <1>1, <1>2, FS_Surjection
  <1>4. Report(evs, kind, cs)[n] = evs[n] \o SetToSeq(S)
    BY DEF Report
  <1> DEFINE r == SetToSeq(S)
  <1>5. r \in Seq(S) /\ IsInjective(r) /\ Elements(r) = S
    <2> HIDE DEF S
    <2>. QED
      BY <1>3, ListsOnce
  <1>6. r \in Seq(Event)
    <2>1. S \subseteq Event
      BY DEF Event
    <2> HIDE DEF S
    <2>. QED
      BY <1>5, <2>1, SeqMonotonic
  <1> HIDE DEF r
  <1>7. \A i \in DOMAIN r : r[i] \in S
    BY <1>5 DEF Elements
  <1>8. \A i \in DOMAIN r : r[i].kind = kind /\ r[i].conn \in T
    BY <1>7
  <1>9. ASSUME NEW c \in T PROVE \E i \in DOMAIN r : r[i].conn = c
    <2>1. PICK i \in DOMAIN r : r[i] = [kind |-> kind, conn |-> c]
      BY <1>5 DEF Elements
    <2>. QED
      BY <2>1
  <1>10. {r[i].conn : i \in DOMAIN r} = T
    BY <1>8, <1>9
  <1>11. Report(evs, kind, cs)[n] = evs[n] \o r
    BY <1>4 DEF r
  <1>. QED
    BY <1>5, <1>6, <1>8, <1>10, <1>11 DEF Adds

\* New events keep the order if they are new indeed.
LEMMA AddsInTurn ==
    ASSUME NEW n, NEW kind \in {"Established", "Closed"}, NEW cs,
           NEW old \in Seq(Event), NEW new, Adds(old, new, kind, cs, n), n \in Up,
           InTurn(old, n),
           \A c \in cs : c[1] = n => /\ ~Pending(old, kind, c)
                                     /\ kind = "Established" => ~Pending(old, "Closed", c)
    PROVE  /\ new \in Seq(Event)
           /\ InTurn(new, n)
           /\ \A k, c : Pending(new, k, c) <=>
                \/ Pending(old, k, c)
                \/ k = kind /\ c \in cs /\ n \in {c[1], c[2]}
  <1>1. PICK r \in Seq(Event) :
          /\ new = old \o r /\ IsInjective(r)
          /\ \A i \in DOMAIN r : r[i].kind = kind
          /\ {r[i].conn : i \in DOMAIN r} = {c \in cs : n \in {c[1], c[2]} /\ n \in Up}
    BY DEF Adds
  <1>2. /\ new \in Seq(Event)
        /\ DOMAIN new = 1..(Len(old) + Len(r)) /\ DOMAIN old = 1..Len(old)
        /\ DOMAIN r = 1..Len(r) /\ Len(old) \in Nat /\ Len(r) \in Nat
        /\ \A i \in 1..(Len(old) + Len(r)) :
             new[i] = IF i <= Len(old) THEN old[i] ELSE r[i - Len(old)]
    BY <1>1, ConcatProperties, LenProperties
  <1>3. /\ \A i \in DOMAIN old : i \in DOMAIN new /\ new[i] = old[i]
        /\ \A i \in DOMAIN r : i + Len(old) \in DOMAIN new /\ new[i + Len(old)] = r[i]
        /\ \A i \in DOMAIN new : IF i <= Len(old) THEN i \in DOMAIN old
                                 ELSE i - Len(old) \in DOMAIN r
    <2>1. \A i \in DOMAIN old : i \in DOMAIN new /\ new[i] = old[i]
      BY <1>2
    <2>2. ASSUME NEW i \in DOMAIN r
          PROVE  i + Len(old) \in DOMAIN new /\ new[i + Len(old)] = r[i]
      <3>1. /\ i + Len(old) \in 1..(Len(old) + Len(r))
            /\ ~(i + Len(old) <= Len(old)) /\ i + Len(old) - Len(old) = i
        BY <1>2
      <3>. QED
        BY <1>2, <3>1
    <2>3. \A i \in DOMAIN new : IF i <= Len(old) THEN i \in DOMAIN old
                               ELSE i - Len(old) \in DOMAIN r
      BY <1>2
    <2>. QED
      BY <2>1, <2>2, <2>3
  <1>4. \A i \in DOMAIN r : /\ r[i].conn \in cs
                            /\ r[i] = [kind |-> kind, conn |-> r[i].conn]
    <2> SUFFICES ASSUME NEW i \in DOMAIN r
                 PROVE  r[i].conn \in cs /\ r[i] = [kind |-> kind, conn |-> r[i].conn]
      OBVIOUS
    <2>1. r[i] \in Event /\ r[i].kind = kind
      BY <1>1
    <2>2. r[i].conn \in cs
      BY <1>1
    <2>. QED
      BY <2>1, <2>2 DEF Event
  <1>5. InTurn(new, n)
    <2> SUFFICES ASSUME NEW i \in DOMAIN new, NEW j \in DOMAIN new,
                        new[i].conn = new[j].conn, new[i].conn[1] = n
                 PROVE  /\ new[i].kind = new[j].kind => i = j
                        /\ new[i].kind = "Established" /\ new[j].kind = "Closed" => i < j
      BY DEF InTurn
    <2> DEFINE c == new[i].conn
    <2>1. CASE i <= Len(old) /\ j <= Len(old)
      BY <1>2, <1>3, <2>1 DEF InTurn
    <2>2. CASE i <= Len(old) /\ ~(j <= Len(old))
      <3>1. new[i] = old[i] /\ i \in DOMAIN old /\ new[j].kind = kind /\ c \in cs /\ i < j
        BY <1>1, <1>2, <1>3, <1>4, <2>2
      <3>2. new[i].kind # kind
        BY <3>1 DEF Pending
      <3>. QED
        BY <3>1, <3>2
    <2>3. CASE ~(i <= Len(old)) /\ j <= Len(old)
      <3>1. new[j] = old[j] /\ j \in DOMAIN old /\ new[i].kind = kind /\ c \in cs
        BY <1>1, <1>2, <1>3, <1>4, <2>3
      <3>2. new[j].kind # kind /\ (kind = "Established" => new[j].kind # "Closed")
        BY <3>1 DEF Pending
      <3>. QED
        BY <3>1, <3>2
    <2>4. CASE ~(i <= Len(old)) /\ ~(j <= Len(old))
      <3>1. /\ i - Len(old) \in DOMAIN r /\ j - Len(old) \in DOMAIN r
            /\ new[i] = r[i - Len(old)] /\ new[j] = r[j - Len(old)]
        BY <1>2, <1>3, <2>4
      <3>2. new[i] = new[j] /\ new[i].kind = new[j].kind
        BY <1>4, <3>1
      <3>3. i - Len(old) = j - Len(old)
        BY <1>1, <3>1, <3>2 DEF IsInjective
      <3>. QED
        BY <1>2, <3>2, <3>3
    <2>. QED
      BY <2>1, <2>2, <2>3, <2>4
  <1>6. ASSUME NEW k, NEW c
        PROVE  Pending(new, k, c) <=>
                 \/ Pending(old, k, c)
                 \/ k = kind /\ c \in cs /\ n \in {c[1], c[2]}
    <2>1. ASSUME Pending(new, k, c), ~Pending(old, k, c)
          PROVE  k = kind /\ c \in cs /\ n \in {c[1], c[2]}
      <3>1. PICK i \in DOMAIN new : new[i].kind = k /\ new[i].conn = c
        BY <2>1 DEF Pending
      <3>2. CASE i <= Len(old)
        BY <1>2, <1>3, <2>1, <3>1, <3>2 DEF Pending
      <3>3. CASE ~(i <= Len(old))
        <4>1. i - Len(old) \in DOMAIN r /\ new[i] = r[i - Len(old)]
          BY <1>2, <1>3, <3>3
        <4>. QED
          BY <1>1, <3>1, <4>1
      <3>. QED
        BY <3>2, <3>3
    <2>2. ASSUME Pending(old, k, c) PROVE Pending(new, k, c)
      BY <1>3, <2>2 DEF Pending
    <2>3. ASSUME k = kind, c \in cs, n \in {c[1], c[2]} PROVE Pending(new, k, c)
      <3>1. PICK i \in DOMAIN r : r[i].conn = c
        BY <1>1, <2>3
      <3>2. new[i + Len(old)].kind = k /\ new[i + Len(old)].conn = c
        BY <1>1, <1>3, <2>3, <3>1
      <3>. QED
        BY <1>3, <3>2 DEF Pending
    <2>. QED
      BY <2>1, <2>2, <2>3
  <1>. QED
    BY <1>2, <1>5, <1>6

\* The next event is the first about its connection.
LEMMA TailInTurn ==
    ASSUME NEW n, NEW evs \in Seq(Event), evs # << >>, InTurn(evs, n)
    PROVE  LET h == Head(evs) IN
           /\ h \in Event /\ Pending(evs, h.kind, h.conn)
           /\ Tail(evs) \in Seq(Event)
           /\ InTurn(Tail(evs), n)
           /\ \A k, c : Pending(Tail(evs), k, c) => Pending(evs, k, c)
           /\ \A k, c : Pending(evs, k, c) =>
                Pending(Tail(evs), k, c) \/ (k = h.kind /\ c = h.conn)
           /\ h.conn[1] = n => /\ ~Pending(Tail(evs), h.kind, h.conn)
                               /\ h.kind = "Closed" => ~Pending(evs, "Established", h.conn)
  <1> DEFINE t == Tail(evs)
             h == Head(evs)
  <1>1. /\ h = evs[1] /\ h \in Event /\ t \in Seq(Event)
        /\ DOMAIN t = 1..(Len(evs) - 1) /\ DOMAIN evs = 1..Len(evs) /\ 1 \in DOMAIN evs
        /\ Len(evs) \in Nat
        /\ \A i \in 1..(Len(evs) - 1) : t[i] = evs[i + 1]
    OBVIOUS
  <1> HIDE DEF t, h
  <1>2. /\ \A i \in DOMAIN t : i + 1 \in DOMAIN evs /\ t[i] = evs[i + 1]
        /\ \A i \in DOMAIN evs : i # 1 => i - 1 \in DOMAIN t /\ t[i - 1] = evs[i]
        /\ \A i \in DOMAIN t : i \in Nat \ {0}
    BY <1>1
  <1>3. InTurn(t, n)
    <2> SUFFICES ASSUME NEW i \in DOMAIN t, NEW j \in DOMAIN t,
                        t[i].conn = t[j].conn, t[i].conn[1] = n
                 PROVE  /\ t[i].kind = t[j].kind => i = j
                        /\ t[i].kind = "Established" /\ t[j].kind = "Closed" => i < j
      BY DEF InTurn
    <2>1. /\ t[i].kind = t[j].kind => i + 1 = j + 1
          /\ t[i].kind = "Established" /\ t[j].kind = "Closed" => i + 1 < j + 1
      BY <1>2 DEF InTurn
    <2>. QED
      BY <1>2, <2>1
  <1>4. /\ Pending(evs, h.kind, h.conn)
        /\ \A k, c : Pending(t, k, c) => Pending(evs, k, c)
        /\ \A k, c : Pending(evs, k, c) => Pending(t, k, c) \/ (k = h.kind /\ c = h.conn)
    BY <1>1, <1>2 DEF Pending
  <1>5. ASSUME h.conn[1] = n PROVE ~Pending(t, h.kind, h.conn)
    <2> SUFFICES ASSUME NEW i \in DOMAIN t, t[i].kind = h.kind, t[i].conn = h.conn
                 PROVE  FALSE
      BY DEF Pending
    <2>1. /\ i + 1 \in DOMAIN evs /\ 1 \in DOMAIN evs
          /\ evs[i + 1].conn = evs[1].conn /\ evs[i + 1].conn[1] = n
          /\ evs[i + 1].kind = evs[1].kind
      BY <1>1, <1>2, <1>5
    <2>2. i + 1 = 1
      BY <2>1 DEF InTurn
    <2>. QED
      BY <1>2, <2>2
  <1>6. ASSUME h.conn[1] = n, h.kind = "Closed" PROVE ~Pending(evs, "Established", h.conn)
    <2> SUFFICES ASSUME NEW i \in DOMAIN evs,
                        evs[i].kind = "Established", evs[i].conn = h.conn
                 PROVE  FALSE
      BY DEF Pending
    <2>1. i < 1
      BY <1>1, <1>6 DEF InTurn
    <2>. QED
      BY <1>1, <2>1
  <1>. QED
    BY <1>1, <1>3, <1>4, <1>5, <1>6 DEF t, h
-----------------------------------------------------------------------------
(* The inductive invariant.                                                *)

\* A session as NewSession makes it, and as it goes on sending.
SessionsOf == [ job : Job, message : {format_musig_msg(TextOf[j]) : j \in Job},
                members : Seq(Party), party_i : Nat, unsent : 0..Sends ]

Types ==
    /\ stdin \in [Party -> Seq(Line)]
    /\ conns \subseteq Pairs
    /\ events \in [Party -> Seq(Event)]
    /\ open \in [Party -> SUBSET Pairs]
    /\ peer_ids \in [Party -> Seq(Party)] /\ parties = peer_ids
    /\ published \subseteq [job : Job, from : Party]
    /\ heard \in [Party -> SUBSET published]
    /\ rx_inter \in [Party -> [unread : Seq(Job), lagged : BOOLEAN]]
    /\ rx_party \in [Party -> [unread : Seq(Job), lagged : BOOLEAN]]
    /\ sessions \in [Party -> Seq(SessionsOf)]
    /\ down \in [Party -> {None, "position", "strip_prefix", "stdin",
                           "rx_inter", "rx_party"}]

Listed(n, q) == q \in Elements(peer_ids[n])

\* A connection n has dialed to q: what is there, what n has been told, and
\* what is still to be told.
Link(n, q) ==
    LET c == <<n, q>>
        comes == Pending(events[n], "Established", c)
        goes  == Pending(events[n], "Closed", c)
    IN  /\ comes => ~Listed(n, q)
        /\ goes => Listed(n, q) \/ comes
        /\ c \in conns <=> ~goes /\ (Listed(n, q) \/ comes)
        /\ c \in open[n] <=> Listed(n, q)

Lists(n) ==
    /\ IsInjective(peer_ids[n]) /\ ~Listed(n, n)
    /\ n \in Up => /\ InTurn(events[n], n)
                   /\ \A q \in Party \ {n} : Link(n, q)

\* A line is read once, and calls of its job come after it.
Typed ==
    \A n \in Party : \A i \in DOMAIN stdin[n] :
        /\ \E k \in DOMAIN Stdin[n] : Stdin[n][k] = stdin[n][i]
        /\ stdin[n][i].verb = "sign" =>
             /\ \A q \in Party : \A k \in DOMAIN stdin[q] :
                  stdin[q][k].verb = "sign" /\ stdin[q][k].job = stdin[n][i].job =>
                    q = n /\ k = i
             /\ \A call \in published : call.job # stdin[n][i].job

TypedAt(n, j) == \E k \in DOMAIN Stdin[n] : Stdin[n][k].verb = "sign" /\ Stdin[n][k].job = j

StartedAt(n, j) == \E k \in DOMAIN sessions[n] : sessions[n][k].job = j

\* A call is of a command of its node, which has its session already.
Commands ==
    \A call \in published : /\ TypedAt(call.from, call.job)
                            /\ StartedAt(call.from, call.job)

\* What starts a session is a command or a call, and neither does so twice.
Answers(n) ==
    /\ \A k \in DOMAIN sessions[n] : \E call \in published :
         call.job = sessions[n][k].job /\ (call.from = n \/ call \in heard[n])
    /\ \A k, l \in DOMAIN sessions[n] : sessions[n][k].job = sessions[n][l].job => k = l
    /\ \A k \in DOMAIN rx_inter[n].unread :
         /\ \E call \in heard[n] : call.job = rx_inter[n].unread[k]
         /\ ~StartedAt(n, rx_inter[n].unread[k])
    /\ IsInjective(rx_inter[n].unread)

\* The members of a session of n are in order, and n is where it says.
Ordered(s, n) ==
    /\ Increasing(s.members)
    /\ s.party_i \in DOMAIN s.members /\ s.members[s.party_i] = n

IInv ==
    /\ Types /\ Typed /\ Commands
    /\ \A n \in Party : Lists(n) /\ Answers(n)
    /\ \A n \in Party : \A k \in DOMAIN sessions[n] : Ordered(sessions[n][k], n)

\* Room for what all sessions send.
Room == /\ IsFiniteSet(Job)
        /\ Cardinality(Job) <= Capacity
        /\ Cardinality(Job) * Sends <= Capacity

\* The messages sessions of n have sent: <<session, number>>.
SentOut(n) ==
    {x \in (1..Len(sessions[n])) \X (1..Sends) : x[2] > sessions[n][x[1]].unsent}

Roomy(n) ==
    /\ ~rx_inter[n].lagged /\ ~rx_party[n].lagged
    /\ Len(rx_party[n].unread) <= Cardinality(SentOut(n))
    /\ down[n] \in {None, "strip_prefix", "stdin"}

RoomInv == \A n \in Party : Roomy(n)
-----------------------------------------------------------------------------
(* What a step does.                                                       *)

\* A panic of n, by its cause.
Reasons == {"strip_prefix", "stdin", "rx_inter", "rx_party"}

Panics(n, why) ==
    /\ n \in Up /\ Panic(n, why)
    /\ why \in Reasons
    /\ why = "rx_inter" => rx_inter[n].lagged
    /\ why = "rx_party" => rx_party[n].lagged

\* Input, CallPeers and AsyncResponse without a panic.
Reads(n) == Input(n) /\ ~LacksBlank(Head(stdin[n]))
Takes(n) == CallPeers(n) /\ ~rx_inter[n].lagged
Passes(n) == AsyncResponse(n) /\ ~rx_party[n].lagged

\* Steps of the network and the member lists; they leave commands and calls alone.
Wiring == \/ \E n \in Party : SwarmEvent(n)
          \/ \E n \in Party : \E why \in Reasons : Panics(n, why)
          \/ \E d, l \in Party : Dial(d, l)
          \/ \E c \in conns : Lose(c)

\* Steps that leave the network and the member lists alone.
Calling == \/ \E n \in Party : Reads(n) \/ Takes(n) \/ Passes(n)
           \/ \E n \in Party : \E k \in DOMAIN sessions[n] : SessionSends(n, k)
           \/ \E n \in Party : \E call \in published : Flood(n, call)

\* Every step is of the network or about commands and calls.
LEMMA WhichStep ==
    ASSUME [Next]_vars
    PROVE  Wiring \/ Calling \/ UNCHANGED vars
  <1>1. ASSUME NEW n \in Party, Input(n) PROVE Reads(n) \/ Panics(n, "strip_prefix")
    BY <1>1 DEF Input, Reads, Panics, Reasons
  <1>2. ASSUME NEW n \in Party, EndOfInput(n) PROVE Panics(n, "stdin")
    BY <1>2 DEF EndOfInput, Panics, Reasons
  <1>3. ASSUME NEW n \in Party, CallPeers(n) PROVE Takes(n) \/ Panics(n, "rx_inter")
    BY <1>3 DEF CallPeers, Takes, Panics, Reasons
  <1>4. ASSUME NEW n \in Party, AsyncResponse(n) PROVE Passes(n) \/ Panics(n, "rx_party")
    BY <1>4 DEF AsyncResponse, Passes, Panics, Reasons
  <1>5. \A n \in Party : \A why : Panics(n, why) => Wiring
    BY DEF Panics, Wiring
  <1>6. CASE Next
    <2>1. CASE \E c \in conns : Lose(c)
      BY <2>1 DEF Wiring
    <2>2. CASE \E n \in Party : \E q \in Party : Dial(n, q)
      BY <2>2 DEF Wiring
    <2>3. CASE \E n \in Party : SwarmEvent(n)
      BY <2>3 DEF Wiring
    <2>4. CASE \E n \in Party : \/ Input(n) \/ EndOfInput(n)
                                \/ CallPeers(n) \/ AsyncResponse(n)
      BY <1>1, <1>2, <1>3, <1>4, <1>5, <2>4 DEF Calling
    <2>5. CASE \E n \in Party : \/ \E k \in DOMAIN sessions[n] : SessionSends(n, k)
                                \/ \E call \in published : Flood(n, call)
      BY <2>5 DEF Calling
    <2>. QED
      BY <1>6, <2>1, <2>2, <2>3, <2>4, <2>5 DEF Next
  <1>. QED
    BY <1>6

\* The peer of the own end of a connection is listed when it is closed.
LEMMA ClosedIsListed ==
    ASSUME IInv, NEW n \in Party, ConnectionClosed(n)
    PROVE  LET conn == Head(events[n]).conn IN
           /\ n = conn[1] => Listed(n, conn[2])
           /\ peer_ids' = [peer_ids EXCEPT ![n] =
                             IF n = conn[1] THEN RemoveFirst(@, conn[2]) ELSE @]
           /\ parties' = [parties EXCEPT ![n] =
                             IF n = conn[1] THEN RemoveFirst(@, conn[2]) ELSE @]
           /\ open' = [open EXCEPT ![n] = @ \ {conn}]
           /\ events' = [events EXCEPT ![n] = Tail(@)]
           /\ UNCHANGED <<stdin, conns, dials, losses, published, heard,
                          channels, sessions, down>>
  <1> DEFINE h == Head(events[n])
             conn == h.conn
  <1>1. /\ n \in Up /\ events[n] # << >> /\ h.kind = "Closed"
        /\ events[n] \in Seq(Event) /\ InTurn(events[n], n)
        /\ \A q \in Party \ {n} : Link(n, q)
        /\ peer_ids \in [Party -> Seq(Party)] /\ parties = peer_ids
    BY DEF ConnectionClosed, IInv, Types, Lists
  <1>2. /\ h \in Event /\ Pending(events[n], "Closed", conn)
        /\ n = conn[1] => ~Pending(events[n], "Established", conn)
    BY <1>1, TailInTurn
  <1> HIDE DEF h
  <1>3. conn = <<conn[1], conn[2]>> /\ conn[1] \in Party /\ conn[2] \in Party /\ conn[1] # conn[2]
    BY <1>2 DEF Event, Pairs
  <1>4. n = conn[1] => Listed(n, conn[2])
    <2> SUFFICES ASSUME n = conn[1] PROVE Listed(n, conn[2])
      OBVIOUS
    <2>1. Link(n, conn[2]) /\ conn = <<n, conn[2]>>
      BY <1>1, <1>3
    <2>. QED
      BY <1>2, <2>1 DEF Link
  <1>5. n = conn[1] => Contains(peer_ids[n], conn[2]) /\ Contains(parties[n], conn[2])
    <2>1. peer_ids[n] \in Seq(Party)
      BY <1>1
    <2>2. DOMAIN peer_ids[n] = 1..Len(peer_ids[n])
      BY <2>1
    <2>. QED
      BY <1>1, <1>4, <2>2 DEF Contains, Listed, Elements
  <1>6. /\ peer_ids' = [peer_ids EXCEPT ![n] =
                          IF n = conn[1] THEN RemoveFirst(@, conn[2]) ELSE @]
        /\ parties' = [parties EXCEPT ![n] =
                          IF n = conn[1] THEN RemoveFirst(@, conn[2]) ELSE @]
    <2>1. CASE n = conn[1]
      BY <1>5, <2>1 DEF ConnectionClosed, ListsPeer, PeerOf, h
    <2>2. CASE n # conn[1]
      BY <1>1, <2>2 DEF ConnectionClosed, ListsPeer, PeerOf, membership, h
    <2>. QED
      BY <2>1, <2>2
  <1>7. /\ open' = [open EXCEPT ![n] = @ \ {conn}]
        /\ events' = [events EXCEPT ![n] = Tail(@)]
        /\ UNCHANGED <<stdin, conns, dials, losses, published, heard,
                       channels, sessions, down>>
    BY <1>5 DEF ConnectionClosed, ListsPeer, PeerOf, h
  <1>. QED
    BY <1>4, <1>6, <1>7 DEF h

\* What leaves the network alone, and what leaves the calls alone.
LEMMA Apart ==
    /\ Calling => UNCHANGED <<network, membership, down>>
    /\ IInv /\ Wiring => UNCHANGED <<stdin, published, heard, channels, sessions>>
  <1>1. Calling => UNCHANGED <<network, membership, down>>
    BY DEF Calling, Reads, Input, Takes, CallPeers, Passes, AsyncResponse,
           SessionSends, Flood
  <1>2. IInv /\ Wiring => UNCHANGED <<stdin, published, heard, channels, sessions>>
    <2>1. ASSUME NEW n \in Party, IInv, ConnectionClosed(n)
          PROVE  UNCHANGED <<stdin, published, heard, channels, sessions>>
      BY <2>1, ClosedIsListed
    <2>. QED
      BY <2>1 DEF Wiring, SwarmEvent, ConnectionEstablished, Panics, Panic, Dial, Lose
  <1>. QED
    BY <1>1, <1>2
-----------------------------------------------------------------------------
(* The member lists.                                                       *)
LEMMA SameLists ==
    ASSUME NEW m \in Party, Lists(m), m \in Up' => m \in Up,
           peer_ids'[m] = peer_ids[m], open'[m] = open[m],
           events'[m] = events[m] \/ m \notin Up',
           \A q \in Party : <<m, q>> \in conns' <=> <<m, q>> \in conns
    PROVE  Lists(m)'
  BY DEF Lists, Link, Listed

\* A new connection of floodsub.
LEMMA DialKeepsLists ==
    ASSUME IInv, NEW d \in Party, NEW l \in Party, Dial(d, l), NEW m \in Party
    PROVE  Lists(m)' /\ events'[m] \in Seq(Event)
  <1> DEFINE cs == {<<d, l>>}
  <1>1. /\ d # l /\ <<d, l>> \in Pairs /\ <<d, l>> \notin open[d]
        /\ ~Pending(events[d], "Established", <<d, l>>)
        /\ ~Pending(events[d], "Closed", <<d, l>>)
    BY DEF Dial, Pairs, Pending
  <1>2. /\ conns' = conns \cup cs /\ peer_ids' = peer_ids /\ open' = open /\ Up' = Up
        /\ events' = Report(events, "Established", cs)
    BY DEF Dial, membership, Up
  <1>3. Lists(m) /\ events[m] \in Seq(Event)
    BY DEF IInv, Types
  <1>4. Adds(events[m], events'[m], "Established", cs, m)
    <2>1. cs \subseteq Pairs
      BY <1>1
    <2>. QED
      BY <1>2, <2>1, ReportAdds
  <1>5. CASE m \in Up
    <2>1. /\ events'[m] \in Seq(Event) /\ InTurn(events'[m], m)
          /\ \A k, c : Pending(events'[m], k, c) <=>
                \/ Pending(events[m], k, c)
                \/ k = "Established" /\ c \in cs /\ m \in {c[1], c[2]}
      <3>1. InTurn(events[m], m)
        BY <1>3, <1>5 DEF Lists
      <3>2. \A c \in cs : c[1] = m => /\ ~Pending(events[m], "Established", c)
                                      /\ ~Pending(events[m], "Closed", c)
        BY <1>1
      <3>. QED
        BY <1>3, <1>4, <1>5, <3>1, <3>2, AddsInTurn
    <2>2. ASSUME NEW q \in Party \ {m} PROVE Link(m, q)'
      <3> DEFINE c == <<m, q>>
      <3>1. Link(m, q)
        BY <1>3, <1>5 DEF Lists
      <3>2. CASE m = d /\ q = l
        <4>1. /\ c \notin open[m] /\ c \in conns' /\ c \in cs
              /\ ~Pending(events[m], "Established", c) /\ ~Pending(events[m], "Closed", c)
          BY <1>1, <1>2, <3>2
        <4>2. Pending(events'[m], "Established", c) /\ ~Pending(events'[m], "Closed", c)
          BY <2>1, <4>1
        <4>. QED
          BY <1>2, <3>1, <4>1, <4>2 DEF Link, Listed
      <3>3. CASE ~(m = d /\ q = l)
        <4>1. c \notin cs /\ (c \in conns' <=> c \in conns)
          BY <1>2, <3>3
        <4>2. \A k : Pending(events'[m], k, c) <=> Pending(events[m], k, c)
          BY <2>1, <4>1
        <4>. QED
          BY <1>2, <3>1, <4>1, <4>2 DEF Link, Listed
      <3>. QED
        BY <3>2, <3>3
    <2>. QED
      BY <1>2, <1>3, <2>1, <2>2 DEF Lists, Listed
  <1>6. CASE m \notin Up
    <2>1. Lists(m)'
      BY <1>2, <1>3, <1>6 DEF Lists, Listed
    <2>2. PICK r \in Seq(Event) : events'[m] = events[m] \o r
      BY <1>4 DEF Adds
    <2>3. events'[m] \in Seq(Event)
      BY <1>3, <2>2
    <2>. QED
      BY <2>1, <2>3
  <1>. QED
    BY <1>5, <1>6

\* Connections that close.
LEMMA CloseKeepsLists ==
    ASSUME IInv, NEW cs, cs \subseteq conns, conns' = conns \ cs, NEW m \in Party,
           m \in Up' => m \in Up, peer_ids' = peer_ids, open' = open,
           m \in Up' => events'[m] = Report(events, "Closed", cs)[m]
    PROVE  Lists(m)'
  <1>1. Lists(m) /\ events[m] \in Seq(Event) /\ cs \subseteq Pairs
    BY DEF IInv, Types
  <1>2. CASE m \in Up'
    <2>1. Adds(events[m], events'[m], "Closed", cs, m)
      BY <1>1, <1>2, ReportAdds
    <2>2. InTurn(events[m], m) /\ \A q \in Party \ {m} : Link(m, q)
      BY <1>1, <1>2 DEF Lists
    <2>3. ASSUME NEW c \in cs, c[1] = m PROVE ~Pending(events[m], "Closed", c)
      <3>1. c \in Pairs /\ c \in conns
        BY <1>1
      <3>2. PICK q \in Party \ {m} : c = <<m, q>>
        BY <2>3, <3>1 DEF Pairs
      <3>3. Link(m, q) /\ <<m, q>> \in conns
        BY <2>2, <3>1, <3>2
      <3>4. ~Pending(events[m], "Closed", <<m, q>>)
        BY <3>3 DEF Link
      <3>. QED
        BY <3>2, <3>4
    <2>4. /\ InTurn(events'[m], m)
          /\ \A k, c : Pending(events'[m], k, c) <=>
                \/ Pending(events[m], k, c)
                \/ k = "Closed" /\ c \in cs /\ m \in {c[1], c[2]}
      <3>1. \A c \in cs : c[1] = m =>
              /\ ~Pending(events[m], "Closed", c)
              /\ "Closed" = "Established" => ~Pending(events[m], "Closed", c)
        BY <2>3
      <3>2. m \in Up
        BY <1>2
      <3>. QED
        BY <1>1, <2>1, <2>2, <3>1, <3>2, AddsInTurn
    <2>5. ASSUME NEW q \in Party \ {m} PROVE Link(m, q)'
      <3> DEFINE c == <<m, q>>
      <3>1. Link(m, q)
        BY <2>2
      <3>2. Pending(events'[m], "Established", c) <=> Pending(events[m], "Established", c)
        BY <2>4
      <3>3. Pending(events'[m], "Closed", c) <=> Pending(events[m], "Closed", c) \/ c \in cs
        BY <2>4
      <3>4. c \in conns' <=> c \in conns /\ c \notin cs
        OBVIOUS
      <3>5. c \in cs => c \in conns
        OBVIOUS
      <3>. QED
        BY <3>1, <3>2, <3>3, <3>4, <3>5 DEF Link, Listed
    <2>. QED
      BY <1>1, <2>4, <2>5 DEF Lists, Listed
  <1>3. CASE m \notin Up'
    BY <1>1, <1>3 DEF Lists, Listed
  <1>. QED
    BY <1>2, <1>3

\* A turn of the loop for an event of the swarm.
LEMMA EventKeepsLists ==
    ASSUME IInv, NEW n \in Party, SwarmEvent(n), NEW m \in Party
    PROVE  /\ Lists(m)'
           /\ peer_ids'[m] \in Seq(Party) /\ parties' = peer_ids'
           /\ events'[m] \in Seq(Event) /\ open'[m] \in SUBSET Pairs
  <1> DEFINE h == Head(events[n])
             conn == h.conn
  <1>1. /\ n \in Up /\ events[n] # << >> /\ events' = [events EXCEPT ![n] = Tail(@)]
        /\ conns' = conns /\ Up' = Up
        /\ h.kind = "Established" <=> ConnectionEstablished(n)
        /\ h.kind = "Closed" <=> ConnectionClosed(n)
    <2>1. CASE ConnectionEstablished(n)
      BY <2>1 DEF ConnectionEstablished, ConnectionClosed, Up
    <2>2. CASE ConnectionClosed(n)
      BY <2>2, ClosedIsListed DEF ConnectionEstablished, ConnectionClosed, Up
    <2>. QED
      BY <2>1, <2>2 DEF SwarmEvent
  <1>2. /\ \A p \in Party : Lists(p)
        /\ events \in [Party -> Seq(Event)] /\ peer_ids \in [Party -> Seq(Party)]
        /\ parties = peer_ids /\ open \in [Party -> SUBSET Pairs]
    BY DEF IInv, Types
  <1>3. /\ h \in Event /\ Pending(events[n], h.kind, conn)
        /\ Tail(events[n]) \in Seq(Event) /\ InTurn(Tail(events[n]), n)
        /\ \A k, c : Pending(Tail(events[n]), k, c) => Pending(events[n], k, c)
        /\ \A k, c : Pending(events[n], k, c) =>
             Pending(Tail(events[n]), k, c) \/ (k = h.kind /\ c = conn)
        /\ conn[1] = n => /\ ~Pending(Tail(events[n]), h.kind, conn)
                          /\ h.kind = "Closed" => ~Pending(events[n], "Established", conn)
    <2>1. InTurn(events[n], n) /\ events[n] \in Seq(Event)
      BY <1>1, <1>2 DEF Lists
    <2>. QED
      BY <1>1, <2>1, TailInTurn
  <1> HIDE DEF h
  <1>4. /\ conn = <<conn[1], conn[2]>> /\ conn \in Pairs
        /\ conn[1] \in Party /\ conn[2] \in Party /\ conn[1] # conn[2]
        /\ h.kind \in {"Established", "Closed"}
    BY <1>3 DEF Event, Pairs
  <1>5. events'[n] = Tail(events[n])
    BY <1>1, <1>2
  \* What becomes of the list and of the open connections.
  <1>6. /\ parties' = peer_ids'
        /\ \A p \in Party \ {n} : peer_ids'[p] = peer_ids[p] /\ open'[p] = open[p]
        /\ peer_ids'[n] \in Seq(Party) /\ open'[n] \subseteq Pairs
        /\ n # conn[1] => peer_ids'[n] = peer_ids[n]
        /\ IsInjective(peer_ids'[n])
        /\ h.kind = "Established" =>
             /\ open'[n] = open[n] \cup {conn}
             /\ n = conn[1] => Elements(peer_ids'[n]) = Elements(peer_ids[n]) \cup {conn[2]}
        /\ h.kind = "Closed" =>
             /\ open'[n] = open[n] \ {conn}
             /\ n = conn[1] => Elements(peer_ids'[n]) = Elements(peer_ids[n]) \ {conn[2]}
    <2>1. IsInjective(peer_ids[n]) /\ peer_ids[n] \in Seq(Party)
      BY <1>2 DEF Lists
    <2>2. CASE h.kind = "Established"
      <3> DEFINE new == IF n = conn[1] THEN Append(peer_ids[n], conn[2]) ELSE peer_ids[n]
      <3>1. /\ peer_ids' = [peer_ids EXCEPT ![n] = new]
            /\ parties' = [parties EXCEPT ![n] = new]
            /\ open' = [open EXCEPT ![n] = @ \cup {conn}]
        BY <1>1, <1>2, <2>2 DEF ConnectionEstablished, ListsPeer, PeerOf, h
      <3>2. n = conn[1] => ~Listed(n, conn[2])
        <4> SUFFICES ASSUME n = conn[1] PROVE ~Listed(n, conn[2])
          OBVIOUS
        <4>1. Link(n, conn[2]) /\ conn = <<n, conn[2]>>
          BY <1>1, <1>2, <1>4 DEF Lists
        <4>. QED
          BY <1>3, <2>2, <4>1 DEF Link
      <3>3. CASE n = conn[1]
        <4>1. /\ Append(peer_ids[n], conn[2]) \in Seq(Party)
              /\ IsInjective(Append(peer_ids[n], conn[2]))
              /\ Elements(Append(peer_ids[n], conn[2])) = Elements(peer_ids[n]) \cup {conn[2]}
          BY <1>4, <2>1, <3>2, <3>3, AppendsNew DEF Listed
        <4>. QED
          BY <1>2, <1>4, <2>2, <3>1, <3>3, <4>1
      <3>4. CASE n # conn[1]
        BY <1>2, <1>4, <2>1, <2>2, <3>1, <3>4
      <3>. QED
        BY <3>3, <3>4
    <2>3. CASE h.kind = "Closed"
      <3> DEFINE new == IF n = conn[1] THEN RemoveFirst(peer_ids[n], conn[2]) ELSE peer_ids[n]
      <3>1. /\ peer_ids' = [peer_ids EXCEPT ![n] = new]
            /\ parties' = [parties EXCEPT ![n] = new]
            /\ open' = [open EXCEPT ![n] = @ \ {conn}]
            /\ n = conn[1] => Listed(n, conn[2])
        BY <1>1, <1>2, <2>3, ClosedIsListed DEF h
      <3>2. CASE n = conn[1]
        <4>1. /\ RemoveFirst(peer_ids[n], conn[2]) \in Seq(Party)
              /\ IsInjective(RemoveFirst(peer_ids[n], conn[2]))
              /\ Elements(RemoveFirst(peer_ids[n], conn[2])) = Elements(peer_ids[n]) \ {conn[2]}
          BY <2>1, <3>1, <3>2, RemovesIt DEF Listed
        <4>. QED
          BY <1>2, <1>4, <2>3, <3>1, <3>2, <4>1
      <3>3. CASE n # conn[1]
        BY <1>2, <1>4, <2>1, <2>3, <3>1, <3>3
      <3>. QED
        BY <3>2, <3>3
    <2>. QED
      BY <1>4, <2>2, <2>3
  <1>7. ASSUME NEW q \in Party \ {n} PROVE Link(n, q)'
    <2> DEFINE c == <<n, q>>
    <2>1. Link(n, q)
      BY <1>1, <1>2 DEF Lists
    <2>2. CASE c = conn
      <3>1. n = conn[1] /\ q = conn[2]
        BY <2>2
      <3>2. CASE h.kind = "Established"
        <4>1. /\ Pending(events[n], "Established", c)
              /\ ~Pending(events'[n], "Established", c)
              /\ Pending(events'[n], "Closed", c) <=> Pending(events[n], "Closed", c)
          BY <1>3, <1>5, <2>2, <3>1, <3>2
        <4>2. Listed(n, q)' /\ c \in open'[n]
          BY <1>6, <2>2, <3>1, <3>2 DEF Listed
        <4>. QED
          BY <1>1, <2>1, <4>1, <4>2 DEF Link
      <3>3. CASE h.kind = "Closed"
        <4>1. /\ Pending(events[n], "Closed", c)
              /\ ~Pending(events'[n], "Closed", c)
              /\ ~Pending(events'[n], "Established", c)
          BY <1>3, <1>5, <2>2, <3>1, <3>3
        <4>2. ~Listed(n, q)' /\ c \notin open'[n]
          BY <1>6, <2>2, <3>1, <3>3 DEF Listed
        <4>. QED
          BY <1>1, <2>1, <4>1, <4>2 DEF Link
      <3>. QED
        BY <1>4, <3>2, <3>3
    <2>3. CASE c # conn
      <3>1. \A k : Pending(events'[n], k, c) <=> Pending(events[n], k, c)
        BY <1>3, <1>5, <2>3
      <3>2. c \in open'[n] <=> c \in open[n]
        BY <1>4, <1>6, <2>3
      <3>3. Listed(n, q)' <=> Listed(n, q)
        <4>1. n = conn[1] => q # conn[2]
          BY <1>4, <2>3
        <4>. QED
          BY <1>4, <1>6, <4>1 DEF Listed
      <3>. QED
        BY <1>1, <2>1, <3>1, <3>2, <3>3 DEF Link
    <2>. QED
      BY <2>2, <2>3
  <1>8. CASE m = n
    <2>1. ~Listed(n, n)'
      BY <1>2, <1>4, <1>6 DEF Lists, Listed
    <2>. QED
      BY <1>3, <1>5, <1>6, <1>7, <1>8, <2>1 DEF Lists
  <1>9. CASE m # n
    <2>1. peer_ids'[m] = peer_ids[m] /\ open'[m] = open[m] /\ events'[m] = events[m]
      BY <1>1, <1>2, <1>6, <1>9
    <2>2. Lists(m)'
      BY <1>1, <1>2, <2>1, SameLists
    <2>. QED
      BY <1>2, <1>6, <2>1, <2>2
  <1>. QED
    BY <1>8, <1>9

\* No step of the network leaves the lists behind its events.
LEMMA WiringKeepsLists ==
    ASSUME IInv, Wiring, NEW m \in Party
    PROVE  Lists(m)'
  <1>1. ASSUME NEW n \in Party, NEW why \in Reasons, Panics(n, why)
        PROVE  Lists(m)'
    <2> DEFINE cs == {c \in conns : n \in {c[1], c[2]}}
    <2>1. /\ conns' = conns \ cs /\ peer_ids' = peer_ids /\ open' = open
          /\ events' = [Report(events, "Closed", cs) EXCEPT ![n] = << >>]
          /\ down' = [down EXCEPT ![n] = why]
      BY <1>1 DEF Panics, Panic, membership
    <2>2. down \in [Party -> {None, "position", "strip_prefix", "stdin",
                              "rx_inter", "rx_party"}]
      BY DEF IInv, Types
    <2>3. m \in Up' => m \in Up /\ m # n
      BY <2>1, <2>2, NoneAssumption DEF Up, Reasons
    <2>4. m # n => events'[m] = Report(events, "Closed", cs)[m]
      BY <2>1 DEF Report
    <2>. QED
      BY <2>1, <2>3, <2>4, CloseKeepsLists
  <1>2. ASSUME NEW c \in conns, Lose(c) PROVE Lists(m)'
    <2>1. /\ conns' = conns \ {c} /\ peer_ids' = peer_ids /\ open' = open /\ Up' = Up
          /\ events' = Report(events, "Closed", {c})
      BY <1>2 DEF Lose, membership, Up
    <2>. QED
      BY <2>1, CloseKeepsLists
  <1>. QED
    BY <1>1, <1>2, DialKeepsLists, EventKeepsLists DEF Wiring

-----------------------------------------------------------------------------
(* Channels and sessions.                                                  *)

\* What is left of a sequence without its head.
LEMMA TailKeeps ==
    ASSUME NEW S, NEW s \in Seq(S), s # << >>
    PROVE  /\ Head(s) \in S /\ Head(s) \in Elements(s) /\ Tail(s) \in Seq(S)
           /\ Len(Tail(s)) = Len(s) - 1
           /\ Elements(Tail(s)) \subseteq Elements(s)
           /\ IsInjective(s) => /\ IsInjective(Tail(s))
                                /\ Head(s) \notin Elements(Tail(s))
  <1> DEFINE t == Tail(s)
  <1>1. /\ DOMAIN s = 1..Len(s) /\ Len(s) \in Nat /\ 1 \in DOMAIN s
        /\ Head(s) = s[1] /\ s[1] \in S /\ t \in Seq(S) /\ Len(t) = Len(s) - 1
        /\ DOMAIN t = 1..(Len(s) - 1)
        /\ \A i \in 1..(Len(s) - 1) : t[i] = s[i + 1]
    OBVIOUS
  <1> HIDE DEF t
  <1>2. \A i \in DOMAIN t : /\ i + 1 \in DOMAIN s /\ i + 1 # 1 /\ t[i] = s[i + 1]
                            /\ i \in Nat
    BY <1>1
  <1>3. Head(s) \in Elements(s) /\ Elements(t) \subseteq Elements(s)
    BY <1>1, <1>2 DEF Elements
  <1>4. ASSUME IsInjective(s)
        PROVE  IsInjective(t) /\ Head(s) \notin Elements(t)
    <2>1. ASSUME NEW i \in DOMAIN t, NEW k \in DOMAIN t, t[i] = t[k] PROVE i = k
      <3>1. i + 1 = k + 1
        BY <1>2, <1>4, <2>1 DEF IsInjective
      <3>. QED
        BY <1>2, <3>1
    <2>2. ASSUME NEW i \in DOMAIN t PROVE t[i] # s[1]
      BY <1>1, <1>2, <1>4 DEF IsInjective
    <2>. QED
      BY <1>1, <2>1, <2>2 DEF IsInjective, Elements
  <1>. QED
    BY <1>1, <1>3, <1>4 DEF t

Channel(S) == [unread : Seq(S), lagged : BOOLEAN]

\* Send puts x behind what is unread; only a full channel loses its oldest.
LEMMA SendKeeps ==
    ASSUME NEW S, NEW ch \in Channel(S), NEW x \in S
    PROVE  /\ Send(ch, x) \in Channel(S)
           /\ Elements(Send(ch, x).unread) \subseteq Elements(ch.unread) \cup {x}
           /\ IsInjective(ch.unread) /\ x \notin Elements(ch.unread) =>
                IsInjective(Send(ch, x).unread)
           /\ Len(ch.unread) < Capacity =>
                Send(ch, x) = [unread |-> Append(ch.unread, x), lagged |-> ch.lagged]
  <1>1. /\ ch.unread \in Seq(S) /\ ch.lagged \in BOOLEAN
        /\ ch = [unread |-> ch.unread, lagged |-> ch.lagged]
    BY DEF Channel
  <1>2. CASE Len(ch.unread) < Capacity
    <2>1. Send(ch, x) = [unread |-> Append(ch.unread, x), lagged |-> ch.lagged]
      BY <1>1, <1>2 DEF Send
    <2>2. /\ Append(ch.unread, x) \in Seq(S)
          /\ Elements(Append(ch.unread, x)) = Elements(ch.unread) \cup {x}
          /\ IsInjective(ch.unread) /\ x \notin Elements(ch.unread) =>
               IsInjective(Append(ch.unread, x))
      BY <1>1, AppendsNew
    <2>. QED
      BY <1>1, <2>1, <2>2 DEF Channel
  <1>3. CASE ~(Len(ch.unread) < Capacity)
    <2> DEFINE t == Tail(ch.unread)
    <2>1. ch.unread # << >>
      BY <1>1, <1>3, NodeAssumption
    <2>2. /\ t \in Seq(S) /\ Elements(t) \subseteq Elements(ch.unread)
          /\ IsInjective(ch.unread) => IsInjective(t)
      BY <1>1, <2>1, TailKeeps
    <2>3. Send(ch, x) = [unread |-> Append(t, x), lagged |-> TRUE]
      BY <1>3 DEF Send
    <2> HIDE DEF t
    <2>4. /\ Append(t, x) \in Seq(S)
          /\ Elements(Append(t, x)) = Elements(t) \cup {x}
          /\ IsInjective(t) /\ x \notin Elements(t) => IsInjective(Append(t, x))
      BY <2>2, AppendsNew
    <2>. QED
      BY <1>3, <2>2, <2>3, <2>4 DEF Channel
  <1>. QED
    BY <1>2, <1>3

\* A session lists the peers and its own node, in order.
LEMMA NewSessionRight ==
    ASSUME IInv, NEW n \in Party, NEW j \in Job
    PROVE  /\ NewSession(n, j) \in SessionsOf
           /\ NewSession(n, j).job = j /\ NewSession(n, j).unsent = Sends
           /\ Ordered(NewSession(n, j), n)
  <1> DEFINE s == Append(peer_ids[n], n)
             m == Members(n)
             Own(k) == m[k] = n /\ \A l \in (k + 1)..Len(m) : m[l] # n
  <1>1. Party \subseteq Nat
    BY NodeAssumption DEF Party
  <1>2. s \in Seq(Party) /\ IsInjective(s) /\ n \in Elements(s)
    <2>1. peer_ids[n] \in Seq(Party) /\ IsInjective(peer_ids[n]) /\ n \notin Elements(peer_ids[n])
      BY DEF IInv, Types, Lists, Listed
    <2>. QED
      BY <2>1, AppendsNew
  <1>3. Elements(s) \subseteq Party
    <2>1. \A i \in DOMAIN s : s[i] \in Party
      BY <1>2
    <2> HIDE DEF s
    <2>. QED
      BY <2>1 DEF Elements
  <1>4. m = Sorted(s)
    BY DEF Members
  <1> HIDE DEF s, m
  <1>5. s \in Seq(Nat)
    BY <1>1, <1>2, SeqMonotonic
  <1>6. /\ m \in Seq(Elements(s)) /\ Increasing(m) /\ Elements(m) = Elements(s)
    BY <1>2, <1>4, <1>5, SortedRight
  <1>7. m \in Seq(Party)
    BY <1>3, <1>6, SeqMonotonic
  <1>8. DOMAIN m = 1..Len(m) /\ Len(m) \in Nat
    BY <1>7
  <1>9. \A k \in DOMAIN m : m[k] \in Nat
    <2>1. \A k \in DOMAIN m : m[k] \in Party
      BY <1>7
    <2>. QED
      BY <1>1, <2>1
  <1>10. PICK k \in DOMAIN m : m[k] = n
    BY <1>2, <1>6 DEF Elements
  <1>11. Own(k)
    <2> SUFFICES ASSUME NEW l \in (k + 1)..Len(m) PROVE m[l] # n
      BY <1>10
    <2>1. l \in DOMAIN m /\ k < l
      BY <1>8
    <2>2. m[k] < m[l]
      BY <1>6, <2>1 DEF Increasing
    <2>. QED
      BY <1>9, <1>10, <2>1, <2>2
  <1> DEFINE own == CHOOSE i \in DOMAIN m : Own(i)
  <1>12. own \in DOMAIN m /\ Own(own)
    BY <1>11
  <1>13. NewSession(n, j) = [ job |-> j, message |-> format_musig_msg(TextOf[j]),
                              members |-> m, unsent |-> Sends, party_i |-> own ]
    BY DEF NewSession, m
  <1> HIDE DEF own
  <1>14. Sends \in 0..Sends
    BY NodeAssumption
  <1>15. own \in Nat
    BY <1>8, <1>12
  <1>16. Ordered(NewSession(n, j), n)
    BY <1>6, <1>12, <1>13 DEF Ordered
  <1>. QED
    BY <1>7, <1>13, <1>14, <1>15, <1>16 DEF SessionsOf

\* handle_sign starts one session.
LEMMA StartsOne ==
    ASSUME IInv, NEW n \in Party, NEW j \in Job, HandleSign(n, j)
    PROVE  /\ sessions' \in [Party -> Seq(SessionsOf)]
           /\ \A m \in Party \ {n} : sessions'[m] = sessions[m]
           /\ Len(sessions'[n]) = Len(sessions[n]) + 1
           /\ \A k \in DOMAIN sessions[n] : k \in DOMAIN sessions'[n]
           /\ \A k \in DOMAIN sessions'[n] :
                IF k = Len(sessions[n]) + 1 THEN sessions'[n][k] = NewSession(n, j)
                ELSE k \in DOMAIN sessions[n] /\ sessions'[n][k] = sessions[n][k]
           /\ \A k \in DOMAIN sessions'[n] : Ordered(sessions'[n][k], n)
           /\ \A m \in Party : \A i : StartedAt(m, i)' <=> StartedAt(m, i) \/ (m = n /\ i = j)
  <1> DEFINE old == sessions[n]
             s == NewSession(n, j)
  <1>1. sessions \in [Party -> Seq(SessionsOf)] /\ old \in Seq(SessionsOf)
    BY DEF IInv, Types
  <1>2. s \in SessionsOf /\ s.job = j /\ Ordered(s, n)
    BY NewSessionRight
  <1>3. sessions' = [sessions EXCEPT ![n] = Append(old, s)]
    BY DEF HandleSign
  <1> HIDE DEF s
  <1>4. /\ Append(old, s) \in Seq(SessionsOf) /\ Len(Append(old, s)) = Len(old) + 1
        /\ DOMAIN Append(old, s) = 1..(Len(old) + 1) /\ DOMAIN old = 1..Len(old)
        /\ Len(old) \in Nat /\ Append(old, s)[Len(old) + 1] = s
        /\ \A k \in 1..Len(old) : Append(old, s)[k] = old[k]
    BY <1>1, <1>2, AppendProperties, LenProperties
  <1>5. sessions'[n] = Append(old, s) /\ sessions' \in [Party -> Seq(SessionsOf)]
    BY <1>1, <1>3, <1>4
  <1>6. \A m \in Party \ {n} : sessions'[m] = sessions[m]
    BY <1>1, <1>3
  <1>7. /\ \A k \in DOMAIN old : k \in DOMAIN sessions'[n] /\ sessions'[n][k] = old[k]
        /\ \A k \in DOMAIN sessions'[n] :
             IF k = Len(old) + 1 THEN sessions'[n][k] = s
             ELSE k \in DOMAIN old /\ sessions'[n][k] = old[k]
        /\ Len(old) + 1 \in DOMAIN sessions'[n] /\ sessions'[n][Len(old) + 1] = s
    BY <1>4, <1>5
  <1>8. ASSUME NEW k \in DOMAIN sessions'[n] PROVE Ordered(sessions'[n][k], n)
    <2>1. \A i \in DOMAIN old : Ordered(old[i], n)
      BY DEF IInv
    <2>. QED
      BY <1>2, <1>7, <2>1
  <1>9. ASSUME NEW m \in Party, NEW i
        PROVE  StartedAt(m, i)' <=> StartedAt(m, i) \/ (m = n /\ i = j)
    <2>1. CASE m = n
      BY <1>2, <1>7, <2>1 DEF StartedAt
    <2>2. CASE m # n
      BY <1>6, <2>2 DEF StartedAt
    <2>. QED
      BY <2>1, <2>2
  <1>. QED
    BY <1>4, <1>5, <1>6, <1>7, <1>8, <1>9 DEF s

\* A session that sends stays what it is.
LEMMA SendsOne ==
    ASSUME IInv, NEW n \in Party, NEW k \in DOMAIN sessions[n], SessionSends(n, k)
    PROVE  /\ sessions' \in [Party -> Seq(SessionsOf)]
           /\ \A m \in Party : /\ DOMAIN sessions'[m] = DOMAIN sessions[m]
                               /\ Len(sessions'[m]) = Len(sessions[m])
           /\ \A m \in Party : \A l \in DOMAIN sessions[m] :
                /\ sessions'[m][l] = IF m = n /\ l = k
                                     THEN [sessions[n][k] EXCEPT !.unsent = @ - 1]
                                     ELSE sessions[m][l]
                /\ sessions'[m][l].job = sessions[m][l].job
                /\ Ordered(sessions'[m][l], m)
           /\ sessions[n][k] \in SessionsOf /\ sessions[n][k].unsent > 0
  <1> DEFINE x == sessions[n][k]
             y == [x EXCEPT !.unsent = @ - 1]
  <1>1. /\ sessions \in [Party -> Seq(SessionsOf)]
        /\ \A m \in Party : \A l \in DOMAIN sessions[m] : Ordered(sessions[m][l], m)
    BY DEF IInv, Types
  <1>2. /\ sessions' = [sessions EXCEPT ![n] = [@ EXCEPT ![k] = y]] /\ x.unsent > 0
    BY DEF SessionSends
  <1>3. x \in SessionsOf
    BY <1>1
  <1> HIDE DEF x
  <1>4. /\ y \in SessionsOf /\ y.job = x.job
        /\ y.members = x.members /\ y.party_i = x.party_i
    <2>1. x.unsent - 1 \in 0..Sends
      BY <1>2, <1>3, NodeAssumption DEF SessionsOf
    <2>. QED
      BY <1>3, <2>1 DEF SessionsOf
  <1> HIDE DEF y
  <1>5. /\ [sessions[n] EXCEPT ![k] = y] \in Seq(SessionsOf)
        /\ Len([sessions[n] EXCEPT ![k] = y]) = Len(sessions[n])
    <2>1. sessions[n] \in Seq(SessionsOf)
      BY <1>1
    <2>. QED
      BY <1>4, <2>1, ExceptSeq
  <1>6. sessions' \in [Party -> Seq(SessionsOf)]
    BY <1>1, <1>2, <1>5
  <1>7. ASSUME NEW m \in Party
        PROVE  /\ DOMAIN sessions'[m] = DOMAIN sessions[m] /\ Len(sessions'[m]) = Len(sessions[m])
               /\ \A l \in DOMAIN sessions[m] :
                    sessions'[m][l] = IF m = n /\ l = k THEN y ELSE sessions[m][l]
    <2>1. sessions'[m] = IF m = n THEN [sessions[n] EXCEPT ![k] = y] ELSE sessions[m]
      BY <1>1, <1>2
    <2>. QED
      BY <1>5, <2>1
  <1>8. ASSUME NEW m \in Party, NEW l \in DOMAIN sessions[m]
        PROVE  /\ sessions'[m][l].job = sessions[m][l].job
               /\ Ordered(sessions'[m][l], m)
    <2>1. CASE m = n /\ l = k
      <3>1. Ordered(x, n) /\ sessions[m][l] = x /\ sessions'[m][l] = y
        BY <1>1, <1>7, <2>1 DEF x
      <3>. QED
        BY <1>4, <2>1, <3>1 DEF Ordered
    <2>2. CASE ~(m = n /\ l = k)
      BY <1>1, <1>7, <2>2
    <2>. QED
      BY <2>1, <2>2
  <1>. QED
    BY <1>2, <1>3, <1>6, <1>7, <1>8 DEF x, y

-----------------------------------------------------------------------------
(* Commands and calls.                                                     *)

\* There is one call of a job.
LEMMA OneCall ==
    ASSUME Types, Commands, NEW a \in published, NEW b \in published, a.job = b.job
    PROVE  a = b
  <1>1. /\ a \in [job : Job, from : Party] /\ b \in [job : Job, from : Party]
        /\ TypedAt(a.from, a.job) /\ TypedAt(b.from, a.job)
    BY DEF Types, Commands
  <1>2. a.from = b.from
    <2>1. a.from \in Party /\ b.from \in Party
      BY <1>1
    <2>2. PICK i \in DOMAIN Stdin[a.from] :
            Stdin[a.from][i].verb = "sign" /\ Stdin[a.from][i].job = a.job
      BY <1>1 DEF TypedAt
    <2>3. PICK k \in DOMAIN Stdin[b.from] :
            Stdin[b.from][k].verb = "sign" /\ Stdin[b.from][k].job = a.job
      BY <1>1 DEF TypedAt
    <2>. QED
      BY <2>1, <2>2, <2>3, NodeAssumption
  <1>. QED
    BY <1>1, <1>2

\* What the calls of n rest on.
LEMMA SameAnswers ==
    ASSUME NEW n \in Party, Answers(n), published \subseteq published',
           heard'[n] = heard[n], rx_inter'[n] = rx_inter[n],
           DOMAIN sessions'[n] = DOMAIN sessions[n],
           \A k \in DOMAIN sessions[n] : sessions'[n][k].job = sessions[n][k].job
    PROVE  Answers(n)' /\ \A j : StartedAt(n, j)' <=> StartedAt(n, j)
  <1>1. \A j : StartedAt(n, j)' <=> StartedAt(n, j)
    BY DEF StartedAt
  <1>. QED
    BY <1>1 DEF Answers

\* A new session of n answers a call nobody has answered there.
LEMMA NewAnswer ==
    ASSUME IInv, NEW n \in Party, NEW j \in Job, HandleSign(n, j), ~StartedAt(n, j),
           published \subseteq published', heard' = heard,
           \E call \in published' : call.job = j /\ (call.from = n \/ call \in heard[n]),
           \A m \in Party \ {n} : rx_inter'[m] = rx_inter[m],
           IsInjective(rx_inter'[n].unread),
           Elements(rx_inter'[n].unread) \subseteq Elements(rx_inter[n].unread),
           j \notin Elements(rx_inter'[n].unread),
           NEW m \in Party
    PROVE  Answers(m)'
  <1>1. Answers(m)
    BY DEF IInv
  <1>2. /\ \A i \in Party \ {n} : sessions'[i] = sessions[i]
        /\ \A k \in DOMAIN sessions'[n] :
             IF k = Len(sessions[n]) + 1 THEN sessions'[n][k] = NewSession(n, j)
             ELSE k \in DOMAIN sessions[n] /\ sessions'[n][k] = sessions[n][k]
        /\ \A i \in Party : \A x : StartedAt(i, x)' <=> StartedAt(i, x) \/ (i = n /\ x = j)
    BY StartsOne
  <1>3. NewSession(n, j).job = j
    BY NewSessionRight
  <1>4. CASE m # n
    BY <1>1, <1>2, <1>4, SameAnswers
  <1>5. CASE m = n
    <2>1. ASSUME NEW k \in DOMAIN sessions'[n]
          PROVE  \E call \in published' :
                   call.job = sessions'[n][k].job /\ (call.from = n \/ call \in heard'[n])
      <3>1. CASE k = Len(sessions[n]) + 1
        BY <1>2, <1>3, <3>1
      <3>2. CASE k # Len(sessions[n]) + 1
        <4>1. k \in DOMAIN sessions[n] /\ sessions'[n][k] = sessions[n][k]
          BY <1>2, <3>2
        <4>. QED
          BY <1>1, <1>5, <4>1 DEF Answers
      <3>. QED
        BY <3>1, <3>2
    <2>2. ASSUME NEW k \in DOMAIN sessions'[n], NEW l \in DOMAIN sessions'[n],
                 sessions'[n][k].job = sessions'[n][l].job
          PROVE  k = l
      <3>1. \A i \in DOMAIN sessions[n] : sessions[n][i].job # j
        BY DEF StartedAt
      <3>2. \A i \in DOMAIN sessions'[n] :
              sessions'[n][i].job = j <=> i = Len(sessions[n]) + 1
        BY <1>2, <1>3, <3>1
      <3>3. CASE sessions'[n][k].job = j
        BY <2>2, <3>2, <3>3
      <3>4. CASE sessions'[n][k].job # j
        <4>1. /\ k \in DOMAIN sessions[n] /\ sessions'[n][k] = sessions[n][k]
              /\ l \in DOMAIN sessions[n] /\ sessions'[n][l] = sessions[n][l]
          BY <1>2, <2>2, <3>2, <3>4
        <4>. QED
          BY <1>1, <1>5, <2>2, <4>1 DEF Answers
      <3>. QED
        BY <3>3, <3>4
    <2>3. ASSUME NEW k \in DOMAIN rx_inter'[n].unread
          PROVE  /\ \E call \in heard'[n] : call.job = rx_inter'[n].unread[k]
                 /\ \A l \in DOMAIN sessions'[n] :
                      sessions'[n][l].job # rx_inter'[n].unread[k]
      <3>1. PICK y \in Elements(rx_inter'[n].unread) : y = rx_inter'[n].unread[k]
        BY DEF Elements
      <3>2. PICK i \in DOMAIN rx_inter[n].unread : rx_inter[n].unread[i] = y
        BY DEF Elements
      <3>3. /\ \E call \in heard[n] : call.job = rx_inter[n].unread[i]
            /\ ~StartedAt(n, rx_inter[n].unread[i])
        BY <1>1, <1>5 DEF Answers
      <3>4. \A x : StartedAt(n, x)' <=> StartedAt(n, x) \/ x = j
        BY <1>2
      <3>5. ~StartedAt(n, y)'
        BY <3>2, <3>3, <3>4
      <3>6. \A l \in DOMAIN sessions'[n] : sessions'[n][l].job # y
        BY <3>5 DEF StartedAt
      <3>7. \E call \in heard'[n] : call.job = y
        BY <3>2, <3>3
      <3>. QED
        BY <3>1, <3>6, <3>7
    <2>. QED
      BY <1>5, <2>1, <2>2, <2>3 DEF Answers, StartedAt
  <1>. QED
    BY <1>4, <1>5

\* The calls as a whole, and the steps that disturb them.
CallInv == Typed /\ Commands /\ \A n \in Party : Answers(n)
CallTypes ==
    /\ stdin \in [Party -> Seq(Line)]
    /\ published \subseteq [job : Job, from : Party]
    /\ heard \in [Party -> SUBSET published]
    /\ rx_inter \in [Party -> Channel(Job)]
    /\ rx_party \in [Party -> Channel(Job)]
    /\ sessions \in [Party -> Seq(SessionsOf)]
AllOrdered == \A n \in Party : \A k \in DOMAIN sessions[n] : Ordered(sessions[n][k], n)

\* A line from stdin: its job is new, and the node has a session before its call is out.
LEMMA ReadsKeeps ==
    ASSUME IInv, NEW n \in Party, Reads(n)
    PROVE  CallTypes' /\ CallInv' /\ AllOrdered'
  <1> DEFINE line == Head(stdin[n])
  <1>1. /\ stdin[n] # << >> /\ stdin' = [stdin EXCEPT ![n] = Tail(@)]
        /\ heard' = heard /\ rx_inter' = rx_inter /\ rx_party' = rx_party
        /\ line.verb = "sign" =>
             /\ published' = published \cup {[job |-> line.job, from |-> n]}
             /\ HandleSign(n, line.job)
        /\ line.verb # "sign" => published' = published /\ sessions' = sessions
    BY DEF Reads, Input, channels
  <1>2. /\ stdin \in [Party -> Seq(Line)] /\ stdin[n] \in Seq(Line)
        /\ published \subseteq [job : Job, from : Party]
        /\ heard \in [Party -> SUBSET published]
        /\ rx_inter \in [Party -> Channel(Job)] /\ rx_party \in [Party -> Channel(Job)]
        /\ sessions \in [Party -> Seq(SessionsOf)]
        /\ Typed /\ Commands /\ AllOrdered /\ \A m \in Party : Answers(m)
    BY DEF IInv, Types, Channel, AllOrdered
  <1> DEFINE s == stdin[n]
             t == Tail(s)
  <1>3. /\ line = s[1] /\ line \in Line /\ 1 \in DOMAIN s /\ t \in Seq(Line)
        /\ \A i \in DOMAIN t : i + 1 \in DOMAIN s /\ i + 1 # 1 /\ t[i] = s[i + 1] /\ i \in Nat
    <2>1. /\ DOMAIN s = 1..Len(s) /\ Len(s) \in Nat /\ 1 \in DOMAIN s
          /\ line = s[1] /\ t \in Seq(Line) /\ line \in Line
          /\ DOMAIN t = 1..(Len(s) - 1)
          /\ \A i \in 1..(Len(s) - 1) : t[i] = s[i + 1]
      BY <1>1, <1>2
    <2> HIDE DEF s, t
    <2>. QED
      BY <2>1
  <1>4. /\ stdin' \in [Party -> Seq(Line)] /\ stdin'[n] = t
        /\ \A m \in Party \ {n} : stdin'[m] = stdin[m]
    BY <1>1, <1>2, <1>3
  <1> HIDE DEF line, t, s
  \* Whatever is left was there before, at one place.
  <1> DEFINE at(m, i) == IF m = n THEN i + 1 ELSE i
  <1>5. ASSUME NEW m \in Party, NEW i \in DOMAIN stdin'[m]
        PROVE  /\ at(m, i) \in DOMAIN stdin[m] /\ stdin'[m][i] = stdin[m][at(m, i)]
               /\ m = n => at(m, i) # 1
    BY <1>3, <1>4 DEF s
  <1>6. \A m \in Party : \A i, k \in DOMAIN stdin'[m] : at(m, i) = at(m, k) => i = k
    BY <1>3, <1>4
  <1> HIDE DEF at
  <1>7. ASSUME \A m \in Party : \A i \in DOMAIN stdin'[m] :
                 stdin'[m][i].verb = "sign" =>
                   \A call \in published' : call.job # stdin'[m][i].job
        PROVE  Typed'
    <2> SUFFICES ASSUME NEW m \in Party, NEW i \in DOMAIN stdin'[m]
                 PROVE  /\ \E k \in DOMAIN Stdin[m] : Stdin[m][k] = stdin'[m][i]
                        /\ stdin'[m][i].verb = "sign" =>
                             \A q \in Party : \A k \in DOMAIN stdin'[q] :
                               stdin'[q][k].verb = "sign"
                               /\ stdin'[q][k].job = stdin'[m][i].job => q = m /\ k = i
      BY <1>7 DEF Typed
    <2>1. at(m, i) \in DOMAIN stdin[m] /\ stdin'[m][i] = stdin[m][at(m, i)]
      BY <1>5
    <2>2. \E k \in DOMAIN Stdin[m] : Stdin[m][k] = stdin'[m][i]
      <3>1. \A x \in DOMAIN stdin[m] : \E k \in DOMAIN Stdin[m] : Stdin[m][k] = stdin[m][x]
        BY <1>2 DEF Typed
      <3>. QED
        BY <2>1, <3>1
    <2>3. ASSUME stdin'[m][i].verb = "sign", NEW q \in Party, NEW k \in DOMAIN stdin'[q],
                 stdin'[q][k].verb = "sign", stdin'[q][k].job = stdin'[m][i].job
          PROVE  q = m /\ k = i
      <3>1. at(q, k) \in DOMAIN stdin[q] /\ stdin'[q][k] = stdin[q][at(q, k)]
        BY <1>5
      <3>2. q = m /\ at(q, k) = at(m, i)
        BY <1>2, <2>1, <2>3, <3>1 DEF Typed
      <3>. QED
        BY <1>6, <3>2
    <2>. QED
      BY <2>2, <2>3
  <1>8. CASE line.verb # "sign"
    <2>1. published' = published /\ sessions' = sessions
      BY <1>1, <1>8
    <2>2. Typed'
      <3>1. ASSUME NEW m \in Party, NEW i \in DOMAIN stdin'[m], stdin'[m][i].verb = "sign",
                   NEW call \in published'
            PROVE  call.job # stdin'[m][i].job
        BY <1>2, <1>5, <2>1, <3>1 DEF Typed
      <3>. QED
        BY <1>7, <3>1
    <2>3. Commands'
      BY <1>2, <2>1 DEF Commands, StartedAt
    <2>4. \A m \in Party : Answers(m)'
      BY <1>1, <1>2, <2>1 DEF Answers, StartedAt
    <2>. QED
      BY <1>1, <1>2, <1>4, <2>1, <2>2, <2>3, <2>4 DEF CallTypes, CallInv, AllOrdered
  <1>9. CASE line.verb = "sign"
    <2>1. line.job \in Job
      BY <1>3, <1>9 DEF Line
    <2>2. PICK j \in Job : j = line.job
      BY <2>1
    <2> DEFINE new == [job |-> j, from |-> n]
    <2>3. published' = published \cup {new} /\ HandleSign(n, j)
      BY <1>1, <1>9, <2>2
    <2>4. /\ \A call \in published : call.job # j
          /\ TypedAt(n, j)
          /\ \A q \in Party : \A k \in DOMAIN stdin[q] :
               stdin[q][k].verb = "sign" /\ stdin[q][k].job = j => q = n /\ k = 1
      <3>1. stdin[n][1] = line /\ 1 \in DOMAIN stdin[n]
        BY <1>3 DEF s
      <3>2. PICK k \in DOMAIN Stdin[n] : Stdin[n][k] = line
        <4>1. \A i \in DOMAIN stdin[n] : \E k \in DOMAIN Stdin[n] : Stdin[n][k] = stdin[n][i]
          BY <1>2 DEF Typed
        <4>. QED
          BY <3>1, <4>1
      <3>3. TypedAt(n, j)
        BY <1>9, <2>2, <3>2 DEF TypedAt
      <3>4. \A call \in published : call.job # j
        BY <1>2, <1>9, <2>2, <3>1 DEF Typed
      <3>5. \A q \in Party : \A i \in DOMAIN stdin[q] :
              stdin[q][i].verb = "sign" /\ stdin[q][i].job = j => q = n /\ i = 1
        BY <1>2, <1>9, <2>2, <3>1 DEF Typed
      <3>. QED
        BY <3>3, <3>4, <3>5
    <2>5. /\ sessions' \in [Party -> Seq(SessionsOf)]
          /\ \A m \in Party \ {n} : sessions'[m] = sessions[m]
          /\ \A k \in DOMAIN sessions'[n] : Ordered(sessions'[n][k], n)
          /\ \A m \in Party : \A i : StartedAt(m, i)' <=> StartedAt(m, i) \/ (m = n /\ i = j)
      BY <2>3, StartsOne
    <2>6. Typed'
      <3>1. ASSUME NEW m \in Party, NEW i \in DOMAIN stdin'[m], stdin'[m][i].verb = "sign",
                   NEW call \in published'
            PROVE  call.job # stdin'[m][i].job
        <4>1. /\ at(m, i) \in DOMAIN stdin[m] /\ stdin'[m][i] = stdin[m][at(m, i)]
              /\ m = n => at(m, i) # 1
          BY <1>5
        <4>2. CASE call \in published
          BY <1>2, <3>1, <4>1, <4>2 DEF Typed
        <4>3. CASE call = new
          BY <2>4, <3>1, <4>1, <4>3
        <4>. QED
          BY <2>3, <4>2, <4>3
      <3>. QED
        BY <1>7, <3>1
    <2>7. Commands'
      <3>1. ASSUME NEW call \in published
            PROVE  TypedAt(call.from, call.job) /\ StartedAt(call.from, call.job)'
        <4>1. TypedAt(call.from, call.job) /\ StartedAt(call.from, call.job)
          BY <1>2 DEF Commands
        <4>2. call.from \in Party
          BY <1>2
        <4>. QED
          BY <2>5, <4>1, <4>2
      <3>2. TypedAt(new.from, new.job) /\ StartedAt(new.from, new.job)'
        BY <2>4, <2>5
      <3>. QED
        BY <2>3, <3>1, <3>2 DEF Commands, TypedAt
    <2>8. ~StartedAt(n, j)
      BY <1>2, <2>4 DEF StartedAt, Answers
    <2>9. j \notin Elements(rx_inter[n].unread)
      <3>1. heard[n] \subseteq published
        BY <1>2
      <3>2. \A k \in DOMAIN rx_inter[n].unread : rx_inter[n].unread[k] # j
        BY <1>2, <2>4, <3>1 DEF Answers
      <3>. QED
        BY <3>2 DEF Elements
    <2>10. ASSUME NEW m \in Party PROVE Answers(m)'
      <3>1. \E call \in published' : call.job = j /\ (call.from = n \/ call \in heard[n])
        <4>1. new \in published' /\ new.job = j /\ new.from = n
          BY <2>3
        <4>. QED
          BY <4>1
      <3>2. IsInjective(rx_inter[n].unread)
        BY <1>2 DEF Answers
      <3>. QED
        BY <1>1, <2>3, <2>8, <2>9, <3>1, <3>2, NewAnswer
    <2>11. AllOrdered'
      BY <1>2, <2>5 DEF AllOrdered
    <2>12. heard' \in [Party -> SUBSET published']
      BY <1>1, <1>2, <2>3
    <2>. QED
      BY <1>1, <1>2, <1>4, <2>3, <2>5, <2>6, <2>7, <2>10, <2>11, <2>12
         DEF CallTypes, CallInv
  <1>. QED
    BY <1>8, <1>9

\* A call from rx_inter: nothing has answered it here.
LEMMA TakesKeeps ==
    ASSUME IInv, NEW n \in Party, Takes(n)
    PROVE  CallTypes' /\ CallInv' /\ AllOrdered'
  <1> DEFINE u == rx_inter[n].unread
  <1>1. /\ u # << >> /\ rx_inter' = [rx_inter EXCEPT ![n] = Recv(@)]
        /\ HandleSign(n, Head(u)) /\ stdin' = stdin /\ published' = published
        /\ heard' = heard /\ rx_party' = rx_party
    BY DEF Takes, CallPeers
  <1>2. CallTypes /\ CallInv /\ AllOrdered
    BY DEF IInv, Types, Channel, CallTypes, CallInv, AllOrdered
  <1>3. /\ Answers(n) /\ u \in Seq(Job) /\ rx_inter[n] \in Channel(Job)
        /\ heard[n] \subseteq published /\ published \subseteq [job : Job, from : Party]
    BY <1>2 DEF CallTypes, CallInv, Channel
  <1>4. /\ Head(u) \in Job /\ Head(u) \in Elements(u) /\ Tail(u) \in Seq(Job)
        /\ Elements(Tail(u)) \subseteq Elements(u)
        /\ IsInjective(u) => IsInjective(Tail(u)) /\ Head(u) \notin Elements(Tail(u))
    <2> HIDE DEF u
    <2>. QED
      BY <1>1, <1>3, TailKeeps
  <1>5. PICK j \in Job : j = Head(u)
    BY <1>4
  <1>6. /\ rx_inter' \in [Party -> Channel(Job)] /\ rx_inter'[n].unread = Tail(u)
        /\ \A m \in Party \ {n} : rx_inter'[m] = rx_inter[m]
    <2>1. Recv(rx_inter[n]) \in Channel(Job) /\ Recv(rx_inter[n]).unread = Tail(u)
      BY <1>3, <1>4 DEF Recv, Channel
    <2>2. rx_inter' = [rx_inter EXCEPT ![n] = Recv(rx_inter[n])]
          /\ rx_inter \in [Party -> Channel(Job)]
      BY <1>1, <1>2 DEF CallTypes
    <2>. QED
      BY <2>1, <2>2
  <1>7. PICK k \in DOMAIN u : u[k] = j
    BY <1>4, <1>5 DEF Elements
  <1>8. /\ \E call \in heard[n] : call.job = j
        /\ ~StartedAt(n, j)
    BY <1>3, <1>7 DEF Answers
  <1>9. IsInjective(u)
    BY <1>3 DEF Answers
  <1> HIDE DEF u
  <1>10. HandleSign(n, j)
    BY <1>1, <1>5
  <1>11. /\ sessions' \in [Party -> Seq(SessionsOf)]
         /\ \A m \in Party \ {n} : sessions'[m] = sessions[m]
         /\ \A i \in DOMAIN sessions'[n] : Ordered(sessions'[n][i], n)
         /\ \A m \in Party : \A i : StartedAt(m, i)' <=> StartedAt(m, i) \/ (m = n /\ i = j)
    BY <1>10, StartsOne
  <1>12. ASSUME NEW m \in Party PROVE Answers(m)'
    <2>1. \E call \in published' : call.job = j /\ (call.from = n \/ call \in heard[n])
      BY <1>1, <1>3, <1>8
    <2>2. published \subseteq published'
      BY <1>1
    <2>3. /\ IsInjective(rx_inter'[n].unread)
          /\ Elements(rx_inter'[n].unread) \subseteq Elements(rx_inter[n].unread)
          /\ j \notin Elements(rx_inter'[n].unread)
      BY <1>4, <1>5, <1>6, <1>9 DEF u
    <2>. QED
      BY <1>1, <1>6, <1>8, <1>10, <2>1, <2>2, <2>3, NewAnswer
  <1>13. Commands'
    <2>1. ASSUME NEW call \in published PROVE StartedAt(call.from, call.job)'
      <3>1. StartedAt(call.from, call.job) /\ call.from \in Party
        BY <1>2, <1>3 DEF CallInv, Commands
      <3>. QED
        BY <1>11, <3>1
    <2>. QED
      BY <1>1, <1>2, <2>1 DEF CallInv, Commands, TypedAt
  <1>14. Typed'
    BY <1>1, <1>2 DEF CallInv, Typed
  <1>15. AllOrdered'
    BY <1>2, <1>11 DEF AllOrdered
  <1>16. CallTypes'
    BY <1>1, <1>2, <1>6, <1>11 DEF CallTypes
  <1>. QED
    BY <1>12, <1>13, <1>14, <1>15, <1>16 DEF CallInv

\* A call reaches a node, which has not heard of its job.
LEMMA FloodKeeps ==
    ASSUME IInv, NEW q \in Party, NEW call \in published, Flood(q, call)
    PROVE  CallTypes' /\ CallInv' /\ AllOrdered'
  <1>1. /\ q # call.from /\ call \notin heard[q]
        /\ heard' = [heard EXCEPT ![q] = @ \cup {call}]
        /\ rx_inter' = [rx_inter EXCEPT ![q] = Send(@, call.job)]
        /\ stdin' = stdin /\ published' = published /\ rx_party' = rx_party
        /\ sessions' = sessions
    BY DEF Flood
  <1>2. CallTypes /\ CallInv /\ AllOrdered /\ Types /\ Commands
    BY DEF IInv, Types, Channel, CallTypes, CallInv, AllOrdered
  <1>3. /\ Answers(q) /\ rx_inter[q] \in Channel(Job) /\ heard[q] \subseteq published
        /\ call.job \in Job
        /\ heard \in [Party -> SUBSET published] /\ rx_inter \in [Party -> Channel(Job)]
    BY <1>2 DEF CallTypes, CallInv
  \* Nothing of this job has been heard or started here.
  <1>4. \A x \in heard[q] : x.job # call.job
    BY <1>1, <1>2, <1>3, OneCall
  <1>5. ~StartedAt(q, call.job)
    <2> SUFFICES ASSUME NEW k \in DOMAIN sessions[q], sessions[q][k].job = call.job
                 PROVE  FALSE
      BY DEF StartedAt
    <2>1. PICK x \in published :
            x.job = sessions[q][k].job /\ (x.from = q \/ x \in heard[q])
      BY <1>3 DEF Answers
    <2>2. x = call
      BY <1>2, <2>1, OneCall
    <2>. QED
      BY <1>1, <2>1, <2>2
  <1>6. call.job \notin Elements(rx_inter[q].unread)
    <2>1. \A k \in DOMAIN rx_inter[q].unread : rx_inter[q].unread[k] # call.job
      BY <1>3, <1>4 DEF Answers
    <2>. QED
      BY <2>1 DEF Elements
  <1> DEFINE ch == Send(rx_inter[q], call.job)
  <1>7. /\ ch \in Channel(Job) /\ IsInjective(ch.unread)
        /\ Elements(ch.unread) \subseteq Elements(rx_inter[q].unread) \cup {call.job}
    <2>1. IsInjective(rx_inter[q].unread)
      BY <1>3 DEF Answers
    <2>. QED
      BY <1>3, <1>6, <2>1, SendKeeps
  <1>8. rx_inter'[q] = ch /\ rx_inter' \in [Party -> Channel(Job)]
    BY <1>1, <1>3, <1>7
  <1> HIDE DEF ch
  <1>9. /\ heard'[q] = heard[q] \cup {call} /\ heard' \in [Party -> SUBSET published']
        /\ \A m \in Party \ {q} : heard'[m] = heard[m] /\ rx_inter'[m] = rx_inter[m]
    BY <1>1, <1>3
  <1>10. ASSUME NEW m \in Party PROVE Answers(m)'
    <2>1. CASE m # q
      <3>1. Answers(m)
        BY <1>2 DEF CallInv
      <3>. QED
        BY <1>1, <1>9, <2>1, <3>1, SameAnswers
    <2>2. CASE m = q
      <3>1. ASSUME NEW k \in DOMAIN ch.unread
            PROVE  /\ \E x \in heard'[q] : x.job = ch.unread[k]
                   /\ \A l \in DOMAIN sessions[q] : sessions[q][l].job # ch.unread[k]
        <4>1. PICK y \in Elements(ch.unread) : y = ch.unread[k]
          BY DEF Elements
        <4>2. CASE y = call.job
          BY <1>5, <1>9, <4>1, <4>2 DEF StartedAt
        <4>3. CASE y # call.job
          <5>1. PICK i \in DOMAIN rx_inter[q].unread : rx_inter[q].unread[i] = y
            BY <1>7, <4>3 DEF Elements
          <5>2. (\E x \in heard[q] : x.job = y) /\ ~StartedAt(q, y)
            BY <1>3, <5>1 DEF Answers
          <5>. QED
            BY <1>9, <4>1, <5>2 DEF StartedAt
        <4>. QED
          BY <4>2, <4>3
      <3>2. \A k \in DOMAIN sessions[q] : \E x \in published :
              x.job = sessions[q][k].job /\ (x.from = q \/ x \in heard'[q])
        BY <1>3, <1>9 DEF Answers
      <3>3. \A k, l \in DOMAIN sessions[q] : sessions[q][k].job = sessions[q][l].job => k = l
        BY <1>3 DEF Answers
      <3>. QED
        BY <1>1, <1>7, <1>8, <2>2, <3>1, <3>2, <3>3 DEF Answers, StartedAt
    <2>. QED
      BY <2>1, <2>2
  <1>11. Typed' /\ Commands' /\ AllOrdered'
    BY <1>1, <1>2 DEF CallInv, Typed, Commands, TypedAt, StartedAt, AllOrdered
  <1>12. CallTypes'
    BY <1>1, <1>2, <1>8, <1>9 DEF CallTypes
  <1>. QED
    BY <1>10, <1>11, <1>12 DEF CallInv

\* Messages of sessions change neither commands nor calls.
LEMMA PartyKeeps ==
    ASSUME IInv,
           \/ \E n \in Party : Passes(n)
           \/ \E n \in Party : \E k \in DOMAIN sessions[n] : SessionSends(n, k)
    PROVE  CallTypes' /\ CallInv' /\ AllOrdered'
  <1>1. CallTypes /\ CallInv /\ AllOrdered
    BY DEF IInv, Types, Channel, CallTypes, CallInv, AllOrdered
  <1>2. ASSUME stdin' = stdin, published' = published, heard' = heard, rx_inter' = rx_inter,
               rx_party' \in [Party -> Channel(Job)],
               sessions' \in [Party -> Seq(SessionsOf)],
               \A m \in Party : DOMAIN sessions'[m] = DOMAIN sessions[m],
               \A m \in Party : \A k \in DOMAIN sessions[m] :
                  sessions'[m][k].job = sessions[m][k].job /\ Ordered(sessions'[m][k], m)
        PROVE  CallTypes' /\ CallInv' /\ AllOrdered'
    <2>1. ASSUME NEW m \in Party
          PROVE  Answers(m)' /\ \A j : StartedAt(m, j)' <=> StartedAt(m, j)
      <3>1. Answers(m)
        BY <1>1 DEF CallInv
      <3>. QED
        BY <1>2, <3>1, SameAnswers
    <2>2. Commands'
      <3>1. ASSUME NEW call \in published PROVE StartedAt(call.from, call.job)'
        <4>1. StartedAt(call.from, call.job) /\ call.from \in Party
          BY <1>1 DEF CallTypes, CallInv, Commands
        <4>. QED
          BY <2>1, <4>1
      <3>. QED
        BY <1>1, <1>2, <3>1 DEF CallInv, Commands, TypedAt
    <2>3. Typed'
      BY <1>1, <1>2 DEF CallInv, Typed
    <2>4. CallTypes' /\ AllOrdered'
      BY <1>1, <1>2 DEF CallTypes, AllOrdered
    <2>. QED
      BY <2>1, <2>2, <2>3, <2>4 DEF CallInv
  <1>3. ASSUME NEW n \in Party, Passes(n) PROVE CallTypes' /\ CallInv' /\ AllOrdered'
    <2>1. /\ stdin' = stdin /\ published' = published /\ heard' = heard /\ rx_inter' = rx_inter
          /\ sessions' = sessions /\ rx_party[n].unread # << >>
          /\ rx_party' = [rx_party EXCEPT ![n] = Recv(@)]
      BY <1>3 DEF Passes, AsyncResponse
    <2>2. Recv(rx_party[n]) \in Channel(Job)
      <3>1. rx_party[n] \in Channel(Job) /\ rx_party[n].unread \in Seq(Job)
        BY <1>1 DEF CallTypes, Channel
      <3>2. Tail(rx_party[n].unread) \in Seq(Job)
        BY <2>1, <3>1, TailKeeps
      <3>. QED
        BY <3>1, <3>2 DEF Recv, Channel
    <2>3. rx_party' \in [Party -> Channel(Job)]
      BY <1>1, <2>1, <2>2 DEF CallTypes
    <2>4. sessions' \in [Party -> Seq(SessionsOf)]
      BY <1>1, <2>1 DEF CallTypes
    <2>5. \A m \in Party : \A k \in DOMAIN sessions[m] : Ordered(sessions'[m][k], m)
      BY <1>1, <2>1 DEF AllOrdered
    <2>. QED
      BY <1>2, <2>1, <2>3, <2>4, <2>5
  <1>4. ASSUME NEW n \in Party, NEW k \in DOMAIN sessions[n], SessionSends(n, k)
        PROVE  CallTypes' /\ CallInv' /\ AllOrdered'
    <2>1. /\ stdin' = stdin /\ published' = published /\ heard' = heard /\ rx_inter' = rx_inter
          /\ rx_party' = [rx_party EXCEPT ![n] = Send(@, sessions[n][k].job)]
      BY <1>4 DEF SessionSends
    <2>2. /\ sessions' \in [Party -> Seq(SessionsOf)]
          /\ \A m \in Party : DOMAIN sessions'[m] = DOMAIN sessions[m]
          /\ \A m \in Party : \A l \in DOMAIN sessions[m] :
                sessions'[m][l].job = sessions[m][l].job /\ Ordered(sessions'[m][l], m)
          /\ sessions[n][k].job \in Job
      BY <1>4, SendsOne DEF SessionsOf
    <2>3. Send(rx_party[n], sessions[n][k].job) \in Channel(Job)
      <3>1. rx_party[n] \in Channel(Job)
        BY <1>1 DEF CallTypes
      <3>. QED
        BY <2>2, <3>1, SendKeeps
    <2>4. rx_party' \in [Party -> Channel(Job)]
      BY <1>1, <2>1, <2>3 DEF CallTypes
    <2>. QED
      BY <1>2, <2>1, <2>2, <2>4
  <1>. QED
    BY <1>3, <1>4

-----------------------------------------------------------------------------
(* The invariant is inductive.                                             *)
Downs == {None, "position", "strip_prefix", "stdin", "rx_inter", "rx_party"}
NetTypes ==
    /\ conns \subseteq Pairs
    /\ events \in [Party -> Seq(Event)]
    /\ open \in [Party -> SUBSET Pairs]
    /\ peer_ids \in [Party -> Seq(Party)] /\ parties = peer_ids
    /\ down \in [Party -> Downs]

\* The parts of the invariant that belong together.
LEMMA IsIInv == IInv <=> CallTypes /\ NetTypes /\ CallInv /\ AllOrdered
                         /\ \A n \in Party : Lists(n)
  BY DEF IInv, Types, CallTypes, NetTypes, CallInv, AllOrdered, Channel, Downs

\* What Report leaves are events.
LEMMA ReportTyped ==
    ASSUME NEW evs \in [Party -> Seq(Event)], NEW kind \in {"Established", "Closed"},
           NEW cs, cs \subseteq Pairs
    PROVE  Report(evs, kind, cs) \in [Party -> Seq(Event)]
  <1> DEFINE new == Report(evs, kind, cs)
  <1>1. ASSUME NEW n \in Party PROVE new[n] \in Seq(Event)
    <2>1. Adds(evs[n], new[n], kind, cs, n)
      BY ReportAdds
    <2> HIDE DEF new
    <2>2. PICK r \in Seq(Event) : new[n] = evs[n] \o r
      BY <2>1 DEF Adds
    <2>. QED
      BY <2>2
  <1>2. new = [n \in Party |-> new[n]]
    BY DEF Report
  <1> HIDE DEF new
  <1>3. new \in [Party -> Seq(Event)]
    BY <1>1, <1>2
  <1>. QED
    BY <1>3 DEF new

\* A step of the network keeps the types of the network.
LEMMA WiringTyped ==
    ASSUME IInv, Wiring
    PROVE  NetTypes'
  <1>1. NetTypes
    BY IsIInv
  <1>2. ASSUME NEW n \in Party, SwarmEvent(n) PROVE NetTypes'
    <2>1. \A m \in Party : /\ peer_ids'[m] \in Seq(Party) /\ parties' = peer_ids'
                           /\ events'[m] \in Seq(Event) /\ open'[m] \in SUBSET Pairs
      BY <1>2, EventKeepsLists
    <2>2. /\ conns' = conns /\ down' = down
          /\ \E x : events' = [events EXCEPT ![n] = x]
          /\ \E x : open' = [open EXCEPT ![n] = x]
          /\ \E x : peer_ids' = [peer_ids EXCEPT ![n] = x]
      <3>1. CASE ConnectionEstablished(n)
        BY <3>1 DEF ConnectionEstablished
      <3>2. CASE ConnectionClosed(n)
        BY <3>2, ClosedIsListed
      <3>. QED
        BY <1>2, <3>1, <3>2 DEF SwarmEvent
    <2>3. /\ events' = [m \in Party |-> events'[m]]
          /\ open' = [m \in Party |-> open'[m]]
          /\ peer_ids' = [m \in Party |-> peer_ids'[m]]
      BY <1>1, <2>2 DEF NetTypes
    <2>. QED
      BY <1>1, <2>1, <2>2, <2>3 DEF NetTypes
  <1>3. ASSUME NEW n \in Party, NEW why \in Reasons, Panics(n, why) PROVE NetTypes'
    <2> DEFINE cs == {c \in conns : n \in {c[1], c[2]}}
               new == Report(events, "Closed", cs)
    <2>1. /\ conns' = conns \ cs /\ events' = [new EXCEPT ![n] = << >>]
          /\ down' = [down EXCEPT ![n] = why]
          /\ open' = open /\ peer_ids' = peer_ids /\ parties' = parties
      BY <1>3 DEF Panics, Panic, membership
    <2>2. cs \subseteq Pairs
      BY <1>1 DEF NetTypes
    <2> HIDE DEF cs
    <2>3. new \in [Party -> Seq(Event)]
      BY <1>1, <2>2, ReportTyped DEF NetTypes
    <2> HIDE DEF new
    <2>. QED
      BY <1>1, <2>1, <2>2, <2>3 DEF NetTypes, Downs, Reasons
  <1>4. ASSUME NEW d \in Party, NEW l \in Party, Dial(d, l) PROVE NetTypes'
    <2>1. /\ <<d, l>> \in Pairs /\ conns' = conns \cup {<<d, l>>}
          /\ events' = Report(events, "Established", {<<d, l>>})
          /\ open' = open /\ peer_ids' = peer_ids /\ parties' = parties /\ down' = down
      BY <1>4 DEF Dial, membership, Pairs
    <2>2. events' \in [Party -> Seq(Event)]
      BY <1>1, <2>1, ReportTyped DEF NetTypes
    <2>. QED
      BY <1>1, <2>1, <2>2 DEF NetTypes
  <1>5. ASSUME NEW c \in conns, Lose(c) PROVE NetTypes'
    <2>1. /\ {c} \subseteq Pairs /\ conns' = conns \ {c}
          /\ events' = Report(events, "Closed", {c})
          /\ open' = open /\ peer_ids' = peer_ids /\ parties' = parties /\ down' = down
      BY <1>1, <1>5 DEF Lose, membership, NetTypes
    <2>2. events' \in [Party -> Seq(Event)]
      BY <1>1, <2>1, ReportTyped DEF NetTypes
    <2>. QED
      BY <1>1, <2>1, <2>2 DEF NetTypes
  <1>. QED
    BY <1>2, <1>3, <1>4, <1>5 DEF Wiring

\* The invariant holds at first.
LEMMA Start == Init => IInv
  <1> SUFFICES ASSUME Init PROVE IInv
    OBVIOUS
  <1>1. CallTypes
    <2>1. Empty \in Channel(Job)
      BY DEF Empty, Channel
    <2>. QED
      BY <2>1, NodeAssumption DEF Init, CallTypes
  <1>2. NetTypes
    BY DEF Init, NetTypes, Downs
  <1>3. CallInv
    <2>1. Typed
      BY NodeAssumption DEF Init, Typed
    <2>2. Commands
      BY DEF Init, Commands
    <2>3. \A n \in Party : Answers(n)
      BY DEF Init, Answers, Empty, IsInjective
    <2>. QED
      BY <2>1, <2>2, <2>3 DEF CallInv
  <1>4. AllOrdered
    BY DEF Init, AllOrdered
  <1>5. ASSUME NEW n \in Party PROVE Lists(n)
    <2>1. /\ peer_ids[n] = << >> /\ events[n] = << >> /\ open[n] = {} /\ conns = {}
      BY DEF Init
    <2>2. DOMAIN << >> = {}
      OBVIOUS
    <2>3. Elements(peer_ids[n]) = {}
      BY <2>1, <2>2 DEF Elements
    <2>4. \A k, c : ~Pending(events[n], k, c)
      BY <2>1, <2>2 DEF Pending
    <2>5. IsInjective(peer_ids[n]) /\ InTurn(events[n], n)
      BY <2>1, <2>2 DEF IsInjective, InTurn
    <2>. QED
      BY <2>1, <2>3, <2>4, <2>5 DEF Lists, Link, Listed
  <1>. QED
    BY <1>1, <1>2, <1>3, <1>4, <1>5, IsIInv

\* Every step keeps the invariant.
LEMMA Step == IInv /\ [Next]_vars => IInv'
  <1> SUFFICES ASSUME IInv, [Next]_vars PROVE IInv'
    OBVIOUS
  <1>1. CallTypes /\ NetTypes /\ CallInv /\ AllOrdered /\ \A n \in Party : Lists(n)
    BY IsIInv
  <1>0. CallTypes' /\ NetTypes' /\ CallInv' /\ AllOrdered' /\ (\A n \in Party : Lists(n)')
          => IInv'
    BY DEF IInv, Types, CallTypes, NetTypes, CallInv, AllOrdered, Channel, Downs
  <1>2. CASE Wiring
    <2>1. UNCHANGED <<stdin, published, heard, channels, sessions>>
      BY <1>2, Apart
    <2>2. CallTypes' /\ AllOrdered'
      BY <1>1, <2>1 DEF CallTypes, AllOrdered, channels
    <2>3. CallInv'
      BY <1>1, <2>1 DEF CallInv, Typed, Commands, TypedAt, StartedAt, Answers, channels
    <2>4. NetTypes'
      BY <1>2, WiringTyped
    <2>5. \A n \in Party : Lists(n)'
      BY <1>2, WiringKeepsLists
    <2>. QED
      BY <1>0, <2>2, <2>3, <2>4, <2>5
  <1>3. CASE Calling
    <2>1. UNCHANGED <<network, membership, down>>
      BY <1>3, Apart
    <2>2. CallTypes' /\ CallInv' /\ AllOrdered'
      BY <1>3, ReadsKeeps, TakesKeeps, FloodKeeps, PartyKeeps DEF Calling
    <2>3. NetTypes'
      BY <1>1, <2>1 DEF NetTypes, network, membership
    <2>4. \A n \in Party : Lists(n)'
      BY <1>1, <2>1 DEF Lists, Link, Listed, Up, network, membership
    <2>. QED
      BY <1>0, <2>2, <2>3, <2>4
  <1>4. CASE UNCHANGED vars
    BY <1>4 DEF vars, network, membership, channels, IInv, Types, Typed, Commands, TypedAt,
                StartedAt, Lists, Listed, Link, Up, Answers
  <1>. QED
    BY <1>2, <1>3, <1>4, WhichStep

\* In every reachable state the lists follow the events, and the calls the
\* commands.
THEOREM Inductive == Spec => []IInv
  BY Start, Step, PTL DEF Spec

-----------------------------------------------------------------------------
(* What follows from the invariant.                                        *)

\* Whenever a node has handled all events of its swarm, it lists the peers it
\* has dialed and is connected to, each once: no dial of both ends at the same
\* time and no connection that broke leaves a peer behind or out.
THEOREM MembersAreTheDialed == Spec => []ListsWhomItDialed
  <1>1. IInv => ListsWhomItDialed
    <2> SUFFICES ASSUME IInv, NEW n \in Up, events[n] = << >>
                 PROVE  /\ IsInjective(peer_ids[n])
                        /\ Elements(peer_ids[n]) = {q \in Party : <<n, q>> \in conns}
                        /\ parties[n] = peer_ids[n]
      BY DEF ListsWhomItDialed
    <2>1. /\ n \in Party /\ Lists(n) /\ parties = peer_ids /\ conns \subseteq Pairs
          /\ peer_ids[n] \in Seq(Party)
      BY DEF IInv, Types, Up
    <2>2. \A k, c : ~Pending(events[n], k, c)
      BY DEF Pending
    <2>3. \A q \in Party \ {n} : <<n, q>> \in conns <=> Listed(n, q)
      BY <2>1, <2>2 DEF Lists, Link
    <2>4. <<n, n>> \notin conns /\ ~Listed(n, n)
      BY <2>1 DEF Pairs, Lists
    <2>5. \A q \in Elements(peer_ids[n]) : q \in Party
      <3>1. \A i \in DOMAIN peer_ids[n] : peer_ids[n][i] \in Party
        BY <2>1
      <3>. QED
        BY <3>1 DEF Elements
    <2>. QED
      BY <2>1, <2>3, <2>4, <2>5 DEF Lists, Listed
  <1>. QED
    BY <1>1, Inductive, PTL

\* No session counts a signer twice, and its node is where party_i says.
THEOREM SignersAreCountedOnce == Spec => []NobodyTwice
  <1>1. IInv => NobodyTwice
    <2> SUFFICES ASSUME IInv, NEW n \in Party, NEW k \in DOMAIN sessions[n]
                 PROVE  LET m == sessions[n][k].members IN
                        /\ \A i \in 2..Len(m) : m[i - 1] < m[i]
                        /\ m[sessions[n][k].party_i] = n
      BY DEF NobodyTwice
    <2> DEFINE m == sessions[n][k].members
    <2>1. sessions[n][k] \in SessionsOf /\ Ordered(sessions[n][k], n)
      BY DEF IInv, Types
    <2>2. Increasing(m) /\ m \in Seq(Party) /\ m[sessions[n][k].party_i] = n
      BY <2>1 DEF Ordered, SessionsOf
    <2> HIDE DEF m
    <2>3. \A i \in 2..Len(m) : i - 1 \in DOMAIN m /\ i \in DOMAIN m /\ i - 1 < i
      BY <2>2
    <2>4. \A i \in 2..Len(m) : m[i - 1] < m[i]
      BY <2>2, <2>3 DEF Increasing
    <2>. QED
      BY <2>2, <2>4 DEF m
  <1>. QED
    BY <1>1, Inductive, PTL

\* The index of a signer depends on who signs, not on how the connections came
\* about.
THEOREM IndicesAgree == Spec => []SameSignersSameOrder
  <1>1. IInv => SameSignersSameOrder
    <2> SUFFICES ASSUME IInv, NEW n \in Party, NEW q \in Party,
                        NEW k \in DOMAIN sessions[n], NEW l \in DOMAIN sessions[q],
                        Elements(sessions[n][k].members) = Elements(sessions[q][l].members)
                 PROVE  /\ sessions[n][k].members = sessions[q][l].members
                        /\ sessions[n][k].party_i = sessions[q][l].party_i => n = q
      BY DEF SameSignersSameOrder
    <2> DEFINE s == sessions[n][k]
               t == sessions[q][l]
    <2>1. s \in SessionsOf /\ t \in SessionsOf /\ Ordered(s, n) /\ Ordered(t, q)
      BY DEF IInv, Types
    <2> HIDE DEF s, t
    <2>2. Party \subseteq Nat
      BY NodeAssumption DEF Party
    <2>3. s.members \in Seq(Nat) /\ t.members \in Seq(Nat)
      BY <2>1, <2>2, SeqMonotonic DEF SessionsOf
    <2>4. Elements(s.members) = Elements(t.members)
      BY DEF s, t
    <2>5. s.members = t.members
      BY <2>1, <2>3, <2>4, OneOrder DEF Ordered
    <2>6. s.party_i = t.party_i => n = q
      BY <2>1, <2>5 DEF Ordered
    <2>. QED
      BY <2>5, <2>6 DEF s, t
  <1>. QED
    BY <1>1, Inductive, PTL
-----------------------------------------------------------------------------
(* What is signed (module MusigMessage).                                   *)

\* What is signed for any command has the full width, byte for byte.
THEOREM FullWidth ==
    ASSUME NEW S, S \subseteq Nat, 0 \in S, NEW msg \in Seq(S)
    PROVE  format_musig_msg(msg) \in [1..Width -> S]
<1> Width \in Nat /\ Len(msg) \in Nat
  BY WidthAssumption
<1>1. CASE Len(msg) < Width
  <2>1. ASSUME NEW i \in 1..Width, ~(i <= Width - Len(msg))
        PROVE  msg[i - (Width - Len(msg))] \in S
    <3>1. i - (Width - Len(msg)) \in 1..Len(msg)
      BY <1>1, <2>1
    <3> QED  BY <3>1
  <2> QED  BY <1>1, <2>1 DEF format_musig_msg, Padded
<1>2. CASE ~(Len(msg) < Width)
  <2>1. format_musig_msg(msg) = [i \in 1..Width |-> msg[i]]
    BY <1>2 DEF format_musig_msg
  <2> QED  BY <1>2, <2>1
<1> QED  BY <1>1, <1>2

\* Two commands of at least the width of a message sign the same bytes exactly
\* when they begin with the same Width bytes: what comes behind is not signed.
THEOREM OnlyTheFirstBytes ==
    ASSUME NEW a \in Seq(Nat), NEW b \in Seq(Nat),
           Len(a) >= Width, Len(b) >= Width
    PROVE  format_musig_msg(a) = format_musig_msg(b)
             <=> \A i \in 1..Width : a[i] = b[i]
<1> Width \in Nat /\ Len(a) \in Nat /\ Len(b) \in Nat
  BY WidthAssumption
<1>1. /\ format_musig_msg(a) = [i \in 1..Width |-> a[i]]
      /\ format_musig_msg(b) = [i \in 1..Width |-> b[i]]
  BY DEF format_musig_msg
<1> QED  BY <1>1

\* A shorter command signs the same bytes as one of at most the width exactly
\* when that one is it with zeros in front: the length is not signed.
THEOREM ZerosInFront ==
    ASSUME NEW a \in Seq(Nat), NEW b \in Seq(Nat),
           Len(a) <= Len(b), Len(b) <= Width
    PROVE  format_musig_msg(a) = format_musig_msg(b)
             <=> \A i \in 1..Len(b) :
                   b[i] = IF i <= Len(b) - Len(a) THEN 0
                          ELSE a[i - (Len(b) - Len(a))]
<1> DEFINE At(m, i) == IF i <= Width - Len(m) THEN 0 ELSE m[i - (Width - Len(m))]
           zeros == Width - Len(b)
<1> Width \in Nat /\ Len(a) \in Nat /\ Len(b) \in Nat
  BY WidthAssumption
<1>1. ASSUME NEW m \in Seq(Nat), Len(m) <= Width
      PROVE  format_musig_msg(m) = [i \in 1..Width |-> At(m, i)]
  <2> Len(m) \in Nat
    OBVIOUS
  <2>1. CASE Len(m) < Width
    BY <2>1 DEF format_musig_msg, Padded
  <2>2. CASE Len(m) = Width
    <3>1. format_musig_msg(m) = [i \in 1..Width |-> m[i]]
      BY <2>2 DEF format_musig_msg
    <3>2. \A i \in 1..Width : At(m, i) = m[i]
      BY <2>2
    <3> QED  BY <3>1, <3>2
  <2> QED  BY <1>1, <2>1, <2>2
<1>2. format_musig_msg(a) = format_musig_msg(b)
        <=> \A i \in 1..Width : At(a, i) = At(b, i)
  <2> HIDE DEF At
  <2> QED  BY <1>1
<1>3. \A i \in 1..zeros : At(a, i) = At(b, i)
  OBVIOUS
<1>4. ASSUME NEW i \in 1..Len(b)
      PROVE  /\ At(b, i + zeros) = b[i]
             /\ At(a, i + zeros) = IF i <= Len(b) - Len(a) THEN 0
                                   ELSE a[i - (Len(b) - Len(a))]
  OBVIOUS
<1>5. \A k \in 1..Width : k \in 1..zeros \/ (k - zeros \in 1..Len(b) /\ k = (k - zeros) + zeros)
  OBVIOUS
<1>6. \A i \in 1..Len(b) : i + zeros \in 1..Width
  OBVIOUS
<1>7. (\A k \in 1..Width : At(a, k) = At(b, k))
        <=> \A i \in 1..Len(b) : At(a, i + zeros) = At(b, i + zeros)
  <2> HIDE DEF At, zeros
  <2> QED  BY <1>3, <1>5, <1>6
<1> QED  BY <1>2, <1>4, <1>7


-----------------------------------------------------------------------------
(* Numbers.                                                                *)
Byte == 0..255

\* A set with 0 and the successors of its elements has all numbers up to n.
\* (It is finite, and counting on is injective and misses 0.)
LEMMA Upwards ==
    ASSUME NEW n \in Nat, NEW S, 0 \in S, \A k \in 1..n : k - 1 \in S => k \in S
    PROVE  \A k \in 0..n : k \in S
  <1> SUFFICES ASSUME NEW m \in 0..n, m \notin S PROVE FALSE
    OBVIOUS
  <1> DEFINE A == {k \in 0..m : k \in S}
             f == [k \in A |-> k + 1]
  <1>1. IsFiniteSet(A)
    <2>1. IsFiniteSet(0..m)
      BY FS_Interval
    <2>. QED
      BY <2>1, FS_Subset
  <1>2. f \in [A -> A]
    <2> SUFFICES ASSUME NEW k \in A PROVE k + 1 \in A
      OBVIOUS
    <2>1. k # m /\ k \in 0..m
      OBVIOUS
    <2>2. k + 1 \in 0..m /\ k + 1 \in 1..n /\ (k + 1) - 1 = k
      BY <2>1
    <2>. QED
      BY <2>1, <2>2
  <1>3. f \in Injection(A, A)
    <2>1. \A j, k \in A : f[j] = f[k] => j = k
      OBVIOUS
    <2> HIDE DEF f, A
    <2>. QED
      BY <1>2, <2>1 DEF Injection, IsInjective
  <1>4. f \in Surjection(A, A)
    <2> HIDE DEF f
    <2>. QED
      BY <1>1, <1>3, FS_Injection
  <1>5. PICK k \in A : f[k] = 0
    <2>1. 0 \in A
      OBVIOUS
    <2> HIDE DEF f, A
    <2>. QED
      BY <1>4, <2>1 DEF Surjection
  <1>. QED
    BY <1>5

\* p[k] is the number of the first k digits of t.
Digits(t, n, p) == p[0] = 0 /\ \A k \in 1..n : p[k] = p[k - 1] * 256 + t[k]

\* Every sequence of bytes has its numbers,
LEMMA DigitsExist ==
    ASSUME NEW n \in Nat, NEW t \in [1..n -> Byte]
    PROVE  \E p \in [0..n -> Nat] : Digits(t, n, p)
  <1> DEFINE S == {m \in 0..n : \E p \in [0..m -> Nat] : Digits(t, m, p)}
  <1>1. 0 \in S
    <2> DEFINE p == [k \in 0..0 |-> 0]
    <2>1. p \in [0..0 -> Nat] /\ p[0] = 0
      OBVIOUS
    <2> HIDE DEF p
    <2>2. Digits(t, 0, p)
      BY <2>1 DEF Digits
    <2>. QED
      BY <2>1, <2>2
  <1>2. ASSUME NEW m \in 1..n, m - 1 \in S PROVE m \in S
    <2>1. PICK p \in [0..(m - 1) -> Nat] : Digits(t, m - 1, p)
      BY <1>2
    <2> DEFINE q == [k \in 0..m |-> IF k = m THEN p[m - 1] * 256 + t[m] ELSE p[k]]
    <2>2. t[m] \in Nat /\ p[m - 1] \in Nat /\ m \in Nat
      <3>1. t[m] \in Byte /\ m \in Nat
        OBVIOUS
      <3>2. m - 1 \in 0..(m - 1)
        OBVIOUS
      <3>3. p[m - 1] \in Nat
        BY <3>2
      <3>4. \A x \in Byte : x \in Nat
        BY DEF Byte
      <3>. QED
        BY <3>1, <3>3, <3>4
    <2>3. q \in [0..m -> Nat]
      BY <2>2
    <2>4. q[0] = p[0] /\ \A k \in 1..(m - 1) : q[k] = p[k] /\ q[k - 1] = p[k - 1]
      BY <2>2
    <2>5. q[m] = p[m - 1] * 256 + t[m] /\ q[m - 1] = p[m - 1]
      BY <2>2
    <2> HIDE DEF q
    <2>6. Digits(t, m, q)
      <3>1. q[0] = 0
        BY <2>1, <2>4 DEF Digits
      <3>2. ASSUME NEW k \in 1..m PROVE q[k] = q[k - 1] * 256 + t[k]
        <4>1. CASE k = m
          BY <2>5, <4>1
        <4>2. CASE k # m
          <5>1. k \in 1..(m - 1)
            BY <4>2
          <5>. QED
            BY <2>1, <2>4, <5>1 DEF Digits
        <4>. QED
          BY <4>1, <4>2
      <3>. QED
        BY <3>1, <3>2 DEF Digits
    <2>. QED
      BY <2>3, <2>6
  <1>3. n \in S
    <2>1. n \in 0..n
      OBVIOUS
    <2> HIDE DEF S
    <2>. QED
      BY <1>1, <1>2, <2>1, Upwards
  <1>. QED
    BY <1>3

\* the same digits have the same number,
LEMMA OneNumber ==
    ASSUME NEW n \in Nat, NEW t, NEW p, NEW q, Digits(t, n, p), Digits(t, n, q)
    PROVE  p[n] = q[n]
  <1> DEFINE S == {k \in 0..n : p[k] = q[k]}
  <1>1. 0 \in S
    BY DEF Digits
  <1>2. ASSUME NEW k \in 1..n, k - 1 \in S PROVE k \in S
    BY <1>2 DEF Digits
  <1>3. n \in S
    <2>1. n \in 0..n
      OBVIOUS
    <2> HIDE DEF S
    <2>. QED
      BY <1>1, <1>2, <2>1, Upwards
  <1>. QED
    BY <1>3

\* and the same number, the same digits, if there are as many.
LEMMA SameDigits ==
    ASSUME NEW n \in Nat, NEW t \in [1..n -> Byte], NEW u \in [1..n -> Byte],
           NEW p \in [0..n -> Nat], NEW q \in [0..n -> Nat],
           Digits(t, n, p), Digits(u, n, q), p[n] = q[n]
    PROVE  t = u
  <1>1. ASSUME NEW k \in 1..n, p[k] = q[k] PROVE p[k - 1] = q[k - 1] /\ t[k] = u[k]
    <2>1. p[k] = p[k - 1] * 256 + t[k] /\ q[k] = q[k - 1] * 256 + u[k]
      BY DEF Digits
    <2>2. t[k] \in 0..255 /\ u[k] \in 0..255 /\ p[k - 1] \in Nat /\ q[k - 1] \in Nat
      BY DEF Byte
    <2> DEFINE x == p[k - 1]
               y == q[k - 1]
               c == t[k]
               d == u[k]
    <2>3. x * 256 + c = y * 256 + d
      BY <1>1, <2>1
    <2>4. c \in 0..255 /\ d \in 0..255 /\ x \in Nat /\ y \in Nat
      BY <2>2
    <2> HIDE DEF x, y, c, d
    <2>5. x = y /\ c = d
      BY <2>3, <2>4
    <2>. QED
      BY <2>5 DEF x, y, c, d
  <1> DEFINE S == {j \in 0..n : p[n - j] = q[n - j]}
  <1>2. 0 \in S
    OBVIOUS
  <1>3. ASSUME NEW j \in 1..n, j - 1 \in S PROVE j \in S
    <2>1. n - (j - 1) \in 1..n /\ (n - (j - 1)) - 1 = n - j /\ p[n - (j - 1)] = q[n - (j - 1)]
      BY <1>3
    <2>2. p[n - j] = q[n - j]
      BY <1>1, <2>1
    <2>. QED
      BY <2>2
  <1>4. \A j \in 0..n : j \in S
    <2> HIDE DEF S
    <2>. QED
      BY <1>2, <1>3, Upwards
  <1>5. ASSUME NEW k \in 1..n PROVE t[k] = u[k]
    <2>1. n - k \in 0..n /\ n - (n - k) = k
      OBVIOUS
    <2>2. p[k] = q[k]
      BY <1>4, <2>1
    <2>. QED
      BY <1>1, <2>2
  <1>. QED
    BY <1>5

\* Number is the last of them, for the bytes a command can have signed.
LEMMA NumberIs ==
    ASSUME NEW text \in Seq(Byte)
    PROVE  LET t == FirstBytes(text) IN
           /\ Len(t) \in 0..Width /\ t \in [1..Len(t) -> Byte]
           /\ \E p \in [0..Len(t) -> Nat] : Digits(t, Len(t), p) /\ Number(text) = p[Len(t)]
  <1> DEFINE t == FirstBytes(text)
             n == Len(t)
             IsIt(g) == g = [k \in 0..n |-> IF k = 0 THEN 0 ELSE g[k - 1] * 256 + t[k]]
  <1>0. Width \in Nat /\ Len(text) \in Nat
    BY WidthAssumption
  <1>1. n \in 0..Width /\ t \in [1..n -> Byte]
    <2>1. CASE Len(text) < Width
      BY <1>0, <2>1 DEF FirstBytes
    <2>2. CASE ~(Len(text) < Width)
      <3>1. t = SubSeq(text, 1, Width)
        BY <2>2 DEF FirstBytes
      <3>2. t \in Seq(Byte) /\ Len(t) = Width
        BY <1>0, <2>2, <3>1
      <3> HIDE DEF t
      <3>. QED
        BY <1>0, <3>2
    <2>. QED
      BY <2>1, <2>2
  <1>2. Number(text) = (CHOOSE g : IsIt(g))[n]
    BY DEF Number
  <1> HIDE DEF t, n
  <1>3. PICK p \in [0..n -> Nat] : Digits(t, n, p)
    <2>1. n \in Nat
      BY <1>0, <1>1
    <2>. QED
      BY <1>1, <2>1, DigitsExist
  <1>4. IsIt(p)
    <2>1. ASSUME NEW k \in 0..n PROVE p[k] = IF k = 0 THEN 0 ELSE p[k - 1] * 256 + t[k]
      <3>1. CASE k = 0
        BY <1>3, <3>1 DEF Digits
      <3>2. CASE k # 0
        BY <1>1, <1>3, <3>2 DEF Digits
      <3>. QED
        BY <3>1, <3>2
    <2>2. p = [k \in 0..n |-> p[k]]
      OBVIOUS
    <2>. QED
      BY <2>1, <2>2
  <1> DEFINE h == CHOOSE g : IsIt(g)
  <1>5. IsIt(h)
    BY <1>4
  <1> HIDE DEF h
  <1>6. Digits(t, n, h)
    <2>1. \A k \in 0..n : h[k] = IF k = 0 THEN 0 ELSE h[k - 1] * 256 + t[k]
      BY <1>5
    <2>2. n \in Nat
      BY <1>0, <1>1
    <2>. QED
      BY <2>1, <2>2 DEF Digits
  <1>7. p[n] = h[n]
    BY <1>0, <1>1, <1>3, <1>6, OneNumber
  <1>8. Number(text) = p[n]
    BY <1>2, <1>7 DEF h
  <1>. QED
    BY <1>1, <1>3, <1>8 DEF t, n

\* Zeros in front do not change a number.
LEMMA MessageNumber ==
    ASSUME NEW text \in Seq(Byte)
    PROVE  LET m == format_musig_msg(text) IN
           /\ m \in [1..Width -> Byte]
           /\ \E r \in [0..Width -> Nat] : Digits(m, Width, r) /\ r[Width] = Number(text)
  <1> DEFINE t == FirstBytes(text)
             n == Len(t)
             m == format_musig_msg(text)
             z == Width - n
  <1>0. Width \in Nat
    BY WidthAssumption
  <1>1. /\ n \in 0..Width /\ t \in [1..n -> Byte]
        /\ \E p \in [0..n -> Nat] : Digits(t, n, p) /\ Number(text) = p[n]
    BY NumberIs
  <1>2. PICK p \in [0..n -> Nat] : Digits(t, n, p) /\ Number(text) = p[n]
    BY <1>1
  <1>3. m \in [1..Width -> Byte]
    <2> DEFINE B == Byte
    <2>1. B \subseteq Nat /\ 0 \in B /\ text \in Seq(B)
      BY DEF Byte
    <2> HIDE DEF B
    <2>2. m \in [1..Width -> B]
      BY <2>1, FullWidth
    <2>. QED
      BY <2>2 DEF B
  <1>4. \A i \in 1..Width : m[i] = IF i <= z THEN 0 ELSE t[i - z]
    <2>1. CASE Len(text) < Width
      BY <1>0, <2>1 DEF format_musig_msg, Padded, FirstBytes
    <2>2. CASE ~(Len(text) < Width)
      <3>1. t = SubSeq(text, 1, Width) /\ m = SubSeq(text, 1, Width)
        BY <2>2 DEF FirstBytes, format_musig_msg
      <3>2. Len(text) \in Nat
        OBVIOUS
      <3>3. n = Width
        BY <1>0, <2>2, <3>1, <3>2
      <3> HIDE DEF t, m, n
      <3>4. z = 0 /\ m = t
        BY <1>0, <3>1, <3>3
      <3>. QED
        BY <1>0, <3>4
    <2>. QED
      BY <2>1, <2>2
  <1> HIDE DEF t, n, m
  <1>5. z \in 0..Width /\ z + n = Width /\ n \in Nat
    BY <1>0, <1>1
  <1> HIDE DEF z
  <1> DEFINE r == [k \in 0..Width |-> IF k <= z THEN 0 ELSE p[k - z]]
  <1>6. r \in [0..Width -> Nat]
    <2>1. ASSUME NEW k \in 0..Width, ~(k <= z) PROVE p[k - z] \in Nat
      <3>1. k - z \in 0..n
        BY <1>0, <1>5, <2>1
      <3>. QED
        BY <3>1
    <2>. QED
      BY <2>1
  <1>7. p[0] = 0 /\ \A k \in 1..n : p[k] = p[k - 1] * 256 + t[k]
    BY <1>2 DEF Digits
  <1>8. r[Width] = p[n]
    <2>1. CASE n = 0
      BY <1>0, <1>5, <1>7, <2>1
    <2>2. CASE n # 0
      <3>1. ~(Width <= z) /\ Width - z = n /\ Width \in 0..Width
        BY <1>0, <1>5, <2>2
      <3>. QED
        BY <3>1
    <2>. QED
      BY <2>1, <2>2
  <1>9. ASSUME NEW k \in 1..Width PROVE r[k] = r[k - 1] * 256 + m[k]
    <2>0. k \in 0..Width /\ k - 1 \in 0..Width
      BY <1>0
    <2>1. CASE k <= z
      <3>1. r[k] = 0 /\ r[k - 1] = 0 /\ m[k] = 0
        BY <1>0, <1>4, <1>5, <2>0, <2>1
      <3>. QED
        BY <3>1
    <2>2. CASE ~(k <= z)
      <3>1. k - z \in 1..n /\ (k - z) - 1 = (k - 1) - z
        BY <1>0, <1>5, <2>2
      <3>2. r[k] = p[k - z] /\ m[k] = t[k - z]
        BY <1>4, <2>0, <2>2
      <3>3. r[k - 1] = p[(k - z) - 1]
        <4>1. CASE k - 1 <= z
          <5>1. k - 1 = z /\ (k - z) - 1 = 0
            BY <1>0, <1>5, <2>2, <4>1
          <5>. QED
            BY <1>7, <2>0, <4>1, <5>1
        <4>2. CASE ~(k - 1 <= z)
          BY <2>0, <3>1, <4>2
        <4>. QED
          BY <4>1, <4>2
      <3> HIDE DEF r
      <3>. QED
        BY <1>7, <3>1, <3>2, <3>3
    <2>. QED
      BY <2>1, <2>2
  <1>10. r[0] = 0
    BY <1>0, <1>5
  <1> HIDE DEF r
  <1>11. Digits(m, Width, r) /\ r[Width] = Number(text)
    BY <1>2, <1>8, <1>9, <1>10 DEF Digits
  <1>. QED
    BY <1>3, <1>6, <1>11 DEF m

\* For every width: two commands sign the same bytes exactly when their first
\* Width bytes are the same number.
THEOREM BytesAreANumber ==
    ASSUME NEW a \in Seq(Byte), NEW b \in Seq(Byte)
    PROVE  format_musig_msg(a) = format_musig_msg(b) <=> Number(a) = Number(b)
  <1> DEFINE ma == format_musig_msg(a)
             mb == format_musig_msg(b)
  <1>0. Width \in Nat
    BY WidthAssumption
  <1>1. /\ ma \in [1..Width -> Byte]
        /\ \E r \in [0..Width -> Nat] : Digits(ma, Width, r) /\ r[Width] = Number(a)
    BY MessageNumber
  <1>2. /\ mb \in [1..Width -> Byte]
        /\ \E r \in [0..Width -> Nat] : Digits(mb, Width, r) /\ r[Width] = Number(b)
    BY MessageNumber
  <1>3. PICK p \in [0..Width -> Nat] : Digits(ma, Width, p) /\ p[Width] = Number(a)
    BY <1>1
  <1>4. PICK q \in [0..Width -> Nat] : Digits(mb, Width, q) /\ q[Width] = Number(b)
    BY <1>2
  <1> HIDE DEF ma, mb
  <1>5. ASSUME ma = mb PROVE Number(a) = Number(b)
    <2>1. Digits(ma, Width, q)
      BY <1>4, <1>5
    <2>2. p[Width] = q[Width]
      BY <1>0, <1>3, <2>1, OneNumber
    <2>. QED
      BY <1>3, <1>4, <2>2
  <1>6. ASSUME Number(a) = Number(b) PROVE ma = mb
    BY <1>0, <1>1, <1>2, <1>3, <1>4, <1>6, SameDigits
  <1>. QED
    BY <1>5, <1>6 DEF ma, mb

\* Every session has the message of its command.
SignsItsCommand ==
    \A n \in Party : \A k \in DOMAIN sessions[n] :
        sessions[n][k].message = format_musig_msg(TextOf[sessions[n][k].job])

\* Starting a session makes its message, and nothing changes it afterwards.
LEMMA MessageStep == IInv /\ SignsItsCommand /\ [Next]_vars => SignsItsCommand'
  <1> SUFFICES ASSUME IInv, SignsItsCommand, [Next]_vars PROVE SignsItsCommand'
    OBVIOUS
  <1>1. CASE UNCHANGED sessions
    BY <1>1 DEF SignsItsCommand
  <1>2. ASSUME NEW n \in Party, NEW j \in Job, HandleSign(n, j)
        PROVE  SignsItsCommand'
    <2> DEFINE s == NewSession(n, j)
    <2>1. s.job = j /\ s.message = format_musig_msg(TextOf[j])
      BY DEF NewSession
    <2>2. /\ \A m \in Party \ {n} : sessions'[m] = sessions[m]
          /\ \A k \in DOMAIN sessions'[n] :
               IF k = Len(sessions[n]) + 1 THEN sessions'[n][k] = s
               ELSE k \in DOMAIN sessions[n] /\ sessions'[n][k] = sessions[n][k]
      BY <1>2, StartsOne
    <2> HIDE DEF s
    <2>3. \A k \in DOMAIN sessions'[n] : \/ sessions'[n][k] = s
                                         \/ /\ k \in DOMAIN sessions[n]
                                            /\ sessions'[n][k] = sessions[n][k]
      BY <2>2
    <2>. QED
      BY <2>1, <2>2, <2>3 DEF SignsItsCommand
  <1>3. ASSUME NEW n \in Party, Reads(n) PROVE SignsItsCommand'
    <2> DEFINE line == Head(stdin[n])
    <2>1. CASE line.verb = "sign"
      <3>1. line \in Line /\ HandleSign(n, line.job)
        BY <1>3, <2>1 DEF Reads, Input, IInv, Types
      <3>2. line.job \in Job
        BY <2>1, <3>1 DEF Line
      <3> HIDE DEF line
      <3>. QED
        BY <1>2, <3>1, <3>2
    <2>2. CASE line.verb # "sign"
      BY <1>1, <1>3, <2>2 DEF Reads, Input
    <2>. QED
      BY <2>1, <2>2
  <1>4. ASSUME NEW n \in Party, Takes(n) PROVE SignsItsCommand'
    <2> DEFINE u == rx_inter[n].unread
    <2>1. u # << >> /\ HandleSign(n, Head(u)) /\ u \in Seq(Job)
      BY <1>4 DEF Takes, CallPeers, IInv, Types
    <2>2. Head(u) \in Job
      BY <2>1
    <2> HIDE DEF u
    <2>. QED
      BY <1>2, <2>1, <2>2
  <1>5. ASSUME NEW n \in Party, NEW k \in DOMAIN sessions[n], SessionSends(n, k)
        PROVE  SignsItsCommand'
    <2>1. /\ \A m \in Party : DOMAIN sessions'[m] = DOMAIN sessions[m]
          /\ \A m \in Party : \A l \in DOMAIN sessions[m] :
               sessions'[m][l] = IF m = n /\ l = k
                                 THEN [sessions[n][k] EXCEPT !.unsent = @ - 1]
                                 ELSE sessions[m][l]
          /\ sessions[n][k] \in SessionsOf
      BY <1>5, SendsOne
    <2>2. \A m \in Party : \A l \in DOMAIN sessions[m] :
            /\ sessions'[m][l].job = sessions[m][l].job
            /\ sessions'[m][l].message = sessions[m][l].message
      BY <2>1 DEF SessionsOf
    <2>. QED
      BY <2>1, <2>2 DEF SignsItsCommand
  <1>6. ASSUME NEW n \in Party, Passes(n) PROVE SignsItsCommand'
    BY <1>1, <1>6 DEF Passes, AsyncResponse
  <1>7. ASSUME NEW q \in Party, NEW call \in published, Flood(q, call)
        PROVE  SignsItsCommand'
    BY <1>1, <1>7 DEF Flood
  <1>8. CASE Wiring
    BY <1>1, <1>8, Apart
  <1>9. CASE Calling
    BY <1>3, <1>4, <1>5, <1>6, <1>7, <1>9 DEF Calling
  <1>10. CASE UNCHANGED vars
    BY <1>1, <1>10 DEF vars
  <1>. QED
    BY <1>8, <1>9, <1>10, WhichStep

\* On whatever nodes and for whatever commands: two sessions sign the same
\* bytes exactly when the first Width bytes of what was typed are the same
\* number.  Anything typed behind them, and zeros in front, are not signed.
THEOREM OnlyTheNumberIsSigned == Spec => []SignsTheFirstBytes
  <1>1. Init => SignsItsCommand
    BY DEF Init, SignsItsCommand
  <1>2. IInv /\ SignsItsCommand => SignsTheFirstBytes
    <2> SUFFICES ASSUME IInv, SignsItsCommand, NEW n \in Party, NEW q \in Party,
                        NEW k \in DOMAIN sessions[n], NEW l \in DOMAIN sessions[q]
                 PROVE  sessions[n][k].message = sessions[q][l].message <=>
                          Number(TextOf[sessions[n][k].job]) =
                            Number(TextOf[sessions[q][l].job])
      BY DEF SignsTheFirstBytes
    <2> DEFINE a == TextOf[sessions[n][k].job]
               b == TextOf[sessions[q][l].job]
    <2>1. sessions[n][k].message = format_musig_msg(a)
          /\ sessions[q][l].message = format_musig_msg(b)
      BY DEF SignsItsCommand
    <2>2. a \in Seq(Byte) /\ b \in Seq(Byte)
      <3>1. sessions[n][k] \in SessionsOf /\ sessions[q][l] \in SessionsOf
        BY DEF IInv, Types
      <3>2. sessions[n][k].job \in Job /\ sessions[q][l].job \in Job
        BY <3>1 DEF SessionsOf
      <3>3. TextOf \in [Job -> Seq(Byte)]
        BY NodeAssumption DEF Byte
      <3>. QED
        BY <3>2, <3>3
    <2> HIDE DEF a, b
    <2>3. format_musig_msg(a) = format_musig_msg(b) <=> Number(a) = Number(b)
      BY <2>2, BytesAreANumber
    <2>. QED
      BY <2>1, <2>3 DEF a, b
  <1>. QED
    BY <1>1, <1>2, MessageStep, Inductive, PTL DEF Spec
-----------------------------------------------------------------------------
(* Commands and calls implement Calls.                                     *)

\* How often a job occurs among sessions that have different jobs.
LEMMA OnceOrNever ==
    ASSUME NEW s, \A k, l \in DOMAIN s : s[k].job = s[l].job => k = l, NEW j
    PROVE  Cardinality({k \in DOMAIN s : s[k].job = j}) =
             IF \E k \in DOMAIN s : s[k].job = j THEN 1 ELSE 0
  <1> DEFINE T == {k \in DOMAIN s : s[k].job = j}
  <1>1. CASE \E k \in DOMAIN s : s[k].job = j
    <2>1. PICK k \in DOMAIN s : s[k].job = j
      BY <1>1
    <2>2. T = {k}
      BY <2>1
    <2> HIDE DEF T
    <2>3. Cardinality(T) = 1
      BY <2>2, FS_Singleton
    <2>. QED
      BY <1>1, <2>3 DEF T
  <1>2. CASE ~\E k \in DOMAIN s : s[k].job = j
    <2>1. T = {}
      BY <1>2
    <2> HIDE DEF T
    <2>2. Cardinality(T) = 0
      BY <2>1, FS_EmptySet
    <2>. QED
      BY <1>2, <2>2 DEF T
  <1>. QED
    BY <1>1, <1>2

\* Whoever starts a session for j has not done so before, and has typed j or
\* hears of it from a node that has both typed and started it.
Starts(n, j) ==
    /\ ~StartedAt(n, j)
    /\ \A m \in Party, i \in Job : StartedAt(m, i)' <=> StartedAt(m, i) \/ (m = n /\ i = j)
    /\ TypedAt(n, j) \/ \E q \in Party : TypedAt(q, j) /\ StartedAt(q, j)

\* A step starts one session or none.
LEMMA WhoStarts ==
    ASSUME IInv, [Next]_vars
    PROVE  \/ \A m \in Party, i \in Job : StartedAt(m, i)' <=> StartedAt(m, i)
           \/ \E n \in Party, j \in Job : Starts(n, j)
  <1>1. CASE UNCHANGED sessions
    BY <1>1 DEF StartedAt
  <1>2. ASSUME NEW n \in Party, Reads(n), ~UNCHANGED sessions
        PROVE  \E j \in Job : Starts(n, j)
    <2> DEFINE line == stdin[n][1]
    <2>1. stdin[n] # << >> /\ stdin[n] \in Seq(Line) /\ Head(stdin[n]) = line
      BY <1>2 DEF Reads, Input, IInv, Types
    <2>2. line.verb = "sign" /\ HandleSign(n, line.job)
      BY <1>2, <2>1 DEF Reads, Input
    <2>3. 1 \in DOMAIN stdin[n] /\ line \in Line
      BY <2>1
    <2> HIDE DEF line
    <2>4. PICK j \in Job : j = line.job
      BY <2>2, <2>3 DEF Line
    <2>5. TypedAt(n, j)
      <3>1. \E k \in DOMAIN Stdin[n] : Stdin[n][k] = line
        BY <2>3 DEF IInv, Typed, line
      <3>. QED
        BY <2>2, <2>4, <3>1 DEF TypedAt
    <2>6. ~StartedAt(n, j)
      <3>1. \A call \in published : call.job # j
        BY <2>2, <2>3, <2>4 DEF IInv, Typed, line
      <3>. QED
        BY <3>1 DEF IInv, Answers, StartedAt
    <2>7. \A m \in Party, i \in Job :
            StartedAt(m, i)' <=> StartedAt(m, i) \/ (m = n /\ i = j)
      BY <2>2, <2>4, StartsOne
    <2>. QED
      BY <2>5, <2>6, <2>7 DEF Starts
  <1>3. ASSUME NEW n \in Party, Takes(n)
        PROVE  \E j \in Job : Starts(n, j)
    <2> DEFINE u == rx_inter[n].unread
    <2>1. u # << >> /\ HandleSign(n, Head(u)) /\ u \in Seq(Job) /\ Answers(n)
      BY <1>3 DEF Takes, CallPeers, IInv, Types
    <2>2. 1 \in DOMAIN u /\ u[1] = Head(u) /\ Head(u) \in Job
      BY <2>1
    <2>3. PICK j \in Job : j = Head(u)
      BY <2>2
    <2>4. ~StartedAt(n, j) /\ \E call \in heard[n] : call.job = j
      BY <2>1, <2>2, <2>3 DEF Answers
    <2>5. PICK call \in heard[n] : call.job = j
      BY <2>4
    <2>6. /\ call.from \in Party /\ TypedAt(call.from, j) /\ StartedAt(call.from, j)
      <3>1. call \in published /\ call \in [job : Job, from : Party]
        BY DEF IInv, Types
      <3>. QED
        BY <2>5, <3>1 DEF IInv, Commands
    <2> HIDE DEF u
    <2>7. \A m \in Party, i \in Job :
            StartedAt(m, i)' <=> StartedAt(m, i) \/ (m = n /\ i = j)
      BY <2>1, <2>3, StartsOne
    <2>. QED
      BY <2>4, <2>6, <2>7 DEF Starts
  <1>4. ASSUME NEW n \in Party, NEW k \in DOMAIN sessions[n], SessionSends(n, k)
        PROVE  \A m \in Party, i \in Job : StartedAt(m, i)' <=> StartedAt(m, i)
    <2>1. \A m \in Party : /\ DOMAIN sessions'[m] = DOMAIN sessions[m]
                           /\ \A l \in DOMAIN sessions[m] :
                                sessions'[m][l].job = sessions[m][l].job
      BY <1>4, SendsOne
    <2>. QED
      BY <2>1 DEF StartedAt
  <1>5. CASE Calling
    <2>1. ASSUME NEW n \in Party, Passes(n) PROVE UNCHANGED sessions
      BY <2>1 DEF Passes, AsyncResponse
    <2>2. ASSUME NEW n \in Party, NEW call \in published, Flood(n, call)
          PROVE  UNCHANGED sessions
      BY <2>2 DEF Flood
    <2>. QED
      BY <1>1, <1>2, <1>3, <1>4, <1>5, <2>1, <2>2 DEF Calling
  <1>6. CASE Wiring
    BY <1>1, <1>6, Apart
  <1>7. CASE UNCHANGED vars
    BY <1>1, <1>7 DEF vars
  <1>. QED
    BY <1>5, <1>6, <1>7, WhichStep

\* Every command starts one session on its node before any other node answers,
\* and no node ever starts two for the same command.
THEOREM CallsAreImplemented == Spec => ImplementsCalls
  <1> DEFINE caller == [ j \in Job |-> CHOOSE n \in Party : \E i \in DOMAIN Stdin[n] :
                           Stdin[n][i].verb = "sign" /\ Stdin[n][i].job = j ]
             starts == [ n \in Party |-> [ j \in Job |->
                           Cardinality({k \in DOMAIN sessions[n] : sessions[n][k].job = j}) ] ]
             marks == [ n \in Party |-> [ j \in Job |-> IF StartedAt(n, j) THEN 1 ELSE 0 ] ]
  <1>1. ASSUME NEW n \in Party, NEW j \in Job, TypedAt(n, j) PROVE caller[j] = n
    <2>1. \E i \in DOMAIN Stdin[n] : Stdin[n][i].verb = "sign" /\ Stdin[n][i].job = j
      BY <1>1 DEF TypedAt
    <2>2. /\ caller[j] \in Party
          /\ \E i \in DOMAIN Stdin[caller[j]] :
               Stdin[caller[j]][i].verb = "sign" /\ Stdin[caller[j]][i].job = j
      BY <2>1
    <2> HIDE DEF caller
    <2>. QED
      BY <2>1, <2>2, NodeAssumption
  <1>2. IInv => starts = marks
    <2> SUFFICES ASSUME IInv, NEW n \in Party, NEW j \in Job
                 PROVE  starts[n][j] = marks[n][j]
      OBVIOUS
    <2>1. \A k, l \in DOMAIN sessions[n] : sessions[n][k].job = sessions[n][l].job => k = l
      BY DEF IInv, Answers
    <2>2. Cardinality({k \in DOMAIN sessions[n] : sessions[n][k].job = j}) =
            IF \E k \in DOMAIN sessions[n] : sessions[n][k].job = j THEN 1 ELSE 0
      BY <2>1, OnceOrNever
    <2>. QED
      BY <2>2 DEF StartedAt
  <1>3. Init => C!Init
    <2> SUFFICES ASSUME Init PROVE starts = [n \in Party |-> [j \in Job |-> 0]]
      BY DEF C!Init
    <2>1. IInv
      BY Start
    <2>2. \A n \in Party, j \in Job : ~StartedAt(n, j)
      BY DEF Init, StartedAt
    <2>3. marks = [n \in Party |-> [j \in Job |-> 0]]
      BY <2>2
    <2>. QED
      BY <1>2, <2>1, <2>3
  <1>4. IInv /\ [Next]_vars => [C!Next]_starts
    <2> SUFFICES ASSUME IInv, [Next]_vars PROVE [C!Next]_starts
      OBVIOUS
    <2>1. IInv'
      BY Step
    <2>2. starts = marks
      BY <1>2
    <2>3. starts' = marks'
      <3> SUFFICES ASSUME NEW n \in Party, NEW j \in Job
                   PROVE  starts'[n][j] = marks'[n][j]
        OBVIOUS
      <3>1. \A k, l \in DOMAIN sessions'[n] :
              sessions'[n][k].job = sessions'[n][l].job => k = l
        BY <2>1 DEF IInv, Answers
      <3>2. Cardinality({k \in DOMAIN sessions'[n] : sessions'[n][k].job = j}) =
              IF \E k \in DOMAIN sessions'[n] : sessions'[n][k].job = j THEN 1 ELSE 0
        BY <3>1, OnceOrNever
      <3>. QED
        BY <3>2 DEF StartedAt
    <2>4. CASE \A m \in Party, i \in Job : StartedAt(m, i)' <=> StartedAt(m, i)
      <3>1. marks' = marks
        BY <2>4
      <3>. QED
        BY <2>2, <2>3, <3>1
    <2>5. ASSUME NEW n \in Party, NEW j \in Job, Starts(n, j)
          PROVE  C!Next
      <3>1. marks[n][j] = 0 /\ marks' = [marks EXCEPT ![n][j] = 1]
        BY <2>5 DEF Starts
      <3>2. starts[n][j] = 0 /\ starts' = [starts EXCEPT ![n][j] = 1]
        BY <2>2, <2>3, <3>1
      <3>3. C!Start(n, j)
        BY <3>2 DEF C!Start
      <3>4. CASE TypedAt(n, j)
        <4>1. caller[j] = n
          BY <1>1, <3>4
        <4>2. C!Command(j)
          BY <3>3, <4>1 DEF C!Command
        <4>. QED
          BY <4>2 DEF C!Next
      <3>5. CASE \E q \in Party : TypedAt(q, j) /\ StartedAt(q, j)
        <4>1. PICK q \in Party : TypedAt(q, j) /\ StartedAt(q, j)
          BY <3>5
        <4>2. caller[j] = q
          BY <1>1, <4>1
        <4>3. starts[q][j] > 0
          BY <2>2, <4>1
        <4>4. C!Answer(n, j)
          BY <3>3, <4>2, <4>3 DEF C!Answer
        <4>. QED
          BY <4>4 DEF C!Next
      <3>. QED
        BY <2>5, <3>4, <3>5 DEF Starts
    <2>. QED
      BY <2>4, <2>5, WhoStarts
  <1>. QED
    BY <1>3, <1>4, Inductive, PTL DEF Spec, ImplementsCalls, C!Spec

-----------------------------------------------------------------------------
(* Room in the channels.                                                   *)

\* A sequence without repetition is no longer than its set is large.
LEMMA InjectiveFits ==
    ASSUME NEW S, IsFiniteSet(S), NEW s \in Seq(S), IsInjective(s)
    PROVE  Len(s) <= Cardinality(S) /\ Cardinality(S) \in Nat
  <1>1. DOMAIN s = 1..Len(s) /\ Len(s) \in Nat /\ s \in [1..Len(s) -> S]
    OBVIOUS
  <1>2. s \in Injection(1..Len(s), S)
    BY <1>1 DEF Injection
  <1>3. Cardinality(1..Len(s)) <= Cardinality(S)
    BY <1>2, FS_Injection
  <1>4. Cardinality(1..Len(s)) = Len(s)
    <2>1. 1 \in Int /\ Len(s) \in Int
      BY <1>1
    <2>2. Cardinality(1..Len(s)) = IF 1 > Len(s) THEN 0 ELSE Len(s) - 1 + 1
      BY <2>1, FS_Interval
    <2>. QED
      BY <1>1, <2>2
  <1>. QED
    BY <1>3, <1>4, FS_CardinalityType

\* There are no more sessions than commands.
LEMMA SessionsFit ==
    ASSUME IInv, IsFiniteSet(Job), NEW n \in Party
    PROVE  Len(sessions[n]) <= Cardinality(Job)
  <1> DEFINE s == sessions[n]
             jobs == [k \in 1..Len(s) |-> s[k].job]
  <1>1. s \in Seq(SessionsOf) /\ DOMAIN s = 1..Len(s) /\ Len(s) \in Nat
        /\ \A k, l \in DOMAIN s : s[k].job = s[l].job => k = l
    BY DEF IInv, Types, Answers
  <1>2. \A k \in 1..Len(s) : s[k].job \in Job
    <2> HIDE DEF s
    <2>1. \A k \in 1..Len(s) : s[k] \in SessionsOf
      BY <1>1
    <2>. QED
      BY <2>1 DEF SessionsOf
  <1> HIDE DEF s
  <1>3. jobs \in Seq(Job) /\ Len(jobs) = Len(s)
    BY <1>1, <1>2
  <1>4. IsInjective(jobs)
    BY <1>1 DEF IsInjective
  <1> HIDE DEF jobs
  <1>. QED
    BY <1>3, <1>4, InjectiveFits DEF s

\* What sessions can have sent is finite, and no more than there is room for.
LEMMA SentFits ==
    ASSUME IInv, Room, NEW n \in Party,
           NEW T \in SUBSET ((1..Len(sessions[n])) \X (1..Sends))
    PROVE  IsFiniteSet(T) /\ Cardinality(T) \in Nat /\ Cardinality(T) <= Capacity
  <1> DEFINE l == Len(sessions[n])
             all == (1..l) \X (1..Sends)
  <1>1. l \in Nat /\ l <= Cardinality(Job) /\ Cardinality(Job) \in Nat /\ Sends \in Nat
        /\ Cardinality(Job) * Sends <= Capacity /\ Capacity \in Nat
    <2>1. IsFiniteSet(Job) /\ Cardinality(Job) * Sends <= Capacity
      BY DEF Room
    <2>2. sessions[n] \in Seq(SessionsOf)
      BY DEF IInv, Types
    <2>3. l <= Cardinality(Job)
      BY <2>1, SessionsFit
    <2>4. Cardinality(Job) \in Nat
      BY <2>1, FS_CardinalityType
    <2>5. Sends \in Nat /\ Capacity \in Nat
      BY NodeAssumption
    <2>. QED
      BY <2>1, <2>2, <2>3, <2>4, <2>5
  <1> HIDE DEF l
  <1>2. /\ IsFiniteSet(1..l) /\ Cardinality(1..l) = l
        /\ IsFiniteSet(1..Sends) /\ Cardinality(1..Sends) = Sends
    <2>1. 1 \in Int /\ l \in Int /\ Sends \in Int
      BY <1>1
    <2>2. /\ IsFiniteSet(1..l)
          /\ Cardinality(1..l) = IF 1 > l THEN 0 ELSE l - 1 + 1
      BY <2>1, FS_Interval
    <2>3. /\ IsFiniteSet(1..Sends)
          /\ Cardinality(1..Sends) = IF 1 > Sends THEN 0 ELSE Sends - 1 + 1
      BY <2>1, FS_Interval
    <2>. QED
      BY <1>1, <2>2, <2>3
  <1>3. IsFiniteSet(all) /\ Cardinality(all) = l * Sends
    BY <1>2, FS_Product
  <1>4. T \in SUBSET all
    BY DEF l
  <1> HIDE DEF all
  <1>5. IsFiniteSet(T) /\ Cardinality(T) <= l * Sends
    BY <1>3, <1>4, FS_Subset
  <1>6. l * Sends <= Cardinality(Job) * Sends
    <2>1. Sends = 0 \/ Sends = 1 \/ Sends = 2
      BY NodeAssumption
    <2>. QED
      BY <1>1, <2>1
  <1>7. Cardinality(T) \in Nat /\ l * Sends \in Nat
    <2>1. Sends = 0 \/ Sends = 1 \/ Sends = 2
      BY NodeAssumption
    <2>2. l * Sends \in Nat
      BY <1>1, <2>1
    <2>. QED
      BY <1>5, <2>2, FS_CardinalityType
  <1>8. Cardinality(Job) * Sends \in Nat
    <2>1. Sends = 0 \/ Sends = 1 \/ Sends = 2
      BY NodeAssumption
    <2>. QED
      BY <1>1, <2>1
  <1>. QED
    BY <1>1, <1>5, <1>6, <1>7, <1>8

\* What a node hears of fits.
LEMMA FloodIsRoomy ==
    ASSUME IInv, Room, RoomInv, NEW q \in Party, NEW call \in published, Flood(q, call)
    PROVE  RoomInv'
  <1>1. /\ rx_inter' = [rx_inter EXCEPT ![q] = Send(@, call.job)]
        /\ rx_party' = rx_party /\ sessions' = sessions /\ down' = down
        /\ call \notin heard[q]
    BY DEF Flood
  <1>2. /\ rx_inter \in [Party -> Channel(Job)] /\ rx_inter[q] \in Channel(Job)
        /\ rx_inter[q].unread \in Seq(Job) /\ call.job \in Job /\ heard[q] \subseteq published
        /\ Types /\ Commands /\ Answers(q)
    BY DEF IInv, Types, Channel
  <1>3. call.job \notin Elements(rx_inter[q].unread) /\ IsInjective(rx_inter[q].unread)
    <2>1. \A x \in heard[q] : x.job # call.job
      BY <1>1, <1>2, OneCall
    <2>2. \A k \in DOMAIN rx_inter[q].unread : rx_inter[q].unread[k] # call.job
      BY <1>2, <2>1 DEF Answers
    <2>. QED
      BY <1>2, <2>2 DEF Answers, Elements
  <1> DEFINE s == Append(rx_inter[q].unread, call.job)
  <1>4. s \in Seq(Job) /\ IsInjective(s) /\ Len(s) = Len(rx_inter[q].unread) + 1
    BY <1>2, <1>3, AppendsNew
  <1> HIDE DEF s
  <1>5. Len(s) <= Cardinality(Job) /\ Cardinality(Job) \in Nat
    BY <1>4, InjectiveFits DEF Room
  <1>6. Len(rx_inter[q].unread) < Capacity
    <2>1. Len(rx_inter[q].unread) \in Nat /\ Capacity \in Nat /\ Cardinality(Job) <= Capacity
      BY <1>2, NodeAssumption DEF Room
    <2>. QED
      BY <1>4, <1>5, <2>1
  <1>7. Send(rx_inter[q], call.job).lagged = rx_inter[q].lagged
    BY <1>2, <1>6, SendKeeps
  <1>8. \A m \in Party : rx_inter'[m].lagged = rx_inter[m].lagged
    BY <1>1, <1>2, <1>7
  <1>. QED
    BY <1>1, <1>8 DEF RoomInv, Roomy, SentOut

\* What sessions send fits.
LEMMA SendIsRoomy ==
    ASSUME IInv, Room, RoomInv,
           NEW n \in Party, NEW k \in DOMAIN sessions[n], SessionSends(n, k)
    PROVE  RoomInv'
  <1> DEFINE u == sessions[n][k].unsent
             ch == rx_party[n]
             j == sessions[n][k].job
  <1>1. /\ rx_party' = [rx_party EXCEPT ![n] = Send(ch, j)]
        /\ rx_inter' = rx_inter /\ down' = down
    BY DEF SessionSends
  <1>2. /\ \A m \in Party : DOMAIN sessions'[m] = DOMAIN sessions[m]
                            /\ Len(sessions'[m]) = Len(sessions[m])
        /\ \A m \in Party : \A l \in DOMAIN sessions[m] :
             sessions'[m][l] = IF m = n /\ l = k
                               THEN [sessions[n][k] EXCEPT !.unsent = @ - 1]
                               ELSE sessions[m][l]
        /\ sessions[n][k] \in SessionsOf /\ u > 0
    BY SendsOne
  <1>3. /\ \A m \in Party : DOMAIN sessions[m] = 1..Len(sessions[m])
        /\ \A m \in Party : \A l \in 1..Len(sessions[m]) : sessions[m][l].unsent \in 0..Sends
    <2> SUFFICES ASSUME NEW m \in Party
                 PROVE  /\ DOMAIN sessions[m] = 1..Len(sessions[m])
                        /\ \A l \in 1..Len(sessions[m]) : sessions[m][l].unsent \in 0..Sends
      OBVIOUS
    <2> DEFINE s == sessions[m]
    <2>1. s \in Seq(SessionsOf)
      BY DEF IInv, Types
    <2> HIDE DEF s
    <2>2. DOMAIN s = 1..Len(s) /\ \A l \in 1..Len(s) : s[l] \in SessionsOf
      BY <2>1
    <2>3. \A l \in 1..Len(s) : s[l].unsent \in 0..Sends
      BY <2>2 DEF SessionsOf
    <2>. QED
      BY <2>2, <2>3 DEF s
  <1>4. u \in 1..Sends /\ j \in Job /\ k \in 1..Len(sessions[n])
        /\ sessions'[n][k].unsent = u - 1
    <2>1. sessions'[n][k] = [sessions[n][k] EXCEPT !.unsent = @ - 1]
      BY <1>2
    <2>2. u \in 0..Sends /\ j \in Job
      BY <1>2 DEF SessionsOf
    <2>3. u \in 1..Sends
      BY <1>2, <2>2, NodeAssumption
    <2>4. sessions'[n][k].unsent = u - 1
      BY <1>2, <2>1 DEF SessionsOf
    <2>. QED
      BY <1>3, <2>2, <2>3, <2>4
  <1> HIDE DEF u, j
  <1>5. SentOut(n)' = SentOut(n) \cup {<<k, u>>} /\ <<k, u>> \notin SentOut(n)
    <2>1. \A l \in 1..Len(sessions[n]) :
            sessions'[n][l].unsent = IF l = k THEN u - 1 ELSE sessions[n][l].unsent
      BY <1>2, <1>3, <1>4
    <2>2. sessions[n][k].unsent = u
      BY DEF u
    <2>3. Len(sessions'[n]) = Len(sessions[n])
      BY <1>2
    <2>4. \A l \in 1..Len(sessions[n]), x \in 1..Sends :
            x > sessions'[n][l].unsent <=> x > sessions[n][l].unsent \/ (l = k /\ x = u)
      <3> SUFFICES ASSUME NEW l \in 1..Len(sessions[n]), NEW x \in 1..Sends
                   PROVE  x > sessions'[n][l].unsent <=>
                            x > sessions[n][l].unsent \/ (l = k /\ x = u)
        OBVIOUS
      <3>1. CASE l = k
        <4>1. x > u - 1 <=> x > u \/ x = u
          BY <1>4, NodeAssumption
        <4>. QED
          BY <2>1, <2>2, <3>1, <4>1
      <3>2. CASE l # k
        BY <2>1, <3>2
      <3>. QED
        BY <3>1, <3>2
    <2>5. ~(u > sessions[n][k].unsent)
      BY <1>4, <2>2, NodeAssumption
    <2>6. ASSUME NEW x PROVE x \in SentOut(n)' <=> x \in SentOut(n) \cup {<<k, u>>}
      BY <1>4, <2>3, <2>4 DEF SentOut
    <2>7. <<k, u>> \notin SentOut(n)
      BY <2>5 DEF SentOut
    <2>. QED
      BY <2>6, <2>7
  <1>6. \A m \in Party \ {n} : SentOut(m)' = SentOut(m) /\ rx_party'[m] = rx_party[m]
    <2>1. rx_party \in [Party -> Channel(Job)]
      BY DEF IInv, Types, Channel
    <2>2. ASSUME NEW m \in Party \ {n}
          PROVE  SentOut(m)' = SentOut(m)
      <3>1. \A l \in 1..Len(sessions[m]) : sessions'[m][l].unsent = sessions[m][l].unsent
        BY <1>2, <1>3
      <3>2. Len(sessions'[m]) = Len(sessions[m])
        BY <1>2
      <3>. QED
        BY <3>1, <3>2 DEF SentOut
    <2>. QED
      BY <1>1, <2>1, <2>2
  <1>7. /\ Cardinality(SentOut(n)) \in Nat /\ Cardinality(SentOut(n)) + 1 <= Capacity
        /\ Cardinality(SentOut(n)') = Cardinality(SentOut(n)) + 1
    <2> DEFINE all == (1..Len(sessions[n])) \X (1..Sends)
    <2>1. SentOut(n) \in SUBSET all /\ SentOut(n) \cup {<<k, u>>} \in SUBSET all
      BY <1>4 DEF SentOut
    <2>2. /\ IsFiniteSet(SentOut(n)) /\ Cardinality(SentOut(n)) \in Nat
          /\ Cardinality(SentOut(n) \cup {<<k, u>>}) <= Capacity
      BY <2>1, SentFits
    <2>3. Cardinality(SentOut(n) \cup {<<k, u>>}) = Cardinality(SentOut(n)) + 1
      BY <1>5, <2>2, FS_AddElement
    <2>. QED
      BY <1>5, <2>2, <2>3
  <1>8. ch \in Channel(Job) /\ ch.unread \in Seq(Job) /\ Len(ch.unread) \in Nat
        /\ Len(ch.unread) <= Cardinality(SentOut(n))
    <2>1. ch \in Channel(Job)
      BY DEF IInv, Types, Channel
    <2>2. Len(ch.unread) <= Cardinality(SentOut(n))
      BY DEF RoomInv, Roomy
    <2>. QED
      BY <2>1, <2>2 DEF Channel
  <1>9. Len(ch.unread) < Capacity
    BY <1>7, <1>8, NodeAssumption
  <1>10. Send(ch, j) = [unread |-> Append(ch.unread, j), lagged |-> ch.lagged]
    BY <1>4, <1>8, <1>9, SendKeeps
  <1>11. Len(Append(ch.unread, j)) = Len(ch.unread) + 1
    BY <1>4, <1>8
  <1>12. rx_party'[n] = Send(ch, j)
    BY <1>1 DEF IInv, Types
  <1>13. Roomy(n)'
    <2>1. Roomy(n)
      BY DEF RoomInv
    <2>2. Len(rx_party'[n].unread) <= Cardinality(SentOut(n)')
      BY <1>7, <1>8, <1>10, <1>11, <1>12
    <2>3. rx_party'[n].lagged = ch.lagged
      BY <1>10, <1>12
    <2>. QED
      BY <1>1, <2>1, <2>2, <2>3 DEF Roomy
  <1>14. \A m \in Party \ {n} : Roomy(m)'
    BY <1>1, <1>6 DEF RoomInv, Roomy
  <1>. QED
    BY <1>13, <1>14 DEF RoomInv

\* A new session has sent nothing.
LEMMA StartIsRoomy ==
    ASSUME IInv, RoomInv, NEW n \in Party, NEW j \in Job, HandleSign(n, j),
           \A m \in Party : rx_inter'[m].lagged = rx_inter[m].lagged,
           rx_party' = rx_party, down' = down
    PROVE  RoomInv'
  <1>1. /\ \A m \in Party \ {n} : sessions'[m] = sessions[m]
        /\ Len(sessions'[n]) = Len(sessions[n]) + 1
        /\ \A k \in DOMAIN sessions'[n] :
             IF k = Len(sessions[n]) + 1 THEN sessions'[n][k] = NewSession(n, j)
             ELSE k \in DOMAIN sessions[n] /\ sessions'[n][k] = sessions[n][k]
    BY StartsOne
  <1>2. /\ Len(sessions[n]) \in Nat
        /\ DOMAIN sessions'[n] = 1..Len(sessions'[n])
    <2>1. sessions[n] \in Seq(SessionsOf) /\ sessions'[n] \in Seq(SessionsOf)
      BY StartsOne DEF IInv, Types
    <2>. QED
      BY <2>1
  <1>3. NewSession(n, j).unsent = Sends
    BY NewSessionRight
  <1>4. ASSUME NEW l \in 1..(Len(sessions[n]) + 1), NEW x \in 1..Sends
        PROVE  x > sessions'[n][l].unsent <=>
                 l \in 1..Len(sessions[n]) /\ x > sessions[n][l].unsent
    <2>1. l \in DOMAIN sessions'[n]
      BY <1>1, <1>2
    <2>2. CASE l = Len(sessions[n]) + 1
      <3>1. sessions'[n][l].unsent = Sends /\ l \notin 1..Len(sessions[n])
        BY <1>1, <1>2, <1>3, <2>1, <2>2
      <3>2. ~(x > Sends)
        BY NodeAssumption
      <3>. QED
        BY <3>1, <3>2
    <2>3. CASE l # Len(sessions[n]) + 1
      <3>1. sessions'[n][l] = sessions[n][l]
        BY <1>1, <2>1, <2>3
      <3>2. l \in 1..Len(sessions[n])
        BY <1>2, <2>3
      <3>. QED
        BY <3>1, <3>2
    <2>. QED
      BY <2>2, <2>3
  <1>5. SentOut(n)' = SentOut(n)
    <2>1. \A l \in 1..Len(sessions[n]) : l \in 1..(Len(sessions[n]) + 1)
      BY <1>2
    <2>2. ASSUME NEW y PROVE y \in SentOut(n)' <=> y \in SentOut(n)
      BY <1>1, <1>4, <2>1 DEF SentOut
    <2>. QED
      BY <2>2
  <1>6. \A m \in Party \ {n} : SentOut(m)' = SentOut(m)
    BY <1>1 DEF SentOut
  <1>. QED
    BY <1>5, <1>6 DEF RoomInv, Roomy

\* What is read makes room.
LEMMA PassIsRoomy ==
    ASSUME IInv, Room, RoomInv, NEW n \in Party, Passes(n)
    PROVE  RoomInv'
  <1>1. /\ rx_party[n].unread # << >> /\ rx_party' = [rx_party EXCEPT ![n] = Recv(@)]
        /\ rx_inter' = rx_inter /\ sessions' = sessions /\ down' = down
    BY DEF Passes, AsyncResponse
  <1>2. rx_party \in [Party -> Channel(Job)] /\ rx_party[n].unread \in Seq(Job)
        /\ rx_party[n] \in Channel(Job)
    BY DEF IInv, Types, Channel
  <1>3. Len(Tail(rx_party[n].unread)) = Len(rx_party[n].unread) - 1
        /\ Len(rx_party[n].unread) \in Nat
    BY <1>1, <1>2
  <1>4. Recv(rx_party[n]).unread = Tail(rx_party[n].unread)
        /\ Recv(rx_party[n]).lagged = rx_party[n].lagged
    BY <1>2 DEF Recv, Channel
  <1>5. Cardinality(SentOut(n)) \in Nat
    <2>1. SentOut(n) \in SUBSET ((1..Len(sessions[n])) \X (1..Sends))
      BY DEF SentOut
    <2>. QED
      BY <2>1, SentFits
  <1>6. SentOut(n)' = SentOut(n)
    BY <1>1 DEF SentOut
  <1>7. Roomy(n)'
    <2>1. Roomy(n) /\ rx_party'[n] = Recv(rx_party[n])
      BY <1>1, <1>2 DEF RoomInv
    <2>2. Len(rx_party'[n].unread) <= Cardinality(SentOut(n))
      <3>1. Len(rx_party[n].unread) <= Cardinality(SentOut(n))
        BY <2>1 DEF Roomy
      <3>2. Len(rx_party'[n].unread) = Len(rx_party[n].unread) - 1
        BY <1>3, <1>4, <2>1
      <3>. QED
        BY <1>3, <1>5, <3>1, <3>2
    <2>. QED
      BY <1>1, <1>4, <1>6, <2>1, <2>2 DEF Roomy
  <1>8. \A m \in Party \ {n} : Roomy(m)'
    BY <1>1, <1>2 DEF RoomInv, Roomy, SentOut
  <1>. QED
    BY <1>7, <1>8 DEF RoomInv

\* With room for all, the loop stops for its input only.
LEMMA RoomStep == Room /\ IInv /\ RoomInv /\ [Next]_vars => RoomInv'
  <1> SUFFICES ASSUME Room, IInv, RoomInv, [Next]_vars PROVE RoomInv'
    OBVIOUS
  <1>1. ASSUME UNCHANGED <<rx_inter, rx_party, sessions, down>> PROVE RoomInv'
    BY <1>1 DEF RoomInv, Roomy, SentOut
  <1>2. ASSUME NEW n \in Party, Reads(n) PROVE RoomInv'
    <2> DEFINE line == Head(stdin[n])
    <2>1. rx_inter' = rx_inter /\ rx_party' = rx_party /\ down' = down
      BY <1>2 DEF Reads, Input, channels
    <2>2. CASE line.verb # "sign"
      BY <1>1, <1>2, <2>1, <2>2 DEF Reads, Input
    <2>3. CASE line.verb = "sign"
      <3>1. line \in Line /\ HandleSign(n, line.job)
        BY <1>2, <2>3 DEF Reads, Input, IInv, Types
      <3>2. line.job \in Job
        BY <2>3, <3>1 DEF Line
      <3> HIDE DEF line
      <3>. QED
        BY <2>1, <3>1, <3>2, StartIsRoomy
    <2>. QED
      BY <2>2, <2>3
  <1>3. ASSUME NEW n \in Party, Takes(n) PROVE RoomInv'
    <2> DEFINE u == rx_inter[n].unread
    <2>1. /\ u # << >> /\ HandleSign(n, Head(u)) /\ u \in Seq(Job)
          /\ rx_inter' = [rx_inter EXCEPT ![n] = Recv(@)]
          /\ rx_party' = rx_party /\ down' = down
          /\ rx_inter \in [Party -> Channel(Job)]
      BY <1>3 DEF Takes, CallPeers, IInv, Types, Channel
    <2>2. Head(u) \in Job
      BY <2>1
    <2> HIDE DEF u
    <2>3. Recv(rx_inter[n]).lagged = rx_inter[n].lagged
      BY <2>1 DEF Recv, Channel
    <2>4. \A m \in Party : rx_inter'[m].lagged = rx_inter[m].lagged
      BY <2>1, <2>3
    <2>. QED
      BY <2>1, <2>2, <2>4, StartIsRoomy
  <1>4. ASSUME NEW n \in Party, NEW why \in Reasons, Panics(n, why) PROVE RoomInv'
    <2>1. /\ UNCHANGED <<rx_inter, rx_party, sessions>> /\ down' = [down EXCEPT ![n] = why]
          /\ why = "rx_inter" => rx_inter[n].lagged
          /\ why = "rx_party" => rx_party[n].lagged
      BY <1>4 DEF Panics, Panic, channels
    <2>2. ~rx_inter[n].lagged /\ ~rx_party[n].lagged
      BY DEF RoomInv, Roomy
    <2>3. why \in {"strip_prefix", "stdin"}
      BY <2>1, <2>2 DEF Reasons
    <2>4. \A m \in Party : down'[m] \in {down[m], "strip_prefix", "stdin"}
      <3>1. down \in [Party -> Downs]
        BY IsIInv DEF NetTypes
      <3>. QED
        BY <2>1, <2>3, <3>1
    <2>. QED
      BY <2>1, <2>4 DEF RoomInv, Roomy, SentOut
  <1>5. CASE Wiring
    <2>1. UNCHANGED <<channels, sessions>>
      BY <1>5, Apart
    <2>2. ASSUME NEW n \in Party, SwarmEvent(n) PROVE UNCHANGED down
      <3>1. ConnectionEstablished(n) => UNCHANGED down
        BY DEF ConnectionEstablished
      <3>2. ConnectionClosed(n) => UNCHANGED down
        BY ClosedIsListed
      <3>. QED
        BY <2>2, <3>1, <3>2 DEF SwarmEvent
    <2>3. (\E d, l \in Party : Dial(d, l)) \/ (\E c \in conns : Lose(c)) => UNCHANGED down
      BY DEF Dial, Lose
    <2>. QED
      BY <1>1, <1>4, <1>5, <2>1, <2>2, <2>3 DEF Wiring, channels
  <1>6. CASE Calling
    BY <1>2, <1>3, <1>6, FloodIsRoomy, SendIsRoomy, PassIsRoomy DEF Calling
  <1>7. CASE UNCHANGED vars
    BY <1>1, <1>7 DEF vars, channels
  <1>. QED
    BY <1>5, <1>6, <1>7, WhichStep

\* With channels that hold a call of every command and all messages of its
\* sessions, no expect() of the loop and no unwrap() of a peer to be removed
\* ever stops a node.
THEOREM OnlyInputStops == ASSUME Room PROVE Spec => []OnlyInputStopsANode
  <1>1. Init => RoomInv
    <2> SUFFICES ASSUME Init, NEW n \in Party PROVE Roomy(n)
      BY DEF RoomInv
    <2>1. SentOut(n) = {}
      BY DEF Init, SentOut
    <2>2. Cardinality(SentOut(n)) = 0
      BY <2>1, FS_EmptySet
    <2>. QED
      BY <2>2 DEF Init, Roomy, Empty
  <1>2. IInv /\ RoomInv /\ [Next]_vars => RoomInv'
    BY RoomStep
  <1>3. RoomInv => OnlyInputStopsANode
    BY DEF RoomInv, Roomy, OnlyInputStopsANode
  <1>. QED
    BY <1>1, <1>2, <1>3, Inductive, PTL DEF Spec
=============================================================================
