------------------------------ MODULE ListsProofs ------------------------------
(***************************************************************************)
(* What the operators of Lists return, for the proofs about the modules    *)
(* that use them: no member is lost, repeated or overtaken.                *)
(***************************************************************************)
EXTENDS Lists, FiniteSetTheorems, FunctionTheorems, SequenceTheorems, TLAPS

IsOrder(S, R) ==
  /\ \A x \in S : <<x, x>> \notin R
  /\ \A x, y \in S : x # y => <<x, y>> \in R \/ <<y, x>> \in R
  /\ \A x, y, z \in S : <<x, y>> \in R /\ <<y, z>> \in R => <<x, z>> \in R

\* f lists the members of S from first to last.
Lists(f, S, R) ==
  /\ f \in [1..Cardinality(S) -> S]
  /\ \A i, j \in 1..Cardinality(S) : i < j => <<f[i], f[j]>> \in R
  /\ \A x \in S : \E i \in 1..Cardinality(S) : f[i] = x

-------------------------------------------------------------------------------
\* Ranks follow the order.
LEMMA RankIncreases ==
  ASSUME NEW S, NEW R, IsFiniteSet(S), IsOrder(S, R),
         NEW x \in S, NEW y \in S, <<x, y>> \in R
  PROVE  RankIn(S, R, x) \in Nat /\ RankIn(S, R, y) \in Nat /\ RankIn(S, R, x) < RankIn(S, R, y)
<1> DEFINE X == {z \in S : <<z, x>> \in R}
           Y == {z \in S : <<z, y>> \in R}
<1>1. X \subseteq Y /\ x \in Y /\ x \notin X /\ Y \in SUBSET S /\ X \in SUBSET S
  BY DEF IsOrder
<1>2. RankIn(S, R, x) = Cardinality(X) /\ RankIn(S, R, y) = Cardinality(Y)
  BY DEF RankIn
<1> HIDE DEF X, Y
<1>3. IsFiniteSet(Y) /\ IsFiniteSet(X)
  BY <1>1, FS_Subset
<1>4. Cardinality(X) \in Nat /\ Cardinality(Y) \in Nat
  BY <1>3, FS_CardinalityType
<1>5. Cardinality(X) <= Cardinality(Y) /\ (Cardinality(Y) = Cardinality(X) => Y = X)
  BY <1>1, <1>3, FS_Subset
<1> QED
  BY <1>1, <1>2, <1>4, <1>5

\* Every rank below the number of members is taken.
LEMMA RankOnto ==
  ASSUME NEW S, NEW R, IsFiniteSet(S), IsOrder(S, R)
  PROVE  /\ Cardinality(S) \in Nat
         /\ \A x \in S : RankIn(S, R, x) \in 0..Cardinality(S) - 1
         /\ \A x, y \in S : RankIn(S, R, x) = RankIn(S, R, y) => x = y
         /\ \A k \in 0..Cardinality(S) - 1 : \E x \in S : RankIn(S, R, x) = k
<1> DEFINE n == Cardinality(S)
           rank == [x \in S |-> RankIn(S, R, x)]
<1>1. n \in Nat
  BY FS_CardinalityType
<1>2. ASSUME NEW x \in S PROVE RankIn(S, R, x) \in 0..n - 1
  <2> DEFINE X == {z \in S : <<z, x>> \in R}
  <2>1. X \in SUBSET S /\ x \notin X
    BY DEF IsOrder
  <2>2. RankIn(S, R, x) = Cardinality(X)
    BY DEF RankIn
  <2> HIDE DEF X
  <2>3. IsFiniteSet(X) /\ Cardinality(X) <= n /\ (n = Cardinality(X) => S = X)
    BY <2>1, FS_Subset
  <2>4. Cardinality(X) \in Nat
    BY <2>3, FS_CardinalityType
  <2> QED
    BY <1>1, <2>1, <2>2, <2>3, <2>4
<1>3. ASSUME NEW x \in S, NEW y \in S, RankIn(S, R, x) = RankIn(S, R, y) PROVE x = y
  <2>1. ASSUME NEW u \in S, NEW v \in S, <<u, v>> \in R
        PROVE  RankIn(S, R, u) # RankIn(S, R, v)
    BY <2>1, RankIncreases
  <2> QED
    BY <1>3, <2>1 DEF IsOrder
<1>4. rank \in [S -> 0..n - 1] /\ \A x \in S : rank[x] = RankIn(S, R, x)
  BY <1>2
<1> HIDE DEF rank
<1>5. rank \in Injection(S, 0..n - 1)
  BY <1>3, <1>4, Fun_IsInj
<1>6. IsFiniteSet(0..n - 1) /\ Cardinality(0..n - 1) = n
  BY <1>1, FS_Interval
<1>7. rank \in Surjection(S, 0..n - 1)
  BY <1>5, <1>6, FS_Injection
<1>8. \A k \in 0..n - 1 : \E x \in S : rank[x] = k
  BY <1>7 DEF Surjection
<1> QED
  BY <1>1, <1>2, <1>3, <1>4, <1>8

\* Ranked puts a finite set in order, without losing or repeating a member.
LEMMA RankedLists ==
  ASSUME NEW S, NEW R, IsFiniteSet(S), IsOrder(S, R)
  PROVE  Cardinality(S) \in Nat /\ Lists(Ranked(S, R), S, R)
<1> DEFINE n == Cardinality(S)
           f == Ranked(S, R)
<1>1. n \in Nat
  BY RankOnto
<1>2. ASSUME NEW k \in 1..n PROVE f[k] \in S /\ RankIn(S, R, f[k]) = k - 1
  <2>1. k - 1 \in 0..n - 1
    BY <1>1
  <2>2. \E x \in S : RankIn(S, R, x) = k - 1
    BY <2>1, RankOnto
  <2> QED
    BY <2>2 DEF Ranked
<1>3. f \in [1..n -> S]
  BY <1>2 DEF Ranked
<1>4. ASSUME NEW i \in 1..n, NEW j \in 1..n, i < j PROVE <<f[i], f[j]>> \in R
  <2>1. f[i] # f[j]
    BY <1>1, <1>2, <1>4
  <2>2. CASE <<f[j], f[i]>> \in R
    <3>1. RankIn(S, R, f[j]) < RankIn(S, R, f[i])
      BY <1>2, <2>2, RankIncreases
    <3> QED
      BY <1>1, <1>2, <1>4, <3>1
  <2> QED
    BY <1>2, <2>1, <2>2 DEF IsOrder
<1>5. ASSUME NEW x \in S PROVE \E i \in 1..n : f[i] = x
  <2>1. RankIn(S, R, x) + 1 \in 1..n /\ (RankIn(S, R, x) + 1) - 1 = RankIn(S, R, x)
    BY <1>1, RankOnto
  <2>2. RankIn(S, R, f[RankIn(S, R, x) + 1]) = RankIn(S, R, x) /\ f[RankIn(S, R, x) + 1] \in S
    BY <1>2, <2>1
  <2> QED
    BY <2>1, <2>2, RankOnto
<1> QED
  BY <1>1, <1>3, <1>4, <1>5 DEF Lists

\* Nothing else puts them in that order.
LEMMA RankedUnique ==
  ASSUME NEW S, NEW R, IsFiniteSet(S), IsOrder(S, R),
         NEW n \in Nat, n = Cardinality(S), NEW g \in [1..n -> S],
         \A i, j \in 1..n : i < j => <<g[i], g[j]>> \in R
  PROVE  g = Ranked(S, R)
<1> DEFINE f == Ranked(S, R)
<1>1. n \in Nat
  OBVIOUS
<1>2. ASSUME NEW i \in 1..n, NEW j \in 1..n, g[i] = g[j] PROVE i = j
  <2>1. ~(i < j) /\ ~(j < i)
    BY <1>2 DEF IsOrder
  <2> QED
    BY <1>1, <2>1
<1>3. g \in Injection(1..n, S)
  BY <1>2, Fun_IsInj
<1>4. IsFiniteSet(1..n) /\ Cardinality(1..n) = n
  BY <1>1, FS_Interval
<1>5. \A x \in S : \E i \in 1..n : g[i] = x
  <2>1. g \in Surjection(1..n, S)
    BY <1>3, <1>4, FS_Injection
  <2> QED
    BY <2>1 DEF Surjection
<1>6. ASSUME NEW k \in 1..n PROVE RankIn(S, R, g[k]) = k - 1
  <2> DEFINE below == {y \in S : <<y, g[k]>> \in R}
             h == [i \in 1..k - 1 |-> g[i]]
  <2>1. ASSUME NEW i \in 1..k - 1 PROVE g[i] \in below
    BY <1>1, <2>1
  <2>2. ASSUME NEW y \in below PROVE \E i \in 1..k - 1 : g[i] = y
    <3>1. PICK i \in 1..n : g[i] = y
      BY <1>5
    <3>2. i # k /\ ~(k < i)
      BY <3>1 DEF IsOrder
    <3>3. i \in 1..k - 1
      BY <1>1, <3>2
    <3> QED
      BY <3>1, <3>3
  <2>3. h \in [1..k - 1 -> below]
    BY <2>1
  <2>4. \A i, j \in 1..k - 1 : h[i] = h[j] => i = j
    BY <1>1, <1>2
  <2>5. \A y \in below : \E i \in 1..k - 1 : h[i] = y
    BY <2>2
  <2>6. RankIn(S, R, g[k]) = Cardinality(below)
    BY DEF RankIn
  <2> HIDE DEF h, below
  <2>7. h \in Bijection(1..k - 1, below)
    BY <2>3, <2>4, <2>5, Fun_IsBij
  <2>8. k - 1 \in Nat
    BY <1>1
  <2>9. ExistsBijection(1..k - 1, below)
    BY <2>7 DEF ExistsBijection
  <2> QED
    BY <2>6, <2>8, <2>9, FS_CountingElements
<1>7. f \in [1..n -> S] /\ \A k \in 1..n : RankIn(S, R, f[k]) = k - 1
  <2>1. ASSUME NEW k \in 1..n PROVE f[k] \in S /\ RankIn(S, R, f[k]) = k - 1
    <3>1. g[k] \in S /\ RankIn(S, R, g[k]) = k - 1
      BY <1>6
    <3> QED
      BY <3>1 DEF Ranked
  <2> QED
    BY <2>1 DEF Ranked
<1>8. \A k \in 1..n : f[k] = g[k]
  <2> TAKE k \in 1..n
  <2>1. RankIn(S, R, f[k]) = RankIn(S, R, g[k]) /\ f[k] \in S /\ g[k] \in S
    BY <1>6, <1>7
  <2> QED
    BY <2>1, RankOnto
<1>9. PICK h : h = f
  OBVIOUS
<1> HIDE DEF f
<1>10. h \in [1..n -> S] /\ \A k \in 1..n : h[k] = g[k]
  BY <1>7, <1>8, <1>9
<1>11. h = g
  BY <1>10
<1> QED
  BY <1>9, <1>11 DEF f

\* A finite set in an order has a first member.
LEMMA FirstInOrder ==
  ASSUME NEW S, NEW R, IsFiniteSet(S), IsOrder(S, R), S # {}
  PROVE  \E x \in S : \A y \in S : x # y => <<x, y>> \in R
<1> DEFINE n == Cardinality(S)
           f == Ranked(S, R)
<1>1. n \in Nat /\ Lists(f, S, R)
  BY RankedLists
<1>2. n # 0
  BY FS_EmptySet
<1>3. 1 \in 1..n /\ \A i \in 1..n : i # 1 => 1 < i
  BY <1>1, <1>2
<1> HIDE DEF n, f
<1>4. f[1] \in S
  BY <1>1, <1>3 DEF Lists, n
<1>5. ASSUME NEW y \in S, f[1] # y PROVE <<f[1], y>> \in R
  <2>1. PICK i \in 1..n : f[i] = y
    BY <1>1 DEF Lists, n
  <2> QED
    BY <1>1, <1>3, <1>5, <2>1 DEF Lists, n
<1> QED
  BY <1>4, <1>5

\* The positions of a list are finitely many, and they are in order.
LEMMA PlacesOrder ==
  ASSUME NEW E, NEW s \in Seq(E), NEW K
  PROVE  /\ IsFiniteSet(Places(s, K)) /\ Cardinality(Places(s, K)) \in Nat
         /\ IsOrder(Places(s, K), Earlier(Len(s)))
<1>1. Len(s) \in Nat
  OBVIOUS
<1>2. IsFiniteSet(1..Len(s)) /\ Places(s, K) \in SUBSET (1..Len(s))
  BY <1>1, FS_Interval DEF Places
<1>3. \A i, j \in 1..Len(s) : <<i, j>> \in Earlier(Len(s)) <=> i < j
  BY DEF Earlier
<1>4. IsOrder(Places(s, K), Earlier(Len(s)))
  BY <1>1, <1>2, <1>3 DEF IsOrder
<1>5. IsFiniteSet(Places(s, K))
  BY <1>2, FS_Subset
<1> QED
  BY <1>4, <1>5, FS_CardinalityType

\* at holds the positions of s whose members are kept.
Picks(at, s, K) ==
  /\ Keep(s, K) = [k \in 1..Len(at) |-> s[at[k]]]
  /\ Len(at) = Cardinality(Places(s, K))
  /\ \A i, j \in 1..Len(at) : i < j => at[i] < at[j]
  /\ \A k \in 1..Len(at) : s[at[k]] \in K
  /\ \A i \in 1..Len(s) : s[i] \in K => \E k \in 1..Len(at) : at[k] = i

\* Keep reads the list at some positions of it, in their order.
LEMMA KeepPlaces ==
  ASSUME NEW E, NEW s \in Seq(E), NEW K
  PROVE  \E at \in Seq(1..Len(s)) : Picks(at, s, K)
<1> DEFINE n == Cardinality(Places(s, K))
           at == Ranked(Places(s, K), Earlier(Len(s)))
<1>1. n \in Nat /\ Lists(at, Places(s, K), Earlier(Len(s)))
  BY PlacesOrder, RankedLists
<1>2. at \in [1..n -> Places(s, K)] /\ DOMAIN at = 1..n
  BY <1>1 DEF Lists
<1>3. Keep(s, K) = [k \in 1..n |-> s[at[k]]]
  BY <1>2 DEF Keep
<1>4. \A i, j \in 1..n : i < j => at[i] < at[j]
  BY <1>1 DEF Lists, Earlier
<1>5. \A i \in Places(s, K) : \E k \in 1..n : at[k] = i
  BY <1>1 DEF Lists
<1> HIDE DEF at, n
<1>6. at \in [1..n -> 1..Len(s)] /\ \A k \in 1..n : s[at[k]] \in K
  BY <1>2 DEF Places
<1>7. \A i \in 1..Len(s) : s[i] \in K => \E k \in 1..n : at[k] = i
  BY <1>5 DEF Places
<1>8. at \in Seq(1..Len(s)) /\ Len(at) = n
  BY <1>1, <1>6
<1> QED
  BY <1>3, <1>4, <1>6, <1>7, <1>8 DEF n, Picks

\* What is kept is a list of members of K.
LEMMA KeepType ==
  ASSUME NEW E, NEW s \in Seq(E), NEW K
  PROVE  /\ Keep(s, K) \in Seq(E) /\ Keep(s, K) \in Seq(E \cap K)
         /\ Len(Keep(s, K)) = Cardinality(Places(s, K))
<1>1. PICK at \in Seq(1..Len(s)) : Picks(at, s, K)
  BY KeepPlaces
<1> DEFINE t == [k \in 1..Len(at) |-> s[at[k]]]
<1>2. ASSUME NEW k \in 1..Len(at) PROVE s[at[k]] \in E \cap K
  BY <1>1 DEF Picks
<1>3. Len(at) \in Nat
  OBVIOUS
<1>4. t \in Seq(E \cap K) /\ Len(t) = Len(at)
  BY <1>2, <1>3
<1>5. t \in Seq(E)
  BY <1>2, <1>3
<1> HIDE DEF t
<1>6. Keep(s, K) = t
  BY <1>1 DEF t, Picks
<1> QED
  BY <1>1, <1>4, <1>5, <1>6 DEF Picks

\* It has the members of the list that are in K, and no other.
LEMMA KeepMembers ==
  ASSUME NEW E, NEW s \in Seq(E), NEW K
  PROVE  /\ \A k \in 1..Len(Keep(s, K)) :
              Keep(s, K)[k] \in K /\ \E i \in 1..Len(s) : s[i] = Keep(s, K)[k]
         /\ \A i \in 1..Len(s) :
              s[i] \in K => \E k \in 1..Len(Keep(s, K)) : Keep(s, K)[k] = s[i]
<1>1. PICK at \in Seq(1..Len(s)) : Picks(at, s, K)
  BY KeepPlaces
<1>2. Len(Keep(s, K)) = Len(at)
  BY <1>1, KeepType DEF Picks
<1>3. \A k \in 1..Len(at) : at[k] \in 1..Len(s) /\ Keep(s, K)[k] = s[at[k]]
  BY <1>1 DEF Picks
<1>4. ASSUME NEW k \in 1..Len(at)
      PROVE  Keep(s, K)[k] \in K /\ \E i \in 1..Len(s) : s[i] = Keep(s, K)[k]
  BY <1>1, <1>3 DEF Picks
<1>5. ASSUME NEW i \in 1..Len(s), s[i] \in K
      PROVE  \E k \in 1..Len(at) : Keep(s, K)[k] = s[i]
  BY <1>1, <1>3, <1>5 DEF Picks
<1> QED
  BY <1>2, <1>4, <1>5

\* No two of them change places.
LEMMA KeepOrder ==
  ASSUME NEW E, NEW s \in Seq(E), NEW K,
         NEW i \in 1..Len(Keep(s, K)), NEW j \in 1..Len(Keep(s, K)), i < j
  PROVE  \E p, q \in 1..Len(s) : p < q /\ s[p] = Keep(s, K)[i] /\ s[q] = Keep(s, K)[j]
<1>1. PICK at \in Seq(1..Len(s)) : Picks(at, s, K)
  BY KeepPlaces
<1>2. Len(Keep(s, K)) = Len(at)
  BY <1>1, KeepType DEF Picks
<1>3. i \in 1..Len(at) /\ j \in 1..Len(at) /\ at[i] \in 1..Len(s) /\ at[j] \in 1..Len(s)
  BY <1>1, <1>2 DEF Picks
<1> QED
  BY <1>1, <1>3 DEF Picks

\* A list without repetitions keeps none.
LEMMA KeepNoRepeats ==
  ASSUME NEW E, NEW s \in Seq(E), NEW K,
         \A i, j \in 1..Len(s) : s[i] = s[j] => i = j
  PROVE  \A i, j \in 1..Len(Keep(s, K)) : Keep(s, K)[i] = Keep(s, K)[j] => i = j
<1> SUFFICES ASSUME NEW i \in 1..Len(Keep(s, K)), NEW j \in 1..Len(Keep(s, K)), i < j,
                    Keep(s, K)[i] = Keep(s, K)[j]
             PROVE  FALSE
  <2>1. Len(Keep(s, K)) \in Nat
    BY KeepType, LenProperties
  <2> QED
    BY <2>1
<1>1. PICK p, q \in 1..Len(s) : p < q /\ s[p] = Keep(s, K)[i] /\ s[q] = Keep(s, K)[j]
  BY KeepOrder
<1> QED
  BY <1>1

\* Nor does a list that a new member is appended to.
LEMMA AppendNoRepeats ==
  ASSUME NEW E, NEW s \in Seq(E), NEW x \in E, \A i \in 1..Len(s) : s[i] # x,
         \A i, j \in 1..Len(s) : s[i] = s[j] => i = j
  PROVE  /\ Append(s, x) \in Seq(E)
         /\ \A i, j \in 1..Len(Append(s, x)) : Append(s, x)[i] = Append(s, x)[j] => i = j
<1>1. /\ Len(s) \in Nat /\ Append(s, x) \in Seq(E) /\ Len(Append(s, x)) = Len(s) + 1
      /\ \A i \in 1..Len(s) : Append(s, x)[i] = s[i]
      /\ Append(s, x)[Len(s) + 1] = x
  BY AppendProperties, LenProperties
<1> QED
  BY <1>1

\* What is kept of two lists in a row is what is kept of each.
LEMMA KeepConcat ==
  ASSUME NEW E, NEW s \in Seq(E), NEW t \in Seq(E), NEW K
  PROVE  Keep(s \o t, K) = Keep(s, K) \o Keep(t, K)
<1>1. PICK a \in Seq(1..Len(s)) : Picks(a, s, K)
  BY KeepPlaces
<1>2. PICK b \in Seq(1..Len(t)) : Picks(b, t, K)
  BY KeepPlaces
<1>3. PICK u : u = s \o t
  OBVIOUS
<1> DEFINE l == Len(s)
           n == Len(a)
           m == Len(b)
           g == [k \in 1..n + m |-> IF k <= n THEN a[k] ELSE l + b[k - n]]
           P == Places(u, K)
<1>4. l \in Nat /\ n \in Nat /\ m \in Nat /\ Len(t) \in Nat
  OBVIOUS
<1>5. /\ u \in Seq(E) /\ Len(u) = l + Len(t)
      /\ \A i \in 1..l : u[i] = s[i]
      /\ \A i \in 1..Len(t) : u[l + i] = t[i]
  BY <1>3, ConcatProperties, LenProperties
<1>6. /\ \A k \in 1..n : a[k] \in 1..l /\ s[a[k]] \in K
      /\ \A k \in 1..m : b[k] \in 1..Len(t) /\ t[b[k]] \in K
      /\ \A i, j \in 1..n : i < j => a[i] < a[j]
      /\ \A i, j \in 1..m : i < j => b[i] < b[j]
  BY <1>1, <1>2 DEF Picks
<1>7. ASSUME NEW k \in 1..n + m
      PROVE  \/ k \in 1..n /\ g[k] = a[k] /\ g[k] \in 1..l /\ u[g[k]] = s[a[k]]
             \/ k > n /\ k - n \in 1..m /\ g[k] = l + b[k - n] /\ g[k] \in l + 1..l + Len(t)
                /\ u[g[k]] = t[b[k - n]]
  <2>1. CASE k <= n
    <3>1. k \in 1..n
      BY <1>4, <2>1
    <3> QED
      BY <1>5, <1>6, <2>1, <3>1
  <2>2. CASE ~(k <= n)
    <3>1. k - n \in 1..m
      BY <1>4, <2>2
    <3>2. PICK q \in 1..Len(t) : q = b[k - n]
      BY <1>6, <3>1
    <3>3. g[k] = l + q
      BY <2>2, <3>2
    <3>4. u[l + q] = t[q]
      BY <1>5
    <3>5. k > n /\ l + q \in l + 1..l + Len(t)
      BY <1>4, <2>2
    <3> HIDE DEF g
    <3> QED
      BY <3>1, <3>2, <3>3, <3>4, <3>5
  <2> QED
    BY <2>1, <2>2
<1>8. ASSUME NEW k \in 1..n + m PROVE g[k] \in P
  <2> HIDE DEF g
  <2>1. PICK p : p = g[k]
    OBVIOUS
  <2>2. p \in 1..l \/ p \in l + 1..l + Len(t)
    BY <1>7, <2>1
  <2>3. p \in 1..l + Len(t)
    BY <1>4, <2>2
  <2>4. u[p] \in K
    <3>1. CASE k \in 1..n /\ u[p] = s[a[k]]
      BY <1>6, <3>1
    <3>2. CASE k - n \in 1..m /\ u[p] = t[b[k - n]]
      BY <1>6, <3>2
    <3> QED
      BY <1>7, <2>1, <3>1, <3>2
  <2> QED
    BY <1>5, <2>1, <2>3, <2>4 DEF Places
<1>9. ASSUME NEW i \in 1..n + m, NEW j \in 1..n + m, i < j PROVE g[i] < g[j]
  <2>1. CASE j \in 1..n
    <3>1. i \in 1..n
      BY <1>4, <1>9, <2>1
    <3> QED
      BY <1>4, <1>6, <1>9, <2>1, <3>1
  <2>2. CASE i \in 1..n /\ j > n
    <3>1. g[i] \in 1..l /\ g[j] \in l + 1..l + Len(t)
      BY <1>4, <1>7, <2>2
    <3> HIDE DEF g
    <3> QED
      BY <1>4, <3>1
  <2>3. CASE i > n /\ j > n
    <3>1. i - n \in 1..m /\ j - n \in 1..m /\ i - n < j - n
      BY <1>4, <1>9, <2>3
    <3>2. b[i - n] \in 1..Len(t) /\ b[j - n] \in 1..Len(t) /\ b[i - n] < b[j - n]
      BY <1>6, <3>1
    <3>3. g[i] = l + b[i - n] /\ g[j] = l + b[j - n]
      BY <1>4, <2>3
    <3>4. \A p, q \in 1..Len(t) : p < q => l + p < l + q
      BY <1>4
    <3>5. l + b[i - n] < l + b[j - n]
      BY <3>2, <3>4
    <3> QED
      BY <3>3, <3>5
  <2> QED
    BY <1>4, <2>1, <2>2, <2>3
<1>10. ASSUME NEW i \in P PROVE \E k \in 1..n + m : g[k] = i
  <2>1. i \in 1..Len(u) /\ u[i] \in K
    BY DEF Places
  <2>2. CASE i \in 1..l
    <3>1. PICK k \in 1..n : a[k] = i
      BY <1>1, <1>5, <2>1, <2>2 DEF Picks
    <3>2. k \in 1..n + m /\ g[k] = a[k]
      BY <1>4
    <3> QED
      BY <3>1, <3>2
  <2>3. CASE i \notin 1..l
    <3>1. i - l \in 1..Len(t) /\ l + (i - l) = i
      BY <1>4, <1>5, <2>1, <2>3
    <3>2. t[i - l] \in K
      BY <1>5, <2>1, <3>1
    <3>3. PICK k \in 1..m : b[k] = i - l
      BY <1>2, <3>1, <3>2 DEF Picks
    <3>4. n + k \in 1..n + m /\ ~(n + k <= n) /\ (n + k) - n = k
      BY <1>4
    <3>5. g[n + k] = l + b[k]
      BY <3>4
    <3> QED
      BY <3>1, <3>3, <3>4, <3>5
  <2> QED
    BY <2>2, <2>3
<1>11. g \in [1..n + m -> P]
  BY <1>8
<1>12. PICK c : c = n + m
  OBVIOUS
<1>13. c \in Nat
  BY <1>4, <1>12
<1>14. g \in [1..c -> P] /\ (\A i, j \in 1..c : i < j => g[i] < g[j])
       /\ \A i \in P : \E k \in 1..c : g[k] = i
  BY <1>9, <1>10, <1>11, <1>12
<1>15. IsFiniteSet(P) /\ IsOrder(P, Earlier(Len(u))) /\ P \subseteq 1..Len(u)
  BY <1>5, PlacesOrder DEF Places
<1> HIDE DEF g
<1>16. \A i, j \in 1..c : i < j => g[i] # g[j] /\ <<g[i], g[j]>> \in Earlier(Len(u))
  <2> SUFFICES ASSUME NEW i \in 1..c, NEW j \in 1..c, i < j
               PROVE  g[i] # g[j] /\ <<g[i], g[j]>> \in Earlier(Len(u))
    OBVIOUS
  <2>1. g[i] \in 1..Len(u) /\ g[j] \in 1..Len(u) /\ g[i] < g[j]
    BY <1>14, <1>15
  <2> QED
    BY <2>1 DEF Earlier
<1>17. c = Cardinality(P)
  <2>1. \A i, j \in 1..c : g[i] = g[j] => i = j
    <3> TAKE i \in 1..c, j \in 1..c
    <3>1. i < j \/ j < i \/ i = j
      BY <1>13
    <3> QED
      BY <1>16, <3>1
  <2> HIDE DEF P
  <2>2. g \in Bijection(1..c, P)
    BY <1>14, <2>1, Fun_IsBij
  <2>3. ExistsBijection(1..c, P)
    BY <2>2 DEF ExistsBijection
  <2> QED
    BY <1>13, <2>3, FS_CountingElements
<1>18. g = Ranked(P, Earlier(Len(u)))
  <2> HIDE DEF P
  <2> QED
    BY <1>13, <1>14, <1>15, <1>16, <1>17, RankedUnique
<1>19. Keep(u, K) = [k \in 1..c |-> u[g[k]]]
  BY <1>14, <1>18 DEF Keep
<1>20. /\ Keep(s, K) = [k \in 1..n |-> s[a[k]]] /\ Keep(s, K) \in Seq(E)
       /\ Keep(t, K) = [k \in 1..m |-> t[b[k]]] /\ Keep(t, K) \in Seq(E)
  BY <1>1, <1>2, KeepType DEF Picks
<1>21. Len(Keep(s, K)) = n /\ Len(Keep(t, K)) = m
  BY <1>4, <1>20
<1> DEFINE h == Keep(s, K) \o Keep(t, K)
<1>22. /\ h \in Seq(E) /\ Len(h) = c /\ h = [k \in 1..c |-> h[k]]
       /\ \A k \in 1..n : h[k] = s[a[k]]
       /\ \A k \in 1..m : h[n + k] = t[b[k]]
  <2>1. PICK v \in Seq(E) : v = Keep(s, K)
    BY <1>20
  <2>2. PICK w \in Seq(E) : w = Keep(t, K)
    BY <1>20
  <2>3. /\ Len(v) = n /\ \A k \in 1..n : v[k] = s[a[k]]
        /\ Len(w) = m /\ \A k \in 1..m : w[k] = t[b[k]]
    BY <1>20, <1>21, <2>1, <2>2
  <2>4. PICK z : z = v \o w
    OBVIOUS
  <2>5. /\ z \in Seq(E) /\ Len(z) = n + m
        /\ \A k \in 1..n + m : z[k] = IF k <= n THEN v[k] ELSE w[k - n]
    <3> HIDE DEF n, m, h
    <3>1. /\ v \o w \in Seq(E) /\ Len(v \o w) = Len(v) + Len(w)
          /\ \A k \in 1..Len(v) + Len(w) :
               (v \o w)[k] = IF k <= Len(v) THEN v[k] ELSE w[k - Len(v)]
      BY ONLY <2>1, <2>2, ConcatProperties
    <3>2. Len(v) = n /\ Len(w) = m
      BY <2>3
    <3> QED
      BY ONLY <2>4, <3>1, <3>2
  <2>6. z = [k \in 1..n + m |-> z[k]]
    <3> HIDE DEF n, m
    <3>1. n + m \in Nat
      BY <1>4
    <3>2. DOMAIN z = 1..n + m
      BY <2>5, <3>1, LenProperties
    <3> QED
      BY <2>5, <3>2, LenProperties
  <2>7. ASSUME NEW k \in 1..n PROVE z[k] = s[a[k]]
    <3>1. k \in 1..n + m /\ k <= n
      BY <1>4
    <3> QED
      BY <2>3, <2>5, <3>1
  <2>8. ASSUME NEW k \in 1..m PROVE z[n + k] = t[b[k]]
    <3>1. n + k \in 1..n + m /\ ~(n + k <= n) /\ (n + k) - n = k
      BY <1>4
    <3> QED
      BY <2>3, <2>5, <3>1
  <2>9. z = h
    BY <2>1, <2>2, <2>4
  <2> HIDE DEF h
  <2> QED
    BY <1>12, <2>5, <2>6, <2>7, <2>8, <2>9
<1> HIDE DEF h
<1>23. \A k \in 1..c : h[k] = u[g[k]]
  <2> TAKE k \in 1..c
  <2>1. k \in 1..n + m
    BY <1>12
  <2>2. CASE k \in 1..n
    <3>1. h[k] = s[a[k]]
      BY <1>22, <2>2
    <3>2. u[g[k]] = s[a[k]]
      BY <1>4, <1>7, <2>1, <2>2
    <3> QED
      BY <3>1, <3>2
  <2>3. CASE k \notin 1..n
    <3>1. k - n \in 1..m /\ u[g[k]] = t[b[k - n]] /\ k > n
      BY <1>4, <1>7, <2>1, <2>3
    <3>2. n + (k - n) = k
      BY <1>4, <2>1
    <3>3. h[k] = t[b[k - n]]
      BY <1>22, <3>1, <3>2
    <3> QED
      BY <3>1, <3>3
  <2> QED
    BY <2>2, <2>3
<1>24. Keep(u, K) = h
  BY <1>19, <1>22, <1>23
<1> QED
  BY <1>3, <1>24 DEF h

\* A list keeps all of its members, or none, when they are all in K, or none is.
LEMMA KeepAllOrNone ==
  ASSUME NEW E, NEW s \in Seq(E), NEW K
  PROVE  /\ (\A i \in 1..Len(s) : s[i] \in K) => Keep(s, K) = s
         /\ (\A i \in 1..Len(s) : s[i] \notin K) => Keep(s, K) = <<>>
<1>1. Keep(s, K) \in Seq(E) /\ Len(s) \in Nat
  BY KeepType, LenProperties
<1>2. ASSUME \A i \in 1..Len(s) : s[i] \notin K PROVE Keep(s, K) = <<>>
  <2>1. \A k \in 1..Len(Keep(s, K)) : FALSE
    BY <1>2, KeepMembers
  <2>2. Len(Keep(s, K)) = 0
    <3>1. Len(Keep(s, K)) \in Nat
      BY <1>1
    <3> QED
      BY <2>1, <3>1
  <2> QED
    BY <1>1, <2>2, EmptySeq
<1>3. ASSUME \A i \in 1..Len(s) : s[i] \in K PROVE Keep(s, K) = s
  <2> DEFINE n == Len(s)
             g == [k \in 1..n |-> k]
             P == Places(s, K)
  <2>1. P = 1..n
    BY <1>3 DEF Places
  <2>2. IsFiniteSet(P) /\ IsOrder(P, Earlier(n)) /\ Cardinality(1..n) = n
    <3>1. Cardinality(1..n) = n
      <4>1. n \in Int /\ 1 \in Int /\ n \in Nat
        BY <1>1
      <4>2. Cardinality(1..n) = IF 1 > n THEN 0 ELSE n - 1 + 1
        BY <4>1, FS_Interval
      <4> QED
        BY <4>1, <4>2
    <3> QED
      BY <3>1, PlacesOrder
  <2>3. g \in [1..n -> 1..n] /\ \A i, j \in 1..n : i < j => <<g[i], g[j]>> \in Earlier(n)
    BY DEF Earlier
  <2>4. \A k \in 1..n : g[k] = k
    OBVIOUS
  <2> HIDE DEF g, P
  <2>5. g = Ranked(P, Earlier(n))
    BY <1>1, <2>1, <2>2, <2>3, RankedUnique
  <2>6. Keep(s, K) = [k \in 1..n |-> s[g[k]]]
    BY <2>3, <2>5 DEF Keep, P
  <2>7. [k \in 1..n |-> s[g[k]]] = [k \in 1..n |-> s[k]]
    BY <2>4
  <2> QED
    BY <2>6, <2>7
<1> QED
  BY <1>2, <1>3
================================================================================
