----------------------------- MODULE MiningProofs -----------------------------
(***************************************************************************)
(* Proofs about the miner: what its walk and its Merkle root say of each   *)
(* other and of the block, what a block pays and burns, and where the      *)
(* controller of the difficulty goes.                                      *)
(***************************************************************************)
EXTENDS MiningInvariant, Induction

-----------------------------------------------------------------------------
(* Iteration.  A fold that does not look at the element repeats a step; the *)
(* two that are repeated, on values that no set is given for.               *)

\* A level is paired while it has more than its root.
Up(level) == IF Len(level) > 1 THEN NextLevel(level) ELSE level

\* An access: the mix picks an element and absorbs it.
Access(dag, mix) == Absorb(mix, dag[(mix % Len(dag)) + 1])

Repeated(what, dag, y) == IF what = "levels" THEN Up(y) ELSE Access(dag, y)

\* What FoldLeft unfolds to: its value at 1..j is that after j steps.
Iterates(what, dag, base, k) ==
  CHOOSE g : g = [x \in SUBSET (1..k) |->
                    IF x = {} THEN base ELSE Repeated(what, dag, g[x \ {Max(x)}])]

\* The iterates follow from one another.
LEMMA IteratesFollow ==
  ASSUME NEW what, NEW dag, NEW base, NEW k \in Nat
  PROVE  LET F == Iterates(what, dag, base, k)
         IN  /\ F[1..0] = base
             /\ \A j \in 0..(k - 1) : F[1..(j + 1)] = Repeated(what, dag, F[1..j])
  <1> DEFINE Value(g, x) == IF x = {} THEN base ELSE Repeated(what, dag, g[x \ {Max(x)}])
             Body(g) == [x \in SUBSET (1..k) |-> Value(g, x)]
             UpTo(n) == \E g : /\ g = [x \in SUBSET (1..k) |-> g[x]]
                               /\ \A x \in SUBSET (1..k) :
                                    Cardinality(x) <= n => g[x] = Value(g, x)
             T == {n \in Nat : UpTo(n)}
             F == Iterates(what, dag, base, k)
  <1>0. IsFiniteSet(1..k) /\ Cardinality(1..k) = k
    <2>1. 1 \in Int /\ k \in Int
      OBVIOUS
    <2>2. IsFiniteSet(1..k) /\ Cardinality(1..k) = IF 1 > k THEN 0 ELSE k - 1 + 1
      BY <2>1, FS_Interval
    <2> QED  BY <2>2
  <1>1. ASSUME NEW x \in SUBSET (1..k)
        PROVE  IsFiniteSet(x) /\ Cardinality(x) \in Nat /\ Cardinality(x) <= k
    <2>1. IsFiniteSet(x) /\ Cardinality(x) <= Cardinality(1..k)
      BY <1>0, FS_Subset
    <2> QED  BY <2>1, <1>0, FS_CardinalityType
  <1>2. \A x \in SUBSET (1..k) : Cardinality(x) <= k
    BY <1>1
  <1>3. ASSUME NEW x \in SUBSET (1..k), x # {}
        PROVE  /\ Max(x) \in x /\ x \ {Max(x)} \in SUBSET (1..k)
               /\ Cardinality(x \ {Max(x)}) = Cardinality(x) - 1
    <2>1. Max(x) \in x
      BY <1>3, MaxOfInterval
    <2> QED  BY <2>1, <1>1, FS_RemoveElement
  <1>4. 0 \in T
    <2> DEFINE g == [x \in SUBSET (1..k) |-> base]
    <2>1. \A x \in SUBSET (1..k) : Cardinality(x) <= 0 => x = {}
      BY <1>1, FS_EmptySet
    <2>2. UpTo(0)
      <3>1. g = [x \in SUBSET (1..k) |-> g[x]]
        OBVIOUS
      <3>2. \A x \in SUBSET (1..k) : Cardinality(x) <= 0 => g[x] = Value(g, x)
        BY <2>1
      <3> QED  BY <3>1, <3>2
    <2> QED  BY <2>2
  <1>5. ASSUME NEW n \in T  PROVE  n + 1 \in T
    <2>1. PICK g : /\ g = [x \in SUBSET (1..k) |-> g[x]]
                   /\ \A x \in SUBSET (1..k) : Cardinality(x) <= n => g[x] = Value(g, x)
      OBVIOUS
    <2> DEFINE h == [x \in SUBSET (1..k) |->
                       IF Cardinality(x) <= n THEN g[x] ELSE Value(g, x)]
    <2>2. h = [x \in SUBSET (1..k) |-> h[x]]
      OBVIOUS
    <2>3. \A x \in SUBSET (1..k) :
            /\ Cardinality(x) <= n => h[x] = g[x]
            /\ ~(Cardinality(x) <= n) => h[x] = Value(g, x)
      OBVIOUS
    <2> HIDE DEF h
    <2>4. ASSUME NEW x \in SUBSET (1..k), Cardinality(x) <= n + 1
          PROVE  h[x] = Value(h, x)
      <3>1. h[x] = Value(g, x)
        BY <2>1, <2>3
      <3>2. CASE x = {}
        BY <3>1, <3>2
      <3>3. CASE x # {}
        <4>1. x \ {Max(x)} \in SUBSET (1..k) /\ Cardinality(x \ {Max(x)}) <= n
          BY <3>3, <1>1, <1>3, <2>4
        <4>2. h[x \ {Max(x)}] = g[x \ {Max(x)}]
          BY <4>1, <2>3
        <4> QED  BY <3>1, <3>3, <4>2
      <3> QED  BY <3>2, <3>3
    <2>5. UpTo(n + 1)
      <3> HIDE DEF Value
      <3> QED  BY <2>2, <2>4
    <2> HIDE DEF UpTo
    <2> QED  BY <2>5
  <1> HIDE DEF T
  <1>6. T = Nat
    <2>1. T \in SUBSET Nat
      BY DEF T
    <2> QED  BY <2>1, <1>4, <1>5, NatSetInduction
  <1>7. \E g : g = Body(g)
    <2> HIDE DEF Value
    <2>1. UpTo(k)
      BY <1>6 DEF T
    <2>2. PICK g : /\ g = [x \in SUBSET (1..k) |-> g[x]]
                   /\ \A x \in SUBSET (1..k) : Cardinality(x) <= k => g[x] = Value(g, x)
      BY <2>1
    <2>3. \A x \in SUBSET (1..k) : g[x] = Value(g, x)
      BY <2>2, <1>2
    <2>4. [x \in SUBSET (1..k) |-> g[x]] = [x \in SUBSET (1..k) |-> Value(g, x)]
      BY <2>3
    <2> QED  BY <2>2, <2>4
  <1>8. F = Body(F)
    <2>1. F = CHOOSE g : g = Body(g)
      BY DEF Iterates
    <2> HIDE DEF F, Body
    <2> QED  BY <2>1, <1>7
  <1> HIDE DEF F
  <1>9. F[1..0] = base
    BY <1>8
  <1>10. ASSUME NEW j \in 0..(k - 1)  PROVE  F[1..(j + 1)] = Repeated(what, dag, F[1..j])
    <2>1. 1..(j + 1) \in SUBSET (1..k) /\ 1..(j + 1) # {}
      <3>1. j \in Nat /\ j + 1 <= k /\ 1 \in 1..(j + 1)
        BY <1>10
      <3> QED  BY <3>1
    <2>2. Max(1..(j + 1)) = j + 1
      BY <1>10, MaxOfInterval
    <2>3. (1..(j + 1)) \ {j + 1} = 1..j
      BY <1>10
    <2>4. F[1..(j + 1)] = Body(F)[1..(j + 1)]
      BY <1>8
    <2> QED  BY <2>1, <2>2, <2>3, <2>4
  <1> QED  BY <1>9, <1>10 DEF F

\* Iterations of different lengths agree as far as both go.
LEMMA IteratesAgree ==
  ASSUME NEW what, NEW dag, NEW base, NEW k \in Nat, NEW m \in Nat, k <= m
  PROVE  Iterates(what, dag, base, k)[1..k] = Iterates(what, dag, base, m)[1..k]
  <1> DEFINE F == Iterates(what, dag, base, k)
             G == Iterates(what, dag, base, m)
             T == {j \in 0..k : F[1..j] = G[1..j]}
  <1>1. F[1..0] = base /\ \A j \in 0..(k - 1) : F[1..(j + 1)] = Repeated(what, dag, F[1..j])
    BY IteratesFollow
  <1>2. G[1..0] = base /\ \A j \in 0..(m - 1) : G[1..(j + 1)] = Repeated(what, dag, G[1..j])
    BY IteratesFollow
  <1> HIDE DEF F, G
  <1>3. 0 \in T
    BY <1>1, <1>2
  <1>4. \A j \in 0..(k - 1) : j \in T => j + 1 \in T
    BY <1>1, <1>2
  <1> HIDE DEF T
  <1>5. \A j \in 0..k : j \in T
    BY <1>3, <1>4, BoundedInduction
  <1> QED  BY <1>5 DEF T, F, G

-----------------------------------------------------------------------------
(* Walks.                                                                  *)

\* One more access.
LEMMA WalkSteps ==
  ASSUME NEW dag, NEW mix, NEW k \in Nat
  PROVE  /\ Walk(dag, mix, 0) = mix
         /\ Walk(dag, mix, k + 1) = Access(dag, Walk(dag, mix, k))
  <1> DEFINE I(n) == Iterates("walk", dag, mix, n)
  <1>1. ASSUME NEW n \in Nat  PROVE  Walk(dag, mix, n) = I(n)[1..n]
    BY DEF Walk, FoldLeft, MapThenFoldSet, Iterates, Repeated, Access
  <1>2. ASSUME NEW n \in Nat
        PROVE  /\ I(n)[1..0] = mix
               /\ \A j \in 0..(n - 1) : I(n)[1..(j + 1)] = Access(dag, I(n)[1..j])
    BY IteratesFollow DEF Repeated
  <1>3. \A n \in Nat, m \in Nat : n <= m => I(n)[1..n] = I(m)[1..n]
    BY IteratesAgree
  <1> HIDE DEF I
  <1>4. k + 1 \in Nat /\ k <= k + 1 /\ k \in 0..((k + 1) - 1) /\ 0 \in Nat
    OBVIOUS
  <1>5. Walk(dag, mix, 0) = mix
    BY <1>1, <1>2, <1>4
  <1>6. I(k + 1)[1..(k + 1)] = Access(dag, I(k + 1)[1..k])
    BY <1>2, <1>4
  <1>7. I(k)[1..k] = I(k + 1)[1..k]
    BY <1>3, <1>4
  <1> QED  BY <1>1, <1>4, <1>5, <1>6, <1>7

\* A walk goes on from where another ended.
LEMMA WalkGoesOn ==
  ASSUME NEW dag, NEW mix, NEW k \in Nat, NEW m \in Nat
  PROVE  Walk(dag, mix, k + m) = Walk(dag, Walk(dag, mix, k), m)
  <1> DEFINE from == Walk(dag, mix, k)
             T == {n \in Nat : Walk(dag, mix, k + n) = Walk(dag, from, n)}
  <1>1. 0 \in T
    BY WalkSteps
  <1>2. ASSUME NEW n \in T  PROVE  n + 1 \in T
    <2>1. k + n \in Nat /\ k + (n + 1) = (k + n) + 1
      OBVIOUS
    <2>2. Walk(dag, mix, (k + n) + 1) = Access(dag, Walk(dag, mix, k + n))
      BY <2>1, WalkSteps
    <2> HIDE DEF from
    <2>3. Walk(dag, from, n + 1) = Access(dag, Walk(dag, from, n))
      BY WalkSteps
    <2> QED  BY <2>1, <2>2, <2>3
  <1> HIDE DEF T
  <1>3. T = Nat
    <2>1. T \in SUBSET Nat
      BY DEF T
    <2> QED  BY <2>1, <1>1, <1>2, NatSetInduction
  <1> QED  BY <1>3 DEF T

-----------------------------------------------------------------------------
(* Merkle roots.                                                           *)

List(s) == Len(s) \in Nat /\ DOMAIN s = 1..Len(s) /\ s = [i \in 1..Len(s) |-> s[i]]

Distinct(s) == \A i, j \in 1..Len(s) : s[i] = s[j] => i = j

NoPair(x) == \A l, r : x # PairHash(l, r)

\* A pair hash is that of one pair.
LEMMA PairsBind ==
  \A l, r, x, y : PairHash(l, r) = PairHash(x, y) => l = x /\ r = y
  BY DEF PairHash

\* Lists of the same length and elements are the same.
LEMMA SameList ==
  ASSUME NEW s, List(s), NEW t, List(t), Len(s) = Len(t),
         \A i \in 1..Len(s) : s[i] = t[i]
  PROVE  s = t
  <1> DEFINE n == Len(s)
  <1>1. [i \in 1..n |-> s[i]] = [i \in 1..n |-> t[i]]
    OBVIOUS
  <1> QED  BY <1>1 DEF List

\* A list that is not empty has one element or more.
LEMMA ListLength ==
  ASSUME NEW s, List(s), Len(s) >= 1
  PROVE  /\ Len(s) \in Nat
         /\ Len(s) = 1 \/ Len(s) > 1
         /\ Len(s) > 1 => Len(s) # 1
  BY DEF List

\* The places of a level and of the one above it.
LEMMA NextLevelPlaces ==
  ASSUME NEW s, List(s), Len(s) > 1
  PROVE  /\ List(NextLevel(s))
         /\ Len(NextLevel(s)) = (Len(s) + 1) \div 2
         /\ \A i \in 1..((Len(s) + 1) \div 2) :
              /\ 2 * i - 1 \in 1..Len(s)
              /\ NextLevel(s)[i]
                   = PairHash(s[2 * i - 1], IF 2 * i <= Len(s) THEN s[2 * i] ELSE s[2 * i - 1])
  <1> DEFINE n == Len(s)
             m == (n + 1) \div 2
             pair(i) == PairHash(s[2 * i - 1], IF 2 * i <= n THEN s[2 * i] ELSE s[2 * i - 1])
  <1>1. n \in Nat /\ n > 1
    BY DEF List
  <1> HIDE DEF n
  <1>2. m \in Nat
    BY <1>1
  <1>3. \A i \in 1..m : 2 * i - 1 \in 1..n
    BY <1>1
  <1>4. NextLevel(s) = [i \in 1..m |-> pair(i)]
    BY DEF NextLevel, n
  <1> HIDE DEF m, pair
  <1>5. Len(NextLevel(s)) = m /\ DOMAIN NextLevel(s) = 1..m
        /\ \A i \in 1..m : NextLevel(s)[i] = pair(i)
    BY <1>2, <1>4
  <1>6. NextLevel(s) = [i \in 1..m |-> NextLevel(s)[i]]
    BY <1>4
  <1> QED  BY <1>2, <1>3, <1>5, <1>6 DEF List, n, m, pair

\* What Up does to the length of a list, and to its first element.
LEMMA UpLength ==
  ASSUME NEW s, List(s), Len(s) >= 1
  PROVE  /\ List(Up(s)) /\ Len(Up(s)) >= 1
         /\ Len(s) = 1 => Up(s) = s
         /\ Len(s) > 1 => /\ Len(Up(s)) < Len(s)
                          /\ \E x : Up(s)[1] = PairHash(s[1], x)
  <1>1. CASE Len(s) = 1
    BY <1>1 DEF Up
  <1>2. CASE Len(s) > 1
    <2>1. Up(s) = NextLevel(s)
      BY <1>2 DEF Up
    <2>2. Len(s) \in Nat
      BY DEF List
    <2>3. 1 \in 1..((Len(s) + 1) \div 2) /\ (Len(s) + 1) \div 2 < Len(s)
      BY <1>2, <2>2
    <2>4. \E x : Up(s)[1] = PairHash(s[1], x)
      <3>1. NextLevel(s)[1]
              = PairHash(s[2 * 1 - 1], IF 2 * 1 <= Len(s) THEN s[2 * 1] ELSE s[2 * 1 - 1])
        BY <1>2, <2>3, NextLevelPlaces
      <3>2. NextLevel(s)[1] = PairHash(s[1], s[2])
        BY <3>1, <1>2, <2>2
      <3> QED  BY <2>1, <3>2
    <2>5. List(NextLevel(s)) /\ Len(NextLevel(s)) = (Len(s) + 1) \div 2
      BY <1>2, NextLevelPlaces
    <2>6. (Len(s) + 1) \div 2 >= 1
      BY <1>2, <2>2
    <2> QED  BY <1>2, <2>1, <2>2, <2>3, <2>4, <2>5, <2>6
  <1> QED  BY <1>1, <1>2, ListLength

\* A shorter list does not get the longer one.
LEMMA UpMonotone ==
  ASSUME NEW s, List(s), Len(s) >= 1, NEW t, List(t), Len(t) >= 1, Len(t) <= Len(s)
  PROVE  Len(Up(t)) <= Len(Up(s))
  <1>1. Len(s) \in Nat /\ Len(t) \in Nat
    BY DEF List
  <1>2. CASE Len(t) = 1
    <2>1. Up(t) = t /\ Len(Up(s)) >= 1
      BY <1>2, UpLength
    <2> QED  BY <1>2, <2>1
  <1>3. CASE Len(t) > 1
    <2>1. Len(s) > 1
      BY <1>1, <1>3
    <2>2. Len(NextLevel(t)) = (Len(t) + 1) \div 2 /\ Len(NextLevel(s)) = (Len(s) + 1) \div 2
      BY <1>3, <2>1, NextLevelPlaces
    <2>3. Up(t) = NextLevel(t) /\ Up(s) = NextLevel(s)
      BY <1>3, <2>1 DEF Up
    <2> QED  BY <1>1, <2>2, <2>3
  <1> QED  BY <1>2, <1>3, ListLength

\* A level without repetitions makes one.
LEMMA UpDistinct ==
  ASSUME NEW s, List(s), Len(s) >= 1, Distinct(s)
  PROVE  Distinct(Up(s))
  <1>1. CASE Len(s) = 1
    BY <1>1, UpLength
  <1>2. CASE Len(s) > 1
    <2>1. Up(s) = NextLevel(s) /\ Len(s) \in Nat
      BY <1>2 DEF Up, List
    <2>2. ASSUME NEW i \in 1..Len(Up(s)), NEW j \in 1..Len(Up(s)), Up(s)[i] = Up(s)[j]
          PROVE  i = j
      <3>1. i \in 1..((Len(s) + 1) \div 2) /\ j \in 1..((Len(s) + 1) \div 2)
        BY <1>2, <2>1, <2>2, NextLevelPlaces
      <3>2. 2 * i - 1 \in 1..Len(s) /\ 2 * j - 1 \in 1..Len(s)
        BY <1>2, <3>1, NextLevelPlaces
      <3>3. s[2 * i - 1] = s[2 * j - 1]
        BY <1>2, <2>1, <2>2, <3>1, NextLevelPlaces, PairsBind
      <3>4. 2 * i - 1 = 2 * j - 1
        BY <3>2, <3>3 DEF Distinct
      <3> QED  BY <2>1, <3>1, <3>4
    <2> QED  BY <2>2 DEF Distinct
  <1> QED  BY <1>1, <1>2, ListLength

\* A level without repetitions is the only one of its length or less that makes
\* the level above it: an odd last element paired with itself is told from two
\* equal ones.
LEMMA NextLevelBinds ==
  ASSUME NEW s, List(s), Distinct(s), NEW t, List(t), Len(t) <= Len(s), Len(t) > 1,
         NextLevel(s) = NextLevel(t)
  PROVE  s = t
  <1> DEFINE n == Len(s)
             m == Len(t)
             h == (n + 1) \div 2
  <1>1. n \in Nat /\ m \in Nat /\ n > 1 /\ m > 1 /\ m <= n
    BY DEF List
  <1>2. h = (m + 1) \div 2
    BY <1>1, NextLevelPlaces
  <1>3. ASSUME NEW i \in 1..h
        PROVE  /\ 2 * i - 1 \in 1..n /\ 2 * i - 1 \in 1..m
               /\ s[2 * i - 1] = t[2 * i - 1]
               /\ (IF 2 * i <= n THEN s[2 * i] ELSE s[2 * i - 1])
                    = (IF 2 * i <= m THEN t[2 * i] ELSE t[2 * i - 1])
    <2>1. i \in 1..((Len(s) + 1) \div 2) /\ i \in 1..((Len(t) + 1) \div 2)
      BY <1>2
    <2>2. /\ 2 * i - 1 \in 1..Len(s)
          /\ NextLevel(s)[i]
               = PairHash(s[2 * i - 1], IF 2 * i <= Len(s) THEN s[2 * i] ELSE s[2 * i - 1])
      BY <1>1, <2>1, NextLevelPlaces
    <2>3. /\ 2 * i - 1 \in 1..Len(t)
          /\ NextLevel(t)[i]
               = PairHash(t[2 * i - 1], IF 2 * i <= Len(t) THEN t[2 * i] ELSE t[2 * i - 1])
      BY <1>1, <2>1, NextLevelPlaces
    <2> QED  BY <2>2, <2>3, PairsBind
  <1> HIDE DEF n, m
  <1>4. n = m
    <2> SUFFICES ASSUME n # m  PROVE  FALSE
      OBVIOUS
    <2>1. n = 2 * h /\ m = 2 * h - 1 /\ h \in 1..h
      BY <1>1, <1>2
    <2>2. s[2 * h] = t[2 * h - 1] /\ s[2 * h - 1] = t[2 * h - 1]
      BY <1>1, <1>3, <2>1
    <2>3. 2 * h \in 1..n /\ 2 * h - 1 \in 1..n /\ 2 * h # 2 * h - 1
      BY <1>1, <2>1
    <2> QED  BY <2>2, <2>3 DEF Distinct, n
  <1>5. ASSUME NEW k \in 1..n  PROVE  s[k] = t[k]
    <2>1. PICK i \in 1..h : k = 2 * i - 1 \/ k = 2 * i
      <3>1. (k + 1) \div 2 \in 1..h
            /\ (k = 2 * ((k + 1) \div 2) - 1 \/ k = 2 * ((k + 1) \div 2))
        BY <1>1
      <3> QED  BY <3>1
    <2>2. CASE k = 2 * i - 1
      BY <1>3, <2>2
    <2>3. CASE k = 2 * i
      BY <1>3, <1>4, <2>3
    <2> QED  BY <2>1, <2>2, <2>3
  <1> QED  BY <1>4, <1>5, SameList DEF n, m

\* The levels over a list, up to any number of them.
Levels(s, n) == [k \in 0..n |-> Iterates("levels", <<>>, s, n)[1..k]]

LEMMA LevelsFollow ==
  ASSUME NEW s, NEW n \in Nat
  PROVE  /\ Levels(s, n)[0] = s
         /\ \A k \in 0..(n - 1) : Levels(s, n)[k + 1] = Up(Levels(s, n)[k])
  <1> DEFINE none == <<>>
             F == Iterates("levels", none, s, n)
  <1>1. /\ F[1..0] = s
        /\ \A j \in 0..(n - 1) : F[1..(j + 1)] = Repeated("levels", none, F[1..j])
    <2> HIDE DEF none
    <2> QED  BY IteratesFollow
  <1> HIDE DEF F
  <1>2. Levels(s, n) = [k \in 0..n |-> F[1..k]]
    BY DEF Levels, F
  <1>3. ASSUME NEW k \in 0..(n - 1)  PROVE  Levels(s, n)[k + 1] = Up(Levels(s, n)[k])
    <2>1. k \in 0..n /\ k + 1 \in 0..n
      BY <1>3
    <2> QED  BY <2>1, <1>1, <1>2 DEF Repeated
  <1>4. Levels(s, n)[0] = s
    <2>1. 0 \in 0..n
      OBVIOUS
    <2>2. Levels(s, n)[0] = F[1..0]
      BY <1>2, <2>1
    <2> QED  BY <1>1, <2>2
  <1> QED  BY <1>3, <1>4

\* They are lists that shrink until one element is left.
LEMMA LevelsShrink ==
  ASSUME NEW s, List(s), Len(s) >= 1, NEW n \in Nat
  PROVE  \A k \in 0..n : /\ List(Levels(s, n)[k]) /\ Len(Levels(s, n)[k]) >= 1
                         /\ Len(Levels(s, n)[k]) = 1 \/ Len(Levels(s, n)[k]) <= Len(s) - k
  <1> DEFINE L == Levels(s, n)
             T == {k \in 0..n : /\ List(L[k]) /\ Len(L[k]) >= 1
                                /\ Len(L[k]) = 1 \/ Len(L[k]) <= Len(s) - k}
  <1>1. L[0] = s /\ \A k \in 0..(n - 1) : L[k + 1] = Up(L[k])
    BY LevelsFollow
  <1> HIDE DEF L
  <1>2. Len(s) \in Nat
    BY DEF List
  <1>3. 0 \in T
    BY <1>1, <1>2
  <1>4. ASSUME NEW k \in 0..(n - 1), k \in T  PROVE  k + 1 \in T
    <2>1. k + 1 \in 0..n /\ L[k + 1] = Up(L[k]) /\ List(L[k]) /\ Len(L[k]) >= 1
      BY <1>1, <1>4
    <2>2. Len(L[k]) \in Nat /\ Len(L[k + 1]) \in Nat
      BY <2>1, UpLength DEF List
    <2>3. List(L[k + 1]) /\ Len(L[k + 1]) >= 1
      BY <2>1, UpLength
    <2>4. CASE Len(L[k]) = 1
      BY <2>1, <2>3, <2>4, UpLength
    <2>5. CASE Len(L[k]) > 1
      <3>1. Len(L[k + 1]) < Len(L[k])
        BY <2>1, <2>5, UpLength
      <3>2. Len(L[k]) <= Len(s) - k
        <4>1. Len(L[k]) # 1
          BY <2>1, <2>5, ListLength
        <4> QED  BY <1>4, <4>1
      <3>3. Len(L[k + 1]) <= Len(s) - (k + 1)
        BY <1>2, <2>2, <3>1, <3>2
      <3> QED  BY <2>1, <2>3, <3>3
    <2> QED  BY <2>1, <2>4, <2>5, ListLength
  <1> HIDE DEF T
  <1>5. \A k \in 0..n : k \in T
    BY <1>3, <1>4, BoundedInduction
  <1> QED  BY <1>5 DEF T, L

\* However many more levels there are, the last one is the root alone.
LEMMA LevelsEnd ==
  ASSUME NEW s, List(s), Len(s) >= 1, NEW n \in Nat, Len(s) <= n
  PROVE  /\ Len(Levels(s, n)[n]) = 1
         /\ Levels(s, n)[n][1] = MerkleRoot(s)
  <1> DEFINE l == Len(s)
             L == Levels(s, n)
             M == Levels(s, l)
  <1>1. l \in Nat /\ l >= 1 /\ l <= n
    BY DEF List
  <1>2. L[l] = M[l]
    <2>1. Iterates("levels", <<>>, s, l)[1..l] = Iterates("levels", <<>>, s, n)[1..l]
      BY <1>1, IteratesAgree
    <2> QED  BY <1>1, <2>1 DEF Levels
  <1>3. MerkleRoot(s) = M[l][1]
    <2>1. s # <<>> /\ DOMAIN s = 1..l
      BY <1>1 DEF List
    <2>2. MerkleRoot(s) = Iterates("levels", <<>>, s, l)[1..l][1]
      BY <2>1 DEF MerkleRoot, FoldLeft, MapThenFoldSet, Iterates, Repeated, Up
    <2> QED  BY <1>1, <2>2 DEF Levels
  <1>4. \A k \in 0..(n - 1) : L[k + 1] = Up(L[k])
    BY LevelsFollow
  <1>5. \A k \in 0..n : /\ List(L[k]) /\ Len(L[k]) >= 1
                        /\ Len(L[k]) = 1 \/ Len(L[k]) <= l - k
    BY LevelsShrink
  <1> HIDE DEF L, M
  <1>6. Len(L[l]) = 1
    BY <1>1, <1>5
  <1> DEFINE T == {k \in 0..(n - l) : L[l + k] = L[l]}
  <1> HIDE DEF l
  <1>7. 0 \in T
    BY <1>1
  <1>8. ASSUME NEW k \in 0..(n - l - 1), k \in T  PROVE  k + 1 \in T
    <2>1. k + 1 \in 0..(n - l) /\ l + k \in 0..(n - 1) /\ l \in 0..n
          /\ l + (k + 1) = (l + k) + 1
      BY <1>1, <1>8
    <2>2. L[(l + k) + 1] = Up(L[l])
      BY <1>4, <1>8, <2>1
    <2>3. Up(L[l]) = L[l]
      BY <1>5, <1>6, <2>1, UpLength
    <2> QED  BY <2>1, <2>2, <2>3
  <1> HIDE DEF T
  <1>9. \A k \in 0..(n - l) : k \in T
    <2> DEFINE d == n - l
    <2>1. d \in Nat
      BY <1>1
    <2>2. \A k \in 0..(d - 1) : k \in T => k + 1 \in T
      BY <1>8
    <2> HIDE DEF d
    <2>3. \A k \in 0..d : k \in T
      BY <1>7, <2>1, <2>2, BoundedInduction
    <2> QED  BY <2>3 DEF d
  <1>10. L[n] = L[l]
    <2>1. n - l \in 0..(n - l) /\ l + (n - l) = n
      BY <1>1
    <2>2. L[l + (n - l)] = L[l]
      BY <2>1, <1>9 DEF T
    <2> QED  BY <2>1, <2>2
  <1> QED  BY <1>2, <1>3, <1>6, <1>10 DEF L

\* Along the levels one list stays the longer, and free of repetitions.
LEMMA LevelsKeep ==
  ASSUME NEW s, List(s), Distinct(s), NEW t, List(t), Len(t) >= 1, Len(t) <= Len(s),
         NEW n \in Nat
  PROVE  \A k \in 0..n : /\ Distinct(Levels(s, n)[k])
                         /\ Len(Levels(t, n)[k]) <= Len(Levels(s, n)[k])
  <1> DEFINE A == Levels(s, n)
             B == Levels(t, n)
             T == {k \in 0..n : Distinct(A[k]) /\ Len(B[k]) <= Len(A[k])}
  <1>0. Len(s) \in Nat /\ Len(t) \in Nat /\ Len(s) >= 1
    BY DEF List
  <1>1. A[0] = s /\ \A k \in 0..(n - 1) : A[k + 1] = Up(A[k])
    BY LevelsFollow
  <1>2. B[0] = t /\ \A k \in 0..(n - 1) : B[k + 1] = Up(B[k])
    BY LevelsFollow
  <1>3. \A k \in 0..n : List(A[k]) /\ Len(A[k]) >= 1
    BY <1>0, LevelsShrink
  <1>4. \A k \in 0..n : List(B[k]) /\ Len(B[k]) >= 1
    BY LevelsShrink
  <1> HIDE DEF A, B
  <1>5. 0 \in T
    BY <1>1, <1>2
  <1>6. ASSUME NEW k \in 0..(n - 1), k \in T  PROVE  k + 1 \in T
    <2>1. k \in 0..n /\ k + 1 \in 0..n
      BY <1>6
    <2>2. Distinct(Up(A[k]))
      BY <1>3, <1>6, <2>1, UpDistinct
    <2>3. Len(Up(B[k])) <= Len(Up(A[k]))
      BY <1>3, <1>4, <1>6, <2>1, UpMonotone
    <2> QED  BY <1>1, <1>2, <2>1, <2>2, <2>3
  <1> HIDE DEF T
  <1>7. \A k \in 0..n : k \in T
    BY <1>5, <1>6, BoundedInduction
  <1> QED  BY <1>7 DEF T, A, B

\* The first element of a level over leaves is not that of a higher level: their
\* left-most hashes lead down to a leaf and to a pair.
LEMMA LevelsApart ==
  ASSUME NEW s, List(s), Len(s) >= 1, NEW t, List(t), Len(t) >= 1, NoPair(t[1]),
         NEW n \in Nat
  PROVE  \A k \in 0..n : \A m \in (k + 1)..n :
           Len(Levels(s, n)[m - 1]) > 1 => Levels(t, n)[k][1] # Levels(s, n)[m][1]
  <1> DEFINE A == Levels(s, n)
             B == Levels(t, n)
             T == {k \in 0..n : \A m \in (k + 1)..n : Len(A[m - 1]) > 1 => B[k][1] # A[m][1]}
  <1>1. A[0] = s /\ \A k \in 0..(n - 1) : A[k + 1] = Up(A[k])
    BY LevelsFollow
  <1>2. B[0] = t /\ \A k \in 0..(n - 1) : B[k + 1] = Up(B[k])
    BY LevelsFollow
  <1>3. \A k \in 0..n : List(A[k]) /\ Len(A[k]) >= 1
    BY LevelsShrink
  <1>4. \A k \in 0..n : List(B[k]) /\ Len(B[k]) >= 1
    BY LevelsShrink
  <1> HIDE DEF A, B
  <1>5. ASSUME NEW m \in 1..n, Len(A[m - 1]) > 1
        PROVE  \E x : A[m][1] = PairHash(A[m - 1][1], x)
    <2>1. m - 1 \in 0..(n - 1) /\ (m - 1) + 1 = m /\ m - 1 \in 0..n
      OBVIOUS
    <2>2. A[m] = Up(A[m - 1])
      BY <1>1, <2>1
    <2> QED  BY <1>3, <1>5, <2>1, <2>2, UpLength
  <1>6. 0 \in T
    <2>1. ASSUME NEW m \in 1..n, Len(A[m - 1]) > 1  PROVE  B[0][1] # A[m][1]
      BY <1>2, <1>5, <2>1 DEF NoPair
    <2> QED  BY <2>1
  <1>7. ASSUME NEW k \in 0..(n - 1), k \in T  PROVE  k + 1 \in T
    <2>1. k \in 0..n /\ k + 1 \in 0..n /\ B[k + 1] = Up(B[k])
      BY <1>2, <1>7
    <2>2. ASSUME NEW m \in (k + 2)..n, Len(A[m - 1]) > 1  PROVE  B[k + 1][1] # A[m][1]
      <3>1. m \in (k + 1)..n /\ m - 1 \in (k + 1)..n /\ m \in 1..n
            /\ m - 2 \in 0..n /\ m - 2 \in 0..(n - 1) /\ (m - 2) + 1 = m - 1
            /\ (m - 1) - 1 = m - 2
        BY <2>1
      <3>2. CASE Len(B[k]) = 1
        <4>1. B[k + 1] = B[k]
          BY <2>1, <3>2, <1>4, UpLength
        <4> QED  BY <1>7, <2>2, <3>1, <4>1
      <3>3. CASE Len(B[k]) > 1
        <4>1. PICK x : B[k + 1][1] = PairHash(B[k][1], x)
          BY <2>1, <3>3, <1>4, UpLength
        <4>2. PICK y : A[m][1] = PairHash(A[m - 1][1], y)
          BY <1>5, <2>2, <3>1
        <4>3. Len(A[m - 2]) > 1
          <5>1. A[m - 1] = Up(A[m - 2]) /\ List(A[m - 2]) /\ Len(A[m - 2]) >= 1
            BY <1>1, <1>3, <3>1
          <5>2. Len(A[m - 1]) # 1
            <6>1. List(A[m - 1]) /\ Len(A[m - 1]) >= 1
              <7>1. m - 1 \in 0..n
                BY <3>1
              <7> QED  BY <1>3, <7>1
            <6> QED  BY <2>2, <6>1, ListLength
          <5>3. Len(A[m - 2]) = 1 => Up(A[m - 2]) = A[m - 2]
            BY <5>1, UpLength
          <5> QED  BY <5>1, <5>2, <5>3, ListLength
        <4>4. B[k][1] # A[m - 1][1]
          BY <1>7, <3>1, <4>3
        <4> QED  BY <4>1, <4>2, <4>4, PairsBind
      <3>4. List(B[k]) /\ Len(B[k]) >= 1
        BY <1>4, <2>1
      <3> QED  BY <3>2, <3>3, <3>4, ListLength
    <2> QED  BY <2>1, <2>2
  <1> HIDE DEF T
  <1>8. \A k \in 0..n : k \in T
    BY <1>6, <1>7, BoundedInduction
  <1> QED  BY <1>8 DEF T, A, B

\* A root binds its leaves: a list of different leaves is the only one of its length
\* or less that has its root.
THEOREM MerkleBinding ==
  ASSUME NEW s, List(s), Distinct(s), NEW t, List(t), Len(t) >= 1, Len(t) <= Len(s),
         NoPair(t[1]), MerkleRoot(s) = MerkleRoot(t)
  PROVE  s = t
  <1> DEFINE n == Len(s)
             A == Levels(s, n)
             B == Levels(t, n)
             T == {j \in 0..n : A[n - j] = B[n - j]}
  <1>0. n \in Nat /\ Len(t) \in Nat /\ n >= 1 /\ Len(t) <= n
    BY DEF List
  <1>1. A[0] = s /\ \A k \in 0..(n - 1) : A[k + 1] = Up(A[k])
    BY <1>0, LevelsFollow
  <1>2. B[0] = t /\ \A k \in 0..(n - 1) : B[k + 1] = Up(B[k])
    BY <1>0, LevelsFollow
  <1>3. \A k \in 0..n : List(A[k]) /\ Len(A[k]) >= 1
    BY <1>0, LevelsShrink
  <1>4. \A k \in 0..n : List(B[k]) /\ Len(B[k]) >= 1
    BY <1>0, LevelsShrink
  <1>5. \A k \in 0..n : Distinct(A[k]) /\ Len(B[k]) <= Len(A[k])
    BY <1>0, LevelsKeep
  <1>6. \A k \in 0..n : \A m \in (k + 1)..n : Len(A[m - 1]) > 1 => B[k][1] # A[m][1]
    BY <1>0, LevelsApart
  <1>7. Len(A[n]) = 1 /\ A[n][1] = MerkleRoot(s)
    BY <1>0, LevelsEnd
  <1>8. Len(B[n]) = 1 /\ B[n][1] = MerkleRoot(t)
    BY <1>0, LevelsEnd
  <1> HIDE DEF n, A, B
  <1>9. 0 \in T
    <2>1. n \in 0..n /\ n - 0 = n /\ 0 \in 0..n
      BY <1>0
    <2>2. List(A[n]) /\ List(B[n])
      BY <1>3, <1>4, <2>1
    <2>3. \A i \in 1..1 : A[n][i] = B[n][i]
      BY <1>7, <1>8
    <2>4. A[n] = B[n]
      BY <1>7, <1>8, <2>2, <2>3, SameList
    <2> QED  BY <2>1, <2>4
  <1>10. ASSUME NEW j \in 0..(n - 1), j \in T  PROVE  j + 1 \in T
    <2> DEFINE i == n - (j + 1)
    <2>1. i \in 0..(n - 1) /\ i \in 0..n /\ i + 1 = n - j /\ j + 1 \in 0..n /\ i + 1 \in (i + 1)..n
          /\ (i + 1) - 1 = i
      BY <1>0, <1>10
    <2> HIDE DEF i
    <2>2. A[i + 1] = B[i + 1] /\ A[i + 1] = Up(A[i]) /\ B[i + 1] = Up(B[i])
      BY <1>1, <1>2, <1>10, <2>1
    <2>3. List(A[i]) /\ List(B[i]) /\ Len(A[i]) >= 1 /\ Len(B[i]) >= 1
          /\ Distinct(A[i]) /\ Len(B[i]) <= Len(A[i])
      BY <1>3, <1>4, <1>5, <2>1
    <2>4. Len(A[i]) \in Nat /\ Len(B[i]) \in Nat
      BY <2>3 DEF List
    <2>5. CASE Len(B[i]) > 1
      <3>0. Len(A[i]) > 1
        BY <2>3, <2>4, <2>5
      <3>1. NextLevel(A[i]) = NextLevel(B[i])
        BY <2>2, <2>5, <3>0 DEF Up
      <3>2. A[i] = B[i]
        BY <2>3, <2>5, <3>1, NextLevelBinds
      <3> QED  BY <2>1, <3>2 DEF i
    <2>6. CASE Len(B[i]) = 1 /\ Len(A[i]) = 1
      <3>1. A[i] = B[i]
        BY <2>2, <2>3, <2>6, UpLength
      <3> QED  BY <2>1, <3>1 DEF i
    <2>7. CASE Len(B[i]) = 1 /\ Len(A[i]) > 1
      <3>1. B[i][1] # A[i + 1][1]
        BY <1>6, <2>1, <2>7
      <3>2. B[i + 1] = B[i]
        BY <2>2, <2>3, <2>7, UpLength
      <3> QED  BY <2>2, <3>1, <3>2
    <2>8. (Len(A[i]) = 1 \/ Len(A[i]) > 1) /\ (Len(B[i]) = 1 \/ Len(B[i]) > 1)
      BY <2>3, ListLength
    <2> QED  BY <2>5, <2>6, <2>7, <2>8
  <1> HIDE DEF T
  <1>11. \A j \in 0..n : j \in T
    BY <1>0, <1>9, <1>10, BoundedInduction
  <1>12. n \in T /\ n - n = 0
    BY <1>0, <1>11
  <1> QED  BY <1>1, <1>2, <1>12 DEF T

-----------------------------------------------------------------------------
(* What mine returns and what verify accepts.                              *)

\* The samples of a walk lie within it, and there are none only of a walk of nothing.
LEMMA TracePlaces ==
  ASSUME NEW dag, NEW start, NEW len \in Nat
  PROVE  LET t == Trace(dag, start, len)
         IN  /\ List(t)
             /\ \A n \in 1..Len(t) :
                  /\ t[n].position = (n - 1) * Interval(len)
                  /\ t[n].mix = Walk(dag, start, t[n].position + 1)
                  /\ t[n].offset = n
                  /\ t[n].position \in 0..(len - 1)
             /\ \A n \in 1..Len(t), m \in 1..Len(t) :
                  t[n].position = t[m].position => n = m
             /\ t = <<>> <=> Len(t) = 0
  <1> DEFINE i == Interval(len)
             l == (len + i - 1) \div i
             at(n) == [position |-> (n - 1) * i, mix |-> Walk(dag, start, (n - 1) * i + 1),
                       offset |-> n]
             t == Trace(dag, start, len)
  <1>1. i \in Nat \ {0}
    <2>1. Samples \in Nat \ {0}
      BY ProofOfWorkAssumption
    <2>2. len \div Samples \in Nat
      BY <2>1
    <2> QED  BY <2>2 DEF Interval
  <1>2. t = [n \in 1..l |-> at(n)]
    BY DEF Trace
  <1> HIDE DEF i
  <1>3. l \in Nat /\ l * i <= len + i - 1
    BY <1>1
  <1> HIDE DEF l, t
  <1>4. Len(t) = l /\ DOMAIN t = 1..l /\ \A n \in 1..l : t[n] = at(n)
    BY <1>2, <1>3
  <1>5. List(t)
    <2> HIDE DEF at
    <2>1. t = [n \in 1..l |-> t[n]]
      BY <1>2, <1>4
    <2> QED  BY <1>3, <1>4, <2>1 DEF List
  <1>6. \A n \in 1..l : /\ t[n].position = (n - 1) * i
                        /\ t[n].mix = Walk(dag, start, t[n].position + 1)
                        /\ t[n].offset = n
    BY <1>4
  <1>7. ASSUME NEW n \in 1..l  PROVE  (n - 1) * i \in 0..(len - 1)
    <2>1. n \in Nat /\ n >= 1 /\ n <= l
      BY <1>3, <1>7
    <2>2. n * i <= l * i /\ n * i \in Nat /\ l * i \in Nat /\ (n - 1) * i \in Nat
      BY <1>1, <1>3, <2>1
    <2>3. (n - 1) * i = n * i - i
      BY <1>1, <2>1
    <2> QED  BY <1>1, <1>3, <2>2, <2>3
  <1>8. ASSUME NEW n \in 1..l, NEW m \in 1..l, n # m  PROVE  (n - 1) * i # (m - 1) * i
    <2>1. n \in Nat /\ m \in Nat /\ n - 1 \in Nat /\ m - 1 \in Nat
      BY <1>3
    <2> DEFINE x == n - 1
               y == m - 1
    <2>2. x \in Nat /\ y \in Nat /\ x # y
      BY <1>8, <2>1
    <2> HIDE DEF x, y
    <2>3. x * i # y * i
      BY <1>1, <2>2
    <2> QED  BY <2>3 DEF x, y
  <1>9. t = <<>> <=> l = 0
    BY <1>3, <1>4
  <1> QED  BY <1>4, <1>5, <1>6, <1>7, <1>8, <1>9 DEF t, i

\* A sample is a record of its three fields.
LEMMA TraceShape ==
  ASSUME NEW dag, NEW start, NEW len
  PROVE  LET t == Trace(dag, start, len)
         IN  \A n \in DOMAIN t :
               t[n] = [position |-> t[n].position, mix |-> t[n].mix, offset |-> t[n].offset]
  BY DEF Trace

\* The number of accesses is one.
LEMMA AccessesNatural ==
  ASSUME NEW d \in Nat
  PROVE  Accesses(d) \in Nat
  <1>1. BaseAccesses \in Nat \ {0} /\ AccessUnit \in Nat \ {0}
    BY ProofOfWorkAssumption
  <1>2. BaseAccesses * d \in Nat
    BY <1>1
  <1> QED  BY <1>1, <1>2 DEF Accesses

\* Walks that have met stay together.
LEMMA WalksMeet ==
  ASSUME NEW dag, NEW x, NEW y, NEW k \in Nat, NEW n \in Nat, k <= n,
         Walk(dag, x, k) = Walk(dag, y, k)
  PROVE  Walk(dag, x, n) = Walk(dag, y, n)
  <1>1. n - k \in Nat /\ n = k + (n - k)
    OBVIOUS
  <1> DEFINE m == n - k
  <1> HIDE DEF m
  <1>2. Walk(dag, x, k + m) = Walk(dag, Walk(dag, x, k), m)
        /\ Walk(dag, y, k + m) = Walk(dag, Walk(dag, y, k), m)
    BY <1>1, WalkGoesOn DEF m
  <1>3. n = k + m
    BY <1>1 DEF m
  <1> QED  BY <1>2, <1>3

\* The three ways accept what mine returned, whatever is picked: the sampled one,
\* which goes on from the last sample, ends where the whole walk does.
LEMMA FoundVerifies ==
  ASSUME NEW hash, NEW d \in Nat, NEW dag, NEW nonce, Solves(hash, d, dag, nonce),
         NEW sol \in Forms(SolutionOf(hash, d, dag, nonce)), NEW picked \in Picks(sol)
  PROVE  Verify(hash, sol, d, dag, picked)
  <1> DEFINE len == Accesses(d)
             start == Digest(hash, nonce)
             trace == Trace(dag, start, len)
             found == SolutionOf(hash, d, dag, nonce)
  <1>1. len \in Nat
    BY AccessesNatural
  <1>2. /\ found.nonce = nonce /\ found.trace = trace /\ found.length = len
        /\ found.root = IF trace = <<>> THEN NoRoot ELSE TraceRoot(trace)
    BY DEF SolutionOf
  <1>3. /\ sol.nonce = nonce /\ sol.length = len
        /\ sol.trace \in {trace, <<>>} /\ sol.root \in {found.root, NoRoot}
    BY <1>2 DEF Forms, SolutionOf
  <1>4. /\ List(trace)
        /\ \A n \in 1..Len(trace) :
             /\ trace[n].position = (n - 1) * Interval(len)
             /\ trace[n].mix = Walk(dag, start, trace[n].position + 1)
             /\ trace[n].offset = n
             /\ trace[n].position \in 0..(len - 1)
        /\ trace = <<>> <=> Len(trace) = 0
    BY <1>1, TracePlaces
  <1> HIDE DEF trace, found
  <1>5. CASE sol.trace = <<>>
    BY <1>3, <1>5 DEF Verify, WalkVerifies
  <1>6. CASE sol.trace # <<>> /\ sol.root = NoRoot
    <2>1. sol.trace = trace
      BY <1>3, <1>6
    <2>2. TraceVerifies(hash, sol, d, dag)
      <3>1. Trace(dag, Digest(hash, sol.nonce), sol.length) = trace
        BY <1>3 DEF trace
      <3>2. Len(trace) \in Nat
        BY <1>4 DEF List
      <3>3. Solves(hash, d, dag, sol.nonce)
        BY <1>3
      <3>4. \A m, n \in 1..Len(trace) : m < n => trace[m].offset <= trace[n].offset
        BY <1>4, <3>2
      <3> QED  BY <2>1, <3>1, <3>2, <3>3, <3>4 DEF TraceVerifies
    <2> QED  BY <1>3, <1>6, <2>2 DEF Verify
  <1>7. CASE sol.trace # <<>> /\ sol.root # NoRoot
    <2>1. sol.trace = trace /\ sol.root = TraceRoot(trace) /\ trace # <<>>
      BY <1>2, <1>3, <1>7
    <2>2. picked \subseteq 1..Len(trace)
      BY <2>1 DEF Picks, kSubset
    <2> DEFINE last == Len(trace)
               final == trace[last]
               rest == len - final.position - 1
    <2>3. last \in 1..last /\ last \in Nat
      BY <1>4, <2>1 DEF List
    <2>4. final.position \in 0..(len - 1)
          /\ final.mix = Walk(dag, start, final.position + 1)
      BY <1>4, <2>3
    <2>5. rest \in Nat /\ final.position + 1 \in Nat /\ (final.position + 1) + rest = len
      BY <1>1, <2>4
    <2>6. (IF rest > 0 THEN rest ELSE 0) = rest
      BY <2>5
    <2> DEFINE gone == final.position + 1
    <2> HIDE DEF rest, final, gone, start, len
    <2>7. Walk(dag, final.mix, rest) = Walk(dag, start, len)
      <3>1. gone \in Nat /\ gone + rest = len /\ final.mix = Walk(dag, start, gone)
        BY <2>4, <2>5 DEF gone
      <3>2. Walk(dag, start, gone + rest) = Walk(dag, Walk(dag, start, gone), rest)
        BY <2>5, <3>1, WalkGoesOn
      <3> QED  BY <3>1, <3>2
    <2>8. MeetsDifficulty(FinalHash(Walk(dag, start, len)), d)
      BY DEF Solves, start, len
    <2>9. \A n \in picked : Walk(dag, start, trace[n].position + 1) = trace[n].mix
      BY <1>4, <2>2
    <2>10. SampledVerifies(hash, sol, d, dag, picked)
      <3>1. sol.length - sol.trace[Len(sol.trace)].position - 1 = rest
            /\ sol.trace[Len(sol.trace)] = final
        BY <1>3, <2>1 DEF rest, final
      <3>2. Digest(hash, sol.nonce) = start
        BY <1>3 DEF start
      <3> QED  BY <2>1, <2>6, <2>7, <2>8, <2>9, <3>1, <3>2 DEF SampledVerifies
    <2> QED  BY <1>3, <1>7, <2>10 DEF Verify, len
  <1> QED  BY <1>5, <1>6, <1>7

\* Samples at the places and with the mixes of the walk's are the walk's, if they
\* come of a damage to it: moved, changed or cut off, one of them would differ.
LEMMA DamageAlters ==
  ASSUME NEW dag, NEW start, NEW len \in Nat, NEW sol, sol.trace = Trace(dag, start, len),
         sol = [nonce |-> sol.nonce, trace |-> sol.trace, length |-> sol.length,
                root |-> sol.root],
         NEW bad \in Damaged(sol),
         Len(bad.trace) >= Len(sol.trace),
         \A n \in 1..Len(sol.trace) : /\ bad.trace[n].position = sol.trace[n].position
                                      /\ bad.trace[n].mix = sol.trace[n].mix
  PROVE  bad.trace = sol.trace
  <1> DEFINE t == sol.trace
  <1>1. /\ List(t)
        /\ \A n \in 1..Len(t) : /\ t[n].position = (n - 1) * Interval(len)
                                /\ t[n].mix = Walk(dag, start, t[n].position + 1)
                                /\ t[n].offset = n
                                /\ t[n].position \in 0..(len - 1)
        /\ \A n \in 1..Len(t), m \in 1..Len(t) : t[n].position = t[m].position => n = m
    BY TracePlaces
  <1>2. Len(t) \in Nat /\ DOMAIN t = 1..Len(t) /\ t = [i \in 1..Len(t) |-> t[i]]
    BY <1>1 DEF List
  <1>3. CASE \E n \in Nonces : bad = [sol EXCEPT !.nonce = n]
    BY <1>3
  <1>4. CASE \E n \in 1..Len(t) : bad = [sol EXCEPT !.trace[n].mix = @ + 1]
    <2>1. PICK n \in 1..Len(t) : bad = [sol EXCEPT !.trace[n].mix = @ + 1]
      BY <1>4
    <2>2. bad.trace = [t EXCEPT ![n] = [t[n] EXCEPT !.mix = t[n].mix + 1]]
      BY <2>1
    <2>3. bad.trace[n] = [t[n] EXCEPT !.mix = t[n].mix + 1]
      BY <1>2, <2>2
    <2>4. t[n] = [position |-> t[n].position, mix |-> t[n].mix, offset |-> t[n].offset]
      BY <1>2, TraceShape
    <2>5. bad.trace[n].mix = t[n].mix
      OBVIOUS
    <2>6. t[n].mix + 1 = t[n].mix
      BY <2>3, <2>4, <2>5
    <2>7. [t[n] EXCEPT !.mix = t[n].mix + 1] = t[n]
      BY <2>4, <2>6
    <2> QED  BY <1>2, <2>2, <2>7
  <1>5. CASE \E n \in 1..Len(t) : bad = [sol EXCEPT !.trace[n].position = @ + 1]
    <2>1. PICK n \in 1..Len(t) : bad = [sol EXCEPT !.trace[n].position = @ + 1]
      BY <1>5
    <2>2. bad.trace = [t EXCEPT ![n] = [t[n] EXCEPT !.position = t[n].position + 1]]
      BY <2>1
    <2>3. bad.trace[n] = [t[n] EXCEPT !.position = t[n].position + 1]
      BY <1>2, <2>2
    <2>4. t[n] = [position |-> t[n].position, mix |-> t[n].mix, offset |-> t[n].offset]
      BY <1>2, TraceShape
    <2>5. bad.trace[n].position = t[n].position
      OBVIOUS
    <2>6. t[n].position + 1 = t[n].position
      BY <2>3, <2>4, <2>5
    <2>7. t[n].position \in Int
      BY <1>1
    <2> QED  BY <2>6, <2>7
  <1>6. CASE bad = [sol EXCEPT !.trace = Reverse(@)]
    <2>1. bad.trace = Reverse(t)
      BY <1>6
    <2>2. CASE Len(t) = 0
      BY <1>2, <2>1, <2>2 DEF Reverse
    <2>3. CASE Len(t) > 0
      <3>1. 1 \in 1..Len(t) /\ Len(t) \in 1..Len(t)
        BY <1>2, <2>3
      <3>2. bad.trace[1] = t[(Len(t) - 1) + 1] /\ (Len(t) - 1) + 1 = Len(t)
        BY <1>2, <2>1, <3>1 DEF Reverse
      <3>3. t[Len(t)].position = t[1].position
        BY <3>1, <3>2
      <3>4. Len(t) = 1
        BY <1>1, <3>1, <3>3
      <3>5. Reverse(t) = [i \in 1..1 |-> t[(1 - i) + 1]]
        BY <3>4 DEF Reverse
      <3>6. \A i \in 1..1 : (1 - i) + 1 = i
        OBVIOUS
      <3>7. [i \in 1..1 |-> t[(1 - i) + 1]] = [i \in 1..1 |-> t[i]]
        BY <3>6
      <3>8. t = [i \in 1..1 |-> t[i]]
        BY <1>2, <3>4
      <3> QED  BY <2>1, <3>5, <3>7, <3>8
    <2> QED  BY <1>2, <2>2, <2>3
  <1>7. CASE bad = [sol EXCEPT !.trace = Front(@)]
    <2>1. bad.trace = SubSeq(t, 1, Len(t) - 1)
      BY <1>7 DEF Front
    <2>2. CASE Len(t) = 0
      <3>1. SubSeq(t, 1, Len(t) - 1) = <<>> /\ t = <<>>
        BY <1>2, <2>2
      <3> QED  BY <2>1, <3>1
    <2>3. CASE Len(t) > 0
      <3>1. Len(SubSeq(t, 1, Len(t) - 1)) = Len(t) - 1
        BY <1>2, <2>3
      <3>2. Len(bad.trace) = Len(t) - 1
        BY <2>1, <3>1
      <3>3. Len(bad.trace) >= Len(t)
        OBVIOUS
      <3> DEFINE k == Len(t)
                 j == Len(bad.trace)
      <3>4. k \in Nat /\ j = k - 1 /\ j >= k
        BY <1>2, <3>2, <3>3
      <3> HIDE DEF k, j
      <3>5. FALSE
        BY <3>4
      <3> QED  BY <3>5
    <2> QED  BY <1>2, <2>2, <2>3
  <1> QED  BY <1>3, <1>4, <1>5, <1>6, <1>7 DEF Damaged

\* No hash of a leaf, a transaction or a coinbase is one of a pair.
LEMMA LeavesNoPairs ==
  /\ \A p, m : NoPair(LeafHash(p, m))
  /\ \A t : NoPair(TxHash(t)) /\ NoPair(CoinbaseHash(t))
  <1>1. \A p, m : NoPair(LeafHash(p, m))
    BY DEF NoPair, LeafHash, PairHash
  <1>2. \A t : NoPair(TxHash(t))
    BY DEF NoPair, TxHash, PairHash
  <1>3. \A t : NoPair(CoinbaseHash(t))
    BY DEF NoPair, CoinbaseHash, PairHash
  <1> QED  BY <1>1, <1>2, <1>3

\* No more samples than the walk's, under the root of the walk's, are at the places
\* and have the mixes of the walk's.
LEMMA TracesBind ==
  ASSUME NEW dag, NEW start, NEW len \in Nat, NEW bad, List(bad), Len(bad) >= 1,
         Len(bad) <= Len(Trace(dag, start, len)),
         TraceRoot(bad) = TraceRoot(Trace(dag, start, len))
  PROVE  LET t == Trace(dag, start, len)
         IN  /\ Len(bad) >= Len(t)
             /\ \A n \in 1..Len(t) : /\ bad[n].position = t[n].position
                                     /\ bad[n].mix = t[n].mix
  <1> DEFINE t == Trace(dag, start, len)
             leaves(x) == [n \in 1..Len(x) |-> LeafHash(x[n].position, x[n].mix)]
  <1>1. /\ List(t)
        /\ \A n \in 1..Len(t), m \in 1..Len(t) : t[n].position = t[m].position => n = m
    BY TracePlaces
  <1>2. MerkleRoot(leaves(t)) = MerkleRoot(leaves(bad))
    BY DEF TraceRoot
  <1> HIDE DEF t
  <1>3. ASSUME NEW x, List(x)
        PROVE  /\ List(leaves(x)) /\ Len(leaves(x)) = Len(x)
               /\ \A n \in 1..Len(x) : leaves(x)[n] = LeafHash(x[n].position, x[n].mix)
    <2> DEFINE s == leaves(x)
    <2>1. Len(x) \in Nat
      BY <1>3 DEF List
    <2>2. Len(s) = Len(x) /\ DOMAIN s = 1..Len(x)
      BY <2>1
    <2>3. s = [i \in 1..Len(s) |-> s[i]]
      BY <2>2
    <2>4. \A n \in 1..Len(x) : s[n] = LeafHash(x[n].position, x[n].mix)
      OBVIOUS
    <2> HIDE DEF s
    <2>5. List(s)
      BY <2>1, <2>2, <2>3 DEF List
    <2> QED  BY <2>2, <2>4, <2>5 DEF s
  <1>4. /\ List(leaves(t)) /\ Len(leaves(t)) = Len(t)
        /\ \A n \in 1..Len(t) : leaves(t)[n] = LeafHash(t[n].position, t[n].mix)
    BY <1>1, <1>3
  <1>5. /\ List(leaves(bad)) /\ Len(leaves(bad)) = Len(bad)
        /\ \A n \in 1..Len(bad) : leaves(bad)[n] = LeafHash(bad[n].position, bad[n].mix)
    BY <1>3
  <1>6. Len(bad) <= Len(t)
    BY DEF t
  <1> DEFINE s == leaves(t)
             r == leaves(bad)
  <1> HIDE DEF s, r, leaves
  <1>7. Distinct(s)
    <2> SUFFICES ASSUME NEW i \in 1..Len(t), NEW j \in 1..Len(t), s[i] = s[j]
                 PROVE  i = j
      BY <1>4 DEF Distinct, s
    <2>1. LeafHash(t[i].position, t[i].mix) = LeafHash(t[j].position, t[j].mix)
      BY <1>4 DEF s
    <2>2. t[i].position = t[j].position
      BY <2>1 DEF LeafHash
    <2> QED  BY <1>1, <2>2
  <1>8. NoPair(r[1])
    <2>1. 1 \in 1..Len(bad)
      <3> DEFINE k == Len(bad)
      <3>1. k \in Nat /\ k >= 1
        BY DEF List
      <3> HIDE DEF k
      <3> QED  BY <3>1 DEF k
    <2> QED  BY <1>5, <2>1, LeavesNoPairs DEF r
  <1>9. s = r
    <2>1. List(s) /\ List(r) /\ Len(r) >= 1 /\ Len(r) <= Len(s)
      BY <1>4, <1>5, <1>6 DEF s, r
    <2>2. MerkleRoot(s) = MerkleRoot(r)
      BY <1>2 DEF s, r
    <2> QED  BY <1>7, <1>8, <2>1, <2>2, MerkleBinding
  <1>10. Len(bad) = Len(t)
    BY <1>4, <1>5, <1>9 DEF s, r
  <1>11. ASSUME NEW n \in 1..Len(t)
         PROVE  bad[n].position = t[n].position /\ bad[n].mix = t[n].mix
    <2>1. LeafHash(t[n].position, t[n].mix) = LeafHash(bad[n].position, bad[n].mix)
      BY <1>4, <1>5, <1>9, <1>10 DEF s, r
    <2> QED  BY <2>1 DEF LeafHash
  <1>12. Len(bad) >= Len(t)
    <2>1. Len(t) \in Nat
      BY <1>1 DEF List
    <2> QED  BY <1>10, <2>1
  <1> QED  BY <1>11, <1>12 DEF t

\* What a damage leaves of a solution: it changes the nonce or the trace, and the
\* trace does not grow.
LEMMA DamageShape ==
  ASSUME NEW sol, List(sol.trace),
         sol = [nonce |-> sol.nonce, trace |-> sol.trace, length |-> sol.length,
                root |-> sol.root],
         NEW bad \in Damaged(sol)
  PROVE  /\ bad.length = sol.length /\ bad.root = sol.root
         /\ List(bad.trace) /\ Len(bad.trace) <= Len(sol.trace)
         /\ bad.trace = sol.trace \/ bad.nonce = sol.nonce
         /\ bad.trace = <<>> \/ Len(bad.trace) >= 1
  <1> DEFINE t == sol.trace
             Good(x) == /\ List(x) /\ Len(x) <= Len(t)
                        /\ x = <<>> \/ Len(x) >= 1
  <1>1. Len(t) \in Nat /\ DOMAIN t = 1..Len(t) /\ t = [i \in 1..Len(t) |-> t[i]]
    BY DEF List
  <1>2. ASSUME NEW k \in Nat, k <= Len(t), NEW x, x = [i \in 1..k |-> x[i]]
        PROVE  Good(x)
    <2>1. Len(x) = k /\ DOMAIN x = 1..k
      BY <1>2
    <2>2. List(x)
      BY <1>2, <2>1 DEF List
    <2>3. k = 0 => x = <<>>
      BY <1>2
    <2> QED  BY <1>1, <1>2, <2>1, <2>2, <2>3
  <1>3. Good(t)
    BY <1>1, <1>2
  <1> HIDE DEF Good
  <1>4. CASE \E n \in Nonces : bad = [sol EXCEPT !.nonce = n]
    <2>1. bad.trace = t /\ bad.length = sol.length /\ bad.root = sol.root
      BY <1>4
    <2> QED  BY <1>3, <2>1 DEF Good
  <1>5. CASE \E x : Good(x) /\ bad = [sol EXCEPT !.trace = x]
    <2>1. PICK x : Good(x) /\ bad = [sol EXCEPT !.trace = x]
      BY <1>5
    <2>2. bad.trace = x /\ bad.length = sol.length /\ bad.root = sol.root
          /\ bad.nonce = sol.nonce
      BY <2>1
    <2> QED  BY <2>1, <2>2 DEF Good
  <1>6. CASE \E n \in 1..Len(t) : bad = [sol EXCEPT !.trace[n].mix = @ + 1]
    <2>1. PICK n \in 1..Len(t) : bad = [sol EXCEPT !.trace[n].mix = @ + 1]
      BY <1>6
    <2> DEFINE x == [t EXCEPT ![n] = [t[n] EXCEPT !.mix = t[n].mix + 1]]
    <2>2. bad = [sol EXCEPT !.trace = x]
      BY <2>1
    <2>3. x = [i \in 1..Len(t) |-> x[i]]
      BY <1>1
    <2> HIDE DEF x
    <2>4. Good(x)
      BY <1>1, <1>2, <2>3
    <2> QED  BY <1>5, <2>2, <2>4
  <1>7. CASE \E n \in 1..Len(t) : bad = [sol EXCEPT !.trace[n].position = @ + 1]
    <2>1. PICK n \in 1..Len(t) : bad = [sol EXCEPT !.trace[n].position = @ + 1]
      BY <1>7
    <2> DEFINE x == [t EXCEPT ![n] = [t[n] EXCEPT !.position = t[n].position + 1]]
    <2>2. bad = [sol EXCEPT !.trace = x]
      BY <2>1
    <2>3. x = [i \in 1..Len(t) |-> x[i]]
      BY <1>1
    <2> HIDE DEF x
    <2>4. Good(x)
      BY <1>1, <1>2, <2>3
    <2> QED  BY <1>5, <2>2, <2>4
  <1>8. CASE bad = [sol EXCEPT !.trace = Reverse(@)]
    <2> DEFINE x == Reverse(t)
    <2>1. x = [i \in 1..Len(t) |-> x[i]]
      BY <1>1 DEF Reverse
    <2>2. bad = [sol EXCEPT !.trace = x]
      BY <1>8
    <2> HIDE DEF x
    <2>3. Good(x)
      BY <1>1, <1>2, <2>1
    <2> QED  BY <1>5, <2>2, <2>3
  <1>9. CASE bad = [sol EXCEPT !.trace = Front(@)]
    <2> DEFINE x == SubSeq(t, 1, Len(t) - 1)
               k == IF Len(t) = 0 THEN 0 ELSE Len(t) - 1
    <2>1. k \in Nat /\ k <= Len(t)
      BY <1>1
    <2>2. bad = [sol EXCEPT !.trace = x]
      BY <1>9 DEF Front
    <2>3. x = [i \in 1..k |-> x[i]]
      <3>1. CASE Len(t) = 0
        BY <1>1, <3>1
      <3>2. CASE Len(t) # 0
        BY <1>1, <3>2
      <3> QED  BY <3>1, <3>2
    <2> HIDE DEF x, k
    <2>4. Good(x)
      BY <1>2, <2>1, <2>3
    <2> QED  BY <1>5, <2>2, <2>4
  <1> QED  BY <1>4, <1>6, <1>7, <1>8, <1>9 DEF Damaged

\* What is damaged and verifies has the samples of mine or none, and its own walk
\* meets the difficulty.
LEMMA DamageMisses ==
  ASSUME NEW hash, NEW d \in Nat, NEW dag, NEW nonce, Solves(hash, d, dag, nonce),
         NEW sol \in Forms(SolutionOf(hash, d, dag, nonce)), sol.trace # <<>>,
         NEW bad \in Damaged(sol), NEW picked \in Picks(bad),
         Verify(hash, bad, d, dag, picked)
  PROVE  bad.trace \in {sol.trace, <<>>} /\ Solves(hash, d, dag, bad.nonce)
  <1> DEFINE len == Accesses(d)
             start == Digest(hash, nonce)
             trace == Trace(dag, start, len)
             found == SolutionOf(hash, d, dag, nonce)
             root == IF trace = <<>> THEN NoRoot ELSE TraceRoot(trace)
  <1>1. len \in Nat
    BY AccessesNatural
  <1>2. found = [nonce |-> nonce, trace |-> trace, length |-> len, root |-> root]
    BY DEF SolutionOf
  <1>3. sol \in {found, [found EXCEPT !.root = NoRoot], [found EXCEPT !.trace = <<>>],
                 [found EXCEPT !.trace = <<>>, !.root = NoRoot]}
    BY DEF Forms
  <1> HIDE DEF found, root, trace, start, len
  <1>4. /\ sol.trace = trace /\ sol.nonce = nonce /\ sol.length = len
        /\ sol.root \in {root, NoRoot}
        /\ sol = [nonce |-> sol.nonce, trace |-> sol.trace, length |-> sol.length,
                  root |-> sol.root]
    <2> DEFINE Sol(r) == [nonce |-> nonce, trace |-> trace, length |-> len, root |-> r]
    <2>1. sol.trace = <<>> \/ sol \in {found, [found EXCEPT !.root = NoRoot]}
      <3>1. [found EXCEPT !.trace = <<>>].trace = <<>>
            /\ [found EXCEPT !.trace = <<>>, !.root = NoRoot].trace = <<>>
        BY <1>2
      <3> QED  BY <1>3, <3>1
    <2>2. sol \in {Sol(root), Sol(NoRoot)}
      <3>1. found = Sol(root) /\ [found EXCEPT !.root = NoRoot] = Sol(NoRoot)
        BY <1>2
      <3> QED  BY <2>1, <3>1
    <2> QED  BY <2>2
  <1>5. root # NoRoot => root = TraceRoot(trace)
    BY <1>4 DEF root
  <1>6. /\ List(trace)
        /\ \A n \in 1..Len(trace) :
             /\ trace[n].mix = Walk(dag, start, trace[n].position + 1)
             /\ trace[n].position \in 0..(len - 1)
    BY <1>1, TracePlaces DEF trace
  <1>7. /\ bad.length = sol.length /\ bad.root = sol.root
        /\ List(bad.trace) /\ Len(bad.trace) <= Len(sol.trace)
        /\ bad.trace = sol.trace \/ bad.nonce = sol.nonce
        /\ bad.trace = <<>> \/ Len(bad.trace) >= 1
    BY <1>4, <1>6, DamageShape
  <1>8. ASSUME Len(bad.trace) >= Len(trace),
               \A n \in 1..Len(trace) : /\ bad.trace[n].position = trace[n].position
                                        /\ bad.trace[n].mix = trace[n].mix
        PROVE  bad.trace = trace
    <2>1. sol.trace = Trace(dag, start, len)
      BY <1>4 DEF trace
    <2> QED  BY <1>1, <1>4, <1>8, <2>1, DamageAlters
  <1>9. CASE bad.trace = <<>>
    <2>1. Solves(hash, d, dag, bad.nonce)
      BY <1>9 DEF Verify, WalkVerifies
    <2> QED  BY <1>9, <2>1
  <1>10. CASE bad.trace # <<>> /\ bad.root = NoRoot
    <2>1. TraceVerifies(hash, bad, d, dag)
      BY <1>10 DEF Verify, WalkVerifies
    <2>2. Solves(hash, d, dag, bad.nonce)
      BY <2>1 DEF TraceVerifies
    <2>3. CASE bad.trace = sol.trace
      BY <2>2, <2>3
    <2>4. CASE bad.nonce = sol.nonce
      <3>1. Trace(dag, Digest(hash, bad.nonce), bad.length) = trace
        BY <1>4, <1>7, <2>4 DEF trace, start
      <3>2. /\ Len(bad.trace) >= Len(trace)
            /\ \A n \in 1..Len(trace) : /\ bad.trace[n].position = trace[n].position
                                        /\ bad.trace[n].mix = trace[n].mix
        BY <2>1, <3>1 DEF TraceVerifies
      <3> QED  BY <1>4, <1>8, <2>2, <3>2
    <2> QED  BY <1>7, <2>3, <2>4
  <1>11. CASE bad.trace # <<>> /\ bad.root # NoRoot
    <2>1. SampledVerifies(hash, bad, d, dag, picked)
      BY <1>11 DEF Verify, WalkVerifies
    <2>2. /\ TraceRoot(bad.trace) = TraceRoot(trace)
          /\ \A n \in picked : Walk(dag, Digest(hash, bad.nonce), bad.trace[n].position + 1)
                                 = bad.trace[n].mix
      BY <1>4, <1>5, <1>7, <1>11, <2>1 DEF SampledVerifies
    <2>3. CASE bad.trace = sol.trace
      <3>1. Len(trace) \in Nat /\ Len(trace) >= 1
        BY <1>4, <1>6, <1>7, <1>11, <2>3 DEF List
      <3>2. picked \subseteq 1..Len(trace) /\ picked # {}
        <4> DEFINE k == IF Checked < Len(trace) THEN Checked ELSE Len(trace)
        <4>1. k # 0
          BY <3>1, ProofOfWorkAssumption
        <4>2. picked \subseteq 1..Len(trace) /\ Cardinality(picked) = k
          BY <1>4, <2>3 DEF Picks, kSubset
        <4>3. Cardinality({}) = 0
          BY FS_EmptySet
        <4> QED  BY <4>1, <4>2, <4>3
      <3>3. PICK p : p \in picked
        BY <3>2
      <3> DEFINE from == Digest(hash, bad.nonce)
                 gone == trace[p].position + 1
      <3>4. gone \in Nat /\ gone <= len
        BY <1>1, <1>6, <3>2, <3>3
      <3>5. Walk(dag, from, gone) = Walk(dag, start, gone)
        <4>1. Walk(dag, from, gone) = trace[p].mix
          BY <1>4, <2>2, <2>3, <3>3
        <4> QED  BY <1>6, <3>2, <3>3, <4>1
      <3> HIDE DEF from, gone
      <3>6. Walk(dag, from, len) = Walk(dag, start, len)
        BY <1>1, <3>4, <3>5, WalksMeet
      <3>7. Solves(hash, d, dag, bad.nonce)
        BY <3>6 DEF Solves, from, start, len
      <3> QED  BY <2>3, <3>7
    <2>4. CASE bad.nonce = sol.nonce
      <3>1. Len(bad.trace) >= 1 /\ Len(bad.trace) <= Len(trace)
        BY <1>4, <1>7, <1>11
      <3>2. /\ Len(bad.trace) >= Len(trace)
            /\ \A n \in 1..Len(trace) : /\ bad.trace[n].position = trace[n].position
                                        /\ bad.trace[n].mix = trace[n].mix
        BY <1>1, <1>7, <2>2, <3>1, TracesBind DEF trace
      <3>3. bad.trace = trace
        BY <1>8, <3>2
      <3> QED  BY <1>4, <2>4, <3>3
    <2> QED  BY <1>7, <2>3, <2>4
  <1> QED  BY <1>9, <1>10, <1>11

-----------------------------------------------------------------------------
(* The cache and the verdicts.                                             *)

\* The cached DAG is the one of the epoch and the size it is asked for.
LEMMA DagOfSound ==
  ASSUME CacheSound, NEW epoch, NEW size
  PROVE  LET dag == DagOf(epoch, size)
         IN  dag.elements = Generate(epoch, size) /\ dag.epoch = epoch /\ dag.size = size
  BY DEF CacheSound, DagOf

\* What a block says of its solution.
LEMMA BlockShape ==
  ASSUME NEW timestamp, NEW target, NEW sol, NEW ms, NEW body
  PROVE  LET unmined == Unmined(timestamp, target)
             b == BlockOf(unmined, sol, ms, body)
         IN  /\ b.solution = sol /\ b.solved = HeaderHash(unmined) /\ b.body = body
             /\ b.header.difficulty = target /\ b.header.epoch = unmined.epoch
             /\ b.header.merkle = BodyRoot(b.coinbase, body)
             /\ b.header.height = NextHeight /\ unmined.epoch = NextHeight \div EpochBlocks
             /\ unmined.difficulty = target
  BY DEF Unmined, BlockOf

-----------------------------------------------------------------------------
(* Fractions.  A fraction stands for another pair if the cross products are *)
(* the same; what is rounded or compared is then that of the other.         *)

\* A product is divided by one of its factors.
LEMMA DivideProduct ==
  ASSUME NEW a \in Nat, NEW g \in Nat \ {0}
  PROVE  (a * g) \div g = a
  OBVIOUS

\* Euclid's step, from a pair to the smaller number and the remainder, and where it
\* ends.
EuclidStop == {q \in Nat \X Nat : q[2] = 0}
EuclidUp == [q \in Nat \X Nat |-> <<q[2], q[1] % q[2]>>]

\* It ends: the second number gets smaller.
LEMMA EuclidEnds ==
  /\ Founded(Nat \X Nat, EuclidUp, EuclidStop)
  /\ \A q \in (Nat \X Nat) \ EuclidStop :
       /\ EuclidUp[q] \in Nat \X Nat /\ EuclidUp[q] = <<q[2], q[1] % q[2]>>
       /\ q[2] # 0
  <1> DEFINE D == Nat \X Nat
             stop == EuclidStop
             up == EuclidUp
  <1> USE DEF EuclidStop, EuclidUp
  <1>1. ASSUME NEW q \in D \ stop
        PROVE  up[q] \in D /\ up[q] = <<q[2], q[1] % q[2]>> /\ up[q][2] < q[2]
    <2>1. q[1] \in Nat /\ q[2] \in Nat /\ q[2] # 0
      OBVIOUS
    <2>2. q[1] % q[2] \in Nat /\ q[1] % q[2] < q[2]
      BY <2>1
    <2>3. up[q] = <<q[2], q[1] % q[2]>>
      OBVIOUS
    <2> HIDE DEF EuclidUp
    <2> QED  BY <2>1, <2>2, <2>3
  <1>2. Founded(D, up, stop)
    <2>1. ASSUME NEW S \in SUBSET (D \ stop), S # {}
          PROVE  \E q \in S : up[q] \notin S
      <3> DEFINE N == {q[2] : q \in S}
      <3>1. N \in SUBSET Nat /\ N # {}
        BY <2>1
      <3>2. PICK n \in N : \A m \in N : n <= m
        BY <3>1, LeastNatural
      <3>3. PICK q \in S : n = q[2]
        OBVIOUS
      <3>4. up[q] \notin S
        <4> SUFFICES ASSUME up[q] \in S  PROVE  FALSE
          OBVIOUS
        <4>1. up[q][2] \in N
          OBVIOUS
        <4>2. n <= up[q][2] /\ up[q][2] \in Nat /\ n \in Nat
          BY <3>1, <3>2, <4>1
        <4>3. up[q][2] < q[2]
          BY <1>1
        <4> HIDE DEF EuclidUp, N
        <4> QED  BY <3>3, <4>2, <4>3
      <3> QED  BY <3>4
    <2> HIDE DEF EuclidUp
    <2> QED  BY <1>1, <2>1 DEF Founded
  <1>3. \A q \in D \ stop : q[2] # 0
    OBVIOUS
  <1> HIDE DEF EuclidUp, EuclidStop
  <1> QED  BY <1>1, <1>2, <1>3

\* The greatest common divisor is that of the smaller number and the remainder.
LEMMA GcdFollows ==
  ASSUME NEW p \in Nat \X Nat
  PROVE  /\ GCD[p] \in Nat
         /\ p[2] = 0 => GCD[p] = p[1]
         /\ p[2] # 0 => /\ <<p[2], p[1] % p[2]>> \in Nat \X Nat
                        /\ GCD[p] = GCD[<<p[2], p[1] % p[2]>>]
  <1> DEFINE D == Nat \X Nat
             stop == {q \in D : q[2] = 0}
             up == [q \in D |-> <<q[2], q[1] % q[2]>>]
             base == [q \in D |-> q[1]]
             step == [x \in D \X Nat |-> x[2]]
             Body(g) == [q \in D |-> IF q[2] = 0 THEN q[1] ELSE g[<<q[2], q[1] % q[2]>>]]
  <1>1. ASSUME NEW q \in D \ stop
        PROVE  up[q] \in D /\ up[q] = <<q[2], q[1] % q[2]>> /\ q[2] # 0
    BY EuclidEnds DEF EuclidUp, EuclidStop
  <1>2. Founded(D, up, stop)
    BY EuclidEnds DEF EuclidUp, EuclidStop
  <1>3. UpStep(D, Nat, stop, base, step)
    BY DEF UpStep
  <1>4. PICK f : UpSolution(D, Nat, up, stop, base, step, f)
    <2> HIDE DEF D, up, stop, base, step
    <2> QED  BY <1>2, <1>3, FoundedRecursion
  <1>5. \A q \in D : f[q] = IF q[2] = 0 THEN q[1] ELSE f[<<q[2], q[1] % q[2]>>]
    <2> SUFFICES ASSUME NEW q \in D
                 PROVE  f[q] = IF q[2] = 0 THEN q[1] ELSE f[<<q[2], q[1] % q[2]>>]
      OBVIOUS
    <2>1. CASE q \in stop
      BY <1>4, <2>1 DEF UpSolution
    <2>2. CASE q \notin stop
      <3>1. up[q] \in D /\ up[q] = <<q[2], q[1] % q[2]>> /\ q[2] # 0
        BY <1>1, <2>2
      <3>2. f[q] = step[<<q, f[up[q]]>>] /\ f[up[q]] \in Nat
        BY <1>4, <2>2, <3>1 DEF UpSolution
      <3>3. step[<<q, f[up[q]]>>] = f[up[q]]
        BY <3>2
      <3> QED  BY <3>1, <3>2, <3>3
    <2> QED  BY <2>1, <2>2
  <1>6. f = Body(f)
    <2>1. f = [q \in D |-> f[q]]
      BY <1>4 DEF UpSolution
    <2>2. [q \in D |-> f[q]] = Body(f)
      BY <1>5
    <2> QED  BY <2>1, <2>2
  <1>7. GCD = CHOOSE g : g = Body(g)
    BY DEF GCD
  <1> HIDE DEF Body
  <1>8. GCD = Body(GCD)
    BY <1>6, <1>7
  <1> USE DEF Body
  <1>9. \A q \in D : GCD[q] = IF q[2] = 0 THEN q[1] ELSE GCD[<<q[2], q[1] % q[2]>>]
    BY <1>8
  <1>10. p[2] # 0 => <<p[2], p[1] % p[2]>> \in Nat \X Nat
    <2> SUFFICES ASSUME p[2] # 0  PROVE  <<p[2], p[1] % p[2]>> \in Nat \X Nat
      OBVIOUS
    <2>1. p \in D \ stop
      OBVIOUS
    <2> QED  BY <1>1, <2>1
  <1>11. \A q \in D : GCD[q] \in Nat
    <2> DEFINE T == {q \in D : GCD[q] \in Nat}
    <2>1. stop \subseteq T
      BY <1>9
    <2>2. ASSUME NEW q \in D \ stop, up[q] \in T  PROVE  q \in T
      <3>1. up[q] = <<q[2], q[1] % q[2]>> /\ q[2] # 0
        BY <1>1
      <3> QED  BY <1>9, <2>2, <3>1
    <2> HIDE DEF T
    <2>3. Hereditary(D, up, stop, T)
      BY <2>1, <2>2 DEF Hereditary
    <2> HIDE DEF D, up, stop
    <2>4. \A q \in D : q \in T
      BY <1>2, <2>3, FoundedInduction
    <2> QED  BY <2>4 DEF T
  <1> QED  BY <1>9, <1>10, <1>11

\* It divides both numbers, and is not zero unless both are.
LEMMA GcdDivides ==
  ASSUME NEW n \in Nat, NEW d \in Nat \ {0}
  PROVE  /\ GCD[<<n, d>>] \in Nat \ {0}
         /\ \E a \in Nat, b \in Nat : n = a * GCD[<<n, d>>] /\ d = b * GCD[<<n, d>>]
  <1> DEFINE D == Nat \X Nat
             stop == {q \in D : q[2] = 0}
             up == [q \in D |-> <<q[2], q[1] % q[2]>>]
             Divided(q) == \E a \in Nat, b \in Nat : q[1] = a * GCD[q] /\ q[2] = b * GCD[q]
             T == {q \in D : Divided(q)}
  <1> HIDE DEF Divided
  <1>1. Founded(D, up, stop)
    BY EuclidEnds DEF EuclidUp, EuclidStop
  <1>2. stop \subseteq T
    <2> SUFFICES ASSUME NEW q \in stop  PROVE  Divided(q)
      OBVIOUS
    <2>1. GCD[q] = q[1] /\ q[1] \in Nat /\ q[2] = 0
      BY GcdFollows
    <2>2. q[1] = 1 * GCD[q] /\ q[2] = 0 * GCD[q]
      BY <2>1
    <2> QED  BY <2>2 DEF Divided
  <1>3. ASSUME NEW q \in D \ stop, up[q] \in T  PROVE  q \in T
    <2> DEFINE g == GCD[q]
               r == q[1] % q[2]
               k == q[1] \div q[2]
    <2>1. q[1] \in Nat /\ q[2] \in Nat \ {0}
      OBVIOUS
    <2>2. k \in Nat /\ r \in Nat /\ q[1] = k * q[2] + r
      <3> DEFINE x == q[1]
                 y == q[2]
      <3>1. x \in Nat /\ y \in Nat \ {0}
        BY <2>1
      <3> HIDE DEF x, y
      <3>2. x \div y \in Nat /\ x % y \in Nat /\ x = (x \div y) * y + (x % y)
        BY <3>1
      <3> QED  BY <3>2 DEF x, y
    <2>3. up[q] = <<q[2], r>>
      OBVIOUS
    <2>4. GCD[up[q]] = g /\ g \in Nat
      BY <2>1, <2>3, GcdFollows
    <2>5. PICK a \in Nat, b \in Nat : q[2] = a * g /\ r = b * g
      <3>1. Divided(up[q])
        BY <1>3
      <3> QED  BY <2>3, <2>4, <3>1 DEF Divided
    <2> HIDE DEF g, r, k
    <2>6. k * a + b \in Nat /\ q[1] = (k * a + b) * g
      <3>1. k * a \in Nat
        BY <2>2
      <3>2. k * (a * g) = (k * a) * g
        BY <2>2, <2>4
      <3>3. (k * a + b) * g = (k * a) * g + b * g
        BY <2>4, <3>1
      <3> QED  BY <2>2, <2>5, <3>1, <3>2, <3>3
    <2>7. Divided(q)
      BY <2>5, <2>6 DEF Divided, g
    <2> QED  BY <2>7
  <1> HIDE DEF T
  <1>4. Hereditary(D, up, stop, T)
    BY <1>2, <1>3 DEF Hereditary
  <1> DEFINE p == <<n, d>>
  <1>5. p \in D /\ p[1] = n /\ p[2] = d
    OBVIOUS
  <1>6. p \in T
    <2> HIDE DEF D, up, stop, p
    <2> QED  BY <1>1, <1>4, <1>5, FoundedInduction
  <1> HIDE DEF p
  <1>7. \E a \in Nat, b \in Nat : n = a * GCD[p] /\ d = b * GCD[p]
    BY <1>5, <1>6 DEF T, Divided
  <1>8. GCD[p] \in Nat
    BY <1>5, GcdFollows
  <1>9. GCD[p] # 0
    BY <1>7
  <1> QED  BY <1>7, <1>8, <1>9 DEF p

\* A positive factor is dropped from both sides.
LEMMA DropFactor ==
  ASSUME NEW x \in Int, NEW y \in Int, NEW b \in Nat \ {0}
  PROVE  /\ x * b = y * b => x = y
         /\ x * b < y * b <=> x < y
         /\ x * b <= y * b <=> x <= y
  <1>1. b \in Int /\ b > 0
    OBVIOUS
  <1>2. x < y => x * b < y * b
    BY <1>1
  <1>3. y < x => y * b < x * b
    BY <1>1
  <1>4. x * b \in Int /\ y * b \in Int
    BY <1>1
  <1> QED  BY <1>2, <1>3, <1>4

Fraction == Nat \X (Nat \ {0})

\* The fraction stands for a / b.
Denotes(q, a, b) == q \in Fraction /\ q[1] * b = a * q[2]

LEMMA RatioDenotes ==
  ASSUME NEW n \in Nat, NEW d \in Nat \ {0}
  PROVE  Denotes(Ratio(n, d), n, d)
  <1> DEFINE g == GCD[<<n, d>>]
  <1>1. g \in Nat \ {0} /\ \E a \in Nat, b \in Nat : n = a * g /\ d = b * g
    BY GcdDivides
  <1> HIDE DEF g
  <1>2. PICK a \in Nat, b \in Nat : n = a * g /\ d = b * g
    BY <1>1
  <1>3. n \div g = a /\ d \div g = b
    BY <1>1, <1>2, DivideProduct
  <1>4. b # 0
    BY <1>1, <1>2
  <1>5. Ratio(n, d) = <<a, b>>
    BY <1>3 DEF Ratio, g
  <1>6. a * d = n * b
    <2>1. a * (b * g) = (a * g) * b
      BY <1>1
    <2> QED  BY <1>2, <2>1
  <1> QED  BY <1>4, <1>5, <1>6 DEF Denotes, Fraction

\* Of two pairs with the same value a fraction stands for both.
LEMMA DenotesSame ==
  ASSUME NEW a \in Nat, NEW b \in Nat \ {0}, NEW c \in Nat, NEW d \in Nat \ {0},
         a * d = c * b, NEW q, Denotes(q, a, b)
  PROVE  Denotes(q, c, d)
  <1> DEFINE x == q[1]
             y == q[2]
  <1>1. x \in Nat /\ y \in Nat /\ x * b = a * y
    BY DEF Denotes, Fraction
  <1> HIDE DEF x, y
  <1>2. x * d \in Int /\ c * y \in Int
    BY <1>1
  <1>3. (x * d) * b = (c * y) * b
    <2>1. (x * d) * b = (x * b) * d
      BY <1>1
    <2>2. (a * y) * d = (a * d) * y
      BY <1>1
    <2>3. (c * b) * y = (c * y) * b
      BY <1>1
    <2> QED  BY <1>1, <2>1, <2>2, <2>3
  <1>4. x * d = c * y
    BY <1>2, <1>3, DropFactor
  <1> QED  BY <1>4 DEF Denotes, x, y

\* The parts of a fraction, and a whole number as one.
LEMMA FractionParts ==
  /\ \A q \in Fraction : Denotes(q, q[1], q[2]) /\ q[1] \in Nat /\ q[2] \in Nat \ {0}
  /\ \A q, a, b : Denotes(q, a, b) => q \in Fraction
  /\ \A n \in Nat : Denotes(Frac(n), n, 1)
  BY DEF Denotes, Fraction, Frac

\* Products.
LEMMA TimesDenotes ==
  ASSUME NEW a \in Nat, NEW b \in Nat \ {0}, NEW c \in Nat, NEW d \in Nat \ {0},
         NEW q, Denotes(q, a, b), NEW r, Denotes(r, c, d)
  PROVE  Denotes(Times(q, r), a * c, b * d)
  <1> DEFINE x == q[1]
             y == q[2]
             v == r[1]
             w == r[2]
  <1>1. /\ x \in Nat /\ y \in Nat \ {0} /\ v \in Nat /\ w \in Nat \ {0}
        /\ x * b = a * y /\ v * d = c * w
    BY DEF Denotes, Fraction
  <1> HIDE DEF x, y, v, w
  <1>2. x * v \in Nat /\ y * w \in Nat \ {0} /\ a * c \in Nat /\ b * d \in Nat \ {0}
    BY <1>1
  <1>3. Denotes(Ratio(x * v, y * w), x * v, y * w)
    BY <1>2, RatioDenotes
  <1>4. (x * v) * (b * d) = (a * c) * (y * w)
    <2>1. (x * v) * (b * d) = (x * b) * (v * d)
      BY <1>1
    <2>2. (a * y) * (c * w) = (a * c) * (y * w)
      BY <1>1
    <2> QED  BY <1>1, <2>1, <2>2
  <1>5. Denotes(Ratio(x * v, y * w), a * c, b * d)
    <2> DEFINE m == x * v
               n == y * w
               k == a * c
               l == b * d
    <2> HIDE DEF m, n, k, l
    <2> QED  BY <1>2, <1>3, <1>4, DenotesSame DEF m, n, k, l
  <1> QED  BY <1>5 DEF Times, x, y, v, w

\* Quotients, by what is not zero.
LEMMA OverDenotes ==
  ASSUME NEW a \in Nat, NEW b \in Nat \ {0}, NEW c \in Nat \ {0}, NEW d \in Nat \ {0},
         NEW q, Denotes(q, a, b), NEW r, Denotes(r, c, d)
  PROVE  Denotes(Over(q, r), a * d, b * c)
  <1> DEFINE x == q[1]
             y == q[2]
             v == r[1]
             w == r[2]
  <1>1. /\ x \in Nat /\ y \in Nat \ {0} /\ v \in Nat /\ w \in Nat \ {0}
        /\ x * b = a * y /\ v * d = c * w
    BY DEF Denotes, Fraction
  <1> HIDE DEF x, y, v, w
  <1>2. v # 0
    BY <1>1
  <1>3. x * w \in Nat /\ y * v \in Nat \ {0} /\ a * d \in Nat /\ b * c \in Nat \ {0}
    BY <1>1, <1>2
  <1>4. Denotes(Ratio(x * w, y * v), x * w, y * v)
    BY <1>3, RatioDenotes
  <1>5. (x * w) * (b * c) = (a * d) * (y * v)
    <2>1. (x * w) * (b * c) = (x * b) * (c * w)
      BY <1>1
    <2>2. (a * y) * (v * d) = (a * d) * (y * v)
      BY <1>1
    <2> QED  BY <1>1, <2>1, <2>2
  <1>6. Denotes(Ratio(x * w, y * v), a * d, b * c)
    <2> DEFINE m == x * w
               n == y * v
               k == a * d
               l == b * c
    <2> HIDE DEF m, n, k, l
    <2> QED  BY <1>3, <1>4, <1>5, DenotesSame DEF m, n, k, l
  <1> QED  BY <1>6 DEF Over, x, y, v, w

\* The order is that of the cross products.
LEMMA LessDenotes ==
  ASSUME NEW a \in Nat, NEW b \in Nat \ {0}, NEW c \in Nat, NEW d \in Nat \ {0},
         NEW q, Denotes(q, a, b), NEW r, Denotes(r, c, d)
  PROVE  Less(q, r) <=> a * d < c * b
  <1> DEFINE x == q[1]
             y == q[2]
             v == r[1]
             w == r[2]
  <1>1. /\ x \in Nat /\ y \in Nat \ {0} /\ v \in Nat /\ w \in Nat \ {0}
        /\ x * b = a * y /\ v * d = c * w
    BY DEF Denotes, Fraction
  <1>2. Less(q, r) <=> x * w < v * y
    BY DEF Less
  <1> HIDE DEF x, y, v, w
  <1>3. /\ x * w \in Int /\ v * y \in Int /\ a * d \in Int /\ c * b \in Int
        /\ b * d \in Nat \ {0} /\ y * w \in Nat \ {0}
    BY <1>1
  <1>4. (x * w) * (b * d) = (a * d) * (y * w)
    <2>1. (x * w) * (b * d) = (x * b) * (w * d)
      BY <1>1
    <2>2. (a * y) * (w * d) = (a * d) * (y * w)
      BY <1>1
    <2> QED  BY <1>1, <2>1, <2>2
  <1>5. (v * y) * (b * d) = (c * b) * (y * w)
    <2>1. (v * y) * (b * d) = (v * d) * (y * b)
      BY <1>1
    <2>2. (c * w) * (y * b) = (c * b) * (y * w)
      BY <1>1
    <2> QED  BY <1>1, <2>1, <2>2
  <1> DEFINE k == x * w
             l == v * y
             m == a * d
             n == c * b
             e == b * d
             f == y * w
  <1>6. k \in Int /\ l \in Int /\ m \in Int /\ n \in Int
        /\ e \in Nat \ {0} /\ f \in Nat \ {0} /\ k * e = m * f /\ l * e = n * f
    BY <1>3, <1>4, <1>5
  <1> HIDE DEF k, l, m, n, e, f
  <1>7. k < l <=> k * e < l * e
    BY <1>6, DropFactor
  <1>8. m < n <=> m * f < n * f
    BY <1>6, DropFactor
  <1> QED  BY <1>2, <1>6, <1>7, <1>8 DEF k, l, m, n

\* Rounding is to a half, truncation to the number below.
LEMMA RoundDenotes ==
  ASSUME NEW a \in Nat, NEW b \in Nat \ {0}, NEW q, Denotes(q, a, b)
  PROVE  /\ Round(q) \in Nat
         /\ 2 * (Round(q) * b) <= 2 * a + b
         /\ 2 * a + b < 2 * (Round(q) * b) + 2 * b
  <1> DEFINE x == q[1]
             y == q[2]
             k == Round(q)
  <1>1. x \in Nat /\ y \in Nat \ {0} /\ x * b = a * y
    BY DEF Denotes, Fraction
  <1>2. k = (2 * x + y) \div (2 * y)
    BY DEF Round
  <1> HIDE DEF x, y, k
  <1>3. k \in Nat /\ 2 * (k * y) <= 2 * x + y /\ 2 * x + y < 2 * (k * y) + 2 * y
    <2> DEFINE m == 2 * x + y
               n == 2 * y
    <2>1. m \in Nat /\ n \in Nat \ {0}
      BY <1>1
    <2>2. k = m \div n
      BY <1>2
    <2> HIDE DEF m, n
    <2>3. k \in Nat /\ k * n <= m /\ m < k * n + n
      BY <2>1, <2>2
    <2>4. k * n = 2 * (k * y)
      BY <1>1, <2>3 DEF n
    <2> QED  BY <2>3, <2>4 DEF m, n
  <1> DEFINE l == k * y
             c == k * b
  <1>4. l \in Int /\ c \in Int
    BY <1>1, <1>3
  <1>5. (2 * l) * b = (2 * c) * y
    BY <1>1, <1>3
  <1>6. (2 * x + y) * b = (2 * a + b) * y
    <2>1. (2 * x + y) * b = 2 * (x * b) + y * b
      BY <1>1
    <2>2. 2 * (a * y) + y * b = (2 * a + b) * y
      BY <1>1
    <2> QED  BY <1>1, <2>1, <2>2
  <1>7. (2 * l + 2 * y) * b = (2 * c + 2 * b) * y
    BY <1>1, <1>4, <1>5
  <1> HIDE DEF l, c
  <1>8. 2 * l <= 2 * x + y /\ 2 * x + y < 2 * l + 2 * y
    BY <1>3 DEF l
  <1> DEFINE p == 2 * l
             r == 2 * x + y
             s == 2 * l + 2 * y
             u == 2 * c
             v == 2 * a + b
             w == 2 * c + 2 * b
  <1>9. /\ p \in Int /\ r \in Int /\ s \in Int /\ u \in Int /\ v \in Int /\ w \in Int
        /\ p * b = u * y /\ r * b = v * y /\ s * b = w * y /\ p <= r /\ r < s
    BY <1>1, <1>4, <1>5, <1>6, <1>7, <1>8
  <1> HIDE DEF p, r, s, u, v, w
  <1>10. p * b <= r * b /\ r * b < s * b
    BY <1>9, DropFactor
  <1>11. u <= v /\ v < w
    BY <1>1, <1>9, <1>10, DropFactor
  <1> QED  BY <1>3, <1>11 DEF u, v, w, c, k

LEMMA TruncateDenotes ==
  ASSUME NEW a \in Nat, NEW b \in Nat \ {0}, NEW q, Denotes(q, a, b)
  PROVE  /\ Truncate(q) \in Nat
         /\ Truncate(q) * b <= a
         /\ a < Truncate(q) * b + b
  <1> DEFINE x == q[1]
             y == q[2]
             k == Truncate(q)
  <1>1. x \in Nat /\ y \in Nat \ {0} /\ x * b = a * y
    BY DEF Denotes, Fraction
  <1>2. k = x \div y
    BY DEF Truncate
  <1> HIDE DEF x, y, k
  <1>3. k \in Nat /\ k * y <= x /\ x < k * y + y
    BY <1>1, <1>2
  <1> DEFINE l == k * y
             c == k * b
             s == l + y
             w == c + b
  <1>4. /\ l \in Int /\ c \in Int /\ s \in Int /\ w \in Int
        /\ l * b = c * y /\ s * b = w * y
    <2>1. l \in Int /\ c \in Int /\ l * b = c * y
      BY <1>1, <1>3
    <2>2. (l + y) * b = l * b + y * b /\ (c + b) * y = c * y + b * y
      BY <1>1, <2>1
    <2>3. y * b = b * y
      BY <1>1
    <2> QED  BY <1>1, <2>1, <2>2, <2>3
  <1>5. l <= x /\ x < s
    BY <1>3
  <1> HIDE DEF l, c, s, w
  <1>6. l * b <= x * b /\ x * b < s * b
    BY <1>1, <1>4, <1>5, DropFactor
  <1>7. c <= a /\ a < w
    BY <1>1, <1>4, <1>6, DropFactor
  <1> QED  BY <1>3, <1>7 DEF c, w, k

-----------------------------------------------------------------------------
(* What a block emits, pays and burns.                                     *)

\* The smaller and the larger of two fractions are fractions.
LEMMA ClampFraction ==
  ASSUME NEW q \in Fraction, NEW low \in Fraction, NEW high \in Fraction
  PROVE  /\ Larger(q, low) \in Fraction
         /\ Clamp(q, low, high) \in Fraction
         /\ ~Less(high, low) => /\ ~Less(Clamp(q, low, high), low)
                                /\ ~Less(high, Clamp(q, low, high))
  <1>1. Larger(q, low) \in Fraction /\ Clamp(q, low, high) \in {q, low, high}
    BY DEF Larger, Clamp
  <1>2. ~Less(low, low) /\ ~Less(high, high)
    BY DEF Less, Fraction
  <1>3. ~Less(high, low) => /\ ~Less(Clamp(q, low, high), low)
                            /\ ~Less(high, Clamp(q, low, high))
    BY <1>2 DEF Clamp
  <1> QED  BY <1>1, <1>3

\* What a miner declares is something, and is nothing worth if it made no access.
LEMMA CommittedFraction ==
  ASSUME NEW length \in Nat, NEW ms \in Nat
  PROVE  /\ Declared(length, ms) \in Fraction /\ Declared(length, ms)[1] > 0
         /\ EfficiencyOf(length, ms) \in Fraction
         /\ Committed(length, ms) \in Fraction
         /\ length = 0 => ~Less(Frac(0), EfficiencyOf(length, ms))
  <1> DEFINE declared == Declared(length, ms)
             m == IF ms = 0 THEN 1 ELSE ms
             seconds == Ratio(m, 1000)
             efficiency == EfficiencyOf(length, ms)
             least == Frac(MinCommit)
             aops == Aops(length, ms)
  <1>1. MinCommit \in Nat \ {0}
    BY RewardsAssumption
  <1>2. Denotes(least, MinCommit, 1) /\ least[1] = MinCommit /\ least[2] = 1
    BY <1>1, FractionParts DEF Frac
  <1>3. aops \in Fraction
    <2>1. Frac(0) \in Fraction
      BY FractionParts
    <2>2. length * 1000 \in Nat
      OBVIOUS
    <2>3. ms # 0 => Ratio(length * 1000, ms) \in Fraction
      BY <2>2, RatioDenotes DEF Denotes
    <2> QED  BY <2>1, <2>3 DEF Aops
  <1> HIDE DEF aops
  <1>4. declared \in Fraction /\ declared[1] > 0
    <2>1. declared = Larger(aops, least)
      BY DEF Declared, aops
    <2>2. CASE Less(aops, least)
      BY <1>1, <1>2, <2>1, <2>2 DEF Larger, Denotes
    <2>3. CASE ~Less(aops, least)
      <3> DEFINE a == aops[1]
                 b == aops[2]
      <3>1. a \in Nat /\ b \in Nat \ {0} /\ ~(a * 1 < MinCommit * b)
        BY <1>2, <1>3, <2>3 DEF Less, Fraction
      <3> HIDE DEF a, b
      <3>2. MinCommit * b > 0 /\ a * 1 = a /\ MinCommit * b \in Nat
        BY <1>1, <3>1
      <3>3. a > 0
        BY <3>1, <3>2
      <3>4. declared = aops
        BY <2>1, <2>3 DEF Larger
      <3> QED  BY <1>3, <3>3, <3>4 DEF a
    <2> QED  BY <2>2, <2>3
  <1>5. m \in Nat \ {0}
    OBVIOUS
  <1> HIDE DEF declared, m
  <1>6. seconds \in Fraction /\ seconds[1] > 0
    <2>1. Denotes(seconds, m, 1000)
      BY <1>5, RatioDenotes
    <2> DEFINE a == seconds[1]
               b == seconds[2]
    <2>2. a \in Nat /\ b \in Nat \ {0} /\ a * 1000 = m * b
      BY <2>1 DEF Denotes, Fraction
    <2> HIDE DEF a, b
    <2>3. m * b > 0
      BY <1>5, <2>2
    <2>4. a > 0
      BY <2>2, <2>3
    <2> QED  BY <2>1, <2>4 DEF a, Denotes
  <1> HIDE DEF seconds
  <1>7. efficiency = Over(Frac(length), Times(declared, seconds))
    <2>1. efficiency = Efficiency(Frac(length), declared, seconds)
      BY DEF EfficiencyOf, declared, seconds, m
    <2>2. ~(declared[1] <= 0) /\ ~(seconds[1] <= 0)
      BY <1>4, <1>6 DEF Fraction
    <2> QED  BY <2>1, <2>2 DEF Efficiency
  <1>8. efficiency \in Fraction /\ (length = 0 => efficiency[1] = 0)
    <2> DEFINE a == declared[1]
               b == declared[2]
               c == seconds[1]
               d == seconds[2]
    <2>1. /\ a \in Nat \ {0} /\ b \in Nat \ {0} /\ c \in Nat \ {0} /\ d \in Nat \ {0}
          /\ Denotes(declared, a, b) /\ Denotes(seconds, c, d)
      BY <1>4, <1>6, FractionParts DEF Fraction
    <2> HIDE DEF a, b, c, d
    <2>2. a * c \in Nat \ {0} /\ b * d \in Nat \ {0}
      BY <2>1
    <2>3. Denotes(Times(declared, seconds), a * c, b * d)
      BY <2>1, TimesDenotes
    <2> DEFINE e == a * c
               f == b * d
               t == Times(declared, seconds)
    <2>4. e \in Nat \ {0} /\ f \in Nat \ {0} /\ Denotes(t, e, f)
      BY <2>2, <2>3
    <2> HIDE DEF e, f, t
    <2>5. Denotes(Frac(length), length, 1)
      BY FractionParts
    <2>6. Denotes(Over(Frac(length), t), length * f, 1 * e)
      BY <2>4, <2>5, OverDenotes
    <2>7. Denotes(efficiency, length * f, 1 * e)
      BY <1>7, <2>6 DEF t
    <2> DEFINE x == efficiency[1]
               y == efficiency[2]
    <2>8. x \in Nat /\ y \in Nat \ {0} /\ x * (1 * e) = (length * f) * y
          /\ efficiency \in Fraction
      BY <2>7 DEF Denotes, Fraction
    <2> HIDE DEF x, y, efficiency
    <2>9. ASSUME length = 0  PROVE  x = 0
      <3>1. x * e = 0
        BY <2>4, <2>8, <2>9
      <3> QED  BY <2>4, <2>8, <3>1
    <2> QED  BY <2>8, <2>9 DEF x
  <1>9. length = 0 => ~Less(Frac(0), efficiency)
    BY <1>8 DEF Less, Frac, Fraction
  <1>10. Committed(length, ms) \in Fraction
    <2>1. Committed(length, ms) = EffectiveCommitment(declared, efficiency)
      BY DEF Committed, declared
    <2>2. ASSUME NEW q \in Fraction  PROVE  Times(declared, q) \in Fraction
      <3>1. /\ Denotes(declared, declared[1], declared[2]) /\ Denotes(q, q[1], q[2])
            /\ declared[1] \in Nat /\ declared[2] \in Nat \ {0}
            /\ q[1] \in Nat /\ q[2] \in Nat \ {0}
        BY <1>4, FractionParts
      <3>2. Denotes(Times(declared, q), declared[1] * q[1], declared[2] * q[2])
        BY <3>1, TimesDenotes
      <3> QED  BY <3>2, FractionParts
    <2>3. HighPercent \in Nat
      BY RewardsAssumption
    <2>4. Percent(HighPercent) \in Fraction
      BY <2>3, RatioDenotes, FractionParts DEF Percent
    <2> QED  BY <1>4, <1>8, <2>1, <2>2, <2>4 DEF EffectiveCommitment
  <1> QED  BY <1>4, <1>8, <1>9, <1>10 DEF declared

\* The emission keeps within its floor and its ceiling.
LEMMA EmissionBounds ==
  ASSUME NEW ce \in Fraction, NEW average \in Fraction
  PROVE  LET e == EmissionRate(ce, average)
         IN  /\ e \in Fraction
             /\ 100 * e[1] >= (BaseEmission * FloorPercent) * e[2]
             /\ 100 * e[1] <= (BaseEmission * CeilingPercent) * e[2]
  <1> DEFINE e == EmissionRate(ce, average)
             B == BaseEmission
             low == Times(Frac(B), Percent(FloorPercent))
             high == Times(Frac(B), Percent(CeilingPercent))
  <1>1. B \in Nat \ {0} /\ FloorPercent \in Nat /\ CeilingPercent \in Nat
        /\ FloorPercent <= 100 /\ CeilingPercent >= 100
    <2>1. BaseEmission \in Nat \ {0}
      BY RewardsAssumption
    <2>2. FloorPercent \in 1..100 /\ CeilingPercent \in Nat /\ CeilingPercent >= 100
      BY RewardsAssumption
    <2> QED  BY <2>1, <2>2
  <1> HIDE DEF B
  <1>2. Denotes(Frac(B), B, 1)
    BY <1>1, FractionParts
  <1>3. ASSUME NEW p \in Nat
        PROVE  Denotes(Times(Frac(B), Percent(p)), B * p, 100)
    <2>1. Denotes(Percent(p), p, 100)
      BY RatioDenotes DEF Percent
    <2>2. Denotes(Times(Frac(B), Percent(p)), B * p, 1 * 100)
      BY <1>1, <1>2, <2>1, TimesDenotes
    <2> QED  BY <2>2
  <1>4. Denotes(low, B * FloorPercent, 100) /\ Denotes(high, B * CeilingPercent, 100)
    BY <1>1, <1>3
  <1>5. /\ B * FloorPercent \in Nat /\ B * CeilingPercent \in Nat
        /\ B * FloorPercent <= B * 100 /\ B * 100 <= B * CeilingPercent
    BY <1>1
  <1> DEFINE l == B * FloorPercent
             h == B * CeilingPercent
  <1>6. l \in Nat /\ h \in Nat /\ l <= B * 100 /\ B * 100 <= h
        /\ Denotes(low, l, 100) /\ Denotes(high, h, 100)
    BY <1>4, <1>5
  <1> HIDE DEF low, high, l, h
  <1>7. CASE average[1] <= 0
    <2>1. e[1] = B /\ e[2] = 1 /\ e \in Fraction
      BY <1>2, <1>7 DEF EmissionRate, Frac, B, Denotes
    <2>2. 100 * e[1] >= l * e[2] /\ 100 * e[1] <= h * e[2]
      BY <1>1, <1>6, <2>1
    <2> QED  BY <2>1, <2>2 DEF l, h, B
  <1>8. CASE ~(average[1] <= 0)
    <2> DEFINE q == Over(Times(Frac(B), ce), average)
    <2>1. e = Clamp(q, low, high)
      BY <1>8 DEF EmissionRate, B, low, high
    <2>2. q \in Fraction
      <3>1. /\ Denotes(ce, ce[1], ce[2]) /\ ce[1] \in Nat /\ ce[2] \in Nat \ {0}
            /\ Denotes(average, average[1], average[2])
            /\ average[1] \in Nat /\ average[2] \in Nat \ {0}
        BY FractionParts
      <3>2. average[1] \in Nat \ {0}
        BY <1>8, <3>1
      <3> DEFINE a == B * ce[1]
                 b == 1 * ce[2]
      <3>3. a \in Nat /\ b \in Nat \ {0}
        BY <1>1, <3>1
      <3>4. Denotes(Times(Frac(B), ce), a, b)
        BY <1>1, <1>2, <3>1, TimesDenotes
      <3> HIDE DEF a, b
      <3>5. Denotes(q, a * average[2], b * average[1])
        BY <3>1, <3>2, <3>3, <3>4, OverDenotes
      <3> QED  BY <3>5, FractionParts
    <2> HIDE DEF q, e
    <2>3. low \in Fraction /\ high \in Fraction
      BY <1>6, FractionParts
    <2>4. ~Less(high, low)
      <3>1. Less(high, low) <=> h * 100 < l * 100
        BY <1>6, LessDenotes
      <3> QED  BY <1>1, <1>6, <3>1
    <2>5. e \in Fraction /\ ~Less(e, low) /\ ~Less(high, e)
      BY <2>1, <2>2, <2>3, <2>4, ClampFraction
    <2>6. Denotes(e, e[1], e[2]) /\ e[1] \in Nat /\ e[2] \in Nat \ {0}
      BY <2>5, FractionParts
    <2> DEFINE x == e[1]
               y == e[2]
    <2>7. x \in Nat /\ y \in Nat \ {0} /\ Denotes(e, x, y)
      BY <2>6
    <2> HIDE DEF x, y
    <2>8. ~(x * 100 < l * y) /\ ~(h * y < x * 100)
      <3>1. Less(e, low) <=> x * 100 < l * y
        BY <1>6, <2>7, LessDenotes
      <3>2. Less(high, e) <=> h * y < x * 100
        BY <1>6, <2>7, LessDenotes
      <3> QED  BY <2>5, <3>1, <3>2
    <2>9. 100 * x >= l * y /\ 100 * x <= h * y
      <3>1. l * y \in Nat /\ h * y \in Nat
        BY <1>6, <2>7
      <3> QED  BY <2>7, <2>8, <3>1
    <2> QED  BY <2>5, <2>9 DEF x, y, l, h, B, e
  <1> QED  BY <1>7, <1>8

\* Differences of a larger and a smaller one.
LEMMA MinusDenotes ==
  ASSUME NEW a \in Nat, NEW b \in Nat \ {0}, NEW c \in Nat, NEW d \in Nat \ {0},
         NEW q, Denotes(q, a, b), NEW r, Denotes(r, c, d), Less(r, q)
  PROVE  a * d - c * b \in Nat /\ Denotes(Minus(q, r), a * d - c * b, b * d)
  <1> DEFINE x == q[1]
             y == q[2]
             v == r[1]
             w == r[2]
  <1>1. /\ x \in Nat /\ y \in Nat \ {0} /\ v \in Nat /\ w \in Nat \ {0}
        /\ x * b = a * y /\ v * d = c * w
    BY DEF Denotes, Fraction
  <1>2. v * y < x * w
    BY DEF Less
  <1>3. c * b < a * d
    BY LessDenotes
  <1> HIDE DEF x, y, v, w
  <1>4. x * w - v * y \in Nat /\ y * w \in Nat \ {0} /\ b * d \in Nat \ {0}
        /\ a * d - c * b \in Nat
    BY <1>1, <1>2, <1>3
  <1>5. Denotes(Ratio(x * w - v * y, y * w), x * w - v * y, y * w)
    BY <1>4, RatioDenotes
  <1>6. (x * w - v * y) * (b * d) = (a * d - c * b) * (y * w)
    <2>1. (x * w) * (b * d) = (a * d) * (y * w)
      <3>1. (x * w) * (b * d) = (x * b) * (w * d)
        BY <1>1
      <3>2. (a * y) * (w * d) = (a * d) * (y * w)
        BY <1>1
      <3> QED  BY <1>1, <3>1, <3>2
    <2>2. (v * y) * (b * d) = (c * b) * (y * w)
      <3>1. (v * y) * (b * d) = (v * d) * (y * b)
        BY <1>1
      <3>2. (c * w) * (y * b) = (c * b) * (y * w)
        BY <1>1
      <3> QED  BY <1>1, <3>1, <3>2
    <2>3. (x * w - v * y) * (b * d) = (x * w) * (b * d) - (v * y) * (b * d)
      BY <1>1
    <2>4. (a * d - c * b) * (y * w) = (a * d) * (y * w) - (c * b) * (y * w)
      BY <1>1
    <2> QED  BY <2>1, <2>2, <2>3, <2>4
  <1> DEFINE m == x * w - v * y
             n == y * w
             k == a * d - c * b
             l == b * d
  <1>7. m \in Nat /\ n \in Nat \ {0} /\ k \in Nat /\ l \in Nat \ {0} /\ m * l = k * n
        /\ Denotes(Ratio(m, n), m, n)
    BY <1>4, <1>5, <1>6
  <1> HIDE DEF m, n, k, l
  <1>8. Denotes(Ratio(m, n), k, l)
    BY <1>7, DenotesSame
  <1> QED  BY <1>7, <1>8 DEF Minus, x, y, v, w, m, n, k, l

\* An amount in units is within half a unit of what it is the rounding of.
LEMMA UnitsBounds ==
  ASSUME NEW a \in Nat, NEW b \in Nat \ {0}, NEW u \in Nat, UnitsPerEwatt = 100 * u,
         NEW q, Denotes(q, a, b * 100)
  PROVE  /\ ToUnits(q) \in Nat
         /\ 2 * (ToUnits(q) * b) <= 2 * (a * u) + b
         /\ 2 * (a * u) + b < 2 * (ToUnits(q) * b) + 2 * b
  <1> DEFINE r == Times(q, Frac(UnitsPerEwatt))
             d == b * 100
             c == 100 * u
  <1>1. d \in Nat \ {0} /\ c \in Nat /\ UnitsPerEwatt = c /\ Denotes(q, a, d)
    OBVIOUS
  <1> HIDE DEF c, d
  <1> DEFINE units == Frac(UnitsPerEwatt)
  <1>2. Denotes(units, c, 1)
    BY <1>1, FractionParts
  <1>3. Denotes(r, a * c, d * 1)
    <2> HIDE DEF units
    <2>1. ASSUME NEW x \in Nat \ {0}, NEW f, Denotes(f, c, x)
          PROVE  Denotes(Times(q, f), a * c, d * x)
      BY <1>1, <2>1, TimesDenotes
    <2>2. 1 \in Nat \ {0}
      OBVIOUS
    <2>3. Denotes(Times(q, units), a * c, d * 1)
      BY <1>2, <2>1, <2>2
    <2> QED  BY <2>3 DEF units
  <1> DEFINE e == a * u
             f == a * c
             g == d * 1
  <1>4. e \in Nat /\ f \in Nat /\ g \in Nat \ {0} /\ f * b = e * g
    BY <1>1 DEF c, d
  <1>5. Denotes(r, f, g)
    BY <1>3
  <1> HIDE DEF e, f, g, r
  <1>6. Denotes(r, e, b)
    BY <1>4, <1>5, DenotesSame
  <1>7. /\ Round(r) \in Nat /\ 2 * (Round(r) * b) <= 2 * e + b
        /\ 2 * e + b < 2 * (Round(r) * b) + 2 * b
    BY <1>4, <1>6, RoundDenotes
  <1> QED  BY <1>7 DEF ToUnits, r, e

\* What is paid and burned of an emission within its bounds.
LEMMA PaidBounds ==
  ASSUME NEW e \in Fraction,
         100 * e[1] >= (BaseEmission * FloorPercent) * e[2],
         100 * e[1] <= (BaseEmission * CeilingPercent) * e[2],
         NEW height \in Nat
  PROVE  LET paid == RampUpCap(height, e)
             kept == ToUnits(paid.reward)
             burn == ToUnits(paid.burned)
             emitted == ToUnits(e)
         IN  /\ kept \in Nat /\ burn \in Nat /\ emitted \in Nat
             /\ kept + burn \in (emitted - 1)..(emitted + 1)
             /\ 100 * emitted >= FloorPercent * BaseEmission * UnitsPerEwatt
             /\ 100 * kept <= CeilingPercent * BaseEmission * UnitsPerEwatt
             /\ height < RampUpBlocks => 100 * kept <= CapPercent * (kept + burn) + 100
  <1> DEFINE m == e[1]
             b == e[2]
             C == CapPercent
             u == UnitsPerEwatt \div 100
             l == BaseEmission * FloorPercent
             h == BaseEmission * CeilingPercent
             paid == RampUpCap(height, e)
             kept == ToUnits(paid.reward)
             burn == ToUnits(paid.burned)
             emitted == ToUnits(e)
             cap == Times(e, Percent(C))
  <1>1. m \in Nat /\ b \in Nat \ {0} /\ Denotes(e, m, b) /\ 100 * m >= l * b
        /\ 100 * m <= h * b
    BY FractionParts
  <1>2. u \in Nat /\ UnitsPerEwatt = 100 * u
    <2>1. UnitsPerEwatt \in Nat /\ UnitsPerEwatt % 100 = 0
      BY RewardsAssumption
    <2> QED  BY <2>1
  <1>3. C \in Nat /\ C <= 100 /\ l \in Nat /\ h \in Nat
    <2>1. BaseEmission \in Nat
      BY RewardsAssumption
    <2>2. FloorPercent \in 1..100 /\ CeilingPercent \in Nat /\ CapPercent \in 1..100
      BY RewardsAssumption
    <2> QED  BY <2>1, <2>2
  <1>4. /\ 100 * (l * u) = FloorPercent * BaseEmission * UnitsPerEwatt
        /\ 100 * (h * u) = CeilingPercent * BaseEmission * UnitsPerEwatt
    <2>1. BaseEmission \in Nat
      BY RewardsAssumption
    <2>2. FloorPercent \in Nat /\ CeilingPercent \in Nat
      BY RewardsAssumption
    <2> QED  BY <1>2, <2>1, <2>2
  <1>5. Denotes(cap, m * C, b * 100)
    <2>1. Denotes(Percent(C), C, 100)
      BY <1>3, RatioDenotes DEF Percent
    <2> HIDE DEF m, b, C
    <2> QED  BY <1>1, <1>3, <2>1, TimesDenotes
  <1>6. Denotes(e, m * 100, b * 100)
    <2> DEFINE c == m * 100
               d == b * 100
    <2> HIDE DEF m, b
    <2>1. c \in Nat /\ d \in Nat \ {0} /\ m * d = c * b
      BY <1>1
    <2> HIDE DEF c, d
    <2>2. Denotes(e, c, d)
      BY <1>1, <2>1, DenotesSame
    <2> QED  BY <2>2 DEF c, d
  <1>7. height \in Nat /\ (Less(cap, e) <=> m * C < m * 100)
    <2> HIDE DEF m, b, C, cap
    <2> DEFINE x == m * C
               y == b * 100
               z == m * 100
    <2>1. x \in Nat /\ y \in Nat \ {0} /\ z \in Nat /\ Denotes(cap, x, y) /\ Denotes(e, z, y)
      BY <1>1, <1>3, <1>5, <1>6
    <2> HIDE DEF x, y, z
    <2>2. Less(cap, e) <=> x * y < z * y
      BY <2>1, LessDenotes
    <2>3. x * y < z * y <=> x < z
      BY <2>1, DropFactor
    <2> QED  BY <2>2, <2>3 DEF x, z
  <1>8. Denotes(Frac(0), 0, b * 100)
    BY <1>1 DEF Denotes, Fraction, Frac
  <1>9. Less(cap, e) => Denotes(Minus(e, cap), m * (100 - C), b * 100)
    <2> SUFFICES ASSUME Less(cap, e)  PROVE  Denotes(Minus(e, cap), m * (100 - C), b * 100)
      OBVIOUS
    <2> HIDE DEF m, b, C, cap
    <2> DEFINE x == m * C
               y == b * 100
               k == m * y - x * b
               n == b * y
               p == m * (100 - C)
    <2>1. x \in Nat /\ y \in Nat \ {0} /\ Denotes(cap, x, y)
      BY <1>1, <1>3, <1>5
    <2>2. n \in Nat \ {0} /\ p \in Nat /\ k * y = p * n
      <3>1. 100 - C \in Nat
        BY <1>3
      <3>2. k = p * b
        BY <1>1, <1>3
      <3>3. p \in Nat
        BY <1>1, <3>1
      <3> HIDE DEF k, p
      <3> QED  BY <1>1, <2>1, <3>2, <3>3
    <2> HIDE DEF x, y
    <2>3. k \in Nat /\ Denotes(Minus(e, cap), k, n)
      BY <1>1, <2>1, MinusDenotes
    <2> HIDE DEF k, n, p
    <2>4. Denotes(Minus(e, cap), p, y)
      BY <2>1, <2>2, <2>3, DenotesSame
    <2> QED  BY <2>4 DEF p, y
  <1> HIDE DEF m, b, C, u, l, h, cap, emitted
  <1> DEFINE X == (m * C) * u
             Y == (m * (100 - C)) * u
             Z == (m * 100) * u
             Units(k, a) == /\ k \in Nat /\ k * b \in Nat
                            /\ 2 * (k * b) <= 2 * a + b /\ 2 * a + b < 2 * (k * b) + 2 * b
  <1>10. X \in Nat /\ Y \in Nat /\ Z \in Nat /\ X + Y = Z
    <2>1. 100 - C \in Nat
      BY <1>3
    <2>2. m * C \in Nat /\ m * (100 - C) \in Nat /\ m * 100 \in Nat
          /\ m * C + m * (100 - C) = m * 100
      BY <1>1, <1>3, <2>1
    <2> QED  BY <1>2, <2>2
  <1>11. ASSUME NEW a \in Nat, NEW q, Denotes(q, a, b * 100)
         PROVE  Units(ToUnits(q), a * u)
    <2>1. /\ ToUnits(q) \in Nat
          /\ 2 * (ToUnits(q) * b) <= 2 * (a * u) + b
          /\ 2 * (a * u) + b < 2 * (ToUnits(q) * b) + 2 * b
      BY <1>1, <1>2, <1>11, UnitsBounds
    <2>2. ToUnits(q) * b \in Nat
      BY <1>1, <2>1
    <2> QED  BY <2>1, <2>2
  <1> HIDE DEF Units
  <1>12. Units(emitted, Z)
    <2>1. m * 100 \in Nat
      BY <1>1
    <2> QED  BY <1>6, <1>11, <2>1 DEF emitted
  <1>13. l * u <= emitted
    <2> DEFINE s == l * u
               t == s * b
               k == emitted * b
    <2>1. s \in Nat /\ t \in Nat /\ t <= Z
      <3>1. (100 * m) * u >= (l * b) * u
        <4>1. l * b \in Nat /\ 100 * m \in Nat
          BY <1>1, <1>3
        <4> QED  BY <1>1, <1>2, <4>1
      <3>2. (100 * m) * u = Z /\ (l * b) * u = t
        BY <1>1, <1>2, <1>3
      <3>3. s \in Nat
        BY <1>2, <1>3
      <3>4. t \in Nat
        BY <1>1, <3>3
      <3> QED  BY <3>1, <3>2, <3>3, <3>4
    <2>2. emitted \in Nat /\ k \in Nat /\ 2 * Z + b < 2 * k + 2 * b
      BY <1>12 DEF Units
    <2> HIDE DEF s, k, Z
    <2>3. t < k + b
      BY <1>1, <1>10, <2>1, <2>2
    <2>4. (emitted + 1) * b = k + b
      BY <1>1, <2>2 DEF k
    <2>5. s * b < (emitted + 1) * b
      BY <2>3, <2>4
    <2>6. s < emitted + 1
      BY <1>1, <2>1, <2>2, <2>5, DropFactor
    <2> QED  BY <2>1, <2>2, <2>6 DEF s
  <1>14. ASSUME NEW k \in Nat, NEW a \in Nat, a <= Z, Units(k, a)
         PROVE  k <= h * u
    <2> DEFINE s == h * u
               t == s * b
               r == k * b
    <2>1. s \in Nat /\ t \in Nat /\ Z <= t
      <3>1. (100 * m) * u <= (h * b) * u
        <4>1. h * b \in Nat /\ 100 * m \in Nat
          BY <1>1, <1>3
        <4> QED  BY <1>1, <1>2, <4>1
      <3>2. (100 * m) * u = Z /\ (h * b) * u = t
        BY <1>1, <1>2, <1>3
      <3>3. s \in Nat
        BY <1>2, <1>3
      <3>4. t \in Nat
        BY <1>1, <3>3
      <3> QED  BY <3>1, <3>2, <3>3, <3>4
    <2>2. r \in Nat /\ 2 * r <= 2 * a + b
      BY <1>14 DEF Units
    <2> HIDE DEF s, r, Z
    <2>3. r < t + b
      BY <1>1, <1>10, <1>14, <2>1, <2>2
    <2>4. (s + 1) * b = t + b
      BY <1>1, <2>1
    <2>5. k * b < (s + 1) * b
      BY <2>3, <2>4 DEF r
    <2>6. k < s + 1
      BY <1>1, <1>14, <2>1, <2>5, DropFactor
    <2> QED  BY <2>1, <2>6 DEF s
  <1>15. CASE height >= RampUpBlocks \/ ~Less(cap, e)
    <2>1. paid = [reward |-> e, burned |-> Frac(0)]
      BY <1>15 DEF RampUpCap, cap, C
    <2>2. kept = emitted
      BY <2>1 DEF emitted
    <2>3. burn = 0
      <3>1. Units(burn, 0 * u)
        BY <1>8, <1>11, <2>1
      <3>2. burn \in Nat /\ burn * b \in Nat /\ 2 * (burn * b) <= b
        BY <1>1, <1>2, <3>1 DEF Units
      <3> HIDE DEF burn
      <3>3. burn * b < 1 * b
        BY <1>1, <3>2
      <3>4. burn < 1
        BY <1>1, <3>2, <3>3, DropFactor
      <3> QED  BY <3>2, <3>4
    <2>4. emitted \in Nat
      BY <1>12 DEF Units
    <2>5. kept + burn \in (emitted - 1)..(emitted + 1)
      BY <2>2, <2>3, <2>4
    <2>6. kept <= h * u
      BY <1>10, <1>12, <1>14, <2>2, <2>4
    <2>7. ASSUME height < RampUpBlocks  PROVE  100 * kept <= C * (kept + burn) + 100
      <3>1. ~(m * C < m * 100)
        <4>1. RampUpBlocks \in Nat
          BY RewardsAssumption
        <4> QED  BY <1>7, <1>15, <2>7, <4>1
      <3>2. m = 0 \/ C = 100
        BY <1>1, <1>3, <3>1
      <3>3. CASE m = 0
        <4>1. Z = 0
          BY <1>2, <3>3
        <4>2. emitted * b \in Nat /\ 2 * (emitted * b) <= b
          BY <1>1, <1>12, <4>1 DEF Units
        <4>3. emitted * b < 1 * b
          BY <1>1, <4>2
        <4>4. emitted < 1
          BY <1>1, <2>4, <4>3, DropFactor
        <4>5. kept = 0 /\ C * (kept + burn) \in Nat
          BY <1>3, <2>2, <2>3, <2>4, <4>4
        <4> QED  BY <4>5
      <3>4. CASE C = 100
        BY <2>2, <2>3, <2>4, <3>4
      <3> QED  BY <3>2, <3>3, <3>4
    <2> HIDE DEF kept, burn
    <2>8. 100 * emitted >= 100 * (l * u) /\ 100 * kept <= 100 * (h * u)
      <3>1. l * u \in Nat /\ h * u \in Nat
        BY <1>2, <1>3
      <3> QED  BY <1>13, <2>2, <2>4, <2>6, <3>1
    <2> QED  BY <1>4, <2>2, <2>3, <2>4, <2>5, <2>7, <2>8 DEF kept, burn, emitted, C
  <1>16. CASE ~(height >= RampUpBlocks) /\ Less(cap, e)
    <2>1. paid = [reward |-> cap, burned |-> Minus(e, cap)]
      BY <1>16 DEF RampUpCap, cap, C
    <2>2. Units(kept, X)
      <3>1. m * C \in Nat
        BY <1>1, <1>3
      <3> QED  BY <1>5, <1>11, <2>1, <3>1
    <2>3. Units(burn, Y)
      <3>1. 100 - C \in Nat
        BY <1>3
      <3>2. m * (100 - C) \in Nat
        BY <1>1, <3>1
      <3> QED  BY <1>9, <1>11, <1>16, <2>1, <3>2
    <2> HIDE DEF kept, burn
    <2> DEFINE f == kept * b
               g == burn * b
               k == emitted * b
    <2>4. /\ kept \in Nat /\ burn \in Nat /\ emitted \in Nat
          /\ f \in Nat /\ g \in Nat /\ k \in Nat
          /\ 2 * f <= 2 * X + b /\ 2 * X + b < 2 * f + 2 * b
          /\ 2 * g <= 2 * Y + b /\ 2 * Y + b < 2 * g + 2 * b
          /\ 2 * k <= 2 * Z + b /\ 2 * Z + b < 2 * k + 2 * b
      BY <1>12, <2>2, <2>3 DEF Units
    <2>5. (kept + burn) * b = f + g /\ (emitted + 2) * b = k + 2 * b
          /\ ((kept + burn) + 2) * b = f + g + 2 * b
      BY <1>1, <2>4
    <2> HIDE DEF f, g, k
    <2>6. (100 - C) * X = C * Y
      <3>1. 100 - C \in Nat
        BY <1>3
      <3> QED  BY <1>1, <1>2, <1>3, <3>1
    <2> HIDE DEF X, Y, Z
    <2>7. kept + burn < emitted + 2
      <3>1. f + g < k + 2 * b
        BY <1>1, <1>10, <2>4
      <3> QED  BY <1>1, <2>4, <2>5, <3>1, DropFactor
    <2>8. emitted < (kept + burn) + 2
      <3>1. k < f + g + 2 * b
        BY <1>1, <1>10, <2>4
      <3>2. emitted * b < ((kept + burn) + 2) * b
        BY <2>5, <3>1 DEF k
      <3> QED  BY <1>1, <2>4, <3>2, DropFactor
    <2>9. kept <= h * u
      BY <1>10, <1>14, <2>2, <2>4
    <2>10. 100 * kept <= C * (kept + burn) + 100
      <3> DEFINE D == 100 - C
      <3>1. D \in Nat /\ D + C = 100
        BY <1>3
      <3>2. D * (2 * f) <= D * (2 * X + b) /\ C * (2 * Y + b) <= C * (2 * g + 2 * b)
        <4>1. 2 * f \in Int /\ 2 * X + b \in Int /\ 2 * Y + b \in Int /\ 2 * g + 2 * b \in Int
              /\ 2 * Y + b <= 2 * g + 2 * b
          BY <1>1, <1>10, <2>4
        <4> HIDE DEF D
        <4> QED  BY <1>3, <2>4, <3>1, <4>1
      <3>3. D * X = C * Y
        BY <2>6
      <3> HIDE DEF D
      <3>4. D * (2 * X + b) = 2 * (D * X) + D * b /\ C * (2 * Y + b) = 2 * (C * Y) + C * b
        BY <1>1, <1>3, <1>10, <3>1
      <3>5. C * (2 * g + 2 * b) = 2 * (C * g) + 2 * (C * b) /\ D * (2 * f) = 2 * (D * f)
        BY <1>1, <1>3, <2>4, <3>1
      <3>6. D * b + C * b = 100 * b
        <4>1. D * b + C * b = (D + C) * b
          BY <1>1, <1>3, <3>1
        <4> QED  BY <3>1, <4>1
      <3>7. D * f \in Nat /\ C * g \in Nat /\ D * b \in Nat /\ C * b \in Nat
            /\ D * X \in Nat
        BY <1>1, <1>3, <1>10, <2>4, <3>1
      <3>8. D * f <= C * g + 100 * b
        BY <1>1, <3>2, <3>3, <3>4, <3>5, <3>6, <3>7
      <3>9. D * f = (D * kept) * b /\ C * g + 100 * b = (C * burn + 100) * b
        BY <1>1, <1>3, <2>4, <3>1 DEF f, g
      <3>10. D * kept \in Nat /\ C * burn \in Nat
        BY <1>3, <2>4, <3>1
      <3>11. D * kept <= C * burn + 100
        <4> DEFINE v == D * kept
                   w == C * burn + 100
        <4>1. v \in Int /\ w \in Int /\ v * b <= w * b
          BY <3>8, <3>9, <3>10
        <4> HIDE DEF v, w
        <4>2. v <= w
          BY <1>1, <4>1, DropFactor
        <4> QED  BY <4>2 DEF v, w
      <3>12. D * kept + C * kept = 100 * kept /\ C * (kept + burn) = C * kept + C * burn
        <4>1. D * kept + C * kept = (D + C) * kept
          BY <1>3, <2>4, <3>1
        <4> QED  BY <1>3, <2>4, <3>1, <4>1
      <3>13. C * kept \in Nat
        BY <1>3, <2>4
      <3> QED  BY <2>4, <3>10, <3>11, <3>12, <3>13
    <2>11. 100 * emitted >= 100 * (l * u) /\ 100 * kept <= 100 * (h * u)
      <3>1. l * u \in Nat /\ h * u \in Nat
        BY <1>2, <1>3
      <3> QED  BY <1>13, <2>4, <2>9, <3>1
    <2>12. kept + burn \in (emitted - 1)..(emitted + 1)
      BY <2>4, <2>7, <2>8
    <2> QED  BY <1>4, <2>4, <2>10, <2>11, <2>12 DEF kept, burn, emitted, C
  <1> QED  BY <1>15, <1>16

-----------------------------------------------------------------------------
(* What the miner reads from the log and from the timestamps.              *)

Entry == [timestamp : Nat, committed : Nat, declared : Nat \X (Nat \ {0})]

\* A sum of what blocks commit is a number.
LEMMA CommittedSum ==
  ASSUME NEW s \in Seq(Entry)
  PROVE  FoldLeft(LAMBDA sum, b : sum + b.committed, 0, s) \in Nat
  <1> DEFINE N == Len(s)
             keep(v, b) == v + b.committed
             Body(g) == [x \in SUBSET (DOMAIN s) |->
                           IF x = {} THEN 0 ELSE keep(g[x \ {Max(x)}], s[Max(x)])]
             F == CHOOSE g : g = Body(g)
             step == [p \in Nat \X Entry |-> keep(p[1], p[2])]
  <1>1. FoldLeft(LAMBDA sum, b : sum + b.committed, 0, s) = F[DOMAIN s]
    BY DEF FoldLeft, MapThenFoldSet
  <1>2. \A v \in Nat, b \in Entry : keep(v, b) \in Nat /\ step[<<v, b>>] = keep(v, b)
    BY DEF Entry
  <1>3. N \in Nat /\ DOMAIN s = 1..N /\ \A k \in 1..N : s[k] \in Entry
    OBVIOUS
  <1> HIDE DEF step, keep
  <1>4. FoldStep(Entry, Nat, 0, step)
    BY <1>2 DEF FoldStep
  <1>5. PICK g : FoldSolution(s, Nat, 0, step, g)
    BY <1>4, FoldRecursion
  <1>6. g = Body(g)
    <2>1. ASSUME NEW x \in SUBSET (DOMAIN s), x # {}
          PROVE  step[<<g[x \ {Max(x)}], s[Max(x)]>>] = keep(g[x \ {Max(x)}], s[Max(x)])
      <3>1. g[x \ {Max(x)}] \in Nat
        BY <1>5 DEF FoldSolution
      <3>2. Max(x) \in DOMAIN s
        BY <2>1, <1>3, MaxOfInterval
      <3> QED  BY <3>1, <3>2, <1>2, <1>3
    <2> QED  BY <2>1, <1>5 DEF FoldSolution
  <1>7. F = Body(F)
    BY <1>6
  <1> HIDE DEF F, N
  <1>8. F[1..0] = 0
    BY <1>7
  <1>9. ASSUME NEW k \in 0..(N - 1)  PROVE  F[1..(k + 1)] = keep(F[1..k], s[k + 1])
    <2>1. F[1..(k + 1)] = Body(F)[1..(k + 1)]
      BY <1>7
    <2> QED  BY <2>1, FirstPlaces DEF N
  <1> DEFINE T == {k \in 0..N : F[1..k] \in Nat}
  <1>10. 0 \in T
    BY <1>3, <1>8
  <1>11. ASSUME NEW k \in 0..(N - 1), k \in T  PROVE  k + 1 \in T
    <2>1. k + 1 \in 0..N /\ s[k + 1] \in Entry /\ F[1..k] \in Nat
      BY <1>3, <1>11
    <2> QED  BY <1>2, <1>9, <2>1
  <1> HIDE DEF T
  <1>12. N \in T
    <2>1. \A k \in 0..N : k \in T
      BY <1>3, <1>10, <1>11, BoundedInduction
    <2> QED  BY <1>3, <2>1
  <1> QED  BY <1>1, <1>3, <1>12 DEF T

\* The average of the last blocks is a fraction.
LEMMA AverageFraction ==
  ASSUME log \in Seq(Entry)
  PROVE  AverageCommitted \in Fraction
  <1>1. CommitWindow \in Nat \ {0} /\ BaseEmission \in Nat
    BY MiningAssumption, RewardsAssumption
  <1>2. Window \in Seq(Entry)
    BY <1>1 DEF Window
  <1> DEFINE w == Window
             total == FoldLeft(LAMBDA sum, b : sum + b.committed, 0, w)
  <1>3. total \in Nat
    BY <1>2, CommittedSum
  <1>4. w # <<>> => Len(w) \in Nat \ {0}
    BY <1>2
  <1>5. AverageCommitted = IF w = <<>> THEN Frac(BaseEmission) ELSE Ratio(total, Len(w))
    BY DEF AverageCommitted
  <1> HIDE DEF w, total
  <1>6. w # <<>> => Ratio(total, Len(w)) \in Fraction
    BY <1>3, <1>4, RatioDenotes, FractionParts
  <1>7. Frac(BaseEmission) \in Fraction
    BY <1>1, FractionParts
  <1> QED  BY <1>5, <1>6, <1>7

\* The intervals that are counted are neither none nor an hour.
LEMMA IntervalsCounted ==
  ASSUME NEW ts \in Seq(Nat)
  PROVE  Intervals(ts) \in Seq(1..(MaxInterval - 1))
  <1> DEFINE l == IF Len(ts) = 0 THEN 0 ELSE Len(ts) - 1
             s == [n \in 1..(Len(ts) - 1) |-> n]
             V == Seq(1..(MaxInterval - 1))
             E == 1..l
             keep(v, n) == LET d == ts[n + 1] - ts[n]
                           IN  IF 0 < d /\ d < MaxInterval THEN Append(v, d) ELSE v
             Body(g) == [x \in SUBSET (DOMAIN s) |->
                           IF x = {} THEN <<>> ELSE keep(g[x \ {Max(x)}], s[Max(x)])]
             F == CHOOSE g : g = Body(g)
             step == [p \in V \X E |-> keep(p[1], p[2])]
  <1>0. MaxInterval \in Nat \ {0}
    BY RewardsAssumption
  <1>1. Intervals(ts) = F[DOMAIN s]
    BY DEF Intervals, FoldLeft, MapThenFoldSet
  <1>2. \A v \in V, n \in E : keep(v, n) \in V /\ step[<<v, n>>] = keep(v, n)
    <2>1. ASSUME NEW v \in V, NEW n \in E  PROVE  keep(v, n) \in V
      <3> DEFINE d == ts[n + 1] - ts[n]
      <3>1. n \in 1..Len(ts) /\ n + 1 \in 1..Len(ts)
        OBVIOUS
      <3>2. d \in Int
        BY <3>1
      <3> HIDE DEF d
      <3>3. 0 < d /\ d < MaxInterval => Append(v, d) \in V
        BY <1>0, <3>2
      <3> QED  BY <3>3 DEF d
    <2> HIDE DEF keep
    <2> QED  BY <2>1
  <1>3. s \in Seq(E) /\ l \in Nat /\ DOMAIN s = 1..l /\ Len(s) = l
        /\ \A k \in 1..l : s[k] \in E
    <2>1. l \in Nat /\ 1..(Len(ts) - 1) = 1..l
      OBVIOUS
    <2> HIDE DEF l
    <2>2. s = [n \in 1..l |-> n]
      BY <2>1
    <2> HIDE DEF s
    <2> QED  BY <2>1, <2>2
  <1> HIDE DEF step, keep, s, V, E, l
  <1>4. FoldStep(E, V, <<>>, step)
    <2>1. <<>> \in V
      BY DEF V
    <2> QED  BY <1>2, <2>1 DEF FoldStep
  <1>5. PICK g : FoldSolution(s, V, <<>>, step, g)
    BY <1>3, <1>4, FoldRecursion
  <1>6. g = Body(g)
    <2>1. ASSUME NEW x \in SUBSET (DOMAIN s), x # {}
          PROVE  step[<<g[x \ {Max(x)}], s[Max(x)]>>] = keep(g[x \ {Max(x)}], s[Max(x)])
      <3>1. g[x \ {Max(x)}] \in V
        BY <1>5 DEF FoldSolution
      <3>2. Max(x) \in DOMAIN s
        BY <2>1, <1>3, MaxOfInterval
      <3> QED  BY <3>1, <3>2, <1>2, <1>3
    <2> QED  BY <2>1, <1>5 DEF FoldSolution
  <1>7. F = Body(F)
    BY <1>6
  <1> HIDE DEF F
  <1>8. F[1..0] = <<>>
    BY <1>7
  <1>9. ASSUME NEW k \in 0..(l - 1)  PROVE  F[1..(k + 1)] = keep(F[1..k], s[k + 1])
    <2>1. F[1..(k + 1)] = Body(F)[1..(k + 1)]
      BY <1>7
    <2>2. /\ 1..(k + 1) \in SUBSET (DOMAIN s) /\ 1..(k + 1) # {}
          /\ Max(1..(k + 1)) = k + 1 /\ (1..(k + 1)) \ {k + 1} = 1..k
      BY <1>3, FirstPlaces
    <2> QED  BY <2>1, <2>2
  <1> DEFINE T == {k \in 0..l : F[1..k] \in V}
  <1>10. 0 \in T
    BY <1>3, <1>4, <1>8 DEF FoldStep
  <1>11. ASSUME NEW k \in 0..(l - 1), k \in T  PROVE  k + 1 \in T
    <2>1. k + 1 \in 0..l /\ s[k + 1] \in E /\ F[1..k] \in V
      BY <1>3, <1>11
    <2> QED  BY <1>2, <1>9, <2>1
  <1> HIDE DEF T
  <1>12. l \in T
    <2>1. \A k \in 0..l : k \in T
      BY <1>3, <1>10, <1>11, BoundedInduction
    <2> QED  BY <1>3, <2>1
  <1> QED  BY <1>1, <1>3, <1>12 DEF T, V

-----------------------------------------------------------------------------
(* The median.                                                             *)

\* The values of whole numbers, and their order as fractions.
LEMMA WholeOrder ==
  \A a, b \in Nat : Less(Frac(a), Frac(b)) <=> a < b
  BY DEF Less, Frac

\* Of as many whole numbers as are asked for there is a k-th in ascending order.
LEMMA SmallestIsOne ==
  ASSUME NEW s, NEW l \in Nat \ {0}, NEW v \in [1..l -> Nat], s = [n \in 1..l |-> Frac(v[n])],
         NEW k \in 1..l
  PROVE  \E n \in 1..l : Smallest(s, k) = Frac(v[n])
  <1> DEFINE Upto(x) == {n \in 1..l : v[n] <= x}
             N == {x \in Nat : Cardinality(Upto(x)) >= k}
             Fits(q) == /\ Cardinality({n \in 1..Len(s) : Less(s[n], q)}) < k
                        /\ Cardinality({n \in 1..Len(s) : ~Less(q, s[n])}) >= k
  <1>1. Len(s) = l /\ DOMAIN s = 1..l /\ \A n \in 1..l : s[n] = Frac(v[n])
    OBVIOUS
  <1>2. IsFiniteSet(1..l) /\ Cardinality(1..l) = l
    <2>1. 1 \in Int /\ l \in Int
      OBVIOUS
    <2>2. IsFiniteSet(1..l) /\ Cardinality(1..l) = IF 1 > l THEN 0 ELSE l - 1 + 1
      BY <2>1, FS_Interval
    <2> QED  BY <2>2
  <1>3. \A x : Cardinality(Upto(x)) \in Nat
    <2> SUFFICES ASSUME NEW x  PROVE  Cardinality(Upto(x)) \in Nat
      OBVIOUS
    <2>1. Upto(x) \subseteq 1..l
      OBVIOUS
    <2> HIDE DEF Upto
    <2> QED  BY <1>2, <2>1, FS_Subset, FS_CardinalityType
  <1>4. \E x \in N : \A y \in N : x <= y
    <2> DEFINE T == {m \in 0..l : \E x \in Nat : \A n \in 1..m : v[n] <= x}
    <2>1. 0 \in T
      OBVIOUS
    <2>2. ASSUME NEW m \in 0..(l - 1), m \in T  PROVE  m + 1 \in T
      <3>1. PICK x \in Nat : \A n \in 1..m : v[n] <= x
        BY <2>2
      <3>2. m + 1 \in 1..l /\ v[m + 1] \in Nat
        OBVIOUS
      <3> DEFINE y == x + v[m + 1]
      <3>3. y \in Nat /\ x <= y /\ v[m + 1] <= y
        BY <3>2
      <3> HIDE DEF y
      <3>4. \A n \in 1..(m + 1) : v[n] <= y
        <4> SUFFICES ASSUME NEW n \in 1..(m + 1)  PROVE  v[n] <= y
          OBVIOUS
        <4>1. n \in 1..m \/ n = m + 1
          OBVIOUS
        <4>2. v[n] \in Nat
          OBVIOUS
        <4> QED  BY <3>1, <3>3, <4>1, <4>2
      <3> QED  BY <3>2, <3>3, <3>4
    <2> HIDE DEF T
    <2>3. l \in T
      <3>1. \A m \in 0..l : m \in T
        BY <2>1, <2>2, BoundedInduction
      <3> QED  BY <3>1
    <2>4. PICK x \in Nat : \A n \in 1..l : v[n] <= x
      BY <2>3 DEF T
    <2>5. Upto(x) = 1..l
      BY <2>4
    <2>6. x \in N
      <3> HIDE DEF Upto
      <3>1. Cardinality(Upto(x)) = l
        BY <1>2, <2>5
      <3>2. l >= k
        OBVIOUS
      <3> QED  BY <3>1, <3>2
    <2>7. N \in SUBSET Nat
      OBVIOUS
    <2> HIDE DEF N
    <2> QED  BY <2>6, <2>7, LeastNatural
  <1>5. PICK x \in N : \A y \in N : x <= y
    BY <1>4
  <1>6. x \in Nat /\ Cardinality(Upto(x)) >= k
    OBVIOUS
  <1>7. ASSUME NEW y \in Nat, y < x  PROVE  Cardinality(Upto(y)) < k
    <2>1. y \notin N
      <3> SUFFICES ASSUME y \in N  PROVE  FALSE
        OBVIOUS
      <3>1. x <= y
        BY <1>5
      <3> QED  BY <1>6, <1>7, <3>1
    <2>2. Cardinality(Upto(y)) \in Nat
      BY <1>3
    <2>3. ~(Cardinality(Upto(y)) >= k)
      BY <2>1
    <2> HIDE DEF Upto
    <2> QED  BY <2>2, <2>3
  <1>8. \E n \in 1..l : v[n] = x
    <2> SUFFICES ASSUME \A n \in 1..l : v[n] # x  PROVE  FALSE
      OBVIOUS
    <2>1. CASE x = 0
      <3>1. Upto(x) = {}
        BY <2>1
      <3>2. Cardinality({}) = 0
        BY FS_EmptySet
      <3> HIDE DEF Upto
      <3> QED  BY <1>6, <3>1, <3>2
    <2>2. CASE x # 0
      <3>1. x - 1 \in Nat /\ x - 1 < x
        BY <1>6, <2>2
      <3>2. Upto(x - 1) = Upto(x)
        BY <1>6
      <3>3. Cardinality(Upto(x - 1)) < k
        BY <1>7, <3>1
      <3>4. Cardinality(Upto(x)) \in Nat
        BY <1>3
      <3> HIDE DEF Upto
      <3> QED  BY <1>6, <3>2, <3>3, <3>4
    <2> QED  BY <2>1, <2>2
  <1>9. PICK n \in 1..l : v[n] = x
    BY <1>8
  <1>10. Fits(Frac(x))
    <2>1. {m \in 1..Len(s) : ~Less(Frac(x), s[m])} = Upto(x)
      <3>1. \A m \in 1..l : ~Less(Frac(x), s[m]) <=> v[m] <= x
        BY <1>1, <1>6, WholeOrder
      <3> HIDE DEF Upto
      <3>2. {m \in 1..l : ~Less(Frac(x), s[m])} = Upto(x)
        BY <3>1 DEF Upto
      <3> QED  BY <1>1, <3>2
    <2>2. Cardinality({m \in 1..Len(s) : Less(s[m], Frac(x))}) < k
      <3> DEFINE below == {m \in 1..Len(s) : Less(s[m], Frac(x))}
      <3>1. below = {m \in 1..l : v[m] < x}
        BY <1>1, <1>6, WholeOrder
      <3> HIDE DEF below
      <3>2. Cardinality(below) < k
        <4>1. CASE x = 0
          <5>1. \A m \in 1..l : ~(v[m] < 0)
            OBVIOUS
          <5>2. below = {}
            BY <3>1, <4>1, <5>1
          <5> QED  BY <5>2, FS_EmptySet
        <4>2. CASE x # 0
          <5>1. x - 1 \in Nat /\ x - 1 < x
            BY <1>6, <4>2
          <5>2. below = Upto(x - 1)
            BY <1>6, <3>1
          <5> QED  BY <1>7, <5>1, <5>2
        <4> QED  BY <4>1, <4>2
      <3> QED  BY <3>2 DEF below
    <2> QED  BY <1>6, <2>1, <2>2
  <1>11. Range(s) = {Frac(v[m]) : m \in 1..l}
    BY <1>1 DEF Range
  <1>12. Smallest(s, k) = CHOOSE q \in Range(s) : Fits(q)
    BY DEF Smallest
  <1> HIDE DEF Fits
  <1>13. Frac(x) \in Range(s)
    BY <1>9, <1>11
  <1>14. Smallest(s, k) \in Range(s)
    BY <1>10, <1>12, <1>13
  <1> QED  BY <1>11, <1>14

\* The median of whole numbers is one of them or the mean of two.
LEMMA MedianMean ==
  ASSUME NEW s, NEW l \in Nat \ {0}, NEW v \in [1..l -> Nat], s = [n \in 1..l |-> Frac(v[n])]
  PROVE  \E i, j \in 1..l : Denotes(Median(s), v[i] + v[j], 2)
  <1> DEFINE half == l \div 2
  <1>1. Len(s) = l /\ s # <<>>
    <2>1. Len(s) = l /\ DOMAIN s = 1..l /\ 1 \in 1..l
      OBVIOUS
    <2> QED  BY <2>1
  <1>2. half \in Nat /\ half + 1 \in 1..l /\ (l % 2 = 0 => half \in 1..l)
    OBVIOUS
  <1> HIDE DEF half
  <1>3. \A k \in 1..l : \E n \in 1..l : Smallest(s, k) = Frac(v[n])
    BY SmallestIsOne
  <1>4. PICK j \in 1..l : Smallest(s, half + 1) = Frac(v[j])
    BY <1>2, <1>3
  <1>5. CASE l % 2 = 0
    <2>1. PICK i \in 1..l : Smallest(s, half) = Frac(v[i])
      BY <1>2, <1>3, <1>5
    <2> DEFINE a == v[i]
               b == v[j]
               q == Plus(Frac(a), Frac(b))
    <2>2. a \in Nat /\ b \in Nat
      OBVIOUS
    <2> HIDE DEF a, b
    <2>3. Denotes(q, a + b, 1)
      <3>1. q = Ratio(a * 1 + b * 1, 1 * 1)
        BY DEF Plus, Frac
      <3>2. a * 1 + b * 1 = a + b /\ 1 * 1 = 1 /\ a + b \in Nat
        BY <2>2
      <3>3. Denotes(Ratio(a + b, 1), a + b, 1)
        BY <3>2, RatioDenotes
      <3> QED  BY <3>1, <3>2, <3>3
    <2>4. Denotes(Frac(2), 2, 1)
      BY FractionParts
    <2> HIDE DEF q
    <2>5. Denotes(Over(q, Frac(2)), (a + b) * 1, 1 * 2)
      <3>1. a + b \in Nat
        BY <2>2
      <3> QED  BY <2>3, <2>4, <3>1, OverDenotes
    <2>6. Denotes(Over(q, Frac(2)), a + b, 2)
      <3>1. (a + b) * 1 = a + b /\ 1 * 2 = 2
        BY <2>2
      <3> QED  BY <2>5, <3>1
    <2>7. Median(s) = Over(q, Frac(2))
      BY <1>1, <1>4, <1>5, <2>1 DEF Median, half, q, a, b
    <2> QED  BY <2>6, <2>7 DEF a, b
  <1>6. CASE l % 2 # 0
    <2>1. Median(s) = Frac(v[j])
      BY <1>1, <1>4, <1>6 DEF Median, half
    <2>2. Denotes(Frac(v[j]), v[j] + v[j], 2)
      BY DEF Denotes, Frac, Fraction
    <2> QED  BY <2>1, <2>2
  <1> QED  BY <1>5, <1>6

\* Twice the average time is the sum of two intervals, or three times the target.
LEMMA AverageTime ==
  ASSUME NEW ts \in Seq(Nat), Len(ts) >= 2
  PROVE  LET u == Intervals(ts)
         IN  /\ u \in Seq(Nat \ {0})
             /\ u = <<>> => Denotes(AverageBlockTime(ts), 3 * TargetBlockTime, 2)
             /\ u # <<>> => \E i, j \in 1..Len(u) :
                              Denotes(AverageBlockTime(ts), u[i] + u[j], 2)
  <1> DEFINE u == Intervals(ts)
  <1>1. MaxInterval \in Nat \ {0} /\ TargetBlockTime \in Nat \ {0}
    BY RewardsAssumption
  <1>2. u \in Seq(1..(MaxInterval - 1))
    BY IntervalsCounted
  <1>3. ~(Len(ts) < 2)
    OBVIOUS
  <1>4. AverageBlockTime(ts) = IF u = <<>> THEN Ratio(3 * TargetBlockTime, 2)
                               ELSE Median([n \in 1..Len(u) |-> Frac(u[n])])
    BY <1>3 DEF AverageBlockTime
  <1> HIDE DEF u
  <1>5. u \in Seq(Nat \ {0})
    <2> DEFINE S == 1..(MaxInterval - 1)
    <2>1. S \subseteq Nat \ {0}
      BY <1>1
    <2>2. u \in Seq(S)
      BY <1>2
    <2> DEFINE R == Nat \ {0}
    <2> HIDE DEF S, R
    <2>3. S \subseteq R
      BY <2>1 DEF R
    <2>4. u \in Seq(R)
      BY <2>2, <2>3
    <2> QED  BY <2>4 DEF R
  <1>6. CASE u = <<>>
    <2>1. 3 * TargetBlockTime \in Nat
      BY <1>1
    <2>2. Denotes(Ratio(3 * TargetBlockTime, 2), 3 * TargetBlockTime, 2)
      BY <2>1, RatioDenotes
    <2> QED  BY <1>4, <1>5, <1>6, <2>2 DEF u
  <1>7. CASE u # <<>>
    <2> DEFINE l == Len(u)
               s == [n \in 1..l |-> Frac(u[n])]
    <2>1. l \in Nat \ {0} /\ u \in [1..l -> Nat]
      BY <1>5, <1>7
    <2> HIDE DEF l
    <2>2. s = [n \in 1..l |-> Frac(u[n])]
      OBVIOUS
    <2> HIDE DEF s
    <2>3. \E i, j \in 1..l : Denotes(Median(s), u[i] + u[j], 2)
      BY <2>1, <2>2, MedianMean
    <2>4. AverageBlockTime(ts) = Median(s)
      BY <1>4, <1>7 DEF s, l
    <2> QED  BY <1>5, <1>7, <2>3, <2>4 DEF l, u
  <1> QED  BY <1>6, <1>7

\* The difficulty that an average of w half seconds leads to: half of it, twice, or
\* what the target's share of the average makes it, and never none.
LeadsTo(k, w) ==
  \/ 4 * LoopTarget < w /\ 2 * k <= difficulty /\ difficulty < 2 * k + 2
  \/ w < LoopTarget /\ k = 2 * difficulty
  \/ /\ LoopTarget <= w /\ w <= 4 * LoopTarget
     /\ k * w <= (2 * LoopTarget) * difficulty
     /\ (2 * LoopTarget) * difficulty < k * w + w

LEMMA AdjustedTo ==
  ASSUME difficulty \in Nat, Len(recent) >= 2, Len(recent) \in Nat, NEW w \in Nat,
         Denotes(AverageBlockTime(recent), w, 2)
  PROVE  \E k \in Nat : /\ Adjusted = (IF k < 1 THEN 1 ELSE k)
                        /\ LeadsTo(k, IF w < 2 THEN 2 ELSE w)
  <1> DEFINE L == LoopTarget
             W == IF w < 2 THEN 2 ELSE w
             average == Larger(AverageBlockTime(recent), Frac(1))
             actual == Over(average, Frac(L))
             r == Over(Frac(1), actual)
             ratio == Clamp(r, <<1, 2>>, Frac(2))
             k == Truncate(Times(Frac(difficulty), ratio))
  <1>1. L \in Nat \ {0} /\ W \in Nat \ {0}
    BY MiningAssumption, RewardsAssumption
  <1>2. Denotes(Frac(1), 1, 1) /\ Denotes(Frac(2), 2, 1) /\ Denotes(Frac(L), L, 1)
        /\ Denotes(<<1, 2>>, 1, 2) /\ Denotes(Frac(difficulty), difficulty, 1)
        /\ Denotes(Frac(1), 2, 2)
    BY <1>1 DEF Denotes, Fraction, Frac
  <1>3. Denotes(average, W, 2)
    <2>1. Less(AverageBlockTime(recent), Frac(1)) <=> w * 1 < 1 * 2
      BY <1>2, LessDenotes
    <2>2. Less(AverageBlockTime(recent), Frac(1)) <=> w < 2
      BY <2>1
    <2> QED  BY <1>2, <2>2 DEF Larger
  <1> HIDE DEF average, W, L
  <1>4. Denotes(actual, W, 2 * L) /\ actual[1] > 0
    <2>1. Denotes(actual, W * 1, 2 * L)
      BY <1>1, <1>2, <1>3, OverDenotes
    <2>2. W * 1 = W
      BY <1>1
    <2>3. Denotes(actual, W, 2 * L)
      BY <2>1, <2>2
    <2> DEFINE x == actual[1]
               y == actual[2]
    <2>4. x \in Nat /\ y \in Nat \ {0} /\ x * (2 * L) = W * y
      BY <2>3 DEF Denotes, Fraction
    <2> HIDE DEF x, y
    <2>5. W * y > 0
      BY <1>1, <2>4
    <2>6. x > 0
      BY <1>1, <2>4, <2>5
    <2> QED  BY <2>3, <2>6 DEF x
  <1> HIDE DEF actual
  <1>5. Denotes(r, 2 * L, W)
    <2>1. 2 * L \in Nat \ {0}
      BY <1>1
    <2>2. Denotes(r, 1 * (2 * L), 1 * W)
      BY <1>1, <1>2, <1>4, <2>1, OverDenotes
    <2>3. 1 * (2 * L) = 2 * L /\ 1 * W = W
      BY <1>1
    <2> QED  BY <2>2, <2>3
  <1> HIDE DEF r
  <1>6. /\ Less(r, <<1, 2>>) <=> 4 * L < W
        /\ Less(Frac(2), r) <=> W < L
    <2> DEFINE m == 2 * L
    <2>1. m \in Nat /\ Denotes(r, m, W)
      BY <1>1, <1>5
    <2>2. (Less(r, <<1, 2>>) <=> m * 2 < 1 * W) /\ (Less(Frac(2), r) <=> 2 * W < m * 1)
      <3> HIDE DEF m
      <3> QED  BY <1>1, <1>2, <2>1, LessDenotes
    <2> QED  BY <1>1, <2>2
  <1>7. ~(actual[1] <= 0) /\ ~(Frac(1)[1] <= 0)
    <2>1. actual[1] \in Nat
      BY <1>4 DEF Denotes, Fraction
    <2> QED  BY <1>4, <2>1 DEF Frac
  <1>8. Adjusted = IF k < 1 THEN 1 ELSE k
    <2>1. ~(Len(recent) < 2)
      OBVIOUS
    <2>2. Adjusted = AdjustDifficulty(difficulty, actual, Frac(1))
      BY <2>1 DEF Adjusted, actual, average, L
    <2> QED  BY <1>7, <2>2 DEF AdjustDifficulty, r
  <1>9. ASSUME NEW a \in Nat, NEW b \in Nat \ {0}, Denotes(ratio, a, b)
        PROVE  /\ k \in Nat /\ k * b <= difficulty * a
               /\ difficulty * a < k * b + b
    <2> HIDE DEF ratio
    <2> DEFINE t == Times(Frac(difficulty), ratio)
               m == difficulty * a
               n == 1 * b
    <2>1. Denotes(t, m, n)
      BY <1>2, <1>9, TimesDenotes
    <2>2. m \in Nat /\ n \in Nat \ {0} /\ n = b
      BY <1>9
    <2> HIDE DEF t, m, n
    <2>3. Truncate(t) \in Nat /\ Truncate(t) * n <= m /\ m < Truncate(t) * n + n
      BY <2>1, <2>2, TruncateDenotes
    <2> QED  BY <2>2, <2>3 DEF t, m
  <1> HIDE DEF k
  <1>10. CASE 4 * L < W
    <2>1. Denotes(ratio, 1, 2)
      BY <1>2, <1>6, <1>10 DEF Clamp
    <2>2. k \in Nat /\ k * 2 <= difficulty * 1 /\ difficulty * 1 < k * 2 + 2
      BY <1>9, <2>1
    <2>3. LeadsTo(k, W)
      BY <1>10, <2>2 DEF LeadsTo, L
    <2> QED  BY <1>8, <2>2, <2>3 DEF W
  <1>11. CASE W < L
    <2>1. ~(4 * L < W)
      BY <1>1, <1>11
    <2>2. Denotes(ratio, 2, 1)
      BY <1>2, <1>6, <1>11, <2>1 DEF Clamp
    <2>3. k \in Nat /\ k * 1 <= difficulty * 2 /\ difficulty * 2 < k * 1 + 1
      BY <1>9, <2>2
    <2>4. k = 2 * difficulty
      BY <2>3
    <2>5. LeadsTo(k, W)
      BY <1>11, <2>4 DEF LeadsTo, L
    <2> QED  BY <1>8, <2>3, <2>5 DEF W
  <1>12. CASE ~(4 * L < W) /\ ~(W < L)
    <2> DEFINE m == 2 * L
    <2>1. m \in Nat /\ Denotes(ratio, m, W)
      BY <1>1, <1>5, <1>6, <1>12 DEF Clamp
    <2> HIDE DEF m
    <2>2. k \in Nat /\ k * W <= difficulty * m /\ difficulty * m < k * W + W
      BY <1>1, <1>9, <2>1
    <2>3. difficulty * m = m * difficulty
      BY <2>1
    <2>4. LoopTarget <= W /\ W <= 4 * LoopTarget
      BY <1>1, <1>12 DEF L
    <2>5. k * W <= m * difficulty /\ m * difficulty < k * W + W
      BY <2>2, <2>3
    <2>6. LeadsTo(k, W)
      BY <2>4, <2>5 DEF LeadsTo, m, L
    <2> QED  BY <1>8, <2>2, <2>6 DEF W
  <1> QED  BY <1>10, <1>11, <1>12

\* What the average leads to from a difficulty of one or more.
LEMMA LeadsWhere ==
  ASSUME difficulty \in Nat, difficulty >= 1, NEW k \in Nat, NEW W \in Nat \ {0},
         LeadsTo(k, W)
  PROVE  LET d == IF k < 1 THEN 1 ELSE k
         IN  /\ d >= 1 /\ d <= 2 * difficulty /\ 2 * d >= difficulty - 1
             /\ d > difficulty => W < 2 * LoopTarget
             /\ d < difficulty => W > 2 * LoopTarget
             /\ W <= LoopTarget => d = 2 * difficulty
  <1> DEFINE L == LoopTarget
             D == difficulty
             d == IF k < 1 THEN 1 ELSE k
  <1>1. L \in Nat \ {0} /\ D \in Nat \ {0}
    BY MiningAssumption, RewardsAssumption
  <1>2. CASE 4 * L < W /\ 2 * k <= D /\ D < 2 * k + 2
    BY <1>1, <1>2
  <1>3. CASE W < L /\ k = 2 * D
    BY <1>1, <1>3
  <1>4. CASE L <= W /\ W <= 4 * L /\ k * W <= (2 * L) * D /\ (2 * L) * D < k * W + W
    <2> HIDE DEF L, D
    <2>1. k <= 2 * D
      <3>1. L * (2 * D) <= W * (2 * D)
        <4> DEFINE t == 2 * D
        <4>1. t \in Nat \ {0} /\ L \in Int /\ W \in Int
          BY <1>1
        <4> HIDE DEF t
        <4>2. L * t <= W * t
          BY <1>4, <4>1, DropFactor
        <4> QED  BY <4>2 DEF t
      <3>2. (2 * L) * D = L * (2 * D) /\ W * (2 * D) = (2 * D) * W
        BY <1>1
      <3>3. k * W <= (2 * D) * W
        <4>1. k * W \in Int /\ L * (2 * D) \in Int /\ (2 * D) * W \in Int
          BY <1>1
        <4> QED  BY <1>4, <3>1, <3>2, <4>1
      <3>4. 2 * D \in Int
        BY <1>1
      <3> QED  BY <3>3, <3>4, DropFactor
    <2>2. D < 2 * (k + 1)
      <3>1. W * (k + 1) <= (4 * L) * (k + 1)
        <4> DEFINE t == k + 1
                   f == 4 * L
        <4>1. t \in Nat \ {0} /\ f \in Int /\ W \in Int /\ W <= f
          BY <1>1, <1>4
        <4> HIDE DEF t, f
        <4>2. W * t <= f * t
          BY <4>1, DropFactor
        <4> QED  BY <4>2 DEF t, f
      <3>2. k * W + W = W * (k + 1) /\ (4 * L) * (k + 1) = (2 * (k + 1)) * (2 * L)
            /\ (2 * L) * D = D * (2 * L)
        BY <1>1
      <3>3. D * (2 * L) < (2 * (k + 1)) * (2 * L)
        <4>1. (2 * L) * D \in Int /\ W * (k + 1) \in Int /\ (4 * L) * (k + 1) \in Int
          BY <1>1
        <4> QED  BY <1>4, <3>1, <3>2, <4>1
      <3> DEFINE t == 2 * L
                 n == 2 * (k + 1)
      <3>4. t \in Nat \ {0} /\ n \in Int /\ D * t < n * t
        BY <1>1, <3>3
      <3> HIDE DEF t, n
      <3>5. D < n
        BY <1>1, <3>4, DropFactor
      <3> QED  BY <3>5 DEF n
    <2>3. ASSUME k > D  PROVE  W < 2 * L
      <3>1. D * W < k * W
        BY <1>1, <2>3, DropFactor
      <3>2. W * D < (2 * L) * D
        <4>1. D * W \in Int /\ k * W \in Int /\ (2 * L) * D \in Int /\ D * W = W * D
          BY <1>1
        <4> QED  BY <1>4, <3>1, <4>1
      <3> DEFINE t == 2 * L
      <3>3. t \in Int
        BY <1>1
      <3> HIDE DEF t
      <3>4. W < t
        BY <1>1, <3>2, <3>3, DropFactor DEF t
      <3> QED  BY <3>4 DEF t
    <2>4. ASSUME k < D  PROVE  W > 2 * L
      <3>1. (k + 1) * W <= D * W
        BY <1>1, <2>4, DropFactor
      <3>2. (2 * L) * D < W * D
        <4>1. (k + 1) * W \in Int /\ D * W \in Int /\ (2 * L) * D \in Int /\ D * W = W * D
              /\ (k + 1) * W = k * W + W
          BY <1>1
        <4> QED  BY <1>4, <3>1, <4>1
      <3> DEFINE t == 2 * L
      <3>3. t \in Int
        BY <1>1
      <3> HIDE DEF t
      <3>4. t < W
        BY <1>1, <3>2, <3>3, DropFactor DEF t
      <3> QED  BY <1>1, <3>3, <3>4 DEF t
    <2>5. ASSUME W <= L  PROVE  k = 2 * D
      <3>1. W = L
        BY <1>1, <1>4, <2>5
      <3>2. (2 * D) * W < (k + 1) * W
        <4>1. (2 * L) * D = (2 * D) * W /\ k * W + W = (k + 1) * W
          BY <1>1, <3>1
        <4> QED  BY <1>4, <4>1
      <3>3. 2 * D \in Int /\ k + 1 \in Int
        BY <1>1
      <3>4. 2 * D < k + 1
        BY <3>2, <3>3, DropFactor
      <3> QED  BY <2>1, <3>3, <3>4
    <2>6. d >= 1 /\ d <= 2 * D /\ 2 * d >= D - 1 /\ d \in Nat
      BY <1>1, <2>1, <2>2
    <2>7. d > D => k > D
      BY <1>1
    <2>8. d < D => k < D
      BY <1>1
    <2>9. W <= L => d = 2 * D
      BY <1>1, <2>5
    <2> QED  BY <2>3, <2>4, <2>6, <2>7, <2>8, <2>9 DEF L, D
  <1> QED  BY <1>2, <1>3, <1>4 DEF LeadsTo

-----------------------------------------------------------------------------
(* The loop.                                                               *)

\* The difficulty of an iteration is a number, and follows the pace as it should.
LEMMA AdjustedDirected ==
  ASSUME TypeOK, Paced
  PROVE  /\ Adjusted \in Nat
         /\ recent # <<>> => Adjusted >= 1
         /\ recent # <<>> /\ Adjusted # difficulty =>
              LET used == ToSet(Intervals(recent))
              IN  /\ Adjusted >= 1 /\ Adjusted <= 2 * difficulty
                  /\ 2 * Adjusted >= difficulty - 1
                  /\ Adjusted > difficulty => \E d \in used : d < LoopTarget
                  /\ Adjusted < difficulty => used = {} \/ \E d \in used : d > LoopTarget
         /\ Len(recent) >= 2 =>
              LET used == ToSet(Intervals(recent))
              IN  used # {} /\ (\A d \in used : 2 * d <= LoopTarget)
                    => Adjusted = 2 * difficulty
  <1> DEFINE u == Intervals(recent)
             used == ToSet(u)
  <1>1. recent \in Seq(Nat) /\ Len(recent) \in Nat /\ difficulty \in Nat
        /\ LoopTarget \in Nat \ {0} /\ TargetBlockTime \in Nat /\ LoopTarget <= TargetBlockTime
    <2>1. MaxDifficulty \in Nat /\ LoopTarget \in 1..TargetBlockTime
      BY MiningAssumption
    <2>2. TargetBlockTime \in Nat
      BY RewardsAssumption
    <2>3. recent \in Seq(Nat) /\ difficulty \in 0..MaxDifficulty
      BY DEF TypeOK
    <2> QED  BY <2>1, <2>2, <2>3
  <1>2. CASE Len(recent) < 2
    <2>1. Adjusted = difficulty
      BY <1>2 DEF Adjusted
    <2> QED  BY <1>1, <1>2, <2>1 DEF Paced
  <1>3. CASE ~(Len(recent) < 2)
    <2>1. Len(recent) >= 2 /\ recent # <<>> /\ difficulty >= 1
      BY <1>1, <1>3 DEF Paced
    <2>2. /\ u \in Seq(Nat \ {0})
          /\ u = <<>> => Denotes(AverageBlockTime(recent), 3 * TargetBlockTime, 2)
          /\ u # <<>> => \E i, j \in 1..Len(u) :
                           Denotes(AverageBlockTime(recent), u[i] + u[j], 2)
      BY <1>1, <2>1, AverageTime
    <2> HIDE DEF u
    <2>3. /\ \A n \in 1..Len(u) : u[n] \in Nat \ {0} /\ u[n] \in used
          /\ used = {} <=> u = <<>>
      <3>1. DOMAIN u = 1..Len(u) /\ Len(u) \in Nat /\ (u = <<>> <=> Len(u) = 0)
        BY <2>2
      <3>2. \A n \in 1..Len(u) : u[n] \in Nat \ {0} /\ u[n] \in used
        BY <2>2, <3>1 DEF ToSet
      <3>3. used = {} => Len(u) = 0
        <4> SUFFICES ASSUME Len(u) # 0  PROVE  used # {}
          OBVIOUS
        <4>1. 1 \in 1..Len(u)
          BY <3>1
        <4> QED  BY <3>2, <4>1
      <3>4. Len(u) = 0 => used = {}
        BY <3>1 DEF ToSet
      <3> QED  BY <3>1, <3>2, <3>3, <3>4
    <2> HIDE DEF used
    <2>4. ASSUME NEW w \in Nat, Denotes(AverageBlockTime(recent), w, 2)
          PROVE  LET W == IF w < 2 THEN 2 ELSE w
                 IN  /\ Adjusted \in Nat /\ Adjusted >= 1 /\ Adjusted <= 2 * difficulty
                     /\ 2 * Adjusted >= difficulty - 1
                     /\ Adjusted > difficulty => W < 2 * LoopTarget
                     /\ Adjusted < difficulty => W > 2 * LoopTarget
                     /\ W <= LoopTarget => Adjusted = 2 * difficulty
      <3> DEFINE W == IF w < 2 THEN 2 ELSE w
      <3>1. PICK k \in Nat : Adjusted = (IF k < 1 THEN 1 ELSE k) /\ LeadsTo(k, W)
        BY <1>1, <2>1, <2>4, AdjustedTo
      <3>2. W \in Nat \ {0}
        OBVIOUS
      <3> HIDE DEF W
      <3>3. LET d == IF k < 1 THEN 1 ELSE k
            IN  /\ d >= 1 /\ d <= 2 * difficulty /\ 2 * d >= difficulty - 1
                /\ d > difficulty => W < 2 * LoopTarget
                /\ d < difficulty => W > 2 * LoopTarget
                /\ W <= LoopTarget => d = 2 * difficulty
        BY <1>1, <2>1, <3>1, <3>2, LeadsWhere
      <3>4. Adjusted \in Nat
        BY <3>1
      <3> HIDE DEF Adjusted
      <3> QED  BY <3>1, <3>3, <3>4 DEF W
    <2>5. CASE u = <<>>
      <3> DEFINE w == 3 * TargetBlockTime
                 W == IF w < 2 THEN 2 ELSE w
      <3>1. w \in Nat /\ Denotes(AverageBlockTime(recent), w, 2) /\ w >= 3 * LoopTarget
        BY <1>1, <2>2, <2>5
      <3> HIDE DEF w
      <3>2. /\ Adjusted \in Nat /\ Adjusted >= 1 /\ Adjusted <= 2 * difficulty
            /\ 2 * Adjusted >= difficulty - 1
            /\ Adjusted > difficulty => W < 2 * LoopTarget
        BY <2>4, <3>1
      <3>3. W >= 3 * LoopTarget
        BY <1>1, <3>1
      <3>4. ~(Adjusted > difficulty)
        <4>1. W \in Nat
          BY <3>1
        <4> HIDE DEF W
        <4> QED  BY <1>1, <3>2, <3>3, <4>1
      <3>5. used = {}
        BY <2>3, <2>5
      <3> QED  BY <2>1, <3>2, <3>4, <3>5 DEF u, used
    <2>6. CASE u # <<>>
      <3>1. PICK i \in 1..Len(u), j \in 1..Len(u) :
              Denotes(AverageBlockTime(recent), u[i] + u[j], 2)
        BY <2>2, <2>6
      <3> DEFINE a == u[i]
                 b == u[j]
                 w == a + b
                 W == IF w < 2 THEN 2 ELSE w
      <3>2. a \in Nat \ {0} /\ b \in Nat \ {0} /\ a \in used /\ b \in used
        BY <2>3
      <3> HIDE DEF a, b
      <3>3. w \in Nat /\ W = a + b /\ Denotes(AverageBlockTime(recent), w, 2)
        BY <3>1, <3>2 DEF a, b
      <3> HIDE DEF w
      <3>4. /\ Adjusted \in Nat /\ Adjusted >= 1 /\ Adjusted <= 2 * difficulty
            /\ 2 * Adjusted >= difficulty - 1
            /\ Adjusted > difficulty => W < 2 * LoopTarget
            /\ Adjusted < difficulty => W > 2 * LoopTarget
            /\ W <= LoopTarget => Adjusted = 2 * difficulty
        BY <2>4, <3>3
      <3> HIDE DEF W
      <3>5. Adjusted > difficulty => \E d \in used : d < LoopTarget
        <4>1. Adjusted > difficulty => a < LoopTarget \/ b < LoopTarget
          BY <1>1, <3>2, <3>3, <3>4
        <4> QED  BY <3>2, <4>1
      <3>6. Adjusted < difficulty => \E d \in used : d > LoopTarget
        <4>1. Adjusted < difficulty => a > LoopTarget \/ b > LoopTarget
          BY <1>1, <3>2, <3>3, <3>4
        <4> QED  BY <3>2, <4>1
      <3>7. (\A d \in used : 2 * d <= LoopTarget) => Adjusted = 2 * difficulty
        <4> SUFFICES ASSUME \A d \in used : 2 * d <= LoopTarget
                     PROVE  Adjusted = 2 * difficulty
          OBVIOUS
        <4>1. 2 * a <= LoopTarget /\ 2 * b <= LoopTarget
          BY <3>2
        <4> QED  BY <1>1, <3>2, <3>3, <3>4, <4>1
      <3> QED  BY <2>1, <3>4, <3>5, <3>6, <3>7 DEF u, used
    <2> QED  BY <2>5, <2>6
  <1> QED  BY <1>2, <1>3

LEMMA HeightNatural ==
  ASSUME MInv
  PROVE  NextHeight \in Nat
  <1>1. MaxCached \in Nat /\ Len(log) \in Nat
    BY MiningAssumption DEF MInv, TypeOK
  <1> QED  BY <1>1 DEF NextHeight

\* An iteration begins with a difficulty within bounds and the DAG of its epoch.
LEMMA Begins ==
  ASSUME MInv, Begin
  PROVE  /\ Adjusted \in 0..MaxDifficulty /\ difficulty' = Adjusted
         /\ Adjusted \in Nat /\ Len(log) \in Nat
         /\ recent # <<>> => Adjusted >= 1
         /\ cache' # NoDag => cache'.epoch \in Nat /\ cache'.size = DagSize
         /\ CacheSound' /\ loaded' = TRUE
  <1> DEFINE epoch == NextHeight \div EpochBlocks
  <1>1. Adjusted \in Nat /\ (recent # <<>> => Adjusted >= 1)
    BY AdjustedDirected DEF MInv
  <1>2. MaxDifficulty \in Nat /\ EpochBlocks \in Nat \ {0}
    BY MiningAssumption
  <1>3. Adjusted \in 0..MaxDifficulty
    <2>1. Adjusted <= MaxDifficulty
      BY DEF Begin, Within
    <2> HIDE DEF Adjusted
    <2> QED  BY <1>1, <1>2, <2>1
  <1>4. Len(log) \in Nat /\ NextHeight \in Nat
    BY HeightNatural DEF MInv, TypeOK
  <1>5. epoch \in Nat
    <2> HIDE DEF NextHeight
    <2> QED  BY <1>2, <1>4
  <1>6. difficulty' = Adjusted /\ cache' = DagOf(epoch, DagSize) /\ loaded' = TRUE
    BY DEF Begin
  <1>7. /\ cache'.elements = Generate(epoch, DagSize)
        /\ cache'.epoch = epoch /\ cache'.size = DagSize
    BY <1>6, DagOfSound DEF MInv
  <1>8. CacheSound'
    BY <1>7 DEF CacheSound
  <1> HIDE DEF Adjusted, epoch
  <1> QED  BY <1>1, <1>3, <1>4, <1>5, <1>6, <1>7, <1>8

-----------------------------------------------------------------------------
(* A block.                                                                *)

\* What a block says of itself, in the parts the properties are about.
LEMMA BlockParts ==
  ASSUME NEW timestamp, NEW target, NEW sol, NEW ms, NEW body
  PROVE  LET b == BlockOf(Unmined(timestamp, target), sol, ms, body)
             paid == RampUpCap(NextHeight, b.emitted)
         IN  /\ b.emitted = EmissionRate(Committed(sol.length, ms), AverageCommitted)
             /\ b.coinbase = [amount |-> ToUnits(paid.reward),
                              spendableAfter |-> FounderLock(NextHeight)]
             /\ b.header.emission = ToUnits(paid.reward)
             /\ b.header.burn = ToUnits(paid.burned)
             /\ b.header.timestamp = timestamp
             /\ b.header.committed = Truncate(Committed(sol.length, ms))
             /\ b.declared = Declared(sol.length, ms)
  BY DEF Unmined, BlockOf

\* The founder's lock ends no earlier than the additional blocks.
LEMMA LockLasts ==
  ASSUME NEW height \in Nat, height < RampUpBlocks
  PROVE  FounderLock(height) >= height + LockAdditional
  <1>1. LockBlocks \in Nat /\ LockAdditional \in Nat
    BY MiningAssumption
  <1>2. RampUpBlocks \in Nat
    BY RewardsAssumption
  <1>3. ~(height >= RampUpBlocks)
    BY <1>2
  <1> QED  BY <1>1, <1>3 DEF FounderLock

\* What is said of a block that was made, of the miner's state no more than the log.
Accounted(b) ==
  LET h == b.header
      emitted == ToUnits(b.emitted)
  IN  /\ b.coinbase.amount = h.emission
      /\ h.emission + h.burn \in (emitted - 1)..(emitted + 1)
      /\ 100 * emitted >= FloorPercent * BaseEmission * UnitsPerEwatt
      /\ 100 * b.coinbase.amount <= CeilingPercent * BaseEmission * UnitsPerEwatt
      /\ h.height < RampUpBlocks =>
           /\ 100 * h.emission <= CapPercent * (h.emission + h.burn) + 100
           /\ b.coinbase.spendableAfter >= h.height + LockAdditional

LEMMA BlockAccounted ==
  ASSUME MInv, NEW timestamp, NEW target, NEW sol, sol.length \in Nat, NEW ms \in Nat,
         NEW body
  PROVE  LET b == BlockOf(Unmined(timestamp, target), sol, ms, body)
         IN  /\ Accounted(b) /\ b.coinbase.amount \in Nat
             /\ b.header.committed \in Nat /\ b.declared \in Nat \X (Nat \ {0})
             /\ b.header.timestamp = timestamp
  <1> DEFINE b == BlockOf(Unmined(timestamp, target), sol, ms, body)
             ce == Committed(sol.length, ms)
             height == NextHeight
             e == b.emitted
             paid == RampUpCap(height, e)
  <1>1. log \in Seq(Entry) /\ height \in Nat
    BY HeightNatural DEF MInv, TypeOK, Entry
  <1>2. AverageCommitted \in Fraction
    BY <1>1, AverageFraction
  <1>3. ce \in Fraction /\ Declared(sol.length, ms) \in Fraction
    BY CommittedFraction
  <1>4. /\ e = EmissionRate(ce, AverageCommitted)
        /\ b.coinbase = [amount |-> ToUnits(paid.reward), spendableAfter |-> FounderLock(height)]
        /\ b.header.emission = ToUnits(paid.reward)
        /\ b.header.burn = ToUnits(paid.burned)
        /\ b.header.timestamp = timestamp
        /\ b.header.committed = Truncate(ce)
        /\ b.declared = Declared(sol.length, ms)
    BY BlockParts
  <1>5. b.header.height = height
    BY BlockShape
  <1> HIDE DEF b, ce, height
  <1>6. /\ e \in Fraction
        /\ 100 * e[1] >= (BaseEmission * FloorPercent) * e[2]
        /\ 100 * e[1] <= (BaseEmission * CeilingPercent) * e[2]
    BY <1>2, <1>3, <1>4, EmissionBounds
  <1> HIDE DEF e
  <1>7. LET kept == ToUnits(paid.reward)
            burn == ToUnits(paid.burned)
            emitted == ToUnits(e)
        IN  /\ kept \in Nat /\ burn \in Nat /\ emitted \in Nat
            /\ kept + burn \in (emitted - 1)..(emitted + 1)
            /\ 100 * emitted >= FloorPercent * BaseEmission * UnitsPerEwatt
            /\ 100 * kept <= CeilingPercent * BaseEmission * UnitsPerEwatt
            /\ height < RampUpBlocks => 100 * kept <= CapPercent * (kept + burn) + 100
    BY <1>1, <1>6, PaidBounds
  <1>8. height < RampUpBlocks => FounderLock(height) >= height + LockAdditional
    BY <1>1, LockLasts
  <1> HIDE DEF paid
  <1>9. b.coinbase.amount = ToUnits(paid.reward)
        /\ b.coinbase.spendableAfter = FounderLock(height)
    BY <1>4
  <1>10. Accounted(b)
    BY <1>4, <1>5, <1>7, <1>8, <1>9 DEF Accounted, e
  <1>11. Truncate(ce) \in Nat
    BY <1>3, FractionParts, TruncateDenotes
  <1>12. b.declared \in Nat \X (Nat \ {0})
    BY <1>3, <1>4 DEF Fraction
  <1> QED  BY <1>4, <1>7, <1>9, <1>10, <1>11, <1>12 DEF b

\* A body holds no transaction twice.
LEMMA BodyList ==
  ASSUME NEW body \in Bodies
  PROVE  /\ Len(body) \in Nat /\ DOMAIN body = 1..Len(body)
         /\ \A i, j \in 1..Len(body) : body[i] = body[j] => i = j
         /\ body = [i \in 1..Len(body) |-> body[i]]
  <1>1. body \in Seq(ToSet(body)) /\ IsInjective(body)
    BY MiningAssumption
  <1> DEFINE S == ToSet(body)
  <1>2. body \in Seq(S)
    BY <1>1
  <1> HIDE DEF S
  <1>3. Len(body) \in Nat /\ DOMAIN body = 1..Len(body)
        /\ body = [i \in 1..Len(body) |-> body[i]]
    BY <1>2
  <1>4. \A i, j \in DOMAIN body : body[i] = body[j] => i = j
    BY <1>1 DEF IsInjective
  <1> QED  BY <1>3, <1>4

\* The leaves over a body are as many as its transactions and the coinbase, and all
\* of them are different.
LEMMA BodyLeaves ==
  ASSUME NEW c, NEW body \in Bodies
  PROVE  LET s == <<CoinbaseHash(c)>> \o [n \in 1..Len(body) |-> TxHash(body[n])]
         IN  /\ List(s) /\ Distinct(s) /\ Len(s) = Len(body) + 1 /\ Len(s) >= 1
             /\ NoPair(s[1])
             /\ \A n \in 1..Len(body) : s[n + 1] = TxHash(body[n])
  <1> DEFINE k == Len(body)
             r == [n \in 1..k |-> TxHash(body[n])]
             s == <<CoinbaseHash(c)>> \o r
  <1>1. /\ k \in Nat
        /\ \A i, j \in 1..k : body[i] = body[j] => i = j
    BY BodyList
  <1> HIDE DEF k
  <1>2. Len(r) = k /\ \A n \in 1..k : r[n] = TxHash(body[n])
    BY <1>1
  <1>3. s = [n \in 1..(1 + k) |-> IF n <= 1 THEN <<CoinbaseHash(c)>>[n] ELSE r[n - 1]]
    <2> DEFINE S == {CoinbaseHash(c)} \cup {TxHash(body[n]) : n \in 1..k}
    <2>1. <<CoinbaseHash(c)>> \in Seq(S) /\ r \in Seq(S) /\ Len(<<CoinbaseHash(c)>>) = 1
      BY <1>1
    <2> HIDE DEF r, S
    <2> QED  BY <1>2, <2>1
  <1>4. Len(s) = k + 1 /\ DOMAIN s = 1..(k + 1)
    <2> HIDE DEF s, r
    <2> QED  BY <1>1, <1>3
  <1>5. s[1] = CoinbaseHash(c) /\ \A n \in 1..k : s[n + 1] = TxHash(body[n])
    <2>1. s[1] = CoinbaseHash(c)
      <3> HIDE DEF s, r
      <3> QED  BY <1>1, <1>3
    <2>2. ASSUME NEW n \in 1..k  PROVE  s[n + 1] = TxHash(body[n])
      <3>1. n + 1 \in 1..(1 + k) /\ ~(n + 1 <= 1) /\ (n + 1) - 1 = n
        BY <1>1
      <3> HIDE DEF s, r
      <3>2. s[n + 1] = r[n]
        BY <1>3, <3>1
      <3> QED  BY <1>2, <3>2
    <2> QED  BY <2>1, <2>2
  <1>6. s = [i \in 1..Len(s) |-> s[i]]
    <2> HIDE DEF s, r
    <2>1. s = [i \in 1..(k + 1) |-> s[i]]
      BY <1>1, <1>3
    <2> QED  BY <1>4, <2>1
  <1> HIDE DEF s, r
  <1>7. List(s)
    BY <1>1, <1>4, <1>6 DEF List
  <1>8. Distinct(s)
    <2> SUFFICES ASSUME NEW i \in 1..(k + 1), NEW j \in 1..(k + 1), s[i] = s[j]
                 PROVE  i = j
      BY <1>4 DEF Distinct
    <2>1. ASSUME NEW n \in 1..(k + 1), n # 1
          PROVE  n - 1 \in 1..k /\ s[n] = TxHash(body[n - 1])
      <3>1. n - 1 \in 1..k /\ (n - 1) + 1 = n
        BY <1>1, <2>1
      <3> QED  BY <1>5, <3>1
    <2>2. \A t : TxHash(t) # CoinbaseHash(c)
      BY DEF TxHash, CoinbaseHash
    <2>3. CASE i = 1
      BY <1>5, <2>1, <2>2, <2>3
    <2>4. CASE j = 1
      BY <1>5, <2>1, <2>2, <2>4
    <2>5. CASE i # 1 /\ j # 1
      <3>1. TxHash(body[i - 1]) = TxHash(body[j - 1]) /\ i - 1 \in 1..k /\ j - 1 \in 1..k
        BY <2>1, <2>5
      <3>2. body[i - 1] = body[j - 1]
        BY <3>1 DEF TxHash
      <3>3. i - 1 = j - 1
        BY <1>1, <3>1, <3>2
      <3> QED  BY <1>1, <3>3
    <2> QED  BY <2>3, <2>4, <2>5
  <1>9. NoPair(s[1])
    BY <1>5, LeavesNoPairs
  <1>10. Len(s) >= 1
    BY <1>1, <1>4
  <1> QED  BY <1>4, <1>5, <1>7, <1>8, <1>9, <1>10 DEF s, r, k

\* Bodies with one root are one.
LEMMA BodiesBind ==
  ASSUME NEW c, NEW body \in Bodies, NEW other \in Bodies,
         BodyRoot(c, body) = BodyRoot(c, other)
  PROVE  body = other
  <1> DEFINE leaves(x) == <<CoinbaseHash(c)>> \o [n \in 1..Len(x) |-> TxHash(x[n])]
  <1>1. MerkleRoot(leaves(body)) = MerkleRoot(leaves(other))
    BY DEF BodyRoot
  <1>2. ASSUME NEW x \in Bodies
        PROVE  LET s == leaves(x)
               IN  /\ List(s) /\ Distinct(s) /\ Len(s) = Len(x) + 1 /\ Len(s) >= 1
                   /\ NoPair(s[1])
                   /\ \A n \in 1..Len(x) : s[n + 1] = TxHash(x[n])
    BY BodyLeaves
  <1> DEFINE s == leaves(body)
             t == leaves(other)
  <1>3. /\ List(s) /\ Distinct(s) /\ Len(s) = Len(body) + 1 /\ Len(s) >= 1 /\ NoPair(s[1])
        /\ \A n \in 1..Len(body) : s[n + 1] = TxHash(body[n])
    BY <1>2
  <1>4. /\ List(t) /\ Distinct(t) /\ Len(t) = Len(other) + 1 /\ Len(t) >= 1 /\ NoPair(t[1])
        /\ \A n \in 1..Len(other) : t[n + 1] = TxHash(other[n])
    BY <1>2
  <1>5. Len(body) \in Nat /\ Len(other) \in Nat
    BY BodyList
  <1> HIDE DEF leaves
  <1>6. s = t
    <2> DEFINE n == Len(body)
               m == Len(other)
    <2>1. n \in Nat /\ m \in Nat /\ Len(s) = n + 1 /\ Len(t) = m + 1
      BY <1>3, <1>4, <1>5
    <2> HIDE DEF n, m
    <2>2. MerkleRoot(s) = MerkleRoot(t)
      BY <1>1
    <2> HIDE DEF s, t
    <2>3. Len(t) <= Len(s) \/ Len(s) <= Len(t)
      BY <2>1
    <2>4. CASE Len(t) <= Len(s)
      BY <1>3, <1>4, <2>2, <2>4, MerkleBinding
    <2>5. CASE Len(s) <= Len(t)
      <3>1. t = s
        BY <1>3, <1>4, <2>2, <2>5, MerkleBinding
      <3> QED  BY <3>1
    <2> QED  BY <2>3, <2>4, <2>5
  <1> HIDE DEF s, t
  <1>7. Len(body) = Len(other)
    <2>1. Len(body) + 1 = Len(other) + 1
      BY <1>3, <1>4, <1>6
    <2> QED  BY <1>5, <2>1
  <1>8. ASSUME NEW n \in 1..Len(body)  PROVE  body[n] = other[n]
    <2>1. TxHash(body[n]) = TxHash(other[n])
      BY <1>3, <1>4, <1>6, <1>7
    <2> QED  BY <2>1 DEF TxHash
  <1>9. body = [i \in 1..Len(body) |-> body[i]] /\ other = [i \in 1..Len(other) |-> other[i]]
    BY BodyList
  <1> QED  BY <1>7, <1>8, <1>9

-----------------------------------------------------------------------------
(* The theorems.                                                           *)

\* What is shown of a block when it is made.
Made(b) ==
  LET dag == Generate(b.header.epoch, DagSize)
  IN  /\ FormsVerify(b, dag) /\ DamageShows(b, dag)
      /\ Accounted(b) /\ b.coinbase.amount \in Nat
      /\ b.body \in Bodies /\ b.header.merkle = BodyRoot(b.coinbase, b.body)

\* A block mined verifies, accounts for what it pays, and holds its body.
LEMMA MinedMade ==
  ASSUME MInv, Adjusted \in Nat, NEW timestamp, NEW nonce, NEW ms \in Nat,
         NEW body \in Bodies, Solved(Unmined(timestamp, Adjusted), nonce)
  PROVE  LET unmined == Unmined(timestamp, Adjusted)
             sol     == SolutionOf(HeaderHash(unmined), Adjusted,
                                   DagOf(unmined.epoch, DagSize).elements, nonce)
             b       == BlockOf(unmined, sol, ms, body)
         IN  /\ Made(b) /\ b.header.timestamp = timestamp
             /\ b.header.committed \in Nat /\ b.declared \in Nat \X (Nat \ {0})
  <1> DEFINE d == Adjusted
             unmined == Unmined(timestamp, d)
             hash == HeaderHash(unmined)
             dag == DagOf(unmined.epoch, DagSize).elements
             sol == SolutionOf(hash, d, dag, nonce)
             b == BlockOf(unmined, sol, ms, body)
  <1> HIDE DEF Adjusted
  <1>1. sol.length = Accesses(d) /\ Accesses(d) \in Nat
    BY AccessesNatural DEF SolutionOf
  <1>2. /\ b.solution = sol /\ b.solved = hash /\ b.body = body
        /\ b.header.difficulty = d /\ b.header.epoch = unmined.epoch
        /\ b.header.merkle = BodyRoot(b.coinbase, body)
        /\ unmined.difficulty = d
    <2> HIDE DEF sol
    <2> QED  BY BlockShape
  <1>3. dag = Generate(unmined.epoch, DagSize)
    BY DagOfSound DEF MInv
  <1>4. Solves(hash, d, dag, nonce)
    BY <1>2 DEF Solved
  <1>5. /\ Accounted(b) /\ b.coinbase.amount \in Nat
        /\ b.header.committed \in Nat /\ b.declared \in Nat \X (Nat \ {0})
        /\ b.header.timestamp = timestamp
    <2> HIDE DEF sol
    <2> QED  BY <1>1, BlockAccounted
  <1> HIDE DEF b, dag, hash, d, unmined
  <1>6. d \in Nat
    BY DEF d
  <1>7. FormsVerify(b, dag)
    <2> SUFFICES ASSUME NEW s \in Forms(b.solution), NEW picked \in Picks(s)
                 PROVE  Verify(b.solved, s, b.header.difficulty, dag, picked)
      BY DEF FormsVerify
    <2> QED  BY <1>2, <1>4, <1>6, FoundVerifies
  <1>8. DamageShows(b, dag)
    <2> SUFFICES ASSUME NEW s \in Forms(b.solution), s.trace # <<>>,
                        NEW bad \in Damaged(s), NEW picked \in Picks(bad),
                        Verify(b.solved, bad, b.header.difficulty, dag, picked)
                 PROVE  /\ bad.trace \in {s.trace, <<>>}
                        /\ Solves(b.solved, b.header.difficulty, dag, bad.nonce)
      BY DEF DamageShows
    <2> QED  BY <1>2, <1>4, <1>6, DamageMisses
  <1>9. Made(b)
    BY <1>2, <1>3, <1>5, <1>7, <1>8 DEF Made
  <1> QED  BY <1>5, <1>9 DEF b, sol, dag, hash, unmined, d

\* The timestamp of the next block is a number.
LEMMA NextTimestamp ==
  ASSUME TypeOK, NEW gap \in Gaps
  PROVE  LastTimestamp + gap \in Nat
  <1>1. gap \in Nat
    BY MiningAssumption
  <1>2. LastTimestamp \in Nat
    <2>1. CASE log = <<>>
      BY <2>1 DEF LastTimestamp
    <2>2. CASE log # <<>>
      <3>1. log \in Seq(Entry)
        BY DEF TypeOK, Entry
      <3>2. log[Len(log)] \in Entry
        BY <2>2, <3>1
      <3> QED  BY <2>2, <3>2 DEF LastTimestamp, Entry
    <2> QED  BY <2>1, <2>2
  <1> QED  BY <1>1, <1>2

\* A walk of nothing commits nothing.
LEMMA NothingAccepted ==
  ASSUME NEW ms \in Nat
  PROVE  Accesses(0) = 0 /\ ~CommitmentAccepted(0, ms)
  <1>1. Accesses(0) = 0
    BY ProofOfWorkAssumption DEF Accesses
  <1>2. ~Less(Frac(0), EfficiencyOf(0, ms))
    BY CommittedFraction
  <1> QED  BY <1>1, <1>2 DEF CommitmentAccepted, ValidCommitment

\* A timestamp more makes a vector of timestamps, within its bound.
LEMMA Pushed ==
  ASSUME NEW ts \in Seq(Nat), Len(ts) <= DifficultyWindow, NEW t \in Nat
  PROVE  /\ Push(ts, t) \in Seq(Nat) /\ Len(Push(ts, t)) <= DifficultyWindow
         /\ Len(Push(ts, t)) <= Len(ts) + 1
  <1>1. DifficultyWindow \in Nat \ {0}
    BY MiningAssumption
  <1>2. CASE Len(ts) < DifficultyWindow
    <2>1. Push(ts, t) = Append(ts, t)
      BY <1>2 DEF Push
    <2>2. Append(ts, t) \in Seq(Nat) /\ Len(Append(ts, t)) = Len(ts) + 1
      OBVIOUS
    <2> QED  BY <1>1, <1>2, <2>1, <2>2
  <1>3. CASE ~(Len(ts) < DifficultyWindow)
    <2>1. Push(ts, t) = Append(Tail(ts), t)
      BY <1>3 DEF Push
    <2>2. ts # <<>> /\ Len(ts) = DifficultyWindow
      BY <1>1, <1>3
    <2>3. Tail(ts) \in Seq(Nat) /\ Len(Tail(ts)) = Len(ts) - 1
      BY <2>2
    <2>4. Append(Tail(ts), t) \in Seq(Nat) /\ Len(Append(Tail(ts), t)) = Len(Tail(ts)) + 1
      BY <2>3
    <2> QED  BY <1>1, <2>1, <2>2, <2>3, <2>4
  <1> QED  BY <1>2, <1>3

\* A step of the loop keeps the invariant, and what it makes is as a block should be.
LEMMA MineStep ==
  ASSUME MInv, NEW gap \in Gaps, NEW nonce \in Nonces, NEW ms \in Millis,
         NEW body \in Bodies, NEW outcome,
         MineBlock(gap, nonce, ms, body, outcome)
  PROVE  MInv' /\ (made' = made \/ Made(made'))
  <1> DEFINE t == LastTimestamp + gap
             unmined == Unmined(t, Adjusted)
             sol == SolutionOf(HeaderHash(unmined), Adjusted,
                               DagOf(unmined.epoch, DagSize).elements, nonce)
             b == BlockOf(unmined, sol, ms, body)
  <1>1. Begin /\ Solved(unmined, nonce) /\ CommitmentAccepted(Accesses(Adjusted), ms)
    BY DEF MineBlock
  <1>2. /\ Adjusted \in 0..MaxDifficulty /\ difficulty' = Adjusted
        /\ Adjusted \in Nat /\ Len(log) \in Nat
        /\ recent # <<>> => Adjusted >= 1
        /\ cache' # NoDag => cache'.epoch \in Nat /\ cache'.size = DagSize
        /\ CacheSound' /\ loaded' \in BOOLEAN
    BY <1>1, Begins
  <1>3. ms \in Nat
    BY MiningAssumption
  <1>4. t \in Nat
    BY NextTimestamp DEF MInv
  <1>5. Adjusted >= 1
    <2>1. Adjusted # 0
      BY <1>1, <1>3, NothingAccepted
    <2> HIDE DEF Adjusted
    <2> QED  BY <1>2, <2>1
  <1>6. /\ Made(b) /\ b.header.timestamp = t
        /\ b.header.committed \in Nat /\ b.declared \in Nat \X (Nat \ {0})
    <2> HIDE DEF t
    <2> QED  BY <1>1, <1>2, <1>3, MinedMade
  <1>7. \/ /\ made' = b /\ log' = Append(log, Logged(b)) /\ recent' = Push(recent, t)
        \/ made' = b /\ log' = log /\ recent' = recent
        \/ made' = made /\ log' = log /\ recent' = recent
    <2>1. unmined.timestamp = t
      BY DEF Unmined
    <2> HIDE DEF t
    <2> QED  BY <2>1 DEF MineBlock, t
  <1> HIDE DEF b, unmined, Adjusted
  <1>8. made' = made \/ Made(made')
    <2> HIDE DEF Made, t
    <2> QED  BY <1>6, <1>7
  <1>9. made' # NoBlock => made'.coinbase.amount \in Nat
    <2>1. made # NoBlock => made.coinbase.amount \in Nat
      BY DEF MInv, TypeOK
    <2> HIDE DEF t
    <2> QED  BY <1>8, <2>1 DEF Made
  <1>10. /\ log \in Seq(Entry) /\ recent \in Seq(Nat)
         /\ Len(recent) <= DifficultyWindow /\ Len(recent) <= Len(log)
         /\ Len(recent) \in Nat
    BY DEF MInv, TypeOK, Entry
  <1>11. /\ log' \in Seq(Entry) /\ recent' \in Seq(Nat)
         /\ Len(recent') <= DifficultyWindow /\ Len(recent') <= Len(log')
    <2>1. CASE log' = log /\ recent' = recent
      BY <1>10, <2>1
    <2>2. CASE log' = Append(log, Logged(b)) /\ recent' = Push(recent, t)
      <3>1. Logged(b) \in Entry
        BY <1>4, <1>6 DEF Logged, Entry
      <3>2. /\ Push(recent, t) \in Seq(Nat) /\ Len(Push(recent, t)) <= DifficultyWindow
            /\ Len(Push(recent, t)) <= Len(recent) + 1
        BY <1>4, <1>10, Pushed
      <3> HIDE DEF t
      <3>3. Append(log, Logged(b)) \in Seq(Entry) /\ Len(Append(log, Logged(b))) = Len(log) + 1
        BY <1>10, <3>1
      <3>4. Len(Push(recent, t)) \in Nat
        BY <3>2
      <3> QED  BY <1>2, <1>10, <2>2, <3>2, <3>3, <3>4
    <2> HIDE DEF t
    <2> QED  BY <1>7, <2>1, <2>2
  <1>12. TypeOK'
    BY <1>2, <1>9, <1>11 DEF TypeOK, Entry
  <1>13. Paced'
    BY <1>2, <1>5 DEF Paced
  <1> QED  BY <1>2, <1>8, <1>12, <1>13 DEF MInv

\* An iteration that makes no block keeps it as well.
LEMMA FailStep ==
  ASSUME MInv, NEW gap \in Gaps, NEW nonce \in Nonces, NEW ms \in Millis,
         MineFails(gap, nonce, ms)
  PROVE  MInv' /\ made' = made
  <1>1. Begin /\ UNCHANGED <<log, recent, made>>
    BY DEF MineFails
  <1>2. /\ Adjusted \in 0..MaxDifficulty /\ difficulty' = Adjusted
        /\ recent # <<>> => Adjusted >= 1
        /\ cache' # NoDag => cache'.epoch \in Nat /\ cache'.size = DagSize
        /\ CacheSound' /\ loaded' \in BOOLEAN
    BY <1>1, Begins
  <1> HIDE DEF Adjusted
  <1>3. TypeOK'
    BY <1>1, <1>2 DEF MInv, TypeOK
  <1>4. Paced'
    BY <1>1, <1>2 DEF Paced
  <1> QED  BY <1>1, <1>2, <1>3, <1>4 DEF MInv

LEMMA RestartStep ==
  ASSUME MInv, Restart
  PROVE  MInv' /\ made' = NoBlock
  <1>1. difficulty' \in 0..MaxDifficulty
    BY MiningAssumption DEF Restart
  <1>2. /\ recent' = <<>> /\ cache' = NoDag /\ made' = NoBlock /\ log' = log
        /\ loaded' \in BOOLEAN
    BY DEF Restart
  <1>3. DifficultyWindow \in Nat /\ Len(log) \in Nat
    BY MiningAssumption DEF MInv, TypeOK
  <1>4. <<>> \in Seq(Nat) /\ Len(<<>>) = 0
    OBVIOUS
  <1>5. TypeOK'
    BY <1>1, <1>2, <1>3, <1>4 DEF MInv, TypeOK
  <1> QED  BY <1>2, <1>5 DEF MInv, CacheSound, Paced

LEMMA MiningInit ==
  Init => MInv /\ made = NoBlock
  <1> SUFFICES ASSUME Init  PROVE  MInv /\ made = NoBlock
    OBVIOUS
  <1>1. difficulty \in 0..MaxDifficulty
    BY MiningAssumption DEF Init
  <1>2. /\ log = <<>> /\ recent = <<>> /\ cache = NoDag /\ made = NoBlock
        /\ loaded \in BOOLEAN
    BY DEF Init
  <1>3. DifficultyWindow \in Nat
    BY MiningAssumption
  <1>4. /\ <<>> \in Seq([timestamp : Nat, committed : Nat, declared : Nat \X (Nat \ {0})])
        /\ <<>> \in Seq(Nat) /\ Len(<<>>) = 0
    OBVIOUS
  <1>5. TypeOK
    BY <1>1, <1>2, <1>3, <1>4 DEF TypeOK
  <1> QED  BY <1>2, <1>5 DEF MInv, CacheSound, Paced

LEMMA MiningNext ==
  MInv /\ [Next]_vars => MInv' /\ (made' = made \/ made' = NoBlock \/ Made(made'))
  <1> SUFFICES ASSUME MInv, [Next]_vars
               PROVE  MInv' /\ (made' = made \/ made' = NoBlock \/ Made(made'))
    OBVIOUS
  <1> HIDE DEF Made
  <1>1. CASE \E gap \in Gaps, nonce \in Nonces, ms \in Millis : MineFails(gap, nonce, ms)
    BY <1>1, FailStep
  <1>2. CASE \E gap \in Gaps, nonce \in Nonces, ms \in Millis, body \in Bodies,
                outcome \in {"saved", "unsaved", "refused"} :
               MineBlock(gap, nonce, ms, body, outcome)
    BY <1>2, MineStep
  <1>3. CASE Restart
    BY <1>3, RestartStep
  <1>4. CASE UNCHANGED vars
    BY <1>4 DEF vars, MInv, TypeOK, CacheSound, Paced, Logged
  <1> QED  BY <1>1, <1>2, <1>3, <1>4 DEF Next

\* The variables have their types, the cached DAG is the one it is kept as, and the
\* controller never has nothing to start from (main.rs, dag.rs).
THEOREM MiningInvariant ==
  Spec => []MInv
  <1>1. MInv /\ [Next]_vars => MInv'
    BY MiningNext
  <1>2. Init => MInv
    BY MiningInit
  <1> QED  BY <1>1, <1>2, PTL DEF Spec

\* Every block that is there was made by mine_block_with_difficulty.
MadeIsSound == made = NoBlock \/ Made(made)

LEMMA MadeSound ==
  Spec => []MadeIsSound
  <1>1. MInv /\ MadeIsSound /\ [Next]_vars => MadeIsSound'
    BY MiningNext DEF MadeIsSound
  <1>2. Init => MadeIsSound
    BY MiningInit DEF MadeIsSound
  <1> QED  BY <1>1, <1>2, MiningInvariant, PTL DEF Spec

\* The three ways of verify (proof.rs) accept what mine returned in every form,
\* whichever samples are picked, and of its damaged copies none but those whose own
\* nonce solves the block and whose samples are the walk's or left out.
THEOREM VerdictsAreOne ==
  Spec => []VerdictsAgree
  <1>1. MadeIsSound => VerdictsAgree
    BY DEF MadeIsSound, Made, VerdictsAgree
  <1> QED  BY <1>1, MadeSound, PTL

\* What a block pays and burns is what was emitted to a unit, within the floor, the
\* ceiling and the cap of the ramp-up (commitment.rs, reward.rs, main.rs).
THEOREM EmissionIsAccounted ==
  Spec => []EmissionAccounted
  <1>1. MadeIsSound => EmissionAccounted
    BY DEF MadeIsSound, Made, Accounted, EmissionAccounted
  <1> QED  BY <1>1, MadeSound, PTL

\* No other body has the merkle root of the block (main.rs).
THEOREM MerkleRootBinds ==
  Spec => []MerkleBinds
  <1>1. MadeIsSound => MerkleBinds
    <2> SUFFICES ASSUME Made(made), NEW other \in Bodies,
                        BodyRoot(made.coinbase, other) = made.header.merkle
                 PROVE  other = made.body
      BY DEF MadeIsSound, MerkleBinds
    <2>1. made.body \in Bodies /\ made.header.merkle = BodyRoot(made.coinbase, made.body)
      BY DEF Made
    <2> QED  BY <2>1, BodiesBind
  <1> QED  BY <1>1, MadeSound, PTL

\* The difficulty moves by a factor of two at most, never to nothing, and only where
\* some interval points (difficulty.rs).
THEOREM ControllerIsDirected ==
  Spec => ControllerDirected
  <1>1. MInv /\ [Next]_vars => [ControllerStep /\ PaceStep]_vars
    <2> SUFFICES ASSUME MInv, Next  PROVE  ControllerStep /\ PaceStep
      OBVIOUS
    <2>1. CASE recent' = <<>>
      BY <2>1 DEF ControllerStep, PaceStep
    <2>2. CASE recent' # <<>>
      <3>1. difficulty' = Adjusted
        BY <2>2 DEF Next, MineFails, MineBlock, Begin, Restart
      <3>2. recent = <<>> => Adjusted = difficulty /\ ~(Len(recent) >= 2)
        BY DEF Adjusted
      <3>3. /\ recent # <<>> /\ Adjusted # difficulty =>
                 LET used == ToSet(Intervals(recent))
                 IN  /\ Adjusted >= 1 /\ Adjusted <= 2 * difficulty
                     /\ 2 * Adjusted >= difficulty - 1
                     /\ Adjusted > difficulty => \E d \in used : d < LoopTarget
                     /\ Adjusted < difficulty => used = {} \/ \E d \in used : d > LoopTarget
            /\ Len(recent) >= 2 =>
                 LET used == ToSet(Intervals(recent))
                 IN  used # {} /\ (\A d \in used : 2 * d <= LoopTarget)
                       => Adjusted = 2 * difficulty
        BY AdjustedDirected DEF MInv
      <3> HIDE DEF Adjusted
      <3>4. ControllerStep
        BY <3>1, <3>2, <3>3 DEF ControllerStep
      <3>5. PaceStep
        BY <3>1, <3>3 DEF PaceStep
      <3> QED  BY <3>4, <3>5
    <2> QED  BY <2>1, <2>2
  <1> QED  BY <1>1, MiningInvariant, PTL DEF Spec, ControllerDirected
=============================================================================
