------------------------------- MODULE Induction -------------------------------
(***************************************************************************)
(* Induction and recursion in a form that every proof can cite: over sets  *)
(* where the library's theorems have an operator, so that each use names   *)
(* the set of the things it proves the claim for; and what they say of     *)
(* folds and of sums.                                                      *)
(***************************************************************************)
EXTENDS Naturals, Sequences, FiniteSets, Functions, SequencesExt, TLAPS,
        FiniteSetTheorems, NaturalsInduction, WellFoundedInduction, SequenceTheorems

-----------------------------------------------------------------------------
(* Induction and recursion.                                                *)

\* A set of natural numbers that is not empty has a least one.
LEMMA LeastNatural ==
  ASSUME NEW S \in SUBSET Nat, S # {}
  PROVE  \E m \in S : \A n \in S : m <= n
  <1> DEFINE R == OpToRel(<, Nat)
  <1>1. IsWellFoundedOn(R, Nat)
    BY NatLessThanWellFounded
  <1>2. \A m, n \in Nat : n < m => <<n, m>> \in R
    BY DEF OpToRel
  <1> HIDE DEF R
  <1>3. PICK m \in S : \A n \in S : ~ (<<n, m>> \in R)
    BY <1>1, WFMin
  <1>4. \A n \in S : ~(n < m)
    BY <1>2, <1>3
  <1> QED  BY <1>4

\* Induction over the natural numbers: S holds those for which the claim is true.
LEMMA NatSetInduction ==
  ASSUME NEW S \in SUBSET Nat, 0 \in S, \A n \in S : n + 1 \in S
  PROVE  S = Nat
  <1> SUFFICES ASSUME Nat \ S # {}  PROVE  FALSE
    OBVIOUS
  <1>1. PICK m \in Nat \ S : \A n \in Nat \ S : m <= n
    BY LeastNatural
  <1>2. m # 0 /\ m - 1 \in Nat /\ m - 1 \in S
    BY <1>1
  <1> QED  BY <1>1, <1>2

\* The same up to a bound.
LEMMA BoundedInduction ==
  ASSUME NEW n \in Nat, NEW S, 0 \in S, \A k \in 0..(n - 1) : k \in S => k + 1 \in S
  PROVE  \A k \in 0..n : k \in S
  <1> DEFINE T == {k \in Nat : k <= n => k \in S}
  <1>1. 0 \in T
    OBVIOUS
  <1>2. ASSUME NEW k \in T  PROVE  k + 1 \in T
    OBVIOUS
  <1> HIDE DEF T
  <1>3. T = Nat
    <2>1. T \in SUBSET Nat
      BY DEF T
    <2> QED  BY <1>1, <1>2, <2>1, NatSetInduction
  <1> QED  BY <1>3 DEF T

\* F has the empty set, and every subset of S that is in F without any of its
\* elements.
Inductive(S, F) ==
  /\ {} \in F
  /\ \A x \in SUBSET S : x # {} /\ (\A e \in x : x \ {e} \in F) => x \in F

\* Induction over the subsets of a finite set.
LEMMA SubsetInduction ==
  ASSUME NEW S, IsFiniteSet(S), NEW F, Inductive(S, F)
  PROVE  \A x \in SUBSET S : x \in F
  <1> USE DEF Inductive
  <1> DEFINE T == {n \in Nat : \A x \in SUBSET S : Cardinality(x) = n => x \in F}
  <1>1. \A x \in SUBSET S : IsFiniteSet(x) /\ Cardinality(x) \in Nat
    BY FS_Subset, FS_CardinalityType
  <1>2. 0 \in T
    BY <1>1, FS_EmptySet
  <1>3. ASSUME NEW n \in T  PROVE  n + 1 \in T
    <2> SUFFICES ASSUME NEW x \in SUBSET S, Cardinality(x) = n + 1  PROVE  x \in F
      OBVIOUS
    <2>1. n \in Nat
      OBVIOUS
    <2>2. CASE x = {}
      BY <2>1, <2>2, FS_EmptySet
    <2>3. ASSUME NEW e \in x  PROVE  x \ {e} \in F
      <3>1. Cardinality(x \ {e}) = n
        BY <1>1, <2>1, FS_RemoveElement
      <3> QED  BY <3>1
    <2> QED  BY <2>2, <2>3
  <1> HIDE DEF T
  <1>4. T = Nat
    <2>1. T \in SUBSET Nat
      BY DEF T
    <2> QED  BY <1>2, <1>3, <2>1, NatSetInduction
  <1> QED  BY <1>1, <1>4 DEF T

\* A recursion over the subsets of S with values in V: the next value is computed
\* from the element that is picked from the set and the value at the set without it.
Recursion(S, V, base, pick, step) ==
  /\ base \in V
  /\ \A x \in SUBSET S : x # {} => pick[x] \in x
  /\ \A e \in S, v \in V : step[<<e, v>>] \in V

\* A function that satisfies the equations of a recursion.
Solution(S, V, base, pick, step, it) ==
  /\ it \in [SUBSET S -> V]
  /\ \A x \in SUBSET S :
       it[x] = IF x = {} THEN base ELSE step[<<pick[x], it[x \ {pick[x]}]>>]

\* A function on the subsets of a finite set may be defined by recursion.
LEMMA SubsetRecursion ==
  ASSUME NEW S, IsFiniteSet(S), NEW V, NEW base, NEW pick, NEW step,
         Recursion(S, V, base, pick, step)
  PROVE  \E it : Solution(S, V, base, pick, step, it)
  <1> USE DEF Recursion
  <1> DEFINE Value(g, x) == IF x = {} THEN base ELSE step[<<pick[x], g[x \ {pick[x]}]>>]
             UpTo(n) == \E g \in [SUBSET S -> V] :
               \A x \in SUBSET S : Cardinality(x) <= n => g[x] = Value(g, x)
             T == {n \in Nat : UpTo(n)}
  <1>1. \A x \in SUBSET S : IsFiniteSet(x) /\ Cardinality(x) \in Nat
    BY FS_Subset, FS_CardinalityType
  <1>2. 0 \in T
    <2> DEFINE g == [x \in SUBSET S |-> base]
    <2>1. g \in [SUBSET S -> V]
      OBVIOUS
    <2>2. \A x \in SUBSET S : Cardinality(x) <= 0 => x = {}
      BY <1>1, FS_EmptySet
    <2>3. \A x \in SUBSET S : Cardinality(x) <= 0 => g[x] = Value(g, x)
      BY <2>2
    <2> QED  BY <2>1, <2>3
  <1>3. ASSUME NEW n \in T  PROVE  n + 1 \in T
    <2>1. n \in Nat
      OBVIOUS
    <2>2. PICK g \in [SUBSET S -> V] :
            \A x \in SUBSET S : Cardinality(x) <= n => g[x] = Value(g, x)
      OBVIOUS
    <2> DEFINE h == [x \in SUBSET S |-> IF Cardinality(x) = n + 1 THEN Value(g, x) ELSE g[x]]
    <2>3. ASSUME NEW x \in SUBSET S, x # {}
          PROVE  /\ pick[x] \in x /\ x \ {pick[x]} \in SUBSET S
                 /\ Cardinality(x \ {pick[x]}) = Cardinality(x) - 1
      BY <1>1, <2>3, FS_RemoveElement
    <2>4. ASSUME NEW x \in SUBSET S  PROVE  Value(g, x) \in V
      BY <2>3
    <2>5. h \in [SUBSET S -> V]
      BY <2>4
    <2>6. ASSUME NEW x \in SUBSET S, Cardinality(x) <= n + 1  PROVE  h[x] = Value(h, x)
      <3>1. h[x] = Value(g, x)
        BY <1>1, <2>1, <2>2, <2>6
      <3>2. CASE x = {}
        BY <3>1, <3>2
      <3>3. CASE x # {}
        <4> DEFINE y == x \ {pick[x]}
        <4>1. y \in SUBSET S /\ Cardinality(y) <= n
          BY <1>1, <2>1, <2>3, <2>6, <3>3
        <4>2. h[y] = g[y]
          BY <4>1, <1>1, <2>1
        <4> QED  BY <3>1, <3>3, <4>2
      <3> QED  BY <3>2, <3>3
    <2>7. UpTo(n + 1)
      <3> HIDE DEF h, Value
      <3> QED  BY <2>5, <2>6
    <2> HIDE DEF UpTo
    <2> QED  BY <2>1, <2>7
  <1> HIDE DEF T
  <1>4. T = Nat
    <2>1. T \in SUBSET Nat
      BY DEF T
    <2> QED  BY <1>2, <1>3, <2>1, NatSetInduction
  <1>5. Cardinality(S) \in T
    BY <1>1, <1>4
  <1>6. PICK g \in [SUBSET S -> V] :
          \A x \in SUBSET S : Cardinality(x) <= Cardinality(S) => g[x] = Value(g, x)
    BY <1>5 DEF T
  <1>7. \A x \in SUBSET S : Cardinality(x) <= Cardinality(S)
    BY FS_Subset
  <1> QED  BY <1>6, <1>7 DEF Solution

\* A function up leads every element of D, step by step, to one of stop: no set of
\* elements outside stop is closed under it.
Founded(D, up, stop) ==
  /\ stop \subseteq D
  /\ \A h \in D \ stop : up[h] \in D
  /\ \A S \in SUBSET (D \ stop) : S # {} => \E h \in S : up[h] \notin S

\* T has the elements of stop, and every element whose up it has.
Hereditary(D, up, stop, T) ==
  /\ stop \subseteq T
  /\ \A h \in D \ stop : up[h] \in T => h \in T

\* Induction along up.
LEMMA FoundedInduction ==
  ASSUME NEW D, NEW up, NEW stop, Founded(D, up, stop),
         NEW T, Hereditary(D, up, stop, T)
  PROVE  \A h \in D : h \in T
  <1> DEFINE S == {h \in D \ stop : h \notin T}
  <1>1. S = {}
    <2> SUFFICES ASSUME S # {}  PROVE  FALSE
      OBVIOUS
    <2>1. PICK h \in S : up[h] \notin S
      BY DEF Founded
    <2>2. up[h] \in D
      BY DEF Founded
    <2>3. up[h] \in T
      BY <2>1, <2>2 DEF Hereditary
    <2> QED  BY <2>3 DEF Hereditary
  <1> QED  BY <1>1 DEF Hereditary

\* The data of a recursion along up, with values in V.
UpStep(D, V, stop, base, step) ==
  /\ \A h \in stop : base[h] \in V
  /\ \A h \in D \ stop, v \in V : step[<<h, v>>] \in V

\* A solution on a part S of D.
UpSolution(S, V, up, stop, base, step, f) ==
  /\ f \in [S -> V]
  /\ \A h \in S : f[h] = IF h \in stop THEN base[h] ELSE step[<<h, f[up[h]]>>]

\* A part of D that up does not leave.
Upward(S, D, up, stop) == S \subseteq D /\ \A h \in S \ stop : up[h] \in S

\* Two solutions agree where both are defined.
LEMMA UpUnique ==
  ASSUME NEW D, NEW up, NEW stop, Founded(D, up, stop), NEW V, NEW base, NEW step,
         NEW S, Upward(S, D, up, stop), NEW T, Upward(T, D, up, stop),
         NEW f, UpSolution(S, V, up, stop, base, step, f),
         NEW g, UpSolution(T, V, up, stop, base, step, g)
  PROVE  \A h \in S \cap T : f[h] = g[h]
  <1> DEFINE B == {h \in S \cap T : f[h] # g[h]}
  <1>1. B \in SUBSET (D \ stop)
    BY DEF Upward, UpSolution
  <1>2. ASSUME NEW h \in B  PROVE  up[h] \in B
    <2>1. h \notin stop /\ up[h] \in S /\ up[h] \in T
      BY <1>1 DEF Upward
    <2>2. f[h] = step[<<h, f[up[h]]>>] /\ g[h] = step[<<h, g[up[h]]>>]
      BY <2>1 DEF UpSolution
    <2> QED  BY <2>1, <2>2
  <1> HIDE DEF B
  <1>3. B = {}
    BY <1>1, <1>2 DEF Founded
  <1> QED  BY <1>3 DEF B

\* A function may be defined by recursion along up.
LEMMA FoundedRecursion ==
  ASSUME NEW D, NEW up, NEW stop, Founded(D, up, stop),
         NEW V, NEW base, NEW step, UpStep(D, V, stop, base, step)
  PROVE  \E f : UpSolution(D, V, up, stop, base, step, f)
  <1> DEFINE Attempt(h, S, f) == /\ h \in S /\ Upward(S, D, up, stop)
                                 /\ UpSolution(S, V, up, stop, base, step, f)
             Reached(h) == \E S, f : Attempt(h, S, f)
             T == {h \in D : Reached(h)}
  <1>1. ASSUME NEW h \in stop  PROVE  Reached(h)
    <2> DEFINE f == [k \in {h} |-> base[k]]
    <2>1. Upward({h}, D, up, stop)
      BY DEF Upward, Founded
    <2>2. f \in [{h} -> V] /\ f[h] = base[h]
      BY DEF UpStep
    <2> HIDE DEF f
    <2>3. UpSolution({h}, V, up, stop, base, step, f)
      BY <2>2 DEF UpSolution
    <2> QED  BY <2>1, <2>3
  <1>2. ASSUME NEW h \in D \ stop, Reached(up[h])  PROVE  Reached(h)
    <2>1. PICK S, f : Attempt(up[h], S, f)
      BY <1>2
    <2>2. up[h] \in S /\ Upward(S, D, up, stop)
          /\ UpSolution(S, V, up, stop, base, step, f)
      BY <2>1
    <2>3. CASE h \in S
      BY <2>2, <2>3
    <2>4. CASE h \notin S
      <3> DEFINE R == S \cup {h}
                 v == step[<<h, f[up[h]]>>]
                 g == [k \in R |-> IF k = h THEN v ELSE f[k]]
      <3>1. Upward(R, D, up, stop)
        BY <2>2 DEF Upward
      <3>2. v \in V
        <4>1. f[up[h]] \in V
          BY <2>2 DEF UpSolution
        <4> QED  BY <4>1 DEF UpStep
      <3>3. g \in [R -> V]
        BY <2>2, <3>2 DEF UpSolution
      <3>4. g[h] = v /\ \A k \in S : g[k] = f[k]
        BY <2>4
      <3>5. \A k \in S \ stop : up[k] \in S
        BY <2>2 DEF Upward
      <3>6. \A k \in S : f[k] = IF k \in stop THEN base[k] ELSE step[<<k, f[up[k]]>>]
        BY <2>2 DEF UpSolution
      <3>7. g[h] = step[<<h, g[up[h]]>>]
        BY <2>2, <3>4
      <3> HIDE DEF g, v
      <3>8. ASSUME NEW k \in S
            PROVE  g[k] = IF k \in stop THEN base[k] ELSE step[<<k, g[up[k]]>>]
        BY <3>4, <3>5, <3>6
      <3>9. UpSolution(R, V, up, stop, base, step, g)
        BY <3>3, <3>7, <3>8 DEF UpSolution
      <3> QED  BY <3>1, <3>9
    <2> QED  BY <2>3, <2>4
  <1>3. \A h \in D : Reached(h)
    <2> HIDE DEF Reached
    <2>1. Hereditary(D, up, stop, T)
      BY <1>1, <1>2 DEF Hereditary, Founded
    <2> HIDE DEF T
    <2>2. \A h \in D : h \in T
      BY <2>1, FoundedInduction
    <2> QED  BY <2>2 DEF T
  <1> DEFINE dom(h) == CHOOSE S : \E f : Attempt(h, S, f)
             sol(h) == CHOOSE f : Attempt(h, dom(h), f)
             F == [h \in D |-> sol(h)[h]]
  <1>4. ASSUME NEW h \in D  PROVE  Attempt(h, dom(h), sol(h))
    <2> HIDE DEF Attempt
    <2>1. \E f : Attempt(h, dom(h), f)
      BY <1>3
    <2> QED  BY <2>1
  <1> HIDE DEF dom, sol
  <1>5. F \in [D -> V]
    <2>1. ASSUME NEW h \in D  PROVE  sol(h)[h] \in V
      BY <1>4 DEF UpSolution
    <2> QED  BY <2>1
  <1>6. ASSUME NEW h \in D
        PROVE  F[h] = IF h \in stop THEN base[h] ELSE step[<<h, F[up[h]]>>]
    <2>1. h \in dom(h) /\ Upward(dom(h), D, up, stop)
          /\ UpSolution(dom(h), V, up, stop, base, step, sol(h))
      BY <1>4
    <2>2. sol(h)[h] = IF h \in stop THEN base[h] ELSE step[<<h, sol(h)[up[h]]>>]
      BY <2>1 DEF UpSolution
    <2>3. CASE h \in stop
      BY <2>2, <2>3
    <2>4. CASE h \notin stop
      <3>1. up[h] \in dom(h) /\ up[h] \in D
        BY <2>1, <2>4 DEF Upward
      <3>2. up[h] \in dom(up[h]) /\ Upward(dom(up[h]), D, up, stop)
            /\ UpSolution(dom(up[h]), V, up, stop, base, step, sol(up[h]))
        BY <3>1, <1>4
      <3>3. sol(h)[up[h]] = sol(up[h])[up[h]]
        BY <2>1, <3>1, <3>2, UpUnique
      <3>4. F[up[h]] = sol(up[h])[up[h]]
        BY <3>1
      <3> QED  BY <2>2, <2>4, <3>3, <3>4
    <2> QED  BY <2>3, <2>4
  <1> HIDE DEF F
  <1> QED  BY <1>5, <1>6 DEF UpSolution

\* The greatest of an interval that begins with 1, and of any set of its numbers.
LEMMA MaxOfInterval ==
  /\ \A n \in Nat \ {0} : Max(1..n) = n
  /\ \A n \in Nat : \A x \in SUBSET (1..n) :
       x # {} => Max(x) \in x /\ \A k \in x : Max(x) >= k
  <1>1. ASSUME NEW n \in Nat, NEW x \in SUBSET (1..n), x # {}
        PROVE  \E m \in x : \A k \in x : m >= k
    <2> DEFINE Below == {n - k : k \in x}
    <2>0. Below \in SUBSET Nat /\ Below # {}
      <3>1. \A k \in x : n - k \in Nat
        OBVIOUS
      <3> QED  BY <1>1, <3>1
    <2> HIDE DEF Below
    <2>1. PICK m \in Below : \A k \in Below : m <= k
      BY <2>0, LeastNatural
    <2> USE DEF Below
    <2>2. PICK k \in x : m = n - k
      OBVIOUS
    <2>3. \A j \in x : n - k <= n - j
      BY <2>1, <2>2
    <2> QED  BY <2>3
  <1>2. ASSUME NEW n \in Nat, NEW x \in SUBSET (1..n), x # {}
        PROVE  Max(x) \in x /\ \A k \in x : Max(x) >= k
    BY <1>1, <1>2 DEF Max
  <1>3. ASSUME NEW n \in Nat \ {0}  PROVE  Max(1..n) = n
    <2>1. n \in 1..n /\ 1..n \in SUBSET (1..n)
      OBVIOUS
    <2>2. Max(1..n) \in 1..n /\ Max(1..n) >= n
      BY <2>1, <1>2
    <2> QED  BY <2>2
  <1> QED  BY <1>2, <1>3

\* A step of a fold over a sequence of elements of S, from base and within V.
FoldStep(S, V, base, step) ==
  base \in V /\ \A v \in V, e \in S : step[<<v, e>>] \in V

\* What FoldLeft unfolds to: a function on the sets of places whose value at 1..k
\* is the fold of the first k elements.
FoldSolution(s, V, base, step, it) ==
  /\ it \in [SUBSET (DOMAIN s) -> V]
  /\ \A x \in SUBSET (DOMAIN s) :
       it[x] = IF x = {} THEN base ELSE step[<<it[x \ {Max(x)}], s[Max(x)]>>]

\* A fold over a sequence has a value.
LEMMA FoldRecursion ==
  ASSUME NEW S, NEW s \in Seq(S), NEW V, NEW base, NEW step, FoldStep(S, V, base, step)
  PROVE  \E it : FoldSolution(s, V, base, step, it)
  <1> DEFINE pick == [x \in SUBSET (DOMAIN s) |-> Max(x)]
             flip == [p \in (DOMAIN s) \X V |-> step[<<p[2], s[p[1]]>>]]
  <1>1. Len(s) \in Nat /\ DOMAIN s = 1..Len(s) /\ \A n \in DOMAIN s : s[n] \in S
    OBVIOUS
  <1>2. IsFiniteSet(DOMAIN s)
    BY <1>1, FS_Interval
  <1>3. \A x \in SUBSET (DOMAIN s) : x # {} => pick[x] \in x
    BY <1>1, MaxOfInterval
  <1>4. \A n \in DOMAIN s, v \in V : flip[<<n, v>>] = step[<<v, s[n]>>]
    OBVIOUS
  <1>5. Recursion(DOMAIN s, V, base, pick, flip)
    BY <1>1, <1>3, <1>4 DEF Recursion, FoldStep
  <1> HIDE DEF pick, flip
  <1>6. PICK it : Solution(DOMAIN s, V, base, pick, flip, it)
    BY <1>2, <1>5, SubsetRecursion
  <1>7. ASSUME NEW x \in SUBSET (DOMAIN s), x # {}
        PROVE  flip[<<pick[x], it[x \ {pick[x]}]>>] = step[<<it[x \ {Max(x)}], s[Max(x)]>>]
    <2>1. Max(x) \in DOMAIN s /\ it[x \ {Max(x)}] \in V /\ pick[x] = Max(x)
      BY <1>3, <1>6, <1>7 DEF Solution, pick
    <2> QED  BY <2>1, <1>4
  <1> QED  BY <1>6, <1>7 DEF Solution, FoldSolution

\* The places of the first k + 1 elements: the last of them, and the others.
LEMMA FirstPlaces ==
  ASSUME NEW S, NEW s \in Seq(S), NEW k \in 0..(Len(s) - 1)
  PROVE  /\ 1..(k + 1) \in SUBSET (DOMAIN s) /\ 1..(k + 1) # {}
         /\ Max(1..(k + 1)) = k + 1
         /\ (1..(k + 1)) \ {k + 1} = 1..k
  <1>1. k \in Nat /\ k + 1 \in Nat \ {0} /\ DOMAIN s = 1..Len(s)
    OBVIOUS
  <1>2. Max(1..(k + 1)) = k + 1
    BY <1>1, MaxOfInterval
  <1> QED  BY <1>1, <1>2

-----------------------------------------------------------------------------
(* Sums.                                                                    *)

\* The recursion that a sum over S unfolds: an element of the set at a time.
SumsChosen(S, f, F) ==
  /\ F \in [SUBSET S -> Nat]
  /\ \A x \in SUBSET S :
       F[x] = IF x = {} THEN 0
              ELSE f[CHOOSE e \in x : TRUE] + F[x \ {CHOOSE e \in x : TRUE}]

\* The sum of natural numbers over a finite set is the value of that recursion.
LEMMA SumByChoice ==
  ASSUME NEW S, IsFiniteSet(S), NEW f, \A x \in S : f[x] \in Nat
  PROVE  \E F : SumsChosen(S, f, F) /\ SumFunctionOnSet(f, S) = F[S]
  <1> DEFINE one(x) == CHOOSE e \in x : TRUE
             Body(g) == [x \in SUBSET S |->
                           IF x = {} THEN 0 ELSE f[one(x)] + g[x \ {one(x)}]]
             F == CHOOSE g : g = Body(g)
             pick == [x \in SUBSET S |-> one(x)]
             step == [p \in S \X Nat |-> f[p[1]] + p[2]]
  <1>1. SumFunctionOnSet(f, S) = F[S]
    BY DEF SumFunctionOnSet, FoldFunctionOnSet, MapThenFoldSet
  <1>2. \A x \in SUBSET S : x # {} => pick[x] = one(x) /\ one(x) \in x
    OBVIOUS
  <1>3. \A e \in S, v \in Nat : step[<<e, v>>] = f[e] + v /\ step[<<e, v>>] \in Nat
    OBVIOUS
  <1> HIDE DEF pick, step, one
  <1>4. Recursion(S, Nat, 0, pick, step)
    BY <1>2, <1>3 DEF Recursion
  <1>5. PICK g : Solution(S, Nat, 0, pick, step, g)
    BY <1>4, SubsetRecursion
  <1>6. g = Body(g)
    <2>1. ASSUME NEW x \in SUBSET S, x # {}
          PROVE  step[<<pick[x], g[x \ {pick[x]}]>>] = f[one(x)] + g[x \ {one(x)}]
      <3>1. g[x \ {one(x)}] \in Nat
        BY <1>5 DEF Solution
      <3> QED  BY <3>1, <2>1, <1>2, <1>3
    <2> QED  BY <2>1, <1>5 DEF Solution
  <1>7. F = Body(F)
    BY <1>6
  <1> HIDE DEF F
  <1> DEFINE T == {x \in SUBSET S : F[x] \in Nat}
  <1>8. {} \in T
    BY <1>7
  <1>9. ASSUME NEW x \in SUBSET S, x # {}, \A e \in x : x \ {e} \in T
        PROVE  x \in T
    <2>1. one(x) \in x
      BY <1>2, <1>9
    <2>2. F[x] = f[one(x)] + F[x \ {one(x)}]
      BY <1>7, <1>9
    <2>3. F[x \ {one(x)}] \in Nat /\ f[one(x)] \in Nat
      BY <2>1, <1>9
    <2> QED  BY <2>2, <2>3
  <1> HIDE DEF T
  <1>10. Inductive(S, T)
    BY <1>8, <1>9 DEF Inductive
  <1>11. \A x \in SUBSET S : F[x] \in Nat
    BY <1>10, SubsetInduction DEF T
  <1>12. SumsChosen(S, f, F)
    <2>1. \A x \in SUBSET S : F[x] = IF x = {} THEN 0 ELSE f[one(x)] + F[x \ {one(x)}]
      BY <1>7
    <2>2. F \in [SUBSET S -> Nat]
      BY <1>7, <1>11
    <2> QED  BY <2>1, <2>2 DEF SumsChosen, one
  <1> QED  BY <1>1, <1>12

\* Summing natural numbers over a finite set gives one.
LEMMA SumType ==
  ASSUME NEW S, IsFiniteSet(S), NEW f, \A x \in S : f[x] \in Nat
  PROVE  SumFunctionOnSet(f, S) \in Nat
  <1>1. PICK F : SumsChosen(S, f, F) /\ SumFunctionOnSet(f, S) = F[S]
    BY SumByChoice
  <1> QED  BY <1>1 DEF SumsChosen

\* Summing over nothing gives 0.
LEMMA SumEmpty ==
  ASSUME NEW f
  PROVE  SumFunctionOnSet(f, {}) = 0
  <1>1. PICK F : SumsChosen({}, f, F) /\ SumFunctionOnSet(f, {}) = F[{}]
    BY SumByChoice, FS_EmptySet
  <1> QED  BY <1>1 DEF SumsChosen

\* A sum over a subset is a value of the recursion over the whole.
LEMMA SumBelow ==
  ASSUME NEW S, IsFiniteSet(S), NEW f, \A x \in S : f[x] \in Nat,
         NEW F, SumsChosen(S, f, F), NEW x \in SUBSET S
  PROVE  SumFunctionOnSet(f, x) = F[x]
  <1>1. IsFiniteSet(x) /\ \A e \in x : f[e] \in Nat
    BY FS_Subset
  <1>2. PICK G : SumsChosen(x, f, G) /\ SumFunctionOnSet(f, x) = G[x]
    BY <1>1, SumByChoice
  <1> DEFINE T == {y \in SUBSET x : G[y] = F[y]}
  <1>3. {} \in T
    BY <1>2 DEF SumsChosen
  <1>4. ASSUME NEW y \in SUBSET x, y # {}, \A e \in y : y \ {e} \in T
        PROVE  y \in T
    <2> DEFINE c == CHOOSE e \in y : TRUE
    <2>1. c \in y
      BY <1>4
    <2>2. G[y] = f[c] + G[y \ {c}]
      BY <1>2, <1>4 DEF SumsChosen
    <2>3. F[y] = f[c] + F[y \ {c}]
      <3>1. y \in SUBSET S
        OBVIOUS
      <3> QED  BY <3>1, <1>4 DEF SumsChosen
    <2>4. G[y \ {c}] = F[y \ {c}]
      BY <2>1, <1>4
    <2> QED  BY <2>2, <2>3, <2>4
  <1> HIDE DEF T
  <1>5. Inductive(x, T)
    BY <1>3, <1>4 DEF Inductive
  <1>6. x \in T
    BY <1>1, <1>5, SubsetInduction
  <1> QED  BY <1>2, <1>6 DEF T

\* A sum may be begun with any element of the set.
LEMMA SumRemove ==
  ASSUME NEW S, IsFiniteSet(S), NEW f, \A x \in S : f[x] \in Nat, NEW e \in S
  PROVE  SumFunctionOnSet(f, S) = f[e] + SumFunctionOnSet(f, S \ {e})
  <1>1. PICK F : SumsChosen(S, f, F)
    BY SumByChoice
  <1> DEFINE T == {x \in SUBSET S : \A d \in x : F[x] = f[d] + F[x \ {d}]}
  <1>2. {} \in T
    OBVIOUS
  <1>3. ASSUME NEW x \in SUBSET S, x # {}, \A d \in x : x \ {d} \in T
        PROVE  x \in T
    <2> SUFFICES ASSUME NEW d \in x  PROVE  F[x] = f[d] + F[x \ {d}]
      OBVIOUS
    <2> DEFINE c == CHOOSE g \in x : TRUE
    <2>1. c \in x
      BY <1>3
    <2>2. F[x] = f[c] + F[x \ {c}]
      BY <1>1, <1>3 DEF SumsChosen
    <2> HIDE DEF c
    <2>3. CASE c = d
      BY <2>2, <2>3
    <2>4. CASE c # d
      <3>1. d \in x \ {c} /\ c \in x \ {d} /\ (x \ {c}) \ {d} = (x \ {d}) \ {c}
        BY <2>1, <2>4
      <3>2. F[x \ {c}] = f[d] + F[(x \ {c}) \ {d}]
        BY <3>1, <2>1, <1>3
      <3>3. F[x \ {d}] = f[c] + F[(x \ {c}) \ {d}]
        BY <3>1, <1>3
      <3>4. F[(x \ {c}) \ {d}] \in Nat /\ f[c] \in Nat /\ f[d] \in Nat
        <4>1. (x \ {c}) \ {d} \in SUBSET S
          OBVIOUS
        <4> QED  BY <4>1, <1>1, <2>1 DEF SumsChosen
      <3> QED  BY <2>2, <3>2, <3>3, <3>4
    <2> QED  BY <2>3, <2>4
  <1> HIDE DEF T
  <1>4. Inductive(S, T)
    BY <1>2, <1>3 DEF Inductive
  <1>5. S \in T
    BY <1>4, SubsetInduction
  <1>6. F[S] = f[e] + F[S \ {e}]
    BY <1>5 DEF T
  <1>7. SumFunctionOnSet(f, S) = F[S] /\ SumFunctionOnSet(f, S \ {e}) = F[S \ {e}]
    BY <1>1, SumBelow
  <1> QED  BY <1>6, <1>7

\* Sums over sets without a common element add up.
LEMMA SumUnion ==
  ASSUME NEW A, IsFiniteSet(A), NEW B, IsFiniteSet(B), A \cap B = {},
         NEW f, \A x \in A \cup B : f[x] \in Nat
  PROVE  SumFunctionOnSet(f, A \cup B) = SumFunctionOnSet(f, A) + SumFunctionOnSet(f, B)
  <1> DEFINE sum(x) == SumFunctionOnSet(f, x)
             T == {y \in SUBSET B : sum(A \cup y) = sum(A) + sum(y)}
  <1>1. \A x \in SUBSET (A \cup B) : IsFiniteSet(x) /\ sum(x) \in Nat
    BY FS_Union, FS_Subset, SumType
  <1>2. \A x \in SUBSET (A \cup B) : \A e \in x : sum(x) = f[e] + sum(x \ {e})
    BY <1>1, SumRemove
  <1>3. sum({}) = 0
    BY SumEmpty
  <1> HIDE DEF sum
  <1>4. {} \in T
    <2>1. A \cup {} = A /\ sum(A) \in Nat
      BY <1>1
    <2> QED  BY <2>1, <1>3
  <1>5. ASSUME NEW y \in SUBSET B, y # {}, \A e \in y : y \ {e} \in T
        PROVE  y \in T
    <2>1. PICK e \in y : TRUE
      BY <1>5
    <2>2. (A \cup y) \ {e} = A \cup (y \ {e})
      OBVIOUS
    <2>3. sum(A \cup y) = f[e] + sum(A \cup (y \ {e}))
      BY <2>2, <1>2
    <2>4. sum(y) = f[e] + sum(y \ {e})
      BY <1>2
    <2>5. sum(A \cup (y \ {e})) = sum(A) + sum(y \ {e})
      BY <1>5
    <2>6. f[e] \in Nat /\ sum(A) \in Nat /\ sum(y \ {e}) \in Nat
      BY <1>1
    <2> QED  BY <2>3, <2>4, <2>5, <2>6
  <1> HIDE DEF T
  <1>6. Inductive(B, T)
    BY <1>4, <1>5 DEF Inductive
  <1>7. B \in T
    BY <1>6, SubsetInduction
  <1> QED  BY <1>7 DEF T, sum

\* p gives the elements of B one name each, from A, and g is f by those names.
Names(p, A, B, f, g) ==
  /\ \A x \in A : p[x] \in B /\ g[x] = f[p[x]]
  /\ \A x, y \in A : p[x] = p[y] => x = y
  /\ \A d \in B : f[d] \in Nat /\ \E x \in A : d = p[x]

\* A sum over B may be taken over the names of its elements.
LEMMA SumReindex ==
  ASSUME NEW A, IsFiniteSet(A), NEW B, NEW p, NEW f, NEW g, Names(p, A, B, f, g)
  PROVE  SumFunctionOnSet(g, A) = SumFunctionOnSet(f, B)
  <1>0. /\ \A x \in A : p[x] \in B /\ g[x] = f[p[x]]
        /\ \A x, y \in A : p[x] = p[y] => x = y
        /\ \A d \in B : f[d] \in Nat /\ \E x \in A : d = p[x]
    BY DEF Names
  <1> DEFINE at(y) == {p[x] : x \in y}
             T == {y \in SUBSET A : SumFunctionOnSet(g, y) = SumFunctionOnSet(f, at(y))}
  <1>1. {} \in T
    <2>1. at({}) = {}
      OBVIOUS
    <2> QED  BY <2>1, SumEmpty
  <1>2. ASSUME NEW y \in SUBSET A, y # {}, \A e \in y : y \ {e} \in T
        PROVE  y \in T
    <2>1. PICK e \in y : TRUE
      BY <1>2
    <2>2. /\ IsFiniteSet(y) /\ IsFiniteSet(at(y))
          /\ \A x \in y : g[x] \in Nat
          /\ \A d \in at(y) : f[d] \in Nat
      <3>1. IsFiniteSet(y)
        BY FS_Subset
      <3> DEFINE h == [x \in y |-> p[x]]
      <3>2. h \in Surjection(y, at(y))
        BY DEF Surjection
      <3> HIDE DEF h
      <3>3. IsFiniteSet(at(y))
        BY <3>1, <3>2, FS_Surjection
      <3> QED  BY <3>1, <3>3, <1>0
    <2>3. SumFunctionOnSet(g, y) = g[e] + SumFunctionOnSet(g, y \ {e})
      BY <2>2, SumRemove
    <2>4. p[e] \in at(y) /\ at(y) \ {p[e]} = at(y \ {e})
      BY <1>0
    <2>5. SumFunctionOnSet(f, at(y)) = f[p[e]] + SumFunctionOnSet(f, at(y) \ {p[e]})
      BY <2>2, <2>4, SumRemove
    <2>6. SumFunctionOnSet(g, y \ {e}) = SumFunctionOnSet(f, at(y \ {e}))
      BY <1>2
    <2> QED  BY <2>3, <2>4, <2>5, <2>6, <1>0
  <1> HIDE DEF T
  <1>3. Inductive(A, T)
    BY <1>1, <1>2 DEF Inductive
  <1>4. A \in T
    BY <1>3, SubsetInduction
  <1>5. at(A) = B
    BY <1>0
  <1> QED  BY <1>4, <1>5 DEF T
=============================================================================
