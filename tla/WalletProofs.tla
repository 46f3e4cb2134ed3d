----------------------------- MODULE WalletProofs -----------------------------
(***************************************************************************)
(* Proofs about Privacy and Wallet.  Residues, and what they make of a     *)
(* signature that closes its ring and of the bits that add up to a number: *)
(* a ring signature that was made verifies, a range proof that was made    *)
(* verifies exactly if the number fits.  Then the wallet: what is derived  *)
(* for an address is found under its keys, what is built is what the       *)
(* ledger accepts, and a confirmed payment moves its amount and no more.   *)
(***************************************************************************)
EXTENDS WalletInvariant, Induction

-----------------------------------------------------------------------------
(* Residues.                                                               *)

\* A residue is a scalar, and differs from the number by a multiple of Q.
LEMMA ModIs ==
  ASSUME NEW x \in Int
  PROVE  Mod(x) \in Scalars /\ \E k \in Int : x = k * Q + Mod(x)
  <1>1. Q \in Nat /\ Q > 0
    BY PrivacyAssumption
  <1>2. x % Q \in 0..(Q - 1) /\ x \div Q \in Int /\ x = Q * (x \div Q) + (x % Q)
    BY <1>1
  <1>3. Q * (x \div Q) = (x \div Q) * Q
    BY <1>1, <1>2
  <1> QED  BY <1>2, <1>3 DEF Mod, Scalars

\* Less than Q apart, no multiple of it.
LEMMA NoMultiple ==
  ASSUME NEW k \in Int, NEW r \in Scalars, NEW s \in Scalars, r = s + k * Q
  PROVE  r = s
  <1>1. Q \in Nat /\ Q > 0
    BY PrivacyAssumption
  <1>2. ~(k >= 1)
    <2> SUFFICES ASSUME k >= 1  PROVE  FALSE
      OBVIOUS
    <2>1. k * Q >= Q
      BY <1>1
    <2> QED  BY <1>1, <2>1 DEF Scalars
  <1>3. ~(k <= -1)
    <2> SUFFICES ASSUME k <= -1  PROVE  FALSE
      OBVIOUS
    <2>1. k * Q <= -Q
      BY <1>1
    <2> QED  BY <1>1, <2>1 DEF Scalars
  <1>4. k = 0
    BY <1>2, <1>3
  <1> QED  BY <1>1, <1>4 DEF Scalars

\* Numbers a multiple of Q apart have one residue.
LEMMA SameResidue ==
  ASSUME NEW x \in Int, NEW y \in Int, NEW k \in Int, x = y + k * Q
  PROVE  Mod(x) = Mod(y)
  <1>1. Q \in Int
    BY PrivacyAssumption
  <1>2. PICK a \in Int : x = a * Q + Mod(x)
    BY ModIs
  <1>3. PICK b \in Int : y = b * Q + Mod(y)
    BY ModIs
  <1>4. Mod(x) \in Scalars /\ Mod(y) \in Scalars
    BY ModIs
  <1>5. Mod(x) = Mod(y) + (b + k - a) * Q
    <2>1. (b + k - a) * Q = b * Q + k * Q - a * Q
      BY <1>1
    <2>2. b * Q \in Int /\ k * Q \in Int /\ a * Q \in Int /\ Mod(x) \in Int /\ Mod(y) \in Int
      BY <1>1, <1>4 DEF Scalars
    <2> HIDE DEF Mod
    <2> QED  BY <1>2, <1>3, <2>1, <2>2
  <1> QED  BY <1>4, <1>5, NoMultiple

\* Distributive laws, a step each.
LEMMA Distributes ==
  ASSUME NEW a \in Int, NEW q \in Int, NEW m \in Int, NEW y \in Int
  PROVE  (a * q + m) * y = m * y + (a * y) * q /\ y * (a * q + m) = y * m + (a * y) * q
  <1>1. (a * q + m) * y = (a * q) * y + m * y
    OBVIOUS
  <1>2. (a * q) * y = (a * y) * q
    OBVIOUS
  <1>3. (a * q + m) * y = y * (a * q + m) /\ m * y = y * m
    OBVIOUS
  <1> QED  BY <1>1, <1>2, <1>3

\* Taking residues before a sum or a product changes nothing.
LEMMA ModOfSum ==
  ASSUME NEW x \in Int, NEW y \in Int
  PROVE  Mod(Mod(x) + y) = Mod(x + y) /\ Mod(x + Mod(y)) = Mod(x + y)
  <1>1. Q \in Int
    BY PrivacyAssumption
  <1>2. PICK a \in Int : x = a * Q + Mod(x)
    BY ModIs
  <1>3. PICK b \in Int : y = b * Q + Mod(y)
    BY ModIs
  <1>4. Mod(x) \in Int /\ Mod(y) \in Int
    BY ModIs DEF Scalars
  <1>5. x + y = (Mod(x) + y) + a * Q /\ x + y = (x + Mod(y)) + b * Q
    <2> DEFINE p == a * Q
               q == b * Q
    <2>1. p \in Int /\ q \in Int /\ x = p + Mod(x) /\ y = q + Mod(y)
      BY <1>1, <1>2, <1>3
    <2> HIDE DEF p, q
    <2>2. x + y = (Mod(x) + y) + p /\ x + y = (x + Mod(y)) + q
      BY <2>1, <1>4
    <2> QED  BY <2>2 DEF p, q
  <1> QED  BY <1>4, <1>5, SameResidue

\* A factor may be reduced before it is multiplied.
LEMMA ModOfProduct ==
  ASSUME NEW x \in Int, NEW y \in Int
  PROVE  Mod(Mod(x) * y) = Mod(x * y) /\ Mod(x * Mod(y)) = Mod(x * y)
  <1>1. Q \in Int
    BY PrivacyAssumption
  <1>2. PICK a \in Int : x = a * Q + Mod(x)
    BY ModIs
  <1>3. PICK b \in Int : y = b * Q + Mod(y)
    BY ModIs
  <1>4. Mod(x) \in Int /\ Mod(y) \in Int
    BY ModIs DEF Scalars
  <1>5. x * y = Mod(x) * y + (a * y) * Q
    <2> DEFINE m == Mod(x)
    <2>1. m \in Int /\ x = a * Q + m
      BY <1>2, <1>4
    <2> HIDE DEF m
    <2>2. (a * Q + m) * y = m * y + (a * y) * Q
      BY <1>1, <2>1, Distributes
    <2>3. x * y = (a * Q + m) * y
      BY <2>1
    <2> QED  BY <2>2, <2>3 DEF m
  <1>6. x * y = x * Mod(y) + (b * x) * Q
    BY <1>1, <1>3, <1>4, Distributes
  <1>7. Mod(x) * y \in Int /\ x * Mod(y) \in Int /\ x * y \in Int /\ a * y \in Int /\ b * x \in Int
    BY <1>4
  <1> QED  BY <1>5, <1>6, <1>7, SameResidue

\* A scalar is its own residue.
LEMMA ModOfScalar ==
  ASSUME NEW x \in Scalars
  PROVE  Mod(x) = x
  <1>1. x \in Int /\ Q \in Int
    BY PrivacyAssumption DEF Scalars
  <1>2. PICK a \in Int : x = a * Q + Mod(x)
    BY <1>1, ModIs
  <1>3. Mod(x) \in Scalars /\ x = Mod(x) + a * Q
    BY <1>1, <1>2, ModIs DEF Scalars
  <1> QED  BY <1>2, <1>3, NoMultiple

-----------------------------------------------------------------------------
(* Sums of residues.                                                       *)

\* The sums of the first k numbers, one after the other.
Sums(s, n, T) ==
  /\ T \in [0..n -> Scalars] /\ T[0] = 0
  /\ \A k \in 0..(n - 1) : T[k + 1] = Mod(T[k] + s[k + 1])

\* What Total adds up, one after the other.
LEMMA TotalSums ==
  ASSUME NEW n \in Nat, NEW s \in [1..n -> Int]
  PROVE  \E T : Sums(s, n, T) /\ Total(s) = T[n]
  <1> DEFINE keep(v, e) == Mod(v + e)
             Body(g) == [x \in SUBSET (DOMAIN s) |->
                           IF x = {} THEN 0 ELSE keep(g[x \ {Max(x)}], s[Max(x)])]
             F == CHOOSE g : g = Body(g)
             step == [p \in Scalars \X Int |-> keep(p[1], p[2])]
  <1>0. s \in Seq(Int) /\ Len(s) = n /\ DOMAIN s = 1..n /\ \A k \in 1..n : s[k] \in Int
    OBVIOUS
  <1>1. Total(s) = F[DOMAIN s]
    BY DEF Total, FoldLeft, MapThenFoldSet
  <1>2. ASSUME NEW v \in Scalars, NEW e \in Int
        PROVE  keep(v, e) \in Scalars /\ step[<<v, e>>] = keep(v, e)
    <2>1. v \in Int /\ v + e \in Int
      BY PrivacyAssumption DEF Scalars
    <2> QED  BY <2>1, ModIs
  <1>3. 0 \in Scalars
    BY PrivacyAssumption DEF Scalars
  <1> HIDE DEF step, keep
  <1>4. FoldStep(Int, Scalars, 0, step)
    BY <1>2, <1>3 DEF FoldStep
  <1>5. PICK g : FoldSolution(s, Scalars, 0, step, g)
    BY <1>0, <1>4, FoldRecursion
  <1>6. g = Body(g)
    <2>1. ASSUME NEW x \in SUBSET (DOMAIN s), x # {}
          PROVE  step[<<g[x \ {Max(x)}], s[Max(x)]>>] = keep(g[x \ {Max(x)}], s[Max(x)])
      <3>1. g[x \ {Max(x)}] \in Scalars
        BY <1>5 DEF FoldSolution
      <3>2. Max(x) \in DOMAIN s
        BY <2>1, <1>0, MaxOfInterval
      <3> QED  BY <3>1, <3>2, <1>0, <1>2
    <2> QED  BY <2>1, <1>5 DEF FoldSolution
  <1>7. F = Body(F)
    BY <1>6
  <1> HIDE DEF F
  <1>8. F[1..0] = 0
    BY <1>7
  <1>9. ASSUME NEW k \in 0..(n - 1)  PROVE  F[1..(k + 1)] = keep(F[1..k], s[k + 1])
    <2>1. F[1..(k + 1)] = Body(F)[1..(k + 1)]
      BY <1>7
    <2> QED  BY <2>1, <1>0, FirstPlaces
  <1> DEFINE P == {k \in 0..n : F[1..k] \in Scalars}
             T == [k \in 0..n |-> F[1..k]]
  <1>10. 0 \in P
    BY <1>3, <1>8
  <1>11. ASSUME NEW k \in 0..(n - 1), k \in P  PROVE  k + 1 \in P
    <2>1. k + 1 \in 0..n /\ s[k + 1] \in Int /\ F[1..k] \in Scalars
      BY <1>0, <1>11
    <2> QED  BY <1>2, <1>9, <2>1
  <1> HIDE DEF P
  <1>12. \A k \in 0..n : k \in P
    BY <1>10, <1>11, BoundedInduction
  <1>13. Sums(s, n, T)
    <2>1. T \in [0..n -> Scalars]
      BY <1>12 DEF P
    <2>2. T[0] = 0
      BY <1>8
    <2>3. ASSUME NEW k \in 0..(n - 1)  PROVE  T[k + 1] = Mod(T[k] + s[k + 1])
      BY <1>9, <2>3 DEF keep
    <2> QED  BY <2>1, <2>2, <2>3 DEF Sums
  <1> QED  BY <1>0, <1>1, <1>13

\* It depends on the residues of what is added only.
LEMMA TotalAlike ==
  ASSUME NEW n \in Nat, NEW s \in [1..n -> Int], NEW t \in [1..n -> Int],
         \A j \in 1..n : Mod(s[j]) = Mod(t[j])
  PROVE  Total(s) = Total(t)
  <1>1. PICK S : Sums(s, n, S) /\ Total(s) = S[n]
    BY TotalSums
  <1>2. PICK T : Sums(t, n, T) /\ Total(t) = T[n]
    BY TotalSums
  <1> DEFINE P == {k \in 0..n : S[k] = T[k]}
  <1>3. 0 \in P
    BY <1>1, <1>2 DEF Sums
  <1>4. ASSUME NEW k \in 0..(n - 1), k \in P  PROVE  k + 1 \in P
    <2>1. k \in 0..n /\ k + 1 \in 0..n /\ k + 1 \in 1..n
      BY <1>4
    <2>2. S[k] = T[k] /\ S[k] \in Int /\ s[k + 1] \in Int /\ t[k + 1] \in Int
      BY <1>1, <1>4, <2>1 DEF Sums, Scalars
    <2>3. Mod(S[k] + s[k + 1]) = Mod(S[k] + Mod(s[k + 1]))
      BY <2>2, ModOfSum
    <2>4. Mod(S[k] + t[k + 1]) = Mod(S[k] + Mod(t[k + 1]))
      BY <2>2, ModOfSum
    <2>5. S[k + 1] = T[k + 1]
      BY <1>1, <1>2, <2>1, <2>2, <2>3, <2>4 DEF Sums
    <2> QED  BY <2>1, <2>5
  <1> HIDE DEF P
  <1>5. \A k \in 0..n : k \in P
    BY <1>3, <1>4, BoundedInduction
  <1> QED  BY <1>1, <1>2, <1>5 DEF P

-----------------------------------------------------------------------------
(* Ring signatures.                                                        *)

\* Every hash is made a scalar.
LEMMA HashIsScalar ==
  \A h : Scalar(h) \in Scalars
  <1>1. 0 \in Scalars
    BY PrivacyAssumption DEF Scalars
  <1>2. \A h \in Int : Mod(h) \in Scalars
    BY ModIs
  <1> HIDE DEF Scalars
  <1> QED  BY <1>1, <1>2 DEF Scalar

\* A challenge leads to a challenge.
LEMMA NextIs ==
  ASSUME NEW keys, NEW keyImages, NEW responses, NEW msg, NEW c \in Scalars
  PROVE  NextChallenge(keys, keyImages, responses, msg)[c] \in Scalars
  BY HashIsScalar DEF NextChallenge

\* The n-th place from the real one round a ring of N.
Place(N, real, n) == ((real + n - 2) % N) + 1

\* It is within the ring, and wraps once at most.
LEMMA PlaceIs ==
  ASSUME NEW N \in Nat \ {0}, NEW real \in 1..N, NEW n \in 1..N
  PROVE  Place(N, real, n) = IF real + n - 1 <= N THEN real + n - 1 ELSE real + n - 1 - N
  <1> DEFINE x == real + n - 2
  <1>1. x \in Int /\ x >= 0 /\ x < 2 * N
    OBVIOUS
  <1> HIDE DEF x
  <1>2. x % N \in 0..(N - 1) /\ x \div N \in Int /\ x = N * (x \div N) + (x % N)
    BY <1>1
  <1> DEFINE d == x \div N
             r == x % N
  <1>3. d \in Int /\ r \in 0..(N - 1) /\ x = N * d + r
    BY <1>2
  <1> HIDE DEF d, r
  <1>4. d \in {0, 1}
    <2>1. ASSUME d >= 2  PROVE  FALSE
      <3>1. N * d >= N * 2
        BY <1>3, <2>1
      <3> QED  BY <1>1, <1>3, <3>1
    <2>2. ASSUME d <= -1  PROVE  FALSE
      <3>1. N * d <= N * (-1)
        BY <1>3, <2>2
      <3> QED  BY <1>1, <1>3, <3>1
    <2> QED  BY <1>3, <2>1, <2>2
  <1>5. r = IF d = 0 THEN x ELSE x - N
    BY <1>1, <1>3, <1>4
  <1>6. x >= N <=> d = 1
    BY <1>1, <1>3, <1>4
  <1>7. Place(N, real, n) = r + 1
    BY DEF Place, r, x
  <1> QED  BY <1>1, <1>4, <1>5, <1>6, <1>7 DEF x

\* Round the ring each challenge leads to the next.
Follow(cs, ring, N, keyImages, real, msg, first, random) ==
  /\ cs \in [1..N -> Scalars] /\ cs[1] = first
  /\ \A n \in 1..(N - 1) :
       cs[n + 1] = NextChallenge(ring[Place(N, real, n + 1)], keyImages,
                                 random[Place(N, real, n + 1)], msg)[cs[n]]

LEMMA ChallengesFollow ==
  ASSUME NEW ring, NEW N \in Nat \ {0}, Len(ring) = N, NEW keyImages, NEW real \in 1..N,
         NEW msg, NEW first \in Scalars, NEW random
  PROVE  Follow(Challenges(ring, keyImages, real, msg, first, random),
                ring, N, keyImages, real, msg, first, random)
  <1> DEFINE D == 1..N
             next(n) == NextChallenge(ring[Place(N, real, n)], keyImages,
                                      random[Place(N, real, n)], msg)
             up == [n \in D |-> n - 1]
             base == [n \in D |-> first]
             step == [p \in D \X Scalars |-> next(p[1])[p[2]]]
             Body(g) == [n \in D |-> IF n = 1 THEN first ELSE next(n)[g[n - 1]]]
             cs == Challenges(ring, keyImages, real, msg, first, random)
  <1>1. cs = CHOOSE g : g = Body(g)
    BY DEF Challenges, Place
  <1>2. Founded(D, up, {1})
    <2>1. ASSUME NEW S \in SUBSET (D \ {1}), S # {}  PROVE  \E h \in S : up[h] \notin S
      <3>1. PICK m \in S : \A n \in S : m <= n
        BY <2>1, LeastNatural
      <3> QED  BY <3>1
    <2> QED  BY <2>1 DEF Founded
  <1>3. \A n \in D, v \in Scalars : step[<<n, v>>] = next(n)[v] /\ next(n)[v] \in Scalars
    BY NextIs
  <1> HIDE DEF step, next
  <1>4. UpStep(D, Scalars, {1}, base, step)
    BY <1>3 DEF UpStep
  <1>5. PICK f : UpSolution(D, Scalars, up, {1}, base, step, f)
    BY <1>2, <1>4, FoundedRecursion
  <1>6. f = Body(f)
    <2>1. f \in [D -> Scalars]
      BY <1>5 DEF UpSolution
    <2>2. ASSUME NEW n \in D  PROVE  f[n] = IF n = 1 THEN first ELSE next(n)[f[n - 1]]
      <3>1. CASE n = 1
        BY <1>5, <3>1 DEF UpSolution
      <3>2. CASE n # 1
        <4>1. up[n] = n - 1 /\ n - 1 \in D
          BY <3>2
        <4>2. f[n] = step[<<n, f[n - 1]>>]
          BY <1>5, <3>2, <4>1 DEF UpSolution
        <4> QED  BY <3>2, <4>1, <4>2, <2>1, <1>3
      <3> QED  BY <3>1, <3>2
    <2> QED  BY <2>1, <2>2
  <1>7. cs = Body(cs)
    BY <1>1, <1>6
  <1> HIDE DEF cs
  <1>8. cs[1] = first
    BY <1>7
  <1>9. ASSUME NEW n \in 1..(N - 1)  PROVE  cs[n + 1] = next(n + 1)[cs[n]]
    BY <1>7
  <1> DEFINE P == {k \in 0..(N - 1) : cs[k + 1] \in Scalars}
  <1>10. 0 \in P
    BY <1>8
  <1>11. ASSUME NEW k \in 0..((N - 1) - 1), k \in P  PROVE  k + 1 \in P
    <2>1. k + 1 \in 1..(N - 1) /\ (k + 1) + 1 \in D /\ k + 1 \in 0..(N - 1)
      OBVIOUS
    <2>2. cs[(k + 1) + 1] = next((k + 1) + 1)[cs[k + 1]]
      BY <2>1, <1>9
    <2>3. next((k + 1) + 1)[cs[k + 1]] \in Scalars
      BY <2>1, <1>3, <1>11
    <2> QED  BY <2>1, <2>2, <2>3
  <1> HIDE DEF P
  <1>12. \A k \in 0..(N - 1) : k \in P
    <2>1. N - 1 \in Nat
      OBVIOUS
    <2> QED  BY <2>1, <1>10, <1>11, BoundedInduction
  <1>13. cs \in [1..N -> Scalars]
    <2>1. ASSUME NEW n \in 1..N  PROVE  cs[n] \in Scalars
      <3>1. n - 1 \in 0..(N - 1) /\ (n - 1) + 1 = n
        OBVIOUS
      <3> QED  BY <3>1, <1>12 DEF P
    <2>2. cs = [n \in 1..N |-> cs[n]]
      BY <1>7
    <2> QED  BY <2>1, <2>2
  <1>14. Follow(cs, ring, N, keyImages, real, msg, first, random)
    BY <1>8, <1>9, <1>13 DEF next, Follow
  <1> QED  BY <1>14 DEF cs

\* The image of a key, and what the real place answers to a challenge.
ImageOf(k) == Mod(k * HashPoint(k))
Response(a, c, k) == Mod(a - c * k)

\* The answer hides the secret: with the challenge it gives back alpha.
LEMMA ResponseAlike ==
  ASSUME NEW a \in Scalars, NEW c \in Scalars, NEW k \in Scalars, NEW h \in Scalars
  PROVE  LET r == Response(a, c, k)
         IN  /\ r + c * k \in Int /\ Mod(r + c * k) = Mod(a)
             /\ r * h + c * Mod(k * h) \in Int
             /\ Mod(r * h + c * Mod(k * h)) = Mod(a * h)
  <1> DEFINE b == c * k
             r == Mod(a - b)
             i == Mod(k * h)
  <1>1. a \in Int /\ c \in Int /\ k \in Int /\ h \in Int
    BY PrivacyAssumption DEF Scalars
  <1>2. b \in Int /\ k * h \in Int /\ a - b \in Int
    BY <1>1
  <1>3. r \in Int /\ i \in Int
    BY <1>2, ModIs, PrivacyAssumption DEF Scalars
  <1>4. Mod(r + b) = Mod(a)
    <2>1. Mod(r + b) = Mod((a - b) + b)
      BY <1>2, ModOfSum
    <2>2. (a - b) + b = a
      BY <1>1, <1>2
    <2> QED  BY <2>1, <2>2
  <1>5. Mod(r * h + c * i) = Mod(a * h)
    <2> DEFINE X == (a - b) * h
               Y == c * (k * h)
    <2>1. X \in Int /\ Y \in Int /\ r * h \in Int /\ c * i \in Int
      BY <1>1, <1>2, <1>3
    <2>2. Mod(r * h) = Mod(X) /\ Mod(c * i) = Mod(Y)
      BY <1>1, <1>2, ModOfProduct
    <2>3. X + Y = a * h
      <3>1. X = a * h - b * h
        BY <1>1, <1>2
      <3>2. b * h = Y
        BY <1>1
      <3>3. a * h \in Int /\ b * h \in Int
        BY <1>1, <1>2
      <3> HIDE DEF X, Y, b
      <3> QED  BY <3>1, <3>2, <3>3
    <2> HIDE DEF X, Y, r, i
    <2>4. Mod(r * h + c * i) = Mod(Mod(r * h) + c * i)
      BY <2>1, ModOfSum
    <2>5. Mod(Mod(r * h) + c * i) = Mod(Mod(r * h) + Mod(c * i))
      <3>1. Mod(r * h) \in Int
        BY <2>1, ModIs, PrivacyAssumption DEF Scalars
      <3> QED  BY <2>1, <3>1, ModOfSum
    <2>6. Mod(X + Y) = Mod(Mod(X) + Y) /\ Mod(Mod(X) + Y) = Mod(Mod(X) + Mod(Y))
      <3>1. Mod(X) \in Int
        BY <2>1, ModIs, PrivacyAssumption DEF Scalars
      <3> QED  BY <2>1, <3>1, ModOfSum
    <2> QED  BY <2>2, <2>3, <2>4, <2>5, <2>6
  <1>6. r + b \in Int /\ r * h + c * i \in Int
    BY <1>1, <1>2, <1>3
  <1> QED  BY <1>4, <1>5, <1>6 DEF Response

\* So the challenge after the real place is the one the signer started from.
LEMMA RealCloses ==
  ASSUME NEW L \in Nat \ {0}, NEW keys \in [1..L -> Scalars], NEW alpha \in [1..L -> Scalars],
         NEW c \in Scalars, NEW msg, NEW keyImages, NEW responses,
         DOMAIN keyImages = 1..L,
         \A j \in 1..L : /\ keyImages[j] = ImageOf(keys[j])
                         /\ responses[j] = Response(alpha[j], c, keys[j])
  PROVE  NextChallenge(keys, keyImages, responses, msg)[c] = FirstChallenge(keys, alpha, msg)
  <1> DEFINE left == [j \in 1..L |-> responses[j] + c * keys[j]]
             right == [j \in 1..L |-> responses[j] * HashPoint(keys[j]) + c * keyImages[j]]
             goal == [j \in 1..L |-> alpha[j] * HashPoint(keys[j])]
  <1>1. ASSUME NEW j \in 1..L
        PROVE  /\ left[j] \in Int /\ Mod(left[j]) = Mod(alpha[j])
               /\ right[j] \in Int /\ Mod(right[j]) = Mod(goal[j])
               /\ alpha[j] \in Int /\ goal[j] \in Int
    <2>1. alpha[j] \in Scalars /\ keys[j] \in Scalars /\ HashPoint(keys[j]) \in Scalars
      BY PrivacyAssumption
    <2>2. /\ responses[j] = Response(alpha[j], c, keys[j])
          /\ keyImages[j] = Mod(keys[j] * HashPoint(keys[j]))
      BY DEF ImageOf
    <2>3. alpha[j] \in Int /\ goal[j] \in Int
      BY <2>1, PrivacyAssumption DEF Scalars
    <2>4. LET r == Response(alpha[j], c, keys[j])
              h == HashPoint(keys[j])
          IN  /\ r + c * keys[j] \in Int /\ Mod(r + c * keys[j]) = Mod(alpha[j])
              /\ r * h + c * Mod(keys[j] * h) \in Int
              /\ Mod(r * h + c * Mod(keys[j] * h)) = Mod(alpha[j] * h)
      BY <2>1, ResponseAlike
    <2> QED  BY <2>2, <2>3, <2>4
  <1>2. /\ left \in [1..L -> Int] /\ right \in [1..L -> Int] /\ goal \in [1..L -> Int]
        /\ alpha \in [1..L -> Int]
    <2>1. /\ left = [j \in 1..L |-> left[j]] /\ right = [j \in 1..L |-> right[j]]
          /\ goal = [j \in 1..L |-> goal[j]] /\ alpha = [j \in 1..L |-> alpha[j]]
      OBVIOUS
    <2> HIDE DEF left, right, goal
    <2> QED  BY <2>1, <1>1
  <1> HIDE DEF left, right, goal
  <1>3. L \in Nat /\ \A j \in 1..L : Mod(left[j]) = Mod(alpha[j]) /\ Mod(right[j]) = Mod(goal[j])
    BY <1>1
  <1> HIDE DEF Mod
  <1>6. Total(left) = Total(alpha)
    <2>1. \A j \in 1..L : Mod(left[j]) = Mod(alpha[j])
      BY <1>3
    <2> QED  BY <1>2, <1>3, <2>1, TotalAlike
  <1>7. Total(right) = Total(goal)
    <2>1. \A j \in 1..L : Mod(right[j]) = Mod(goal[j])
      BY <1>3
    <2> QED  BY <1>2, <1>3, <2>1, TotalAlike
  <1>4. NextChallenge(keys, keyImages, responses, msg)[c]
          = Scalar(Challenge(msg, Total(left), Total(right)))
    <2>1. DOMAIN keyImages = 1..L
      OBVIOUS
    <2> QED  BY <2>1 DEF NextChallenge, left, right
  <1>5. FirstChallenge(keys, alpha, msg) = Scalar(Challenge(msg, Total(alpha), Total(goal)))
    <2>1. DOMAIN alpha = 1..L
      OBVIOUS
    <2> QED  BY <2>1 DEF FirstChallenge, goal
  <1> QED  BY <1>4, <1>5, <1>6, <1>7

\* The challenges a verifier comes to, one after the other.
Comes(ring, N, keyImages, responses, msg, c0, T) ==
  /\ T \in [0..N -> Scalars] /\ T[0] = c0
  /\ \A k \in 0..(N - 1) :
       T[k + 1] = NextChallenge(ring[k + 1], keyImages, responses[k + 1], msg)[T[k]]

\* What comes back is the last of them.
LEMMA AroundComes ==
  ASSUME NEW N \in Nat, NEW ring, Len(ring) = N, NEW keyImages, NEW responses, NEW msg,
         NEW c0 \in Scalars
  PROVE  \E T : /\ Comes(ring, N, keyImages, responses, msg, c0, T)
                /\ Around(ring, keyImages, responses, msg, c0) = T[N]
  <1> DEFINE s == Upto(Len(ring))
             keep(v, e) == NextChallenge(ring[e], keyImages, responses[e], msg)[v]
             Body(g) == [x \in SUBSET (DOMAIN s) |->
                           IF x = {} THEN c0 ELSE keep(g[x \ {Max(x)}], s[Max(x)])]
             F == CHOOSE g : g = Body(g)
             step == [p \in Scalars \X Nat |-> keep(p[1], p[2])]
  <1>0. /\ s \in Seq(Nat) /\ Len(s) = N /\ DOMAIN s = 1..N
        /\ \A k \in 1..N : s[k] = k /\ s[k] \in Nat
    BY DEF Upto
  <1>1. Around(ring, keyImages, responses, msg, c0) = F[DOMAIN s]
    BY DEF Around, FoldLeft, MapThenFoldSet
  <1>2. ASSUME NEW v \in Scalars, NEW e \in Nat
        PROVE  keep(v, e) \in Scalars /\ step[<<v, e>>] = keep(v, e)
    BY NextIs
  <1> HIDE DEF step, keep, s
  <1>4. FoldStep(Nat, Scalars, c0, step)
    BY <1>2 DEF FoldStep
  <1>5. PICK g : FoldSolution(s, Scalars, c0, step, g)
    BY <1>0, <1>4, FoldRecursion
  <1>6. g = Body(g)
    <2>1. ASSUME NEW x \in SUBSET (DOMAIN s), x # {}
          PROVE  step[<<g[x \ {Max(x)}], s[Max(x)]>>] = keep(g[x \ {Max(x)}], s[Max(x)])
      <3>1. g[x \ {Max(x)}] \in Scalars
        BY <1>5 DEF FoldSolution
      <3>2. Max(x) \in DOMAIN s
        BY <2>1, <1>0, MaxOfInterval
      <3> QED  BY <3>1, <3>2, <1>0, <1>2
    <2> QED  BY <2>1, <1>5 DEF FoldSolution
  <1>7. F = Body(F)
    BY <1>6
  <1> HIDE DEF F
  <1>8. F[1..0] = c0
    BY <1>7
  <1>9. ASSUME NEW k \in 0..(N - 1)  PROVE  F[1..(k + 1)] = keep(F[1..k], k + 1)
    <2>1. F[1..(k + 1)] = Body(F)[1..(k + 1)]
      BY <1>7
    <2>2. s[k + 1] = k + 1
      BY <1>0
    <2> QED  BY <2>1, <2>2, <1>0, FirstPlaces
  <1> DEFINE P == {k \in 0..N : F[1..k] \in Scalars}
             T == [k \in 0..N |-> F[1..k]]
  <1>10. 0 \in P
    BY <1>8
  <1>11. ASSUME NEW k \in 0..(N - 1), k \in P  PROVE  k + 1 \in P
    <2>1. k + 1 \in 0..N /\ k + 1 \in Nat /\ F[1..k] \in Scalars
      BY <1>11
    <2> QED  BY <1>2, <1>9, <2>1
  <1> HIDE DEF P
  <1>12. \A k \in 0..N : k \in P
    BY <1>10, <1>11, BoundedInduction
  <1>13. Comes(ring, N, keyImages, responses, msg, c0, T)
    <2>1. T \in [0..N -> Scalars]
      BY <1>12 DEF P
    <2>2. T[0] = c0
      BY <1>8
    <2>3. ASSUME NEW k \in 0..(N - 1)
          PROVE  T[k + 1] = NextChallenge(ring[k + 1], keyImages, responses[k + 1], msg)[T[k]]
      BY <1>9, <2>3 DEF keep
    <2> QED  BY <2>1, <2>2, <2>3 DEF Comes
  <1> QED  BY <1>0, <1>1, <1>13

\* What a signer has: a ring of N keys for each of L inputs, the secrets of those at
\* the real place, and what is drawn at random.
SignerHas(N, L, ring, secrets, real, alpha, random) ==
  /\ N \in Nat \ {0} /\ L \in Nat \ {0} /\ real \in 1..N
  /\ ring \in [1..N -> [1..L -> Scalars]] /\ secrets = ring[real]
  /\ alpha \in [1..L -> Scalars] /\ random \in [1..N -> [1..L -> Scalars]]

\* The challenges of a signature come back to the first.
Returns(sig, N, L, secrets, ring, msg) ==
  /\ sig.images \in [1..L -> Scalars]
  /\ \A j \in 1..L : sig.images[j] = ImageOf(secrets[j])
  /\ sig.responses \in [1..N -> [1..L -> Scalars]] /\ sig.c0 \in Scalars
  /\ sig.c0 = Around(ring, sig.images, sig.responses, msg, sig.c0)

\* They do, whatever the place of the secrets in the ring, the message and what was
\* drawn.
LEMMA SignatureReturns ==
  ASSUME NEW N, NEW L, NEW ring, NEW secrets, NEW real, NEW alpha, NEW random, NEW msg,
         SignerHas(N, L, ring, secrets, real, alpha, random)
  PROVE  Returns(Sign(ring, secrets, real, msg, alpha, random), N, L, secrets, ring, msg)
  <1> DEFINE keyImages == [j \in 1..L |-> ImageOf(secrets[j])]
             first == FirstChallenge(secrets, alpha, msg)
             cs == Challenges(ring, keyImages, real, msg, first, random)
             last == [j \in 1..L |-> Response(alpha[j], cs[N], secrets[j])]
             responses == [random EXCEPT ![real] = last]
             sig == Sign(ring, secrets, real, msg, alpha, random)
             c0 == cs[N - real + 1]
             next(p, r) == NextChallenge(ring[p], keyImages, r, msg)
  <1>0. /\ N \in Nat \ {0} /\ L \in Nat \ {0} /\ real \in 1..N
        /\ ring \in [1..N -> [1..L -> Scalars]] /\ ring[real] = secrets
        /\ alpha \in [1..L -> Scalars] /\ random \in [1..N -> [1..L -> Scalars]]
    BY DEF SignerHas
  <1>1. Len(ring) = N /\ Len(secrets) = L /\ secrets \in [1..L -> Scalars]
    BY <1>0
  <1>16. \A x \in Scalars : x \in Int
    BY PrivacyAssumption DEF Scalars
  <1>2. sig = [images |-> keyImages, c0 |-> c0, responses |-> responses]
    <2>1. KeyImages(ring, secrets, real) = keyImages
      BY <1>0, <1>1 DEF KeyImages, ImageOf
    <2> QED  BY <1>0, <1>1, <2>1 DEF Sign, Response
  <1>3. first \in Scalars
    BY HashIsScalar DEF FirstChallenge
  <1> HIDE DEF keyImages, last, responses, sig, c0
  <1>4. /\ cs \in [1..N -> Scalars] /\ cs[1] = first
        /\ \A n \in 1..(N - 1) :
             cs[n + 1] = next(Place(N, real, n + 1), random[Place(N, real, n + 1)])[cs[n]]
    <2> HIDE DEF first, cs
    <2>1. first \in Scalars /\ N \in Nat \ {0} /\ Len(ring) = N /\ real \in 1..N
      BY <1>0, <1>1, <1>3
    <2>2. Challenges(ring, keyImages, real, msg, first, random) = cs
      BY DEF cs
    <2> HIDE DEF next
    <2> HIDE DEF keyImages
    <2>3. Follow(cs, ring, N, keyImages, real, msg, first, random)
      BY <2>1, <2>2, ChallengesFollow
    <2> QED  BY <2>3 DEF next, Follow
  <1> HIDE DEF cs, first
  <1>5. c0 \in Scalars /\ cs[N] \in Scalars
    BY <1>0, <1>4 DEF c0
  <1>6. last \in [1..L -> Scalars]
    <2>1. ASSUME NEW j \in 1..L  PROVE  Response(alpha[j], cs[N], secrets[j]) \in Scalars
      <3>1. alpha[j] \in Int /\ cs[N] \in Int /\ secrets[j] \in Int
        BY <1>0, <1>1, <1>5, <1>16
      <3>2. \A a, b, c \in Int : a - b * c \in Int
        OBVIOUS
      <3>3. alpha[j] - cs[N] * secrets[j] \in Int
        BY <1>0, <3>1, <3>2
      <3> QED  BY <1>0, <3>3, ModIs DEF Response
    <2> QED  BY <1>0, <2>1 DEF last
  <1>7. responses \in [1..N -> [1..L -> Scalars]]
    BY <1>0, <1>6 DEF responses
  <1>8. next(real, last)[cs[N]] = first
    <2>1. DOMAIN keyImages = 1..L /\ \A j \in 1..L : keyImages[j] = ImageOf(secrets[j])
      BY DEF keyImages
    <2>2. \A j \in 1..L : last[j] = Response(alpha[j], cs[N], secrets[j])
      BY DEF last
    <2> HIDE DEF next
    <2>3. /\ L \in Nat \ {0} /\ secrets \in [1..L -> Scalars] /\ alpha \in [1..L -> Scalars]
          /\ cs[N] \in Scalars
      BY <1>0, <1>1, <1>5
    <2>4. \A j \in 1..L : /\ keyImages[j] = ImageOf(secrets[j])
                         /\ last[j] = Response(alpha[j], cs[N], secrets[j])
      BY <2>1, <2>2
    <2>5. NextChallenge(secrets, keyImages, last, msg)[cs[N]] = FirstChallenge(secrets, alpha, msg)
      BY ONLY <2>1, <2>3, <2>4, RealCloses
    <2> QED  BY <1>0, <2>5 DEF first, next
  <1>9. responses[real] = last /\ \A p \in 1..N : p # real => responses[p] = random[p]
    BY <1>0 DEF responses
  <1>10. PICK T : /\ Comes(ring, N, keyImages, responses, msg, c0, T)
                  /\ Around(ring, keyImages, responses, msg, c0) = T[N]
    <2>1. N \in Nat /\ Len(ring) = N
      BY <1>0, <1>1
    <2> HIDE DEF next
    <2> QED  BY <2>1, <1>5, AroundComes
  <1> HIDE DEF next
  <1> DEFINE at(k) == IF k < real THEN N - real + 1 + k ELSE k - real + 1
             P == {k \in 0..N : T[k] = cs[at(k)]}
  <1>11. 0 \in P
    BY <1>0, <1>10 DEF Comes, c0
  <1>12. ASSUME NEW k \in 0..(N - 1), k \in P  PROVE  k + 1 \in P
    <2>1. T[k] = cs[at(k)] /\ k + 1 \in 0..N /\ k + 1 \in 1..N
      BY <1>0, <1>12
    <2>2. T[k + 1] = next(k + 1, responses[k + 1])[T[k]]
      BY <1>0, <1>10, <1>12 DEF Comes, next
    <2>3. CASE k + 1 = real
      <3>1. at(k) = N /\ at(k + 1) = 1
        BY <1>0, <2>3
      <3>2. T[k + 1] = first
        BY <1>0, <1>8, <1>9, <2>1, <2>2, <2>3, <3>1
      <3> QED  BY <1>0, <1>4, <2>1, <3>1, <3>2
    <2>4. CASE k + 1 # real
      <3> DEFINE n == at(k)
      <3>1. n \in 1..(N - 1) /\ at(k + 1) = n + 1 /\ n + 1 \in 1..N
        BY <1>0, <2>4
      <3>2. Place(N, real, n + 1) = k + 1
        <4>1. Place(N, real, n + 1) = IF real + (n + 1) - 1 <= N THEN real + (n + 1) - 1
                                      ELSE real + (n + 1) - 1 - N
          BY <1>0, <3>1, PlaceIs
        <4> QED  BY <1>0, <4>1, <2>4
      <3> HIDE DEF n, at
      <3>3. cs[n + 1] = next(k + 1, random[k + 1])[cs[n]]
        BY <1>0, <1>4, <3>1, <3>2
      <3>4. T[k + 1] = cs[n + 1]
        BY <1>0, <1>9, <2>1, <2>2, <2>4, <3>3 DEF n
      <3> QED  BY <1>0, <2>1, <3>1, <3>4
    <2> QED  BY <1>0, <2>3, <2>4
  <1> HIDE DEF P
  <1>13. \A k \in 0..N : k \in P
    BY <1>0, <1>11, <1>12, BoundedInduction
  <1>14. T[N] = c0
    <2>1. N \in 0..N /\ at(N) = N - real + 1
      BY <1>0
    <2> QED  BY <1>0, <1>13, <2>1 DEF P, c0
  <1>15. Around(ring, sig.images, sig.responses, msg, sig.c0) = c0
    BY <1>0, <1>2, <1>10, <1>14
  <1>17. keyImages \in [1..L -> Scalars] /\ \A j \in 1..L : keyImages[j] = ImageOf(secrets[j])
    <2>1. ASSUME NEW j \in 1..L  PROVE  ImageOf(secrets[j]) \in Scalars
      <3>1. secrets[j] \in Int /\ HashPoint(secrets[j]) \in Int
        BY <1>1, <1>16, PrivacyAssumption
      <3> QED  BY <3>1, ModIs DEF ImageOf
    <2> QED  BY <2>1 DEF keyImages
  <1>18. sig = [images |-> keyImages, c0 |-> c0, responses |-> responses]
    BY <1>2
  <1> HIDE DEF sig
  <1>19. Returns(sig, N, L, secrets, ring, msg)
    BY <1>5, <1>7, <1>15, <1>17, <1>18 DEF Returns
  <1> QED  BY <1>19 DEF sig

\* A signature that a signer made is accepted, whatever the place of the secrets in
\* the ring, the message and what was drawn, unless the ring is of one.
THEOREM SignatureVerifies ==
  ASSUME NEW N, NEW L, NEW ring, NEW secrets, NEW real, NEW alpha, NEW random, NEW msg,
         SignerHas(N, L, ring, secrets, real, alpha, random)
  PROVE  VerifySignature(Sign(ring, secrets, real, msg, alpha, random), ring, msg) <=> N >= 2
  <1> DEFINE sig == Sign(ring, secrets, real, msg, alpha, random)
  <1>1. /\ N \in Nat \ {0} /\ L \in Nat \ {0} /\ ring \in [1..N -> [1..L -> Scalars]]
    BY DEF SignerHas
  <1>2. Returns(sig, N, L, secrets, ring, msg)
    BY SignatureReturns
  <1> HIDE DEF sig
  <1>3. Len(sig.images) = L /\ Len(ring) = N /\ Len(sig.responses) = N
    BY <1>1, <1>2 DEF Returns
  <1>4. \A n \in 1..N : Len(ring[n]) = L /\ Len(sig.responses[n]) = L
    BY <1>1, <1>2 DEF Returns
  <1>5. VerifySignature(sig, ring, msg) <=> N >= 2
    BY <1>1, <1>2, <1>3, <1>4 DEF VerifySignature, Returns
  <1> QED  BY <1>5 DEF sig

-----------------------------------------------------------------------------
(* Range proofs.                                                           *)

\* The powers of two are what their recursion says.
LEMMA TwoIs ==
  /\ Two[0] = 1
  /\ \A n \in Nat : Two[n] \in Nat \ {0} /\ Two[n + 1] = 2 * Two[n]
  <1> DEFINE V == Nat \ {0}
             up == [n \in Nat |-> n - 1]
             base == [n \in Nat |-> 1]
             step == [p \in Nat \X V |-> 2 * p[2]]
             Body(g) == [n \in Nat |-> IF n = 0 THEN 1 ELSE 2 * g[n - 1]]
  <1>1. Two = CHOOSE g : g = Body(g)
    BY DEF Two
  <1>2. Founded(Nat, up, {0})
    <2>1. ASSUME NEW S \in SUBSET (Nat \ {0}), S # {}  PROVE  \E h \in S : up[h] \notin S
      <3>1. PICK m \in S : \A n \in S : m <= n
        BY <2>1, LeastNatural
      <3> QED  BY <3>1
    <2> QED  BY <2>1 DEF Founded
  <1>3. \A n \in Nat, v \in V : step[<<n, v>>] = 2 * v /\ 2 * v \in V
    OBVIOUS
  <1> HIDE DEF step
  <1>4. UpStep(Nat, V, {0}, base, step)
    BY <1>3 DEF UpStep
  <1> HIDE DEF V
  <1>5. PICK f : UpSolution(Nat, V, up, {0}, base, step, f)
    BY <1>2, <1>4, FoundedRecursion
  <1>6. f = Body(f)
    <2>1. f \in [Nat -> V]
      BY <1>5 DEF UpSolution
    <2>2. ASSUME NEW n \in Nat  PROVE  f[n] = IF n = 0 THEN 1 ELSE 2 * f[n - 1]
      <3>1. CASE n = 0
        BY <1>5, <3>1 DEF UpSolution
      <3>2. CASE n # 0
        <4>1. up[n] = n - 1 /\ n - 1 \in Nat
          BY <3>2
        <4>2. f[n] = step[<<n, f[n - 1]>>]
          BY <1>5, <3>2, <4>1 DEF UpSolution
        <4> QED  BY <3>2, <4>1, <4>2, <2>1, <1>3
      <3> QED  BY <3>1, <3>2
    <2> QED  BY <2>1, <2>2
  <1>7. Two = Body(Two)
    BY <1>1, <1>6
  <1>8. Two[0] = 1 /\ \A n \in Nat : Two[n + 1] = 2 * Two[n]
    BY <1>7
  <1> DEFINE S == {n \in Nat : Two[n] \in Nat \ {0}}
  <1>9. 0 \in S /\ \A n \in S : n + 1 \in S
    BY <1>8
  <1> HIDE DEF S
  <1>10. S = Nat
    <2>1. S \in SUBSET Nat
      BY DEF S
    <2> QED  BY <1>9, <2>1, NatSetInduction
  <1> QED  BY <1>8, <1>10 DEF S

\* There is one remainder.
LEMMA OneRemainder ==
  ASSUME NEW m \in Nat \ {0}, NEW d \in Int, NEW r \in 0..(m - 1), NEW v \in Int,
         v = m * d + r
  PROVE  v % m = r
  <1>1. v % m \in 0..(m - 1) /\ v \div m \in Int /\ v = m * (v \div m) + (v % m)
    OBVIOUS
  <1> DEFINE q == v \div m
             s == v % m
  <1>2. q \in Int /\ s \in 0..(m - 1) /\ v = m * q + s
    BY <1>1
  <1> HIDE DEF q, s
  <1>3. m * (q - d) = m * q - m * d
    BY <1>2
  <1> DEFINE e == q - d
  <1>4. e \in Int /\ m * e = r - s
    BY <1>2, <1>3
  <1> HIDE DEF e
  <1>5. ~(e >= 1)
    <2>1. e >= 1 => m * e >= m
      BY <1>4
    <2> QED  BY <1>2, <1>4, <2>1
  <1>6. ~(e <= -1)
    <2>1. e <= -1 => m * e <= -m
      BY <1>4
    <2> QED  BY <1>2, <1>4, <2>1
  <1>7. e = 0
    BY <1>4, <1>5, <1>6
  <1> QED  BY <1>2, <1>4, <1>7 DEF s

\* One bit more of a number.
LEMMA NextBit ==
  ASSUME NEW v \in Nat, NEW k \in Nat
  PROVE  /\ Bit(v, k + 1) \in {0, 1}
         /\ v % Two[k] \in Nat
         /\ v % Two[k + 1] = (v % Two[k]) + Two[k] * Bit(v, k + 1)
  <1>1. Two[k] \in Nat \ {0} /\ Two[k + 1] = 2 * Two[k]
    BY TwoIs
  <1> DEFINE t == Two[k]
             q == v \div t
             r == v % t
             p == q \div 2
             b == q % 2
  <1>2. t \in Nat \ {0} /\ Two[k + 1] = 2 * t /\ Bit(v, k + 1) = b
    <2>1. (k + 1) - 1 = k
      OBVIOUS
    <2> QED  BY <1>1, <2>1 DEF Bit
  <1> HIDE DEF t
  <1>3. q \in Int /\ r \in 0..(t - 1) /\ v = t * q + r
    BY <1>2
  <1> HIDE DEF q, r
  <1>4. p \in Int /\ b \in {0, 1} /\ q = 2 * p + b
    BY <1>3
  <1> HIDE DEF p, b
  <1>5. t * q = (2 * t) * p + t * b
    <2>1. t * q = t * (2 * p + b)
      BY <1>4
    <2>2. t * (2 * p + b) = t * (2 * p) + t * b
      BY <1>2, <1>4
    <2>3. t * (2 * p) = (2 * t) * p
      BY <1>2, <1>4
    <2> QED  BY <2>1, <2>2, <2>3
  <1>6. t * b \in {0, t}
    BY <1>2, <1>4
  <1>7. t * b + r \in 0..(2 * t - 1) /\ 2 * t \in Nat \ {0}
    BY <1>2, <1>3, <1>6
  <1>8. v = (2 * t) * p + (t * b + r)
    <2>1. (2 * t) * p \in Int /\ t * b \in Int
      BY <1>2, <1>4
    <2> QED  BY <1>3, <1>5, <2>1
  <1>9. v % (2 * t) = t * b + r
    BY <1>4, <1>7, <1>8, OneRemainder
  <1>10. t * b + r = r + t * b /\ r \in Nat
    BY <1>3, <1>6, <1>2
  <1> QED  BY <1>2, <1>4, <1>9, <1>10 DEF t, r

\* Residues within a sum of products.
LEMMA ModWithin ==
  ASSUME NEW x \in Int, NEW t \in Int, NEW y \in Int
  PROVE  /\ Mod(x + t * Mod(y)) = Mod(x + t * y)
         /\ Mod(x + Mod(y) * t) = Mod(x + y * t)
  <1>1. Mod(y) \in Int /\ Mod(t * y) \in Int /\ Mod(y * t) \in Int
    <2>1. t * y \in Int /\ y * t \in Int
      OBVIOUS
    <2> QED  BY <2>1, ModIs, PrivacyAssumption DEF Scalars
  <1> DEFINE p == t * Mod(y)
             q == t * y
             r == Mod(y) * t
             s == y * t
  <1>2. p \in Int /\ q \in Int /\ r \in Int /\ s \in Int
    BY <1>1
  <1>3. Mod(p) = Mod(q) /\ Mod(r) = Mod(s)
    BY ModOfProduct
  <1> HIDE DEF p, q, r, s
  <1>4. Mod(x + p) = Mod(x + Mod(p)) /\ Mod(x + q) = Mod(x + Mod(q))
    BY <1>2, ModOfSum
  <1>5. Mod(x + r) = Mod(x + Mod(r)) /\ Mod(x + s) = Mod(x + Mod(s))
    BY <1>2, ModOfSum
  <1> QED  BY <1>3, <1>4, <1>5 DEF p, q, r, s

\* Adding a commitment to one bit more: to the sum of the commitments, and to the
\* blinding and the number committed to.
AddedOutside(a, r, h, t, b, c) == Mod(Mod(a + r * h) + t * Mod(b + c * h))
AddedInside(a, r, h, t, b, c) == Mod(Mod(a + Mod(b) * t) + (r + t * c) * h)

\* A bit more of the number adds its weight.
LEMMA BitAdds ==
  ASSUME NEW a \in Int, NEW r \in Int, NEW h \in Int, NEW t \in Int, NEW b \in Int, NEW c \in Int
  PROVE  AddedOutside(a, r, h, t, b, c) = AddedInside(a, r, h, t, b, c)
  <1> DEFINE x == a + r * h
             y == b + c * h
             z == (r + t * c) * h
             m == Mod(b) * t
  <1>1. x \in Int /\ y \in Int /\ z \in Int /\ m \in Int /\ b * t \in Int /\ t * Mod(y) \in Int
        /\ a + z \in Int
    <2>1. y \in Int
      OBVIOUS
    <2>2. Mod(b) \in Int /\ Mod(y) \in Int
      BY <2>1, ModIs, PrivacyAssumption DEF Scalars
    <2> HIDE DEF Mod
    <2> QED  BY <2>2
  <1>2. Mod(Mod(x) + t * Mod(y)) = Mod(x + t * y)
    <2> HIDE DEF x, y
    <2>1. Mod(Mod(x) + t * Mod(y)) = Mod(x + t * Mod(y))
      BY <1>1, ModOfSum
    <2>2. Mod(x + t * Mod(y)) = Mod(x + t * y)
      BY <1>1, ModWithin
    <2> QED  BY <2>1, <2>2
  <1>3. Mod(Mod(a + m) + z) = Mod((a + m) + z)
    BY <1>1, ModOfSum
  <1>4. Mod((a + m) + z) = Mod((a + z) + b * t)
    <2>1. (a + m) + z = (a + z) + m
      BY <1>1
    <2>2. Mod((a + z) + m) = Mod((a + z) + b * t)
      BY <1>1, ModWithin
    <2> QED  BY <2>1, <2>2
  <1>5. x + t * y = (a + z) + b * t
    <2>1. t * y = t * b + t * (c * h)
      OBVIOUS
    <2>2. z = r * h + (t * c) * h
      OBVIOUS
    <2>3. (t * c) * h = t * (c * h) /\ t * b = b * t
      OBVIOUS
    <2> DEFINE e == t * (c * h)
               f == b * t
               g == r * h
    <2>4. e \in Int /\ f \in Int /\ g \in Int /\ t * y = f + e /\ z = g + e /\ x = a + g
      BY <2>1, <2>2, <2>3
    <2> HIDE DEF e, f, g, x, y, z
    <2>5. x + t * y = (a + z) + f
      BY <2>4
    <2> QED  BY <2>5 DEF f
  <1> HIDE DEF x, y, z, m, Mod
  <1>6. Mod(Mod(x) + t * Mod(y)) = Mod(Mod(a + m) + z)
    BY <1>2, <1>3, <1>4, <1>5
  <1> QED  BY <1>6 DEF x, y, z, m, AddedOutside, AddedInside

\* The commitments c to n bits of v, and with the weight of the bit the blindings and
\* the commitments.
BitTerms(v, n, b, c, s, t) ==
  \A i \in 1..n : /\ c[i] = Commit(Bit(v, i), b[i])
                  /\ s[i] = Mod(b[i]) * Two[i - 1] /\ t[i] = Two[i - 1] * c[i]

\* The commitments to the bits of a number, added up with the weights, commit to as
\* many of its bits.
LEMMA BitsAdd ==
  ASSUME NEW v \in Nat, NEW n \in Nat, NEW b \in [1..n -> Scalars], NEW c, NEW s, NEW t,
         BitTerms(v, n, b, c, s, t), NEW A, Sums(s, n, A), NEW B, Sums(t, n, B)
  PROVE  B[n] = Mod(A[n] + (v % Two[n]) * H)
  <1> DEFINE P == {k \in 0..n : B[k] = Mod(A[k] + (v % Two[k]) * H)}
  <1>0. H \in Int /\ \A x \in Scalars : x \in Int
    BY PrivacyAssumption DEF Scalars
  <1>1. 0 \in P
    <2>1. A[0] = 0 /\ B[0] = 0 /\ Two[0] = 1 /\ v % 1 = 0
      BY TwoIs DEF Sums
    <2>2. Mod(0) = 0
      <3>1. 0 \in Scalars
        BY PrivacyAssumption DEF Scalars
      <3> QED  BY <3>1, ModOfScalar
    <2>3. 0 + 0 * H = 0
      BY <1>0
    <2> QED  BY <2>1, <2>2, <2>3
  <1>2. ASSUME NEW k \in 0..(n - 1), k \in P  PROVE  k + 1 \in P
    <2> DEFINE r == v % Two[k]
               bit == Bit(v, k + 1)
    <2>1. k \in Nat /\ k + 1 \in 0..n /\ k + 1 \in 1..n /\ (k + 1) - 1 = k
      OBVIOUS
    <2>2. Two[k] \in Int /\ bit \in Int /\ r \in Int /\ v % Two[k + 1] = r + Two[k] * bit
      <3>1. Two[k] \in Int
        <4>1. Two[k] \in Nat \ {0}
          BY ONLY <2>1, TwoIs
        <4> QED  BY <4>1
      <3>2. bit \in {0, 1} /\ r \in Nat /\ v % Two[k + 1] = r + Two[k] * bit
        BY <2>1, NextBit
      <3> HIDE DEF bit, r
      <3> QED  BY <3>1, <3>2
    <2> HIDE DEF r, bit
    <2>3. B[k + 1] = Mod(Mod(A[k] + r * H) + Two[k] * Mod(b[k + 1] + bit * H))
      <3>1. B[k + 1] = Mod(B[k] + t[k + 1])
        BY DEF Sums
      <3>2. B[k] = Mod(A[k] + r * H)
        BY <1>2 DEF r
      <3>3. t[k + 1] = Two[k] * Mod(b[k + 1] + bit * H)
        BY <2>1 DEF Commit, bit, BitTerms
      <3> QED  BY <3>1, <3>2, <3>3
    <2>4. A[k + 1] = Mod(A[k] + Mod(b[k + 1]) * Two[k])
      BY <2>1 DEF Sums, BitTerms
    <2>5. A[k] \in Int /\ b[k + 1] \in Int
      BY <1>0, <2>1 DEF Sums
    <2>6. B[k + 1] = Mod(A[k + 1] + (r + Two[k] * bit) * H)
      <3>1. Mod(Mod(A[k] + r * H) + Two[k] * Mod(b[k + 1] + bit * H))
              = Mod(Mod(A[k] + Mod(b[k + 1]) * Two[k]) + (r + Two[k] * bit) * H)
        <4> DEFINE x == A[k]
                   y == b[k + 1]
                   z == Two[k]
        <4>1. x \in Int /\ y \in Int /\ z \in Int /\ r \in Int /\ bit \in Int /\ H \in Int
          BY <1>0, <2>2, <2>5
        <4> HIDE DEF x, y, z
        <4>2. AddedOutside(x, r, H, z, y, bit) = AddedInside(x, r, H, z, y, bit)
          BY ONLY <4>1, BitAdds
        <4> QED  BY <4>2 DEF x, y, z, AddedOutside, AddedInside
      <3> QED  BY <2>3, <2>4, <3>1
    <2> QED  BY <2>1, <2>2, <2>6
  <1> HIDE DEF P
  <1>3. \A k \in 0..n : k \in P
    BY <1>1, <1>2, BoundedInduction
  <1> QED  BY <1>3 DEF P

\* A commitment binds a number below the order of the group, given the blinding.
LEMMA CommitmentBinds ==
  ASSUME NEW a \in Int, NEW v \in Scalars, NEW w \in Scalars, Mod(a + v * H) = Mod(a + w * H)
  PROVE  v = w
  <1>0. H \in Int /\ v \in Int /\ w \in Int
    BY PrivacyAssumption DEF Scalars
  <1>1. PICK h \in Scalars : (h * H) % Q = 1
    BY PrivacyAssumption
  <1> DEFINE x == v * H
             y == w * H
  <1>2. x \in Int /\ y \in Int /\ h \in Int /\ h * H \in Int
    BY <1>0, <1>1, PrivacyAssumption DEF Scalars
  <1> HIDE DEF x, y
  <1>3. Mod(x) = Mod(y)
    <2>1. Mod(-a + Mod(a + x)) = Mod(-a + (a + x)) /\ Mod(-a + Mod(a + y)) = Mod(-a + (a + y))
      <3>1. -a \in Int /\ a + x \in Int /\ a + y \in Int
        BY <1>2
      <3> QED  BY <3>1, ModOfSum
    <2>2. -a + (a + x) = x /\ -a + (a + y) = y
      BY <1>2
    <2> QED  BY <2>1, <2>2 DEF x, y
  <1>4. ASSUME NEW u \in Scalars  PROVE  Mod(h * Mod(u * H)) = u
    <2>0. u \in Int /\ u * H \in Int
      BY <1>0, PrivacyAssumption DEF Scalars
    <2>1. Mod(h * Mod(u * H)) = Mod(h * (u * H))
      BY <1>2, <2>0, ModOfProduct
    <2>2. h * (u * H) = u * (h * H)
      BY <1>0, <1>2, <2>0
    <2>3. Mod(u * (h * H)) = Mod(u * Mod(h * H))
      BY <1>2, <2>0, ModOfProduct
    <2>4. Mod(h * H) = 1
      BY <1>1 DEF Mod
    <2>5. Mod(u * 1) = u
      BY <2>0, ModOfScalar
    <2> QED  BY <2>1, <2>2, <2>3, <2>4, <2>5
  <1> QED  BY <1>3, <1>4 DEF x, y

\* Whoever commits to a bit can sign in its ring.
LEMMA BitSigner ==
  ASSUME NEW b \in Scalars, NEW bit \in {0, 1}
  PROVE  SignerHas(2, 1, BitRing(Commit(bit, b)), <<b>>, bit + 1, <<Mod(b + 1)>>,
                   <<<<b>>, <<b>>>>)
  <1> DEFINE c == Commit(bit, b)
             d == Mod(c - H)
  <1>0. b \in Int /\ H \in Int
    BY PrivacyAssumption DEF Scalars
  <1>1. c \in Scalars /\ d \in Scalars /\ Mod(b + 1) \in Scalars
    <2>1. b + bit * H \in Int
      BY <1>0
    <2>2. c \in Scalars
      BY <2>1, ModIs DEF Commit
    <2>3. c \in Int /\ c - H \in Int /\ b + 1 \in Int
      BY <1>0, <2>2, PrivacyAssumption DEF Scalars
    <2> QED  BY <2>2, <2>3, ModIs
  <1>2. bit = 0 => c = b
    BY <1>0, ModOfScalar DEF Commit
  <1>3. bit = 1 => d = b
    <2> SUFFICES ASSUME bit = 1  PROVE  Mod(Mod(b + H) - H) = b
      BY <1>0 DEF Commit
    <2>1. Mod(Mod(b + H) + (-H)) = Mod((b + H) + (-H))
      <3>1. b + H \in Int /\ -H \in Int
        BY <1>0
      <3> QED  BY <3>1, ModOfSum
    <2>2. (b + H) + (-H) = b /\ Mod(b) = b
      BY <1>0, ModOfScalar
    <2>3. Mod(b + H) + (-H) = Mod(b + H) - H
      <3>1. Mod(b + H) \in Int
        BY <1>0, ModIs, PrivacyAssumption DEF Scalars
      <3> QED  BY <1>0, <3>1
    <2> QED  BY <2>1, <2>2, <2>3
  <1>4. BitRing(c) = <<<<c>>, <<d>>>>
    BY DEF BitRing
  <1> HIDE DEF c, d
  <1>5. BitRing(c) \in [1..2 -> [1..1 -> Scalars]] /\ BitRing(c)[bit + 1] = <<b>>
    BY <1>1, <1>2, <1>3, <1>4
  <1>6. /\ <<Mod(b + 1)>> \in [1..1 -> Scalars]
        /\ <<<<b>>, <<b>>>> \in [1..2 -> [1..1 -> Scalars]]
    BY <1>1
  <1>7. SignerHas(2, 1, BitRing(c), <<b>>, bit + 1, <<Mod(b + 1)>>, <<<<b>>, <<b>>>>)
    BY <1>5, <1>6 DEF SignerHas
  <1> QED  BY <1>7 DEF c

\* A range proof is accepted for the commitment it was made with exactly if the
\* number fits its bits.
THEOREM RangeVerifies ==
  ASSUME NEW v \in Scalars, NEW n \in 1..64, NEW b \in [1..n -> Scalars]
  PROVE  LET p == ProveWithBlinding(v, b)
         IN  VerifyRange(p.proof, Commit(v, p.blinding)) <=> v < Two[n]
  <1> DEFINE s == [i \in 1..n |-> Mod(b[i]) * Two[i - 1]]
             c == [i \in 1..n |-> Commit(Bit(v, i), b[i])]
             t == [i \in 1..n |-> Two[i - 1] * c[i]]
             sign(i) == Sign(BitRing(c[i]), <<b[i]>>, Bit(v, i) + 1, <<i>>,
                             <<Mod(b[i] + 1)>>, <<<<b[i]>>, <<b[i]>>>>)
             p == ProveWithBlinding(v, b)
  <1>0. /\ n \in Nat /\ v \in Nat /\ v < Q /\ H \in Int /\ Len(b) = n
        /\ \A x \in Scalars : x \in Int
    BY PrivacyAssumption DEF Scalars
  <1>1. ASSUME NEW i \in 1..n
        PROVE  /\ Bit(v, i) \in {0, 1} /\ b[i] \in Scalars /\ Two[i - 1] \in Int
               /\ c[i] = Commit(Bit(v, i), b[i]) /\ c[i] \in Scalars
    <2>1. i - 1 \in Nat /\ (i - 1) + 1 = i
      OBVIOUS
    <2>2. Bit(v, i) \in {0, 1}
      BY <1>0, <2>1, NextBit
    <2>3. Two[i - 1] \in Nat \ {0}
      BY <2>1, TwoIs
    <2>4. b[i] + Bit(v, i) * H \in Int
      <3>1. \A x \in {0, 1}, y \in Int : y + x * H \in Int
        BY <1>0
      <3>2. b[i] \in Int
        BY <1>0
      <3> QED  BY <2>2, <3>1, <3>2
    <2>5. Commit(Bit(v, i), b[i]) \in Scalars
      BY <2>4, ModIs DEF Commit
    <2> QED  BY <2>2, <2>3, <2>5
  <1>2. /\ p.blinding = Total(s) /\ p.proof.commitments = c
        /\ p.proof.proofs = [i \in 1..n |-> sign(i)] /\ p.proof.bits = n
    BY <1>0 DEF ProveWithBlinding, ProveBits
  <1>3. s \in [1..n -> Int] /\ t \in [1..n -> Int]
    <2>1. ASSUME NEW i \in 1..n  PROVE  s[i] \in Int /\ t[i] \in Int
      <3>1. Mod(b[i]) \in Int /\ c[i] \in Int
        BY <1>0, <1>1, ModIs
      <3> HIDE DEF c, Mod
      <3> QED  BY <1>1, <3>1
    <2>2. s = [i \in 1..n |-> s[i]] /\ t = [i \in 1..n |-> t[i]]
      OBVIOUS
    <2> HIDE DEF s, t
    <2> QED  BY <2>1, <2>2
  <1>4. PICK A : Sums(s, n, A) /\ Total(s) = A[n]
    BY <1>0, <1>3, TotalSums
  <1>5. PICK B : Sums(t, n, B) /\ Total(t) = B[n]
    BY <1>0, <1>3, TotalSums
  <1>6. B[n] = Mod(A[n] + (v % Two[n]) * H)
    <2>1. BitTerms(v, n, b, c, s, t)
      BY DEF BitTerms
    <2> HIDE DEF s, t, c
    <2> QED  BY <1>0, <1>4, <1>5, <2>1, BitsAdd
  <1>7. ASSUME NEW i \in 1..n
        PROVE  VerifySignature(p.proof.proofs[i], BitRing(c[i]), <<i>>)
    <2>1. p.proof.proofs[i] = sign(i)
      BY <1>2
    <2>2. SignerHas(2, 1, BitRing(c[i]), <<b[i]>>, Bit(v, i) + 1, <<Mod(b[i] + 1)>>,
                    <<<<b[i]>>, <<b[i]>>>>)
      BY <1>1, BitSigner
    <2>3. VerifySignature(sign(i), BitRing(c[i]), <<i>>)
      <3> HIDE DEF c
      <3> QED  BY <2>2, SignatureVerifies
    <2> QED  BY <2>1, <2>3
  <1>8. Len(c) = n /\ Len(p.proof.proofs) = n
    BY <1>0, <1>2
  <1>9. Total([i \in 1..Len(p.proof.commitments) |-> Two[i - 1] * p.proof.commitments[i]]) = B[n]
    BY <1>2, <1>5, <1>8
  <1> DEFINE w == v % Two[n]
             d == Commit(v, p.blinding)
  <1>10. VerifyRange(p.proof, d) <=> d = B[n]
    <2> DEFINE total == Total([i \in 1..Len(p.proof.commitments) |->
                                 Two[i - 1] * p.proof.commitments[i]])
    <2>1. total = B[n]
      BY <1>9
    <2> HIDE DEF p, d, c, sign
    <2>2. VerifyRange(p.proof, d) <=>
            /\ Len(p.proof.commitments) <= 64 /\ Len(p.proof.commitments) = Len(p.proof.proofs)
            /\ Len(p.proof.commitments) = p.proof.bits
            /\ d = total
            /\ \A i \in 1..Len(p.proof.commitments) :
                 VerifySignature(p.proof.proofs[i], BitRing(p.proof.commitments[i]), <<i>>)
      BY DEF VerifyRange
    <2> HIDE DEF total
    <2> QED  BY <1>2, <1>7, <1>8, <2>1, <2>2
  <1>11. d = Mod(A[n] + v * H)
    BY <1>2, <1>4 DEF Commit
  <1>12. Two[n] \in Nat \ {0}
    BY <1>0, TwoIs
  <1>13. w \in Nat /\ w <= v /\ w < Two[n] /\ (v < Two[n] => w = v)
    BY <1>0, <1>12
  <1> HIDE DEF p, w, s, t, c
  <1>14. w \in Scalars
    BY <1>0, <1>13, PrivacyAssumption DEF Scalars
  <1>15. A[n] \in Int
    <2>1. n \in 0..n
      BY <1>0
    <2> QED  BY <1>0, <1>4, <2>1 DEF Sums
  <1>16. d = B[n] <=> v = w
    <2>1. B[n] = Mod(A[n] + w * H)
      BY <1>6 DEF w
    <2>2. Mod(A[n] + v * H) = Mod(A[n] + w * H) => v = w
      BY <1>14, <1>15, CommitmentBinds
    <2> QED  BY <1>11, <2>1, <2>2
  <1>17. v = w <=> v < Two[n]
    BY <1>0, <1>12, <1>13
  <1>18. VerifyRange(p.proof, Commit(v, p.blinding)) <=> v < Two[n]
    BY <1>10, <1>16, <1>17
  <1> QED  BY <1>18 DEF p

-----------------------------------------------------------------------------
(* Addresses and outputs.                                                  *)

\* Scalars are integers, 0 is one, and no point is the one of an output without.
LEMMA ScalarsAre ==
  /\ \A x \in Scalars : x \in Int
  /\ 0 \in Scalars /\ NoPoint \notin Scalars /\ Q \in Nat
  BY PrivacyAssumption, WalletAssumption DEF Scalars

\* What is drawn at random is a scalar.
LEMMA RandomIs ==
  ASSUME NEW n \in Nat, NEW i \in Nat
  PROVE  Random(n, i) \in Scalars
  <1>1. 1 + 1009 * n + 97 * i \in Int
    OBVIOUS
  <1> QED  BY <1>1, ModIs DEF Random

\* The places of outputs.
LEMMA PlacesAre ==
  ASSUME NEW k \in Places
  PROVE  /\ k[1] \in Nat /\ k[2] \in Nat /\ k = <<k[1], k[2]>>
         /\ Random(k[1], k[2]) \in Scalars
  <1>1. k[1] \in Nat /\ k[2] \in Nat /\ k = <<k[1], k[2]>>
    <2>1. CASE \E seed \in Seeds : k \in SeedKeys(seed)
      <3>1. PICK seed \in Seeds : k \in SeedKeys(seed)
        BY <2>1
      <3>2. PICK n \in 1..Len(seed) : k = <<0, n>>
        BY <3>1 DEF SeedKeys
      <3>3. Len(seed) \in Nat
        BY WalletAssumption
      <3> QED  BY <3>2, <3>3
    <2>2. CASE k \in (1..MaxPayments) \X {1, 2}
      <3>1. PICK n \in 1..MaxPayments, i \in {1, 2} : k = <<n, i>>
        BY <2>2
      <3>2. MaxPayments \in Nat
        BY WalletAssumption
      <3> QED  BY <3>1, <3>2
    <2>3. (\E seed \in Seeds : k \in SeedKeys(seed)) \/ k \in (1..MaxPayments) \X {1, 2}
      <3> DEFINE pairs == (1..MaxPayments) \X {1, 2}
      <3>1. k \in UNION {SeedKeys(seed) : seed \in Seeds} \/ k \in pairs
        BY DEF Places
      <3> HIDE DEF pairs
      <3>2. k \in pairs => k \in (1..MaxPayments) \X {1, 2}
        BY DEF pairs
      <3>3. k \in UNION {SeedKeys(seed) : seed \in Seeds} => \E seed \in Seeds : k \in SeedKeys(seed)
        OBVIOUS
      <3> QED  BY <3>1, <3>2, <3>3
    <2> QED  BY <2>1, <2>2, <2>3
  <1> QED  BY <1>1, RandomIs

\* The addresses of wallets are addresses one may pay to.
LEMMA AddressesAre ==
  /\ \A a \in Payees : a \in Address /\ a.spend \in Scalars /\ a.view \in Scalars
  /\ Held \subseteq Payees /\ Addresses \subseteq Payees
  /\ \A w \in Wallets : \A n \in 1..Len(Keys[w]) :
       AddressOf(w, n) \in Held /\ AddressOf(w, n) \in Payees
  /\ \A w \in Wallets : 1 \in 1..Len(Keys[w])
  <1>1. Held \subseteq Address
    BY WalletAssumption DEF Held
  <1>2. \A seed \in Seeds : \A n \in 1..Len(seed) : seed[n].to \in Address
    BY WalletAssumption
  <1>3. Payees \subseteq Address
    BY <1>1, <1>2, WalletAssumption DEF Payees
  <1>4. \A w \in Wallets : 1 \in 1..Len(Keys[w])
    <2> SUFFICES ASSUME NEW w \in Wallets  PROVE  1 \in 1..Len(Keys[w])
      OBVIOUS
    <2>1. Len(Keys[w]) \in Nat \ {0}
      BY WalletAssumption
    <2> QED  BY <2>1
  <1>5. \A a \in Address : a.spend \in Scalars /\ a.view \in Scalars
    BY DEF Address
  <1> QED  BY <1>3, <1>4, <1>5 DEF Payees, Held

\* The keys of an address recover the one-time key of what was derived for it.
LEMMA KeyAtIs ==
  ASSUME NEW k \in Places, NEW to \in Payees
  PROVE  /\ KeyAt(k, to) \in Scalars
         /\ Destination(to, Random(k[1], k[2])).ephemeral = Random(k[1], k[2])
         /\ Recover(to.view, to.spend, Random(k[1], k[2])) = KeyAt(k, to)
         /\ ImageAt(k, to) = ImageOf(KeyAt(k, to))
  <1> DEFINE r == Random(k[1], k[2])
  <1>1. r \in Scalars /\ r \in Int
    BY PlacesAre, ScalarsAre
  <1> HIDE DEF r
  <1>2. to.spend \in Scalars /\ to.view \in Scalars /\ to.spend \in Int /\ to.view \in Int
    BY AddressesAre, ScalarsAre
  <1>3. Mod(r) = r
    BY <1>1, ModOfScalar
  <1>4. r * to.view = to.view * r /\ r * to.view \in Int
    BY <1>1, <1>2
  <1> DEFINE h == HashScalar(Mod(r * to.view))
  <1>5. h \in Scalars /\ h \in Int
    <2>1. Mod(r * to.view) \in Scalars
      BY <1>4, ModIs
    <2> QED  BY <2>1, PrivacyAssumption, ScalarsAre
  <1> HIDE DEF h
  <1>6. KeyAt(k, to) = Mod(h + to.spend)
    BY DEF KeyAt, Destination, r, h
  <1>7. Recover(to.view, to.spend, r) = Mod(h + to.spend)
    BY <1>4 DEF Recover, h
  <1>8. h + to.spend \in Int
    BY <1>2, <1>5
  <1>9. Mod(h + to.spend) \in Scalars
    BY <1>8, ModIs
  <1>10. Destination(to, r).ephemeral = r
    BY <1>3 DEF Destination
  <1> QED  BY <1>6, <1>7, <1>9, <1>10 DEF ImageAt, ImageOf, r

\* A stealth output is found under the keys of the address it is to.
LEMMA FoundByReceiver ==
  ASSUME NEW k \in Places, NEW e, EntrySound(k, e), IsStealth(e), NEW w \in Wallets
  PROVE  /\ StealthKeys(w, e) = {n \in 1..Len(Keys[w]) : e.to = AddressOf(w, n)}
         /\ LegacyKeys(w, e) = {}
         /\ e.dest = KeyAt(k, e.to) /\ e.to \in Payees
  <1>1. /\ e.to \in Payees /\ e.legacy = NoKey
        /\ e.ephemeral = Random(k[1], k[2]) /\ e.dest = KeyAt(k, e.to)
    BY DEF EntrySound
  <1>2. e.ephemeral # NoPoint
    BY <1>1, PlacesAre, ScalarsAre
  <1>3. ASSUME NEW n \in 1..Len(Keys[w])
        PROVE  Recover(Keys[w][n].view, Keys[w][n].spend, e.ephemeral) = e.dest
                 <=> e.to = AddressOf(w, n)
    <2> DEFINE a == AddressOf(w, n)
    <2>1. a.view = Keys[w][n].view /\ a.spend = Keys[w][n].spend
      BY DEF AddressOf
    <2>2. a \in Held
      BY AddressesAre
    <2> HIDE DEF a
    <2>3. Recover(a.view, a.spend, e.ephemeral) = e.dest => a = e.to
      BY <1>1, <2>2, FreshAssumption
    <2>4. a = e.to => Recover(a.view, a.spend, e.ephemeral) = e.dest
      BY <1>1, KeyAtIs
    <2> QED  BY <2>1, <2>3, <2>4 DEF a
  <1>4. StealthKeys(w, e) = {n \in 1..Len(Keys[w]) : e.to = AddressOf(w, n)}
    BY <1>2, <1>3 DEF StealthKeys
  <1>5. LegacyKeys(w, e) = {}
    BY <1>1 DEF LegacyKeys
  <1> QED  BY <1>1, <1>4, <1>5

\* The key a wallet spends its stealth output with is the output's.
LEMMA OneTimeKeyIs ==
  ASSUME NEW w \in Wallets, NEW e, StealthKeys(w, e) # {}
  PROVE  OneTimeKey(w, e) = e.dest
  <1> DEFINE S == StealthKeys(w, e)
  <1>1. /\ S \in SUBSET Nat /\ S # {}
        /\ \A n \in S : Recover(Keys[w][n].view, Keys[w][n].spend, e.ephemeral) = e.dest
    <2>1. Len(Keys[w]) \in Nat
      BY WalletAssumption
    <2> QED  BY <2>1 DEF StealthKeys
  <1>2. PICK m \in S : \A n \in S : m <= n
    BY <1>1, LeastNatural
  <1>3. Min(S) \in S
    <2>1. \E x \in S : \A y \in S : x =< y
      BY <1>2
    <2> QED  BY <2>1 DEF Min
  <1> QED  BY <1>1, <1>3 DEF OneTimeKey

-----------------------------------------------------------------------------
(* Sums.                                                                   *)

\* The sum depends on what is summed only.
LEMMA SumAlike ==
  ASSUME NEW S, IsFiniteSet(S), NEW f, NEW g, \A x \in S : f[x] \in Nat /\ g[x] = f[x]
  PROVE  SumFunctionOnSet(f, S) = SumFunctionOnSet(g, S)
  <1>1. PICK F : SumsChosen(S, f, F) /\ SumFunctionOnSet(f, S) = F[S]
    BY SumByChoice
  <1>2. PICK G : SumsChosen(S, g, G) /\ SumFunctionOnSet(g, S) = G[S]
    BY SumByChoice
  <1> DEFINE T == {x \in SUBSET S : F[x] = G[x]}
  <1>3. {} \in T
    BY <1>1, <1>2 DEF SumsChosen
  <1>4. ASSUME NEW x \in SUBSET S, x # {}, \A e \in x : x \ {e} \in T  PROVE  x \in T
    <2> DEFINE c == CHOOSE e \in x : TRUE
    <2>1. c \in x /\ c \in S /\ x \ {c} \in T
      BY <1>4
    <2>2. F[x] = f[c] + F[x \ {c}] /\ G[x] = g[c] + G[x \ {c}]
      BY <1>1, <1>2, <1>4 DEF SumsChosen
    <2> QED  BY <2>1, <2>2
  <1> HIDE DEF T
  <1>5. Inductive(S, T)
    BY <1>3, <1>4 DEF Inductive
  <1>6. S \in T
    BY <1>5, SubsetInduction
  <1> QED  BY <1>1, <1>2, <1>6 DEF T

-----------------------------------------------------------------------------
(* Money.                                                                  *)

\* Money in outputs that have amounts is a number, and adds up.
LEMMA MoneyIs ==
  ASSUME NEW u, NEW S, IsFiniteSet(S), S \subseteq DOMAIN u, \A k \in S : u[k].amount \in Nat
  PROVE  /\ Money(u, S) \in Nat
         /\ \A A, B : A \cap B = {} /\ S = A \cup B => Money(u, S) = Money(u, A) + Money(u, B)
         /\ \A A \in SUBSET S : Money(u, A) \in Nat /\ Money(u, A) <= Money(u, S)
         /\ \A k \in S : Money(u, S) = u[k].amount + Money(u, S \ {k})
  <1> DEFINE f == [k \in DOMAIN u |-> u[k].amount]
  <1>1. \A k \in S : f[k] \in Nat /\ f[k] = u[k].amount
    OBVIOUS
  <1>2. \A A : Money(u, A) = SumFunctionOnSet(f, A)
    BY DEF Money
  <1> HIDE DEF f
  <1>3. ASSUME NEW A, NEW B, A \cap B = {}, S = A \cup B
        PROVE  Money(u, S) = Money(u, A) + Money(u, B)
    <2>1. IsFiniteSet(A) /\ IsFiniteSet(B) /\ A \subseteq S /\ B \subseteq S
      BY <1>3, FS_Subset
    <2> QED  BY <1>1, <1>2, <1>3, <2>1, SumUnion
  <1>4. \A A \in SUBSET S : IsFiniteSet(A) /\ Money(u, A) \in Nat
    <2> SUFFICES ASSUME NEW A \in SUBSET S  PROVE  IsFiniteSet(A) /\ Money(u, A) \in Nat
      OBVIOUS
    <2>1. IsFiniteSet(A)
      BY FS_Subset
    <2> QED  BY <1>1, <1>2, <2>1, SumType
  <1>5. ASSUME NEW A \in SUBSET S  PROVE  Money(u, A) <= Money(u, S)
    <2>1. A \cap (S \ A) = {} /\ S = A \cup (S \ A) /\ S \ A \in SUBSET S
      OBVIOUS
    <2>2. Money(u, S) = Money(u, A) + Money(u, S \ A)
      BY <1>3, <2>1
    <2>3. Money(u, A) \in Nat /\ Money(u, S \ A) \in Nat
      BY <1>4, <2>1
    <2> QED  BY <2>2, <2>3
  <1>6. ASSUME NEW k \in S  PROVE  Money(u, S) = u[k].amount + Money(u, S \ {k})
    BY <1>1, <1>2, SumRemove
  <1> QED  BY <1>3, <1>4, <1>5, <1>6

\* It is as much in a ledger with the same outputs.
LEMMA MoneyAlike ==
  ASSUME NEW u, NEW v, NEW S, IsFiniteSet(S), S \subseteq DOMAIN u, S \subseteq DOMAIN v,
         \A k \in S : u[k].amount \in Nat /\ u[k].amount = v[k].amount
  PROVE  Money(u, S) = Money(v, S)
  <1> DEFINE f == [k \in DOMAIN u |-> u[k].amount]
             g == [k \in DOMAIN v |-> v[k].amount]
  <1>1. \A k \in S : f[k] \in Nat /\ g[k] = f[k]
    OBVIOUS
  <1> HIDE DEF f, g
  <1>2. SumFunctionOnSet(f, S) = SumFunctionOnSet(g, S)
    BY <1>1, SumAlike
  <1> QED  BY <1>2 DEF Money, f, g

\* No outputs, no money.
LEMMA MoneyNone ==
  ASSUME NEW u
  PROVE  Money(u, {}) = 0
  BY SumEmpty DEF Money

\* What a transaction pays is the amount and, with two outputs, what comes back.
LEMMA PaidIs ==
  ASSUME NEW t, Len(t.outputs) \in {1, 2}, DOMAIN t.outputs = 1..Len(t.outputs),
         \A n \in 1..Len(t.outputs) : t.outputs[n].amount \in Nat
  PROVE  /\ Paid(t) \in Nat
         /\ Paid(t) = t.outputs[1].amount
                        + (IF Len(t.outputs) = 2 THEN t.outputs[2].amount ELSE 0)
         /\ \A n \in 1..Len(t.outputs) : t.outputs[n].amount <= Paid(t)
  <1> DEFINE f == [n \in DOMAIN t.outputs |-> t.outputs[n].amount]
             D == DOMAIN t.outputs
  <1>1. \A n \in D : f[n] \in Nat /\ f[n] = t.outputs[n].amount
    OBVIOUS
  <1>2. Paid(t) = SumFunctionOnSet(f, D)
    BY DEF Paid
  <1>3. D = {1} \/ D = {1, 2}
    OBVIOUS
  <1> HIDE DEF f
  <1>4. IsFiniteSet(D)
    <2>1. Len(t.outputs) \in Int /\ D = 1..Len(t.outputs)
      OBVIOUS
    <2> QED  BY <2>1, FS_Interval
  <1>5. ASSUME NEW n \in D  PROVE  SumFunctionOnSet(f, {n}) = f[n]
    <2>1. IsFiniteSet({n})
      BY <1>4, FS_Subset
    <2>2. SumFunctionOnSet(f, {n}) = f[n] + SumFunctionOnSet(f, {n} \ {n})
      BY <1>1, <2>1, SumRemove
    <2>3. {n} \ {n} = {}
      OBVIOUS
    <2>4. SumFunctionOnSet(f, {n} \ {n}) = 0
      BY <2>3, SumEmpty
    <2>5. f[n] \in Nat
      BY <1>1
    <2> QED  BY <2>2, <2>4, <2>5
  <1>6. D = {1, 2} => SumFunctionOnSet(f, D) = f[1] + f[2]
    <2> SUFFICES ASSUME D = {1, 2}  PROVE  SumFunctionOnSet(f, D) = f[1] + f[2]
      OBVIOUS
    <2>1. SumFunctionOnSet(f, D) = f[1] + SumFunctionOnSet(f, D \ {1})
      BY <1>1, <1>4, SumRemove
    <2>2. D \ {1} = {2}
      OBVIOUS
    <2> QED  BY <1>5, <2>1, <2>2
  <1>7. CASE D = {1}
    <2>1. Len(t.outputs) = 1
      BY <1>7
    <2>2. Paid(t) = t.outputs[1].amount /\ t.outputs[1].amount \in Nat
      BY <1>1, <1>2, <1>5, <1>7
    <2> QED  BY <2>1, <2>2
  <1>8. CASE D = {1, 2}
    <2>1. Len(t.outputs) = 2
      BY <1>8
    <2>2. /\ Paid(t) = t.outputs[1].amount + t.outputs[2].amount
          /\ t.outputs[1].amount \in Nat /\ t.outputs[2].amount \in Nat
      BY <1>1, <1>2, <1>6, <1>8
    <2> QED  BY <2>1, <2>2
  <1> QED  BY <1>3, <1>7, <1>8

-----------------------------------------------------------------------------
(* What steps leave as it was.                                             *)

\* The keys in the ring of a transaction over a ledger.
RingOf(ledger, t) ==
  Transposed([j \in 1..Len(t.members) |->
                [n \in 1..Len(t.members[j]) |-> ledger[t.members[j][n]].dest]])

\* It is the same over ledgers that agree on its members.
LEMMA RingKept ==
  ASSUME NEW u, NEW v, NEW t, NEW S,
         \A j \in 1..Len(t.members) : t.members[j] \in Seq(S),
         \A j \in 1..Len(t.members) : \A k \in Range(t.members[j]) : u[k] = v[k]
  PROVE  RingOf(u, t) = RingOf(v, t)
  <1> DEFINE row(w, j) == [n \in 1..Len(t.members[j]) |-> w[t.members[j][n]].dest]
             rows(w) == [j \in 1..Len(t.members) |-> row(w, j)]
  <1>1. ASSUME NEW j \in 1..Len(t.members)  PROVE  row(u, j) = row(v, j)
    <2>1. ASSUME NEW n \in 1..Len(t.members[j])  PROVE  u[t.members[j][n]] = v[t.members[j][n]]
      <3>1. t.members[j][n] \in Range(t.members[j])
        BY DEF Range
      <3> QED  BY <3>1
    <2> QED  BY <2>1
  <1> HIDE DEF row
  <1>2. rows(u) = rows(v)
    BY <1>1
  <1>3. Transposed(rows(u)) = Transposed(rows(v))
    <2> HIDE DEF rows
    <2> QED  BY <1>2
  <1> QED  BY <1>3 DEF RingOf, row

\* A signature is over the ring that the ledger gives.
LEMMA SignatureOver ==
  ASSUME NEW t
  PROVE  /\ SignatureHolds(t) = VerifySignature(t.sig, RingOf(utxos, t), Message(t.inputs, t.outputs, t.size))
         /\ SignatureHolds(t)' = VerifySignature(t.sig, RingOf(utxos', t), Message(t.inputs, t.outputs, t.size))
  BY DEF SignatureHolds, RingOf, RingKeys

\* Outputs only go, or come at places that none has been at before.
OnlyFresh ==
  /\ Past \subseteq Past' /\ built \in Int /\ built' \in Int /\ built <= built'
  /\ \A k \in Past : k \in DOMAIN utxos' => k \in DOMAIN utxos /\ utxos'[k] = utxos[k]

\* Then what is pending stays sound.
LEMMA PendingKept ==
  ASSUME LedgerSound, OnlyFresh, NEW t, PendingSound(t)
  PROVE  PendingSound(t)'
  <1> DEFINE L == Len(t.inputs)
  <1>1. InputsSound(t) /\ OutputsSound(t)
    BY DEF PendingSound
  <1>2. \A k \in Past : k \in DOMAIN utxos' => k \in DOMAIN utxos /\ utxos'[k] = utxos[k]
    BY DEF OnlyFresh
  <1>3. \A j \in 1..L : t.inputs[j] \in Past
    BY <1>1 DEF InputsSound
  <1>4. InputsSound(t)'
    <2>1. t.inputs \in [1..L -> Past']
      BY <1>1 DEF InputsSound, OnlyFresh
    <2>2. ASSUME NEW j \in 1..L
          PROVE  /\ t.inputs[j] \in Range(t.members[j]) /\ t.members[j] \in Seq(Past')
                 /\ \E a \in Held : t.images[j] = ImageAt(t.inputs[j], a)
      <3>1. t.members[j] \in Seq(Past) /\ Past \subseteq Past'
        BY <1>1 DEF InputsSound, OnlyFresh
      <3>2. t.members[j] \in Seq(Past')
        BY <3>1
      <3> QED  BY <1>1, <3>2 DEF InputsSound
    <2>3. ASSUME NEW j \in 1..L, t.inputs[j] \in DOMAIN utxos'
          PROVE  /\ IsStealth(utxos'[t.inputs[j]])
                 /\ t.images[j] = ImageAt(t.inputs[j], utxos'[t.inputs[j]].to)
                 /\ \E n \in 1..Len(Keys[t.from]) :
                      utxos'[t.inputs[j]].to = AddressOf(t.from, n)
      <3>1. t.inputs[j] \in DOMAIN utxos /\ utxos'[t.inputs[j]] = utxos[t.inputs[j]]
        BY <1>2, <1>3, <2>3
      <3> QED  BY <1>1, <3>1 DEF InputsSound
    <2> QED  BY <1>1, <2>1, <2>2, <2>3 DEF InputsSound
  <1>5. OutputsSound(t)'
    <2>1. ASSUME Range(t.inputs) \subseteq DOMAIN utxos'
          PROVE  Money(utxos', Range(t.inputs)) = Paid(t)
      <3>1. \A k \in Range(t.inputs) : k \in Past
        BY <1>1 DEF InputsSound, Range
      <3>2. \A k \in Range(t.inputs) : k \in DOMAIN utxos /\ utxos'[k] = utxos[k]
        BY <1>2, <2>1, <3>1
      <3>3. \A k \in Range(t.inputs) : utxos[k].amount \in Nat
        BY <3>2 DEF LedgerSound, EntrySound
      <3>4. Range(t.inputs) \subseteq DOMAIN utxos
        BY <3>2
      <3>5. IsFiniteSet(Range(t.inputs))
        BY <3>4, FS_Subset DEF LedgerSound
      <3>6. Money(utxos, Range(t.inputs)) = Money(utxos', Range(t.inputs))
        BY <2>1, <3>2, <3>3, <3>4, <3>5, MoneyAlike
      <3> QED  BY <1>1, <3>4, <3>6 DEF OutputsSound
    <2>2. Money(utxos, Range(t.inputs))' = Money(utxos', Range(t.inputs))
      BY DEF Money
    <2> QED  BY <1>1, <2>1, <2>2 DEF OutputsSound, Paid
  <1>6. ASSUME RingIntact(t)'  PROVE  SignatureHolds(t)' <=> Len(t.members[1]) >= 2
    <2>1. \A j \in 1..Len(t.members) : t.members[j] \in Seq(Past)
      BY <1>1 DEF InputsSound
    <2>2. ASSUME NEW j \in 1..Len(t.members), NEW k \in Range(t.members[j])
          PROVE  k \in DOMAIN utxos /\ utxos'[k] = utxos[k] /\ IsStealth(utxos[k])
      <3>1. k \in Past
        BY <2>1 DEF Range
      <3>2. k \in DOMAIN utxos' /\ IsStealth(utxos'[k])
        BY <1>6 DEF RingIntact, StealthSet
      <3>3. k \in DOMAIN utxos /\ utxos'[k] = utxos[k]
        BY <1>2, <3>1, <3>2
      <3> QED  BY <3>2, <3>3
    <2>3. RingIntact(t)
      BY <2>2 DEF RingIntact, StealthSet
    <2>4. RingOf(utxos, t) = RingOf(utxos', t)
      <3>1. \A j \in 1..Len(t.members) : \A k \in Range(t.members[j]) : utxos[k] = utxos'[k]
        BY <2>2
      <3> QED  BY <2>1, <3>1, RingKept
    <2> QED  BY <2>3, <2>4, SignatureOver DEF PendingSound
  <1> QED  BY <1>4, <1>5, <1>6 DEF PendingSound

-----------------------------------------------------------------------------
(* The invariant, step by step.                                            *)

\* The entry of an output that was derived for its place.
LEMMA NewEntry ==
  ASSUME NEW k \in Places, NEW v \in Nat, NEW to \in Payees, NEW e,
         e = EntryOf(StealthOutput(v, to, Random(k[1], k[2])))
  PROVE  EntrySound(k, e) /\ IsStealth(e) /\ e.to = to /\ e.amount = v
  <1> DEFINE r == Random(k[1], k[2])
  <1>1. /\ e.amount = v /\ e.to = to /\ e.legacy = NoKey
        /\ e.ephemeral = Destination(to, r).ephemeral /\ e.dest = Destination(to, r).dest
    <2> HIDE DEF r
    <2> QED  BY DEF EntryOf, StealthOutput, r
  <1>2. e.ephemeral = r /\ e.dest = KeyAt(k, to) /\ KeyAt(k, to) \in Scalars
    BY <1>1, KeyAtIs DEF KeyAt
  <1>3. e.dest # NoPoint
    BY <1>2, ScalarsAre
  <1> QED  BY <1>1, <1>2, <1>3 DEF EntrySound, IsStealth

\* It holds in every ledger there may be before.
LEMMA WInvInit ==
  ASSUME Init  PROVE  WInv
  <1>1. PICK seed \in Seeds : utxos = [k \in SeedKeys(seed) |-> SeedEntry(seed[k[2]], k[2])]
    BY DEF Init
  <1>2. images = {} /\ sent = {} /\ built = 0
    BY DEF Init
  <1> DEFINE D == SeedKeys(seed)
  <1>3. Len(seed) \in Nat /\ \A n \in 1..Len(seed) : seed[n].amount \in Nat
    BY WalletAssumption
  <1>4. IsFiniteSet(D)
    <2> DEFINE f == [n \in 1..Len(seed) |-> <<0, n>>]
    <2>1. f \in Surjection(1..Len(seed), D)
      BY DEF SeedKeys, Surjection
    <2>2. 1 \in Int /\ Len(seed) \in Int
      BY <1>3
    <2>3. IsFiniteSet(1..Len(seed))
      BY <2>2, FS_Interval
    <2> HIDE DEF f
    <2> QED  BY <2>1, <2>3, FS_Surjection
  <1>5. ASSUME NEW k \in D
        PROVE  /\ k \in Past /\ k[2] \in 1..Len(seed) /\ EntrySound(k, utxos[k])
               /\ utxos[k].amount = seed[k[2]].amount
    <2>1. PICK n \in 1..Len(seed) : k = <<0, n>>
      BY DEF SeedKeys
    <2>2. k[1] = 0 /\ k[2] = n
      BY <2>1
    <2>3. k \in Places
      BY DEF Places
    <2>4. k \in Past
      BY <1>2, <2>2, <2>3 DEF Past
    <2>5. utxos[k] = SeedEntry(seed[n], n)
      BY <1>1, <2>2
    <2>6. CASE seed[n].legacy # NoKey
      <3>1. utxos[k].amount = seed[n].amount /\ utxos[k].dest = NoPoint
        BY <2>5, <2>6 DEF SeedEntry, LegacyEntry
      <3>2. EntrySound(k, utxos[k])
        BY <1>3, <3>1 DEF EntrySound, IsStealth
      <3> QED  BY <2>2, <2>4, <3>1, <3>2
    <2>7. CASE seed[n].legacy = NoKey
      <3>1. utxos[k] = EntryOf(StealthOutput(seed[n].amount, seed[n].to, Random(k[1], k[2])))
        BY <2>2, <2>5, <2>7 DEF SeedEntry
      <3>2. seed[n].to \in Payees /\ seed[n].amount \in Nat
        BY <1>3, <2>7 DEF Payees
      <3>3. EntrySound(k, utxos[k]) /\ utxos[k].amount = seed[n].amount
        BY <2>3, <3>1, <3>2, NewEntry
      <3> QED  BY <2>2, <2>4, <3>3
    <2> QED  BY <2>6, <2>7
  <1>6. DOMAIN utxos = D
    BY <1>1
  <1>7. Money(utxos, D) < Q
    <2> DEFINE f == [k \in DOMAIN utxos |-> utxos[k].amount]
               g == [k \in SeedKeys(seed) |-> seed[k[2]].amount]
    <2>1. \A k \in D : g[k] \in Nat /\ f[k] = g[k]
      BY <1>3, <1>5, <1>6
    <2>2. SumFunctionOnSet(g, SeedKeys(seed)) < Q
      BY WalletAssumption
    <2> HIDE DEF f, g
    <2>3. SumFunctionOnSet(g, D) = SumFunctionOnSet(f, D)
      BY <1>4, <2>1, SumAlike
    <2> QED  BY <2>2, <2>3 DEF Money, f
  <1>8. LedgerSound
    BY <1>4, <1>5, <1>6, <1>7 DEF LedgerSound
  <1>9. built \in 0..MaxPayments
    BY <1>2, WalletAssumption
  <1> QED  BY <1>2, <1>8, <1>9 DEF WInv, ImagesSound

\* A transaction that leaves the pending ones adds its outputs to the past at most.
LEMMA PastGrows ==
  ASSUME WInv, NEW tx \in sent, sent' = sent \ {tx}, built' = built
  PROVE  /\ Past \subseteq Past'
         /\ \A n \in 1..Len(tx.outputs) :
              <<tx.id, n>> \in Places /\ <<tx.id, n>> \in Past' /\ <<tx.id, n>> \notin Past
  <1>1. Past \subseteq Past'
    BY DEF Past
  <1>2. ASSUME NEW n \in 1..Len(tx.outputs)
        PROVE  <<tx.id, n>> \in Places /\ <<tx.id, n>> \in Past' /\ <<tx.id, n>> \notin Past
    <2> DEFINE k == <<tx.id, n>>
    <2>1. /\ tx.id \in 1..built /\ built \in 0..MaxPayments /\ MaxPayments \in Nat
          /\ Len(tx.outputs) \in {1, 2}
      BY WalletAssumption DEF WInv, PendingSound, OutputsSound
    <2>2. k[1] = tx.id /\ k \in Places /\ tx.id \in 0..built
      <3>1. n \in {1, 2} /\ tx.id \in 1..MaxPayments /\ tx.id \in 0..built
        <4>1. \A m \in {1, 2} : \A i \in 1..m : i \in {1, 2}
          OBVIOUS
        <4>2. n \in {1, 2}
          BY <2>1, <4>1
        <4>3. \A i, b, m \in Int : i \in 1..b /\ b \in 0..m => i \in 1..m /\ i \in 0..b
          OBVIOUS
        <4>4. tx.id \in Int /\ built \in Int /\ MaxPayments \in Int
          BY <2>1
        <4> QED  BY <2>1, <4>2, <4>3, <4>4
      <3> QED  BY <3>1 DEF Places
    <2>3. \A t \in sent' : t.id # tx.id
      BY DEF WInv, PairSound
    <2> QED  BY <2>2, <2>3 DEF Past
  <1> QED  BY <1>1, <1>2

\* A refused transaction leaves the ledger as it was.
LEMMA WInvRefuse ==
  ASSUME WInv, NEW tx \in sent, Refuse(tx)  PROVE  WInv'
  <1>1. sent' = sent \ {tx} /\ utxos' = utxos /\ images' = images /\ built' = built
    BY DEF Refuse
  <1>2. LedgerSound /\ built \in 0..MaxPayments /\ MaxPayments \in Nat /\ ImagesSound
    BY WalletAssumption DEF WInv
  <1>3. Past \subseteq Past'
    BY <1>1, PastGrows
  <1>4. OnlyFresh
    BY <1>1, <1>2, <1>3 DEF OnlyFresh
  <1>5. \A t \in sent' : PendingSound(t)'
    BY <1>1, <1>2, <1>4, PendingKept DEF WInv
  <1>6. LedgerSound'
    <2>1. Money(utxos, DOMAIN utxos)' = Money(utxos, DOMAIN utxos)
      BY <1>1 DEF Money
    <2> QED  BY <1>1, <1>2, <1>3, <2>1 DEF LedgerSound
  <1>7. ImagesSound'
    BY <1>1, <1>2, <1>3 DEF ImagesSound
  <1>8. \A t, u \in sent' : PairSound(t, u) /\ t.id \in 1..built'
    BY <1>1 DEF WInv
  <1> QED  BY <1>1, <1>2, <1>5, <1>6, <1>7, <1>8 DEF WInv

\* What the outputs of a transaction come to in the ledger.
LEMMA NewMoney ==
  ASSUME NEW u, NEW t, Len(t.outputs) \in {1, 2}, DOMAIN t.outputs = 1..Len(t.outputs),
         \A n \in 1..Len(t.outputs) :
           /\ t.outputs[n].amount \in Nat
           /\ <<t.id, n>> \in DOMAIN u /\ u[<<t.id, n>>].amount = t.outputs[n].amount
  PROVE  LET new == {<<t.id, n>> : n \in 1..Len(t.outputs)}
         IN  IsFiniteSet(new) /\ Money(u, new) = Paid(t)
  <1> DEFINE new == {<<t.id, n>> : n \in 1..Len(t.outputs)}
             a == <<t.id, 1>>
             b == <<t.id, 2>>
  <1>1. IsFiniteSet(new)
    <2> DEFINE f == [n \in 1..Len(t.outputs) |-> <<t.id, n>>]
    <2>1. f \in Surjection(1..Len(t.outputs), new)
      BY DEF Surjection
    <2>2. IsFiniteSet(1..Len(t.outputs))
      <3>1. 1 \in Int /\ Len(t.outputs) \in Int
        OBVIOUS
      <3> QED  BY <3>1, FS_Interval
    <2> HIDE DEF f
    <2> QED  BY <2>1, <2>2, FS_Surjection
  <1>2. \A k \in new : k \in DOMAIN u /\ u[k].amount \in Nat
    OBVIOUS
  <1>3. Paid(t) = t.outputs[1].amount + (IF Len(t.outputs) = 2 THEN t.outputs[2].amount ELSE 0)
    <2>1. \A n \in 1..Len(t.outputs) : t.outputs[n].amount \in Nat
      OBVIOUS
    <2> QED  BY <2>1, PaidIs
  <1>4. a \in new /\ u[a].amount = t.outputs[1].amount /\ t.outputs[1].amount \in Nat
    <2>1. 1 \in 1..Len(t.outputs)
      <3>1. \A m \in {1, 2} : 1 \in 1..m
        OBVIOUS
      <3> QED  BY <3>1
    <2> QED  BY <2>1
  <1>5. Money(u, new) = u[a].amount + Money(u, new \ {a})
    <2>1. new \subseteq DOMAIN u
      BY <1>2
    <2> HIDE DEF new, a
    <2> QED  BY <1>1, <1>2, <1>4, <2>1, MoneyIs
  <1>6. CASE Len(t.outputs) = 1
    <2>1. new \ {a} = {}
      BY <1>6
    <2> HIDE DEF new, a
    <2>2. Money(u, new) = u[a].amount + 0
      BY <1>5, <2>1, MoneyNone
    <2>3. Money(u, new) = Paid(t)
      BY <1>3, <1>4, <1>6, <2>2
    <2> QED  BY <1>1, <2>3 DEF new
  <1>7. CASE Len(t.outputs) = 2
    <2>1. b \in new /\ u[b].amount = t.outputs[2].amount /\ t.outputs[2].amount \in Nat
      <3>1. 2 \in 1..Len(t.outputs)
        BY <1>7
      <3> QED  BY <3>1
    <2>2. new \ {a} = {b}
      <3>1. 1..Len(t.outputs) = {1, 2} /\ a # b
        BY <1>7
      <3>2. new = {a, b}
        BY <3>1
      <3> QED  BY <3>1, <3>2
    <2>3. Money(u, {b}) = u[b].amount + Money(u, {b} \ {b})
      <3>1. IsFiniteSet({b}) /\ {b} \subseteq DOMAIN u /\ b \in {b}
        BY <1>1, <1>2, <2>1, FS_Subset
      <3>2. \A k \in {b} : u[k].amount \in Nat
        BY <1>2, <2>1
      <3> HIDE DEF b
      <3> QED  BY <3>1, <3>2, MoneyIs
    <2>4. Money(u, {b} \ {b}) = 0
      <3>1. {b} \ {b} = {}
        OBVIOUS
      <3> QED  BY <3>1, MoneyNone
    <2>5. Money(u, new) = t.outputs[1].amount + t.outputs[2].amount
      <3> HIDE DEF new, a, b
      <3>1. Money(u, new \ {a}) = t.outputs[2].amount
        <4> DEFINE m == Money(u, {b})
                   z == Money(u, {b} \ {b})
        <4>1. m = u[b].amount + z /\ z = 0
          BY <2>3, <2>4
        <4>2. Money(u, new \ {a}) = m
          BY <2>2
        <4> HIDE DEF m, z
        <4> QED  BY <2>1, <4>1, <4>2
      <3> QED  BY <1>4, <1>5, <3>1
    <2> HIDE DEF new
    <2>6. Money(u, new) = Paid(t)
      BY <1>3, <1>7, <2>5
    <2> QED  BY <1>1, <2>6 DEF new
  <1> QED  BY <1>6, <1>7

\* What confirming a transaction does to the ledger.
LEMMA ConfirmLedger ==
  ASSUME WInv, NEW tx \in sent, Confirm(tx)
  PROVE  LET gone == Range(tx.inputs)
             new  == {<<tx.id, n>> : n \in 1..Len(tx.outputs)}
         IN  /\ DOMAIN utxos' = (DOMAIN utxos \ gone) \cup new
             /\ gone \subseteq DOMAIN utxos /\ new \cap Past = {} /\ new \subseteq Past'
             /\ IsFiniteSet(new) /\ IsFiniteSet(gone)
             /\ \A k \in DOMAIN utxos \ gone : utxos'[k] = utxos[k]
             /\ \A n \in 1..Len(tx.outputs) :
                  LET k == <<tx.id, n>>
                  IN  /\ utxos'[k] = EntryOf(tx.outputs[n]) /\ EntrySound(k, utxos'[k])
                      /\ utxos'[k].amount = tx.outputs[n].amount
                      /\ utxos'[k].to = tx.outputs[n].to /\ IsStealth(utxos'[k])
             /\ Money(utxos', new) = Paid(tx) /\ Money(utxos, gone) = Paid(tx)
             /\ OnlyFresh
  <1> DEFINE gone == Range(tx.inputs)
             new  == {<<tx.id, n>> : n \in 1..Len(tx.outputs)}
  <1>1. /\ utxos' = [k \in (DOMAIN utxos \ gone) \cup new |->
                       IF k \in new THEN EntryOf(tx.outputs[k[2]]) ELSE utxos[k]]
        /\ images' = images \cup Range(tx.images) /\ sent' = sent \ {tx} /\ built' = built
        /\ Accepts(tx)
    BY DEF Confirm
  <1>2. InputsSound(tx) /\ OutputsSound(tx) /\ LedgerSound
    BY DEF WInv, PendingSound
  <1>3. gone \subseteq DOMAIN utxos
    <2>1. \A j \in 1..Len(tx.inputs) : tx.inputs[j] \in DOMAIN utxos
      BY <1>1 DEF Accepts
    <2>2. DOMAIN tx.inputs = 1..Len(tx.inputs)
      BY <1>2 DEF InputsSound
    <2> QED  BY <2>1, <2>2 DEF Range
  <1>4. Past \subseteq Past' /\ new \cap Past = {} /\ new \subseteq Past'
    BY <1>1, PastGrows
  <1>5. DOMAIN utxos \subseteq Past /\ IsFiniteSet(gone)
    BY <1>2, <1>3, FS_Subset DEF LedgerSound
  <1>6. \A k \in DOMAIN utxos \ gone : k \in DOMAIN utxos' /\ utxos'[k] = utxos[k]
    BY <1>1, <1>4, <1>5
  <1>7. ASSUME NEW n \in 1..Len(tx.outputs)
        PROVE  LET k == <<tx.id, n>>
               IN  /\ utxos'[k] = EntryOf(tx.outputs[n]) /\ EntrySound(k, utxos'[k])
                   /\ utxos'[k].amount = tx.outputs[n].amount /\ k \in DOMAIN utxos'
                   /\ utxos'[k].to = tx.outputs[n].to /\ IsStealth(utxos'[k])
    <2> DEFINE k == <<tx.id, n>>
               o == tx.outputs[n]
    <2>1. k \in new /\ k[1] = tx.id /\ k[2] = n /\ k \in Places
      BY <1>1, PastGrows
    <2>2. utxos'[k] = EntryOf(o) /\ k \in DOMAIN utxos'
      BY <1>1, <2>1
    <2>3. /\ o.amount \in Nat /\ o.to \in Payees
          /\ o = StealthOutput(o.amount, o.to, Random(k[1], k[2]))
      BY <1>2, <2>1 DEF OutputsSound
    <2>4. utxos'[k] = EntryOf(StealthOutput(o.amount, o.to, Random(k[1], k[2])))
      BY <2>2, <2>3
    <2> HIDE DEF k, o
    <2>5. EntrySound(k, utxos'[k]) /\ IsStealth(utxos'[k]) /\ utxos'[k].to = o.to
          /\ utxos'[k].amount = o.amount
      BY <2>1, <2>3, <2>4, NewEntry
    <2> QED  BY <2>2, <2>5 DEF k, o
  <1>8. IsFiniteSet(new) /\ Money(utxos', new) = Paid(tx)
    <2>1. /\ Len(tx.outputs) \in {1, 2} /\ DOMAIN tx.outputs = 1..Len(tx.outputs)
          /\ \A n \in 1..Len(tx.outputs) : tx.outputs[n].amount \in Nat
      BY <1>2 DEF OutputsSound
    <2>2. \A n \in 1..Len(tx.outputs) :
            <<tx.id, n>> \in DOMAIN utxos' /\ utxos'[<<tx.id, n>>].amount = tx.outputs[n].amount
      BY <1>7
    <2> QED  BY <2>1, <2>2, NewMoney
  <1>9. Money(utxos, gone) = Paid(tx)
    BY <1>2, <1>3 DEF OutputsSound
  <1>10. OnlyFresh
    <2>1. built \in Int /\ built <= built'
      BY <1>1, WalletAssumption DEF WInv
    <2> QED  BY <1>1, <1>4, <1>6, <2>1 DEF OnlyFresh
  <1>11. DOMAIN utxos' = (DOMAIN utxos \ gone) \cup new
    BY <1>1
  <1> HIDE DEF gone, new
  <1>12. \A n \in 1..Len(tx.outputs) :
           LET k == <<tx.id, n>>
           IN  /\ utxos'[k] = EntryOf(tx.outputs[n]) /\ EntrySound(k, utxos'[k])
               /\ utxos'[k].amount = tx.outputs[n].amount
               /\ utxos'[k].to = tx.outputs[n].to /\ IsStealth(utxos'[k])
    BY <1>7
  <1> QED  BY <1>3, <1>4, <1>5, <1>6, <1>8, <1>9, <1>10, <1>11, <1>12 DEF gone, new

\* A confirmed one replaces its inputs by its outputs, of the same money, and marks
\* their images.
LEMMA WInvConfirm ==
  ASSUME WInv, NEW tx \in sent, Confirm(tx)  PROVE  WInv'
  <1> DEFINE D == DOMAIN utxos
             gone == Range(tx.inputs)
             new  == {<<tx.id, n>> : n \in 1..Len(tx.outputs)}
  <1>1. /\ DOMAIN utxos' = (D \ gone) \cup new
        /\ gone \subseteq D /\ new \cap Past = {} /\ new \subseteq Past'
        /\ IsFiniteSet(new) /\ IsFiniteSet(gone)
        /\ \A k \in D \ gone : utxos'[k] = utxos[k]
        /\ Money(utxos', new) = Paid(tx) /\ Money(utxos, gone) = Paid(tx)
        /\ OnlyFresh
    BY ConfirmLedger
  <1>2. \A n \in 1..Len(tx.outputs) : EntrySound(<<tx.id, n>>, utxos'[<<tx.id, n>>])
    BY ConfirmLedger
  <1>3. \A k \in new : EntrySound(k, utxos'[k])
    BY <1>2
  <1> HIDE DEF gone, new
  <1>4. images' = images \cup Range(tx.images) /\ sent' = sent \ {tx} /\ built' = built
    BY DEF Confirm
  <1>5. LedgerSound /\ built \in 0..MaxPayments /\ ImagesSound /\ InputsSound(tx)
    BY DEF WInv, PendingSound
  <1>6. /\ IsFiniteSet(D) /\ D \subseteq Past
        /\ \A k \in D : EntrySound(k, utxos[k]) /\ utxos[k].amount \in Nat
    BY <1>5 DEF LedgerSound, EntrySound
  <1>7. Past \subseteq Past'
    BY <1>1 DEF OnlyFresh
  <1>8. IsFiniteSet(D \ gone) /\ IsFiniteSet(DOMAIN utxos')
    <2>1. IsFiniteSet(D \ gone)
      BY <1>6, FS_Subset
    <2> QED  BY <1>1, <2>1, FS_Union
  <1>9. \A k \in DOMAIN utxos' : EntrySound(k, utxos'[k]) /\ utxos'[k].amount \in Nat
    BY <1>1, <1>3, <1>6 DEF EntrySound
  <1>10. Money(utxos', DOMAIN utxos') < Q
    <2>1. Money(utxos, D) = Money(utxos, D \ gone) + Money(utxos, gone)
      <3>1. (D \ gone) \cap gone = {} /\ D = (D \ gone) \cup gone
        BY <1>1
      <3> QED  BY <1>6, <3>1, MoneyIs
    <2>2. Money(utxos', DOMAIN utxos') = Money(utxos', D \ gone) + Money(utxos', new)
      <3>1. (D \ gone) \cap new = {}
        BY <1>1, <1>6
      <3> QED  BY <1>1, <1>8, <1>9, <3>1, MoneyIs
    <2>3. Money(utxos, D \ gone) = Money(utxos', D \ gone)
      <3>1. D \ gone \subseteq D /\ D \ gone \subseteq DOMAIN utxos'
        BY <1>1
      <3>2. \A k \in D \ gone : utxos[k].amount \in Nat /\ utxos[k].amount = utxos'[k].amount
        BY <1>1, <1>6
      <3> QED  BY <1>8, <3>1, <3>2, MoneyAlike
    <2>4. Money(utxos, D) < Q
      BY <1>5 DEF LedgerSound
    <2> QED  BY <1>1, <2>1, <2>2, <2>3, <2>4
  <1>11. LedgerSound'
    <2>1. Money(utxos, DOMAIN utxos)' = Money(utxos', DOMAIN utxos')
      BY DEF Money
    <2>2. DOMAIN utxos' \subseteq Past'
      BY <1>1, <1>6, <1>7
    <2> QED  BY <1>8, <1>9, <1>10, <2>1, <2>2 DEF LedgerSound
  <1>12. ImagesSound'
    <2>1. ASSUME NEW k \in Past, k \notin DOMAIN utxos \/ k \in gone
          PROVE  k \in Past' \ DOMAIN utxos'
      BY <1>1, <1>7, <2>1
    <2>2. ASSUME NEW x \in images  PROVE  \E k \in Past' \ DOMAIN utxos', a \in Held : x = ImageAt(k, a)
      BY <1>5, <2>1 DEF ImagesSound
    <2>3. ASSUME NEW x \in Range(tx.images)
          PROVE  \E k \in Past' \ DOMAIN utxos', a \in Held : x = ImageAt(k, a)
      <3>1. PICK j \in 1..Len(tx.inputs) : x = tx.images[j]
        BY <1>5 DEF InputsSound, Range
      <3>2. PICK a \in Held : x = ImageAt(tx.inputs[j], a)
        BY <1>5, <3>1 DEF InputsSound
      <3>3. tx.inputs[j] \in Past /\ tx.inputs[j] \in gone
        BY <1>5 DEF InputsSound, Range, gone
      <3> QED  BY <2>1, <3>2, <3>3
    <2> QED  BY <1>4, <2>2, <2>3 DEF ImagesSound
  <1>13. \A t \in sent' : PendingSound(t)'
    BY <1>1, <1>4, <1>5, PendingKept DEF WInv
  <1>14. \A t, u \in sent' : PairSound(t, u) /\ t.id \in 1..built'
    BY <1>4 DEF WInv
  <1>15. built' \in 0..MaxPayments
    BY <1>4, <1>5
  <1> QED  BY <1>11, <1>12, <1>13, <1>14, <1>15 DEF WInv

-----------------------------------------------------------------------------
(* Building a payment.                                                     *)

\* The sequences of a finite set list each element once.
LEMMA SequencesOf ==
  ASSUME NEW S, IsFiniteSet(S), NEW s \in SetToSeqs(S)
  PROVE  /\ Len(s) = Cardinality(S) /\ Cardinality(S) \in Nat
         /\ s \in [1..Len(s) -> S] /\ IsInjective(s) /\ Range(s) = S
  <1> DEFINE n == Cardinality(S)
  <1>1. n \in Nat
    BY FS_CardinalityType
  <1>2. s \in [1..n -> S] /\ \A i, j \in 1..n : i # j => s[i] # s[j]
    BY DEF SetToSeqs
  <1>3. Len(s) = n
    BY <1>1, <1>2
  <1>4. IsInjective(s)
    BY <1>2 DEF IsInjective
  <1>5. s \in Injection(1..n, S)
    BY <1>2, <1>4 DEF Injection
  <1>6. IsFiniteSet(1..n) /\ Cardinality(1..n) = n
    <2>1. 1 \in Int /\ n \in Int
      BY <1>1
    <2>2. IsFiniteSet(1..n) /\ Cardinality(1..n) = IF 1 > n THEN 0 ELSE n - 1 + 1
      BY <2>1, FS_Interval
    <2> QED  BY <1>1, <2>2
  <1>7. s \in Surjection(1..n, S)
    BY <1>5, <1>6, FS_Injection
  <1>8. Range(s) = S
    BY <1>2, <1>7 DEF Range, Surjection
  <1> QED  BY <1>1, <1>2, <1>3, <1>4, <1>8

\* The members of a ring are the output, at the real place, and the decoys.
LEMMA MembersAre ==
  ASSUME NEW own, NEW decoys, IsFiniteSet(decoys), NEW real \in 1..(Cardinality(decoys) + 1)
  PROVE  LET m == RingMembers(own, decoys, real)
         IN  /\ m \in [1..(Cardinality(decoys) + 1) -> decoys \cup {own}]
             /\ m[real] = own
  <1> DEFINE c == Cardinality(decoys)
             d == SetToSeq(decoys)
             front == SubSeq(d, 1, real - 1)
             back == SubSeq(d, real, Len(d))
  <1>1. c \in Nat /\ ExistsBijection(1..c, decoys)
    BY FS_CardinalityType
  <1>2. d \in [1..c -> decoys]
    <2>1. \E f \in [1..c -> decoys] : IsInjective(f)
      BY <1>1 DEF ExistsBijection, Bijection, Injection
    <2> HIDE DEF c
    <2> QED  BY <2>1 DEF SetToSeq, c
  <1>3. d \in Seq(decoys) /\ Len(d) = c
    BY <1>1, <1>2
  <1>4. RingMembers(own, decoys, real) = front \o <<own>> \o back
    <2>1. (IF real <= c THEN real ELSE c + 1) = real
      BY <1>1
    <2> QED  BY <2>1 DEF RingMembers, InsertAt
  <1> HIDE DEF d
  <1>5. front \in Seq(decoys) /\ Len(front) = real - 1
    BY <1>1, <1>3
  <1>6. back \in Seq(decoys) /\ Len(back) = c - real + 1
    BY <1>1, <1>3
  <1> HIDE DEF front, back
  <1> DEFINE m == front \o <<own>> \o back
             S == decoys \cup {own}
  <1>7. front \in Seq(S) /\ <<own>> \in Seq(S) /\ back \in Seq(S) /\ Len(<<own>>) = 1
    BY <1>5, <1>6
  <1>8. m \in Seq(S) /\ Len(m) = c + 1
    BY <1>1, <1>5, <1>6, <1>7
  <1>9. m[real] = own
    BY <1>1, <1>5, <1>6, <1>7
  <1>10. m \in [1..(c + 1) -> S]
    <2> HIDE DEF m, S
    <2> QED  BY <1>1, <1>8
  <1> QED  BY <1>4, <1>9, <1>10

\* What is selected: some of the wallet's outputs, each once, that reach the amount.
LEMMA SelectionsAre ==
  ASSUME LedgerSound, NEW w, NEW amount \in Nat, NEW s \in Selections(w, amount)
  PROVE  /\ Len(s) \in Nat \ {0} /\ s \in [1..Len(s) -> Owned(w)] /\ IsInjective(s)
         /\ Range(s) \subseteq Owned(w) /\ Money(utxos, Range(s)) >= amount
  <1> DEFINE enough == {ks \in SUBSET Owned(w) : AmountOf(ks) >= amount}
             needed == {ks \in enough : \E k \in ks : AmountOf(ks \ {k}) < amount}
  <1>1. s \in UNION {SetToSeqs(ks) : ks \in needed}
    BY DEF Selections
  <1>2. PICK ks \in needed : s \in SetToSeqs(ks)
    BY <1>1
  <1>3. ks \subseteq Owned(w) /\ AmountOf(ks) >= amount /\ ks # {}
    BY <1>2
  <1>4. IsFiniteSet(ks)
    <2>1. ks \subseteq DOMAIN utxos
      BY <1>3 DEF Owned
    <2> QED  BY <2>1, FS_Subset DEF LedgerSound
  <1>5. /\ Len(s) = Cardinality(ks) /\ Cardinality(ks) \in Nat
        /\ s \in [1..Len(s) -> ks] /\ IsInjective(s) /\ Range(s) = ks
    BY <1>2, <1>4, SequencesOf
  <1>6. Cardinality(ks) # 0
    BY <1>3, <1>4, FS_EmptySet
  <1>7. AmountOf(ks) = Money(utxos, ks)
    BY DEF AmountOf, Money
  <1>8. s \in [1..Len(s) -> Owned(w)]
    BY <1>3, <1>5
  <1> QED  BY <1>3, <1>5, <1>6, <1>7, <1>8

\* The rings of what is selected: as many decoys for each.
LEMMA RingsAre ==
  ASSUME LedgerSound, NEW s, NEW decoys \in Rings(s), NEW j \in 1..Len(s)
  PROVE  /\ decoys[j] \subseteq StealthSet /\ IsFiniteSet(decoys[j])
         /\ \A i \in 1..Len(s) : Cardinality(decoys[i]) = Cardinality(decoys[j])
  <1> DEFINE n == Min({RingSize, Cardinality(StealthSet)}) - 1
  <1>1. decoys \in [1..Len(s) -> kSubset(n, StealthSet)]
    BY DEF Rings
  <1> HIDE DEF n
  <1>2. \A i \in 1..Len(s) : decoys[i] \in SUBSET StealthSet /\ Cardinality(decoys[i]) = n
    BY <1>1 DEF kSubset
  <1>3. StealthSet \subseteq DOMAIN utxos /\ IsFiniteSet(DOMAIN utxos)
    BY DEF StealthSet, LedgerSound
  <1>4. IsFiniteSet(decoys[j])
    <2>1. decoys[j] \subseteq DOMAIN utxos
      BY <1>2, <1>3
    <2> QED  BY <1>3, <2>1, FS_Subset
  <1> QED  BY <1>2, <1>4

\* A stealth output that a wallet owns is to one of its keys, and its one-time key is
\* the output's.
LEMMA OwnedIs ==
  ASSUME LedgerSound, NEW w \in Wallets, NEW k \in Owned(w), IsStealth(utxos[k])
  PROVE  /\ k \in Past /\ k \in Places /\ k \in DOMAIN utxos
         /\ OneTimeKey(w, utxos[k]) = utxos[k].dest
         /\ utxos[k].dest = KeyAt(k, utxos[k].to) /\ utxos[k].to \in Held
         /\ \E n \in 1..Len(Keys[w]) : utxos[k].to = AddressOf(w, n)
  <1>1. k \in DOMAIN utxos /\ Owns(w, utxos[k])
    BY DEF Owned
  <1>2. k \in Past /\ k \in Places /\ EntrySound(k, utxos[k])
    BY <1>1 DEF LedgerSound, Past
  <1>3. /\ StealthKeys(w, utxos[k]) = {n \in 1..Len(Keys[w]) : utxos[k].to = AddressOf(w, n)}
        /\ LegacyKeys(w, utxos[k]) = {}
        /\ utxos[k].dest = KeyAt(k, utxos[k].to)
    BY <1>2, FoundByReceiver
  <1>4. StealthKeys(w, utxos[k]) # {}
    BY <1>1, <1>3 DEF Owns
  <1>5. PICK n \in 1..Len(Keys[w]) : utxos[k].to = AddressOf(w, n)
    BY <1>3, <1>4
  <1>6. utxos[k].to \in Held
    BY <1>5, AddressesAre
  <1>7. OneTimeKey(w, utxos[k]) = utxos[k].dest
    BY <1>4, OneTimeKeyIs
  <1> QED  BY <1>1, <1>2, <1>3, <1>5, <1>6, <1>7

\* A ring signature over the rings of the inputs that are selected.
LEMMA SignsRings ==
  ASSUME NEW L \in Nat \ {0}, NEW N \in Nat \ {0}, NEW keys \in [1..L -> [1..N -> Scalars]],
         NEW secrets \in [1..L -> Scalars], NEW real \in 1..N,
         \A j \in 1..L : keys[j][real] = secrets[j],
         NEW alpha \in [1..L -> Scalars], NEW random \in [1..N -> [1..L -> Scalars]]
  PROVE  SignerHas(N, L, Transposed(keys), secrets, real, alpha, random)
  <1> DEFINE ring == Transposed(keys)
  <1>1. 1 \in 1..L /\ keys[1] \in [1..N -> Scalars] /\ Len(keys) = L
    OBVIOUS
  <1>2. Len(keys[1]) = N
    BY <1>1
  <1>3. ring = [n \in 1..N |-> [j \in 1..L |-> keys[j][n]]]
    BY <1>1, <1>2 DEF Transposed
  <1>4. ring \in [1..N -> [1..L -> Scalars]]
    <2>1. \A n \in 1..N : [j \in 1..L |-> keys[j][n]] \in [1..L -> Scalars]
      OBVIOUS
    <2> HIDE DEF ring
    <2> QED  BY <1>3, <2>1
  <1>5. ring[real] = secrets
    <2>1. ring[real] = [j \in 1..L |-> keys[j][real]]
      BY <1>3
    <2>2. [j \in 1..L |-> keys[j][real]] = secrets
      OBVIOUS
    <2> QED  BY <2>1, <2>2
  <1> HIDE DEF ring
  <1>6. SignerHas(N, L, ring, secrets, real, alpha, random)
    BY <1>4, <1>5 DEF SignerHas
  <1> QED  BY <1>6 DEF ring

\* What a wallet pays with and how it may.
PaymentOf(w, to, amount, s, decoys, real) ==
  /\ w \in Wallets /\ to \in Addresses /\ amount \in Amounts /\ real \in 1..RingSize
  /\ s \in Selections(w, amount) /\ decoys \in Rings(s)
  /\ Pay(w, to, amount, s, decoys, real)

\* The inputs of a transaction that is built and its signature.
LEMMA BuiltInputs ==
  ASSUME WInv, NEW w, NEW to, NEW amount, NEW s, NEW decoys, NEW real,
         PaymentOf(w, to, amount, s, decoys, real)
  PROVE  LET tx == Transaction(w, to, amount, s, decoys, real)
         IN  /\ InputsSound(tx)
             /\ SignatureHolds(tx) <=> Len(tx.members[1]) >= 2
  <1> DEFINE tx == Transaction(w, to, amount, s, decoys, real)
             L == Len(s)
             n == built + 1
             members == [j \in 1..L |-> RingMembers(s[j], decoys[j], real)]
             keys == [j \in 1..L |-> RingKeys(members[j])]
             ring == Transposed(keys)
             secrets == [j \in 1..L |-> OneTimeKey(w, utxos[s[j]])]
             alpha == [j \in 1..L |-> Random(n, 2 + j)]
             random == [m \in 1..Len(ring) |-> [j \in 1..L |-> Random(n, 9 * m + j)]]
             N == Cardinality(decoys[1]) + 1
  <1>0. /\ LedgerSound /\ built \in Nat /\ w \in Wallets /\ amount \in Nat
        /\ decoys \in Rings(s) /\ s \in Selections(w, amount)
    BY WalletAssumption DEF WInv, PaymentOf
  <1>1. /\ L \in Nat \ {0} /\ s \in [1..L -> Owned(w)] /\ IsInjective(s) /\ 1 \in 1..L
    BY <1>0, SelectionsAre
  <1>2. ASSUME NEW j \in 1..L
        PROVE  /\ s[j] \in Owned(w) /\ IsStealth(utxos[s[j]]) /\ real \in 1..(Cardinality(decoys[j]) + 1)
               /\ decoys[j] \subseteq StealthSet /\ IsFiniteSet(decoys[j])
               /\ Cardinality(decoys[j]) = Cardinality(decoys[1])
               /\ Cardinality(decoys[j]) \in Nat
    <2>1. s[j] \in Owned(w)
      BY <1>1
    <2>2. /\ decoys[j] \subseteq StealthSet /\ IsFiniteSet(decoys[j])
          /\ Cardinality(decoys[j]) = Cardinality(decoys[1])
      BY <1>0, <1>1, RingsAre
    <2>3. Cardinality(decoys[j]) \in Nat
      BY <2>2, FS_CardinalityType
    <2>4. IsStealth(utxos[s[j]]) /\ real <= Cardinality(decoys[j]) + 1
      BY DEF PaymentOf, Pay
    <2>5. real \in 1..RingSize /\ RingSize \in Nat
      BY WalletAssumption DEF PaymentOf
    <2>6. real \in 1..(Cardinality(decoys[j]) + 1)
      BY <2>3, <2>4, <2>5
    <2> QED  BY <2>1, <2>2, <2>3, <2>4, <2>6
  <1>3. N \in Nat \ {0} /\ real \in 1..N
    BY <1>1, <1>2
  <1>4. ASSUME NEW j \in 1..L
        PROVE  /\ s[j] \in Past /\ s[j] \in Places /\ s[j] \in DOMAIN utxos
               /\ secrets[j] = utxos[s[j]].dest /\ utxos[s[j]].dest = KeyAt(s[j], utxos[s[j]].to)
               /\ utxos[s[j]].to \in Held /\ secrets[j] \in Scalars
               /\ ImageOf(secrets[j]) = ImageAt(s[j], utxos[s[j]].to)
               /\ \E i \in 1..Len(Keys[w]) : utxos[s[j]].to = AddressOf(w, i)
    <2>1. s[j] \in Owned(w) /\ IsStealth(utxos[s[j]])
      BY <1>2
    <2>2. /\ s[j] \in Past /\ s[j] \in Places /\ s[j] \in DOMAIN utxos
          /\ OneTimeKey(w, utxos[s[j]]) = utxos[s[j]].dest
          /\ utxos[s[j]].dest = KeyAt(s[j], utxos[s[j]].to) /\ utxos[s[j]].to \in Held
          /\ \E i \in 1..Len(Keys[w]) : utxos[s[j]].to = AddressOf(w, i)
      BY <1>0, <2>1, OwnedIs
    <2>3. utxos[s[j]].to \in Payees
      BY <2>2, AddressesAre
    <2>4. KeyAt(s[j], utxos[s[j]].to) \in Scalars
          /\ ImageAt(s[j], utxos[s[j]].to) = ImageOf(KeyAt(s[j], utxos[s[j]].to))
      BY <2>2, <2>3, KeyAtIs
    <2>5. secrets[j] = OneTimeKey(w, utxos[s[j]])
      OBVIOUS
    <2> HIDE DEF secrets
    <2> QED  BY <2>2, <2>4, <2>5
  <1>5. ASSUME NEW j \in 1..L
        PROVE  members[j] \in [1..N -> StealthSet] /\ members[j][real] = s[j]
    <2>1. members[j] = RingMembers(s[j], decoys[j], real)
      OBVIOUS
    <2>2. /\ RingMembers(s[j], decoys[j], real) \in [1..N -> decoys[j] \cup {s[j]}]
          /\ RingMembers(s[j], decoys[j], real)[real] = s[j]
      BY <1>2, MembersAre
    <2>3. decoys[j] \cup {s[j]} \subseteq StealthSet
      BY <1>2, <1>4 DEF StealthSet
    <2> HIDE DEF members, N
    <2> QED  BY <2>1, <2>2, <2>3
  <1>6. \A k \in StealthSet : k \in Past /\ utxos[k].dest \in Scalars
    <2> SUFFICES ASSUME NEW k \in StealthSet  PROVE  k \in Past /\ utxos[k].dest \in Scalars
      OBVIOUS
    <2>1. k \in Past /\ k \in Places /\ EntrySound(k, utxos[k]) /\ IsStealth(utxos[k])
      BY <1>0 DEF StealthSet, LedgerSound, Past
    <2>2. utxos[k].to \in Payees /\ utxos[k].dest = KeyAt(k, utxos[k].to)
      BY <2>1 DEF EntrySound
    <2> QED  BY <2>1, <2>2, KeyAtIs
  <1> HIDE DEF N
  <1>7. keys \in [1..L -> [1..N -> Scalars]] /\ \A j \in 1..L : keys[j][real] = secrets[j]
    <2>1. ASSUME NEW j \in 1..L
          PROVE  keys[j] \in [1..N -> Scalars] /\ keys[j][real] = secrets[j]
      <3> DEFINE m == members[j]
      <3>1. m \in [1..N -> StealthSet] /\ m[real] = s[j] /\ Len(m) = N
        BY <1>3, <1>5
      <3>2. keys[j] = [i \in 1..Len(m) |-> utxos[m[i]].dest]
        BY DEF RingKeys
      <3>3. secrets[j] = utxos[s[j]].dest
        BY <1>4
      <3> HIDE DEF m, keys, secrets
      <3>4. keys[j] \in [1..N -> Scalars]
        BY <3>1, <3>2, <1>6
      <3>5. keys[j][real] = utxos[s[j]].dest
        BY <1>3, <3>1, <3>2
      <3> QED  BY <3>3, <3>4, <3>5
    <2>2. keys = [j \in 1..L |-> keys[j]]
      OBVIOUS
    <2> HIDE DEF keys, secrets
    <2> QED  BY <2>1, <2>2
  <1>8. secrets \in [1..L -> Scalars]
    <2>1. secrets = [j \in 1..L |-> secrets[j]]
      OBVIOUS
    <2> HIDE DEF secrets
    <2> QED  BY <1>4, <2>1
  <1>9. alpha \in [1..L -> Scalars] /\ Len(ring) = N /\ random \in [1..N -> [1..L -> Scalars]]
    <2>1. n \in Nat
      BY <1>0
    <2>2. \A j \in 1..L : Random(n, 2 + j) \in Scalars
      <3>1. \A j \in 1..L : 2 + j \in Nat
        BY <1>1
      <3> HIDE DEF n
      <3> QED  BY <2>1, <3>1, RandomIs
    <2>3. \A m \in 1..N : \A j \in 1..L : Random(n, 9 * m + j) \in Scalars
      <3>1. \A m \in 1..N : \A j \in 1..L : 9 * m + j \in Nat
        BY <1>1, <1>3
      <3> HIDE DEF n
      <3> QED  BY <2>1, <3>1, RandomIs
    <2>4. Len(ring) = N
      <3>1. Len(keys[1]) = N
        <4> HIDE DEF keys
        <4> QED  BY <1>1, <1>3, <1>7
      <3> HIDE DEF keys
      <3> QED  BY <1>3, <3>1 DEF Transposed
    <2> HIDE DEF ring, n
    <2>5. alpha \in [1..L -> Scalars]
      BY <2>2
    <2>6. random \in [1..N -> [1..L -> Scalars]]
      BY <2>3, <2>4
    <2> QED  BY <2>4, <2>5, <2>6
  <1>10. SignerHas(N, L, ring, secrets, real, alpha, random)
    <2> HIDE DEF keys, secrets, alpha, random
    <2> QED  BY <1>1, <1>3, <1>7, <1>8, <1>9, SignsRings
  <1> DEFINE msg == Message(s, tx.outputs, RingSize)
             sig == Sign(ring, secrets, real, msg, alpha, random)
  <1>11. /\ tx.inputs = s /\ tx.members = members /\ tx.sig = sig /\ tx.images = sig.images
         /\ tx.from = w /\ tx.size = RingSize
    BY DEF Transaction
  <1> HIDE DEF tx, ring, keys, secrets, alpha, random, members, msg
  <1>12. VerifySignature(sig, ring, msg) <=> N >= 2
    BY <1>10, SignatureVerifies
  <1>13. Returns(sig, N, L, secrets, ring, msg)
    BY <1>10, SignatureReturns
  <1>14. Len(members) = L /\ DOMAIN members = 1..L
    BY <1>1 DEF members
  <1>15. Len(members[1]) = N
    BY <1>1, <1>3, <1>5
  <1>16. SignatureHolds(tx) <=> Len(tx.members[1]) >= 2
    <2>1. SignatureHolds(tx) = VerifySignature(sig, ring, msg)
      BY <1>11, <1>14 DEF SignatureHolds, ring, keys, msg
    <2> QED  BY <1>11, <1>12, <1>15, <2>1
  <1> HIDE DEF sig
  <1>17. InputsSound(tx)
    <2>1. ASSUME NEW j \in 1..L
          PROVE  /\ s[j] \in Range(members[j]) /\ members[j] \in Seq(Past)
                 /\ sig.images[j] = ImageAt(s[j], utxos[s[j]].to)
      <3>1. s[j] \in Range(members[j])
        BY <1>3, <1>5 DEF Range
      <3>2. members[j] \in Seq(Past)
        <4>1. members[j] \in [1..N -> Past]
          BY <1>5, <1>6
        <4> QED  BY <1>3, <4>1
      <3>3. sig.images[j] = ImageOf(secrets[j])
        BY <1>13 DEF Returns
      <3> QED  BY <1>4, <3>1, <3>2, <3>3
    <2>2. s \in [1..L -> Past]
      BY <1>1, <1>4
    <2>3. DOMAIN sig.images = 1..L
      BY <1>13 DEF Returns
    <2> QED  BY <1>1, <1>2, <1>4, <1>11, <1>14, <2>1, <2>2, <2>3 DEF InputsSound
  <1> QED  BY <1>16, <1>17 DEF tx

\* Its outputs: the payment and the change, if there is any.
LEMMA BuiltOutputs ==
  ASSUME WInv, NEW w, NEW to, NEW amount, NEW s, NEW decoys, NEW real,
         PaymentOf(w, to, amount, s, decoys, real)
  PROVE  LET tx == Transaction(w, to, amount, s, decoys, real)
         IN  /\ OutputsSound(tx) /\ tx.id = built + 1 /\ tx.from = w
             /\ tx.inputs = s /\ tx.amount = amount
  <1> DEFINE tx == Transaction(w, to, amount, s, decoys, real)
             n == built + 1
             spent == Money(utxos, Range(s))
             change == AmountOf(Range(s)) - amount
             a == StealthOutput(amount, to, Random(n, 1))
             b == StealthOutput(change, ChangeAddress(w, to), Random(n, 2))
             more == IF change = 0 THEN <<>> ELSE <<b>>
  <1>1. /\ LedgerSound /\ built \in Nat /\ w \in Wallets /\ amount \in Nat
        /\ to \in Addresses /\ s \in Selections(w, amount)
    BY WalletAssumption DEF WInv, PaymentOf
  <1>2. AmountOf(Range(s)) = spent
    BY DEF AmountOf, Money
  <1>3. spent \in Nat /\ spent >= amount
    <2>1. Range(s) \subseteq Owned(w) /\ spent >= amount
      BY <1>1, SelectionsAre
    <2>2. Range(s) \subseteq DOMAIN utxos
      BY <2>1 DEF Owned
    <2>3. \A k \in DOMAIN utxos : utxos[k].amount \in Nat
      BY <1>1 DEF LedgerSound, EntrySound
    <2>4. IsFiniteSet(DOMAIN utxos)
      BY <1>1 DEF LedgerSound
    <2>5. \A A \in SUBSET (DOMAIN utxos) : Money(utxos, A) \in Nat
      BY <2>3, <2>4, MoneyIs
    <2> QED  BY <2>1, <2>2, <2>5
  <1> HIDE DEF spent
  <1>4. change \in Nat /\ amount + change = spent
    BY <1>1, <1>2, <1>3
  <1>5. to \in Payees /\ ChangeAddress(w, to) = AddressOf(w, 1) /\ AddressOf(w, 1) \in Payees
    <2>1. 1 \in 1..Len(Keys[w]) /\ to \in Payees
      BY <1>1, AddressesAre
    <2> QED  BY <1>1, <2>1, AddressesAre DEF ChangeAddress
  <1>6. a.amount = amount /\ a.to = to /\ b.amount = change /\ b.to = AddressOf(w, 1)
    <2>1. \A v, x, r : StealthOutput(v, x, r).amount = v /\ StealthOutput(v, x, r).to = x
      BY DEF StealthOutput
    <2> QED  BY <1>5, <2>1
  <1>7. /\ tx.outputs = <<a>> \o more /\ tx.id = n /\ tx.from = w /\ tx.inputs = s
        /\ tx.amount = amount
    BY DEF Transaction
  <1>8. /\ a = StealthOutput(a.amount, a.to, Random(n, 1))
        /\ b = StealthOutput(b.amount, b.to, Random(n, 2))
    BY <1>5, <1>6
  <1> HIDE DEF a, b, n, tx, change
  <1>9. CASE change = 0
    <2>1. tx.outputs = <<a>>
      BY <1>7, <1>9
    <2>2. Len(tx.outputs) = 1 /\ DOMAIN tx.outputs = 1..1 /\ tx.outputs[1] = a
      BY <2>1
    <2>3. Paid(tx) = amount
      BY <1>1, <1>6, <2>2, PaidIs
    <2>4. spent = Paid(tx)
      BY <1>3, <1>4, <1>1, <1>9, <2>3
    <2> QED  BY <1>1, <1>5, <1>6, <1>7, <1>8, <2>2, <2>4 DEF OutputsSound, tx, spent, n
  <1>10. CASE change # 0
    <2>1. more = <<b>>
      BY <1>10
    <2> HIDE DEF more
    <2>2. Len(tx.outputs) = 2 /\ DOMAIN tx.outputs = 1..2 /\ tx.outputs[1] = a /\ tx.outputs[2] = b
      <3> DEFINE S == {a, b}
                 c == <<a>> \o <<b>>
      <3>1. /\ <<a>> \in Seq(S) /\ <<b>> \in Seq(S) /\ Len(<<a>>) = 1 /\ Len(<<b>>) = 1
            /\ <<a>>[1] = a /\ <<b>>[1] = b
        OBVIOUS
      <3>2. c \in Seq(S) /\ Len(c) = 2 /\ c[1] = a /\ c[2] = b
        BY <3>1
      <3>3. tx.outputs = c
        BY <1>7, <2>1
      <3> HIDE DEF c
      <3> QED  BY <3>2, <3>3
    <2>3. Paid(tx) = amount + change
      <3>1. \A i \in 1..2 : tx.outputs[i].amount \in Nat
        BY <1>1, <1>4, <1>6, <2>2
      <3> QED  BY <1>6, <2>2, <3>1, PaidIs
    <2>4. spent = Paid(tx)
      BY <1>4, <2>3
    <2> QED  BY <1>1, <1>4, <1>5, <1>6, <1>7, <1>8, <2>2, <2>4 DEF OutputsSound, tx, spent, n
  <1> QED  BY <1>9, <1>10

\* A transaction that is built joins those that are pending.
LEMMA WInvPay ==
  ASSUME WInv, NEW w, NEW to, NEW amount, NEW s, NEW decoys, NEW real,
         PaymentOf(w, to, amount, s, decoys, real)
  PROVE  WInv'
  <1> DEFINE tx == Transaction(w, to, amount, s, decoys, real)
  <1>1. /\ sent' = sent \cup {tx} /\ built' = built + 1 /\ utxos' = utxos /\ images' = images
        /\ built < MaxPayments /\ w \in Wallets
    BY DEF PaymentOf, Pay
  <1>2. /\ InputsSound(tx) /\ OutputsSound(tx) /\ (SignatureHolds(tx) <=> Len(tx.members[1]) >= 2)
        /\ tx.id = built + 1 /\ tx.from = w /\ tx.inputs = s
    BY BuiltInputs, BuiltOutputs
  <1>3. \A j \in 1..Len(tx.inputs) : tx.inputs[j] \in DOMAIN utxos
    <2>1. s \in [1..Len(s) -> Owned(w)]
      <3>1. LedgerSound /\ s \in Selections(w, amount) /\ amount \in Nat
        BY WalletAssumption DEF WInv, PaymentOf
      <3> QED  BY <3>1, SelectionsAre
    <2> QED  BY <1>2, <2>1 DEF Owned
  <1> HIDE DEF tx
  <1>4. LedgerSound /\ ImagesSound /\ built \in Nat /\ MaxPayments \in Nat
    BY WalletAssumption DEF WInv
  <1>5. Past \subseteq Past'
    <2> SUFFICES ASSUME NEW k \in Past  PROVE  k \in Past'
      OBVIOUS
    <2>1. k \in Places /\ k[1] \in 0..built /\ \A t \in sent : t.id # k[1]
      BY DEF Past
    <2>2. k[1] \in 0..built' /\ k[1] # tx.id
      BY <1>1, <1>2, <1>4, <2>1
    <2> QED  BY <1>1, <2>1, <2>2 DEF Past
  <1>6. OnlyFresh
    BY <1>1, <1>4, <1>5 DEF OnlyFresh
  <1>7. PendingSound(tx)
    BY <1>1, <1>2 DEF PendingSound
  <1>8. \A t \in sent' : PendingSound(t)'
    <2>1. \A t \in sent' : PendingSound(t)
      BY <1>1, <1>7 DEF WInv
    <2> QED  BY <1>4, <1>6, <2>1, PendingKept
  <1>9. \A t \in sent' : t.id \in 1..built'
    BY <1>1, <1>2, <1>4 DEF WInv
  <1>10. \A t \in sent : t.id # tx.id
    BY <1>2, <1>4 DEF WInv
  <1>11. ASSUME NEW t, PendingSound(t), NEW i \in 1..Len(t.inputs), NEW j \in 1..Len(tx.inputs),
                t.inputs[i] = tx.inputs[j]
         PROVE  t.images[i] = tx.images[j]
    <2>1. t.inputs[i] \in DOMAIN utxos
      BY <1>3, <1>11
    <2>2. t.images[i] = ImageAt(t.inputs[i], utxos[t.inputs[i]].to)
      BY <1>11, <2>1 DEF PendingSound, InputsSound
    <2>3. tx.images[j] = ImageAt(tx.inputs[j], utxos[tx.inputs[j]].to)
      BY <1>3, <1>2 DEF InputsSound
    <2> QED  BY <1>11, <2>2, <2>3
  <1>12. \A t, u \in sent' : PairSound(t, u)
    <2> SUFFICES ASSUME NEW t \in sent', NEW u \in sent'  PROVE  PairSound(t, u)
      OBVIOUS
    <2>1. (t \in sent \/ t = tx) /\ (u \in sent \/ u = tx)
      BY <1>1
    <2>2. CASE t \in sent /\ u \in sent
      BY <2>2 DEF WInv
    <2>3. CASE u = tx
      <3>1. PendingSound(t)
        BY <1>7, <2>1 DEF WInv
      <3>2. \A i \in 1..Len(t.inputs), j \in 1..Len(u.inputs) :
              t.inputs[i] = u.inputs[j] => t.images[i] = u.images[j]
        BY <1>11, <2>3, <3>1
      <3> QED  BY <1>10, <2>1, <2>3, <3>2 DEF PairSound
    <2>4. CASE t = tx
      <3>1. PendingSound(u)
        BY <1>7, <2>1 DEF WInv
      <3>2. \A i \in 1..Len(t.inputs), j \in 1..Len(u.inputs) :
              t.inputs[i] = u.inputs[j] => t.images[i] = u.images[j]
        BY <1>11, <2>4, <3>1
      <3> QED  BY <1>10, <2>1, <2>4, <3>2 DEF PairSound
    <2> QED  BY <2>1, <2>2, <2>3, <2>4
  <1>13. LedgerSound'
    <2>1. Money(utxos, DOMAIN utxos)' = Money(utxos, DOMAIN utxos)
      BY <1>1 DEF Money
    <2> QED  BY <1>1, <1>4, <1>5, <2>1 DEF LedgerSound
  <1>14. ImagesSound'
    BY <1>1, <1>4, <1>5 DEF ImagesSound
  <1>15. built' \in 0..MaxPayments
    BY <1>1, <1>4
  <1> QED  BY <1>8, <1>9, <1>12, <1>13, <1>14, <1>15 DEF WInv

\* Every step keeps the invariant.
LEMMA WInvStep ==
  ASSUME WInv, Next  PROVE  WInv'
  <1>1. CASE \E w \in Wallets, amount \in Amounts :
               \E s \in Selections(w, amount) :
                 \E decoys \in Rings(s), to \in Addresses, real \in 1..RingSize :
                   Pay(w, to, amount, s, decoys, real)
    <2>1. PICK w \in Wallets, amount \in Amounts :
            \E s \in Selections(w, amount) :
              \E decoys \in Rings(s), to \in Addresses, real \in 1..RingSize :
                Pay(w, to, amount, s, decoys, real)
      BY <1>1
    <2>2. PICK s \in Selections(w, amount) :
            \E decoys \in Rings(s), to \in Addresses, real \in 1..RingSize :
              Pay(w, to, amount, s, decoys, real)
      BY <2>1
    <2>3. PICK decoys \in Rings(s), to \in Addresses, real \in 1..RingSize :
            Pay(w, to, amount, s, decoys, real)
      BY <2>2
    <2>4. PaymentOf(w, to, amount, s, decoys, real)
      BY <2>3 DEF PaymentOf
    <2> QED  BY <2>4, WInvPay
  <1>2. CASE \E tx \in sent : Confirm(tx)
    BY <1>2, WInvConfirm
  <1>3. CASE \E tx \in sent : Refuse(tx)
    BY <1>3, WInvRefuse
  <1> QED  BY <1>1, <1>2, <1>3 DEF Next

\* A step that changes nothing keeps it too.
LEMMA WInvStutter ==
  ASSUME WInv, UNCHANGED vars  PROVE  WInv'
  <1>1. utxos' = utxos /\ images' = images /\ sent' = sent /\ built' = built
    BY DEF vars
  <1>2. Past' = Past
    BY <1>1 DEF Past
  <1>3. \A ks : Money(utxos, ks)' = Money(utxos, ks)
    BY <1>1 DEF Money
  <1>4. LedgerSound' /\ ImagesSound'
    <2>1. Money(utxos, DOMAIN utxos)' = Money(utxos, DOMAIN utxos)
      BY <1>1 DEF Money
    <2> QED  BY <1>1, <1>2, <2>1 DEF WInv, LedgerSound, ImagesSound
  <1>5. \A t \in sent : PendingSound(t)'
    <2>1. LedgerSound /\ built \in Int
      BY WalletAssumption DEF WInv
    <2>2. OnlyFresh
      BY <1>1, <1>2, <2>1 DEF OnlyFresh
    <2> QED  BY <2>1, <2>2, PendingKept DEF WInv
  <1> QED  BY <1>1, <1>4, <1>5 DEF WInv

\* The outputs of the ledger, the marked images and the pending transactions are sound
\* after every sequence of payments, confirmations and refusals.
THEOREM WalletIsSound ==
  Spec => []WInv
  <1>1. Init => WInv
    BY WInvInit
  <1>2. WInv /\ [Next]_vars => WInv'
    BY WInvStep, WInvStutter
  <1> QED  BY <1>1, <1>2, PTL DEF Spec

-----------------------------------------------------------------------------
(* What follows from it.                                                   *)

\* The image that a transaction has of an output that is there is not marked.
LEMMA NotMarked ==
  ASSUME ImagesSound, DOMAIN utxos \subseteq Past, NEW k \in DOMAIN utxos, NEW a \in Held
  PROVE  ImageAt(k, a) \notin images
  <1> SUFFICES ASSUME ImageAt(k, a) \in images  PROVE  FALSE
    OBVIOUS
  <1>1. PICK l \in Past \ DOMAIN utxos, b \in Held : ImageAt(k, a) = ImageAt(l, b)
    BY DEF ImagesSound
  <1>2. k \in Places /\ l \in Places
    BY <1>1 DEF Past
  <1>3. k = l
    BY <1>1, <1>2, FreshAssumption
  <1> QED  BY <1>1, <1>3

\* The range proof of an output that was made for an address.
LEMMA OutputProved ==
  ASSUME NEW v \in Scalars, NEW to, NEW r \in Int
  PROVE  LET o == StealthOutput(v, to, r)
         IN  VerifyRange(o.range, o.commitment) <=> v < Two[RangeBits]
  <1> DEFINE b == [i \in 1..RangeBits |-> Mod(r + 7 * i)]
             p == ProveWithBlinding(v, b)
             o == StealthOutput(v, to, r)
  <1>1. RangeBits \in 1..64
    BY WalletAssumption
  <1>2. b \in [1..RangeBits -> Scalars]
    <2>1. \A i \in 1..RangeBits : r + 7 * i \in Int
      BY <1>1
    <2>2. \A i \in 1..RangeBits : Mod(r + 7 * i) \in Scalars
      BY <2>1, ModIs
    <2> QED  BY <2>2
  <1>3. o.range = p.proof /\ o.commitment = Commit(v, p.blinding)
    BY DEF StealthOutput
  <1> HIDE DEF o, b
  <1>4. VerifyRange(p.proof, Commit(v, p.blinding)) <=> v < Two[RangeBits]
    BY <1>1, <1>2, RangeVerifies
  <1> QED  BY <1>3, <1>4 DEF o

\* What is pending is accepted, but for the causes named.
LEMMA SoundAccepted ==
  ASSUME WInv  PROVE  BuiltIsAccepted
  <1> SUFFICES ASSUME NEW tx \in sent
               PROVE  Accepts(tx) <=>
                        /\ RingIntact(tx) /\ Len(tx.members[1]) >= 2
                        /\ \A n \in 1..Len(tx.outputs) : tx.outputs[n].amount < Two[RangeBits]
    BY DEF BuiltIsAccepted
  <1>1. LedgerSound /\ ImagesSound /\ InputsSound(tx) /\ OutputsSound(tx) /\ tx.id \in 1..built
        /\ built \in Nat
    BY WalletAssumption DEF WInv, PendingSound
  <1>2. RingIntact(tx) => (SignatureHolds(tx) <=> Len(tx.members[1]) >= 2)
    BY DEF WInv, PendingSound
  <1> SUFFICES ASSUME RingIntact(tx)
               PROVE  /\ \A j \in 1..Len(tx.inputs) :
                           tx.images[j] \notin images /\ tx.inputs[j] \in DOMAIN utxos
                      /\ AmountOf(Range(tx.inputs)) >= Paid(tx)
                      /\ \A n \in 1..Len(tx.outputs) :
                           VerifyRange(tx.outputs[n].range, tx.outputs[n].commitment)
                             <=> tx.outputs[n].amount < Two[RangeBits]
    BY <1>2 DEF Accepts, Paid
  <1>3. ASSUME NEW j \in 1..Len(tx.inputs)  PROVE  tx.inputs[j] \in DOMAIN utxos
    <2>1. tx.inputs[j] \in Range(tx.members[j]) /\ j \in 1..Len(tx.members)
      BY <1>1 DEF InputsSound
    <2> QED  BY <2>1 DEF RingIntact, StealthSet
  <1>4. ASSUME NEW j \in 1..Len(tx.inputs)  PROVE  tx.images[j] \notin images
    <2>1. PICK a \in Held : tx.images[j] = ImageAt(tx.inputs[j], a)
      BY <1>1 DEF InputsSound
    <2> QED  BY <1>1, <1>3, <2>1, NotMarked DEF LedgerSound
  <1>5. Range(tx.inputs) \subseteq DOMAIN utxos
    <2>1. DOMAIN tx.inputs = 1..Len(tx.inputs)
      BY <1>1 DEF InputsSound
    <2> QED  BY <1>3, <2>1 DEF Range
  <1>6. Money(utxos, Range(tx.inputs)) = Paid(tx)
    BY <1>1, <1>5 DEF OutputsSound
  <1>7. /\ Paid(tx) \in Nat /\ \A n \in 1..Len(tx.outputs) : tx.outputs[n].amount <= Paid(tx)
    <2>1. /\ Len(tx.outputs) \in {1, 2} /\ DOMAIN tx.outputs = 1..Len(tx.outputs)
          /\ \A n \in 1..Len(tx.outputs) : tx.outputs[n].amount \in Nat
      BY <1>1 DEF OutputsSound
    <2> QED  BY <2>1, PaidIs
  <1>8. Paid(tx) < Q
    <2>1. \A k \in DOMAIN utxos : utxos[k].amount \in Nat
      BY <1>1 DEF LedgerSound, EntrySound
    <2>2. IsFiniteSet(DOMAIN utxos) /\ Money(utxos, DOMAIN utxos) < Q
      BY <1>1 DEF LedgerSound
    <2>3. /\ Money(utxos, Range(tx.inputs)) <= Money(utxos, DOMAIN utxos)
          /\ Money(utxos, DOMAIN utxos) \in Nat
      BY <1>5, <2>1, <2>2, MoneyIs
    <2> QED  BY <1>6, <1>7, <2>2, <2>3, ScalarsAre
  <1>9. ASSUME NEW n \in 1..Len(tx.outputs)
        PROVE  VerifyRange(tx.outputs[n].range, tx.outputs[n].commitment)
                 <=> tx.outputs[n].amount < Two[RangeBits]
    <2> DEFINE o == tx.outputs[n]
    <2>1. o.amount \in Nat /\ o = StealthOutput(o.amount, o.to, Random(tx.id, n))
      BY <1>1 DEF OutputsSound
    <2>2. o.amount \in Scalars
      <3>1. o.amount <= Paid(tx)
        BY <1>7
      <3> HIDE DEF o
      <3> QED  BY <1>7, <1>8, <2>1, <3>1, ScalarsAre DEF Scalars
    <2>3. Random(tx.id, n) \in Int
      <3>1. tx.id \in Nat /\ n \in Nat
        <4>1. Len(tx.outputs) \in Nat
          BY <1>1 DEF OutputsSound
        <4> QED  BY <1>1, <4>1
      <3> QED  BY <3>1, RandomIs, ScalarsAre
    <2> HIDE DEF o
    <2>4. VerifyRange(o.range, o.commitment) <=> o.amount < Two[RangeBits]
      BY <2>1, <2>2, <2>3, OutputProved
    <2> QED  BY <2>4 DEF o
  <1>10. AmountOf(Range(tx.inputs)) >= Paid(tx)
    BY <1>6, <1>7 DEF AmountOf, Money
  <1> QED  BY <1>3, <1>4, <1>9, <1>10

\* Outputs are found under the keys of their address.
LEMMA SoundFinds ==
  ASSUME WInv  PROVE  ReceiverFinds
  <1> SUFFICES ASSUME NEW k \in StealthSet, NEW w \in Wallets
               PROVE  StealthKeys(w, utxos[k]) = {n \in 1..Len(Keys[w]) : utxos[k].to = AddressOf(w, n)}
    BY DEF ReceiverFinds
  <1>1. k \in Places /\ EntrySound(k, utxos[k]) /\ IsStealth(utxos[k])
    BY DEF WInv, LedgerSound, Past, StealthSet
  <1> QED  BY <1>1, FoundByReceiver

\* Images are as exact as inputs.
LEMMA SoundImages ==
  ASSUME WInv  PROVE  ImagesExact
  <1>1. LedgerSound /\ ImagesSound
    BY DEF WInv
  <1>2. ASSUME NEW t \in sent, NEW u \in sent, NEW i \in 1..Len(t.inputs), NEW j \in 1..Len(u.inputs)
        PROVE  t.inputs[i] = u.inputs[j] <=> t.images[i] = u.images[j]
    <2>1. t.inputs[i] = u.inputs[j] => t.images[i] = u.images[j]
      BY DEF WInv, PairSound
    <2>2. InputsSound(t) /\ InputsSound(u)
      BY DEF WInv, PendingSound
    <2>3. PICK a \in Held : t.images[i] = ImageAt(t.inputs[i], a)
      BY <2>2 DEF InputsSound
    <2>4. PICK b \in Held : u.images[j] = ImageAt(u.inputs[j], b)
      BY <2>2 DEF InputsSound
    <2>5. t.inputs[i] \in Places /\ u.inputs[j] \in Places
      <3>1. t.inputs[i] \in Past /\ u.inputs[j] \in Past
        BY <2>2 DEF InputsSound
      <3> QED  BY <3>1 DEF Past
    <2>6. t.images[i] = u.images[j] => t.inputs[i] = u.inputs[j]
      BY <2>3, <2>4, <2>5, FreshAssumption
    <2> QED  BY <2>1, <2>6
  <1>3. ASSUME NEW w \in Wallets, NEW k \in Owned(w) \cap StealthSet
        PROVE  Mod(OneTimeKey(w, utxos[k]) * HashPoint(utxos[k].dest)) \notin images
    <2>1. IsStealth(utxos[k]) /\ k \in Owned(w)
      BY DEF StealthSet
    <2>2. /\ k \in DOMAIN utxos /\ OneTimeKey(w, utxos[k]) = utxos[k].dest
          /\ utxos[k].dest = KeyAt(k, utxos[k].to) /\ utxos[k].to \in Held
      BY <1>1, <2>1, OwnedIs
    <2>3. ImageAt(k, utxos[k].to) \notin images
      BY <1>1, <2>2, NotMarked DEF LedgerSound
    <2> QED  BY <2>2, <2>3 DEF ImageAt
  <1> QED  BY <1>2, <1>3 DEF ImagesExact

\* Whatever is pending is accepted exactly if its rings are intact and not of one
\* member, and its amounts fit the bits of a range proof.
THEOREM PaymentsAreAccepted ==
  Spec => []BuiltIsAccepted
  BY WalletIsSound, SoundAccepted, PTL

\* An output is found by the wallet whose address it is to, under that key.
THEOREM OutputsAreFound ==
  Spec => []ReceiverFinds
  BY WalletIsSound, SoundFinds, PTL

\* Key images tell exactly whether an output is spent twice.
THEOREM ImagesTellSpends ==
  Spec => []ImagesExact
  BY WalletIsSound, SoundImages, PTL

-----------------------------------------------------------------------------
(* What a confirmed payment does to balances.                              *)

\* Who owns a stealth output: whoever has the key of its address.
LEMMA OwnsIs ==
  ASSUME NEW k \in Places, NEW e, EntrySound(k, e), IsStealth(e), NEW w \in Wallets
  PROVE  Owns(w, e) <=> \E n \in 1..Len(Keys[w]) : e.to = AddressOf(w, n)
  <1>1. /\ StealthKeys(w, e) = {n \in 1..Len(Keys[w]) : e.to = AddressOf(w, n)}
        /\ LegacyKeys(w, e) = {}
    BY FoundByReceiver
  <1> QED  BY <1>1 DEF Owns

\* The outputs a wallet owns in a ledger, whose money is its balance.
OwnedIn(w, u) == {k \in DOMAIN u : Owns(w, u[k])}

\* The balance of a wallet.
LEMMA BalanceIs ==
  ASSUME NEW w, NEW u
  PROVE  Balance(w, u) = Money(u, OwnedIn(w, u))
  BY DEF Balance, Money, OwnedIn

\* A balance changes by what is new less what is gone.
LEMMA BalanceMoves ==
  ASSUME WInv, NEW tx \in sent, Confirm(tx), NEW w \in Wallets
  PROVE  LET gone == Range(tx.inputs)
             new  == {<<tx.id, n>> : n \in 1..Len(tx.outputs)}
             lost == OwnedIn(w, utxos) \cap gone
             got  == {k \in new : Owns(w, utxos'[k])}
         IN  /\ Money(utxos', got) \in Nat /\ Money(utxos, lost) \in Nat
             /\ Balance(w, utxos') - Balance(w, utxos) = Money(utxos', got) - Money(utxos, lost)
  <1> DEFINE D == DOMAIN utxos
             gone == Range(tx.inputs)
             new  == {<<tx.id, n>> : n \in 1..Len(tx.outputs)}
             own  == OwnedIn(w, utxos)
             own2 == OwnedIn(w, utxos')
             lost == own \cap gone
             kept == own \ gone
             got  == {k \in new : Owns(w, utxos'[k])}
  <1>1. /\ DOMAIN utxos' = (D \ gone) \cup new
        /\ gone \subseteq D /\ new \cap Past = {}
        /\ IsFiniteSet(new)
        /\ \A k \in D \ gone : utxos'[k] = utxos[k]
    BY ConfirmLedger
  <1>2. \A k \in new : EntrySound(k, utxos'[k])
    <2>1. \A n \in 1..Len(tx.outputs) : EntrySound(<<tx.id, n>>, utxos'[<<tx.id, n>>])
      BY ConfirmLedger
    <2> QED  BY <2>1
  <1> HIDE DEF gone, new
  <1>3. IsFiniteSet(D) /\ D \subseteq Past /\ \A k \in D : utxos[k].amount \in Nat
    BY DEF WInv, LedgerSound, EntrySound
  <1>4. \A k \in new : utxos'[k].amount \in Nat
    BY <1>2 DEF EntrySound
  <1>5. own \subseteq D /\ IsFiniteSet(own) /\ IsFiniteSet(kept) /\ IsFiniteSet(got)
    BY <1>1, <1>3, FS_Subset DEF OwnedIn
  <1>6. own2 = kept \cup got /\ kept \cap got = {}
    <2>1. \A k \in D \ gone : k \in own2 <=> k \in own
      BY <1>1 DEF OwnedIn
    <2>2. \A k \in new : k \in own2 <=> k \in got
      BY <1>1 DEF OwnedIn
    <2>3. own2 \subseteq (D \ gone) \cup new /\ D \cap new = {}
      BY <1>1, <1>3 DEF OwnedIn
    <2> HIDE DEF own2
    <2> QED  BY <1>5, <2>1, <2>2, <2>3
  <1>7. Money(utxos, own) = Money(utxos, kept) + Money(utxos, lost)
    <2>1. kept \cap lost = {} /\ own = kept \cup lost
      OBVIOUS
    <2>2. \A k \in own : utxos[k].amount \in Nat
      BY <1>3, <1>5
    <2> HIDE DEF kept, lost, own
    <2> QED  BY <1>5, <2>1, <2>2, MoneyIs
  <1>8. Money(utxos, kept) \in Nat /\ Money(utxos, lost) \in Nat
    <2>1. kept \in SUBSET D /\ lost \in SUBSET D
      BY <1>5
    <2> HIDE DEF kept, lost
    <2> QED  BY <1>3, <2>1, MoneyIs
  <1>9. /\ Money(utxos', own2) = Money(utxos', kept) + Money(utxos', got)
        /\ Money(utxos', got) \in Nat
    <2>1. own2 \subseteq DOMAIN utxos'
      BY DEF OwnedIn
    <2>2. \A k \in own2 : utxos'[k].amount \in Nat
      BY <1>1, <1>3, <1>4, <1>5, <1>6
    <2>3. IsFiniteSet(own2) /\ got \in SUBSET own2
      <3> HIDE DEF own2, kept, got
      <3> QED  BY <1>5, <1>6, FS_Union
    <2> HIDE DEF own2, kept, got
    <2>4. kept \cap got = {} /\ own2 = kept \cup got /\ IsFiniteSet(own2)
      BY <1>6, <2>3
    <2>5. \A A, B : A \cap B = {} /\ own2 = A \cup B =>
                      Money(utxos', own2) = Money(utxos', A) + Money(utxos', B)
      BY <2>1, <2>2, <2>3, MoneyIs
    <2>6. \A A \in SUBSET own2 : Money(utxos', A) \in Nat
      BY <2>1, <2>2, <2>3, MoneyIs
    <2> QED  BY <2>3, <2>4, <2>5, <2>6
  <1>10. Money(utxos, kept) = Money(utxos', kept)
    <2>1. kept \subseteq D /\ kept \subseteq DOMAIN utxos'
      BY <1>1, <1>5
    <2>2. \A k \in kept : utxos[k].amount \in Nat /\ utxos[k].amount = utxos'[k].amount
      BY <1>1, <1>3, <1>5
    <2> HIDE DEF kept
    <2> QED  BY <1>5, <2>1, <2>2, MoneyAlike
  <1>11. Balance(w, utxos') = Money(utxos', own2) /\ Balance(w, utxos) = Money(utxos, own)
    BY BalanceIs
  <1> HIDE DEF own, own2, kept, lost, got
  <1>12. Balance(w, utxos') - Balance(w, utxos) = Money(utxos', got) - Money(utxos, lost)
    BY <1>7, <1>8, <1>9, <1>10, <1>11
  <1> QED  BY <1>8, <1>9, <1>12 DEF got, lost, own, gone, new

\* Of a confirmed payment, the sender owns all that goes and what comes back, and nobody
\* else any of it.
LEMMA Owners ==
  ASSUME WInv, NEW tx \in sent, Confirm(tx), NEW w \in Wallets
  PROVE  /\ w = tx.from => OwnedIn(w, utxos) \cap Range(tx.inputs) = Range(tx.inputs)
         /\ w # tx.from => OwnedIn(w, utxos) \cap Range(tx.inputs) = {}
         /\ \A n \in 1..Len(tx.outputs) :
              Owns(w, utxos'[<<tx.id, n>>]) <=>
                \E m \in 1..Len(Keys[w]) : tx.outputs[n].to = AddressOf(w, m)
         /\ Len(tx.outputs) = 2 => (Owns(w, utxos'[<<tx.id, 2>>]) <=> w = tx.from)
  <1>1. /\ Range(tx.inputs) \subseteq DOMAIN utxos
        /\ \A n \in 1..Len(tx.outputs) :
             /\ EntrySound(<<tx.id, n>>, utxos'[<<tx.id, n>>]) /\ IsStealth(utxos'[<<tx.id, n>>])
             /\ utxos'[<<tx.id, n>>].to = tx.outputs[n].to
    BY ConfirmLedger
  <1>2. InputsSound(tx) /\ OutputsSound(tx) /\ LedgerSound /\ tx.from \in Wallets
    BY DEF WInv, PendingSound
  <1>3. ASSUME NEW k \in Range(tx.inputs)
        PROVE  k \in DOMAIN utxos /\ (Owns(w, utxos[k]) <=> w = tx.from)
    <2>1. PICK j \in 1..Len(tx.inputs) : k = tx.inputs[j]
      BY <1>2 DEF InputsSound, Range
    <2>2. k \in DOMAIN utxos
      BY <1>1
    <2>3. IsStealth(utxos[k]) /\ \E n \in 1..Len(Keys[tx.from]) : utxos[k].to = AddressOf(tx.from, n)
      BY <1>2, <2>1, <2>2 DEF InputsSound
    <2>4. k \in Places /\ EntrySound(k, utxos[k])
      BY <1>2, <2>2 DEF LedgerSound, Past
    <2>5. Owns(w, utxos[k]) <=> \E n \in 1..Len(Keys[w]) : utxos[k].to = AddressOf(w, n)
      BY <2>3, <2>4, OwnsIs
    <2> QED  BY <1>2, <2>2, <2>3, <2>5, FreshAssumption
  <1>4. ASSUME NEW n \in 1..Len(tx.outputs)
        PROVE  Owns(w, utxos'[<<tx.id, n>>]) <=>
                 \E m \in 1..Len(Keys[w]) : tx.outputs[n].to = AddressOf(w, m)
    <2> DEFINE k == <<tx.id, n>>
    <2>1. k \in Places
      <3>1. sent' = sent \ {tx} /\ built' = built
        BY DEF Confirm
      <3> QED  BY <3>1, PastGrows
    <2>2. EntrySound(k, utxos'[k]) /\ IsStealth(utxos'[k]) /\ utxos'[k].to = tx.outputs[n].to
      BY <1>1
    <2> HIDE DEF k
    <2>3. Owns(w, utxos'[k]) <=> \E m \in 1..Len(Keys[w]) : utxos'[k].to = AddressOf(w, m)
      BY <2>1, <2>2, OwnsIs
    <2> QED  BY <2>2, <2>3 DEF k
  <1>5. ASSUME Len(tx.outputs) = 2  PROVE  Owns(w, utxos'[<<tx.id, 2>>]) <=> w = tx.from
    <2>1. tx.outputs[2].to = AddressOf(tx.from, 1) /\ 2 \in 1..Len(tx.outputs)
      BY <1>2, <1>5 DEF OutputsSound
    <2>2. Owns(w, utxos'[<<tx.id, 2>>]) <=>
            \E m \in 1..Len(Keys[w]) : AddressOf(tx.from, 1) = AddressOf(w, m)
      BY <1>4, <2>1
    <2>3. 1 \in 1..Len(Keys[tx.from])
      BY <1>2, AddressesAre
    <2> QED  BY <1>2, <2>2, <2>3, FreshAssumption
  <1> QED  BY <1>3, <1>4, <1>5 DEF OwnedIn

\* What it makes of each wallet's balance.
LEMMA ConfirmSettles ==
  ASSUME WInv, NEW tx \in sent, Confirm(tx), NEW w \in Wallets
  PROVE  LET toSelf == \E n \in 1..Len(Keys[tx.from]) : tx.outputs[1].to = AddressOf(tx.from, n)
         IN  Balance(w, utxos') - Balance(w, utxos) \in
               IF w # tx.from THEN {0, tx.amount} ELSE IF toSelf THEN {0} ELSE {-tx.amount}
  <1> DEFINE gone == Range(tx.inputs)
             new  == {<<tx.id, n>> : n \in 1..Len(tx.outputs)}
             lost == OwnedIn(w, utxos) \cap gone
             got  == {k \in new : Owns(w, utxos'[k])}
             a == <<tx.id, 1>>
             b == <<tx.id, 2>>
             toSelf == \E n \in 1..Len(Keys[tx.from]) : tx.outputs[1].to = AddressOf(tx.from, n)
             moved == Balance(w, utxos') - Balance(w, utxos)
  <1>1. /\ Money(utxos', got) \in Nat /\ Money(utxos, lost) \in Nat
        /\ moved = Money(utxos', got) - Money(utxos, lost)
    BY BalanceMoves
  <1>2. OutputsSound(tx)
    BY DEF WInv, PendingSound
  <1>3. /\ Len(tx.outputs) \in {1, 2} /\ tx.outputs[1].amount = tx.amount
        /\ 1 \in 1..Len(tx.outputs) /\ tx.amount \in Nat
    <2>1. Len(tx.outputs) \in {1, 2} /\ tx.outputs[1].amount = tx.amount
      BY <1>2 DEF OutputsSound
    <2>2. 1 \in 1..Len(tx.outputs)
      BY <2>1
    <2> QED  BY <1>2, <2>1, <2>2 DEF OutputsSound
  <1>4. a \in new /\ utxos'[a].amount = tx.amount
    <2>1. \A n \in 1..Len(tx.outputs) : utxos'[<<tx.id, n>>].amount = tx.outputs[n].amount
      BY ConfirmLedger
    <2> QED  BY <1>3, <2>1
  <1>5. /\ IsFiniteSet(new) /\ Money(utxos', new) = Paid(tx) /\ Money(utxos, gone) = Paid(tx)
        /\ DOMAIN utxos' = (DOMAIN utxos \ gone) \cup new
    BY ConfirmLedger
  <1>6. \A k \in new : k \in DOMAIN utxos' /\ utxos'[k].amount \in Nat
    <2>1. \A n \in 1..Len(tx.outputs) : utxos'[<<tx.id, n>>].amount = tx.outputs[n].amount
      BY ConfirmLedger
    <2>2. \A n \in 1..Len(tx.outputs) : tx.outputs[n].amount \in Nat
      BY <1>2 DEF OutputsSound
    <2>3. \A k \in new : utxos'[k].amount \in Nat
      BY <2>1, <2>2
    <2> QED  BY <1>5, <2>3
  <1>7. /\ w = tx.from => lost = gone
        /\ w # tx.from => lost = {}
    BY Owners
  <1>8. Owns(w, utxos'[a]) <=> \E m \in 1..Len(Keys[w]) : tx.outputs[1].to = AddressOf(w, m)
    BY <1>3, Owners
  <1>9. ASSUME NEW k \in new, k # a  PROVE  Owns(w, utxos'[k]) <=> w = tx.from
    <2>1. PICK n \in 1..Len(tx.outputs) : k = <<tx.id, n>>
      OBVIOUS
    <2>2. n # 1
      BY <1>9, <2>1
    <2>3. \A m \in {1, 2} : \A i \in 1..m : i # 1 => i = 2 /\ m = 2
      OBVIOUS
    <2>4. n = 2 /\ Len(tx.outputs) = 2
      BY <1>3, <2>2, <2>3
    <2> QED  BY <2>1, <2>4, Owners
  <1>10. /\ Money(utxos', new) = utxos'[a].amount + Money(utxos', new \ {a})
         /\ Money(utxos', new \ {a}) \in Nat
    <2>1. new \subseteq DOMAIN utxos' /\ new \ {a} \in SUBSET new
      BY <1>6
    <2> HIDE DEF new, a
    <2> QED  BY <1>4, <1>5, <1>6, <2>1, MoneyIs
  <1>11. Money(utxos', {a}) = tx.amount
    <2>1. IsFiniteSet({a}) /\ {a} \subseteq DOMAIN utxos' /\ a \in {a} /\ {a} \ {a} = {}
      BY <1>4, <1>5, <1>6, FS_Subset
    <2>2. \A k \in {a} : utxos'[k].amount \in Nat
      BY <1>3, <1>4
    <2> HIDE DEF a
    <2>3. Money(utxos', {a}) = utxos'[a].amount + Money(utxos', {a} \ {a})
      BY <2>1, <2>2, MoneyIs
    <2>4. Money(utxos', {a} \ {a}) = 0
      BY <2>1, MoneyNone
    <2> DEFINE m == Money(utxos', {a})
               z == Money(utxos', {a} \ {a})
    <2>5. m = utxos'[a].amount + z /\ z = 0
      BY <2>3, <2>4
    <2> HIDE DEF m, z
    <2>6. m = tx.amount
      BY <1>3, <1>4, <2>5
    <2> QED  BY <2>6 DEF m
  <1> HIDE DEF new, gone, lost, a, b, moved
  <1>12. CASE w # tx.from
    <2>1. Money(utxos, lost) = 0
      BY <1>7, <1>12, MoneyNone
    <2>2. got = {} \/ got = {a}
      BY <1>9, <1>12
    <2>3. Money(utxos', got) = 0 \/ Money(utxos', got) = tx.amount
      BY <1>11, <2>2, MoneyNone
    <2> HIDE DEF got
    <2>4. moved \in {0, tx.amount}
      BY <1>1, <1>3, <2>1, <2>3
    <2> QED  BY <1>12, <2>4 DEF moved
  <1>13. CASE w = tx.from /\ toSelf
    <2>1. got = new
      BY <1>8, <1>9, <1>13
    <2> HIDE DEF got
    <2>2. Money(utxos', got) = Paid(tx) /\ Money(utxos, lost) = Paid(tx)
      BY <1>5, <1>7, <1>13, <2>1
    <2>3. moved = 0
      BY <1>1, <2>2
    <2> QED  BY <1>13, <2>3 DEF moved
  <1>14. CASE w = tx.from /\ ~toSelf
    <2>1. got = new \ {a}
      BY <1>8, <1>9, <1>14
    <2>2. moved = Money(utxos', new \ {a}) - Money(utxos', new)
      BY <1>1, <1>5, <1>7, <1>14, <2>1
    <2>3. moved = -tx.amount
      <3> DEFINE rest == Money(utxos', new \ {a})
      <3>1. Money(utxos', new) = tx.amount + rest /\ rest \in Nat /\ moved = rest - Money(utxos', new)
        BY <1>4, <1>10, <2>2
      <3> HIDE DEF rest
      <3> QED  BY <1>3, <3>1
    <2> QED  BY <1>14, <2>3 DEF moved
  <1> HIDE DEF toSelf
  <1> QED  BY <1>12, <1>13, <1>14 DEF toSelf, moved

\* A step that changes the ledger settles a payment.
LEMMA StepSettles ==
  ASSUME WInv, [Next]_vars  PROVE  SettlesStep
  <1> SUFFICES ASSUME utxos' # utxos  PROVE  SettlesStep
    BY DEF SettlesStep
  <1>1. Next
    BY DEF vars
  <1>2. PICK tx \in sent : Confirm(tx)
    BY <1>1 DEF Next, Pay, Refuse
  <1>3. tx \in sent \ sent'
    BY <1>2 DEF Confirm
  <1>4. \A w \in Wallets :
          LET toSelf == \E n \in 1..Len(Keys[tx.from]) : tx.outputs[1].to = AddressOf(tx.from, n)
          IN  Balance(w, utxos') - Balance(w, utxos) \in
                IF w # tx.from THEN {0, tx.amount} ELSE IF toSelf THEN {0} ELSE {-tx.amount}
    BY <1>2, ConfirmSettles
  <1> QED  BY <1>3, <1>4 DEF SettlesStep

\* A confirmed payment takes the amount from its sender alone, unless it pays itself, and
\* gives it to one receiver at most.
THEOREM PaymentsSettle ==
  Spec => PaymentSettles
  <1>1. WInv /\ [Next]_vars => SettlesStep
    BY StepSettles
  <1> QED  BY <1>1, WalletIsSound, PTL DEF PaymentSettles, Spec
=============================================================================
