---------------------------- MODULE MempoolProofs ----------------------------
(***************************************************************************)
(* Proofs about the pool of pending transactions: the types and the bound, *)
(* the exactness of both indices, the absence of conflicts and the order   *)
(* by fee, and that nothing but the cheapest is pushed out.                *)
(***************************************************************************)
EXTENDS Mempool, UtxoLedgerProofs

\* The inductive invariant: a transaction that is twice in the vector, or two that
\* spend one output, would leave the indices wrong when one of them leaves.
IInv == TypeOK /\ IndicesExact /\ NoPendingConflict /\ FeeOrdered

-----------------------------------------------------------------------------
(* The two indices and the conflicts, in one form for images and outputs.  *)

ImagesOf == [t \in Tx |-> SpentImages(t)]
SpendsOf == [t \in Tx |-> SpentKeys(t)]

InVector(s, t) == \E n \in 1..Len(s) : s[n] = t

\* f maps every x to the transaction of s that bears it, if there is one.
IndexOf(f, X, bears, s) ==
  \A x \in X : \A t \in Tx : f[x] = t <=> InVector(s, t) /\ x \in bears[t]

\* No two places of s bear the same.
Apart(bears, s) ==
  \A m, n \in 1..Len(s) : m # n => bears[s[m]] \cap bears[s[n]] = {}

Sorted(s) == \A m, n \in 1..Len(s) : m < n => FeeOf(s[m]) >= FeeOf(s[n])

\* r is what is left of s without the places in out, in some order.
DrawnFrom(r, s, out) ==
  \E at \in [1..Len(r) -> 1..Len(s)] :
    /\ \A m \in 1..Len(r) : r[m] = s[at[m]]
    /\ \A m, n \in 1..Len(r) : at[m] = at[n] => m = n
    /\ \A m \in 1..Len(r) : at[m] \notin out
    /\ \A n \in (1..Len(s)) \ out : \E m \in 1..Len(r) : at[m] = n

\* The invariant says of images and of outputs what IndexOf and Apart say.
LEMMA InvariantByIndex ==
  /\ IndicesExact <=> /\ IndexOf(keyImages, Image, ImagesOf, pending)
                      /\ IndexOf(utxoSpends, Key, SpendsOf, pending)
  /\ TypeOK => (NoPendingConflict <=> Apart(ImagesOf, pending) /\ Apart(SpendsOf, pending))
  /\ FeeOrdered <=> Sorted(pending)
  <1>1. IndicesExact <=> /\ IndexOf(keyImages, Image, ImagesOf, pending)
                         /\ IndexOf(utxoSpends, Key, SpendsOf, pending)
    BY DEF IndicesExact, IndexOf, IsPending, InVector, ImagesOf, SpendsOf
  <1>2. ASSUME TypeOK
        PROVE  NoPendingConflict <=> Apart(ImagesOf, pending) /\ Apart(SpendsOf, pending)
    <2>1. \A n \in 1..Len(pending) : /\ ImagesOf[pending[n]] = SpentImages(pending[n])
                                     /\ SpendsOf[pending[n]] = SpentKeys(pending[n])
      BY <1>2 DEF TypeOK, ImagesOf, SpendsOf
    <2> QED  BY <2>1 DEF NoPendingConflict, Apart
  <1> QED  BY <1>1, <1>2 DEF FeeOrdered, Sorted

\* The same of the next state, as the steps prove it.
LEMMA IndexGivesInvariant ==
  ASSUME TypeOK', Sorted(pending'),
         IndexOf(keyImages', Image, ImagesOf, pending'),
         IndexOf(utxoSpends', Key, SpendsOf, pending'),
         Apart(ImagesOf, pending'), Apart(SpendsOf, pending')
  PROVE  IInv'
  <1>1. IndicesExact'
    BY DEF IndicesExact, IndexOf, IsPending, InVector, ImagesOf, SpendsOf
  <1>2. NoPendingConflict'
    <2>1. \A n \in 1..Len(pending') : /\ ImagesOf[pending'[n]] = SpentImages(pending'[n])
                                      /\ SpendsOf[pending'[n]] = SpentKeys(pending'[n])
      BY DEF TypeOK, ImagesOf, SpendsOf
    <2> QED  BY <2>1 DEF NoPendingConflict, Apart
  <1> QED  BY <1>1, <1>2 DEF IInv, FeeOrdered, Sorted

\* The fee of a transaction is an amount.
LEMMA FeeType ==
  ASSUME NEW t \in Tx
  PROVE  FeeOf(t) \in Nat
  BY SumsNatural DEF FeeOf

\* Places that bear nothing in common still do not after some have left.
LEMMA DrawnApart ==
  ASSUME NEW s \in Seq(Tx), NEW r \in Seq(Tx), NEW out, DrawnFrom(r, s, out),
         NEW bears, Apart(bears, s)
  PROVE  Apart(bears, r)
  <1>1. PICK at \in [1..Len(r) -> 1..Len(s)] :
          /\ \A m \in 1..Len(r) : r[m] = s[at[m]]
          /\ \A m, n \in 1..Len(r) : at[m] = at[n] => m = n
    BY DEF DrawnFrom
  <1>2. ASSUME NEW m \in 1..Len(r), NEW n \in 1..Len(r), m # n
        PROVE  bears[r[m]] \cap bears[r[n]] = {}
    <2>1. at[m] # at[n] /\ at[m] \in 1..Len(s) /\ at[n] \in 1..Len(s)
      BY <1>1, <1>2
    <2>2. r[m] = s[at[m]] /\ r[n] = s[at[n]]
      BY <1>1
    <2> QED  BY <2>1, <2>2 DEF Apart
  <1> QED  BY <1>2 DEF Apart

\* What is in the rest was there before, and what was there is in the rest unless
\* its places left.
LEMMA DrawnMembers ==
  ASSUME NEW s \in Seq(Tx), NEW r \in Seq(Tx), NEW out, DrawnFrom(r, s, out)
  PROVE  /\ \A t : InVector(r, t) <=> \E n \in (1..Len(s)) \ out : s[n] = t
         /\ \A t : InVector(r, t) => InVector(s, t)
  <1>1. PICK at \in [1..Len(r) -> 1..Len(s)] :
          /\ \A m \in 1..Len(r) : r[m] = s[at[m]]
          /\ \A m \in 1..Len(r) : at[m] \notin out
          /\ \A n \in (1..Len(s)) \ out : \E m \in 1..Len(r) : at[m] = n
    BY DEF DrawnFrom
  <1>2. ASSUME NEW t, InVector(r, t)
        PROVE  \E n \in (1..Len(s)) \ out : s[n] = t
    <2>1. PICK m \in 1..Len(r) : r[m] = t
      BY <1>2 DEF InVector
    <2>2. at[m] \in (1..Len(s)) \ out /\ s[at[m]] = t
      BY <2>1, <1>1
    <2> QED  BY <2>2
  <1>3. ASSUME NEW n \in (1..Len(s)) \ out  PROVE  InVector(r, s[n])
    <2>1. PICK m \in 1..Len(r) : at[m] = n
      BY <1>1
    <2> QED  BY <2>1, <1>1 DEF InVector
  <1> QED  BY <1>2, <1>3 DEF InVector

-----------------------------------------------------------------------------
(* submit: the eviction and the insertion.                                 *)

\* A vector that is not empty has a first among the cheapest.
LEMMA CheapestExists ==
  ASSUME pending \in Seq(Tx), pending # <<>>
  PROVE  /\ Cheapest \in 1..Len(pending)
         /\ \A m \in 1..Len(pending) : FeeOf(pending[Cheapest]) <= FeeOf(pending[m])
  <1> DEFINE fees == {FeeOf(pending[m]) : m \in 1..Len(pending)}
             low(n) == \A m \in 1..Len(pending) : FeeOf(pending[n]) <= FeeOf(pending[m])
             lows == {n \in 1..Len(pending) : low(n)}
  <1>1. Len(pending) \in Nat \ {0} /\ \A m \in 1..Len(pending) : pending[m] \in Tx
    BY EmptySeq, LenProperties, ElementOfSeq
  <1>2. \A m \in 1..Len(pending) : FeeOf(pending[m]) \in Nat
    BY <1>1, FeeType
  <1>3. fees \in SUBSET Nat /\ fees # {}
    BY <1>1, <1>2
  <1>4. PICK f \in fees : \A g \in fees : f <= g
    <2> HIDE DEF fees
    <2> QED  BY <1>3, LeastNatural
  <1>5. lows \in SUBSET Nat /\ lows # {}
    BY <1>4, <1>1
  <1>6. PICK n \in lows : \A m \in lows : n <= m
    <2> HIDE DEF lows
    <2> QED  BY <1>5, LeastNatural
  <1>7. \A m \in 1..(n - 1) : FeeOf(pending[n]) < FeeOf(pending[m])
    <2> SUFFICES ASSUME NEW m \in 1..(n - 1)  PROVE  FeeOf(pending[n]) < FeeOf(pending[m])
      OBVIOUS
    <2>1. n \in 1..Len(pending) /\ m \in 1..Len(pending) /\ m \notin lows /\ low(n)
      BY <1>1, <1>6
    <2>2. PICK j \in 1..Len(pending) : ~(FeeOf(pending[m]) <= FeeOf(pending[j]))
      BY <2>1
    <2>3. FeeOf(pending[n]) <= FeeOf(pending[j])
      BY <2>1
    <2> HIDE DEF low, lows
    <2> QED  BY <2>1, <2>2, <2>3, <1>2
  <1> QED  BY <1>6, <1>7 DEF Cheapest

\* swap_remove leaves the other places, and the cheapest being removed from a
\* sorted vector, leaves it sorted: the last was as cheap.
LEMMA KeptFacts ==
  ASSUME TypeOK
  PROVE  LET out == IF Full THEN {Cheapest} ELSE {}
         IN  /\ Kept \in Seq(Tx) /\ Len(Kept) < MaxPending /\ Len(Kept) <= Len(pending)
             /\ ~Full => Kept = pending
             /\ DrawnFrom(Kept, pending, out)
             /\ Sorted(pending) => Sorted(Kept)
             /\ Full => Cheapest \in 1..Len(pending) /\ Len(pending) = MaxPending
                        /\ Len(Kept) = Len(pending) - 1
                        /\ \A m \in 1..Len(pending) :
                             FeeOf(pending[Cheapest]) <= FeeOf(pending[m])
  <1> USE DEF TypeOK
  <1>1. Len(pending) \in Nat /\ MaxPending \in Nat \ {0}
        /\ \A m \in 1..Len(pending) : pending[m] \in Tx /\ FeeOf(pending[m]) \in Nat
    BY FeeType, MempoolAssumption
  <1>2. CASE ~Full
    <2>1. Kept = pending /\ Len(pending) < MaxPending
      BY <1>1, <1>2 DEF Full, Kept
    <2>2. DrawnFrom(pending, pending, {})
      <3> DEFINE at == [m \in 1..Len(pending) |-> m]
      <3>1. /\ at \in [1..Len(pending) -> 1..Len(pending)]
            /\ \A m \in 1..Len(pending) : at[m] = m
        OBVIOUS
      <3> HIDE DEF at
      <3> QED  BY <3>1 DEF DrawnFrom
    <2> QED  BY <1>1, <1>2, <2>1, <2>2
  <1>3. CASE Full
    <2> DEFINE c == Cheapest
               N == Len(pending)
               r == SwapRemove(pending, c)
               at == [m \in 1..(N - 1) |-> IF m = c THEN N ELSE m]
    <2>1. N = MaxPending /\ pending # <<>>
      BY <1>1, <1>3 DEF Full
    <2>2. c \in 1..N /\ \A m \in 1..N : FeeOf(pending[c]) <= FeeOf(pending[m])
      BY <2>1, CheapestExists
    <2> HIDE DEF c
    <2>3. N - 1 \in Nat /\ at \in [1..(N - 1) -> (1..N) \ {c}]
      BY <1>1, <2>1, <2>2
    <2>4. r = [m \in 1..(N - 1) |-> pending[at[m]]]
      BY <1>1, <2>1 DEF SwapRemove
    <2>5. r \in Seq(Tx) /\ Len(r) = N - 1 /\ \A m \in 1..(N - 1) : r[m] = pending[at[m]]
      BY <1>1, <2>3, <2>4
    <2>6. DrawnFrom(r, pending, {c})
      <3>1. \A m, n \in 1..(N - 1) : at[m] = at[n] => m = n
        BY <1>1
      <3>2. \A n \in (1..N) \ {c} : \E m \in 1..(N - 1) : at[m] = n
        <4>1. ASSUME NEW n \in (1..N) \ {c}  PROVE  \E m \in 1..(N - 1) : at[m] = n
          <5>1. CASE n < N
            <6>1. n \in 1..(N - 1) /\ at[n] = n
              BY <5>1, <1>1
            <6> QED  BY <6>1
          <5>2. CASE n = N
            <6>1. c \in 1..(N - 1) /\ at[c] = n
              BY <5>2, <1>1, <2>2
            <6> QED  BY <6>1
          <5> QED  BY <5>1, <5>2, <1>1
        <4> QED  BY <4>1
      <3> HIDE DEF at, r
      <3>3. /\ at \in [1..Len(r) -> 1..Len(pending)]
            /\ \A m \in 1..Len(r) : r[m] = pending[at[m]] /\ at[m] \notin {c}
        BY <2>3, <2>5
      <3>4. /\ \A m, n \in 1..Len(r) : at[m] = at[n] => m = n
            /\ \A n \in (1..Len(pending)) \ {c} : \E m \in 1..Len(r) : at[m] = n
        BY <3>1, <3>2, <2>5
      <3> QED  BY <3>3, <3>4 DEF DrawnFrom
    <2>7. ASSUME Sorted(pending)  PROVE  Sorted(r)
      <3>1. ASSUME NEW m \in 1..(N - 1), NEW n \in 1..(N - 1), m < n
            PROVE  FeeOf(r[m]) >= FeeOf(r[n])
        <4>0. m \in 1..N /\ n \in 1..N /\ at[m] \in 1..N /\ at[n] \in 1..N
          BY <1>1, <2>2
        <4>1. CASE m # c
          <5>1. at[m] = m /\ at[m] < at[n]
            BY <3>1, <4>1, <1>1
          <5>2. FeeOf(pending[at[m]]) >= FeeOf(pending[at[n]])
            BY <5>1, <4>0, <2>7 DEF Sorted
          <5> QED  BY <5>2, <2>5
        <4>2. CASE m = c
          <5>1. at[m] = N /\ at[n] = n /\ c < n /\ n < N
            BY <3>1, <4>2, <1>1
          <5>2. FeeOf(pending[c]) >= FeeOf(pending[n]) /\ FeeOf(pending[N]) >= FeeOf(pending[c])
            BY <5>1, <4>0, <2>2, <2>7, <1>1 DEF Sorted
          <5>3. FeeOf(pending[N]) >= FeeOf(pending[n])
            BY <5>2, <4>0, <1>1, <2>2
          <5> QED  BY <5>1, <5>3, <2>5
        <4> QED  BY <4>1, <4>2
      <3> HIDE DEF r, at
      <3> QED  BY <3>1, <2>5 DEF Sorted
    <2>8. Kept = r
      BY <1>3 DEF Kept, c
    <2> HIDE DEF r, at
    <2> QED  BY <1>1, <1>3, <2>1, <2>2, <2>5, <2>6, <2>7, <2>8 DEF c
  <1> QED  BY <1>2, <1>3

\* Inserting at a place of Positions.
LEMMA InsertFacts ==
  ASSUME NEW s \in Seq(Tx), NEW t \in Tx, NEW n \in 1..(Len(s) + 1)
  PROVE  LET r == InsertAt(s, n, t)
         IN  /\ r \in Seq(Tx) /\ Len(r) = Len(s) + 1
             /\ \A m \in 1..Len(r) :
                  r[m] = IF m < n THEN s[m] ELSE IF m = n THEN t ELSE s[m - 1]
  <1> DEFINE a == SubSeq(s, 1, n - 1)
             z == SubSeq(s, n, Len(s))
             r == InsertAt(s, n, t)
  <1>1. Len(s) \in Nat /\ n \in Nat /\ n >= 1 /\ n <= Len(s) + 1
    OBVIOUS
  <1>2. a \in Seq(Tx) /\ Len(a) = n - 1 /\ \A m \in 1..(n - 1) : a[m] = s[m]
    BY <1>1
  <1>3. z \in Seq(Tx) /\ Len(z) = Len(s) - n + 1
        /\ \A m \in 1..(Len(s) - n + 1) : z[m] = s[n + m - 1]
    BY <1>1
  <1>4. r = (a \o <<t>>) \o z
    BY DEF InsertAt
  <1> HIDE DEF a, z, r
  <1>5. a \o <<t>> \in Seq(Tx) /\ Len(a \o <<t>>) = n
        /\ \A m \in 1..n : (a \o <<t>>)[m] = IF m < n THEN s[m] ELSE t
    BY <1>1, <1>2
  <1>6. r \in Seq(Tx) /\ Len(r) = Len(s) + 1
    BY <1>1, <1>3, <1>4, <1>5
  <1>7. ASSUME NEW m \in 1..(Len(s) + 1)
        PROVE  r[m] = IF m < n THEN s[m] ELSE IF m = n THEN t ELSE s[m - 1]
    <2>1. CASE m <= n
      <3>1. r[m] = (a \o <<t>>)[m]
        BY <2>1, <1>1, <1>3, <1>4, <1>5
      <3> QED  BY <3>1, <2>1, <1>1, <1>5
    <2>2. CASE m > n
      <3>1. r[m] = z[m - n]
        BY <2>2, <1>1, <1>3, <1>4, <1>5
      <3>2. m - n \in 1..(Len(s) - n + 1) /\ n + (m - n) - 1 = m - 1
        BY <2>2, <1>1
      <3> QED  BY <3>1, <3>2, <2>2, <1>3
    <2> QED  BY <2>1, <2>2, <1>1
  <1> QED  BY <1>6, <1>7 DEF r

\* What the vector holds once t has been inserted.
LEMMA InsertMembers ==
  ASSUME NEW s \in Seq(Tx), NEW t \in Tx, NEW n \in 1..(Len(s) + 1)
  PROVE  \A v : InVector(InsertAt(s, n, t), v) <=> v = t \/ InVector(s, v)
  <1> DEFINE r == InsertAt(s, n, t)
  <1>1. /\ Len(s) \in Nat /\ Len(r) = Len(s) + 1
        /\ \A m \in 1..Len(r) :
             r[m] = IF m < n THEN s[m] ELSE IF m = n THEN t ELSE s[m - 1]
    BY InsertFacts
  <1> HIDE DEF r
  <1>2. InVector(r, t)
    BY <1>1 DEF InVector
  <1>3. ASSUME NEW m \in 1..Len(s)  PROVE  InVector(r, s[m])
    <2> DEFINE k == IF m < n THEN m ELSE m + 1
    <2>1. k \in 1..Len(r) /\ r[k] = s[m]
      BY <1>1
    <2> HIDE DEF k
    <2> QED  BY <2>1 DEF InVector
  <1>4. ASSUME NEW m \in 1..Len(r)  PROVE  r[m] = t \/ InVector(s, r[m])
    <2>1. CASE m = n
      BY <2>1, <1>1
    <2>2. CASE m < n
      <3>1. m \in 1..Len(s) /\ r[m] = s[m]
        BY <2>2, <1>1
      <3> QED  BY <3>1 DEF InVector
    <2>3. CASE m > n
      <3>1. m - 1 \in 1..Len(s) /\ r[m] = s[m - 1]
        BY <2>3, <1>1
      <3> QED  BY <3>1 DEF InVector
    <2> QED  BY <2>1, <2>2, <2>3, <1>1
  <1> QED  BY <1>2, <1>3, <1>4 DEF InVector, r

\* Inserting what bears nothing that s bears.
LEMMA InsertApart ==
  ASSUME NEW s \in Seq(Tx), NEW t \in Tx, NEW n \in 1..(Len(s) + 1),
         NEW bears, Apart(bears, s),
         \A m \in 1..Len(s) : bears[s[m]] \cap bears[t] = {}
  PROVE  Apart(bears, InsertAt(s, n, t))
  <1> DEFINE r == InsertAt(s, n, t)
             at(m) == IF m < n THEN m ELSE m - 1
  <1>1. /\ Len(s) \in Nat /\ Len(r) = Len(s) + 1
        /\ \A m \in 1..Len(r) :
             r[m] = IF m < n THEN s[m] ELSE IF m = n THEN t ELSE s[m - 1]
    BY InsertFacts
  <1> HIDE DEF r
  <1>2. \A m \in 1..Len(r) : m # n => at(m) \in 1..Len(s) /\ r[m] = s[at(m)]
    BY <1>1
  <1>3. \A m, k \in 1..Len(r) : m # n /\ k # n /\ m # k => at(m) # at(k)
    BY <1>1
  <1> HIDE DEF at
  <1>4. r[n] = t
    BY <1>1
  <1>5. ASSUME NEW m \in 1..Len(r), NEW k \in 1..Len(r), m # k
        PROVE  bears[r[m]] \cap bears[r[k]] = {}
    <2>1. CASE m = n
      BY <2>1, <1>2, <1>4, <1>5
    <2>2. CASE k = n
      BY <2>2, <1>2, <1>4, <1>5
    <2>3. CASE m # n /\ k # n
      <3>1. at(m) # at(k) /\ at(m) \in 1..Len(s) /\ at(k) \in 1..Len(s)
        BY <2>3, <1>2, <1>3, <1>5
      <3> QED  BY <3>1, <2>3, <1>2 DEF Apart
    <2> QED  BY <2>1, <2>2, <2>3
  <1> QED  BY <1>5 DEF Apart, r

\* The binary search finds a place that keeps the order.
LEMMA InsertSorted ==
  ASSUME NEW s \in Seq(Tx), Sorted(s), NEW t \in Tx, NEW n \in Positions(s, t)
  PROVE  Sorted(InsertAt(s, n, t))
  <1> DEFINE r == InsertAt(s, n, t)
  <1>1. /\ n \in 1..(Len(s) + 1)
        /\ \A m \in 1..(n - 1) : FeeOf(s[m]) >= FeeOf(t)
        /\ \A m \in n..Len(s) : FeeOf(s[m]) <= FeeOf(t)
    BY DEF Positions
  <1>2. /\ Len(s) \in Nat /\ Len(r) = Len(s) + 1
        /\ \A m \in 1..Len(r) :
             r[m] = IF m < n THEN s[m] ELSE IF m = n THEN t ELSE s[m - 1]
    BY <1>1, InsertFacts
  <1>3. FeeOf(t) \in Nat /\ \A m \in 1..Len(s) : FeeOf(s[m]) \in Nat
    BY FeeType
  <1> HIDE DEF r
  <1>4. ASSUME NEW m \in 1..Len(r), NEW k \in 1..Len(r), m < k
        PROVE  FeeOf(r[m]) >= FeeOf(r[k])
    <2>1. CASE k < n
      <3>1. m \in 1..Len(s) /\ k \in 1..Len(s) /\ r[m] = s[m] /\ r[k] = s[k]
        BY <2>1, <1>1, <1>2, <1>4
      <3> QED  BY <3>1, <1>4 DEF Sorted
    <2>2. CASE k = n
      <3>1. m \in 1..(n - 1) /\ r[m] = s[m] /\ r[k] = t
        BY <2>2, <1>1, <1>2, <1>4
      <3> QED  BY <3>1, <1>1
    <2>3. CASE k > n /\ m < n
      <3>1. /\ m \in 1..(n - 1) /\ m \in 1..Len(s) /\ r[m] = s[m]
            /\ k - 1 \in 1..Len(s) /\ r[k] = s[k - 1] /\ m < k - 1
        BY <2>3, <1>1, <1>2, <1>4
      <3> QED  BY <3>1 DEF Sorted
    <2>4. CASE m = n
      <3>1. k - 1 \in n..Len(s) /\ r[k] = s[k - 1] /\ r[m] = t /\ k - 1 \in 1..Len(s)
        BY <2>4, <1>1, <1>2, <1>4
      <3> QED  BY <3>1, <1>1, <1>3
    <2>5. CASE m > n
      <3>1. /\ m - 1 \in 1..Len(s) /\ k - 1 \in 1..Len(s) /\ m - 1 < k - 1
            /\ r[m] = s[m - 1] /\ r[k] = s[k - 1]
        BY <2>5, <1>1, <1>2, <1>4
      <3> QED  BY <3>1 DEF Sorted
    <2> QED  BY <2>1, <2>2, <2>3, <2>4, <2>5, <1>1, <1>2
  <1> QED  BY <1>4 DEF Sorted, r

\* An index is exact again once t has come in and what left a place of out, if
\* nothing had the marks of t.
LEMMA IndexAfterSubmit ==
  ASSUME NEW X, NEW bears \in [Tx -> SUBSET X], NEW f, NEW g,
         NEW s \in Seq(Tx), IndexOf(f, X, bears, s), Apart(bears, s),
         NEW out \in SUBSET (1..Len(s)), NEW r \in Seq(Tx), DrawnFrom(r, s, out),
         NEW t \in Tx, \A x \in bears[t] : f[x] = NoTx,
         NEW new, \A v : InVector(new, v) <=> v = t \/ InVector(r, v),
         \A x \in X : g[x] = IF x \in bears[t] THEN t
                             ELSE IF \E n \in out : x \in bears[s[n]] THEN NoTx ELSE f[x]
  PROVE  IndexOf(g, X, bears, new)
  <1>1. \A v : InVector(r, v) <=> \E n \in (1..Len(s)) \ out : s[n] = v
    BY DrawnMembers
  <1>2. \A v : InVector(r, v) => InVector(s, v)
    BY DrawnMembers
  <1>3. NoTx \notin Tx /\ \A n \in 1..Len(s) : s[n] \in Tx
    BY MempoolAssumption
  <1>4. ASSUME NEW x \in X, NEW v \in Tx
        PROVE  g[x] = v <=> InVector(new, v) /\ x \in bears[v]
    <2>1. f[x] = v <=> InVector(s, v) /\ x \in bears[v]
      BY DEF IndexOf
    <2>2. CASE x \in bears[t]
      <3>1. f[x] = NoTx /\ g[x] = t
        BY <2>2
      <3>2. ~(InVector(r, v) /\ x \in bears[v])
        BY <3>1, <2>1, <1>2, <1>3
      <3> QED  BY <3>1, <3>2, <2>2
    <2>3. ASSUME x \notin bears[t], NEW n \in out, x \in bears[s[n]]
          PROVE  g[x] = v <=> InVector(new, v) /\ x \in bears[v]
      <3>1. g[x] = NoTx
        BY <2>3
      <3>2. ~(InVector(r, v) /\ x \in bears[v])
        <4> SUFFICES ASSUME InVector(r, v), x \in bears[v]  PROVE  FALSE
          OBVIOUS
        <4>1. PICK m \in (1..Len(s)) \ out : s[m] = v
          BY <1>1
        <4>2. bears[s[m]] \cap bears[s[n]] = {}
          BY <4>1, <2>3 DEF Apart
        <4> QED  BY <4>1, <4>2, <2>3
      <3> QED  BY <3>1, <3>2, <2>3, <1>3
    <2>4. CASE x \notin bears[t] /\ ~\E n \in out : x \in bears[s[n]]
      <3>1. g[x] = f[x]
        BY <2>4
      <3>2. InVector(s, v) /\ x \in bears[v] => InVector(r, v)
        BY <2>4, <1>1 DEF InVector
      <3> QED  BY <3>1, <3>2, <2>1, <2>4, <1>2
    <2> QED  BY <2>2, <2>3, <2>4
  <1> QED  BY <1>4 DEF IndexOf

\* A submission that returns Ok preserves the invariant.
LEMMA SubmitIInv ==
  ASSUME IInv, NEW t \in Tx, Submit(ledger, t)
  PROVE  IInv'
  <1> DEFINE out == IF Full THEN {Cheapest} ELSE {}
  <1>1. TypeOK /\ IndicesExact /\ NoPendingConflict /\ FeeOrdered
    BY DEF IInv
  <1>2. /\ IndexOf(keyImages, Image, ImagesOf, pending)
        /\ IndexOf(utxoSpends, Key, SpendsOf, pending)
        /\ Apart(ImagesOf, pending) /\ Apart(SpendsOf, pending)
        /\ Sorted(pending)
    BY <1>1, InvariantByIndex
  <1>3. /\ Kept \in Seq(Tx) /\ Len(Kept) < MaxPending /\ DrawnFrom(Kept, pending, out)
        /\ Sorted(Kept)
        /\ Full => Cheapest \in 1..Len(pending)
    BY <1>1, <1>2, KeptFacts
  <1>4. PICK n \in Positions(Kept, t) : pending' = InsertAt(Kept, n, t)
    BY DEF Submit
  <1>5. n \in 1..(Len(Kept) + 1)
    BY DEF Positions
  <1>6. pending \in Seq(Tx) /\ out \in SUBSET (1..Len(pending))
    <2>1. pending \in Seq(Tx)
      BY <1>1 DEF TypeOK
    <2>2. Full => Cheapest \in 1..Len(pending)
      BY <1>3
    <2> QED  BY <2>1, <2>2
  <1>7. /\ ImagesOf \in [Tx -> SUBSET Image] /\ SpendsOf \in [Tx -> SUBSET Key]
        /\ \A u \in Tx : ImagesOf[u] = SpentImages(u) /\ SpendsOf[u] = SpentKeys(u)
    BY InputTypes DEF ImagesOf, SpendsOf
  <1>8. /\ \A x \in ImagesOf[t] : keyImages[x] = NoTx
        /\ \A x \in SpendsOf[t] : utxoSpends[x] = NoTx
    BY <1>7 DEF Submit, Admissible, SpentImages, SpentKeys
  <1>9. Leaving = {pending[m] : m \in out}
    BY DEF Leaving
  <1> HIDE DEF out
  <1>10. \A m \in out : /\ ImagesOf[pending[m]] = SpentImages(pending[m])
                        /\ SpendsOf[pending[m]] = SpentKeys(pending[m])
    BY <1>6, <1>7
  <1>11. /\ \A x \in Image : keyImages'[x] =
              IF x \in ImagesOf[t] THEN t
              ELSE IF \E m \in out : x \in ImagesOf[pending[m]] THEN NoTx ELSE keyImages[x]
         /\ \A x \in Key : utxoSpends'[x] =
              IF x \in SpendsOf[t] THEN t
              ELSE IF \E m \in out : x \in SpendsOf[pending[m]] THEN NoTx ELSE utxoSpends[x]
    <2>1. /\ \A x : (\E u \in Leaving : x \in SpentImages(u))
                     <=> \E m \in out : x \in ImagesOf[pending[m]]
          /\ \A x : (\E u \in Leaving : x \in SpentKeys(u))
                     <=> \E m \in out : x \in SpendsOf[pending[m]]
      BY <1>9, <1>10
    <2>2. ImagesOf[t] = SpentImages(t) /\ SpendsOf[t] = SpentKeys(t)
      BY <1>7
    <2> HIDE DEF Leaving
    <2> QED  BY <2>1, <2>2 DEF Submit
  <1>12. TypeOK'
    <2>1. pending' \in Seq(Tx) /\ Len(pending') = Len(Kept) + 1
      BY <1>3, <1>4, <1>5, InsertFacts
    <2>2. Len(pending') <= MaxPending
      BY <2>1, <1>3, MempoolAssumption
    <2>3. /\ keyImages' \in [Image -> Tx \cup {NoTx}]
          /\ utxoSpends' \in [Key -> Tx \cup {NoTx}]
      BY <1>1 DEF Submit, TypeOK
    <2> QED  BY <2>1, <2>2, <2>3 DEF TypeOK
  <1>13. \A v : InVector(pending', v) <=> v = t \/ InVector(Kept, v)
    BY <1>3, <1>4, <1>5, InsertMembers
  <1>14. IndexOf(keyImages', Image, ImagesOf, pending')
    BY <1>2, <1>3, <1>6, <1>7, <1>8, <1>11, <1>13, IndexAfterSubmit DEF out
  <1>15. IndexOf(utxoSpends', Key, SpendsOf, pending')
    BY <1>2, <1>3, <1>6, <1>7, <1>8, <1>11, <1>13, IndexAfterSubmit DEF out
  <1>16. Apart(ImagesOf, pending') /\ Apart(SpendsOf, pending')
    <2>1. Apart(ImagesOf, Kept) /\ Apart(SpendsOf, Kept)
      BY <1>2, <1>3, <1>6, DrawnApart
    <2>2. ASSUME NEW m \in 1..Len(Kept)
          PROVE  /\ ImagesOf[Kept[m]] \cap ImagesOf[t] = {}
                 /\ SpendsOf[Kept[m]] \cap SpendsOf[t] = {}
      <3>1. Kept[m] \in Tx /\ InVector(Kept, Kept[m])
        BY <1>3 DEF InVector
      <3>2. InVector(pending, Kept[m])
        BY <3>1, <1>3, <1>6, DrawnMembers
      <3>3. /\ \A x \in ImagesOf[Kept[m]] : x \in Image /\ keyImages[x] = Kept[m]
            /\ \A x \in SpendsOf[Kept[m]] : x \in Key /\ utxoSpends[x] = Kept[m]
        BY <3>1, <3>2, <1>2, <1>7 DEF IndexOf
      <3> QED  BY <3>1, <3>3, <1>8, MempoolAssumption
    <2> QED  BY <2>1, <2>2, <1>3, <1>4, <1>5, InsertApart
  <1>17. Sorted(pending')
    <2>1. Kept \in Seq(Tx) /\ Sorted(Kept) /\ n \in Positions(Kept, t)
      BY <1>3, <1>4
    <2>2. Sorted(InsertAt(Kept, n, t))
      BY <2>1, InsertSorted
    <2> QED  BY <2>2, <1>4
  <1> QED  BY <1>12, <1>14, <1>15, <1>16, <1>17, IndexGivesInvariant

-----------------------------------------------------------------------------
(* confirm_mined.                                                          *)

\* P has what is retained after each of the places of the vector.
RetainsBy(P, s, mined) ==
  /\ P \in [0..Len(s) -> Seq(Tx)]
  /\ P[0] = <<>> /\ P[Len(s)] = Retained(s, mined)
  /\ \A k \in 0..(Len(s) - 1) :
       P[k + 1] = IF s[k + 1] \in mined THEN P[k] ELSE Append(P[k], s[k + 1])

\* The retained vector is computed place by place.
LEMMA RetainedByPrefix ==
  ASSUME NEW s \in Seq(Tx), NEW mined
  PROVE  \E P : RetainsBy(P, s, mined)
  <1> DEFINE N == Len(s)
             keep(v, e) == IF e \in mined THEN v ELSE Append(v, e)
             Body(g) == [x \in SUBSET (DOMAIN s) |->
                           IF x = {} THEN <<>> ELSE keep(g[x \ {Max(x)}], s[Max(x)])]
             F == CHOOSE g : g = Body(g)
             step == [p \in Seq(Tx) \X Tx |-> keep(p[1], p[2])]
             P == [k \in 0..N |-> F[1..k]]
  <1>1. Retained(s, mined) = F[DOMAIN s]
    BY DEF Retained, FoldLeft, MapThenFoldSet
  <1>2. \A v \in Seq(Tx), e \in Tx : keep(v, e) \in Seq(Tx) /\ step[<<v, e>>] = keep(v, e)
    OBVIOUS
  <1>3. N \in Nat /\ DOMAIN s = 1..N /\ \A k \in 1..N : s[k] \in Tx
    OBVIOUS
  <1> HIDE DEF step, keep
  <1>4. FoldStep(Tx, Seq(Tx), <<>>, step)
    BY <1>2 DEF FoldStep
  <1>5. PICK g : FoldSolution(s, Seq(Tx), <<>>, step, g)
    BY <1>4, FoldRecursion
  <1>6. g = Body(g)
    <2>1. ASSUME NEW x \in SUBSET (DOMAIN s), x # {}
          PROVE  step[<<g[x \ {Max(x)}], s[Max(x)]>>] = keep(g[x \ {Max(x)}], s[Max(x)])
      <3>1. g[x \ {Max(x)}] \in Seq(Tx)
        BY <1>5 DEF FoldSolution
      <3>2. Max(x) \in DOMAIN s
        BY <2>1, <1>3, MaxOfInterval
      <3> QED  BY <3>1, <3>2, <1>2
    <2> QED  BY <2>1, <1>5 DEF FoldSolution
  <1>7. F = Body(F)
    BY <1>6
  <1> HIDE DEF F, N
  <1>8. F[1..0] = <<>>
    BY <1>7
  <1>9. ASSUME NEW k \in 0..(N - 1)  PROVE  F[1..(k + 1)] = keep(F[1..k], s[k + 1])
    <2>1. F[1..(k + 1)] = Body(F)[1..(k + 1)]
      BY <1>7
    <2> QED  BY <2>1, FirstPlaces DEF N
  <1>10. \A k \in 0..N : F[1..k] \in Seq(Tx)
    <2> DEFINE T == {k \in 0..N : F[1..k] \in Seq(Tx)}
    <2>1. 0 \in T
      <3>1. F[1..0] \in Seq(Tx)
        BY <1>8
      <3>2. 0 \in 0..N
        BY <1>3
      <3> QED  BY <3>1, <3>2
    <2>2. ASSUME NEW k \in 0..(N - 1), k \in T  PROVE  k + 1 \in T
      <3>1. k \in 0..N /\ k + 1 \in 0..N /\ s[k + 1] \in Tx /\ F[1..k] \in Seq(Tx)
        BY <2>2, <1>3
      <3> QED  BY <3>1, <1>2, <1>9
    <2> HIDE DEF T
    <2>3. \A k \in 0..N : k \in T
      BY <2>1, <2>2, <1>3, BoundedInduction
    <2> QED  BY <2>3 DEF T
  <1>11. P \in [0..N -> Seq(Tx)] /\ P[0] = <<>> /\ P[N] = F[DOMAIN s]
         /\ \A k \in 0..(N - 1) : P[k + 1] = keep(P[k], s[k + 1])
    BY <1>3, <1>8, <1>9, <1>10
  <1> HIDE DEF P
  <1> QED  BY <1>1, <1>11 DEF N, keep, RetainsBy

\* retain keeps the places of what was not mined, in their order; if it keeps
\* as many as there were, it keeps the vector.
LEMMA RetainedFacts ==
  ASSUME NEW s \in Seq(Tx), NEW mined
  PROVE  LET r == Retained(s, mined)
         IN  /\ r \in Seq(Tx) /\ Len(r) <= Len(s)
             /\ Len(r) = Len(s) => r = s
             /\ DrawnFrom(r, s, {n \in 1..Len(s) : s[n] \in mined})
             /\ Sorted(s) => Sorted(r)
  <1> DEFINE N == Len(s)
             Picks(r, k, at) ==
               /\ at \in [1..Len(r) -> 1..k]
               /\ \A m \in 1..Len(r) : r[m] = s[at[m]] /\ s[at[m]] \notin mined
               /\ \A m, n \in 1..Len(r) : m < n => at[m] < at[n]
               /\ \A n \in 1..k : s[n] \notin mined => \E m \in 1..Len(r) : at[m] = n
             Rest(r, k) ==
               /\ r \in Seq(Tx) /\ Len(r) <= k
               /\ Len(r) = k => \A m \in 1..k : r[m] = s[m]
               /\ \E at : Picks(r, k, at)
  <1>0. PICK P : RetainsBy(P, s, mined)
    BY RetainedByPrefix
  <1>1. /\ P \in [0..N -> Seq(Tx)]
        /\ P[0] = <<>> /\ P[N] = Retained(s, mined)
        /\ \A k \in 0..(N - 1) :
             P[k + 1] = IF s[k + 1] \in mined THEN P[k] ELSE Append(P[k], s[k + 1])
    BY <1>0 DEF RetainsBy
  <1>2. N \in Nat /\ \A k \in 1..N : s[k] \in Tx
    OBVIOUS
  <1>3. Rest(P[0], 0)
    <2>1. P[0] = <<>>
      BY <1>1
    <2>2. Picks(<<>>, 0, [m \in 1..0 |-> m])
      OBVIOUS
    <2> HIDE DEF Picks
    <2> QED  BY <2>1, <2>2
  <1>4. ASSUME NEW k \in 0..(N - 1), Rest(P[k], k)  PROVE  Rest(P[k + 1], k + 1)
    <2> DEFINE r == P[k]
    <2>1. k \in Nat /\ k + 1 \in 1..N
      BY <1>2
    <2>2. PICK at : Picks(r, k, at)
      BY <1>4
    <2>3. r \in Seq(Tx) /\ Len(r) \in Nat /\ Len(r) <= k
          /\ (Len(r) = k => \A m \in 1..k : r[m] = s[m])
      BY <1>4
    <2>4. P[k + 1] = IF s[k + 1] \in mined THEN r ELSE Append(r, s[k + 1])
      BY <1>1
    <2> HIDE DEF r
    <2>5. CASE s[k + 1] \in mined
      <3>1. P[k + 1] = r
        BY <2>4, <2>5
      <3>2. Picks(r, k + 1, at)
        <4>1. at \in [1..Len(r) -> 1..(k + 1)]
          BY <2>1, <2>2
        <4>2. \A n \in 1..(k + 1) : s[n] \notin mined => n \in 1..k
          BY <2>1, <2>5
        <4> QED  BY <4>1, <4>2, <2>2
      <3> HIDE DEF Picks
      <3> QED  BY <3>1, <3>2, <2>1, <2>3
    <2>6. CASE s[k + 1] \notin mined
      <3> DEFINE q == Append(r, s[k + 1])
                 to == [m \in 1..Len(q) |-> IF m = Len(q) THEN k + 1 ELSE at[m]]
      <3>1. P[k + 1] = q
        BY <2>4, <2>6
      <3>2. /\ q \in Seq(Tx) /\ Len(q) = Len(r) + 1 /\ q[Len(q)] = s[k + 1]
            /\ \A m \in 1..Len(r) : q[m] = r[m]
        BY <2>1, <2>3, <1>2
      <3> HIDE DEF q
      <3>3. \A m \in 1..Len(q) : m # Len(q) => m \in 1..Len(r)
        BY <2>3, <3>2
      <3>4. \A m \in 1..Len(r) : at[m] \in 1..k
        BY <2>2
      <3>5. to \in [1..Len(q) -> 1..(k + 1)]
        <4>1. \A m \in 1..Len(q) : to[m] \in 1..(k + 1)
          BY <2>1, <3>3, <3>4
        <4> QED  BY <4>1
      <3>6. \A m \in 1..Len(q) : q[m] = s[to[m]] /\ s[to[m]] \notin mined
        BY <2>2, <2>6, <3>2, <3>3
      <3>7. ASSUME NEW m \in 1..Len(q), NEW n \in 1..Len(q), m < n
            PROVE  to[m] < to[n]
        <4>1. m \in 1..Len(r)
          BY <3>2, <3>7, <2>3
        <4>2. CASE n = Len(q)
          <5>1. to[n] = k + 1 /\ to[m] = at[m] /\ at[m] \in 1..k
            BY <4>1, <4>2, <3>4, <3>7, <2>3
          <5> QED  BY <5>1, <2>1
        <4>3. CASE n # Len(q)
          <5>1. n \in 1..Len(r) /\ to[n] = at[n] /\ to[m] = at[m]
            BY <4>1, <4>3, <3>2, <3>3, <2>3
          <5> QED  BY <5>1, <4>1, <3>7, <2>2
        <4> QED  BY <4>2, <4>3
      <3>8. ASSUME NEW n \in 1..(k + 1), s[n] \notin mined
            PROVE  \E m \in 1..Len(q) : to[m] = n
        <4>1. CASE n = k + 1
          <5>1. Len(q) \in 1..Len(q) /\ to[Len(q)] = n
            BY <4>1, <3>2, <2>3
          <5> QED  BY <5>1
        <4>2. CASE n \in 1..k
          <5>1. PICK m \in 1..Len(r) : at[m] = n
            BY <4>2, <3>8, <2>2
          <5>2. m \in 1..Len(q) /\ m # Len(q) /\ to[m] = n
            BY <5>1, <3>2, <2>3
          <5> QED  BY <5>2
        <4> QED  BY <4>1, <4>2, <2>1
      <3> HIDE DEF to
      <3>9. Picks(q, k + 1, to)
        BY <3>5, <3>6, <3>7, <3>8
      <3>10. Len(q) <= k + 1 /\ (Len(q) = k + 1 => \A m \in 1..(k + 1) : q[m] = s[m])
        <4>1. Len(q) <= k + 1 /\ (Len(q) = k + 1 => Len(r) = k)
          BY <2>1, <2>3, <3>2
        <4>2. ASSUME Len(q) = k + 1, NEW m \in 1..(k + 1)  PROVE  q[m] = s[m]
          <5>1. CASE m = k + 1
            BY <5>1, <4>2, <3>2
          <5>2. CASE m \in 1..k
            <6>1. Len(r) = k /\ r[m] = s[m]
              BY <4>1, <4>2, <5>2, <2>3
            <6> QED  BY <6>1, <5>2, <3>2
          <5> QED  BY <5>1, <5>2, <2>1
        <4> QED  BY <4>1, <4>2
      <3> HIDE DEF Picks
      <3> QED  BY <3>1, <3>2, <3>9, <3>10
    <2> QED  BY <2>5, <2>6
  <1>5. Rest(P[N], N)
    <2> DEFINE T == {k \in 0..N : Rest(P[k], k)}
    <2> HIDE DEF Rest
    <2>1. 0 \in T
      BY <1>2, <1>3
    <2>2. ASSUME NEW k \in 0..(N - 1), k \in T  PROVE  k + 1 \in T
      BY <2>2, <1>2, <1>4
    <2> HIDE DEF T
    <2>3. \A k \in 0..N : k \in T
      BY <2>1, <2>2, <1>2, BoundedInduction
    <2> QED  BY <2>3, <1>2 DEF T
  <1> DEFINE r == Retained(s, mined)
  <1>6. r \in Seq(Tx) /\ Len(r) \in Nat /\ Len(r) <= N
        /\ (Len(r) = N => \A m \in 1..N : r[m] = s[m])
    BY <1>1, <1>5
  <1>7. PICK at : Picks(r, N, at)
    <2> HIDE DEF Picks
    <2> QED  BY <1>1, <1>5
  <1> HIDE DEF r
  <1>8. Len(r) = N => r = s
    <2>1. ASSUME NEW q \in Seq(Tx), Len(q) = Len(s), \A m \in 1..Len(s) : q[m] = s[m]
          PROVE  q = s
      BY <2>1, SeqEqual
    <2> QED  BY <2>1, <1>6
  <1>9. DrawnFrom(r, s, {n \in 1..Len(s) : s[n] \in mined})
    <2> DEFINE out == {n \in 1..Len(s) : s[n] \in mined}
    <2>1. at \in [1..Len(r) -> 1..Len(s)] /\ \A m \in 1..Len(r) : r[m] = s[at[m]]
      BY <1>7
    <2>2. \A m, n \in 1..Len(r) : at[m] = at[n] => m = n
      <3>1. ASSUME NEW m \in 1..Len(r), NEW n \in 1..Len(r), m # n
            PROVE  at[m] # at[n]
        <4>1. m < n \/ n < m
          BY <3>1, <1>6
        <4>2. at[m] \in 1..Len(s) /\ at[n] \in 1..Len(s)
          BY <2>1
        <4>3. at[m] < at[n] \/ at[n] < at[m]
          BY <4>1, <1>7
        <4> QED  BY <4>2, <4>3
      <3> QED  BY <3>1
    <2>3. /\ \A m \in 1..Len(r) : at[m] \notin out
          /\ \A n \in (1..Len(s)) \ out : \E m \in 1..Len(r) : at[m] = n
      BY <1>7
    <2> HIDE DEF out
    <2>4. DrawnFrom(r, s, out)
      BY <2>1, <2>2, <2>3 DEF DrawnFrom
    <2> QED  BY <2>4 DEF out
  <1>10. ASSUME Sorted(s)  PROVE  Sorted(r)
    <2>1. ASSUME NEW m \in 1..Len(r), NEW n \in 1..Len(r), m < n
          PROVE  FeeOf(r[m]) >= FeeOf(r[n])
      <3>1. at[m] \in 1..Len(s) /\ at[n] \in 1..Len(s) /\ at[m] < at[n]
            /\ r[m] = s[at[m]] /\ r[n] = s[at[n]]
        BY <2>1, <1>7
      <3> QED  BY <3>1, <1>10 DEF Sorted
    <2> QED  BY <2>1 DEF Sorted
  <1> QED  BY <1>6, <1>8, <1>9, <1>10 DEF r

\* Of some places of a vector one is the last.
LEMMA LastExists ==
  ASSUME NEW N \in Nat, NEW ns \in SUBSET (1..N), ns # {}
  PROVE  (CHOOSE n \in ns : \A m \in ns : m <= n) \in ns
  <1>1. Max(ns) \in ns /\ \A m \in ns : Max(ns) >= m
    BY MaxOfInterval
  <1>2. \A m \in ns : m \in Nat
    OBVIOUS
  <1>3. \E n \in ns : \A m \in ns : m <= n
    BY <1>1, <1>2
  <1> QED  BY <1>3

\* The rebuilt index names the only transaction that bears a mark.
LEMMA RebuiltIndex ==
  ASSUME NEW X, NEW bears \in [Tx -> SUBSET X], NEW s \in Seq(Tx), Apart(bears, s), NEW g,
         \A x \in X : g[x] = LastBearer(s, {n \in 1..Len(s) : x \in bears[s[n]]})
  PROVE  IndexOf(g, X, bears, s)
  <1>1. Len(s) \in Nat /\ NoTx \notin Tx /\ \A n \in 1..Len(s) : s[n] \in Tx
    BY MempoolAssumption
  <1>2. ASSUME NEW x \in X, NEW t \in Tx
        PROVE  g[x] = t <=> InVector(s, t) /\ x \in bears[t]
    <2> DEFINE ns == {n \in 1..Len(s) : x \in bears[s[n]]}
               last == CHOOSE n \in ns : \A m \in ns : m <= n
    <2>1. g[x] = IF ns = {} THEN NoTx ELSE s[last]
      BY DEF LastBearer
    <2>2. CASE ns = {}
      BY <2>1, <2>2, <1>1 DEF InVector
    <2>3. CASE ns # {}
      <3>1. last \in ns
        BY <2>3, <1>1, LastExists
      <3> HIDE DEF last
      <3>2. g[x] = s[last] /\ last \in 1..Len(s) /\ x \in bears[s[last]]
        BY <2>1, <2>3, <3>1
      <3>3. ASSUME NEW n \in 1..Len(s), x \in bears[s[n]]  PROVE  n = last
        BY <3>2, <3>3 DEF Apart
      <3> QED  BY <3>2, <3>3 DEF InVector
    <2> QED  BY <2>2, <2>3
  <1> QED  BY <1>2 DEF IndexOf

\* confirm_mined preserves the invariant.
LEMMA ConfirmIInv ==
  ASSUME IInv, NEW mined, ConfirmMined(mined)
  PROVE  IInv'
  <1> DEFINE out == {n \in 1..Len(pending) : pending[n] \in mined}
  <1>1. TypeOK /\ IndicesExact /\ NoPendingConflict /\ FeeOrdered /\ pending \in Seq(Tx)
    BY DEF IInv, TypeOK
  <1>2. Apart(ImagesOf, pending) /\ Apart(SpendsOf, pending) /\ Sorted(pending)
    BY <1>1, InvariantByIndex
  <1>3. pending' = Retained(pending, mined)
    BY DEF ConfirmMined
  <1>4. /\ pending' \in Seq(Tx) /\ Len(pending') <= Len(pending)
        /\ DrawnFrom(pending', pending, out) /\ Sorted(pending')
    BY <1>1, <1>2, <1>3, RetainedFacts
  <1> HIDE DEF out
  <1>5. Apart(ImagesOf, pending') /\ Apart(SpendsOf, pending')
    BY <1>1, <1>2, <1>4, DrawnApart
  <1>6. /\ ImagesOf \in [Tx -> SUBSET Image] /\ SpendsOf \in [Tx -> SUBSET Key]
        /\ \A n \in 1..Len(pending') : /\ ImagesOf[pending'[n]] = SpentImages(pending'[n])
                                       /\ SpendsOf[pending'[n]] = SpentKeys(pending'[n])
    BY <1>4, InputTypes DEF ImagesOf, SpendsOf
  <1>7. /\ keyImages' = [x \in Image |->
             LastBearer(pending', {n \in 1..Len(pending') : x \in SpentImages(pending'[n])})]
        /\ utxoSpends' = [x \in Key |->
             LastBearer(pending', {n \in 1..Len(pending') : x \in SpentKeys(pending'[n])})]
    BY DEF ConfirmMined
  <1>8. /\ \A x \in Image : keyImages'[x] =
             LastBearer(pending', {n \in 1..Len(pending') : x \in ImagesOf[pending'[n]]})
        /\ \A x \in Key : utxoSpends'[x] =
             LastBearer(pending', {n \in 1..Len(pending') : x \in SpendsOf[pending'[n]]})
    <2>1. /\ \A x : {n \in 1..Len(pending') : x \in ImagesOf[pending'[n]]}
                   = {n \in 1..Len(pending') : x \in SpentImages(pending'[n])}
          /\ \A x : {n \in 1..Len(pending') : x \in SpendsOf[pending'[n]]}
                   = {n \in 1..Len(pending') : x \in SpentKeys(pending'[n])}
      BY <1>6
    <2> QED  BY <2>1, <1>7
  <1>9. IndexOf(keyImages', Image, ImagesOf, pending')
    BY <1>4, <1>5, <1>6, <1>8, RebuiltIndex
  <1>10. IndexOf(utxoSpends', Key, SpendsOf, pending')
    BY <1>4, <1>5, <1>6, <1>8, RebuiltIndex
  <1>11. TypeOK'
    <2>1. Len(pending) \in Nat /\ Len(pending') \in Nat /\ Len(pending) <= MaxPending
          /\ MaxPending \in Nat
      BY <1>1, <1>4, MempoolAssumption DEF TypeOK
    <2>2. Len(pending') <= MaxPending
      BY <2>1, <1>4
    <2>3. \A ns \in SUBSET (1..Len(pending')) : LastBearer(pending', ns) \in Tx \cup {NoTx}
      <3> SUFFICES ASSUME NEW ns \in SUBSET (1..Len(pending')), ns # {}
                   PROVE  pending'[CHOOSE n \in ns : \A m \in ns : m <= n] \in Tx
        BY DEF LastBearer
      <3> DEFINE last == CHOOSE n \in ns : \A m \in ns : m <= n
      <3>1. last \in ns
        BY <2>1, LastExists
      <3> HIDE DEF last
      <3>2. pending'[last] \in Tx
        BY <3>1, <1>4
      <3> QED  BY <3>2 DEF last
    <2>4. keyImages' \in [Image -> Tx \cup {NoTx}] /\ utxoSpends' \in [Key -> Tx \cup {NoTx}]
      BY <1>7, <2>3
    <2> QED  BY <1>4, <2>2, <2>4 DEF TypeOK
  <1> QED  BY <1>4, <1>5, <1>9, <1>10, <1>11, IndexGivesInvariant

-----------------------------------------------------------------------------
(* The invariant and the properties.                                       *)

\* An empty pool satisfies the invariant: at the start, and when it is drained.
LEMMA EmptyIInv ==
  /\ PoolInit => IInv
  /\ Drain => IInv'
  <1>1. EmptyImages \in [Image -> Tx \cup {NoTx}] /\ EmptySpends \in [Key -> Tx \cup {NoTx}]
    BY DEF EmptyImages, EmptySpends
  <1>2. /\ \A i \in Image : EmptyImages[i] \notin Tx
        /\ \A k \in Key : EmptySpends[k] \notin Tx
    BY MempoolAssumption DEF EmptyImages, EmptySpends
  <1>3. <<>> \in Seq(Tx) /\ Len(<<>>) = 0 /\ 0 <= MaxPending
    BY MempoolAssumption
  <1>4. ASSUME PoolInit  PROVE  IInv
    BY <1>1, <1>2, <1>3, <1>4
    DEF PoolInit, IInv, TypeOK, IndicesExact, IsPending, NoPendingConflict, FeeOrdered
  <1>5. ASSUME Drain  PROVE  IInv'
    BY <1>1, <1>2, <1>3, <1>5
    DEF Drain, IInv, TypeOK, IndicesExact, IsPending, NoPendingConflict, FeeOrdered
  <1> QED  BY <1>4, <1>5

\* A step that leaves the pool alone keeps the invariant.
LEMMA StutterIInv ==
  ASSUME IInv, UNCHANGED pool
  PROVE  IInv'
  <1>1. pending' = pending /\ keyImages' = keyImages /\ utxoSpends' = utxoSpends
    BY DEF pool
  <1>2. TypeOK'
    BY <1>1 DEF IInv, TypeOK
  <1>3. IndicesExact'
    BY <1>1 DEF IInv, IndicesExact, IsPending
  <1>4. NoPendingConflict' /\ FeeOrdered'
    BY <1>1 DEF IInv, NoPendingConflict, FeeOrdered
  <1> QED  BY <1>2, <1>3, <1>4 DEF IInv

\* The invariant holds of every reachable state.
THEOREM InductiveInvariant == Spec => []IInv
  <1>1. Init => IInv
    BY EmptyIInv DEF Init
  <1>2. ASSUME IInv, [Next]_<<ledger, pool>>  PROVE  IInv'
    <2>1. ASSUME NEW t \in Tx, Submit(ledger, t)  PROVE  IInv'
      BY <1>2, <2>1, SubmitIInv
    <2>2. ASSUME NEW mined \in SUBSET ToSet(pending), ConfirmMined(mined)  PROVE  IInv'
      BY <1>2, <2>2, ConfirmIInv
    <2>3. CASE Drain
      BY <2>3, EmptyIInv
    <2>4. ASSUME NEW b \in Block, ChainMoves(b)  PROVE  IInv'
      BY <1>2, <2>4, StutterIInv DEF ChainMoves
    <2>5. CASE UNCHANGED <<ledger, pool>>
      BY <1>2, <2>5, StutterIInv
    <2> QED  BY <1>2, <2>1, <2>2, <2>3, <2>4, <2>5 DEF Next
  <1> QED  BY <1>1, <1>2, PTL DEF Spec

\* The fields of MempoolInner keep their types and the pool its bound.
THEOREM TypeCorrectness == Spec => []TypeOK
  <1>1. IInv => TypeOK
    BY DEF IInv
  <1> QED  BY <1>1, InductiveInvariant, PTL

\* An index entry exists exactly for what some pending transaction spends.
THEOREM IndicesAreExact == Spec => []IndicesExact
  <1>1. IInv => IndicesExact
    BY DEF IInv
  <1> QED  BY <1>1, InductiveInvariant, PTL

\* No two pending transactions spend one output or bear one image.
THEOREM PendingIsCompatible == Spec => []NoPendingConflict
  <1>1. IInv => NoPendingConflict
    BY DEF IInv
  <1> QED  BY <1>1, InductiveInvariant, PTL

\* The vector that is searched by bisection is sorted.
THEOREM VectorIsSorted == Spec => []FeeOrdered
  <1>1. IInv => FeeOrdered
    BY DEF IInv
  <1> QED  BY <1>1, InductiveInvariant, PTL

\* What leaves by a submission is the cheapest of a full pool.
LEMMA SubmitEvicts ==
  ASSUME IInv, NEW t \in Tx, Submit(ledger, t)
  PROVE  EvictionStep
  <1> DEFINE out == IF Full THEN {Cheapest} ELSE {}
  <1>1. TypeOK /\ pending \in Seq(Tx)
    BY DEF IInv, TypeOK
  <1>2. Kept \in Seq(Tx) /\ DrawnFrom(Kept, pending, out)
    BY <1>1, KeptFacts
  <1>3. Full => /\ Cheapest \in 1..Len(pending) /\ Len(pending) = MaxPending
                /\ \A m \in 1..Len(pending) :
                     FeeOf(pending[Cheapest]) <= FeeOf(pending[m])
    BY <1>1, KeptFacts
  <1>4. PICK n \in Positions(Kept, t) : pending' = InsertAt(Kept, n, t)
    BY DEF Submit
  <1>5. n \in 1..(Len(Kept) + 1)
    BY DEF Positions
  <1>6. pending' \in Seq(Tx) /\ \A v : InVector(pending', v) <=> v = t \/ InVector(Kept, v)
    BY <1>2, <1>4, <1>5, InsertFacts, InsertMembers
  <1>7. \A v : InVector(Kept, v) <=> \E m \in (1..Len(pending)) \ out : pending[m] = v
    BY <1>1, <1>2, DrawnMembers
  <1>8. /\ \A v : v \in ToSet(pending) <=> InVector(pending, v)
        /\ \A v : v \in ToSet(pending') <=> InVector(pending', v)
    BY <1>1, <1>6 DEF ToSet, InVector
  <1>9. Full => FeeOf(t) > FeeOf(pending[Cheapest])
    BY DEF Submit
  <1>10. ASSUME NEW v \in ToSet(pending) \ ToSet(pending')
         PROVE  Full /\ v = pending[Cheapest]
    <2>1. PICK m \in 1..Len(pending) : pending[m] = v
      BY <1>8 DEF InVector
    <2>2. m \in out
      BY <2>1, <1>6, <1>7, <1>8
    <2> QED  BY <2>1, <2>2
  <1>11. ASSUME NEW u \in ToSet(pending')
         PROVE  u = t \/ \E m \in 1..Len(pending) : pending[m] = u
    BY <1>6, <1>7, <1>8
  <1>12. ASSUME NEW u \in ToSet(pending') \ ToSet(pending)  PROVE  u = t
    BY <1>8, <1>11 DEF InVector
  <1>13. FeeOf(t) \in Nat /\ \A m \in 1..Len(pending) : FeeOf(pending[m]) \in Nat
    BY <1>1, FeeType
  <1> HIDE DEF out
  <1>14. ASSUME NEW v \in ToSet(pending) \ ToSet(pending')
         PROVE  /\ Len(pending) = MaxPending
                /\ ToSet(pending) \ ToSet(pending') = {v}
                /\ \A u \in ToSet(pending') : FeeOf(v) <= FeeOf(u)
                /\ \A u \in ToSet(pending') \ ToSet(pending) : FeeOf(v) < FeeOf(u)
    <2>1. Full /\ v = pending[Cheapest]
      BY <1>10
    <2>2. ToSet(pending) \ ToSet(pending') = {v}
      BY <1>10, <2>1
    <2>3. FeeOf(v) < FeeOf(t) /\ FeeOf(v) \in Nat
      BY <2>1, <1>3, <1>9, <1>13
    <2>4. ASSUME NEW u \in ToSet(pending')  PROVE  FeeOf(v) <= FeeOf(u)
      <3>1. CASE u = t
        BY <3>1, <2>3, <1>13
      <3>2. ASSUME NEW m \in 1..Len(pending), pending[m] = u
            PROVE  FeeOf(v) <= FeeOf(u)
        BY <3>2, <2>1, <1>3
      <3> QED  BY <3>1, <3>2, <1>11
    <2> QED  BY <2>1, <2>2, <2>3, <2>4, <1>3, <1>12
  <1> QED  BY <1>14 DEF EvictionStep

\* What submit pushes out is the cheapest, and nothing leaves otherwise unless the
\* vector shrinks.
THEOREM OnlyTheCheapestLeave == Spec => EvictsTheCheapest
  <1>1. ASSUME IInv, [Next]_<<ledger, pool>>  PROVE  [EvictionStep]_<<ledger, pool>>
    <2>1. ASSUME NEW t \in Tx, Submit(ledger, t)  PROVE  EvictionStep
      BY <1>1, <2>1, SubmitEvicts
    <2>2. ASSUME NEW mined \in SUBSET ToSet(pending), ConfirmMined(mined)  PROVE  EvictionStep
      <3>1. pending \in Seq(Tx) /\ pending' = Retained(pending, mined)
        BY <1>1, <2>2 DEF IInv, TypeOK, ConfirmMined
      <3> DEFINE r == Retained(pending, mined)
      <3>2. /\ r \in Seq(Tx) /\ Len(r) <= Len(pending)
            /\ Len(r) = Len(pending) => r = pending
        BY <3>1, RetainedFacts
      <3> HIDE DEF r
      <3>3. Len(r) \in Nat /\ Len(pending) \in Nat
        BY <3>1, <3>2
      <3> QED  BY <3>1, <3>2, <3>3 DEF EvictionStep, r
    <2>3. CASE Drain
      <3>1. pending \in Seq(Tx) /\ pending' = <<>>
        BY <1>1, <2>3 DEF IInv, TypeOK, Drain
      <3>2. Len(pending') >= Len(pending) => pending' = pending
        BY <3>1, EmptySeq
      <3> QED  BY <3>2 DEF EvictionStep
    <2>4. ASSUME NEW b \in Block, ChainMoves(b)  PROVE  EvictionStep
      BY <2>4 DEF ChainMoves, pool, EvictionStep
    <2> QED  BY <1>1, <2>1, <2>2, <2>3, <2>4 DEF Next
  <1> QED  BY <1>1, InductiveInvariant, PTL DEF Spec, EvictsTheCheapest
=============================================================================
