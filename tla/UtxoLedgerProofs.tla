-------------------------- MODULE UtxoLedgerProofs --------------------------
(***************************************************************************)
(* Proofs about the ledger: what one transaction does to the soundness of  *)
(* a ledger and a diff, and what a whole block does.                       *)
(***************************************************************************)
EXTENDS LedgerSoundness, Induction

USE DEF UtxoMap

-----------------------------------------------------------------------------
(* Amounts.                                                                *)

\* The inputs of a transaction, place by place.
LEMMA InputsByPlace ==
  ASSUME NEW t \in Tx
  PROVE  LET N == Len(Inputs[t])
         IN  /\ N \in Nat /\ DOMAIN Inputs[t] = 1..N
             /\ Inputs[t] = <<>> <=> N = 0
             /\ \A n \in 1..N : Inputs[t][n].key \in Key /\ Inputs[t][n].image \in Image
             /\ SpentKeys(t) = {Inputs[t][n].key : n \in 1..N}
             /\ SpentImages(t) = {Inputs[t][n].image : n \in 1..N}
  <1> DEFINE s == Inputs[t]
  <1>1. s \in Seq([key : Key, image : Image])
    BY TransactionAssumption
  <1>2. SpentKeys(t) = {i.key : i \in ToSet(s)} /\ SpentImages(t) = {i.image : i \in ToSet(s)}
    BY DEF SpentKeys, SpentImages
  <1> HIDE DEF s
  <1>3. Len(s) \in Nat /\ DOMAIN s = 1..Len(s) /\ (s = <<>> <=> Len(s) = 0)
    BY <1>1
  <1>4. \A n \in 1..Len(s) : s[n] \in [key : Key, image : Image]
    BY <1>1, ElementOfSeq
  <1>5. ToSet(s) = {s[n] : n \in 1..Len(s)}
    BY <1>3 DEF ToSet
  <1>6. \A n \in 1..Len(s) : s[n].key \in Key /\ s[n].image \in Image
    BY <1>4
  <1> QED  BY <1>2, <1>3, <1>5, <1>6 DEF s

\* The keys that a transaction spends and makes are finitely many.
LEMMA TxKeysFinite ==
  ASSUME NEW t \in Tx
  PROVE  /\ IsFiniteSet(SpentKeys(t)) /\ SpentKeys(t) \subseteq Key
         /\ IsFiniteSet(KeysOf(t)) /\ KeysOf(t) \subseteq Key
  <1>1. IsFiniteSet(SpentKeys(t))
    <2>1. Len(Inputs[t]) \in Nat
      BY InputsByPlace
    <2>2. IsFiniteSet(1..Len(Inputs[t]))
      BY <2>1, FS_Interval
    <2> DEFINE f == [n \in 1..Len(Inputs[t]) |-> Inputs[t][n].key]
    <2>3. f \in Surjection(1..Len(Inputs[t]), SpentKeys(t))
      BY InputsByPlace DEF Surjection
    <2> QED  BY <2>2, <2>3, FS_Surjection
  <1>2. IsFiniteSet(KeysOf(t))
    <2>1. IsFiniteSet(1..Outputs[t])
      BY TransactionAssumption, FS_Interval
    <2> DEFINE f == [i \in 1..Outputs[t] |-> <<t, i>>]
    <2>2. f \in Surjection(1..Outputs[t], KeysOf(t))
      BY DEF Surjection, KeysOf
    <2> QED  BY <2>1, <2>2, FS_Surjection
  <1>3. SpentKeys(t) \subseteq Key
    BY InputsByPlace
  <1>4. KeysOf(t) \subseteq Key
    BY DEF Key
  <1> QED  BY <1>1, <1>2, <1>3, <1>4

\* What a transaction takes in and pays out are amounts.
LEMMA SumsNatural ==
  ASSUME NEW t \in Tx
  PROVE  /\ TotalIn(t) \in Nat /\ TotalOut(t) \in Nat
         /\ CoinbaseAmount(t) \in Nat
         /\ CoinbaseAmount(t) <= TotalOut(t)
  <1> DEFINE N == Len(Inputs[t])
             g == [n \in 1..N |-> Amount[Inputs[t][n].key]]
  <1>1. \A k \in Key : Amount[k] \in Nat
    BY TransactionAssumption
  <1>2. TotalOut(t) \in Nat
    BY <1>1, TxKeysFinite, SumType DEF TotalOut
  <1>3. N \in Nat /\ \A n \in 1..N : Inputs[t][n].key \in Key
    BY InputsByPlace
  <1>4. IsFiniteSet(1..N) /\ DOMAIN g = 1..N /\ \A n \in 1..N : g[n] \in Nat
    <2> HIDE DEF N
    <2>1. IsFiniteSet(1..N)
      BY <1>3, FS_Interval
    <2> QED  BY <2>1, <1>1, <1>3
  <1>5. TotalIn(t) = SumFunctionOnSet(g, 1..N)
    BY <1>4 DEF TotalIn, SumFunction
  <1> HIDE DEF N, g
  <1>6. TotalIn(t) \in Nat
    BY <1>4, <1>5, SumType
  <1>7. U64 \in Nat \ {0}
    BY TransactionAssumption
  <1>8. /\ TotalOut(t) % U64 \in Nat
        /\ TotalOut(t) % U64 <= TotalOut(t)
    <2>1. \A a \in Nat, m \in Nat \ {0} : a % m \in Nat /\ a % m <= a
      OBVIOUS
    <2> QED  BY <1>2, <1>7, <2>1
  <1> QED  BY <1>2, <1>6, <1>8 DEF CoinbaseAmount

\* A transaction that names each output once takes in what those outputs hold.
LEMMA TotalInOfKeys ==
  ASSUME NEW t \in Tx,
         \A i, j \in 1..Len(Inputs[t]) : Inputs[t][i].key = Inputs[t][j].key => i = j
  PROVE  TotalIn(t) = SumFunctionOnSet(Amount, SpentKeys(t))
  <1> DEFINE N == Len(Inputs[t])
             p == [n \in 1..N |-> Inputs[t][n].key]
             g == [n \in 1..N |-> Amount[Inputs[t][n].key]]
  <1>1. N \in Nat /\ \A n \in 1..N : Inputs[t][n].key \in Key
    BY InputsByPlace
  <1>2. /\ IsFiniteSet(1..N) /\ DOMAIN g = 1..N
        /\ \A n \in 1..N : g[n] = Amount[p[n]] /\ Amount[p[n]] \in Nat
    <2> HIDE DEF N
    <2>1. IsFiniteSet(1..N)
      BY <1>1, FS_Interval
    <2>2. \A k \in Key : Amount[k] \in Nat
      BY TransactionAssumption
    <2> QED  BY <2>1, <2>2, <1>1
  <1>3. \A i, j \in 1..N : p[i] = p[j] => i = j
    OBVIOUS
  <1>4. SpentKeys(t) = {p[n] : n \in 1..N}
    <2>1. SpentKeys(t) = {Inputs[t][n].key : n \in 1..N}
      BY InputsByPlace
    <2>2. \A n \in 1..N : p[n] = Inputs[t][n].key
      OBVIOUS
    <2> HIDE DEF p, N
    <2> QED  BY <2>1, <2>2
  <1>5. TotalIn(t) = SumFunctionOnSet(g, 1..N)
    BY <1>2 DEF TotalIn, SumFunction
  <1> HIDE DEF N, p, g
  <1>6. SumFunctionOnSet(g, 1..N) = SumFunctionOnSet(Amount, SpentKeys(t))
    <2>1. IsFiniteSet(1..N)
      BY <1>2
    <2>2. \A k \in SpentKeys(t) : Amount[k] \in Nat
      BY TxKeysFinite, TransactionAssumption
    <2>3. Names(p, 1..N, SpentKeys(t), Amount, g)
      BY <2>2, <1>2, <1>3, <1>4 DEF Names
    <2> QED  BY <2>1, <2>3, SumReindex
  <1> QED  BY <1>5, <1>6

-----------------------------------------------------------------------------
(* Keys, ledgers and diffs.                                                *)

\* The first component of an output's key is the transaction that made it.
LEMMA KeyMaker ==
  ASSUME NEW t \in Tx
  PROVE  /\ KeysOf(t) \subseteq Key
         /\ \A k \in Key : k \in KeysOf(t) <=> k[1] = t
  <1>1. KeysOf(t) \subseteq Key
    BY DEF Key
  <1>2. ASSUME NEW k \in KeysOf(t)  PROVE  k[1] = t
    BY <1>2 DEF KeysOf
  <1>3. ASSUME NEW k \in Key, k[1] = t  PROVE  k \in KeysOf(t)
    <2>1. PICK u \in Tx : k \in KeysOf(u)
      BY DEF Key
    <2>2. u = t
      BY <2>1, <1>3 DEF KeysOf
    <2> QED  BY <2>1, <2>2
  <1> QED  BY <1>1, <1>2, <1>3

\* A transaction's inputs name keys and images, and it has images if it has
\* inputs.
LEMMA InputTypes ==
  ASSUME NEW t \in Tx
  PROVE  /\ SpentKeys(t) \subseteq Key
         /\ SpentImages(t) \subseteq Image
         /\ Inputs[t] # <<>> => SpentImages(t) # {}
         /\ Inputs[t] = <<>> => SpentKeys(t) = {} /\ SpentImages(t) = {}
  <1>1. Inputs[t] # <<>> => 1 \in 1..Len(Inputs[t])
    BY InputsByPlace
  <1>2. Inputs[t] = <<>> => 1..Len(Inputs[t]) = {}
    BY InputsByPlace
  <1> DEFINE N == Len(Inputs[t])
             K == SpentKeys(t)
             I == SpentImages(t)
  <1>3. /\ K = {Inputs[t][n].key : n \in 1..N} /\ I = {Inputs[t][n].image : n \in 1..N}
        /\ \A n \in 1..N : Inputs[t][n].key \in Key /\ Inputs[t][n].image \in Image
    BY InputsByPlace
  <1> HIDE DEF K, I
  <1>4. K \subseteq Key /\ I \subseteq Image
    BY <1>3
  <1>5. Inputs[t] # <<>> => I # {}
    BY <1>1, <1>3
  <1>6. Inputs[t] = <<>> => K = {} /\ I = {}
    BY <1>2, <1>3
  <1> QED  BY <1>4, <1>5, <1>6 DEF K, I

\* Applying a transaction keeps the ledger and the diff in their types.
LEMMA AfterTxTypes ==
  ASSUME NEW L \in UtxoSet, NEW D \in BlockDiff,
         NEW b \in Block, NEW n \in 1..Len(TxsOf[b])
  PROVE  /\ LedgerAfterTx(L, b, n) \in UtxoSet
         /\ DiffAfterTx(D, L, b, n) \in BlockDiff
  <1> DEFINE t == TxsOf[b][n]
  <1>1. t \in Tx
    BY BlockAssumption
  <1>2. Height[b] \in Nat /\ CoinbaseAmount(t) \in Nat
    BY <1>1, BlockAssumption, SumsNatural
  <1>3. KeysOf(t) \subseteq Key /\ SpentImages(t) \subseteq Image
    BY <1>1, KeyMaker, InputTypes
  <1> HIDE DEF t
  <1>4. AddOutputs(RemoveInputs(L, t), t, Height[b]) \in UtxoSet
    <2>1. RemoveInputs(L, t) \in UtxoSet
      BY <1>3 DEF UtxoSet, RemoveInputs
    <2> QED  BY <2>1, <1>2, <1>3 DEF UtxoSet, AddOutputs
  <1>5. AddSupply(AddOutputs(L, t, Height[b]), CoinbaseAmount(t)) \in UtxoSet
    BY <1>2, <1>3 DEF UtxoSet, AddOutputs, AddSupply
  <1>6. RecordOutputs(RecordInputs(D, L, t), t) \in BlockDiff
    <2>1. RecordInputs(D, L, t) \in BlockDiff
      BY <1>3 DEF UtxoSet, BlockDiff, RecordInputs
    <2> QED  BY <2>1, <1>3 DEF BlockDiff, RecordOutputs
  <1>7. RecordOutputs(RecordSupply(D, CoinbaseAmount(t)), t) \in BlockDiff
    BY <1>2, <1>3 DEF BlockDiff, RecordOutputs, RecordSupply
  <1> QED  BY <1>4, <1>5, <1>6, <1>7 DEF LedgerAfterTx, DiffAfterTx, t

\* Reading the fields of the ledger and the diff a coinbase leaves.
LEMMA LedgerAfterCoinbase ==
  ASSUME NEW L \in UtxoSet, NEW b \in Block
  PROVE  LET t  == TxsOf[b][1]
             M  == LedgerAfterTx(L, b, 1)
         IN  /\ \A k \in Key : M.utxos[k] = IF k \in KeysOf(t) THEN Height[b]
                                            ELSE L.utxos[k]
             /\ M.images = L.images
             /\ M.supply = L.supply + CoinbaseAmount(t)
  BY DEF LedgerAfterTx, AddSupply, AddOutputs

\* What the diff records of a coinbase: its outputs and its supply.
LEMMA DiffAfterCoinbase ==
  ASSUME NEW L \in UtxoSet, NEW D \in BlockDiff, NEW b \in Block
  PROVE  LET t  == TxsOf[b][1]
             E  == DiffAfterTx(D, L, b, 1)
         IN  /\ E.consumed = D.consumed
             /\ E.created = D.created \cup KeysOf(t)
             /\ E.images = D.images
             /\ E.supply = D.supply + CoinbaseAmount(t)
  BY DEF DiffAfterTx, RecordSupply, RecordOutputs

\* The same for a transaction that spends.
LEMMA LedgerAfterSpend ==
  ASSUME NEW L \in UtxoSet, NEW b \in Block, NEW n \in Nat, n > 1
  PROVE  LET t  == TxsOf[b][n]
             M  == LedgerAfterTx(L, b, n)
         IN  /\ \A k \in Key : M.utxos[k] = IF k \in KeysOf(t) THEN Height[b]
                                            ELSE IF k \in SpentKeys(t) THEN NoEntry
                                            ELSE L.utxos[k]
             /\ M.images = L.images \cup SpentImages(t)
             /\ M.supply = L.supply
  BY DEF LedgerAfterTx, AddOutputs, RemoveInputs

\* What the diff records of a spend: the entries it removes, its outputs and
\* its images.
LEMMA DiffAfterSpend ==
  ASSUME NEW L \in UtxoSet, NEW D \in BlockDiff, NEW b \in Block, NEW n \in Nat, n > 1
  PROVE  LET t  == TxsOf[b][n]
             E  == DiffAfterTx(D, L, b, n)
         IN  /\ \A k \in Key : E.consumed[k] = IF k \in SpentKeys(t) THEN L.utxos[k]
                                               ELSE D.consumed[k]
             /\ E.created = D.created \cup KeysOf(t)
             /\ E.images = D.images \cup SpentImages(t)
             /\ E.supply = D.supply
  BY DEF DiffAfterTx, RecordInputs, RecordOutputs

\* A transaction that passes spends what the ledger holds, under new images.
LEMMA AcceptedSpend ==
  ASSUME NEW L \in UtxoSet, NEW b \in Block, NEW n \in 1..Len(TxsOf[b]), n > 1,
         Accepts(L, b, n)
  PROVE  /\ \A k \in SpentKeys(TxsOf[b][n]) : Exists(L, k)
         /\ SpentImages(TxsOf[b][n]) \cap L.images = {}
  BY DEF Accepts, ValidateTransaction, SpentKeys, SpentImages

\* The next transaction of a block has not been confirmed before, if that holds of one
\* without inputs: a confirmed spend has its images marked.
LEMMA FreshTransaction ==
  ASSUME NEW L \in UtxoSet, NEW C \in SUBSET Tx, Rooted(L, C),
         NEW b \in Block, NEW n \in 1..Len(TxsOf[b]), Accepts(L, b, n),
         Inputs[TxsOf[b][n]] = <<>> => TxsOf[b][n] \notin C
  PROVE  TxsOf[b][n] \notin C
  <1>1. CASE Inputs[TxsOf[b][n]] = <<>>
    BY <1>1
  <1>2. CASE Inputs[TxsOf[b][n]] # <<>>
    <2> DEFINE t == TxsOf[b][n]
    <2>1. t \in Tx /\ n > 1
      <3>1. TxsOf[b] \in Seq(Tx)
        BY BlockAssumption
      <3>2. t \in Tx
        BY <3>1, ElementOfSeq
      <3>3. n # 1
        BY <1>2 DEF Accepts, CoinbaseChecks
      <3> QED  BY <3>2, <3>3
    <2>2. SpentImages(t) # {} /\ SpentImages(t) \cap L.images = {}
      BY <2>1, <1>2, InputTypes, AcceptedSpend
    <2>3. t \in C => SpentImages(t) \subseteq L.images
      BY DEF Rooted
    <2> QED  BY <2>2, <2>3
  <1> QED  BY <1>1, <1>2

\* A ledger rooted in C is, one accepted transaction later, rooted in C
\* and that transaction.
LEMMA RootedStep ==
  ASSUME NEW L \in UtxoSet, NEW C \in SUBSET Tx, Rooted(L, C),
         NEW b \in Block, NEW n \in 1..Len(TxsOf[b]), Accepts(L, b, n),
         TxsOf[b][n] \notin C
  PROVE  Rooted(LedgerAfterTx(L, b, n), C \cup {TxsOf[b][n]})
  <1> DEFINE t == TxsOf[b][n]
             M == LedgerAfterTx(L, b, n)
             E == C \cup {t}
  <1>1. t \in Tx /\ Height[b] # NoEntry
    BY BlockAssumption, TransactionAssumption
  <1>2. \A k \in Key : k \in KeysOf(t) <=> k[1] = t
    BY <1>1, KeyMaker
  <1>3. \A u \in E : SpentKeys(u) \subseteq Key
    BY <1>1, InputTypes
  <1>4. CASE n = 1
    <2>1. SpentKeys(t) = {} /\ SpentImages(t) = {}
      BY <1>1, <1>4, InputTypes DEF Accepts, CoinbaseChecks
    <2>2. /\ \A k \in Key : M.utxos[k] = IF k \in KeysOf(t) THEN Height[b] ELSE L.utxos[k]
          /\ M.images = L.images
      BY <1>4, LedgerAfterCoinbase
    <2>t. t \notin C
      OBVIOUS
    <2> HIDE DEF t, M
    <2>3. \A k \in Key : Exists(M, k) <=> Exists(L, k) \/ k[1] = t
      BY <2>2, <1>1, <1>2 DEF Exists
    <2>4. \A k \in Key : Exists(M, k) => k[1] \in E
      BY <2>3 DEF Rooted
    <2>5. \A u \in E : SpentImages(u) \subseteq M.images
      BY <2>1, <2>2 DEF Rooted
    <2>6. \A u \in E : \A k \in SpentKeys(u) : k[1] \in E /\ ~Exists(M, k)
      BY <2>1, <2>3, <2>t, <1>3 DEF Rooted
    <2>7. \A u, v \in E : u # v => SpentKeys(u) \cap SpentKeys(v) = {}
      BY <2>1 DEF Rooted
    <2> QED  BY <2>4, <2>5, <2>6, <2>7 DEF Rooted, t, M
  <1>5. CASE n > 1
    <2>1. /\ \A k \in SpentKeys(t) : Exists(L, k)
          /\ SpentImages(t) \cap L.images = {}
      BY <1>5, AcceptedSpend
    <2>2. /\ \A k \in Key : M.utxos[k] = IF k \in KeysOf(t) THEN Height[b]
                                         ELSE IF k \in SpentKeys(t) THEN NoEntry
                                         ELSE L.utxos[k]
          /\ M.images = L.images \cup SpentImages(t)
      BY <1>5, LedgerAfterSpend
    <2>t. t \notin C
      OBVIOUS
    <2> HIDE DEF t, M
    <2>3. \A k \in Key : Exists(M, k) <=> k[1] = t \/ (Exists(L, k) /\ k \notin SpentKeys(t))
      BY <2>2, <1>1, <1>2 DEF Exists
    <2>4. \A k \in Key : Exists(M, k) => k[1] \in E
      BY <2>3 DEF Rooted
    <2>5. \A u \in E : SpentImages(u) \subseteq M.images
      BY <2>2 DEF Rooted
    <2>6. \A k \in SpentKeys(t) : k[1] \in C
      BY <2>1, <1>3 DEF Rooted
    <2>7. \A u \in E : \A k \in SpentKeys(u) : k[1] \in E /\ ~Exists(M, k)
      BY <2>3, <2>6, <2>t, <1>3 DEF Rooted
    <2>8. \A u, v \in E : u # v => SpentKeys(u) \cap SpentKeys(v) = {}
      <3>1. \A u \in C : SpentKeys(u) \cap SpentKeys(t) = {}
        BY <2>1 DEF Rooted
      <3> QED  BY <3>1 DEF Rooted
    <2> QED  BY <2>4, <2>5, <2>7, <2>8 DEF Rooted, t, M
  <1> QED  BY <1>4, <1>5

\* One that has no other images has none after it either.
LEMMA GroundedStep ==
  ASSUME NEW L \in UtxoSet, NEW C \in SUBSET Tx, Grounded(L, C),
         NEW b \in Block, NEW n \in 1..Len(TxsOf[b]), Accepts(L, b, n),
         TxsOf[b][n] \notin C
  PROVE  Grounded(LedgerAfterTx(L, b, n), C \cup {TxsOf[b][n]})
  <1> DEFINE t == TxsOf[b][n]
             M == LedgerAfterTx(L, b, n)
  <1>1. Rooted(L, C) /\ L.images \subseteq UNION {SpentImages(u) : u \in C}
    BY DEF Grounded
  <1>2. Rooted(M, C \cup {t})
    BY <1>1, RootedStep
  <1>3. M.images \subseteq L.images \cup SpentImages(t)
    BY LedgerAfterCoinbase, LedgerAfterSpend
  <1> HIDE DEF t, M
  <1>4. M.images \subseteq UNION {SpentImages(u) : u \in C \cup {t}}
    BY <1>1, <1>3
  <1> QED  BY <1>2, <1>4 DEF Grounded, t, M

\* Unwinding field by field: a ledger S is what D undoes L to exactly when it
\* agrees with L outside what D records.
LEMMA UnwindFields ==
  ASSUME NEW L \in UtxoSet, NEW S \in UtxoSet, NEW D \in BlockDiff
  PROVE  UnwindWithDiff(L, D) = S <=>
           /\ \A k \in Key : S.utxos[k] = IF k \in D.created THEN NoEntry
                                          ELSE IF D.consumed[k] # NoEntry THEN D.consumed[k]
                                          ELSE L.utxos[k]
           /\ S.images = L.images \ D.images
           /\ S.supply = IF D.supply <= L.supply THEN L.supply - D.supply ELSE 0
  <1> DEFINE U == [k \in Key |-> IF k \in D.created THEN NoEntry
                                 ELSE IF D.consumed[k] # NoEntry THEN D.consumed[k]
                                 ELSE L.utxos[k]]
             I == L.images \ D.images
             V == IF D.supply <= L.supply THEN L.supply - D.supply ELSE 0
  <1>1. S = [utxos |-> S.utxos, images |-> S.images, supply |-> S.supply]
    BY DEF UtxoSet
  <1>2. S.utxos = U <=> \A k \in Key : S.utxos[k] = U[k]
    <2>1. S.utxos \in [Key -> Nat \cup {NoEntry}]
      BY DEF UtxoSet
    <2> QED  BY <2>1
  <1>3. UnwindWithDiff(L, D) = [utxos |-> U, images |-> I, supply |-> V]
    BY DEF UnwindWithDiff
  <1> HIDE DEF U, I, V
  <1>4. UnwindWithDiff(L, D) = S <=> S.utxos = U /\ S.images = I /\ S.supply = V
    BY <1>1, <1>3
  <1> QED  BY <1>2, <1>4 DEF U, I, V

\* Unwinding keeps the ledger in its type.
LEMMA UnwindType ==
  ASSUME NEW L \in UtxoSet, NEW D \in BlockDiff
  PROVE  UnwindWithDiff(L, D) \in UtxoSet
  <1>1. D.consumed \in [Key -> Nat \cup {NoEntry}] /\ L.utxos \in [Key -> Nat \cup {NoEntry}]
    BY DEF UtxoSet, BlockDiff
  <1>2. L.images \in SUBSET Image /\ L.supply \in Nat /\ D.supply \in Nat
    BY DEF UtxoSet, BlockDiff
  <1> QED  BY <1>1, <1>2 DEF UnwindWithDiff, UtxoSet

\* The empty diff undoes nothing.
LEMMA EmptyUndoes ==
  ASSUME NEW L \in UtxoSet
  PROVE  EmptyDiff \in BlockDiff /\ Undoes(EmptyDiff, L, L)
  <1>1. EmptyDiff \in BlockDiff
    BY DEF EmptyDiff, BlockDiff
  <1>2. UnwindWithDiff(L, EmptyDiff) = L
    BY <1>1, UnwindFields DEF EmptyDiff, UtxoSet
  <1> QED  BY <1>1, <1>2 DEF EmptyDiff, Undoes, UtxoSet

\* A diff that undoes L to S undoes the ledger one accepted transaction later
\* to the same S, provided that transaction was never confirmed: then neither
\* L nor S holds any of its outputs.
LEMMA UndoesStep ==
  ASSUME NEW L \in UtxoSet, NEW S \in UtxoSet, NEW D \in BlockDiff,
         NEW C \in SUBSET Tx, Rooted(L, C), NEW B \in SUBSET C, Rooted(S, B),
         Undoes(D, L, S),
         NEW b \in Block, NEW n \in 1..Len(TxsOf[b]), Accepts(L, b, n),
         TxsOf[b][n] \notin C
  PROVE  Undoes(DiffAfterTx(D, L, b, n), LedgerAfterTx(L, b, n), S)
  <1> DEFINE t == TxsOf[b][n]
             M == LedgerAfterTx(L, b, n)
             E == DiffAfterTx(D, L, b, n)
  <1>1. t \in Tx /\ Height[b] # NoEntry /\ CoinbaseAmount(t) \in Nat
    <2>1. t \in Tx /\ Height[b] # NoEntry
      BY BlockAssumption, TransactionAssumption
    <2> QED  BY <2>1, SumsNatural
  <1>2. \A k \in Key : k \in KeysOf(t) => ~Exists(L, k) /\ ~Exists(S, k)
    BY <1>1, KeyMaker DEF Rooted
  <1>3. M \in UtxoSet /\ E \in BlockDiff
    BY AfterTxTypes
  <1>4. L.supply \in Nat /\ D.supply \in Nat /\ D.supply <= L.supply
    BY DEF UtxoSet, BlockDiff, Undoes
  <1>5. /\ \A k \in Key : S.utxos[k] = IF k \in D.created THEN NoEntry
                                       ELSE IF D.consumed[k] # NoEntry THEN D.consumed[k]
                                       ELSE L.utxos[k]
        /\ S.images = L.images \ D.images
        /\ S.supply = L.supply - D.supply
    BY <1>4, UnwindFields DEF Undoes
  <1>6. \A k \in Key : D.consumed[k] # NoEntry /\ k \notin D.created => L.utxos[k] = NoEntry
    BY DEF Undoes, Exists
  <1>7. CASE n = 1
    <2>1. /\ \A k \in Key : M.utxos[k] = IF k \in KeysOf(t) THEN Height[b] ELSE L.utxos[k]
          /\ M.images = L.images
          /\ M.supply = L.supply + CoinbaseAmount(t)
      BY <1>7, LedgerAfterCoinbase
    <2>2. /\ E.consumed = D.consumed
          /\ E.created = D.created \cup KeysOf(t)
          /\ E.images = D.images
          /\ E.supply = D.supply + CoinbaseAmount(t)
      BY <1>7, DiffAfterCoinbase
    <2> HIDE DEF t, M, E
    <2>3. \A k \in Key : S.utxos[k] = IF k \in E.created THEN NoEntry
                                      ELSE IF E.consumed[k] # NoEntry THEN E.consumed[k]
                                      ELSE M.utxos[k]
      BY <2>1, <2>2, <1>2, <1>5 DEF Exists
    <2>4. S.images = M.images \ E.images
      BY <2>1, <2>2, <1>5
    <2>5. E.supply <= M.supply /\ S.supply = M.supply - E.supply
      BY <2>1, <2>2, <1>1, <1>4, <1>5
    <2>6. \A k \in Key : E.consumed[k] # NoEntry /\ k \notin E.created => ~Exists(M, k)
      BY <2>1, <2>2, <1>6 DEF Exists
    <2>7. UnwindWithDiff(M, E) = S
      BY <2>3, <2>4, <2>5, <1>3, UnwindFields
    <2> QED  BY <2>5, <2>6, <2>7 DEF Undoes, t, M, E
  <1>8. CASE n > 1
    <2>1. /\ \A k \in Key : M.utxos[k] = IF k \in KeysOf(t) THEN Height[b]
                                         ELSE IF k \in SpentKeys(t) THEN NoEntry
                                         ELSE L.utxos[k]
          /\ M.images = L.images \cup SpentImages(t)
          /\ M.supply = L.supply
      BY <1>8, LedgerAfterSpend
    <2>2. /\ \A k \in Key : E.consumed[k] = IF k \in SpentKeys(t) THEN L.utxos[k]
                                            ELSE D.consumed[k]
          /\ E.created = D.created \cup KeysOf(t)
          /\ E.images = D.images \cup SpentImages(t)
          /\ E.supply = D.supply
      BY <1>8, DiffAfterSpend
    <2>3. /\ \A k \in SpentKeys(t) : L.utxos[k] # NoEntry
          /\ SpentImages(t) \cap L.images = {}
      BY <1>8, AcceptedSpend DEF Exists
    <2> HIDE DEF t, M, E
    <2>4. \A k \in Key : S.utxos[k] = IF k \in E.created THEN NoEntry
                                      ELSE IF E.consumed[k] # NoEntry THEN E.consumed[k]
                                      ELSE M.utxos[k]
      BY <2>1, <2>2, <2>3, <1>2, <1>5, <1>6 DEF Exists
    <2>5. S.images = M.images \ E.images
      BY <2>1, <2>2, <2>3, <1>5
    <2>6. \A k \in Key : E.consumed[k] # NoEntry /\ k \notin E.created => ~Exists(M, k)
      BY <2>1, <2>2, <1>6 DEF Exists
    <2>7. UnwindWithDiff(M, E) = S
      BY <2>1, <2>2, <2>4, <2>5, <1>3, <1>4, <1>5, UnwindFields
    <2> QED  BY <2>1, <2>2, <2>6, <2>7, <1>4 DEF Undoes, t, M, E
  <1> QED  BY <1>7, <1>8

\* The ledger of the genesis block is grounded in the genesis transaction.
LEMMA GenesisGrounded ==
  GenesisLedger \in UtxoSet /\ Grounded(GenesisLedger, {GenesisTx})
  <1>1. GenesisTx \in Tx /\ NoEntry \notin Nat /\ TotalOut(GenesisTx) \in Nat
    BY TransactionAssumption, SumsNatural
  <1>2. SpentKeys(GenesisTx) = {} /\ SpentImages(GenesisTx) = {}
    BY TransactionAssumption, InputTypes
  <1>3. GenesisLedger \in UtxoSet
    BY <1>1 DEF GenesisLedger, UtxoSet
  <1>4. \A k \in Key : Exists(GenesisLedger, k) => k[1] = GenesisTx
    BY <1>1, KeyMaker DEF GenesisLedger, Exists
  <1>5. GenesisLedger.images = {} /\ SpentImages(GenesisTx) = {}
    BY <1>2 DEF GenesisLedger
  <1> QED  BY <1>2, <1>3, <1>4, <1>5 DEF Grounded, Rooted

-----------------------------------------------------------------------------
(* The value of a ledger.                                                  *)

\* A spend takes its inputs' keys out of the unspent ones and puts its outputs' in.
LEMMA UnspentAfterSpend ==
  ASSUME NEW L \in UtxoSet, NEW b \in Block, NEW n \in 1..Len(TxsOf[b]), n > 1
  PROVE  LET t == TxsOf[b][n]
         IN  Unspent(LedgerAfterTx(L, b, n)) = (Unspent(L) \ SpentKeys(t)) \cup KeysOf(t)
  <1> DEFINE t == TxsOf[b][n]
             M == LedgerAfterTx(L, b, n)
  <1>1. t \in Tx /\ Height[b] # NoEntry
    BY BlockAssumption, TransactionAssumption
  <1>2. KeysOf(t) \subseteq Key
    BY <1>1, KeyMaker
  <1>3. \A k \in Key : M.utxos[k] = IF k \in KeysOf(t) THEN Height[b]
                                    ELSE IF k \in SpentKeys(t) THEN NoEntry
                                    ELSE L.utxos[k]
    BY LedgerAfterSpend
  <1> HIDE DEF M, t
  <1>4. Unspent(M) = (Unspent(L) \ SpentKeys(t)) \cup KeysOf(t)
    BY <1>1, <1>2, <1>3 DEF Unspent, Exists
  <1> QED  BY <1>4 DEF M, t

\* A coinbase adds its outputs' keys.
LEMMA UnspentAfterCoinbase ==
  ASSUME NEW L \in UtxoSet, NEW b \in Block, 1 \in 1..Len(TxsOf[b])
  PROVE  Unspent(LedgerAfterTx(L, b, 1)) = Unspent(L) \cup KeysOf(TxsOf[b][1])
  <1> DEFINE t == TxsOf[b][1]
             M == LedgerAfterTx(L, b, 1)
  <1>1. t \in Tx /\ Height[b] # NoEntry
    BY BlockAssumption, TransactionAssumption
  <1>2. KeysOf(t) \subseteq Key
    BY <1>1, KeyMaker
  <1>3. \A k \in Key : M.utxos[k] = IF k \in KeysOf(t) THEN Height[b] ELSE L.utxos[k]
    BY LedgerAfterCoinbase
  <1> HIDE DEF M, t
  <1>4. Unspent(M) = Unspent(L) \cup KeysOf(t)
    BY <1>1, <1>2, <1>3 DEF Unspent, Exists
  <1> QED  BY <1>4 DEF M, t

\* What a place of a block adds to the sum of the gains.
LEMMA GainOfPlace ==
  ASSUME NEW b \in Block, NEW n \in 1..Len(TxsOf[b])
  PROVE  /\ <<b, n>> \in Place
         /\ LET t     == TxsOf[b][n]
                taken == SumFunctionOnSet(Amount, SpentKeys(t))
            IN  Gain[<<b, n>>] =
                  IF n = 1 THEN TotalOut(t) - CoinbaseAmount(t)
                  ELSE IF (Inputs[t] # <<>> /\ NamesOnce(t)) \/ TotalOut(t) <= taken THEN 0
                  ELSE TotalOut(t) - taken
  <1>1. <<b, n>> \in Place
    BY DEF Place, PlacesOf
  <1> QED  BY <1>1 DEF Gain

\* It is never negative.
LEMMA GainNatural == \A p \in Place : Gain[p] \in Nat
  <1> SUFFICES ASSUME NEW p \in Place  PROVE  Gain[p] \in Nat
    OBVIOUS
  <1>0. PICK b \in Block : p \in PlacesOf(b, Len(TxsOf[b]))
    BY DEF Place
  <1>1. PICK n \in 1..Len(TxsOf[b]) : p = <<b, n>>
    BY <1>0 DEF PlacesOf
  <1> DEFINE t == TxsOf[b][n]
             taken == SumFunctionOnSet(Amount, SpentKeys(t))
  <1>2. t \in Tx
    BY BlockAssumption
  <1>3. /\ TotalOut(t) \in Nat /\ CoinbaseAmount(t) \in Nat
        /\ CoinbaseAmount(t) <= TotalOut(t)
    BY <1>2, SumsNatural
  <1>4. taken \in Nat
    BY <1>2, TxKeysFinite, TransactionAssumption, SumType
  <1>5. Gain[p] = IF n = 1 THEN TotalOut(t) - CoinbaseAmount(t)
                  ELSE IF (Inputs[t] # <<>> /\ NamesOnce(t)) \/ TotalOut(t) <= taken THEN 0
                  ELSE TotalOut(t) - taken
    BY <1>1, GainOfPlace
  <1> HIDE DEF t, taken
  <1> QED  BY <1>3, <1>4, <1>5

\* A transaction that passes and was not confirmed before keeps the ledger backed: a
\* spend makes no more than the outputs it takes hold and its gain, and a coinbase adds
\* to the supply what its gain does not account for.
LEMMA BackedStep ==
  ASSUME NEW L \in UtxoSet, NEW C \in SUBSET Tx, Grounded(L, C), NEW P, Backed(L, P),
         NEW b \in Block, NEW n \in 1..Len(TxsOf[b]), Accepts(L, b, n),
         TxsOf[b][n] \notin C, <<b, n>> \notin P
  PROVE  Backed(LedgerAfterTx(L, b, n), P \cup {<<b, n>>})
  <1> DEFINE t == TxsOf[b][n]
             U == Unspent(L)
             V == U \ SpentKeys(t)
             M == LedgerAfterTx(L, b, n)
             sum(x) == SumFunctionOnSet(Amount, x)
             gain(Q) == SumFunctionOnSet(Gain, Q)
             g == Gain[<<b, n>>]
             R == P \cup {<<b, n>>}
  <1>1. t \in Tx
    BY BlockAssumption
  <1>2. /\ IsFiniteSet(U) /\ U \subseteq Key
        /\ IsFiniteSet(SpentKeys(t)) /\ SpentKeys(t) \subseteq Key
        /\ IsFiniteSet(KeysOf(t)) /\ KeysOf(t) \subseteq Key
    BY <1>1, TxKeysFinite DEF Backed, Unspent
  <1>3. IsFiniteSet(V)
    BY <1>2, FS_Subset
  <1>4. U \cap KeysOf(t) = {} /\ V \cap KeysOf(t) = {}
    BY <1>1, KeyMaker DEF Grounded, Rooted, Unspent
  <1>5. \A k \in Key : Amount[k] \in Nat
    BY TransactionAssumption
  <1>6. sum(U) \in Nat /\ sum(V) \in Nat /\ sum(KeysOf(t)) \in Nat /\ sum(SpentKeys(t)) \in Nat
    BY <1>2, <1>3, <1>5, SumType
  <1>7. sum(U) <= L.supply + gain(P) /\ L.supply \in Nat
    BY DEF Backed, UtxoSet
  <1>g. IsFiniteSet(R) /\ R \subseteq Place /\ gain(P) \in Nat /\ gain(R) = g + gain(P) /\ g \in Nat
    <2>1. <<b, n>> \in Place
      BY GainOfPlace
    <2>2. IsFiniteSet(P) /\ P \subseteq Place
      BY DEF Backed
    <2>3. IsFiniteSet(R)
      BY <2>2, FS_AddElement
    <2>4. \A p \in Place : Gain[p] \in Nat
      BY GainNatural
    <2>5. R \subseteq Place /\ R \ {<<b, n>>} = P /\ <<b, n>> \in R
      BY <2>1, <2>2
    <2> HIDE DEF R
    <2>6. gain(R) = g + gain(P)
      <3>1. \A p \in R : Gain[p] \in Nat
        BY <2>4, <2>5
      <3> QED  BY <2>3, <2>5, <3>1, SumRemove
    <2> QED  BY <2>1, <2>2, <2>3, <2>4, <2>5, <2>6, SumType
  <1>8. CASE n = 1
    <2>1. Unspent(M) = U \cup KeysOf(t)
      BY <1>8, UnspentAfterCoinbase
    <2>2. sum(U \cup KeysOf(t)) = sum(U) + sum(KeysOf(t))
      BY <1>2, <1>4, <1>5, SumUnion
    <2>3. M.supply + g = L.supply + sum(KeysOf(t)) /\ M.supply \in Nat
      <3>1. M.supply = L.supply + CoinbaseAmount(t)
        BY <1>8, LedgerAfterCoinbase
      <3>2. g = TotalOut(t) - CoinbaseAmount(t)
        BY <1>8, GainOfPlace
      <3>3. TotalOut(t) \in Nat /\ CoinbaseAmount(t) \in Nat /\ CoinbaseAmount(t) <= TotalOut(t)
        BY <1>1, SumsNatural
      <3>4. sum(KeysOf(t)) = TotalOut(t)
        BY DEF TotalOut
      <3> HIDE DEF sum, M, t, g
      <3> QED  BY <3>1, <3>2, <3>3, <3>4, <1>7
    <2>4. IsFiniteSet(U \cup KeysOf(t))
      BY <1>2, FS_Union
    <2> HIDE DEF sum, gain, g, R, M, U, t
    <2>5. sum(Unspent(M)) <= M.supply + gain(R)
      BY <2>1, <2>2, <2>3, <1>6, <1>7, <1>g
    <2>6. Backed(M, R)
      BY <1>g, <2>1, <2>4, <2>5 DEF Backed, sum, gain
    <2> QED  BY <2>6 DEF M, R
  <1>9. CASE n > 1
    <2>1. Unspent(M) = V \cup KeysOf(t)
      BY <1>9, UnspentAfterSpend
    <2>2. sum(V \cup KeysOf(t)) = sum(V) + sum(KeysOf(t))
      BY <1>2, <1>3, <1>4, <1>5, SumUnion
    <2>3. sum(U) = sum(V) + sum(SpentKeys(t))
      <3>1. SpentKeys(t) \subseteq U
        BY <1>2, <1>9, AcceptedSpend DEF Unspent
      <3>2. U = V \cup SpentKeys(t) /\ V \cap SpentKeys(t) = {}
        BY <3>1
      <3>3. sum(V \cup SpentKeys(t)) = sum(V) + sum(SpentKeys(t))
        BY <1>2, <1>3, <1>5, <3>2, SumUnion
      <3> QED  BY <3>2, <3>3
    <2>4. sum(KeysOf(t)) <= sum(SpentKeys(t)) + g
      <3>1. g = IF (Inputs[t] # <<>> /\ NamesOnce(t)) \/ TotalOut(t) <= sum(SpentKeys(t)) THEN 0
                ELSE TotalOut(t) - sum(SpentKeys(t))
        BY <1>9, GainOfPlace
      <3>2. Inputs[t] # <<>> /\ NamesOnce(t) => TotalOut(t) <= sum(SpentKeys(t))
        <4>1. NamesOnce(t) => TotalIn(t) = sum(SpentKeys(t))
          BY <1>1, TotalInOfKeys DEF NamesOnce
        <4>2. Inputs[t] # <<>> => TotalIn(t) >= TotalOut(t)
          BY <1>9 DEF Accepts, ValidateTransaction, Balanced
        <4> QED  BY <4>1, <4>2
      <3>3. sum(KeysOf(t)) = TotalOut(t)
        BY DEF TotalOut
      <3> HIDE DEF sum, t, g
      <3> QED  BY <3>1, <3>2, <3>3, <1>6
    <2>5. M.supply = L.supply
      BY <1>9, LedgerAfterSpend
    <2>6. IsFiniteSet(V \cup KeysOf(t))
      BY <1>2, <1>3, FS_Union
    <2> HIDE DEF sum, gain, g, R, M, U, V, t
    <2>7. sum(Unspent(M)) <= M.supply + gain(R)
      BY <2>1, <2>2, <2>3, <2>4, <2>5, <1>6, <1>7, <1>g
    <2>8. Backed(M, R)
      BY <1>g, <2>1, <2>6, <2>7 DEF Backed, sum, gain
    <2> QED  BY <2>8 DEF M, R
  <1> QED  BY <1>8, <1>9

\* The genesis credit is the first supply.
LEMMA GenesisBacked == Backed(GenesisLedger, {})
  <1>1. GenesisTx \in Tx /\ NoEntry \notin Nat
    BY TransactionAssumption
  <1>2. KeysOf(GenesisTx) \subseteq Key /\ IsFiniteSet(KeysOf(GenesisTx))
    BY <1>1, TxKeysFinite
  <1>3. Unspent(GenesisLedger) = KeysOf(GenesisTx)
    BY <1>1, <1>2 DEF Unspent, Exists, GenesisLedger
  <1>4. GenesisLedger.supply = TotalOut(GenesisTx) /\ TotalOut(GenesisTx) \in Nat
    BY <1>1, SumsNatural DEF GenesisLedger
  <1>5. SumFunctionOnSet(Gain, {}) = 0 /\ IsFiniteSet({}) /\ {} \subseteq Place
    BY SumEmpty, FS_EmptySet
  <1> QED  BY <1>2, <1>3, <1>4, <1>5 DEF Backed, TotalOut

-----------------------------------------------------------------------------
(* A whole block.                                                          *)

\* The outcomes after 0, 1, ... transactions of a block.
LEMMA ApplyByPrefix ==
  ASSUME NEW L \in UtxoSet, NEW b \in Block
  PROVE  \E P \in [0..Len(TxsOf[b]) -> Outcome] :
           /\ P[0] = [ok |-> TRUE, ledger |-> L, diff |-> EmptyDiff]
           /\ \A k \in 0..(Len(TxsOf[b]) - 1) : P[k + 1] = ApplyNext(P[k], b, k + 1)
           /\ LET r == P[Len(TxsOf[b])]
              IN  ApplyBlock(L, b) =
                    IF r.ok THEN r
                    ELSE [r EXCEPT !.ledger = UnwindWithDiff(r.ledger, r.diff)]
  <1> DEFINE N == Len(TxsOf[b])
             s == [n \in 1..N |-> n]
             start == [ok |-> TRUE, ledger |-> L, diff |-> EmptyDiff]
             Body(g) == [x \in SUBSET (DOMAIN s) |->
                           IF x = {} THEN start ELSE ApplyNext(g[x \ {Max(x)}], b, s[Max(x)])]
             F == CHOOSE g : g = Body(g)
             step == [p \in Outcome \X (1..N) |-> ApplyNext(p[1], b, p[2])]
             P == [k \in 0..N |-> F[1..k]]
             Ends(r) == IF r.ok THEN r
                        ELSE [r EXCEPT !.ledger = UnwindWithDiff(r.ledger, r.diff)]
  <1>1. ApplyBlock(L, b) = Ends(F[DOMAIN s])
    BY DEF ApplyBlock, FoldLeft, MapThenFoldSet
  <1>2. N \in Nat /\ s \in Seq(1..N) /\ Len(s) = N /\ DOMAIN s = 1..N
        /\ \A n \in 1..N : s[n] = n
    BY BlockAssumption
  <1>3. \A v \in Outcome, e \in 1..N :
          ApplyNext(v, b, e) \in Outcome /\ step[<<v, e>>] = ApplyNext(v, b, e)
    <2>1. ASSUME NEW v \in Outcome, NEW e \in 1..N  PROVE  ApplyNext(v, b, e) \in Outcome
      <3>1. /\ LedgerAfterTx(v.ledger, b, e) \in UtxoSet
            /\ DiffAfterTx(v.diff, v.ledger, b, e) \in BlockDiff
        BY AfterTxTypes DEF Outcome
      <3> QED  BY <3>1 DEF Outcome, ApplyNext
    <2> QED  BY <2>1
  <1>4. start \in Outcome
    BY EmptyUndoes DEF Outcome
  <1> HIDE DEF step, start, s, N
  <1>5. FoldStep(1..N, Outcome, start, step)
    BY <1>3, <1>4 DEF FoldStep
  <1>6. PICK g : FoldSolution(s, Outcome, start, step, g)
    BY <1>2, <1>5, FoldRecursion
  <1>7. g = Body(g)
    <2>1. ASSUME NEW x \in SUBSET (DOMAIN s), x # {}
          PROVE  step[<<g[x \ {Max(x)}], s[Max(x)]>>] = ApplyNext(g[x \ {Max(x)}], b, s[Max(x)])
      <3>1. g[x \ {Max(x)}] \in Outcome
        BY <1>6 DEF FoldSolution
      <3>2. Max(x) \in x
        BY <2>1, <1>2, MaxOfInterval
      <3>3. s[Max(x)] \in 1..N
        BY <3>2, <1>2
      <3> QED  BY <3>1, <3>3, <1>3
    <2> QED  BY <2>1, <1>6 DEF FoldSolution
  <1>8. F = Body(F)
    BY <1>7
  <1> HIDE DEF F
  <1>9. F[1..0] = start
    BY <1>8
  <1>10. ASSUME NEW k \in 0..(N - 1)  PROVE  F[1..(k + 1)] = ApplyNext(F[1..k], b, k + 1)
    <2>1. F[1..(k + 1)] = Body(F)[1..(k + 1)]
      BY <1>8
    <2>2. k + 1 \in 1..N /\ k \in 0..(Len(s) - 1)
      BY <1>2
    <2> QED  BY <2>1, <2>2, <1>2, FirstPlaces
  <1>11. \A k \in 0..N : F[1..k] \in Outcome
    <2> DEFINE T == {k \in 0..N : F[1..k] \in Outcome}
    <2>1. 0 \in T
      BY <1>2, <1>4, <1>9
    <2>2. ASSUME NEW k \in 0..(N - 1), k \in T  PROVE  k + 1 \in T
      <3>1. k \in 0..N /\ k + 1 \in 1..N /\ k + 1 \in 0..N
        BY <1>2
      <3>2. F[1..k] \in Outcome
        BY <2>2
      <3>3. F[1..(k + 1)] \in Outcome
        BY <3>1, <3>2, <1>3, <1>10
      <3> QED  BY <3>1, <3>3
    <2> HIDE DEF T
    <2>3. \A k \in 0..N : k \in T
      BY <2>1, <2>2, <1>2, BoundedInduction
    <2> QED  BY <2>3 DEF T
  <1>12. P \in [0..N -> Outcome] /\ P[0] = start /\ P[N] = F[DOMAIN s]
         /\ \A k \in 0..(N - 1) : P[k + 1] = ApplyNext(P[k], b, k + 1)
    BY <1>2, <1>9, <1>10, <1>11
  <1> HIDE DEF P
  <1> QED  BY <1>1, <1>12 DEF start, N

\* Applying a block changes a rooted ledger by the whole block, and the diff takes
\* it back exactly, or it leaves the ledger as it was.
LEMMA ApplyBlockSound ==
  ASSUME NEW L \in UtxoSet, NEW C \in SUBSET Tx, Rooted(L, C),
         NEW b \in Block, FreshStart(b, C)
  PROVE  AppliedSoundly(ApplyBlock(L, b), L, C, b)
  <1> DEFINE N == Len(TxsOf[b])
             Sound(r, k) ==
               \E j \in 0..k :
                 /\ Rooted(r.ledger, C \cup FirstOf(b, j))
                 /\ Grounded(L, C) => Grounded(r.ledger, C \cup FirstOf(b, j))
                 /\ Undoes(r.diff, r.ledger, L)
                 /\ r.ok => j = k
  <1>1. N \in Nat
    BY BlockAssumption
  <1>2. PICK P \in [0..N -> Outcome] :
           /\ P[0] = [ok |-> TRUE, ledger |-> L, diff |-> EmptyDiff]
           /\ \A k \in 0..(N - 1) : P[k + 1] = ApplyNext(P[k], b, k + 1)
           /\ LET r == P[N]
              IN  ApplyBlock(L, b) =
                    IF r.ok THEN r
                    ELSE [r EXCEPT !.ledger = UnwindWithDiff(r.ledger, r.diff)]
    BY ApplyByPrefix
  <1>3. Sound(P[0], 0)
    <2>1. C \cup FirstOf(b, 0) = C
      BY DEF FirstOf
    <2>2. P[0].ledger = L /\ P[0].diff = EmptyDiff
      BY <1>2
    <2>3. Undoes(P[0].diff, P[0].ledger, L)
      BY <2>2, EmptyUndoes
    <2>4. /\ Rooted(P[0].ledger, C \cup FirstOf(b, 0))
          /\ Grounded(L, C) => Grounded(P[0].ledger, C \cup FirstOf(b, 0))
      BY <2>1, <2>2
    <2>5. 0 \in 0..0
      OBVIOUS
    <2> QED  BY <2>3, <2>4, <2>5
  <1>4. ASSUME NEW k \in 0..(N - 1), Sound(P[k], k)  PROVE  Sound(P[k + 1], k + 1)
    <2> DEFINE r == P[k]
               n == k + 1
    <2>1. k \in Nat /\ n \in 1..N /\ n \in Nat /\ r \in Outcome
      BY <1>1, <1>2
    <2>2. P[n] = ApplyNext(r, b, n)
      BY <1>2
    <2>3. PICK j \in 0..k : /\ Rooted(r.ledger, C \cup FirstOf(b, j))
                            /\ Grounded(L, C) => Grounded(r.ledger, C \cup FirstOf(b, j))
                            /\ Undoes(r.diff, r.ledger, L)
                            /\ r.ok => j = k
      BY <1>4
    <2> HIDE DEF r
    <2>4. CASE ~(r.ok /\ Accepts(r.ledger, b, n))
      <3>1. P[n] = [r EXCEPT !.ok = FALSE]
        BY <2>2, <2>4 DEF ApplyNext
      <3>2. P[n].ledger = r.ledger /\ P[n].diff = r.diff /\ ~P[n].ok
        BY <3>1, <2>1 DEF Outcome
      <3>3. j \in 0..n
        BY <2>1
      <3> QED  BY <3>2, <3>3, <2>3
    <2>5. CASE r.ok /\ Accepts(r.ledger, b, n)
      <3> DEFINE B == C \cup FirstOf(b, k)
                 t == TxsOf[b][n]
      <3>1. P[n].ledger = LedgerAfterTx(r.ledger, b, n)
            /\ P[n].diff = DiffAfterTx(r.diff, r.ledger, b, n)
        BY <2>2, <2>5 DEF ApplyNext
      <3>2. r.ledger \in UtxoSet /\ r.diff \in BlockDiff
        BY <2>1 DEF Outcome
      <3>3. B \in SUBSET Tx /\ C \in SUBSET B
        <4>1. \A m \in 1..k : m \in 1..N
          BY <2>1
        <4> QED  BY <4>1, BlockAssumption DEF FirstOf
      <3>4. Rooted(r.ledger, B) /\ (Grounded(L, C) => Grounded(r.ledger, B))
        BY <2>3, <2>5
      <3>5. Inputs[t] = <<>> => t \notin B
        <4>1. k = n - 1
          BY <2>1
        <4> QED  BY <4>1, <2>1 DEF FreshStart
      <3> HIDE DEF B
      <3>6. t \notin B
        BY <3>2, <3>3, <3>4, <3>5, <2>1, <2>5, FreshTransaction
      <3>7. /\ Rooted(P[n].ledger, B \cup {t})
            /\ Grounded(L, C) => Grounded(P[n].ledger, B \cup {t})
        BY <3>1, <3>2, <3>3, <3>4, <3>6, <2>1, <2>5, RootedStep, GroundedStep
      <3>8. Undoes(P[n].diff, P[n].ledger, L)
        BY <3>1, <3>2, <3>3, <3>4, <3>6, <2>1, <2>3, <2>5, UndoesStep
      <3>9. B \cup {t} = C \cup FirstOf(b, n)
        <4>1. 1..n = (1..k) \cup {n}
          BY <2>1
        <4> QED  BY <4>1 DEF B, FirstOf
      <3> HIDE DEF t, n
      <3>10. /\ Rooted(P[n].ledger, C \cup FirstOf(b, n))
             /\ Grounded(L, C) => Grounded(P[n].ledger, C \cup FirstOf(b, n))
        BY <3>7, <3>9
      <3>11. n \in 0..n
        BY <2>1
      <3>12. Sound(P[n], n)
        BY <3>8, <3>10, <3>11
      <3> QED  BY <3>12 DEF n
    <2> QED  BY <2>4, <2>5
  <1>5. Sound(P[N], N)
    <2> DEFINE T == {k \in 0..N : Sound(P[k], k)}
    <2>1. 0 \in T
      BY <1>1, <1>3
    <2> HIDE DEF Sound
    <2>2. ASSUME NEW k \in 0..(N - 1), k \in T  PROVE  k + 1 \in T
      BY <2>2, <1>1, <1>4
    <2> HIDE DEF T
    <2>3. \A k \in 0..N : k \in T
      BY <2>1, <2>2, <1>1, BoundedInduction
    <2> QED  BY <2>3, <1>1 DEF T
  <1>6. PICK j \in 0..N : /\ Rooted(P[N].ledger, C \cup FirstOf(b, j))
                          /\ Grounded(L, C) => Grounded(P[N].ledger, C \cup FirstOf(b, j))
                          /\ Undoes(P[N].diff, P[N].ledger, L)
                          /\ P[N].ok => j = N
    BY <1>5
  <1>7. P[N] \in Outcome
    BY <1>1, <1>2
  <1>8. CASE P[N].ok
    BY <1>2, <1>6, <1>7, <1>8 DEF AppliedSoundly, BodyOf
  <1>9. CASE ~P[N].ok
    <2> DEFINE r == P[N]
    <2>1. ApplyBlock(L, b) = [r EXCEPT !.ledger = UnwindWithDiff(r.ledger, r.diff)]
      BY <1>2, <1>9
    <2>2. UnwindWithDiff(r.ledger, r.diff) = L
      BY <1>6 DEF Undoes
    <2> HIDE DEF r
    <2>3. ApplyBlock(L, b) = [r EXCEPT !.ledger = L]
      BY <2>1, <2>2
    <2> QED  BY <2>3, <1>7, <1>9 DEF AppliedSoundly, Outcome, r
  <1> QED  BY <1>8, <1>9
=============================================================================
