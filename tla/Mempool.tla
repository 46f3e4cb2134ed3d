------------------------------- MODULE Mempool -------------------------------
(***************************************************************************)
(* The pool of pending transactions (src/src/mempool.rs): a vector sorted  *)
(* by fee and two indices that must tell the same story through insertion, *)
(* eviction (swap_remove), confirmation and draining, while the ledger the *)
(* transactions were admitted against moves on.                            *)
(***************************************************************************)
EXTENDS UtxoLedger

CONSTANTS
  MaxPending,  \* MAX_MEMPOOL_TXS
  NoTx         \* "no such key in the index"

ASSUME MempoolAssumption == MaxPending \in Nat \ {0} /\ NoTx \notin Tx

VARIABLES
  ledger,      \* the UtxoSet of the node
  pending,     \* the vector: transactions, their fees being FeeOf
  keyImages,   \* key_images: the pending transaction that bears an image
  utxoSpends   \* utxo_spends: the pending transaction that spends an output

pool == <<pending, keyImages, utxoSpends>>

EmptyImages == [i \in Image |-> NoTx]
EmptySpends == [k \in Key |-> NoTx]

PoolInit ==
  /\ pending = <<>>
  /\ keyImages = EmptyImages
  /\ utxoSpends = EmptySpends

\* compute_fee of a transaction whose inputs are all in the ledger.
FeeOf(t) ==
  IF Inputs[t] = <<>> \/ TotalIn(t) < TotalOut(t) THEN 0 ELSE TotalIn(t) - TotalOut(t)

IsPending(t) == \E n \in 1..Len(pending) : pending[n] = t

\* Mutant: the outputs that pending transactions spend are not looked at.
AdmissibleByImage(L, t) ==
  /\ ValidateTransaction(L, t)
  /\ Private(t) => t \in Authorised /\ \A k \in Ring[t] : Exists(L, k)
  /\ \A i \in ToSet(Inputs[t]) : keyImages[i.image] = NoTx

\* validate_transaction, compute_fee and the ring signature; then the double
\* spends on the chain and in the pool.
Admissible(L, t) ==
  /\ ValidateTransaction(L, t)
  /\ Private(t) => t \in Authorised /\ \A k \in Ring[t] : Exists(L, k)
  /\ \A i \in ToSet(Inputs[t]) : keyImages[i.image] = NoTx /\ utxoSpends[i.key] = NoTx

\* Mutant: one transaction too many.
FullLate == Len(pending) > MaxPending

Full == Len(pending) >= MaxPending

\* Mutant: the dearest of the transactions.
Dearest ==
  CHOOSE n \in 1..Len(pending) :
    \A m \in 1..Len(pending) : FeeOf(pending[n]) >= FeeOf(pending[m])

\* min_by_key: the first of the transactions with the lowest fee.
Cheapest ==
  CHOOSE n \in 1..Len(pending) :
    /\ \A m \in 1..Len(pending) : FeeOf(pending[n]) <= FeeOf(pending[m])
    /\ \A m \in 1..(n - 1) : FeeOf(pending[n]) < FeeOf(pending[m])

\* Vec::swap_remove: the last element takes the place of the n-th.
SwapRemove(s, n) ==
  [m \in 1..(Len(s) - 1) |-> IF m = n THEN s[Len(s)] ELSE s[m]]

\* What the insertion starts from, once the cheapest has left a full pool.
Kept == IF Full THEN SwapRemove(pending, Cheapest) ELSE pending
Leaving == IF Full THEN {pending[Cheapest]} ELSE {}

\* Mutant: the comparison of the fees is not reversed.
PositionsAscending(s, t) ==
  {n \in 1..(Len(s) + 1) :
     /\ \A m \in 1..(n - 1) : FeeOf(s[m]) <= FeeOf(t)
     /\ \A m \in n..Len(s) : FeeOf(s[m]) >= FeeOf(t)}

\* The positions binary_search_by may return: among equal fees the order is
\* that of the hashes, which swap_remove does not keep.
Positions(s, t) ==
  {n \in 1..(Len(s) + 1) :
     /\ \A m \in 1..(n - 1) : FeeOf(s[m]) >= FeeOf(t)
     /\ \A m \in n..Len(s) : FeeOf(s[m]) <= FeeOf(t)}

\* submit that returns Ok; L is the UtxoSet that its caller gives it.
Submit(L, t) ==
  /\ Admissible(L, t)
  /\ Full => FeeOf(t) > FeeOf(pending[Cheapest])
  /\ \E n \in Positions(Kept, t) : pending' = InsertAt(Kept, n, t)
  /\ keyImages' = [i \in Image |->
       IF i \in SpentImages(t) THEN t
       ELSE IF \E u \in Leaving : i \in SpentImages(u) THEN NoTx ELSE keyImages[i]]
  /\ utxoSpends' = [k \in Key |->
       IF k \in SpentKeys(t) THEN t
       ELSE IF \E u \in Leaving : k \in SpentKeys(u) THEN NoTx ELSE utxoSpends[k]]

LastBearer(s, ns) ==
  IF ns = {} THEN NoTx ELSE s[CHOOSE n \in ns : \A m \in ns : m <= n]

\* Vec::retain: the transactions that were not mined, in their order.
Retained(s, mined) ==
  FoldLeft(LAMBDA kept, t : IF t \in mined THEN kept ELSE Append(kept, t), <<>>, s)

\* confirm_mined: the mined transactions leave and the indices are rebuilt.
ConfirmMined(mined) ==
  LET s == Retained(pending, mined)
  IN  /\ pending' = s
      /\ keyImages' = [i \in Image |->
           LastBearer(s, {n \in 1..Len(s) : i \in SpentImages(s[n])})]
      /\ utxoSpends' = [k \in Key |->
           LastBearer(s, {n \in 1..Len(s) : k \in SpentKeys(s[n])})]

\* Mutant: the outputs stay indexed.
DrainKeepingSpends ==
  /\ pending' = <<>>
  /\ keyImages' = EmptyImages
  /\ UNCHANGED utxoSpends

\* drain: the miner takes everything.
Drain ==
  /\ pending' = <<>>
  /\ keyImages' = EmptyImages
  /\ utxoSpends' = EmptySpends

-----------------------------------------------------------------------------
(* The pool on its own, under a chain that moves without telling it: the   *)
(* ledger becomes that of any block over the root, as extensions and       *)
(* reorganisations from one to the other make it.                          *)

Init == ledger = GenesisLedger /\ PoolInit

ChainMoves(b) ==
  /\ ApplyBlock(GenesisLedger, b).ok
  /\ ledger' = ApplyBlock(GenesisLedger, b).ledger
  /\ UNCHANGED pool

Next ==
  \/ \E t \in Tx : Submit(ledger, t) /\ UNCHANGED ledger
  \/ \E mined \in SUBSET ToSet(pending) : ConfirmMined(mined) /\ UNCHANGED ledger
  \/ Drain /\ UNCHANGED ledger
  \/ \E b \in Block : ChainMoves(b)

Spec == Init /\ [][Next]_<<ledger, pool>>

-----------------------------------------------------------------------------
\* The variables have the types of MempoolInner's fields, and the pool is within
\* its bound.
TypeOK ==
  /\ pending \in Seq(Tx) /\ Len(pending) <= MaxPending
  /\ keyImages \in [Image -> Tx \cup {NoTx}]
  /\ utxoSpends \in [Key -> Tx \cup {NoTx}]

\* An index entry exists exactly for what some pending transaction spends, and
\* names that transaction: no eviction, confirmation or drain leaves an entry
\* behind that would refuse a good transaction, or drops one that is needed.
IndicesExact ==
  /\ \A i \in Image : \A t \in Tx :
       keyImages[i] = t <=> IsPending(t) /\ i \in SpentImages(t)
  /\ \A k \in Key : \A t \in Tx :
       utxoSpends[k] = t <=> IsPending(t) /\ k \in SpentKeys(t)

\* No two pending transactions could exclude each other from a block.
NoPendingConflict ==
  \A m, n \in 1..Len(pending) : m # n =>
    /\ SpentKeys(pending[m]) \cap SpentKeys(pending[n]) = {}
    /\ SpentImages(pending[m]) \cap SpentImages(pending[n]) = {}

\* The vector stays sorted by fee, which the binary search relies on,
\* swap_remove or not.
FeeOrdered ==
  \A m, n \in 1..Len(pending) : m < n => FeeOf(pending[m]) >= FeeOf(pending[n])

\* What a submission pushes out paid less than what came in, and less than or
\* as much as everything that stays; nothing else leaves.
EvictionStep ==
  Len(pending') >= Len(pending) /\ pending' # pending =>
    \A t \in ToSet(pending) \ ToSet(pending') :
      /\ Len(pending) = MaxPending
      /\ ToSet(pending) \ ToSet(pending') = {t}
      /\ \A u \in ToSet(pending') : FeeOf(t) <= FeeOf(u)
      /\ \A u \in ToSet(pending') \ ToSet(pending) : FeeOf(t) < FeeOf(u)

EvictsTheCheapest == [][EvictionStep]_<<ledger, pool>>
=============================================================================
