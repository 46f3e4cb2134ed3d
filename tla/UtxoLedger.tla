----------------------------- MODULE UtxoLedger -----------------------------
(***************************************************************************)
(* The UTXO ledger of src/src/state.rs: what a transaction and a block do  *)
(* to it, and what the BlockDiff of a block undoes.  The module has no     *)
(* state: the state machines that own a ledger EXTEND it.                  *)
(*                                                                         *)
(* A transaction is a name; what the code reads from it is given by the    *)
(* constant functions below.  A UtxoKey {tx_hash, output_index} is the     *)
(* pair <<transaction, index>>: equal names stand for equal hashes.  An    *)
(* UtxoEntry is the height of the block that created it, its other fields  *)
(* being those of the output, hence functions of the key.                  *)
(***************************************************************************)
EXTENDS Naturals, Sequences, FiniteSets, Functions, SequencesExt

CONSTANTS
  Tx,             \* transactions
  GenesisTx,      \* the transaction UtxoSet::genesis credits
  Image,          \* key images
  Outputs,        \* Outputs[t]: number of outputs of t
  Inputs,         \* Inputs[t]: the list of its inputs, records [key, image]
  Ring,           \* Ring[t]: keys of its ring members, {} for a transparent t
  Amount,         \* Amount[k]: units held by output k
  U64,            \* 2^64: amounts and their sums are below it
  SpendableAfter, \* SpendableAfter[k]: height from which k may be spent
  Authorised,     \* transactions whose signatures and range proofs verify
  Block,          \* blocks
  TxsOf,          \* TxsOf[b]: the block's transactions, coinbase first
  Height,         \* Height[b]: header.height
  EmissionCap,    \* BASE_EMISSION_UNITS * 20
  RampUpBlocks,   \* constants::RAMP_UP_BLOCKS
  LockBlocks,     \* constants::FOUNDER_LOCK_BLOCKS
  LockAdditional, \* constants::FOUNDER_LOCK_ADDITIONAL
  NoEntry         \* "no such key in the utxos map"

\* The keys of t's outputs, and every key.
KeysOf(t) == {<<t, i>> : i \in 1..Outputs[t]}
Key == UNION {KeysOf(t) : t \in Tx}

ASSUME TransactionAssumption ==
  /\ GenesisTx \in Tx
  /\ Outputs \in [Tx -> Nat]
  /\ Inputs \in [Tx -> Seq([key : Key, image : Image])]
  /\ Inputs[GenesisTx] = <<>>
  /\ Ring \in [Tx -> SUBSET Key]
  /\ U64 \in Nat \ {0}
  /\ Amount \in [Key -> 0..(U64 - 1)]
  /\ SpendableAfter \in [Key -> Nat]
  /\ Authorised \subseteq Tx
  /\ NoEntry \notin Nat

\* A transaction may name an output more than once, but not two outputs under one
\* key image (which the code does not check).
ASSUME InputAssumption ==
  \A t \in Tx : \A i, j \in ToSet(Inputs[t]) : i.image = j.image => i.key = j.key

ASSUME BlockAssumption ==
  /\ TxsOf \in [Block -> Seq(Tx)]
  /\ Height \in [Block -> Nat]
  /\ EmissionCap \in Nat
  /\ RampUpBlocks \in Nat
  /\ LockBlocks \in Nat
  /\ LockAdditional \in Nat

-----------------------------------------------------------------------------
(* Types.                                                                  *)

UtxoMap == [Key -> Nat \cup {NoEntry}]

UtxoSet == [utxos : UtxoMap, images : SUBSET Image, supply : Nat]

\* The code keys consumed by key image; with InputAssumption, and images marked
\* once, it holds the same entries as when it is keyed by the output.
BlockDiff == [consumed : UtxoMap, created : SUBSET Key,
              images : SUBSET Image, supply : Nat]

EmptyDiff == [consumed |-> [k \in Key |-> NoEntry], created |-> {},
              images |-> {}, supply |-> 0]

-----------------------------------------------------------------------------
(* Reading a transaction.                                                  *)

Exists(L, k) == L.utxos[k] # NoEntry
SpentKeys(t) == {i.key : i \in ToSet(Inputs[t])}
SpentImages(t) == {i.image : i \in ToSet(Inputs[t])}

\* The sum over the list: an output that is named twice counts twice.
TotalIn(t) == SumFunction([n \in 1..Len(Inputs[t]) |-> Amount[Inputs[t][n].key]])
TotalOut(t) == SumFunctionOnSet(Amount, KeysOf(t))

\* What a coinbase is taken to pay: .sum() wraps where checked_add would refuse.
CoinbaseAmount(t) == TotalOut(t) % U64

\* The sums of a transaction, with checked_add.
Balanced(t) == TotalIn(t) < U64 /\ TotalOut(t) < U64 /\ TotalIn(t) >= TotalOut(t)
Private(t) == Ring[t] # {}

\* The height at which a coinbase of a block at height h unlocks.
FounderLock(h) ==
  IF h >= RampUpBlocks THEN 0
  ELSE IF h + LockAdditional > LockBlocks THEN h + LockAdditional ELSE LockBlocks

-----------------------------------------------------------------------------
(* The checks: a transaction is refused before anything is changed.        *)

\* Mutant: the sums are not compared.
ValidateTransactionNoSums(L, t) ==
  /\ Inputs[t] # <<>> \/ KeysOf(t) # {}
  /\ \A i \in ToSet(Inputs[t]) : Exists(L, i.key) /\ i.image \notin L.images

\* A transaction without inputs is not compared with anything.
ValidateTransaction(L, t) ==
  /\ Inputs[t] # <<>> \/ KeysOf(t) # {}
  /\ \A i \in ToSet(Inputs[t]) : Exists(L, i.key) /\ i.image \notin L.images
  /\ IF Inputs[t] # <<>> THEN Balanced(t) ELSE TotalOut(t) < U64

\* The inputs are checked one by one before any is spent, so that none hides another.
\* A decoy of the ring that has been spent makes the signature unverifiable.
SpendChecks(L, t, h) ==
  /\ \A k \in Ring[t] : Exists(L, k)
  /\ \A i \in ToSet(Inputs[t]) : /\ i.image \notin L.images
                                 /\ Exists(L, i.key)
                                 /\ h >= SpendableAfter[i.key]
  /\ t \in Authorised
  /\ Private(t) => Balanced(t)

CoinbaseChecks(t, h) ==
  /\ Inputs[t] = <<>>
  /\ CoinbaseAmount(t) <= EmissionCap
  /\ \A k \in KeysOf(t) : SpendableAfter[k] = FounderLock(h)

\* Whether the n-th transaction of block b passes on ledger L.
Accepts(L, b, n) ==
  LET t == TxsOf[b][n]
  IN  IF n = 1 THEN CoinbaseChecks(t, Height[b])
      ELSE ValidateTransaction(L, t) /\ SpendChecks(L, t, Height[b])

-----------------------------------------------------------------------------
(* The mutations, and what the diff records of them.                       *)

\* Mutants: the spent outputs stay; the outputs are marked and not the images.
RemoveInputsKeep(L, t) ==
  [utxos |-> L.utxos, images |-> L.images \cup SpentImages(t), supply |-> L.supply]
RemoveInputsMarkKeys(L, t) ==
  [utxos  |-> [k \in Key |-> IF k \in SpentKeys(t) THEN NoEntry ELSE L.utxos[k]],
   images |-> L.images \cup SpentKeys(t),
   supply |-> L.supply]

RemoveInputs(L, t) ==
  [utxos  |-> [k \in Key |-> IF k \in SpentKeys(t) THEN NoEntry ELSE L.utxos[k]],
   images |-> L.images \cup SpentImages(t),
   supply |-> L.supply]

AddOutputs(L, t, h) ==
  [utxos  |-> [k \in Key |-> IF k \in KeysOf(t) THEN h ELSE L.utxos[k]],
   images |-> L.images,
   supply |-> L.supply]

\* The supply stays far below U64 (EmissionCap a block), so that it is a natural.
AddSupply(L, a) ==
  [utxos |-> L.utxos, images |-> L.images, supply |-> L.supply + a]

\* Mutant: the images are not recorded.
RecordInputsNoImages(D, L, t) ==
  [consumed |-> [k \in Key |-> IF k \in SpentKeys(t) THEN L.utxos[k]
                               ELSE D.consumed[k]],
   created  |-> D.created,
   images   |-> D.images,
   supply   |-> D.supply]

RecordInputs(D, L, t) ==
  [consumed |-> [k \in Key |-> IF k \in SpentKeys(t) THEN L.utxos[k]
                               ELSE D.consumed[k]],
   created  |-> D.created,
   images   |-> D.images \cup SpentImages(t),
   supply   |-> D.supply]

RecordOutputs(D, t) ==
  [consumed |-> D.consumed, created |-> D.created \cup KeysOf(t),
   images |-> D.images, supply |-> D.supply]

RecordSupply(D, a) ==
  [consumed |-> D.consumed, created |-> D.created,
   images |-> D.images, supply |-> D.supply + a]

\* The ledger and the diff after the n-th transaction of b, when it passes.
LedgerAfterTx(L, b, n) ==
  LET t == TxsOf[b][n]
  IN  IF n = 1 THEN AddSupply(AddOutputs(L, t, Height[b]), CoinbaseAmount(t))
      ELSE AddOutputs(RemoveInputs(L, t), t, Height[b])

DiffAfterTx(D, L, b, n) ==
  LET t == TxsOf[b][n]
  IN  IF n = 1 THEN RecordOutputs(RecordSupply(D, CoinbaseAmount(t)), t)
      ELSE RecordOutputs(RecordInputs(D, L, t), t)

\* Mutant: what was created is removed before what was consumed is restored.
UnwindRestoreLast(L, D) ==
  [utxos  |-> [k \in Key |-> IF D.consumed[k] # NoEntry THEN D.consumed[k]
                             ELSE IF k \in D.created THEN NoEntry
                             ELSE L.utxos[k]],
   images |-> L.images \ D.images,
   supply |-> IF D.supply <= L.supply THEN L.supply - D.supply ELSE 0]

\* Restore what was consumed, then remove what was created, un-mark the
\* images and take the supply back (saturating at 0).
UnwindWithDiff(L, D) ==
  [utxos  |-> [k \in Key |-> IF k \in D.created THEN NoEntry
                             ELSE IF D.consumed[k] # NoEntry THEN D.consumed[k]
                             ELSE L.utxos[k]],
   images |-> L.images \ D.images,
   supply |-> IF D.supply <= L.supply THEN L.supply - D.supply ELSE 0]

-----------------------------------------------------------------------------
(* A whole block at once, for the modules in which applying one is a step. *)

ApplyNext(r, b, n) ==
  IF r.ok /\ Accepts(r.ledger, b, n)
  THEN [ok |-> TRUE, ledger |-> LedgerAfterTx(r.ledger, b, n),
        diff |-> DiffAfterTx(r.diff, r.ledger, b, n)]
  ELSE [r EXCEPT !.ok = FALSE]

\* apply_block_and_track: on an error the partial diff is unwound.
ApplyBlock(L, b) ==
  LET r == FoldLeft(LAMBDA acc, n : ApplyNext(acc, b, n),
                    [ok |-> TRUE, ledger |-> L, diff |-> EmptyDiff],
                    [n \in 1..Len(TxsOf[b]) |-> n])
  IN  IF r.ok THEN r ELSE [r EXCEPT !.ledger = UnwindWithDiff(r.ledger, r.diff)]

GenesisLedger ==
  [utxos  |-> [k \in Key |-> IF k \in KeysOf(GenesisTx) THEN 0 ELSE NoEntry],
   images |-> {}, supply |-> TotalOut(GenesisTx)]
=============================================================================
