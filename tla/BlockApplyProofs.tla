-------------------------- MODULE BlockApplyProofs --------------------------
(***************************************************************************)
(* Proofs about BlockApply: type correctness, exactness of the rollback of *)
(* a refused block and of a reorganisation's unwinding, single spending,   *)
(* and the implementation of AtomicLedger.                                 *)
(***************************************************************************)
EXTENDS BlockApplyInvariant, UtxoLedgerProofs

USE DEF UtxoMap

-----------------------------------------------------------------------------
(* The inductive invariant.                                                *)

\* The confirmed transactions of a prefix depend on that prefix alone.
LEMMA ConfirmedOfPrefix ==
  ASSUME NEW s, NEW r, NEW n \in Nat, \A i \in 1..n : s[i] = r[i]
  PROVE  ConfirmedOf(s, n) = ConfirmedOf(r, n)
  BY DEF ConfirmedOf

\* The confirmed transactions of applied blocks are transactions.
LEMMA ConfirmedOfType ==
  ASSUME NEW s \in Seq(AppliedBlock), NEW n \in 0..Len(s)
  PROVE  ConfirmedOf(s, n) \in SUBSET Tx
  <1>1. \A i \in 1..n : s[i].block \in Block
    <2>1. \A i \in 1..n : i \in 1..Len(s)
      BY LenProperties
    <2>2. \A i \in 1..n : s[i] \in AppliedBlock
      BY <2>1, ElementOfSeq
    <2> QED  BY <2>2 DEF AppliedBlock
  <1>2. \A c \in Block : \A j \in 1..Len(TxsOf[c]) : TxsOf[c][j] \in Tx
    BY BlockAssumption
  <1> QED  BY <1>1, <1>2, TransactionAssumption DEF ConfirmedOf

\* The invariant holds of the genesis ledger.
LEMMA InitIInv == Init => IInv
  <1> SUFFICES ASSUME Init PROVE IInv
    OBVIOUS
  <1> USE DEF Init
  <1>1. Len(applied) = 0 /\ Len(committed) = 1 /\ committed[1] = GenesisLedger
    OBVIOUS
  <1>2. TypeOK
    BY <1>1, GenesisGrounded, EmptyUndoes DEF TypeOK
  <1>3. ConfirmedUpTo(0) = {GenesisTx}
    BY DEF ConfirmedUpTo, ConfirmedOf
  <1>4. Confirmed = {GenesisTx}
    BY <1>1, <1>3 DEF Confirmed, InFlight
  <1>5. CommittedGrounded
    <2>1. \A i \in 1..Len(committed) : i = 1
      BY <1>1
    <2>2. ConfirmedUpTo(1 - 1) = {GenesisTx}
      BY <1>3
    <2>3. Grounded(committed[1], ConfirmedUpTo(1 - 1))
      BY <1>1, <2>2, GenesisGrounded
    <2> QED  BY <2>1, <2>3 DEF CommittedGrounded
  <1>6. Grounded(ledger, Confirmed)
    BY <1>4, GenesisGrounded
  <1> QED
    BY <1>1, <1>2, <1>5, <1>6
    DEF IInv, HeightsOK, IdleIsCommitted, InFlightUndoes, UndoChainExact

\* The tip's height is the number of applied blocks.
LEMMA TipHeight ==
  ASSUME TypeOK, HeightsOK, NEW b \in Block, Parent[b] = TipBlock
  PROVE  Height[b] = Len(applied) + 1
  <1>1. CASE applied = <<>>
    BY <1>1, ChainAssumption DEF TipBlock
  <1>2. CASE applied # <<>>
    <2>0. applied \in Seq(AppliedBlock) /\ Len(applied) \in Nat \ {0}
      BY <1>2, EmptySeq DEF TypeOK
    <2>1. applied[Len(applied)] \in AppliedBlock
      BY <2>0, ElementOfSeq
    <2>2. Height[applied[Len(applied)].block] = Len(applied)
      BY <2>0 DEF HeightsOK
    <2>3. Parent[b] \in Block /\ Parent[b] # Genesis
      BY <1>2, <2>1, ChainAssumption DEF TipBlock, AppliedBlock
    <2> QED  BY <1>2, <2>2, <2>3, ChainAssumption DEF TipBlock
  <1> QED  BY <1>1, <1>2

\* Entering apply_block_and_track preserves the invariant: nothing has
\* changed, and the empty diff undoes nothing.
LEMMA BeginIInv ==
  ASSUME IInv, NEW b \in Block, Begin(b)
  PROVE  IInv'
  <1> USE DEF IInv, Begin
  <1>1. TypeOK'
    BY EmptyUndoes DEF TypeOK
  <1>2. HeightsOK'
    <2>1. Len(TxsOf[b]) \in Nat
      BY BlockAssumption
    <2> QED  BY <2>1, TipHeight DEF HeightsOK, TipBlock
  <1>3. CommittedGrounded'
    BY DEF CommittedGrounded, ConfirmedUpTo
  <1>4. Confirmed' = Confirmed
    BY DEF Confirmed, ConfirmedUpTo, InFlight
  <1>5. Grounded(ledger, Confirmed)'
    BY <1>4
  <1>6. InFlightUndoes'
    <2>1. ledger = committed[Len(committed)] /\ ledger \in UtxoSet
      BY DEF IdleIsCommitted, TypeOK
    <2> QED  BY <2>1, EmptyUndoes DEF InFlightUndoes
  <1>7. UndoChainExact'
    BY DEF UndoChainExact
  <1> QED  BY <1>1, <1>2, <1>3, <1>5, <1>6, <1>7 DEF IdleIsCommitted

\* A transaction without inputs about to be applied, coinbase or not, has not been
\* confirmed: the blocks of a chain have increasing heights.
LEMMA FreshMint ==
  ASSUME TypeOK, HeightsOK, phase = "applying", next \in 1..Len(TxsOf[block]),
         Inputs[TxsOf[block][next]] = <<>>
  PROVE  TxsOf[block][next] \notin Confirmed
  <1> DEFINE t == TxsOf[block][next]
             n == Len(applied)
  <1>1. block \in Block /\ Height[block] = n + 1 /\ n \in Nat
    BY LenProperties DEF TypeOK, HeightsOK
  <1>2. /\ t # GenesisTx /\ t \in DOMAIN MintHeight /\ MintHeight[t] = n + 1
        /\ t \notin FirstOf(block, next - 1)
    BY <1>1, DistinctMints
  <1>3. ASSUME NEW i \in 1..n, NEW j \in 1..Len(TxsOf[applied[i].block]),
               t = TxsOf[applied[i].block][j]
        PROVE  FALSE
    <2>1. applied[i] \in AppliedBlock /\ Height[applied[i].block] = i
      BY ElementOfSeq DEF TypeOK, HeightsOK
    <2>2. applied[i].block \in Block
      BY <2>1 DEF AppliedBlock
    <2>3. MintHeight[t] = i
      BY <2>1, <2>2, <1>2, <1>3, DistinctMints
    <2> QED  BY <2>3, <1>2, <1>1
  <1>4. t \notin ConfirmedUpTo(n)
    BY <1>2, <1>3 DEF ConfirmedUpTo, ConfirmedOf
  <1>5. InFlight = FirstOf(block, next - 1)
    BY DEF InFlight, FirstOf
  <1> QED  BY <1>2, <1>4, <1>5 DEF Confirmed

\* The blocks' transactions are confirmed, with or without one in flight.
LEMMA ConfirmedType ==
  ASSUME TypeOK, HeightsOK
  PROVE  /\ ConfirmedUpTo(Len(applied)) \in SUBSET Confirmed
         /\ Confirmed \in SUBSET Tx
  <1>1. Len(applied) \in 0..Len(applied)
    BY LenProperties DEF TypeOK
  <1>2. ConfirmedUpTo(Len(applied)) \in SUBSET Tx
    BY <1>1, ConfirmedOfType DEF ConfirmedUpTo, TypeOK
  <1>3. InFlight \subseteq Tx
    <2>1. CASE phase = "idle"
      BY <2>1 DEF InFlight
    <2>2. CASE phase = "applying"
      <3>1. block \in Block /\ next - 1 <= Len(TxsOf[block]) /\ next \in Nat
        BY <2>2, BlockAssumption DEF TypeOK, HeightsOK
      <3>2. \A j \in 1..(next - 1) : TxsOf[block][j] \in Tx
        BY <3>1, BlockAssumption
      <3> QED  BY <3>2 DEF InFlight
    <2> QED  BY <2>1, <2>2 DEF TypeOK
  <1> QED  BY <1>2, <1>3 DEF Confirmed

\* The transaction the loop accepts next is of the block, and not confirmed
\* yet: one without inputs belongs to its height, a spend has an unmarked image.
LEMMA NextTransaction ==
  ASSUME IInv, ApplyTransaction
  PROVE  /\ block \in Block /\ next \in 1..Len(TxsOf[block]) /\ next \in Nat
         /\ ledger \in UtxoSet /\ diff \in BlockDiff
         /\ Confirmed \in SUBSET Tx /\ ConfirmedUpTo(Len(applied)) \in SUBSET Confirmed
         /\ TxsOf[block][next] \notin Confirmed
  <1> USE DEF IInv, ApplyTransaction
  <1>1. block \in Block /\ next \in 1..Len(TxsOf[block]) /\ next \in Nat
    BY BlockAssumption DEF TypeOK
  <1>2. ledger \in UtxoSet /\ diff \in BlockDiff
    BY DEF TypeOK
  <1>3. Confirmed \in SUBSET Tx /\ ConfirmedUpTo(Len(applied)) \in SUBSET Confirmed
    BY ConfirmedType
  <1>4. TxsOf[block][next] \notin Confirmed
    <2>1. Rooted(ledger, Confirmed)
      BY DEF Grounded
    <2> QED  BY <1>1, <1>2, <1>3, <2>1, FreshTransaction, FreshMint
  <1> QED  BY <1>1, <1>2, <1>3, <1>4

\* One more transaction preserves the invariant: the diff still undoes
\* everything since the block began.
LEMMA ApplyTransactionIInv ==
  ASSUME IInv, ApplyTransaction
  PROVE  IInv'
  <1> USE DEF IInv, ApplyTransaction
  <1> DEFINE t == TxsOf[block][next]
             base == committed[Len(committed)]
  <1>1. block \in Block /\ next \in 1..Len(TxsOf[block]) /\ next \in Nat
    BY NextTransaction
  <1>2. ledger \in UtxoSet /\ diff \in BlockDiff
    BY NextTransaction
  <1>3. Confirmed \in SUBSET Tx /\ ConfirmedUpTo(Len(applied)) \in SUBSET Confirmed
    BY NextTransaction
  <1>4. t \notin Confirmed
    BY NextTransaction
  <1>5. Confirmed' = Confirmed \cup {t}
    <2>1. 1..(next' - 1) = (1..(next - 1)) \cup {next}
      BY <1>1
    <2> QED  BY <2>1 DEF Confirmed, ConfirmedUpTo, InFlight
  <1>6. TypeOK'
    BY <1>1, <1>2, AfterTxTypes DEF TypeOK
  <1>7. HeightsOK'
    BY <1>1 DEF HeightsOK, TipBlock
  <1>8. CommittedGrounded'
    BY DEF CommittedGrounded, ConfirmedUpTo
  <1>9. Grounded(ledger, Confirmed)'
    BY <1>1, <1>2, <1>3, <1>4, <1>5, GroundedStep
  <1>10. InFlightUndoes'
    <2>1. base \in UtxoSet /\ Len(committed) \in 1..Len(committed)
      BY ElementOfSeq, LenProperties DEF TypeOK
    <2>2. Rooted(base, ConfirmedUpTo(Len(applied))) /\ Rooted(ledger, Confirmed)
      <3>1. Grounded(base, ConfirmedUpTo(Len(applied))) /\ Grounded(ledger, Confirmed)
        BY <2>1, LenProperties DEF CommittedGrounded, TypeOK
      <3> QED  BY <3>1 DEF Grounded
    <2>3. Undoes(diff, ledger, base)
      BY DEF InFlightUndoes
    <2>4. Undoes(DiffAfterTx(diff, ledger, block, next),
                 LedgerAfterTx(ledger, block, next), base)
      BY <1>1, <1>2, <1>3, <1>4, <2>1, <2>2, <2>3, UndoesStep
    <2> QED  BY <2>4 DEF InFlightUndoes
  <1>11. UndoChainExact'
    BY DEF UndoChainExact
  <1> QED  BY <1>6, <1>7, <1>8, <1>9, <1>10, <1>11 DEF IdleIsCommitted

\* A refused transaction preserves the invariant: unwinding the partial diff
\* gives the committed ledger back.
LEMMA RejectTransactionIInv ==
  ASSUME IInv, RejectTransaction
  PROVE  IInv'
  <1> USE DEF IInv, RejectTransaction
  <1>1. ledger' = committed[Len(committed)]
    BY DEF InFlightUndoes, Undoes
  <1>2. Len(applied) \in Nat /\ Len(committed) = Len(applied) + 1
    BY LenProperties DEF TypeOK
  <1>3. TypeOK'
    <2>1. ledger' \in UtxoSet
      BY UnwindType DEF TypeOK
    <2> QED  BY <2>1, EmptyUndoes, GenesisGrounded DEF TypeOK
  <1>4. HeightsOK'
    BY DEF HeightsOK
  <1>5. CommittedGrounded'
    BY DEF CommittedGrounded, ConfirmedUpTo
  <1>6. Grounded(ledger, Confirmed)'
    <2>1. Confirmed' = ConfirmedUpTo(Len(applied))
      BY DEF Confirmed, ConfirmedUpTo, InFlight
    <2>2. Grounded(committed[Len(committed)], ConfirmedUpTo(Len(applied)))
      BY <1>2 DEF CommittedGrounded
    <2> QED  BY <1>1, <2>1, <2>2
  <1>7. UndoChainExact'
    BY DEF UndoChainExact
  <1> QED  BY <1>1, <1>3, <1>4, <1>5, <1>6, <1>7 DEF IdleIsCommitted, InFlightUndoes

\* The end of the block preserves the invariant: what the diff undoes in
\* flight it undoes as the diff of an applied block.
LEMMA CommitIInv ==
  ASSUME IInv, Commit
  PROVE  IInv'
  <1> USE DEF IInv, Commit
  <1> DEFINE n == Len(applied)
             entry == [block |-> block, diff |-> diff]
  <1>1. /\ n \in Nat /\ Len(committed) = n + 1
        /\ entry \in AppliedBlock /\ ledger \in UtxoSet /\ block \in Block
        /\ applied \in Seq(AppliedBlock) /\ committed \in Seq(UtxoSet)
    BY LenProperties DEF TypeOK, AppliedBlock
  <1>2. /\ Len(applied') = n + 1 /\ applied' \in Seq(AppliedBlock)
        /\ applied'[n + 1] = entry
        /\ \A i \in 1..n : applied'[i] = applied[i]
    BY <1>1, AppendProperties
  <1>3. /\ Len(committed') = n + 2 /\ committed' \in Seq(UtxoSet)
        /\ committed'[n + 2] = ledger
        /\ \A i \in 1..(n + 1) : committed'[i] = committed[i]
    BY <1>1, AppendProperties
  <1>4. TypeOK'
    BY <1>1, <1>2, <1>3, EmptyUndoes DEF TypeOK
  <1>5. HeightsOK'
    <2>1. Height[block] = n + 1
      BY DEF HeightsOK
    <2> QED  BY <1>1, <1>2, <2>1 DEF HeightsOK
  <1>6. ConfirmedOf(applied', n + 1) = Confirmed
    <2>1. ConfirmedOf(applied', n) = ConfirmedOf(applied, n)
      BY <1>1, <1>2, ConfirmedOfPrefix
    <2>2. next - 1 = Len(TxsOf[block])
      <3>1. TxsOf[block] \in Seq(Tx)
        BY <1>1, BlockAssumption
      <3>2. Len(TxsOf[block]) \in Nat
        BY <3>1, LenProperties
      <3>3. next \in Nat /\ next > Len(TxsOf[block]) /\ next <= Len(TxsOf[block]) + 1
        BY DEF HeightsOK, TypeOK
      <3> HIDE DEF IInv, Commit
      <3> QED  BY <3>2, <3>3
    <2>3. ConfirmedOf(applied', n + 1) =
            ConfirmedOf(applied, n) \cup {TxsOf[block][j] : j \in 1..(next - 1)}
      <3>1. ConfirmedOf(applied', n + 1) =
              ConfirmedOf(applied', n) \cup
              {TxsOf[applied'[n + 1].block][j] :
                 j \in 1..Len(TxsOf[applied'[n + 1].block])}
        <4>1. 1..(n + 1) = (1..n) \cup {n + 1}
          BY <1>1
        <4> QED  BY <4>1 DEF ConfirmedOf
      <3>2. applied'[n + 1].block = block
        BY <1>2
      <3> QED  BY <3>1, <3>2, <2>1, <2>2
    <2> QED  BY <2>3 DEF Confirmed, ConfirmedUpTo, InFlight
  <1>7. Confirmed' = Confirmed
    BY <1>2, <1>6 DEF Confirmed, ConfirmedUpTo, InFlight
  <1>8. CommittedGrounded'
    <2>1. ASSUME NEW i \in 1..(n + 2)
          PROVE  Grounded(committed'[i], ConfirmedOf(applied', i - 1))
      <3>1. CASE i = n + 2
        <4>1. i - 1 = n + 1
          BY <3>1, <1>1
        <4> QED  BY <3>1, <4>1, <1>3, <1>6
      <3>2. CASE i \in 1..(n + 1)
        <4>1. Grounded(committed[i], ConfirmedOf(applied, i - 1))
          BY <3>2, <1>1 DEF CommittedGrounded, ConfirmedUpTo
        <4>2. ConfirmedOf(applied', i - 1) = ConfirmedOf(applied, i - 1)
          <5>1. i - 1 \in Nat /\ \A j \in 1..(i - 1) : applied'[j] = applied[j]
            BY <3>2, <1>1, <1>2
          <5> QED  BY <5>1, ConfirmedOfPrefix
        <4> QED  BY <4>1, <4>2, <3>2, <1>3
      <3> QED  BY <3>1, <3>2, <1>1
    <2> QED  BY <2>1, <1>3 DEF CommittedGrounded, ConfirmedUpTo
  <1>9. UndoChainExact'
    <2>1. UnwindWithDiff(ledger, diff) = committed[n + 1]
      BY <1>1 DEF InFlightUndoes, Undoes
    <2>2. ASSUME NEW i \in 1..(n + 1)
          PROVE  UnwindWithDiff(committed'[i + 1], applied'[i].diff) = committed'[i]
      <3>1. CASE i = n + 1
        BY <3>1, <2>1, <1>1, <1>2, <1>3
      <3>2. CASE i \in 1..n
        <4>1. UnwindWithDiff(committed[i + 1], applied[i].diff) = committed[i]
          BY <3>2 DEF UndoChainExact
        <4> QED  BY <4>1, <3>2, <1>1, <1>2, <1>3
      <3> QED  BY <3>1, <3>2, <1>1
    <2> QED  BY <2>2, <1>2 DEF UndoChainExact
  <1> QED
    BY <1>1, <1>3, <1>4, <1>5, <1>7, <1>8, <1>9 DEF IdleIsCommitted, InFlightUndoes

\* A sequence without its last element.
LEMMA WithoutLast ==
  ASSUME NEW S, NEW s \in Seq(S), Len(s) # 0
  PROVE  LET r == SubSeq(s, 1, Len(s) - 1)
         IN  /\ r \in Seq(S)
             /\ Len(r) = Len(s) - 1
             /\ \A i \in 1..(Len(s) - 1) : r[i] = s[i]
  <1> DEFINE n == Len(s) - 1
  <1>1. n \in Nat /\ \A i \in 1..n : s[i] \in S
    BY LenProperties, ElementOfSeq
  <1>2. /\ SubSeq(s, 1, n) \in Seq(S)
        /\ Len(SubSeq(s, 1, n)) = IF 1 <= n THEN n - 1 + 1 ELSE 0
        /\ \A i \in 1..(n - 1 + 1) : SubSeq(s, 1, n)[i] = s[1 + i - 1]
    BY <1>1, SubSeqProperties
  <1> HIDE DEF n
  <1>3. \A i \in 1..n : 1 + i - 1 = i /\ i \in 1..(n - 1 + 1)
    BY <1>1
  <1>4. Len(SubSeq(s, 1, n)) = n
    BY <1>1, <1>2
  <1>5. \A i \in 1..n : SubSeq(s, 1, n)[i] = s[i]
    BY <1>2, <1>3
  <1> QED  BY <1>2, <1>4, <1>5 DEF n

\* Taking the last block back preserves the invariant.
LEMMA RetractIInv ==
  ASSUME IInv, Retract
  PROVE  IInv'
  <1> USE DEF IInv, Retract
  <1> DEFINE n == Len(applied)
  <1>1. /\ n \in Nat \ {0} /\ Len(committed) = n + 1
        /\ applied \in Seq(AppliedBlock) /\ committed \in Seq(UtxoSet)
    BY EmptySeq DEF TypeOK
  <1>2. /\ Len(applied') = n - 1 /\ applied' \in Seq(AppliedBlock)
        /\ \A i \in 1..(n - 1) : applied'[i] = applied[i]
    BY <1>1, WithoutLast
  <1>3. /\ Len(committed') = n /\ committed' \in Seq(UtxoSet)
        /\ \A i \in 1..n : committed'[i] = committed[i]
    BY <1>1, WithoutLast
  <1>4. ledger' = committed[n]
    BY <1>1 DEF UndoChainExact, IdleIsCommitted
  <1>5. ledger' \in UtxoSet
    BY <1>1, <1>4, ElementOfSeq
  <1>6. TypeOK'
    BY <1>1, <1>2, <1>3, <1>5 DEF TypeOK
  <1>7. HeightsOK'
    BY <1>1, <1>2 DEF HeightsOK
  <1>8. CommittedGrounded'
    <2>1. ASSUME NEW i \in 1..n
          PROVE  Grounded(committed'[i], ConfirmedOf(applied', i - 1))
      <3>1. Grounded(committed[i], ConfirmedOf(applied, i - 1))
        BY <1>1 DEF CommittedGrounded, ConfirmedUpTo
      <3>2. ConfirmedOf(applied', i - 1) = ConfirmedOf(applied, i - 1)
        <4>1. i - 1 \in Nat /\ \A j \in 1..(i - 1) : applied'[j] = applied[j]
          BY <1>1, <1>2
        <4> QED  BY <4>1, ConfirmedOfPrefix
      <3> QED  BY <3>1, <3>2, <1>3
    <2> QED  BY <2>1, <1>3 DEF CommittedGrounded, ConfirmedUpTo
  <1>9. Grounded(ledger, Confirmed)'
    <2>1. Confirmed' = ConfirmedOf(applied', n - 1)
      BY <1>2 DEF Confirmed, ConfirmedUpTo, InFlight, ConfirmedOf
    <2>2. n \in 1..Len(committed') /\ committed'[n] = ledger'
      BY <1>1, <1>3, <1>4
    <2> QED  BY <2>1, <2>2, <1>8 DEF CommittedGrounded, ConfirmedUpTo
  <1>10. UndoChainExact'
    BY <1>1, <1>2, <1>3 DEF UndoChainExact
  <1> QED
    BY <1>1, <1>3, <1>4, <1>6, <1>7, <1>8, <1>9, <1>10 DEF IdleIsCommitted, InFlightUndoes

\* A step that changes nothing preserves the invariant.
LEMMA StutterIInv ==
  ASSUME IInv, UNCHANGED vars
  PROVE  IInv'
  BY DEF IInv, vars, TypeOK, HeightsOK, CommittedGrounded, ConfirmedUpTo, Confirmed,
         InFlight, IdleIsCommitted, InFlightUndoes, UndoChainExact, TipBlock

\* The inductive invariant holds of every state that apply_block_and_track and
\* unwind_with_diff can reach from the genesis ledger.
THEOREM InductiveInvariant == Spec => []IInv
  <1>1. Init => IInv
    BY InitIInv
  <1>2. IInv /\ [Next]_vars => IInv'
    BY BeginIInv, ApplyTransactionIInv, RejectTransactionIInv, CommitIInv,
       RetractIInv, StutterIInv DEF Next
  <1> QED  BY <1>1, <1>2, PTL DEF Spec

-----------------------------------------------------------------------------
(* The properties.                                                         *)

\* Every variable of the ledger's bookkeeping keeps its type.
THEOREM TypeCorrectness == Spec => []TypeOK
  <1>1. IInv => TypeOK
    BY DEF IInv
  <1> QED  BY <1>1, InductiveInvariant, PTL

\* Whatever transaction of a block is refused, unwinding the partial diff gives
\* the ledger the block began with.
THEOREM RollbackIsExact == Spec => []RollbackExact
  <1>1. IInv => RollbackExact
    BY DEF IInv, RollbackExact, InFlightUndoes, Undoes
  <1> QED  BY <1>1, InductiveInvariant, PTL

\* The diffs of the applied blocks lead back through every earlier ledger.
THEOREM UndoChainIsExact == Spec => []UndoChainExact
  <1>1. IInv => UndoChainExact
    BY DEF IInv
  <1> QED  BY <1>1, InductiveInvariant, PTL

\* A confirmed spend is final while its block is on the chain, also across
\* refused blocks and reorganisations.
THEOREM SpendingIsFinal == Spec => []SpentExactlyOnce
  <1>1. IInv => SpentExactlyOnce
    BY DEF IInv, SpentExactlyOnce, Grounded, Rooted
  <1> QED  BY <1>1, InductiveInvariant, PTL

\* The places of the first blocks are up to those blocks.
LEMMA PlacesPrefix ==
  ASSUME NEW m \in Nat, \A i \in 1..m : applied'[i] = applied[i]
  PROVE  PlacesUpTo(m)' = PlacesUpTo(m)
  BY DEF PlacesUpTo

\* The place of the transaction that is next is none of those before it.
LEMMA NextPlace ==
  ASSUME IInv, phase = "applying"
  PROVE  <<block, next>> \notin PlacesUpTo(Len(applied)) \cup PlacesInFlight
  <1>1. next \in Nat /\ Len(applied) \in Nat
    BY LenProperties DEF IInv, TypeOK
  <1>2. <<block, next>> \notin PlacesInFlight
    BY <1>1 DEF PlacesInFlight, PlacesOf
  <1>3. ASSUME <<block, next>> \in PlacesUpTo(Len(applied))  PROVE  FALSE
    <2>1. PICK i \in 1..Len(applied) : block = applied[i].block
      BY <1>3 DEF PlacesUpTo, PlacesOf
    <2>2. Height[block] = i /\ Height[block] = Len(applied) + 1
      BY <2>1 DEF IInv, HeightsOK
    <2> QED  BY <1>1, <2>2
  <1> QED  BY <1>2, <1>3

\* No step leaves a ledger that holds more than its supply and the gains under it:
\* neither one more transaction, nor going back to a ledger of before.
LEMMA LedgersBackedStep ==
  ASSUME IInv, LedgersBacked, [Next]_vars
  PROVE  LedgersBacked'
  <1>n. PICK n \in Nat : n = Len(applied)
    BY LenProperties DEF IInv, TypeOK
  <1>0. /\ committed \in Seq(UtxoSet) /\ ledger \in UtxoSet /\ n = Len(applied)
        /\ Len(committed) = n + 1 /\ applied \in Seq(AppliedBlock)
    BY <1>n, LenProperties DEF IInv, TypeOK
  <1>a. /\ Backed(ledger, PlacesUpTo(n) \cup PlacesInFlight)
        /\ \A i \in 1..(n + 1) : Backed(committed[i], PlacesUpTo(i - 1))
    BY <1>0 DEF LedgersBacked
  <1>1. ASSUME NEW b \in Block, Begin(b)  PROVE  LedgersBacked'
    <2>1. PlacesInFlight = {} /\ PlacesInFlight' = {}
      <3>1. PlacesOf(b, 1 - 1) = {}
        BY DEF PlacesOf
      <3> QED  BY <1>1, <3>1 DEF Begin, PlacesInFlight
    <2>2. \A i : PlacesUpTo(i)' = PlacesUpTo(i)
      BY <1>1 DEF Begin, PlacesUpTo
    <2>3. ledger' = ledger /\ applied' = applied /\ committed' = committed
      BY <1>1 DEF Begin
    <2> QED  BY <1>a, <1>0, <2>1, <2>2, <2>3 DEF LedgersBacked
  <1>2. CASE ApplyTransaction
    <2>1. \A i : PlacesUpTo(i)' = PlacesUpTo(i)
      BY <1>2 DEF ApplyTransaction, PlacesUpTo
    <2>2. next \in Nat /\ next' = next + 1 /\ phase = "applying" /\ phase' = "applying"
          /\ block' = block /\ next \in 1..Len(TxsOf[block])
      BY <1>2, NextTransaction DEF ApplyTransaction
    <2>3. PlacesInFlight' = PlacesInFlight \cup {<<block, next>>}
      <3>1. 1..(next + 1 - 1) = (1..(next - 1)) \cup {next}
        BY <2>2
      <3> QED  BY <2>2, <3>1 DEF PlacesInFlight, PlacesOf
    <2> DEFINE P == PlacesUpTo(n) \cup PlacesInFlight
    <2>4. Backed(ledger, P) /\ <<block, next>> \notin P
      BY <1>a, <1>0, <2>2, NextPlace
    <2> HIDE DEF P
    <2>5. Backed(LedgerAfterTx(ledger, block, next), P \cup {<<block, next>>})
      BY <2>4, <1>2, NextTransaction, BackedStep DEF IInv, ApplyTransaction
    <2>6. Backed(ledger', PlacesUpTo(n) \cup PlacesInFlight')
      BY <2>3, <2>5, <1>2 DEF ApplyTransaction, P
    <2>7. applied' = applied /\ committed' = committed
      BY <1>2 DEF ApplyTransaction
    <2> QED  BY <2>1, <2>6, <2>7, <1>0, <1>a DEF LedgersBacked
  <1>3. CASE RejectTransaction
    <2>1. ledger' = committed[n + 1]
      BY <1>0, <1>3 DEF RejectTransaction, IInv, InFlightUndoes, Undoes
    <2>2. \A i : PlacesUpTo(i)' = PlacesUpTo(i)
      BY <1>3 DEF RejectTransaction, PlacesUpTo
    <2>3. applied' = applied /\ committed' = committed /\ PlacesInFlight' = {}
      BY <1>3 DEF RejectTransaction, PlacesInFlight
    <2>4. Backed(committed[n + 1], PlacesUpTo(n))
      BY <1>0, <1>a
    <2> QED  BY <2>1, <2>2, <2>3, <2>4, <1>0, <1>a DEF LedgersBacked
  <1>4. CASE Commit
    <2>1. /\ committed' = Append(committed, ledger) /\ ledger' = ledger
          /\ applied' = Append(applied, [block |-> block, diff |-> diff])
          /\ phase = "applying" /\ phase' = "idle" /\ next > Len(TxsOf[block])
      BY <1>4 DEF Commit
    <2>2. /\ Len(committed') = n + 2 /\ committed'[n + 2] = ledger
          /\ \A i \in 1..(n + 1) : committed'[i] = committed[i]
      BY <1>0, <2>1, AppendProperties
    <2>3. /\ Len(applied') = n + 1 /\ applied'[n + 1].block = block
          /\ \A i \in 1..n : applied'[i] = applied[i]
      <3>1. [block |-> block, diff |-> diff] \in AppliedBlock
        BY <1>4 DEF Commit, IInv, TypeOK, AppliedBlock
      <3> QED  BY <1>0, <2>1, <3>1, AppendProperties
    <2>4. \A i \in 0..n : PlacesUpTo(i)' = PlacesUpTo(i)
      BY <1>0, <2>3, PlacesPrefix
    <2>5. PlacesUpTo(n + 1)' = PlacesUpTo(n) \cup PlacesInFlight
      <3>1. Len(TxsOf[block]) \in Nat
        BY <2>1, BlockAssumption DEF IInv, TypeOK
      <3>2. next \in Nat /\ next <= Len(TxsOf[block]) + 1
        BY <2>1 DEF IInv, TypeOK, HeightsOK
      <3>3. next - 1 = Len(TxsOf[block])
        BY <2>1, <3>1, <3>2
      <3>4. PlacesInFlight = PlacesOf(block, Len(TxsOf[block]))
        BY <2>1, <3>3 DEF PlacesInFlight
      <3>5. PlacesUpTo(n + 1)' = PlacesUpTo(n)' \cup PlacesOf(block, Len(TxsOf[block]))
        <4>1. PlacesUpTo(n + 1)' = PlacesUpTo(n)'
                \cup PlacesOf(applied'[n + 1].block, Len(TxsOf[applied'[n + 1].block]))
          <5>1. 1..(n + 1) = (1..n) \cup {n + 1}
            BY <1>0
          <5> QED  BY <5>1 DEF PlacesUpTo
        <4> QED  BY <4>1, <2>3
      <3> QED  BY <3>4, <3>5, <2>4, <1>0
    <2>6. ASSUME NEW i \in 1..(n + 2)  PROVE  Backed(committed'[i], PlacesUpTo(i - 1)')
      <3>1. CASE i = n + 2
        <4>1. i - 1 = n + 1
          BY <3>1, <1>0
        <4> QED  BY <4>1, <3>1, <2>2, <2>5, <1>a
      <3>2. CASE i \in 1..(n + 1)
        <4>1. i - 1 \in 0..n
          BY <3>2, <1>0
        <4> QED  BY <4>1, <3>2, <2>2, <2>4, <1>a
      <3> QED  BY <3>1, <3>2, <1>0
    <2>7. Backed(ledger', PlacesUpTo(n + 1)' \cup PlacesInFlight')
      <3>1. PlacesInFlight' = {}
        BY <2>1 DEF PlacesInFlight
      <3> QED  BY <3>1, <2>1, <2>5, <1>a
    <2> QED  BY <2>2, <2>3, <2>6, <2>7 DEF LedgersBacked
  <1>5. CASE Retract
    <2>1. applied # <<>> /\ n # 0
      BY <1>0, <1>5, EmptySeq DEF Retract, IInv, TypeOK
    <2>2. ledger' = committed[n] /\ PlacesInFlight' = {}
      BY <1>0, <1>5, <2>1 DEF Retract, IInv, UndoChainExact, IdleIsCommitted, PlacesInFlight
    <2>3. /\ Len(committed') = n /\ \A i \in 1..n : committed'[i] = committed[i]
      BY <1>0, <1>5, WithoutLast DEF Retract
    <2>4. /\ Len(applied') = n - 1 /\ \A i \in 1..(n - 1) : applied'[i] = applied[i]
      BY <1>0, <1>5, <2>1, WithoutLast DEF Retract
    <2>5. \A i \in 0..(n - 1) : PlacesUpTo(i)' = PlacesUpTo(i)
      BY <1>0, <2>4, PlacesPrefix
    <2>6. \A i \in 1..n : Backed(committed'[i], PlacesUpTo(i - 1)')
      BY <1>0, <1>a, <2>1, <2>3, <2>5
    <2>7. Backed(ledger', PlacesUpTo(n - 1)' \cup PlacesInFlight')
      BY <1>0, <1>a, <2>1, <2>2, <2>5
    <2> QED  BY <2>3, <2>4, <2>6, <2>7 DEF LedgersBacked
  <1>6. CASE UNCHANGED vars
    BY <1>6 DEF vars, LedgersBacked, PlacesUpTo, PlacesInFlight
  <1> QED  BY <1>1, <1>2, <1>3, <1>4, <1>5, <1>6 DEF Next

\* Whatever the transactions, the unspent outputs hold no more than the supply and what
\* the transactions on the chain made appear in one of three ways, in the middle of a
\* block and after a refused or retracted one included.
THEOREM ValueIsBacked == Spec => []ValueBacked
  <1>1. Init => LedgersBacked
    <2> SUFFICES ASSUME Init  PROVE  LedgersBacked
      OBVIOUS
    <2>1. ledger = GenesisLedger /\ Len(committed) = 1 /\ committed[1] = GenesisLedger
      BY DEF Init
    <2>2. PlacesUpTo(0) = {} /\ Len(applied) = 0 /\ PlacesInFlight = {}
      BY DEF Init, PlacesUpTo, PlacesInFlight
    <2>3. Backed(ledger, PlacesUpTo(Len(applied)) \cup PlacesInFlight)
      BY <2>1, <2>2, GenesisBacked
    <2>4. \A i \in 1..Len(committed) : i = 1 /\ i - 1 = 0
      BY <2>1
    <2>5. \A i \in 1..Len(committed) : Backed(committed[i], PlacesUpTo(i - 1))
      BY <2>1, <2>2, <2>4, GenesisBacked
    <2> QED  BY <2>3, <2>5 DEF LedgersBacked
  <1>2. LedgersBacked => ValueBacked
    BY DEF LedgersBacked, Backed, UnspentValue, ValueBacked
  <1> QED  BY <1>1, <1>2, LedgersBackedStep, InductiveInvariant, PTL DEF Spec

-----------------------------------------------------------------------------
(* The implementation of AtomicLedger.                                     *)

\* The ledger after n - 1 transactions of b and one more is the declared effect
\* of n transactions: what the n-th creates, no transaction of b spent before.
LEMMA EffectStep ==
  ASSUME NEW S \in UtxoSet, NEW b \in Block, NEW n \in 1..Len(TxsOf[b]),
         NEW C \in SUBSET Tx,
         NEW L \in UtxoSet, L = AtomicView!AfterPrefix(S, b, n - 1),
         Grounded(L, C), \A j \in 1..(n - 1) : TxsOf[b][j] \in C,
         Accepts(L, b, n), TxsOf[b][n] \notin C
  PROVE  LedgerAfterTx(L, b, n) = AtomicView!AfterPrefix(S, b, n)
  <1> DEFINE t == TxsOf[b][n]
             M == LedgerAfterTx(L, b, n)
             spent(m) == UNION {SpentKeys(TxsOf[b][j]) : j \in 2..m}
             made(m)  == UNION {KeysOf(TxsOf[b][j]) : j \in 1..m}
             marked(m) == UNION {SpentImages(TxsOf[b][j]) : j \in 2..m}
  <1>1. t \in Tx /\ CoinbaseAmount(t) \in Nat /\ n \in Nat
    BY BlockAssumption, SumsNatural
  <1>2. ASSUME NEW m \in 0..n
        PROVE  AtomicView!AfterPrefix(S, b, m) =
                 [utxos  |-> [k \in Key |-> IF k \in spent(m) THEN NoEntry
                                            ELSE IF k \in made(m) THEN Height[b]
                                            ELSE S.utxos[k]],
                  images |-> S.images \cup marked(m),
                  supply |-> S.supply + IF m = 0 THEN 0 ELSE CoinbaseAmount(TxsOf[b][1])]
    <2>1. \A k \in Key : /\ (\E j \in 2..m : k \in SpentKeys(TxsOf[b][j])) <=> k \in spent(m)
                         /\ (\E j \in 1..m : k \in KeysOf(TxsOf[b][j])) <=> k \in made(m)
      OBVIOUS
    <2>2. [k \in Key |->
             IF \E j \in 2..m : k \in SpentKeys(TxsOf[b][j]) THEN NoEntry
             ELSE IF \E j \in 1..m : k \in KeysOf(TxsOf[b][j]) THEN Height[b]
             ELSE S.utxos[k]] =
          [k \in Key |-> IF k \in spent(m) THEN NoEntry
                         ELSE IF k \in made(m) THEN Height[b]
                         ELSE S.utxos[k]]
      <3> HIDE DEF spent, made
      <3> QED  BY <2>1
    <2> HIDE DEF spent, made
    <2> QED  BY <2>2 DEF AtomicView!AfterPrefix
  <1>3. /\ \A k \in Key : L.utxos[k] = IF k \in spent(n - 1) THEN NoEntry
                                       ELSE IF k \in made(n - 1) THEN Height[b]
                                       ELSE S.utxos[k]
        /\ L.images = S.images \cup marked(n - 1)
        /\ L.supply = S.supply + IF n = 1 THEN 0 ELSE CoinbaseAmount(TxsOf[b][1])
    <2>1. n - 1 \in 0..n /\ (n - 1 = 0 <=> n = 1)
      BY <1>1
    <2> HIDE DEF spent, made, marked
    <2> QED  BY <2>1, <1>2
  <1>4. \A k \in spent(n - 1) : k \in Key => k[1] \in C
    BY DEF Grounded, Rooted
  <1>5. \A k \in Key : k \in KeysOf(t) <=> k[1] = t
    BY <1>1, KeyMaker
  <1>6. made(n) = made(n - 1) \cup KeysOf(t)
    <2>1. 1..n = (1..(n - 1)) \cup {n}
      BY <1>1
    <2> QED  BY <2>1
  <1>7. CASE n = 1
    <2>1. /\ \A k \in Key : M.utxos[k] = IF k \in KeysOf(t) THEN Height[b] ELSE L.utxos[k]
          /\ M.images = L.images
          /\ M.supply = L.supply + CoinbaseAmount(t)
      BY <1>7, LedgerAfterCoinbase
    <2>2. spent(n) = {} /\ spent(n - 1) = {} /\ marked(n) = marked(n - 1) /\ made(n - 1) = {}
      <3>1. 2..n = {} /\ 2..(n - 1) = {} /\ 1..(n - 1) = {}
        BY <1>7
      <3> QED  BY <3>1
    <2>3. S.supply \in Nat
      BY DEF UtxoSet
    <2> HIDE DEF spent, made, marked
    <2>4. /\ \A k \in Key : M.utxos[k] = IF k \in spent(n) THEN NoEntry
                                         ELSE IF k \in made(n) THEN Height[b]
                                         ELSE S.utxos[k]
          /\ M.images = S.images \cup marked(n)
          /\ M.supply = S.supply + CoinbaseAmount(TxsOf[b][1])
      BY <2>1, <2>2, <2>3, <1>3, <1>6, <1>7
    <2>5. M \in UtxoSet
      BY EmptyUndoes, AfterTxTypes
    <2>6. M = AtomicView!AfterPrefix(S, b, n)
      <3> HIDE DEF M
      <3>1. AtomicView!AfterPrefix(S, b, n) =
              [utxos  |-> [k \in Key |-> M.utxos[k]], images |-> M.images, supply |-> M.supply]
        BY <2>4, <1>1, <1>2, <1>7
      <3> QED  BY <2>5, <3>1 DEF UtxoSet
    <2> QED  BY <2>6
  <1>8. CASE n > 1
    <2>1. /\ \A k \in Key : M.utxos[k] = IF k \in KeysOf(t) THEN Height[b]
                                         ELSE IF k \in SpentKeys(t) THEN NoEntry
                                         ELSE L.utxos[k]
          /\ M.images = L.images \cup SpentImages(t)
          /\ M.supply = L.supply
      BY <1>8, LedgerAfterSpend
    <2>2. spent(n) = spent(n - 1) \cup SpentKeys(t) /\ marked(n) = marked(n - 1) \cup SpentImages(t)
      <3>1. 2..n = (2..(n - 1)) \cup {n}
        BY <1>1, <1>8
      <3> QED  BY <3>1
    <2>3. \A k \in SpentKeys(t) : k \in Key => k[1] \in C
      BY <1>8, AcceptedSpend DEF Grounded, Rooted
    <2> HIDE DEF spent, made, marked
    <2>4. /\ \A k \in Key : M.utxos[k] = IF k \in spent(n) THEN NoEntry
                                         ELSE IF k \in made(n) THEN Height[b]
                                         ELSE S.utxos[k]
          /\ M.images = S.images \cup marked(n)
          /\ M.supply = S.supply + CoinbaseAmount(TxsOf[b][1])
      BY <2>1, <2>2, <2>3, <1>3, <1>4, <1>5, <1>6, <1>8
    <2>5. M \in UtxoSet
      BY EmptyUndoes, AfterTxTypes
    <2>6. M = AtomicView!AfterPrefix(S, b, n)
      <3> HIDE DEF M
      <3>1. AtomicView!AfterPrefix(S, b, n) =
              [utxos  |-> [k \in Key |-> M.utxos[k]], images |-> M.images, supply |-> M.supply]
        BY <2>4, <1>1, <1>2, <1>8
      <3> QED  BY <2>5, <3>1 DEF UtxoSet
    <2> QED  BY <2>6
  <1> QED  BY <1>1, <1>7, <1>8

\* A transaction that passes after n - 1 others of its block spends once.
LEMMA SpendsOnceStep ==
  ASSUME NEW S \in UtxoSet, NEW b \in Block, NEW n \in 1..Len(TxsOf[b]), n > 1,
         NEW C \in SUBSET Tx,
         NEW L \in UtxoSet, L = AtomicView!AfterPrefix(S, b, n - 1),
         Grounded(L, C), \A j \in 1..(n - 1) : TxsOf[b][j] \in C,
         Accepts(L, b, n)
  PROVE  AtomicView!SpendsOnce(S, b, n)
  <1> DEFINE t == TxsOf[b][n]
  <1>1. t \in Tx /\ SpentKeys(t) \subseteq Key
    BY BlockAssumption, InputTypes
  <1>2. /\ \A k \in SpentKeys(t) : Exists(L, k)
        /\ SpentImages(t) \cap L.images = {}
    BY AcceptedSpend
  <1>3. S.images \subseteq L.images
    BY DEF AtomicView!AfterPrefix
  <1>4. ASSUME NEW m \in 2..(n - 1)
        PROVE  /\ SpentImages(t) \cap SpentImages(TxsOf[b][m]) = {}
               /\ SpentKeys(t) \cap SpentKeys(TxsOf[b][m]) = {}
    <2>1. TxsOf[b][m] \in C
      OBVIOUS
    <2>2. SpentImages(TxsOf[b][m]) \subseteq L.images
      BY <2>1 DEF Grounded, Rooted
    <2>3. \A k \in SpentKeys(TxsOf[b][m]) : ~Exists(L, k)
      BY <2>1 DEF Grounded, Rooted
    <2> QED  BY <2>2, <2>3, <1>2
  <1>5. ASSUME NEW k \in SpentKeys(t)
        PROVE  S.utxos[k] # NoEntry \/ \E m \in 1..(n - 1) : k \in KeysOf(TxsOf[b][m])
    <2>1. k \in Key /\ L.utxos[k] # NoEntry
      BY <1>1, <1>2 DEF Exists
    <2> QED  BY <2>1 DEF AtomicView!AfterPrefix
  <1> QED  BY <1>2, <1>3, <1>4, <1>5 DEF AtomicView!SpendsOnce

\* Nothing has taken effect before the first transaction.
LEMMA EmptyEffect ==
  ASSUME NEW S \in UtxoSet, NEW b \in Block
  PROVE  AtomicView!AfterPrefix(S, b, 0) = S
  <1>1. S = [utxos |-> [k \in Key |-> S.utxos[k]], images |-> S.images, supply |-> S.supply]
    BY DEF UtxoSet
  <1>2. 2..0 = {} /\ 1..0 = {} /\ S.supply + 0 = S.supply
    BY DEF UtxoSet
  <1>3. AtomicView!AfterPrefix(S, b, 0) =
          [utxos |-> [k \in Key |-> S.utxos[k]], images |-> S.images, supply |-> S.supply]
    BY <1>2 DEF AtomicView!AfterPrefix
  <1> QED  BY <1>1, <1>3

\* Every step preserves that the ledger in flight is the declared effect of
\* the transactions that have gone through.
LEMMA InFlightEffectStep ==
  ASSUME IInv, InFlightEffect, [Next]_vars
  PROVE  InFlightEffect'
  <1> DEFINE base == committed[Len(committed)]
  <1>0. base \in UtxoSet
    BY ElementOfSeq, LenProperties DEF IInv, TypeOK
  <1>1. ASSUME NEW b \in Block, Begin(b)  PROVE InFlightEffect'
    <2>1. ledger = base
      BY <1>1 DEF IInv, IdleIsCommitted, Begin
    <2>2. AtomicView!AfterPrefix(base, b, 1 - 1) = base
      BY <1>0, EmptyEffect
    <2> HIDE DEF base
    <2>3. block' = b /\ next' = 1 /\ ledger' = base /\ base' = base
      BY <1>1, <2>1 DEF Begin, base
    <2>4. 2..(1 - 1) = {}
      OBVIOUS
    <2> QED  BY <2>2, <2>3, <2>4 DEF InFlightEffect, base
  <1>2. CASE ApplyTransaction
    <2> USE DEF ApplyTransaction
    <2>1. /\ block \in Block /\ next \in 1..Len(TxsOf[block]) /\ next \in Nat
          /\ ledger \in UtxoSet /\ Confirmed \in SUBSET Tx
          /\ TxsOf[block][next] \notin Confirmed
      BY <1>2, NextTransaction
    <2>2. /\ ledger = AtomicView!AfterPrefix(base, block, next - 1)
          /\ \A n \in 2..(next - 1) : AtomicView!SpendsOnce(base, block, n)
      BY <1>2 DEF InFlightEffect
    <2>3. \A j \in 1..(next - 1) : TxsOf[block][j] \in Confirmed
      BY <1>2 DEF Confirmed, InFlight
    <2>4. Grounded(ledger, Confirmed) /\ Accepts(ledger, block, next)
      BY <1>2 DEF IInv
    <2>5. ledger' = AtomicView!AfterPrefix(base, block, next)
      <3> HIDE DEF base
      <3>1. LedgerAfterTx(ledger, block, next) = AtomicView!AfterPrefix(base, block, next)
        BY <2>1, <2>2, <2>3, <2>4, <1>0, EffectStep
      <3> QED  BY <3>1, <1>2
    <2>6. next > 1 => AtomicView!SpendsOnce(base, block, next)
      <3> HIDE DEF base
      <3> QED  BY <2>1, <2>2, <2>3, <2>4, <1>0, SpendsOnceStep
    <2>7. \A n \in 2..next : AtomicView!SpendsOnce(base, block, n)
      <3> HIDE DEF base
      <3>1. \A n \in 2..next : n \in 2..(next - 1) \/ (n = next /\ next > 1)
        BY <2>1
      <3> QED  BY <3>1, <2>2, <2>6
    <2>8. next' - 1 = next /\ block' = block /\ base' = base
      BY <1>2, <2>1
    <2> HIDE DEF base
    <2> QED  BY <2>5, <2>7, <2>8 DEF InFlightEffect, base
  <1>3. CASE RejectTransaction
    BY <1>3 DEF RejectTransaction, InFlightEffect
  <1>4. CASE Commit
    BY <1>4 DEF Commit, InFlightEffect
  <1>5. CASE Retract
    BY <1>5 DEF Retract, InFlightEffect
  <1>6. CASE UNCHANGED vars
    BY <1>6 DEF vars, InFlightEffect
  <1> QED  BY <1>1, <1>2, <1>3, <1>4, <1>5, <1>6 DEF Next

\* The ledger in flight is the declared effect of its transactions, always.
THEOREM EffectInvariant == Spec => [](IInv /\ InFlightEffect)
  <1>1. Init => InFlightEffect
    BY DEF Init, InFlightEffect
  <1> QED  BY <1>1, InFlightEffectStep, InductiveInvariant, PTL DEF Spec

\* The ledgers a caller sees are the committed ones, a block in flight or not.
LEMMA LedgersCommitted ==
  ASSUME IInv
  PROVE  Ledgers = committed
  <1> DEFINE m == Len(committed)
  <1>1. committed \in Seq(UtxoSet) /\ m \in 1..Len(committed)
    BY LenProperties DEF IInv, TypeOK
  <1>2. CASE phase = "idle"
    <2>1. ledger = committed[m] /\ ledger \in UtxoSet
      BY <1>2 DEF IInv, IdleIsCommitted, TypeOK
    <2> DEFINE r == [committed EXCEPT ![m] = ledger]
    <2>2. /\ r \in Seq(UtxoSet) /\ Len(r) = Len(committed)
          /\ \A j \in 1..Len(committed) : r[j] = IF j = m THEN ledger ELSE committed[j]
      BY <1>1, <2>1, ExceptSeq
    <2>3. \A j \in 1..Len(r) : r[j] = committed[j]
      BY <2>1, <2>2
    <2>4. r = committed
      BY <1>1, <2>2, <2>3, SeqEqual
    <2> QED  BY <1>2, <2>4 DEF Ledgers
  <1>3. CASE phase # "idle"
    BY <1>3 DEF Ledgers
  <1> QED  BY <1>2, <1>3

\* The tip of the abstract chain is the last applied block.
LEMMA AppliedBlocksTip ==
  ASSUME TypeOK
  PROVE  AtomicView!TipOf(AppliedBlocks) = TipBlock
  <1>1. Len(applied) \in Nat /\ (applied = <<>> <=> Len(applied) = 0)
    BY LenProperties, EmptySeq DEF TypeOK
  <1>2. Len(AppliedBlocks) = Len(applied) /\ (AppliedBlocks = <<>> <=> Len(applied) = 0)
    BY <1>1 DEF AppliedBlocks
  <1>3. CASE Len(applied) = 0
    BY <1>1, <1>2, <1>3 DEF AtomicView!TipOf, TipBlock
  <1>4. CASE Len(applied) > 0
    BY <1>1, <1>2, <1>4 DEF AtomicView!TipOf, TipBlock, AppliedBlocks
  <1> QED  BY <1>1, <1>3, <1>4

\* The genesis ledger maps to the initial state of AtomicLedger.
LEMMA RefinementInit == Init => AtomicView!Init
  <1> SUFFICES ASSUME Init PROVE AtomicView!Init
    OBVIOUS
  <1>1. Ledgers = <<GenesisLedger>>
    BY InitIInv, LedgersCommitted DEF Init
  <1>2. AppliedBlocks = <<>>
    BY DEF Init, AppliedBlocks
  <1> QED  BY <1>1, <1>2 DEF AtomicView!Init

\* What the refinement mapping shows is the history of committed ledgers.
LedgersSeen == Ledgers = committed

\* Every step maps to one of AtomicLedger or to a stutter: Commit to Extend,
\* Retract to Retract, the others to nothing.
LEMMA RefinementStep ==
  IInv /\ IInv' /\ InFlightEffect /\ [Next]_vars /\ LedgersSeen /\ LedgersSeen'
    => [AtomicView!Next]_(AtomicView!vars)
  <1> SUFFICES ASSUME IInv, IInv', InFlightEffect, [Next]_vars,
                      LedgersSeen, LedgersSeen'
               PROVE  [AtomicView!Next]_(AtomicView!vars)
    OBVIOUS
  <1>1. Ledgers = committed /\ Ledgers' = committed'
    BY DEF LedgersSeen
  <1>2. ASSUME applied' = applied, committed' = committed
        PROVE  UNCHANGED AtomicView!vars
    BY <1>1, <1>2 DEF AtomicView!vars, AppliedBlocks
  <1>3. applied \in Seq(AppliedBlock) /\ committed \in Seq(UtxoSet)
        /\ Len(applied) \in Nat /\ Len(committed) = Len(applied) + 1
    BY LenProperties DEF IInv, TypeOK
  <1>8. \A i \in 1..Len(applied) : applied[i].block \in Block
    <2>1. \A i \in 1..Len(applied) : applied[i] \in AppliedBlock
      BY <1>3, ElementOfSeq
    <2> QED  BY <2>1 DEF AppliedBlock
  <1>4. CASE Commit
    <2> DEFINE n == Len(applied)
               L == committed[Len(committed)]
               entry == [block |-> block, diff |-> diff]
    <2>1. block \in Block /\ next - 1 = Len(TxsOf[block]) /\ diff \in BlockDiff
      <3>1. /\ block \in Block /\ next \in Nat /\ diff \in BlockDiff
            /\ next <= Len(TxsOf[block]) + 1 /\ next > Len(TxsOf[block])
        BY <1>4 DEF IInv, TypeOK, HeightsOK, Commit
      <3>2. Len(TxsOf[block]) \in Nat
        BY <3>1, BlockAssumption, LenProperties
      <3> QED  BY <3>1, <3>2
    <2>2. Parent[block] = AtomicView!TipOf(AppliedBlocks)
      BY <1>4, AppliedBlocksTip DEF IInv, HeightsOK, Commit
    <2>3. /\ ledger = AtomicView!AfterPrefix(L, block, Len(TxsOf[block]))
          /\ \A m \in 2..Len(TxsOf[block]) : AtomicView!SpendsOnce(L, block, m)
      BY <1>4, <2>1 DEF InFlightEffect, Commit
    <2>4. AppliedBlocks' = Append(AppliedBlocks, block)
      <3>1. /\ Len(applied') = n + 1
            /\ applied'[n + 1] = entry
            /\ \A i \in 1..n : applied'[i] = applied[i]
        BY <1>3, <1>4, <2>1, AppendProperties DEF Commit, AppliedBlock
      <3>2. AppliedBlocks \in Seq(Block) /\ Len(AppliedBlocks) = n
        BY <1>3, <1>8 DEF AppliedBlocks
      <3>3. AppliedBlocks' \in Seq(Block) /\ Len(AppliedBlocks') = n + 1
        <4>1. \A i \in 1..(n + 1) : applied'[i].block \in Block
          BY <1>8, <3>1, <2>1, <1>3
        <4> QED  BY <4>1, <3>1, <1>3 DEF AppliedBlocks
      <3>4. /\ Append(AppliedBlocks, block) \in Seq(Block)
            /\ Len(Append(AppliedBlocks, block)) = n + 1
            /\ \A i \in 1..n : Append(AppliedBlocks, block)[i] = AppliedBlocks[i]
            /\ Append(AppliedBlocks, block)[n + 1] = block
        BY <3>2, <2>1, AppendProperties
      <3>5. \A i \in 1..(n + 1) : AppliedBlocks'[i] = Append(AppliedBlocks, block)[i]
        <4>1. \A i \in 1..(n + 1) : AppliedBlocks'[i] = applied'[i].block
          BY <3>1 DEF AppliedBlocks
        <4>2. \A i \in 1..n : AppliedBlocks[i] = applied[i].block
          BY DEF AppliedBlocks
        <4> QED  BY <4>1, <4>2, <3>1, <3>4, <1>3
      <3> QED  BY <3>3, <3>4, <3>5, SeqEqual
    <2>5. Ledgers' = Append(Ledgers, ledger)
      BY <1>1, <1>4 DEF Commit
    <2>6. AtomicView!Extend(block)
      BY <1>1, <2>2, <2>3, <2>4, <2>5 DEF AtomicView!Extend
    <2> QED  BY <2>1, <2>6 DEF AtomicView!Next
  <1>5. CASE Retract
    <2> DEFINE n == Len(applied)
    <2>1. n \in Nat \ {0}
      BY <1>3, <1>5, EmptySeq DEF Retract
    <2>2. Ledgers' = SubSeq(Ledgers, 1, Len(Ledgers) - 1)
      BY <1>1, <1>5 DEF Retract
    <2>3. /\ Len(applied') = n - 1
          /\ \A i \in 1..(n - 1) : applied'[i] = applied[i]
      BY <1>3, <1>5, <2>1, WithoutLast DEF Retract
    <2>4. AppliedBlocks \in Seq(Block) /\ Len(AppliedBlocks) = n
      BY <1>3, <1>8 DEF AppliedBlocks
    <2>5. AppliedBlocks' \in Seq(Block) /\ Len(AppliedBlocks') = n - 1
      <3>1. \A i \in 1..(n - 1) : applied'[i].block \in Block
        BY <1>8, <2>1, <2>3
      <3> QED  BY <3>1, <2>1, <2>3 DEF AppliedBlocks
    <2>6. /\ SubSeq(AppliedBlocks, 1, n - 1) \in Seq(Block)
          /\ Len(SubSeq(AppliedBlocks, 1, n - 1)) = n - 1
          /\ \A i \in 1..(n - 1) : SubSeq(AppliedBlocks, 1, n - 1)[i] = AppliedBlocks[i]
      BY <2>1, <2>4, WithoutLast
    <2>7. \A i \in 1..(n - 1) : AppliedBlocks'[i] = AppliedBlocks[i]
      <3>1. \A i \in 1..(n - 1) : AppliedBlocks'[i] = applied'[i].block
        BY <2>3 DEF AppliedBlocks
      <3>2. \A i \in 1..n : AppliedBlocks[i] = applied[i].block
        BY DEF AppliedBlocks
      <3> QED  BY <3>1, <3>2, <2>1, <2>3
    <2>8. AppliedBlocks' = SubSeq(AppliedBlocks, 1, Len(AppliedBlocks) - 1)
      BY <2>4, <2>5, <2>6, <2>7, SeqEqual
    <2>9. AppliedBlocks # <<>>
      BY <2>1, <2>4, EmptySeq
    <2>10. AtomicView!Retract
      BY <2>2, <2>8, <2>9 DEF AtomicView!Retract
    <2> QED  BY <2>10 DEF AtomicView!Next
  <1>6. CASE (\E b \in Block : Begin(b)) \/ ApplyTransaction \/ RejectTransaction
    BY <1>2, <1>6 DEF Begin, ApplyTransaction, RejectTransaction
  <1>7. CASE UNCHANGED vars
    BY <1>2, <1>7 DEF vars
  <1> QED  BY <1>4, <1>5, <1>6, <1>7 DEF Next

\* A block is applied whole or not at all, with its declared effect, and taken
\* back exactly: every behaviour of BlockApply is one of AtomicLedger.
THEOREM Atomicity == Spec => ImplementsAtomicLedger
  <1>1. IInv => LedgersSeen
    BY LedgersCommitted DEF LedgersSeen
  <1>2. Spec => []LedgersSeen
    BY <1>1, InductiveInvariant, PTL
  <1> QED
    BY <1>2, RefinementStep, RefinementInit, EffectInvariant, PTL
    DEF Spec, ImplementsAtomicLedger, AtomicView!Spec
=============================================================================
