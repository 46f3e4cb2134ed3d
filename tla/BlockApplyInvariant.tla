------------------------ MODULE BlockApplyInvariant ------------------------
(***************************************************************************)
(* BlockApply implements AtomicLedger, and the inductive invariant behind  *)
(* that and behind the properties of BlockApply.                           *)
(***************************************************************************)
EXTENDS BlockApply

CONSTANT MintHeight  \* the height of the blocks a transaction without inputs is in

\* The transactions of a chain that have no inputs, its coinbases first of all, have
\* distinct hashes (Transaction::hash covers neither the height nor the lock, so the
\* code leaves this to amounts and keys that differ).
ASSUME DistinctMints ==
  \A b \in Block : \A j \in 1..Len(TxsOf[b]) :
    LET t == TxsOf[b][j]
    IN  /\ t # GenesisTx
        /\ Inputs[t] = <<>> => /\ t \in DOMAIN MintHeight /\ MintHeight[t] = Height[b]
                               /\ t \notin FirstOf(b, j - 1)

-----------------------------------------------------------------------------
\* What a caller sees between two calls: the applied blocks, and the ledgers
\* under them with the current one on top.
AppliedBlocks == [i \in 1..Len(applied) |-> applied[i].block]
Ledgers == IF phase = "idle" THEN [committed EXCEPT ![Len(committed)] = ledger]
           ELSE committed

AtomicView == INSTANCE AtomicLedger WITH
  Start <- GenesisLedger, Makes <- KeysOf, Spends <- SpentKeys,
  Marks <- SpentImages, Mints <- CoinbaseAmount,
  blocks <- AppliedBlocks, ledgers <- Ledgers

\* A block is applied whole or not at all and taken back exactly: between two
\* calls of apply_block_and_track or unwind_with_diff, BlockApply is AtomicLedger.
ImplementsAtomicLedger == AtomicView!Spec

-----------------------------------------------------------------------------
(* The inductive invariant.                                                *)

HeightsOK ==
  /\ \A i \in 1..Len(applied) : Height[applied[i].block] = i
  /\ phase = "applying" => /\ Height[block] = Len(applied) + 1
                           /\ next <= Len(TxsOf[block]) + 1
                           /\ Parent[block] = TipBlock

CommittedGrounded ==
  \A i \in 1..Len(committed) : Grounded(committed[i], ConfirmedUpTo(i - 1))

IdleIsCommitted == phase = "idle" => ledger = committed[Len(committed)]

InFlightUndoes ==
  phase = "applying" => Undoes(diff, ledger, committed[Len(committed)])

IInv ==
  /\ TypeOK
  /\ HeightsOK
  /\ CommittedGrounded
  /\ Grounded(ledger, Confirmed)
  /\ IdleIsCommitted
  /\ InFlightUndoes
  /\ UndoChainExact

\* What ValueBacked needs on top: the ledgers that a refusal and a retraction go
\* back to are backed too, by the blocks under them.
LedgersBacked ==
  /\ Backed(ledger, PlacesUpTo(Len(applied)) \cup PlacesInFlight)
  /\ \A i \in 1..Len(committed) : Backed(committed[i], PlacesUpTo(i - 1))

\* The part the refinement needs on top: the ledger in flight is the declared
\* effect of the transactions so far, none of which double-spends.
InFlightEffect ==
  phase = "applying" =>
    LET base == committed[Len(committed)]
    IN  /\ ledger = AtomicView!AfterPrefix(base, block, next - 1)
        /\ \A n \in 2..(next - 1) : AtomicView!SpendsOnce(base, block, n)
=============================================================================
