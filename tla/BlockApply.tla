----------------------------- MODULE BlockApply -----------------------------
(***************************************************************************)
(* UtxoSet::apply_block_and_track and unwind_with_diff (src/src/state.rs)  *)
(* taken one transaction at a time: a block changes the ledger as it goes, *)
(* any of its transactions may be refused with the earlier ones already    *)
(* applied, and only the BlockDiff says what has to be put back.           *)
(***************************************************************************)
EXTENDS LedgerSoundness

CONSTANTS
  Genesis,  \* the block under every chain; its ledger is GenesisLedger
  Parent    \* Parent[b]: header.previous_hash

ASSUME ChainAssumption ==
  /\ Genesis \notin Block
  /\ Parent \in [Block -> Block \cup {Genesis}]
  /\ \A b \in Block :
       Height[b] = IF Parent[b] = Genesis THEN 1 ELSE Height[Parent[b]] + 1

VARIABLES
  ledger,     \* the UtxoSet
  diff,       \* the BlockDiff of the block being applied
  phase,      \* "idle", or "applying" while apply_block_inner's loop runs
  block,      \* the block being applied
  next,       \* tx_idx + 1: the transaction the loop takes next
  applied,    \* the applied blocks and their diffs, oldest first
  committed   \* history: the ledger under, between and above those blocks

vars == <<ledger, diff, phase, block, next, applied, committed>>

TipBlock == IF applied = <<>> THEN Genesis ELSE applied[Len(applied)].block

Init ==
  /\ ledger = GenesisLedger
  /\ diff = EmptyDiff
  /\ phase = "idle"
  /\ block = Genesis
  /\ next = 1
  /\ applied = <<>>
  /\ committed = <<GenesisLedger>>

-----------------------------------------------------------------------------
(* The callers apply a block on the ledger of the chain it extends.        *)
Begin(b) ==
  /\ phase = "idle"
  /\ Parent[b] = TipBlock
  /\ phase' = "applying"
  /\ block' = b
  /\ next' = 1
  /\ diff' = EmptyDiff
  /\ UNCHANGED <<ledger, applied, committed>>

\* One round of apply_block_inner's loop that returns no error.
ApplyTransaction ==
  /\ phase = "applying"
  /\ next <= Len(TxsOf[block])
  /\ Accepts(ledger, block, next)
  /\ ledger' = LedgerAfterTx(ledger, block, next)
  /\ diff' = DiffAfterTx(diff, ledger, block, next)
  /\ next' = next + 1
  /\ UNCHANGED <<phase, block, applied, committed>>

\* Mutant: an error returns without unwinding.
RejectWithoutUnwind ==
  /\ phase = "applying"
  /\ next <= Len(TxsOf[block])
  /\ ~Accepts(ledger, block, next)
  /\ phase' = "idle"
  /\ diff' = EmptyDiff
  /\ block' = Genesis
  /\ next' = 1
  /\ UNCHANGED <<ledger, applied, committed>>

\* A round that returns an error: apply_block_and_track unwinds the diff.
RejectTransaction ==
  /\ phase = "applying"
  /\ next <= Len(TxsOf[block])
  /\ ~Accepts(ledger, block, next)
  /\ ledger' = UnwindWithDiff(ledger, diff)
  /\ phase' = "idle"
  /\ diff' = EmptyDiff
  /\ block' = Genesis
  /\ next' = 1
  /\ UNCHANGED <<applied, committed>>

\* The loop ends: the diff is returned and kept beside the block.
Commit ==
  /\ phase = "applying"
  /\ next > Len(TxsOf[block])
  /\ applied' = Append(applied, [block |-> block, diff |-> diff])
  /\ committed' = Append(committed, ledger)
  /\ phase' = "idle"
  /\ diff' = EmptyDiff
  /\ block' = Genesis
  /\ next' = 1
  /\ UNCHANGED ledger

\* A reorganisation takes the last block back with its diff.
Retract ==
  /\ phase = "idle"
  /\ applied # <<>>
  /\ ledger' = UnwindWithDiff(ledger, applied[Len(applied)].diff)
  /\ applied' = SubSeq(applied, 1, Len(applied) - 1)
  /\ committed' = SubSeq(committed, 1, Len(committed) - 1)
  /\ UNCHANGED <<diff, phase, block, next>>

Next ==
  \/ \E b \in Block : Begin(b)
  \/ ApplyTransaction
  \/ RejectTransaction
  \/ Commit
  \/ Retract

Spec == Init /\ [][Next]_vars

-----------------------------------------------------------------------------
(* Properties.                                                             *)

AppliedBlock == [block : Block, diff : BlockDiff]

\* The variables hold values of the types the code declares, and committed has
\* one ledger more than there are applied blocks.
TypeOK ==
  /\ ledger \in UtxoSet
  /\ diff \in BlockDiff
  /\ phase \in {"idle", "applying"}
  /\ block \in Block \cup {Genesis}
  /\ phase = "applying" => block \in Block
  /\ next \in Nat \ {0}
  /\ applied \in Seq(AppliedBlock)
  /\ committed \in Seq(UtxoSet)
  /\ Len(committed) = Len(applied) + 1

-----------------------------------------------------------------------------
\* At every point of a block's application, however many of its transactions
\* have gone through, unwinding the diff gives the ledger the block began with
\* (the promise of "rollback atomicity" in state.rs).
RollbackExact ==
  phase = "applying" =>
    UnwindWithDiff(ledger, diff) = committed[Len(committed)]

\* The diff kept with each applied block leads from the ledger after the block
\* back to the one before it: heights, images and supply included.
UndoChainExact ==
  \A i \in 1..Len(applied) :
    UnwindWithDiff(committed[i + 1], applied[i].diff) = committed[i]

\* The transactions of the first n blocks of a sequence of applied blocks.
ConfirmedOf(s, n) ==
  {GenesisTx} \cup
  UNION {{TxsOf[s[i].block][j] : j \in 1..Len(TxsOf[s[i].block])} : i \in 1..n}

ConfirmedUpTo(n) == ConfirmedOf(applied, n)

\* The transactions of the block being applied that have gone through.
InFlight == IF phase = "idle" THEN {} ELSE {TxsOf[block][j] : j \in 1..(next - 1)}

Confirmed == ConfirmedUpTo(Len(applied)) \cup InFlight

\* Every confirmed spend stays final while the chain holds it: its images are
\* marked, no output it consumed is unspent, and no image is marked without a
\* confirmed transaction that bears it.
SpentExactlyOnce ==
  /\ ledger.images = UNION {SpentImages(t) : t \in Confirmed}
  /\ \A t \in Confirmed : \A k \in SpentKeys(t) : ~Exists(ledger, k)
  /\ \A t, u \in Confirmed : t # u => SpentKeys(t) \cap SpentKeys(u) = {}

\* The places of the transactions of the first m applied blocks, and of the ones of
\* the block being applied that have gone through.
PlacesUpTo(m) ==
  UNION {PlacesOf(applied[i].block, Len(TxsOf[applied[i].block])) : i \in 1..m}

PlacesInFlight == IF phase = "idle" THEN {} ELSE PlacesOf(block, next - 1)

UnspentValue == SumFunctionOnSet(Amount, Unspent(ledger))

\* Units appear in no other way than the three that nothing refuses, and no more of
\* them than Gain says: whatever the transactions, the unspent outputs hold at most
\* the supply and what those on the chain made appear.
ValueBacked ==
  UnspentValue <= ledger.supply
                  + SumFunctionOnSet(Gain, PlacesUpTo(Len(applied)) \cup PlacesInFlight)
=============================================================================
