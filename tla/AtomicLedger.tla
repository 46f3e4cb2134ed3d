---------------------------- MODULE AtomicLedger ----------------------------
(***************************************************************************)
(* What the ledger promises to the rest of the node: a block is applied    *)
(* whole or not at all, its effect is the one its transactions declare,    *)
(* none of which double-spends, and taking the last block back restores    *)
(* the very ledger that was there before it.                               *)
(***************************************************************************)
EXTENDS Naturals, Sequences

CONSTANTS
  Block, Genesis, Parent, Height, TxsOf,  \* the block tree, as in BlockApply
  Key, NoEntry,
  Start,       \* the genesis ledger, a record [utxos, images, supply]
  Makes(_),    \* the keys of a transaction's outputs
  Spends(_),   \* the keys it spends
  Marks(_),    \* the key images it marks
  Mints(_)     \* the units a coinbase adds to the supply

VARIABLES
  blocks,   \* the blocks applied, oldest first
  ledgers   \* ledgers[i]: the ledger under the i-th block; the last one is current

vars == <<blocks, ledgers>>

TipOf(s) == IF s = <<>> THEN Genesis ELSE s[Len(s)]

\* The ledger once the first n transactions of b have taken effect on L.
AfterPrefix(L, b, n) ==
  [utxos  |-> [k \in Key |->
                 IF \E j \in 2..n : k \in Spends(TxsOf[b][j]) THEN NoEntry
                 ELSE IF \E j \in 1..n : k \in Makes(TxsOf[b][j]) THEN Height[b]
                 ELSE L.utxos[k]],
   images |-> L.images \cup UNION {Marks(TxsOf[b][j]) : j \in 2..n},
   supply |-> L.supply + IF n = 0 THEN 0 ELSE Mints(TxsOf[b][1])]

\* The n-th transaction of b reuses no key image, spends nothing an earlier
\* one of b spends, and only what L or an earlier one of b holds.
SpendsOnce(L, b, n) ==
  LET t == TxsOf[b][n]
  IN  /\ Marks(t) \cap L.images = {}
      /\ \A m \in 2..(n-1) : /\ Marks(t) \cap Marks(TxsOf[b][m]) = {}
                             /\ Spends(t) \cap Spends(TxsOf[b][m]) = {}
      /\ \A k \in Spends(t) :
           \/ L.utxos[k] # NoEntry
           \/ \E m \in 1..(n-1) : k \in Makes(TxsOf[b][m])

Init ==
  /\ blocks = <<>>
  /\ ledgers = <<Start>>

Extend(b) ==
  LET L == ledgers[Len(ledgers)]
  IN  /\ Parent[b] = TipOf(blocks)
      /\ \A n \in 2..Len(TxsOf[b]) : SpendsOnce(L, b, n)
      /\ blocks' = Append(blocks, b)
      /\ ledgers' = Append(ledgers, AfterPrefix(L, b, Len(TxsOf[b])))

Retract ==
  /\ blocks # <<>>
  /\ blocks' = SubSeq(blocks, 1, Len(blocks) - 1)
  /\ ledgers' = SubSeq(ledgers, 1, Len(ledgers) - 1)

Next == Retract \/ \E b \in Block : Extend(b)

Spec == Init /\ [][Next]_vars
=============================================================================
