------------------------------ MODULE NodeChain ------------------------------
(***************************************************************************)
(* One node's block tree and ledger: ChainStore (src/src/chain.rs), the    *)
(* fork decision and the reorganisation (src/src/reorg.rs), and the two    *)
(* handlers of src/src/p2p.rs that drive them, validate_and_apply_block    *)
(* for a block of a peer and mine_and_gossip for one of the node's own.    *)
(* The event loop runs one handler at a time, so each is one action.       *)
(*                                                                         *)
(* A block is its header hash.  Nothing relates header.height to the       *)
(* parent's: Height is any function.  The node mines with an empty mempool *)
(* here; Node.tla adds the transactions.                                   *)
(***************************************************************************)
EXTENDS UtxoLedger

CONSTANTS
  Genesis,     \* the root block of the store; its ledger is GenesisLedger
  Zero,        \* the hash [0; 32]
  Parent,      \* Parent[h]: header.previous_hash
  Weight,      \* Weight[h]: compute_block_work of the header
  Own,         \* the blocks this node's miner can make
  Proven,      \* the blocks whose proof of work verifies
  MaxOrphans,  \* chain::MAX_ORPHANS
  MaxReorg,    \* execute_reorg's max_reorg
  NoDiff       \* "no such key in block_diffs"

Hash == Block \cup {Genesis}
HeightOf(h) == IF h \in {Genesis, Zero} THEN 0 ELSE Height[h]

ASSUME TreeAssumption ==
  /\ Genesis \notin Block /\ Zero \notin Hash
  /\ Parent \in [Hash -> Hash \cup {Zero}]
  /\ Parent[Genesis] = Zero
  /\ Weight \in [Hash -> Nat]
  /\ Own \subseteq Block /\ Proven \subseteq Block
  /\ \A b \in Own : TxsOf[b] # <<>>
  /\ MaxOrphans \in Nat \ {0} /\ MaxReorg \in Nat \ {0}
  /\ NoDiff \notin BlockDiff

VARIABLES
  stored,       \* keys of ChainStore.blocks
  cached,       \* keys of block_cache: what get_block finds
  work,         \* accumulated_work, 0 for a hash not in blocks
  tip,          \* chain_tip (tip_height is the height of that entry)
  tipWork,      \* tip_work
  orphans,      \* keys of ChainStore.orphans
  orphanOrder,  \* orphan_order, oldest first
  diffs,        \* block_diffs
  ledger,       \* the UtxoSet
  resurrected   \* the transactions the last execute_reorg returned

tree == <<stored, cached, work>>
chain == <<tip, tipWork, diffs, ledger, resurrected>>
queue == <<orphans, orphanOrder>>
vars == <<stored, cached, work, tip, tipWork, orphans, orphanOrder, diffs,
          ledger, resurrected>>

Init ==
  /\ stored = {Genesis}
  /\ cached = {Genesis}
  /\ work = [h \in Hash |-> IF h = Genesis THEN Weight[h] ELSE 0]
  /\ tip = Genesis
  /\ tipWork = Weight[Genesis]
  /\ orphans = {}
  /\ orphanOrder = <<>>
  /\ diffs = [h \in Hash |-> NoDiff]
  /\ ledger = GenesisLedger
  /\ resurrected = {}

-----------------------------------------------------------------------------
(* The block tree.                                                         *)

\* add_block_inner: a duplicate, or a block whose parent is unknown and which
\* is no genesis, is an error; the caller has no other effect then.
CanAdd(b) ==
  /\ b \notin stored
  /\ Parent[b] \in stored \/ (Parent[b] = Zero /\ HeightOf(b) = 0)

\* Mutant: the work is added to the tip's and not to the parent's.
WorkOverTip(b) == tipWork + Weight[b]

WorkOver(b) == (IF Parent[b] \in stored THEN work[Parent[b]] ELSE 0) + Weight[b]

\* Mutant: the block is not put into the cache.
AddBlockUncached(b) ==
  /\ stored' = stored \cup {b}
  /\ work' = [work EXCEPT ![b] = WorkOver(b)]
  /\ UNCHANGED cached

AddBlock(b) ==
  /\ stored' = stored \cup {b}
  /\ cached' = cached \cup {b}
  /\ work' = [work EXCEPT ![b] = WorkOver(b)]

\* The tip and its work, a copy of the entry's.  The block is in the tree.
SetChainTip(b) == tip' = b /\ tipWork' = work'[b]

\* get_ancestors: from h down, as far as the cache goes.
Ancestors(known, h) ==
  LET walk[g \in Hash \cup {Zero}] ==
        IF g \in known /\ Parent[g] # Zero THEN <<g>> \o walk[Parent[g]] ELSE <<g>>
  IN  walk[h]

\* find_lca: the first ancestor of a that is one of b, Zero for None.
FindLca(known, a, b) ==
  LET as == Ancestors(known, a)
      common == {i \in DOMAIN as : as[i] \in ToSet(Ancestors(known, b))}
  IN  IF common = {} THEN Zero ELSE as[Min(common)]

\* get_chain_to_fork: from h down to the fork point, without it.
ChainToFork(known, h, fork) ==
  LET walk[g \in Hash \cup {Zero}] ==
        IF g \in {fork, Zero} THEN <<>>
        ELSE IF g \in known THEN <<g>> \o walk[Parent[g]] ELSE <<g>>
  IN  walk[h]

-----------------------------------------------------------------------------
(* Orphans.  The map never exceeds its bound, so the loop of add_orphan    *)
(* evicts one block at most.                                               *)

\* Mutant: the evicted block stays in the order.
EvictedFromMapOnly ==
  IF Cardinality(orphans) >= MaxOrphans /\ orphanOrder # <<>>
  THEN [set |-> orphans \ {Head(orphanOrder)}, order |-> orphanOrder]
  ELSE [set |-> orphans, order |-> orphanOrder]

Evicted ==
  IF Cardinality(orphans) >= MaxOrphans /\ orphanOrder # <<>>
  THEN [set |-> orphans \ {Head(orphanOrder)}, order |-> Tail(orphanOrder)]
  ELSE [set |-> orphans, order |-> orphanOrder]

AddOrphan(b) ==
  IF b \in orphans THEN UNCHANGED queue
  ELSE /\ orphans' = Evicted.set \cup {b}
       /\ orphanOrder' = Append(Evicted.order, b)

-----------------------------------------------------------------------------
(* The reorganisation.                                                     *)

\* Mutant: the images stay marked.
FallbackKeepingImages(h) ==
  [consumed |-> [k \in Key |-> NoEntry],
   created  |-> UNION {KeysOf(TxsOf[h][n]) : n \in 1..Len(TxsOf[h])},
   images   |-> {},
   supply   |-> IF TxsOf[h] = <<>> THEN 0 ELSE CoinbaseAmount(TxsOf[h][1])]

\* What execute_reorg_inner rebuilds for a block that has no diff.
FallbackDiff(h) ==
  [consumed |-> [k \in Key |-> NoEntry],
   created  |-> UNION {KeysOf(TxsOf[h][n]) : n \in 1..Len(TxsOf[h])},
   images   |-> UNION {SpentImages(TxsOf[h][n]) : n \in 2..Len(TxsOf[h])},
   supply   |-> IF TxsOf[h] = <<>> THEN 0 ELSE CoinbaseAmount(TxsOf[h][1])]

\* Mutant: the legacy unwind for every block.
UndoByFallback(h) == FallbackDiff(h)

UndoOf(h) == IF diffs[h] = NoDiff THEN FallbackDiff(h) ELSE diffs[h]

UnwindBlocks(L, hs) == FoldLeft(LAMBDA acc, h : UnwindWithDiff(acc, UndoOf(h)), L, hs)

\* Mutant: the diffs of the new branch are not kept.
ApplyStepNoDiff(acc, h) ==
  LET r == ApplyBlock(acc.ledger, h)
  IN  IF acc.ok /\ r.ok
      THEN [ok |-> TRUE, ledger |-> r.ledger, diffs |-> acc.diffs]
      ELSE [acc EXCEPT !.ok = FALSE]

\* Phase 2: apply the new branch, stopping at the first block that fails.
ApplyStep(acc, h) ==
  LET r == ApplyBlock(acc.ledger, h)
  IN  IF acc.ok /\ r.ok
      THEN [ok |-> TRUE, ledger |-> r.ledger,
            diffs |-> [acc.diffs EXCEPT ![h] = r.diff]]
      ELSE [acc EXCEPT !.ok = FALSE]

ApplyBlocks(L, hs) ==
  FoldLeft(ApplyStep, [ok |-> TRUE, ledger |-> L, diffs |-> diffs], hs)

SpendsOf(hs) ==
  UNION {{TxsOf[hs[i]][n] : n \in 2..Len(TxsOf[hs[i]])} : i \in 1..Len(hs)}
BodiesOf(hs) ==
  UNION {{TxsOf[hs[i]][n] : n \in 1..Len(TxsOf[hs[i]])} : i \in 1..Len(hs)}

\* Mutant: the images are those of the ledger before the reorganisation.
ResurrectedBefore(unwind, apply, L) ==
  {t \in SpendsOf(unwind) \ BodiesOf(apply) : ~(SpentImages(t) \subseteq ledger.images)}

\* The transactions execute_reorg names for resubmission, on the new ledger.
Resurrected(unwind, apply, L) ==
  {t \in SpendsOf(unwind) \ BodiesOf(apply) : ~(SpentImages(t) \subseteq L.images)}

\* Mutant: a failure does not restore the snapshot of the ledger.
ExecuteReorgNoSnapshot(b, unwind, apply) ==
  LET new == ApplyBlocks(UnwindBlocks(ledger, unwind), apply)
  IN  /\ ledger' = new.ledger
      /\ IF /\ Len(unwind) <= MaxReorg /\ Len(apply) <= MaxReorg
            /\ ToSet(unwind) \cup ToSet(apply) \subseteq cached \cup {b}
            /\ new.ok
         THEN /\ diffs' = new.diffs
              /\ SetChainTip(b)
              /\ resurrected' = Resurrected(unwind, apply, new.ledger)
         ELSE UNCHANGED <<tip, tipWork, diffs, resurrected>>

\* execute_reorg to b: the depth is refused at once, and a failure on the way
\* restores the snapshot of ledger and store.
ExecuteReorg(b, unwind, apply) ==
  LET new == ApplyBlocks(UnwindBlocks(ledger, unwind), apply)
  IN  IF /\ Len(unwind) <= MaxReorg /\ Len(apply) <= MaxReorg
         /\ ToSet(unwind) \cup ToSet(apply) \subseteq cached \cup {b}
         /\ new.ok
      THEN /\ ledger' = new.ledger
           /\ diffs' = new.diffs
           /\ SetChainTip(b)
           /\ resurrected' = Resurrected(unwind, apply, new.ledger)
      ELSE UNCHANGED chain

-----------------------------------------------------------------------------
(* validate_and_apply_block.  A block whose proof does not verify and one  *)
(* the cache already holds are refused and change nothing.                 *)

\* The handler is entered: the proof verifies, and a block of our own miner
\* reaches us from a peer only after we have made it.
Arrives(b) == b \in Proven /\ (b \in Own => b \in stored)

ParentKnown(b) == Parent[b] \in cached

QueueOrphan(b) ==
  /\ ~ParentKnown(b)
  /\ HeightOf(b) > 0
  /\ AddOrphan(b)
  /\ UNCHANGED tree
  /\ UNCHANGED chain

\* A second genesis: add_block stores it if its parent is the zero hash, and
\* only then analyze_fork rejects it.
RejectGenesis(b) ==
  /\ ~ParentKnown(b)
  /\ HeightOf(b) = 0
  /\ b \notin cached
  /\ CanAdd(b)
  /\ AddBlock(b)
  /\ UNCHANGED queue
  /\ UNCHANGED chain

\* The block is added to the tree first, whatever becomes of it.
Connects(b) ==
  /\ ParentKnown(b)
  /\ b \notin cached
  /\ CanAdd(b)
  /\ AddBlock(b)
  /\ UNCHANGED queue

\* The ledger moves with the tip, or the block fails and its partial effect is
\* unwound.
ExtendCanonical(b) ==
  LET r == ApplyBlock(ledger, b)
  IN  /\ Connects(b)
      /\ Parent[b] = tip
      /\ ledger' = r.ledger
      /\ IF r.ok THEN /\ diffs' = [diffs EXCEPT ![b] = r.diff]
                      /\ SetChainTip(b)
                 ELSE UNCHANGED <<diffs, tip, tipWork>>
      /\ UNCHANGED resurrected

\* The fork point of the branch of b and the canonical chain.
ForkPoint(b) == FindLca(cached \cup {b}, Parent[b], tip)

\* Mutant: the higher block wins.
Higher(b) == HeightOf(b) > HeightOf(tip)

Heavier(b) == WorkOver(b) > tipWork

ReorgToNew(b) ==
  LET fork == ForkPoint(b)
      known == cached \cup {b}
  IN  /\ Connects(b)
      /\ Parent[b] # tip
      /\ Heavier(b)
      /\ fork # Zero
      /\ ExecuteReorg(b, ChainToFork(known, tip, fork),
                      Append(Reverse(ChainToFork(known, Parent[b], fork)), b))

Sidechain(b) ==
  /\ Connects(b)
  /\ Parent[b] # tip
  /\ ~Heavier(b) \/ ForkPoint(b) = Zero
  /\ UNCHANGED chain

ReceiveBlock(b) ==
  /\ Arrives(b)
  /\ \/ QueueOrphan(b)
     \/ RejectGenesis(b)
     \/ ExtendCanonical(b)
     \/ ReorgToNew(b)
     \/ Sidechain(b)

\* Mutant: the tip moves although the block did not apply.
MineRegardless(L, b) ==
  LET r == ApplyBlock(L, b)
  IN  /\ b \in Own \ (stored \cup orphans)
      /\ Parent[b] = tip
      /\ HeightOf(b) = HeightOf(tip) + 1
      /\ ledger' = r.ledger
      /\ AddBlock(b)
      /\ diffs' = [diffs EXCEPT ![b] = r.diff]
      /\ SetChainTip(b)
      /\ UNCHANGED queue
      /\ UNCHANGED resurrected

\* mine_and_gossip from the point where mine_block has the block b and applies
\* it to the ledger L; the store hears of it only if that succeeds, and drops it
\* without a word when it has no parent for it.  A fresh block has a hash no one
\* has seen.
Mine(L, b) ==
  LET r == ApplyBlock(L, b)
  IN  /\ b \in Own \ (stored \cup orphans)
      /\ Parent[b] = tip
      /\ HeightOf(b) = HeightOf(tip) + 1
      /\ ledger' = r.ledger
      /\ IF r.ok /\ CanAdd(b)
         THEN /\ AddBlock(b)
              /\ diffs' = [diffs EXCEPT ![b] = r.diff]
              /\ SetChainTip(b)
         ELSE UNCHANGED <<tree, diffs, tip, tipWork>>
      /\ UNCHANGED queue
      /\ UNCHANGED resurrected

MineBlock(b) == Len(TxsOf[b]) = 1 /\ Mine(ledger, b)

Next == \E b \in Block : ReceiveBlock(b) \/ MineBlock(b)

Spec == Init /\ [][Next]_vars
=============================================================================
