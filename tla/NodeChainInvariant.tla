-------------------------- MODULE NodeChainInvariant --------------------------
(***************************************************************************)
(* The inductive invariant of NodeChain: what its properties need on top   *)
(* of themselves to be kept by every step.                                 *)
(***************************************************************************)
EXTENDS NodeChainProperties, LedgerSoundness

\* A header contains the hash of its parent's, so no set of blocks is closed
\* under parents.
ASSUME AcyclicAssumption ==
  \A S \in SUBSET Hash : S # {} => \E h \in S : Parent[h] \notin S

\* The transactions of the chain of h, the genesis credit included.
ChainTxs(h) == {GenesisTx} \cup UNION {BodyOf(g) : g \in PathFrom[h] \ {Genesis}}

\* The coinbase of a block, and what else of it has no inputs, is not a transaction
\* of the chain below it.
ASSUME FreshMints ==
  \A b \in Block : Parent[b] # Zero => FreshStart(b, ChainTxs(Parent[b]))

-----------------------------------------------------------------------------
DiffMap == [Hash -> BlockDiff \cup {NoDiff}]

\* What a block was stored under is what get_block finds: the node restarts in
\* NodePersist only.
CacheIsTree == cached = stored

\* The diff of a canonical block is the one of its application on this chain,
\* whichever branches it was on before.
DiffsOfReplay == \A h \in Canonical \ {Genesis} : diffs[h] = ReplayOf[h].diff

\* No orphan is twice in the order, so evicting one takes all of it away.
OrphansOnce ==
  \A i, j \in 1..Len(orphanOrder) : orphanOrder[i] = orphanOrder[j] => i = j

IInv ==
  /\ TypeOK
  /\ CacheIsTree
  /\ TreeSound
  /\ OrphanQueueSound
  /\ OrphansOnce
  /\ LedgerIsReplay
  /\ DiffsOfReplay

\* The number of blocks under h.
Depth[h \in Hash] == IF Parent[h] = Zero THEN 0 ELSE Depth[Parent[h]] + 1

\* No branch of the tree is longer than what execute_reorg takes.
WithinReorg == \A h \in Hash : Depth[h] <= MaxReorg
=============================================================================
