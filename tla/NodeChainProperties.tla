------------------------- MODULE NodeChainProperties -------------------------
(***************************************************************************)
(* What must hold of a node's block tree, tip and ledger.                  *)
(***************************************************************************)
EXTENDS NodeChain

\* The ledger that applying the chain of h block by block from the root gives.
ReplayOf[h \in Hash] ==
  IF h = Genesis THEN [ok |-> TRUE, ledger |-> GenesisLedger, diff |-> EmptyDiff]
  ELSE IF Parent[h] = Zero
  THEN [ok |-> FALSE, ledger |-> GenesisLedger, diff |-> EmptyDiff]
  ELSE LET r == ReplayOf[Parent[h]]
       IN  IF r.ok THEN ApplyBlock(r.ledger, h) ELSE r

\* The blocks from h down to its root.
PathFrom[h \in Hash \cup {Zero}] == IF h = Zero THEN {} ELSE {h} \cup PathFrom[Parent[h]]

Canonical == PathFrom[tip]

\* The variables have the types of ChainStore's fields, and everything the
\* cache holds is in the tree.
TypeOK ==
  /\ stored \subseteq Hash /\ cached \subseteq stored
  /\ work \in [Hash -> Nat]
  /\ tip \in cached /\ tipWork \in Nat
  /\ orphans \subseteq Hash /\ orphanOrder \in Seq(Hash)
  /\ diffs \in [Hash -> BlockDiff \cup {NoDiff}]
  /\ ledger \in UtxoSet
  /\ resurrected \subseteq Tx

\* Whatever extensions, failed blocks and reorganisations came before, the
\* ledger is the one its canonical chain gives when applied from the root.
LedgerIsReplay == ReplayOf[tip].ok /\ ledger = ReplayOf[tip].ledger

\* Every block of the canonical chain can be taken back exactly: its diff is
\* there, and it is that of the application on this chain.
UndoReady ==
  \A h \in Canonical \ {Genesis} :
    /\ diffs[h] # NoDiff
    /\ UnwindWithDiff(ReplayOf[h].ledger, diffs[h]) = ReplayOf[Parent[h]].ledger

\* The tree is closed under parents, every block weighs what its ancestors and
\* itself do, and the tip's copy of its work is that of its entry.
TreeSound ==
  /\ \A h \in stored : Parent[h] \in stored \cup {Zero}
  /\ \A h \in stored :
       work[h] = Weight[h] + (IF Parent[h] = Zero THEN 0 ELSE work[Parent[h]])
  /\ tipWork = IF tip = Zero THEN 0 ELSE work[tip]

\* No connected block leads a branch that is valid throughout and heavier than
\* the canonical chain (when the depth limit is out of reach).
NoHeavierValidBranch == \A h \in stored : ReplayOf[h].ok => work[h] <= tipWork

\* The orphan map and its eviction order name the same blocks, each once, and
\* no more than the bound.
OrphanQueueSound ==
  /\ ToSet(orphanOrder) = orphans
  /\ Len(orphanOrder) = Cardinality(orphans)
  /\ Len(orphanOrder) <= MaxOrphans

\* The tip moves to a child of the tip or to a strictly heavier block, and
\* when it does not move neither do the ledger and the diffs: a block or a
\* reorganisation that fails leaves nothing behind but its tree entry.
TipStep ==
  IF tip' = tip THEN UNCHANGED <<tipWork, ledger, diffs>>
  ELSE tipWork' >= tipWork /\ (Parent[tip'] # tip => tipWork' > tipWork)

TipMovesSoundly == [][TipStep]_vars

\* A reorganisation gives back every spend of the old branch that the new one
\* leaves possible, and none that the new branch contains.
Dropped == SpendsOf(SetToSeq(Canonical \ Canonical'))
Confirmed == SpendsOf(SetToSeq(Canonical' \ {Genesis}))

ResurrectStep ==
  tip' # tip /\ Parent[tip'] # tip =>
    /\ {t \in Dropped : SpentImages(t) # {} /\ SpentImages(t) \cap ledger'.images = {}}
         \subseteq resurrected'
    /\ resurrected' \subseteq Dropped \ Confirmed

ResurrectsDropped == [][ResurrectStep]_vars
=============================================================================
