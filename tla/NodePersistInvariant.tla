------------------------- MODULE NodePersistInvariant -------------------------
(***************************************************************************)
(* What the properties of NodePersist need on top of themselves to be kept *)
(* by every step, stop and start.                                          *)
(***************************************************************************)
EXTENDS NodePersist, NodeChainInvariant

\* Only a block over the zero hash has height 0.  The code does not check it of a
\* peer's block: one of height 0 over a known parent would make a rebuild drop
\* what it has read and begin a new tree in the middle.
RootsAtZero == \A b \in Block : Height[b] = 0 => Parent[b] = Zero

\* compute_block_work gives 0 for a target of 0 only.
HeadersWeigh == \A h \in Hash : Weight[h] > 0

\* The types of the store's fields and of the files.
SavedStore == [stored : SUBSET Hash, work : [Hash -> Nat], tip : Hash \cup {Zero},
               tipWork : Nat, orphans : SUBSET Hash, order : Seq(Hash)]

PersistTypes ==
  /\ ChainStore \in SavedStore
  /\ cached \subseteq stored /\ tip \in stored \cup {Zero}
  /\ diffs \in [Hash -> BlockDiff \cup {NoDiff}]
  /\ ledger \in UtxoSet /\ utxoFile \in UtxoSet
  /\ log \in Seq(Hash)
  /\ storeFile \in SavedStore \cup {NoFile}
  /\ mode \in {"down", "node", "saving", "miner", "halted"}

-----------------------------------------------------------------------------
(* The ledger.                                                             *)

\* The ledger is within the replay of the tip, and a diff is that of the replay of
\* its block.
LedgerWithin ==
  Running /\ matched =>
    /\ tip # Zero
    /\ ReplayOf[tip].ok /\ Within(ledger, ReplayOf[tip].ledger)
    /\ \A h \in Hash : diffs[h] \in {NoDiff, ReplayOf[h].diff}

-----------------------------------------------------------------------------
(* The tree and the log.                                                   *)

\* The lines before the n-th.
Before(n) == ToSet(SubSeq(log, 1, n - 1))

\* A line of height 0 is the first, and a block of our own has its parent's line
\* before its own.
LogOrdered ==
  \A n \in 1..Len(log) :
    /\ HeightOf(log[n]) = 0 => n = 1
    /\ log[n] \in Own => Parent[log[n]] \in Before(n) \cup {Zero}

\* A tree, in memory or saved: closed under parents up to roots of height 0, the
\* work of a block that of its branch, the tip a block with a line.
GoodTree(t) ==
  /\ \A h \in t.stored :
       /\ Parent[h] \in t.stored \cup {Zero}
       /\ t.work[h] = Weight[h] + (IF Parent[h] = Zero THEN 0 ELSE t.work[Parent[h]])
       /\ Parent[h] = Zero => HeightOf(h) = 0
  /\ t.tip \in (t.stored \cap Logged) \cup {Zero}
  /\ t.tipWork = IF t.tip = Zero THEN 0 ELSE t.work[t.tip]
  /\ PathFrom[t.tip] \subseteq Logged \cup refused

\* What the cache has without a line was refused or is a second root; no root was
\* ever refused by the ledger.
CacheLogged ==
  /\ \A h \in cached : h \in Logged \cup refused \/ Parent[h] = Zero
  /\ \A h \in refused : h \in Hash /\ Parent[h] # Zero
  /\ Canonical \subseteq cached \cup refused

TreesSound ==
  /\ LogOrdered
  /\ GoodTree(ChainStore)
  /\ storeFile # NoFile => GoodTree(storeFile)
  /\ CacheLogged

\* Until the tree is saved, what a rebuild finds is in the tree, no heavier than
\* the tip, and as heavy only after the tip's line.
RebuildBelowTip ==
  storeFile = NoFile =>
    /\ stored = cached
    /\ Running /\ Rebuilt.ok =>
         \A n \in 1..Len(log) : log[n] \in Rebuilt.known =>
           /\ log[n] \in stored
           /\ work[log[n]] <= tipWork
           /\ work[log[n]] = tipWork => tip \in ToSet(SubSeq(log, 1, n))

PersistInvariant == PersistTypes /\ LedgerWithin /\ TreesSound /\ RebuildBelowTip
=============================================================================
