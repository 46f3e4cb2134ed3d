------------------------------ MODULE Shortfall ------------------------------
(***************************************************************************)
(* A ledger that falls short of the replay of its chain and is right else: *)
(* restarts without diffs lose outputs of it, and mining that fails leaves *)
(* outputs spent and images marked that no block confirms.                 *)
(***************************************************************************)
EXTENDS NodeChainInvariant

\* L is M but for outputs in K that it has lost, and for the images X that are marked
\* in it besides.
Short(L, M, X, K) ==
  /\ \A k \in Key : L.utxos[k] = M.utxos[k] \/ (L.utxos[k] = NoEntry /\ k \in K)
  /\ L.images = M.images \cup X /\ X \cap M.images = {}
  /\ L.supply = M.supply

\* The diffs a node may have after a start: none, or those of the replay.
DiffsReplayed(ds) == \A h \in Hash : ds[h] \in {NoDiff, ReplayOf[h].diff}

\* The chain of h can be taken back without losing an output that is not in K.
Undoable(ds, h, K) == K = Key \/ \A g \in PathFrom[h] \ {Genesis} : ds[g] # NoDiff

-----------------------------------------------------------------------------
\* The types of ChainStore's fields and of the ledger, across restarts.
MemoryTypes ==
  /\ stored \subseteq Hash /\ cached \subseteq stored
  /\ work \in [Hash -> Nat]
  /\ tip \in stored \cup {Zero} /\ tipWork \in Nat
  /\ orphans \subseteq Hash /\ orphanOrder \in Seq(Hash)
  /\ diffs \in DiffMap
  /\ ledger \in UtxoSet

\* L falls short of the replay of the tip by outputs in K and the images X, and the
\* blocks of the tip can be taken back without losing an output that is not in K.
LedgerGood(L, X, K) ==
  /\ tip # Zero
  /\ ReplayOf[tip].ok /\ Short(L, ReplayOf[tip].ledger, X, K)
  /\ DiffsReplayed(diffs) /\ Undoable(diffs, tip, K)
=============================================================================
