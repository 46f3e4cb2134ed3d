----------------------------- MODULE NodeInvariant -----------------------------
(***************************************************************************)
(* What the properties of a node need on top of themselves to be kept by   *)
(* every step.                                                             *)
(***************************************************************************)
EXTENDS NodeDashboard, Shortfall

\* The outputs that a transaction with no image but those in X spends.
SpentBy(X) == {k \in Key : \E t \in Tx : k \in SpentKeys(t) /\ SpentImages(t) \subseteq X}

\* The ledger has images marked that its chain does not mark, lacks nothing but what
\* they spend, and every block of the chain can be taken back exactly.
NodeLedgerSound == \E X \in SUBSET Image : LedgerGood(ledger, X, SpentBy(X))

NInv == MemoryTypes /\ pending \in Seq(Tx) /\ NodeLedgerSound
=============================================================================
