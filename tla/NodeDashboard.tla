---------------------------- MODULE NodeDashboard ----------------------------
(***************************************************************************)
(* The node (Node) with its dashboard, a task of its own that shares       *)
(* nothing with P2pNode::run but the pool and the files: what is posted to *)
(* /api/submit_tx is checked against utxo.json, which the node writes      *)
(* every 30 s.                                                             *)
(***************************************************************************)
EXTENDS Node

VARIABLE saved  \* utxo.json

dashVars == <<nodeVars, saved>>

DashInit == NodeInit /\ saved = ledger

\* The periodic save, between two events of the loop.
Save == saved' = ledger /\ UNCHANGED nodeVars

\* POST /api/submit_tx.
DashSubmit(t) == Pool!Submit(saved, t) /\ UNCHANGED <<vars, saved>>

DashNext ==
  \/ NodeNext /\ UNCHANGED saved
  \/ Save
  \/ \E t \in Submitted : DashSubmit(t)

DashSpec == DashInit /\ [][DashNext]_dashVars

-----------------------------------------------------------------------------
\* DrainedStep of every step, what the dashboard let in against an older ledger
\* included (drain and spend_transaction_inputs in mine_block_with_difficulty).
DrainedIsDead == [][DrainedStep]_dashVars
=============================================================================
