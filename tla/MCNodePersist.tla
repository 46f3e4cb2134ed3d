--------------------------- MODULE MCNodePersist ---------------------------
(***************************************************************************)
(* A tree on which the canonical chain changes sides more than once:       *)
(*                                                                         *)
(*   G -- a1 -- a2    a1 confirms t1; a2 outweighs b1                      *)
(*    \    \-- m2     m2 is our own, made by the node or stand-alone       *)
(*     \- b1 -- b2    b1 outweighs a1; b2 confirms t1 and outweighs all    *)
(*                                                                         *)
(* z is a second genesis and y a block over it.  m1 is our own block over  *)
(* nothing, as a fresh node makes it, m3 the stand-alone miner's on it, and *)
(* m0 the one it makes on an empty log.                                    *)
(***************************************************************************)
EXTENDS NodePersistInvariant

MCPeers == {"a1", "a2", "b1", "b2", "y", "z"}
MCOwn == {"m0", "m1", "m2", "m3"}
MCBlock == MCPeers \cup MCOwn
MCHash == MCBlock \cup {Genesis}

MCParent == [h \in MCHash |->
  CASE h \in {"a1", "b1"} -> Genesis
    [] h \in {"a2", "m2"} -> "a1"
    [] h = "b2" -> "b1"
    [] h = "y" -> "z"
    [] h = "m3" -> "m1"
    [] OTHER -> Zero]

MCHeight == [b \in MCBlock |->
  CASE b \in {"m0", "z"} -> 0 [] b \in {"a1", "b1", "m1", "m3", "y"} -> 1 [] OTHER -> 2]
MCWeight == [h \in MCHash |-> IF h = "b1" THEN 3 ELSE 2]

\* A coinbase has one unlocked output of 2 units; a block's coinbase is its own.
MCTx == {"g", "t1"} \cup MCBlock
MCOutputs == [t \in MCTx |-> 1]
MCKey == {<<t, 1>> : t \in MCTx}
MCInputs == [t \in MCTx |->
  IF t = "t1" THEN <<[key |-> <<"g", 1>>, image |-> "i1"]>> ELSE <<>>]
MCRing == [t \in MCTx |-> {}]
MCAmount == [k \in MCKey |-> 2]
MCSpendableAfter == [k \in MCKey |-> 0]

MCTxsOf == [b \in MCBlock |-> IF b \in {"a1", "b2"} THEN <<b, "t1">> ELSE <<b>>]

MCFirstLogs == {<<>>, <<Genesis>>}
MCRootLogs == {<<Genesis>>}
=============================================================================
