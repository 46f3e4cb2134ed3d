----------------------------- MODULE MCNodeChain -----------------------------
(***************************************************************************)
(* A block tree on which every decision of the node can be met:            *)
(*                                                                         *)
(*   G -- a1 -- a2 -- a3  a1 confirms t1, a2 confirms t2 which spends it   *)
(*    \    |\-- c2                                                         *)
(*     \    \-- x2 -- x3  x2 holds t3, a double spend after a1; x3 is on it *)
(*      \- b1 -- b2       b1 confirms t3 and b2 is heavy                   *)
(*   z -- z1              a second genesis and a block on it               *)
(*                                                                         *)
(* and the node's own m1 over G and m2 over b1.                            *)
(***************************************************************************)
EXTENDS NodeChainInvariant

MCBlock == {"a1", "a2", "a3", "c2", "b1", "b2", "x2", "x3", "z", "z1", "m1", "m2"}
MCHash == MCBlock \cup {Genesis}
MCOwn == {"m1", "m2"}

MCParent == [h \in MCHash |->
  CASE h \in {"a1", "b1", "m1"} -> Genesis
    [] h \in {"a2", "c2", "x2"} -> "a1"
    [] h = "a3" -> "a2"
    [] h = "x3" -> "x2"
    [] h \in {"b2", "m2"} -> "b1"
    [] h = "z1" -> "z"
    [] OTHER -> Zero]

MCHeight == [b \in MCBlock |->
  CASE b = "z" -> 0 [] b \in {"a1", "b1", "m1", "z1"} -> 1
    [] b \in {"a3", "x3"} -> 3 [] OTHER -> 2]

MCWeight == [h \in MCHash |->
  CASE h \in {"b2", "x2", "z1"} -> 4 [] h \in {"c2", "x3"} -> 3 [] h = "b1" -> 1
    [] OTHER -> 2]

\* A coinbase has one unlocked output of 2 units; a block's coinbase is its own.
MCTx == {"g", "t1", "t2", "t3"} \cup MCBlock
MCOutputs == [t \in MCTx |-> IF t = "g" THEN 2 ELSE 1]
MCKey == UNION {{<<t, i>> : i \in 1..MCOutputs[t]} : t \in MCTx}
MCImage == {"i1", "i2", "i3"}
MCInputs == [t \in MCTx |->
  CASE t = "t1" -> <<[key |-> <<"g", 1>>, image |-> "i1"]>>
    [] t = "t2" -> <<[key |-> <<"t1", 1>>, image |-> "i2"]>>
    [] t = "t3" -> <<[key |-> <<"g", 1>>, image |-> "i1"],
                     [key |-> <<"g", 2>>, image |-> "i3"]>>
    [] OTHER -> <<>>]
MCRing == [t \in MCTx |-> {}]
MCAmount == [k \in MCKey |-> 2]
MCSpendableAfter == [k \in MCKey |-> 0]

MCTxsOf == [b \in MCBlock |->
  CASE b = "a1" -> <<b, "t1">> [] b = "a2" -> <<b, "t2">>
    [] b \in {"b1", "x2"} -> <<b, "t3">> [] OTHER -> <<b>>]
=============================================================================
