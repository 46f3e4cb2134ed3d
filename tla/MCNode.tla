------------------------------- MODULE MCNode -------------------------------
(***************************************************************************)
(* A node over two rival blocks of peers and the blocks its own miner can  *)
(* make on each of them: a1 confirms t1, the heavier b1 confirms t3 which   *)
(* conflicts with t1, and a2 confirms t2 which spends an output that is     *)
(* locked until height 2; t4 has a wrong signature, and t5 spends nothing.  *)
(***************************************************************************)
EXTENDS NodeDashboard

MCSpends == {"t1", "t2", "t3", "t4", "t5"}
MCMined == {"t1", "t2", "t3", "t5"}
MCBodies == {<<>>} \cup {<<t>> : t \in MCMined} \cup
            {s \in MCMined \X MCMined : s[1] # s[2] \/ s[1] = "t5"}
MCOwn == {<<p, s>> : p \in {"G", "a1", "b1"}, s \in MCBodies}
MCPeers == {<<"a1">>, <<"b1">>, <<"a2">>}
MCBlock == MCPeers \cup MCOwn
MCHash == MCBlock \cup {Genesis}

MCParent == [h \in MCHash |->
  IF h = Genesis THEN Zero
  ELSE IF h \in {<<"a1">>, <<"b1">>} \/ h[1] = "G" THEN Genesis
  ELSE IF h = <<"a2">> THEN <<"a1">> ELSE <<h[1]>>]
MCHeight == [b \in MCBlock |-> IF MCParent[b] = Genesis THEN 1 ELSE 2]
MCWeight == [h \in MCHash |-> IF h = <<"b1">> THEN 3 ELSE 2]

MCTx == {"g", "G", "a1", "b1", "ca", "cb", "cc"} \cup MCSpends
MCAuthorised == MCTx \ {"t4"}
MCTxsOf == [b \in MCBlock |->
  CASE b = <<"a1">> -> <<"ca", "t1">> [] b = <<"b1">> -> <<"cb", "t3">>
    [] b = <<"a2">> -> <<"cc", "t2">> [] OTHER -> <<b[1]>> \o b[2]]
MCOutputs == [t \in MCTx |-> IF t = "g" THEN 2 ELSE 1]
MCKey == UNION {{<<t, i>> : i \in 1..MCOutputs[t]} : t \in MCTx}
MCImage == {"i1", "i2", "i3"}
MCInputs == [t \in MCTx |->
  CASE t = "t1" -> <<[key |-> <<"g", 1>>, image |-> "i1"]>>
    [] t = "t2" -> <<[key |-> <<"g", 2>>, image |-> "i2"]>>
    [] t = "t4" -> <<[key |-> <<"g", 2>>, image |-> "i2"]>>
    [] t = "t3" -> <<[key |-> <<"g", 1>>, image |-> "i3"]>>
    [] OTHER -> <<>>]
MCRing == [t \in MCTx |-> {}]
MCAmount == [k \in MCKey |-> IF k[1] = "t3" THEN 1 ELSE 2]
MCSpendableAfter == [k \in MCKey |-> IF k = <<"g", 2>> THEN 2 ELSE 0]
=============================================================================
