------------------------------ MODULE MCMempool ------------------------------
(***************************************************************************)
(* A pool of three for seven spends: t1 and t2 fight over an output, t3    *)
(* and t4 over an image, t3, t5 and t6 pay the same fee, t4 spends two     *)
(* outputs, t7 names one twice, and the ring of t5 has a decoy.  The       *)
(* blocks spend what pending transactions do, without the pool being told. *)
(***************************************************************************)
EXTENDS Mempool

MCTx == {"g", "c1", "c2", "t1", "t2", "t3", "t4", "t5", "t6", "t7"}
MCOutputs == [t \in MCTx |-> IF t = "g" THEN 6 ELSE 1]
MCKey == UNION {{<<t, i>> : i \in 1..MCOutputs[t]} : t \in MCTx}
MCImage == {"i1", "i2", "i3", "i4", "i5", "i6"}
MCInputs == [t \in MCTx |->
  CASE t = "t1" -> <<[key |-> <<"g", 1>>, image |-> "i1"]>>
    [] t = "t2" -> <<[key |-> <<"g", 1>>, image |-> "i2"]>>
    [] t = "t3" -> <<[key |-> <<"g", 2>>, image |-> "i3"]>>
    [] t = "t4" -> <<[key |-> <<"g", 3>>, image |-> "i3"],
                     [key |-> <<"t1", 1>>, image |-> "i2"]>>
    [] t = "t5" -> <<[key |-> <<"g", 4>>, image |-> "i4"]>>
    [] t = "t6" -> <<[key |-> <<"g", 5>>, image |-> "i5"]>>
    [] t = "t7" -> <<[key |-> <<"g", 6>>, image |-> "i6"],
                     [key |-> <<"g", 6>>, image |-> "i6"]>>
    [] OTHER -> <<>>]
MCRing == [t \in MCTx |-> IF t = "t5" THEN {<<"g", 4>>, <<"g", 3>>} ELSE {}]
MCAmount == [k \in MCKey |->
  CASE k[1] = "g" -> 5 [] k[1] = "t1" -> 4 [] k[1] = "t2" -> 2
    [] k[1] \in {"t3", "t5", "t6"} -> 3 [] OTHER -> 1]
MCSpendableAfter == [k \in MCKey |-> 0]
MCBlock == {"b1", "b2"}
MCTxsOf == [b \in MCBlock |-> IF b = "b1" THEN <<"c1", "t1">> ELSE <<"c2", "t2", "t5">>]
MCHeight == [b \in MCBlock |-> 1]
=============================================================================
