---------------------------- MODULE MCBlockApply ----------------------------
(***************************************************************************)
(* Every chain of up to MaxHeight blocks that can be built from four       *)
(* transactions: t1 spends a genesis output and pays two, t2 spends one of *)
(* those with a ring decoy, the coinbase that t4 spends once it unlocks at *)
(* height 2, and t3 conflicts with t1.  A fifth, t5, pays more than it     *)
(* spends; it comes alone or after t1.  Three more do not conserve value   *)
(* and pass: t6 spends nothing, t7 names a genesis output twice and pays   *)
(* more than it holds, and the coinbase w pays U64 in all, which wraps to  *)
(* 0.                                                                      *)
(***************************************************************************)
EXTENDS BlockApplyInvariant

CONSTANTS MaxHeight, MaxSpends

MCTx == {"g", "c1", "c2", "c3", "w", "t1", "t2", "t3", "t4", "t5", "t6", "t7"}
MCSpends == {"t1", "t2", "t3", "t4"}
MCCoinbase == <<"c1", "c2", "c3">>
MCMintHeight == [t \in {"c1", "c2", "c3", "w", "t6"} |->
  CASE t \in {"c1", "t6"} -> 1 [] t \in {"c2", "w"} -> 2 [] OTHER -> 3]
MCImage == {"i1", "i2", "i3", "i4", "i5"}

MCOutputs == [t \in MCTx |-> IF t \in {"g", "t1", "w"} THEN 2 ELSE 1]
MCKey == UNION {{<<t, i>> : i \in 1..MCOutputs[t]} : t \in MCTx}

MCInputs == [t \in MCTx |->
  CASE t = "t1" -> <<[key |-> <<"g", 1>>, image |-> "i1"]>>
    [] t = "t2" -> <<[key |-> <<"t1", 1>>, image |-> "i2"]>>
    [] t = "t3" -> <<[key |-> <<"g", 1>>, image |-> "i1"],
                     [key |-> <<"g", 2>>, image |-> "i3"]>>
    [] t = "t4" -> <<[key |-> <<"c1", 1>>, image |-> "i4"]>>
    [] t = "t5" -> <<[key |-> <<"g", 2>>, image |-> "i5"]>>
    [] t = "t7" -> <<[key |-> <<"g", 2>>, image |-> "i3"],
                     [key |-> <<"g", 2>>, image |-> "i3"]>>
    [] OTHER -> <<>>]

MCRing == [t \in MCTx |-> IF t = "t2" THEN {<<"t1", 1>>, <<"c1", 1>>} ELSE {}]

MCAmount == [k \in MCKey |->
  CASE k[1] = "g" -> 5 [] k[1] = "t1" -> 2 [] k[1] \in {"t2", "t6"} -> 1
    [] k[1] = "t3" -> 10 [] k[1] = "t4" -> 3 [] k[1] = "t5" -> 6
    [] k[1] = "t7" -> 8 [] k[1] = "w" -> U64 \div 2 [] OTHER -> 4]

\* Coinbases of heights 1 and 2 are locked; c3 is not.
MCSpendableAfter == [k \in MCKey |->
  IF k[1] \in {"c1", "c2", "w"} THEN 2 ELSE 0]

\* A block is the path of transaction lists that leads to it.
MCBodies == UNION {{s \in [1..n -> MCSpends] :
                      \A i, j \in 1..n : i # j => s[i] # s[j]} : n \in 0..MaxSpends}
            \cup {<<"t5">>, <<"t1", "t5">>, <<"t1", "t7">>, <<"t6">>, <<"w">>}
MCBlock == UNION {{p \in [1..h -> MCBodies] :
                     \A i \in 1..h : /\ p[i] = <<"t6">> => i = 1
                                     /\ p[i] = <<"w">> => i = 2} : h \in 1..MaxHeight}
MCTxsOf == [b \in MCBlock |->
  IF b[Len(b)] = <<"w">> THEN <<"w">> ELSE <<MCCoinbase[Len(b)]>> \o b[Len(b)]]
MCHeight == [b \in MCBlock |-> Len(b)]
MCParent == [b \in MCBlock |->
  IF Len(b) = 1 THEN Genesis ELSE SubSeq(b, 1, Len(b) - 1)]
=============================================================================
