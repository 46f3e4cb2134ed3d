----------------------------- MODULE MCNetwork -----------------------------
(***************************************************************************)
(* A can mine a1 and a2, B can mine b1 over d.  Outside has d, which       *)
(* outweighs a1, and passes e on, whether it has it or not.  Both confirm  *)
(* t1:                                                                     *)
(*                                                                         *)
(*   G -- a1 -- a2                                                         *)
(*    \     \-- e (t1)                                                     *)
(*     \-- d (t1) -- b1                                                    *)
(***************************************************************************)
EXTENDS Network

MCOwnA == {"a1"}
MCLongA == {"a1", "a2"}
MCOwnB == {"b1"}
MCBlock == {"a1", "a2", "b1", "d", "e"}
MCHash == MCBlock \cup {Genesis}
MCParent == [h \in MCHash |->
  CASE h \in {"a1", "d"} -> Genesis
    [] h \in {"a2", "e"} -> "a1" [] h = "b1" -> "d" [] OTHER -> Zero]
MCHeight == [b \in MCBlock |-> IF b \in {"a2", "e", "b1"} THEN 2 ELSE 1]
MCWeight == [h \in MCHash |-> IF h = "d" THEN 3 ELSE 2]

\* A coinbase has one unlocked output of 2 units; a block's coinbase is its own.
MCTx == {"g", "t1"} \cup MCBlock
MCOutputs == [t \in MCTx |-> 1]
MCKey == {<<t, 1>> : t \in MCTx}
MCInputs == [t \in MCTx |->
  IF t = "t1" THEN <<[key |-> <<"g", 1>>, image |-> "i1"]>> ELSE <<>>]
MCRing == [t \in MCTx |-> {}]
MCAmount == [k \in MCKey |-> 2]
MCSpendableAfter == [k \in MCKey |-> 0]
MCTxsOf == [b \in MCBlock |-> IF b \in {"d", "e"} THEN <<b, "t1">> ELSE <<b>>]

MCOutsideLog == <<"d">>
MCScripts == {
  <<A!NewTransaction("t1"), A!CompactBlock("d")>>, <<A!NewBlock("e")>>, <<A!CompactBlock("e")>>}
MCSilence == {<<>>}
=============================================================================
