------------------------------ MODULE MCPayments ------------------------------
(***************************************************************************)
(* A wallet with two keys pays another, or itself, over three ledgers: one *)
(* with as many stealth outputs as a ring has members, one with too few of *)
(* them and one without a decoy.  Proofs have three bits, so that 8 is     *)
(* what 2^32 is to the code.                                               *)
(***************************************************************************)
EXTENDS Wallet

MCKeys == [w \in {"A", "B"} |->
  IF w = "A" THEN <<[spend |-> 11, view |-> 23, legacy |-> "a1"],
                    [spend |-> 31, view |-> 47, legacy |-> "a2"]>>
  ELSE <<[spend |-> 57, view |-> 71, legacy |-> "b1"]>>]

MCAddresses == {[spend |-> 57, view |-> 71], [spend |-> 57, view |-> 0],
                [spend |-> 31, view |-> 47]}

Stealth(amount, spend, view) ==
  [amount |-> amount, to |-> [spend |-> spend, view |-> view], legacy |-> NoKey]
Legacy(amount, key) ==
  [amount |-> amount, to |-> [spend |-> 0, view |-> 0], legacy |-> key]

MCSeeds == {<<Stealth(5, 11, 23), Stealth(4, 31, 47), Stealth(3, 91, 103), Legacy(4, "a2")>>,
            <<Stealth(12, 11, 23), Stealth(3, 91, 103)>>,
            <<Stealth(5, 11, 23)>>}

MCHashPoint(p) == ((3 * p * p + 7 * p + 11) % 5003) + 1
MCHashScalar(p) == (5 * p * p + 13 * p + 101) % 5003
\* A message is the place of a bit, or the inputs, outputs and ring size of a
\* transaction.
MessageNumber(msg) ==
  IF Len(msg) = 1 THEN msg[1]
  ELSE msg[3] + Total([n \in 1..Len(msg[2]) |->
                         3 * msg[2][n][1] + 7 * msg[2][n][3] + 11 * msg[2][n][6]])
MCChallenge(msg, l, r) ==
  LET x == (31 * l + 17 * r + 5 + MessageNumber(msg)) % 5003 IN (x * x + 3) % 5003
=============================================================================
