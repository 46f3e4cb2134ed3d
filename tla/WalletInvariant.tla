---------------------------- MODULE WalletInvariant ----------------------------
(***************************************************************************)
(* What the properties of Wallet need on top of themselves to be kept by   *)
(* every step: where each output, each key image and each pending          *)
(* transaction come from.                                                  *)
(***************************************************************************)
EXTENDS Wallet

\* The outputs that are there or were there: those of the ledger before and of
\* transactions that are no longer pending.
Past == {k \in Places : k[1] \in 0..built /\ \A t \in sent : t.id # k[1]}

\* The money in outputs of a ledger.
Money(ledger, ks) == SumFunctionOnSet([k \in DOMAIN ledger |-> ledger[k].amount], ks)

\* An output with a point was derived for an address from what was drawn for its place.
EntrySound(k, e) ==
  /\ e.amount \in Nat
  /\ \/ ~IsStealth(e)
     \/ /\ e.to \in Payees /\ e.legacy = NoKey
        /\ e.ephemeral = Random(k[1], k[2]) /\ e.dest = KeyAt(k, e.to)

LedgerSound ==
  /\ IsFiniteSet(DOMAIN utxos) /\ DOMAIN utxos \subseteq Past
  /\ \A k \in DOMAIN utxos : EntrySound(k, utxos[k])
  /\ Money(utxos, DOMAIN utxos) < Q

\* What is marked is the image of an output that is gone.
ImagesSound == \A x \in images : \E k \in Past \ DOMAIN utxos, a \in Held : x = ImageAt(k, a)

\* The inputs of a pending transaction, each in its ring, and the images it has.
InputsSound(t) ==
  /\ Len(t.inputs) \in Nat \ {0} /\ t.inputs \in [1..Len(t.inputs) -> Past]
  /\ IsInjective(t.inputs)
  /\ DOMAIN t.members = 1..Len(t.inputs) /\ Len(t.members) = Len(t.inputs)
  /\ DOMAIN t.images = 1..Len(t.inputs)
  /\ \A j \in 1..Len(t.inputs) :
       /\ t.inputs[j] \in Range(t.members[j]) /\ t.members[j] \in Seq(Past)
       /\ \E a \in Held : t.images[j] = ImageAt(t.inputs[j], a)
       /\ t.inputs[j] \in DOMAIN utxos =>
            /\ IsStealth(utxos[t.inputs[j]])
            /\ t.images[j] = ImageAt(t.inputs[j], utxos[t.inputs[j]].to)
            /\ \E n \in 1..Len(Keys[t.from]) : utxos[t.inputs[j]].to = AddressOf(t.from, n)

\* Its outputs: the payment, and what comes back.
Paid(t) == SumFunctionOnSet([n \in DOMAIN t.outputs |-> t.outputs[n].amount], DOMAIN t.outputs)

OutputsSound(t) ==
  /\ Len(t.outputs) \in {1, 2} /\ DOMAIN t.outputs = 1..Len(t.outputs)
  /\ \A n \in 1..Len(t.outputs) :
       LET o == t.outputs[n]
       IN  o.amount \in Nat /\ o.to \in Payees /\ o = StealthOutput(o.amount, o.to, Random(t.id, n))
  /\ t.outputs[1].amount = t.amount
  /\ Len(t.outputs) = 2 => t.outputs[2].to = AddressOf(t.from, 1)
  /\ Range(t.inputs) \subseteq DOMAIN utxos => Money(utxos, Range(t.inputs)) = Paid(t)

PendingSound(t) ==
  /\ t.from \in Wallets
  /\ InputsSound(t)
  /\ OutputsSound(t)
  /\ RingIntact(t) => (SignatureHolds(t) <=> Len(t.members[1]) >= 2)

\* Two pending transactions differ in their ids, and an input they have in common has
\* one image.
PairSound(t, u) ==
  /\ t.id = u.id => t = u
  /\ \A i \in 1..Len(t.inputs), j \in 1..Len(u.inputs) :
       t.inputs[i] = u.inputs[j] => t.images[i] = u.images[j]

WInv ==
  /\ built \in 0..MaxPayments
  /\ LedgerSound /\ ImagesSound
  /\ \A t \in sent : /\ t.id \in 1..built /\ PendingSound(t)
                     /\ \A u \in sent : PairSound(t, u)
=============================================================================
