-------------------------------- MODULE Wallet --------------------------------
(***************************************************************************)
(* Private payments from end to end: a wallet scans the ledger, builds and *)
(* signs a transaction (src/src/wallet.rs), and the ledger verifies and    *)
(* applies it (src/src/state.rs), perhaps after others that were built     *)
(* over the same outputs.  The signatures, addresses and range proofs are  *)
(* those of Privacy.                                                       *)
(***************************************************************************)
EXTENDS Privacy, FiniteSets, FiniteSetsExt, Functions

CONSTANTS
  Wallets,
  Keys,          \* Keys[w]: its keys, records [spend, view, legacy]
  Addresses,     \* whom one can pay: records [spend, view]
  Amounts,       \* what one can pay
  RingSize,      \* ring_size (11)
  RangeBits,     \* the bits of a range proof (32)
  NoKey,         \* a pubkey_hash of zeros
  NoPoint,       \* no stealth_dest, no ephemeral
  Seeds,         \* what the ledger may hold before: sequences of records [amount, to, legacy]
  MaxPayments    \* bound of the model

Address == [spend : Scalars, view : Scalars]

\* The address of a wallet's n-th key.
AddressOf(w, n) == [spend |-> Keys[w][n].spend, view |-> Keys[w][n].view]

\* The keys of the outputs that the ledger may hold before.
SeedKeys(seed) == {<<0, n>> : n \in 1..Len(seed)}

\* All the money there may be is less than the order of the group, and no point is
\* the one of an output without.
ASSUME WalletAssumption ==
  /\ \A w \in Wallets : /\ Len(Keys[w]) \in Nat \ {0}
                         /\ \A n \in 1..Len(Keys[w]) : AddressOf(w, n) \in Address
  /\ Addresses \subseteq Address /\ NoPoint \notin Scalars
  /\ Amounts \subseteq Nat /\ RingSize \in Nat \ {0} /\ RangeBits \in 1..64
  /\ MaxPayments \in Nat
  /\ \A seed \in Seeds :
       /\ Len(seed) \in Nat
       /\ \A n \in 1..Len(seed) : seed[n].amount \in Nat /\ seed[n].to \in Address
       /\ SumFunctionOnSet([k \in SeedKeys(seed) |-> seed[k[2]].amount], SeedKeys(seed)) < Q

VARIABLES
  utxos,   \* the ledger's outputs: a key <<transaction, index>> to an entry
  images,  \* spent_key_images
  sent,    \* transactions that are built and not confirmed
  built    \* how many have been built

vars == <<utxos, images, sent, built>>

\* What a wallet draws at random for the n-th transaction it builds.
Random(n, i) == Mod(1 + 1009 * n + 97 * i)

\* The outputs that there may ever be, whom they may be to, and the addresses of the
\* wallets.
Places == (UNION {SeedKeys(seed) : seed \in Seeds}) \cup ((1..MaxPayments) \X {1, 2})
Held == UNION {{AddressOf(w, n) : n \in 1..Len(Keys[w])} : w \in Wallets}
Payees ==
  Addresses \cup Held \cup
  UNION {{seed[n].to : n \in {m \in 1..Len(seed) : seed[m].legacy = NoKey}} : seed \in Seeds}

\* The one-time key of an output, and its key image.
KeyAt(k, to) == Destination(to, Random(k[1], k[2])).dest
ImageAt(k, to) == Mod(KeyAt(k, to) * HashPoint(KeyAt(k, to)))

\* What hashing makes unlikely does not happen: that a key recovers an output that is
\* to another address, that two outputs of the wallets have one key image; nor do
\* wallets share keys.
ASSUME FreshAssumption ==
  /\ \A k \in Places, to \in Payees, a \in Held :
       Recover(a.view, a.spend, Random(k[1], k[2])) = KeyAt(k, to) => a = to
  /\ \A k, l \in Places, a, b \in Held : ImageAt(k, a) = ImageAt(l, b) => k = l
  /\ \A v, w \in Wallets : \A m \in 1..Len(Keys[v]), n \in 1..Len(Keys[w]) :
       AddressOf(v, m) = AddressOf(w, n) => v = w

\* A stealth output to an address, and an output to a legacy key.
StealthOutput(amount, to, r) ==
  LET d == Destination(to, r)
      p == ProveWithBlinding(amount, [i \in 1..RangeBits |-> Mod(r + 7 * i)])
  IN  [amount |-> amount, dest |-> d.dest, ephemeral |-> d.ephemeral, legacy |-> NoKey,
       to |-> to, commitment |-> Commit(amount, p.blinding), range |-> p.proof]

\* add_transaction_outputs of one output: the proof is not kept.
EntryOf(o) == [amount |-> o.amount, dest |-> o.dest, ephemeral |-> o.ephemeral,
               legacy |-> o.legacy, to |-> o.to]

LegacyEntry(amount, legacy) ==
  [amount |-> amount, dest |-> NoPoint, ephemeral |-> NoPoint, legacy |-> legacy,
   to |-> [spend |-> 0, view |-> 0]]

SeedEntry(s, n) ==
  IF s.legacy # NoKey THEN LegacyEntry(s.amount, s.legacy)
  ELSE EntryOf(StealthOutput(s.amount, s.to, Random(0, n)))

Init ==
  /\ \E seed \in Seeds : utxos = [k \in SeedKeys(seed) |-> SeedEntry(seed[k[2]], k[2])]
  /\ images = {}
  /\ sent = {}
  /\ built = 0

-----------------------------------------------------------------------------
(* What a wallet owns                                                      *)

IsStealth(e) == e.dest # NoPoint

\* The keys of a wallet under which it finds a stealth output.
StealthKeys(w, e) ==
  {n \in 1..Len(Keys[w]) :
     /\ IsStealth(e) /\ e.ephemeral # NoPoint
     /\ Recover(Keys[w][n].view, Keys[w][n].spend, e.ephemeral) = e.dest}

LegacyKeys(w, e) == {n \in 1..Len(Keys[w]) : e.legacy # NoKey /\ e.legacy = Keys[w][n].legacy}

Owns(w, e) == StealthKeys(w, e) # {} \/ LegacyKeys(w, e) # {}

\* scan_utxos: the outputs, and the key each can be spent with, the first that
\* matches; a legacy output's is zero.
Owned(w) == {k \in DOMAIN utxos : Owns(w, utxos[k])}

OneTimeKey(w, e) ==
  IF StealthKeys(w, e) = {} THEN 0
  ELSE LET key == Keys[w][Min(StealthKeys(w, e))]
       IN  Recover(key.view, key.spend, e.ephemeral)

Balance(w, ledger) ==
  SumFunctionOnSet([k \in DOMAIN ledger |-> ledger[k].amount],
                   {k \in DOMAIN ledger : Owns(w, ledger[k])})

-----------------------------------------------------------------------------
(* Building a payment                                                      *)

AmountOf(ks) == SumFunctionOnSet([k \in DOMAIN utxos |-> utxos[k].amount], ks)

\* The outputs selected when they are gone through in some order: no more than
\* reach the amount.
Selections(w, amount) ==
  LET enough == {ks \in SUBSET Owned(w) : AmountOf(ks) >= amount}
      needed == {ks \in enough : \E k \in ks : AmountOf(ks \ {k}) < amount}
  IN  {s \in UNION {SetToSeqs(ks) : ks \in needed} : AmountOf(Range(s) \ {s[Len(s)]}) < amount}

StealthSet == {k \in DOMAIN utxos : IsStealth(utxos[k])}

\* The decoys each of the selected outputs may get: as many as a ring has room
\* for or, if there are not so many, all there are.
Rings(s) ==
  {decoys \in [1..Len(s) -> kSubset(Min({RingSize, Cardinality(StealthSet)}) - 1, StealthSet)] :
     \A j \in 1..Len(s) : s[j] \notin decoys[j]}

\* The members of a ring: the output among its decoys, at the real place or, if
\* there are too few of them, last.
RingMembers(own, decoys, real) ==
  InsertAt(SetToSeq(decoys),
           IF real <= Cardinality(decoys) THEN real ELSE Cardinality(decoys) + 1, own)

\* [layer][place] to [place][layer].
Transposed(rings) ==
  [n \in 1..Len(rings[1]) |-> [j \in 1..Len(rings) |-> rings[j][n]]]

RingKeys(members) == [n \in 1..Len(members) |-> utxos[members[n]].dest]

\* tx_msg: all of the outputs, their range proofs included, but of the inputs only
\* where they are, not the key images.
Message(keys, outputs, size) ==
  <<keys, [n \in 1..Len(outputs) |->
             <<outputs[n].amount, outputs[n].legacy, outputs[n].dest,
               outputs[n].commitment, outputs[n].range, outputs[n].ephemeral>>], size>>

\* Mutant: the change goes where the payment goes.
ChangeToPayee(w, to) == to

\* The change goes to the wallet's first key.
ChangeAddress(w, to) == AddressOf(w, 1)

\* create_private_tx over the outputs s and one set of decoys for each.
Transaction(w, to, amount, s, decoys, real) ==
  LET n        == built + 1
      change   == AmountOf(Range(s)) - amount
      outputs  == <<StealthOutput(amount, to, Random(n, 1))>> \o
                  (IF change = 0 THEN <<>>
                   ELSE <<StealthOutput(change, ChangeAddress(w, to), Random(n, 2))>>)
      members  == [j \in 1..Len(s) |-> RingMembers(s[j], decoys[j], real)]
      secrets  == [j \in 1..Len(s) |-> OneTimeKey(w, utxos[s[j]])]
      ring     == Transposed([j \in 1..Len(s) |-> RingKeys(members[j])])
      sig      == Sign(ring, secrets, real, Message(s, outputs, RingSize),
                       [j \in 1..Len(s) |-> Random(n, 2 + j)],
                       [m \in 1..Len(ring) |-> [j \in 1..Len(s) |-> Random(n, 9 * m + j)]])
  IN  [id |-> n, inputs |-> s, images |-> sig.images, outputs |-> outputs,
       members |-> members, size |-> RingSize, sig |-> sig, from |-> w, amount |-> amount]

\* It is built if no legacy output was selected, which cannot be in a ring, and
\* if the real place is within the ring: an index beyond it ends the program.
Pay(w, to, amount, s, decoys, real) ==
  /\ built < MaxPayments
  /\ amount > 0
  /\ \A j \in 1..Len(s) : /\ IsStealth(utxos[s[j]])
                          /\ real <= Cardinality(decoys[j]) + 1
  /\ sent' = sent \cup {Transaction(w, to, amount, s, decoys, real)}
  /\ built' = built + 1
  /\ UNCHANGED <<utxos, images>>

-----------------------------------------------------------------------------
(* What the ledger does with it                                            *)

RingIntact(tx) == \A j \in 1..Len(tx.members) : Range(tx.members[j]) \subseteq StealthSet

SignatureHolds(tx) ==
  VerifySignature(tx.sig, Transposed([j \in 1..Len(tx.members) |-> RingKeys(tx.members[j])]),
                  Message(tx.inputs, tx.outputs, tx.size))

\* spend_transaction_inputs: every ring is still there and signed, no image is
\* marked, every input is there, the ranges are proved, and nothing is gained.
Accepts(tx) ==
  /\ RingIntact(tx)
  /\ SignatureHolds(tx)
  /\ \A j \in 1..Len(tx.inputs) : tx.images[j] \notin images /\ tx.inputs[j] \in DOMAIN utxos
  /\ \A n \in 1..Len(tx.outputs) : VerifyRange(tx.outputs[n].range, tx.outputs[n].commitment)
  /\ AmountOf(Range(tx.inputs)) >=
       SumFunctionOnSet([n \in DOMAIN tx.outputs |-> tx.outputs[n].amount], DOMAIN tx.outputs)

Confirm(tx) ==
  /\ Accepts(tx)
  /\ LET gone == Range(tx.inputs)
         new  == {<<tx.id, n>> : n \in 1..Len(tx.outputs)}
     IN  utxos' = [k \in (DOMAIN utxos \ gone) \cup new |->
                     IF k \in new THEN EntryOf(tx.outputs[k[2]]) ELSE utxos[k]]
  /\ images' = images \cup Range(tx.images)
  /\ sent' = sent \ {tx}
  /\ UNCHANGED built

Refuse(tx) == ~Accepts(tx) /\ sent' = sent \ {tx} /\ UNCHANGED <<utxos, images, built>>

Next ==
  \/ \E w \in Wallets, amount \in Amounts :
       \E s \in Selections(w, amount) :
         \E decoys \in Rings(s), to \in Addresses, real \in 1..RingSize :
           Pay(w, to, amount, s, decoys, real)
  \/ \E tx \in sent : Confirm(tx)
  \/ \E tx \in sent : Refuse(tx)

Spec == Init /\ [][Next]_vars

-----------------------------------------------------------------------------
\* Whatever the place of the output in its ring, the decoys and the number of
\* inputs, a transaction a wallet built is accepted as long as the members of its
\* rings are unspent, unless it had no decoy at all, or pays or returns an amount
\* that the 32 bits of its range proof do not hold.
BuiltIsAccepted ==
  \A tx \in sent :
    Accepts(tx) <=>
      /\ RingIntact(tx)
      /\ Len(tx.members[1]) >= 2
      /\ \A n \in 1..Len(tx.outputs) : tx.outputs[n].amount < Two[RangeBits]

\* A stealth output is found by the wallet that holds the keys it was addressed to
\* and by no other; sent to an address without a view key, as the command line
\* does, it is found by nobody.
ReceiverFinds ==
  \A k \in StealthSet : \A w \in Wallets :
    StealthKeys(w, utxos[k]) =
      {n \in 1..Len(Keys[w]) : utxos[k].to = AddressOf(w, n)}

\* An output has one key image, whoever's decoys it is signed among: two pending
\* transactions have one in common exactly if they spend an output in common, and
\* no output that its wallet still owns has an image that is marked.
ImagesExact ==
  /\ \A t, u \in sent : \A i \in 1..Len(t.inputs), j \in 1..Len(u.inputs) :
       t.inputs[i] = u.inputs[j] <=> t.images[i] = u.images[j]
  /\ \A w \in Wallets : \A k \in Owned(w) \cap StealthSet :
       Mod(OneTimeKey(w, utxos[k]) * HashPoint(utxos[k].dest)) \notin images

\* A confirmed payment costs its sender the amount, or nothing if it is to one of
\* its own addresses, the change being found again; anyone else has the amount more
\* or as much as before.
SettlesStep ==
  utxos' # utxos =>
    \E tx \in sent \ sent' :
      LET toSelf == \E n \in 1..Len(Keys[tx.from]) : tx.outputs[1].to = AddressOf(tx.from, n)
      IN  \A w \in Wallets :
            Balance(w, utxos') - Balance(w, utxos) \in
              IF w # tx.from THEN {0, tx.amount} ELSE IF toSelf THEN {0} ELSE {-tx.amount}

PaymentSettles == [][SettlesStep]_vars
=============================================================================
