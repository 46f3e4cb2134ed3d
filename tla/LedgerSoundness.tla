--------------------------- MODULE LedgerSoundness ---------------------------
(***************************************************************************)
(* What makes a ledger and a diff sound: the two relations that every      *)
(* transaction of a block keeps, which the invariants of the state         *)
(* machines that own a ledger are built from.                              *)
(***************************************************************************)
EXTENDS UtxoLedger

\* L holds nothing but outputs of the transactions in C, and has every one of
\* their inputs spent and marked.
Rooted(L, C) ==
  /\ \A k \in Key : Exists(L, k) => k[1] \in C
  /\ \A t \in C : SpentImages(t) \subseteq L.images
  /\ \A t \in C : \A k \in SpentKeys(t) : k[1] \in C /\ ~Exists(L, k)
  /\ \A t, u \in C : t # u => SpentKeys(t) \cap SpentKeys(u) = {}

\* Nothing else is marked in L.
Grounded(L, C) == Rooted(L, C) /\ L.images \subseteq UNION {SpentImages(t) : t \in C}

\* D undoes what was done since S: besides unwinding to S, what it holds as
\* consumed and not created is gone from L, and it never takes back more
\* supply than L has.
Undoes(D, L, S) ==
  /\ UnwindWithDiff(L, D) = S
  /\ \A k \in Key : D.consumed[k] # NoEntry /\ k \notin D.created => ~Exists(L, k)
  /\ D.supply <= L.supply

\* The places of the first n transactions of b, and all the places there are.
PlacesOf(b, n) == {<<b, m>> : m \in 1..n}
Place == UNION {PlacesOf(b, Len(TxsOf[b])) : b \in Block}

\* The value a transaction of a block makes appear in the three ways that nothing
\* refuses: a coinbase, what the wrapping of its sum hides; another that spends
\* nothing or names an output more than once, what it pays beyond the outputs it
\* takes away; any other, nothing.
NamesOnce(t) ==
  \A i, j \in 1..Len(Inputs[t]) : Inputs[t][i].key = Inputs[t][j].key => i = j

Gain == [p \in Place |->
  LET t     == TxsOf[p[1]][p[2]]
      taken == SumFunctionOnSet(Amount, SpentKeys(t))
  IN  IF p[2] = 1 THEN TotalOut(t) - CoinbaseAmount(t)
      ELSE IF (Inputs[t] # <<>> /\ NamesOnce(t)) \/ TotalOut(t) <= taken THEN 0
      ELSE TotalOut(t) - taken]

\* The unspent outputs of L, and that they hold no more than L's supply and what the
\* transactions at the places in P made appear.
Unspent(L) == {k \in Key : Exists(L, k)}

Backed(L, P) ==
  /\ IsFiniteSet(Unspent(L)) /\ IsFiniteSet(P) /\ P \subseteq Place
  /\ SumFunctionOnSet(Amount, Unspent(L)) <= L.supply + SumFunctionOnSet(Gain, P)

\* The first n transactions of a block, and all of them.
FirstOf(b, n) == {TxsOf[b][m] : m \in 1..n}
BodyOf(b) == FirstOf(b, Len(TxsOf[b]))

\* No transaction of b without inputs, coinbase or not, is in C or comes twice.  Nothing
\* marks such a transaction as confirmed, and Transaction::hash covers neither the
\* height nor the lock, so that the code leaves this to amounts and keys that differ.
FreshStart(b, C) ==
  \A n \in 1..Len(TxsOf[b]) :
    Inputs[TxsOf[b][n]] = <<>> => TxsOf[b][n] \notin C \cup FirstOf(b, n - 1)

\* What applying a block returns, and what it must be over a ledger rooted in C:
\* the block's effect with the diff that undoes it, or nothing.
Outcome == [ok : BOOLEAN, ledger : UtxoSet, diff : BlockDiff]

AppliedSoundly(r, L, C, b) ==
  /\ r \in Outcome
  /\ r.ok => /\ Rooted(r.ledger, C \cup BodyOf(b)) /\ Undoes(r.diff, r.ledger, L)
             /\ Grounded(L, C) => Grounded(r.ledger, C \cup BodyOf(b))
  /\ ~r.ok => r.ledger = L
=============================================================================
