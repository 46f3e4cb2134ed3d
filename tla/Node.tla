-------------------------------- MODULE Node --------------------------------
(***************************************************************************)
(* A whole node: its chain (NodeChain) and its pool (Mempool) together, as *)
(* P2pNode::run drives them.  Blocks of peers never touch the pool; mining *)
(* drains it (mine_block_with_difficulty in src/src/main.rs).              *)
(***************************************************************************)
EXTENDS NodeChainProperties

CONSTANTS
  MaxPending, NoTx,  \* see Mempool
  Submitted          \* the transactions that anybody may submit

ASSUME NodeAssumption == Submitted \subseteq Tx

VARIABLES pending, keyImages, utxoSpends

Pool == INSTANCE Mempool

poolVars == <<pending, keyImages, utxoSpends>>
nodeVars == <<vars, poolVars>>

NodeInit == Init /\ Pool!PoolInit

\* A block from a peer.
Receive(b) == ReceiveBlock(b) /\ UNCHANGED poolVars

\* A transaction from gossip.
SubmitTx(t) == Pool!Submit(ledger, t) /\ UNCHANGED vars

\* Mutant: the included transactions are spent without marking their images.
IncludeUnmarked(h) ==
  LET step(acc, t) ==
        IF SpendChecks(acc.ledger, t, h)
        THEN [ledger |-> [acc.ledger EXCEPT !.utxos = RemoveInputs(acc.ledger, t).utxos],
              body |-> Append(acc.body, t)]
        ELSE acc
  IN  FoldLeft(step, [ledger |-> ledger, body |-> <<>>], pending)

\* Mutant: the first transaction that is refused ends the loop.
IncludeUntilRefused(h) ==
  LET step(acc, t) ==
        IF acc.go /\ SpendChecks(acc.ledger, t, h)
        THEN [acc EXCEPT !.ledger = RemoveInputs(@, t), !.body = Append(@, t)]
        ELSE [acc EXCEPT !.go = FALSE]
  IN  FoldLeft(step, [ledger |-> ledger, body |-> <<>>, go |-> TRUE], pending)

\* The drained transactions, one by one, in the order of the pool: one that
\* spend_transaction_inputs accepts has its inputs spent in the node's ledger
\* and goes into the block, another is thrown away.
Include(h) ==
  LET step(acc, t) ==
        IF SpendChecks(acc.ledger, t, h)
        THEN [ledger |-> RemoveInputs(acc.ledger, t), body |-> Append(acc.body, t)]
        ELSE acc
  IN  FoldLeft(step, [ledger |-> ledger, body |-> <<>>], pending)

\* mine_block_with_difficulty: the block is the coinbase and the included
\* transactions, and is applied to the ledger in which they are spent already.
MinePending(b) ==
  LET included == Include(HeightOf(b))
  IN  /\ b \in Own
      /\ Tail(TxsOf[b]) = included.body
      /\ Mine(included.ledger, b)
      /\ Pool!Drain

NodeNext ==
  \/ \E b \in Block : Receive(b)
  \/ \E t \in Submitted : SubmitTx(t)
  \/ \E b \in Own : MinePending(b)

NodeSpec == NodeInit /\ [][NodeNext]_nodeVars

-----------------------------------------------------------------------------
\* The node never believes in an output, an amount of supply or the absence of
\* a spend that its canonical chain does not give, failed mining or not.
LedgerWithinReplay ==
  LET L == ReplayOf[tip].ledger
  IN  /\ ReplayOf[tip].ok
      /\ \A k \in Key : ledger.utxos[k] \in {L.utxos[k], NoEntry}
      /\ L.images \subseteq ledger.images
      /\ ledger.supply = L.supply

\* What the ledger lacks against its chain are outputs that a transaction with
\* a marked image spends: nothing else can vanish.
LossIsSpent ==
  \A k \in Key : Exists(ReplayOf[tip].ledger, k) /\ ~Exists(ledger, k) =>
    \E t \in Tx : k \in SpentKeys(t) /\ SpentImages(t) \subseteq ledger.images

\* What mining takes out of the pool and does not confirm, the ledger that mining
\* leaves would refuse: nothing that is still good is thrown away.  That is said
\* of the moment after the step, and of no later one: a block or a reorganisation
\* can bring back what was missing, and the dashboard asks an older ledger.  The
\* exceptions: it spends nothing; its signature is wrong, which the pool checks of
\* private transactions only; one of its outputs is still locked; the mined block
\* makes an output that it lacked (a coinbase that an abandoned block made too).
DrainedStep ==
  pending # <<>> /\ pending' = <<>> =>
    \A t \in ToSet(pending) :
      \/ tip' # tip /\ t \in ToSet(TxsOf[tip'])
      \/ ~(ValidateTransaction(ledger', t) /\ \A k \in Ring[t] : Exists(ledger', k))
      \/ Inputs[t] = <<>>
      \/ t \notin Authorised
      \/ \E k \in SpentKeys(t) : HeightOf(tip) + 1 < SpendableAfter[k]
      \/ /\ tip' # tip
         /\ \E u \in ToSet(TxsOf[tip']) : KeysOf(u) \cap (SpentKeys(t) \cup Ring[t]) # {}

=============================================================================
