# A TLA+ model of the eWatts node

TLA+ specifications of the node in `src/src` (Rust), the TLC configurations that check them on
small instances, and proofs that the TLA+ proof system checks for every instance. Paths below are
relative to `src/src` unless they say otherwise.

## 1. The system

A node holds a UTXO ledger, a tree of blocks with a canonical tip, a pool of pending transactions
and three files. One task (`P2pNode::run`, p2p.rs) owns the ledger and the tree and handles one
event at a time: a block or a transaction from gossip, a batch of blocks from a synchronisation
answer, the ten-second mining tick, and every 30 seconds the saving of its state.

| component | state | operations | correct when |
|---|---|---|---|
| ledger (state.rs) | `utxos`, `spent_key_images`, `total_supply` | `apply_block_and_track`, `unwind_with_diff`, `spend_transaction_inputs`, `validate_transaction`, `genesis` | a block takes effect whole or not at all, can be taken back exactly, and spends are final; value is created by coinbases only |
| chain store (chain.rs) | `blocks` (height, accumulated work), `block_cache`, `block_diffs`, tip and its height and work, `orphans` and `orphan_order` | `add_block`, `set_chain_tip`, `add_orphan`, `resolve_orphans` (called by tests only) | the tree is closed under parents, work adds up, the orphan queue is bounded and connected in the end |
| fork choice (reorg.rs) | none of its own | `analyze_fork`, `execute_reorg` | the tip is the heaviest valid branch, the ledger its replay; a failed reorganisation leaves no trace; dropped transactions come back |
| mempool (mempool.rs) | fee-sorted vector, `key_images`, `utxo_spends` behind one mutex | `submit`, `confirm_mined`, `drain`, `peek*`, `take_for_mining` | vector and indices agree, no two pending transactions conflict, the cheapest goes first |
| event loop (p2p.rs) | `sync_complete`, `pending_compact`, peer table; libp2p's connections and duplicate cache | handlers of blocks, compact blocks, transactions, block requests and answers, connections; mining tick; saves | every block and transaction reaches the components above once and in a harmless order; connected nodes end on one chain |
| mining (main.rs) | difficulty and `recent_timestamps` of the loop | `cmd_start`, `mine_block_with_difficulty` | pending transactions end in a block; the ledger moves with the tip; the difficulty follows the pace of blocks |
| persistence (store.rs) | `blocks.jsonl`, `utxo.json`, `chain_store.json`, `BLOCK_CACHE` | `save_*`, `load_*`, `prune_blocks` | a restart gives the state of before, or an earlier one of the same chain |
| proof of work, DAG (proof.rs, dag.rs) | `DAG_CACHE` | `mine`, `verify`, `generate_with_size` | the three ways of verifying agree with each other and with the miner, whatever the cache holds |
| rewards, commitments, VR, difficulty (reward.rs, commitment.rs, vr.rs, difficulty.rs) | none | pure functions | paid and burned add up to what is emitted, within the bounds; the adjustment has the right direction |
| wallet, privacy (wallet.rs, privacy.rs) | the wallet's keys | `scan_utxos`, `create_private_tx`; stealth addresses, MLSAG, range proofs | what a wallet builds is accepted, found by the receiver and by nobody else, and spends each output under one image |

`pool.rs`, `pool_server.rs`, `bootstrap_table.rs`, `shuffle.rs`, `bip39.rs`, `simulation.rs` and
`smoke.rs` are in the tree but no `mod` declaration reaches them: they are not part of the program.

How they interact. `validate_and_apply_block` (a peer's block) verifies the proof, queues the block
if its parent is unknown, otherwise adds it to the tree and lets `analyze_fork` decide: extend the
tip, reorganise, or keep it as a side chain. `mine_and_gossip` drains the pool, builds a block over
the tip, applies it and moves the tip. `submit` reads the ledger that its caller gives it: the node its own,
the dashboard, a task beside it, the last one that was saved. Nothing tells the pool when the ledger moves.

What is hard here: blocks in any order with conflicting and invalid branches; failures in the
middle of a block or of a reorganisation; undo information that belongs to one chain and may be
missing; copies of work and height; queues and pools at their limits; transactions that two
components believe the other holds; saves that are not atomic together. `PROJECT.json` lists each
under "hazards" with its line and the properties that watch it.

## 2. Modules

Each module extends the one that it is indented under, and what is named beside it:

```
UtxoLedger                       constant-level: transactions, ledger, diff
  Mempool
  LedgerSoundness
    BlockApply                   refines AtomicLedger
      BlockApplyInvariant
  NodeChain
    NodeChainProperties
      NodeChainInvariant         and LedgerSoundness
        Shortfall
      NodePersist
        NodePersistInvariant     and NodeChainInvariant
      Node                       with an instance of Mempool
        NodeDashboard
          NodeInvariant          and Shortfall
        Relay
  Network                        two instances of Relay
    NetworkInvariant
ProofOfWork, Rewards
  Mining
    MiningInvariant
Privacy
  Wallet
    WalletInvariant
```

and the proofs, each module over the ones to its left and over the model it is about:

```
 Induction --+-- UtxoLedgerProofs --+-- BlockApplyProofs
             |                      +-- MempoolProofs
             |                      +-- NetworkProofs
             |                      +-- NodeProofs
             +-- MiningProofs
             +-- WalletProofs
```

* **UtxoLedger** has no state. Transactions and blocks are names; constant functions give what the
  code reads of them (inputs, outputs, ring, amounts, locks). A ledger is a record of the map of
  unspent outputs, the marked images and the supply. `ValidateTransaction`, `SpendChecks` and
  `CoinbaseChecks` are the checks, `RemoveInputs`, `AddOutputs`, `AddSupply` the mutations,
  `RecordInputs`, `RecordOutputs`, `RecordSupply` what the `BlockDiff` keeps of them,
  `UnwindWithDiff` the undo. `ApplyBlock` folds them over a block, failure included.
* **BlockApply** is the same loop one transaction a step: `Begin`, `ApplyTransaction`,
  `RejectTransaction` (which unwinds the partial diff), `Commit`, `Retract`. `committed` is a
  history variable: the ledgers under, between and above the applied blocks.
* **AtomicLedger** says what the rest of the node relies on: `Extend` applies a block at once with
  the effect its transactions declare, none of which double-spends, and `Retract` brings back the
  previous ledger. **BlockApplyInvariant** has the refinement mapping (`ImplementsAtomicLedger`)
  and the inductive invariant.
* **LedgerSoundness** has the relations between a ledger, a diff and the transactions confirmed in it
  (`Grounded`, its half `Rooted`, `Undoes`, `Backed`) from which the invariants of BlockApply and
  NodeChain are built. **Shortfall** has the relation (`Short`) between a ledger that has lost outputs, or
  marked images, and the replay of its chain: what restarts do to NodePersist and failed mining to Node.
* **NodeChain** is one node: the block tree, tip, orphan queue, diffs and ledger. Each handler is
  one action, as the event loop runs one at a time: `QueueOrphan`, `RejectGenesis`,
  `ExtendCanonical`, `ReorgToNew`, `Sidechain` are the outcomes of `validate_and_apply_block` and
  `MineBlock` is `mine_and_gossip`. `stored` (keys of `blocks`) and `cached` (keys of `block_cache`)
  are kept apart because the code reads sometimes one, sometimes the other.
  **NodeChainProperties** states what must hold and **NodeChainInvariant** what the proofs need on top.
* **Mempool** is `submit`, `confirm_mined` and `drain` over a ledger that moves on its own. `submit` is
  checked against the ledger that its caller gives it.
* **Node** composes NodeChain and Mempool: `Receive`, `SubmitTx` (from gossip, against the live ledger) and
  `MinePending`, which drains the pool and spends what it drained in the live ledger before the block is
  applied, as main.rs does.
* **NodeDashboard** adds the other caller of `submit`, the dashboard, which runs beside the event loop and
  checks what is posted to it against `utxo.json` (`saved`, written by `Save`). **NodeInvariant** has the
  inductive invariant of the two.
* **NodePersist** is NodeChain with its three files and with a process that starts and stops. `Stop`
  may come at any point, between the two files of a periodic save included (`SaveUtxo`,
  `SaveStore`); what is on disk stays, memory is gone, diffs and block bodies with it. `StartNode`
  is `cmd_p2p` with `load_chain_store` (`LoadStore`, `RebuildStore`) and `HaltNode` its
  `process::exit`. `refused` is a history variable: the blocks that the ledger did not take, which stay
  in the tree without a line (`WriteIfApplied`). `StartMiner`, `MinerMine` and `MinerSave` are `cmd_mine`, `cmd_start` and `cmd_simulate`, which use
  the same files between two runs of the node and know nothing of the tree. **NodePersistInvariant**
  has what holds at every moment of it, with memory or without.
* **Relay** is the event loop over Node: one action per message type (`HearBlock`, `HearCompact`,
  `HearTransaction`, `AnswerRequest`, `HandleResponse`, `ConnectionEstablished`,
  `ConnectionClosed`), `TakeNext` for the blocks of an answer, one a step, and `MineTick`. The dashboard
  is left to NodeDashboard.
  `wanted` is `pending_compact`, `inbox` the answer being handled, `heard` gossipsub's cache.
  `TakeBlock` is `accept_block`: the chain of NodeChain, the log line and the announcement.
* **Network** is two instances of Relay, A and B. B dials A once after each of its starts
  (`LinkUp`, `P2pNode::new`); nobody dials later, so that a connection that is lost (`LinkDown`) stays
  lost until B is started again (`BRestarts`, as testnet_cert.sh does). A request may fail on a connection
  that stays up (`RequestFails`): after 30 seconds without an answer, or because a message is too large for
  the codec, both ends get an event that they ignore (p2p.rs:625). A third party gossips to A and
  answers. The histories `lost` (what a node may have missed while apart), `asked` (the height of a node's
  tip when it asked for blocks) and `failed` (who asked in vain) serve the properties only.
  `FollowsNode` has Node as the abstract specification of each of the two: what Relay adds to it, the
  messages and the bookkeeping about peers, never touches chain and pool but by a step of Node.
  **NetworkInvariant** has the inductive invariant: which message goes from whom to whom and what may be
  in it.
* **Rewards** is the arithmetic of commitment.rs, reward.rs, vr.rs and difficulty.rs. An f64 is a
  fraction; where the code rounds or truncates to an integer, so does the model.
* **ProofOfWork** is the walk (`Walk`), its samples (`Trace`), `mine` (`Solves`, `SolutionOf`), the
  Merkle root of the samples and the three ways of `verify`: `WalkVerifies` without a trace,
  `SampledVerifies` with a trace and a root, `TraceVerifies` with a trace alone. Every hash that is
  computed with is a parameter; a hash that is only compared is the term it is the hash of.
* **Mining** is `cmd_start`'s loop. `log` is `blocks.jsonl`, `loaded` says whether `BLOCK_CACHE` is filled,
  `difficulty` and `recent` are the loop's variables, `cache` is `DAG_CACHE`, `made` the last block made.
  `NextHeight` is the number of blocks that `load_blocks` returns. `MineBlock` is one iteration
  with the three ways it may end (saved, not saved, refused by the ledger), `MineFails` the iteration
  whose nonces do not solve the header or whose commitment is not valid. `ProofFields` and
  `HeaderHash` are the two hashes of block.rs with exactly the fields they cover. **MiningInvariant**
  has what the proofs need of the cache and of the difficulty.
* **Privacy** is privacy.rs over a group of prime order `Q` in which a point is the multiple of the
  generator that it is. `Sign` goes round the ring from the real place, `VerifySignature` from the
  first; `ProveBits` and `VerifyRange` are the bit-wise range proof.
* **Wallet** is `scan_utxos` (`StealthKeys`, `LegacyKeys`, `Owned`), `create_private_tx` (`Pay`) and the
  ledger's verdict on the result (`Accepts`, `Confirm`, `Refuse`). Payments of several wallets are
  pending at once and are confirmed in any order, so that the rings of one lose their decoys to
  another. **WalletInvariant** has the inductive invariant: where every output, image and pending
  transaction comes from.
* **Induction** has induction and recursion over a well-founded relation in a form that the proofs can
  cite, and what follows from it for folds, sums and numbers. **UtxoLedgerProofs** has what one
  transaction and one block do to a sound ledger and its diff. **NodeProofs** has the paths of the
  tree, the replay along them, what `Ancestors`, `FindLca` and `ChainToFork` return, then the properties of
  NodeChain, then what blocks and reorganisations do to a ledger that falls short of its replay, and
  with that NodePersist and Node. **BlockApplyProofs**, **MempoolProofs**, **NetworkProofs**,
  **MiningProofs** and **WalletProofs** prove the properties of the state machines they are named for,
  WalletProofs those of Privacy besides.
* The **MC** modules give the constants their values.

Definitions named in a comment `Mutant:` are faulty variants of the definition that follows them;
nothing uses them. Substituted for it they must make TLC find the property violated
(`PROJECT.json`, "mutants").

## 3. What the runs check

Passing runs:

| run | what it shows | states |
|---|---|---|
| `block_apply` | `RollbackExact`: at every point of a block, unwinding the partial diff gives back the ledger it began with. `UndoChainExact`: the diff kept with each applied block leads to the ledger before it. `SpentExactlyOnce`: marked images and confirmed spends correspond. `ValueBacked`: whatever the transactions, the unspent outputs are worth no more than the supply and what the transactions on the chain made appear (`Gain`), which is something for three kinds of them only, that the code does not refuse: one after the coinbase that has no inputs, one that names an output twice, and a coinbase of 2^64 or more. `ImplementsAtomicLedger`: the refinement | 2 266 |
| `node_chain` | `LedgerIsReplay`: the ledger is what the canonical chain gives from the root. `UndoReady`: every canonical block has the diff of its application on this chain. `TreeSound`, `OrphanQueueSound`. `NoHeavierValidBranch`: no connected valid branch outweighs the tip. `TipMovesSoundly`: the tip moves to a child or to more work, and if it does not move nothing else does. `ResurrectsDropped`: a reorganisation names every dropped spend that is still possible | 46 200 |
| `mempool` | `IndicesExact`, `NoPendingConflict`, `FeeOrdered`, `EvictsTheCheapest` | 720 |
| `node` | `LedgerWithinReplay`: with its pool, fed by gossip and by the dashboard, and its miner the node never believes in an output or in supply that its chain does not give. `LossIsSpent`: what it lacks are outputs of spends it has marked. `DrainedIsDead`: what mining takes out of the pool and does not confirm, the ledger right after that step would refuse, unless it spends nothing, its lock has not ended, it was wrongly signed from the start, or the mined block makes an output it lacked. Nothing is said of later ledgers: a block or a reorganisation may bring back what it lacked | 23 052 |
| `node_persist` | `RestartLosesOnly`: if every start found files that belong together, a restarted node loses outputs at most (it unwinds without diffs), and its images and supply are exact. `CanonicalOnDisk`: every canonical block has its line and its body, unless it was refused first and came into the chain under a later block. `RebuildFindsTip`: before the first save of the tree the log alone gives the tip. `TreeSurvives`: `TreeSound` across stops. `HaltsOnlyRebuilding`: a start ends in `process::exit` only if it has to rebuild the tree, at the line of a peer's block that is not preceded by its parent's or at one over a block that a rebuild skips. `FreshStays`: a node without a block of height 0 in its log stays at the zero hash | 1 305 557 |
| `network` | `GapsExplained`: when two connected nodes have nothing more to tell each other, a block that one has and the other lacks has one of four causes: it came before its parent; its compact form was heard where the pool could not complete it; it was missed while apart and is no higher than the tip its node had when it asked for blocks since; it was missed while apart and what its node asked since failed. `NoneAwaitedFromGone`: no compact block is awaited from a peer that is gone. `SyncEnds`: whoever asked is synchronised in the end, unless its request failed. `FollowsNode`: what the event loop does to chain and pool are steps of Node | 305 360 |
| `mining` | `VerdictsAgree`: each way of `verify` accepts what `mine` returned, whichever samples it draws and though its DAG is generated anew, and accepts a damaged solution only if its samples are undamaged or left out and the whole walk of its nonce meets the difficulty. Damage is to the nonce or a sample and leaves the root as it was: a last sample that is forged together with the root is not covered, and sampled verification alone may take it. `EmissionAccounted`: the coinbase is what the header says, coinbase and burn are the emission to a unit, the emission keeps its floor and ceiling, the ramp-up its cap and lock. `MerkleBinds`: other transactions, another root. `ControllerDirected`: the difficulty moves by a factor of two at most, up only for an interval below the target, down only for one above it or if no interval can be used | 10 915 |
| `payments` | `BuiltIsAccepted`: a payment a wallet builds is accepted exactly if the members of its rings are unspent, its rings have two members at least and its outputs fit the range proof. `ReceiverFinds`: an output is found under the keys it was addressed to and no others. `ImagesExact`: two pending payments share an image exactly if they share an input, and no output that is still owned has a marked image. `PaymentSettles`: a confirmed payment costs its sender the amount, and nobody else anything | 5 269 |

Runs that refute what a document, comment or message says (details and quotes in `PROJECT.json`,
"findings"):

| run | what TLC finds |
|---|---|
| `node_ledger` | a drained transaction is spent in the live ledger, so the block with it fails, and the spend stays |
| `node_resume` | a stop before the next save: the start pairs the tip of the log with an older ledger |
| `network_heals` | a block gossiped while its parent is under way in a synchronisation answer stays an orphan, and the nodes never agree |
| `mined_block` | the nonce of a mined block solves the hash of the unfinished header, and the block does not verify over the `proof_hash` of the finished one |

Departures seen on the way and given no run of their own. The chain:

* A header's height is not compared with its parent's; a branch refused as too deep is not reconsidered
  when it comes within reach; the transactions a reorganisation names are logged and not given to the
  pool.
* `validate_and_apply_block` returns Ok for a queued orphan and for a block that is never applied, so
  their lines precede their parents' in `blocks.jsonl`, or have none; a rebuild takes that for
  "disk corruption" (store.rs:480) and halts. `HaltsOnlyRebuilding` says that this is one of two ways. The
  other is a block over one that a rebuild skips: the stand-alone miner's block over the zero hash with a
  height above 0, and a second one on it.
* A block that a reorganisation refuses stays in the tree and gets no line (the handler returns the
  error before `accept_block`). A later block over it that makes the branch win brings it into the
  canonical chain all the same: `blocks.jsonl` then lacks a canonical block, a restarted node lacks its
  body, and a rebuild halts at the block over it. chain.rs says of bodies that they can be loaded from
  `blocks.jsonl` on demand. `CanonicalOnDisk` has the exception, and `refused` is how it says it.
* A peer's block of height 0 over a known parent would be accepted, and a rebuild would drop the tree
  it has read and start anew at its line. The theorems on the tree of NodePersist name that as a
  hypothesis (`RootsAtZero`).
* `init` writes a ledger and no block, so the node started next has the zero hash as its tip, and its
  store drops every block it mines (`FreshStays`), where the guide in `testnet/README.md` (lines 23 and
  40 there) has a genesis block and continuous mining.
* Two coinbases of one amount to one miner are one transaction to `Transaction::hash`: a spent output
  comes back, against invariant AI-8 of the handbook. The proofs assume that it does not happen
  (`DistinctMints` in BlockApply, `FreshMints` in the tree; the same for other transactions without inputs).
* The sums of a transaction are over its list of inputs, which are all checked before any is spent, so that
  an output named twice counts twice. A coinbase's outputs are added with `sum()`, which wraps in a release
  build, so that outputs of 2^64 and more may pass the cap. A transaction after the coinbase that has no
  inputs is compared with nothing (state.rs:596) and passes with any outputs. These are the three ways in
  which value appears; `Gain` says how much, and `ValueBacked` that there is no other way and no more. The
  audit manual has "The coinbase is the only allowed money creation"
  (`docs/eWatts_Security_Audit_Manual_v1.md`, line 448), the handbook "All other transactions MUST balance"
  (`docs/eWatts_Security_Engineering_Handbook_v4.md`, line 1322).

The network:

* A request that fails is not repeated. `sync_complete` then stays unset for as long as the connection
  lasts, and a node behind a bootstrap peer does not mine; what it missed while apart it goes on lacking.

The miner:

* A block with a drained transaction always fails (`node_ledger`), so a transaction that is mined is
  lost: it is neither pending nor confirmed, and its outputs are spent. One that is still locked when
  it is drained is thrown away although it will be valid. `DrainedIsDead` has the exception, and two more
  that its proof brought out: the pool looks at the signatures of private transactions only
  (mempool.rs:77), so that one with a wrong signature comes and goes as often as it is sent; and the
  coinbase of the mined block may be one that an abandoned block made too, and bring back an output that
  a drained transaction lacked.
* The dashboard takes what the live ledger would refuse, as it asks `utxo.json`, which is up to 30 seconds
  older. A transaction that was drained in vain can come back into the pool that way and be drained again;
  `DrainedIsDead` is about each of these steps and not about what the dashboard answers.
* The loop takes the number of cached blocks for the height. Once the log has more than 10 000
  (`MAX_CACHED_BLOCKS`) the height stands still, and with it the epoch and the ramp-up, until a restart, after
  which it is right once. `NextHeight` in Mining and `Counts` in NodePersist have it.
* That the blocks of NodeChain and Network verify (`Proven`) is an assumption: by `mined_block` the
  code's own blocks verify at a peer by luck only.
* Intervals of no seconds are left out. If all are, the average is one and a half times 600 seconds, and
  a miner too fast to be measured has its difficulty halved. A failed iteration adjusts once more over
  the same timestamps. `--difficulty 0` makes no accesses, commits nothing and never mines; no later
  adjustment helps, since it takes two mined blocks.
* The first block's average commitment is `BASE_EMISSION`, an amount of Ewatt where accesses per second
  are meant, so that its emission is at the ceiling.
* A miner whose speed falls below a tenth of the median of its last blocks stalls: its commitment is
  refused at every iteration, and no block of its own lowers the median.
* The audit manual (`docs/eWatts_Security_Audit_Manual_v1.md`, lines 370 and 371) has coinbase and burn
  together equal to `emission_rate`; the header's `emission_rate` is the coinbase alone.

The wallet:

* The real place is drawn among eleven before the number of decoys is known. Where there are fewer the
  output goes to the end ("Safeguard", wallet.rs:277), and the next line reads the ring at the drawn
  place: the program ends unless it is within the ring. `Pay` has that as its guard.
* With no decoy at all the ring has one member, and the ledger refuses what the wallet built; so it
  does if an output reaches 2^32 units, the range proof having 32 bits.
* A selected legacy output ends in an error; the secret of the legacy key is not kept anyway.
* `wallet send` takes the identity for the view key of the receiver, who never finds the output.
* The pool of the command line is not the pool of a running node: each process has its own.

### Bounds

* `block_apply`: four well-formed spends and one that overspends, every ordered choice of up to two
  of them in each of up to three blocks; and three transactions that make value appear: one without
  inputs, one that names an output twice, after a spend of another, and a coinbase that wraps (`U64` is 24).
  Two suffice for a chain of spends inside a block, a
  conflict, a ring decoy spent before its user, and a failure after a success; three blocks for a
  lock that expires and for taking back more than one block.
* `node_chain`: twelve blocks with, each at least once, a child of the tip, a heavier branch, a
  lighter one, a heavy branch that is invalid at its first or a later block, a block on an invalid
  block, a second genesis and a child of it, an orphan queue (of 2) that overflows, own blocks on
  two branches. `MaxReorg` is 3, above every depth, so that `NoHeavierValidBranch` is not weakened
  by the limit.
* `mempool`: a pool of three (`MaxPending`) for seven spends with shared outputs, shared images and
  equal fees.
* `node`: two rival blocks of peers that confirm different spends, a successor, every block the miner
  can make of the three spends on each of them, an output that is locked until height 2, a fourth
  spend, of that output, with a wrong signature, and a transaction without inputs. Each may be submitted by
  gossip, against the ledger, or to the dashboard, against the ledger that was saved last.
* `node_persist`: a tree on which the canonical chain can change sides twice (a1, b1, a2, b2), a
  second genesis and a peer's block over it, own blocks over a1 and over nothing; the log begins with
  the root or empty (`FirstLogs`). `MaxLog` is 5, the root and four lines, enough for two
  reorganisations, an orphan before its parent and a repeated line; three lines (`MaxFresh`) for a log
  that began empty, on which nothing becomes canonical. `MaxStops` is 2, so that a node started from
  files that a restarted one wrote stops again. `MaxCached` is 2 (10 000 in the code), fewer than the lines.
* `network`: one block for each miner, A's over the root and B's over Outside's; from Outside either a
  transaction and the compact block that needs it, or a block over A's (which may come before its
  parent), or the compact form of that block from a peer that cannot serve it. The two branches
  compete at both nodes. `MaxStarts` is 2: a connection, a separation and the connection after a
  restart; this one lasts, or nothing would make the nodes agree. B is stopped after a save (what a
  stop before the save does is NodePersist's subject). `Window` is the code's 100, above every
  height, `Refuses` lets any connection be over the budget, and any request may fail.
* `network_heals`: A makes two blocks and B, which lacks the parent of its own, none; Outside is silent,
  no connection is over the budget, and B starts once. The failure needs no more, and no failed request.
* `mining`: four blocks (`MaxBlocks`), two of them in the ramp-up and two to an epoch, windows of two
  blocks and two timestamps, so that each of them fills and drops its oldest, and a cache of two blocks
  (`MaxCached`), so that the height stands still and a restart moves it. Difficulties are 0, 2
  and what the adjustment makes of them up to 8 (`MaxDifficulty`), walks of 0 to 20 accesses with no
  sample, two or three. The next timestamp is 0, 1 or 4 seconds on: none, below the target and above it;
  an interval too long to count does not occur. Walks take no time, little or much, which gives every
  case of the commitment.
  Hashes are numbers below 16 that collide, so that a damaged sample may pass for a sound one.
* `payments`: rings of three and proofs of three bits, so that 8 units are what 2^32 are to the code.
  Two wallets, one with two keys; the ledger begins with three stealth outputs and a legacy one, or
  with two stealth outputs, or with one. Two payments, to another wallet, to an address without a view
  key and to the payer. Inputs of one and two outputs, rings broken by the other payment, rings of one
  and of two, amounts beyond the proof and two payments of one output all occur. The group has 5003
  elements and what is random is fixed, so that hashes do not collide by accident.

Every run but `block_apply` and `mempool` allows deadlock: the supply of blocks, lines, stops,
connections and payments is finite, and a system that has seen all of them has nothing left to do.

### Fairness

Only `network_heals` has a liveness property, under `FairNetSpec`: the event loops run for ever
(`P2pNode::run` is a loop whose handlers return), messages arrive as long as their connection lasts
(libp2p streams are reliable) unless their request fails, and B's dial succeeds (`LinkUp`), A being up.
Nobody has to mine or to restart. For the event loops `NetFairness` says that each has nothing left to do again and again (`Busy`).
That is their weak fairness: a node with a message or an unfinished answer can always step, since
each handler has a disjunct for what it refuses, and a behaviour has finitely many messages, since
blocks, scripts and starts are finite and nothing is published twice. TLC need not evaluate ENABLED
of the whole event loop.

## 4. What is proved

Every theorem holds for every value of the constants that satisfies the assumptions below: any number
of blocks, transactions, keys, stops, any shape of the tree, any order of arrival.

| module | theorem | property |
|---|---|---|
| BlockApplyProofs | `TypeCorrectness`, `RollbackIsExact`, `UndoChainIsExact`, `SpendingIsFinal`, `ValueIsBacked`, `Atomicity` | all of the run `block_apply`: `TypeOK`, `RollbackExact`, `UndoChainExact`, `SpentExactlyOnce`, `ValueBacked`, `ImplementsAtomicLedger` |
| MempoolProofs | `TypeCorrectness`, `IndicesAreExact`, `PendingIsCompatible`, `VectorIsSorted`, `OnlyTheCheapestLeave` | all of the run `mempool` |
| NodeProofs, the chain | `TypeCorrectness`, `LedgerIsTheReplay`, `EveryBlockCanBeTakenBack`, `TreeIsSound`, `OrphanQueueIsSound`, `TheTipMovesSoundly`, `TheHeaviestValidBranchWins`, `DroppedSpendsComeBack` | all of the run `node_chain` |
| NodeProofs, the files | `PersistentTypes`, `ARestartLosesOnly`, `TheTreeSurvives`, `TheChainIsOnDisk`, `ARebuildFindsTheTip`, `AHaltIsExplained`, `AFreshNodeStays` | all of the run `node_persist`, and the types |
| NodeProofs, the pool | `NodeInvariantHolds`, `TheLedgerIsWithinTheReplay`, `WhatIsLostIsSpent`, `NothingGoodIsDrained` | all of the run `node`, and the inductive invariant |
| NetworkProofs | `NetInvariant`, `NeverAwaitedFromGone`, `SynchronisationEnds`, `NetworkOfNodes` | `NoneAwaitedFromGone`, `SyncEnds` and `FollowsNode` of the run `network`, and the inductive invariant |
| MiningProofs | `MerkleBinding`, `MiningInvariant`, `VerdictsAreOne`, `EmissionIsAccounted`, `MerkleRootBinds`, `ControllerIsDirected` | all of the run `mining`: `VerdictsAgree`, `EmissionAccounted`, `MerkleBinds`, `ControllerDirected`; and the inductive invariant |
| WalletProofs, the primitives | `SignatureVerifies`, `RangeVerifies` | what `Sign` and `ProveWithBlinding` make is what `VerifySignature` and `VerifyRange` accept |
| WalletProofs, the wallet | `WalletIsSound`, `PaymentsAreAccepted`, `OutputsAreFound`, `ImagesTellSpends`, `PaymentsSettle` | all of the run `payments`: `BuiltIsAccepted`, `ReceiverFinds`, `ImagesExact`, `PaymentSettles`; and the inductive invariant |

### The ledger (BlockApply)

`RollbackExact` is not inductive. That unwinding works after one more transaction depends on that
transaction's outputs not existing yet, or the undo would delete an older entry, and that on hashes
never repeating among confirmed transactions. The invariant `IInv` therefore has:

* `Grounded(ledger, Confirmed)`: every unspent output is of a confirmed transaction, the marked
  images are exactly those of the confirmed ones, and every input of these is spent. A transaction
  whose images are unmarked is hence not confirmed, so its outputs are new; a coinbase is new
  because its height is (`HeightsOK`, `DistinctMints`).
* `Undoes(diff, ledger, S)`: besides unwinding to `S`, whatever the diff holds as consumed and not
  created is gone from the ledger, and its supply does not exceed the ledger's. The first keeps an
  entry from being recorded twice, the second keeps the saturating subtraction exact.
* the same two for the committed ledgers, so that `Commit` and `Retract` preserve them.

`ValueBacked` adds `LedgersBacked`: a sum over the unspent outputs, which only finitely many entries of
the map are, against a sum over the places of the chain's blocks at which transactions were confirmed. Each
transaction moves the first sum by its outputs less the outputs it takes away (UtxoLedgerProofs, by adding
one element at a time) and adds its place, which is new because heights are, to the second. If it spends
something and names each output once, that is what `ValidateTransaction` compares, and its gain is nothing;
otherwise the gain is the difference; a coinbase adds to the supply all but its gain. Of each committed
ledger it is said for the blocks under it. `InFlightEffect` adds, for the refinement, that the ledger in flight is
`AtomicLedger`'s effect of the transactions so far. There is one lemma per action.

### The pool (Mempool)

`TypeOK`, `IndicesExact`, `NoPendingConflict` and `FeeOrdered` are inductive together and not one by
one: the two indices can lose exactly the entries of a transaction that leaves only if no other pending
transaction shares them, and what `swap_remove` and the insertion do to the vector is a statement about
its order. `EvictsTheCheapest` follows from it for each step.

### The tree (NodeChain)

The inductive invariant is `TypeOK`, `CacheIsTree`, `TreeSound`, `OrphanQueueSound`, `OrphansOnce`,
`LedgerIsReplay` and `DiffsOfReplay` (the diff of a canonical block is the one that the replay has for
it). The argument goes in four steps.

1. The replay is sound at every block: by induction up the tree (`ClimbInduction`), the ledger of
   `ReplayOf[h]` is `Grounded` on the transactions of the chain of h, and its diff `Undoes` the block.
2. What `find_lca` returns is on both paths, and what `get_chain_to_fork` returns for each side is that
   side's descent to it. These are recursive functions over the tree.
3. Unwinding a descent and applying an ascent are folds. `UnwindByPrefix` and `ApplyByPrefix` give each
   fold as the sequence of its intermediate ledgers, so that step 1 applies block by block: the unwind
   goes through the replays down to the fork, the application up to the new tip or to the first block
   that fails.
4. One lemma per handler (`Effect`) puts the two together; the failing reorganisation restores what it
   had.

`NoHeavierValidBranch` is an invariant of the whole: a heavier block is compared when it arrives, and
once refused its branch does not replay. It needs that no branch is longer than `MAX_REORG_DEPTH`
(`WithinReorg`, a hypothesis of that one theorem), as section 3 says.

### The files (NodePersist)

Memory may now be empty, diffs and bodies may be missing, and the ledger may be another chain's. The
invariant (`PersistInvariant`, checked by TLC on the instance of `node_persist` before it was proved) is
in four parts.

* `PersistTypes`.
* `LedgerWithin`: as long as every start has found files that belong together, the ledger is within the
  replay of the tip (outputs may be missing, images and supply are those of the replay), and a diff that
  is there is the replay's. A block that applies to a ledger within the replay applies to the replay
  and ends within it; unwinding it with its diff or with the legacy one does too; and a whole
  reorganisation by the prefixes of its folds (with no image marked besides).
* `TreesSound`: the tree in memory and the one in the file are closed under parents with the work of their
  branches, their tips have lines, and the canonical chain's blocks have lines unless they were refused;
  lines of height 0 come first and own blocks' after their parents'.
* `RebuildBelowTip`: until the tree is saved, what a rebuild would know of the log is in the tree with the
  same work, no heavier than the tip, and as heavy only from the tip's line on. The rebuild is a fold
  over the log; `ReadAppend` says what one more line adds to it, and `KnownMeetsTip` that a block over a
  known one always meets the canonical chain, so that a heavier one is never a side chain.

`HaltsOnlyRebuilding` follows at each halt from `TreesSound`: if the fold over the log fails it does so at
a line (`Stuck`), and up to that line it has read every block but those over the zero hash (`ReadAll`).

### The node with its pool (Node)

Mining with a drained transaction spends it in the ledger and then fails, so that the ledger is not
the replay any more (`node_ledger`), and every later block and reorganisation begins on such a ledger.
`LedgerWithinReplay` alone is not inductive: a missing output might be one that an undo restores, and
a diff might be of the wrong ledger. The invariant (`NInv`, checked by TLC on the instance of `node`
before it was proved) says that for some set X of images the ledger is the replay of the tip but that X
is marked in it besides and that outputs are missing which transactions with images in X spend, and
that every canonical block has the diff of the replay.

* A block that applies to such a ledger applies to the replay, is recorded alike and leaves the same
  shortfall; undone with its diff it does too. One that fails half-way is taken back exactly, for
  which `Rooted` (outputs and images are of confirmed transactions, or spent) is enough. A block may
  fail here and apply to the replay; nothing is claimed of `NoHeavierValidBranch`.
* The images that a reorganisation takes back are those of the replay, never of X, as the two are
  disjoint; so what X accounts for stays lost.
* `Include` is a fold over the drained transactions whose prefixes add the images of one transaction
  after the other to X.
* `DrainedIsDead`: after the fold each drained transaction that spends something is `Settled`: its images are
  marked, or it was refused for a reason that the later spends keep (`Worthless`: an input or a decoy
  missing, an image marked, a lock). The block that follows can only take such a reason away by making the
  missing output. How the transaction came into the pool does not matter: against the ledger that the node
  had, or against any that it saved. The property is about the ledger that the step leaves.

### The network

`NetInv` was checked by TLC on the instance of `network` before it was proved. `NoneAwaitedFromGone` and
`SyncEnds` are statements about an absence, of an entry and of a message, and neither is inductive.

* An entry of `pending_compact` names the peer that forwarded the block. That it is A's needs that B hears
  from A only (`Routed`); that it is gone after the disconnection needs that nothing of A's is under way
  by then but the news of it (`ConnectionSound`), since a compact block handled afterwards would be
  awaited from a peer that is gone and never be cleaned up.
* `SyncEnds` is what is left of `AnswerComes` when nothing is under way: whenever B has asked, its request
  has not failed and B is not synchronised, the request, an answer to it or the rest of an answer is there.
  Each handler passes it on, and the step in which a request fails makes the exception (`RequestFailsKeeps`);
  that an empty answer ends synchronisation too is what the run's mutant takes away.
* `BlocksExist` and `MessageTyped`: every line, every block of an answer and everything gossiped is a block
  that exists, where a miner's own exists once it is made. So a block of its own that a node receives is
  one it has, which is what `Arrives` of NodeChain takes for granted.

`NetworkOfNodes` is a refinement: every step of the network is a step of Node at one node, a restart of
B, or a stutter. It needs the invariant for what Node says of its inputs: own blocks come back from the
network only after they were made, and a transaction from gossip is one that may be submitted
(`OutsideAssumption` for the third party, `Gossiped` for the nodes).

### The miner

The invariant (`MInv`, checked by TLC on the instance of `mining` first) is `TypeOK` with two parts.
`CacheSound`: the cached DAG is what is generated for the epoch and size it is kept under. `Paced`: once a
block has been made the difficulty is at least 1. A miner may begin at 0, but a walk of no accesses commits
nothing and its commitment is refused, so that no block comes of it; and the controller never leads to 0.
What a block of the miner is worth is `MadeIsSound`, proved of `MineBlock` and kept by everything else.

* `VerdictsAgree`. The walk, its samples and the resumption after one of them are folds that repeat an
  access; `WalkGoesOn` and `WalksMeet` say that to walk on from a sample, or from the last one to the end,
  is the rest of the whole walk, whatever the length is and however the interval of the samples divides it.
  So `mine`'s solution verifies in every form (`FoundVerifies`). In the other direction the root binds
  the samples (`TracesBind`), so that a solution that is damaged in a sample fails, and one that is
  damaged in its nonce passes only on its own walk (`DamageShape`, `DamageMisses`). The damaged copy keeps
  its root; samples forged with a root of their own are no subject of the property.
* `MerkleBinds`. An odd hash is paired with itself, so that lists of different lengths could share a root
  (a list of three and that list with its last leaf repeated do). `MerkleBinding` goes by levels: two
  lists of one length are equal if the level above is (`NextLevelBinds`); of two lengths, the shorter
  reaches its root at a lower level than the other, and the left-most hashes under the two roots then
  lead down to a leaf in one list and to a pair in the other (`LevelsApart`). It needs that the leaves of
  the longer list differ (`MiningAssumption`) and that the first of the
  shorter is no hash of two: it is the coinbase of the block.
* `EmissionAccounted`. An f64 is a fraction in lowest terms, and `Denotes` relates one to a pair of
  naturals whatever their divisors; there is one lemma for each operation and for each rounding. Then the
  bounds are inequalities of naturals: a commitment that is accepted is worth between floor and
  ceiling, truncating what is paid and rounding the emission lose a unit at most, and the cap leaves a
  block of the ramp-up at most its percentage.
* `ControllerDirected`. `Smallest` takes the least that enough intervals do not exceed; it is the least of
  a set of naturals that is not empty, and an interval. The mean of the trimmed intervals is then between
  the least and the greatest of them (`MedianMean`, `AverageTime`), and the clamped quotient is
  on the same side of one as that mean is of the target (`AdjustedDirected`).

### The wallet

First the primitives, from the arithmetic of residues. A sum of residues may be reduced at each step or in
the end (`ModOfSum`, `ModOfProduct`, `TotalAlike`), so that the response at the real place, `alpha` less
the challenge times the secret, gives the two points that `alpha` alone gives (`RealCloses`): the challenge
that `Sign` began with. `Sign` goes round from the real place and `VerifySignature` from the first; both
follow `NextChallenge` (`ChallengesFollow`, `AroundComes`), and where they are at the same place they have
the same challenge, so that the last is the first again (`SignatureReturns`). A ring of one member closes
too and is refused for its length alone, which is why `SignatureVerifies` is an equivalence. For
`RangeVerifies` the bits of a number add up to its residue by 2^n (`OneRemainder`, `BitsAdd`); multiples of
`H`, a generator, differ if their factors do (`CommitmentBinds`), so that a number of more bits has another
commitment than the proof. Each bit is signed in the ring of its commitment, at the place of the bit
(`BitSigner`).

The invariant `WInv` (checked by TLC on the instance of `payments` before it was proved) has three parts.

* `LedgerSound`: an output with a point was derived for its address from what was drawn for its place, and
  the money there is less than the order of the group. A wallet draws anew for every transaction, so
  places are never used twice (`Past`, `PastGrows`).
* `ImagesSound`: what is marked is the image of an output that is gone.
* `PendingSound` of each pending transaction: each of its inputs is in its ring, belongs to its sender and has
  its image for as long as it is unspent; payment and change are the money of the inputs; and the signature
  holds while the rings are intact. `PairSound` of each two: an input that they share has one image. These
  are statements about a ledger that goes on moving after the transaction was built. They are kept since
  outputs only go, or come at new places (`OnlyFresh`, `PendingKept`); a signature is over the keys of the
  ring's members and those do not change (`RingKept`).

`BuiltIsAccepted` follows from the invariant alone: if the rings are intact the inputs are there, so
their images are not marked (`NotMarked`), and no amount exceeds the money there is, so that `RangeVerifies`
applies (`OutputProved`). `PaymentSettles` is a statement about sums over what a wallet owns
(`BalanceMoves`): all that goes is the sender's, and the change is found again (`Owners`).

### Assumptions

Each is named where it is declared, and TLC evaluates it on every run of a module that extends it:

* `InputAssumption`: a transaction does not spend two outputs under one image, as `cmd_send` and the wallet
  build it. The code checks it nowhere (see the hazards). It may name one output more than once.
* `DistinctMints` (BlockApply) and `FreshMints` (the tree): the coinbase of a block, and any other of its
  transactions without inputs, is not a transaction of the chain below it, and comes in it once. Section 3
  says what happens otherwise.
* `ChainAssumption`: in BlockApply heights follow the parents, as blocks made by `mine_block` do. The
  tree's theorems do not assume it.
* `AcyclicAssumption`: no set of blocks is closed under parents, since a header contains its parent's
  hash.
* `OutsideAssumption` (Network): the two miners make different blocks, since a coinbase names its miner,
  and the third party has and gossips blocks that are not theirs, or transactions of `Submitted`. A
  block is gossiped by others only after its miner has made it.
* `RewardsAssumption`: the floor of an emission is at most what it is a floor of and the ceiling at least
  that (5 % and 2000 % in constants.rs), the cap of the ramp-up is a percentage (80), the thresholds of
  efficiency are on both sides of one (70 % and 130 %), and a percent of an Ewatt is a whole number of
  units (`UNITS_PER_EWATT` is 1 000 000), and so are floor and ceiling.
* `MiningAssumption`: the loop's target is no longer than the one that a window without usable intervals
  is taken for (`TESTNET_BLOCK_TIME` is 60, `TARGET_BLOCK_TIME_SECS` 600); the clock is not set
  back between two blocks; the DAG has an element; and no transaction is in a block twice, as the second would
  spend what is spent. `ProofOfWorkAssumption`: the numbers that lengths and samples are made of are not 0.
* `PrivacyAssumption`: the order of the group is at least 2, `pedersen_h` has an inverse, as every point but
  the neutral one has in a group of prime order (no more is used of the order being prime), and keys are
  hashed to points and to scalars. Nothing is assumed of the challenge: that nobody else can make a
  signature is no subject of these proofs.
* `WalletAssumption`: types; and all the money there may be is less than the order of the group, an amount
  having 64 bits and the order of the code's group 253.
* `FreshAssumption`: the idealisation of the hashes. A key does not recover an output that was derived
  for another address, two outputs of the wallets do not have one image, and two wallets do not have a
  key in common. It is stated for the places and addresses that occur, not for all points, of which it
  would be false. `WInv` and what follows from it rest on it (an output that a wallet owns is to its own
  address); `SignatureVerifies` and `RangeVerifies` do not.
* `TransactionAssumption`, `BlockAssumption`, `TreeAssumption`, `MempoolAssumption`, `NodeAssumption`,
  `PersistAssumption`: types, an amount is below 2^64 (`U64`), `NoFile` is not a saved tree.

Hypotheses of single theorems, all of which the instance of the run satisfies: `WithinReorg` (above);
`RootsAtZero`, only a block over the zero hash has height 0 (section 3); `HeadersWeigh`,
`compute_block_work` being 0 for a target of 0 only; in `AHaltIsExplained`, that every block passes
`validate_block_integrity`.

### What is only model-checked

* `GapsExplained` (Network). That each gap has one of four causes depends on everything that has been
  sent, heard, evicted and refused at both nodes since they met: an invariant of the histories of two
  block trees at once.
* Liveness (`Heals`) and whatever speaks of ENABLED, which are out of the prover's reach; it fails here in
  any case (`network_heals`).

## 5. What is abstracted or left out

* In the chain modules hashes are names: equal names, equal hashes. Signatures, ring signatures, range
  proofs and proofs of work verify or not by membership in a constant set; Wallet and Mining are where
  they are computed.
* Mining: the f64 are exact fractions; a miner's signature over its commitment holds; the previous
  block's hash stands by its height; the transactions of a block are any of a few lists, and the
  ledger's verdict on the block is free. The 50000 nonces of an iteration are one that is tried.
* Wallet: the outputs are selected and decoys placed in any order, as a hash map and a shuffle give
  them; the order among the decoys is fixed. Stealth outputs have no lock. Legacy outputs cannot be
  spent here (UtxoLedger spends them). `prove_with_exact_blinding` is not used by any command.
* Amounts are naturals below `U64`. The sums of a transaction are checked against it and the coinbase's
  wraps at it, as in the code. The supply does not saturate (state.rs:227): coinbases are capped, and it stays
  far below 2^64.
* The dashboard submits between two events of the loop, and so does the save. In the code a submission may
  come between the draining and the confirmation of one mining step; the pool then has what it would have if
  the submission had come before or after, but for what that block confirms. Network leaves the dashboard
  out.
* The root block of a store is the genesis block that a rebuild finds in the log; a node with an
  empty log, as `init` leaves it, is NodePersist with the first log `<<>>`.
* A write of a file happens or does not; one that fails or is cut short is not modelled. Diffs and
  bodies are not on disk. The root's own ledger is `GenesisLedger`.
* The stand-alone miner saves its ledger whenever it likes; `cmd_mine` and `cmd_start` do after each
  block, `cmd_simulate` at checkpoints and at the end.
* libp2p is modelled as the code uses it: the duplicate cache never expires, what is published with no
  peer connected is lost, messages under way may overtake each other and equal ones are one, and two
  nodes have one connection (`num_established` is then 0 or 1). A restarted node has the name it had
  (the code draws a new peer id, and A notices the end of the old connection before the new one). Both nodes start from the same root. `RequestFullBlock` and its
  answer are left out, since no node sends them; so are the peer table, which steers nothing, and the
  token arithmetic (`Refuses` stands for its outcome). Miners in Network make blocks of a coinbase
  only.
* A peer's duplicate or unproven block changes nothing and is a stuttering step.
* Among equal fees the code orders by hash, which `swap_remove` does not preserve: the position is a
  nondeterministic choice among those with the right fees.

Not modelled: the hash functions and the content of the DAG (parameters), the growth of the DAG by
epoch (`Dag::generate`, which no command calls), `compute_block_rewards` and `estimate_settlement`
(tests only), the wallet's key file and mnemonic (input, output and a word list), `cmd_send`, the
other pages of the dashboard and the other commands that read and print, and the files that are not compiled.

## 6. Plan

Done, in this order: the ledger with its proofs, NodeChain, Mempool, Node, NodePersist, Relay and
Network; Rewards, ProofOfWork and Mining; Privacy and Wallet; the proofs of Mempool, NodeChain,
NodePersist, Node, Network, Mining, Privacy and Wallet. To come:

1. For Network, the invariant behind `GapsExplained`.
2. The peer table and the token buckets of p2p.rs.
