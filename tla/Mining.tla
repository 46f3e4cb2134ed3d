-------------------------------- MODULE Mining --------------------------------
(***************************************************************************)
(* The standalone miner: the loop of cmd_start around                      *)
(* mine_block_with_difficulty (src/src/main.rs), over the DAG cache        *)
(* (dag.rs), the walk (proof.rs) and the rewards (commitment.rs,           *)
(* reward.rs, vr.rs, difficulty.rs).  The ledger the block is applied to   *)
(* and the pool it is filled from are those of Node: here the application  *)
(* may fail, and the pool may yield any of the Bodies.                     *)
(***************************************************************************)
EXTENDS ProofOfWork, Rewards

CONSTANTS
  InitialDifficulties,  \* what --difficulty may say
  LoopTarget,           \* TESTNET_BLOCK_TIME
  DifficultyWindow,     \* DIFFICULTY_WINDOW_BLOCKS
  CommitWindow,         \* COMMIT_WINDOW_BLOCKS
  EpochBlocks,          \* DAG_EPOCH_BLOCKS
  DagSize,              \* TESTNET_DAG_SIZE
  LockBlocks,           \* FOUNDER_LOCK_BLOCKS
  LockAdditional,       \* FOUNDER_LOCK_ADDITIONAL
  Nonces, Millis,       \* nonces tried, and how long the walk may take
  Gaps,                 \* seconds from the last timestamp to the next
  Bodies,               \* what a block may hold after its coinbase
  MaxCached,            \* MAX_CACHED_BLOCKS
  NoDag, NoBlock,
  MaxBlocks, MaxDifficulty  \* bounds of the model

\* The miner's target is no longer than the one that a window without a usable
\* interval is taken for, and the cache of blocks holds the window of commitments
\* (constants.rs, store.rs).  No transaction is in a block twice: the
\* second would spend what is spent.
ASSUME MiningAssumption ==
  /\ Nonces \subseteq Nat /\ Millis \subseteq Nat /\ Gaps \subseteq Nat
  /\ MaxDifficulty \in Nat /\ InitialDifficulties \subseteq 0..MaxDifficulty
  /\ DifficultyWindow \in Nat \ {0} /\ CommitWindow \in Nat \ {0}
  /\ MaxCached \in Nat /\ MaxCached >= CommitWindow
  /\ LoopTarget \in 1..TargetBlockTime /\ EpochBlocks \in Nat \ {0}
  /\ DagSize \in Nat /\ DagSize \div 64 > 0
  /\ LockBlocks \in Nat /\ LockAdditional \in Nat
  /\ \A body \in Bodies : body \in Seq(ToSet(body)) /\ IsInjective(body)

VARIABLES
  log,         \* blocks.jsonl: what later blocks read of it
  loaded,      \* whether BLOCK_CACHE is filled
  difficulty,  \* of the loop
  recent,      \* recent_timestamps
  cache,       \* DAG_CACHE
  made         \* the last block mine_block_with_difficulty made

vars == <<log, loaded, difficulty, recent, cache, made>>

Init ==
  /\ log = <<>>
  /\ loaded = FALSE
  /\ difficulty \in InitialDifficulties
  /\ recent = <<>>
  /\ cache = NoDag
  /\ made = NoBlock

-----------------------------------------------------------------------------
(* The DAG                                                                 *)

\* Mutant: the cache is keyed by the size alone.
DagOfSize(epoch, size) ==
  IF cache # NoDag /\ cache.size = size
  THEN cache ELSE [epoch |-> epoch, size |-> size, elements |-> Generate(epoch, size)]

\* generate_with_size: the cached DAG if it is of the epoch and the size.
DagOf(epoch, size) ==
  IF cache # NoDag /\ cache.epoch = epoch /\ cache.size = size
  THEN cache ELSE [epoch |-> epoch, size |-> size, elements |-> Generate(epoch, size)]

-----------------------------------------------------------------------------
(* The header                                                              *)

\* The height of the next block is the number of blocks that load_blocks returns:
\* all of them the first time, then those of the cache, which is cut to MaxCached.
NextHeight == IF loaded /\ Len(log) > MaxCached THEN MaxCached ELSE Len(log)

\* The header to mine: what is known after mining is zero.  The hash of the
\* previous block stands by its place in the log.
Unmined(timestamp, target) ==
  [previous |-> Len(log), merkle |-> EmptyRoot, timestamp |-> timestamp,
   epoch |-> NextHeight \div EpochBlocks, height |-> NextHeight, difficulty |-> target,
   committed |-> 0, emission |-> 0, minerCommitted |-> 0, vr |-> 0, burn |-> 0,
   nonce |-> 0, elapsed |-> 0, root |-> NoRoot]

\* What proof_hash covers.
ProofFields(h) ==
  <<h.previous, h.merkle, h.timestamp, h.height, h.epoch, h.difficulty, h.committed,
    h.emission, h.minerCommitted, h.vr, h.burn>>

ProofHash(h) == <<"proof", ProofFields(h)>>

\* hash covers the nonce, the time and the root besides, the root if there is one.
HeaderHash(h) ==
  <<"header", ProofFields(h) \o <<h.nonce, h.elapsed>>
              \o (IF h.root = NoRoot THEN <<>> ELSE <<h.root>>)>>

-----------------------------------------------------------------------------
(* What the miner commits and is paid                                      *)

\* WorkReport::from_solution: accesses per second, none if it took no time.
Aops(length, ms) == IF ms = 0 THEN Frac(0) ELSE Ratio(length * 1000, ms)

Declared(length, ms) == Larger(Aops(length, ms), Frac(MinCommit))

EfficiencyOf(length, ms) ==
  Efficiency(Frac(length), Declared(length, ms), Ratio(IF ms = 0 THEN 1 ELSE ms, 1000))

Committed(length, ms) ==
  EffectiveCommitment(Declared(length, ms), EfficiencyOf(length, ms))

\* The last blocks of the log.
Window == SubSeq(log, IF Len(log) > CommitWindow THEN Len(log) - CommitWindow + 1 ELSE 1,
                 Len(log))

\* avg_hist: without a block it is BASE_EMISSION, an amount of Ewatt.
AverageCommitted ==
  IF Window = <<>> THEN Frac(BaseEmission)
  ELSE Ratio(FoldLeft(LAMBDA sum, b : sum + b.committed, 0, Window), Len(Window))

CommitmentAccepted(length, ms) ==
  ValidCommitment(Declared(length, ms), EfficiencyOf(length, ms),
                  [n \in 1..Len(Window) |-> Window[n].declared])

\* founder_lock_block.
FounderLock(height) ==
  LET after == height + LockAdditional
  IN  IF height >= RampUpBlocks THEN 0
      ELSE IF LockBlocks > after THEN LockBlocks ELSE after

TxHash(t) == <<"tx", t>>
CoinbaseHash(c) == <<"coinbase", c>>

\* The root over the hashes of a block's transactions, the coinbase first.
BodyRoot(coinbase, body) ==
  MerkleRoot(<<CoinbaseHash(coinbase)>> \o [n \in 1..Len(body) |-> TxHash(body[n])])

\* The block of a solution; what it was solved for and the emission before the
\* cap are kept for the properties.
BlockOf(unmined, sol, ms, body) ==
  LET ce       == Committed(sol.length, ms)
      emitted  == EmissionRate(ce, AverageCommitted)
      paid     == RampUpCap(unmined.height, emitted)
      coinbase == [amount |-> ToUnits(paid.reward),
                   spendableAfter |-> FounderLock(unmined.height)]
      header   == [unmined EXCEPT
                     !.nonce = sol.nonce, !.elapsed = ms, !.root = sol.root,
                     !.minerCommitted = Truncate(ce), !.committed = Truncate(ce),
                     !.emission = ToUnits(paid.reward), !.burn = ToUnits(paid.burned),
                     !.vr = Vr(ce, paid.reward), !.merkle = BodyRoot(coinbase, body)]
  IN  [header |-> header, proofHash |-> ProofHash(header), solution |-> sol,
       solved |-> HeaderHash(unmined), coinbase |-> coinbase, body |-> body,
       emitted |-> emitted, declared |-> Declared(sol.length, ms)]

-----------------------------------------------------------------------------
(* The loop                                                                *)

\* The difficulty of an iteration: adjusted whenever two timestamps are there,
\* whether or not the last iteration added one.
Adjusted ==
  LET average == Larger(AverageBlockTime(recent), Frac(1))
  IN  IF Len(recent) < 2 THEN difficulty
      ELSE AdjustDifficulty(difficulty, Over(average, Frac(LoopTarget)), Frac(1))

LastTimestamp == IF log = <<>> THEN 0 ELSE log[Len(log)].timestamp

Push(timestamps, t) ==
  IF Len(timestamps) < DifficultyWindow THEN Append(timestamps, t)
  ELSE Append(Tail(timestamps), t)

Logged(b) == [timestamp |-> b.header.timestamp, committed |-> b.header.committed,
              declared |-> b.declared]

Within == Len(log) < MaxBlocks /\ Adjusted <= MaxDifficulty

\* What an iteration starts with, and a walk from the header it mines.
Begin ==
  /\ Within
  /\ difficulty' = Adjusted
  /\ cache' = DagOf(NextHeight \div EpochBlocks, DagSize)
  /\ loaded' = TRUE

Solved(unmined, nonce) ==
  Solves(HeaderHash(unmined), unmined.difficulty,
         DagOf(unmined.epoch, DagSize).elements, nonce)

\* The nonces tried do not solve it, or the commitment is not valid: the error
\* is shown and the loop goes on.
MineFails(gap, nonce, ms) ==
  /\ Begin
  /\ LET unmined == Unmined(LastTimestamp + gap, Adjusted)
     IN  Solved(unmined, nonce) => ~CommitmentAccepted(Accesses(Adjusted), ms)
  /\ UNCHANGED <<log, recent, made>>

\* The block is made and saved; or it is not saved: then neither the log nor the
\* timestamps know it; or the ledger refuses it, which is an error like the others.
MineBlock(gap, nonce, ms, body, outcome) ==
  LET unmined == Unmined(LastTimestamp + gap, Adjusted)
      sol     == SolutionOf(HeaderHash(unmined), Adjusted,
                            DagOf(unmined.epoch, DagSize).elements, nonce)
      block   == BlockOf(unmined, sol, ms, body)
  IN  /\ Begin
      /\ Solved(unmined, nonce)
      /\ CommitmentAccepted(Accesses(Adjusted), ms)
      /\ \/ /\ outcome = "saved"
            /\ made' = block
            /\ log' = Append(log, Logged(block))
            /\ recent' = Push(recent, unmined.timestamp)
         \/ outcome = "unsaved" /\ made' = block /\ UNCHANGED <<log, recent>>
         \/ outcome = "refused" /\ UNCHANGED <<log, recent, made>>

\* The process starts anew over the blocks on disk.
Restart ==
  /\ difficulty' \in InitialDifficulties
  /\ recent' = <<>> /\ cache' = NoDag /\ made' = NoBlock /\ loaded' = FALSE
  /\ UNCHANGED log

Next ==
  \/ \E gap \in Gaps, nonce \in Nonces, ms \in Millis : MineFails(gap, nonce, ms)
  \/ \E gap \in Gaps, nonce \in Nonces, ms \in Millis, body \in Bodies,
        outcome \in {"saved", "unsaved", "refused"} :
       MineBlock(gap, nonce, ms, body, outcome)
  \/ Restart

Spec == Init /\ [][Next]_vars

-----------------------------------------------------------------------------
\* The variables have the types of the code's, and the vectors their bounds.
TypeOK ==
  /\ log \in Seq([timestamp : Nat, committed : Nat, declared : Nat \X (Nat \ {0})])
  /\ loaded \in BOOLEAN
  /\ difficulty \in 0..MaxDifficulty
  /\ recent \in Seq(Nat) /\ Len(recent) <= DifficultyWindow /\ Len(recent) <= Len(log)
  /\ cache # NoDag => cache.epoch \in Nat /\ cache.size = DagSize
  /\ made # NoBlock => made.coinbase.amount \in Nat

\* What verify may be shown of a solution: as it was found, without its root, and
\* without its trace.
Forms(sol) ==
  {sol, [sol EXCEPT !.root = NoRoot], [sol EXCEPT !.trace = <<>>],
   [sol EXCEPT !.trace = <<>>, !.root = NoRoot]}

\* A solution with one thing wrong and its root as it was: another nonce, one sample's
\* mix or position, the samples in another order, or the last of them missing.
Damaged(sol) ==
  {[sol EXCEPT !.nonce = n] : n \in Nonces}
    \cup {[sol EXCEPT !.trace[n].mix = @ + 1] : n \in 1..Len(sol.trace)}
    \cup {[sol EXCEPT !.trace[n].position = @ + 1] : n \in 1..Len(sol.trace)}
    \cup {[sol EXCEPT !.trace = Reverse(@)], [sol EXCEPT !.trace = Front(@)]}

\* What mine returned verifies in every form, whichever samples are picked and
\* though the DAG is generated anew.
FormsVerify(b, dag) ==
  \A sol \in Forms(b.solution) : \A picked \in Picks(sol) :
    Verify(b.solved, sol, b.header.difficulty, dag, picked)

\* What is damaged and verifies all the same has the samples of mine or none, and
\* the whole walk of its nonce meets the difficulty.
DamageShows(b, dag) ==
  \A sol \in Forms(b.solution) :
    sol.trace # <<>> =>
      \A bad \in Damaged(sol) : \A picked \in Picks(bad) :
        Verify(b.solved, bad, b.header.difficulty, dag, picked)
          => /\ bad.trace \in {sol.trace, <<>>}
             /\ Solves(b.solved, b.header.difficulty, dag, bad.nonce)

\* The three ways of verify (proof.rs) are of one mind on what was mined and on
\* what it is damaged to.
VerdictsAgree ==
  made # NoBlock =>
    LET dag == Generate(made.header.epoch, DagSize)
    IN  FormsVerify(made, dag) /\ DamageShows(made, dag)

\* Verifying a mined block the way a peer does (p2p.rs), without a trace and over
\* its proof_hash, succeeds: proof_hash is said to be what the miner solved.
MinedVerifies ==
  made # NoBlock =>
    Verify(made.proofHash, [made.solution EXCEPT !.trace = <<>>], made.header.difficulty,
           Generate(made.header.epoch, DagSize), {})

\* What a block pays is what its header says, what it pays and burns is what was
\* emitted, to a unit; the emission keeps within its floor and ceiling, so that the
\* ledger's cap on a coinbase never refuses the miner's own block; and the miner
\* alone never gets more than its cap in the ramp-up, nor spends that early.
EmissionAccounted ==
  made # NoBlock =>
    LET h == made.header
        emitted == ToUnits(made.emitted)
    IN  /\ made.coinbase.amount = h.emission
        /\ h.emission + h.burn \in (emitted - 1)..(emitted + 1)
        /\ 100 * emitted >= FloorPercent * BaseEmission * UnitsPerEwatt
        /\ 100 * made.coinbase.amount <= CeilingPercent * BaseEmission * UnitsPerEwatt
        /\ h.height < RampUpBlocks =>
             /\ 100 * h.emission <= CapPercent * (h.emission + h.burn) + 100
             /\ made.coinbase.spendableAfter >= h.height + LockAdditional

\* Two blocks of different transactions, none of them twice in a block, have
\* different merkle roots, though an odd hash is paired with itself.
MerkleBinds ==
  made # NoBlock =>
    \A other \in Bodies :
      BodyRoot(made.coinbase, other) = made.header.merkle => other = made.body

\* The difficulty follows the pace of the last blocks: by a factor of two at most
\* and never to nothing; up only if some interval was below the target, and by the
\* whole factor if all were below half of it; down only if some interval was above
\* it, or none could be used.
ControllerStep ==
  recent' # <<>> /\ difficulty' # difficulty =>
    LET used == ToSet(Intervals(recent))
    IN  /\ difficulty' >= 1 /\ difficulty' <= 2 * difficulty
        /\ 2 * difficulty' >= difficulty - 1
        /\ difficulty' > difficulty => \E d \in used : d < LoopTarget
        /\ difficulty' < difficulty => used = {} \/ \E d \in used : d > LoopTarget

PaceStep ==
  Len(recent) >= 2 /\ recent' # <<>> =>
    LET used == ToSet(Intervals(recent))
    IN  used # {} /\ (\A d \in used : 2 * d <= LoopTarget) => difficulty' = 2 * difficulty

ControllerDirected == [][ControllerStep /\ PaceStep]_vars
=============================================================================
