----------------------------- MODULE ProofOfWork -----------------------------
(***************************************************************************)
(* The memory walk that a miner solves and the three ways in which verify  *)
(* checks it (src/src/proof.rs), with the Merkle root over its samples,    *)
(* which is also the one over a block's transactions (src/src/main.rs).    *)
(* The hash functions are parameters: any functions will do.  A hash that  *)
(* is only compared is the term it is the hash of.                         *)
(***************************************************************************)
EXTENDS Integers, Sequences, SequencesExt

CONSTANTS
  MaxHash,           \* u64::MAX, which a final hash is read as at most
  BaseAccesses,      \* BASE_ACCESSES
  AccessUnit,        \* what difficulty_to_accesses divides by
  Samples,           \* the number of samples a walk is cut for (1000)
  Checked,           \* how many samples verify recomputes (30)
  NoRoot,            \* a solution without a Merkle root
  Digest(_, _),      \* initial_mix of a header's hash and a nonce
  Absorb(_, _),      \* an element is xored into the mix, which is hashed
  FinalHash(_),      \* the number that is compared with the target
  Generate(_, _)     \* the elements of the DAG of an epoch and a size

ASSUME ProofOfWorkAssumption ==
  /\ MaxHash \in Nat \ {0} /\ BaseAccesses \in Nat \ {0} /\ AccessUnit \in Nat \ {0}
  /\ Samples \in Nat \ {0} /\ Checked \in Nat \ {0}

-----------------------------------------------------------------------------
\* Hashes that are only compared.
LeafHash(position, mix) == <<"leaf", position, mix>>
PairHash(l, r) == <<"pair", l, r>>
EmptyRoot == <<"zero", 0, 0>>

\* Mutant: the odd hash of a level is left out.
NextLevelPaired(s) == [i \in 1..(Len(s) \div 2) |-> PairHash(s[2 * i - 1], s[2 * i])]

\* One level up: neighbours are paired, an odd last one with itself.
NextLevel(s) ==
  [i \in 1..((Len(s) + 1) \div 2) |->
     PairHash(s[2 * i - 1], IF 2 * i <= Len(s) THEN s[2 * i] ELSE s[2 * i - 1])]

\* merkle_root_from_leaves.
MerkleRoot(leaves) ==
  LET up(level, n) == IF Len(level) > 1 THEN NextLevel(level) ELSE level
  IN  IF leaves = <<>> THEN EmptyRoot ELSE FoldLeft(up, leaves, leaves)[1]

-----------------------------------------------------------------------------
Accesses(difficulty) == (BaseAccesses * difficulty) \div AccessUnit

MeetsDifficulty(hash, difficulty) ==
  hash <= MaxHash \div (IF difficulty = 0 THEN 1 ELSE difficulty)

Interval(len) == IF len \div Samples = 0 THEN 1 ELSE len \div Samples

\* The mix after k accesses; an index wraps at the length of the DAG.
Walk(dag, mix, k) ==
  FoldLeft(LAMBDA m, i : Absorb(m, dag[(m % Len(dag)) + 1]), mix, [i \in 1..k |-> i])

\* The samples of a walk: the mix after every Interval-th access from the first
\* on, and the time it was taken at, of which only the order matters.
Trace(dag, start, len) ==
  [n \in 1..((len + Interval(len) - 1) \div Interval(len)) |->
     LET position == (n - 1) * Interval(len)
     IN  [position |-> position, mix |-> Walk(dag, start, position + 1), offset |-> n]]

TraceRoot(trace) ==
  MerkleRoot([n \in 1..Len(trace) |-> LeafHash(trace[n].position, trace[n].mix)])

\* mine: what is returned for a nonce it tries, if it meets the difficulty.
Solves(hash, difficulty, dag, nonce) ==
  MeetsDifficulty(FinalHash(Walk(dag, Digest(hash, nonce), Accesses(difficulty))),
                  difficulty)

SolutionOf(hash, difficulty, dag, nonce) ==
  LET trace == Trace(dag, Digest(hash, nonce), Accesses(difficulty))
  IN  [nonce |-> nonce, trace |-> trace, length |-> Accesses(difficulty),
       root |-> IF trace = <<>> THEN NoRoot ELSE TraceRoot(trace)]

-----------------------------------------------------------------------------
(* verify, which takes one of three ways.                                  *)

\* Without a trace: the whole walk.
WalkVerifies(hash, sol, difficulty, dag) ==
  sol.trace = <<>> /\ Solves(hash, difficulty, dag, sol.nonce)

\* Mutant: the walk goes on from the position of the last sample again.
SampledVerifiesAgain(hash, sol, difficulty, dag, picked) ==
  LET start == Digest(hash, sol.nonce)
      final == sol.trace[Len(sol.trace)]
  IN  /\ TraceRoot(sol.trace) = sol.root
      /\ \A n \in picked : Walk(dag, start, sol.trace[n].position + 1) = sol.trace[n].mix
      /\ MeetsDifficulty(
           FinalHash(Walk(dag, final.mix, sol.length - final.position)), difficulty)

\* With a trace and a root: the root is that of the trace, the samples picked
\* are recomputed, and the walk goes on from the last sample to the end.
SampledVerifies(hash, sol, difficulty, dag, picked) ==
  LET start == Digest(hash, sol.nonce)
      final == sol.trace[Len(sol.trace)]
      rest  == sol.length - final.position - 1
  IN  /\ TraceRoot(sol.trace) = sol.root
      /\ \A n \in picked : Walk(dag, start, sol.trace[n].position + 1) = sol.trace[n].mix
      /\ MeetsDifficulty(
           FinalHash(Walk(dag, final.mix, IF rest > 0 THEN rest ELSE 0)), difficulty)

\* With a trace alone: the whole walk, and every sample at its place.
TraceVerifies(hash, sol, difficulty, dag) ==
  LET due == Trace(dag, Digest(hash, sol.nonce), sol.length)
  IN  /\ Len(sol.trace) >= Len(due)
      /\ \A n \in 1..Len(due) : /\ sol.trace[n].position = due[n].position
                                /\ sol.trace[n].mix = due[n].mix
      /\ \A m, n \in 1..Len(due) : m < n => sol.trace[m].offset <= sol.trace[n].offset
      /\ Solves(hash, difficulty, dag, sol.nonce)

\* sample_indices: as many different samples as are to be checked.
Picks(sol) ==
  kSubset(IF Checked < Len(sol.trace) THEN Checked ELSE Len(sol.trace),
          1..Len(sol.trace))

Verify(hash, sol, difficulty, dag, picked) ==
  /\ sol.length = Accesses(difficulty)
  /\ \/ WalkVerifies(hash, sol, difficulty, dag)
     \/ /\ sol.trace # <<>> /\ sol.root # NoRoot
        /\ SampledVerifies(hash, sol, difficulty, dag, picked)
     \/ /\ sol.trace # <<>> /\ sol.root = NoRoot
        /\ TraceVerifies(hash, sol, difficulty, dag)
=============================================================================
