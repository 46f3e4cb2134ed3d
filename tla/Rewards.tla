------------------------------- MODULE Rewards -------------------------------
(***************************************************************************)
(* The arithmetic of a miner: how much it committed, what a block emits,   *)
(* pays and burns, what that is worth in energy, and how the difficulty    *)
(* follows the pace of blocks (src/src/commitment.rs, reward.rs, vr.rs and *)
(* difficulty.rs).  An f64 is a fraction <<numerator, denominator>>: the   *)
(* roundings the code asks for are modelled, those of the f64 are not.     *)
(***************************************************************************)
EXTENDS Integers, Sequences, FiniteSets, Functions, SequencesExt

CONSTANTS
  MinCommit,          \* MIN_COMMIT_AOPS
  LowPercent,         \* below this efficiency a commitment is cut (70)
  HighPercent,        \* above this one it is raised no further (130)
  BaseEmission,       \* BASE_EMISSION, in Ewatt
  FloorPercent,       \* EMISSION_FLOOR_MULTIPLIER (5)
  CeilingPercent,     \* EMISSION_CEILING_MULTIPLIER (2000)
  UnitsPerEwatt,      \* UNITS_PER_EWATT
  RampUpBlocks,       \* RAMP_UP_BLOCKS
  CapPercent,         \* RAMP_UP_CAP (80)
  VrPerAccess,        \* units of VR per access (J_PER_ACCESS, J_PER_KWH)
  VrDivisor,          \*   and what they are divided by
  TargetBlockTime,    \* TARGET_BLOCK_TIME_SECS
  MaxInterval         \* an interval of this many seconds or more is left out (3600)

ASSUME RewardsAssumption ==
  /\ \A c \in {MinCommit, BaseEmission, UnitsPerEwatt, VrPerAccess, VrDivisor,
               TargetBlockTime, MaxInterval} : c \in Nat \ {0}
  /\ RampUpBlocks \in Nat
  /\ LowPercent \in 1..99 /\ HighPercent \in Nat /\ HighPercent > 100
  /\ FloorPercent \in 1..100 /\ CeilingPercent \in Nat /\ CeilingPercent >= 100
  /\ CapPercent \in 1..100 /\ UnitsPerEwatt % 100 = 0

-----------------------------------------------------------------------------
(* Fractions in lowest terms, none of them negative.                       *)

\* The greatest common divisor of a pair.
GCD[p \in Nat \X Nat] == IF p[2] = 0 THEN p[1] ELSE GCD[<<p[2], p[1] % p[2]>>]

Ratio(n, d) == <<n \div GCD[<<n, d>>], d \div GCD[<<n, d>>]>>
Frac(n) == <<n, 1>>
Times(q, r) == Ratio(q[1] * r[1], q[2] * r[2])
Over(q, r) == Ratio(q[1] * r[2], q[2] * r[1])
Plus(q, r) == Ratio(q[1] * r[2] + r[1] * q[2], q[2] * r[2])
Minus(q, r) == Ratio(q[1] * r[2] - r[1] * q[2], q[2] * r[2])
Less(q, r) == q[1] * r[2] < r[1] * q[2]
Percent(p) == Ratio(p, 100)
Larger(q, r) == IF Less(q, r) THEN r ELSE q
Clamp(q, low, high) == IF Less(q, low) THEN low ELSE IF Less(high, q) THEN high ELSE q
Truncate(q) == q[1] \div q[2]
Round(q) == (2 * q[1] + q[2]) \div (2 * q[2])

\* The k-th of a sequence of fractions in ascending order.
Smallest(s, k) ==
  CHOOSE q \in Range(s) :
    /\ Cardinality({n \in 1..Len(s) : Less(s[n], q)}) < k
    /\ Cardinality({n \in 1..Len(s) : ~Less(q, s[n])}) >= k

Median(s) ==
  LET half == Len(s) \div 2
  IN  IF s = <<>> THEN Frac(0)
      ELSE IF Len(s) % 2 = 0
      THEN Over(Plus(Smallest(s, half), Smallest(s, half + 1)), Frac(2))
      ELSE Smallest(s, half + 1)

-----------------------------------------------------------------------------
(* Commitments                                                             *)

Efficiency(accesses, declared, seconds) ==
  IF declared[1] <= 0 \/ seconds[1] <= 0 THEN Frac(0)
  ELSE Over(accesses, Times(declared, seconds))

EffectiveCommitment(declared, efficiency) ==
  IF Less(efficiency, Percent(LowPercent)) THEN Times(declared, efficiency)
  ELSE IF Less(Percent(HighPercent), efficiency) THEN Times(declared, Percent(HighPercent))
  ELSE declared

MinCommitment(recent) ==
  IF recent = <<>> THEN Frac(MinCommit)
  ELSE Larger(Frac(MinCommit), Over(Median(recent), Frac(10)))

\* validate_commitment, of a commitment that its miner has signed.
ValidCommitment(declared, efficiency, recent) ==
  /\ ~Less(declared, Frac(MinCommit))
  /\ ~Less(declared, MinCommitment(recent))
  /\ Less(Frac(0), efficiency)

-----------------------------------------------------------------------------
(* Emission, reward and VR                                                 *)

EmissionRate(committed, average) ==
  IF average[1] <= 0 THEN Frac(BaseEmission)
  ELSE Clamp(Over(Times(Frac(BaseEmission), committed), average),
             Times(Frac(BaseEmission), Percent(FloorPercent)),
             Times(Frac(BaseEmission), Percent(CeilingPercent)))

\* Mutant: the excess is taken from what the miner keeps, not from the total.
RampUpCapOfShare(height, reward) ==
  LET cap == Times(Times(reward, Percent(CapPercent)), Percent(CapPercent))
  IN  IF height >= RampUpBlocks THEN [reward |-> reward, burned |-> Frac(0)]
      ELSE [reward |-> cap, burned |-> Minus(reward, Times(reward, Percent(CapPercent)))]

\* apply_ramp_up_cap of a list with one miner, whose share is the whole of it.
RampUpCap(height, reward) ==
  LET cap == Times(reward, Percent(CapPercent))
  IN  IF height >= RampUpBlocks \/ ~Less(cap, reward)
      THEN [reward |-> reward, burned |-> Frac(0)]
      ELSE [reward |-> cap, burned |-> Minus(reward, cap)]

ToUnits(q) == Round(Times(q, Frac(UnitsPerEwatt)))

\* compute_vr over one block, as the header keeps it.
Vr(committed, reward) ==
  IF reward[1] <= 0 \/ committed[1] <= 0 THEN 0
  ELSE Round(Over(Times(committed, Ratio(TargetBlockTime * VrPerAccess, VrDivisor)), reward))

-----------------------------------------------------------------------------
(* Difficulty                                                              *)

\* The intervals between neighbouring timestamps that average_block_time
\* counts: neither none nor an hour, and none if the clock went back.
Intervals(timestamps) ==
  LET keep(s, n) == LET d == timestamps[n + 1] - timestamps[n]
                    IN  IF 0 < d /\ d < MaxInterval THEN Append(s, d) ELSE s
  IN  FoldLeft(keep, <<>>, [n \in 1..(Len(timestamps) - 1) |-> n])

AverageBlockTime(timestamps) ==
  IF Len(timestamps) < 2 THEN Frac(TargetBlockTime)
  ELSE LET s == Intervals(timestamps)
       IN  IF s = <<>> THEN Ratio(3 * TargetBlockTime, 2)
           ELSE Median([n \in 1..Len(s) |-> Frac(s[n])])

\* Mutant: the ratio is that of the actual to the target.
AdjustDifficultyReversed(current, actual, target) ==
  LET adjusted == Truncate(Times(Frac(current), Clamp(Over(actual, target), <<1, 2>>, Frac(2))))
  IN  IF actual[1] <= 0 \/ target[1] <= 0 THEN current
      ELSE IF adjusted < 1 THEN 1 ELSE adjusted

\* adjust_difficulty: by a factor of two at most, and never below one.
AdjustDifficulty(current, actual, target) ==
  LET adjusted == Truncate(Times(Frac(current), Clamp(Over(target, actual), <<1, 2>>, Frac(2))))
  IN  IF actual[1] <= 0 \/ target[1] <= 0 THEN current
      ELSE IF adjusted < 1 THEN 1 ELSE adjusted
=============================================================================
