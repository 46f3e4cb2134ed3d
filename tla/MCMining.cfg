SPECIFICATION Spec
CONSTANTS
  MaxHash = 15
  BaseAccesses = 5
  AccessUnit = 2
  Samples = 2
  Checked = 2
  NoRoot = NoRoot
  Digest <- MCDigest
  Absorb <- MCAbsorb
  FinalHash <- MCFinalHash
  Generate <- MCGenerate
  MinCommit = 2
  LowPercent = 70
  HighPercent = 130
  BaseEmission = 10
  FloorPercent = 5
  CeilingPercent = 2000
  UnitsPerEwatt = 100
  RampUpBlocks = 2
  CapPercent = 80
  VrPerAccess = 1
  VrDivisor = 2
  TargetBlockTime = 6
  MaxInterval = 9
  InitialDifficulties = {0, 2}
  LoopTarget = 2
  DifficultyWindow = 2
  CommitWindow = 2
  EpochBlocks = 2
  DagSize = 320
  LockBlocks = 5
  LockAdditional = 4
  Nonces = {0, 1}
  Millis = {0, 50, 1000}
  Gaps = {0, 1, 4}
  Bodies <- MCBodies
  MaxCached = 2
  NoDag = NoDag
  NoBlock = NoBlock
  MaxBlocks = 4
  MaxDifficulty = 8
CHECK_DEADLOCK FALSE
INVARIANTS
  VerdictsAgree
  EmissionAccounted
  MerkleBinds
PROPERTIES
  ControllerDirected
