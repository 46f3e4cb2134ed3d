SPECIFICATION NetSpec
CONSTANTS
  Tx <- MCTx
  GenesisTx = "g"
  Image = {"i1"}
  Outputs <- MCOutputs
  Inputs <- MCInputs
  Ring <- MCRing
  Amount <- MCAmount
  SpendableAfter <- MCSpendableAfter
  Authorised <- MCTx
  Block <- MCBlock
  TxsOf <- MCTxsOf
  Height <- MCHeight
  EmissionCap = 4
  RampUpBlocks = 0
  U64 = 100
  LockBlocks = 0
  LockAdditional = 0
  NoEntry = NoEntry
  Genesis = Genesis
  Zero = Zero
  Parent <- MCParent
  Weight <- MCWeight
  Proven <- MCBlock
  MaxOrphans = 3
  MaxReorg = 3
  NoDiff = NoDiff
  MaxPending = 2
  NoTx = NoTx
  Submitted = {"t1"}
  Refuses = TRUE
  Window = 100
  Nothing = Nothing
  OwnA <- MCOwnA
  OwnB <- MCOwnB
  Outside = "C"
  OutsideLog <- MCOutsideLog
  Scripts <- MCScripts
  MaxStarts = 2
CHECK_DEADLOCK FALSE
INVARIANTS
  GapsExplained
  NoneAwaitedFromGone
  SyncEnds
PROPERTY
  FollowsNode
