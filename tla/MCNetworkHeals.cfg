SPECIFICATION FairNetSpec
CONSTANTS
  Tx <- MCTx
  GenesisTx = "g"
  Image = {"i1"}
  Outputs <- MCOutputs
  Inputs <- MCInputs
  Ring <- MCRing
  Amount <- MCAmount
  SpendableAfter <- MCSpendableAfter
  Authorised <- MCTx
  Block <- MCBlock
  TxsOf <- MCTxsOf
  Height <- MCHeight
  EmissionCap = 4
  RampUpBlocks = 0
  U64 = 100
  LockBlocks = 0
  LockAdditional = 0
  NoEntry = NoEntry
  Genesis = Genesis
  Zero = Zero
  Parent <- MCParent
  Weight <- MCWeight
  Proven <- MCBlock
  MaxOrphans = 3
  MaxReorg = 3
  NoDiff = NoDiff
  MaxPending = 2
  NoTx = NoTx
  Submitted = {"t1"}
  Refuses = FALSE
  Window = 100
  Nothing = Nothing
  OwnA <- MCLongA
  OwnB <- MCOwnB
  Outside = "C"
  OutsideLog <- MCOutsideLog
  Scripts <- MCSilence
  MaxStarts = 1
CHECK_DEADLOCK FALSE
PROPERTY
  Heals
