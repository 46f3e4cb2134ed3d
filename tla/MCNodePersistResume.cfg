SPECIFICATION PersistSpec
CONSTANTS
  Tx <- MCTx
  GenesisTx = "g"
  Image = {"i1"}
  Outputs <- MCOutputs
  Inputs <- MCInputs
  Ring <- MCRing
  Amount <- MCAmount
  SpendableAfter <- MCSpendableAfter
  Authorised <- MCTx
  Block <- MCBlock
  TxsOf <- MCTxsOf
  Height <- MCHeight
  EmissionCap = 4
  RampUpBlocks = 0
  U64 = 100
  LockBlocks = 0
  LockAdditional = 0
  NoEntry = NoEntry
  Genesis = Genesis
  Zero = Zero
  Parent <- MCParent
  Weight <- MCWeight
  Own <- MCOwn
  Proven <- MCBlock
  MaxOrphans = 2
  MaxReorg = 3
  NoDiff = NoDiff
  FirstLogs <- MCRootLogs
  Intact <- MCHash
  NoFile = NoFile
  MaxCached = 2
  MaxLog = 5
  MaxFresh = 3
  MaxStops = 2
CHECK_DEADLOCK FALSE
INVARIANT
  ResumesCoherently
