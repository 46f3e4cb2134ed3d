SPECIFICATION Spec
CONSTANTS
  Tx <- MCTx
  GenesisTx = "g"
  Image <- MCImage
  Outputs <- MCOutputs
  Inputs <- MCInputs
  Ring <- MCRing
  Amount <- MCAmount
  SpendableAfter <- MCSpendableAfter
  Authorised <- MCTx
  Block <- MCBlock
  TxsOf <- MCTxsOf
  Height <- MCHeight
  EmissionCap = 4
  RampUpBlocks = 0
  U64 = 100
  LockBlocks = 0
  LockAdditional = 0
  NoEntry = NoEntry
  Genesis = Genesis
  Zero = Zero
  Parent <- MCParent
  Weight <- MCWeight
  Own <- MCOwn
  Proven <- MCBlock
  MaxOrphans = 2
  MaxReorg = 3
  NoDiff = NoDiff
CHECK_DEADLOCK FALSE
INVARIANTS
  TypeOK
  LedgerIsReplay
  UndoReady
  TreeSound
  NoHeavierValidBranch
  OrphanQueueSound
PROPERTIES
  TipMovesSoundly
  ResurrectsDropped
