SPECIFICATION Spec
CONSTANTS
  Tx <- MCTx
  GenesisTx = "g"
  Image <- MCImage
  Outputs <- MCOutputs
  Inputs <- MCInputs
  Ring <- MCRing
  Amount <- MCAmount
  SpendableAfter <- MCSpendableAfter
  Authorised <- MCTx
  Block <- MCBlock
  TxsOf <- MCTxsOf
  Height <- MCHeight
  EmissionCap = 4
  RampUpBlocks = 0
  U64 = 100
  LockBlocks = 0
  LockAdditional = 0
  NoEntry = NoEntry
  NoTx = NoTx
  MaxPending = 3
INVARIANTS
  TypeOK
  IndicesExact
  NoPendingConflict
  FeeOrdered
PROPERTY
  EvictsTheCheapest
