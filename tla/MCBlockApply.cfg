SPECIFICATION Spec
CONSTANTS
  MaxHeight = 3
  MaxSpends = 2
  Tx <- MCTx
  GenesisTx = "g"
  Image <- MCImage
  Outputs <- MCOutputs
  Inputs <- MCInputs
  Ring <- MCRing
  Amount <- MCAmount
  SpendableAfter <- MCSpendableAfter
  Authorised <- MCTx
  Block <- MCBlock
  TxsOf <- MCTxsOf
  Height <- MCHeight
  Parent <- MCParent
  Genesis = Genesis
  MintHeight <- MCMintHeight
  EmissionCap = 4
  RampUpBlocks = 3
  U64 = 24
  LockBlocks = 2
  LockAdditional = 0
  NoEntry = NoEntry
INVARIANTS
  TypeOK
  RollbackExact
  UndoChainExact
  SpentExactlyOnce
  ValueBacked
PROPERTY
  ImplementsAtomicLedger
