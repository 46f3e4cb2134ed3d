SPECIFICATION Spec
CONSTANTS
  Q = 5003
  H = 777
  HashPoint <- MCHashPoint
  HashScalar <- MCHashScalar
  Challenge <- MCChallenge
  Wallets = {"A", "B"}
  Keys <- MCKeys
  Addresses <- MCAddresses
  Amounts = {2, 6}
  RingSize = 3
  RangeBits = 3
  NoKey = NoKey
  NoPoint = NoPoint
  Seeds <- MCSeeds
  MaxPayments = 2
CHECK_DEADLOCK FALSE
INVARIANTS
  BuiltIsAccepted
  ReceiverFinds
  ImagesExact
PROPERTIES
  PaymentSettles
