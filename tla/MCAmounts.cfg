CONSTANTS
  Key = {"k"}
  Salt = {"s"}
  Value = {"zero"}
  Commitment = {"A"}
  hmac <- MCHmac
  ZeroValue = "zero"
  MainAddress = {"m1", "m2", "m3"}
  Txid <- MCTxid
  OutPoint <- MCOutPoint
  Deposit = {}
  Inputs <- MCInputs
  Outputs <- MCOutputs
  Output <- MCOutput
  None = None
  COMMITMENT_MAX_AGE = 1
  WITHDRAWAL_BUNDLE_FAILURE_GAP = 1
  outputWeight <- MCOutputWeight
  BUNDLE_0_WEIGHT = 1
  OUTPUT_WEIGHT = 4
  MAX_STANDARD_TX_WEIGHT = 8
  KeyRadix = 256
  Amount = {0, 1, 2}
  addressRank <- MCAddressRank
  DepositAmount = {1, 2}
  MaxHeight = 3
  MaxPerBlock = 2
  U64 = 13
SPECIFICATION AmountsSpec
CHECK_DEADLOCK FALSE
INVARIANTS
  CollectsAsTheStateSays
  PaysWhatItSpends
  FeeIsPaidOncePerDestination
  GreatestTaken
  CreditedExactly
  ChangeIsNeverPassed
