CONSTANTS
  Key = {"k"}
  Salt = {"s"}
  Value = {"zero"}
  Commitment = {"A"}
  hmac <- MCHmac
  ZeroValue = "zero"
  MainAddress = {"m"}
  Txid <- MCTxid
  OutPoint <- MCOutPoint
  Deposit <- MCDeposit
  Inputs <- MCInputs
  Outputs <- MCOutputs
  Output <- MCOutputWithdrawn
  None = None
  COMMITMENT_MAX_AGE = 1
  WITHDRAWAL_BUNDLE_FAILURE_GAP = 1
  outputWeight <- MCOutputWeight
  BUNDLE_0_WEIGHT = 1
  OUTPUT_WEIGHT = 4
  MAX_STANDARD_TX_WEIGHT = 8
  KeyRadix = 4
  MaxMain = 5
  MaxDeposits = 1
  CallsMayFail = TRUE
SPECIFICATION Spec
INVARIANTS
  HeadersLinked
  MergeMined
  ChainStops
PROPERTIES
  ImplementsBmmChain
  HandlerReturns
