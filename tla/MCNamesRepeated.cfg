CONSTANTS
  Key = {"k"}
  Salt = {"a", "b"}
  Value = {"zero", "v"}
  Commitment = {"A", "B"}
  hmac <- MCHmac
  ZeroValue = "zero"
  MainAddress = {"m"}
  Txid <- MCTxid
  OutPoint <- MCOutPoint
  Deposit = {}
  Inputs <- MCInputs
  Outputs <- MCOutputs
  Output <- MCOutputRepeated
  None = None
  COMMITMENT_MAX_AGE = 1
  WITHDRAWAL_BUNDLE_FAILURE_GAP = 1
  outputWeight <- MCOutputWeight
  BUNDLE_0_WEIGHT = 1
  OUTPUT_WEIGHT = 4
  MAX_STANDARD_TX_WEIGHT = 8
  KeyRadix = 256
  MaxMain = 4
  MaxDeposits = 0
  CallsMayFail = FALSE
SPECIFICATION Spec
INVARIANT
  CommitmentIsNew
