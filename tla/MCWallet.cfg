CONSTANTS
  Key = {"k"}
  Salt = {0, 1, 2, 3, 4}
  Value <- MCValue
  Commitment = {0, 1, 2, 3, 4}
  hmac <- MCHmac
  ZeroValue = "zero"
  MainAddress = {"m"}
  Txid <- MCTxid
  OutPoint <- MCOutPoint
  Deposit = {}
  Inputs <- MCInputs
  Outputs <- MCOutputs
  Output <- MCOutput
  None = None
  COMMITMENT_MAX_AGE = 1
  WITHDRAWAL_BUNDLE_FAILURE_GAP = 1
  outputWeight <- MCOutputWeight
  BUNDLE_0_WEIGHT = 1
  OUTPUT_WEIGHT = 4
  MAX_STANDARD_TX_WEIGHT = 8
  KeyRadix = 4
  MaxMain = 3
  MaxDeposits = 0
  CallsMayFail = FALSE
  AddressIndex = {0, 1, 2, 3, 4}
  addressOf <- MCAddressOf
  salt <- MCSalt
  MaxCommands = 2
  SetTo = {"v", "w"}
  CommitIndex = {0}
SPECIFICATION WalletSpec
CONSTRAINT FewFailures
ACTION_CONSTRAINTS AddressesFirst UpdatesFirst
INVARIANTS
  WalletTypeOK
  InStep
  NoDoubleSpend
  AddressesRunOut
