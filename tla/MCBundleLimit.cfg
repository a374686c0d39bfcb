\* MaxTxWeight = 504 + 2 * 124: MAX_BUNDLE_OUTPUTS is 1 and two outputs to
\* witness addresses fit, as 3122 do under the real limit.
CONSTANTS
    Address <- MCAddress
    Strdest <- MCStrdest
    DepositLog <- MCDepositLog
    Tx <- MCTx
    TxInputs <- MCTxInputs
    TxOutputs <- MCTxOutputs
    Body <- MCBody
    ScriptWeight <- MCLightScripts
    U64 = 64
    OverflowChecks = TRUE
    MaxTxWeight = 752
    Bundle0Weight = 504
    OutputWeight = 128
    KeyOrders = 1
    FailureGap = 2
    MaxMainHeight = 3
    MaxHeight = 8
SPECIFICATION Spec
INVARIANTS
    BundleWithinMax
CHECK_DEADLOCK FALSE
