\* A build without overflow checks: sums of u64s keep their low bits.  U64 is
\* a power of two above every single value of the instance.
CONSTANTS
    Address <- MCAddress
    Strdest <- MCStrdest
    DepositLog <- MCDepositLog
    Tx <- MCTx
    TxInputs <- MCTxInputs
    TxOutputs <- MCTxOutputs
    Body <- MCBody
    ScriptWeight <- MCScriptWeight
    U64 = 8
    OverflowChecks = FALSE
    MaxTxWeight = 760
    Bundle0Weight = 504
    OutputWeight = 128
    KeyOrders = 1
    FailureGap = 2
    MaxMainHeight = 3
    MaxHeight = 8
SPECIFICATION Spec
INVARIANTS
    Conservation
CHECK_DEADLOCK FALSE
