\* A collection is due from the third block on; a failure and the gap after it
\* fit below MaxHeight.  MaxTxWeight = 504 + 2 * 128: two outputs at most.
CONSTANTS
    Address <- MCAddress
    Strdest <- MCStrdest
    DepositLog <- MCDepositLog
    Tx <- MCTx
    TxInputs <- MCTxInputs
    TxOutputs <- MCTxOutputs
    Body <- MCBody
    ScriptWeight <- MCScriptWeight
    U64 = 64
    OverflowChecks = TRUE
    MaxTxWeight = 760
    Bundle0Weight = 504
    OutputWeight = 128
    KeyOrders = 1
    FailureGap = 2
    MaxMainHeight = 3
    MaxHeight = 8
SPECIFICATION Spec
INVARIANTS
    TypeOK
    NoCoinTwice
    Conservation
    PaysOwners
    BundlesApart
    EachAnswerOnce
PROPERTIES
    CoinsFollowLifecycle
    DepositsScanned
\* The chain stops at MaxHeight.
CHECK_DEADLOCK FALSE
