\* One submission by the application beside the sync task; no pool,
\* and no call fails.
CONSTANTS
    Address <- MCAddress
    Strdest <- MCStrdest
    DepositLog <- MCDepositLog
    Tx <- MCTx
    TxInputs <- MCTxInputs
    TxOutputs <- MCTxOutputs
    Body <- MCBody
    ScriptWeight <- MCScriptWeight
    U64 = 64
    OverflowChecks = TRUE
    MaxTxWeight = 760
    Bundle0Weight = 504
    OutputWeight = 128
    KeyOrders = 1
    FailureGap = 2
    MaxMainHeight = 2
    MaxHeight = 4
    MaxArchived = 4
    Header <- MCHeader
    ZeroHash = "zero"
    HeaderRoot <- MCHeaderRoot
    PrevSideHash <- MCPrevSideHash
    PrevMainHash <- MCPrevMainHash
    HeaderHeight <- MCHeaderHeight
    AuthorizedTx <- NoTransactions
    App = {"app"}
    Block <- MCBlock
    Listener = {}
    MaxTake = 2
    Outages = FALSE
SPECIFICATION FairNodeSpec
PROPERTIES
    MissingHeadersRequested
CHECK_DEADLOCK FALSE
