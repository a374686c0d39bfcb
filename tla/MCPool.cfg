\* Transactions come from the application and from one peer while blocks are
\* connected; the bundle takes an output that waiting transactions spend, and
\* returns it.
CONSTANTS
    Address <- MCAddress
    Strdest <- MCStrdest
    DepositLog <- MCDepositLog
    Tx <- MCTx
    TxInputs <- MCTxInputs
    TxOutputs <- MCTxOutputs
    Body <- MCBody
    ScriptWeight <- MCScriptWeight
    U64 = 64
    OverflowChecks = TRUE
    MaxTxWeight = 760
    Bundle0Weight = 504
    OutputWeight = 128
    KeyOrders = 1
    FailureGap = 2
    MaxMainHeight = 2
    MaxHeight = 4
    MaxArchived = 4
    Header <- MCHeader
    ZeroHash = "zero"
    HeaderRoot <- MCHeaderRoot
    PrevSideHash <- MCPrevSideHash
    PrevMainHash <- MCPrevMainHash
    HeaderHeight <- MCHeaderHeight
    AuthorizedTx <- MCAuthorizedTx
    App = {"app"}
    Block <- MCPoolBlock
    Listener = {"peer"}
    MaxTake = 2
    Outages = TRUE
SPECIFICATION NodeSpec
INVARIANTS
    PoolConflictFree
    TemplateValid
CHECK_DEADLOCK FALSE
