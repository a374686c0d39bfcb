\* Two submissions by the application and one by the sync task in flight at once;
\* no pool.  The bundle is collected in the third block, answered in it
\* or in the fourth.
CONSTANTS
    Address <- MCAddress
    Strdest <- MCStrdest
    DepositLog <- MCDepositLog
    Tx <- MCTx
    TxInputs <- MCTxInputs
    TxOutputs <- MCTxOutputs
    Body <- MCBody
    ScriptWeight <- MCScriptWeight
    U64 = 64
    OverflowChecks = TRUE
    MaxTxWeight = 760
    Bundle0Weight = 504
    OutputWeight = 128
    KeyOrders = 1
    FailureGap = 2
    MaxMainHeight = 2
    MaxHeight = 4
    MaxArchived = 4
    Header <- MCHeader
    ZeroHash = "zero"
    HeaderRoot <- MCHeaderRoot
    PrevSideHash <- MCPrevSideHash
    PrevMainHash <- MCPrevMainHash
    HeaderHeight <- MCHeaderHeight
    AuthorizedTx <- NoTransactions
    App = {"app1", "app2"}
    Block <- MCBlock
    Listener = {}
    MaxTake = 2
    Outages = TRUE
SPECIFICATION NodeSpec
INVARIANTS
    NodeTypeOK
    StaleStartRefused
    ArchiveExplainsState
    ChainLinked
    IndexExact
    BodiesMatch
PROPERTIES
    NodeImplementsState
CHECK_DEADLOCK FALSE
