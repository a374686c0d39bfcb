\* Two orders of a HashMap's keys; six blocks reach a bundle that fails, a
\* second one, and a node that has collected it earlier than the other.
\* MaxTxWeight = 504 + 196: a limit of one output, of which the loop takes two,
\* so that withdrawals to two addresses make a bundle too heavy.
CONSTANTS
    Address <- MCAddress
    Strdest <- MCAddress
    DepositLog <- MCDepositLog
    Tx <- MCTx
    TxInputs <- MCTxInputs
    TxOutputs <- MCTxOutputs
    Body <- MCBody
    ScriptWeight <- MCScriptWeight
    U64 = 64
    OverflowChecks = TRUE
    MaxTxWeight = 700
    Bundle0Weight = 504
    OutputWeight = 128
    KeyOrders = 2
    FailureGap = 1
    MaxMainHeight = 1
    MaxHeight = 6
SPECIFICATION ReplicasSpec
INVARIANTS
    SameCoins
    RefusedForWithdrawals
CHECK_DEADLOCK FALSE
