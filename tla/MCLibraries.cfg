\* Two miners and two mainchain blocks; two seeds and one caller beside an
\* application that does everything else; one to four threads.
CONSTANTS
    Miners = {m, n}
    Header <- MCHeader
    PrevMain <- MCPrevMain
    MaxMain = 2
    Seed = {"s1", "s2"}
    MaxIndex = 3
    Coin <- MCCoin
    OutputAt <- MCOutputAt
    Caller = {"a"}
    Payment <- MCPayment
    U64 = 16
    Transaction <- MCTransaction
    InputNumber <- MCInputNumber
    Body <- MCBody
    Threads = {1, 2, 3, 4}
SPECIFICATION LibrariesSpec
SYMMETRY MinerSymmetry
INVARIANTS
    ReturnedWereMined
    WinnersAccountedFor
    TablesOfSeed
    AddressesFresh
    SelectionExact
    OwnersAuthorize
    EachPairPacked
    VerdictExact
\* A call of verify_authorizations that has returned, or panicked, does nothing
\* more.
CHECK_DEADLOCK FALSE
