\* Three transactions at once on either network; applications need not submit.
CONSTANTS
    Node = {"a", "b", "c", "d"}
    Tx = {"t1", "t2", "t3"}
    Origin <- MCOrigin
    Network <- MCNetwork
SPECIFICATION FairGossipSpec
INVARIANTS
    GossipTypeOK
    OkMeansEverywhere
    NoWaitCycle
PROPERTIES
    Propagates
    PushesEnd
\* Every transaction has been submitted and every push is over.
CHECK_DEADLOCK FALSE
