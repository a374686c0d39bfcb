\* Two of: two calls of connect to one address, two arrivals from another;
\* the task that requests missing headers.
CONSTANTS
    Outgoing = {"c1", "c2"}
    Incoming = {"i1", "i2"}
    Together <- MCTogether
    Dropped = {"i1"}
    Addr <- MCAddr
    Requester = {"sync"}
SPECIFICATION FairNetSpec
INVARIANTS
    NetTypeOK
    AcceptedApart
    ConnectedApart
PROPERTIES
    ClosedPeersLeave
    EveryoneServed
CHECK_DEADLOCK FALSE
