\* Two threads that open and close one TLS or plaintext socket each on one cid.
SPECIFICATION FairSpec
CONSTANTS
    t1 = t1
    t2 = t2
    Threads <- MCThreads
    Reader = Reader
    NumCids = 1
    Budget = 1
    MaxOpens = 1
    MaxData = 0
    MaxWire = 1
    Kinds = {"plain", "ssl"}
INVARIANTS
    TypeOK
    SwitchFollowsReservations
    ReservationsCovered
    SocketsMatchSwitch
PROPERTIES
    PeerCloseFinishes
    CallReturns
