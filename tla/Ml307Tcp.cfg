\* One client, two cids, a hold of one chunk.
SPECIFICATION Spec
CONSTANTS
    k1 = k1
    k2 = k2
    Clients = {k1}
    Task = Task
    NumCids = 2
    MaxHeld = 1
    MaxConnects = 2
    MaxChunks = 2
    MaxWire = 2
CONSTRAINT
    MCNoLapse
INVARIANTS
    StreamComplete
    ConnectedIsLive
    UsedCidHasOwner
