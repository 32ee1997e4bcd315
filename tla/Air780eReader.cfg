\* One thread, two cids and two chunks of payload with a budget of one per wake.
SPECIFICATION Spec
CONSTANTS
    t1 = t1
    t2 = t2
    Threads = {t1}
    Reader = Reader
    NumCids = 2
    Budget = 1
    MaxOpens = 2
    MaxData = 2
    MaxWire = 2
    Kinds = {"plain"}
INVARIANT
    NoStrandedData
