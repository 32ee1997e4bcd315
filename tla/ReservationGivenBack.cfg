SPECIFICATION Spec
CONSTANTS
    t1 = t1
    t2 = t2
    Threads <- MCThreads
    Reader = Reader
    NumCids = 1
    Budget = 1
    MaxOpens = 2
    MaxData = 1
    MaxWire = 2
    Kinds = {"plain"}
SYMMETRY MCSymmetry
INVARIANT
    ReservationGivenBack
