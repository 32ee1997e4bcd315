\* Two threads, every operation but SendLine.
SPECIFICATION Spec
CONSTANTS
    t1 = t1
    t2 = t2
    Threads <- MCThreads
    Rx = Rx
    Free = Free
    MaxCalls = 2
    MaxUrcs = 0
    MaxWire = 3
    Ops = {"SendCommand", "SendCommandWithData", "SendDataAfterPrompt"}
    HandlerMaySend = FALSE
SYMMETRY MCSymmetry
INVARIANTS
    TypeOK
    CommandWindowExclusive
    PayloadPerPrompt
    AnswersInStep
    ReadbackIsOwn
