\* One application thread and a URC handler that sends on the receive task.
SPECIFICATION FairSpec
CONSTANTS
    t1 = t1
    t2 = t2
    Threads = {t1}
    Rx = Rx
    Free = Free
    MaxCalls = 2
    MaxUrcs = 1
    MaxWire = 3
    Ops = {"SendCommand", "SendDataAfterPrompt", "SendLine"}
    HandlerMaySend = TRUE
INVARIANTS
    HandlerCallUnanswered
PROPERTIES
    CallReturns
