\* One connection: frames, sends and a callback on the maintenance task that closes.
SPECIFICATION Spec
CONSTANTS
    App = App
    Rx = Rx
    Mt = Mt
    MaxConnects = 1
    MaxRetries = 0
    MaxParts = 2
    MaxEvents = 3
    CloseActors = {Mt}
    Settings <- FrameSettings
    Chatty = FALSE
INVARIANTS
    MessagesWhole
    OutboundWhole
PROPERTY
    CallReturns
CHECK_DEADLOCK FALSE
