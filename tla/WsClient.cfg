\* Two connections: made by the application, or again by the maintenance task.
SPECIFICATION Spec
CONSTANTS
    App = App
    Rx = Rx
    Mt = Mt
    MaxConnects = 2
    MaxRetries = 1
    MaxParts = 2
    MaxEvents = 0
    CloseActors = {App, Rx, Mt}
    Settings <- LinkSettings
    Chatty = TRUE
INVARIANTS
    OpenIsUsable
    ToldOnce
PROPERTIES
    EndIsTold
    Reconnects
    DeadPeerNoticed
CHECK_DEADLOCK FALSE
