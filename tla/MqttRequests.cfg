SPECIFICATION Spec
CONSTANTS
    App = App
    Rx = Rx
    Ka = Ka
    MaxConnects = 1
    Msgs = {}
    BrokerIds = {}
    MaxPacketId = 2
    MaxBuffer = 1
    MaxEvents = 2
    HangupActors = {App, Rx}
INVARIANTS
    RefusalNamesFilter
PROPERTIES
    LifeSpec
    CallReturns
    DeadBrokerNoticed
CHECK_DEADLOCK FALSE
