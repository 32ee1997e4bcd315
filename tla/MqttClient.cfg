SPECIFICATION Spec
CONSTANTS
    App = App
    Rx = Rx
    Ka = Ka
    MaxConnects = 2
    Msgs = {1}
    BrokerIds = {1}
    MaxPacketId = 2
    MaxBuffer = 2
    MaxEvents = 0
    HangupActors = {}
INVARIANTS
    QosTwoAtMostOnce
    QosTwoNotLost
    ConnectedIsUsable
    ToldOnce
CHECK_DEADLOCK FALSE
