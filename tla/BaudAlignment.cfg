\* Every pair of rates at the start; the rates are the code's.
SPECIFICATION Spec
CONSTANTS
    Rates = {9600, 115200, 460800, 921600}
    kFactoryRate = 115200
    kHighestKnownRate = 921600
    kConfirmAttempts = 4
    Supported = {115200, 460800, 921600}
INVARIANTS
    EndsAgree
    FailureHasCause
CHECK_DEADLOCK FALSE
