\* One or two calls of any kind, any answer.
SPECIFICATION Spec
CONSTANTS
    Word = 8
    Hosts = {1}
    Requests <- MCRequests
    Responses <- MCResponses
    MaxRedirects = 1
    MaxCalls = 2
    MaxWrites = 1
    MaxPiece = 1
    MaxConns = 2
INVARIANTS
    AnswerIsOwn
    EofMeansWhole
    RepeatsAreSafe
    RedirectsAreSafe
    UploadFramed
CHECK_DEADLOCK FALSE
