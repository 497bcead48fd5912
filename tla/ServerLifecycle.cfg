SPECIFICATION FairSpec
CONSTANTS
    get = get
    revoke = revoke
    device = device
    Requests = {get, revoke, device}
    Kind <- MCKind
    MaxConns = 1
    MaxFaults = 1
INVARIANTS
    TypeOK
    GracefulExit
    RevocationsAudited
    ExitCutsNoTransaction
PROPERTIES
    ShutdownEnds
    HandlersEnd
