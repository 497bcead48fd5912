SPECIFICATION FairSpec
CONSTANTS
    Calls = {c1, c2, c3}
    Types = {"GPU", "gpu"}
    ToUpper <- MCToUpper
    Devices = {d1, d2, d3}
    Tokens = {secret, guess}
    AdminToken = secret
    NoToken = notoken
    MaxFaults = 2
INVARIANTS
    TypeOK
    CodesAreDense
    JwtsNeedApproval
    OneSpellingPerPrefix
PROPERTIES
    RegistrationEnds
    ImplementsAllocator
