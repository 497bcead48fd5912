SPECIFICATION Spec
CONSTANTS
    Calls = {c1, c2}
    Types = {"GPU", "gpu"}
    ToUpper <- MCToUpper
    Devices = {d1, d2, d3}
    Tokens = {secret, guess}
    AdminToken = secret
    NoToken = notoken
    MaxFaults = 0
INVARIANTS
    EveryRegistrationGetsACode
