SPECIFICATION FairSpec
CONSTANTS
    s1 = s1
    s2 = s2
    c1 = c1
    c2 = c2
    key = key
    p1 = p1
    p2 = p2
    stranger = stranger
    why1 = why1
    why2 = why2
    Servers = {s1, s2}
    Calls = {c1, c2}
    ServerOf <- MCServerOf
    SignerKey <- MCSignerKey
    PassportIDs <- TwoPassports
    Stranger = stranger
    Caps = {"read"}
    Reasons = {why1}
    Actions = {"passport_revoked"}
    Limit = 1
    ListLimit = 1
    MaxRequests = 3
    MaxFaults = 1
INVARIANTS
    PassportNeverForgotten
PROPERTIES
    ImplementsLedger
    RevokeCompletes
