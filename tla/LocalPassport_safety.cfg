SPECIFICATION Spec
CONSTANTS
    Threads = {t1, t2}
    Passports = {p1, p2}
    Nobody = nobody
    Actions = {"browse_web", "spawn_agent"}
    Levels = {"restricted", "elevated"}
    Reasons = {"why"}
    MaxCalls = 4
SYMMETRY Symmetry
INVARIANTS
    TypeOK
    RevokedMeansRefused
    ExportsAdmitRevocation
    ExportsRememberRevocation
PROPERTIES
    TrustNeverReturns
