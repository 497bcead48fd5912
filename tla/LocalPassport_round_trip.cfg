SPECIFICATION Spec
CONSTANTS
    Threads = {t1, t2}
    Passports = {p1, p2}
    Nobody = nobody
    Actions = {"browse_web", "spawn_agent"}
    Levels = {"restricted", "elevated"}
    Reasons = {"why"}
    MaxCalls = 3
INVARIANTS
    ExportsRoundTrip
