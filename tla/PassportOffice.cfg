SPECIFICATION OfficeFairSpec
CONSTANTS
    Threads = {t1, t2}
    Passports = {p1, p2}
    Nobody = nobody
    Devices = {d1}
    Actions = {"browse_web"}
    Levels = {"unheard_of"}
    Reasons = {"why"}
    MaxCalls = 4
INVARIANTS
    OfficeTypeOK
    ReportsKnowRevocations
    ReportsAddUp
PROPERTIES
    OfficeCallsReturn
