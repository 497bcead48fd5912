SPECIFICATION Spec
CONSTANTS
    Servers = {s1, s2}
    Keys = {k1, k2}
    Migrations = 2
    Passports = {p1}
    MaxExits = 0
INVARIANTS
    RestartsKeepSignatures
