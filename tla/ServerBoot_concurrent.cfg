SPECIFICATION FairSpec
CONSTANTS
    Servers = {s1, s2}
    Keys = {k1, k2, k3, k4, k5}
    Migrations = 2
    Passports = {p1}
    MaxExits = 3
INVARIANTS
    TypeOK
    MigrationsAppliedOnce
    OnlyStraysDisagree
PROPERTIES
    PersistedKeyIsPermanent
    BootEnds
