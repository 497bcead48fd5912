SPECIFICATION Spec
SYMMETRY MCSymmetry
CONSTANTS
    Threads = {t1, t2}
    Slots = {s1, s2}
    p1 = p1
    madeUp = madeUp
    PassportIDs = {p1, madeUp}
    Devices = {d1}
    Names <- MCNames
    Beginning <- MCBeginning
    MaxCalls = 3
INVARIANTS
    TypeOK
    NilMeansDone
    KnownRevocationsHold
    NotFoundIsAboutThePassport
    ErrorsNameTheirCall
