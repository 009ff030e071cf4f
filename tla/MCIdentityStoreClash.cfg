CONSTANTS
    r1 = r1
    r2 = r2
    u1 = u1
    u2 = u2
    e1 = e1
    e2 = e2
    i1 = i1
    i2 = i2
    Requests <- MCRequests
    UserNames <- MCUserNames
    ExternalIDs <- MCExternalIDs
    Infos <- MCInfos
SYMMETRY MCSymmetry
SPECIFICATION Spec
INVARIANT
    AlreadyExistsOnlyOnClash
