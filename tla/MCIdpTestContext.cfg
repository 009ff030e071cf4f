CONSTANTS
    c1 = c1
    c2 = c2
    u1 = u1
    u2 = u2
    e1 = e1
    e2 = e2
    i1 = i1
    i2 = i2
    Callers <- MCCallers
    UserNames <- MCUserNames
    ExternalIDs <- MCExternalIDs
    Infos <- MCInfos
    MaxUsers <- MCMaxUsers
SPECIFICATION Spec
INVARIANT
    TypeOK
PROPERTY
    ImplementsContract
