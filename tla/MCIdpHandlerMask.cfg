CONSTANTS
    r1 = r1
    r2 = r2
    r3 = r3
    n1 = n1
    n2 = n2
    e1 = e1
    e2 = e2
    o1 = o1
    o2 = o2
    NoExt = NoExt
    NoOwner = NoOwner
    Requests <- MCRequests
    UserNames <- MCUserNames
    ExternalIDs <- MCExternalIDs
    Owners <- MCOwners
SYMMETRY MCSymmetry
SPECIFICATION Spec
\* Every login request ends in LoginSuccess or LoginFailure.
CHECK_DEADLOCK FALSE
INVARIANT
    UpdateUserSurfacesAlreadyExists
