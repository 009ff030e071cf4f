CONSTANTS
    l1 = l1
    l2 = l2
    l3 = l3
    t1 = t1
    u1 = u1
    u2 = u2
    NoWait = NoWait
    Logins <- MCLogins
    Tokens <- MCTokens
    Users <- MCUsers
    PoolSize <- MCPoolSize
SPECIFICATION Spec
\* The system stops once every request has been served.
CHECK_DEADLOCK FALSE
INVARIANTS
    TypeOK
    SuccessReachesWaiter
    PoolAccounting
