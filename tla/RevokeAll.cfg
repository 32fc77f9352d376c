\* Both stores healthy: does a password change end the user's sessions?
CONSTANTS
    c1 = c1
    c2 = c2
    u1 = u1
    u2 = u2
    t1 = t1
    t2 = t2
    None = None
    Call <- OneCall
    User <- OneUser
    Token <- MCToken
    SessionDuration = 2
    RedisOutcomes <- AlwaysOk
    PgOutcomes <- AlwaysOk
    RedisForgets = FALSE
SPECIFICATION StoreSpec
INVARIANT AllRevoked
