\* One token, two concurrent calls, time that does not stop.
CONSTANTS
    c1 = c1
    c2 = c2
    u1 = u1
    u2 = u2
    t1 = t1
    t2 = t2
    None = None
    Call <- MCCall
    User <- OneUser
    Token <- OneToken
    SessionDuration = 2
    RedisOutcomes <- AnyOutcome
    PgOutcomes <- AnyOutcome
    RedisForgets = FALSE
SPECIFICATION TimedSpec
PROPERTY SessionsExpire
