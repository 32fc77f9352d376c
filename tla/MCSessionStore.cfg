\* Two concurrent calls, every outcome of every command.
CONSTANTS
    c1 = c1
    c2 = c2
    u1 = u1
    u2 = u2
    t1 = t1
    t2 = t2
    None = None
    Call <- MCCall
    User <- MCUser
    Token <- MCToken
    SessionDuration = 2
    RedisOutcomes <- AnyOutcome
    PgOutcomes <- AnyOutcome
    RedisForgets = TRUE
SPECIFICATION StoreSpec
INVARIANTS TypeOK ValidSession LoggedOutIsDead FallbackRevoked
PROPERTY RegistrySpec
SYMMETRY Symmetry
