\* Login, logout and password changes of one account by two requests at once.
CONSTANTS
    p1 = p1
    p2 = p2
    u1 = u1
    u2 = u2
    t1 = t1
    t2 = t2
    t3 = t3
    w1 = w1
    w2 = w2
    w3 = w3
    m1 = m1
    m2 = m2
    None = None
    Call <- TwoRequests
    User <- OneUser
    Token <- TwoTokens
    Password <- TwoPasswords
    Mail <- OneMail
    Routes <- SessionRoutes
    WithCookie <- SignedIn
    SessionDuration = 1
    RedisOutcomes <- OkOrRefused
    PgOutcomes <- AlwaysOk
    MailOutcomes <- AlwaysOk
    RedisForgets = TRUE
SPECIFICATION Spec
INVARIANTS AdmittedBySession AnsweredMeansRevoked
PROPERTY StoreSpec
SYMMETRY Symmetry
CHECK_DEADLOCK FALSE
