\* Everything works: can one magic link give two sessions?
CONSTANTS
    p1 = p1
    p2 = p2
    u1 = u1
    u2 = u2
    t1 = t1
    t2 = t2
    t3 = t3
    w1 = w1
    w2 = w2
    w3 = w3
    m1 = m1
    m2 = m2
    None = None
    Call <- TwoRequests
    User <- OneUser
    Token <- TwoTokens
    Password <- TwoPasswords
    Mail <- OneMail
    Routes <- MagicRoutes
    WithCookie <- NoRoutes
    SessionDuration = 1
    RedisOutcomes <- AlwaysOk
    PgOutcomes <- AlwaysOk
    MailOutcomes <- AlwaysOk
    RedisForgets = FALSE
SPECIFICATION Spec
INVARIANT LinkUsedOnce
SYMMETRY Symmetry
CHECK_DEADLOCK FALSE
