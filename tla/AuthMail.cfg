\* Links of every kind, asked for and presented by two requests while replies get lost.
CONSTANTS
    p1 = p1
    p2 = p2
    u1 = u1
    u2 = u2
    t1 = t1
    t2 = t2
    t3 = t3
    w1 = w1
    w2 = w2
    w3 = w3
    m1 = m1
    m2 = m2
    None = None
    Call <- TwoRequests
    User <- TwoUsers
    Token <- TwoTokens
    Password <- OnePassword
    Mail <- OneMail
    Routes <- MailRoutes
    WithCookie <- ResendOnly
    SessionDuration = 1
    RedisOutcomes <- AlwaysOk
    PgOutcomes <- OkOrLost
    MailOutcomes <- OkOrLost
    RedisForgets = FALSE
SPECIFICATION Spec
INVARIANTS AuthTypeOK RedeemedIsSpent VerifiedByMail
SYMMETRY Symmetry
CHECK_DEADLOCK FALSE
