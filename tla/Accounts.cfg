\* Two registrations at once that may agree in everything.
CONSTANTS
    p1 = p1
    p2 = p2
    e1 = e1
    e2 = e2
    ann = ann
    Ann = Ann
    w1 = w1
    t1 = t1
    t2 = t2
    None = None
    Call <- TwoRequests
    Email <- MCEmail
    Name <- MCName
    Fold <- MCFold
    Password <- MCPassword
    Token <- MCToken
    PgOutcomes <- AnyOutcome
    MailOutcomes <- AnyOutcome
SPECIFICATION Spec
INVARIANTS TypeOK FounderOnly OrderlyStop
SYMMETRY Symmetry
CHECK_DEADLOCK FALSE
