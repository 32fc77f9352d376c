\* One page with two calls in flight and two notes.
CONSTANTS
    p1 = p1
    k1 = k1
    k2 = k2
    u1 = u1
    n1 = n1
    n2 = n2
    NewNote = NewNote
    None = None
    Page <- OnePage
    Call <- TwoCalls
    User <- OneUser
    Note <- TwoNotes
    SignIns <- MagicOrReset
    Outcomes <- AnyOutcome
SPECIFICATION Spec
INVARIANTS TypeOK TextWhereTyped LabelTellsTruth ListAgrees
SYMMETRY Symmetry
CHECK_DEADLOCK FALSE
