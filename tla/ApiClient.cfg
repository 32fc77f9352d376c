\* Two calls of one page that cross in every way.
CONSTANTS
    p1 = p1
    k1 = k1
    k2 = k2
    t1 = t1
    t2 = t2
    t3 = t3
    t4 = t4
    None = None
    Page <- OnePage
    Call <- TwoCalls
    CsrfToken <- FourTokens
SPECIFICATION Spec
INVARIANTS TypeOK RunsOnce RefusedTwiceMeansCrossed
PROPERTIES CallsEnd
