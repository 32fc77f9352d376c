\* Two users, one with a percent sign in the address; two calls in flight.
CONSTANTS
    u1 = u1
    u2 = u2
    k1 = k1
    k2 = k2
    None = None
    User <- TwoUsers
    Percent <- OtherUser
    Special <- OneUser
    Call <- TwoCalls
    Addresses <- MCAddresses
    Haste = 1
SPECIFICATION FairSpec
INVARIANTS TypeOK PageFollowsAddress SignedInAs
PROPERTIES GuardsOutliveRoute Settles
CHECK_DEADLOCK FALSE
