SPECIFICATION Spec
CONSTANTS
    None = None
    reqCancel = reqCancel
    r1 = r1
    r2 = r2
    m1 = m1
    m2 = m2
    m3 = m3
    c1 = c1
    c2 = c2
    p1 = p1
    p2 = p2
    h1 = h1
    h2 = h2
    p3 = p3
INVARIANTS
    TypeOK
    NothingLost
    PairingsEnd
    WaitingIsTimed
    ChannelsFlow
    ClientsKnowChanges
    ClientsAreServed
    ScansAndConnects
    RightAddress
    AdvertisesAsAsked
    SubscriptionsHold
    DiscoveryIsExact
    BondsAreKept
CHECK_DEADLOCK FALSE
