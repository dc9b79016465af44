\* A crash between the transaction and the mirror's update.
SPECIFICATION FairSpec
CONSTANTS
    m1 = m1
    m2 = m2
    p1 = p1
    p2 = p2
    s0 = s0
    s1 = s1
    t1 = t1
    t2 = t2
    None = None
    Pool = {p1}
    Member = {m1}
    Key = {k}
    Treasury = {t1}
    Admin = k
    ServerKey = k
    Terms <- MCTerms
    OutcomeArg <- MCOutcomeArg
    CountArg <- MCCountArg
    Endowment = 3
    MaxTime = 1
    Fixture <- MCFixture
    FixtureOf <- MCFixtureOf
    Score <- MCScore
    OutcomeOf <- MCOutcomeOf
    Handler = {}
    MaxFaults = 0
    MaxCrashes = 1
    MaxRotations = 0
    HostMayCancel = FALSE
CHECK_DEADLOCK FALSE
PROPERTY
    MirrorFollows
