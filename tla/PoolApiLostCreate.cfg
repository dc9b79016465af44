SPECIFICATION ApiSpec
CONSTANTS
    m1 = m1
    m2 = m2
    m3 = m3
    p1 = p1
    Pool = {p1}
    Member = {m1, m2}
    Key = {k}
    Treasury = {t1}
    ServerKey = k
    ServerTreasury = t1
    Terms <- MCTerms
    OutcomeArg <- MCOutcomeArg
    CountArg <- MCCountArg
    Endowment = 3
    MaxTime = 1
    HostAlwaysBets = TRUE
    MaxLost = 1
SYMMETRY Symmetry
CHECK_DEADLOCK FALSE
INVARIANTS CollectOffered
