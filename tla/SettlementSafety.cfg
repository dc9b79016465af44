\* The sweep and a stream handler on one pool; one call fails or times out, the
\* treasury may be rotated once, and the host may cancel on the chain.
SPECIFICATION Spec
CONSTANTS
    m1 = m1
    m2 = m2
    p1 = p1
    p2 = p2
    s0 = s0
    s1 = s1
    t1 = t1
    t2 = t2
    None = None
    Pool = {p1}
    Member = {m1, m2}
    Key = {k}
    Treasury = {t1, t2}
    Admin = k
    ServerKey = k
    Terms <- MCTerms
    OutcomeArg <- MCOutcomeArg
    CountArg <- MCCountArg
    Endowment = 3
    MaxTime = 1
    Fixture <- MCFixture
    FixtureOf <- MCFixtureOf
    Score <- OneScore
    OutcomeOf <- MCOutcomeOf
    Handler = {h}
    MaxFaults = 1
    MaxCrashes = 0
    MaxRotations = 1
    HostMayCancel = TRUE
SYMMETRY Symmetry
CHECK_DEADLOCK FALSE
INVARIANTS
    MirrorNeverAhead
    VerdictsHold
    ResultsAreReal
PROPERTY
    WorkerIsAudited
