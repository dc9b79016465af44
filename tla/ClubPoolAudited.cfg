\* Two pools that share two wallets and a treasury, counts audited.
SPECIFICATION AuditedSpec
CONSTANTS
    m1 = m1
    m2 = m2
    m3 = m3
    k1 = k1
    k2 = k2
    t1 = t1
    t2 = t2
    Pool = {p1, p2}
    Member = {m1, m2}
    Key = {k1}
    Treasury = {t1}
    Terms <- MCOneTerms
    OutcomeArg <- MCOutcomeArg
    CountArg <- MCCountArg
    Endowment = 14
    MaxTime = 1
INVARIANTS
    FundsConserved
    WinnersCovered
    EntitledCanClaim
PROPERTY
    ImplementsEscrow
