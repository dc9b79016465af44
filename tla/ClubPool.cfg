\* One pool, three members, any reported winner count.
SPECIFICATION Spec
CONSTANTS
    m1 = m1
    m2 = m2
    m3 = m3
    k1 = k1
    k2 = k2
    t1 = t1
    t2 = t2
    Pool = {p1}
    Member = {m1, m2, m3}
    Key = {k1, k2}
    Treasury = {t1, t2}
    Terms <- MCTerms
    OutcomeArg <- MCOutcomeArg
    CountArg <- MCCountArg
    Endowment = 10
    MaxTime = 2
SYMMETRY MemberSymmetry
INVARIANTS
    IInv
    Refundable
    ShareBudget
PROPERTY
    FinalAndFrozen
