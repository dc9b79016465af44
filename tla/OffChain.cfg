\* One pool; see MCOffChain for the bounds of the parts.
SPECIFICATION OffChainSpec
CONSTANTS
  p1 = p1
  m1 = m1
  m2 = m2
  m3 = m3
  c1 = c1
  c2 = c2
  NoPool = NoPool
CHECK_DEADLOCK FALSE
INVARIANTS
    OffChainTypeOK
    RecordsAddUp
    FinalizeWhole
PROPERTIES
    EveryPoolSettled
