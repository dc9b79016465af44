\* A match of up to two rows and half hours 0 to 4; see MCFeed for the other parts.
SPECIFICATION FeedSpec
CONSTANTS
  Shape <- AnyRows
  Flag <- Says
  Ending <- AnyEnding
  ExtraTime = TRUE
  MaxGoals = 1
  MaxRows = 2
  MaxElapsed = 4
  wc = wc
  fr = fr
  l1 = l1
  l2 = l2
SYMMETRY Symmetry
CHECK_DEADLOCK FALSE
INVARIANTS
    FeedTypeOK
    DecisionsSound
    FixturesServed
    MarketsAgree
    
PROPERTIES
    SettledAtFullTime
    NewestRowWins
