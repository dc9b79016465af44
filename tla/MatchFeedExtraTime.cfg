SPECIFICATION Spec
CONSTANTS
  Shape <- FullRows
  Flag <- Says
  Ending <- NoEnding
  ExtraTime = TRUE
  MaxGoals = 1
  MaxRows = 2
  MaxElapsed = 3
PROPERTIES SettlesOnNinetyMinutes
CHECK_DEADLOCK FALSE
