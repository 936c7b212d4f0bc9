\* events at most three samples apart
CONSTANTS
  Modes <- AllModes
  MaxTime = 3
  MaxEvents = 3
  MaxStall = 2
SPECIFICATION FairSpec
INVARIANT ShownInOrder
PROPERTIES NotEarly Shown
