\* one voice of every kind of sample, from its start to its end
CONSTANTS
  Samples <- SomeSamples
  ONE = 2
  Speeds = {1, 3}
  Delays = {0, 3}
  Blocks = {2, 3}
  Widths = {1, 2}
  Stale = {0, 2}
  Settings <- SomeSettings
\* a voice that is free stays so
CHECK_DEADLOCK FALSE
SPECIFICATION Spec
INVARIANTS HeldAtSustain ReadsInside
PROPERTIES OnlyQuieter ReleasedEnds
