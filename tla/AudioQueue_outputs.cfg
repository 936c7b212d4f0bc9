\* every kind of output, changed while playing, with a start threshold, with
\* and without a trace
CONSTANTS
  PlayModes <- AllDevices
  SoftTime = 2
  FillTime = 1
  TracePlaying = {TRUE, FALSE}
  AddCounts = {1, 3, 5}
  MaxFrames = 6
SPECIFICATION FairSpec
INVARIANTS BucketsSound OnlyTailPartial FramesInOrder NothingToDrop
PROPERTIES ImplementsStream CallsReturn
