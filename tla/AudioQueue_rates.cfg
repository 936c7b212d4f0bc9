\* the sample rate changes between songs
CONSTANTS
  PlayModes <- TwoRates
  SoftTime = 2
  FillTime = 0
  TracePlaying = {FALSE}
  AddCounts = {1, 3}
  MaxFrames = 4
SPECIFICATION Spec
INVARIANT StorageFits
