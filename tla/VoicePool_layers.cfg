CONSTANTS
  MaxVoices = 3
  ByteMod = 4
  Channels <- OneChannel
  Notes <- ThreeNotes
  AltGroups <- OneGroup
  Setups <- LayeredOnly
SPECIFICATION Spec
INVARIANT LinksPaired
