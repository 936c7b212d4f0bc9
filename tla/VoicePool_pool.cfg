CONSTANTS
  MaxVoices = 3
  ByteMod = 4
  Channels <- OneChannel
  Notes <- ThreeNotes
  AltGroups <- OneGroup
  Setups <- AllSetups
SPECIFICATION Spec
INVARIANTS TypeOK OnVoicePending SustainedHasPedal NotesExclusive SingleLinksPaired
