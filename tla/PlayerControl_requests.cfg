\* every kind of request at every poll, and seeks and restarts of a song
SPECIFICATION FairSpec
CONSTANTS
  Times <- Song
  NoteOns <- Notes
  Block = 2
  TailBlocks = 2
  Second = 2
  Sessions <- SessionsOfAllKinds
\* the player stops when all songs are played
CHECK_DEADLOCK FALSE
INVARIANTS TypeOK StopObeyed SeekExact OnTime
PROPERTY SongEnds
