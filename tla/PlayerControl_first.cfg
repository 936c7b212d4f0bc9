\* a jump to the beginning of the song
SPECIFICATION Spec
CONSTANTS
  Times <- Song
  NoteOns <- Notes
  Block = 2
  TailBlocks = 2
  Second = 2
  Sessions <- ToTheStart
\* the player stops when all songs are played
CHECK_DEADLOCK FALSE
INVARIANT EventDue
