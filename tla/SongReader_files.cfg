\* small files of every format; the reader stops when it returns
CONSTANTS
  MAX_MIDI_EVENT = 16
  REDUCE_CHANNELS = 2
  MAX_CHANNELS = 4
  MAX_TIMESIG = 4
  FRAC = 8
  Clock = 1
  DefaultTempo = 88
  Channels = {0, 1, 2, 3, 4, 5, 6, 7}
  Setups <- Files
CHECK_DEADLOCK FALSE
SPECIFICATION FairSpec
INVARIANTS InOrder OnTick Beats
PROPERTIES ChannelsMoved LoadingEnds
