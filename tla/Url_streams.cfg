\* a ring that is filled three times; everything kept, or not any longer
CONSTANTS
  URL_BUFF_SIZE = 4
  MEMBASESIZE = 2
  SourceLength = 10
  Newlines <- LineEnds
  NoCall <- None
  Calls <- Requests
  Kinds = {"buff", "cache"}
  Openings = {0, 1}
  BUFSIZ = 3
SPECIFICATION UrlSpec
INVARIANTS RingHolds LimitKept
PROPERTY ImplementsByteStream
