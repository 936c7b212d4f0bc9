\* calls that overtake the clearing of the one before, or each other
CONSTANTS
  Threads <- TwoThreads
  Uses <- AllUses
SPECIFICATION FairMailSpec
INVARIANTS OnceInOrder NothingLost
PROPERTY Served
