\* A full disk cuts a chunk short.
SPECIFICATION Spec
CONSTANTS
  Names = {"x"}
  Pieces = {"p", "q"}
  Plans <- TopPlan
  Indexes = {0, 1}
  Threads = {t1}
  MaxRequests = 4
  MaxOthers = 0
  MaxFaults = 1
INVARIANT ListedChunksWhole
