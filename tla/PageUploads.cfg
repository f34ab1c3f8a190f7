\* Two tabs upload the same file to two threads; one fault of any kind.
SPECIFICATION PageSpec
CONSTANTS
  Names = {"x"}
  Pieces = {"p", "q"}
  Plans <- OneFile
  Indexes = {0, 1}
  Threads = {t1, t2}
  Tabs = {b1, b2}
  None = None
  MaxRequests = 0
  MaxOthers = 0
  MaxFaults = 1
INVARIANTS PageInv DoneIsFiled AllSent
PROPERTY FiledInTheEnd
