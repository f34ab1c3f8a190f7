\* One thread (Drogon's default), one fault, and the other handlers at work.
SPECIFICATION Spec
CONSTANTS
  Names = {"x"}
  Pieces = {"p", "q"}
  Plans <- OnePlans
  Indexes = {0, 1, 2}
  Threads = {t1}
  MaxRequests = 6
  MaxOthers = 2
  MaxFaults = 1
INVARIANTS OneToResume OneFileEach TempGone UniqueNames
PROPERTY ClosedWithFile
