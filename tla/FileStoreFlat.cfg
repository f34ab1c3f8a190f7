\* One thread (Drogon's default), nothing in folders, one fault at any step.
SPECIFICATION Spec
CONSTANTS
  Users = {"u"}
  Names = {"x", "y"}
  Contents = {"a", "b"}
  SizeOf <- MCSizeOf
  Threads = {t1}
  Requests <- FlatRequests
  MaxRequests = 6
  MaxFaults = 1
INVARIANTS RefCountCovers AnswersOwnRow
PROPERTIES UniqueNames ContentKept
