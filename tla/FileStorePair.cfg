\* Two threads and a fault, nobody purges the same row twice at once.
SPECIFICATION FairNoOverlap
CONSTANTS
  Users = {"u"}
  Names = {"x", "y"}
  Contents = {"a"}
  SizeOf <- MCSizeOf
  Threads = {t1, t2}
  Requests <- PairRequests
  MaxRequests = 4
  MaxFaults = 1
INVARIANTS RefInv TreeShape ChildrenFirst
PROPERTY Answered
