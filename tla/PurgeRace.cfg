\* Two threads purge the same file, or one purges it before the other has added its size.
\* TLC stops at the first of these; with the others alone, it finds each violated.
SPECIFICATION Spec
CONSTANTS
  Users = {"u"}
  Names = {"x", "y"}
  Contents = {"a"}
  SizeOf <- MCSizeOf
  Threads = {t1, t2}
  Requests <- SharedContentRequests
  MaxRequests = 5
  MaxFaults = 0
INVARIANTS RefCountCovers UsedExact
