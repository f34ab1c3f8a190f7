\* Sequential: a file restored under a deleted folder escapes the next delete.
SPECIFICATION Spec
CONSTANTS
  Users = {"u"}
  Names = {"x", "y"}
  Contents = {"a"}
  SizeOf <- MCSizeOf
  Threads = {t1}
  Requests <- NestedRequests
  MaxRequests = 6
  MaxFaults = 0
PROPERTY DeleteTakesTree
