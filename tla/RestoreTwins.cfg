\* Sequential: restoring a folder that holds two deleted files of one name.
SPECIFICATION Spec
CONSTANTS
  Users = {"u"}
  Names = {"x", "y"}
  Contents = {"a"}
  SizeOf <- MCSizeOf
  Threads = {t1}
  Requests <- TwinRequests
  MaxRequests = 6
  MaxFaults = 0
PROPERTY UniqueNames
