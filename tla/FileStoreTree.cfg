\* One thread, no faults, folders in folders; restores as in WholeRestores.
SPECIFICATION SpecWhole
CONSTANTS
  Users = {"u"}
  Names = {"x", "y"}
  Contents = {"a", "b"}
  SizeOf <- MCSizeOf
  Threads = {t1}
  Requests <- TreeRequests
  MaxRequests = 7
  MaxFaults = 0
INVARIANT NoOrphans
PROPERTIES DeleteTakesTree ImplementsCatalog
