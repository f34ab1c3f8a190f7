\* One thread, one SELECT without a result: an upload takes a stored content for a new one.
SPECIFICATION Spec
CONSTANTS
  Users = {"u"}
  Names = {"x", "y"}
  Contents = {"a"}
  SizeOf <- MCSizeOf
  Threads = {t1}
  Requests <- TwoUploads
  MaxRequests = 2
  MaxFaults = 1
PROPERTY ContentNeverLost
