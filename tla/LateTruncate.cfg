\* Two first uploads of one content: the later one truncates the file of the other.
SPECIFICATION SpecNoOverlap
CONSTANTS
  Users = {"u"}
  Names = {"x", "y"}
  Contents = {"a"}
  SizeOf <- MCSizeOf
  Threads = {t1, t2}
  Requests <- TwoUploads
  MaxRequests = 2
  MaxFaults = 0
PROPERTY ContentKept
