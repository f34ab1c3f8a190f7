\* The last file of a content is purged while an instant upload takes a reference.
SPECIFICATION SpecNoOverlap
CONSTANTS
  Users = {"u"}
  Names = {"x", "y"}
  Contents = {"a"}
  SizeOf <- MCSizeOf
  Threads = {t1, t2}
  Requests <- SharedContentRequests
  MaxRequests = 4
  MaxFaults = 0
PROPERTY NotRemoved
