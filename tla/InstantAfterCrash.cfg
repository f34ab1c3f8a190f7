\* A crash between remove(path) and DELETE FROM file_objects, then an instant upload.
SPECIFICATION Spec
CONSTANTS
  Users = {"u"}
  Names = {"x", "y"}
  Contents = {"a"}
  SizeOf <- MCSizeOf
  Threads = {t1}
  Requests <- SharedContentRequests
  MaxRequests = 4
  MaxFaults = 1
PROPERTY InstantHasContent
