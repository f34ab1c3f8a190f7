\* A second first upload truncates the file that is being downloaded.
SPECIFICATION DownloadsSpec
CONSTANTS
  Users = {"u"}
  Names = {"x", "y"}
  Contents = {"a"}
  SizeOf <- ThreeBytes
  Threads = {t1, t2}
  Requests <- Uploads
  MaxRequests = 2
  MaxFaults = 0
  MaxUint = 7
  Readers = {r1}
  Fetches <- OneRange
  ViewOnly = {}
  MaxFetches = 1
INVARIANT SentAsStored
