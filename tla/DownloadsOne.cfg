\* One thread of FileStore, one reader, one fault.
SPECIFICATION SpecNotAgain
CONSTANTS
  Users = {"u"}
  Names = {"x", "y"}
  Contents = {"a"}
  SizeOf <- ThreeBytes
  Threads = {t1}
  Requests <- TwoFiles
  MaxRequests = 5
  MaxFaults = 1
  MaxUint = 7
  Readers = {r1}
  Fetches <- AllFetches
  ViewOnly = {}
  MaxFetches = 2
INVARIANTS DownloadsInv SentAsStored FoundIfThere
