\* The folder is deleted and purged before the upload is completed.
SPECIFICATION Spec
CONSTANTS
  Names = {"x"}
  Pieces = {"p", "q"}
  Plans <- FolderPlan
  Indexes = {0, 1}
  Threads = {t1}
  MaxRequests = 5
  MaxOthers = 2
  MaxFaults = 0
INVARIANT FolderThere
