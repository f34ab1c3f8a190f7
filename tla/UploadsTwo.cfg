\* Two threads, a fault, and the other handlers at work.
SPECIFICATION Spec
CONSTANTS
  Names = {"x"}
  Pieces = {"p", "q"}
  Plans <- TopPlan
  Indexes = {0, 1}
  Threads = {t1, t2}
  MaxRequests = 5
  MaxOthers = 1
  MaxFaults = 1
SYMMETRY ThreadSymmetry
INVARIANT UploadInv
PROPERTY NeverLost
