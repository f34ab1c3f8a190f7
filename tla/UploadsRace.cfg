\* Two threads open, or complete, the same upload.
\* TLC stops at the first of these; with the others alone, it finds each violated.
SPECIFICATION Spec
CONSTANTS
  Names = {"x"}
  Pieces = {"p", "q"}
  Plans <- TopPlan
  Indexes = {0, 1}
  Threads = {t1, t2}
  MaxRequests = 5
  MaxOthers = 0
  MaxFaults = 0
INVARIANTS OneToResume UniqueNames
