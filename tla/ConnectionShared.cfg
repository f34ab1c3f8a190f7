\* Three threads, two rows, four calls, two faults.
SPECIFICATION FairSpec
CONSTANTS
  Threads = {t1, t2, t3}
  Rows = {r1, r2}
  Nobody = Nobody
  MaxCalls = 4
  MaxFaults = 2
INVARIANT ConnectionInv
PROPERTIES ImplementsStatements Answered
