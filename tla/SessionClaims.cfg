\* What one might expect of sessions: a session in use does not end, a token is given to one
\* user, descriptors are closed.
\* TLC stops at the first of these; with the others alone, it finds each violated.
SPECIFICATION Spec
CONSTANTS
  Names = {n1, n2}
  Passwords = {p1, p2}
  Threads = {t1, t2}
  Ttl = 2
  Delay = 1
  SharedDraws = TRUE
  MaxTime = 5
  MaxRequests = 6
  MaxFaults = 2
SYMMETRY Perms
INVARIANTS Slides TokenOfOne AllClosed
