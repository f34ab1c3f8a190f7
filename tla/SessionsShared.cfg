\* Two threads and two users; six requests and four ticks of a clock with a Ttl of two,
\* one fault; overlapping draws may return the same token.
SPECIFICATION Spec
CONSTANTS
  Names = {n1, n2}
  Passwords = {p1, p2}
  Threads = {t1, t2}
  Ttl = 2
  Delay = 1
  SharedDraws = TRUE
  MaxTime = 4
  MaxRequests = 6
  MaxFaults = 1
SYMMETRY Perms
INVARIANTS SessionInv KeptAlive
PROPERTY OnlyLoginOpens
