CONSTANTS
  Senders = {u1, u2}
  Threads = {t1, t2}
  Limit = 2
  Window = 3
  MaxDelay = 1
  MaxTime = 6
  None = None
SYMMETRY Symmetric
SPECIFICATION Spec
INVARIANT AdmitsAtMostLimit
PROPERTY RefusesOnlyWhenFull
