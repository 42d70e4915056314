CONSTANTS
  t1 = t1
  t2 = t2
  Ips = {i1}
  Usernames = {u1, u2}
  Threads = {t1, t2}
  MaxFail = 2
  Lockout = 2
  Idle = 4
  MaxTime = 6
SPECIFICATION Spec
INVARIANT GuessBound
INVARIANT LockLasts
SYMMETRY Symmetry
\* The clock stops at MaxTime, and then every thread may be idle.
CHECK_DEADLOCK FALSE
