SPECIFICATION Spec
CONSTANTS
  t1 = t1
  t2 = t2
  t3 = t3
  login = login
  register = register
  Threads = {t1, t2}
  Keys = {login}
  max_requests = 2
  window_seconds = 2
  TicksPerSecond = 1
  MaxClock = 4
  MaxResets = 0
SYMMETRY ThreadSymmetry
INVARIANT WindowLimit
CHECK_DEADLOCK FALSE
