SPECIFICATION Spec
CONSTANTS
  t1 = t1
  t2 = t2
  t3 = t3
  login = login
  register = register
  Threads = {t1, t2}
  Keys = {login}
  max_requests = 2
  window_seconds = 1
  TicksPerSecond = 2
  MaxClock = 5
  MaxResets = 1
INVARIANTS TypeOK AllowedHitsAreSpaced RetryAfterIsEnough WindowLimitInOrder
CHECK_DEADLOCK FALSE
