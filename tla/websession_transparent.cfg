SPECIFICATION Spec
CONSTANTS
  c1 = c1
  c2 = c2
  t1 = t1
  t2 = t2
  Calls = {c1, c2}
  Tabs = {t1, t2}
  TabOf <- MCTabOf
  Kinds = {"page", "action"}
  KeyIsKept = TRUE
  RefreshExpires = FALSE
  MaxExpired = 1
  MaxRestarts = 0
  MaxLosses = 0
INVARIANT TransparentRefresh
CHECK_DEADLOCK FALSE
