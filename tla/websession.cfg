SPECIFICATION FairSpec
CONSTANTS
  c1 = c1
  c2 = c2
  t1 = t1
  t2 = t2
  Calls = {c1, c2}
  Tabs = {t1, t2}
  TabOf <- MCTabOf
  Kinds = {"page", "action", "logout", "login"}
  KeyIsKept = TRUE
  RefreshExpires = TRUE
  MaxExpired = 2
  MaxRestarts = 1
  MaxLosses = 1
INVARIANTS
  TypeOK
  EffectAtMostOnce
  ReplacedTokenIsGone
  ExchangedOnce
  TransparentWhenAlone
PROPERTIES EveryCallEnds
CHECK_DEADLOCK FALSE
