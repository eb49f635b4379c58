SPECIFICATION Spec
CONSTANTS
  Requests = {q1, q2, q3}
  alice = alice  bob = bob  carol = carol  dave = dave
  mailA = mailA  mailB = mailB  mailC = mailC
  demo = demo  chosen = chosen
  hello = hello  world = world
  NoSecret = NoSecret
  NoUser = NoUser
  DEMO_PASSWORD = demo
  Names <- MCNames
  Emails <- MCEmails
  Passwords <- MCPasswords
  Texts <- MCTexts
  SeedUsers <- MCSeedUsers
  SeedItems <- MCSeedItems
  Workloads <- MCWorkloads
SYMMETRY Symmetry
CHECK_DEADLOCK FALSE
INVARIANTS
  TypeOK AccountsAreKept EnabledWithConfirmedSecret OwnersOnly KeptUntilDeleted
  SeededOnce TelemetryIsFaithful
