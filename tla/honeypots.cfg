SPECIFICATION FairSpec
CONSTANTS
  c1 = c1
  NoText = NoText
  Conns = {c1}
  Services = {"ssh", "telnet", "ftp", "http"}
  Users = {"admin"}
  Passwords = {"pw1", "pw2"}
  Channels = {1, 2}
  Lines <- MCLines
  MaxInputs = 4
  MaxStops = 1
  Criteria <- MCCriteria
INVARIANTS TypeOK SessionsAreTold SuccessesWereTried AnsweredIsLogged ShellsAreCoherent
PROPERTY GoodbyesAreLogged
CHECK_DEADLOCK FALSE
