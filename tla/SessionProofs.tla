----------------------------- MODULE SessionProofs -----------------------------
(* Theorems about Honeypots, for every number of connections, channels,       *)
(* inputs and container stops: what the log says of a session is in order,    *)
(* and what a client was answered is in the log.                              *)
EXTENDS HoneypotProofs, FiniteSetTheorems

Places == {Home} \cup DOMAIN Dirs
EmptyLine == NoShell.line
Stages == {"none", "prompt", "busy", "done", "lost"}
ShellSet == [stage : Stages, cwd : Places, line : Lines \cup {EmptyLine}]

\* The types of the variables that SourcesOK leaves out.
ServicesOK ==
  /\ service \in [Conns -> Services \cup {"none"}]
  /\ client \in [Conns -> {"none", "here", "gone"}]
  /\ given \in [Conns -> [Answered -> Nat]]
  /\ shell \in [Conns -> [Channels -> ShellSet]]
  /\ telnet \in [Conns -> {"none", "login", "password", "prompt", "busy", "done", "lost"}]
  /\ telnetShell \in [Conns -> [cwd : Places, line : Lines \cup {EmptyLine}]]
  /\ ftpLogged \in [Conns -> BOOLEAN]
  /\ http \in [Conns -> {"idle", "body", "answer", "lost"}]
  /\ request \in [Conns -> Requests]
  /\ stops \in 0 .. MaxStops

TypeInv == TriedInv /\ ServicesOK

-----------------------------------------------------------------------------
(* Types.                                                                  *)

\* A line leaves the shell at home or in a directory of the tree.
LEMMA CwdType ==
  ASSUME NEW cwd \in Places, NEW line
  PROVE  CwdAfter(cwd, line) \in Places
BY DEF CwdAfter, Cd, IsDir, Places

\* An answer keeps the type of the counts of answers.
LEMMA GivenType ==
  ASSUME ServicesOK, NEW c \in Conns, NEW t \in Answered, Give(c, t)
  PROVE  given' \in [Conns -> [Answered -> Nat]]
<1>1. [given[c] EXCEPT ![t] = @ + 1] \in [Answered -> Nat]
  BY DEF ServicesOK
<1> DEFINE one == [given[c] EXCEPT ![t] = @ + 1]
<1>2. given' = [given EXCEPT ![c] = one] \/ given' = given
  BY DEF Give
<1> HIDE DEF one
<1> QED BY <1>1, <1>2 DEF ServicesOK, one

\* A new state of one shell keeps the type of the shells.
LEMMA ShellType ==
  ASSUME ServicesOK, NEW c \in Conns, NEW k \in Channels, NEW new \in ShellSet,
         shell' = [shell EXCEPT ![c] = [shell[c] EXCEPT ![k] = new]]
  PROVE  shell' \in [Conns -> [Channels -> ShellSet]]
<1>1. [shell[c] EXCEPT ![k] = new] \in [Channels -> ShellSet]
  BY DEF ServicesOK
<1> QED BY <1>1 DEF ServicesOK

\* Where a step of one shell leaves it.
LEMMA StageShell ==
  ASSUME ServicesOK, NEW c \in Conns, NEW k \in Channels, NEW s \in Stages
  PROVE  /\ [shell EXCEPT ![c][k].stage = s] =
              [shell EXCEPT ![c] = [shell[c] EXCEPT ![k] = [shell[c][k] EXCEPT !.stage = s]]]
         /\ [shell[c][k] EXCEPT !.stage = s] \in ShellSet
<1>1. shell[c][k] \in ShellSet
  BY DEF ServicesOK
<1> QED BY <1>1 DEF ShellSet, ServicesOK, Stages

\* A shell that takes a line, as one replacement of its row.
LEMMA LineShell ==
  ASSUME ServicesOK, NEW c \in Conns, NEW k \in Channels, NEW l \in Lines
  PROVE  /\ [shell EXCEPT ![c][k].stage = "busy", ![c][k].line = l] =
              [shell EXCEPT ![c] = [shell[c] EXCEPT ![k] =
                 [shell[c][k] EXCEPT !.stage = "busy", !.line = l]]]
         /\ [shell[c][k] EXCEPT !.stage = "busy", !.line = l] \in ShellSet
<1>1. shell[c][k] \in ShellSet
  BY DEF ServicesOK
<1>2. [shell[c][k] EXCEPT !.stage = "busy", !.line = l] \in ShellSet
  BY <1>1 DEF ShellSet, Stages
<1>3. [shell EXCEPT ![c][k].stage = "busy", ![c][k].line = l] =
        [shell EXCEPT ![c] = [shell[c] EXCEPT ![k] =
           [shell[c][k] EXCEPT !.stage = "busy", !.line = l]]]
  BY <1>1 DEF ServicesOK, ShellSet
<1> QED BY <1>2, <1>3

\* A shell that runs its line, as one replacement of its row.
LEMMA RunShell ==
  ASSUME ServicesOK, NEW c \in Conns, NEW k \in Channels
  PROVE  /\ [shell EXCEPT ![c][k].stage = "prompt",
                          ![c][k].cwd = CwdAfter(@, shell[c][k].line)] =
              [shell EXCEPT ![c] = [shell[c] EXCEPT ![k] =
                 [shell[c][k] EXCEPT !.stage = "prompt",
                                     !.cwd = CwdAfter(@, shell[c][k].line)]]]
         /\ [shell[c][k] EXCEPT !.stage = "prompt",
                                !.cwd = CwdAfter(@, shell[c][k].line)] \in ShellSet
<1>1. shell[c][k] \in ShellSet
  BY DEF ServicesOK
<1> DEFINE to == CwdAfter(shell[c][k].cwd, shell[c][k].line)
<1>2. to \in Places
  BY <1>1, CwdType DEF ShellSet
<1> HIDE DEF to
<1>3. [shell[c][k] EXCEPT !.stage = "prompt", !.cwd = to] \in ShellSet
  BY <1>1, <1>2 DEF ShellSet, Stages
<1>4. [shell EXCEPT ![c][k].stage = "prompt", ![c][k].cwd = to] =
        [shell EXCEPT ![c] = [shell[c] EXCEPT ![k] =
           [shell[c][k] EXCEPT !.stage = "prompt", !.cwd = to]]]
  BY <1>1 DEF ServicesOK, ShellSet
<1> QED BY <1>3, <1>4 DEF to

\* The steps of the four honeypots keep the types.
LEMMA SshTypes ==
  ASSUME ServicesOK, NEW c \in Conns, SshNext(c), UNCHANGED <<telnetVars, ftpVars, httpVars, stops>>
  PROVE  ServicesOK'
<1> USE DEF telnetVars, ftpVars, httpVars, NoRead, Accept, Read
<1>1. CASE SshConnect(c)
  BY <1>1 DEF SshConnect, ServicesOK, sshVars
<1>2. ASSUME NEW u \in Users, NEW p \in Passwords, SshPassword(c, u, p)
      PROVE  ServicesOK'
  <2>1. given' \in [Conns -> [Answered -> Nat]]
    BY <1>2, GivenType DEF SshPassword, Answered
  <2> QED BY <1>2, <2>1 DEF SshPassword, ServicesOK
<1>3. ASSUME NEW k \in Channels, SshShell(c, k)
      PROVE  ServicesOK'
  <2>1. shell' \in [Conns -> [Channels -> ShellSet]]
    <3>1. shell' = [shell EXCEPT ![c] = [shell[c] EXCEPT ![k] = [shell[c][k] EXCEPT !.stage = "prompt"]]]
          /\ [shell[c][k] EXCEPT !.stage = "prompt"] \in ShellSet
      BY <1>3, StageShell DEF SshShell, Stages
    <3> QED BY <3>1, ShellType
  <2> QED BY <1>3, <2>1 DEF SshShell, ServicesOK
<1>4. ASSUME NEW k \in Channels, NEW l \in Lines, SshLine(c, k, l)
      PROVE  ServicesOK'
  <2>1. shell' \in [Conns -> [Channels -> ShellSet]]
    <3>1. shell' = [shell EXCEPT ![c][k].stage = "busy", ![c][k].line = l]
      BY <1>4 DEF SshLine
    <3> DEFINE new == [shell[c][k] EXCEPT !.stage = "busy", !.line = l]
    <3>2. /\ [shell EXCEPT ![c][k].stage = "busy", ![c][k].line = l] =
               [shell EXCEPT ![c] = [shell[c] EXCEPT ![k] = new]]
          /\ new \in ShellSet
      BY LineShell
    <3> HIDE DEF new
    <3>3. shell' = [shell EXCEPT ![c] = [shell[c] EXCEPT ![k] = new]]
      BY <3>1, <3>2, Zenon
    <3> QED BY <3>2, <3>3, ShellType
  <2> QED BY <1>4, <2>1 DEF SshLine, ServicesOK
<1>5. ASSUME NEW k \in Channels, SshRun(c, k)
      PROVE  ServicesOK'
  <2>1. shell' \in [Conns -> [Channels -> ShellSet]]
    <3>1. shell' = [shell EXCEPT ![c] = [shell[c] EXCEPT ![k] =
                     [shell[c][k] EXCEPT !.stage = "prompt",
                                         !.cwd = CwdAfter(@, shell[c][k].line)]]]
      BY <1>5, RunShell DEF SshRun
    <3>2. [shell[c][k] EXCEPT !.stage = "prompt", !.cwd = CwdAfter(@, shell[c][k].line)] \in ShellSet
      BY RunShell
    <3> QED BY <3>1, <3>2, ShellType
  <2>2. given' \in [Conns -> [Answered -> Nat]]
    BY <1>5, GivenType DEF SshRun, Answered
  <2> QED BY <1>5, <2>1, <2>2 DEF SshRun, ServicesOK
<1>6. ASSUME NEW k \in Channels, SshEnd(c, k)
      PROVE  ServicesOK'
  <2>1. shell' \in [Conns -> [Channels -> ShellSet]]
    <3>1. shell' = [shell EXCEPT ![c] = [shell[c] EXCEPT ![k] = [shell[c][k] EXCEPT !.stage = "done"]]]
          /\ [shell[c][k] EXCEPT !.stage = "done"] \in ShellSet
      BY <1>6, StageShell DEF SshEnd, Stages
    <3> QED BY <3>1, ShellType
  <2> QED BY <1>6, <2>1 DEF SshEnd, ServicesOK
<1> QED BY <1>1, <1>2, <1>3, <1>4, <1>5, <1>6 DEF SshNext

\* The steps of a Telnet connection keep the types.
LEMMA TelnetTypes ==
  ASSUME ServicesOK, NEW c \in Conns, TelnetNext(c), UNCHANGED <<sshVars, ftpVars, httpVars, stops>>
  PROVE  ServicesOK'
<1> USE DEF sshVars, ftpVars, httpVars, NoRead, Accept, Read
<1>1. CASE TelnetConnect(c)
  BY <1>1 DEF TelnetConnect, ServicesOK
<1>2. ASSUME NEW u \in Text(Users), TelnetLogin(c, u)
      PROVE  ServicesOK'
  BY <1>2 DEF TelnetLogin, Readline, ServicesOK
<1>3. ASSUME NEW p \in Text(Passwords), TelnetPassword(c, p)
      PROVE  ServicesOK'
  <2>1. given' \in [Conns -> [Answered -> Nat]]
    BY <1>3, GivenType DEF TelnetPassword, Answered
  <2> QED BY <1>3, <2>1 DEF TelnetPassword, Readline, ServicesOK
<1>4. ASSUME NEW l \in Lines, TelnetLine(c, l)
      PROVE  ServicesOK'
  BY <1>4 DEF TelnetLine, ServicesOK
<1>5. CASE TelnetRun(c)
  <2>1. given' \in [Conns -> [Answered -> Nat]]
    BY <1>5, GivenType DEF TelnetRun, Answered
  <2> DEFINE to == CwdAfter(telnetShell[c].cwd, telnetShell[c].line)
  <2>2. to \in Places
    BY CwdType DEF ServicesOK
  <2>3. telnetShell' = [telnetShell EXCEPT ![c].cwd = to]
    BY <1>5 DEF TelnetRun, ServicesOK
  <2> HIDE DEF to
  <2>4. telnetShell' \in [Conns -> [cwd : Places, line : Lines \cup {EmptyLine}]]
    BY <2>2, <2>3 DEF ServicesOK
  <2> QED BY <1>5, <2>1, <2>4 DEF TelnetRun, ServicesOK
<1>6. CASE TelnetEnd(c)
  BY <1>6 DEF TelnetEnd, ServicesOK
<1> QED BY <1>1, <1>2, <1>3, <1>4, <1>5, <1>6 DEF TelnetNext, Text

\* The steps of an FTP connection keep the types.
LEMMA FtpTypes ==
  ASSUME ServicesOK, NEW c \in Conns, FtpNext(c), UNCHANGED <<sshVars, telnetVars, httpVars, stops>>
  PROVE  ServicesOK'
<1> USE DEF sshVars, telnetVars, httpVars, ftpVars, NoRead, Accept, Read, FtpReads
<1>1. CASE FtpConnect(c)
  BY <1>1 DEF FtpConnect, ServicesOK
<1>2. ASSUME NEW u \in Users, FtpUser(c, u)
      PROVE  ServicesOK'
  <2>1. given' \in [Conns -> [Answered -> Nat]]
    BY <1>2, GivenType DEF FtpUser, Answered
  <2> QED BY <1>2, <2>1 DEF FtpUser, ServicesOK
<1>3. ASSUME NEW p \in Passwords, FtpPass(c, p)
      PROVE  ServicesOK'
  <2>1. given' \in [Conns -> [Answered -> Nat]]
    BY <1>3, GivenType DEF FtpPass, Answered
  <2>2. ftpLogged' \in [Conns -> BOOLEAN]
    <3>1. PICK b : ftpLogged' = [ftpLogged EXCEPT ![c] = ftpLogged[c] \/ b] /\ b \in BOOLEAN
      BY <1>3 DEF FtpPass
    <3>2. (ftpLogged[c] \/ b) \in BOOLEAN
      OBVIOUS
    <3> QED BY <3>1, <3>2 DEF ServicesOK
  <2> QED BY <1>3, <2>1, <2>2 DEF FtpPass, ServicesOK
<1>4. CASE FtpList(c)
  <2>1. given' \in [Conns -> [Answered -> Nat]]
    BY <1>4, GivenType DEF FtpList, Answered
  <2> QED BY <1>4, <2>1 DEF FtpList, ServicesOK
<1>5. CASE FtpRetr(c)
  <2>1. given' \in [Conns -> [Answered -> Nat]]
    BY <1>5, GivenType DEF FtpRetr, Answered, ServicesOK
  <2> QED BY <1>5, <2>1 DEF FtpRetr, ServicesOK
<1> QED BY <1>1, <1>2, <1>3, <1>4, <1>5 DEF FtpNext

\* Every request has a type that is answered.
LEMMA RouteType ==
  ASSUME NEW r \in Requests
  PROVE  Route(r) \in Answered /\ Route(r) \in {"auth_attempt", "file_access", "http_request"}
BY DEF Route, Answered

\* The steps of an HTTP connection keep the types.
LEMMA HttpTypes ==
  ASSUME ServicesOK, NEW c \in Conns, HttpNext(c), UNCHANGED <<sshVars, telnetVars, ftpVars, stops>>
  PROVE  ServicesOK'
<1> USE DEF sshVars, telnetVars, httpVars, ftpVars, NoRead, Accept, Read
<1>1. CASE HttpConnect(c)
  BY <1>1 DEF HttpConnect, ServicesOK
<1>2. ASSUME NEW r \in Requests, HttpRequest(c, r)
      PROVE  ServicesOK'
  BY <1>2 DEF HttpRequest, ServicesOK
<1>3. CASE HttpLog(c)
  BY <1>3 DEF HttpLog, ServicesOK
<1>4. CASE HttpDrop(c)
  BY <1>4 DEF HttpDrop, ServicesOK
<1>5. CASE HttpAnswer(c)
  <2>1. given' \in [Conns -> [Answered -> Nat]]
    <3>1. Route(request[c]) \in Answered
      BY RouteType DEF ServicesOK
    <3> QED BY <1>5, <3>1, GivenType DEF HttpAnswer
  <2> QED BY <1>5, <2>1 DEF HttpAnswer, ServicesOK
<1> QED BY <1>1, <1>2, <1>3, <1>4, <1>5 DEF HttpNext

\* Initially all variables have their types.
LEMMA ServicesInit == Init => ServicesOK
<1> SUFFICES ASSUME Init PROVE ServicesOK
  OBVIOUS
<1>0. EmptyLine = [cmd |-> "", args |-> <<>>] /\ Home \in Places
  BY DEF EmptyLine, NoShell, Places
<1>1. /\ NoShell \in ShellSet
      /\ [cwd |-> Home, line |-> EmptyLine] \in [cwd : Places, line : Lines \cup {EmptyLine}]
  <2>1. NoShell = [stage |-> "none", cwd |-> Home, line |-> EmptyLine]
    BY <1>0 DEF NoShell
  <2> QED BY <1>0, <2>1 DEF ShellSet, Stages
<1>2. (CHOOSE r \in Requests : TRUE) \in Requests
  <2>1. [path |-> "login", method |-> "GET"] \in Requests
    BY DEF Requests
  <2> QED BY <2>1
<1>3. stops \in 0 .. MaxStops
  BY HoneypotsAssumption DEF Init
<1>4. /\ shell \in [Conns -> [Channels -> ShellSet]]
      /\ request \in [Conns -> Requests]
  BY <1>1, <1>2 DEF Init, SshInit, HttpInit
<1>5. telnetShell \in [Conns -> [cwd : Places, line : Lines \cup {EmptyLine}]]
  BY <1>0, <1>1 DEF Init, TelnetInit
<1> QED BY <1>3, <1>4, <1>5 DEF Init, EventLogInit, SshInit, TelnetInit, FtpInit, HttpInit, ServicesOK

\* Every step keeps the types.
LEMMA TypesNext == ServicesOK /\ [Next]_vars => ServicesOK'
<1> SUFFICES ASSUME ServicesOK, [Next]_vars PROVE ServicesOK'
  OBVIOUS
<1> USE DEF logVars, serviceVars, sshVars, telnetVars, ftpVars, httpVars
<1>1. ASSUME NEW c \in Conns, Leave(c)
      PROVE  ServicesOK'
  BY <1>1 DEF Leave, ServicesOK
<1>2. ASSUME NEW s \in Services, Stop(s)
      PROVE  ServicesOK'
  <2>1. client' \in [Conns -> {"none", "here", "gone"}] /\ stops' \in 0 .. MaxStops
    BY <1>2, HoneypotsAssumption DEF Stop, ServicesOK
  <2>2. shell' \in [Conns -> [Channels -> ShellSet]]
    <3>1. \A c \in Conns : \A k \in Channels : shell[c][k] \in ShellSet
      BY DEF ServicesOK
    <3>2. \A x \in ShellSet : [x EXCEPT !.stage = "lost"] \in ShellSet
      BY DEF ShellSet, Stages
    <3>3. SshStop => shell' \in [Conns -> [Channels -> ShellSet]]
      BY <3>1, <3>2 DEF SshStop
    <3>4. SshStop \/ shell' = shell
      BY <1>2 DEF Stop
    <3> QED BY <3>3, <3>4 DEF ServicesOK
  <2>3. telnet' \in [Conns -> {"none", "login", "password", "prompt", "busy", "done", "lost"}]
    BY <1>2 DEF Stop, TelnetStop, ServicesOK
  <2>4. http' \in [Conns -> {"idle", "body", "answer", "lost"}]
    BY <1>2 DEF Stop, HttpStop, ServicesOK
  <2> QED BY <1>2, <2>1, <2>2, <2>3, <2>4 DEF Stop, ServicesOK
<1>3. CASE UNCHANGED vars
  BY <1>3 DEF vars, ServicesOK
<1> QED BY <1>1, <1>2, <1>3, SshTypes, TelnetTypes, FtpTypes, HttpTypes DEF Next

\* TypeOK: whatever the clients type and whenever a container stops, the variables
\* of the four honeypots keep their types.
THEOREM HoneypotsTypes == Spec => []TypeOK
<1>1. SourcesOK /\ ServicesOK => TypeOK
  <2> SUFFICES ASSUME SourcesOK, ServicesOK PROVE TypeOK
    OBVIOUS
  <2>1. EmptyLine = [cmd |-> "", args |-> <<>>] /\ EmptyLine = NoShell.line
    BY DEF EmptyLine, NoShell
  <2>2. \A c \in Conns : \A k \in Channels : shell[c][k] \in ShellSet
    BY DEF ServicesOK
  <2>3. \A x \in ShellSet : x.stage \in Stages /\ x.line \in Lines \cup {NoShell.line}
    BY <2>1 DEF ShellSet
  <2>4. SshTypeOK
    BY <2>2, <2>3 DEF SourcesOK, SshTypeOK, Stages, Text
  <2>5. TelnetTypeOK
    BY <2>1 DEF SourcesOK, ServicesOK, TelnetTypeOK, Text
  <2>6. EventLogTypeOK
    BY DEF SourcesOK, ServicesOK, EventLogTypeOK, EventSet, Text
  <2> QED BY <2>4, <2>5, <2>6
     DEF SourcesOK, ServicesOK, TypeOK, FtpTypeOK, HttpTypeOK, Text
<1>2. TriedInv => SourcesOK
  BY DEF TriedInv
<1> QED BY <1>1, <1>2, TriedInit, TriedNext, ServicesInit, TypesNext, PTL DEF Spec

-----------------------------------------------------------------------------
(* The inductive invariant: the log keeps the books of every connection.   *)

\* How many events of type t connection c has in the log l.
EventsOf(l, c, t) == {i \in DOMAIN l : l[i].session[1] = c /\ l[i].type = t}
Of(l, c, t) == Cardinality(EventsOf(l, c, t))

\* The events of c in the log l are of one session.
OneSessionOf(l, c) ==
  \A i \in DOMAIN l : l[i].session[1] = c => l[i].session = SessionOf(c)

\* The channels whose shell, in a connection's row of shells, is at a stage of S.
At(row, S) == {k \in Channels : row[k].stage \in S}
Tally(row, S) == Cardinality(At(row, S))
Opened == {"prompt", "busy", "done", "lost"}
Closed == {"done"}
Running == {"busy"}

\* The log has no event of c before a service accepts it, and then one session,
\* HTTP apart.
Owned(c) ==
  /\ service[c] = "none" => \A i \in DOMAIN log : log[i].session[1] # c
  /\ service[c] # "http" => OneSessionOf(log, c)
  /\ service[c] \in {"ssh", "telnet", "ftp"} => Of(log, c, "connect") = 1

\* The shells of c, opened and closed, are in the log, and so is each running line.
SshBook(c) ==
  /\ service[c] # "ssh" => At(shell[c], Opened) = {}
  /\ IsFiniteSet(At(shell[c], Opened))
  /\ service[c] = "ssh" =>
       /\ Of(log, c, "auth_success") = Tally(shell[c], Opened)
       /\ Of(log, c, "disconnect") = Tally(shell[c], Closed)
       /\ given[c]["command"] + Tally(shell[c], Running) <= Of(log, c, "command")

\* A Telnet session is open until its disconnect, and its running line is in the log.
TelnetBook(c) ==
  /\ telnet[c] # "none" <=> service[c] = "telnet"
  /\ service[c] = "telnet" => \/ telnet[c] = "done"
                              \/ Of(log, c, "disconnect") = 0
  /\ telnet[c] = "busy" => given[c]["command"] + 1 <= Of(log, c, "command")

\* An FTP session has no disconnect.
FtpBook(c) == service[c] = "ftp" => Of(log, c, "disconnect") = 0

\* An HTTP session is one of the requests received so far, and the one that waits for
\* its answer is in the log.
HttpBook(c) ==
  /\ service[c] # "http" => http[c] = "idle"
  /\ service[c] = "http" =>
       \A i \in DOMAIN log : log[i].session[1] = c =>
         /\ log[i].session[2] <= inputs[c]
         /\ http[c] = "body" => log[i].session[2] < inputs[c]
  /\ http[c] = "answer" =>
       given[c][Route(request[c])] + 1 <= Of(log, c, Route(request[c]))

\* AnsweredIsLogged, of one connection.
Answers(c) == \A t \in Answered : given[c][t] <= Of(log, c, t)

\* What the log owes to each connection.
Book(c) ==
  Owned(c) /\ SshBook(c) /\ TelnetBook(c) /\ FtpBook(c) /\ HttpBook(c) /\ Answers(c)

Books == \A c \in Conns : Book(c)

\* SessionsAreTold, of the log l and for connections to the services sv.
In(l, s, t, n) == {i \in 1 .. n : l[i].session = s /\ l[i].type = t}
Told(l, sv, i) ==
  LET s == l[i].session
      before == {j \in 1 .. i - 1 : l[j].session = s}
      n(t) == Cardinality(In(l, s, t, i - 1))
  IN  CASE sv[s[1]] = "http" -> before = {}
        [] l[i].type = "connect" -> before = {}
        [] l[i].type \in {"command", "disconnect"} /\ sv[s[1]] = "ssh" ->
             n("auth_success") > n("disconnect")
        [] OTHER -> /\ n("connect") = 1
                    /\ sv[s[1]] # "ssh" => n("disconnect") = 0

WellTold(l, sv) == \A i \in DOMAIN l : Told(l, sv, i)

\* The inductive strengthening of SessionsAreTold and of AnsweredIsLogged.
BooksInv == SourcesOK /\ ServicesOK /\ Books /\ WellTold(log, service)

-----------------------------------------------------------------------------
(* Counting the events of a log.                                           *)

\* An event more.
LEMMA AppendLog ==
  ASSUME NEW l \in Seq(EventSet), NEW e \in EventSet
  PROVE  /\ l \o <<e>> \in Seq(EventSet)
         /\ DOMAIN l = 1 .. Len(l) /\ Len(l) \in Nat
         /\ Len(l \o <<e>>) = Len(l) + 1 /\ DOMAIN (l \o <<e>>) = 1 .. Len(l) + 1
         /\ \A i \in 1 .. Len(l) : (l \o <<e>>)[i] = l[i]
         /\ (l \o <<e>>)[Len(l) + 1] = e
OBVIOUS

\* Two events more are one, and then one.
LEMMA AppendTwo ==
  ASSUME NEW l \in Seq(EventSet), NEW a \in EventSet, NEW b \in EventSet
  PROVE  l \o <<a, b>> = (l \o <<a>>) \o <<b>>
<1>1. <<a>> \in Seq(EventSet) /\ <<b>> \in Seq(EventSet)
  OBVIOUS
<1>2. <<a, b>> = <<a>> \o <<b>>
  <2> DEFINE s == <<a, b>>
             u == <<a>> \o <<b>>
  <2>1. s \in Seq(EventSet) /\ Len(s) = 2 /\ s[1] = a /\ s[2] = b
    OBVIOUS
  <2>2. u \in Seq(EventSet) /\ Len(u) = 2 /\ u[1] = a /\ u[2] = b
    OBVIOUS
  <2> HIDE DEF s, u
  <2>3. \A i \in 1 .. Len(s) : s[i] = u[i]
    BY <2>1, <2>2
  <2>4. s = u
    BY <2>1, <2>2, <2>3, SeqEqual
  <2> QED BY <2>4 DEF s, u
<1> QED BY <1>1, <1>2, ConcatAssociative

\* The events of a log can be counted.
LEMMA OfType ==
  ASSUME NEW l \in Seq(EventSet), NEW c, NEW t
  PROVE  Of(l, c, t) \in Nat /\ IsFiniteSet(EventsOf(l, c, t))
<1>1. IsFiniteSet(1 .. Len(l)) /\ EventsOf(l, c, t) \subseteq 1 .. Len(l)
  <2>1. Len(l) \in Int /\ 1 \in Int
    OBVIOUS
  <2> QED BY <2>1, FS_Interval DEF EventsOf
<1>2. IsFiniteSet(EventsOf(l, c, t))
  BY <1>1, FS_Subset
<1> QED BY <1>2, FS_CardinalityType DEF Of

\* A count of nothing.
LEMMA OfNone ==
  ASSUME NEW l \in Seq(EventSet), NEW c, NEW t,
         \A i \in DOMAIN l : ~(l[i].session[1] = c /\ l[i].type = t)
  PROVE  Of(l, c, t) = 0
<1>1. EventsOf(l, c, t) = {}
  BY DEF EventsOf
<1> QED BY <1>1, FS_EmptySet DEF Of

\* An event counts for its connection and its type, and for nothing else.
LEMMA OfAppend ==
  ASSUME NEW l \in Seq(EventSet), NEW e \in EventSet, NEW c, NEW t
  PROVE  Of(l \o <<e>>, c, t) =
           IF e.session[1] = c /\ e.type = t THEN Of(l, c, t) + 1 ELSE Of(l, c, t)
<1> DEFINE m == l \o <<e>>
           S == EventsOf(l, c, t)
<1>1. /\ DOMAIN l = 1 .. Len(l) /\ Len(l) \in Nat /\ DOMAIN m = 1 .. Len(l) + 1
      /\ \A i \in 1 .. Len(l) : m[i] = l[i]
      /\ m[Len(l) + 1] = e
  BY AppendLog
<1> HIDE DEF m
<1>2. IsFiniteSet(S)
  BY OfType
<1>3. CASE e.session[1] = c /\ e.type = t
  <2>1. EventsOf(m, c, t) = S \cup {Len(l) + 1} /\ Len(l) + 1 \notin S
    BY <1>1, <1>3 DEF EventsOf
  <2>2. Cardinality(EventsOf(m, c, t)) = Cardinality(S) + 1
    BY <1>2, <2>1, FS_AddElement
  <2> QED BY <1>3, <2>2 DEF Of, m
<1>4. CASE ~(e.session[1] = c /\ e.type = t)
  <2>1. EventsOf(m, c, t) = S
    BY <1>1, <1>4 DEF EventsOf
  <2> QED BY <1>4, <2>1 DEF Of, m
<1> QED BY <1>3, <1>4

\* In a log that has one session of c, the events of the session are those of c.
LEMMA OneSession ==
  ASSUME NEW l \in Seq(EventSet), NEW c, NEW t,
         OneSessionOf(l, c)
  PROVE  Cardinality(In(l, SessionOf(c), t, Len(l))) = Of(l, c, t)
<1>1. DOMAIN l = 1 .. Len(l) /\ SessionOf(c)[1] = c
  BY DEF SessionOf
<1>2. In(l, SessionOf(c), t, Len(l)) = {i \in DOMAIN l : l[i].session[1] = c /\ l[i].type = t}
  BY <1>1 DEF In, OneSessionOf
<1> QED BY <1>2 DEF Of, EventsOf

-----------------------------------------------------------------------------
(* Telling one event more.                                                 *)

\* What came before an event is told as it was.
LEMMA ToldPrefix ==
  ASSUME NEW l \in Seq(EventSet), NEW e \in EventSet, NEW sv, NEW i \in DOMAIN l,
         Told(l, sv, i)
  PROVE  Told(l \o <<e>>, sv, i)
<1> DEFINE m == l \o <<e>>
<1>1. /\ DOMAIN l = 1 .. Len(l) /\ Len(l) \in Nat /\ i \in 1 .. Len(l)
      /\ \A j \in 1 .. Len(l) : m[j] = l[j]
  BY AppendLog
<1> HIDE DEF m
<1>2. \A j \in 1 .. i - 1 : m[j] = l[j]
  BY <1>1
<1>3. m[i] = l[i]
  BY <1>1
<1>4. \A s : {j \in 1 .. i - 1 : m[j].session = s} = {j \in 1 .. i - 1 : l[j].session = s}
  BY <1>2
<1>5. \A s, t : In(m, s, t, i - 1) = In(l, s, t, i - 1)
  BY <1>2 DEF In
<1> QED BY <1>3, <1>4, <1>5 DEF Told, m

\* The event e may be told after the log l.
Tells(l, sv, e) ==
  LET c == e.session[1]
  IN  \/ /\ sv[c] = "http" \/ e.type = "connect"
         /\ \A j \in DOMAIN l : l[j].session # e.session
      \/ /\ sv[c] = "ssh" /\ e.type \in {"command", "disconnect"}
         /\ e.session = SessionOf(c)
         /\ Of(l, c, "auth_success") > Of(l, c, "disconnect")
      \/ /\ sv[c] # "http" /\ e.type # "connect" /\ e.session = SessionOf(c)
         /\ ~(sv[c] = "ssh" /\ e.type \in {"command", "disconnect"})
         /\ Of(l, c, "connect") = 1
         /\ sv[c] # "ssh" => Of(l, c, "disconnect") = 0

\* An event that a log can take is told in order at its end.
LEMMA ToldLast ==
  ASSUME NEW l \in Seq(EventSet), NEW e \in EventSet, NEW sv,
         sv[e.session[1]] # "http" => OneSessionOf(l, e.session[1]),
         Tells(l, sv, e)
  PROVE  Told(l \o <<e>>, sv, Len(l) + 1)
<1> DEFINE m == l \o <<e>>
           c == e.session[1]
           n == Len(l) + 1
<1>1. /\ DOMAIN l = 1 .. Len(l) /\ Len(l) \in Nat
      /\ \A j \in 1 .. Len(l) : m[j] = l[j]
      /\ m[n] = e /\ n - 1 = Len(l)
  BY AppendLog
<1> HIDE DEF m, n
<1>2. {j \in 1 .. n - 1 : m[j].session = e.session} = {j \in DOMAIN l : l[j].session = e.session}
  BY <1>1
<1>3. \A t : In(m, e.session, t, n - 1) = In(l, e.session, t, Len(l))
  BY <1>1 DEF In
<1>4. ASSUME sv[c] # "http", e.session = SessionOf(c), NEW t
      PROVE  Cardinality(In(m, e.session, t, n - 1)) = Of(l, c, t)
  BY <1>3, <1>4, OneSession
<1>5. CASE /\ sv[c] = "http" \/ e.type = "connect"
           /\ \A j \in DOMAIN l : l[j].session # e.session
  <2>1. {j \in 1 .. n - 1 : m[j].session = e.session} = {}
    BY <1>2, <1>5
  <2> QED BY <1>1, <1>5, <2>1 DEF Told, m, n
<1>6. CASE /\ sv[c] = "ssh" /\ e.type \in {"command", "disconnect"}
           /\ e.session = SessionOf(c)
           /\ Of(l, c, "auth_success") > Of(l, c, "disconnect")
  BY <1>1, <1>4, <1>6 DEF Told, m, n
<1>7. CASE /\ sv[c] # "http" /\ e.type # "connect" /\ e.session = SessionOf(c)
           /\ ~(sv[c] = "ssh" /\ e.type \in {"command", "disconnect"})
           /\ Of(l, c, "connect") = 1
           /\ sv[c] # "ssh" => Of(l, c, "disconnect") = 0
  BY <1>1, <1>4, <1>7 DEF Told, m, n
<1> QED BY <1>5, <1>6, <1>7 DEF Tells

\* One event more keeps the log well told, if it may be told.
LEMMA ToldMore ==
  ASSUME NEW l \in Seq(EventSet), NEW e \in EventSet, NEW sv, WellTold(l, sv), Tells(l, sv, e),
         sv[e.session[1]] # "http" => OneSessionOf(l, e.session[1])
  PROVE  WellTold(l \o <<e>>, sv)
<1>1. DOMAIN l = 1 .. Len(l) /\ Len(l) \in Nat /\ DOMAIN (l \o <<e>>) = 1 .. Len(l) + 1
  BY AppendLog
<1>2. \A i \in DOMAIN l : Told(l \o <<e>>, sv, i)
  BY ToldPrefix DEF WellTold
<1>3. Told(l \o <<e>>, sv, Len(l) + 1)
  BY ToldLast
<1>4. DOMAIN (l \o <<e>>) = DOMAIN l \cup {Len(l) + 1}
  BY <1>1
<1> QED BY <1>2, <1>3, <1>4 DEF WellTold

\* A connection that is accepted has no event yet.
LEMMA ToldService ==
  ASSUME NEW l, NEW sv, NEW su, WellTold(l, sv),
         \A i \in DOMAIN l : su[l[i].session[1]] = sv[l[i].session[1]]
  PROVE  WellTold(l, su)
BY DEF WellTold, Told

-----------------------------------------------------------------------------
(* Steps of one connection.                                                *)

\* The rows of connection d, which belong to it alone, are as they were.
Same(d) ==
  /\ service'[d] = service[d] /\ shell'[d] = shell[d] /\ telnet'[d] = telnet[d]
  /\ http'[d] = http[d] /\ request'[d] = request[d]
  /\ inputs'[d] = inputs[d] /\ given'[d] = given[d]

\* Nor is it told anything of.
LEMMA BookSame ==
  ASSUME NEW d \in Conns, Book(d), Same(d),
         \A t : Of(log', d, t) = Of(log, d, t),
         \A i \in DOMAIN log' : log'[i].session[1] = d => i \in DOMAIN log /\ log'[i] = log[i]
  PROVE  Book(d)'
<1>0. OneSessionOf(log, d) => OneSessionOf(log', d)
  BY DEF OneSessionOf
<1>1. Owned(d)'
  BY <1>0 DEF Same, Book, Owned
<1>2. SshBook(d)'
  BY DEF Same, Book, SshBook
<1>3. TelnetBook(d)' /\ FtpBook(d)' /\ Answers(d)'
  BY DEF Same, Book, TelnetBook, FtpBook, Answers
<1>4. HttpBook(d)'
  <2>1. Of(log', d, Route(request[d])) = Of(log, d, Route(request[d]))
    OBVIOUS
  <2>2. request'[d] = request[d] /\ http'[d] = http[d] /\ given'[d] = given[d]
        /\ service'[d] = service[d] /\ inputs'[d] = inputs[d]
    BY DEF Same
  <2>3. Route(request'[d]) = Route(request[d])
    BY <2>2
  <2>4. HttpBook(d)
    BY DEF Book
  <2>5. service'[d] = "http" =>
          \A i \in DOMAIN log' : log'[i].session[1] = d =>
            /\ log'[i].session[2] <= inputs'[d]
            /\ http'[d] = "body" => log'[i].session[2] < inputs'[d]
    BY <2>2, <2>4 DEF HttpBook
  <2>6. /\ service'[d] # "http" => http'[d] = "idle"
        /\ http'[d] = "answer" =>
             given'[d][Route(request'[d])] + 1 <= Of(log', d, Route(request'[d]))
    BY <2>1, <2>2, <2>3, <2>4 DEF HttpBook
  <2> QED BY <2>5, <2>6 DEF HttpBook
<1> QED BY <1>1, <1>2, <1>3, <1>4 DEF Book

\* An event of c is none of d.
LEMMA OthersAppend ==
  ASSUME NEW l \in Seq(EventSet), NEW e \in EventSet, NEW d, e.session[1] # d
  PROVE  /\ \A t : Of(l \o <<e>>, d, t) = Of(l, d, t)
         /\ \A i \in DOMAIN (l \o <<e>>) : (l \o <<e>>)[i].session[1] = d =>
              i \in DOMAIN l /\ (l \o <<e>>)[i] = l[i]
<1>1. \A t : Of(l \o <<e>>, d, t) = Of(l, d, t)
  BY OfAppend
<1>2. DOMAIN (l \o <<e>>) = 1 .. Len(l) + 1 /\ DOMAIN l = 1 .. Len(l) /\ Len(l) \in Nat
      /\ (l \o <<e>>)[Len(l) + 1] = e /\ \A i \in 1 .. Len(l) : (l \o <<e>>)[i] = l[i]
  BY AppendLog
<1> QED BY <1>1, <1>2

\* The services of the connections the log knows do not change.
LEMMA Settled ==
  ASSUME BooksInv, NEW c \in Conns, \A d \in Conns \ {c} : Same(d),
         service'[c] = service[c] \/ service[c] = "none"
  PROVE  WellTold(log, service')
<1>1. \A i \in DOMAIN log : log[i].session[1] \in Conns
  <2>1. \A i \in DOMAIN log : log[i] \in EventSet
    BY DEF BooksInv, SourcesOK
  <2>2. \A e \in EventSet : e.session \in Conns \X (0 .. MaxInputs)
    BY DEF EventSet, Sessions
  <2>3. \A s \in Conns \X (0 .. MaxInputs) : s[1] \in Conns
    OBVIOUS
  <2> QED BY <2>1, <2>2, <2>3
<1>2. service[c] = "none" => \A i \in DOMAIN log : log[i].session[1] # c
  BY DEF BooksInv, Books, Book, Owned
<1>3. \A i \in DOMAIN log : service'[log[i].session[1]] = service[log[i].session[1]]
  BY <1>1, <1>2 DEF Same
<1> QED BY <1>3, ToldService DEF BooksInv

\* A step of c that writes nothing.
LEMMA BookNone ==
  ASSUME BooksInv, NEW c \in Conns, \A d \in Conns \ {c} : Same(d), log' = log,
         service'[c] = service[c] \/ service[c] = "none", Book(c)'
  PROVE  Books' /\ WellTold(log', service')
<1>1. ASSUME NEW d \in Conns \ {c} PROVE Book(d)'
  BY <1>1, BookSame DEF BooksInv, Books
<1> QED BY <1>1, Settled DEF Books

\* A step of c that writes one event.
LEMMA BookOne ==
  ASSUME BooksInv, NEW c \in Conns, \A d \in Conns \ {c} : Same(d),
         NEW e \in EventSet, e.session[1] = c, log' = log \o <<e>>,
         service'[c] = service[c] \/ service[c] = "none", Book(c)',
         Tells(log, service', e)
  PROVE  Books' /\ WellTold(log', service')
<1>0. log \in Seq(EventSet)
  BY DEF BooksInv, SourcesOK
<1>1. ASSUME NEW d \in Conns \ {c} PROVE Book(d)'
  BY <1>0, <1>1, OthersAppend, BookSame DEF BooksInv, Books
<1>2. service'[c] # "http" => OneSessionOf(log, c)
  BY DEF BooksInv, Books, Book, Owned
<1>3. WellTold(log', service')
  BY <1>0, <1>2, Settled, ToldMore
<1> QED BY <1>1, <1>3 DEF Books

\* A step of c that writes two.
LEMMA BookTwo ==
  ASSUME BooksInv, NEW c \in Conns, \A d \in Conns \ {c} : Same(d),
         NEW a \in EventSet, a.session = SessionOf(c),
         NEW b \in EventSet, b.session = SessionOf(c), log' = log \o <<a, b>>,
         service'[c] = service[c], service[c] # "http", Book(c)',
         Tells(log, service', a), Tells(log \o <<a>>, service', b)
  PROVE  Books' /\ WellTold(log', service')
<1>0. log \in Seq(EventSet) /\ a.session[1] = c /\ b.session[1] = c
  BY DEF BooksInv, SourcesOK, SessionOf
<1> DEFINE one == log \o <<a>>
<1>1. one \in Seq(EventSet) /\ log' = one \o <<b>>
  BY <1>0, AppendTwo, AppendLog
<1>2. ASSUME NEW d \in Conns \ {c} PROVE Book(d)'
  <2>1. /\ \A t : Of(one, d, t) = Of(log, d, t)
        /\ \A i \in DOMAIN one : one[i].session[1] = d => i \in DOMAIN log /\ one[i] = log[i]
    BY <1>0, <1>2, OthersAppend
  <2> HIDE DEF one
  <2>2. /\ \A t : Of(log', d, t) = Of(one, d, t)
        /\ \A i \in DOMAIN log' : log'[i].session[1] = d => i \in DOMAIN one /\ log'[i] = one[i]
    <3>1. b.session[1] # d
      BY <1>0, <1>2
    <3>2. /\ \A t : Of(one \o <<b>>, d, t) = Of(one, d, t)
          /\ \A i \in DOMAIN (one \o <<b>>) : (one \o <<b>>)[i].session[1] = d =>
               i \in DOMAIN one /\ (one \o <<b>>)[i] = one[i]
      BY <1>1, <3>1, OthersAppend
    <3> QED BY <1>1, <3>2
  <2> QED BY <1>2, <2>1, <2>2, BookSame DEF BooksInv, Books
<1>3. OneSessionOf(log, c)
  BY DEF BooksInv, Books, Book, Owned
<1>4. WellTold(one, service')
  BY <1>0, <1>3, Settled, ToldMore
<1>5. OneSessionOf(one, c)
  BY <1>0, <1>3, AppendLog DEF OneSessionOf
<1> HIDE DEF one
<1>6. Tells(one, service', b)
  BY DEF one
<1>7. WellTold(log', service')
  BY <1>0, <1>1, <1>4, <1>5, <1>6, ToldMore
<1> QED BY <1>2, <1>7 DEF Books

-----------------------------------------------------------------------------
(* What the steps of the handlers have in common.                          *)

\* An answer changes what was given to its connection, for its type, by at most one.
LEMMA GivenRow ==
  ASSUME ServicesOK, NEW c \in Conns, NEW t \in Answered, Give(c, t)
  PROVE  /\ \A d \in Conns \ {c} : given'[d] = given[d]
         /\ \A u \in Answered \ {t} : given'[c][u] = given[c][u]
         /\ given'[c][t] \in {given[c][t], given[c][t] + 1}
         /\ \A u \in Answered : given[c][u] \in Nat
<1> DEFINE one == [given[c] EXCEPT ![t] = @ + 1]
<1>1. given[c] \in [Answered -> Nat]
  BY DEF ServicesOK
<1>2. /\ \A u \in Answered \ {t} : one[u] = given[c][u]
      /\ one[t] = given[c][t] + 1
  BY <1>1
<1>3. given' = [given EXCEPT ![c] = one] \/ given' = given
  BY DEF Give
<1> HIDE DEF one
<1> QED BY <1>1, <1>2, <1>3 DEF ServicesOK

\* The first event of a connection.
LEMMA FirstEvent ==
  ASSUME BooksInv, NEW c \in Conns, service[c] = "none", NEW e \in EventSet,
         e = Plain(SessionOf(c), "connect"), log' = log \o <<e>>,
         service'[c] \in {"ssh", "telnet", "ftp"}
  PROVE  /\ e.session[1] = c /\ Tells(log, service', e) /\ Owned(c)'
         /\ Of(log', c, "connect") = 1
         /\ \A t \in EventTypes \ {"connect"} : Of(log', c, t) = 0
         /\ \A t \in Answered : given[c][t] = 0
<1>1. log \in Seq(EventSet) /\ Book(c) /\ ServicesOK
  BY DEF BooksInv, SourcesOK, Books
<1>2. e.session = SessionOf(c) /\ e.session[1] = c /\ e.type = "connect"
  BY DEF Plain, Event, SessionOf
<1>3. \A i \in DOMAIN log : log[i].session[1] # c
  BY <1>1 DEF Book, Owned
<1>4. \A t : Of(log, c, t) = 0
  BY <1>1, <1>3, OfNone
<1>5. \A t : Of(log', c, t) = IF e.type = t THEN 1 ELSE 0
  BY <1>1, <1>2, <1>4, OfAppend
<1>6. OneSessionOf(log', c)
  BY <1>1, <1>2, <1>3, AppendLog DEF OneSessionOf
<1>7. Owned(c)'
  BY <1>2, <1>5, <1>6 DEF Owned
<1>8. Tells(log, service', e)
  BY <1>2, <1>3 DEF Tells
<1>9. \A t \in Answered : given[c][t] = 0
  BY <1>1, <1>4 DEF Book, Answers, ServicesOK
<1> QED BY <1>2, <1>5, <1>7, <1>8, <1>9

\* One more event of a connection that has one session.
LEMMA OneMore ==
  ASSUME NEW l \in Seq(EventSet), NEW c \in Conns, NEW e \in EventSet,
         e.session = SessionOf(c), OneSessionOf(l, c)
  PROVE  /\ e.session[1] = c /\ OneSessionOf(l \o <<e>>, c) /\ l \o <<e>> \in Seq(EventSet)
         /\ \A t : /\ Of(l, c, t) \in Nat
                   /\ Of(l \o <<e>>, c, t) = IF e.type = t THEN Of(l, c, t) + 1 ELSE Of(l, c, t)
<1>1. e.session[1] = c
  BY DEF SessionOf
<1>2. OneSessionOf(l \o <<e>>, c)
  BY <1>1, AppendLog DEF OneSessionOf
<1> QED BY <1>1, <1>2, OfAppend, OfType, AppendLog

\* What a further event of an open session changes in the counts.
LEMMA NextEvent ==
  ASSUME BooksInv, NEW c \in Conns, service[c] \in {"ssh", "telnet", "ftp"},
         service'[c] = service[c], NEW e \in EventSet, e.session = SessionOf(c),
         e.type # "connect", log' = log \o <<e>>
  PROVE  /\ e.session[1] = c /\ Owned(c)' /\ Of(log, c, "connect") = 1
         /\ \A t : /\ Of(log, c, t) \in Nat
                   /\ Of(log', c, t) = IF e.type = t THEN Of(log, c, t) + 1 ELSE Of(log, c, t)
<1>1. log \in Seq(EventSet) /\ OneSessionOf(log, c) /\ Of(log, c, "connect") = 1
  BY DEF BooksInv, SourcesOK, Books, Book, Owned
<1>2. /\ e.session[1] = c /\ OneSessionOf(log', c)
      /\ \A t : /\ Of(log, c, t) \in Nat
                /\ Of(log', c, t) = IF e.type = t THEN Of(log, c, t) + 1 ELSE Of(log, c, t)
  BY <1>1, OneMore
<1>3. Owned(c)'
  BY <1>1, <1>2 DEF Owned
<1> QED BY <1>1, <1>2, <1>3

\* The books of the services that c does not use.
LEMMA OtherBooks ==
  ASSUME BooksInv, NEW c \in Conns, service[c] = "none" \/ service'[c] = service[c]
  PROVE  /\ service[c] # "ssh" /\ service'[c] # "ssh" /\ shell'[c] = shell[c] => SshBook(c)'
         /\ service[c] # "telnet" /\ service'[c] # "telnet" /\ telnet'[c] = telnet[c] => TelnetBook(c)'
         /\ service[c] # "http" /\ service'[c] # "http" /\ http'[c] = http[c] => HttpBook(c)'
         /\ service'[c] # "ftp" => FtpBook(c)'
<1>1. SshBook(c) /\ TelnetBook(c) /\ HttpBook(c)
  BY DEF BooksInv, Books, Book
<1>2. service[c] # "ssh" /\ service'[c] # "ssh" /\ shell'[c] = shell[c] => SshBook(c)'
  BY <1>1 DEF SshBook
<1>3. service[c] # "telnet" /\ service'[c] # "telnet" /\ telnet'[c] = telnet[c] => TelnetBook(c)'
  BY <1>1 DEF TelnetBook
<1>4. service[c] # "http" /\ service'[c] # "http" /\ http'[c] = http[c] => HttpBook(c)'
  BY <1>1 DEF HttpBook
<1> QED BY <1>2, <1>3, <1>4 DEF FtpBook

\* A shell that moves to a stage.
LEMMA MovesTo ==
  ASSUME ServicesOK, NEW c \in Conns, NEW k \in Channels, NEW new \in ShellSet,
         shell' = [shell EXCEPT ![c] = [shell[c] EXCEPT ![k] = new]]
  PROVE  \A d \in Conns \ {c} : shell'[d] = shell[d]
BY DEF ServicesOK

\* The shells of c that are at a stage S, and one that comes or goes.
LEMMA Tallies ==
  ASSUME BooksInv, NEW c \in Conns, NEW S \in SUBSET Opened
  PROVE  IsFiniteSet(At(shell[c], S)) /\ Tally(shell[c], S) \in Nat
<1>1. IsFiniteSet(At(shell[c], Opened)) /\ At(shell[c], S) \subseteq At(shell[c], Opened)
  BY DEF BooksInv, Books, Book, SshBook, At
<1>2. IsFiniteSet(At(shell[c], S))
  BY <1>1, FS_Subset
<1> QED BY <1>2, FS_CardinalityType DEF Tally

\* What a step of the shell of channel k, to new, does to the tallies of its row.
Counts(row, next, k, new) ==
  /\ IsFiniteSet(At(next, Opened))
  /\ Tally(row, Opened) \in Nat /\ Tally(row, Closed) \in Nat
  /\ Tally(row, Running) \in Nat /\ Tally(next, Running) \in Nat
  /\ row[k].stage = "none" => Tally(next, Opened) = Tally(row, Opened) + 1
  /\ row[k].stage # "none" => /\ Tally(next, Opened) = Tally(row, Opened)
                              /\ Tally(row, Closed) < Tally(row, Opened)
  /\ new.stage = "done" => Tally(next, Closed) = Tally(row, Closed) + 1
  /\ new.stage # "done" => Tally(next, Closed) = Tally(row, Closed)
  /\ new.stage = "busy" => Tally(next, Running) = Tally(row, Running) + 1
  /\ new.stage # "busy" /\ row[k].stage = "busy" => Tally(next, Running) = Tally(row, Running) - 1
  /\ new.stage # "busy" /\ row[k].stage # "busy" => Tally(next, Running) = Tally(row, Running)

\* A shell that moves on changes the tallies of its row by itself only.
LEMMA RowCounts ==
  ASSUME NEW row \in [Channels -> ShellSet], NEW k \in Channels, NEW new \in ShellSet,
         NEW next, next = [row EXCEPT ![k] = new],
         row[k].stage \in {"none", "prompt", "busy"}, new.stage \in {"prompt", "busy", "done"},
         row[k].stage # new.stage,
         IsFiniteSet(At(row, Opened)), IsFiniteSet(At(row, Closed)), IsFiniteSet(At(row, Running))
  PROVE  Counts(row, next, k, new)
<1>1. ASSUME NEW S, IsFiniteSet(At(row, S))
      PROVE  /\ IsFiniteSet(At(next, S)) /\ Tally(next, S) \in Nat /\ Tally(row, S) \in Nat
             /\ new.stage \in S /\ row[k].stage \notin S => Tally(next, S) = Tally(row, S) + 1
             /\ new.stage \notin S /\ row[k].stage \in S => Tally(next, S) = Tally(row, S) - 1
             /\ (new.stage \in S <=> row[k].stage \in S) => Tally(next, S) = Tally(row, S)
  <2> DEFINE T == At(row, S)
  <2>1. \A x \in Channels : next[x] = IF x = k THEN new ELSE row[x]
    OBVIOUS
  <2>2. /\ new.stage \in S => At(next, S) = T \cup {k}
        /\ new.stage \notin S => At(next, S) = T \ {k}
        /\ k \in T <=> row[k].stage \in S
    BY <2>1 DEF At
  <2> HIDE DEF T
  <2>3. /\ IsFiniteSet(T \cup {k}) /\ IsFiniteSet(T \ {k}) /\ IsFiniteSet(T)
        /\ Cardinality(T \cup {k}) = IF k \in T THEN Cardinality(T) ELSE Cardinality(T) + 1
        /\ Cardinality(T \ {k}) = IF k \in T THEN Cardinality(T) - 1 ELSE Cardinality(T)
    BY <1>1, FS_AddElement, FS_RemoveElement DEF T
  <2>4. /\ Cardinality(T) \in Nat /\ Cardinality(T \cup {k}) \in Nat /\ Cardinality(T \ {k}) \in Nat
    BY <2>3, FS_CardinalityType
  <2>5. Tally(row, S) = Cardinality(T) /\ Tally(next, S) = Cardinality(At(next, S))
    BY DEF Tally, T
  <2>6. CASE new.stage \in S
    BY <2>2, <2>3, <2>4, <2>5, <2>6
  <2>7. CASE new.stage \notin S
    BY <2>2, <2>3, <2>4, <2>5, <2>7
  <2> QED BY <2>6, <2>7
<1>4. /\ IsFiniteSet(At(next, Opened)) /\ Tally(row, Opened) \in Nat
      /\ new.stage \in Opened /\ row[k].stage \notin Opened => Tally(next, Opened) = Tally(row, Opened) + 1
      /\ (new.stage \in Opened <=> row[k].stage \in Opened) => Tally(next, Opened) = Tally(row, Opened)
  BY <1>1
<1>5. /\ Tally(row, Closed) \in Nat
      /\ new.stage \in Closed /\ row[k].stage \notin Closed => Tally(next, Closed) = Tally(row, Closed) + 1
      /\ (new.stage \in Closed <=> row[k].stage \in Closed) => Tally(next, Closed) = Tally(row, Closed)
  BY <1>1
<1>6. /\ Tally(row, Running) \in Nat /\ Tally(next, Running) \in Nat
      /\ new.stage \in Running /\ row[k].stage \notin Running =>
           Tally(next, Running) = Tally(row, Running) + 1
      /\ new.stage \notin Running /\ row[k].stage \in Running =>
           Tally(next, Running) = Tally(row, Running) - 1
      /\ (new.stage \in Running <=> row[k].stage \in Running) => Tally(next, Running) = Tally(row, Running)
  BY <1>1
<1>7. row[k].stage # "none" => Tally(row, Closed) < Tally(row, Opened)
  <2> DEFINE O == At(row, Opened)
             D == At(row, Closed)
  <2> SUFFICES ASSUME row[k].stage # "none" PROVE Cardinality(D) < Cardinality(O)
    BY DEF Tally
  <2>1. k \in O /\ D \subseteq O \ {k}
    BY DEF At, Opened, Closed
  <2> HIDE DEF O, D
  <2>2. IsFiniteSet(O)
    BY DEF O
  <2>3. IsFiniteSet(O \ {k}) /\ Cardinality(O \ {k}) = Cardinality(O) - 1
    BY <2>1, <2>2, FS_RemoveElement
  <2>4. Cardinality(D) <= Cardinality(O \ {k}) /\ IsFiniteSet(D)
    BY <2>1, <2>3, FS_Subset
  <2> QED BY <2>2, <2>3, <2>4, FS_CardinalityType
<1>8. /\ new.stage \in Opened /\ (row[k].stage \in Opened <=> row[k].stage # "none")
      /\ row[k].stage \notin Closed /\ (new.stage \in Closed <=> new.stage = "done")
      /\ (new.stage \in Running <=> new.stage = "busy")
      /\ (row[k].stage \in Running <=> row[k].stage = "busy")
  BY DEF Opened, Closed, Running
<1>9. /\ row[k].stage = "none" => Tally(next, Opened) = Tally(row, Opened) + 1
      /\ row[k].stage # "none" => Tally(next, Opened) = Tally(row, Opened)
  BY <1>4, <1>8
<1>10. /\ new.stage = "done" => Tally(next, Closed) = Tally(row, Closed) + 1
       /\ new.stage # "done" => Tally(next, Closed) = Tally(row, Closed)
  BY <1>5, <1>8
<1>11. /\ new.stage = "busy" => Tally(next, Running) = Tally(row, Running) + 1
       /\ new.stage # "busy" /\ row[k].stage = "busy" => Tally(next, Running) = Tally(row, Running) - 1
       /\ new.stage # "busy" /\ row[k].stage # "busy" => Tally(next, Running) = Tally(row, Running)
  BY <1>6, <1>8
<1> QED BY <1>4, <1>5, <1>6, <1>7, <1>9, <1>10, <1>11 DEF Counts

\* The same, for the shells of a connection.
LEMMA ShellCounts ==
  ASSUME BooksInv, NEW c \in Conns, NEW k \in Channels, NEW new \in ShellSet,
         shell' = [shell EXCEPT ![c] = [shell[c] EXCEPT ![k] = new]],
         shell[c][k].stage \in {"none", "prompt", "busy"}, new.stage \in {"prompt", "busy", "done"},
         shell[c][k].stage # new.stage
  PROVE  Counts(shell[c], shell'[c], k, new)
<1>1. /\ shell'[c] = [shell[c] EXCEPT ![k] = new] /\ shell[c] \in [Channels -> ShellSet]
  BY DEF BooksInv, ServicesOK
<1>2. IsFiniteSet(At(shell[c], Opened)) /\ IsFiniteSet(At(shell[c], Closed))
      /\ IsFiniteSet(At(shell[c], Running))
  BY Tallies DEF Opened, Closed, Running
<1> QED BY <1>1, <1>2, RowCounts

-----------------------------------------------------------------------------
(* The steps of the SSH honeypot.                                          *)

\* The facts of a connection that SSH serves.
LEMMA SshFacts ==
  ASSUME BooksInv, NEW c \in Conns
  PROVE  /\ \A k \in Channels : shell[c][k].stage # "none" => service[c] = "ssh"
         /\ service[c] = "ssh" =>
              /\ Of(log, c, "connect") = 1 /\ OneSessionOf(log, c)
              /\ IsFiniteSet(At(shell[c], Opened))
              /\ Of(log, c, "auth_success") = Tally(shell[c], Opened)
              /\ Of(log, c, "disconnect") = Tally(shell[c], Closed)
              /\ given[c]["command"] + Tally(shell[c], Running) <= Of(log, c, "command")
         /\ \A t \in Answered : given[c][t] <= Of(log, c, t) /\ given[c][t] \in Nat
         /\ Tally(shell[c], Running) \in Nat
<1>1. SshBook(c) /\ Owned(c) /\ Answers(c) /\ ServicesOK
  BY DEF BooksInv, Books, Book
<1>2. \A k \in Channels : shell[c][k].stage # "none" => k \in At(shell[c], Opened)
  <2>1. \A k \in Channels : shell[c][k].stage \in Stages
    BY <1>1 DEF ServicesOK, ShellSet
  <2> QED BY <2>1 DEF At, Stages, Opened
<1>3. Tally(shell[c], Running) \in Nat
  BY Tallies DEF Opened, Running
<1> QED BY <1>1, <1>2, <1>3 DEF SshBook, Owned, Answers, ServicesOK

\* Answers are covered by the events as long as no answer is given.
LEMMA AnswersSame ==
  ASSUME BooksInv, NEW c \in Conns, given' = given, NEW e,
         \A t : /\ Of(log, c, t) \in Nat
                /\ Of(log', c, t) = IF e.type = t THEN Of(log, c, t) + 1 ELSE Of(log, c, t)
  PROVE  Answers(c)'
<1>1. \A t \in Answered : given[c][t] <= Of(log, c, t) /\ given[c][t] \in Nat
  BY DEF BooksInv, Books, Book, Answers, ServicesOK
<1>2. ASSUME NEW t \in Answered PROVE given'[c][t] <= Of(log', c, t)
  <2>1. given[c][t] <= Of(log, c, t) /\ given[c][t] \in Nat /\ Of(log, c, t) \in Nat
    BY <1>1
  <2>2. Of(log', c, t) >= Of(log, c, t)
    BY <2>1
  <2>3. Of(log', c, t) \in Nat
    BY <2>1
  <2> QED BY <2>1, <2>2, <2>3
<1> QED BY <1>2 DEF Answers

\* The steps of an SSH connection keep the books of all connections.
LEMMA SshBooks ==
  ASSUME BooksInv, NEW c \in Conns, SshNext(c), UNCHANGED <<telnetVars, httpVars>>
  PROVE  Books' /\ WellTold(log', service')
<1> USE DEF telnetVars, httpVars, NoRead, Accept, Read
<1>0. ServicesOK /\ SourcesOK /\ log \in Seq(EventSet) /\ SessionOf(c) \in Sessions
  BY EventLogAssumption DEF BooksInv, SourcesOK, SessionOf, Sessions
<1>facts. /\ \A k \in Channels : shell[c][k].stage # "none" => service[c] = "ssh"
          /\ service[c] = "ssh" =>
               /\ Of(log, c, "connect") = 1 /\ OneSessionOf(log, c)
               /\ IsFiniteSet(At(shell[c], Opened))
               /\ Of(log, c, "auth_success") = Tally(shell[c], Opened)
               /\ Of(log, c, "disconnect") = Tally(shell[c], Closed)
               /\ given[c]["command"] + Tally(shell[c], Running) <= Of(log, c, "command")
          /\ \A t \in Answered : given[c][t] <= Of(log, c, t) /\ given[c][t] \in Nat
          /\ Tally(shell[c], Running) \in Nat
  BY SshFacts
<1>1. CASE SshConnect(c)
  <2> DEFINE e == Plain(SessionOf(c), "connect")
  <2>1. e \in EventSet
    BY <1>0, EventType DEF Text, EventTypes
  <2>2. log' = log \o <<e>> /\ service[c] = "none" /\ service'[c] = "ssh"
    BY <1>0, <1>1 DEF SshConnect, Write, ServicesOK
  <2>3. \A d \in Conns \ {c} : Same(d)
    BY <1>0, <1>1 DEF SshConnect, Same, ServicesOK, sshVars
  <2>4. /\ e.session[1] = c /\ Tells(log, service', e) /\ Owned(c)'
        /\ \A t \in EventTypes \ {"connect"} : Of(log', c, t) = 0
        /\ \A t \in Answered : given[c][t] = 0
    BY <2>1, <2>2, FirstEvent
  <2> HIDE DEF e
  <2>5. TelnetBook(c)' /\ HttpBook(c)' /\ FtpBook(c)'
    BY <1>1, <2>2, OtherBooks DEF SshConnect
  <2>6. shell' = shell /\ given' = given
    BY <1>1 DEF SshConnect, sshVars
  <2>7. Answers(c)'
    BY <2>4, <2>6 DEF Answers, EventTypes, Answered
  <2>8. SshBook(c)'
    <3>1. At(shell[c], Opened) = {} /\ At(shell[c], Closed) = {} /\ At(shell[c], Running) = {}
      <4>1. At(shell[c], Opened) = {}
        BY <2>2 DEF BooksInv, Books, Book, SshBook
      <4> QED BY <4>1 DEF At, Opened, Closed, Running
    <3>2. Cardinality({}) = 0 /\ IsFiniteSet({})
      BY FS_EmptySet
    <3>3. /\ Of(log', c, "auth_success") = 0 /\ Of(log', c, "disconnect") = 0
          /\ Of(log', c, "command") = 0 /\ given'[c]["command"] = 0
      BY <2>4, <2>6 DEF EventTypes, Answered
    <3>4. shell'[c] = shell[c]
      BY <2>6
    <3>5. /\ IsFiniteSet(At(shell'[c], Opened)) /\ Tally(shell'[c], Opened) = 0
          /\ Tally(shell'[c], Closed) = 0 /\ Tally(shell'[c], Running) = 0
      BY <3>1, <3>2, <3>4 DEF Tally
    <3> QED BY <2>2, <3>3, <3>5 DEF SshBook
  <2> QED BY <2>1, <2>2, <2>3, <2>4, <2>5, <2>7, <2>8, BookOne DEF Book
<1>2. ASSUME NEW u \in Users, NEW p \in Passwords, SshPassword(c, u, p)
      PROVE  Books' /\ WellTold(log', service')
  <2> DEFINE e == Event(SessionOf(c), "auth_attempt", u, p)
  <2>1. e \in EventSet /\ e.session = SessionOf(c) /\ e.type = "auth_attempt"
    BY CredentialType DEF Text
  <2>2. log' = log \o <<e>> /\ service[c] = "ssh" /\ service' = service
        /\ shell' = shell /\ telnet' = telnet /\ http' = http /\ Give(c, "auth_attempt")
    BY <1>2 DEF SshPassword, Write
  <2> HIDE DEF e
  <2>3. "auth_attempt" \in Answered /\ "command" \in Answered
    BY DEF Answered
  <2>4. /\ \A d \in Conns \ {c} : given'[d] = given[d]
        /\ \A v \in Answered \ {"auth_attempt"} : given'[c][v] = given[c][v]
        /\ given'[c]["auth_attempt"] \in {given[c]["auth_attempt"], given[c]["auth_attempt"] + 1}
        /\ \A v \in Answered : given[c][v] \in Nat
    BY <1>0, <2>2, <2>3, GivenRow
  <2>5. \A d \in Conns \ {c} : Same(d)
    BY <1>0, <1>2, <2>2, <2>4 DEF SshPassword, Same, SourcesOK
  <2>6. /\ e.session[1] = c /\ Owned(c)' /\ Of(log, c, "connect") = 1
        /\ \A t : /\ Of(log, c, t) \in Nat
                  /\ Of(log', c, t) = IF e.type = t THEN Of(log, c, t) + 1 ELSE Of(log, c, t)
    BY <2>1, <2>2, NextEvent
  <2>7. Tells(log, service', e)
    BY <2>1, <2>2, <2>6 DEF Tells
  <2>8. TelnetBook(c)' /\ HttpBook(c)' /\ FtpBook(c)'
    BY <2>2, OtherBooks
  <2>9. SshBook(c)'
    <3>1. SshBook(c)
      BY DEF BooksInv, Books, Book
    <3> QED BY <2>1, <2>2, <2>3, <2>4, <2>6, <3>1 DEF SshBook
  <2>10. Answers(c)'
    <3>1. \A t \in Answered : given[c][t] <= Of(log, c, t)
      BY DEF BooksInv, Books, Book, Answers
    <3> QED BY <2>1, <2>3, <2>4, <2>6, <3>1 DEF Answers
  <2> QED BY <2>1, <2>2, <2>5, <2>6, <2>7, <2>8, <2>9, <2>10, BookOne DEF Book
<1>3. ASSUME NEW k \in Channels, SshShell(c, k)
      PROVE  Books' /\ WellTold(log', service')
  <2> DEFINE e == Event(SessionOf(c), "auth_success", sshUser[c], NoText)
             new == [shell[c][k] EXCEPT !.stage = "prompt"]
  <2>1. e \in EventSet /\ e.session = SessionOf(c) /\ e.type = "auth_success"
    <3>1. sshUser[c] \in Text(Users) /\ NoText \in Text(Passwords)
      BY <1>0 DEF SourcesOK, Text
    <3> QED BY <3>1, CredentialType
  <2>2. log' = log \o <<e>> /\ service[c] = "ssh" /\ service' = service
        /\ telnet' = telnet /\ http' = http /\ request' = request /\ given' = given
        /\ inputs' = inputs /\ shell[c][k].stage = "none"
    BY <1>3 DEF SshShell, Write
  <2> HIDE DEF e
  <2>3. /\ shell' = [shell EXCEPT ![c] = [shell[c] EXCEPT ![k] = new]]
        /\ new \in ShellSet /\ new.stage = "prompt"
    <3>1. shell[c][k] \in ShellSet
      BY <1>0 DEF ServicesOK
    <3>2. new.stage = "prompt"
      BY <3>1 DEF ShellSet
    <3> QED BY <1>0, <1>3, <3>2, StageShell DEF SshShell, Stages
  <2> HIDE DEF new
  <2>4. \A d \in Conns \ {c} : Same(d)
    BY <1>0, <2>2, <2>3, MovesTo DEF Same
  <2>5. /\ e.session[1] = c /\ Owned(c)' /\ Of(log, c, "connect") = 1
        /\ \A t : /\ Of(log, c, t) \in Nat
                  /\ Of(log', c, t) = IF e.type = t THEN Of(log, c, t) + 1 ELSE Of(log, c, t)
    BY <2>1, <2>2, NextEvent
  <2>6. Tells(log, service', e)
    BY <2>1, <2>2, <2>5 DEF Tells
  <2>7. TelnetBook(c)' /\ HttpBook(c)' /\ FtpBook(c)'
    BY <2>2, OtherBooks
  <2>8. SshBook(c)'
    <3>0. Counts(shell[c], shell'[c], k, new)
      BY <2>2, <2>3, ShellCounts
    <3>1. /\ Of(log, c, "auth_success") = Tally(shell[c], Opened)
          /\ Of(log, c, "disconnect") = Tally(shell[c], Closed)
          /\ given[c]["command"] + Tally(shell[c], Running) <= Of(log, c, "command")
          /\ given[c]["command"] \in Nat /\ Of(log, c, "command") \in Nat
      BY <2>2, <2>5, <1>facts DEF Answered
    <3>2. /\ Of(log', c, "auth_success") = Of(log, c, "auth_success") + 1
          /\ Of(log', c, "disconnect") = Of(log, c, "disconnect")
          /\ Of(log', c, "command") = Of(log, c, "command")
      BY <2>1, <2>5
    <3>3. /\ IsFiniteSet(At(shell'[c], Opened)) /\ Tally(shell[c], Opened) \in Nat
          /\ Tally(shell'[c], Opened) = Tally(shell[c], Opened) + 1
          /\ Tally(shell'[c], Closed) = Tally(shell[c], Closed)
          /\ Tally(shell[c], Running) \in Nat /\ Tally(shell'[c], Running) \in Nat
          /\ Tally(shell'[c], Running) = Tally(shell[c], Running)
      BY <2>2, <2>3, <3>0 DEF Counts
    <3> QED BY <2>2, <3>1, <3>2, <3>3 DEF SshBook
  <2>9. Answers(c)'
    BY <2>2, <2>5, AnswersSame
  <2> QED BY <2>1, <2>2, <2>4, <2>5, <2>6, <2>7, <2>8, <2>9, BookOne DEF Book
<1>4. ASSUME NEW k \in Channels, NEW l \in Lines, SshLine(c, k, l)
      PROVE  Books' /\ WellTold(log', service')
  <2> DEFINE e == Plain(SessionOf(c), "command")
             new == [shell[c][k] EXCEPT !.stage = "busy", !.line = l]
  <2>1. e \in EventSet /\ e.session = SessionOf(c) /\ e.type = "command"
    BY <1>0, EventType DEF Plain, Event, Text, EventTypes, Answered
  <2>2. log' = log \o <<e>> /\ service' = service
        /\ telnet' = telnet /\ http' = http /\ request' = request /\ given' = given
        /\ shell[c][k].stage = "prompt"
    BY <1>4 DEF SshLine, Write
  <2> HIDE DEF e
  <2>3. /\ shell' = [shell EXCEPT ![c] = [shell[c] EXCEPT ![k] = new]]
        /\ new \in ShellSet /\ new.stage = "busy"
    <3>1. shell' = [shell EXCEPT ![c][k].stage = "busy", ![c][k].line = l]
      BY <1>4, Zenon DEF SshLine
    <3>2. [shell EXCEPT ![c][k].stage = "busy", ![c][k].line = l] =
            [shell EXCEPT ![c] = [shell[c] EXCEPT ![k] = new]] /\ new \in ShellSet
      BY <1>0, LineShell
    <3>3. new.stage = "busy"
      <4>1. shell[c][k] \in ShellSet
        BY <1>0 DEF ServicesOK
      <4> QED BY <4>1 DEF ShellSet
    <3> HIDE DEF new
    <3>4. shell' = [shell EXCEPT ![c] = [shell[c] EXCEPT ![k] = new]]
      BY <3>1, <3>2, Zenon
    <3> QED BY <3>2, <3>3, <3>4
  <2> HIDE DEF new
  <2>4. service[c] = "ssh"
    BY <2>2, <1>facts
  <2>5. \A d \in Conns \ {c} : Same(d)
    <3>1. \A d \in Conns \ {c} : inputs'[d] = inputs[d]
      BY <1>0, <1>4 DEF SshLine, SourcesOK
    <3> QED BY <1>0, <2>2, <2>3, <3>1, MovesTo DEF Same
  <2>6. /\ e.session[1] = c /\ Owned(c)'
        /\ \A t : /\ Of(log, c, t) \in Nat
                  /\ Of(log', c, t) = IF e.type = t THEN Of(log, c, t) + 1 ELSE Of(log, c, t)
    BY <2>1, <2>2, <2>4, NextEvent
  <2>7. TelnetBook(c)' /\ HttpBook(c)' /\ FtpBook(c)'
    BY <2>2, <2>4, OtherBooks
  <2>8. Counts(shell[c], shell'[c], k, new)
    BY <2>2, <2>3, ShellCounts
  <2>9. SshBook(c)'
    <3>1. /\ Of(log, c, "auth_success") = Tally(shell[c], Opened)
          /\ Of(log, c, "disconnect") = Tally(shell[c], Closed)
          /\ given[c]["command"] + Tally(shell[c], Running) <= Of(log, c, "command")
          /\ given[c]["command"] \in Nat /\ Of(log, c, "command") \in Nat
      BY <2>4, <2>6, <1>facts DEF Answered
    <3>2. /\ Of(log', c, "auth_success") = Of(log, c, "auth_success")
          /\ Of(log', c, "disconnect") = Of(log, c, "disconnect")
          /\ Of(log', c, "command") = Of(log, c, "command") + 1
      BY <2>1, <2>6
    <3>3. /\ IsFiniteSet(At(shell'[c], Opened)) /\ Tally(shell[c], Opened) \in Nat
          /\ Tally(shell'[c], Opened) = Tally(shell[c], Opened)
          /\ Tally(shell'[c], Closed) = Tally(shell[c], Closed)
          /\ Tally(shell[c], Running) \in Nat /\ Tally(shell'[c], Running) \in Nat
          /\ Tally(shell'[c], Running) = Tally(shell[c], Running) + 1
      BY <2>2, <2>3, <2>8 DEF Counts
    <3> QED BY <2>2, <2>4, <3>1, <3>2, <3>3 DEF SshBook
  <2>10. Tells(log, service', e)
    <3>1. Of(log, c, "auth_success") > Of(log, c, "disconnect")
      <4>1. Of(log, c, "auth_success") = Tally(shell[c], Opened)
            /\ Of(log, c, "disconnect") = Tally(shell[c], Closed)
        BY <2>4, <1>facts
      <4>2. Tally(shell[c], Closed) < Tally(shell[c], Opened)
            /\ Tally(shell[c], Closed) \in Nat /\ Tally(shell[c], Opened) \in Nat
        BY <2>2, <2>8 DEF Counts
      <4> QED BY <4>1, <4>2
    <3> QED BY <2>1, <2>2, <2>4, <2>6, <3>1 DEF Tells
  <2>11. Answers(c)'
    BY <2>2, <2>6, AnswersSame
  <2> QED BY <2>1, <2>2, <2>5, <2>6, <2>7, <2>9, <2>10, <2>11, BookOne DEF Book
<1>5. ASSUME NEW k \in Channels, SshRun(c, k)
      PROVE  Books' /\ WellTold(log', service')
  <2> DEFINE new == [shell[c][k] EXCEPT !.stage = "prompt",
                                        !.cwd = CwdAfter(@, shell[c][k].line)]
  <2>1. log' = log /\ service' = service /\ inputs' = inputs
        /\ telnet' = telnet /\ http' = http /\ request' = request /\ Give(c, "command")
        /\ shell[c][k].stage = "busy"
    BY <1>5 DEF SshRun
  <2>2. /\ shell' = [shell EXCEPT ![c] = [shell[c] EXCEPT ![k] = new]]
        /\ new \in ShellSet /\ new.stage = "prompt"
    <3>1. new \in ShellSet
      BY <1>0, RunShell
    <3>2. new.stage = "prompt"
      <4>1. shell[c][k] \in ShellSet
        BY <1>0 DEF ServicesOK
      <4> QED BY <4>1 DEF ShellSet
    <3>3. shell' = [shell EXCEPT ![c][k].stage = "prompt",
                                 ![c][k].cwd = CwdAfter(@, shell[c][k].line)]
      BY <1>5, Zenon DEF SshRun
    <3>4. [shell EXCEPT ![c][k].stage = "prompt",
                        ![c][k].cwd = CwdAfter(@, shell[c][k].line)] =
            [shell EXCEPT ![c] = [shell[c] EXCEPT ![k] = new]]
      BY <1>0, RunShell, Zenon
    <3> HIDE DEF new
    <3> QED BY <3>1, <3>2, <3>3, <3>4, Zenon
  <2> HIDE DEF new
  <2>3. service[c] = "ssh" /\ "command" \in Answered
    BY <2>1, <1>facts DEF Answered
  <2>4. /\ \A d \in Conns \ {c} : given'[d] = given[d]
        /\ \A v \in Answered \ {"command"} : given'[c][v] = given[c][v]
        /\ given'[c]["command"] \in {given[c]["command"], given[c]["command"] + 1}
        /\ \A v \in Answered : given[c][v] \in Nat
    BY <1>0, <2>1, <2>3, GivenRow
  <2>5. \A d \in Conns \ {c} : Same(d)
    BY <1>0, <2>1, <2>2, <2>4, MovesTo DEF Same
  <2>6. TelnetBook(c)' /\ HttpBook(c)' /\ FtpBook(c)'
    BY <2>1, <2>3, OtherBooks
  <2>7. Counts(shell[c], shell'[c], k, new)
    BY <2>1, <2>2, ShellCounts
  <2>8. \A t : Of(log, c, t) \in Nat
    BY <1>0, OfType
  <2>9. SshBook(c)'
    <3>1. /\ Of(log, c, "auth_success") = Tally(shell[c], Opened)
          /\ Of(log, c, "disconnect") = Tally(shell[c], Closed)
          /\ given[c]["command"] + Tally(shell[c], Running) <= Of(log, c, "command")
          /\ given[c]["command"] \in Nat /\ Of(log, c, "command") \in Nat
      BY <2>3, <2>8, <1>facts DEF Answered
    <3>2. /\ Of(log', c, "auth_success") = Of(log, c, "auth_success")
          /\ Of(log', c, "disconnect") = Of(log, c, "disconnect")
          /\ Of(log', c, "command") = Of(log, c, "command")
      BY <2>1
    <3>3. /\ IsFiniteSet(At(shell'[c], Opened)) /\ Tally(shell[c], Opened) \in Nat
          /\ Tally(shell'[c], Opened) = Tally(shell[c], Opened)
          /\ Tally(shell'[c], Closed) = Tally(shell[c], Closed)
          /\ Tally(shell[c], Running) \in Nat /\ Tally(shell'[c], Running) \in Nat
          /\ Tally(shell'[c], Running) = Tally(shell[c], Running) - 1
      BY <2>1, <2>2, <2>7 DEF Counts
    <3>4. given'[c]["command"] <= given[c]["command"] + 1 /\ given'[c]["command"] \in Nat
      BY <2>4, <3>1
    <3> QED BY <2>1, <2>3, <3>1, <3>2, <3>3, <3>4 DEF SshBook
  <2>10. Answers(c)'
    <3>1. given'[c]["command"] <= Of(log, c, "command")
      <4>1. given[c]["command"] + Tally(shell[c], Running) <= Of(log, c, "command")
            /\ given[c]["command"] \in Nat
        BY <2>3, <1>facts
      <4>2. Tally(shell'[c], Running) = Tally(shell[c], Running) - 1
            /\ Tally(shell'[c], Running) \in Nat /\ Tally(shell[c], Running) \in Nat
        BY <2>1, <2>2, <2>7 DEF Counts
      <4>3. given'[c]["command"] <= given[c]["command"] + 1 /\ given'[c]["command"] \in Nat
        BY <2>4, <4>1
      <4> QED BY <2>8, <4>1, <4>2, <4>3
    <3>2. \A t \in Answered : given'[c][t] <= Of(log, c, t)
      BY <2>4, <3>1, <1>facts
    <3> QED BY <2>1, <3>2 DEF Answers
  <2>11. Owned(c)'
    BY <2>1 DEF BooksInv, Books, Book, Owned
  <2> QED BY <2>1, <2>5, <2>6, <2>9, <2>10, <2>11, BookNone DEF Book
<1>6. ASSUME NEW k \in Channels, SshEnd(c, k)
      PROVE  Books' /\ WellTold(log', service')
  <2> DEFINE e == Plain(SessionOf(c), "disconnect")
             new == [shell[c][k] EXCEPT !.stage = "done"]
  <2>1. e \in EventSet /\ e.session = SessionOf(c) /\ e.type = "disconnect"
    BY <1>0, EventType DEF Plain, Event, Text, EventTypes
  <2>2. log' = log \o <<e>> /\ service' = service /\ inputs' = inputs
        /\ telnet' = telnet /\ http' = http /\ request' = request /\ given' = given
        /\ shell[c][k].stage \in {"prompt", "busy"}
    BY <1>6 DEF SshEnd, Write
  <2> HIDE DEF e
  <2>3. /\ shell' = [shell EXCEPT ![c] = [shell[c] EXCEPT ![k] = new]]
        /\ new \in ShellSet /\ new.stage = "done"
    <3>1. shell[c][k] \in ShellSet
      BY <1>0 DEF ServicesOK
    <3>2. new.stage = "done"
      BY <3>1 DEF ShellSet
    <3> QED BY <1>0, <1>6, <3>2, StageShell DEF SshEnd, Stages
  <2> HIDE DEF new
  <2>4. service[c] = "ssh"
    BY <2>2, <1>facts
  <2>5. \A d \in Conns \ {c} : Same(d)
    BY <1>0, <2>2, <2>3, MovesTo DEF Same
  <2>6. /\ e.session[1] = c /\ Owned(c)'
        /\ \A t : /\ Of(log, c, t) \in Nat
                  /\ Of(log', c, t) = IF e.type = t THEN Of(log, c, t) + 1 ELSE Of(log, c, t)
    BY <2>1, <2>2, <2>4, NextEvent
  <2>7. TelnetBook(c)' /\ HttpBook(c)' /\ FtpBook(c)'
    BY <2>2, <2>4, OtherBooks
  <2>8. Counts(shell[c], shell'[c], k, new)
    BY <2>2, <2>3, ShellCounts
  <2>9. SshBook(c)'
    <3>1. /\ Of(log, c, "auth_success") = Tally(shell[c], Opened)
          /\ Of(log, c, "disconnect") = Tally(shell[c], Closed)
          /\ given[c]["command"] + Tally(shell[c], Running) <= Of(log, c, "command")
          /\ given[c]["command"] \in Nat /\ Of(log, c, "command") \in Nat
      BY <2>4, <2>6, <1>facts DEF Answered
    <3>2. /\ Of(log', c, "auth_success") = Of(log, c, "auth_success")
          /\ Of(log', c, "disconnect") = Of(log, c, "disconnect") + 1
          /\ Of(log', c, "command") = Of(log, c, "command")
      BY <2>1, <2>6
    <3>3. /\ IsFiniteSet(At(shell'[c], Opened)) /\ Tally(shell[c], Opened) \in Nat
          /\ Tally(shell'[c], Opened) = Tally(shell[c], Opened)
          /\ Tally(shell'[c], Closed) = Tally(shell[c], Closed) + 1
          /\ Tally(shell[c], Running) \in Nat /\ Tally(shell'[c], Running) \in Nat
          /\ Tally(shell'[c], Running) <= Tally(shell[c], Running)
      BY <2>2, <2>3, <2>8 DEF Counts
    <3> QED BY <2>2, <2>4, <3>1, <3>2, <3>3 DEF SshBook
  <2>10. Tells(log, service', e)
    <3>1. Of(log, c, "auth_success") > Of(log, c, "disconnect")
      <4>1. Of(log, c, "auth_success") = Tally(shell[c], Opened)
            /\ Of(log, c, "disconnect") = Tally(shell[c], Closed)
        BY <2>4, <1>facts
      <4>2. Tally(shell[c], Closed) < Tally(shell[c], Opened)
            /\ Tally(shell[c], Closed) \in Nat /\ Tally(shell[c], Opened) \in Nat
        BY <2>2, <2>8 DEF Counts
      <4> QED BY <4>1, <4>2
    <3> QED BY <2>1, <2>2, <2>4, <2>6, <3>1 DEF Tells
  <2>11. Answers(c)'
    BY <2>2, <2>6, AnswersSame
  <2> QED BY <2>1, <2>2, <2>5, <2>6, <2>7, <2>9, <2>10, <2>11, BookOne DEF Book
<1> QED BY <1>1, <1>2, <1>3, <1>4, <1>5, <1>6 DEF SshNext

-----------------------------------------------------------------------------
(* The steps of the Telnet honeypot.                                       *)

\* What one event of c more, e, does to the counts of a log that becomes m.
Adds(l, c, e, m) ==
  \A t : Of(l, c, t) \in Nat /\ Of(m, c, t) = IF e.type = t THEN Of(l, c, t) + 1 ELSE Of(l, c, t)

\* Two more events of a connection that has one session.
LEMMA NextTwo ==
  ASSUME BooksInv, NEW c \in Conns, service[c] \in {"ssh", "telnet", "ftp"},
         service'[c] = service[c], NEW a \in EventSet, NEW b \in EventSet,
         a.session = SessionOf(c), a.type # "connect",
         b.session = SessionOf(c), b.type # "connect", log' = log \o <<a, b>>
  PROVE  /\ Owned(c)' /\ a.session[1] = c /\ b.session[1] = c
         /\ Of(log, c, "connect") = 1 /\ Of(log \o <<a>>, c, "connect") = 1
         /\ Adds(log, c, a, log \o <<a>>) /\ Adds(log \o <<a>>, c, b, log')
<1>1. log \in Seq(EventSet) /\ OneSessionOf(log, c) /\ Of(log, c, "connect") = 1
  BY DEF BooksInv, SourcesOK, Books, Book, Owned
<1> DEFINE one == log \o <<a>>
<1>2. /\ a.session[1] = c /\ OneSessionOf(one, c) /\ one \in Seq(EventSet)
      /\ \A t : /\ Of(log, c, t) \in Nat
                /\ Of(one, c, t) = IF a.type = t THEN Of(log, c, t) + 1 ELSE Of(log, c, t)
  BY <1>1, OneMore
<1>3. log' = one \o <<b>>
  <2>1. log \in Seq(EventSet)
    BY <1>1
  <2>2. log \o <<a, b>> = one \o <<b>>
    BY <2>1, AppendTwo
  <2> QED BY <2>2
<1> HIDE DEF one
<1>4. /\ b.session[1] = c /\ OneSessionOf(one \o <<b>>, c)
      /\ \A t : Of(one \o <<b>>, c, t) = IF b.type = t THEN Of(one, c, t) + 1 ELSE Of(one, c, t)
  BY <1>2, OneMore
<1>5. \A t : Of(log', c, t) = IF b.type = t THEN Of(one, c, t) + 1 ELSE Of(one, c, t)
  BY <1>3, <1>4
<1>6. Of(one, c, "connect") = 1 /\ Of(log', c, "connect") = 1
  BY <1>1, <1>2, <1>5
<1>7. Owned(c)'
  BY <1>3, <1>4, <1>6 DEF Owned
<1>8. \A t : Of(one, c, t) \in Nat
  BY <1>2, OfType
<1> QED BY <1>1, <1>2, <1>4, <1>5, <1>6, <1>7, <1>8 DEF one, Adds

\* Answers are covered by the events when the input of an answer was just logged.
LEMMA AnswersNow ==
  ASSUME BooksInv, NEW c \in Conns, NEW u \in Answered, Give(c, u),
         \A t : Of(log', c, t) \in Nat /\ Of(log', c, t) >= Of(log, c, t),
         Of(log', c, u) >= Of(log, c, u) + 1
  PROVE  Answers(c)' /\ \A d \in Conns \ {c} : given'[d] = given[d]
<1>1. \A t \in Answered : given[c][t] <= Of(log, c, t) /\ given[c][t] \in Nat
  BY DEF BooksInv, Books, Book, Answers, ServicesOK
<1>2. /\ \A d \in Conns \ {c} : given'[d] = given[d]
      /\ \A t \in Answered \ {u} : given'[c][t] = given[c][t]
      /\ given'[c][u] \in {given[c][u], given[c][u] + 1}
  BY GivenRow DEF BooksInv
<1>3. ASSUME NEW t \in Answered PROVE given'[c][t] <= Of(log', c, t)
  <2>1. /\ given[c][t] <= Of(log, c, t) /\ given[c][t] \in Nat
        /\ Of(log', c, t) \in Nat /\ Of(log', c, t) >= Of(log, c, t) /\ Of(log, c, t) \in Nat
    BY <1>1, OfType DEF BooksInv, SourcesOK
  <2>2. CASE t = u
    BY <1>2, <2>1, <2>2
  <2>3. CASE t # u
    <3>1. given'[c][t] = given[c][t]
      BY <1>2, <2>3
    <3> QED BY <2>1, <3>1
  <2> QED BY <2>2, <2>3
<1> QED BY <1>2, <1>3 DEF Answers

\* The facts of a connection that Telnet serves.
LEMMA TelnetFacts ==
  ASSUME BooksInv, NEW c \in Conns, telnet[c] # "none"
  PROVE  /\ service[c] = "telnet" /\ Of(log, c, "connect") = 1 /\ Owned(c)
         /\ telnet[c] # "done" => Of(log, c, "disconnect") = 0
         /\ telnet[c] = "busy" => given[c]["command"] + 1 <= Of(log, c, "command")
BY DEF BooksInv, Books, Book, Owned, TelnetBook

\* The steps of a Telnet connection keep the books.
LEMMA TelnetBooks ==
  ASSUME BooksInv, NEW c \in Conns, TelnetNext(c), UNCHANGED <<sshVars, httpVars>>
  PROVE  Books' /\ WellTold(log', service')
<1> USE DEF sshVars, httpVars, NoRead, Accept, Read
<1>0. ServicesOK /\ SourcesOK /\ log \in Seq(EventSet) /\ SessionOf(c) \in Sessions
  BY EventLogAssumption DEF BooksInv, SourcesOK, SessionOf, Sessions
<1>1. CASE TelnetConnect(c)
  <2> DEFINE e == Plain(SessionOf(c), "connect")
  <2>1. e \in EventSet
    BY <1>0, EventType DEF Text, EventTypes
  <2>2. log' = log \o <<e>> /\ service[c] = "none" /\ service'[c] = "telnet" /\ telnet'[c] = "login"
    BY <1>0, <1>1 DEF TelnetConnect, Write, ServicesOK
  <2>3. \A d \in Conns \ {c} : Same(d)
    BY <1>0, <1>1 DEF TelnetConnect, Same, ServicesOK
  <2>4. /\ e.session[1] = c /\ Tells(log, service', e) /\ Owned(c)'
        /\ \A t \in EventTypes \ {"connect"} : Of(log', c, t) = 0
        /\ \A t \in Answered : given[c][t] = 0
    BY <2>1, <2>2, FirstEvent
  <2> HIDE DEF e
  <2>5. SshBook(c)' /\ HttpBook(c)' /\ FtpBook(c)'
    BY <1>1, <2>2, OtherBooks DEF TelnetConnect
  <2>6. given' = given
    BY <1>1 DEF TelnetConnect
  <2>7. Answers(c)'
    BY <2>4, <2>6 DEF Answers, EventTypes, Answered
  <2>8. TelnetBook(c)'
    BY <2>2, <2>4 DEF TelnetBook, EventTypes, Answered
  <2> QED BY <2>1, <2>2, <2>3, <2>4, <2>5, <2>7, <2>8, BookOne DEF Book
<1>2. ASSUME NEW u \in Text(Users), TelnetLogin(c, u)
      PROVE  Books' /\ WellTold(log', service')
  <2>1. log' = log /\ service' = service /\ given' = given /\ shell' = shell /\ http' = http
        /\ request' = request /\ telnet[c] = "login" /\ telnet' = [telnet EXCEPT ![c] = "password"]
    BY <1>2 DEF TelnetLogin, Readline
  <2>2. \A d \in Conns \ {c} : Same(d)
    BY <1>0, <1>2, <2>1 DEF TelnetLogin, Readline, Same, ServicesOK, SourcesOK
  <2>3. service[c] = "telnet" /\ telnet'[c] = "password" /\ Of(log, c, "disconnect") = 0
    BY <1>0, <2>1, TelnetFacts DEF ServicesOK
  <2>4. SshBook(c)' /\ HttpBook(c)' /\ FtpBook(c)'
    BY <2>1, <2>3, OtherBooks
  <2>5. TelnetBook(c)'
    BY <2>1, <2>3 DEF TelnetBook
  <2>6. Owned(c)' /\ Answers(c)'
    BY <2>1 DEF BooksInv, Books, Book, Owned, Answers
  <2> QED BY <2>1, <2>2, <2>4, <2>5, <2>6, BookNone DEF Book
<1>3. ASSUME NEW p \in Text(Passwords), TelnetPassword(c, p)
      PROVE  Books' /\ WellTold(log', service')
  <2> DEFINE a == Event(SessionOf(c), "auth_attempt", telnetUser[c], p)
             b == Event(SessionOf(c), "auth_success", telnetUser[c], NoText)
  <2>1. /\ a \in EventSet /\ a.session = SessionOf(c) /\ a.type = "auth_attempt"
        /\ b \in EventSet /\ b.session = SessionOf(c) /\ b.type = "auth_success"
    <3>1. telnetUser[c] \in Text(Users) /\ NoText \in Text(Passwords)
      BY <1>0 DEF SourcesOK, Text
    <3> QED BY <3>1, CredentialType
  <2>2. log' = log \o <<a, b>> /\ service' = service /\ shell' = shell /\ http' = http
        /\ request' = request /\ telnet[c] = "password" /\ telnet' = [telnet EXCEPT ![c] = "prompt"]
        /\ Give(c, "auth_attempt")
    BY <1>3 DEF TelnetPassword, Readline, Write
  <2> HIDE DEF a, b
  <2>3. service[c] = "telnet" /\ telnet'[c] = "prompt" /\ Of(log, c, "disconnect") = 0
    BY <1>0, <2>2, TelnetFacts DEF ServicesOK
  <2>4. /\ Owned(c)' /\ a.session[1] = c /\ b.session[1] = c
        /\ Of(log, c, "connect") = 1 /\ Of(log \o <<a>>, c, "connect") = 1
        /\ Adds(log, c, a, log \o <<a>>) /\ Adds(log \o <<a>>, c, b, log')
    <3>1. service[c] \in {"ssh", "telnet", "ftp"} /\ service'[c] = service[c]
      BY <2>2, <2>3
    <3>2. a.type # "connect" /\ b.type # "connect"
      BY <2>1
    <3>3. /\ a \in EventSet /\ a.session = SessionOf(c) /\ b \in EventSet /\ b.session = SessionOf(c)
          /\ log' = log \o <<a, b>>
      BY <2>1, <2>2
    <3> QED BY <3>1, <3>2, <3>3, NextTwo
  <2>5. Answers(c)' /\ \A d \in Conns \ {c} : given'[d] = given[d]
    <3>1. /\ \A t : Of(log', c, t) \in Nat /\ Of(log', c, t) >= Of(log, c, t)
          /\ Of(log', c, "auth_attempt") >= Of(log, c, "auth_attempt") + 1
      BY <2>1, <2>4 DEF Adds
    <3>2. "auth_attempt" \in Answered
      BY DEF Answered
    <3> QED BY <2>2, <3>1, <3>2, AnswersNow
  <2>6. \A d \in Conns \ {c} : Same(d)
    BY <1>0, <1>3, <2>2, <2>5 DEF TelnetPassword, Readline, Same, ServicesOK, SourcesOK
  <2>7. SshBook(c)' /\ HttpBook(c)' /\ FtpBook(c)'
    BY <2>2, <2>3, OtherBooks
  <2>8. Of(log \o <<a>>, c, "disconnect") = 0 /\ Of(log', c, "disconnect") = 0
    BY <2>1, <2>3, <2>4 DEF Adds
  <2>9. TelnetBook(c)'
    BY <2>2, <2>3, <2>8 DEF TelnetBook
  <2>10. Tells(log, service', a) /\ Tells(log \o <<a>>, service', b)
    BY <2>1, <2>2, <2>3, <2>4, <2>8 DEF Tells
  <2> QED BY <2>1, <2>2, <2>3, <2>4, <2>5, <2>6, <2>7, <2>9, <2>10, BookTwo DEF Book
<1>4. ASSUME NEW l \in Lines, TelnetLine(c, l)
      PROVE  Books' /\ WellTold(log', service')
  <2> DEFINE e == Plain(SessionOf(c), "command")
  <2>1. e \in EventSet /\ e.session = SessionOf(c) /\ e.type = "command"
    BY <1>0, EventType DEF Plain, Event, Text, EventTypes, Answered
  <2>2. log' = log \o <<e>> /\ service' = service /\ given' = given /\ shell' = shell
        /\ http' = http /\ request' = request /\ telnet[c] = "prompt"
        /\ telnet' = [telnet EXCEPT ![c] = "busy"]
    BY <1>4 DEF TelnetLine, Write
  <2> HIDE DEF e
  <2>3. service[c] = "telnet" /\ telnet'[c] = "busy" /\ Of(log, c, "disconnect") = 0
    BY <1>0, <2>2, TelnetFacts DEF ServicesOK
  <2>4. /\ e.session[1] = c /\ Owned(c)' /\ Of(log, c, "connect") = 1
        /\ \A t : /\ Of(log, c, t) \in Nat
                  /\ Of(log', c, t) = IF e.type = t THEN Of(log, c, t) + 1 ELSE Of(log, c, t)
    BY <2>1, <2>2, <2>3, NextEvent
  <2>5. \A d \in Conns \ {c} : Same(d)
    BY <1>0, <1>4, <2>2 DEF TelnetLine, Same, ServicesOK, SourcesOK
  <2>6. SshBook(c)' /\ HttpBook(c)' /\ FtpBook(c)'
    BY <2>2, <2>3, OtherBooks
  <2>7. Answers(c)'
    BY <2>2, <2>4, AnswersSame
  <2>8. TelnetBook(c)'
    <3>1. given[c]["command"] <= Of(log, c, "command") /\ given[c]["command"] \in Nat
      BY <1>0 DEF BooksInv, Books, Book, Answers, Answered, ServicesOK
    <3>2. Of(log', c, "command") = Of(log, c, "command") + 1 /\ Of(log', c, "disconnect") = 0
          /\ Of(log, c, "command") \in Nat
      BY <2>1, <2>3, <2>4
    <3> QED BY <2>2, <2>3, <3>1, <3>2 DEF TelnetBook
  <2>9. Tells(log, service', e)
    BY <2>1, <2>2, <2>3, <2>4 DEF Tells
  <2> QED BY <2>1, <2>2, <2>4, <2>5, <2>6, <2>7, <2>8, <2>9, BookOne DEF Book
<1>5. CASE TelnetRun(c)
  <2>1. log' = log /\ service' = service /\ inputs' = inputs /\ shell' = shell /\ http' = http
        /\ request' = request /\ telnet[c] = "busy" /\ telnet' = [telnet EXCEPT ![c] = "prompt"]
        /\ Give(c, "command")
    BY <1>5 DEF TelnetRun
  <2>2. /\ service[c] = "telnet" /\ telnet'[c] = "prompt" /\ Of(log, c, "disconnect") = 0
        /\ given[c]["command"] + 1 <= Of(log, c, "command") /\ "command" \in Answered
    BY <1>0, <2>1, TelnetFacts DEF ServicesOK, Answered
  <2>3. /\ \A d \in Conns \ {c} : given'[d] = given[d]
        /\ \A t \in Answered \ {"command"} : given'[c][t] = given[c][t]
        /\ given'[c]["command"] \in {given[c]["command"], given[c]["command"] + 1}
        /\ \A t \in Answered : given[c][t] \in Nat
    BY <1>0, <2>1, <2>2, GivenRow
  <2>4. \A d \in Conns \ {c} : Same(d)
    BY <1>0, <2>1, <2>3 DEF Same, ServicesOK
  <2>5. SshBook(c)' /\ HttpBook(c)' /\ FtpBook(c)'
    BY <2>1, <2>2, OtherBooks
  <2>6. TelnetBook(c)'
    BY <2>1, <2>2 DEF TelnetBook
  <2>7. Answers(c)'
    <3>1. \A t \in Answered : given[c][t] <= Of(log, c, t)
      BY DEF BooksInv, Books, Book, Answers
    <3>2. given'[c]["command"] <= Of(log, c, "command")
      <4>1. Of(log, c, "command") \in Nat
        BY <1>0, OfType
      <4> QED BY <2>2, <2>3, <4>1
    <3> QED BY <2>1, <2>3, <3>1, <3>2 DEF Answers
  <2>8. Owned(c)'
    BY <2>1 DEF BooksInv, Books, Book, Owned
  <2> QED BY <2>1, <2>4, <2>5, <2>6, <2>7, <2>8, BookNone DEF Book
<1>6. CASE TelnetEnd(c)
  <2> DEFINE e == Plain(SessionOf(c), "disconnect")
  <2>1. e \in EventSet /\ e.session = SessionOf(c) /\ e.type = "disconnect"
    BY <1>0, EventType DEF Plain, Event, Text, EventTypes
  <2>2. log' = log \o <<e>> /\ service' = service /\ given' = given /\ shell' = shell
        /\ inputs' = inputs /\ http' = http /\ request' = request
        /\ telnet[c] \in {"login", "password", "prompt", "busy"}
        /\ telnet' = [telnet EXCEPT ![c] = "done"]
    BY <1>6 DEF TelnetEnd, Write
  <2> HIDE DEF e
  <2>3. service[c] = "telnet" /\ telnet'[c] = "done" /\ Of(log, c, "disconnect") = 0
    BY <1>0, <2>2, TelnetFacts DEF ServicesOK
  <2>4. /\ e.session[1] = c /\ Owned(c)' /\ Of(log, c, "connect") = 1
        /\ \A t : /\ Of(log, c, t) \in Nat
                  /\ Of(log', c, t) = IF e.type = t THEN Of(log, c, t) + 1 ELSE Of(log, c, t)
    BY <2>1, <2>2, <2>3, NextEvent
  <2>5. \A d \in Conns \ {c} : Same(d)
    BY <1>0, <2>2 DEF Same, ServicesOK
  <2>6. SshBook(c)' /\ HttpBook(c)' /\ FtpBook(c)'
    BY <2>2, <2>3, OtherBooks
  <2>7. Answers(c)'
    BY <2>2, <2>4, AnswersSame
  <2>8. TelnetBook(c)'
    BY <2>2, <2>3 DEF TelnetBook
  <2>9. Tells(log, service', e)
    BY <2>1, <2>2, <2>3, <2>4 DEF Tells
  <2> QED BY <2>1, <2>2, <2>4, <2>5, <2>6, <2>7, <2>8, <2>9, BookOne DEF Book
<1> QED BY <1>1, <1>2, <1>3, <1>4, <1>5, <1>6 DEF TelnetNext, Text
-----------------------------------------------------------------------------
(* The steps of the FTP honeypot.                                          *)

\* The facts of a connection that FTP serves, and of its event e more.
LEMMA FtpEvent ==
  ASSUME BooksInv, NEW c \in Conns, service[c] = "ftp", service' = service,
         NEW e \in EventSet, e.session = SessionOf(c), e.type \notin {"connect", "disconnect"},
         log' = log \o <<e>>
  PROVE  /\ e.session[1] = c /\ Owned(c)' /\ FtpBook(c)' /\ Tells(log, service', e)
         /\ Adds(log, c, e, log')
<1>1. /\ e.session[1] = c /\ Owned(c)' /\ Of(log, c, "connect") = 1
      /\ \A t : /\ Of(log, c, t) \in Nat
                /\ Of(log', c, t) = IF e.type = t THEN Of(log, c, t) + 1 ELSE Of(log, c, t)
  BY NextEvent
<1>2. Of(log, c, "disconnect") = 0
  BY DEF BooksInv, Books, Book, FtpBook
<1>3. Of(log', c, "disconnect") = 0
  BY <1>1, <1>2
<1>4. Tells(log, service', e)
  BY <1>1, <1>2 DEF Tells
<1> QED BY <1>1, <1>3, <1>4 DEF FtpBook, Adds

\* A reply to an input that was logged as e.
LEMMA FtpReply ==
  ASSUME BooksInv, NEW c \in Conns, service[c] = "ftp", service' = service,
         NEW e \in EventSet, e.session = SessionOf(c), e.type \in Answered,
         log' = log \o <<e>>, Give(c, e.type), FtpReads(c),
         UNCHANGED <<sshVars, telnetVars, httpVars>>
  PROVE  Books' /\ WellTold(log', service')
<1>1. /\ e.session[1] = c /\ Owned(c)' /\ FtpBook(c)' /\ Tells(log, service', e)
      /\ Adds(log, c, e, log')
  BY FtpEvent DEF Answered
<1>2. /\ \A t : Of(log', c, t) \in Nat /\ Of(log', c, t) >= Of(log, c, t)
      /\ Of(log', c, e.type) >= Of(log, c, e.type) + 1
  BY <1>1 DEF Adds
<1>3. Answers(c)' /\ \A d \in Conns \ {c} : given'[d] = given[d]
  BY <1>2, AnswersNow
<1>4. \A d \in Conns \ {c} : Same(d)
  BY <1>3 DEF Same, BooksInv, SourcesOK, FtpReads, Read, sshVars, telnetVars, httpVars
<1>5. SshBook(c)' /\ TelnetBook(c)' /\ HttpBook(c)'
  BY OtherBooks DEF sshVars, telnetVars, httpVars
<1>6. Book(c)'
  BY <1>1, <1>3, <1>5 DEF Book
<1> QED BY <1>1, <1>4, <1>6, BookOne

\* The steps of an FTP connection keep the books.
LEMMA FtpBooks ==
  ASSUME BooksInv, NEW c \in Conns, FtpNext(c), UNCHANGED <<sshVars, telnetVars, httpVars>>
  PROVE  Books' /\ WellTold(log', service')
<1> USE DEF ftpVars
<1>0. ServicesOK /\ SourcesOK /\ log \in Seq(EventSet) /\ SessionOf(c) \in Sessions
  BY EventLogAssumption DEF BooksInv, SourcesOK, SessionOf, Sessions
<1>1. CASE FtpConnect(c)
  <2> DEFINE e == Plain(SessionOf(c), "connect")
  <2>1. e \in EventSet
    BY <1>0, EventType DEF Text, EventTypes
  <2>2. /\ log' = log \o <<e>> /\ service[c] = "none" /\ service'[c] = "ftp" /\ given' = given
        /\ shell' = shell /\ telnet' = telnet /\ http' = http
    BY <1>0, <1>1 DEF FtpConnect, Accept, Write, ServicesOK, sshVars, telnetVars, httpVars
  <2>3. \A d \in Conns \ {c} : Same(d)
    BY <1>0, <1>1 DEF FtpConnect, Accept, Same, ServicesOK, sshVars, telnetVars, httpVars
  <2>4. /\ e.session[1] = c /\ Tells(log, service', e) /\ Owned(c)'
        /\ \A t \in EventTypes \ {"connect"} : Of(log', c, t) = 0
        /\ \A t \in Answered : given[c][t] = 0
    BY <2>1, <2>2, FirstEvent
  <2> HIDE DEF e
  <2>5. SshBook(c)' /\ TelnetBook(c)' /\ HttpBook(c)'
    BY <2>2, OtherBooks
  <2>6. Answers(c)' /\ FtpBook(c)'
    BY <2>2, <2>4 DEF Answers, FtpBook, EventTypes, Answered
  <2> QED BY <2>1, <2>2, <2>3, <2>4, <2>5, <2>6, BookOne DEF Book
<1>2. ASSUME FtpReads(c)
      PROVE  service[c] = "ftp" /\ service' = service
  BY <1>2 DEF FtpReads, Read
<1>3. ASSUME NEW u \in Users, FtpUser(c, u)
      PROVE  Books' /\ WellTold(log', service')
  <2> DEFINE e == Event(SessionOf(c), "auth_attempt", u, NoText)
  <2>1. e \in EventSet /\ e.session = SessionOf(c) /\ e.type = "auth_attempt"
    BY <1>0, CredentialType DEF Text
  <2>2. log' = log \o <<e>> /\ Give(c, "auth_attempt") /\ FtpReads(c)
    BY <1>3 DEF FtpUser, Write
  <2> HIDE DEF e
  <2>3. e.type \in Answered /\ Give(c, e.type)
    BY <2>1, <2>2 DEF Answered
  <2> QED BY <1>2, <2>1, <2>2, <2>3, FtpReply
<1>4. ASSUME NEW p \in Passwords, FtpPass(c, p)
      PROVE  Books' /\ WellTold(log', service')
  <2> DEFINE a == Event(SessionOf(c), "auth_attempt", ftpUser[c], p)
             b == Event(SessionOf(c), "auth_success", ftpUser[c], p)
  <2>1. /\ a \in EventSet /\ a.session = SessionOf(c) /\ a.type = "auth_attempt"
        /\ b \in EventSet /\ b.session = SessionOf(c) /\ b.type = "auth_success"
    <3>1. ftpUser[c] \in Text(Users) /\ p \in Text(Passwords)
      BY <1>0 DEF SourcesOK, Text
    <3> QED BY <3>1, CredentialType
  <2>2. log' = log \o <<a>> \/ log' = log \o <<a, b>>
    <3>1. lastPassword'[c] = p
      BY <1>0, <1>4 DEF FtpPass, SourcesOK
    <3> QED BY <1>4, <3>1 DEF FtpPass, Write
  <2>3. Give(c, "auth_attempt") /\ FtpReads(c) /\ "auth_attempt" \in Answered
    BY <1>4 DEF FtpPass, Answered
  <2> HIDE DEF a, b
  <2>4. CASE log' = log \o <<a>>
    <3>1. a.type \in Answered /\ Give(c, a.type)
      BY <2>1, <2>3
    <3> QED BY <1>2, <2>1, <2>3, <2>4, <3>1, FtpReply
  <2>5. CASE log' = log \o <<a, b>>
    <3>1. /\ service[c] \in {"ssh", "telnet", "ftp"} /\ service'[c] = service[c]
          /\ service[c] = "ftp" /\ service' = service
      BY <1>2, <2>3
    <3>2. a.type # "connect" /\ b.type # "connect"
      BY <2>1
    <3>3. /\ Owned(c)' /\ a.session[1] = c /\ b.session[1] = c
          /\ Of(log, c, "connect") = 1 /\ Of(log \o <<a>>, c, "connect") = 1
          /\ Adds(log, c, a, log \o <<a>>) /\ Adds(log \o <<a>>, c, b, log')
      BY <2>1, <2>5, <3>1, <3>2, NextTwo
    <3>4. /\ \A t : Of(log', c, t) \in Nat /\ Of(log', c, t) >= Of(log, c, t)
          /\ Of(log', c, "auth_attempt") >= Of(log, c, "auth_attempt") + 1
      BY <2>1, <3>3 DEF Adds
    <3>5. Answers(c)' /\ \A d \in Conns \ {c} : given'[d] = given[d]
      BY <2>3, <3>4, AnswersNow
    <3>6. \A d \in Conns \ {c} : Same(d)
      BY <1>0, <2>3, <3>5 DEF Same, SourcesOK, FtpReads, Read, sshVars, telnetVars, httpVars
    <3>7. SshBook(c)' /\ TelnetBook(c)' /\ HttpBook(c)'
      BY <3>1, OtherBooks DEF sshVars, telnetVars, httpVars
    <3>8. Of(log, c, "disconnect") = 0
      BY <3>1 DEF BooksInv, Books, Book, FtpBook
    <3>9. Of(log \o <<a>>, c, "disconnect") = 0 /\ Of(log', c, "disconnect") = 0
      BY <2>1, <3>3, <3>8 DEF Adds
    <3>10. Tells(log, service', a)
      BY <2>1, <3>1, <3>3, <3>8 DEF Tells
    <3>11. Tells(log \o <<a>>, service', b)
      BY <2>1, <3>1, <3>3, <3>9 DEF Tells
    <3>12. Book(c)'
      BY <3>3, <3>5, <3>7, <3>9 DEF Book, FtpBook
    <3> QED BY <2>1, <2>5, <3>1, <3>6, <3>10, <3>11, <3>12, BookTwo
  <2> QED BY <2>2, <2>4, <2>5
<1>5. ASSUME NEW t \in {"ftp_command", "file_access"}, FtpReads(c),
             log' = log \o <<Plain(SessionOf(c), t)>>, Give(c, t)
      PROVE  Books' /\ WellTold(log', service')
  <2> DEFINE e == Plain(SessionOf(c), t)
  <2>1. e \in EventSet /\ e.session = SessionOf(c) /\ e.type = t /\ t \in Answered
    BY <1>0, EventType DEF Plain, Event, Text, EventTypes, Answered
  <2>2. log' = log \o <<e>>
    BY <1>5
  <2> HIDE DEF e
  <2>3. e.type \in Answered /\ Give(c, e.type)
    BY <1>5, <2>1
  <2> QED BY <1>2, <1>5, <2>1, <2>2, <2>3, FtpReply
<1>6. CASE FtpReads(c) /\ UNCHANGED <<log, given>>
  <2>1. /\ service' = service /\ given' = given /\ log' = log /\ shell' = shell /\ telnet' = telnet
        /\ http' = http /\ request' = request /\ service[c] = "ftp"
    BY <1>2, <1>6 DEF sshVars, telnetVars, httpVars
  <2>2. \A d \in Conns \ {c} : Same(d)
    BY <1>0, <1>6, <2>1 DEF Same, SourcesOK, FtpReads, Read
  <2>3. SshBook(c)' /\ TelnetBook(c)' /\ HttpBook(c)'
    BY <2>1, OtherBooks
  <2>4. Owned(c)' /\ Answers(c)' /\ FtpBook(c)'
    BY <2>1 DEF BooksInv, Books, Book, Owned, Answers, FtpBook
  <2> QED BY <2>1, <2>2, <2>3, <2>4, BookNone DEF Book
<1>7. CASE FtpList(c)
  BY <1>5, <1>7 DEF FtpList, Write
<1>8. CASE FtpRetr(c)
  BY <1>5, <1>6, <1>8 DEF FtpRetr, Write
<1> QED BY <1>1, <1>3, <1>4, <1>7, <1>8 DEF FtpNext
-----------------------------------------------------------------------------
(* The steps of the HTTP honeypot.                                         *)

\* The connection and the number of an event's session.
LEMMA EventSession ==
  ASSUME SourcesOK, NEW i \in DOMAIN log
  PROVE  log[i] \in EventSet /\ log[i].session = <<log[i].session[1], log[i].session[2]>>
         /\ log[i].session[1] \in Conns /\ log[i].session[2] \in Int
<1>1. log[i] \in EventSet
  BY DEF SourcesOK
<1>2. log[i].session \in Conns \X (0 .. MaxInputs)
  BY <1>1 DEF EventSet, Sessions
<1>3. 0 .. MaxInputs \subseteq Int
  OBVIOUS
<1>4. \A s \in Conns \X (0 .. MaxInputs) : s = <<s[1], s[2]>> /\ s[1] \in Conns /\ s[2] \in Int
  BY <1>3
<1> QED BY <1>1, <1>2, <1>4

\* The facts of a connection on which HTTP handles a request.
LEMMA HttpFacts ==
  ASSUME BooksInv, NEW c \in Conns, service[c] = "http" \/ http[c] # "idle"
  PROVE  /\ service[c] = "http" /\ inputs[c] \in 0 .. MaxInputs
         /\ \A i \in DOMAIN log : log[i].session[1] = c =>
              /\ log[i].session[2] \in Int /\ log[i].session[2] <= inputs[c]
              /\ http[c] = "body" => log[i].session[2] < inputs[c]
<1>1. HttpBook(c) /\ SourcesOK
  BY DEF BooksInv, Books, Book
<1>2. inputs[c] \in 0 .. MaxInputs
  BY <1>1 DEF SourcesOK
<1>3. \A i \in DOMAIN log : log[i].session[2] \in Int
  BY <1>1, EventSession
<1> QED BY <1>1, <1>2, <1>3 DEF HttpBook

\* A step of HTTP that writes nothing and gives nothing.
LEMMA HttpQuiet ==
  ASSUME BooksInv, NEW c \in Conns, log' = log, given' = given,
         \A d \in Conns \ {c} : Same(d), service'[c] = "http",
         service[c] \in {"none", "http"}, HttpBook(c)',
         UNCHANGED <<sshVars, telnetVars, ftpVars>>
  PROVE  Books' /\ WellTold(log', service')
<1>1. SshBook(c)' /\ TelnetBook(c)' /\ FtpBook(c)'
  BY OtherBooks DEF sshVars, telnetVars, BooksInv, Books, Book, SshBook, TelnetBook, FtpBook
<1>2. Owned(c)' /\ Answers(c)'
  BY DEF BooksInv, Books, Book, Owned, Answers
<1>3. service'[c] = service[c] \/ service[c] = "none"
  OBVIOUS
<1> QED BY <1>1, <1>2, <1>3, BookNone DEF Book

\* The steps of an HTTP connection keep the books.
LEMMA HttpBooks ==
  ASSUME BooksInv, NEW c \in Conns, HttpNext(c), UNCHANGED <<sshVars, telnetVars, ftpVars>>
  PROVE  Books' /\ WellTold(log', service')
<1>0. ServicesOK /\ SourcesOK /\ log \in Seq(EventSet) /\ HttpBook(c)
  BY DEF BooksInv, SourcesOK, Books, Book
<1> DEFINE Others == /\ shell' = shell /\ telnet' = telnet
<1>ours. Others
  BY DEF sshVars, telnetVars
<1>1. CASE HttpConnect(c)
  <2>1. /\ log' = log /\ given' = given /\ http' = http /\ service[c] = "none"
        /\ service'[c] = "http"
    BY <1>0, <1>1 DEF HttpConnect, Accept, httpVars, ServicesOK
  <2>2. \A d \in Conns \ {c} : Same(d)
    BY <1>0, <1>1, <1>ours DEF HttpConnect, Accept, httpVars, Same, ServicesOK
  <2>3. \A i \in DOMAIN log : log[i].session[1] # c
    BY <2>1 DEF BooksInv, Books, Book, Owned
  <2>4. http'[c] = "idle"
    BY <1>0, <2>1 DEF HttpBook
  <2>5. HttpBook(c)'
    BY <2>1, <2>3, <2>4 DEF HttpBook
  <2> QED BY <2>1, <2>2, <2>5, HttpQuiet
<1>2. ASSUME NEW r \in Requests, HttpRequest(c, r)
      PROVE  Books' /\ WellTold(log', service')
  <2>1. /\ log' = log /\ given' = given /\ service' = service /\ service[c] = "http"
        /\ inputs' = [inputs EXCEPT ![c] = @ + 1] /\ inputs'[c] = inputs[c] + 1
        /\ http'[c] \in {"body", "idle"}
    BY <1>0, <1>2 DEF HttpRequest, Read, ServicesOK, SourcesOK
  <2>2. \A d \in Conns \ {c} : Same(d)
    BY <1>0, <1>2, <1>ours DEF HttpRequest, Read, Same, ServicesOK, SourcesOK
  <2>3. /\ inputs[c] \in Int
        /\ \A i \in DOMAIN log : log[i].session[1] = c =>
             log[i].session[2] \in Int /\ log[i].session[2] <= inputs[c]
    BY <2>1, HttpFacts
  <2>4. \A i \in DOMAIN log : log[i].session[1] = c => log[i].session[2] < inputs'[c]
    BY <2>1, <2>3
  <2>5. \A i \in DOMAIN log : log[i].session[1] = c => log[i].session[2] <= inputs'[c]
    BY <2>1, <2>3
  <2>6. HttpBook(c)'
    BY <2>1, <2>4, <2>5 DEF HttpBook
  <2> QED BY <2>1, <2>2, <2>6, HttpQuiet
<1>3. CASE HttpLog(c)
  <2> DEFINE t == Route(request[c])
             e == Plain(<<c, inputs[c]>>, t)
  <2>1. t \in Answered /\ t # "connect"
    BY <1>0, RouteType DEF ServicesOK
  <2>2. /\ service[c] = "http" /\ inputs[c] \in 0 .. MaxInputs
        /\ \A i \in DOMAIN log : log[i].session[1] = c => log[i].session[2] < inputs[c]
        /\ \A i \in DOMAIN log : log[i].session[1] = c => log[i].session[2] \in Int
    BY <1>3, HttpFacts DEF HttpLog
  <2>3. /\ e \in EventSet /\ e.session = <<c, inputs[c]>> /\ e.session[1] = c /\ e.type = t
    <3>1. <<c, inputs[c]>> \in Sessions /\ t \in EventTypes
      BY <2>1, <2>2 DEF Sessions, EventTypes
    <3> QED BY <3>1, EventType DEF Plain, Event, Text
  <2>4. /\ log' = log \o <<e>> /\ service' = service /\ inputs' = inputs /\ given' = given
        /\ request' = request /\ http' = [http EXCEPT ![c] = "answer"] /\ http'[c] = "answer"
    BY <1>0, <1>3 DEF HttpLog, NoRead, Write, ServicesOK
  <2>5. request'[c] = request[c]
    BY <2>4
  <2> DEFINE R == request'[c]
  <2>6. Route(R) = t
    BY <2>5
  <2> HIDE DEF e, t
  <2>7. \A d \in Conns \ {c} : Same(d)
    BY <1>0, <1>ours, <2>4 DEF Same, ServicesOK
  <2>8. SshBook(c)' /\ TelnetBook(c)' /\ FtpBook(c)'
    BY <1>ours, <2>2, <2>4, OtherBooks
  <2>9. \A u : /\ Of(log, c, u) \in Nat
               /\ Of(log', c, u) = IF e.type = u THEN Of(log, c, u) + 1 ELSE Of(log, c, u)
    BY <1>0, <2>3, <2>4, OfAppend, OfType
  <2>10. \A u \in Answered : given[c][u] <= Of(log, c, u) /\ given[c][u] \in Nat
    BY <1>0 DEF BooksInv, Books, Book, Answers, ServicesOK
  <2>11. given[c][t] + 1 <= Of(log', c, t)
    <3>1. given[c][t] <= Of(log, c, t) /\ given[c][t] \in Nat /\ Of(log, c, t) \in Nat
          /\ Of(log', c, t) = Of(log, c, t) + 1
      BY <2>1, <2>3, <2>9, <2>10
    <3> QED BY <3>1
  <2>12. Answers(c)'
    <3>1. ASSUME NEW u \in Answered PROVE given[c][u] <= Of(log', c, u)
      BY <2>9, <2>10
    <3> QED BY <2>4, <3>1 DEF Answers
  <2>13. HttpBook(c)'
    <3>1. \A i \in DOMAIN log' : log'[i].session[1] = c => log'[i].session[2] <= inputs[c]
      <4>1. DOMAIN log' = 1 .. Len(log) + 1 /\ DOMAIN log = 1 .. Len(log) /\ Len(log) \in Nat
            /\ log'[Len(log) + 1] = e /\ \A i \in 1 .. Len(log) : log'[i] = log[i]
        BY <1>0, <2>3, <2>4, AppendLog
      <4>2. e.session[2] = inputs[c] /\ inputs[c] \in Int
        BY <2>2, <2>3
      <4>3. ASSUME NEW i \in DOMAIN log', log'[i].session[1] = c
            PROVE  log'[i].session[2] <= inputs[c]
        <5>1. CASE i = Len(log) + 1
          BY <4>1, <4>2, <5>1
        <5>2. CASE i \in DOMAIN log
          BY <2>2, <4>1, <4>2, <4>3, <5>2
        <5> QED BY <4>1, <5>1, <5>2
      <4> QED BY <4>3
    <3>2. given'[c][Route(R)] + 1 <= Of(log', c, Route(R))
      BY <2>4, <2>6, <2>11
    <3> QED BY <2>2, <2>4, <3>1, <3>2 DEF HttpBook
  <2>14. Owned(c)'
    BY <2>2, <2>4 DEF Owned
  <2>15. Tells(log, service', e)
    <3>1. \A j \in DOMAIN log : log[j].session # e.session
      BY <2>2, <2>3
    <3> QED BY <2>2, <2>3, <2>4, <3>1 DEF Tells
  <2>16. Book(c)'
    BY <2>8, <2>12, <2>13, <2>14 DEF Book
  <2> QED BY <2>2, <2>3, <2>4, <2>7, <2>15, <2>16, BookOne
<1>4. CASE HttpDrop(c)
  <2>1. /\ log' = log /\ given' = given /\ service' = service /\ inputs' = inputs
        /\ http'[c] = "idle" /\ http[c] = "body"
    BY <1>0, <1>4 DEF HttpDrop, NoRead, ServicesOK
  <2>2. \A d \in Conns \ {c} : Same(d)
    BY <1>0, <1>4, <1>ours DEF HttpDrop, NoRead, Same, ServicesOK
  <2>3. HttpBook(c)' /\ service[c] = "http"
    BY <2>1, HttpFacts DEF HttpBook
  <2> QED BY <2>1, <2>2, <2>3, HttpQuiet
<1>5. CASE HttpAnswer(c)
  <2> DEFINE t == Route(request[c])
  <2>1. t \in Answered
    BY <1>0, RouteType DEF ServicesOK
  <2>2. /\ log' = log /\ service' = service /\ inputs' = inputs /\ request' = request
        /\ http' = [http EXCEPT ![c] = "idle"] /\ http'[c] = "idle" /\ http[c] = "answer"
        /\ Give(c, t)
    BY <1>0, <1>5 DEF HttpAnswer, NoRead, ServicesOK
  <2>3. service[c] = "http" /\ given[c][t] + 1 <= Of(log, c, t)
    BY <1>0, <2>2 DEF HttpBook
  <2> HIDE DEF t
  <2>4. /\ \A d \in Conns \ {c} : given'[d] = given[d]
        /\ \A u \in Answered \ {t} : given'[c][u] = given[c][u]
        /\ given'[c][t] \in {given[c][t], given[c][t] + 1}
        /\ \A u \in Answered : given[c][u] \in Nat
    BY <1>0, <2>1, <2>2, GivenRow
  <2>5. \A d \in Conns \ {c} : Same(d)
    BY <1>0, <1>ours, <2>2, <2>4 DEF Same, ServicesOK
  <2>6. Answers(c)'
    <3>1. \A u \in Answered : given[c][u] <= Of(log, c, u)
      BY DEF BooksInv, Books, Book, Answers
    <3>2. given[c][t] <= Of(log, c, t) /\ given[c][t] + 1 <= Of(log, c, t)
      BY <2>1, <2>3, <3>1
    <3>3. given'[c][t] <= Of(log, c, t)
      BY <2>4, <3>2
    <3> QED BY <2>2, <2>4, <3>1, <3>3 DEF Answers
  <2>7. SshBook(c)' /\ TelnetBook(c)' /\ FtpBook(c)'
    BY <1>ours, <2>2, <2>3, OtherBooks
  <2>8. Owned(c)'
    BY <2>2 DEF BooksInv, Books, Book, Owned
  <2>9. HttpBook(c)'
    BY <2>2, <2>3, HttpFacts DEF HttpBook
  <2> QED BY <2>2, <2>5, <2>6, <2>7, <2>8, <2>9, BookNone DEF Book
<1> QED BY <1>1, <1>2, <1>3, <1>4, <1>5 DEF HttpNext
-----------------------------------------------------------------------------
(* Clients that leave, containers that stop, and the whole.                *)

\* A client that leaves keeps the books.
LEMMA LeaveBooks ==
  ASSUME BooksInv, NEW c \in Conns, Leave(c)
  PROVE  Books' /\ WellTold(log', service')
<1>1. /\ log' = log /\ service' = service
      /\ \A d \in Conns : Same(d)
  BY DEF Leave, Same, serviceVars, sshVars, telnetVars, httpVars
<1>2. ASSUME NEW d \in Conns PROVE Book(d)'
  BY <1>1, BookSame DEF BooksInv, Books
<1> QED BY <1>1, <1>2 DEF Books, BooksInv

\* A stop loses the shells that are open: they stay opened, and never close.
LEMMA StopShells ==
  ASSUME ServicesOK, NEW s, Stop(s), NEW d \in Conns
  PROVE  /\ At(shell'[d], Opened) = At(shell[d], Opened)
         /\ At(shell'[d], Closed) = At(shell[d], Closed)
         /\ At(shell'[d], Running) = At(shell[d], Running) \/ At(shell'[d], Running) = {}
<1>1. CASE s # "ssh"
  BY <1>1 DEF Stop
<1>2. CASE s = "ssh"
  <2>1. SshStop
    BY <1>2 DEF Stop
  <2>2. ASSUME NEW k \in Channels
        PROVE  shell'[d][k].stage = IF shell[d][k].stage \in {"prompt", "busy"} THEN "lost"
                                    ELSE shell[d][k].stage
    <3>1. shell[d][k] \in ShellSet
      BY DEF ServicesOK
    <3>2. shell'[d][k] = IF shell[d][k].stage \in {"prompt", "busy"}
                         THEN [shell[d][k] EXCEPT !.stage = "lost"] ELSE shell[d][k]
      BY <2>1 DEF SshStop
    <3> QED BY <3>1, <3>2 DEF ShellSet
  <2>3. At(shell'[d], Opened) = At(shell[d], Opened)
    BY <2>2 DEF At, Opened
  <2>4. At(shell'[d], Closed) = At(shell[d], Closed)
    BY <2>2 DEF At, Closed
  <2>5. At(shell'[d], Running) = {}
    BY <2>2 DEF At, Running
  <2> QED BY <2>3, <2>4, <2>5
<1> QED BY <1>1, <1>2

\* A container that stops keeps the books.
LEMMA StopBooks ==
  ASSUME BooksInv, NEW s \in Services, Stop(s)
  PROVE  Books' /\ WellTold(log', service')
<1>0. ServicesOK
  BY DEF BooksInv
<1>1. log' = log /\ service' = service /\ inputs' = inputs /\ given' = given /\ request' = request
  BY DEF Stop
<1>2. ASSUME NEW d \in Conns PROVE Book(d)'
  <2>1. Owned(d) /\ SshBook(d) /\ TelnetBook(d) /\ FtpBook(d) /\ HttpBook(d) /\ Answers(d)
    BY DEF BooksInv, Books, Book
  <2>2. Owned(d)' /\ FtpBook(d)' /\ Answers(d)'
    BY <1>1, <2>1 DEF Owned, FtpBook, Answers
  <2>3. SshBook(d)'
    <3>1. /\ Tally(shell[d], Running) \in Nat /\ given[d]["command"] \in Nat
          /\ Of(log, d, "command") \in Nat
      <4>1. Tally(shell[d], Running) \in Nat
        BY Tallies DEF Opened, Running
      <4>2. given[d]["command"] \in Nat
        BY <1>0 DEF ServicesOK, Answered
      <4>3. log \in Seq(EventSet)
        BY DEF BooksInv, SourcesOK
      <4> QED BY <4>1, <4>2, <4>3, OfType
    <3>2. /\ At(shell'[d], Opened) = At(shell[d], Opened)
          /\ At(shell'[d], Closed) = At(shell[d], Closed)
          /\ At(shell'[d], Running) = At(shell[d], Running) \/ At(shell'[d], Running) = {}
      BY <1>0, StopShells
    <3>3. /\ Tally(shell'[d], Opened) = Tally(shell[d], Opened)
          /\ Tally(shell'[d], Closed) = Tally(shell[d], Closed)
          /\ Tally(shell'[d], Running) = Tally(shell[d], Running) \/ Tally(shell'[d], Running) = 0
      BY <3>2, FS_EmptySet DEF Tally
    <3>4. given[d]["command"] + Tally(shell[d], Running) <= Of(log, d, "command") =>
            given[d]["command"] + Tally(shell'[d], Running) <= Of(log, d, "command")
      BY <3>1, <3>3
    <3> QED BY <1>1, <2>1, <3>2, <3>3, <3>4 DEF SshBook
  <2>4. TelnetBook(d)'
    <3>1. telnet'[d] = telnet[d] \/ (telnet[d] \notin {"none", "done"} /\ telnet'[d] = "lost")
      BY <1>0 DEF Stop, TelnetStop, ServicesOK
    <3> QED BY <1>1, <2>1, <3>1 DEF TelnetBook
  <2>5. HttpBook(d)'
    <3>1. http'[d] = http[d] \/ (http[d] \in {"body", "answer"} /\ http'[d] = "lost")
      BY <1>0 DEF Stop, HttpStop, ServicesOK
    <3>2. http[d] \in {"body", "answer"} => service[d] = "http"
      BY <2>1 DEF HttpBook
    <3> QED BY <1>1, <2>1, <3>1, <3>2 DEF HttpBook
  <2> QED BY <2>2, <2>3, <2>4, <2>5 DEF Book
<1> QED BY <1>1, <1>2 DEF Books, BooksInv

\* Initially the log is empty and nothing was answered.
LEMMA BooksInit == Init => Books /\ WellTold(log, service)
<1> SUFFICES ASSUME Init PROVE Books /\ WellTold(log, service)
  OBVIOUS
<1>0. log = <<>> /\ DOMAIN log = {} /\ log \in Seq(EventSet)
  BY DEF Init, EventLogInit
<1>1. /\ service = [c \in Conns |-> "none"] /\ telnet = [c \in Conns |-> "none"]
      /\ http = [c \in Conns |-> "idle"] /\ given = [c \in Conns |-> [t \in Answered |-> 0]]
      /\ shell = [c \in Conns |-> [k \in Channels |-> NoShell]]
  BY DEF Init, EventLogInit, SshInit, TelnetInit, HttpInit
<1>2. WellTold(log, service)
  BY <1>0 DEF WellTold
<1>3. ASSUME NEW c \in Conns PROVE Book(c)
  <2>1. /\ service[c] = "none" /\ telnet[c] = "none" /\ http[c] = "idle"
        /\ \A t \in Answered : given[c][t] = 0
    BY <1>1
  <2>2. \A k \in Channels : shell[c][k].stage = "none"
    BY <1>1 DEF NoShell
  <2>3. At(shell[c], Opened) = {} /\ IsFiniteSet(At(shell[c], Opened))
    <3>1. At(shell[c], Opened) = {}
      BY <2>2 DEF At, Opened
    <3> QED BY <3>1, FS_EmptySet
  <2>4. Owned(c)
    BY <1>0, <2>1 DEF Owned, OneSessionOf
  <2>5. SshBook(c) /\ TelnetBook(c) /\ FtpBook(c) /\ HttpBook(c)
    BY <2>1, <2>3 DEF SshBook, TelnetBook, FtpBook, HttpBook
  <2>6. Answers(c)
    <3>1. \A t : Of(log, c, t) = 0
      BY <1>0, OfNone
    <3> QED BY <2>1, <3>1 DEF Answers
  <2> QED BY <2>4, <2>5, <2>6 DEF Book
<1> QED BY <1>2, <1>3 DEF Books

\* Every step keeps the books and the order of the log.
LEMMA BooksNext == BooksInv /\ [Next]_vars => Books' /\ WellTold(log', service')
<1> SUFFICES ASSUME BooksInv, [Next]_vars PROVE Books' /\ WellTold(log', service')
  OBVIOUS
<1>1. CASE UNCHANGED vars
  <2>1. /\ log' = log /\ service' = service
        /\ \A d \in Conns : Same(d)
    BY <1>1 DEF vars, logVars, Same, serviceVars, sshVars, telnetVars, httpVars
  <2>2. ASSUME NEW d \in Conns PROVE Book(d)'
    BY <2>1, BookSame DEF BooksInv, Books
  <2> QED BY <2>1, <2>2 DEF Books, BooksInv
<1>2. ASSUME NEW c \in Conns, SshNext(c), UNCHANGED <<telnetVars, ftpVars, httpVars, stops>>
      PROVE  Books' /\ WellTold(log', service')
  BY <1>2, SshBooks
<1>3. ASSUME NEW c \in Conns, TelnetNext(c), UNCHANGED <<sshVars, ftpVars, httpVars, stops>>
      PROVE  Books' /\ WellTold(log', service')
  BY <1>3, TelnetBooks
<1>4. ASSUME NEW c \in Conns, FtpNext(c), UNCHANGED <<sshVars, telnetVars, httpVars, stops>>
      PROVE  Books' /\ WellTold(log', service')
  BY <1>4, FtpBooks
<1>5. ASSUME NEW c \in Conns, HttpNext(c), UNCHANGED <<sshVars, telnetVars, ftpVars, stops>>
      PROVE  Books' /\ WellTold(log', service')
  BY <1>5, HttpBooks
<1> QED BY <1>1, <1>2, <1>3, <1>4, <1>5, LeaveBooks, StopBooks DEF Next

\* BooksInv, with the types and sources it rests on, is an invariant.
LEMMA BooksInduction == Spec => [](TriedInv /\ BooksInv)
<1>1. Init => TriedInv /\ BooksInv
  BY TriedInit, ServicesInit, BooksInit DEF TriedInv, BooksInv
<1>2. TriedInv /\ BooksInv /\ [Next]_vars => (TriedInv /\ BooksInv)'
  <2> SUFFICES ASSUME TriedInv, BooksInv, [Next]_vars PROVE TriedInv' /\ BooksInv'
    OBVIOUS
  <2>1. TriedInv'
    BY TriedNext
  <2>2. ServicesOK'
    BY TypesNext DEF BooksInv
  <2>3. Books' /\ WellTold(log', service')
    BY BooksNext
  <2> QED BY <2>1, <2>2, <2>3 DEF TriedInv, BooksInv
<1> QED BY <1>1, <1>2, PTL DEF Spec

\* SessionsAreTold: whatever the shells of one connection, the other clients and the
\* stops do, the log opens each session with its connect, has a command or a
\* disconnect only for a shell that was opened and not closed, nothing after the
\* disconnect of a Telnet session, and one event per HTTP session.
THEOREM SessionsTold == Spec => []SessionsAreTold
<1>1. BooksInv => SessionsAreTold
  <2> SUFFICES ASSUME BooksInv, NEW i \in DOMAIN log
               PROVE  LET s == log[i].session
                          before == {j \in 1 .. i - 1 : log[j].session = s}
                      IN  CASE service[s[1]] = "http" -> before = {}
                            [] log[i].type = "connect" -> before = {}
                            [] log[i].type \in {"command", "disconnect"} /\ service[s[1]] = "ssh" ->
                                 Count(s, "auth_success", i - 1) > Count(s, "disconnect", i - 1)
                            [] OTHER -> /\ Count(s, "connect", i - 1) = 1
                                        /\ service[s[1]] # "ssh" => Count(s, "disconnect", i - 1) = 0
    BY DEF SessionsAreTold
  <2>1. Told(log, service, i)
    BY DEF BooksInv, WellTold
  <2>2. \A s, t : Count(s, t, i - 1) = Cardinality(In(log, s, t, i - 1))
    BY DEF Count, In
  <2> QED BY <2>1, <2>2 DEF Told
<1> QED BY <1>1, BooksInduction, PTL

\* AnsweredIsLogged: for every connection and type of input, the answers that the
\* client got are no more than the events in the log: the event is written first, and
\* a stop between the two loses an answer, never an event.
THEOREM AnswersLogged == Spec => []AnsweredIsLogged
<1>1. BooksInv => AnsweredIsLogged
  BY DEF BooksInv, Books, Book, Answers, Of, EventsOf, AnsweredIsLogged
<1> QED BY <1>1, BooksInduction, PTL

\* ShellsAreCoherent: whatever lines clients type, in whatever order the shells of a
\* connection run them, a shell never leaves the directories of the tree, whose
\* coherence TLC evaluates (TreeIsCoherent).
THEOREM ShellsCoherent == Spec => []ShellsAreCoherent
<1>1. Places \subseteq DOMAIN Dirs
  BY TreeIsCoherent DEF Places
<1>2. ServicesOK => ShellsAreCoherent
  <2> SUFFICES ASSUME ServicesOK, NEW c \in Conns
               PROVE  /\ \A k \in Channels : Coherent(shell[c][k].cwd)
                      /\ Coherent(telnetShell[c].cwd)
    BY DEF ShellsAreCoherent
  <2>1. \A k \in Channels : shell[c][k].cwd \in DOMAIN Dirs
    BY <1>1 DEF ServicesOK, ShellSet
  <2>2. telnetShell[c].cwd \in DOMAIN Dirs
    BY <1>1 DEF ServicesOK
  <2> QED BY <2>1, <2>2, TreeIsCoherent
<1>3. BooksInv => ServicesOK
  BY DEF BooksInv
<1> QED BY <1>2, <1>3, BooksInduction, PTL
=============================================================================
