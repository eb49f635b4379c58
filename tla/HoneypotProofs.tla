---------------------------- MODULE HoneypotProofs ----------------------------
(* A theorem about Honeypots, for every number of connections, channels,      *)
(* inputs and container stops: no success of the log was made up.             *)
EXTENDS Honeypots, SequenceTheorems, TLAPS

Text(S) == S \cup {NoText}
EventSet == [session : Sessions, type : EventTypes,
             username : Text(Users), password : Text(Passwords)]

\* Event a is an attempt that accounts for the success b.
Accounts(a, b) ==
  /\ a.session = b.session /\ a.type = "auth_attempt"
  /\ a.username = b.username
  /\ b.password \in {NoText, a.password}

\* Every success of the log l has its attempt before it.
AllTried(l) ==
  \A i \in DOMAIN l : l[i].type = "auth_success" => \E j \in 1 .. i - 1 : Accounts(l[j], l[i])

\* The types of what the events are made of.
SourcesOK ==
  /\ log \in Seq(EventSet)
  /\ inputs \in [Conns -> 0 .. MaxInputs]
  /\ sshUser \in [Conns -> Text(Users)]
  /\ telnetUser \in [Conns -> Text(Users)]
  /\ ftpUser \in [Conns -> Text(Users)]
  /\ lastPassword \in [Conns -> Text(Passwords)]

\* Connection c of the SSH server has the user of an attempt in the log l.
UserTried(l, c) ==
  sshUser[c] # NoText =>
    \E j \in DOMAIN l :
      l[j].session = SessionOf(c) /\ l[j].type = "auth_attempt" /\ l[j].username = sshUser[c]

\* The inductive invariant: a user that SSH accepted was tried, too.
TriedInv ==
  /\ SourcesOK
  /\ \A c \in Conns : UserTried(log, c)
  /\ AllTried(log)

-----------------------------------------------------------------------------

\* Events appended to a log keep AllTried if their successes are accounted for.
LEMMA WriteTried ==
  ASSUME NEW l \in Seq(EventSet), NEW es \in Seq(EventSet), AllTried(l),
         \A k \in DOMAIN es : es[k].type = "auth_success" =>
           \E j \in 1 .. Len(l) + k - 1 : Accounts((l \o es)[j], es[k])
  PROVE  AllTried(l \o es)
<1> DEFINE m == l \o es
<1>1. /\ m \in Seq(EventSet) /\ Len(m) = Len(l) + Len(es)
      /\ \A i \in 1 .. Len(l) : m[i] = l[i]
      /\ \A k \in 1 .. Len(es) : m[Len(l) + k] = es[k]
  <2>1. \A i \in 1 .. Len(l) + Len(es) :
          m[i] = IF i <= Len(l) THEN l[i] ELSE es[i - Len(l)]
    BY ConcatProperties
  <2>2. Len(l) \in Nat /\ Len(es) \in Nat
    OBVIOUS
  <2> HIDE DEF m
  <2>3. \A k \in 1 .. Len(es) : m[Len(l) + k] = es[k]
    <3> SUFFICES ASSUME NEW k \in 1 .. Len(es) PROVE m[Len(l) + k] = es[k]
      OBVIOUS
    <3>1. Len(l) + k \in 1 .. Len(l) + Len(es) /\ ~(Len(l) + k <= Len(l))
          /\ (Len(l) + k) - Len(l) = k
      BY <2>2
    <3> QED BY <2>1, <3>1
  <2>4. \A i \in 1 .. Len(l) : m[i] = l[i]
    BY <2>1, <2>2
  <2>5. m \in Seq(EventSet) /\ Len(m) = Len(l) + Len(es)
    BY ConcatProperties DEF m
  <2> QED BY <2>3, <2>4, <2>5
<1>2. SUFFICES ASSUME NEW i \in DOMAIN m, m[i].type = "auth_success"
               PROVE  \E j \in 1 .. i - 1 : Accounts(m[j], m[i])
  BY DEF AllTried
<1> HIDE DEF m
<1>3. i \in 1 .. Len(m) /\ Len(l) \in Nat /\ Len(es) \in Nat
  BY <1>1
<1>4. CASE i \in 1 .. Len(l)
  <2>1. m[i] = l[i] /\ i \in DOMAIN l
    BY <1>1, <1>4
  <2>2. PICK j \in 1 .. i - 1 : Accounts(l[j], l[i])
    BY <1>2, <2>1 DEF AllTried
  <2>3. j \in 1 .. Len(l)
    BY <1>3, <1>4
  <2> QED BY <1>1, <2>1, <2>2, <2>3
<1>5. CASE i \notin 1 .. Len(l)
  <2>1. PICK k \in 1 .. Len(es) : i = Len(l) + k
    <3>1. i - Len(l) \in 1 .. Len(es) /\ i = Len(l) + (i - Len(l))
      BY <1>1, <1>3, <1>5
    <3> QED BY <3>1
  <2>2. m[i] = es[k] /\ k \in DOMAIN es
    BY <1>1, <2>1
  <2>3. PICK j \in 1 .. Len(l) + k - 1 : Accounts(m[j], es[k])
    BY <1>2, <2>2 DEF m
  <2>4. j \in 1 .. i - 1
    BY <2>1, <2>3
  <2> QED BY <2>2, <2>3, <2>4
<1> QED BY <1>4, <1>5

\* A step that appends accounted events and accepts no other SSH user keeps TriedInv.
LEMMA WriteKeeps ==
  ASSUME TriedInv, SourcesOK', NEW es \in Seq(EventSet), log' = log \o es,
         \A k \in DOMAIN es : es[k].type = "auth_success" =>
           \E j \in 1 .. Len(log) + k - 1 : Accounts((log \o es)[j], es[k]),
         \A c \in Conns : sshUser'[c] = sshUser[c] \/ UserTried(log, c)'
  PROVE  TriedInv'
<1>1. AllTried(log')
  BY WriteTried DEF TriedInv, SourcesOK
<1>2. ASSUME NEW c \in Conns PROVE UserTried(log, c)'
  <2>1. CASE UserTried(log, c)'
    BY <2>1
  <2>2. CASE sshUser'[c] = sshUser[c]
    <3>1. /\ Len(log \o es) = Len(log) + Len(es)
          /\ \A i \in 1 .. Len(log) + Len(es) :
               (log \o es)[i] = IF i <= Len(log) THEN log[i] ELSE es[i - Len(log)]
      BY ConcatProperties DEF TriedInv, SourcesOK
    <3>2. Len(log) \in Nat /\ Len(es) \in Nat
      BY DEF TriedInv, SourcesOK
    <3>3. \A i \in DOMAIN log : i \in DOMAIN log' /\ log'[i] = log[i]
      <4> SUFFICES ASSUME NEW i \in DOMAIN log PROVE i \in DOMAIN log' /\ log'[i] = log[i]
        OBVIOUS
      <4>1. i \in 1 .. Len(log) /\ DOMAIN log' = 1 .. Len(log')
        BY DEF TriedInv, SourcesOK
      <4>2. i \in 1 .. Len(log) + Len(es) /\ i <= Len(log)
        BY <3>2, <4>1
      <4> QED BY <3>1, <4>1, <4>2
    <3>4. UserTried(log, c)
      BY DEF TriedInv
    <3> QED BY <2>2, <3>3, <3>4 DEF UserTried, SessionOf
  <2> QED BY <1>2, <2>1, <2>2
<1> QED BY <1>1, <1>2 DEF TriedInv

\* An event of a session that is not a success.
LEMMA OtherKeeps ==
  ASSUME TriedInv, SourcesOK', NEW e \in EventSet, e.type # "auth_success",
         log' = log \o <<e>>,
         \A c \in Conns : sshUser'[c] = sshUser[c] \/ UserTried(log, c)'
  PROVE  TriedInv'
<1>1. <<e>> \in Seq(EventSet) /\ DOMAIN <<e>> = {1} /\ <<e>>[1] = e
  OBVIOUS
<1> QED BY <1>1, WriteKeeps

\* A step that writes nothing.
LEMMA QuietKeeps ==
  ASSUME TriedInv, SourcesOK', log' = log, sshUser' = sshUser
  PROVE  TriedInv'
BY DEF TriedInv, UserTried, AllTried, SessionOf

\* What an event is made of.
LEMMA EventType ==
  ASSUME NEW s \in Sessions, NEW t \in EventTypes,
         NEW u \in Text(Users), NEW p \in Text(Passwords)
  PROVE  /\ Event(s, t, u, p) \in EventSet
         /\ Event(s, t, u, p).session = s /\ Event(s, t, u, p).type = t
         /\ Event(s, t, u, p).username = u /\ Event(s, t, u, p).password = p
         /\ Plain(s, t) \in EventSet /\ Plain(s, t).type = t
BY DEF Event, Plain, EventSet, Text

\* The sessions of a connection.
LEMMA SessionType ==
  ASSUME NEW c \in Conns, NEW n \in 0 .. MaxInputs
  PROVE  <<c, n>> \in Sessions /\ SessionOf(c) \in Sessions
BY EventLogAssumption DEF Sessions, SessionOf

\* A log grows by events.
LEMMA LogType ==
  ASSUME SourcesOK, NEW es \in Seq(EventSet), log' = log \o es
  PROVE  log' \in Seq(EventSet)
BY ConcatProperties DEF SourcesOK

\* One event more.
LEMMA LogTypeOne ==
  ASSUME SourcesOK, NEW e \in EventSet, log' = log \o <<e>>
  PROVE  log' \in Seq(EventSet)
<1>1. <<e>> \in Seq(EventSet)
  OBVIOUS
<1> QED BY <1>1, LogType

\* Two events more.
LEMMA LogTypeTwo ==
  ASSUME SourcesOK, NEW a \in EventSet, NEW b \in EventSet, log' = log \o <<a, b>>
  PROVE  log' \in Seq(EventSet)
<1>1. <<a, b>> \in Seq(EventSet)
  OBVIOUS
<1> QED BY <1>1, LogType

\* The events that carry the credentials of a connection.
LEMMA CredentialType ==
  ASSUME NEW c \in Conns, NEW t \in {"auth_attempt", "auth_success"},
         NEW u \in Text(Users), NEW p \in Text(Passwords)
  PROVE  /\ Event(SessionOf(c), t, u, p) \in EventSet
         /\ Event(SessionOf(c), t, u, p).session = SessionOf(c)
         /\ Event(SessionOf(c), t, u, p).type = t
         /\ Event(SessionOf(c), t, u, p).username = u
         /\ Event(SessionOf(c), t, u, p).password = p
<1>1. SessionOf(c) \in Sessions
  BY EventLogAssumption DEF SessionOf, Sessions
<1>2. t \in EventTypes
  BY DEF EventTypes, Answered
<1> QED BY <1>1, <1>2, EventType

\* Reading one input counts it.
LEMMA ReadType ==
  ASSUME SourcesOK, NEW c \in Conns, Read(c)
  PROVE  inputs' \in [Conns -> 0 .. MaxInputs]
BY EventLogAssumption DEF SourcesOK, Read

\* One plain event, other than a success, of a connection.
LEMMA PlainKeeps ==
  ASSUME TriedInv, NEW c \in Conns, NEW n \in 0 .. MaxInputs,
         NEW t \in EventTypes, t # "auth_success",
         Write(<<Plain(<<c, n>>, t)>>), inputs' \in [Conns -> 0 .. MaxInputs],
         UNCHANGED <<sshUser, telnetUser, ftpUser, lastPassword>>
  PROVE  TriedInv'
<1>1. Plain(<<c, n>>, t) \in EventSet /\ Plain(<<c, n>>, t).type = t
  BY SessionType, EventType DEF Text
<1>2. log' = log \o <<Plain(<<c, n>>, t)>> /\ SourcesOK
  BY DEF Write, TriedInv
<1>3. log' \in Seq(EventSet)
  BY <1>1, <1>2, LogTypeOne
<1>4. SourcesOK'
  BY <1>2, <1>3 DEF SourcesOK
<1> QED BY <1>1, <1>2, <1>4, OtherKeeps

-----------------------------------------------------------------------------
(* The steps of the SSH honeypot.                                          *)

\* The steps of an SSH connection keep TriedInv.
LEMMA SshKeeps ==
  ASSUME TriedInv, NEW c \in Conns, SshNext(c), UNCHANGED <<telnetVars, ftpVars>>
  PROVE  TriedInv'
<1> USE DEF telnetVars, ftpVars, sshVars
<1>0. SourcesOK /\ 0 \in 0 .. MaxInputs
  BY EventLogAssumption DEF TriedInv
<1>1. CASE SshConnect(c)
  <2>1. "connect" \in EventTypes /\ Write(<<Plain(<<c, 0>>, "connect")>>)
    BY <1>1 DEF SshConnect, EventTypes, SessionOf
  <2>2. inputs' \in [Conns -> 0 .. MaxInputs]
    BY <1>0, <1>1 DEF SshConnect, Accept, SourcesOK
  <2> QED BY <1>0, <1>1, <2>1, <2>2, PlainKeeps DEF SshConnect
<1>2. ASSUME NEW u \in Users, NEW p \in Passwords, SshPassword(c, u, p)
      PROVE  TriedInv'
  <2> DEFINE e == Event(SessionOf(c), "auth_attempt", u, p)
  <2>1. /\ e \in EventSet /\ e.session = SessionOf(c) /\ e.type = "auth_attempt"
        /\ e.username = u
    BY CredentialType DEF Text
  <2>2. log' = log \o <<e>>
    BY <1>2 DEF SshPassword, Write
  <2> HIDE DEF e
  <2>3. log' \in Seq(EventSet)
    BY <1>0, <2>1, <2>2, LogTypeOne
  <2>4. inputs' \in [Conns -> 0 .. MaxInputs]
    BY <1>0, <1>2, ReadType DEF SshPassword
  <2>5. sshUser' = sshUser \/ sshUser' = [sshUser EXCEPT ![c] = u]
    BY <1>2 DEF SshPassword
  <2>6. SourcesOK'
    <3>1. sshUser' \in [Conns -> Text(Users)]
      BY <1>0, <2>5 DEF SourcesOK, Text
    <3> QED BY <1>0, <2>3, <2>4, <3>1 DEF SourcesOK
  <2>7. /\ Len(log) + 1 \in DOMAIN log' /\ log'[Len(log) + 1] = e
    BY <1>0, <2>1, <2>2 DEF SourcesOK
  <2>8. ASSUME NEW d \in Conns PROVE sshUser'[d] = sshUser[d] \/ UserTried(log, d)'
    <3>1. CASE d = c /\ sshUser' = [sshUser EXCEPT ![c] = u]
      <4>1. sshUser'[d] = u
        BY <1>0, <3>1 DEF SourcesOK
      <4> QED BY <2>1, <2>7, <3>1, <4>1 DEF UserTried, SessionOf
    <3>2. CASE ~(d = c /\ sshUser' = [sshUser EXCEPT ![c] = u])
      BY <1>0, <2>5, <3>2 DEF SourcesOK
    <3> QED BY <3>1, <3>2
  <2> QED BY <2>1, <2>2, <2>6, <2>8, OtherKeeps
<1>3. ASSUME NEW k \in Channels, SshShell(c, k)
      PROVE  TriedInv'
  <2> DEFINE e == Event(SessionOf(c), "auth_success", sshUser[c], NoText)
  <2>1. /\ e \in EventSet /\ e.session = SessionOf(c) /\ e.type = "auth_success"
        /\ e.username = sshUser[c] /\ e.password = NoText
    <3>1. sshUser[c] \in Text(Users) /\ NoText \in Text(Passwords)
      BY <1>0 DEF SourcesOK, Text
    <3> QED BY <3>1, CredentialType
  <2>2. log' = log \o <<e>> /\ sshUser[c] # NoText /\ sshUser' = sshUser
    BY <1>3 DEF SshShell, Write
  <2> HIDE DEF e
  <2>3. <<e>> \in Seq(EventSet) /\ DOMAIN <<e>> = {1} /\ <<e>>[1] = e
    BY <2>1
  <2>4. SourcesOK'
    <3>1. log' \in Seq(EventSet)
      BY <1>0, <2>1, <2>2, LogTypeOne
    <3>2. inputs' = inputs
      BY <1>3 DEF SshShell, NoRead
    <3> QED BY <1>0, <2>2, <3>1, <3>2 DEF SourcesOK
  <2>5. PICK j \in DOMAIN log :
          log[j].session = SessionOf(c) /\ log[j].type = "auth_attempt"
          /\ log[j].username = sshUser[c]
    BY <2>2 DEF TriedInv, UserTried
  <2>6. j \in 1 .. Len(log) /\ (log \o <<e>>)[j] = log[j]
    BY <1>0, <2>1, <2>5 DEF SourcesOK
  <2>7. \A i \in DOMAIN <<e>> : <<e>>[i].type = "auth_success" =>
          \E n \in 1 .. Len(log) + i - 1 : Accounts((log \o <<e>>)[n], <<e>>[i])
    <3>1. Accounts((log \o <<e>>)[j], e)
      BY <2>1, <2>5, <2>6 DEF Accounts
    <3>2. j \in 1 .. Len(log) + 1 - 1
      BY <2>6
    <3> QED BY <2>3, <3>1, <3>2
  <2> QED BY <2>2, <2>3, <2>4, <2>7, WriteKeeps
<1>4. ASSUME NEW k \in Channels, NEW l \in Lines, SshLine(c, k, l)
      PROVE  TriedInv'
  <2>1. "command" \in EventTypes /\ Write(<<Plain(<<c, 0>>, "command")>>)
    BY <1>4 DEF SshLine, EventTypes, Answered, SessionOf
  <2>2. inputs' \in [Conns -> 0 .. MaxInputs]
    BY <1>0, <1>4, ReadType DEF SshLine
  <2> QED BY <1>0, <1>4, <2>1, <2>2, PlainKeeps DEF SshLine
<1>5. ASSUME NEW k \in Channels, SshRun(c, k)
      PROVE  TriedInv'
  BY <1>0, <1>5, QuietKeeps DEF SshRun, NoRead, SourcesOK
<1>6. ASSUME NEW k \in Channels, SshEnd(c, k)
      PROVE  TriedInv'
  <2>1. "disconnect" \in EventTypes /\ Write(<<Plain(<<c, 0>>, "disconnect")>>)
    BY <1>6 DEF SshEnd, EventTypes, SessionOf
  <2>2. inputs' \in [Conns -> 0 .. MaxInputs]
    BY <1>0, <1>6 DEF SshEnd, NoRead, SourcesOK
  <2> QED BY <1>0, <1>6, <2>1, <2>2, PlainKeeps DEF SshEnd
<1> QED BY <1>1, <1>2, <1>3, <1>4, <1>5, <1>6 DEF SshNext

-----------------------------------------------------------------------------
(* The steps of the Telnet honeypot.                                       *)

\* An attempt followed by the success it gives, as Telnet and FTP write them.
LEMMA LoginKeeps ==
  ASSUME TriedInv, SourcesOK', sshUser' = sshUser,
         NEW a \in EventSet, NEW b \in EventSet, a.type = "auth_attempt",
         Accounts(a, b), log' = log \o <<a, b>>
  PROVE  TriedInv'
<1> DEFINE es == <<a, b>>
<1>1. es \in Seq(EventSet) /\ DOMAIN es = {1, 2} /\ es[1] = a /\ es[2] = b
  OBVIOUS
<1>2. Len(log) \in Nat /\ log \in Seq(EventSet)
  BY DEF TriedInv, SourcesOK
<1>3. (log \o es)[Len(log) + 1] = a
  BY <1>2
<1> HIDE DEF es
<1>4. \A k \in DOMAIN es : es[k].type = "auth_success" =>
        \E j \in 1 .. Len(log) + k - 1 : Accounts((log \o es)[j], es[k])
  <2>1. Len(log) + 1 \in 1 .. Len(log) + 2 - 1
    BY <1>2
  <2> QED BY <1>1, <1>3, <2>1
<1> QED BY <1>1, <1>4, WriteKeeps DEF es

\* The steps of a Telnet connection keep TriedInv.
LEMMA TelnetKeeps ==
  ASSUME TriedInv, NEW c \in Conns, TelnetNext(c), UNCHANGED <<sshVars, ftpVars>>
  PROVE  TriedInv'
<1> USE DEF sshVars, ftpVars
<1>0. SourcesOK /\ 0 \in 0 .. MaxInputs
  BY EventLogAssumption DEF TriedInv
<1>1. CASE TelnetConnect(c)
  <2>1. "connect" \in EventTypes /\ Write(<<Plain(<<c, 0>>, "connect")>>)
    BY <1>1 DEF TelnetConnect, EventTypes, SessionOf
  <2>2. inputs' \in [Conns -> 0 .. MaxInputs]
    BY <1>0, <1>1 DEF TelnetConnect, Accept, SourcesOK
  <2> QED BY <1>0, <1>1, <2>1, <2>2, PlainKeeps DEF TelnetConnect
<1>2. ASSUME NEW u \in Text(Users), TelnetLogin(c, u)
      PROVE  TriedInv'
  <2>1. inputs' \in [Conns -> 0 .. MaxInputs]
    BY <1>0, <1>2, ReadType DEF TelnetLogin, Readline, NoRead, SourcesOK
  <2>2. telnetUser' \in [Conns -> Text(Users)]
    BY <1>0, <1>2 DEF TelnetLogin, SourcesOK
  <2>3. SourcesOK'
    BY <1>0, <1>2, <2>1, <2>2 DEF TelnetLogin, SourcesOK
  <2> QED BY <1>2, <2>3, QuietKeeps DEF TelnetLogin
<1>3. ASSUME NEW p \in Text(Passwords), TelnetPassword(c, p)
      PROVE  TriedInv'
  <2> DEFINE a == Event(SessionOf(c), "auth_attempt", telnetUser[c], p)
             b == Event(SessionOf(c), "auth_success", telnetUser[c], NoText)
  <2>1. telnetUser[c] \in Text(Users) /\ NoText \in Text(Passwords)
    BY <1>0 DEF SourcesOK, Text
  <2>2. a \in EventSet /\ b \in EventSet /\ a.type = "auth_attempt" /\ Accounts(a, b)
    BY <2>1, CredentialType DEF Accounts
  <2>3. log' = log \o <<a, b>>
    BY <1>3 DEF TelnetPassword, Write
  <2> HIDE DEF a, b
  <2>4. log' \in Seq(EventSet)
    BY <1>0, <2>2, <2>3, LogTypeTwo
  <2>5. inputs' \in [Conns -> 0 .. MaxInputs]
    BY <1>0, <1>3, ReadType DEF TelnetPassword, Readline, NoRead, SourcesOK
  <2>6. SourcesOK'
    BY <1>0, <1>3, <2>4, <2>5 DEF TelnetPassword, SourcesOK
  <2> QED BY <2>2, <2>3, <2>6, LoginKeeps
<1>4. ASSUME NEW l \in Lines, TelnetLine(c, l)
      PROVE  TriedInv'
  <2>1. "command" \in EventTypes /\ Write(<<Plain(<<c, 0>>, "command")>>)
    BY <1>4 DEF TelnetLine, EventTypes, Answered, SessionOf
  <2>2. inputs' \in [Conns -> 0 .. MaxInputs]
    BY <1>0, <1>4, ReadType DEF TelnetLine
  <2> QED BY <1>0, <1>4, <2>1, <2>2, PlainKeeps DEF TelnetLine
<1>5. CASE TelnetRun(c)
  BY <1>0, <1>5, QuietKeeps DEF TelnetRun, NoRead, SourcesOK
<1>6. CASE TelnetEnd(c)
  <2>1. "disconnect" \in EventTypes /\ Write(<<Plain(<<c, 0>>, "disconnect")>>)
    BY <1>6 DEF TelnetEnd, EventTypes, SessionOf
  <2>2. inputs' \in [Conns -> 0 .. MaxInputs]
    BY <1>0, <1>6 DEF TelnetEnd, SourcesOK
  <2> QED BY <1>0, <1>6, <2>1, <2>2, PlainKeeps DEF TelnetEnd
<1> QED BY <1>1, <1>2, <1>3, <1>4, <1>5, <1>6 DEF TelnetNext, Text

-----------------------------------------------------------------------------
(* The steps of the FTP and HTTP honeypots.                                *)

\* The steps of an FTP connection keep TriedInv.
LEMMA FtpKeeps ==
  ASSUME TriedInv, NEW c \in Conns, FtpNext(c), UNCHANGED <<sshVars, telnetVars>>
  PROVE  TriedInv'
<1> USE DEF sshVars, telnetVars, ftpVars
<1>0. SourcesOK /\ 0 \in 0 .. MaxInputs
  BY EventLogAssumption DEF TriedInv
<1>1. CASE FtpConnect(c)
  <2>1. "connect" \in EventTypes /\ Write(<<Plain(<<c, 0>>, "connect")>>)
    BY <1>1 DEF FtpConnect, EventTypes, SessionOf
  <2>2. inputs' \in [Conns -> 0 .. MaxInputs]
    BY <1>0, <1>1 DEF FtpConnect, Accept, SourcesOK
  <2> QED BY <1>0, <1>1, <2>1, <2>2, PlainKeeps DEF FtpConnect
<1>2. ASSUME NEW u \in Users, FtpUser(c, u)
      PROVE  TriedInv'
  <2> DEFINE e == Event(SessionOf(c), "auth_attempt", u, NoText)
  <2>1. e \in EventSet /\ e.type # "auth_success"
    BY CredentialType DEF Text
  <2>2. log' = log \o <<e>>
    BY <1>2 DEF FtpUser, Write
  <2> HIDE DEF e
  <2>3. log' \in Seq(EventSet)
    BY <1>0, <2>1, <2>2, LogTypeOne
  <2>4. inputs' \in [Conns -> 0 .. MaxInputs]
    BY <1>0, <1>2, ReadType DEF FtpUser, FtpReads
  <2>5. ftpUser' \in [Conns -> Text(Users)]
    BY <1>0, <1>2 DEF FtpUser, SourcesOK, Text
  <2>6. SourcesOK'
    BY <1>0, <1>2, <2>3, <2>4, <2>5 DEF FtpUser, SourcesOK
  <2> QED BY <2>1, <2>2, <2>6, OtherKeeps
<1>3. ASSUME NEW p \in Passwords, FtpPass(c, p)
      PROVE  TriedInv'
  <2> DEFINE a == Event(SessionOf(c), "auth_attempt", ftpUser[c], p)
             b == Event(SessionOf(c), "auth_success", ftpUser[c], lastPassword'[c])
  <2>1. /\ lastPassword'[c] = p /\ ftpUser[c] \in Text(Users) /\ p \in Text(Passwords)
        /\ lastPassword' \in [Conns -> Text(Passwords)]
    BY <1>0, <1>3 DEF FtpPass, SourcesOK, Text
  <2>2. /\ a \in EventSet /\ b \in EventSet /\ a.type = "auth_attempt" /\ Accounts(a, b)
    BY <2>1, CredentialType DEF Accounts
  <2>3. log' = log \o <<a, b>> \/ log' = log \o <<a>>
    BY <1>3 DEF FtpPass, Write
  <2> HIDE DEF a, b
  <2>4. log' \in Seq(EventSet)
    BY <1>0, <2>2, <2>3, LogTypeOne, LogTypeTwo
  <2>5. inputs' \in [Conns -> 0 .. MaxInputs]
    BY <1>0, <1>3, ReadType DEF FtpPass, FtpReads
  <2>6. SourcesOK'
    BY <1>0, <1>3, <2>1, <2>4, <2>5 DEF FtpPass, SourcesOK
  <2> QED BY <2>2, <2>3, <2>6, LoginKeeps, OtherKeeps
<1>4. CASE FtpList(c)
  <2>1. "ftp_command" \in EventTypes /\ Write(<<Plain(<<c, 0>>, "ftp_command")>>)
    BY <1>4 DEF FtpList, EventTypes, Answered, SessionOf
  <2>2. inputs' \in [Conns -> 0 .. MaxInputs]
    BY <1>0, <1>4, ReadType DEF FtpList, FtpReads
  <2> QED BY <1>0, <1>4, <2>1, <2>2, PlainKeeps DEF FtpList
<1>5. CASE FtpRetr(c)
  <2>1. inputs' \in [Conns -> 0 .. MaxInputs]
    BY <1>0, <1>5, ReadType DEF FtpRetr, FtpReads
  <2>2. CASE Write(<<Plain(SessionOf(c), "file_access")>>)
    <3>1. "file_access" \in EventTypes /\ Write(<<Plain(<<c, 0>>, "file_access")>>)
      BY <2>2 DEF EventTypes, Answered, SessionOf
    <3> QED BY <1>0, <1>5, <2>1, <3>1, PlainKeeps DEF FtpRetr
  <2>3. CASE UNCHANGED log
    BY <1>0, <1>5, <2>1, <2>3, QuietKeeps DEF FtpRetr, SourcesOK
  <2> QED BY <1>5, <2>2, <2>3 DEF FtpRetr
<1> QED BY <1>1, <1>2, <1>3, <1>4, <1>5 DEF FtpNext

\* The steps of an HTTP connection keep TriedInv.
LEMMA HttpKeeps ==
  ASSUME TriedInv, NEW c \in Conns, HttpNext(c), UNCHANGED <<sshVars, telnetVars, ftpVars>>
  PROVE  TriedInv'
<1> USE DEF sshVars, telnetVars, ftpVars
<1>0. SourcesOK
  BY DEF TriedInv
<1>1. CASE HttpLog(c)
  <2>1. /\ Route(request[c]) \in EventTypes /\ Route(request[c]) # "auth_success"
        /\ Write(<<Plain(<<c, inputs[c]>>, Route(request[c]))>>)
    BY <1>1 DEF HttpLog, Route, EventTypes, Answered
  <2>2. inputs' \in [Conns -> 0 .. MaxInputs] /\ inputs[c] \in 0 .. MaxInputs
    BY <1>0, <1>1 DEF HttpLog, NoRead, SourcesOK
  <2> QED BY <2>1, <2>2, PlainKeeps
<1>2. ASSUME NEW r \in Requests, HttpRequest(c, r)
      PROVE  TriedInv'
  <2>1. inputs' \in [Conns -> 0 .. MaxInputs]
    BY <1>0, <1>2, ReadType DEF HttpRequest
  <2> QED BY <1>0, <1>2, <2>1, QuietKeeps DEF HttpRequest, SourcesOK
<1>3. CASE HttpConnect(c) \/ HttpDrop(c) \/ HttpAnswer(c)
  <2>1. UNCHANGED <<log, inputs>>
    BY <1>3 DEF HttpConnect, Accept, HttpDrop, HttpAnswer, NoRead
  <2> QED BY <1>0, <2>1, QuietKeeps DEF SourcesOK
<1> QED BY <1>1, <1>2, <1>3 DEF HttpNext

-----------------------------------------------------------------------------

\* Initially nothing is logged and no user is accepted.
LEMMA TriedInit == Init => TriedInv
<1> SUFFICES ASSUME Init PROVE TriedInv
  OBVIOUS
<1>1. log = <<>> /\ DOMAIN log = {} /\ log \in Seq(EventSet)
  BY DEF Init, EventLogInit
<1>2. SourcesOK
  <2>1. 0 \in 0 .. MaxInputs
    BY EventLogAssumption
  <2> QED BY <1>1, <2>1
  DEF Init, EventLogInit, SshInit, TelnetInit, FtpInit, SourcesOK, Text
<1>3. \A c \in Conns : sshUser[c] = NoText
  BY DEF Init, SshInit
<1> QED BY <1>1, <1>2, <1>3 DEF TriedInv, UserTried, AllTried

\* Every step keeps the invariant.
LEMMA TriedNext == TriedInv /\ [Next]_vars => TriedInv'
<1> SUFFICES ASSUME TriedInv, [Next]_vars PROVE TriedInv'
  OBVIOUS
<1> USE DEF logVars, serviceVars, sshVars, telnetVars, ftpVars
<1>0. SourcesOK
  BY DEF TriedInv
<1>1. ASSUME NEW c \in Conns, SshNext(c) /\ UNCHANGED <<telnetVars, ftpVars, httpVars, stops>>
      PROVE  TriedInv'
  BY <1>1, SshKeeps
<1>2. ASSUME NEW c \in Conns, TelnetNext(c) /\ UNCHANGED <<sshVars, ftpVars, httpVars, stops>>
      PROVE  TriedInv'
  BY <1>2, TelnetKeeps
<1>3. ASSUME NEW c \in Conns, FtpNext(c) /\ UNCHANGED <<sshVars, telnetVars, httpVars, stops>>
      PROVE  TriedInv'
  BY <1>3, FtpKeeps
<1>4. ASSUME NEW c \in Conns, HttpNext(c) /\ UNCHANGED <<sshVars, telnetVars, ftpVars, stops>>
      PROVE  TriedInv'
  BY <1>4, HttpKeeps
<1>5. ASSUME NEW c \in Conns, Leave(c)
      PROVE  TriedInv'
  BY <1>0, <1>5, QuietKeeps DEF Leave, SourcesOK
<1>6. ASSUME NEW s \in Services, Stop(s)
      PROVE  TriedInv'
  BY <1>0, <1>6, QuietKeeps DEF Stop, SourcesOK
<1>7. CASE UNCHANGED vars
  BY <1>0, <1>7, QuietKeeps DEF vars, SourcesOK
<1> QED BY <1>1, <1>2, <1>3, <1>4, <1>5, <1>6, <1>7 DEF Next

\* SuccessesWereTried: whatever the clients and the stops do, every auth_success in
\* the log was tried in its session: the analyst may read its credentials as the
\* ones that opened the door.
THEOREM SuccessesTried == Spec => []SuccessesWereTried
<1>1. TriedInv => SuccessesWereTried
  BY DEF TriedInv, AllTried, Accounts, SuccessesWereTried
<1> QED BY <1>1, TriedInit, TriedNext, PTL DEF Spec
=============================================================================
