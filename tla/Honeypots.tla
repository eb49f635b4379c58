------------------------------- MODULE Honeypots -------------------------------
(***************************************************************************)
(* The four honeypots together, as clients, the event loops and container  *)
(* stops interleave, and what the log says of the sessions.                *)
(***************************************************************************)
EXTENDS SshHoneypot, TelnetHoneypot, FtpHoneypot, HttpHoneypot, FiniteSets

CONSTANTS
  MaxStops,        \* bound: stops of a container
  Criteria         \* thresholds of profiles.json, see Classifier

ASSUME HoneypotsAssumption == MaxStops \in Nat

VARIABLE stops     \* stops so far

serviceVars == <<sshVars, telnetVars, ftpVars, httpVars>>
vars == <<logVars, serviceVars, stops>>

Init ==
  /\ EventLogInit /\ SshInit /\ TelnetInit /\ FtpInit /\ HttpInit
  /\ stops = 0

\* The client of c closes the connection, or loses it.
Leave(c) ==
  /\ client[c] = "here"
  /\ client' = [client EXCEPT ![c] = "gone"]
  /\ UNCHANGED <<log, service, inputs, given, serviceVars, stops>>

\* The container of s stops; the restarted one (restart: unless-stopped) knows
\* nothing of the connections that were open.
Stop(s) ==
  /\ stops < MaxStops
  /\ stops' = stops + 1
  /\ client' = [c \in Conns |-> IF service[c] = s THEN "gone" ELSE client[c]]
  /\ IF s = "ssh" THEN SshStop ELSE UNCHANGED shell
  /\ IF s = "telnet" THEN TelnetStop ELSE UNCHANGED telnet
  /\ IF s = "http" THEN HttpStop ELSE UNCHANGED http
  /\ UNCHANGED <<log, service, inputs, given, sshUser, telnetUser, telnetShell,
                 ftpVars, request>>

Next ==
  \/ \E c \in Conns :
       \/ SshNext(c) /\ UNCHANGED <<telnetVars, ftpVars, httpVars, stops>>
       \/ TelnetNext(c) /\ UNCHANGED <<sshVars, ftpVars, httpVars, stops>>
       \/ FtpNext(c) /\ UNCHANGED <<sshVars, telnetVars, httpVars, stops>>
       \/ HttpNext(c) /\ UNCHANGED <<sshVars, telnetVars, ftpVars, stops>>
       \/ Leave(c)
  \/ \E s \in Services : Stop(s)

Spec == Init /\ [][Next]_vars

\* What the event loops do by themselves once the client of c is gone: stdin ends,
\* the jitter elapses, a read or a write fails.
Wind(c) ==
  /\ client[c] = "gone"
  /\ \/ /\ \E k \in Channels : SshRun(c, k) \/ SshEnd(c, k)
        /\ UNCHANGED <<telnetVars, ftpVars, httpVars, stops>>
     \/ /\ TelnetRun(c) \/ TelnetEnd(c)
        /\ UNCHANGED <<sshVars, ftpVars, httpVars, stops>>

Fairness == \A c \in Conns : WF_vars(Wind(c))
FairSpec == Spec /\ Fairness

-----------------------------------------------------------------------------
(* Properties.                                                             *)

\* Types of all variables.
TypeOK ==
  /\ EventLogTypeOK /\ SshTypeOK /\ TelnetTypeOK /\ FtpTypeOK /\ HttpTypeOK
  /\ stops \in 0 .. MaxStops

\* How many events of type t session s has among the first n of the log.
Count(s, t, n) == Cardinality({i \in 1 .. n : log[i].session = s /\ log[i].type = t})

\* The log tells each session in order, whatever the shells of one connection, the
\* other clients and stops do: it opens with its connect, a command and a disconnect
\* belong to a shell that was opened and not closed yet, nothing follows the
\* disconnect of a Telnet session, and an HTTP session is one request.
SessionsAreTold ==
  \A i \in DOMAIN log :
    LET s == log[i].session
        before == {j \in 1 .. i - 1 : log[j].session = s}
    IN  CASE service[s[1]] = "http" -> before = {}
          [] log[i].type = "connect" -> before = {}
          [] log[i].type \in {"command", "disconnect"} /\ service[s[1]] = "ssh" ->
               Count(s, "auth_success", i - 1) > Count(s, "disconnect", i - 1)
          [] OTHER -> /\ Count(s, "connect", i - 1) = 1
                      /\ service[s[1]] # "ssh" => Count(s, "disconnect", i - 1) = 0

\* A success in the log was tried: the user, and the password where the event has
\* one, are those of an earlier attempt of the session (on_login reads what ftp_PASS
\* stored; the SSH shell asks the connection for its user).
SuccessesWereTried ==
  \A i \in DOMAIN log :
    log[i].type = "auth_success" =>
      \E j \in 1 .. i - 1 :
        /\ log[j].session = log[i].session /\ log[j].type = "auth_attempt"
        /\ log[j].username = log[i].username
        /\ log[i].password \in {NoText, log[j].password}

\* What a client was answered is in the log, even when the container stops in
\* between (methods without a route and unfinished transfers apart, see Routed and
\* FtpRetr): the event is written before the answer.
AnsweredIsLogged ==
  \A c \in Conns : \A t \in Answered :
    given[c][t] <= Cardinality({i \in DOMAIN log : log[i].session[1] = c /\ log[i].type = t})

\* A shell shows a tree that holds together ("repondre de facon coherente"): its
\* current directory exists, what `ll` lists there exists (the root apart, which
\* lists directories that are not in the tree), and the path it prints leads there.
Coherent(cwd) ==
  /\ IsDir(cwd)
  /\ cwd # <<>> => \A n \in Ls(cwd, [cmd |-> "ll", args |-> <<>>]) :
                     Cat(cwd, [cmd |-> "cat", args |-> << <<n>> >>])[1]
                       # "No such file or directory"
  /\ Ls(cwd, [cmd |-> "ls", args |-> << <<"">> \o cwd >>])
       = Ls(cwd, [cmd |-> "ls", args |-> <<>>])

\* The tree as fakeshell.py builds it, a fact about data: TLC evaluates it for every
\* directory of _DIRS. No constant enters it.
ASSUME TreeIsCoherent ==
  Home \in DOMAIN Dirs /\ \A path \in DOMAIN Dirs : Coherent(path)

\* The current directory of every shell is coherent, wherever the lines went (_cd).
ShellsAreCoherent ==
  \A c \in Conns :
    /\ \A k \in Channels : Coherent(shell[c][k].cwd)
    /\ Coherent(telnetShell[c].cwd)

\* Every shell that was opened and every Telnet session gets its disconnect once the
\* client is gone, unless the container stopped.
Balanced(c) ==
  LET s == SessionOf(c)
      opened == IF service[c] = "ssh" THEN "auth_success" ELSE "connect"
  IN  \/ service[c] \notin {"ssh", "telnet"}
      \/ Count(s, opened, Len(log)) = Count(s, "disconnect", Len(log))
      \/ telnet[c] = "lost" \/ \E k \in Channels : shell[c][k].stage = "lost"

GoodbyesAreLogged == \A c \in Conns : client[c] = "gone" ~> Balanced(c)

\* "connect/close, ASN scanner connu (GreyNoise RIOT)" (README): a session of a
\* known scanner that connected, sent nothing and left is classed scanner_legitime.
\* That it is known is taken as given (known_scanner TRUE): the classifier reads the
\* flag, the replayed datasets carry it, and none of the live enrichers sets it.
C == INSTANCE Classifier WITH
       Events <- 1 .. 20,
       Attr <- [i \in 1 .. Len(log) |->
                 [session_id |-> log[i].session, ts |-> i,
                  event_type |-> log[i].type, password |-> log[i].password,
                  command |-> NoText, known_scanner |-> TRUE]]

SilentScannersAreScanners ==
  \A c \in Conns :
    LET rows == {i \in DOMAIN log : log[i].session[1] = c}
    IN  inputs[c] = 0 /\ client[c] = "gone" /\ rows # {} =>
          C!Classify(rows) = "scanner_legitime"
=============================================================================
