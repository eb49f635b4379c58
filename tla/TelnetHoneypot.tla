---------------------------- MODULE TelnetHoneypot ----------------------------
(***************************************************************************)
(* The Telnet honeypot (honeypots/telnet/server.py): one coroutine per     *)
(* connection asks for a login and a password, accepts them, and runs the  *)
(* fake shell.  readline() of a client that left gives an empty text.      *)
(***************************************************************************)
EXTENDS EventLog, FakeShell

VARIABLES
  telnet,          \* telnet[c]: none, login, password, prompt, busy, done, lost
  telnetUser,      \* telnetUser[c]: `username`
  telnetShell      \* telnetShell[c]: cwd of the FakeShell, and the line it runs

telnetVars == <<telnet, telnetUser, telnetShell>>

TelnetInit ==
  /\ telnet = [c \in Conns |-> "none"]
  /\ telnetUser = [c \in Conns |-> NoText]
  /\ telnetShell = [c \in Conns |-> [cwd |-> Home, line |-> [cmd |-> "", args |-> <<>>]]]

\* handle: the connect event and the login prompt.
TelnetConnect(c) ==
  /\ Accept(c, "telnet")
  /\ Write(<<Plain(SessionOf(c), "connect")>>)
  /\ telnet' = [telnet EXCEPT ![c] = "login"]
  /\ UNCHANGED <<given, telnetUser, telnetShell>>

\* What readline gives: a text the client sent, or nothing at the end of the stream.
Readline(c, texts, text) ==
  \/ text \in texts \cup {NoText} /\ Read(c)
  \/ text = NoText /\ client[c] = "gone" /\ NoRead

TelnetLogin(c, u) ==
  /\ telnet[c] = "login"
  /\ Readline(c, Users, u)
  /\ telnetUser' = [telnetUser EXCEPT ![c] = u]
  /\ telnet' = [telnet EXCEPT ![c] = "password"]
  /\ UNCHANGED <<log, given, telnetShell>>

\* The attempt and its success are written one after the other, whatever was typed.
TelnetPassword(c, p) ==
  /\ telnet[c] = "password"
  /\ Readline(c, Passwords, p)
  /\ Write(<<Event(SessionOf(c), "auth_attempt", telnetUser[c], p),
             Event(SessionOf(c), "auth_success", telnetUser[c], NoText)>>)
  /\ telnet' = [telnet EXCEPT ![c] = "prompt"]
  /\ Give(c, "auth_attempt")
  /\ UNCHANGED <<telnetUser, telnetShell>>

TelnetLine(c, l) ==
  /\ telnet[c] = "prompt"
  /\ Read(c)
  /\ Write(<<Plain(SessionOf(c), "command")>>)
  /\ telnet' = [telnet EXCEPT ![c] = "busy"]
  /\ telnetShell' = [telnetShell EXCEPT ![c].line = l]
  /\ UNCHANGED <<given, telnetUser>>

TelnetRun(c) ==
  /\ telnet[c] = "busy" /\ ~Exits(telnetShell[c].line)
  /\ telnetShell' = [telnetShell EXCEPT ![c].cwd = CwdAfter(@, telnetShell[c].line)]
  /\ telnet' = [telnet EXCEPT ![c] = "prompt"]
  /\ Give(c, "command")
  /\ NoRead
  /\ UNCHANGED <<log, telnetUser>>

\* `finally`: exit, the end of the stream at the prompt, or a client that left:
\* drain() may raise ConnectionResetError wherever the coroutine is.
TelnetEnd(c) ==
  /\ \/ telnet[c] = "busy" /\ Exits(telnetShell[c].line)
     \/ telnet[c] \in {"login", "password", "prompt", "busy"} /\ client[c] = "gone"
  /\ Write(<<Plain(SessionOf(c), "disconnect")>>)
  /\ telnet' = [telnet EXCEPT ![c] = "done"]
  /\ client' = [client EXCEPT ![c] = "gone"]
  /\ UNCHANGED <<given, service, inputs, telnetUser, telnetShell>>

\* The container stops.
TelnetStop == telnet' =
  [c \in Conns |-> IF telnet[c] \in {"none", "done"} THEN telnet[c] ELSE "lost"]

TelnetNext(c) ==
  \/ TelnetConnect(c)
  \/ \E u \in Users \cup {NoText} : TelnetLogin(c, u)
  \/ \E p \in Passwords \cup {NoText} : TelnetPassword(c, p)
  \/ \E l \in Lines : TelnetLine(c, l)
  \/ TelnetRun(c)
  \/ TelnetEnd(c)

TelnetTypeOK ==
  /\ telnet \in [Conns -> {"none", "login", "password", "prompt", "busy", "done", "lost"}]
  /\ telnetUser \in [Conns -> Users \cup {NoText}]
  /\ \A c \in Conns : telnetShell[c].line \in Lines \cup {[cmd |-> "", args |-> <<>>]}
=============================================================================
