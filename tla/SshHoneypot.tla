----------------------------- MODULE SshHoneypot -----------------------------
(***************************************************************************)
(* The SSH honeypot (honeypots/ssh/server.py).  asyncssh runs one          *)
(* _handle_shell for each session channel of a connection: the shells of   *)
(* one connection are concurrent and write under one session_id.           *)
(***************************************************************************)
EXTENDS EventLog, FakeShell

CONSTANT Channels      \* bound: session channels of one connection

VARIABLES
  sshUser,         \* sshUser[c]: the user whose password was accepted, or NoText
  shell            \* shell[c][k]: the FakeShell of channel k and its handler

sshVars == <<sshUser, shell>>

\* stage: none, prompt (waits for a line), busy (the line is logged, the jitter
\* sleeps), done; lost when the container stopped.
NoShell == [stage |-> "none", cwd |-> Home, line |-> [cmd |-> "", args |-> <<>>]]

SshInit ==
  /\ sshUser = [c \in Conns |-> NoText]
  /\ shell = [c \in Conns |-> [k \in Channels |-> NoShell]]

\* connection_made.
SshConnect(c) ==
  /\ Accept(c, "ssh")
  /\ Write(<<Plain(SessionOf(c), "connect")>>)
  /\ UNCHANGED <<given, sshVars>>

\* validate_password: about 30 % of the passwords are accepted, at random.
SshPassword(c, u, p) ==
  /\ service[c] = "ssh" /\ client[c] = "here" /\ sshUser[c] = NoText
  /\ Read(c)
  /\ Write(<<Event(SessionOf(c), "auth_attempt", u, p)>>)
  /\ sshUser' \in {sshUser, [sshUser EXCEPT ![c] = u]}
  /\ Give(c, "auth_attempt")
  /\ UNCHANGED shell

\* process_handler: _handle_shell begins on a new channel.
SshShell(c, k) ==
  /\ service[c] = "ssh" /\ client[c] = "here" /\ sshUser[c] # NoText
  /\ shell[c][k].stage = "none"
  /\ Write(<<Event(SessionOf(c), "auth_success", sshUser[c], NoText)>>)
  /\ shell' = [shell EXCEPT ![c][k].stage = "prompt"]
  /\ NoRead
  /\ UNCHANGED <<given, sshUser>>

\* Mutant of SshLine: lines that only move about are not logged.
SshLineQuiet(c, k, l) ==
  /\ shell[c][k].stage = "prompt"
  /\ Read(c)
  /\ IF l.cmd = "cd" THEN UNCHANGED log
     ELSE Write(<<Plain(SessionOf(c), "command")>>)
  /\ shell' = [shell EXCEPT ![c][k].stage = "busy", ![c][k].line = l]
  /\ UNCHANGED <<given, sshUser>>

\* A line arrives: it is logged, then the handler sleeps.
SshLine(c, k, l) ==
  /\ shell[c][k].stage = "prompt"
  /\ Read(c)
  /\ Write(<<Plain(SessionOf(c), "command")>>)
  /\ shell' = [shell EXCEPT ![c][k].stage = "busy", ![c][k].line = l]
  /\ UNCHANGED <<given, sshUser>>

\* shell.run, and the answer with the next prompt.
SshRun(c, k) ==
  /\ shell[c][k].stage = "busy" /\ ~Exits(shell[c][k].line)
  /\ shell' = [shell EXCEPT ![c][k].stage = "prompt",
                            ![c][k].cwd = CwdAfter(@, shell[c][k].line)]
  /\ Give(c, "command")
  /\ NoRead
  /\ UNCHANGED <<log, sshUser>>

\* Mutant of SshEnd: written where exit is handled, and again in `finally`.
SshEndTwice(c, k) ==
  /\ \/ shell[c][k].stage = "prompt"
     \/ shell[c][k].stage = "busy" /\ (client[c] = "gone" \/ Exits(shell[c][k].line))
  /\ LET goodbye == Plain(SessionOf(c), "disconnect")
     IN  Write(IF Exits(shell[c][k].line) THEN <<goodbye, goodbye>> ELSE <<goodbye>>)
  /\ shell' = [shell EXCEPT ![c][k].stage = "done"]
  /\ NoRead
  /\ UNCHANGED <<given, sshUser>>

\* Mutant of SshEnd: the event is written at the end of the loop only, not in
\* `finally`.
SshEndQuietly(c, k) ==
  /\ \/ shell[c][k].stage = "prompt"
     \/ shell[c][k].stage = "busy" /\ (client[c] = "gone" \/ Exits(shell[c][k].line))
  /\ IF client[c] = "gone" THEN UNCHANGED log
     ELSE Write(<<Plain(SessionOf(c), "disconnect")>>)
  /\ shell' = [shell EXCEPT ![c][k].stage = "done"]
  /\ NoRead
  /\ UNCHANGED <<given, sshUser>>

\* `finally`: exit, the end of stdin or a break, or a client that left while the
\* handler slept or wrote (the task is cancelled, or the write raises).
SshEnd(c, k) ==
  /\ \/ shell[c][k].stage = "prompt"
     \/ shell[c][k].stage = "busy" /\ (client[c] = "gone" \/ Exits(shell[c][k].line))
  /\ Write(<<Plain(SessionOf(c), "disconnect")>>)
  /\ shell' = [shell EXCEPT ![c][k].stage = "done"]
  /\ NoRead
  /\ UNCHANGED <<given, sshUser>>

\* The container stops.
SshStop == shell' =
  [c \in Conns |-> [k \in Channels |->
     IF shell[c][k].stage \in {"prompt", "busy"}
     THEN [shell[c][k] EXCEPT !.stage = "lost"] ELSE shell[c][k]]]

SshNext(c) ==
  \/ SshConnect(c)
  \/ \E u \in Users, p \in Passwords : SshPassword(c, u, p)
  \/ \E k \in Channels :
       \/ SshShell(c, k)
       \/ \E l \in Lines : SshLine(c, k, l)
       \/ SshRun(c, k)
       \/ SshEnd(c, k)

SshTypeOK ==
  /\ sshUser \in [Conns -> Users \cup {NoText}]
  /\ \A c \in Conns : \A k \in Channels :
       /\ shell[c][k].stage \in {"none", "prompt", "busy", "done", "lost"}
       /\ shell[c][k].line \in Lines \cup {NoShell.line}
=============================================================================
