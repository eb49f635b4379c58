----------------------------- MODULE FtpHoneypot -----------------------------
(***************************************************************************)
(* The FTP honeypot (honeypots/ftp/server.py): a handler of pyftpdlib whose*)
(* callbacks log.  pyftpdlib itself is modelled from these callbacks: it   *)
(* refuses PASS without a USER or after a login, lets USER start again,    *)
(* and keeps LIST and RETR for clients that are logged in.                 *)
(***************************************************************************)
EXTENDS EventLog

VARIABLES
  ftpUser,         \* ftpUser[c]: `username` of the handler
  ftpLogged,       \* ftpLogged[c]: the client is authenticated
  lastPassword     \* lastPassword[c]: `_last_password`

ftpVars == <<ftpUser, ftpLogged, lastPassword>>

FtpInit ==
  /\ ftpUser = [c \in Conns |-> NoText]
  /\ ftpLogged = [c \in Conns |-> FALSE]
  /\ lastPassword = [c \in Conns |-> NoText]

\* on_connect.
FtpConnect(c) ==
  /\ Accept(c, "ftp")
  /\ Write(<<Plain(SessionOf(c), "connect")>>)
  /\ UNCHANGED <<given, ftpVars>>

FtpReads(c) == service[c] = "ftp" /\ client[c] = "here" /\ Read(c)

\* Mutant of FtpUser: the line is kept where ftp_PASS keeps its own.
FtpUserKept(c, u) ==
  /\ FtpReads(c)
  /\ Write(<<Event(SessionOf(c), "auth_attempt", u, NoText)>>)
  /\ lastPassword' = [lastPassword EXCEPT ![c] = u]
  /\ ftpLogged' = [ftpLogged EXCEPT ![c] = FALSE]
  /\ Give(c, "auth_attempt")
  /\ UNCHANGED ftpUser

\* ftp_USER: logged as an attempt of its own; a login starts again.
FtpUser(c, u) ==
  /\ FtpReads(c)
  /\ Write(<<Event(SessionOf(c), "auth_attempt", u, NoText)>>)
  /\ ftpUser' = [ftpUser EXCEPT ![c] = u]
  /\ ftpLogged' = [ftpLogged EXCEPT ![c] = FALSE]
  /\ Give(c, "auth_attempt")
  /\ UNCHANGED lastPassword

\* Mutant of FtpPass: `_last_password` is set once the login is done.
FtpPassLate(c, p) ==
  /\ FtpReads(c)
  /\ LET attempt == Event(SessionOf(c), "auth_attempt", ftpUser[c], p)
         logsIn == ~ftpLogged[c] /\ ftpUser[c] # NoText
     IN  /\ Write(IF logsIn
                  THEN <<attempt, Event(SessionOf(c), "auth_success", ftpUser[c], lastPassword[c])>>
                  ELSE <<attempt>>)
         /\ ftpLogged' = [ftpLogged EXCEPT ![c] = @ \/ logsIn]
  /\ lastPassword' = [lastPassword EXCEPT ![c] = p]
  /\ Give(c, "auth_attempt")
  /\ UNCHANGED ftpUser

\* ftp_PASS, and on_login where it opens a login: every couple is accepted.
FtpPass(c, p) ==
  /\ FtpReads(c)
  /\ lastPassword' = [lastPassword EXCEPT ![c] = p]
  /\ LET attempt == Event(SessionOf(c), "auth_attempt", ftpUser[c], p)
         logsIn == ~ftpLogged[c] /\ ftpUser[c] # NoText
     IN  /\ Write(IF logsIn
                  THEN <<attempt, Event(SessionOf(c), "auth_success", ftpUser[c], lastPassword'[c])>>
                  ELSE <<attempt>>)
         /\ ftpLogged' = [ftpLogged EXCEPT ![c] = @ \/ logsIn]
  /\ Give(c, "auth_attempt")
  /\ UNCHANGED ftpUser

\* ftp_LIST.
FtpList(c) ==
  /\ FtpReads(c) /\ ftpLogged[c]
  /\ Write(<<Plain(SessionOf(c), "ftp_command")>>)
  /\ Give(c, "ftp_command")
  /\ UNCHANGED ftpVars

\* RETR: on_file_sent logs a bait file that was sent to its end; a transfer that
\* the client or a stop cuts short leaves no event, whatever was read of the file.
FtpRetr(c) ==
  /\ FtpReads(c) /\ ftpLogged[c]
  /\ \/ Write(<<Plain(SessionOf(c), "file_access")>>) /\ Give(c, "file_access")
     \/ UNCHANGED <<log, given>>
  /\ UNCHANGED ftpVars

FtpNext(c) ==
  \/ FtpConnect(c)
  \/ \E u \in Users : FtpUser(c, u)
  \/ \E p \in Passwords : FtpPass(c, p)
  \/ FtpList(c)
  \/ FtpRetr(c)

FtpTypeOK ==
  /\ ftpUser \in [Conns -> Users \cup {NoText}]
  /\ ftpLogged \in [Conns -> BOOLEAN]
  /\ lastPassword \in [Conns -> Passwords \cup {NoText}]
=============================================================================
