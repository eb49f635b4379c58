-------------------------------- MODULE EventLog --------------------------------
(***************************************************************************)
(* What the four honeypots share (honeypots/common/events.py): the         *)
(* connections of clients and the events written.  Events are dictionaries *)
(* of the contract schemas/event.schema.json; `log` is the order in which  *)
(* they were appended (one file per service; _write_lock makes an append   *)
(* one step).  What of a line survives a crash is Shipper's subject.       *)
(***************************************************************************)
EXTENDS Integers, Sequences

CONSTANTS
  Conns,           \* bound: TCP connections of clients
  Services,        \* honeypots that run, among ssh, telnet, ftp, http
  Users,           \* names that clients try
  Passwords,       \* passwords that clients try
  NoText,          \* an absent or empty text
  MaxInputs        \* bound: inputs (credentials, lines, requests) per connection

ASSUME EventLogAssumption ==
  /\ Services \subseteq {"ssh", "telnet", "ftp", "http"}
  /\ MaxInputs \in Nat
  /\ NoText \notin Users /\ NoText \notin Passwords

VARIABLES
  log,             \* events written, oldest first
  service,         \* service[c]: the honeypot c is a connection of, or "none"
  client,          \* client[c]: "none", "here", or "gone"
  inputs,          \* inputs[c]: inputs of c that were read
  given            \* history: given[c][t]: answers given to inputs logged as t

logVars == <<log, service, client, inputs, given>>

Sessions == Conns \X (0 .. MaxInputs)
Answered == {"auth_attempt", "command", "http_request", "file_access", "ftp_command"}
EventTypes == Answered \cup {"connect", "auth_success", "disconnect"}

\* build_event: an event of session s; the fields that no property tells apart are left out.
Event(s, type, user, password) ==
  [session |-> s, type |-> type, username |-> user, password |-> password]

\* Events that carry no credentials.
Plain(s, type) == Event(s, type, NoText, NoText)

\* new_session_id: one per connection (ssh, telnet, ftp), kept by its handler.
SessionOf(c) == <<c, 0>>

EventLogInit ==
  /\ log = <<>>
  /\ service = [c \in Conns |-> "none"]
  /\ client = [c \in Conns |-> "none"]
  /\ inputs = [c \in Conns |-> 0]
  /\ given = [c \in Conns |-> [t \in Answered |-> 0]]

\* EventWriter.write, for several events of one step.
Write(events) == log' = log \o events

\* Client c reaches the honeypot s.
Accept(c, s) ==
  /\ s \in Services
  /\ service[c] = "none"
  /\ service' = [service EXCEPT ![c] = s]
  /\ client' = [client EXCEPT ![c] = "here"]
  /\ UNCHANGED inputs

\* The handler reads one more input of c (bytes sent before leaving are read too).
Read(c) ==
  /\ inputs[c] < MaxInputs
  /\ inputs' = [inputs EXCEPT ![c] = @ + 1]
  /\ UNCHANGED <<service, client>>

\* An answer reaches c, if it is still there, for an input logged as type t.
Give(c, t) ==
  given' = IF client[c] = "here" THEN [given EXCEPT ![c][t] = @ + 1] ELSE given

\* Handlers that read nothing.
NoRead == UNCHANGED <<service, client, inputs>>

EventLogTypeOK ==
  /\ log \in Seq([session : Sessions, type : EventTypes,
                  username : Users \cup {NoText}, password : Passwords \cup {NoText}])
  /\ service \in [Conns -> Services \cup {"none"}]
  /\ client \in [Conns -> {"none", "here", "gone"}]
  /\ inputs \in [Conns -> 0 .. MaxInputs]
  /\ given \in [Conns -> [Answered -> Nat]]
=============================================================================
