----------------------------- MODULE HttpHoneypot -----------------------------
(***************************************************************************)
(* The HTTP honeypot (honeypots/http/server.py).  A handler awaits the     *)
(* body, logs the request under a session_id of its own, and answers.      *)
(* Requests of one connection come one after the other.                    *)
(***************************************************************************)
EXTENDS EventLog

VARIABLES
  http,            \* http[c]: idle, body, answer (the request is logged) or lost
  request          \* request[c]: the request being handled

httpVars == <<http, request>>

\* Requests that the routes tell apart.
Requests == [path : {"login", "bait", "other"}, method : {"GET", "POST", "PATCH"}]

HttpInit ==
  /\ http = [c \in Conns |-> "idle"]
  /\ request = [c \in Conns |-> CHOOSE r \in Requests : TRUE]

\* The event type that the route of r logs; the catch-all takes a POST on a bait.
Route(r) ==
  CASE r.path = "login" /\ r.method = "POST" -> "auth_attempt"
    [] r.path = "bait" /\ r.method = "GET" -> "file_access"
    [] OTHER -> "http_request"

\* Methods of no route (PATCH, OPTIONS...): 405, and no handler runs.
Routed(r) == r.method # "PATCH"

\* A connection alone logs nothing.
HttpConnect(c) ==
  /\ Accept(c, "http")
  /\ UNCHANGED <<log, given, httpVars>>

HttpRequest(c, r) ==
  /\ service[c] = "http" /\ http[c] = "idle"
  /\ Read(c)
  /\ request' = [request EXCEPT ![c] = r]
  /\ http' = [http EXCEPT ![c] = IF Routed(r) THEN "body" ELSE "idle"]
  /\ UNCHANGED <<log, given>>

\* _log, once the body has arrived.
HttpLog(c) ==
  /\ http[c] = "body"
  /\ Write(<<Plain(<<c, inputs[c]>>, Route(request[c]))>>)
  /\ http' = [http EXCEPT ![c] = "answer"]
  /\ NoRead
  /\ UNCHANGED <<given, request>>

\* The client left before its body was complete: ClientDisconnect, nothing is logged.
HttpDrop(c) ==
  /\ http[c] = "body" /\ client[c] = "gone"
  /\ http' = [http EXCEPT ![c] = "idle"]
  /\ NoRead
  /\ UNCHANGED <<log, given, request>>

HttpAnswer(c) ==
  /\ http[c] = "answer"
  /\ Give(c, Route(request[c]))
  /\ http' = [http EXCEPT ![c] = "idle"]
  /\ NoRead
  /\ UNCHANGED <<log, request>>

\* The container stops.
HttpStop == http' =
  [c \in Conns |-> IF http[c] \in {"body", "answer"} THEN "lost" ELSE http[c]]

HttpNext(c) ==
  \/ HttpConnect(c)
  \/ \E r \in Requests : HttpRequest(c, r)
  \/ HttpLog(c)
  \/ HttpDrop(c)
  \/ HttpAnswer(c)

HttpTypeOK ==
  /\ http \in [Conns -> {"idle", "body", "answer", "lost"}]
  /\ request \in [Conns -> Requests]
=============================================================================
