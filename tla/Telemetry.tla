------------------------------- MODULE Telemetry -------------------------------
(***************************************************************************)
(* app_telemetry.py: one row per answered request, written to PostgreSQL   *)
(* by the single thread of an executor, through one connection that is     *)
(* kept from row to row.  The executor's queue has no bound.               *)
(***************************************************************************)
EXTENDS SecureServer

VARIABLES
  queue,           \* rows submitted to the executor
  conn,            \* _conn: "none", "open" or "broken" (its server has gone)
  pg,              \* PostgreSQL accepts connections
  created,         \* table app_requests exists
  table,           \* its rows, oldest first
  outages,         \* stops of PostgreSQL so far
  submitted,       \* history: rows in the order of record()
  gaveUp           \* history: rows the table would have taken, given up while
                   \* PostgreSQL was up

telemetryVars == <<queue, conn, pg, created, table, outages, submitted, gaveUp>>

TelemetryInit ==
  /\ queue = <<>> /\ conn = "none" /\ pg = TRUE /\ created = FALSE /\ table = <<>>
  /\ outages = 0 /\ submitted = <<>> /\ gaveUp = {}

\* request_telemetry: the row is submitted after call_next, if telemetry is enabled,
\* then the response is sent.
Record(q) ==
  /\ pc[q] = "answered"
  /\ pc' = [pc EXCEPT ![q] = "sent"]
  /\ IF Settings.metrics
     THEN queue' = Append(queue, q) /\ submitted' = Append(submitted, q)
     ELSE UNCHANGED <<queue, submitted>>
  /\ UNCHANGED <<conn, pg, created, table, outages, gaveUp>>

\* An exception that no handler inside the middleware catches passes call_next by:
\* the 500 is sent without a row.
SendError(q) ==
  /\ pc[q] = "raised"
  /\ pc' = [pc EXCEPT ![q] = "sent"]
  /\ UNCHANGED telemetryVars

\* _get_conn: a new connection, and the table.
Connect ==
  /\ queue # <<>> /\ conn = "none" /\ pg
  /\ conn' = "open"
  /\ created' = TRUE
  /\ UNCHANGED <<queue, pg, table, outages, submitted, gaveUp>>

\* CREATE TABLE IF NOT EXISTS fails when the twin application creates the table at
\* the same moment: the connection and the row are given up.
ConnectRaces ==
  /\ queue # <<>> /\ conn = "none" /\ pg /\ ~created
  /\ created' = TRUE
  /\ queue' = Tail(queue)
  /\ gaveUp' = gaveUp \cup {Head(queue)}
  /\ UNCHANGED <<conn, pg, table, outages, submitted>>

\* Nobody answers: the row is given up.
ConnectFails ==
  /\ queue # <<>> /\ conn = "none" /\ ~pg
  /\ queue' = Tail(queue)
  /\ UNCHANGED <<conn, pg, created, table, outages, submitted, gaveUp>>

\* _do_insert, autocommit.
Insert ==
  /\ queue # <<>> /\ conn = "open"
  /\ table' = Append(table, Head(queue))
  /\ queue' = Tail(queue)
  /\ UNCHANGED <<conn, pg, created, outages, submitted, gaveUp>>

\* Mutant of InsertFails: _conn is kept, and `closed` is not asked for.
InsertFailsKeepsConn ==
  /\ queue # <<>> /\ conn = "broken"
  /\ queue' = Tail(queue)
  /\ gaveUp' = IF pg THEN gaveUp \cup {Head(queue)} ELSE gaveUp
  /\ UNCHANGED <<conn, pg, created, table, outages, submitted>>

\* The connection kept from an earlier row is dead: the row is given up, and the
\* next one connects again.
InsertFails ==
  /\ queue # <<>> /\ conn = "broken"
  /\ conn' = "none"
  /\ queue' = Tail(queue)
  /\ gaveUp' = IF pg THEN gaveUp \cup {Head(queue)} ELSE gaveUp
  /\ UNCHANGED <<pg, created, table, outages, submitted>>

\* The table refuses the row: the first word of X-Forwarded-For is no address.
InsertRefused ==
  /\ queue # <<>> /\ conn = "open"
  /\ conn' = "none"
  /\ queue' = Tail(queue)
  /\ UNCHANGED <<pg, created, table, outages, submitted, gaveUp>>

PgStop ==
  /\ pg /\ outages < workload.outages
  /\ pg' = FALSE
  /\ outages' = outages + 1
  /\ conn' = IF conn = "open" THEN "broken" ELSE conn
  /\ UNCHANGED <<queue, created, table, submitted, gaveUp>>

PgStart ==
  /\ ~pg
  /\ pg' = TRUE
  /\ UNCHANGED <<queue, conn, created, table, outages, submitted, gaveUp>>

\* The process dies: its queue and its connection are gone.
TelemetryStop ==
  /\ queue' = <<>>
  /\ conn' = "none"
  /\ UNCHANGED <<pg, created, table, outages, submitted, gaveUp>>

Worker ==
  \/ Connect \/ ConnectRaces \/ ConnectFails
  \/ Insert \/ InsertFails \/ InsertRefused
  \/ PgStop \/ PgStart
=============================================================================
