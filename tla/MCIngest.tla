------------------------------- MODULE MCIngest -------------------------------
(* Sessions and thresholds for the configurations of Ingest.                 *)
EXTENDS Ingest, TLC

CONSTANTS q1, q2, q3, q4

Row(session, ts, type, password, command, scanner) ==
  [session_id |-> session, ts |-> ts, event_type |-> type, password |-> password,
   command |-> command, known_scanner |-> scanner]

\* Session A: two passwords in quick succession, then a command, from a host
\* that GreyNoise knows; session B: a known scanner that connects and leaves.
MCEvents == 1 .. 5
MCAttr == <<
  Row("A", 0, "auth_attempt", "pw1", NoText, FALSE),
  Row("A", 1, "auth_attempt", "pw2", NoText, FALSE),
  Row("A", 6, "command", NoText, "id", FALSE),
  Row("A", 13, "disconnect", NoText, NoText, TRUE),
  Row("B", 2, "connect", NoText, NoText, TRUE) >>

\* profiles.json with smaller numbers, in the same order.
MCCriteria == [
  scanner_legitime |-> [max_auth_attempts |-> 1, max_commands |-> 0,
                        known_scanner_asn |-> TRUE],
  bruteforcer |-> [min_auth_attempts |-> 2, min_distinct_passwords |-> 2,
                   max_commands |-> 0],
  bot |-> [max_session_duration |-> 5, max_commands |-> 0,
           min_auth_attempts |-> 1, max_mean_interval |-> 2],
  humain |-> [min_commands |-> 1, min_mean_interval |-> 4,
              min_distinct_commands |-> 1] ]

RequestSymmetry == Permutations(Requests)
=============================================================================
