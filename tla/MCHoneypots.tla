------------------------------ MODULE MCHoneypots ------------------------------
(* Lines and thresholds for the configurations of Honeypots.                 *)
EXTENDS Honeypots

CONSTANT c1

\* cd ..; cd ~/projects/./api; cd //etc; exit
MCLines == {
  [cmd |-> "cd", args |-> << <<"..">> >>],
  [cmd |-> "cd", args |-> << <<"~", "projects", ".", "api">> >>],
  [cmd |-> "cd", args |-> << <<"", "", "etc">> >>],
  [cmd |-> "exit", args |-> <<>>] }

\* profiles.json, a second being 1000.
MCCriteria == [
  scanner_legitime |-> [max_auth_attempts |-> 2, max_commands |-> 0,
                        known_scanner_asn |-> TRUE],
  bruteforcer |-> [min_auth_attempts |-> 20, min_distinct_passwords |-> 15,
                   max_commands |-> 2],
  bot |-> [max_session_duration |-> 5000, max_commands |-> 1,
           min_auth_attempts |-> 1, max_mean_interval |-> 200],
  humain |-> [min_commands |-> 3, min_mean_interval |-> 800,
              min_distinct_commands |-> 3] ]
=============================================================================
