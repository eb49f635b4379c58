------------------------------ MODULE Classifier ------------------------------
(***************************************************************************)
(* The behavioural classifier (analyzer/classifier.py) and its criteria    *)
(* (schemas/profiles.json).  A session is a set of events of the table     *)
(* (event_id is unique there); Classify gives its profile, or              *)
(* "indetermine" for Python's None.  All times are in one unit, so that a  *)
(* duration and an interval compare without a conversion.                  *)
(***************************************************************************)
EXTENDS Integers, FiniteSets, FiniteSetsExt

CONSTANTS
  Events,          \* events that can be posted
  Attr,            \* Attr[e]: the columns of e that the service reads
  Criteria,        \* thresholds of profiles.json, one record per profile
  NoText           \* an absent or empty password or command

Profile == {"scanner_legitime", "bruteforcer", "bot", "humain"}
Priority == <<"scanner_legitime", "bruteforcer", "bot", "humain">>

ASSUME EventsAssumption ==
  /\ \A e \in Events :
       /\ Attr[e].ts \in Int
       /\ Attr[e].known_scanner \in BOOLEAN

\* The relations between thresholds that the shipped profiles.json satisfies.
ASSUME CriteriaAssumption ==
  /\ Criteria.scanner_legitime.max_auth_attempts \in Nat
  /\ Criteria.scanner_legitime.max_commands \in Nat
  /\ Criteria.bruteforcer.min_auth_attempts \in Nat
  /\ Criteria.bruteforcer.min_distinct_passwords \in Nat
  /\ Criteria.bruteforcer.max_commands \in Nat
  /\ Criteria.scanner_legitime.max_auth_attempts < Criteria.bruteforcer.min_auth_attempts

-----------------------------------------------------------------------------
(* _features, for a non-empty session.                                     *)

Times(session) == {Attr[e].ts : e \in session}
Duration(session) == Max(Times(session)) - Min(Times(session))
Auth(session) == {e \in session : Attr[e].event_type = "auth_attempt"}
Commands(session) ==
  {e \in session : Attr[e].event_type = "command" /\ Attr[e].command # NoText}
DistinctPasswords(session) == {Attr[e].password : e \in Auth(session)} \ {NoText}
DistinctCommands(session) == {Attr[e].command : e \in Commands(session)}
KnownScanner(session) == \E e \in session : Attr[e].known_scanner

\* The intervals of the sorted times add up to the duration: the mean interval
\* of n events is Duration / (n - 1), and 0 for a single event.
MeanAtMost(session, c) == Duration(session) <= c * (Cardinality(session) - 1)
MeanAtLeast(session, c) ==
  /\ Duration(session) >= c * (Cardinality(session) - 1)
  /\ Cardinality(session) > 1 \/ c = 0

\* _is_connect_close: the bound 2 is written in the code, not in profiles.json.
ConnectClose(session) ==
  /\ \A e \in session : Attr[e].event_type \notin {"command", "auth_success"}
  /\ Cardinality(Auth(session)) <= 2

-----------------------------------------------------------------------------
(* The matchers.                                                           *)

MatchScanner(session, c) ==
  /\ Cardinality(Auth(session)) <= c.max_auth_attempts
  /\ Cardinality(Commands(session)) <= c.max_commands
  /\ ConnectClose(session)
  /\ KnownScanner(session) \/ ~c.known_scanner_asn

MatchBruteforcer(session, c) ==
  /\ Cardinality(Auth(session)) >= c.min_auth_attempts
  /\ Cardinality(DistinctPasswords(session)) >= c.min_distinct_passwords
  /\ Cardinality(Commands(session)) <= c.max_commands

MatchBot(session, c) ==
  /\ Duration(session) <= c.max_session_duration
  /\ Cardinality(Commands(session)) <= c.max_commands
  /\ Cardinality(Auth(session)) >= c.min_auth_attempts
  /\ MeanAtMost(session, c.max_mean_interval) \/ Cardinality(session) <= 2

MatchHumain(session, c) ==
  /\ Cardinality(Commands(session)) >= c.min_commands
  /\ Cardinality(DistinctCommands(session)) >= c.min_distinct_commands
  /\ MeanAtLeast(session, c.min_mean_interval)

Matches(profile, session) ==
  \/ profile = "scanner_legitime" /\ MatchScanner(session, Criteria.scanner_legitime)
  \/ profile = "bruteforcer" /\ MatchBruteforcer(session, Criteria.bruteforcer)
  \/ profile = "bot" /\ MatchBot(session, Criteria.bot)
  \/ profile = "humain" /\ MatchHumain(session, Criteria.humain)

\* Mutant of Classify: a name of its own for sessions without a profile.
ClassifyByDefault(session) ==
  IF \E p \in Profile : Matches(p, session)
  THEN CHOOSE p \in Profile : Matches(p, session)
  ELSE "inconnu"

\* classify_session: the first profile of the priority order that matches.
Classify(session) ==
  IF session # {} /\ \E p \in Profile : Matches(p, session)
  THEN Priority[CHOOSE i \in 1 .. 4 :
                  /\ Matches(Priority[i], session)
                  /\ \A j \in 1 .. i - 1 : ~Matches(Priority[j], session)]
  ELSE "indetermine"
=============================================================================
