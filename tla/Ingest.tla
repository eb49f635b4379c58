-------------------------------- MODULE Ingest --------------------------------
(***************************************************************************)
(* POST /events of the analyzer (analyzer/api.py, ingest; analyzer/db.py). *)
(*                                                                         *)
(* The handler is a plain `def`: FastAPI runs it in a pool of threads, and *)
(* requests overlap as soon as one is slow (the shipper gives up on a      *)
(* request after 5 s and posts its next line, while AbuseIPDB is awaited   *)
(* one call per second).  Each of its three statements is a transaction of *)
(* its own, committed before the next begins.  An UPDATE fixes the rows it *)
(* will write when it starts, and writes them when it gets their locks:    *)
(* rows inserted in between are not written (READ COMMITTED).              *)
(***************************************************************************)
EXTENDS Classifier

CONSTANTS
  Threads,         \* threads of the pool that runs the handlers (anyio's 40)
  Requests,        \* bound: requests the analyzer receives
  MaxPosts,        \* bound: posts of one event (the shipper sends some twice)
  Failing          \* bound: requests that may fail

ASSUME RequestsAssumption ==
  /\ IsFiniteSet(Events) /\ Events # {}
  /\ IsFiniteSet(Requests)
  /\ Threads \in Nat /\ MaxPosts \in Nat
  /\ Failing \subseteq Requests

VARIABLES
  rows,            \* the events of the table
  label,           \* label[e]: column classification, "indetermine" for NULL
  pc,              \* pc[q]: what the handler of q does next
  ev,              \* ev[q]: the event posted
  answer,          \* answer[q]: `classification`, once computed
  target,          \* target[q]: rows its UPDATE will write
  alone,           \* history: nothing was written to the session since q read it
  overlapped       \* history: a request was received while another was handled

vars == <<rows, label, pc, ev, answer, target, alone, overlapped>>

Label == Profile \cup {"indetermine"}
Session(e) == Attr[e].session_id

\* Rows of the session of event e.
RowsOf(e) == {r \in rows : Session(r) = Session(e)}

Running(q) == pc[q] \in {"insert", "read", "update", "commit"}

Init ==
  /\ rows = {}
  /\ label = [e \in Events |-> "indetermine"]
  /\ pc = [q \in Requests |-> "none"]
  /\ ev = [q \in Requests |-> CHOOSE e \in Events : TRUE]
  /\ answer = [q \in Requests |-> "indetermine"]
  /\ target = [q \in Requests |-> {}]
  /\ alone = [q \in Requests |-> FALSE]
  /\ overlapped = FALSE

\* A write to the session of event e by request q: no other request that read
\* the session may count on what it read.
Disturb(q, e) ==
  alone' = [p \in Requests |-> alone[p] /\ (p = q \/ Session(ev[p]) # Session(e))]

-----------------------------------------------------------------------------
(* The handler of request q.                                               *)

\* A request with a valid event e; enrich() changes no state of this module.
Receive(q, e) ==
  /\ pc[q] = "none"
  /\ Cardinality({p \in Requests : Running(p)}) < Threads
  /\ Cardinality({p \in Requests : pc[p] # "none" /\ ev[p] = e}) < MaxPosts
  /\ ev' = [ev EXCEPT ![q] = e]
  /\ pc' = [pc EXCEPT ![q] = "insert"]
  /\ overlapped' = (overlapped \/ \E p \in Requests : Running(p))
  /\ UNCHANGED <<rows, label, answer, target, alone>>

\* Mutant of Insert: ON CONFLICT DO UPDATE, with classification = NULL.
InsertResets(q) ==
  /\ pc[q] = "insert"
  /\ rows' = rows \cup {ev[q]}
  /\ label' = [label EXCEPT ![ev[q]] = "indetermine"]
  /\ Disturb(q, ev[q])
  /\ pc' = [pc EXCEPT ![q] = "read"]
  /\ UNCHANGED <<ev, answer, target, overlapped>>

\* insert_event: ON CONFLICT (event_id) DO NOTHING, then commit.
Insert(q) ==
  /\ pc[q] = "insert"
  /\ rows' = rows \cup {ev[q]}
  /\ IF ev[q] \in rows THEN UNCHANGED alone ELSE Disturb(q, ev[q])
  /\ pc' = [pc EXCEPT ![q] = "read"]
  /\ UNCHANGED <<label, ev, answer, target, overlapped>>

\* Mutant of ReadSession: the class of the posted event alone.
ReadOwnEvent(q) ==
  /\ pc[q] = "read"
  /\ answer' = [answer EXCEPT ![q] = Classify({ev[q]})]
  /\ pc' = [pc EXCEPT ![q] = IF answer'[q] = "indetermine" THEN "answered" ELSE "update"]
  /\ alone' = [alone EXCEPT ![q] = TRUE]
  /\ UNCHANGED <<rows, label, ev, target, overlapped>>

\* session_events, classify_session and `if classification`: without a class the
\* handler answers and leaves the labels as they are.
ReadSession(q) ==
  /\ pc[q] = "read"
  /\ answer' = [answer EXCEPT ![q] = Classify(RowsOf(ev[q]))]
  /\ pc' = [pc EXCEPT ![q] = IF answer'[q] = "indetermine" THEN "answered" ELSE "update"]
  /\ alone' = [alone EXCEPT ![q] = TRUE]
  /\ UNCHANGED <<rows, label, ev, target, overlapped>>

\* Mutant of UpdateStart: WHERE event_id instead of WHERE session_id.
UpdateStartOwnRow(q) ==
  /\ pc[q] = "update"
  /\ target' = [target EXCEPT ![q] = {ev[q]}]
  /\ pc' = [pc EXCEPT ![q] = "commit"]
  /\ UNCHANGED <<rows, label, ev, answer, alone, overlapped>>

\* UPDATE events SET classification ... WHERE session_id: the snapshot.
UpdateStart(q) ==
  /\ pc[q] = "update"
  /\ target' = [target EXCEPT ![q] = RowsOf(ev[q])]
  /\ pc' = [pc EXCEPT ![q] = "commit"]
  /\ UNCHANGED <<rows, label, ev, answer, alone, overlapped>>

\* The rows are written, the transaction commits and the handler answers.
UpdateCommit(q) ==
  /\ pc[q] = "commit"
  /\ label' = [e \in Events |-> IF e \in target[q] THEN answer[q] ELSE label[e]]
  /\ Disturb(q, ev[q])
  /\ pc' = [pc EXCEPT ![q] = "answered"]
  /\ UNCHANGED <<rows, ev, answer, target, overlapped>>

\* PostgreSQL is away or refuses a value of the event (500), or the analyzer
\* stops: what was committed stays, nothing more is done.
Fail(q) ==
  /\ q \in Failing
  /\ Running(q)
  /\ pc' = [pc EXCEPT ![q] = "failed"]
  /\ UNCHANGED <<rows, label, ev, answer, target, alone, overlapped>>

Handler(q) == Insert(q) \/ ReadSession(q) \/ UpdateStart(q) \/ UpdateCommit(q)

Next ==
  \E q \in Requests : (\E e \in Events : Receive(q, e)) \/ Handler(q) \/ Fail(q)

Spec == Init /\ [][Next]_vars

-----------------------------------------------------------------------------
(* Properties.                                                             *)

\* Types of all variables; a running handler has what its step needs.
TypeOK ==
  /\ rows \subseteq Events
  /\ label \in [Events -> Label]
  /\ pc \in [Requests -> {"none", "insert", "read", "update", "commit", "answered", "failed"}]
  /\ ev \in [Requests -> Events]
  /\ answer \in [Requests -> Label]
  /\ target \in [Requests -> SUBSET Events]
  /\ alone \in [Requests -> BOOLEAN]
  /\ overlapped \in BOOLEAN

\* A client that was told a class finds the row of its event labelled, whatever
\* the other handlers did or will do (insert, then UPDATE of the whole session).
AnsweredRowIsLabelled ==
  \A q \in Requests :
    pc[q] = "answered" /\ answer[q] # "indetermine" => label[ev[q]] # "indetermine"

\* A handler that finds a class, and during which nothing else was written to its
\* session, leaves every row of the session with the class of the whole session,
\* whatever earlier overlapping or failed handlers had left there: one such post
\* repairs a session.  (One that finds none never commits: see LabelsAreCurrent.)
UndisturbedPostRepairs ==
  [][\A q \in Requests :
       pc[q] = "commit" /\ pc'[q] = "answered" /\ alone[q] =>
         \A r \in RowsOf(ev[q]) : label'[r] = Classify(RowsOf(ev[q]))]_vars

\* As long as handlers have not overlapped, a session never shows two classes at once
\* (rows without a class apart), even where handlers fail half way.
OneClassPerSession ==
  ~overlapped =>
    \A e \in rows : \A r \in RowsOf(e) :
      label[e] = label[r] \/ "indetermine" \in {label[e], label[r]}

\* The session of event e, as the table has it, is a bruteforcer's.
Bruteforced(e) == Classify(RowsOf(e)) = "bruteforcer"

\* A session that was found a bruteforcer's stays one until it has more commands than
\* the profile allows, whichever events arrive.  Those of a known scanner are no
\* exception, although the docstring of the classifier has it that "un scanner connu
\* prime sur un bruteforce": _match_scanner accepts fewer attempts than
\* _match_bruteforcer asks for (CriteriaAssumption), so that the priority of the
\* scanner never comes to bear.  Proved in IngestProofs.
BruteforcerIsKept ==
  [][\A e \in Events :
       RowsOf(e) # RowsOf(e)' /\ Bruteforced(e) =>
         \/ Bruteforced(e)'
         \/ Cardinality(Commands(RowsOf(e)')) > Criteria.bruteforcer.max_commands]_rows

\* "Re-classifie la session complete a chaque nouvel evenement" (ingest): once
\* every request is answered, each row has the class of its whole session.
LabelsAreCurrent ==
  (\A q \in Requests : pc[q] \in {"none", "answered"}) =>
    \A e \in rows : label[e] = Classify(RowsOf(e))
=============================================================================
