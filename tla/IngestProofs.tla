----------------------------- MODULE IngestProofs -----------------------------
(* Theorems about Ingest, for every set of events, requests and thresholds.  *)
EXTENDS Ingest, FiniteSetTheorems, TLAPS

\* A session has a profile or none.
LEMMA ClassifyType == \A session : Classify(session) \in Label
<1> SUFFICES ASSUME NEW session PROVE Classify(session) \in Label
  OBVIOUS
<1>1. CASE ~(session # {} /\ \E p \in Profile : Matches(p, session))
  BY <1>1 DEF Classify, Label
<1>2. CASE session # {} /\ \E p \in Profile : Matches(p, session)
  <2> DEFINE First(i) == /\ Matches(Priority[i], session)
                         /\ \A j \in 1 .. i - 1 : ~Matches(Priority[j], session)
  <2>1. PICK p \in Profile : Matches(p, session)
    BY <1>2
  <2>2. \E i \in 1 .. 4 : Matches(Priority[i], session)
    BY <2>1 DEF Profile, Priority
  <2>3. \E i \in 1 .. 4 : First(i)
    <3>1. CASE Matches(Priority[1], session)
      <4>1. First(1)
        BY <3>1
      <4> QED BY <4>1
    <3>2. CASE ~Matches(Priority[1], session) /\ Matches(Priority[2], session)
      <4>1. First(2)
        BY <3>2
      <4> QED BY <4>1
    <3>3. CASE /\ ~Matches(Priority[1], session) /\ ~Matches(Priority[2], session)
               /\ Matches(Priority[3], session)
      <4>1. First(3)
        BY <3>3
      <4> QED BY <4>1
    <3>4. CASE /\ ~Matches(Priority[1], session) /\ ~Matches(Priority[2], session)
               /\ ~Matches(Priority[3], session) /\ Matches(Priority[4], session)
      <4>1. First(4)
        BY <3>4
      <4> QED BY <4>1
    <3>5. \A i \in 1 .. 4 : i = 1 \/ i = 2 \/ i = 3 \/ i = 4
      OBVIOUS
    <3> QED BY <2>2, <3>1, <3>2, <3>3, <3>4, <3>5, Zenon
  <2>4. Classify(session) = Priority[CHOOSE i \in 1 .. 4 : First(i)]
    BY <1>2, Zenon DEF Classify
  <2>5. (CHOOSE i \in 1 .. 4 : First(i)) \in 1 .. 4
    <3> HIDE DEF First
    <3> QED BY <2>3, Zenon
  <2>6. \A i \in 1 .. 4 : Priority[i] \in Label
    BY DEF Priority, Label, Profile
  <2> HIDE DEF First
  <2> QED BY <2>4, <2>5, <2>6
<1> QED BY <1>1, <1>2

\* The types hold initially.
LEMMA InitTypeOK == Init => TypeOK
<1>1. (CHOOSE e \in Events : TRUE) \in Events
  BY RequestsAssumption, Zenon
<1>2. Init => overlapped \in BOOLEAN
  BY Zenon DEF Init
<1> QED BY <1>1, <1>2 DEF Init, TypeOK, Label

\* Every step keeps the types.
LEMMA NextTypeOK == TypeOK /\ [Next]_vars => TypeOK'
<1> SUFFICES ASSUME TypeOK, [Next]_vars PROVE TypeOK'
  OBVIOUS
<1> USE DEF TypeOK
<1>1. ASSUME NEW q \in Requests, NEW e \in Events, Receive(q, e) PROVE TypeOK'
  BY <1>1 DEF Receive
<1>2. ASSUME NEW q \in Requests, NEW e \in Events, Disturb(q, e)
      PROVE  alone' \in [Requests -> BOOLEAN]
  BY <1>2 DEF Disturb
<1>3. ASSUME NEW q \in Requests, Insert(q) PROVE TypeOK'
  <2>1. alone' \in [Requests -> BOOLEAN]
    BY <1>2, <1>3 DEF Insert
  <2> QED BY <1>3, <2>1 DEF Insert
<1>4. ASSUME NEW q \in Requests, ReadSession(q) PROVE TypeOK'
  <2>1. answer' \in [Requests -> Label]
    BY <1>4, ClassifyType DEF ReadSession
  <2>2. alone' \in [Requests -> BOOLEAN]
    BY <1>4, Zenon DEF ReadSession
  <2>3. pc' \in [Requests -> {"none", "insert", "read", "update", "commit", "answered", "failed"}]
    BY <1>4 DEF ReadSession
  <2> QED BY <1>4, <2>1, <2>2, <2>3 DEF ReadSession
<1>5. ASSUME NEW q \in Requests, UpdateStart(q) PROVE TypeOK'
  BY <1>5 DEF UpdateStart, RowsOf
<1>6. ASSUME NEW q \in Requests, UpdateCommit(q) PROVE TypeOK'
  <2>1. alone' \in [Requests -> BOOLEAN]
    BY <1>2, <1>6 DEF UpdateCommit
  <2>2. label' \in [Events -> Label]
    BY <1>6 DEF UpdateCommit
  <2> QED BY <1>6, <2>1, <2>2 DEF UpdateCommit
<1>7. ASSUME NEW q \in Requests, Fail(q) PROVE TypeOK'
  BY <1>7 DEF Fail
<1>8. CASE UNCHANGED vars
  BY <1>8 DEF vars
<1> QED BY <1>1, <1>3, <1>4, <1>5, <1>6, <1>7, <1>8 DEF Next, Handler

\* The types of Ingest hold in every reachable state.
THEOREM IngestTypeCorrect == Spec => []TypeOK
BY InitTypeOK, NextTypeOK, PTL DEF Spec

-----------------------------------------------------------------------------
(* Labels.                                                                   *)

\* The inductive strengthening of AnsweredRowIsLabelled: past its insert the row
\* is in the table, an UPDATE runs only with a class, and it writes that row.
LabelInv ==
  \A q \in Requests :
    /\ pc[q] \in {"read", "update", "commit", "answered"} => ev[q] \in rows
    /\ pc[q] \in {"update", "commit"} => answer[q] # "indetermine"
    /\ pc[q] = "commit" => ev[q] \in target[q]
    /\ pc[q] = "answered" /\ answer[q] # "indetermine" => label[ev[q]] # "indetermine"

\* LabelInv holds initially: no request was received.
LEMMA InitLabelInv == Init => LabelInv
BY DEF Init, LabelInv

\* Every step keeps LabelInv: only an UPDATE changes labels, and to a class.
LEMMA NextLabelInv == TypeOK /\ LabelInv /\ [Next]_vars => LabelInv'
<1> SUFFICES ASSUME TypeOK, LabelInv, [Next]_vars PROVE LabelInv'
  OBVIOUS
<1> USE DEF TypeOK, LabelInv
<1>1. ASSUME NEW q \in Requests, NEW e \in Events, Receive(q, e) PROVE LabelInv'
  BY <1>1 DEF Receive
<1>2. ASSUME NEW q \in Requests, Insert(q) PROVE LabelInv'
  BY <1>2 DEF Insert
<1>3. ASSUME NEW q \in Requests, ReadSession(q) PROVE LabelInv'
  <2>1. \/ answer'[q] = "indetermine" /\ pc' = [pc EXCEPT ![q] = "answered"]
        \/ answer'[q] # "indetermine" /\ pc' = [pc EXCEPT ![q] = "update"]
    BY <1>3 DEF ReadSession
  <2>2. /\ pc[q] = "read"
        /\ \A p \in Requests \ {q} : answer'[p] = answer[p]
        /\ UNCHANGED <<rows, label, ev, target>>
    BY <1>3 DEF ReadSession
  <2> QED BY <2>1, <2>2
<1>4. ASSUME NEW q \in Requests, UpdateStart(q) PROVE LabelInv'
  BY <1>4 DEF UpdateStart, RowsOf
<1>5. ASSUME NEW q \in Requests, UpdateCommit(q) PROVE LabelInv'
  <2>1. \A e \in Events : label[e] # "indetermine" => label'[e] # "indetermine"
    BY <1>5 DEF UpdateCommit
  <2>2. label'[ev[q]] # "indetermine"
    BY <1>5 DEF UpdateCommit
  <2> QED BY <1>5, <2>1, <2>2 DEF UpdateCommit
<1>6. ASSUME NEW q \in Requests, Fail(q) PROVE LabelInv'
  BY <1>6 DEF Fail, Running
<1>7. CASE UNCHANGED vars
  BY <1>7 DEF vars
<1> QED BY <1>1, <1>2, <1>3, <1>4, <1>5, <1>6, <1>7 DEF Next, Handler

\* AnsweredRowIsLabelled (a property of the run ingest): however many handlers
\* overlap and fail, a request that was answered with a class left its row labelled.
THEOREM AnsweredLabelled == Spec => []AnsweredRowIsLabelled
<1>1. LabelInv => AnsweredRowIsLabelled
  BY DEF LabelInv, AnsweredRowIsLabelled
<1> QED BY <1>1, IngestTypeCorrect, InitLabelInv, NextLabelInv, PTL DEF Spec

\* What `alone` stands for: the answer still is the class of the session, and the
\* UPDATE is about to write all of its rows.
AloneInv ==
  \A q \in Requests : alone[q] =>
    /\ pc[q] \in {"update", "commit"} => answer[q] = Classify(RowsOf(ev[q]))
    /\ pc[q] = "commit" => target[q] = RowsOf(ev[q])

\* AloneInv holds initially: nobody read anything.
LEMMA InitAloneInv == Init => AloneInv
BY DEF Init, AloneInv

\* Every step keeps AloneInv: an insert into a session ends the solitude of the
\* other requests that read it.
LEMMA NextAloneInv == TypeOK /\ AloneInv /\ [Next]_vars => AloneInv'
<1> SUFFICES ASSUME TypeOK, AloneInv, [Next]_vars PROVE AloneInv'
  OBVIOUS
<1> USE DEF TypeOK, AloneInv
<1>1. ASSUME NEW q \in Requests, NEW e \in Events, Receive(q, e) PROVE AloneInv'
  BY <1>1 DEF Receive, RowsOf
<1>2. ASSUME NEW q \in Requests, Insert(q) PROVE AloneInv'
  <2> SUFFICES ASSUME NEW p \in Requests, alone'[p], pc'[p] \in {"update", "commit"}
               PROVE  /\ answer'[p] = Classify(RowsOf(ev[p]))'
                      /\ pc'[p] = "commit" => target'[p] = RowsOf(ev[p])'
    OBVIOUS
  <2>1. /\ p # q /\ pc'[p] = pc[p] /\ UNCHANGED <<ev, answer, target>>
        /\ rows' = rows \cup {ev[q]}
    BY <1>2 DEF Insert
  <2>2. alone[p] /\ (ev[q] \in rows \/ Session(ev[p]) # Session(ev[q]))
    BY <1>2, <2>1 DEF Insert, Disturb
  <2>3. RowsOf(ev[p])' = RowsOf(ev[p])
    BY <2>1, <2>2 DEF RowsOf, Session
  <2> QED BY <2>1, <2>2, <2>3
<1>3. ASSUME NEW q \in Requests, ReadSession(q) PROVE AloneInv'
  <2>1. \A p \in Requests : RowsOf(ev[p])' = RowsOf(ev[p])
    BY <1>3 DEF ReadSession, RowsOf
  <2>2. /\ answer'[q] = Classify(RowsOf(ev[q])) /\ pc'[q] # "commit"
        /\ \A p \in Requests \ {q} :
             answer'[p] = answer[p] /\ pc'[p] = pc[p] /\ alone'[p] = alone[p]
        /\ UNCHANGED <<target, ev>>
    BY <1>3 DEF ReadSession
  <2> QED BY <2>1, <2>2
<1>4. ASSUME NEW q \in Requests, UpdateStart(q) PROVE AloneInv'
  BY <1>4 DEF UpdateStart, RowsOf
<1>5. ASSUME NEW q \in Requests, UpdateCommit(q) PROVE AloneInv'
  <2>1. \A p \in Requests : RowsOf(ev[p])' = RowsOf(ev[p])
    BY <1>5 DEF UpdateCommit, RowsOf
  <2>2. \A p \in Requests : alone'[p] => alone[p]
    BY <1>5 DEF UpdateCommit, Disturb
  <2> QED BY <1>5, <2>1, <2>2 DEF UpdateCommit
<1>6. ASSUME NEW q \in Requests, Fail(q) PROVE AloneInv'
  <2>1. /\ \A p \in Requests : pc'[p] \in {"update", "commit"} => pc'[p] = pc[p]
        /\ UNCHANGED <<rows, ev, answer, target, alone>>
    BY <1>6 DEF Fail
  <2> QED BY <2>1 DEF RowsOf
<1>7. CASE UNCHANGED vars
  BY <1>7 DEF vars, RowsOf
<1> QED BY <1>1, <1>2, <1>3, <1>4, <1>5, <1>6, <1>7 DEF Next, Handler

\* UndisturbedPostRepairs (a property of the run ingest): whatever earlier requests
\* left behind, a handler that finds a class and that nobody disturbs labels its whole
\* session with it.
THEOREM UndisturbedRepairs == Spec => UndisturbedPostRepairs
<1>1. ASSUME TypeOK, AloneInv, [Next]_vars, NEW q \in Requests,
             pc[q] = "commit", pc'[q] = "answered", alone[q], NEW r \in RowsOf(ev[q])
      PROVE  label'[r] = Classify(RowsOf(ev[q]))
  <2>1. UpdateCommit(q)
    BY <1>1 DEF Next, Handler, Receive, Insert, ReadSession, UpdateStart, UpdateCommit,
         Fail, vars, TypeOK
  <2>2. answer[q] = Classify(RowsOf(ev[q])) /\ target[q] = RowsOf(ev[q])
    BY <1>1 DEF AloneInv
  <2>3. r \in Events
    BY <1>1 DEF RowsOf, TypeOK
  <2> QED BY <1>1, <2>1, <2>2, <2>3 DEF UpdateCommit
<1>2. TypeOK /\ AloneInv /\ [Next]_vars =>
        [\A q \in Requests :
           pc[q] = "commit" /\ pc'[q] = "answered" /\ alone[q] =>
             \A r \in RowsOf(ev[q]) : label'[r] = Classify(RowsOf(ev[q]))]_vars
  BY <1>1
<1> QED BY <1>2, IngestTypeCorrect, InitAloneInv, NextAloneInv,
           PTL DEF Spec, UndisturbedPostRepairs

-----------------------------------------------------------------------------
(* Bruteforced sessions.                                                     *)

\* A session is a bruteforcer's when that profile matches and the scanner's, the
\* only one before it, does not.
LEMMA ClassifyBruteforcer ==
  ASSUME NEW session, session # {}
  PROVE  Classify(session) = "bruteforcer"
           <=> /\ MatchBruteforcer(session, Criteria.bruteforcer)
               /\ ~MatchScanner(session, Criteria.scanner_legitime)
<1> DEFINE First(i) == /\ Matches(Priority[i], session)
                       /\ \A j \in 1 .. i - 1 : ~Matches(Priority[j], session)
<1> DEFINE i == CHOOSE k \in 1 .. 4 : First(k)
<1>1. /\ Matches(Priority[1], session)
           <=> MatchScanner(session, Criteria.scanner_legitime)
      /\ Matches(Priority[2], session)
           <=> MatchBruteforcer(session, Criteria.bruteforcer)
  BY DEF Matches, Priority
<1>2. \A k \in 1 .. 4 : First(k) => k = 2 \/ Priority[k] # "bruteforcer"
  BY DEF Priority
<1>3. First(2) <=> Matches(Priority[2], session) /\ ~Matches(Priority[1], session)
  <2>1. \A j : j \in 1 .. 2 - 1 <=> j = 1
    OBVIOUS
  <2> QED BY <2>1
<1>4. \A k \in 1 .. 4 : First(2) /\ First(k) => k = 2
  <2> SUFFICES ASSUME NEW k \in 1 .. 4, First(2), First(k), k # 2 PROVE FALSE
    OBVIOUS
  <2>1. k = 1 \/ k = 3 \/ k = 4
    OBVIOUS
  <2>2. CASE k = 1
    BY <1>3, <2>2
  <2>3. CASE k = 3 \/ k = 4
    <3>1. 2 \in 1 .. k - 1
      BY <2>3
    <3>2. ~Matches(Priority[2], session)
      BY <3>1
    <3> QED BY <1>3, <3>2
  <2> QED BY <2>1, <2>2, <2>3
<1>5. Priority[2] = "bruteforcer" /\ "indetermine" # "bruteforcer" /\ 2 \in 1 .. 4
      /\ "bruteforcer" \in Profile
  BY DEF Priority, Profile
<1>6. ASSUME Classify(session) = "bruteforcer" PROVE First(2)
  <2>1. \E p \in Profile : Matches(p, session)
    BY <1>5, <1>6 DEF Classify
  <2>2. Classify(session) = Priority[i]
    BY <2>1, Zenon DEF Classify
  <2>3. \E k \in 1 .. 4 : First(k)
    <3>1. Matches(Priority[1], session) \/ Matches(Priority[2], session)
          \/ Matches(Priority[3], session) \/ Matches(Priority[4], session)
      BY <2>1 DEF Profile, Priority
    <3>2. CASE Matches(Priority[1], session)
      <4>1. First(1)
        BY <3>2
      <4> QED BY <4>1
    <3>3. CASE ~Matches(Priority[1], session) /\ Matches(Priority[2], session)
      BY <1>3, <1>5, <3>3
    <3>4. CASE /\ ~Matches(Priority[1], session) /\ ~Matches(Priority[2], session)
               /\ Matches(Priority[3], session)
      <4>1. First(3)
        BY <3>4
      <4> QED BY <4>1
    <3>5. CASE /\ ~Matches(Priority[1], session) /\ ~Matches(Priority[2], session)
               /\ ~Matches(Priority[3], session) /\ Matches(Priority[4], session)
      <4>1. First(4)
        BY <3>5
      <4> QED BY <4>1
    <3> QED BY <3>1, <3>2, <3>3, <3>4, <3>5, Zenon
  <2>4. i \in 1 .. 4 /\ First(i)
    <3> HIDE DEF First
    <3> QED BY <2>3, Zenon
  <2> HIDE DEF First, i
  <2> QED BY <1>2, <1>6, <2>2, <2>4
<1>7. ASSUME First(2) PROVE Classify(session) = "bruteforcer"
  <2>1. Matches("bruteforcer", session)
    BY <1>3, <1>5, <1>7
  <2>2. Classify(session) = Priority[i]
    BY <1>5, <2>1, Zenon DEF Classify
  <2>3. i \in 1 .. 4 /\ First(i)
    <3> HIDE DEF First
    <3> QED BY <1>5, <1>7, Zenon
  <2> HIDE DEF First, i
  <2> QED BY <1>4, <1>5, <1>7, <2>2, <2>3
<1> HIDE DEF First
<1> QED BY <1>1, <1>3, <1>6, <1>7, Zenon

\* A bruteforcer's session that grows stays one until it has too many commands.
LEMMA BruteforcerGrows ==
  ASSUME NEW S, NEW T, S \subseteq T, T \subseteq Events,
         Classify(S) = "bruteforcer",
         Cardinality(Commands(T)) <= Criteria.bruteforcer.max_commands
  PROVE  Classify(T) = "bruteforcer"
<1>1. S # {} /\ T # {}
  BY DEF Classify
<1>2. MatchBruteforcer(S, Criteria.bruteforcer)
  BY <1>1, ClassifyBruteforcer
<1>3. IsFiniteSet(T)
  BY FS_Subset, RequestsAssumption
<1>4. IsFiniteSet(Auth(T)) /\ Auth(S) \subseteq Auth(T)
  BY <1>3, FS_Subset DEF Auth
<1>5. IsFiniteSet(DistinctPasswords(T)) /\ DistinctPasswords(S) \subseteq DistinctPasswords(T)
  <2> DEFINE all == {Attr[e].password : e \in Auth(T)}
  <2>1. IsFiniteSet(all)
    <3> DEFINE f == [e \in Auth(T) |-> Attr[e].password]
    <3>1. f \in Surjection(Auth(T), all)
      BY DEF Surjection
    <3> HIDE DEF f, all
    <3> QED BY <1>4, <3>1, FS_Surjection
  <2>2. DistinctPasswords(T) \subseteq all
    BY DEF DistinctPasswords
  <2>3. DistinctPasswords(S) \subseteq DistinctPasswords(T)
    BY <1>4 DEF DistinctPasswords
  <2> HIDE DEF all
  <2> QED BY <2>1, <2>2, <2>3, FS_Subset
<1>6. /\ Cardinality(Auth(S)) \in Nat /\ Cardinality(Auth(T)) \in Nat
      /\ Cardinality(Auth(S)) <= Cardinality(Auth(T))
  BY <1>4, FS_Subset, FS_CardinalityType
<1>7. /\ Cardinality(DistinctPasswords(S)) \in Nat /\ Cardinality(DistinctPasswords(T)) \in Nat
      /\ Cardinality(DistinctPasswords(S)) <= Cardinality(DistinctPasswords(T))
  BY <1>5, FS_Subset, FS_CardinalityType
<1>8. MatchBruteforcer(T, Criteria.bruteforcer)
  BY <1>2, <1>6, <1>7, CriteriaAssumption DEF MatchBruteforcer
<1>9. ~MatchScanner(T, Criteria.scanner_legitime)
  BY <1>6, <1>8, CriteriaAssumption DEF MatchBruteforcer, MatchScanner
<1> QED BY <1>1, <1>8, <1>9, ClassifyBruteforcer

\* BruteforcerIsKept: for all thresholds where a scanner is allowed fewer attempts than
\* a bruteforcer needs, nothing that is added to a bruteforced session takes it out of
\* its class but more commands than the profile allows; not even events of a known
\* scanner, which the docstring of the classifier has prevail.
THEOREM BruteforcerKept == Spec => BruteforcerIsKept
<1>1. ASSUME TypeOK, TypeOK', [Next]_vars, NEW e \in Events, Bruteforced(e)
      PROVE  \/ Bruteforced(e)'
             \/ Cardinality(Commands(RowsOf(e)')) > Criteria.bruteforcer.max_commands
  <2>1. rows \subseteq rows'
    BY <1>1 DEF Next, Handler, Receive, Insert, ReadSession, UpdateStart, UpdateCommit,
         Fail, vars
  <2>2. RowsOf(e) \subseteq RowsOf(e)' /\ RowsOf(e)' \subseteq Events
    BY <1>1, <2>1 DEF RowsOf, Session, TypeOK
  <2>3. Cardinality(Commands(RowsOf(e)')) \in Nat
    <3>1. IsFiniteSet(Commands(RowsOf(e)'))
      BY <2>2, FS_Subset, RequestsAssumption DEF Commands
    <3> QED BY <3>1, FS_CardinalityType
  <2>4. CASE Cardinality(Commands(RowsOf(e)')) <= Criteria.bruteforcer.max_commands
    BY <1>1, <2>2, <2>4, BruteforcerGrows DEF Bruteforced
  <2> QED BY <2>3, <2>4, CriteriaAssumption
<1>2. TypeOK /\ TypeOK' /\ [Next]_vars =>
        [\A e \in Events :
           RowsOf(e) # RowsOf(e)' /\ Bruteforced(e) =>
             \/ Bruteforced(e)'
             \/ Cardinality(Commands(RowsOf(e)')) > Criteria.bruteforcer.max_commands]_rows
  BY <1>1 DEF vars
<1> QED BY <1>2, IngestTypeCorrect, PTL DEF Spec, BruteforcerIsKept

-----------------------------------------------------------------------------
(* Handlers that do not overlap.                                             *)

\* The inductive strengthening of OneClassPerSession: without overlap at most one
\* handler runs, so its UPDATE writes all the rows the session has when it commits;
\* a row that is not in the table yet has no class.
SoloInv ==
  /\ \A e \in Events \ rows : label[e] = "indetermine"
  /\ \A q \in Requests : pc[q] = "commit" => target[q] \subseteq rows
  /\ ~overlapped =>
       /\ \A p, q \in Requests : Running(p) /\ Running(q) => p = q
       /\ \A q \in Requests : pc[q] = "commit" => target[q] = RowsOf(ev[q])
       /\ \A e \in rows : \A r \in RowsOf(e) :
            label[e] = label[r] \/ "indetermine" \in {label[e], label[r]}

\* SoloInv holds initially: no row, no running handler.
LEMMA InitSoloInv == Init => SoloInv
BY DEF Init, SoloInv, Running, RowsOf

\* Every step keeps SoloInv.
LEMMA NextSoloInv == TypeOK /\ SoloInv /\ [Next]_vars => SoloInv'
<1> SUFFICES ASSUME TypeOK, SoloInv, [Next]_vars PROVE SoloInv'
  OBVIOUS
<1> USE DEF TypeOK, SoloInv, Running
<1>1. ASSUME NEW q \in Requests, NEW e \in Events, Receive(q, e) PROVE SoloInv'
  <2>1. /\ pc[q] = "none" /\ pc' = [pc EXCEPT ![q] = "insert"]
        /\ ev' = [ev EXCEPT ![q] = e]
        /\ UNCHANGED <<rows, label, target>>
    BY <1>1 DEF Receive
  <2>2. CASE ~overlapped'
    <3>1. ~overlapped /\ \A p \in Requests : pc[p] \notin {"insert", "read", "update", "commit"}
      BY <1>1, <2>2 DEF Receive
    <3>2. \A p \in Requests \ {q} : pc'[p] \notin {"insert", "read", "update", "commit"}
      BY <2>1, <3>1
    <3>3. pc'[q] = "insert"
      BY <2>1
    <3>4. /\ \A p, r \in Requests : Running(p)' /\ Running(r)' => p = r
          /\ \A p \in Requests : pc'[p] # "commit"
      BY <3>2, <3>3
    <3>5. \A d \in rows' : \A r \in RowsOf(d)' :
            label'[d] = label'[r] \/ "indetermine" \in {label'[d], label'[r]}
      BY <2>1, <3>1 DEF RowsOf
    <3> QED BY <2>1, <3>4, <3>5
  <2>3. CASE overlapped'
    BY <2>1, <2>3
  <2> QED BY <2>2, <2>3
<1>2. ASSUME NEW q \in Requests, Insert(q) PROVE SoloInv'
  <2>1. /\ pc[q] = "insert" /\ pc' = [pc EXCEPT ![q] = "read"]
        /\ rows' = rows \cup {ev[q]}
        /\ UNCHANGED <<label, ev, target, overlapped>>
    BY <1>2 DEF Insert
  <2>2. /\ \A e \in Events \ rows' : label'[e] = "indetermine"
        /\ \A p \in Requests : pc'[p] = "commit" => target'[p] \subseteq rows'
    BY <2>1
  <2>3. ASSUME ~overlapped'
        PROVE  /\ \A p, r \in Requests : Running(p)' /\ Running(r)' => p = r
               /\ \A p \in Requests : pc'[p] # "commit"
    BY <2>1, <2>3
  <2>4. ASSUME ~overlapped', NEW e \in rows', NEW r \in RowsOf(e)'
        PROVE  label'[e] = label'[r] \/ "indetermine" \in {label'[e], label'[r]}
    <3>1. e \in Events /\ r \in Events /\ r \in rows' /\ Session(r) = Session(e)
      BY <2>1, <2>4 DEF RowsOf, Session
    <3>2. CASE e \in rows /\ r \in rows
      BY <2>1, <2>4, <3>1, <3>2 DEF RowsOf
    <3>3. CASE e \notin rows \/ r \notin rows
      BY <2>1, <3>1, <3>3
    <3> QED BY <3>2, <3>3
  <2> QED BY <2>2, <2>3, <2>4
<1>3. ASSUME NEW q \in Requests, ReadSession(q) PROVE SoloInv'
  <2>1. /\ pc[q] = "read" /\ pc'[q] \in {"answered", "update"}
        /\ \A p \in Requests \ {q} : pc'[p] = pc[p]
        /\ UNCHANGED <<rows, label, ev, target, overlapped>>
    BY <1>3 DEF ReadSession
  <2> QED BY <2>1 DEF RowsOf
<1>4. ASSUME NEW q \in Requests, UpdateStart(q) PROVE SoloInv'
  BY <1>4 DEF UpdateStart, RowsOf
<1>5. ASSUME NEW q \in Requests, UpdateCommit(q) PROVE SoloInv'
  <2>1. /\ pc[q] = "commit" /\ pc' = [pc EXCEPT ![q] = "answered"]
        /\ UNCHANGED <<rows, ev, target, overlapped>>
        /\ \A e \in Events : label'[e] = IF e \in target[q] THEN answer[q] ELSE label[e]
    BY <1>5 DEF UpdateCommit
  <2>2. \A e \in Events \ rows : label'[e] = "indetermine"
    BY <2>1
  <2>3. ASSUME ~overlapped', NEW e \in rows, NEW r \in RowsOf(e)
        PROVE  label'[e] = label'[r] \/ "indetermine" \in {label'[e], label'[r]}
    <3>1. r \in rows /\ (e \in target[q] <=> r \in target[q])
      BY <2>1, <2>3 DEF RowsOf
    <3> QED BY <2>1, <2>3, <3>1
  <2> QED BY <2>1, <2>2, <2>3 DEF RowsOf
<1>6. ASSUME NEW q \in Requests, Fail(q) PROVE SoloInv'
  BY <1>6 DEF Fail, RowsOf
<1>7. CASE UNCHANGED vars
  BY <1>7 DEF vars, RowsOf
<1> QED BY <1>1, <1>2, <1>3, <1>4, <1>5, <1>6, <1>7 DEF Next, Handler

\* OneClassPerSession (a property of the run ingest): without overlapping
\* handlers no session ever shows two classes, wherever handlers fail.
THEOREM OneClass == Spec => []OneClassPerSession
<1>1. SoloInv => OneClassPerSession
  BY DEF SoloInv, OneClassPerSession
<1> QED BY <1>1, IngestTypeCorrect, InitSoloInv, NextSoloInv, PTL DEF Spec
=============================================================================
