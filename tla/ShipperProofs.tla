---------------------------- MODULE ShipperProofs ----------------------------
(* Theorems about Shipper, for every number of services, set of events and   *)
(* bound.                                                                    *)
EXTENDS Shipper, SequenceTheorems, TLAPS

\* The two cells of an event's line are cells.
LEMMA CellTypes ==
  ASSUME NEW e \in Events
  PROVE  Head1(e) \in Cell /\ Tail1(e) \in Cell
BY DEF Head1, Tail1, Cell

\* What every event that is appended to a log does to the type of the logs.
LEMMA LogAppendType ==
  ASSUME log \in [Service -> Seq(Cell)], NEW s \in Service, NEW c \in Cell
  PROVE  [log EXCEPT ![s] = Append(@, c)] \in [Service -> Seq(Cell)]
OBVIOUS

\* A cell of a log has its type.
LEMMA CellOfLog ==
  ASSUME NEW f \in Seq(Cell), NEW i \in 1 .. Len(f)
  PROVE  /\ f[i] \in Cell
         /\ f[i].ev \in Events
         /\ f[i].part \in {"head", "tail"}
<1>1. f[i] \in Cell
  BY ElementOfSeq
<1> QED BY <1>1 DEF Cell

\* The for loop stays inside the services.
LEMMA NextServiceType ==
  ASSUME cur \in Service, NextService
  PROVE  cur' \in Service /\ pc' \in {"stat", "save"}
BY ShipperAssumption DEF NextService, Service

\* The types hold initially.
THEOREM InitTypeOK == Init => TypeOK
BY ShipperAssumption DEF Init, TypeOK, Service, Zeros, DiskFile, Cell

\* Every step keeps the types: the lemma the type theorem rests on.
LEMMA NextTypeOK == TypeOK /\ [Next]_vars => TypeOK'
<1> SUFFICES ASSUME TypeOK, [Next]_vars PROVE TypeOK'
  OBVIOUS
<1> USE ShipperAssumption DEF TypeOK, honeypotVars, shipperVars, analyzerVars
<1>1. ASSUME NEW s \in Service, NEW e \in Events, EmitWhole(s, e) PROVE TypeOK'
  <2>1. <<Head1(e), Tail1(e)>> \in Seq(Cell)
    BY CellTypes
  <2>2. log[s] \o <<Head1(e), Tail1(e)>> \in Seq(Cell)
    BY <2>1, ConcatProperties
  <2>3. log' \in [Service -> Seq(Cell)]
    BY <1>1, <2>2 DEF EmitWhole
  <2> QED BY <1>1, <2>3 DEF EmitWhole
<1>2. ASSUME NEW s \in Service, NEW e \in Events, EmitHead(s, e) PROVE TypeOK'
  <2>1. log' \in [Service -> Seq(Cell)]
    BY <1>2, CellTypes, LogAppendType DEF EmitHead
  <2> QED BY <1>2, <2>1 DEF EmitHead
<1>3. ASSUME NEW s \in Service, EmitTail(s) PROVE TypeOK'
  <2>1. writing[s] \in Events
    BY <1>3 DEF EmitTail
  <2>2. log' \in [Service -> Seq(Cell)]
    BY <1>3, <2>1, CellTypes, LogAppendType DEF EmitTail
  <2> QED BY <1>3, <2>2 DEF EmitTail
<1>4. ASSUME NEW s \in Service, HoneypotCrash(s) PROVE TypeOK'
  BY <1>4 DEF HoneypotCrash
<1>5. ASSUME NEW s \in Service, Rotate(s) PROVE TypeOK'
  <2>1. log' \in [Service -> Seq(Cell)]
    BY <1>5 DEF Rotate
  <2>2. writing' \in [Service -> Events \cup {NoEvent}]
    BY <1>5 DEF Rotate
  <2>3. rotations' \in Nat
    BY <1>5 DEF Rotate
  <2> QED BY <1>5, <2>1, <2>2, <2>3 DEF Rotate
<1>6. CASE Start
  BY <1>6 DEF Start, Zeros, DiskFile, Service
<1>7. CASE Seed
  <2>1. \A i \in 1 .. Len(log[cur]) : log[cur][i].ev \in Events
    BY CellOfLog
  <2>2. seeded' \subseteq Events
    BY <1>7, <2>1 DEF Seed
  <2>3. offsets' \in [Service -> Nat]
    BY <1>7 DEF Seed
  <2>4. cur' \in Service /\ pc' \in {"seed", "save"}
    BY <1>7 DEF Seed, Service
  <2> QED BY <1>7, <2>2, <2>3, <2>4 DEF Seed
<1>8. CASE Missing
  BY <1>8, NextServiceType DEF Missing
<1>9. CASE Open
  BY <1>9 DEF Open
<1>10. CASE ReadLine
  <2>1. PICK end \in pos + 1 .. Len(log[cur]) :
          /\ pos' = end
          /\ \/ \E e \in Events :
                  /\ copies' = [copies EXCEPT ![e] = @ + 1]
                  /\ line' = e
                  /\ pc' = "post"
                  /\ UNCHANGED dropped
             \/ /\ dropped' = dropped \cup {log[cur][i].ev : i \in pos + 1 .. end}
                /\ UNCHANGED <<pc, line, copies>>
    BY <1>10, Zenon DEF ReadLine
  <2>2. end \in Nat
    BY <2>1
  <2>3. \A i \in pos + 1 .. end : log[cur][i].ev \in Events
    <3> TAKE i \in pos + 1 .. end
    <3>1. i \in 1 .. Len(log[cur])
      BY <2>1
    <3> QED BY <3>1, CellOfLog
  <2>4. UNCHANGED <<cur, offsets, disk, boots, seeded, honeypotVars, analyzerVars, rotations>>
    BY <1>10, Zenon DEF ReadLine
  <2>5. /\ dropped' \subseteq Events
        /\ copies' \in [Events -> Nat]
        /\ line' \in Events \cup {NoEvent}
        /\ pc' = "post" => line' \in Events
        /\ pc' \in {"down", "seed", "stat", "read", "post", "save", "write"}
    <3>1. CASE \E e \in Events :
                 /\ copies' = [copies EXCEPT ![e] = @ + 1]
                 /\ line' = e
                 /\ pc' = "post"
                 /\ UNCHANGED dropped
      BY <3>1
    <3>2. CASE /\ dropped' = dropped \cup {log[cur][i].ev : i \in pos + 1 .. end}
               /\ UNCHANGED <<pc, line, copies>>
      BY <3>2, <2>3
    <3> QED BY <2>1, <3>1, <3>2
  <2> QED BY <2>1, <2>2, <2>4, <2>5
<1>11. CASE Post
  BY <1>11 DEF Post
<1>12. CASE EndOfFile
  BY <1>12, NextServiceType DEF EndOfFile
<1>13. CASE SaveTruncate
  BY <1>13 DEF SaveTruncate, DiskFile
<1>14. CASE SaveWrite
  BY <1>14 DEF SaveWrite, DiskFile
<1>15. CASE SaveFails
  BY <1>15 DEF SaveFails
<1>16. CASE Crash
  BY <1>16 DEF Crash, Zeros, Service
<1>17. CASE Analyzer
  <2>1. ASSUME NEW e \in Events, Handle(e) PROVE TypeOK'
    BY <2>1 DEF Handle
  <2>2. CASE AnalyzerStart
    BY <2>2 DEF AnalyzerStart
  <2>3. CASE AnalyzerStop
    <3>1. up' \in BOOLEAN
      BY <2>3, Zenon DEF AnalyzerStop
    <3>2. inflight' \subseteq Events /\ outages' \in Nat
      BY <2>3 DEF AnalyzerStop
    <3>3. UNCHANGED <<db, honeypotVars, shipperVars, rotations>>
      BY <2>3 DEF AnalyzerStop
    <3> QED BY <3>1, <3>2, <3>3
  <2> QED BY <1>17, <2>1, <2>2, <2>3 DEF Analyzer
<1>18. CASE UNCHANGED vars
  BY <1>18 DEF vars
<1> QED
  BY <1>1, <1>2, <1>3, <1>4, <1>5, <1>6, <1>7, <1>8, <1>9, <1>10, <1>11, <1>12,
     <1>13, <1>14, <1>15, <1>16, <1>17, <1>18 DEF Next, Honeypot, Loop, HalfCharacter

\* The types of Shipper hold in every reachable state.
THEOREM TypeCorrect == Spec => []TypeOK
BY InitTypeOK, NextTypeOK, PTL DEF Spec

-----------------------------------------------------------------------------
(* Offsets never get ahead of the work.                                      *)

\* The inductive strengthening of OffsetsCoverOnlyHandled: positions stay inside
\* the files, what the reader has passed in the current file is done except the
\* event it is about to post, and an analyzer that never stopped is up.
CoverInv ==
  /\ up \/ outages > 0
  /\ pc = "post" => copies[line] > 0
  /\ rotations = 0 =>
       /\ \A s \in Service :
            /\ offsets[s] <= Len(log[s]) /\ Covers(Done, log[s], offsets[s])
            /\ disk.state = "whole" =>
                 disk.at[s] <= Len(log[s]) /\ Covers(Done, log[s], disk.at[s])
       /\ pc = "read" => pos <= Len(log[cur]) /\ Covers(Done, log[cur], pos)
       /\ pc = "post" => pos <= Len(log[cur]) /\ Covers(Done \cup {line}, log[cur], pos)

\* A file that only grows and a set that only grows keep a cover.
LEMMA CoversMonotone ==
  ASSUME NEW f \in Seq(Cell), NEW g \in Seq(Cell), NEW n \in Nat,
         NEW done, NEW more, done \subseteq more,
         n <= Len(f), Len(f) <= Len(g),
         \A i \in 1 .. Len(f) : g[i] = f[i],
         Covers(done, f, n)
  PROVE  n <= Len(g) /\ Covers(more, g, n)
<1> SUFFICES ASSUME NEW i \in 1 .. Len(g), i <= n PROVE g[i].ev \in more
  BY DEF Covers
<1>1. i \in 1 .. Len(f)
  OBVIOUS
<1> QED BY <1>1 DEF Covers

\* A step is one of the shipper's, or leaves the shipper as it is.
LEMMA ShipperSteps ==
  [Next]_vars =>
    \/ UNCHANGED shipperVars
    \/ Start \/ Seed \/ Missing \/ Open \/ ReadLine \/ Post \/ EndOfFile
    \/ SaveTruncate \/ SaveWrite \/ SaveFails \/ Crash
BY Zenon DEF Next, Honeypot, EmitWhole, EmitHead, EmitTail, HoneypotCrash, Rotate, Loop, HalfCharacter,
             Analyzer, Handle, AnalyzerStart, AnalyzerStop, vars

\* As long as no file is rotated, the logs only grow at their end.
LEMMA LogsGrow ==
  ASSUME TypeOK, [Next]_vars, rotations' = 0
  PROVE  /\ rotations = 0
         /\ \A s \in Service :
              /\ Len(log[s]) <= Len(log'[s])
              /\ \A i \in 1 .. Len(log[s]) : log'[s][i] = log[s][i]
<1> USE DEF honeypotVars, shipperVars, analyzerVars
<1>1. ASSUME NEW s \in Service, NEW e \in Events, EmitWhole(s, e)
      PROVE  /\ rotations = 0
             /\ \A t \in Service :
                  /\ Len(log[t]) <= Len(log'[t])
                  /\ \A i \in 1 .. Len(log[t]) : log'[t][i] = log[t][i]
  <2>1. log'[s] = log[s] \o <<Head1(e), Tail1(e)>> /\ rotations = 0
    BY <1>1 DEF EmitWhole, TypeOK
  <2>2. \A t \in Service : t # s => log'[t] = log[t]
    BY <1>1 DEF EmitWhole, TypeOK
  <2>3. log[s] \in Seq(Cell) /\ <<Head1(e), Tail1(e)>> \in Seq(Cell)
    BY CellTypes DEF TypeOK
  <2>4. /\ Len(log[s]) <= Len(log'[s])
        /\ \A i \in 1 .. Len(log[s]) : log'[s][i] = log[s][i]
    BY <2>1, <2>3
  <2>5. ASSUME NEW t \in Service
        PROVE  /\ Len(log[t]) <= Len(log'[t])
               /\ \A i \in 1 .. Len(log[t]) : log'[t][i] = log[t][i]
    <3>1. CASE t = s
      BY <2>4, <3>1
    <3>2. CASE t # s
      <4>1. log'[t] = log[t] /\ Len(log[t]) \in Nat
        BY <2>2, <3>2 DEF TypeOK
      <4> QED BY <4>1
    <3> QED BY <3>1, <3>2
  <2> QED BY <2>1, <2>5
<1>2. ASSUME NEW s \in Service, NEW c, log' = [log EXCEPT ![s] = Append(@, c)],
             rotations' = rotations
      PROVE  /\ rotations = 0
             /\ \A t \in Service :
                  /\ Len(log[t]) <= Len(log'[t])
                  /\ \A i \in 1 .. Len(log[t]) : log'[t][i] = log[t][i]
  BY <1>2 DEF TypeOK
<1>3. ASSUME NEW s \in Service, Rotate(s) PROVE FALSE
  BY <1>3 DEF Rotate, TypeOK
<1>4. ASSUME UNCHANGED <<log, rotations>>
      PROVE  /\ rotations = 0
             /\ \A t \in Service :
                  /\ Len(log[t]) <= Len(log'[t])
                  /\ \A i \in 1 .. Len(log[t]) : log'[t][i] = log[t][i]
  BY <1>4 DEF TypeOK
<1>5. \/ \E s \in Service : \E e \in Events : EmitWhole(s, e)
      \/ \E s \in Service : \E c : log' = [log EXCEPT ![s] = Append(@, c)] /\ rotations' = rotations
      \/ \E s \in Service : Rotate(s)
      \/ UNCHANGED <<log, rotations>>
  BY DEF Next, Honeypot, EmitHead, EmitTail, HoneypotCrash, Start, Loop, HalfCharacter, Seed, Missing,
         Open, ReadLine, Post, EndOfFile, SaveTruncate, SaveWrite, SaveFails, Crash,
         Analyzer, Handle, AnalyzerStart, AnalyzerStop, vars
<1> QED BY <1>1, <1>2, <1>3, <1>4, <1>5

\* The two outcomes of reading a line, in the form the proofs use.
LEMMA ReadLineCases ==
  ASSUME TypeOK, ReadLine
  PROVE  \E end \in pos + 1 .. Len(log[cur]) :
           /\ pos' = end
           /\ \/ \E e \in Events :
                   /\ end = pos + 2
                   /\ log[cur][pos + 1].ev = e /\ log[cur][end].ev = e
                   /\ copies' = [copies EXCEPT ![e] = @ + 1]
                   /\ line' = e /\ pc' = "post"
                   /\ UNCHANGED dropped
              \/ /\ dropped' = dropped \cup {log[cur][i].ev : i \in pos + 1 .. end}
                 /\ UNCHANGED <<pc, line, copies>>
<1>1. PICK end \in pos + 1 .. Len(log[cur]) :
        /\ pos' = end
        /\ \/ \E e \in Events :
                /\ ParsesAs(log[cur], pos, end, e)
                /\ copies' = [copies EXCEPT ![e] = @ + 1]
                /\ line' = e /\ pc' = "post"
                /\ UNCHANGED dropped
           \/ /\ dropped' = dropped \cup {log[cur][i].ev : i \in pos + 1 .. end}
              /\ UNCHANGED <<pc, line, copies>>
  BY Zenon DEF ReadLine
<1>2. ASSUME NEW e \in Events, ParsesAs(log[cur], pos, end, e)
      PROVE  end = pos + 2 /\ log[cur][pos + 1].ev = e /\ log[cur][end].ev = e
  BY <1>2 DEF ParsesAs, Head1, Tail1
<1> QED BY <1>1, <1>2, Zenon

\* What is done stays done.
LEMMA DoneGrows ==
  ASSUME TypeOK, [Next]_vars
  PROVE  Done \subseteq Done'
<1> USE DEF Done, Handled, honeypotVars, shipperVars, analyzerVars
<1>1. CASE UNCHANGED <<dropped, seeded, copies, outages, inflight, db>>
  BY <1>1
<1>2. CASE Seed
  BY <1>2 DEF Seed
<1>3. CASE ReadLine
  <2>1. UNCHANGED <<seeded, outages, inflight, db>>
    BY <1>3, Zenon DEF ReadLine
  <2>2. /\ dropped \subseteq dropped'
        /\ \A e \in Events : copies[e] > 0 => copies'[e] > 0
    <3>1. ASSUME NEW e \in Events, copies' = [copies EXCEPT ![e] = @ + 1], UNCHANGED dropped
          PROVE  /\ dropped \subseteq dropped'
                 /\ \A x \in Events : copies[x] > 0 => copies'[x] > 0
      BY <3>1 DEF TypeOK
    <3>2. CASE dropped \subseteq dropped' /\ UNCHANGED copies
      BY <3>2
    <3> QED BY <1>3, <3>1, <3>2, ReadLineCases
  <2> QED BY <2>1, <2>2
<1>4. CASE Post
  BY <1>4 DEF Post
<1>5. ASSUME NEW e \in Events, Handle(e) PROVE Done \subseteq Done'
  BY <1>5 DEF Handle
<1>6. CASE AnalyzerStop
  BY <1>6 DEF AnalyzerStop, TypeOK
<1>7. \/ UNCHANGED <<dropped, seeded, copies, outages, inflight, db>>
      \/ Seed \/ ReadLine \/ Post \/ AnalyzerStop \/ \E e \in Events : Handle(e)
  BY Zenon DEF Next, Honeypot, EmitWhole, EmitHead, EmitTail, HoneypotCrash, Rotate, Start,
         Loop, HalfCharacter, Missing, Open, EndOfFile, SaveTruncate, SaveWrite, SaveFails, Crash,
         Analyzer, AnalyzerStart, vars
<1> QED BY <1>1, <1>2, <1>3, <1>4, <1>5, <1>6, <1>7

\* CoverInv holds initially: everything is empty.
LEMMA InitCoverInv == Init => CoverInv
BY ShipperAssumption DEF Init, CoverInv, Covers, Zeros, Service

\* What a step leaves as it was: a position that was covered still is.
LEMMA StillCovered ==
  ASSUME TypeOK, TypeOK', [Next]_vars, rotations' = 0,
         NEW s \in Service, NEW n \in Nat, NEW x,
         n <= Len(log[s]), Covers(Done \cup x, log[s], n)
  PROVE  n <= Len(log'[s]) /\ Covers(Done' \cup x, log'[s], n)
<1>1. /\ log[s] \in Seq(Cell) /\ log'[s] \in Seq(Cell)
      /\ Len(log[s]) <= Len(log'[s])
      /\ \A i \in 1 .. Len(log[s]) : log'[s][i] = log[s][i]
  BY LogsGrow DEF TypeOK
<1>2. Done \cup x \subseteq Done' \cup x
  BY DoneGrows
<1> QED BY <1>1, <1>2, CoversMonotone

\* Every step keeps CoverInv: reading moves the position over done or dropped cells,
\* posting makes the event that was read done, the end of the file and the save copy a
\* covered position, and appends leave what is covered in place.
LEMMA NextCoverInv == TypeOK /\ TypeOK' /\ CoverInv /\ [Next]_vars => CoverInv'
<1> SUFFICES ASSUME TypeOK, TypeOK', CoverInv, [Next]_vars PROVE CoverInv'
  OBVIOUS
<1> DEFINE At(s, n) == n <= Len(log[s]) /\ Covers(Done, log[s], n)
           NewAt(s, n) == n <= Len(log'[s]) /\ Covers(Done', log'[s], n)
<1> USE DEF honeypotVars, shipperVars, analyzerVars
<1>old. ASSUME rotations' = 0, NEW s \in Service, NEW n \in Nat, At(s, n)
        PROVE  NewAt(s, n)
  <2>1. Covers(Done \cup {}, log[s], n) /\ n <= Len(log[s])
    BY <1>old DEF Covers
  <2>2. n <= Len(log'[s]) /\ Covers(Done' \cup {}, log'[s], n)
    BY <1>old, <2>1, StillCovered, Zenon
  <2> QED BY <2>2 DEF Covers
<1>1. (up \/ outages > 0)'
  <2>1. CASE UNCHANGED <<up, outages>>
    BY <2>1 DEF CoverInv
  <2>2. CASE AnalyzerStart
    BY <2>2, Zenon DEF AnalyzerStart
  <2>3. CASE AnalyzerStop
    BY <2>3 DEF AnalyzerStop, TypeOK
  <2>4. UNCHANGED <<up, outages>> \/ AnalyzerStart \/ AnalyzerStop
    BY Zenon DEF Next, Honeypot, EmitWhole, EmitHead, EmitTail, HoneypotCrash,
         Rotate, Start, Loop, HalfCharacter, Seed, Missing, Open, ReadLine, Post, EndOfFile,
         SaveTruncate, SaveWrite, SaveFails, Crash, Analyzer, Handle, vars
  <2> QED BY <2>1, <2>2, <2>3, <2>4
<1>2. (pc = "post" => copies[line] > 0)'
  <2>1. CASE UNCHANGED <<pc, line, copies>>
    BY <2>1 DEF CoverInv
  <2>2. CASE ReadLine
    <3>1. ASSUME NEW e \in Events, copies' = [copies EXCEPT ![e] = @ + 1], line' = e
          PROVE  copies'[line'] > 0
      BY <3>1 DEF TypeOK
    <3> QED BY <2>1, <2>2, <3>1, ReadLineCases
  <2>3. UNCHANGED <<pc, line, copies>> \/ ReadLine \/ pc' # "post"
    BY ShipperSteps DEF Start, Seed, Missing, NextService, Open, Post, EndOfFile,
         SaveTruncate, SaveWrite, SaveFails, Crash
  <2> QED BY <2>1, <2>2, <2>3
<1>0. ASSUME rotations' = 0
      PROVE  /\ rotations = 0
             /\ \A s \in Service : At(s, offsets[s])
             /\ disk.state = "whole" => \A s \in Service : At(s, disk.at[s])
             /\ pc = "read" => At(cur, pos)
             /\ pc = "post" => pos <= Len(log[cur]) /\ Covers(Done \cup {line}, log[cur], pos)
  BY <1>0, LogsGrow DEF CoverInv
<1>3. ASSUME rotations' = 0, NEW s \in Service
      PROVE  NewAt(s, offsets'[s])
  <2>1. ASSUME NEW n \in Nat, At(s, n), offsets'[s] = n PROVE NewAt(s, offsets'[s])
    BY <2>1, <1>3, <1>old
  <2>2. At(s, 0) /\ At(s, offsets[s]) /\ offsets[s] \in Nat
    <3>1. At(s, 0)
      <4>1. Len(log[s]) \in Nat
        BY DEF TypeOK
      <4> QED BY <4>1 DEF Covers
    <3>2. At(s, offsets[s])
      BY <1>3, <1>0
    <3>3. offsets[s] \in Nat
      BY DEF TypeOK
    <3> QED BY <3>1, <3>2, <3>3
  <2>3. CASE UNCHANGED offsets
    BY <2>1, <2>2, <2>3
  <2>4. CASE Start
    BY <2>1, <2>2, <2>4, <1>0, <1>3 DEF Start, Zeros, TypeOK, DiskFile
  <2>5. CASE Seed
    <3>1. CASE s = cur
      <4>1. offsets'[s] = Len(log[s]) /\ log'[s] = log[s]
        BY <2>5, <3>1 DEF Seed, TypeOK
      <4>2. \A i \in 1 .. Len(log[s]) : log[s][i].ev \in Done'
        BY <2>5, <3>1 DEF Seed, Done
      <4> QED BY <4>1, <4>2 DEF Covers, TypeOK
    <3>2. CASE s # cur
      BY <2>1, <2>2, <2>5, <3>2 DEF Seed, TypeOK
    <3> QED BY <3>1, <3>2
  <2>6. CASE Open
    <3>1. offsets'[s] = offsets[s]
      BY <2>2, <2>6, <1>3, <1>0 DEF Open, TypeOK
    <3> QED BY <2>1, <2>2, <3>1
  <2>7. CASE EndOfFile
    <3>1. CASE s = cur
      BY <2>1, <2>7, <3>1, <1>0, <1>3 DEF EndOfFile, TypeOK
    <3>2. CASE s # cur
      BY <2>1, <2>2, <2>7, <3>2 DEF EndOfFile, TypeOK
    <3> QED BY <3>1, <3>2
  <2>8. CASE Crash
    BY <2>1, <2>2, <2>8 DEF Crash, Zeros
  <2>9. UNCHANGED offsets \/ Start \/ Seed \/ Open \/ EndOfFile \/ Crash
    BY ShipperSteps DEF Missing, ReadLine, Post, SaveTruncate, SaveWrite, SaveFails
  <2> QED BY <2>3, <2>4, <2>5, <2>6, <2>7, <2>8, <2>9
<1>4. ASSUME rotations' = 0, NEW s \in Service, disk'.state = "whole"
      PROVE  NewAt(s, disk'.at[s])
  <2>1. CASE UNCHANGED disk
    BY <2>1, <1>4, <1>0, <1>old DEF TypeOK, DiskFile
  <2>2. CASE SaveTruncate
    BY <2>2, <1>4 DEF SaveTruncate, TypeOK, DiskFile
  <2>3. CASE SaveWrite
    BY <2>3, <1>4, <1>0, <1>old DEF SaveWrite, TypeOK
  <2>4. UNCHANGED disk \/ SaveTruncate \/ SaveWrite
    BY ShipperSteps DEF Start, Seed, Missing, Open, ReadLine, Post, EndOfFile, SaveFails, Crash
  <2> QED BY <2>1, <2>2, <2>3, <2>4
<1>5. ASSUME rotations' = 0, pc' = "read" PROVE NewAt(cur', pos')
  <2>1. CASE UNCHANGED <<pc, cur, pos>>
    BY <2>1, <1>5, <1>0, <1>old DEF TypeOK
  <2>2. CASE Open
    <3>1. pos' = offsets[cur] /\ cur' = cur
      BY <2>2, <1>5, <1>0 DEF Open, TypeOK
    <3> QED BY <3>1, <1>5, <1>0, <1>old DEF TypeOK
  <2>3. CASE ReadLine
    <3>1. cur' = cur /\ log' = log /\ pc = "read"
      BY <2>3 DEF ReadLine
    <3>2. PICK end \in pos + 1 .. Len(log[cur]) :
            /\ pos' = end
            /\ dropped' = dropped \cup {log[cur][i].ev : i \in pos + 1 .. end}
      BY <2>3, <1>5, ReadLineCases
    <3>3. NewAt(cur, pos)
      BY <3>1, <1>5, <1>0, <1>old DEF TypeOK
    <3>4. ASSUME NEW i \in 1 .. Len(log[cur]), i <= end PROVE log[cur][i].ev \in Done'
      <4>1. CASE i <= pos
        BY <3>1, <3>3, <4>1 DEF Covers
      <4>2. CASE i > pos
        <5>1. i \in pos + 1 .. end
          BY <3>4, <4>2 DEF TypeOK
        <5> QED BY <3>2, <5>1, Zenon DEF Done
      <4> QED BY <4>1, <4>2 DEF TypeOK
    <3> QED BY <3>1, <3>2, <3>4 DEF Covers, TypeOK
  <2>4. CASE Post
    <3>1. cur' = cur /\ pos' = pos /\ log' = log
      BY <2>4 DEF Post
    <3>2. line \in Done'
      <4>1. line \in Events /\ copies[line] > 0 /\ copies' = copies /\ outages' = outages
        BY <2>4 DEF Post, TypeOK, CoverInv
      <4>2. outages = 0 => line \in inflight'
        BY <2>4 DEF Post, CoverInv
      <4> QED BY <4>1, <4>2 DEF Done, Handled
    <3>3. pos <= Len(log'[cur]) /\ Covers(Done' \cup {line}, log'[cur], pos)
      BY <2>4, <1>5, <1>0, StillCovered, Zenon DEF Post, TypeOK
    <3> QED BY <3>1, <3>2, <3>3 DEF Covers
  <2>5. UNCHANGED <<pc, cur, pos>> \/ Open \/ ReadLine \/ Post
    BY <1>5, ShipperSteps DEF Start, Seed, Missing, NextService, EndOfFile, SaveTruncate,
         SaveWrite, SaveFails, Crash
  <2> QED BY <2>1, <2>2, <2>3, <2>4, <2>5
<1>6. ASSUME rotations' = 0, pc' = "post"
      PROVE  pos' <= Len(log'[cur']) /\ Covers(Done' \cup {line'}, log'[cur'], pos')
  <2>1. CASE UNCHANGED <<pc, cur, pos, line>>
    BY <2>1, <1>6, <1>0, StillCovered, Zenon DEF TypeOK
  <2>2. CASE ReadLine
    <3>1. cur' = cur /\ log' = log /\ pc = "read"
      BY <2>2 DEF ReadLine
    <3>2. NewAt(cur, pos)
      BY <3>1, <1>6, <1>0, <1>old DEF TypeOK
    <3>3. /\ pos' = pos + 2 /\ pos + 2 <= Len(log[cur])
          /\ log[cur][pos + 1].ev = line' /\ log[cur][pos + 2].ev = line'
      BY <2>2, <1>6, <3>1, ReadLineCases DEF TypeOK
    <3>4. ASSUME NEW i \in 1 .. Len(log[cur]), i <= pos + 2
          PROVE  log[cur][i].ev \in Done' \cup {line'}
      <4>1. i <= pos \/ i = pos + 1 \/ i = pos + 2
        BY <3>4 DEF TypeOK
      <4> QED BY <4>1, <3>1, <3>2, <3>3 DEF Covers
    <3> QED BY <3>1, <3>3, <3>4 DEF Covers
  <2>3. UNCHANGED <<pc, cur, pos, line>> \/ ReadLine
    BY <1>6, ShipperSteps DEF Start, Seed, Missing, NextService, Open, Post, EndOfFile,
         SaveTruncate, SaveWrite, SaveFails, Crash
  <2> QED BY <2>1, <2>2, <2>3
<1> QED BY <1>1, <1>2, <1>3, <1>4, <1>5, <1>6 DEF CoverInv

\* OffsetsCoverOnlyHandled (a property of the run shipper): whatever the number of
\* services, events, crashes and stops, no offset gets ahead of the work.
THEOREM OffsetsSafe == Spec => []OffsetsCoverOnlyHandled
<1>1. CoverInv => OffsetsCoverOnlyHandled
  BY DEF CoverInv, OffsetsCoverOnlyHandled
<1> QED BY <1>1, TypeCorrect, InitCoverInv, NextCoverInv, PTL DEF Spec

-----------------------------------------------------------------------------
(* Shipper implements EventPipeline.                                         *)

\* Whatever is in a log was emitted; whatever reached the analyzer went through
\* the unified log first.
PipeInv ==
  /\ \A s \in Service : \A i \in 1 .. Len(log[s]) : log[s][i].ev \in emitted
  /\ \A s \in Service : writing[s] # NoEvent => writing[s] \in emitted
  /\ \A e \in db \cup inflight : copies[e] > 0

\* PipeInv holds initially: nothing was emitted.
LEMMA InitPipeInv == Init => PipeInv
BY DEF Init, PipeInv, Service

\* Every step keeps PipeInv: only emitted events are appended to a log, only a line
\* that was put in the unified log is posted, only what was posted is stored.
LEMMA NextPipeInv == TypeOK /\ CoverInv /\ PipeInv /\ [Next]_vars => PipeInv'
<1> SUFFICES ASSUME TypeOK, CoverInv, PipeInv, [Next]_vars PROVE PipeInv'
  OBVIOUS
<1> USE DEF honeypotVars, shipperVars, analyzerVars
<1>1. CASE UNCHANGED <<log, writing, emitted>>
  <2>1. \A e \in Events : copies[e] > 0 => copies'[e] > 0
    <3>1. CASE UNCHANGED copies
      BY <3>1
    <3>2. CASE ReadLine
      <4>1. ASSUME NEW e \in Events, copies' = [copies EXCEPT ![e] = @ + 1]
            PROVE  \A x \in Events : copies[x] > 0 => copies'[x] > 0
        BY <4>1 DEF TypeOK
      <4> QED BY <3>2, <3>1, <4>1, ReadLineCases
    <3> QED BY <3>1, <3>2, ShipperSteps DEF Start, Seed, Missing, Open, Post, EndOfFile,
              SaveTruncate, SaveWrite, SaveFails, Crash
  <2>2. db' \cup inflight' \subseteq db \cup inflight \cup {line}
    BY DEF Next, Honeypot, EmitWhole, EmitHead, EmitTail, HoneypotCrash, Rotate, Start,
         Loop, HalfCharacter, Seed, Missing, Open, ReadLine, Post, EndOfFile, SaveTruncate, SaveWrite,
         SaveFails, Crash, Analyzer, Handle, AnalyzerStart, AnalyzerStop, vars
  <2>3. db' \cup inflight' \subseteq db \cup inflight \/ pc = "post"
    BY DEF Next, Honeypot, EmitWhole, EmitHead, EmitTail, HoneypotCrash, Rotate, Start,
         Loop, HalfCharacter, Seed, Missing, Open, ReadLine, Post, EndOfFile, SaveTruncate, SaveWrite,
         SaveFails, Crash, Analyzer, Handle, AnalyzerStart, AnalyzerStop, vars
  <2> QED BY <1>1, <2>1, <2>2, <2>3 DEF PipeInv, CoverInv, TypeOK
<1>2. ASSUME NEW s \in Service, Honeypot(s) PROVE PipeInv'
  <2>1. UNCHANGED <<db, inflight, copies>>
    BY <1>2 DEF Honeypot, EmitWhole, EmitHead, EmitTail, HoneypotCrash, Rotate
  <2>2. ASSUME NEW e \in emitted', emitted \subseteq emitted',
               NEW c \in Seq(Cell), log' = [log EXCEPT ![s] = log[s] \o c],
               \A i \in 1 .. Len(c) : c[i].ev = e
        PROVE  \A t \in Service : \A i \in 1 .. Len(log'[t]) : log'[t][i].ev \in emitted'
    <3> SUFFICES ASSUME NEW t \in Service, NEW i \in 1 .. Len(log'[t])
                 PROVE  log'[t][i].ev \in emitted'
      OBVIOUS
    <3>1. CASE t = s
      <4>1. log'[t] = log[s] \o c /\ log[s] \in Seq(Cell)
        BY <2>2, <3>1 DEF TypeOK
      <4>2. CASE i <= Len(log[s])
        BY <4>1, <4>2, ConcatProperties, <2>2 DEF PipeInv
      <4>3. CASE i > Len(log[s])
        <5>1. log'[t][i] = c[i - Len(log[s])] /\ i - Len(log[s]) \in 1 .. Len(c)
          BY <4>1, <4>3, ConcatProperties, <2>2
        <5> QED BY <5>1, <2>2
      <4> QED BY <4>1, <4>2, <4>3
    <3>2. CASE t # s
      BY <2>2, <3>2 DEF PipeInv, TypeOK
    <3> QED BY <3>1, <3>2
  <2>3. ASSUME NEW e \in Events, EmitWhole(s, e) PROVE PipeInv'
    <3>1. <<Head1(e), Tail1(e)>> \in Seq(Cell)
      BY CellTypes
    <3>2. \A i \in 1 .. Len(<<Head1(e), Tail1(e)>>) : <<Head1(e), Tail1(e)>>[i].ev = e
      BY DEF Head1, Tail1
    <3>3. /\ e \in emitted' /\ emitted \subseteq emitted' /\ writing' = writing
          /\ log' = [log EXCEPT ![s] = log[s] \o <<Head1(e), Tail1(e)>>]
      BY <2>3 DEF EmitWhole
    <3> QED BY <2>1, <2>2, <3>1, <3>2, <3>3 DEF PipeInv
  <2>4. ASSUME NEW e \in Events, NEW c \in Cell, c.ev = e,
               log' = [log EXCEPT ![s] = Append(@, c)], e \in emitted', emitted \subseteq emitted'
        PROVE  \A t \in Service : \A i \in 1 .. Len(log'[t]) : log'[t][i].ev \in emitted'
    <3>1. <<c>> \in Seq(Cell) /\ \A i \in 1 .. Len(<<c>>) : <<c>>[i].ev = e
      BY <2>4
    <3>2. log' = [log EXCEPT ![s] = log[s] \o <<c>>]
      BY <2>4, AppendIsConcat DEF TypeOK
    <3> QED BY <2>2, <2>4, <3>1, <3>2
  <2>5. ASSUME NEW e \in Events, EmitHead(s, e) PROVE PipeInv'
    <3>1. Head1(e) \in Cell /\ Head1(e).ev = e
      BY CellTypes DEF Head1
    <3>2. /\ e \in emitted' /\ emitted \subseteq emitted'
          /\ log' = [log EXCEPT ![s] = Append(@, Head1(e))]
      BY <2>5 DEF EmitHead
    <3>3. \A t \in Service : writing'[t] # NoEvent => writing'[t] \in emitted'
      BY <2>5 DEF EmitHead, PipeInv, TypeOK
    <3> QED BY <2>1, <2>4, <3>1, <3>2, <3>3 DEF PipeInv
  <2>6. CASE EmitTail(s)
    <3>1. writing[s] \in Events /\ writing[s] \in emitted
      BY <2>6 DEF EmitTail, TypeOK, PipeInv
    <3>2. Tail1(writing[s]) \in Cell /\ Tail1(writing[s]).ev = writing[s]
      BY <3>1, CellTypes DEF Tail1
    <3>3. emitted' = emitted /\ log' = [log EXCEPT ![s] = Append(@, Tail1(writing[s]))]
      BY <2>6 DEF EmitTail
    <3>4. \A t \in Service : writing'[t] # NoEvent => writing'[t] \in emitted'
      BY <2>6 DEF EmitTail, PipeInv, TypeOK
    <3> QED BY <2>1, <2>4, <3>1, <3>2, <3>3, <3>4 DEF PipeInv
  <2>7. CASE HoneypotCrash(s)
    BY <2>1, <2>7 DEF HoneypotCrash, PipeInv, TypeOK
  <2>8. CASE Rotate(s)
    <3>1. \A t \in Service : \A i \in 1 .. Len(log'[t]) : log'[t][i].ev \in emitted'
      BY <2>8 DEF Rotate, PipeInv, TypeOK
    <3>2. \A t \in Service : writing'[t] # NoEvent => writing'[t] \in emitted'
      BY <2>8 DEF Rotate, PipeInv, TypeOK
    <3> QED BY <2>1, <3>1, <3>2 DEF PipeInv
  <2> QED BY <1>2, <2>3, <2>5, <2>6, <2>7, <2>8 DEF Honeypot
<1>3. UNCHANGED <<log, writing, emitted>> \/ \E s \in Service : Honeypot(s)
  BY Zenon DEF Next, Start, Loop, HalfCharacter, Seed, Missing, Open, ReadLine, Post, EndOfFile,
         SaveTruncate, SaveWrite, SaveFails, Crash, Analyzer, Handle, AnalyzerStart,
         AnalyzerStop, vars
<1> QED BY <1>1, <1>2, <1>3

\* ImplementsPipeline (a property of the run shipper): the capture chain implements
\* its abstract specification, the unified log being the events with a copy.
THEOREM Refinement == Spec => ImplementsPipeline
<1>1. Init => Pipeline!PipelineInit
  BY DEF Init, Pipeline!PipelineInit
<1>2. TypeOK /\ CoverInv /\ PipeInv /\ [Next]_vars
        => [Pipeline!PipelineNext]_(Pipeline!pipelineVars)
  <2> SUFFICES ASSUME TypeOK, CoverInv, PipeInv, [Next]_vars
               PROVE  [Pipeline!PipelineNext]_(Pipeline!pipelineVars)
    OBVIOUS
  <2> USE DEF honeypotVars, shipperVars, analyzerVars, Pipeline!pipelineVars
  <2> DEFINE unified == {e \in Events : copies[e] > 0}
  <2>1. CASE UNCHANGED <<emitted, copies, db>>
    BY <2>1
  <2>2. ASSUME NEW s \in Service, NEW e \in Events, EmitWhole(s, e) \/ EmitHead(s, e)
        PROVE  Pipeline!Emit(e)
    BY <2>2 DEF EmitWhole, EmitHead, Pipeline!Emit
  <2>3. CASE ReadLine
    <3>1. PICK end \in pos + 1 .. Len(log[cur]) :
            \/ \E e \in Events :
                 /\ end = pos + 2
                 /\ log[cur][pos + 1].ev = e
                 /\ copies' = [copies EXCEPT ![e] = @ + 1]
            \/ UNCHANGED copies
      BY <2>3, ReadLineCases
    <3>2. UNCHANGED <<emitted, db>>
      BY <2>3 DEF ReadLine
    <3>3. ASSUME NEW e \in Events, log[cur][pos + 1].ev = e,
                 copies' = [copies EXCEPT ![e] = @ + 1]
          PROVE  Pipeline!Unify(e)
      <4>1. pos + 1 \in 1 .. Len(log[cur]) /\ cur \in Service
        BY <3>1 DEF TypeOK
      <4>2. e \in emitted
        BY <3>3, <4>1 DEF PipeInv
      <4>3. unified' = unified \cup {e}
        BY <3>3 DEF TypeOK
      <4> QED BY <3>2, <4>2, <4>3 DEF Pipeline!Unify
    <3> QED BY <2>1, <3>1, <3>2, <3>3 DEF Pipeline!PipelineNext
  <2>4. ASSUME NEW e \in Events, Handle(e)
        PROVE  Pipeline!Store(e) \/ UNCHANGED <<emitted, copies, db>>
    BY <2>4 DEF Handle, Pipeline!Store, PipeInv
  <2>5. \/ UNCHANGED <<emitted, copies, db>>
        \/ \E s \in Service, e \in Events : EmitWhole(s, e) \/ EmitHead(s, e)
        \/ ReadLine
        \/ \E e \in Events : Handle(e)
    BY Zenon DEF Next, Honeypot, EmitTail, HoneypotCrash, Rotate, Start, Loop, HalfCharacter, Seed, Missing,
         Open, Post, EndOfFile, SaveTruncate, SaveWrite, SaveFails, Crash, Analyzer,
         AnalyzerStart, AnalyzerStop, vars
  <2> QED BY <2>1, <2>2, <2>3, <2>4, <2>5 DEF Pipeline!PipelineNext
<1> QED BY <1>1, <1>2, TypeCorrect, InitCoverInv, NextCoverInv, InitPipeInv, NextPipeInv,
           PTL DEF Spec, ImplementsPipeline, Pipeline!PipelineSpec

-----------------------------------------------------------------------------
(* How the lines of events lie in the files.                                 *)

\* A line that fits in one write is whole: its two cells are next to each other.
SmallLines(f) ==
  \A i \in 1 .. Len(f) :
    f[i].ev \notin Large =>
      /\ f[i].part = "head" => i < Len(f) /\ f[i + 1] = Tail1(f[i].ev)
      /\ f[i].part = "tail" => i > 1 /\ f[i - 1] = Head1(f[i].ev)

\* Cell i of the file of s begins the line of event e.
IsHead(s, i, e) == i \in 1 .. Len(log[s]) /\ log[s][i] = Head1(e)

\* An event begins in one place of one file.
OneHead ==
  \A s, t \in Service : \A i, j \in Nat : \A e \in Events :
    IsHead(s, i, e) /\ IsHead(t, j, e) => s = t /\ i = j

\* The files as the writers leave them; only emitted events are read.
FilesInv ==
  /\ \A s \in Service : SmallLines(log[s])
  /\ \A s \in Service : writing[s] \in Large \cup {NoEvent}
  /\ OneHead
  /\ dropped \subseteq emitted
  /\ \A e \in Events : copies[e] > 0 => e \in emitted

\* g continues f: a cell of f is still there.
Continues(f, g) ==
  /\ Len(f) <= Len(g)
  /\ \A i \in 1 .. Len(f) : g[i] = f[i]

\* What a step of the writers does to the file of t: it is emptied or continued, and
\* a line that begins in it is that of an event nobody had emitted.
FileStep(t) ==
  /\ SmallLines(log'[t])
  /\ log'[t] = <<>> \/ Continues(log[t], log'[t])
  /\ \A i \in 1 .. Len(log'[t]) : \A e \in Events :
       log'[t][i] = Head1(e) => IsHead(t, i, e) \/ e \notin emitted

\* A line written at once, at the end of a file.
LEMMA WholeCells ==
  ASSUME NEW f \in Seq(Cell), NEW e \in Events, NEW g, g = f \o <<Head1(e), Tail1(e)>>
  PROVE  /\ g \in Seq(Cell) /\ Len(g) = Len(f) + 2
         /\ Continues(f, g)
         /\ g[Len(f) + 1] = Head1(e) /\ g[Len(f) + 2] = Tail1(e)
<1>1. <<Head1(e), Tail1(e)>> \in Seq(Cell)
  BY CellTypes
<1> DEFINE l == <<Head1(e), Tail1(e)>>
<1>2. l \in Seq(Cell) /\ Len(l) = 2 /\ l[1] = Head1(e) /\ l[2] = Tail1(e)
  BY <1>1
<1> HIDE DEF l
<1>3. g = f \o l
  BY DEF l
<1>4. Len(g) = Len(f) + 2 /\ g \in Seq(Cell) /\ \A i \in 1 .. Len(f) : g[i] = f[i]
  BY <1>2, <1>3, ConcatProperties
<1>5. g[Len(f) + 1] = l[1] /\ g[Len(f) + 2] = l[2]
  BY <1>2, <1>3, ConcatProperties
<1> QED BY <1>2, <1>4, <1>5 DEF Continues

\* One cell, at the end of a file.
LEMMA OneCell ==
  ASSUME NEW f \in Seq(Cell), NEW c \in Cell, NEW g, g = Append(f, c)
  PROVE  /\ g \in Seq(Cell) /\ Len(g) = Len(f) + 1
         /\ Continues(f, g)
         /\ g[Len(f) + 1] = c
BY DEF Continues

\* Head and tail differ, and tell their event.
LEMMA CellParts ==
  ASSUME NEW e, NEW d
  PROVE  /\ Head1(e).ev = e /\ Head1(e).part = "head"
         /\ Tail1(e).ev = e /\ Tail1(e).part = "tail"
         /\ Head1(e) # Tail1(d)
         /\ Head1(e) = Head1(d) => e = d
<1>1. /\ Head1(e).ev = e /\ Head1(e).part = "head"
      /\ Tail1(e).ev = e /\ Tail1(e).part = "tail"
      /\ Head1(d).ev = d /\ Tail1(d).part = "tail"
  BY DEF Head1, Tail1
<1> QED BY <1>1

\* A cell that is a head is the head of its event.
LEMMA HeadOf ==
  ASSUME NEW c \in Cell
  PROVE  /\ c.part = "head" => c = Head1(c.ev)
         /\ c.part = "tail" => c = Tail1(c.ev)
BY DEF Cell, Head1, Tail1

\* A file whose small lines are whole stays so when a small line is put at its end.
LEMMA SmallLinesWhole ==
  ASSUME NEW f \in Seq(Cell), SmallLines(f), NEW e \in Events,
         NEW g \in Seq(Cell), Len(g) = Len(f) + 2, Continues(f, g),
         g[Len(f) + 1] = Head1(e), g[Len(f) + 2] = Tail1(e)
  PROVE  SmallLines(g)
<1> SUFFICES ASSUME NEW i \in 1 .. Len(g), g[i].ev \notin Large
             PROVE  /\ g[i].part = "head" => i < Len(g) /\ g[i + 1] = Tail1(g[i].ev)
                    /\ g[i].part = "tail" => i > 1 /\ g[i - 1] = Head1(g[i].ev)
  BY DEF SmallLines
<1>1. CASE i \in 1 .. Len(f)
  <2>1. g[i] = f[i]
    BY <1>1 DEF Continues
  <2>2. /\ f[i].part = "head" => i < Len(f) /\ f[i + 1] = Tail1(f[i].ev)
        /\ f[i].part = "tail" => i > 1 /\ f[i - 1] = Head1(f[i].ev)
    BY <1>1, <2>1 DEF SmallLines
  <2>3. i < Len(f) => g[i + 1] = f[i + 1]
    BY <1>1 DEF Continues
  <2>4. i > 1 => g[i - 1] = f[i - 1]
    BY <1>1 DEF Continues
  <2> QED BY <2>1, <2>2, <2>3, <2>4
<1>2. CASE i = Len(f) + 1
  BY <1>2, CellParts
<1>3. CASE i = Len(f) + 2
  BY <1>3, CellParts
<1> QED BY <1>1, <1>2, <1>3

\* So it does when a cell of a large line is put there.
LEMMA SmallLinesLarge ==
  ASSUME NEW f \in Seq(Cell), SmallLines(f),
         NEW g \in Seq(Cell), Len(g) = Len(f) + 1, Continues(f, g),
         g[Len(f) + 1].ev \in Large
  PROVE  SmallLines(g)
<1> SUFFICES ASSUME NEW i \in 1 .. Len(g), g[i].ev \notin Large
             PROVE  /\ g[i].part = "head" => i < Len(g) /\ g[i + 1] = Tail1(g[i].ev)
                    /\ g[i].part = "tail" => i > 1 /\ g[i - 1] = Head1(g[i].ev)
  BY DEF SmallLines
<1>1. i \in 1 .. Len(f)
  OBVIOUS
<1>2. g[i] = f[i]
  BY <1>1 DEF Continues
<1>3. /\ f[i].part = "head" => i < Len(f) /\ f[i + 1] = Tail1(f[i].ev)
      /\ f[i].part = "tail" => i > 1 /\ f[i - 1] = Head1(f[i].ev)
  BY <1>1, <1>2 DEF SmallLines
<1>4. i < Len(f) => g[i + 1] = f[i + 1]
  BY <1>1 DEF Continues
<1>5. i > 1 => g[i - 1] = f[i - 1]
  BY <1>1 DEF Continues
<1> QED BY <1>2, <1>3, <1>4, <1>5

\* What a step of the writers does to each file.
LEMMA WriterSteps ==
  ASSUME TypeOK, PipeInv, FilesInv, NEW s \in Service, Honeypot(s)
  PROVE  /\ \A t \in Service : FileStep(t)
         /\ \A t \in Service \ {s} : log'[t] = log[t]
         /\ \A i, j \in 1 .. Len(log'[s]) : \A d, e \in Events :
              /\ log'[s][i] = Head1(d) /\ d \notin emitted
              /\ log'[s][j] = Head1(e) /\ e \notin emitted
              => i = j
         /\ emitted \subseteq emitted'
         /\ \A t \in Service : writing'[t] \in Large \cup {NoEvent}
<1> DEFINE Same(t) == log'[t] = log[t]
           One == \A i, j \in 1 .. Len(log'[s]) : \A d, e \in Events :
                    /\ log'[s][i] = Head1(d) /\ d \notin emitted
                    /\ log'[s][j] = Head1(e) /\ e \notin emitted
                    => i = j
           Writing == \A t \in Service : writing'[t] \in Large \cup {NoEvent}
<1>0. \A t \in Service : log[t] \in Seq(Cell) /\ SmallLines(log[t])
  BY DEF TypeOK, FilesInv
<1>same. ASSUME NEW t \in Service, Same(t) PROVE FileStep(t)
  BY <1>0, <1>same DEF FileStep, IsHead, Continues
<1>end. ASSUME NEW g \in Seq(Cell), g = log'[s], SmallLines(g), Continues(log[s], g),
               \A i \in Len(log[s]) + 1 .. Len(g) : \A e \in Events :
                 g[i] = Head1(e) => i = Len(log[s]) + 1 /\ e \notin emitted,
               \A i \in 1 .. Len(log[s]) : log[s][i].ev \in emitted
        PROVE  FileStep(s) /\ One
  <2>1. ASSUME NEW i \in 1 .. Len(g), NEW e \in Events, g[i] = Head1(e)
        PROVE  /\ IsHead(s, i, e) \/ e \notin emitted
               /\ e \notin emitted => i = Len(log[s]) + 1
    <3>1. CASE i \in 1 .. Len(log[s])
      <4>1. g[i] = log[s][i]
        BY <1>end, <3>1 DEF Continues
      <4>2. log[s][i].ev = e
        BY <2>1, <4>1, CellParts
      <4>3. e \in emitted
        BY <1>end, <3>1, <4>2, Zenon
      <4>4. IsHead(s, i, e)
        BY <2>1, <3>1, <4>1, Zenon DEF IsHead
      <4> QED BY <4>3, <4>4
    <3>2. CASE i \in Len(log[s]) + 1 .. Len(g)
      BY <1>end, <2>1, <3>2
    <3>3. Len(log[s]) \in Nat /\ Len(g) \in Nat
      BY <1>0, <1>end
    <3> QED BY <3>1, <3>2, <3>3
  <2> QED BY <1>end, <2>1 DEF FileStep
<1>0a. \A i \in 1 .. Len(log[s]) : log[s][i].ev \in emitted
  BY DEF PipeInv
<1> DEFINE Goal == /\ \A t \in Service : FileStep(t)
                   /\ \A t \in Service \ {s} : Same(t)
                   /\ One
                   /\ emitted \subseteq emitted'
                   /\ Writing
<1>others. ASSUME FileStep(s), One, \A t \in Service \ {s} : Same(t),
                  emitted \subseteq emitted', Writing
           PROVE  Goal
  BY <1>others, <1>same
<1>1. ASSUME NEW e \in Events, EmitWhole(s, e) PROVE Goal
  <2> DEFINE g == log'[s]
  <2>1. /\ g = log[s] \o <<Head1(e), Tail1(e)>>
        /\ \A t \in Service \ {s} : Same(t)
        /\ emitted' = emitted \cup {e} /\ e \notin emitted
        /\ writing' = writing
    BY <1>1 DEF EmitWhole, TypeOK
  <2>2. /\ g \in Seq(Cell) /\ Len(g) = Len(log[s]) + 2
        /\ Continues(log[s], g)
        /\ g[Len(log[s]) + 1] = Head1(e) /\ g[Len(log[s]) + 2] = Tail1(e)
    BY <2>1, <1>0, WholeCells
  <2>3. SmallLines(g)
    BY <2>2, <1>0, SmallLinesWhole
  <2>4. ASSUME NEW i \in Len(log[s]) + 1 .. Len(g), NEW d \in Events, g[i] = Head1(d)
        PROVE  i = Len(log[s]) + 1 /\ d \notin emitted
    <3>1. Len(log[s]) \in Nat
      BY <1>0
    <3>2. i = Len(log[s]) + 1 \/ i = Len(log[s]) + 2
      BY <2>2, <3>1
    <3>3. i # Len(log[s]) + 2
      BY <2>2, <2>4, CellParts
    <3> QED BY <2>1, <2>2, <2>4, <3>2, <3>3, CellParts
  <2>5. FileStep(s) /\ One
    <3> HIDE DEF g
    <3>1. g = log'[s]
      BY DEF g
    <3> QED BY <1>end, <1>0a, <2>2, <2>3, <2>4, <3>1
  <2> QED BY <2>1, <2>5, <1>others DEF FilesInv
<1>2. ASSUME NEW c \in Cell, c.ev \in Large, log' = [log EXCEPT ![s] = Append(@, c)],
             \A d \in Events : c = Head1(d) => d \notin emitted,
             emitted \subseteq emitted', Writing
      PROVE  Goal
  <2> DEFINE g == log'[s]
  <2>1. /\ g = Append(log[s], c)
        /\ \A t \in Service \ {s} : Same(t)
    BY <1>2 DEF TypeOK
  <2>2. /\ g \in Seq(Cell) /\ Len(g) = Len(log[s]) + 1
        /\ Continues(log[s], g)
        /\ g[Len(log[s]) + 1] = c
    BY <2>1, <1>0, OneCell
  <2>3. SmallLines(g)
    BY <1>2, <2>2, <1>0, SmallLinesLarge
  <2>4. ASSUME NEW i \in Len(log[s]) + 1 .. Len(g), NEW d \in Events, g[i] = Head1(d)
        PROVE  i = Len(log[s]) + 1 /\ d \notin emitted
    <3>1. Len(log[s]) \in Nat
      BY <1>0
    <3>2. i = Len(log[s]) + 1
      BY <2>2, <3>1
    <3> QED BY <1>2, <2>2, <2>4, <3>2
  <2>5. FileStep(s) /\ One
    <3> HIDE DEF g
    <3>1. g = log'[s]
      BY DEF g
    <3> QED BY <1>end, <1>0a, <2>2, <2>3, <2>4, <3>1
  <2> QED BY <1>2, <2>1, <2>5, <1>others
<1>3. ASSUME NEW e \in Events, EmitHead(s, e) PROVE Goal
  <2>1. /\ e \in Large /\ e \notin emitted
        /\ log' = [log EXCEPT ![s] = Append(@, Head1(e))]
        /\ writing' = [writing EXCEPT ![s] = e]
        /\ emitted' = emitted \cup {e}
    BY <1>3 DEF EmitHead
  <2>2. Head1(e) \in Cell /\ Head1(e).ev = e /\ \A d \in Events : Head1(e) = Head1(d) => d = e
    BY CellTypes, CellParts
  <2>3. Writing
    BY <2>1 DEF FilesInv, TypeOK
  <2> QED BY <1>2, <2>1, <2>2, <2>3
<1>4. CASE EmitTail(s)
  <2>1. /\ writing[s] \in Large /\ writing[s] \in Events
        /\ log' = [log EXCEPT ![s] = Append(@, Tail1(writing[s]))]
        /\ writing' = [writing EXCEPT ![s] = NoEvent]
        /\ emitted' = emitted
    BY <1>4 DEF EmitTail, FilesInv, TypeOK
  <2>2. /\ Tail1(writing[s]) \in Cell /\ Tail1(writing[s]).ev = writing[s]
        /\ \A d \in Events : Tail1(writing[s]) # Head1(d)
    BY <2>1, CellTypes, CellParts
  <2>3. Writing
    BY <2>1 DEF FilesInv, TypeOK
  <2> QED BY <1>2, <2>1, <2>2, <2>3
<1>5. ASSUME FileStep(s), One, \A t \in Service \ {s} : Same(t), emitted' = emitted, Writing
      PROVE  Goal
  BY <1>5, <1>others
<1>6. CASE HoneypotCrash(s)
  <2>1. log' = log /\ emitted' = emitted /\ writing' = [writing EXCEPT ![s] = NoEvent]
    BY <1>6 DEF HoneypotCrash
  <2>2. Writing
    BY <2>1 DEF FilesInv, TypeOK
  <2>3. One
    BY <2>1, <1>0a, CellParts
  <2> QED BY <2>1, <2>2, <2>3, <1>same, <1>5
<1>7. CASE Rotate(s)
  <2>1. /\ log' = [log EXCEPT ![s] = <<>>] /\ emitted' = emitted
        /\ writing' \in {writing, [writing EXCEPT ![s] = NoEvent]}
    BY <1>7 DEF Rotate
  <2>2. log'[s] = <<>> /\ \A t \in Service \ {s} : Same(t)
    BY <2>1 DEF TypeOK
  <2>3. Writing
    BY <2>1 DEF FilesInv, TypeOK
  <2>4. FileStep(s) /\ One
    BY <2>2 DEF FileStep, SmallLines
  <2> QED BY <2>1, <2>2, <2>3, <2>4, <1>5
<1> QED
  <2>1. Goal
    BY <1>1, <1>3, <1>4, <1>6, <1>7 DEF Honeypot
  <2> QED BY <2>1

\* A step is one of a writer's, or leaves the files and the writers as they are.
LEMMA FileSteps ==
  [Next]_vars => \/ \E s \in Service : Honeypot(s) /\ UNCHANGED <<shipperVars, analyzerVars>>
                 \/ UNCHANGED <<honeypotVars, rotations>>
BY Zenon DEF Next, Honeypot, EmitWhole, EmitHead, EmitTail, HoneypotCrash, Rotate, Start,
         Loop, HalfCharacter, Seed, Missing, Open, ReadLine, Post, EndOfFile, SaveTruncate, SaveWrite,
         SaveFails, Crash, Analyzer, Handle, AnalyzerStart, AnalyzerStop, honeypotVars,
         shipperVars, analyzerVars, vars

\* What ReadLine reads: the cells of the line, and what becomes of its event.
LEMMA ReadLineCells ==
  ASSUME TypeOK, ReadLine
  PROVE  /\ pc = "read"
         /\ UNCHANGED <<cur, offsets, disk, boots, seeded, log, writing, emitted, rotations>>
         /\ \E end \in pos + 1 .. Len(log[cur]) :
              /\ IsLine(log[cur], pos, end)
              /\ pos' = end
              /\ \/ \E e \in Events :
                      /\ ParsesAs(log[cur], pos, end, e)
                      /\ copies' = [copies EXCEPT ![e] = @ + 1]
                      /\ pc' = "post"
                      /\ dropped' = dropped
                 \/ /\ \A e \in Events : ~ParsesAs(log[cur], pos, end, e)
                    /\ dropped' = dropped \cup {log[cur][i].ev : i \in pos + 1 .. end}
                    /\ pc' = pc /\ copies' = copies
<1>1. pc = "read" /\ UNCHANGED <<cur, offsets, disk, boots, seeded, honeypotVars, rotations>>
  BY Zenon DEF ReadLine
<1>2. UNCHANGED <<log, writing, emitted>>
  BY <1>1 DEF honeypotVars
<1>3. \E end \in pos + 1 .. Len(log[cur]) :
         /\ IsLine(log[cur], pos, end)
         /\ pos' = end
         /\ \/ \E e \in Events :
                 /\ ParsesAs(log[cur], pos, end, e)
                 /\ copies' = [copies EXCEPT ![e] = @ + 1]
                 /\ pc' = "post"
                 /\ UNCHANGED dropped
            \/ /\ \A e \in Events : ~ParsesAs(log[cur], pos, end, e)
               /\ dropped' = dropped \cup {log[cur][i].ev : i \in pos + 1 .. end}
               /\ UNCHANGED <<pc, line, copies>>
  BY Zenon DEF ReadLine
<1>4. (UNCHANGED dropped <=> dropped' = dropped)
      /\ (UNCHANGED <<pc, line, copies>> => pc' = pc /\ copies' = copies)
  OBVIOUS
<1> HIDE DEF IsLine, ParsesAs
<1> QED BY <1>1, <1>2, <1>3, <1>4, Zenon

\* Only ReadLine touches the unified log and the dropped lines, only Start the count
\* of starts.
LEMMA CopySteps ==
  [Next]_vars => \/ UNCHANGED <<copies, dropped, boots>>
                 \/ ReadLine
                 \/ Start /\ UNCHANGED <<copies, dropped>>
BY ShipperSteps DEF shipperVars, Start, Seed, Missing, Open, Post, EndOfFile, SaveTruncate,
                    SaveWrite, SaveFails, Crash

\* FilesInv holds initially: the files are empty.
LEMMA InitFilesInv == Init => FilesInv
BY ShipperAssumption DEF Init, FilesInv, SmallLines, OneHead, IsHead

\* Every step keeps FilesInv: a writer begins the line of a new event, at the end of
\* its own file; the shipper reads what is there.
LEMMA NextFilesInv == TypeOK /\ PipeInv /\ FilesInv /\ [Next]_vars => FilesInv'
<1> SUFFICES ASSUME TypeOK, PipeInv, FilesInv, [Next]_vars PROVE FilesInv'
  OBVIOUS
<1>1. CASE \E s \in Service : Honeypot(s) /\ UNCHANGED <<shipperVars, analyzerVars>>
  <2> PICK s \in Service : Honeypot(s) /\ UNCHANGED <<shipperVars, analyzerVars>>
    BY <1>1
  <2>1. /\ \A t \in Service : FileStep(t)
        /\ \A t \in Service \ {s} : log'[t] = log[t]
        /\ \A i, j \in 1 .. Len(log'[s]) : \A d, e \in Events :
             /\ log'[s][i] = Head1(d) /\ d \notin emitted
             /\ log'[s][j] = Head1(e) /\ e \notin emitted
             => i = j
        /\ emitted \subseteq emitted'
        /\ \A t \in Service : writing'[t] \in Large \cup {NoEvent}
    BY WriterSteps, Zenon
  <2>2. dropped' = dropped /\ copies' = copies
    BY DEF shipperVars
  <2>3. \A t \in Service : SmallLines(log'[t])
    BY <2>1 DEF FileStep
  <2>4. ASSUME NEW t \in Service, NEW i \in Nat, NEW e \in Events, IsHead(t, i, e)'
        PROVE  \/ IsHead(t, i, e) /\ e \in emitted
               \/ t = s /\ e \notin emitted /\ i \in 1 .. Len(log'[s]) /\ log'[s][i] = Head1(e)
    <3>1. i \in 1 .. Len(log'[t]) /\ log'[t][i] = Head1(e)
      BY <2>4 DEF IsHead
    <3>2. IsHead(t, i, e) \/ e \notin emitted
      BY <2>1, <3>1 DEF FileStep
    <3>3. ASSUME IsHead(t, i, e) PROVE e \in emitted
      BY <3>3, CellParts DEF IsHead, PipeInv
    <3>4. ASSUME t # s PROVE IsHead(t, i, e)
      BY <3>4, <2>1, <3>1 DEF IsHead
    <3> QED BY <3>1, <3>2, <3>3, <3>4
  <2>5. OneHead'
    <3> SUFFICES ASSUME NEW u \in Service, NEW t \in Service, NEW i \in Nat, NEW j \in Nat,
                        NEW e \in Events, IsHead(u, i, e)', IsHead(t, j, e)'
                 PROVE  u = t /\ i = j
      BY DEF OneHead
    <3>1. CASE e \in emitted
      <4>1. IsHead(u, i, e) /\ IsHead(t, j, e)
        BY <3>1, <2>4
      <4> QED BY <4>1 DEF FilesInv, OneHead
    <3>2. CASE e \notin emitted
      <4>1. /\ u = s /\ i \in 1 .. Len(log'[s]) /\ log'[s][i] = Head1(e)
            /\ t = s /\ j \in 1 .. Len(log'[s]) /\ log'[s][j] = Head1(e)
        BY <3>2, <2>4
      <4> QED BY <4>1, <2>1, <3>2
    <3> QED BY <3>1, <3>2
  <2>6. dropped' \subseteq emitted' /\ \A e \in Events : copies'[e] > 0 => e \in emitted'
    BY <2>1, <2>2 DEF FilesInv
  <2> QED BY <2>1, <2>3, <2>5, <2>6 DEF FilesInv
<1>2. CASE UNCHANGED <<honeypotVars, rotations>>
  <2>1. log' = log /\ writing' = writing /\ emitted' = emitted
    BY <1>2 DEF honeypotVars
  <2>2. /\ \A s \in Service : SmallLines(log'[s])
        /\ \A s \in Service : writing'[s] \in Large \cup {NoEvent}
    BY <2>1 DEF FilesInv
  <2>3. OneHead'
    BY <2>1 DEF FilesInv, OneHead, IsHead
  <2>4. dropped' \subseteq emitted /\ \A e \in Events : copies'[e] > 0 => e \in emitted
    <3>1. CASE copies' = copies /\ dropped' = dropped
      BY <3>1 DEF FilesInv
    <3>2. CASE ReadLine
      <4>1. PICK end \in pos + 1 .. Len(log[cur]) :
              \/ \E e \in Events : /\ ParsesAs(log[cur], pos, end, e)
                                   /\ copies' = [copies EXCEPT ![e] = @ + 1]
                                   /\ dropped' = dropped
              \/ /\ dropped' = dropped \cup {log[cur][i].ev : i \in pos + 1 .. end}
                 /\ copies' = copies
        BY <3>2, ReadLineCells, Zenon
      <4>2. \A i \in pos + 1 .. end : log[cur][i].ev \in emitted
        BY <4>1 DEF PipeInv, TypeOK
      <4>3. ASSUME NEW e \in Events, ParsesAs(log[cur], pos, end, e),
                   copies' = [copies EXCEPT ![e] = @ + 1], dropped' = dropped
            PROVE  dropped' \subseteq emitted /\ \A x \in Events : copies'[x] > 0 => x \in emitted
        <5>1. log[cur][pos + 1].ev = e /\ pos + 1 \in pos + 1 .. end
          BY <4>3, <4>1, CellParts DEF ParsesAs, TypeOK
        <5> QED BY <4>2, <4>3, <5>1 DEF FilesInv, TypeOK
      <4> QED BY <4>1, <4>2, <4>3 DEF FilesInv
    <3> QED BY <3>1, <3>2, CopySteps
  <2> QED BY <2>1, <2>2, <2>3, <2>4 DEF FilesInv
<1> QED BY <1>1, <1>2, FileSteps

-----------------------------------------------------------------------------
(* One copy per start.                                                       *)

\* How far into the file of s this pass has read: the position in the open file, the
\* offset for the others.
Frontier(s) == IF pc \in {"read", "post"} /\ cur = s THEN pos ELSE offsets[s]

\* Cell i of the file of s may still be read: it is ahead of the frontier, or the file
\* has shrunk and will be read from 0.
Unread(s, i) == i > Frontier(s) \/ Len(log[s]) < Frontier(s)

\* The inductive strengthening of OneCopyPerStart: an event whose line may still be
\* read was not copied as often as the shipper was started.
CopyInv ==
  /\ \A e \in Events : copies[e] <= boots
  /\ pc # "down" =>
       /\ boots > 0
       /\ \A s \in Service : \A i \in Nat : \A e \in Events :
            IsHead(s, i, e) /\ Unread(s, i) => copies[e] < boots

\* CopyInv holds initially: nothing is copied.
LEMMA InitCopyInv == Init => CopyInv
BY DEF Init, CopyInv

\* The shipper's steps other than ReadLine make no line unread again.
LEMMA FrontierSteps ==
  ASSUME TypeOK, log' = log, pc # "down", pc' # "down",
         Seed \/ Missing \/ Open \/ Post \/ EndOfFile \/ SaveTruncate \/ SaveWrite \/ SaveFails,
         NEW s \in Service, NEW i \in Nat, i \in 1 .. Len(log[s]), Unread(s, i)'
  PROVE  Unread(s, i)
<1> DEFINE F == Frontier(s)
           G == Frontier(s)'
<1>1. F \in Nat /\ Len(log[s]) \in Nat
  BY DEF Frontier, TypeOK
<1>2. i > G \/ Len(log[s]) < G
  BY DEF Unread
<1>3. G = F \/ G = Len(log[s]) \/ (Len(log[s]) < F /\ G = 0)
  <2>1. CASE Seed
    BY <2>1 DEF Seed, Frontier, TypeOK
  <2>2. CASE Missing
    BY <2>2 DEF Missing, NextService, Frontier, TypeOK
  <2>3. CASE Open
    BY <2>3 DEF Open, Frontier, TypeOK
  <2>4. CASE Post
    BY <2>4 DEF Post, Frontier, TypeOK
  <2>5. CASE EndOfFile
    BY <2>5 DEF EndOfFile, NextService, Frontier, TypeOK
  <2>6. CASE SaveTruncate \/ SaveWrite \/ SaveFails
    BY <2>6 DEF SaveTruncate, SaveWrite, SaveFails, Frontier, TypeOK
  <2> QED BY <2>1, <2>2, <2>3, <2>4, <2>5, <2>6
<1> HIDE DEF F, G
<1>4. i > F \/ Len(log[s]) < F
  BY <1>1, <1>2, <1>3
<1> QED BY <1>4 DEF Unread, F

\* Every step keeps CopyInv: reading a line puts it behind the frontier, and an event
\* has one line; a start allows one more copy of each; a new line is that of an event
\* that has no copy.
LEMMA NextCopyInv ==
  TypeOK /\ TypeOK' /\ PipeInv /\ FilesInv /\ CopyInv /\ [Next]_vars => CopyInv'
<1> SUFFICES ASSUME TypeOK, TypeOK', PipeInv, FilesInv, CopyInv, [Next]_vars PROVE CopyInv'
  OBVIOUS
<1>0. ASSUME copies' = copies, boots' = boots, pc' # "down" => pc # "down",
             \A s \in Service : \A i \in Nat : \A e \in Events :
               pc' # "down" /\ IsHead(s, i, e)' /\ Unread(s, i)' =>
                 (IsHead(s, i, e) /\ Unread(s, i)) \/ copies[e] = 0
      PROVE  CopyInv'
  BY <1>0 DEF CopyInv, TypeOK
<1>1. CASE \E s \in Service : Honeypot(s) /\ UNCHANGED <<shipperVars, analyzerVars>>
  <2> PICK s \in Service : Honeypot(s) /\ UNCHANGED <<shipperVars, analyzerVars>>
    BY <1>1
  <2>1. UNCHANGED <<copies, boots, pc, cur, pos, offsets>>
    BY DEF shipperVars
  <2>2. ASSUME NEW t \in Service, NEW i \in Nat, NEW e \in Events,
               IsHead(t, i, e)', Unread(t, i)'
        PROVE  (IsHead(t, i, e) /\ Unread(t, i)) \/ copies[e] = 0
    <3>1. FileStep(t)
      BY WriterSteps, Zenon
    <3>2. i \in 1 .. Len(log'[t]) /\ log'[t][i] = Head1(e)
      BY <2>2 DEF IsHead
    <3>3. IsHead(t, i, e) \/ e \notin emitted
      BY <3>1, <3>2 DEF FileStep
    <3>4. Len(log[t]) <= Len(log'[t])
      BY <3>1, <3>2 DEF FileStep, Continues
    <3>5. Unread(t, i)
      <4>1. (Frontier(t))' = Frontier(t)
        BY <2>1 DEF Frontier
      <4>2. Frontier(t) \in Nat /\ Len(log[t]) \in Nat /\ Len(log'[t]) \in Nat
        <5>1. offsets[t] \in Nat /\ pos \in Nat
          BY DEF TypeOK
        <5>2. log[t] \in Seq(Cell) /\ log'[t] \in Seq(Cell)
          BY DEF TypeOK
        <5> QED BY <5>1, <5>2 DEF Frontier
      <4>3. i > Frontier(t) \/ Len(log'[t]) < Frontier(t)
        BY <2>2, <4>1 DEF Unread
      <4> QED BY <3>4, <4>2, <4>3 DEF Unread
    <3>6. ASSUME e \notin emitted PROVE copies[e] = 0
      <4>1. copies[e] \in Nat /\ ~(copies[e] > 0)
        BY <3>6 DEF FilesInv, TypeOK
      <4> QED BY <4>1
    <3> QED BY <3>3, <3>5, <3>6
  <2> QED BY <1>0, <2>1, <2>2
<1>2. CASE UNCHANGED <<honeypotVars, rotations>>
  <2>1. log' = log
    BY <1>2 DEF honeypotVars
  <2>2. CASE UNCHANGED shipperVars
    BY <2>1, <2>2, <1>0 DEF IsHead, Unread, Frontier, shipperVars
  <2>3. CASE Start
    <3>1. copies' = copies /\ boots' = boots + 1
      BY <2>3 DEF Start
    <3>2. boots' > 0 /\ \A e \in Events : copies'[e] < boots'
      BY <3>1 DEF CopyInv, TypeOK
    <3>3. \A e \in Events : copies'[e] <= boots'
      BY <3>2 DEF TypeOK
    <3> QED BY <3>2, <3>3 DEF CopyInv
  <2>4. CASE Seed \/ Missing \/ Open \/ Post \/ EndOfFile \/ SaveTruncate \/ SaveWrite \/ SaveFails
    <3>1. copies' = copies /\ boots' = boots /\ pc # "down" /\ pc' # "down"
      BY <2>4 DEF Seed, Missing, NextService, Open, Post, EndOfFile, SaveTruncate, SaveWrite,
                  SaveFails
    <3>2. ASSUME NEW s \in Service, NEW i \in Nat, NEW e \in Events,
                 IsHead(s, i, e)', Unread(s, i)'
          PROVE  IsHead(s, i, e) /\ Unread(s, i)
      <4>1. IsHead(s, i, e)
        BY <2>1, <3>2 DEF IsHead
      <4> QED BY <4>1, <3>1, <3>2, <2>1, <2>4, FrontierSteps DEF IsHead
    <3> QED BY <1>0, <3>1, <3>2
  <2>5. CASE ReadLine
    <3>1. /\ pc = "read" /\ cur' = cur /\ offsets' = offsets /\ boots' = boots
          /\ pc' \in {"read", "post"}
      BY <2>5, ReadLineCells
    <3>2. PICK end \in pos + 1 .. Len(log[cur]) :
            /\ pos' = end
            /\ \/ \E e \in Events :
                    /\ ParsesAs(log[cur], pos, end, e)
                    /\ copies' = [copies EXCEPT ![e] = @ + 1]
               \/ copies' = copies
      BY <2>5, ReadLineCells
    <3>3. ASSUME NEW s \in Service, NEW i \in Nat, i \in 1 .. Len(log[s]), Unread(s, i)'
          PROVE  Unread(s, i) /\ (s = cur => i > end)
      <4>1. CASE s = cur
        <5>1. i > end \/ Len(log[s]) < end
          BY <2>1, <3>1, <3>2, <3>3, <4>1 DEF Unread, Frontier
        <5>2. Frontier(s) = pos /\ pos \in Nat /\ Len(log[s]) \in Nat
          BY <3>1, <4>1 DEF Frontier, TypeOK
        <5> QED BY <3>2, <4>1, <5>1, <5>2 DEF Unread
      <4>2. CASE s # cur
        BY <2>1, <3>1, <3>3, <4>2 DEF Unread, Frontier
      <4> QED BY <4>1, <4>2
    <3>4. CASE copies' = copies
      <4>1. ASSUME NEW s \in Service, NEW i \in Nat, NEW e \in Events,
                   IsHead(s, i, e)', Unread(s, i)'
            PROVE  IsHead(s, i, e) /\ Unread(s, i)
        BY <2>1, <3>3, <4>1 DEF IsHead
      <4> QED BY <1>0, <3>1, <3>4, <4>1
    <3>5. ASSUME NEW e \in Events, ParsesAs(log[cur], pos, end, e),
                 copies' = [copies EXCEPT ![e] = @ + 1]
          PROVE  CopyInv'
      <4>1. pos + 1 \in Nat /\ IsHead(cur, pos + 1, e) /\ cur \in Service
        BY <3>2, <3>5 DEF ParsesAs, IsHead, TypeOK
      <4>2. Unread(cur, pos + 1)
        BY <3>1 DEF Unread, Frontier, TypeOK
      <4>3. boots > 0 /\ copies[e] < boots
        BY <3>1, <4>1, <4>2 DEF CopyInv
      <4>4. \A d \in Events : copies'[d] <= boots
        <5>1. copies \in [Events -> Nat] /\ boots \in Nat
          BY DEF TypeOK
        <5>2. \A d \in Events : copies[d] <= boots
          BY DEF CopyInv
        <5>3. copies'[e] = copies[e] + 1 /\ \A d \in Events \ {e} : copies'[d] = copies[d]
          BY <3>5, <5>1
        <5>4. copies'[e] <= boots
          BY <4>3, <5>1, <5>3
        <5> QED BY <5>2, <5>3, <5>4
      <4>5. ASSUME NEW s \in Service, NEW i \in Nat, NEW d \in Events,
                   IsHead(s, i, d)', Unread(s, i)'
            PROVE  copies'[d] < boots
        <5>1. IsHead(s, i, d) /\ i \in 1 .. Len(log[s])
          BY <2>1, <4>5 DEF IsHead
        <5>2. Unread(s, i) /\ (s = cur => i > end)
          BY <3>3, <4>5, <5>1
        <5>3. d # e
          <6>1. ASSUME d = e PROVE s = cur /\ i = pos + 1
            BY <6>1, <4>1, <5>1 DEF FilesInv, OneHead
          <6> QED BY <6>1, <5>2, <3>2 DEF TypeOK
        <5>4. copies[d] < boots
          BY <3>1, <5>1, <5>2 DEF CopyInv
        <5> QED BY <3>5, <5>3, <5>4 DEF TypeOK
      <4> QED BY <3>1, <4>3, <4>4, <4>5 DEF CopyInv
    <3> QED BY <3>2, <3>4, <3>5
  <2>6. CASE Crash
    <3>1. copies' = copies /\ boots' = boots /\ pc' = "down"
      BY <2>6 DEF Crash
    <3> QED BY <3>1 DEF CopyInv
  <2> QED BY <2>2, <2>3, <2>4, <2>5, <2>6, ShipperSteps
<1> QED BY <1>1, <1>2, FileSteps

\* OneCopyPerStart (a property of the run shipper): whatever the crashes, rotations,
\* torn lines and outages, the unified log holds an event at most once per start.
THEOREM OneCopy == Spec => []OneCopyPerStart
<1>1. CopyInv => OneCopyPerStart
  BY DEF CopyInv, OneCopyPerStart
<1> QED BY <1>1, TypeCorrect, InitCoverInv, NextCoverInv, InitPipeInv, NextPipeInv,
           InitFilesInv, NextFilesInv, InitCopyInv, NextCopyInv, PTL DEF Spec

-----------------------------------------------------------------------------
(* Only torn lines are dropped.                                              *)

\* Position n of file f is not inside a small line: a small line is read from its
\* beginning or not at all.
Ends(f, n) == n <= Len(f) /\ (n > 0 => f[n].part = "tail" \/ f[n].ev \in Large)

\* Without rotation, the positions of the reader and of the offsets are such places.
EndsInv ==
  rotations = 0 =>
    /\ \A s \in Service :
         /\ Ends(log[s], offsets[s])
         /\ disk.state = "whole" => Ends(log[s], disk.at[s])
    /\ pc \in {"read", "post"} => Ends(log[cur], pos)

\* EndsInv holds initially: every position is 0.
LEMMA InitEndsInv == Init => EndsInv
BY ShipperAssumption DEF Init, EndsInv, Ends, Zeros

\* The beginning of a file is such a place.
LEMMA EndsAtZero ==
  ASSUME NEW f \in Seq(Cell)
  PROVE  Ends(f, 0)
BY DEF Ends

\* Its end is another: a small line is written at once.
LEMMA EndsAtEnd ==
  ASSUME NEW f \in Seq(Cell), SmallLines(f)
  PROVE  Ends(f, Len(f))
<1>1. CASE Len(f) > 0
  <2>1. Len(f) \in 1 .. Len(f)
    BY <1>1
  <2>2. f[Len(f)].part \in {"head", "tail"}
    BY <2>1, CellOfLog
  <2>3. ~(Len(f) < Len(f))
    OBVIOUS
  <2> QED BY <2>1, <2>2, <2>3 DEF Ends, SmallLines
<1>2. CASE Len(f) = 0
  BY <1>2 DEF Ends
<1> QED BY <1>1, <1>2

\* Without rotation, a step of the writers leaves them in place.
LEMMA EndsStay ==
  ASSUME TypeOK, [Next]_vars, rotations' = 0, NEW s \in Service, NEW n \in Nat,
         Ends(log[s], n)
  PROVE  Ends(log'[s], n)
<1>1. Len(log[s]) <= Len(log'[s]) /\ \A i \in 1 .. Len(log[s]) : log'[s][i] = log[s][i]
  BY LogsGrow
<1>2. n <= Len(log[s]) /\ Len(log[s]) \in Nat
  BY DEF Ends, TypeOK
<1>3. Len(log'[s]) \in Nat \/ n <= Len(log'[s])
  BY <1>1, <1>2
<1>4. n > 0 => n \in 1 .. Len(log[s])
  BY <1>2
<1>5. n > 0 => log'[s][n] = log[s][n]
  BY <1>1, <1>4
<1> QED BY <1>1, <1>2, <1>5 DEF Ends

\* So does the reader: readline stops at the end of a line or of the file.
LEMMA EndsRead ==
  ASSUME NEW f \in Seq(Cell), SmallLines(f), NEW p \in Nat, NEW end \in p + 1 .. Len(f),
         IsLine(f, p, end)
  PROVE  Ends(f, end)
<1>1. CASE f[end].part = "tail"
  BY <1>1 DEF Ends
<1>2. CASE end = Len(f)
  BY <1>2, EndsAtEnd
<1> QED BY <1>1, <1>2 DEF IsLine

\* Every step keeps EndsInv.
LEMMA NextEndsInv ==
  TypeOK /\ TypeOK' /\ FilesInv /\ EndsInv /\ [Next]_vars => EndsInv'
<1> SUFFICES ASSUME TypeOK, TypeOK', FilesInv, EndsInv, [Next]_vars, rotations' = 0
             PROVE  /\ \A s \in Service :
                         /\ Ends(log'[s], offsets'[s])
                         /\ disk'.state = "whole" => Ends(log'[s], disk'.at[s])
                    /\ pc' \in {"read", "post"} => Ends(log'[cur'], pos')
  BY DEF EndsInv
<1> DEFINE At(s, n) == Ends(log[s], n)
           NewAt(s, n) == Ends(log'[s], n)
<1>0. /\ rotations = 0
      /\ \A s \in Service : At(s, offsets[s])
      /\ disk.state = "whole" => \A s \in Service : At(s, disk.at[s])
      /\ pc \in {"read", "post"} => At(cur, pos)
  BY LogsGrow DEF EndsInv
<1>old. \A s \in Service : \A n \in Nat : At(s, n) => NewAt(s, n)
  BY EndsStay
<1>zero. \A s \in Service : NewAt(s, 0)
  BY EndsAtZero DEF TypeOK
<1>types. /\ offsets \in [Service -> Nat] /\ pos \in Nat /\ cur \in Service
          /\ disk.at \in [Service -> Nat]
          /\ \A s \in Service : log[s] \in Seq(Cell)
  BY DEF TypeOK, DiskFile
<1> HIDE DEF At, NewAt
<1>3. ASSUME NEW s \in Service
      PROVE  NewAt(s, offsets'[s])
  <2>1. \A n \in Nat : At(s, n) /\ offsets'[s] = n => NewAt(s, offsets'[s])
    BY <1>old
  <2>2. At(s, offsets[s]) /\ offsets[s] \in Nat
    BY <1>0, <1>types
  <2>3. CASE UNCHANGED offsets
    BY <2>1, <2>2, <2>3
  <2>4. CASE Start
    BY <2>1, <2>4, <1>0, <1>zero, <1>types DEF Start, Zeros
  <2>5. CASE Seed
    <3>1. CASE s = cur
      <4>1. offsets'[s] = Len(log[s]) /\ log'[s] = log[s]
        BY <2>5, <3>1, <1>types DEF Seed, honeypotVars
      <4>2. Ends(log[s], Len(log[s]))
        BY <1>types, EndsAtEnd DEF FilesInv
      <4> QED BY <4>1, <4>2 DEF NewAt
    <3>2. CASE s # cur
      <4>1. offsets'[s] = offsets[s]
        BY <2>5, <3>2, <1>types DEF Seed
      <4> QED BY <2>1, <2>2, <4>1
    <3> QED BY <3>1, <3>2
  <2>6. CASE Open
    <3>1. \A t \in Service : offsets[t] <= Len(log[t])
      BY <1>0 DEF At, Ends
    <3>2. ~(Len(log[cur]) < offsets[cur])
      BY <3>1, <1>types
    <3>3. offsets'[s] = offsets[s]
      BY <2>6, <3>2, <1>types DEF Open
    <3> QED BY <2>1, <2>2, <3>3
  <2>7. CASE EndOfFile
    <3>1. CASE s = cur
      BY <2>1, <2>7, <3>1, <1>0, <1>types DEF EndOfFile
    <3>2. CASE s # cur
      BY <2>1, <2>2, <2>7, <3>2, <1>types DEF EndOfFile
    <3> QED BY <3>1, <3>2
  <2>8. CASE Crash
    BY <1>zero, <2>8 DEF Crash, Zeros
  <2>9. UNCHANGED offsets \/ Start \/ Seed \/ Open \/ EndOfFile \/ Crash
    BY ShipperSteps DEF shipperVars, Missing, ReadLine, Post, SaveTruncate, SaveWrite, SaveFails
  <2> QED BY <2>3, <2>4, <2>5, <2>6, <2>7, <2>8, <2>9
<1>4. ASSUME NEW s \in Service, disk'.state = "whole"
      PROVE  NewAt(s, disk'.at[s])
  <2>1. CASE UNCHANGED disk
    BY <2>1, <1>4, <1>0, <1>old, <1>types
  <2>2. CASE SaveTruncate
    BY <2>2, <1>4 DEF SaveTruncate, TypeOK, DiskFile
  <2>3. CASE SaveWrite
    BY <2>3, <1>4, <1>0, <1>old, <1>types DEF SaveWrite
  <2>4. UNCHANGED disk \/ SaveTruncate \/ SaveWrite
    BY ShipperSteps DEF shipperVars, Start, Seed, Missing, Open, ReadLine, Post, EndOfFile,
         SaveFails, Crash
  <2> QED BY <2>1, <2>2, <2>3, <2>4
<1>5. ASSUME pc' \in {"read", "post"} PROVE NewAt(cur', pos')
  <2>1. CASE UNCHANGED <<cur, pos>> /\ pc \in {"read", "post"}
    BY <2>1, <1>0, <1>old, <1>types
  <2>2. CASE Open
    <3>1. \A t \in Service : offsets[t] <= Len(log[t])
      BY <1>0 DEF At, Ends
    <3>2. ~(Len(log[cur]) < offsets[cur])
      BY <3>1, <1>types
    <3>3. pos' = offsets[cur] /\ cur' = cur
      BY <2>2, <3>2 DEF Open
    <3> QED BY <3>3, <1>0, <1>old, <1>types
  <2>3. CASE ReadLine
    <3>1. cur' = cur /\ log' = log
          /\ \E end \in pos + 1 .. Len(log[cur]) : IsLine(log[cur], pos, end) /\ pos' = end
      BY <2>3, ReadLineCells, Zenon
    <3>2. Ends(log[cur], pos')
      BY <3>1, EndsRead, <1>types DEF FilesInv
    <3> QED BY <3>1, <3>2 DEF NewAt
  <2>4. (UNCHANGED <<cur, pos>> /\ pc \in {"read", "post"}) \/ Open \/ ReadLine
    BY <1>5, ShipperSteps DEF shipperVars, Start, Seed, Missing, NextService, Post, EndOfFile,
         SaveTruncate, SaveWrite, SaveFails, Crash
  <2> QED BY <2>1, <2>2, <2>3, <2>4
<1> QED BY <1>3, <1>4, <1>5 DEF NewAt

\* A small line read from such a place is posted, or glued to a line without an end.
LEMMA GluedLine ==
  ASSUME NEW f \in Seq(Cell), SmallLines(f), NEW p \in Nat, Ends(f, p),
         NEW end \in p + 1 .. Len(f), IsLine(f, p, end),
         \A e \in Events : ~ParsesAs(f, p, end, e),
         NEW j \in p + 1 .. end, NEW e \in Events \ Large, f[j].ev = e
  PROVE  \E h \in p + 1 .. end : /\ f[h] = Head1(e)
                                 /\ h > 1 /\ f[h - 1].part = "head"
<1>0. Len(f) \in Nat /\ j \in 1 .. Len(f) /\ end \in Nat
  OBVIOUS
<1>1. PICK h \in p + 1 .. end : f[h] = Head1(e)
  <2>1. CASE f[j].part = "head"
    BY <1>0, <2>1, HeadOf, ElementOfSeq
  <2>2. CASE f[j].part = "tail"
    <3>1. j > 1 /\ f[j - 1] = Head1(e)
      BY <1>0, <2>2 DEF SmallLines
    <3>2. j # p + 1
      <4>1. ASSUME j = p + 1 PROVE FALSE
        <5>1. p > 0 /\ f[p] = Head1(e)
          BY <3>1, <4>1
        <5>2. f[p].part = "tail" \/ f[p].ev \in Large
          BY <5>1 DEF Ends
        <5> QED BY <5>1, <5>2, CellParts
      <4> QED BY <4>1
    <3>3. j - 1 \in p + 1 .. end
      BY <3>2, <1>0
    <3> QED BY <3>1, <3>3
  <2> QED BY <1>0, <2>1, <2>2, CellOfLog
<1>2. h \in 1 .. Len(f) /\ f[h].ev = e /\ f[h].part = "head"
  BY <1>1, <1>0, CellParts
<1>3. h < Len(f) /\ f[h + 1] = Tail1(e)
  BY <1>2 DEF SmallLines
<1>4. CASE h = p + 1
  <2>1. end # p + 1
    BY <1>2, <1>3, <1>4 DEF IsLine
  <2>2. ASSUME end > p + 2 PROVE FALSE
    <3>1. p + 2 \in p + 1 .. end - 1
      BY <2>2, <1>0
    <3>2. f[p + 2].part = "head"
      BY <3>1 DEF IsLine
    <3>3. f[p + 2] = Tail1(e)
      BY <1>3, <1>4
    <3> QED BY <3>2, <3>3, CellParts
  <2>3. end = p + 2
    BY <2>1, <2>2, <1>0
  <2>4. ParsesAs(f, p, end, e)
    BY <2>3, <1>1, <1>3, <1>4 DEF ParsesAs
  <2> QED BY <2>4
<1>5. CASE h > p + 1
  <2>1. h - 1 \in p + 1 .. end - 1 /\ h > 1
    BY <1>5, <1>0
  <2>2. f[h - 1].part = "head"
    BY <2>1 DEF IsLine
  <2> QED BY <1>1, <2>1, <2>2
<1> QED BY <1>4, <1>5

\* Every step keeps OnlyTornLinesAreDropped.
LEMMA NextTorn ==
  TypeOK /\ PipeInv /\ FilesInv /\ EndsInv /\ OnlyTornLinesAreDropped /\ [Next]_vars
    => OnlyTornLinesAreDropped'
<1> SUFFICES ASSUME TypeOK, PipeInv, FilesInv, EndsInv, OnlyTornLinesAreDropped, [Next]_vars,
                    rotations' = 0,
                    NEW s \in Service, NEW i \in 1 .. Len(log'[s]),
                    log'[s][i].part = "head", log'[s][i].ev \in dropped' \ Large
             PROVE  i > 1 /\ log'[s][i - 1].part = "head"
  BY DEF OnlyTornLinesAreDropped
<1>0. rotations = 0 /\ Continues(log[s], log'[s])
  BY LogsGrow DEF Continues
<1>old. ASSUME i \in 1 .. Len(log[s]), log'[s][i].ev \in dropped
        PROVE  i > 1 /\ log'[s][i - 1].part = "head"
  <2>1. log'[s][i] = log[s][i]
    BY <1>0, <1>old DEF Continues
  <2>2. i > 1 /\ log[s][i - 1].part = "head"
    BY <1>0, <1>old, <2>1 DEF OnlyTornLinesAreDropped
  <2>3. i - 1 \in 1 .. Len(log[s])
    BY <1>old, <2>2
  <2> QED BY <1>0, <2>2, <2>3 DEF Continues
<1>1. CASE \E t \in Service : Honeypot(t) /\ UNCHANGED <<shipperVars, analyzerVars>>
  <2>1. FileStep(s) /\ dropped' = dropped
    BY <1>1, WriterSteps, Zenon DEF shipperVars
  <2> DEFINE e == log'[s][i].ev
  <2>2. e \in dropped /\ e \in Events /\ e \in emitted
    BY <2>1 DEF FilesInv, TypeOK
  <2>3. i \in 1 .. Len(log[s])
    <3>1. log'[s][i] \in Cell
      <4>1. TypeOK'
        BY NextTypeOK
      <4> QED BY <4>1, ElementOfSeq DEF TypeOK
    <3>2. log'[s][i] = Head1(e)
      BY <3>1, HeadOf
    <3>3. IsHead(s, i, e)
      BY <2>1, <2>2, <3>2 DEF FileStep
    <3> QED BY <3>3 DEF IsHead
  <2> QED BY <1>old, <2>2, <2>3
<1>2. CASE UNCHANGED <<honeypotVars, rotations>>
  <2>1. log' = log
    BY <1>2 DEF honeypotVars
  <2>2. CASE dropped' = dropped
    BY <2>1, <2>2, <1>old
  <2>3. CASE ReadLine
    <3>1. PICK end \in pos + 1 .. Len(log[cur]) :
            /\ IsLine(log[cur], pos, end)
            /\ \/ dropped' = dropped
               \/ /\ \A e \in Events : ~ParsesAs(log[cur], pos, end, e)
                  /\ dropped' = dropped \cup {log[cur][k].ev : k \in pos + 1 .. end}
      BY <2>3, ReadLineCells, Zenon
    <3>2. CASE /\ \A e \in Events : ~ParsesAs(log[cur], pos, end, e)
               /\ dropped' = dropped \cup {log[cur][k].ev : k \in pos + 1 .. end}
      <4>1. PICK e \in Events \ Large : e = log[s][i].ev /\ log[s][i] = Head1(e)
        BY <2>1, HeadOf, CellOfLog DEF TypeOK
      <4>2. CASE e \in dropped
        BY <2>1, <4>1, <4>2, <1>old
      <4>3. CASE e \notin dropped
        <5>1. PICK j \in pos + 1 .. end : log[cur][j].ev = e
          BY <2>1, <3>2, <4>1, <4>3
        <5>2. /\ pc = "read" /\ cur \in Service /\ pos \in Nat /\ log[cur] \in Seq(Cell)
          BY <2>3, ReadLineCells DEF TypeOK
        <5>3. SmallLines(log[cur]) /\ Ends(log[cur], pos)
          BY <5>2, <1>0 DEF FilesInv, EndsInv
        <5>4. PICK h \in pos + 1 .. end : /\ log[cur][h] = Head1(e)
                                          /\ h > 1 /\ log[cur][h - 1].part = "head"
          <6> DEFINE f == log[cur]
          <6>1. /\ f \in Seq(Cell) /\ SmallLines(f) /\ pos \in Nat /\ Ends(f, pos)
                /\ end \in pos + 1 .. Len(f) /\ IsLine(f, pos, end)
                /\ j \in pos + 1 .. end /\ f[j].ev = e
            BY <3>1, <5>1, <5>2, <5>3, Zenon
          <6>2. \A d \in Events : ~ParsesAs(f, pos, end, d)
            BY <3>2, Zenon
          <6> HIDE DEF f
          <6>3. \E h \in pos + 1 .. end : f[h] = Head1(e) /\ h > 1 /\ f[h - 1].part = "head"
            BY <6>1, <6>2, GluedLine
          <6> QED BY <6>3, Zenon DEF f
        <5>5. IsHead(cur, h, e) /\ IsHead(s, i, e) /\ h \in Nat /\ i \in Nat
          BY <2>1, <4>1, <5>2, <5>4 DEF IsHead
        <5>6. s = cur /\ i = h
          BY <4>1, <5>2, <5>5 DEF FilesInv, OneHead
        <5> QED BY <2>1, <5>4, <5>6
      <4> QED BY <4>2, <4>3
    <3> QED BY <2>2, <3>1, <3>2
  <2> QED BY <2>2, <2>3, CopySteps
<1> QED BY <1>1, <1>2, FileSteps

\* OnlyTornLinesAreDropped (a property of the run shipper): whatever the crashes of the
\* honeypots and of the shipper, an event written at once is passed over only when its
\* line was glued to one left without an end.
THEOREM TornOnly == Spec => []OnlyTornLinesAreDropped
<1>1. Init => OnlyTornLinesAreDropped
  BY DEF Init, OnlyTornLinesAreDropped
<1> QED BY <1>1, TypeCorrect, InitCoverInv, NextCoverInv, InitPipeInv, NextPipeInv,
           InitFilesInv, NextFilesInv, InitEndsInv, NextEndsInv, NextTorn, PTL DEF Spec

-----------------------------------------------------------------------------
(* Nothing passes half a character.                                          *)

\* The inductive strengthening of NothingPassesHalfCharacter: the reader itself is in
\* front of the half, also before its position becomes an offset.
BlockInv ==
  rotations = 0 =>
    \A s \in Service : \A i \in 1 .. Len(log[s]) :
      CutShort(s, i) /\ log[s][i].ev \notin seeded =>
        /\ offsets[s] < i
        /\ disk.state = "whole" => disk.at[s] < i
        /\ pc \in {"read", "post"} /\ cur = s => pos < i
        /\ \A j \in i .. Len(log[s]) :
             log[s][j].part = "head" => copies[log[s][j].ev] = 0

\* BlockInv holds initially: the files are empty.
LEMMA InitBlockInv == Init => BlockInv
BY DEF Init, BlockInv

\* Where a line is cut is decided when its head is written.
LEMMA HalvedOnce ==
  ASSUME [Next]_vars, NEW e \in emitted, e \in halved'
  PROVE  e \in halved
<1>1. CASE \E s \in Service : Honeypot(s) /\ UNCHANGED <<shipperVars, analyzerVars>>
  <2> PICK s \in Service : Honeypot(s)
    BY <1>1
  <2>1. ASSUME NEW d \in Events, EmitHead(s, d) PROVE e \in halved
    BY <2>1 DEF EmitHead
  <2>2. CASE halved' = halved
    BY <2>2
  <2> QED BY <2>1, <2>2 DEF Honeypot, EmitWhole, EmitTail, HoneypotCrash, Rotate
<1>2. CASE UNCHANGED <<honeypotVars, rotations>>
  BY <1>2 DEF honeypotVars
<1> QED BY <1>1, <1>2, FileSteps

\* For a head, what is behind it matters, not where the decoder started.
LEMMA CutAnywhere ==
  ASSUME NEW s \in Service, NEW i \in Nat, NEW p \in Nat, CutShort(s, i)
  PROVE  Undecodable(log[s], p, i)
BY DEF CutShort, Undecodable, HasOtherHalf

\* Without rotation, a line that is cut short was so before, or is new.
LEMMA CutShortBefore ==
  ASSUME TypeOK, TypeOK', PipeInv, [Next]_vars, rotations' = 0,
         NEW s \in Service, NEW i \in 1 .. Len(log[s]), CutShort(s, i)'
  PROVE  CutShort(s, i) /\ log'[s][i] = log[s][i]
<1> DEFINE f == log[s]
           g == log'[s]
<1>1. /\ f \in Seq(Cell) /\ g \in Seq(Cell)
      /\ Len(f) <= Len(g) /\ \A k \in 1 .. Len(f) : g[k] = f[k]
  BY LogsGrow DEF TypeOK
<1>2. g[i] = f[i] /\ f[i].ev \in emitted
  BY <1>1 DEF PipeInv
<1>3. g[i].part = "head" /\ g[i].ev \in halved' /\ ~(i < Len(g) /\ g[i + 1] = Tail1(g[i].ev))
  BY DEF CutShort, Undecodable, HasOtherHalf
<1>4. f[i].part = "head" /\ f[i].ev \in halved
  BY <1>2, <1>3, HalvedOnce
<1>5. ~(i < Len(f) /\ f[i + 1] = Tail1(f[i].ev))
  BY <1>1, <1>2, <1>3
<1> QED BY <1>2, <1>4, <1>5 DEF CutShort, Undecodable, HasOtherHalf

\* Without rotation, a head that was not there is that of an event without a copy.
LEMMA NewHeads ==
  ASSUME TypeOK, TypeOK', PipeInv, FilesInv, [Next]_vars, UNCHANGED shipperVars,
         NEW s \in Service, NEW j \in 1 .. Len(log'[s]), log'[s][j].part = "head",
         j \notin 1 .. Len(log[s])
  PROVE  copies'[log'[s][j].ev] = 0
<1> DEFINE e == log'[s][j].ev
<1>1. log'[s][j] = Head1(e) /\ e \in Events
  BY HeadOf, CellOfLog, ElementOfSeq DEF TypeOK
<1>2. CASE \E t \in Service : Honeypot(t) /\ UNCHANGED <<shipperVars, analyzerVars>>
  <2>1. FileStep(s)
    BY <1>2, WriterSteps, Zenon
  <2>2. e \notin emitted
    BY <2>1, <1>1 DEF FileStep, IsHead
  <2> QED BY <1>1, <2>2 DEF FilesInv, TypeOK, shipperVars
<1>3. CASE UNCHANGED <<honeypotVars, rotations>>
  BY <1>3 DEF honeypotVars
<1> QED BY <1>2, <1>3, FileSteps

\* Every step keeps BlockInv: a position moves to an offset, to the beginning, or to the
\* end of a line that could be decoded; the seed says what it passes.
LEMMA NextBlockInv ==
  TypeOK /\ TypeOK' /\ CoverInv /\ PipeInv /\ FilesInv /\ BlockInv /\ [Next]_vars => BlockInv'
<1> SUFFICES ASSUME TypeOK, TypeOK', CoverInv, PipeInv, FilesInv, BlockInv, [Next]_vars,
                    rotations' = 0,
                    NEW s \in Service, NEW i \in 1 .. Len(log'[s]),
                    CutShort(s, i)', log'[s][i].ev \notin seeded'
             PROVE  /\ offsets'[s] < i
                    /\ disk'.state = "whole" => disk'.at[s] < i
                    /\ pc' \in {"read", "post"} /\ cur' = s => pos' < i
                    /\ \A j \in i .. Len(log'[s]) :
                         log'[s][j].part = "head" => copies'[log'[s][j].ev] = 0
  BY DEF BlockInv
<1>0. rotations = 0
  BY LogsGrow
<1>types. /\ offsets \in [Service -> Nat] /\ pos \in Nat /\ cur \in Service
          /\ disk.at \in [Service -> Nat] /\ log[s] \in Seq(Cell) /\ log'[s] \in Seq(Cell)
          /\ copies \in [Events -> Nat]
  BY DEF TypeOK, DiskFile
<1>new. ASSUME i \notin 1 .. Len(log[s])
        PROVE  /\ offsets'[s] < i
               /\ disk'.state = "whole" => disk'.at[s] < i
               /\ pc' \in {"read", "post"} /\ cur' = s => pos' < i
               /\ \A j \in i .. Len(log'[s]) :
                    log'[s][j].part = "head" => copies'[log'[s][j].ev] = 0
  <2>1. log' # log
    BY <1>new
  <2>2. UNCHANGED shipperVars
    BY <2>1, FileSteps DEF honeypotVars
  <2>3. /\ offsets[s] <= Len(log[s])
        /\ disk.state = "whole" => disk.at[s] <= Len(log[s])
        /\ pc \in {"read", "post"} => pos <= Len(log[cur])
    BY <1>0 DEF CoverInv
  <2>4. i > Len(log[s])
    BY <1>new, <1>types
  <2>5. ASSUME NEW j \in i .. Len(log'[s]), log'[s][j].part = "head"
        PROVE  copies'[log'[s][j].ev] = 0
    BY <2>2, <2>4, <2>5, <1>types, NewHeads
  <2> QED BY <2>2, <2>3, <2>4, <2>5, <1>types DEF shipperVars
<1>old. ASSUME i \in 1 .. Len(log[s])
        PROVE  /\ offsets'[s] < i
               /\ disk'.state = "whole" => disk'.at[s] < i
               /\ pc' \in {"read", "post"} /\ cur' = s => pos' < i
               /\ \A j \in i .. Len(log'[s]) :
                    log'[s][j].part = "head" => copies'[log'[s][j].ev] = 0
  <2>1. CutShort(s, i) /\ log'[s][i] = log[s][i]
    BY <1>old, CutShortBefore
  <2>2. log[s][i].ev \notin seeded
    <3>1. seeded \subseteq seeded'
      BY ShipperSteps DEF shipperVars, Start, Seed, Missing, Open, ReadLine, Post, EndOfFile,
           SaveTruncate, SaveWrite, SaveFails, Crash
    <3> QED BY <2>1, <3>1
  <2>3. /\ offsets[s] < i
        /\ disk.state = "whole" => disk.at[s] < i
        /\ pc \in {"read", "post"} /\ cur = s => pos < i
        /\ \A j \in i .. Len(log[s]) :
             log[s][j].part = "head" => copies[log[s][j].ev] = 0
    BY <1>0, <1>old, <2>1, <2>2 DEF BlockInv
  <2>4. \A t \in Service : offsets[t] <= Len(log[t])
    BY <1>0 DEF CoverInv
  <2>5. offsets'[s] < i
    <3>1. CASE Start
      BY <3>1, <2>3, <1>types DEF Start, Zeros
    <3>2. CASE Seed
      <4>1. CASE s = cur
        BY <3>2, <4>1, <1>old, <2>1 DEF Seed
      <4>2. CASE s # cur
        BY <3>2, <4>2, <2>3, <1>types DEF Seed
      <4> QED BY <4>1, <4>2
    <3>3. CASE Open
      BY <3>3, <2>3, <2>4, <1>types DEF Open
    <3>4. CASE EndOfFile
      BY <3>4, <2>3, <1>types DEF EndOfFile
    <3>5. CASE Crash
      BY <3>5 DEF Crash, Zeros
    <3>6. UNCHANGED offsets \/ Start \/ Seed \/ Open \/ EndOfFile \/ Crash
      BY ShipperSteps DEF shipperVars, Missing, ReadLine, Post, SaveTruncate, SaveWrite, SaveFails
    <3> QED BY <3>1, <3>2, <3>3, <3>4, <3>5, <3>6, <2>3
  <2>6. disk'.state = "whole" => disk'.at[s] < i
    <3>1. CASE SaveTruncate
      BY <3>1 DEF SaveTruncate, TypeOK, DiskFile
    <3>2. CASE SaveWrite
      BY <3>2, <2>3 DEF SaveWrite
    <3>3. UNCHANGED disk \/ SaveTruncate \/ SaveWrite
      BY ShipperSteps DEF shipperVars, Start, Seed, Missing, Open, ReadLine, Post, EndOfFile,
           SaveFails, Crash
    <3> QED BY <3>1, <3>2, <3>3, <2>3
  <2>read. ASSUME ReadLine, cur = s
           PROVE  pos' < i
    <3>1. PICK end \in pos + 1 .. Len(log[cur]) : IsLine(log[cur], pos, end) /\ pos' = end
      BY <2>read, ReadLineCells, Zenon
    <3>2. pc = "read" /\ pos < i
      BY <2>read, <2>3, ReadLineCells, Zenon
    <3>3. Undecodable(log[s], pos, i)
      BY <2>1, <1>types, CutAnywhere
    <3>4. \A k \in pos + 1 .. end : ~Undecodable(log[s], pos, k)
      BY <2>read, <3>1 DEF IsLine
    <3>5. ~(i \in pos + 1 .. end)
      BY <3>3, <3>4, Zenon
    <3> QED BY <3>1, <3>2, <3>5, <1>types
  <2>7. ASSUME pc' \in {"read", "post"}, cur' = s PROVE pos' < i
    <3>1. CASE UNCHANGED <<cur, pos>> /\ pc \in {"read", "post"}
      BY <3>1, <2>7, <2>3
    <3>2. CASE Open
      BY <3>2, <2>7, <2>3, <2>4, <1>types DEF Open
    <3>3. CASE ReadLine
      <4>1. cur' = cur
        BY <3>3, ReadLineCells, Zenon
      <4> QED BY <3>3, <4>1, <2>7, <2>read
    <3>4. (UNCHANGED <<cur, pos>> /\ pc \in {"read", "post"}) \/ Open \/ ReadLine
      BY <2>7, ShipperSteps DEF shipperVars, Start, Seed, Missing, NextService, Post, EndOfFile,
           SaveTruncate, SaveWrite, SaveFails, Crash
    <3> QED BY <3>1, <3>2, <3>3, <3>4
  <2>8. ASSUME NEW j \in i .. Len(log'[s]), log'[s][j].part = "head"
        PROVE  copies'[log'[s][j].ev] = 0
    <3>1. CASE UNCHANGED shipperVars /\ j \notin 1 .. Len(log[s])
      BY <3>1, <2>8, <1>types, NewHeads
    <3>2. CASE j \in 1 .. Len(log[s])
      <4> DEFINE d == log[s][j].ev
      <4>1. log'[s][j] = log[s][j] /\ log[s][j] = Head1(d) /\ d \in Events
        BY <3>2, <2>8, <1>types, LogsGrow, HeadOf, CellOfLog, ElementOfSeq
      <4>2. copies[d] = 0
        BY <3>2, <4>1, <2>3, <2>8
      <4>3. CASE copies' = copies
        BY <4>1, <4>2, <4>3
      <4>4. CASE ReadLine
        <5>1. PICK end \in pos + 1 .. Len(log[cur]) :
                /\ pos' = end
                /\ \/ \E e \in Events : /\ ParsesAs(log[cur], pos, end, e)
                                        /\ copies' = [copies EXCEPT ![e] = @ + 1]
                   \/ copies' = copies
          BY <4>4, ReadLineCells, Zenon
        <5>2. ASSUME NEW e \in Events, ParsesAs(log[cur], pos, end, e),
                     copies' = [copies EXCEPT ![e] = @ + 1]
              PROVE  copies'[d] = 0
          <6>1. IsHead(cur, pos + 1, e) /\ IsHead(s, j, d) /\ j \in Nat /\ pos + 1 \in Nat
            BY <5>1, <5>2, <3>2, <4>1, <1>types DEF IsHead, ParsesAs
          <6>2. d # e
            <7>1. ASSUME d = e PROVE FALSE
              <8>1. s = cur /\ j = pos + 1
                BY <7>1, <6>1, <1>types DEF FilesInv, OneHead
              <8>2. pos' < i
                BY <8>1, <4>4, <2>read
              <8> QED BY <8>1, <8>2, <5>1, <1>types
            <7> QED BY <7>1
          <6> QED BY <5>2, <6>2, <4>1, <4>2, <1>types
        <5> QED BY <5>1, <5>2, <4>1, <4>2
      <4> QED BY <4>1, <4>3, <4>4, CopySteps
    <3>3. UNCHANGED shipperVars \/ log' = log
      BY FileSteps DEF honeypotVars
    <3> QED BY <3>1, <3>2, <3>3, <1>types, <2>8
  <2> QED BY <2>5, <2>6, <2>7, <2>8
<1> QED BY <1>new, <1>old

\* NothingPassesHalfCharacter (a property of the run shipper): a line cut inside a
\* character stops the shipper in its file for good, however often it is started.
THEOREM NothingPasses == Spec => []NothingPassesHalfCharacter
<1>1. BlockInv => NothingPassesHalfCharacter
  BY DEF BlockInv, NothingPassesHalfCharacter
<1> QED BY <1>1, TypeCorrect, InitCoverInv, NextCoverInv, InitPipeInv, NextPipeInv,
           InitFilesInv, NextFilesInv, InitBlockInv, NextBlockInv, PTL DEF Spec
=============================================================================
