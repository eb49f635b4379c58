----------------------------- MODULE ExportsProofs -----------------------------
(***************************************************************************)
(* Theorems about Exports and Enrichers, for every number of requests,     *)
(* addresses, deployments, and any LIMIT, time to live and threshold.      *)
(***************************************************************************)
EXTENDS Exports, FiniteSetTheorems, WellFoundedInduction, TLAPS

-----------------------------------------------------------------------------
(* Types.                                                                  *)

\* TypeOK is not inductive by itself: what is stored was answered, and a handler
\* runs for a request that was posted.
Handled ==
  /\ \A q \in Requests : pc[q] # "none" => q \in DOMAIN Source
  /\ \A q \in Requests : pc[q] = "store" => score[q] \in Nat

Typed == TypeOK /\ Handled

\* The deployment names an address for the requests that are posted.
LEMMA SourceType ==
  ASSUME Typed, NEW q \in DOMAIN Source
  PROVE  Source[q] \in Addresses /\ q \in Requests
<1>1. deployment \in Deployment
  BY EnrichersAssumption DEF Typed, TypeOK, EnrichersTypeOK
<1>2. PICK S \in SUBSET Requests : deployment.source \in [S -> Addresses]
  BY <1>1 DEF Deployment
<1> QED BY <1>2 DEF Source

\* The row of an event that is inserted has the type of a row.
LEMMA EnrichedType ==
  ASSUME Typed, NEW q \in DOMAIN Source
  PROVE  Enriched(q) \in Row
<1>1. Source[q] \in Addresses /\ q \in Requests
  BY SourceType
<1>2. /\ Provided[q].country \in STRING \cup {Null}
      /\ Provided[q].located \in BOOLEAN
      /\ Provided[q].score \in Nat \cup {Null}
      /\ Geo[Source[q]].country \in STRING \cup {Null}
      /\ Geo[Source[q]].located \in BOOLEAN
  BY <1>1, EnrichersAssumption DEF Place
<1>3. score[q] \in Nat \cup {Null}
  BY <1>1 DEF Typed, TypeOK, EnrichersTypeOK
<1>4. deployment.geoip \in BOOLEAN
  BY EnrichersAssumption DEF Typed, TypeOK, EnrichersTypeOK, Deployment
<1> QED BY <1>1, <1>2, <1>3, <1>4 DEF Enriched, Row

\* The addresses of groups are addresses.
LEMMA GroupType ==
  ASSUME TypeOK, NEW g \in Groups(rows, row)
  PROVE  g[1] \in Addresses
<1>1. PICK q \in rows : g = <<row[q].address, row[q].country>>
  BY DEF Groups, GroupOf
<1>2. row[q] \in Row
  BY DEF TypeOK
<1> QED BY <1>1, <1>2 DEF Row

\* What is critical now is a set of addresses.
LEMMA CriticalType ==
  ASSUME TypeOK
  PROVE  CriticalNow \subseteq Addresses
BY GroupType DEF CriticalNow

\* What an export reads is a set of addresses that are critical now.
LEMMA BatchType ==
  ASSUME TypeOK, NEW b \in CriticalAddresses
  PROVE  b \subseteq CriticalNow
<1>1. PICK L \in Listings : b = {g[1] : g \in {h \in L : Critical(rows, row, h)}}
  BY DEF CriticalAddresses
<1>2. L \subseteq Groups(rows, row)
  BY DEF Listings
<1> QED BY <1>1, <1>2 DEF CriticalNow

\* Initially all variables have their types.
LEMMA InitTyped == Init => Typed
<1> SUFFICES ASSUME Init PROVE Typed
  OBVIOUS
<1>1. EnrichersTypeOK
  BY EnrichersAssumption DEF Init, EnrichersInit, EnrichersTypeOK
<1>2. row \in [Requests -> Row]
  <2>1. (CHOOSE a \in Addresses : TRUE) \in Addresses
    BY ExportsAssumption
  <2> QED BY <2>1 DEF Init, Row
<1>3. Handled
  BY DEF Init, EnrichersInit, Handled
<1> QED BY <1>1, <1>2, <1>3 DEF Init, TypeOK, Typed

\* Every step of a look-up keeps the types of the enrichers.
LEMMA LookupType ==
  ASSUME Typed, NEW q \in Requests, LookupNext(q)
  PROVE  EnrichersTypeOK' /\ Handled'
<1> USE DEF Typed, TypeOK, EnrichersTypeOK, Handled, Goto, Source
<1>1. CASE Lookup(q)
  <2>1. Source[q] \in Addresses
    BY <1>1, SourceType DEF Lookup
  <2>2. cache[Source[q]].score \in Nat
    BY <2>1
  <2> QED BY <1>1, <2>1, <2>2 DEF Lookup
<1>2. CASE Acquire(q)
  BY <1>2 DEF Acquire
<1>3. CASE Call(q)
  BY <1>3 DEF Call
<1>4. CASE CallFails(q)
  BY <1>4 DEF CallFails
<1>5. CASE Answered(q)
  <2>1. Source[q] \in Addresses
    BY <1>5, SourceType DEF Answered
  <2>2. Reputation[Source[q]] \in Nat
    BY <2>1, EnrichersAssumption
  <2> QED BY <1>5, <2>1, <2>2 DEF Answered
<1>6. CASE Store(q)
  <2>1. Source[q] \in Addresses
    BY <1>6, SourceType DEF Store
  <2>2. score[q] \in Nat /\ now \in Nat
    BY <1>6 DEF Store
  <2>3. [score |-> score[q], ts |-> now] \in [score : Nat, ts : Nat \cup {Null}]
    BY <2>2
  <2> QED BY <1>6, <2>1, <2>2, <2>3 DEF Store
<1>7. CASE CacheFails(q)
  BY <1>7 DEF CacheFails
<1> QED BY <1>1, <1>2, <1>3, <1>4, <1>5, <1>6, <1>7 DEF LookupNext

\* The steps of a handler on the table keep all types.
LEMMA TableType ==
  ASSUME Typed, NEW q \in Requests, Insert(q) \/ LabelSession(q)
  PROVE  Typed'
<1>1. CASE Insert(q)
  <2>1. q \in DOMAIN Source
    BY <1>1 DEF Insert, Typed, Handled
  <2>2. row' \in [Requests -> Row] /\ rows' \in SUBSET Requests
    BY <1>1, <2>1, EnrichedType DEF Insert, Typed, TypeOK
  <2>3. TypeOK'
    <3>1. CriticalNow' \subseteq Addresses
      <4>1. \A r \in rows' : row'[r].address \in Addresses
        BY <2>2 DEF Row
      <4> QED BY <4>1 DEF CriticalNow, Groups, GroupOf
    <3> QED BY <1>1, <2>2, <3>1 DEF Insert, Changed, Goto, Typed, TypeOK, EnrichersTypeOK,
                                   exportVars
  <2>4. Handled'
    BY <1>1, <2>1 DEF Insert, Goto, Typed, Handled, TypeOK, EnrichersTypeOK, Source
  <2> QED BY <2>3, <2>4 DEF Typed
<1>2. CASE LabelSession(q)
  <2>1. q \in DOMAIN Source
    BY <1>2 DEF LabelSession, Typed, Handled
  <2>2. Handled'
    BY <1>2, <2>1 DEF LabelSession, Goto, Typed, Handled, TypeOK, EnrichersTypeOK, Source
  <2>3. EnrichersTypeOK'
    BY <1>2 DEF LabelSession, Goto, Typed, TypeOK, EnrichersTypeOK
  <2>4. row' \in [Requests -> Row]
    <3>1. CASE UNCHANGED row
      BY <3>1 DEF Typed, TypeOK
    <3>2. CASE \E c \in Classes :
                 row' = [p \in Requests |-> IF p \in rows /\ Session[p] = Session[q]
                                            THEN [row[p] EXCEPT !.class = c] ELSE row[p]]
      BY <3>2 DEF Typed, TypeOK, Row
    <3> QED BY <1>2, <3>1, <3>2 DEF LabelSession
  <2>5. CriticalNow' \subseteq Addresses
    <3>1. \A r \in rows' : row'[r].address \in Addresses
      BY <1>2, <2>4 DEF LabelSession, Typed, TypeOK, Row
    <3> QED BY <3>1 DEF CriticalNow, Groups, GroupOf
  <2>6. suspects' \subseteq Addresses /\ quiet' \in BOOLEAN
    BY <1>2, <2>5 DEF LabelSession, Changed, Typed, TypeOK
  <2> QED BY <1>2, <2>2, <2>3, <2>4, <2>6 DEF LabelSession, Typed, TypeOK, exportVars
<1> QED BY <1>1, <1>2

\* The backfill keeps all types.
LEMMA BackfillType ==
  ASSUME Typed, BackfillRead \/ BackfillCommit
  PROVE  Typed'
<1>1. CASE BackfillRead
  <2>1. missing' \subseteq Addresses
    BY <1>1 DEF BackfillRead, Typed, TypeOK, Row
  <2> QED BY <1>1, <2>1 DEF BackfillRead, Typed, TypeOK, EnrichersTypeOK, Handled, Source,
                          enricherVars, exportVars
<1>2. CASE BackfillCommit
  <2>1. row' \in [Requests -> Row]
    <3> DEFINE found == {a \in missing \cap Public : Geo[a].located}
    <3>1. row' = [p \in Requests |->
                    IF p \in rows /\ row[p].address \in found /\ ~row[p].located
                    THEN [row[p] EXCEPT !.located = TRUE, !.country = Geo[row[p].address].country]
                    ELSE row[p]]
      BY <1>2 DEF BackfillCommit
    <3>2. \A p \in Requests : row[p] \in Row /\ Geo[row[p].address].country \in STRING \cup {Null}
      BY EnrichersAssumption DEF Typed, TypeOK, Row, Place
    <3> HIDE DEF found
    <3>3. \A p \in Requests :
            [row[p] EXCEPT !.located = TRUE, !.country = Geo[row[p].address].country] \in Row
      BY <3>2 DEF Row
    <3> QED BY <3>1, <3>2, <3>3
  <2>2. CriticalNow' \subseteq Addresses
    <3>1. \A r \in rows' : row'[r].address \in Addresses
      BY <1>2, <2>1 DEF BackfillCommit, Typed, TypeOK, Row
    <3> QED BY <3>1 DEF CriticalNow, Groups, GroupOf
  <2> QED BY <1>2, <2>1, <2>2 DEF BackfillCommit, Changed, Typed, TypeOK, EnrichersTypeOK,
                               Handled, Source, enricherVars, exportVars
<1> QED BY <1>1, <1>2

\* The steps of the exporter leave the analyzer and the table alone, and keep the types
\* of the exports.
LEMMA ExporterType ==
  ASSUME Typed, ExportStep \/ ExportsRaise \/ ShipperDies
  PROVE  Typed'
<1> USE DEF Typed, TypeOK, EnrichersTypeOK, Handled, Source, enricherVars, tableVars
<1>1. CASE TriggerExports
  BY <1>1 DEF TriggerExports
<1>2. CASE ReadAttackers
  <2>1. batch' \subseteq Addresses
    BY <1>2, BatchType, CriticalType DEF ReadAttackers
  <2> QED BY <1>2, <2>1 DEF ReadAttackers
<1>3. CASE WriteBlocklist
  BY <1>3 DEF WriteBlocklist
<1>4. CASE WriteRule
  BY <1>4 DEF WriteRule
<1>5. CASE SigmaDone
  BY <1>5 DEF SigmaDone
<1>6. CASE WriteBundle
  BY <1>6 DEF WriteBundle
<1>7. CASE ShipperStarts
  BY <1>7 DEF ShipperStarts
<1>8. ASSUME NEW where \in {"idle", "down"}, Interrupted(where) PROVE Typed'
  BY <1>8 DEF Interrupted
<1> QED BY <1>1, <1>2, <1>3, <1>4, <1>5, <1>6, <1>7, <1>8
        DEF ExportStep, ExportsRaise, ShipperDies

\* Every step keeps all types.
LEMMA NextTyped == Typed /\ [Next]_vars => Typed'
<1> SUFFICES ASSUME Typed, [Next]_vars PROVE Typed'
  OBVIOUS
<1>1. CASE \E q \in Requests : LookupNext(q) /\ UNCHANGED <<tableVars, exportVars, quiet>>
  BY <1>1, LookupType DEF Typed, TypeOK, tableVars, exportVars
<1>2. CASE Tick /\ UNCHANGED <<tableVars, exportVars, quiet>>
  BY <1>2 DEF Tick, Typed, TypeOK, EnrichersTypeOK, Handled, Source, tableVars, exportVars
<1>3. CASE \E q \in Requests : Insert(q) \/ LabelSession(q)
  BY <1>3, TableType
<1>4. CASE BackfillRead \/ BackfillCommit
  BY <1>4, BackfillType
<1>5. CASE ExportStep \/ ExportsRaise \/ ShipperDies
  BY <1>5, ExporterType
<1>6. CASE UNCHANGED vars
  BY <1>6 DEF vars, Typed, TypeOK, EnrichersTypeOK, Handled, Source, enricherVars, tableVars,
              exportVars
<1> QED BY <1>1, <1>2, <1>3, <1>4, <1>5, <1>6 DEF Next

\* TypeOK holds: types of what the analyzer stores and the shipper exports.
THEOREM ExportsTypeCorrect == Spec => []TypeOK
<1>1. Typed => TypeOK
  BY DEF Typed
<1> QED BY <1>1, InitTyped, NextTyped, PTL DEF Spec

-----------------------------------------------------------------------------
(* Calls to AbuseIPDB.                                                     *)

\* The lock is with the one request that sleeps or calls; every call so far was made
\* at _last_call or before, and the sleep of the holder ends a second after it.
LockInv ==
  /\ \A q \in Requests : pc[q] \in {"throttle", "call"} => lock = q
  /\ \A c \in calls : c.at <= lastCall
  /\ \A q \in Requests : pc[q] = "throttle" => wake >= lastCall + 1

SpacingInv == LockInv /\ CallsAreSpaced

\* Initially nothing was called.
LEMMA InitSpacing == Init => SpacingInv
BY DEF Init, EnrichersInit, SpacingInv, LockInv, CallsAreSpaced

\* Every step of a look-up keeps the calls apart.
LEMMA LookupSpacing ==
  ASSUME Typed, SpacingInv, NEW q \in Requests, LookupNext(q)
  PROVE  SpacingInv'
<1>0. /\ pc \in [Requests -> {"none", "wait", "throttle", "call", "store", "insert", "label",
                             "answered", "failed"}]
      /\ now \in Nat /\ lastCall \in Nat /\ wake \in Nat
      /\ calls \subseteq [by : Requests, at : Nat]
  BY DEF Typed, TypeOK, EnrichersTypeOK
<1> USE <1>0, EnrichersAssumption DEF SpacingInv, LockInv, CallsAreSpaced, Goto
<1>1. CASE Lookup(q)
  BY <1>1 DEF Lookup
<1>2. CASE Acquire(q)
  <2>1. \A p \in Requests : pc[p] \notin {"throttle", "call"}
    BY <1>2 DEF Acquire
  <2>2. wake' >= lastCall' + 1
    BY <1>2 DEF Acquire
  <2> QED BY <1>2, <2>1, <2>2 DEF Acquire
<1>3. CASE Call(q)
  <2>1. lock = q /\ now >= lastCall + 1
    BY <1>3 DEF Call
  <2>2. LockInv'
    <3>1. \A c \in calls' : c.at <= lastCall'
      BY <1>3, <2>1 DEF Call
    <3>2. \A p \in Requests : pc'[p] # "throttle"
      BY <1>3, <2>1 DEF Call
    <3> QED BY <1>3, <2>1, <3>1, <3>2 DEF Call
  <2>3. CallsAreSpaced'
    <3> DEFINE new == [by |-> q, at |-> now]
    <3>1. calls' = calls \cup {new} /\ new.at = now
      BY <1>3 DEF Call
    <3>2. \A c \in calls : new.at - c.at >= 1
      BY <2>1, <3>1
    <3> HIDE DEF new
    <3> QED BY <3>1, <3>2
  <2> QED BY <2>2, <2>3
<1>4. CASE CallFails(q)
  BY <1>4 DEF CallFails
<1>5. CASE Answered(q)
  BY <1>5 DEF Answered
<1>6. CASE Store(q)
  BY <1>6 DEF Store
<1>7. CASE CacheFails(q)
  BY <1>7 DEF CacheFails
<1> QED BY <1>1, <1>2, <1>3, <1>4, <1>5, <1>6, <1>7 DEF LookupNext

\* No other step calls, sleeps or touches the lock.
LEMMA NextSpacing == Typed /\ SpacingInv /\ [Next]_vars => SpacingInv'
<1> SUFFICES ASSUME Typed, SpacingInv, [Next]_vars PROVE SpacingInv'
  OBVIOUS
<1>0. pc \in [Requests -> {"none", "wait", "throttle", "call", "store", "insert", "label",
                           "answered", "failed"}]
  BY DEF Typed, TypeOK, EnrichersTypeOK
<1>1. CASE \E q \in Requests : LookupNext(q)
  BY <1>1, LookupSpacing
<1>2. CASE Tick
  BY <1>2 DEF Tick, SpacingInv, LockInv, CallsAreSpaced
<1>3. CASE \E q \in Requests : Insert(q) \/ LabelSession(q)
  BY <1>0, <1>3 DEF Insert, LabelSession, Goto, SpacingInv, LockInv, CallsAreSpaced
<1>4. CASE UNCHANGED enricherVars
  BY <1>4 DEF enricherVars, SpacingInv, LockInv, CallsAreSpaced
<1>5. CASE BackfillRead \/ BackfillCommit \/ ExportStep \/ ExportsRaise \/ ShipperDies
  BY <1>4, <1>5 DEF BackfillRead, BackfillCommit, ExportStep, ExportsRaise, ShipperDies,
       TriggerExports, ReadAttackers, WriteBlocklist, WriteRule, SigmaDone, WriteBundle,
       ShipperStarts, Interrupted
<1> QED BY <1>1, <1>2, <1>3, <1>4, <1>5 DEF Next, vars

\* CallsAreSpaced holds: one call per second, whatever the handlers, the answers and
\* the errors are.
THEOREM SpacedCalls == Spec => []CallsAreSpaced
<1>1. SpacingInv => CallsAreSpaced
  BY DEF SpacingInv
<1> QED BY <1>1, InitTyped, NextTyped, InitSpacing, NextSpacing, PTL DEF Spec

-----------------------------------------------------------------------------
(* The cache.                                                              *)

\* What was learnt is in the cache; a request that began while an answer was fresh is
\* past the look-up without a call, and a request that called never looks up again.
CacheInv ==
  /\ \A a \in Addresses : cache[a].ts = learnt[a]
  /\ \A q \in knew : pc[q] \notin {"none", "wait", "throttle", "call", "store"}
  /\ \A c \in calls : pc[c.by] # "none"
  /\ CacheSparesCalls

\* Initially nothing was learnt.
LEMMA InitCache == Init => CacheInv
BY DEF Init, EnrichersInit, CacheInv, CacheSparesCalls

\* Every step of a look-up keeps the cache and its history.
LEMMA LookupCache ==
  ASSUME Typed, CacheInv, NEW q \in Requests, LookupNext(q)
  PROVE  CacheInv'
<1>0. /\ pc \in [Requests -> {"none", "wait", "throttle", "call", "store", "insert", "label",
                             "answered", "failed"}]
      /\ calls \subseteq [by : Requests, at : Nat] /\ knew \subseteq Requests
      /\ learnt \in [Addresses -> Nat \cup {Null}]
      /\ cache \in [Addresses -> [score : Nat, ts : Nat \cup {Null}]]
  BY DEF Typed, TypeOK, EnrichersTypeOK
<1> USE <1>0 DEF CacheInv, CacheSparesCalls, Goto
<1>1. CASE Lookup(q)
  <2>1. Source[q] \in Addresses
    BY <1>1, SourceType DEF Lookup
  <2>2. q \notin knew /\ \A c \in calls : c.by # q
    BY <1>1 DEF Lookup
  <2>3. q \in knew' => pc'[q] = "insert"
    <3>1. q \in knew' => Fresh(cache[Source[q]].ts)
      BY <1>1, <2>1, <2>2 DEF Lookup
    <3>2. pc'[q] \in {"insert", "wait"}
          /\ (Fresh(cache[Source[q]].ts) /\ Source[q] \in Public => pc'[q] = "insert")
          /\ (Source[q] \notin Public => pc'[q] = "insert")
      BY <1>1 DEF Lookup
    <3> QED BY <3>1, <3>2
  <2>4. pc'[q] # "none" /\ knew' \subseteq knew \cup {q}
    BY <1>1 DEF Lookup
  <2>5. UNCHANGED <<cache, learnt, calls>> /\ \A p \in Requests \ {q} : pc'[p] = pc[p]
    BY <1>1 DEF Lookup
  <2> QED BY <2>2, <2>3, <2>4, <2>5
<1>2. CASE Acquire(q)
  BY <1>2 DEF Acquire
<1>3. CASE Call(q)
  BY <1>3 DEF Call
<1>4. CASE CallFails(q)
  BY <1>4 DEF CallFails
<1>5. CASE Answered(q)
  BY <1>5 DEF Answered
<1>6. CASE Store(q)
  BY <1>6 DEF Store
<1>7. CASE CacheFails(q)
  BY <1>7 DEF CacheFails
<1> QED BY <1>1, <1>2, <1>3, <1>4, <1>5, <1>6, <1>7 DEF LookupNext

\* No other step looks up.
LEMMA NextCache == Typed /\ CacheInv /\ [Next]_vars => CacheInv'
<1> SUFFICES ASSUME Typed, CacheInv, [Next]_vars PROVE CacheInv'
  OBVIOUS
<1>0. /\ pc \in [Requests -> {"none", "wait", "throttle", "call", "store", "insert", "label",
                             "answered", "failed"}]
      /\ calls \subseteq [by : Requests, at : Nat] /\ knew \subseteq Requests
  BY DEF Typed, TypeOK, EnrichersTypeOK
<1>1. CASE \E q \in Requests : LookupNext(q)
  BY <1>1, LookupCache
<1>2. CASE Tick
  BY <1>2 DEF Tick, CacheInv, CacheSparesCalls
<1>3. CASE \E q \in Requests : Insert(q) \/ LabelSession(q)
  BY <1>0, <1>3 DEF Insert, LabelSession, Goto, CacheInv, CacheSparesCalls
<1>4. CASE UNCHANGED enricherVars
  BY <1>4 DEF enricherVars, CacheInv, CacheSparesCalls
<1>5. CASE BackfillRead \/ BackfillCommit \/ ExportStep \/ ExportsRaise \/ ShipperDies
  BY <1>4, <1>5 DEF BackfillRead, BackfillCommit, ExportStep, ExportsRaise, ShipperDies,
       TriggerExports, ReadAttackers, WriteBlocklist, WriteRule, SigmaDone, WriteBundle,
       ShipperStarts, Interrupted
<1> QED BY <1>1, <1>2, <1>3, <1>4, <1>5 DEF Next, vars

\* CacheSparesCalls holds: a look-up that begins while an answer is fresh makes no call.
THEOREM SparedCalls == Spec => []CacheSparesCalls
<1>1. CacheInv => CacheSparesCalls
  BY DEF CacheInv
<1> QED BY <1>1, InitTyped, NextTyped, InitCache, NextCache, PTL DEF Spec

-----------------------------------------------------------------------------
(* The exports.                                                            *)

\* The history holds what is critical now, and all that was read from the table.
SuspectsInv ==
  /\ CriticalNow \subseteq suspects
  /\ batch # Null => batch \subseteq suspects
  /\ OnlySuspects

\* Initially the table and the exports are empty.
LEMMA InitSuspects == Init => SuspectsInv
BY DEF Init, SuspectsInv, OnlySuspects, CriticalNow, Groups, GroupOf

\* Each step of the table adds what it makes critical; each write has read before.
LEMMA NextSuspects == Typed /\ SuspectsInv /\ [Next]_vars => SuspectsInv'
<1> SUFFICES ASSUME Typed, SuspectsInv, [Next]_vars PROVE SuspectsInv'
  OBVIOUS
<1>1. CASE UNCHANGED <<rows, row, suspects>> /\ UNCHANGED exportVars
  <2>1. CriticalNow' = CriticalNow
    BY <1>1 DEF CriticalNow
  <2> QED BY <1>1, <2>1 DEF exportVars, SuspectsInv, OnlySuspects
<1>2. CASE Changed /\ UNCHANGED exportVars
  BY <1>2 DEF Changed, exportVars, SuspectsInv, OnlySuspects
<1>3. CASE ExportStep \/ ExportsRaise \/ ShipperDies
  <2>1. UNCHANGED tableVars
    BY <1>3 DEF ExportStep, ExportsRaise, ShipperDies, TriggerExports, ReadAttackers,
         WriteBlocklist, WriteRule, SigmaDone, WriteBundle, ShipperStarts, Interrupted
  <2>2. CriticalNow' = CriticalNow /\ suspects' = suspects
    BY <2>1 DEF tableVars, CriticalNow
  <2> USE DEF SuspectsInv, OnlySuspects
  <2>3. CASE TriggerExports
    BY <2>2, <2>3 DEF TriggerExports
  <2>4. CASE ReadAttackers
    <3>1. batch' \subseteq suspects
      BY <2>4, BatchType DEF ReadAttackers, Typed
    <3> QED BY <2>2, <2>4, <3>1 DEF ReadAttackers
  <2>5. CASE WriteBlocklist
    BY <2>2, <2>5 DEF WriteBlocklist
  <2>6. CASE WriteRule
    BY <2>2, <2>6 DEF WriteRule
  <2>7. CASE SigmaDone
    BY <2>2, <2>7 DEF SigmaDone
  <2>8. CASE WriteBundle
    BY <2>2, <2>8 DEF WriteBundle
  <2>9. CASE ShipperStarts
    BY <2>2, <2>9 DEF ShipperStarts
  <2>10. ASSUME NEW where \in {"idle", "down"}, Interrupted(where) PROVE SuspectsInv'
    BY <2>2, <2>10 DEF Interrupted
  <2> QED BY <1>3, <2>3, <2>4, <2>5, <2>6, <2>7, <2>8, <2>9, <2>10
          DEF ExportStep, ExportsRaise, ShipperDies
<1>4. CASE \E q \in Requests : Insert(q) \/ LabelSession(q)
  BY <1>1, <1>2, <1>4 DEF Insert, LabelSession
<1>5. CASE BackfillRead \/ BackfillCommit
  BY <1>1, <1>2, <1>5 DEF BackfillRead, BackfillCommit
<1>6. CASE UNCHANGED <<tableVars, exportVars, quiet>> \/ UNCHANGED vars
  BY <1>1, <1>6 DEF vars, tableVars
<1> QED BY <1>3, <1>4, <1>5, <1>6 DEF Next

\* OnlySuspects holds: whatever is read, written, interrupted and changed in between,
\* each exported address was critical in some state of the table.
THEOREM SuspectsOnly == Spec => []OnlySuspects
<1>1. SuspectsInv => OnlySuspects
  BY DEF SuspectsInv
<1> QED BY <1>1, InitTyped, NextTyped, InitSuspects, NextSuspects, PTL DEF Spec

-----------------------------------------------------------------------------
(* What the exports must contain.                                          *)

\* A set of numbers up to n that is not empty has a greatest element.
LEMMA GreatestNatural ==
  ASSUME NEW n \in Nat, NEW S \in SUBSET (1 .. n), S # {}
  PROVE  \E i \in S : \A j \in S : i >= j
<1> DEFINE R == OpToRel(<, Nat)
           T == {n - i : i \in S}
<1>1. IsWellFoundedOn(R, Nat)
  BY NatLessThanWellFounded
<1>2. T \subseteq Nat /\ T # {}
  <2>1. PICK i \in S : TRUE
    OBVIOUS
  <2>2. n - i \in T
    BY <2>1
  <2>3. \A j \in 1 .. n : n - j \in Nat
    OBVIOUS
  <2> QED BY <2>2, <2>3
<1>3. \A x, y \in Nat : y < x => <<y, x>> \in R
  BY DEF OpToRel
<1> HIDE DEF R
<1>4. PICK x \in T : \A y \in T : <<y, x>> \notin R
  BY <1>1, <1>2, WFMin
<1>5. PICK i \in S : x = n - i
  BY <1>4
<1>6. ASSUME NEW j \in S PROVE i >= j
  <2>1. ~(n - j < n - i)
    BY <1>2, <1>3, <1>4, <1>5
  <2> QED BY <2>1
<1> QED BY <1>6

\* A group whose sessions have classes, all of them bruteforcer or bot, has one of
\* the two as its last class.
LEMMA LastClassOfLoud ==
  ASSUME TypeOK, NEW g \in Groups(rows, row),
         {row[q].class : q \in Members(rows, row, g)} \ {Null} # {},
         {row[q].class : q \in Members(rows, row, g)} \ {Null} \subseteq {"bruteforcer", "bot"}
  PROVE  LastClass(rows, row, g) \in {"bruteforcer", "bot"}
<1> DEFINE found == {i \in DOMAIN Alphabetical : \E q \in Members(rows, row, g) :
                                                   row[q].class = Alphabetical[i]}
<1>1. found # {}
  <2>1. PICK q \in Members(rows, row, g) : row[q].class # Null
    OBVIOUS
  <2>2. row[q] \in Row
    BY <2>1 DEF Members, TypeOK
  <2>3. row[q].class \in Classes
    BY <2>1, <2>2 DEF Row
  <2>4. \E i \in DOMAIN Alphabetical : Alphabetical[i] = row[q].class
    BY <2>3, ExportsAssumption
  <2> QED BY <2>1, <2>4
<1>2. PICK i \in found : \A j \in found : i >= j
  <2>1. Len(Alphabetical) \in Nat /\ DOMAIN Alphabetical = 1 .. Len(Alphabetical)
    BY ExportsAssumption
  <2>2. found \in SUBSET (1 .. Len(Alphabetical))
    BY <2>1
  <2> HIDE DEF found
  <2> QED BY <1>1, <2>1, <2>2, GreatestNatural
<1>3. LastClass(rows, row, g) = Alphabetical[CHOOSE k \in found : \A j \in found : k >= j]
  BY <1>1 DEF LastClass
<1>4. PICK k \in found : LastClass(rows, row, g) = Alphabetical[k]
  <2> HIDE DEF found
  <2> QED BY <1>2, <1>3
<1>5. PICK q \in Members(rows, row, g) : row[q].class = Alphabetical[k]
  BY <1>4
<1>6. Alphabetical[k] # Null
  BY <1>4, ExportsAssumption
<1> QED BY <1>4, <1>5, <1>6

\* Few groups: as many as rows at most.
LEMMA GroupsAreFinite ==
  ASSUME TypeOK
  PROVE  IsFiniteSet(Groups(rows, row))
<1> DEFINE f == [q \in rows |-> GroupOf(row, q)]
<1>1. IsFiniteSet(rows)
  BY EnrichersAssumption, FS_Subset DEF TypeOK
<1>2. f \in Surjection(rows, Groups(rows, row))
  BY DEF Groups, Surjection
<1> QED BY <1>1, <1>2, FS_Surjection

\* LIMIT cannot hide a group that at most LIMIT groups match in events.
LEMMA LimitSpares ==
  ASSUME TypeOK, NEW L \in Listings, NEW g \in Groups(rows, row),
         Cardinality({h \in Groups(rows, row) :
                        Events(rows, row, h) >= Events(rows, row, g)}) <= LIMIT
  PROVE  g \in L
<1> DEFINE all == Groups(rows, row)
           H == {h \in all : Events(rows, row, h) >= Events(rows, row, g)}
<1>1. IsFiniteSet(all) /\ Cardinality(all) \in Nat
  BY GroupsAreFinite, FS_CardinalityType
<1>2. /\ L \subseteq all
      /\ Cardinality(L) = IF Cardinality(all) <= LIMIT THEN Cardinality(all) ELSE LIMIT
      /\ \A h \in L, k \in all \ L : Events(rows, row, h) >= Events(rows, row, k)
  BY DEF Listings
<1>3. IsFiniteSet(L)
  BY <1>1, <1>2, FS_Subset
<1>4. CASE Cardinality(all) <= LIMIT
  <2> HIDE DEF all
  <2>1. L = all
    BY <1>1, <1>2, <1>4, FS_Subset
  <2> QED BY <2>1 DEF all
<1>5. CASE ~(Cardinality(all) <= LIMIT) /\ g \notin L
  <2>1. Members(rows, row, g) \subseteq rows /\ IsFiniteSet(rows)
    BY EnrichersAssumption, FS_Subset DEF Members, TypeOK
  <2>2. Events(rows, row, g) \in Nat
    BY <2>1, FS_Subset, FS_CardinalityType DEF Events
  <2>3. L \cup {g} \subseteq H
    BY <1>2, <1>5, <2>2
  <2>4. IsFiniteSet(H)
    BY <1>1, FS_Subset
  <2>5. Cardinality(L \cup {g}) = LIMIT + 1
    BY <1>2, <1>3, <1>5, FS_AddElement
  <2>6. Cardinality(L \cup {g}) <= Cardinality(H) /\ Cardinality(H) \in Nat
    <3> HIDE DEF H
    <3> QED BY <2>3, <2>4, FS_Subset, FS_CardinalityType
  <2> QED BY <2>5, <2>6, ExportsAssumption
<1> QED BY <1>4, <1>5

\* Whatever listing a function of the exports reads, it finds the addresses the
\* reader expects.
LEMMA LoudIsRead ==
  ASSUME TypeOK, NEW b \in CriticalAddresses, NEW a \in Addresses, Loud(a)
  PROVE  a \in b
<1>1. PICK L \in Listings : b = {g[1] : g \in {h \in L : Critical(rows, row, h)}}
  BY DEF CriticalAddresses
<1> DEFINE events(g) == Members(rows, row, g)
           classes(g) == {row[q].class : q \in events(g)} \ {Null}
<1>2. PICK g \in Groups(rows, row) :
        /\ g[1] = a
        /\ Cardinality({h \in Groups(rows, row) :
                          Events(rows, row, h) >= Cardinality(events(g))}) <= LIMIT
        /\ \/ \E q \in events(g) : row[q].score # Null /\ row[q].score >= ABUSE_THRESHOLD
           \/ classes(g) # {} /\ classes(g) \subseteq {"bruteforcer", "bot"}
  BY DEF Loud
<1>3. g \in L
  BY <1>2, LimitSpares DEF Events
<1>4. Critical(rows, row, g)
  BY <1>2, LastClassOfLoud DEF Critical
<1> QED BY <1>1, <1>2, <1>3, <1>4

\* While no row has changed since the start of an export, what it has read and
\* written has every such address; and no read outlives its export.
Louds == {a \in Addresses : Loud(a)}

QuietInv ==
  /\ exporter \in {"down", "idle"} => batch = Null
  /\ quiet =>
       /\ exporter \in {"sigma", "stix"} => blocklist # Null /\ Louds \subseteq blocklist
       /\ exporter \in {"blocklist", "stix"} /\ batch # Null => Louds \subseteq batch
       /\ exporter = "sigma" /\ batch # Null => Louds \subseteq rules \cup batch
       /\ exporter = "stix" => Louds \subseteq rules

\* QuietInv holds initially: the exporter has read nothing.
LEMMA InitQuiet == Init => QuietInv
BY DEF Init, QuietInv

\* Every step keeps QuietInv.
LEMMA NextQuiet == Typed /\ QuietInv /\ [Next]_vars => QuietInv'
<1> SUFFICES ASSUME Typed, QuietInv, [Next]_vars PROVE QuietInv'
  OBVIOUS
<1> USE DEF QuietInv
<1>1. CASE UNCHANGED <<rows, row>> /\ UNCHANGED <<exportVars, quiet>>
  <2>1. Louds' = Louds
    BY <1>1 DEF Louds, Loud
  <2> QED BY <1>1, <2>1 DEF exportVars
<1>2. CASE Changed /\ UNCHANGED exportVars
  BY <1>2 DEF Changed, exportVars
<1>3. CASE ExportStep \/ ExportsRaise \/ ShipperDies
  <2>1. UNCHANGED <<rows, row>>
    BY <1>3 DEF ExportStep, ExportsRaise, ShipperDies, TriggerExports, ReadAttackers,
         WriteBlocklist, WriteRule, SigmaDone, WriteBundle, ShipperStarts, Interrupted,
         tableVars
  <2>2. Louds' = Louds
    BY <2>1 DEF Louds, Loud
  <2>3. CASE TriggerExports
    BY <2>2, <2>3 DEF TriggerExports
  <2>4. CASE ReadAttackers
    <3>1. Louds \subseteq batch'
      BY <2>4, LoudIsRead DEF ReadAttackers, Louds, Typed
    <3> QED BY <2>2, <2>4, <3>1 DEF ReadAttackers
  <2>5. CASE WriteBlocklist
    BY <2>2, <2>5 DEF WriteBlocklist
  <2>6. CASE WriteRule
    BY <2>2, <2>6 DEF WriteRule
  <2>7. CASE SigmaDone
    <3>1. {} # Null
      BY ExportsAssumption
    <3> QED BY <2>2, <2>7, <3>1 DEF SigmaDone
  <2>8. CASE WriteBundle
    BY <2>2, <2>8 DEF WriteBundle
  <2>9. CASE ShipperStarts
    BY <2>2, <2>9 DEF ShipperStarts
  <2>10. ASSUME NEW where \in {"idle", "down"}, Interrupted(where) PROVE QuietInv'
    BY <2>10 DEF Interrupted
  <2> QED BY <1>3, <2>3, <2>4, <2>5, <2>6, <2>7, <2>8, <2>9, <2>10
          DEF ExportStep, ExportsRaise, ShipperDies
<1>4. CASE \E q \in Requests : Insert(q) \/ LabelSession(q)
  BY <1>1, <1>2, <1>4 DEF Insert, LabelSession
<1>5. CASE BackfillRead \/ BackfillCommit
  BY <1>1, <1>2, <1>5 DEF BackfillRead, BackfillCommit
<1>6. CASE UNCHANGED <<tableVars, exportVars, quiet>> \/ UNCHANGED vars
  BY <1>1, <1>6 DEF vars, tableVars
<1> QED BY <1>3, <1>4, <1>5, <1>6 DEF Next

\* The step that ends an export leaves the three of them complete.
LEMMA StepQuiet ==
  Typed /\ QuietInv /\ [Next]_vars =>
    [exporter = "stix" /\ exporter' = "idle" /\ stops' = stops /\ quiet =>
       \A a \in Addresses : Loud(a) => Exported(a)']_vars
<1> SUFFICES ASSUME Typed, QuietInv, Next,
                    exporter = "stix", exporter' = "idle", stops' = stops, quiet
             PROVE  \A a \in Addresses : Loud(a) => Exported(a)'
  OBVIOUS
<1>1. stops + 1 # stops
  BY DEF Typed, TypeOK
<1>2. ~ExportsRaise /\ ~ShipperDies
  BY <1>1 DEF ExportsRaise, ShipperDies, Interrupted
<1>3. ExportStep
  <2>1. exporter' # exporter
    OBVIOUS
  <2> QED BY <1>2, <2>1 DEF Next, Insert, LabelSession, BackfillRead, BackfillCommit, exportVars
<1>4. WriteBundle
  BY <1>3 DEF ExportStep, TriggerExports, ReadAttackers, WriteBlocklist, WriteRule,
       SigmaDone, ShipperStarts
<1>5. /\ blocklist' # Null /\ Louds \subseteq blocklist'
      /\ bundle' # Null /\ Louds \subseteq bundle'
      /\ Louds \subseteq rules'
  BY <1>4 DEF WriteBundle, QuietInv
<1> QED BY <1>5 DEF Louds, Exported

\* QuietExportIsComplete holds for every LIMIT, every number of rows and groups, and
\* whatever listing each of the three reads gets.
THEOREM QuietComplete == Spec => QuietExportIsComplete
BY InitTyped, NextTyped, InitQuiet, NextQuiet, StepQuiet, PTL DEF Spec, QuietExportIsComplete
=============================================================================
