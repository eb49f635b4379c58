-------------------------------- MODULE Exports --------------------------------
(***************************************************************************)
(* From stored events to the defensive exports: the enriched row of an     *)
(* event (analyzer/db.py), the class its session gets (api.py), the later  *)
(* geolocation of rows (backfill_geoip.py), the view `attackers`, and the  *)
(* three exports the shipper writes from it, again and again (exports.py,  *)
(* shipper.py, _trigger_exports).                                          *)
(***************************************************************************)
EXTENDS Enrichers, Sequences

CONSTANTS
  Session,         \* Session[q]: the session of the event of q
  Alphabetical,    \* the profiles as text is ordered: a sequence
  Classes,         \* bound: the profiles sessions get in a behaviour
  ABUSE_THRESHOLD,
  LIMIT,           \* LIMIT 100 of the query
  MaxStops         \* bound: deaths of the shipper and exports that raise

ASSUME ExportsAssumption ==
  /\ Alphabetical \in Seq(STRING)
  /\ Null \notin STRING /\ \A S \in SUBSET Addresses : Null # S
  /\ Classes \subseteq {Alphabetical[i] : i \in DOMAIN Alphabetical}
  /\ ABUSE_THRESHOLD \in Nat \ {0} /\ LIMIT \in Nat /\ MaxStops \in Nat
  /\ DOMAIN Session = Requests /\ Addresses # {}

VARIABLES
  rows,            \* the requests whose event is in the table
  row,             \* row[q]: address, country, located (latitude is not NULL),
                   \* score, class
  backfill,        \* "idle", "read" or "done"
  missing,         \* addresses the backfill is to locate
  exporter,        \* "down", "idle", or the function of generate_all that runs
  batch,           \* addresses it has read and not yet written, Null before
  blocklist,       \* addresses in block_list.iptables; Null when it is truncated
  bundle,          \* addresses in iocs.json; Null when it is truncated
  rules,           \* addresses with a whole file in rules/
  stops,           \* deaths and exceptions so far
  quiet,           \* history: no row has changed since generate_all was called
  suspects         \* history: addresses that were critical in some state

tableVars == <<rows, row, backfill, missing, suspects>>
exportVars == <<exporter, batch, blocklist, bundle, rules, stops>>
vars == <<enricherVars, tableVars, exportVars, quiet>>

-----------------------------------------------------------------------------
(* The view.                                                               *)

\* GROUP BY src_ip, country
GroupOf(r, q) == <<r[q].address, r[q].country>>
Members(R, r, g) == {q \in R : GroupOf(r, q) = g}
Groups(R, r) == {GroupOf(r, q) : q \in R}

\* MAX(classification) is the last profile in alphabetical order; MAX of no value is
\* NULL.
LastClass(R, r, g) ==
  LET found == {i \in DOMAIN Alphabetical : \E q \in Members(R, r, g) :
                                              r[q].class = Alphabetical[i]}
  IN  IF found = {} THEN Null
      ELSE Alphabetical[CHOOSE i \in found : \A j \in found : i >= j]

\* Mutant of Critical: a high score counts where there is no class only.
CriticalUnlessClassified(R, r, g) ==
  IF LastClass(R, r, g) # Null
  THEN LastClass(R, r, g) \in {"bruteforcer", "bot"}
  ELSE \E q \in Members(R, r, g) : r[q].score # Null /\ r[q].score >= ABUSE_THRESHOLD

\* _critical_attackers, on one group: MAX(abuse_score) or MAX(classification).
Critical(R, r, g) ==
  \/ \E q \in Members(R, r, g) : r[q].score # Null /\ r[q].score >= ABUSE_THRESHOLD
  \/ LastClass(R, r, g) \in {"bruteforcer", "bot"}

Events(R, r, g) == Cardinality(Members(R, r, g))

\* ORDER BY events DESC LIMIT: groups with as many events come in any order.
Listings ==
  LET all == Groups(rows, row) IN
  {L \in SUBSET all :
     /\ Cardinality(L) = IF Cardinality(all) <= LIMIT THEN Cardinality(all) ELSE LIMIT
     /\ \A g \in L, h \in all \ L : Events(rows, row, g) >= Events(rows, row, h)}

\* Mutant of CriticalAddresses: the attackers, critical or not.
ListedAddresses == {{g[1] : g \in L} : L \in Listings}

\* Mutant of CriticalAddresses: the rows of the view are kept, not their address.
CriticalRows == {{g \in L : Critical(rows, row, g)} : L \in Listings}

\* What _critical_attackers may return now.
CriticalAddresses == {{g[1] : g \in {h \in L : Critical(rows, row, h)}} : L \in Listings}

Init ==
  /\ EnrichersInit
  /\ rows = {}
  /\ row = [q \in Requests |->
              [address |-> CHOOSE a \in Addresses : TRUE, country |-> Null, located |-> FALSE,
               score |-> Null, class |-> Null]]
  /\ backfill = "idle" /\ missing = {}
  /\ exporter = IF deployment.shipper THEN "idle" ELSE "down"
  /\ batch = Null /\ blocklist = {} /\ bundle = {} /\ rules = {} /\ stops = 0
  /\ quiet = FALSE
  /\ suspects = {}

-----------------------------------------------------------------------------
(* The table.                                                              *)

\* The addresses of groups that are critical, listed or not.
CriticalNow == {g[1] : g \in {h \in Groups(rows, row) : Critical(rows, row, h)}}

\* A statement changed the table.
Changed ==
  /\ quiet' = FALSE
  /\ suspects' = suspects \cup CriticalNow'

\* enrich: what the enrichers found, and what the event carries in its place.
Enriched(q) ==
  LET geo == Geo[Source[q]]
      live == deployment.geoip /\ geo.country # Null
      spot == deployment.geoip /\ geo.located
  IN  [address |-> Source[q],
       country |-> IF live THEN geo.country ELSE Provided[q].country,
       located |-> spot \/ Provided[q].located,
       score |-> IF score[q] # Null THEN score[q] ELSE Provided[q].score,
       class |-> Null]

\* insert_event
Insert(q) ==
  /\ pc[q] = "insert"
  /\ rows' = rows \cup {q}
  /\ row' = [row EXCEPT ![q] = Enriched(q)]
  /\ Changed
  /\ Goto(q, "label")
  /\ UNCHANGED <<deployment, now, cache, lock, lastCall, wake, score, calls, learnt, knew,
                 backfill, missing, exportVars>>

\* The class of the whole session, when classify_session has one (module Ingest).
LabelSession(q) ==
  /\ pc[q] = "label"
  /\ UNCHANGED rows
  /\ \/ UNCHANGED <<row, quiet, suspects>>
     \/ \E c \in Classes :
          /\ row' = [p \in Requests |-> IF p \in rows /\ Session[p] = Session[q]
                                        THEN [row[p] EXCEPT !.class = c] ELSE row[p]]
          /\ Changed
  /\ Goto(q, "answered")
  /\ UNCHANGED <<deployment, now, cache, lock, lastCall, wake, score, calls, learnt, knew,
                 backfill, missing, exportVars>>

\* backfill_geoip, run by hand once the base is there: the addresses of rows without
\* a latitude.
BackfillRead ==
  /\ backfill = "idle" /\ deployment.base
  /\ backfill' = "read"
  /\ missing' = {row[q].address : q \in {p \in rows : ~row[p].located}}
  /\ UNCHANGED <<enricherVars, rows, row, suspects, exportVars, quiet>>

\* One transaction of one UPDATE per public address the base can place.
BackfillCommit ==
  /\ backfill = "read"
  /\ backfill' = "done"
  /\ LET found == {a \in missing \cap Public : Geo[a].located} IN
     row' = [q \in Requests |->
               IF q \in rows /\ row[q].address \in found /\ ~row[q].located
               THEN [row[q] EXCEPT !.located = TRUE, !.country = Geo[row[q].address].country]
               ELSE row[q]]
  /\ UNCHANGED <<rows, missing>>
  /\ Changed
  /\ UNCHANGED <<enricherVars, exportVars>>

-----------------------------------------------------------------------------
(* The shipper.  What it does besides is module Shipper.                   *)

\* Five minutes have passed, or the process has just started.
TriggerExports ==
  /\ exporter = "idle"
  /\ exporter' = "blocklist"
  /\ quiet' = TRUE
  /\ UNCHANGED <<enricherVars, tableVars, batch, blocklist, bundle, rules, stops>>

\* Each of the three functions reads the view for itself.
ReadAttackers ==
  /\ exporter \in {"blocklist", "sigma", "stix"} /\ batch = Null
  /\ batch' \in CriticalAddresses
  /\ UNCHANGED <<enricherVars, tableVars, exporter, blocklist, bundle, rules, stops, quiet>>

\* Mutant of WriteBlocklist: a file that is there is left alone.
WriteBlocklistOnce ==
  /\ exporter = "blocklist" /\ batch # Null
  /\ blocklist' = IF blocklist \in {Null, {}} THEN batch ELSE blocklist
  /\ batch' = Null
  /\ exporter' = "sigma"
  /\ UNCHANGED <<enricherVars, tableVars, bundle, rules, stops, quiet>>

WriteBlocklist ==
  /\ exporter = "blocklist" /\ batch # Null
  /\ blocklist' = batch
  /\ batch' = Null
  /\ exporter' = "sigma"
  /\ UNCHANGED <<enricherVars, tableVars, bundle, rules, stops, quiet>>

\* One file per address; the rules of earlier runs stay.
WriteRule ==
  /\ exporter = "sigma" /\ batch # Null
  /\ \E a \in batch : rules' = rules \cup {a} /\ batch' = batch \ {a}
  /\ UNCHANGED <<enricherVars, tableVars, exporter, blocklist, bundle, stops, quiet>>

SigmaDone ==
  /\ exporter = "sigma" /\ batch = {}
  /\ batch' = Null
  /\ exporter' = "stix"
  /\ UNCHANGED <<enricherVars, tableVars, blocklist, bundle, rules, stops, quiet>>

WriteBundle ==
  /\ exporter = "stix" /\ batch # Null
  /\ bundle' = batch
  /\ batch' = Null
  /\ exporter' = "idle"
  /\ UNCHANGED <<enricherVars, tableVars, blocklist, rules, stops, quiet>>

\* PostgreSQL or the disk refuses, and _trigger_exports swallows it ("idle"), or the
\* process dies ("down").  write_text truncates a file before it writes it.
Interrupted(where) ==
  /\ stops < MaxStops
  /\ stops' = stops + 1
  /\ exporter' = where
  /\ batch' = Null
  /\ blocklist' \in {blocklist} \cup (IF exporter = "blocklist" /\ batch # Null THEN {Null} ELSE {})
  /\ bundle' \in {bundle} \cup (IF exporter = "stix" /\ batch # Null THEN {Null} ELSE {})
  /\ rules' \in {rules} \cup (IF exporter = "sigma" /\ batch # Null
                              THEN {rules \ {a} : a \in batch} ELSE {})
  /\ UNCHANGED <<enricherVars, tableVars, quiet>>

ExportsRaise == exporter \in {"blocklist", "sigma", "stix"} /\ Interrupted("idle")
ShipperDies == exporter # "down" /\ Interrupted("down")

ShipperStarts ==
  /\ exporter = "down" /\ deployment.shipper
  /\ exporter' = "idle"
  /\ UNCHANGED <<enricherVars, tableVars, batch, blocklist, bundle, rules, stops, quiet>>

ExportStep ==
  \/ TriggerExports \/ ReadAttackers \/ WriteBlocklist \/ WriteRule \/ SigmaDone
  \/ WriteBundle \/ ShipperStarts

Next ==
  \/ \E q \in Requests : LookupNext(q) /\ UNCHANGED <<tableVars, exportVars, quiet>>
  \/ Tick /\ UNCHANGED <<tableVars, exportVars, quiet>>
  \/ \E q \in Requests : Insert(q) \/ LabelSession(q)
  \/ BackfillRead \/ BackfillCommit
  \/ ExportStep \/ ExportsRaise \/ ShipperDies

\* The loop of the shipper goes on, and its container is restarted.
Fairness == WF_vars(ExportStep)

Spec == Init /\ [][Next]_vars /\ Fairness

-----------------------------------------------------------------------------
Row == [address : Addresses, country : STRING \cup {Null}, located : BOOLEAN, score : Nat \cup {Null},
        class : Classes \cup {Null}]

TypeOK ==
  /\ EnrichersTypeOK
  /\ rows \subseteq Requests
  /\ row \in [Requests -> Row]
  /\ backfill \in {"idle", "read", "done"} /\ missing \subseteq Addresses
  /\ exporter \in {"down", "idle", "blocklist", "sigma", "stix"}
  /\ batch \in (SUBSET Addresses) \cup {Null}
  /\ blocklist \in (SUBSET Addresses) \cup {Null}
  /\ bundle \in (SUBSET Addresses) \cup {Null}
  /\ rules \subseteq Addresses
  /\ stops \in Nat /\ quiet \in BOOLEAN /\ suspects \subseteq Addresses

\* What the reader of the exports expects of an address that LIMIT cannot hide: a
\* score at the threshold for one of its events, or sessions of bruteforcers or bots
\* and none of another profile, under one of the countries it has.
Loud(a) ==
  \E g \in Groups(rows, row) :
    LET events == Members(rows, row, g)
        classes == {row[q].class : q \in events} \ {Null}
    IN  /\ g[1] = a
        /\ Cardinality({h \in Groups(rows, row) :
                          Events(rows, row, h) >= Cardinality(events)}) <= LIMIT
        /\ \/ \E q \in events : row[q].score # Null /\ row[q].score >= ABUSE_THRESHOLD
           \/ classes # {} /\ classes \subseteq {"bruteforcer", "bot"}

Exported(a) ==
  /\ blocklist # Null /\ a \in blocklist
  /\ bundle # Null /\ a \in bundle
  /\ a \in rules

\* An export during which no row changes puts every such address in the three of
\* them, whatever the exports before it left: truncated files, or an older table
\* (exports.py:115, three reads).
QuietExportIsComplete ==
  [][exporter = "stix" /\ exporter' = "idle" /\ stops' = stops /\ quiet =>
       \A a \in Addresses : Loud(a) => Exported(a)']_vars

\* No address is exported that was not critical in some state of the table, although
\* the three files come from three reads, between which rows are inserted,
\* relabelled and moved to another country.
OnlySuspects ==
  rules \cup (IF blocklist = Null THEN {} ELSE blocklist)
        \cup (IF bundle = Null THEN {} ELSE bundle) \subseteq suspects

\* Once the table has settled, the exports have every such address for good, whatever
\* deaths and exceptions came before (shipper.py:103: every five minutes, and at
\* once after a start).
ExportsCatchUp ==
  deployment.shipper => <>[](\A a \in Addresses : Loud(a) => Exported(a))
=============================================================================
