------------------------------- MODULE Shipper -------------------------------
(***************************************************************************)
(* The log shipper (analyzer/shipper.py) between the honeypots' writers    *)
(* (honeypots/common/events.py, EventWriter) and the analyzer.             *)
(*                                                                         *)
(* A log file is a sequence of cells.  The line of an event is two cells,  *)
(* its "head" and its "tail"; the newline is the end of the tail.  A short *)
(* line reaches the file in one write(2); a line longer than the stream's  *)
(* 8 KiB buffer (http.body is not truncated) reaches it in two, and the    *)
(* shipper, another process, may read in between.  Lines are UTF-8 and not *)
(* escaped (ensure_ascii=False), so that a head may end in the middle of a *)
(* character.  Offsets count cells.                                        *)
(*                                                                         *)
(* The analyzer is reduced to what the shipper can tell of it: it is up or *)
(* down, it answers or is too slow (the POST times out after 5 s and the   *)
(* handler goes on), and the table ignores an event_id it already has.     *)
(* Module Ingest models the handler itself.                                *)
(***************************************************************************)
EXTENDS Naturals, Sequences

CONSTANTS
  N,                 \* number of followed services: Len(SERVICES), 4 in the code
  Events,            \* events the honeypots can emit
  NoEvent,           \* not an event: nothing being written or posted
  Large,             \* those whose line needs two write(2) calls
  Refused,           \* those the analyzer answers 422 or 500 to
  SHIP_FROM_START,   \* environment variable SHIP_FROM_START = "1"
  MaxBoots,          \* bound: starts of the shipper process
  MaxRotations,      \* bound: truncations or deletions of log files
  MaxOutages         \* bound: stops of the analyzer

Service == 1 .. N

ASSUME ShipperAssumption ==
  /\ N \in Nat \ {0}
  /\ NoEvent \notin Events
  /\ Large \subseteq Events
  /\ Refused \subseteq Events
  /\ SHIP_FROM_START \in BOOLEAN
  /\ MaxBoots \in Nat
  /\ MaxRotations \in Nat
  /\ MaxOutages \in Nat

VARIABLES
  log,               \* log[s]: the file /logs/<s>.jsonl, <<>> when empty or missing
  writing,           \* writing[s]: event whose head only is in the file
  emitted,           \* events handed to EventWriter.write
  halved,            \* those whose head ends in the middle of a character
  pc,                \* where the shipper is in run()
  cur,               \* the service the loop is at
  pos,               \* position of fh in the file of cur
  line,              \* event being posted
  offsets,           \* the dict `offsets`, lost when the process dies
  disk,              \* .shipper_offsets.json: absent, empty (truncated) or whole
  copies,            \* copies[e]: lines of event e in all-events.jsonl
  up,                \* the analyzer accepts connections
  inflight,          \* events whose POST handler is running
  db,                \* events in the table
  boots, rotations, outages,   \* the bounded counters
  dropped,           \* history: events whose line did not parse when it was read
  seeded             \* history: events in the files when _seed_offsets_at_eof passed them

honeypotVars == <<log, writing, emitted, halved>>
shipperVars  == <<pc, cur, pos, line, offsets, disk, copies, boots, dropped, seeded>>
analyzerVars == <<up, inflight, db, outages>>
vars == <<honeypotVars, shipperVars, analyzerVars, rotations>>

Cell == [ev : Events, part : {"head", "tail"}]
Head1(e) == [ev |-> e, part |-> "head"]
Tail1(e) == [ev |-> e, part |-> "tail"]

\* Contents of the offsets file; `at` means something only when it is whole.
DiskFile == [state : {"absent", "empty", "whole"}, at : [Service -> Nat]]
Zeros == [s \in Service |-> 0]

Init ==
  /\ log = [s \in Service |-> <<>>]
  /\ writing = [s \in Service |-> NoEvent]
  /\ emitted = {} /\ halved = {}
  /\ pc = "down" /\ cur = 1 /\ pos = 0 /\ line = NoEvent
  /\ offsets = Zeros
  /\ disk = [state |-> "absent", at |-> Zeros]
  /\ copies = [e \in Events |-> 0]
  /\ up = TRUE /\ inflight = {} /\ db = {}
  /\ boots = 0 /\ rotations = 0 /\ outages = 0
  /\ dropped = {} /\ seeded = {}

-----------------------------------------------------------------------------
(* Honeypots: EventWriter.write under _write_lock, one file per service.   *)

EmitWhole(s, e) ==
  /\ e \notin emitted \cup Large
  /\ writing[s] = NoEvent
  /\ log' = [log EXCEPT ![s] = @ \o <<Head1(e), Tail1(e)>>]
  /\ emitted' = emitted \cup {e}
  /\ UNCHANGED <<writing, halved, shipperVars, analyzerVars, rotations>>

EmitHead(s, e) ==
  /\ e \in Large \ emitted
  /\ writing[s] = NoEvent
  /\ log' = [log EXCEPT ![s] = Append(@, Head1(e))]
  /\ writing' = [writing EXCEPT ![s] = e]
  /\ emitted' = emitted \cup {e}
  /\ halved' \in {halved, halved \cup {e}}
  /\ UNCHANGED <<shipperVars, analyzerVars, rotations>>

EmitTail(s) ==
  /\ writing[s] # NoEvent
  /\ log' = [log EXCEPT ![s] = Append(@, Tail1(writing[s]))]
  /\ writing' = [writing EXCEPT ![s] = NoEvent]
  /\ UNCHANGED <<emitted, halved, shipperVars, analyzerVars, rotations>>

\* The container dies between the two writes; it is restarted and the next
\* line is appended to the torn one.
HoneypotCrash(s) ==
  /\ writing[s] # NoEvent
  /\ writing' = [writing EXCEPT ![s] = NoEvent]
  /\ UNCHANGED <<log, emitted, halved, shipperVars, analyzerVars, rotations>>

\* The file is truncated, or moved away and created again at the next write
\* (then the end of a line being written goes to the moved file).
Rotate(s) ==
  /\ rotations < MaxRotations
  /\ log[s] # <<>>
  /\ log' = [log EXCEPT ![s] = <<>>]
  /\ writing' \in {writing, [writing EXCEPT ![s] = NoEvent]}
  /\ rotations' = rotations + 1
  /\ UNCHANGED <<emitted, halved, shipperVars, analyzerVars>>

-----------------------------------------------------------------------------
(* Shipper: run().                                                         *)

\* Process start: _load_offsets, then the choice to seed (no offsets file and
\* no SHIP_FROM_START).  An empty or corrupt file makes every offset 0.
Start ==
  /\ pc = "down"
  /\ boots < MaxBoots
  /\ boots' = boots + 1
  /\ offsets' = IF disk.state = "whole" THEN disk.at ELSE Zeros
  /\ pc' = IF disk.state = "absent" /\ ~SHIP_FROM_START THEN "seed" ELSE "stat"
  /\ cur' = 1
  /\ UNCHANGED <<pos, line, disk, copies, dropped, seeded, honeypotVars, analyzerVars, rotations>>

\* _seed_offsets_at_eof, one file at a time; then _save_offsets.
Seed ==
  /\ pc = "seed"
  /\ offsets' = [offsets EXCEPT ![cur] = Len(log[cur])]
  /\ seeded' = seeded \cup {log[cur][i].ev : i \in 1 .. Len(log[cur])}
  /\ IF cur < N THEN cur' = cur + 1 /\ pc' = "seed"
                ELSE cur' = 1 /\ pc' = "save"
  /\ UNCHANGED <<pos, line, disk, copies, boots, dropped, honeypotVars, analyzerVars, rotations>>

\* Mutant of NextService: the loop runs one index too far.
NextServiceTooFar ==
  IF cur <= N THEN cur' = cur + 1 /\ pc' = "stat"
              ELSE cur' = 1 /\ pc' = "save"

\* The next service of the for loop, or the save that follows the loop.
NextService ==
  IF cur < N THEN cur' = cur + 1 /\ pc' = "stat"
             ELSE cur' = 1 /\ pc' = "save"

\* The file does not exist: `continue`, its offset is kept.
Missing ==
  /\ pc = "stat"
  /\ log[cur] = <<>>
  /\ NextService
  /\ UNCHANGED <<pos, line, offsets, disk, copies, boots, dropped, seeded,
                 honeypotVars, analyzerVars, rotations>>

\* Mutant of Open: the file is opened at its end, as `tail -f` does.
OpenAtEnd ==
  /\ pc = "stat"
  /\ pos' = Len(log[cur])
  /\ offsets' = [offsets EXCEPT ![cur] = pos']
  /\ pc' = "read"
  /\ UNCHANGED <<cur, line, disk, copies, boots, dropped, seeded,
                 honeypotVars, analyzerVars, rotations>>

\* stat, the restart from 0 when the file has shrunk, open and seek.
Open ==
  /\ pc = "stat"
  /\ pos' = IF Len(log[cur]) < offsets[cur] THEN 0 ELSE offsets[cur]
  /\ offsets' = [offsets EXCEPT ![cur] = pos']
  /\ pc' = "read"
  /\ UNCHANGED <<cur, line, disk, copies, boots, dropped, seeded,
                 honeypotVars, analyzerVars, rotations>>

\* The other half of the line of cell i of file f is beside it, for a decoder that
\* started at position p.
HasOtherHalf(f, p, i) ==
  IF f[i].part = "head" THEN i < Len(f) /\ f[i + 1] = Tail1(f[i].ev)
                        ELSE i > p + 1 /\ f[i - 1] = Head1(f[i].ev)

\* Bytes that are not UTF-8: the head of a writer that died or has not gone on yet,
\* or a tail that follows a rotation or the offset itself.
Undecodable(f, p, i) == f[i].ev \in halved /\ ~HasOtherHalf(f, p, i)

\* Mutant of IsLine: the file is opened with errors="replace".
IsLineReplacing(f, p, end) ==
  /\ \A i \in p + 1 .. end - 1 : f[i].part = "head"
  /\ f[end].part = "tail" \/ end = Len(f)

\* What readline() returns at position p of file f: up to the first newline,
\* or up to the end of the file when there is none yet.  It raises instead of
\* passing bytes that are not UTF-8.
IsLine(f, p, end) ==
  /\ \A i \in p + 1 .. end - 1 : f[i].part = "head"
  /\ f[end].part = "tail" \/ end = Len(f)
  /\ \A i \in p + 1 .. end : ~Undecodable(f, p, i)

\* json.loads accepts exactly the whole line of one event.
ParsesAs(f, p, end, e) ==
  /\ end = p + 2
  /\ f[p + 1] = Head1(e)
  /\ f[end] = Tail1(e)

\* Mutant of ReadLine: the event is posted without being put in the unified log.
ReadLineNoUnify ==
  /\ pc = "read"
  /\ \E end \in pos + 1 .. Len(log[cur]), e \in Events :
       /\ ParsesAs(log[cur], pos, end, e)
       /\ pos' = end /\ line' = e /\ pc' = "post"
  /\ UNCHANGED <<cur, offsets, disk, copies, boots, dropped, seeded,
                 honeypotVars, analyzerVars, rotations>>

\* Mutant of ReadLine: a line that is not ended yet sends the reader to the end
\* it saw last, one cell further than it has read.
ReadLineOffByOne ==
  /\ pc = "read"
  /\ \E end \in pos + 1 .. Len(log[cur]), e \in Events :
       /\ ParsesAs(log[cur], pos, end, e)
       /\ pos' = end + 1 /\ line' = e /\ pc' = "post"
       /\ copies' = [copies EXCEPT ![e] = @ + 1]
  /\ UNCHANGED <<cur, offsets, disk, boots, dropped, seeded,
                 honeypotVars, analyzerVars, rotations>>

\* Mutant of ReadLine: what is there is taken for a line, ended or not.
ReadBlock ==
  /\ pc = "read"
  /\ LET f == log[cur] IN
     \E end \in pos + 1 .. Len(f) :
       /\ pos' = end
       /\ \/ \E e \in Events :
               /\ ParsesAs(f, pos, end, e)
               /\ copies' = [copies EXCEPT ![e] = @ + 1]
               /\ line' = e
               /\ pc' = "post"
               /\ UNCHANGED dropped
          \/ /\ \A e \in Events : ~ParsesAs(f, pos, end, e)
             /\ dropped' = dropped \cup {f[i].ev : i \in pos + 1 .. end}
             /\ UNCHANGED <<pc, line, copies>>
  /\ UNCHANGED <<cur, offsets, disk, boots, seeded, honeypotVars, analyzerVars, rotations>>

\* _ship_line up to the POST: parse, append to all-events.jsonl.  A line that
\* does not parse is passed over in silence.
ReadLine ==
  /\ pc = "read"
  /\ LET f == log[cur] IN
     \E end \in pos + 1 .. Len(f) :
       /\ IsLine(f, pos, end)
       /\ pos' = end
       /\ \/ \E e \in Events :
               /\ ParsesAs(f, pos, end, e)
               /\ copies' = [copies EXCEPT ![e] = @ + 1]
               /\ line' = e
               /\ pc' = "post"
               /\ UNCHANGED dropped
          \/ /\ \A e \in Events : ~ParsesAs(f, pos, end, e)
             /\ dropped' = dropped \cup {f[i].ev : i \in pos + 1 .. end}
             /\ UNCHANGED <<pc, line, copies>>
  /\ UNCHANGED <<cur, offsets, disk, boots, seeded, honeypotVars, analyzerVars, rotations>>

\* client.post: accepted by a running analyzer (its answer, whatever the status,
\* and the 5 s timeout have the same effect here: the loop goes on), or refused
\* by a stopped one, an HTTPError that is swallowed.
Post ==
  /\ pc = "post"
  /\ inflight' = IF up THEN inflight \cup {line} ELSE inflight
  /\ line' = NoEvent
  /\ pc' = "read"
  /\ UNCHANGED <<cur, pos, offsets, disk, copies, boots, dropped, seeded,
                 up, db, outages, honeypotVars, rotations>>

\* Mutant of EndOfFile: the offset of the service is not updated.
EndOfFileKeepsOffset ==
  /\ pc = "read"
  /\ pos >= Len(log[cur])
  /\ NextService
  /\ UNCHANGED <<pos, line, offsets, disk, copies, boots, dropped, seeded,
                 honeypotVars, analyzerVars, rotations>>

\* The for loop over the lines ends; fh.tell() becomes the offset.
EndOfFile ==
  /\ pc = "read"
  /\ pos >= Len(log[cur])
  /\ offsets' = [offsets EXCEPT ![cur] = pos]
  /\ NextService
  /\ UNCHANGED <<pos, line, disk, copies, boots, dropped, seeded,
                 honeypotVars, analyzerVars, rotations>>

\* _save_offsets: write_text truncates the file, then writes it.
SaveTruncate ==
  /\ pc = "save"
  /\ disk' = [disk EXCEPT !.state = "empty"]
  /\ pc' = "write"
  /\ UNCHANGED <<cur, pos, line, offsets, copies, boots, dropped, seeded,
                 honeypotVars, analyzerVars, rotations>>

\* The rest of the pass (exports every 5 min, sleep) changes nothing here.
SaveWrite ==
  /\ pc = "write"
  /\ disk' = [state |-> "whole", at |-> offsets]
  /\ pc' = "stat"
  /\ UNCHANGED <<cur, pos, line, offsets, copies, boots, dropped, seeded,
                 honeypotVars, analyzerVars, rotations>>

\* OSError, ignored: read-only volume (before the truncation) or a full one.
SaveFails ==
  /\ pc \in {"save", "write"}
  /\ pc' = "stat"
  /\ UNCHANGED <<cur, pos, line, offsets, disk, copies, boots, dropped, seeded,
                 honeypotVars, analyzerVars, rotations>>

\* The process dies; restart: unless-stopped starts it again.
Crash ==
  /\ pc # "down"
  /\ boots < MaxBoots
  /\ pc' = "down"
  /\ cur' = 1 /\ pos' = 0 /\ line' = NoEvent
  /\ offsets' = Zeros
  /\ UNCHANGED <<disk, copies, boots, dropped, seeded, honeypotVars, analyzerVars, rotations>>

\* `for line in fh` raises UnicodeDecodeError, which nothing catches: the process
\* dies of it and _save_offsets is not reached.  The decoder works on blocks of
\* 8 KiB, so the lines of the block before the bytes may be lost to this start.
\* No reader gets past them (IsLine): each start comes back here as long as the
\* bytes are in the file.  After MaxBoots starts it stays here in the model.
HalfCharacter ==
  /\ pc = "read"
  /\ \E i \in pos + 1 .. Len(log[cur]) : Undecodable(log[cur], pos, i)
  /\ Crash

-----------------------------------------------------------------------------
(* Analyzer, as the shipper sees it.                                       *)

\* A handler ends: the row is there, or the event was refused (422, 500).
Handle(e) ==
  /\ e \in inflight
  /\ inflight' = inflight \ {e}
  /\ db' = IF e \in Refused THEN db ELSE db \cup {e}
  /\ UNCHANGED <<up, outages, honeypotVars, shipperVars, rotations>>

AnalyzerStart ==
  /\ ~up
  /\ up' = TRUE
  /\ UNCHANGED <<inflight, db, outages, honeypotVars, shipperVars, rotations>>

AnalyzerStop ==
  /\ up
  /\ outages < MaxOutages
  /\ up' = FALSE
  /\ inflight' = {}
  /\ outages' = outages + 1
  /\ UNCHANGED <<db, honeypotVars, shipperVars, rotations>>

-----------------------------------------------------------------------------
Honeypot(s) ==
  \/ \E e \in Events : EmitWhole(s, e) \/ EmitHead(s, e)
  \/ EmitTail(s)
  \/ HoneypotCrash(s)
  \/ Rotate(s)

Loop ==
  Seed \/ Missing \/ Open \/ ReadLine \/ HalfCharacter \/ Post \/ EndOfFile
       \/ SaveTruncate \/ SaveWrite \/ SaveFails

Analyzer == (\E e \in Events : Handle(e)) \/ AnalyzerStart \/ AnalyzerStop

Next == (\E s \in Service : Honeypot(s)) \/ Start \/ Loop \/ Crash \/ Analyzer

Spec == Init /\ [][Next]_vars

(* The shipper's loop keeps running and docker restarts it (restart:       *)
(* unless-stopped); a request that reached a running analyzer is handled,  *)
(* and the analyzer, on which the shipper depends_on, is started.          *)
Fairness ==
  /\ WF_vars(Loop)
  /\ WF_vars(Start)
  /\ WF_vars(AnalyzerStart)
  /\ \A e \in Events : WF_vars(Handle(e))

FairSpec == Spec /\ Fairness

-----------------------------------------------------------------------------
(* Properties.                                                             *)

\* Types of all variables; offsets and positions are cell counts.
TypeOK ==
  /\ log \in [Service -> Seq(Cell)]
  /\ writing \in [Service -> Events \cup {NoEvent}]
  /\ emitted \subseteq Events
  /\ halved \subseteq Events
  /\ pc \in {"down", "seed", "stat", "read", "post", "save", "write"}
  /\ cur \in Service
  /\ pos \in Nat
  /\ line \in Events \cup {NoEvent}
  /\ pc = "post" => line \in Events
  /\ offsets \in [Service -> Nat]
  /\ disk \in DiskFile
  /\ copies \in [Events -> Nat]
  /\ up \in BOOLEAN
  /\ inflight \subseteq Events
  /\ db \subseteq Events
  /\ boots \in Nat /\ rotations \in Nat /\ outages \in Nat
  /\ dropped \subseteq Events /\ seeded \subseteq Events

\* An event the shipper is done with: its line is in the unified log and,
\* unless the analyzer was stopped at some point, it is in the table, about to
\* be, or refused by it.
Handled(e) ==
  /\ copies[e] > 0
  /\ outages = 0 => e \in db \cup inflight \cup Refused

\* The events the shipper is done with or has passed over.
Done == dropped \cup seeded \cup {e \in Events : Handled(e)}

\* Every cell of file f up to position n belongs to an event of the set done.
Covers(done, f, n) == \A i \in 1 .. Len(f) : i <= n => f[i].ev \in done

\* Without rotation, no offset, in memory or on disk, ever gets ahead of the
\* work: what lies before it was handled, whenever the process dies and
\* whatever the honeypots write meanwhile (run(), _save_offsets after the loop).
OffsetsCoverOnlyHandled ==
  rotations = 0 =>
    \A s \in Service :
      /\ Covers(Done, log[s], offsets[s])
      /\ disk.state = "whole" => Covers(Done, log[s], disk.at[s])

\* An event whose line fits in one write is passed over only when it was glued to
\* a line a dead honeypot left unfinished (EventWriter.write, json.loads error in
\* _ship_line): the cell before its own belongs to a line without an end.
OnlyTornLinesAreDropped ==
  rotations = 0 =>
    \A s \in Service : \A i \in 1 .. Len(log[s]) :
      log[s][i].part = "head" /\ log[s][i].ev \in dropped \ Large
        => i > 1 /\ log[s][i - 1].part = "head"

\* Cell i of the log of s is the head of a line cut inside a character, and what is
\* behind it, if anything, is another line.
CutShort(s, i) == log[s][i].part = "head" /\ Undecodable(log[s], 0, i)

\* A line that a dead honeypot cut inside a character blocks its file: no start gets
\* past it (`for line in fh` raises before tell() and _save_offsets), so that neither
\* an offset nor a line behind it ever passes, unless the first start seeded its
\* offsets behind it.
NothingPassesHalfCharacter ==
  rotations = 0 =>
    \A s \in Service : \A i \in 1 .. Len(log[s]) :
      CutShort(s, i) /\ log[s][i].ev \notin seeded =>
        /\ offsets[s] < i
        /\ disk.state = "whole" => disk.at[s] < i
        /\ \A j \in i .. Len(log[s]) :
             log[s][j].part = "head" => copies[log[s][j].ev] = 0

\* The unified log holds an event at most once per start of the shipper: only a
\* restart ships a line again.
OneCopyPerStart == \A e \in Events : copies[e] <= boots

\* The unified log and the table hold nothing that was not emitted, the first
\* gets every event before the second, and they only grow.
Pipeline == INSTANCE EventPipeline
              WITH unified <- {e \in Events : copies[e] > 0}, stored <- db
ImplementsPipeline == Pipeline!PipelineSpec

\* Half a character lies ahead of an offset: the start that reads on from there
\* dies of it.
HalfCharacterAhead ==
  \E s \in Service : \E i \in offsets[s] + 1 .. Len(log[s]) :
    Undecodable(log[s], offsets[s], i)

\* While the analyzer never stops, no file is rotated and no half character stays
\* ahead of the offsets (one that does stops the shipper for all services, and
\* nothing in the code removes it), every event that is not refused, whose line is
\* not torn and which the first start did not find in the files reaches the table,
\* across deaths of the shipper, those of a character whose other half comes later
\* included, and lost or empty offsets files.
EveryEventIsStored ==
  [](up /\ rotations = 0) /\ <>[]~HalfCharacterAhead =>
    \A e \in Events \ Refused : e \in emitted ~> e \in db \cup dropped \cup seeded

\* "un restart ne doit pas re-pousser tout l'historique" (_load_offsets): a start
\* resumes at the offsets that were saved last.
RestartResumes == [][pc = "down" /\ pc' # "down" => offsets' = disk.at]_vars
=============================================================================
