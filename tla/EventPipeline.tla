---------------------------- MODULE EventPipeline ----------------------------
(***************************************************************************)
(* What the capture chain promises its consumers (Grafana, the exports,    *)
(* the analysts): the unified stream all-events.jsonl and the PostgreSQL   *)
(* table `events` only ever contain events that a honeypot emitted, an     *)
(* event is in the unified stream before it is in the table, and neither   *)
(* ever loses an event it holds.  Shipper is shown to implement this.      *)
(***************************************************************************)
CONSTANT Events      \* the events honeypots can emit (event_id is unique)

VARIABLES
  emitted,           \* events a honeypot has started to write to its log
  unified,           \* events present in all-events.jsonl
  stored             \* events present in the table `events`

pipelineVars == <<emitted, unified, stored>>

PipelineInit == emitted = {} /\ unified = {} /\ stored = {}

Emit(e) ==
  /\ e \notin emitted
  /\ emitted' = emitted \cup {e}
  /\ UNCHANGED <<unified, stored>>

Unify(e) ==
  /\ e \in emitted
  /\ unified' = unified \cup {e}
  /\ UNCHANGED <<emitted, stored>>

Store(e) ==
  /\ e \in unified
  /\ stored' = stored \cup {e}
  /\ UNCHANGED <<emitted, unified>>

PipelineNext == \E e \in Events : Emit(e) \/ Unify(e) \/ Store(e)

PipelineSpec == PipelineInit /\ [][PipelineNext]_pipelineVars
=============================================================================
