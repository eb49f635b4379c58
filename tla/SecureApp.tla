------------------------------- MODULE SecureApp -------------------------------
(***************************************************************************)
(* The secured application as one process: its lifespan and seed, the      *)
(* requests it serves concurrently, the telemetry middleware around them   *)
(* and the death of the process at any point, after which it is started    *)
(* again on the same database, possibly with another environment.          *)
(***************************************************************************)
EXTENDS Accounts, Vault, Seed, Telemetry

processVars == <<workload, server, starts, step>>
vars == <<processVars, dbVars, late, requestVars, telemetryVars>>

Init == ServerInit /\ late = {} /\ step = 1 /\ TelemetryInit

\* A request enters, or ends without a handler.
Arrive(q) ==
  /\ (\E o \in workload.operations : Receive(q, o)) \/ Refuse(q) \/ Fail(q)
  /\ UNCHANGED <<processVars, dbVars, late, telemetryVars>>

\* A statement of a handler.
Handle(q) ==
  /\ \/ AccountsNext(q) /\ UNCHANGED items
     \/ VaultNext(q) /\ UNCHANGED <<users, account, late>>
  /\ UNCHANGED <<processVars, telemetryVars>>

\* The middleware, when the handler has answered or raised.
Send(q) ==
  /\ Record(q) \/ SendError(q)
  /\ UNCHANGED <<processVars, dbVars, late, op, who, code, item, status, body>>

Lifespan == SeedNext /\ UNCHANGED <<workload, late, requestVars, telemetryVars>>

Background == Worker /\ UNCHANGED <<processVars, dbVars, late, requestVars>>

Die == Crash /\ TelemetryStop /\ UNCHANGED <<workload, step, late>>

Next ==
  \/ \E q \in Requests : Arrive(q) \/ Handle(q) \/ Send(q)
  \/ Lifespan \/ Background \/ Die

Spec == Init /\ [][Next]_vars

-----------------------------------------------------------------------------
TypeOK ==
  /\ ServerTypeOK
  /\ late \subseteq AccountIds
  /\ step \in Nat
  /\ queue \in Seq(Requests) /\ table \in Seq(Requests) /\ submitted \in Seq(Requests)
  /\ conn \in {"none", "open", "broken"}
  /\ pg \in BOOLEAN /\ created \in BOOLEAN
  /\ outages \in Nat /\ gaveUp \subseteq Requests

\* Two accounts never share a name or an address, although the check and the
\* insertion of two registrations interleave (auth.py:47 and 54); the account of a
\* registration answered 201 is there ever after, with its name, address and
\* password, whatever restarts and rehashes follow.
AccountsAreKept ==
  /\ \A u, v \in users : u # v => /\ account[u].username # account[v].username
                                  /\ account[u].email # account[v].email
  /\ \A q \in Requests :
       op[q].kind = "register" /\ Told(q, 201) =>
         /\ q \in users
         /\ account[q].username = op[q].username /\ account[q].email = op[q].email
         /\ account[q].password = op[q].password

\* An account asks for codes once /mfa/enable has answered 200, and only the codes
\* of the secret that request confirmed: the flag and the secret are written by
\* different requests, between which logins rewrite the hash (auth.py:84) and other
\* requests set new secrets.  Users in `late` replaced their secret afterwards.
EnabledWithConfirmedSecret ==
  \A u \in users :
    LET confirmed == {code[q] : q \in {r \in Requests :
          op[r].kind = "mfa_enable" /\ status[r] = 200 /\ who[r] = u}}
    IN  /\ account[u].mfa_enabled <=> confirmed # {}
        /\ confirmed # {} /\ u \notin late => account[u].mfa_secret \in confirmed
        /\ \A s \in confirmed : s # NoSecret /\ who[s] = u

\* What was asked to be stored under an id.
Made(id) ==
  IF id \in Requests THEN [kind |-> op[id].item, owner |-> who[id], text |-> op[id].text]
                     ELSE SeedItems[id[2]]

\* A response shows the requester's own notes or secrets only, each as it was
\* stored, and the value of a secret is never in a list: also across a change of
\* the key, and while others create and delete (repository.py:85-155).
OwnersOnly ==
  \A q \in Requests : \A shown \in body[q] :
    LET made == Made(shown.id) IN
    /\ made.owner = who[q] /\ made.kind = op[q].item
    /\ shown.text = IF op[q].kind = "list" /\ made.kind = "secret" THEN "masked" ELSE made.text

DeletesOf(id) ==
  {d \in Requests : op[d].kind = "delete" /\ item[d] = id /\ status[d] = 200
                    /\ who[d] = Made(id).owner /\ op[d].item = Made(id).kind}

\* A note or a secret whose creation was answered 201 stays until a deletion by its
\* owner succeeds; its owner is told 404 only after that, even when the key of the
\* process has changed since (secrets.py:66: 500 then); and of several deletions,
\* concurrent ones included, one is told that it deleted it, which is true (rowcount,
\* repository.py:109 and 158).
KeptUntilDeleted ==
  \A q \in Requests :
    /\ op[q].kind = "create" /\ Told(q, 201) =>
         DeletesOf(q) # {} \/ \E i \in items : i.id = q /\ i.text = op[q].text
    /\ op[q].kind = "get" /\ Told(q, 404) =>
         LET made == Made(item[q]) IN
         made.owner # who[q] \/ made.kind # op[q].item \/ DeletesOf(item[q]) # {}
    /\ op[q].kind = "delete" /\ status[q] = 200 =>
         DeletesOf(item[q]) = {q} /\ \A i \in items : i.id # item[q]

\* Whatever start died in the middle of it, the seed never stores a note or a secret
\* twice, and never one whose owner has no account (seed.py:57).
SeededOnce ==
  \A i, j \in items :
    /\ i.owner \in users
    /\ i.id \notin Requests /\ j.id \notin Requests /\ i.id[2] = j.id[2] => i = j

\* The rows of app_requests are responses in the order they were given, each at most
\* once (app_telemetry.py:31, one worker).
RowsInOrder ==
  \A i, j \in DOMAIN table :
    i < j => \E k, l \in DOMAIN submitted :
               k < l /\ submitted[k] = table[i] /\ submitted[l] = table[j]

\* Rows are given up while PostgreSQL is up only for a connection that an outage
\* broke, once per outage, or for the creation of the table, once.
LossesAreCaused == Cardinality(gaveUp) <= outages + 1

\* The telemetry tells the requests in their order, and an outage costs one row more
\* than those of its duration, whatever runs while the connection is forgotten and
\* made again (app_telemetry.py:106).
TelemetryIsFaithful == RowsInOrder /\ LossesAreCaused
=============================================================================
