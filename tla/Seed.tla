--------------------------------- MODULE Seed ----------------------------------
(***************************************************************************)
(* The start of the secured application (secure_app/main.py, lifespan) and *)
(* the demonstration data it inserts into an empty database                *)
(* (secure_app/seed.py), one committed row at a time.                      *)
(***************************************************************************)
EXTENDS SecureServer

VARIABLE step      \* the row the seed inserts next, users first

SeedRows == Len(SeedUsers) + Len(SeedItems)

\* Mutant of Start: the seed runs whenever it is enabled.
StartSeedsAlways ==
  /\ server = "down"
  /\ starts < Len(workload.configs)
  /\ starts' = starts + 1
  /\ step' = 1
  /\ server' = IF workload.configs[starts'].seed_demo THEN "seeding" ELSE "serving"
  /\ UNCHANGED dbVars

\* The process starts with its next environment; seed_if_empty returns when there is a user.
Start ==
  /\ server = "down"
  /\ starts < Len(workload.configs)
  /\ starts' = starts + 1
  /\ step' = 1
  /\ server' = IF workload.configs[starts'].seed_demo /\ users = {} THEN "seeding" ELSE "serving"
  /\ UNCHANGED dbVars

\* create_user_with_id is an INSERT OR IGNORE.
SeedUser ==
  /\ server = "seeding"
  /\ step <= Len(SeedUsers)
  /\ LET u == SeedUsers[step] IN
     IF u.id \in users \/ Taken(u.username, u.email)
     THEN UNCHANGED <<users, account>>
     ELSE InsertUser(u.id, u.username, u.email, DEMO_PASSWORD)
  /\ step' = step + 1
  /\ UNCHANGED <<items, server, starts>>

\* A note or a secret, with a new id.
SeedItem ==
  /\ server = "seeding"
  /\ step \in Len(SeedUsers) + 1 .. SeedRows
  /\ LET k == step - Len(SeedUsers) IN
     InsertItem(<<starts, k>>, SeedItems[k].kind, SeedItems[k].owner, SeedItems[k].text)
  /\ step' = step + 1
  /\ UNCHANGED <<users, account, server, starts>>

\* The last row is in, or a statement raised: any exception is swallowed.
SeedEnd ==
  /\ server = "seeding"
  /\ server' = "serving"
  /\ UNCHANGED <<dbVars, starts, step>>

SeedNext == Start \/ SeedUser \/ SeedItem \/ SeedEnd
=============================================================================
