------------------------------ MODULE MCSecureApp ------------------------------
(***************************************************************************)
(* Instances of SecureApp: two seeded users, one with a note and a secret; *)
(* a second environment with another key and cost; one workload per router, *)
(* each with restarts.                                                     *)
(***************************************************************************)
EXTENDS SecureApp, TLC

CONSTANTS alice, bob, carol, dave, mailA, mailB, mailC, demo, chosen, hello, world

MCNames == {alice, bob, carol, dave}
MCEmails == {mailA, mailB, mailC}
MCPasswords == {demo, chosen}
MCTexts == {hello, world}
MCSeedUsers == <<[id |-> "alice", username |-> alice, email |-> mailA],
                 [id |-> "bob", username |-> bob, email |-> mailB]>>
MCSeedItems == <<[kind |-> "note", owner |-> "alice", text |-> hello],
                 [kind |-> "secret", owner |-> "alice", text |-> world]>>
Config1 == [key |-> 1, cost |-> 1, seed_demo |-> TRUE, metrics |-> FALSE]
Config2 == [key |-> 2, cost |-> 2, seed_demo |-> TRUE, metrics |-> FALSE]
Metered == [Config1 EXCEPT !.metrics = TRUE]

Do(kind) == [kind |-> kind, username |-> alice, email |-> mailA, password |-> demo,
             item |-> "note", text |-> world]

Registrations == {[Do("register") EXCEPT !.username = n, !.email = mailC, !.password = chosen] :
                    n \in {carol, dave}}
Logins == {Do("login"), [Do("login") EXCEPT !.username = carol, !.password = chosen]}

Vault(i) == {[Do(k) EXCEPT !.item = i] : k \in {"create", "list", "get", "delete"}}

MCWorkloads == {
  [operations |-> Registrations \cup Logins, configs |-> <<Config1, Config2>>, outages |-> 0],
  [operations |-> {Do("login"), Do("mfa_setup"), Do("mfa_enable")},
   configs |-> <<Config1, Config2>>, outages |-> 0],
  [operations |-> Vault("note"), configs |-> <<Config1, Config2>>, outages |-> 0],
  [operations |-> Vault("secret"), configs |-> <<Config1, Config2>>, outages |-> 0],
  [operations |-> {Do("ping")}, configs |-> <<Config1>>, outages |-> 0],
  [operations |-> {Do("login")}, configs |-> <<Metered, Metered>>, outages |-> 2] }

Symmetry == Permutations(Requests)
=============================================================================
