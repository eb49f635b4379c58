----------------------------- MODULE SecureServer ------------------------------
(***************************************************************************)
(* The process of the secured application: its SQLite database             *)
(* (secure_app/database.py, repository.py), the configuration of a start   *)
(* (config.py) and the requests it serves.                                 *)
(*                                                                         *)
(* The handlers are plain `def`s that FastAPI runs in a pool of threads,   *)
(* each with a connection of its own (get_db), and every write of          *)
(* repository.py commits at once: requests interleave between statements.  *)
(* Modules Accounts, Vault, Seed and Telemetry extend this one.            *)
(***************************************************************************)
EXTENDS Naturals, Sequences, FiniteSets

CONSTANTS
  Requests,        \* bound: the requests clients send
  Names, Emails, Passwords, Texts,   \* values of the payloads
  Workloads,       \* what a behaviour may contain, see Workload
  SeedUsers,       \* _USERS of seed.py: a sequence of [id, username, email]
  SeedItems,       \* _NOTES, then _SECRETS: a sequence of [kind, owner, text]
  DEMO_PASSWORD,
  NoSecret,        \* NULL in column mfa_secret, and a request without a code
  NoUser           \* no authenticated user

SeedIds == {SeedUsers[i].id : i \in DOMAIN SeedUsers}

\* uuid4 ids of rows: a row is named after the request that creates it; the n-th
\* start names the k-th item it seeds <<n, k>>.
AccountIds == SeedIds \cup Requests
ItemIds == Requests \cup (Nat \X Nat)
ItemKind == {"note", "secret"}

Kinds == {"register", "login", "mfa_setup", "mfa_enable",
          "create", "list", "get", "delete", "ping"}
Operation == [kind : Kinds, username : Names, email : Emails, password : Passwords,
              item : ItemKind, text : Texts]

\* The environment of a start (config.py): the key, the cost of a hash, whether to
\* seed, and whether APP_METRICS_DSN is set.
Config == [key : Nat, cost : Nat, seed_demo : BOOLEAN, metrics : BOOLEAN]

\* Bounds of a behaviour: the operations clients send, the environments of the
\* starts of the process, and the stops of PostgreSQL.
Workload == [operations : SUBSET Operation, configs : Seq(Config), outages : Nat]

ASSUME ServerAssumption ==
  /\ IsFiniteSet(Requests)
  /\ Requests \cap SeedIds = {} /\ Requests \cap (Nat \X Nat) = {}
  /\ NoSecret \notin Requests /\ NoUser \notin AccountIds
  /\ Workloads \subseteq Workload
  /\ \A w \in Workloads : w.operations # {}
  /\ DEMO_PASSWORD \in Passwords
  /\ SeedUsers \in Seq([id : SeedIds, username : Names, email : Emails])
  /\ \A i, j \in DOMAIN SeedUsers :
       i # j => /\ SeedUsers[i].id # SeedUsers[j].id
                /\ SeedUsers[i].username # SeedUsers[j].username
                /\ SeedUsers[i].email # SeedUsers[j].email
  /\ SeedItems \in Seq([kind : ItemKind, owner : SeedIds, text : Texts])

VARIABLES
  workload,        \* the bounds of this behaviour
  \* the database file
  users,           \* ids in table users
  account,         \* account[u]: the other columns of row u
  items,           \* the rows of tables notes and secrets
  \* the process
  server,          \* "down", "seeding" (the lifespan runs) or "serving"
  starts,          \* starts so far: settings are those of the last one
  \* the requests
  pc,              \* pc[q]: what the handler of q does next
  op,              \* op[q]: its payload and path
  who,             \* who[q]: the user of its bearer token
  code,            \* code[q]: the TOTP secret its code was computed from
  item,            \* item[q]: the id in its path
  status,          \* status[q]: status code of the response, 0 before
  body             \* body[q]: notes and secrets the response shows

dbVars == <<users, account, items>>
requestVars == <<pc, op, who, code, item, status, body>>

Account == [username : Names, email : Emails, password : Passwords, cost : Nat,
            mfa_secret : Requests \cup {NoSecret}, mfa_enabled : BOOLEAN]
\* A note is stored as it is (key 0); a secret is its ciphertext under `key`.
Item == [id : ItemIds, kind : ItemKind, owner : AccountIds, text : Texts, key : Nat]

\* Settings of the current start; the key is read once (get_settings is cached).
Settings == workload.configs[starts]

ServerInit ==
  /\ workload \in Workloads
  /\ users = {}
  /\ account = [u \in AccountIds |->
                  [username |-> CHOOSE n \in Names : TRUE, email |-> CHOOSE m \in Emails : TRUE,
                   password |-> DEMO_PASSWORD, cost |-> 0,
                   mfa_secret |-> NoSecret, mfa_enabled |-> FALSE]]
  /\ items = {}
  /\ server = "down"
  /\ starts = 0
  /\ pc = [q \in Requests |-> "none"]
  /\ op = [q \in Requests |-> CHOOSE o \in workload.operations : TRUE]
  /\ who = [q \in Requests |-> NoUser]
  /\ code = [q \in Requests |-> NoSecret]
  /\ item = [q \in Requests |-> q]
  /\ status = [q \in Requests |-> 0]
  /\ body = [q \in Requests |-> {}]

-----------------------------------------------------------------------------
(* repository.py: one statement each, committed at once.                   *)

\* username_or_email_exists
Taken(username, email) ==
  \E u \in users : account[u].username = username \/ account[u].email = email

\* create_user and create_user_with_id
InsertUser(u, username, email, password) ==
  /\ users' = users \cup {u}
  /\ account' = [account EXCEPT ![u] =
       [username |-> username, email |-> email, password |-> password,
        cost |-> Settings.cost, mfa_secret |-> NoSecret, mfa_enabled |-> FALSE]]

SetMfaSecret(u, secret) ==
  account' = [account EXCEPT ![u].mfa_secret = secret] /\ UNCHANGED users

EnableMfa(u) ==
  account' = [account EXCEPT ![u].mfa_enabled = TRUE] /\ UNCHANGED users

UpdatePasswordHash(u, password) ==
  /\ account' = [account EXCEPT ![u].password = password, ![u].cost = Settings.cost]
  /\ UNCHANGED users

\* crypto.encrypt: what a row of this kind is stored under; decrypt refuses another.
Encrypted(kind) == IF kind = "secret" THEN Settings.key ELSE 0

\* create_note and create_secret: the owner is a foreign key.
InsertItem(id, kind, owner, text) ==
  /\ owner \in users
  /\ items' = items \cup {[id |-> id, kind |-> kind, owner |-> owner, text |-> text,
                           key |-> Encrypted(kind)]}

\* list_notes_for_owner and list_secrets_for_owner
RowsOf(owner, kind) == {i \in items : i.owner = owner /\ i.kind = kind}

\* The row of get_note_for_owner and get_secret_for_owner, if any.
RowFor(id, owner, kind) == {i \in RowsOf(owner, kind) : i.id = id}

\* delete_note_for_owner and delete_secret_for_owner
DeleteRow(id, owner, kind) == items' = items \ RowFor(id, owner, kind)

-----------------------------------------------------------------------------
(* Requests.                                                               *)

Public == {"register", "login"}
Running(q) == pc[q] \in Kinds \cup {"insert", "rehash", "enable"}

Told(q, s) == pc[q] = "sent" /\ status[q] = s

\* Codes a client can give: it knows the secrets /mfa/setup answered with.
CodesFor(o) ==
  IF o.kind \in {"login", "mfa_enable"}
  THEN {NoSecret} \cup {p \in Requests : op[p].kind = "mfa_setup" /\ Told(p, 200)}
  ELSE {NoSecret}

\* Ids a client can put in a path: those of the table, and those that were.
IdsFor(q, o) ==
  IF o.kind \in {"get", "delete"}
  THEN {i.id : i \in items} \cup {p \in Requests : op[p].kind = "create" /\ Told(p, 201)}
  ELSE {q}

\* A request reaches its handler: the payload fits its schema, the limiter let it
\* pass, and get_current_user found the user of its token.  Tokens and the limiter
\* are the subject of WebSession and RateLimiter.
Receive(q, o) ==
  /\ o \in workload.operations
  /\ server = "serving"
  /\ pc[q] = "none"
  /\ op' = [op EXCEPT ![q] = o]
  /\ \E u \in IF o.kind \in Public THEN {NoUser} ELSE users :
       who' = [who EXCEPT ![q] = u]
  /\ \E c \in CodesFor(o) : code' = [code EXCEPT ![q] = c]
  /\ \E i \in IdsFor(q, o) : item' = [item EXCEPT ![q] = i]
  /\ pc' = [pc EXCEPT ![q] = o.kind]
  /\ UNCHANGED <<status, body>>

\* The handler returns, or raises an HTTPException, which becomes a response inside
\* the middleware.
Answer(q, s) ==
  /\ pc' = [pc EXCEPT ![q] = "answered"]
  /\ status' = [status EXCEPT ![q] = s]

\* Any other exception: unhandled_exception_handler answers 500, but outside of the
\* middleware.  The connection is closed, what was not committed is rolled back.
Raise(q) ==
  /\ pc' = [pc EXCEPT ![q] = "raised"]
  /\ status' = [status EXCEPT ![q] = 500]

\* A request that no handler sees: payload refused (422), limiter (429), token (401);
\* 401 stands for the three.
Refuse(q) ==
  /\ server = "serving"
  /\ pc[q] = "none"
  /\ Answer(q, 401)
  /\ UNCHANGED <<op, who, code, item, body>>

\* A statement of q raises: the database stays locked for 5 s, or the disk is full.
Fail(q) ==
  /\ Running(q)
  /\ Raise(q)
  /\ UNCHANGED <<op, who, code, item, body>>

\* The process is killed, or the machine stops: what runs gets no answer.
Crash ==
  /\ server # "down"
  /\ server' = "down"
  /\ pc' = [q \in Requests |->
              IF Running(q) \/ pc[q] \in {"answered", "raised"} THEN "lost" ELSE pc[q]]
  /\ UNCHANGED <<dbVars, starts, op, who, code, item, status, body>>

ServerTypeOK ==
  /\ workload \in Workloads
  /\ users \subseteq AccountIds
  /\ account \in [AccountIds -> Account]
  /\ items \subseteq Item
  /\ server \in {"down", "seeding", "serving"}
  /\ starts \in 0 .. Len(workload.configs)
  /\ server # "down" => starts > 0
  /\ pc \in [Requests -> {"none", "insert", "rehash", "enable", "answered", "raised",
                          "sent", "lost"} \cup Kinds]
  /\ op \in [Requests -> Operation]
  /\ who \in [Requests -> AccountIds \cup {NoUser}]
  /\ code \in [Requests -> Requests \cup {NoSecret}]
  /\ item \in [Requests -> ItemIds]
  /\ status \in [Requests -> Nat]
  /\ body \in [Requests -> SUBSET [id : ItemIds, text : Texts \cup {"masked"}]]
=============================================================================
