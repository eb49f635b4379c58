------------------------------- MODULE Accounts --------------------------------
(***************************************************************************)
(* Registration, login and MFA enrolment (secure_app/routers/auth.py) over *)
(* table users (repository.py).  Each handler reads the table in one       *)
(* statement and writes it in another, committed, one; hashing a password  *)
(* (Argon2, tens of milliseconds) lies in between.                         *)
(***************************************************************************)
EXTENDS SecureServer

VARIABLE late      \* history: users whose secret /mfa/setup replaced while MFA was
                   \* on, or between the check of a code and the flag it sets

RegisterCheck(q) ==
  /\ pc[q] = "register"
  /\ IF Taken(op[q].username, op[q].email) THEN Answer(q, 409)
                     ELSE pc' = [pc EXCEPT ![q] = "insert"] /\ UNCHANGED status
  /\ UNCHANGED <<users, account, late>>

\* Mutant of RegisterInsert: INSERT OR IGNORE, as the seed has it.
RegisterInsertOrIgnore(q) ==
  /\ pc[q] = "insert"
  /\ IF Taken(op[q].username, op[q].email) THEN UNCHANGED <<users, account>>
     ELSE InsertUser(q, op[q].username, op[q].email, op[q].password)
  /\ Answer(q, 201)
  /\ UNCHANGED late

\* create_user: a name or an address taken since the check violates a UNIQUE column.
RegisterInsert(q) ==
  /\ pc[q] = "insert"
  /\ IF Taken(op[q].username, op[q].email) THEN Raise(q) /\ UNCHANGED <<users, account>>
     ELSE InsertUser(q, op[q].username, op[q].email, op[q].password) /\ Answer(q, 201)
  /\ UNCHANGED late

\* Row u lets the login of q in: password, and a code when MFA is on.
LetsIn(u, q) ==
  /\ account[u].username = op[q].username
  /\ account[u].password = op[q].password
  /\ account[u].mfa_enabled => code[q] = account[u].mfa_secret

\* get_user_by_username and all that login decides on the row it read.
LoginRead(q) ==
  /\ pc[q] = "login"
  /\ \/ /\ ~\E u \in users : LetsIn(u, q)
        /\ Answer(q, 401)
        /\ UNCHANGED who
     \/ \E u \in users :
          /\ LetsIn(u, q)
          /\ who' = [who EXCEPT ![q] = u]
          /\ IF account[u].cost # Settings.cost
             THEN pc' = [pc EXCEPT ![q] = "rehash"] /\ UNCHANGED status
             ELSE Answer(q, 200)
  /\ UNCHANGED <<users, account, late>>

\* The hash of the payload's password at the current cost.
LoginRehash(q) ==
  /\ pc[q] = "rehash"
  /\ UpdatePasswordHash(who[q], op[q].password)
  /\ Answer(q, 200)
  /\ UNCHANGED <<who, late>>

\* mfa_setup: a new secret, named after q, whether MFA is on or not.
MfaSetup(q) ==
  /\ pc[q] = "mfa_setup"
  /\ SetMfaSecret(who[q], q)
  /\ late' = IF \/ account[who[q]].mfa_enabled
                \/ \E p \in Requests : pc[p] = "enable" /\ who[p] = who[q]
             THEN late \cup {who[q]} ELSE late
  /\ Answer(q, 200)

\* Mutant of EnableRead: any code will do once there is a secret.
EnableReadAny(q) ==
  /\ pc[q] = "mfa_enable"
  /\ IF account[who[q]].mfa_secret # NoSecret
     THEN pc' = [pc EXCEPT ![q] = "enable"] /\ UNCHANGED status
     ELSE Answer(q, 400)
  /\ UNCHANGED <<users, account, late>>

\* mfa_enable up to verify_totp: no secret, or not the one of the code: 400.
EnableRead(q) ==
  /\ pc[q] = "mfa_enable"
  /\ IF account[who[q]].mfa_secret # NoSecret /\ code[q] = account[who[q]].mfa_secret
     THEN pc' = [pc EXCEPT ![q] = "enable"] /\ UNCHANGED status
     ELSE Answer(q, 400)
  /\ UNCHANGED <<users, account, late>>

\* The flag is set, which leaves the secret of the row as it is now.
EnableWrite(q) ==
  /\ pc[q] = "enable"
  /\ EnableMfa(who[q])
  /\ Answer(q, 200)
  /\ UNCHANGED late

AccountsNext(q) ==
  /\ \/ LoginRead(q) \/ LoginRehash(q)
     \/ /\ RegisterCheck(q) \/ RegisterInsert(q) \/ MfaSetup(q) \/ EnableRead(q) \/ EnableWrite(q)
        /\ UNCHANGED who
  /\ UNCHANGED <<op, code, item, body>>
=============================================================================
