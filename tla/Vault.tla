--------------------------------- MODULE Vault ---------------------------------
(***************************************************************************)
(* Notes and secrets (secure_app/routers/notes.py, secrets.py, crypto.py)  *)
(* and the ping tool.  Each handler is one statement on its table; secrets *)
(* are encrypted under a key derived from the key of the start.            *)
(***************************************************************************)
EXTENDS SecureServer

\* decrypt: AES-GCM refuses a ciphertext of another key.
Readable(i) == i.key = Encrypted(i.kind)

\* The row the path names, if it is the requester's own.
Own(q) == RowFor(item[q], who[q], op[q].item)

\* Mutant of CreateItem: the name of the account is stored, not its id.
CreateItemByName(q) ==
  /\ pc[q] = "create"
  /\ items' = items \cup {[id |-> q, kind |-> op[q].item, owner |-> account[who[q]].username,
                           text |-> op[q].text, key |-> Encrypted(op[q].item)]}
  /\ Answer(q, 201)
  /\ UNCHANGED body

\* create_note, create_secret
CreateItem(q) ==
  /\ pc[q] = "create"
  /\ InsertItem(q, op[q].item, who[q], op[q].text)
  /\ Answer(q, 201)
  /\ UNCHANGED body

\* Mutant of ListItems: the clause on owner_id is missing.
ListAllItems(q) ==
  /\ pc[q] = "list"
  /\ body' = [body EXCEPT ![q] =
       {[id |-> i.id, text |-> IF i.kind = "secret" THEN "masked" ELSE i.text] :
          i \in {j \in items : j.kind = op[q].item}}]
  /\ Answer(q, 200)
  /\ UNCHANGED items

\* list_notes shows the notes; list_secrets shows previews, and dots for a
\* ciphertext that does not decrypt.
ListItems(q) ==
  /\ pc[q] = "list"
  /\ body' = [body EXCEPT ![q] =
       {[id |-> i.id, text |-> IF i.kind = "secret" THEN "masked" ELSE i.text] :
          i \in RowsOf(who[q], op[q].item)}]
  /\ Answer(q, 200)
  /\ UNCHANGED items

\* Mutant of GetItem: an unreadable secret is taken for a missing one.
GetItemOrNone(q) ==
  /\ pc[q] = "get"
  /\ LET found == {i \in Own(q) : Readable(i)} IN
     /\ body' = [body EXCEPT ![q] = {[id |-> i.id, text |-> i.text] : i \in found}]
     /\ Answer(q, IF found = {} THEN 404 ELSE 200)
  /\ UNCHANGED items

\* get_note, reveal_secret: 404 without a row, 500 when it does not decrypt.
GetItem(q) ==
  /\ pc[q] = "get"
  /\ IF \A i \in Own(q) : Readable(i)
     THEN /\ body' = [body EXCEPT ![q] = {[id |-> i.id, text |-> i.text] : i \in Own(q)}]
          /\ Answer(q, IF Own(q) = {} THEN 404 ELSE 200)
     ELSE Answer(q, 500) /\ UNCHANGED body
  /\ UNCHANGED items

\* delete_note, delete_secret: rowcount tells whether there was a row.
DeleteItem(q) ==
  /\ pc[q] = "delete"
  /\ DeleteRow(item[q], who[q], op[q].item)
  /\ Answer(q, IF Own(q) = {} THEN 404 ELSE 200)
  /\ UNCHANGED body

\* POST /tools/ping: host refused, no binary, 5 s over, or its outcome.
Ping(q) ==
  /\ pc[q] = "ping"
  /\ \E s \in {200, 400, 503, 504} : Answer(q, s)
  /\ UNCHANGED <<items, body>>

VaultNext(q) ==
  /\ CreateItem(q) \/ ListItems(q) \/ GetItem(q) \/ DeleteItem(q) \/ Ping(q)
  /\ UNCHANGED <<op, who, code, item>>
=============================================================================
