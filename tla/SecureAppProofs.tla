---------------------------- MODULE SecureAppProofs ----------------------------
(***************************************************************************)
(* Theorems about SecureApp, for every number of requests, workload, seed, *)
(* sequence of environments, and death of the process.                     *)
(***************************************************************************)
EXTENDS SecureApp, SequenceTheorems, FiniteSetTheorems, TLAPS

-----------------------------------------------------------------------------
(* Types.                                                                  *)

Places == {"none", "insert", "rehash", "enable", "answered", "raised", "sent", "lost"}
            \cup Kinds

\* Places of handlers that know their user.
Acting == {"rehash", "enable"} \cup (Kinds \ Public)

\* TypeOK is not inductive by itself: a handler runs in a process that serves, which
\* has settings; it is the handler of the operation of its request, and has not
\* answered; and its user exists.
Placed(r) ==
  /\ Running(r) => server = "serving"
  /\ Running(r) \/ pc[r] = "none" => status[r] = 0 /\ body[r] = {}
  /\ pc[r] \in Kinds => pc[r] = op[r].kind
  /\ pc[r] = "insert" => op[r].kind = "register"
  /\ pc[r] = "rehash" => op[r].kind = "login"
  /\ pc[r] = "enable" => op[r].kind = "mfa_enable"
  /\ pc[r] \in Acting => who[r] \in users

Typed == TypeOK /\ step > 0 /\ \A r \in Requests : Placed(r)

\* A process that is up has settings.
LEMMA SettingsType ==
  ASSUME Typed, server # "down"
  PROVE  Settings \in Config
<1>1. workload \in Workload
  BY ServerAssumption DEF Typed, TypeOK, ServerTypeOK
<1>2. workload.configs \in Seq(Config)
  BY <1>1 DEF Workload
<1>3. starts \in 1 .. Len(workload.configs)
  BY <1>2 DEF Typed, TypeOK, ServerTypeOK
<1> QED BY <1>2, <1>3 DEF Settings

\* What is stored is encrypted with a key that is a number.
LEMMA EncryptedType ==
  ASSUME Typed, server # "down", NEW kind
  PROVE  Encrypted(kind) \in Nat
BY SettingsType DEF Encrypted, Config

\* An element of a sequence is in its set.
LEMMA SequenceElement ==
  ASSUME NEW S, NEW s \in Seq(S), NEW n \in DOMAIN s
  PROVE  s[n] \in S
OBVIOUS

\* The rows of the seed.
LEMMA SeedUserType ==
  ASSUME NEW n \in DOMAIN SeedUsers
  PROVE  SeedUsers[n] \in [id : SeedIds, username : Names, email : Emails]
<1> DEFINE S == [id : SeedIds, username : Names, email : Emails]
<1>1. SeedUsers \in Seq(S)
  BY ServerAssumption
<1> HIDE DEF S
<1>2. SeedUsers[n] \in S
  BY <1>1, SequenceElement
<1> QED BY <1>2 DEF S

\* The rows of the seed have the types of rows.
LEMMA SeedItemType ==
  ASSUME NEW n \in DOMAIN SeedItems
  PROVE  SeedItems[n] \in [kind : ItemKind, owner : SeedIds, text : Texts]
<1> DEFINE S == [kind : ItemKind, owner : SeedIds, text : Texts]
<1>1. SeedItems \in Seq(S)
  BY ServerAssumption
<1> HIDE DEF S
<1>2. SeedItems[n] \in S
  BY <1>1, SequenceElement
<1> QED BY <1>2 DEF S

\* The row of the seed that comes next, users first.
LEMMA SeedUserNumber ==
  ASSUME Typed, step <= Len(SeedUsers), step > 0
  PROVE  step \in DOMAIN SeedUsers
<1>1. Len(SeedUsers) \in Nat /\ DOMAIN SeedUsers = 1 .. Len(SeedUsers)
  BY ServerAssumption
<1> QED BY <1>1 DEF Typed, TypeOK

\* While the seed stores rows, the step counts them.
LEMMA SeedItemNumber ==
  ASSUME Typed, SeedItem
  PROVE  step - Len(SeedUsers) \in DOMAIN SeedItems /\ step - Len(SeedUsers) \in Nat
<1>1. Len(SeedUsers) \in Nat /\ Len(SeedItems) \in Nat /\ DOMAIN SeedItems = 1 .. Len(SeedItems)
  BY ServerAssumption
<1> QED BY <1>1 DEF SeedItem, SeedRows, Typed, TypeOK

\* A row of the users' table that is inserted or whose hash is rewritten.
LEMMA InsertUserType ==
  ASSUME Typed, server # "down", NEW u \in AccountIds, NEW n \in Names, NEW m \in Emails,
         NEW p \in Passwords, InsertUser(u, n, m, p)
  PROVE  users' \subseteq AccountIds /\ users \subseteq users' /\ account' \in [AccountIds -> Account]
<1>1. Settings.cost \in Nat
  BY SettingsType DEF Config
<1>2. [username |-> n, email |-> m, password |-> p, cost |-> Settings.cost,
       mfa_secret |-> NoSecret, mfa_enabled |-> FALSE] \in Account
  BY <1>1 DEF Account
<1> QED BY <1>2 DEF InsertUser, Typed, TypeOK, ServerTypeOK

\* An answer, or an exception, is of the right type.
LEMMA AnswerType ==
  ASSUME Typed, NEW q \in Requests, NEW s \in Nat, Answer(q, s)
  PROVE  /\ pc' \in [Requests -> Places] /\ status' \in [Requests -> Nat]
         /\ pc'[q] = "answered" /\ status'[q] = s
         /\ \A r \in Requests \ {q} : pc'[r] = pc[r] /\ status'[r] = status[r]
BY DEF Answer, Typed, TypeOK, ServerTypeOK, Places

\* What an exception leaves of its request and of the others.
LEMMA RaiseType ==
  ASSUME Typed, NEW q \in Requests, Raise(q)
  PROVE  /\ pc' \in [Requests -> Places] /\ status' \in [Requests -> Nat]
         /\ pc'[q] = "raised" /\ status'[q] = 500
         /\ \A r \in Requests \ {q} : pc'[r] = pc[r] /\ status'[r] = status[r]
BY DEF Raise, Typed, TypeOK, ServerTypeOK, Places

\* Initial states.
LEMMA InitTyped == Init => Typed
<1> SUFFICES ASSUME Init PROVE Typed
  OBVIOUS
<1> USE DEF Init, ServerInit, TelemetryInit
<1>1. workload \in Workload /\ workload.operations # {} /\ workload.operations \subseteq Operation
  BY ServerAssumption DEF Workload
<1>2. (CHOOSE o \in workload.operations : TRUE) \in Operation
  BY <1>1
<1>3. Names # {} /\ Emails # {}
  BY <1>2 DEF Operation
<1>4. account \in [AccountIds -> Account]
  <2>1. (CHOOSE n \in Names : TRUE) \in Names /\ (CHOOSE m \in Emails : TRUE) \in Emails
    BY <1>3
  <2> QED BY <2>1, ServerAssumption DEF Account
<1>5. starts \in 0 .. Len(workload.configs)
  BY <1>1 DEF Workload
<1>6. item \in [Requests -> ItemIds]
  BY DEF ItemIds
<1>7. ServerTypeOK
  BY <1>2, <1>4, <1>5, <1>6 DEF ServerTypeOK
<1>8. TypeOK
  <2>1. queue \in Seq(Requests) /\ table \in Seq(Requests) /\ submitted \in Seq(Requests)
    OBVIOUS
  <2>2. late \subseteq AccountIds /\ step \in Nat /\ outages \in Nat /\ gaveUp \subseteq Requests
    OBVIOUS
  <2>3. conn \in {"none", "open", "broken"} /\ pg \in BOOLEAN /\ created \in BOOLEAN
    OBVIOUS
  <2> QED BY <1>7, <2>1, <2>2, <2>3 DEF TypeOK
<1>9. ASSUME NEW r \in Requests PROVE Placed(r)
  BY DEF Placed, Running, Kinds, Acting, Public
<1> QED BY <1>8, <1>9 DEF Typed

\* What a step of q leaves alone keeps the other requests in their places.
LEMMA OthersPlaced ==
  ASSUME Typed, NEW q \in Requests, NEW r \in Requests, r # q,
         pc'[r] = pc[r], status'[r] = status[r], op'[r] = op[r], who'[r] = who[r],
         body'[r] = body[r], server' = server, users \subseteq users'
  PROVE  Placed(r)'
BY DEF Typed, Placed, Running

\* A request that has its response is in its place.
LEMMA AnsweredPlaced ==
  ASSUME NEW r \in Requests, pc'[r] \in {"answered", "raised", "sent", "lost"}
  PROVE  Placed(r)'
BY DEF Placed, Running, Kinds, Acting, Public

\* A request that arrives keeps Typed.
LEMMA ArriveTyped ==
  ASSUME Typed, NEW q \in Requests, Arrive(q)
  PROVE  Typed'
<1> USE DEF Arrive, processVars, dbVars, telemetryVars
<1>1. CASE \E o \in workload.operations : Receive(q, o)
  <2>1. PICK o \in workload.operations : Receive(q, o)
    BY <1>1
  <2>2. o \in Operation
    BY ServerAssumption DEF Typed, TypeOK, ServerTypeOK, Workload
  <2>3. o.kind \in Kinds
    BY <2>2 DEF Operation
  <2>4. pc' \in [Requests -> Places] /\ op' \in [Requests -> Operation]
    BY <2>1, <2>2, <2>3 DEF Receive, Typed, TypeOK, ServerTypeOK, Places
  <2>5. PICK u \in IF o.kind \in Public THEN {NoUser} ELSE users :
          who' = [who EXCEPT ![q] = u]
    BY <2>1 DEF Receive
  <2>6. who' \in [Requests -> AccountIds \cup {NoUser}]
    BY <2>5 DEF Typed, TypeOK, ServerTypeOK
  <2>7. code' \in [Requests -> Requests \cup {NoSecret}]
    BY <2>1 DEF Receive, CodesFor, Typed, TypeOK, ServerTypeOK
  <2>8. PICK i \in IdsFor(q, o) : item' = [item EXCEPT ![q] = i]
    BY <2>1 DEF Receive
  <2>9. i \in ItemIds
    BY <2>8 DEF IdsFor, ItemIds, Typed, TypeOK, ServerTypeOK, Item
  <2>10. item' \in [Requests -> ItemIds]
    BY <2>8, <2>9 DEF Typed, TypeOK, ServerTypeOK
  <2>11. TypeOK'
    BY <2>1, <2>4, <2>6, <2>7, <2>10 DEF Receive, Typed, TypeOK, ServerTypeOK, Places
  <2>12. ASSUME NEW r \in Requests PROVE Placed(r)'
    <3>1. CASE r = q
      <4>1. pc'[q] = o.kind /\ op'[q] = o /\ who'[q] = u /\ status'[q] = status[q]
            /\ body'[q] = body[q]
        BY <2>1, <2>5 DEF Receive, Typed, TypeOK, ServerTypeOK
      <4>2. server' = "serving" /\ pc[q] = "none" /\ users' = users
        BY <2>1 DEF Receive
      <4>3. status[q] = 0 /\ body[q] = {}
        BY <4>2 DEF Typed, Placed
      <4>4. o.kind \in Acting => u \in users
        BY <2>3, <2>5 DEF Acting, Kinds, Public
      <4> QED BY <2>3, <3>1, <4>1, <4>2, <4>3, <4>4 DEF Placed, Kinds
    <3>2. CASE r # q
      <4>1. pc'[r] = pc[r] /\ op'[r] = op[r] /\ who'[r] = who[r]
        BY <2>1, <2>5, <3>2 DEF Receive, Typed, TypeOK, ServerTypeOK
      <4> QED BY <2>1, <3>2, <4>1, OthersPlaced DEF Receive
    <3> QED BY <3>1, <3>2
  <2> QED BY <2>11, <2>12 DEF Typed
<1>2. ASSUME Refuse(q) \/ Fail(q) PROVE Typed'
  <2>1. /\ pc' \in [Requests -> Places] /\ status' \in [Requests -> Nat]
        /\ pc'[q] \in {"answered", "raised"}
        /\ \A r \in Requests \ {q} : pc'[r] = pc[r] /\ status'[r] = status[r]
    BY <1>2, AnswerType, RaiseType DEF Refuse, Fail
  <2>2. UNCHANGED <<op, who, code, item, body>>
    BY <1>2 DEF Refuse, Fail
  <2>3. TypeOK'
    BY <2>1, <2>2 DEF Typed, TypeOK, ServerTypeOK, Places
  <2>4. ASSUME NEW r \in Requests PROVE Placed(r)'
    BY <2>1, <2>2, OthersPlaced, AnsweredPlaced
  <2> QED BY <2>3, <2>4 DEF Typed
<1> QED BY <1>1, <1>2

\* The handlers of the accounts.
LEMMA AccountsTyped ==
  ASSUME Typed, NEW q \in Requests, AccountsNext(q), UNCHANGED items,
         UNCHANGED <<processVars, telemetryVars>>
  PROVE  Typed'
<1> USE DEF AccountsNext, processVars, telemetryVars
<1>1. Running(q) /\ server = "serving"
  <2>1. Running(q)
    BY DEF RegisterCheck, RegisterInsert, LoginRead, LoginRehash, MfaSetup, EnableRead,
           EnableWrite, Running, Kinds
  <2> QED BY <2>1 DEF Typed, Placed
<1>2. op[q] \in Operation /\ op[q].username \in Names /\ op[q].email \in Emails
      /\ op[q].password \in Passwords
  BY DEF Typed, TypeOK, ServerTypeOK, Operation
<1>3. /\ users' \subseteq AccountIds /\ users \subseteq users'
      /\ account' \in [AccountIds -> Account]
      /\ late' \subseteq AccountIds
  <2>1. CASE UNCHANGED <<users, account, late>>
    BY <2>1 DEF Typed, TypeOK, ServerTypeOK
  <2>2. CASE RegisterInsert(q)
    <3>1. q \in AccountIds
      BY DEF AccountIds
    <3> QED BY <1>1, <1>2, <2>2, <3>1, InsertUserType
            DEF RegisterInsert, Typed, TypeOK, ServerTypeOK
  <2>3. CASE LoginRehash(q)
    <3>1. Settings.cost \in Nat
      BY <1>1, SettingsType DEF Config
    <3>2. who[q] \in AccountIds
      BY <2>3 DEF LoginRehash, Typed, Placed, Acting, TypeOK, ServerTypeOK
    <3> DEFINE one == [account EXCEPT ![who[q]].password = op[q].password]
    <3>3. one \in [AccountIds -> Account]
      BY <1>2, <3>2 DEF Typed, TypeOK, ServerTypeOK, Account
    <3>4. account' = [one EXCEPT ![who[q]].cost = Settings.cost]
      BY <2>3, <3>2 DEF LoginRehash, UpdatePasswordHash, Typed, TypeOK, ServerTypeOK
    <3> HIDE DEF one
    <3>5. account' \in [AccountIds -> Account]
      BY <3>1, <3>2, <3>3, <3>4 DEF Account
    <3> QED BY <2>3, <3>5 DEF LoginRehash, UpdatePasswordHash, Typed, TypeOK, ServerTypeOK
  <2>4. CASE MfaSetup(q)
    <3>1. who[q] \in AccountIds
      BY <2>4 DEF MfaSetup, Typed, Placed, Acting, TypeOK, ServerTypeOK, Kinds, Public
    <3>2. [account[who[q]] EXCEPT !.mfa_secret = q] \in Account
      <4>1. account[who[q]] \in Account
        BY <3>1 DEF Typed, TypeOK, ServerTypeOK
      <4> QED BY <4>1 DEF Account
    <3>3. account' = [account EXCEPT ![who[q]] = [account[who[q]] EXCEPT !.mfa_secret = q]]
      BY <2>4 DEF MfaSetup, SetMfaSecret
    <3> QED BY <2>4, <3>1, <3>2, <3>3 DEF MfaSetup, SetMfaSecret, Typed, TypeOK, ServerTypeOK
  <2>5. CASE EnableWrite(q)
    <3>1. who[q] \in AccountIds
      BY <2>5 DEF EnableWrite, Typed, Placed, Acting, TypeOK, ServerTypeOK
    <3>2. [account[who[q]] EXCEPT !.mfa_enabled = TRUE] \in Account
      <4>1. account[who[q]] \in Account
        BY <3>1 DEF Typed, TypeOK, ServerTypeOK
      <4> QED BY <4>1 DEF Account
    <3>3. account' = [account EXCEPT ![who[q]] = [account[who[q]] EXCEPT !.mfa_enabled = TRUE]]
      BY <2>5 DEF EnableWrite, EnableMfa
    <3> QED BY <2>5, <3>1, <3>2, <3>3 DEF EnableWrite, EnableMfa, Typed, TypeOK, ServerTypeOK
  <2> QED BY <2>1, <2>2, <2>3, <2>4, <2>5 DEF RegisterCheck, LoginRead, EnableRead
<1>4. who' \in [Requests -> AccountIds \cup {NoUser}]
      /\ \A r \in Requests \ {q} : who'[r] = who[r]
  BY DEF LoginRead, LoginRehash, Typed, TypeOK, ServerTypeOK
<1>5. /\ pc' \in [Requests -> Places] /\ status' \in [Requests -> Nat]
      /\ \A r \in Requests \ {q} : pc'[r] = pc[r] /\ status'[r] = status[r]
  <2>1. CASE \E s \in {200, 201, 400, 401, 409} : Answer(q, s)
    BY <2>1, AnswerType
  <2>2. CASE Raise(q)
    BY <2>2, RaiseType
  <2>3. CASE UNCHANGED status /\ \E p \in Places : pc' = [pc EXCEPT ![q] = p]
    BY <2>3 DEF Typed, TypeOK, ServerTypeOK, Places
  <2> QED BY <2>1, <2>2, <2>3 DEF RegisterCheck, RegisterInsert, LoginRead, LoginRehash,
             MfaSetup, EnableRead, EnableWrite, Places
<1>6. TypeOK'
  BY <1>3, <1>4, <1>5 DEF Typed, TypeOK, ServerTypeOK, Places
<1>7. Placed(q)'
  <2>1. status[q] = 0 /\ body[q] = {}
    BY <1>1 DEF Typed, Placed
  <2>2. CASE pc'[q] \in {"answered", "raised"}
    BY <2>2, AnsweredPlaced
  <2>3. CASE pc'[q] = "insert" /\ RegisterCheck(q)
    BY <1>1, <2>1, <2>3 DEF RegisterCheck, Answer, Typed, TypeOK, ServerTypeOK, Placed, Running,
         Kinds, Acting
  <2>4. CASE pc'[q] = "rehash" /\ LoginRead(q)
    <3>1. who'[q] \in users /\ users' = users /\ pc[q] = "login" /\ status' = status
      BY <2>4 DEF LoginRead, Answer, Typed, TypeOK, ServerTypeOK
    <3> QED BY <1>1, <2>1, <2>4, <3>1 DEF Typed, Placed, Running, Kinds, Acting
  <2>5. CASE pc'[q] = "enable" /\ EnableRead(q)
    <3>1. users' = users /\ pc[q] = "mfa_enable" /\ who'[q] = who[q]
      BY <2>5 DEF EnableRead, LoginRead, LoginRehash, Typed, TypeOK, ServerTypeOK
    <3>2. status'[q] = 0
      BY <2>1, <2>5, AnswerType DEF EnableRead
    <3>3. who[q] \in users
      BY <3>1 DEF Typed, Placed, Acting, Kinds, Public
    <3> QED BY <1>1, <2>1, <2>5, <3>1, <3>2, <3>3 DEF Typed, Placed, Running, Kinds, Acting
  <2>6. q \in DOMAIN pc
    BY DEF Typed, TypeOK, ServerTypeOK
  <2>7. CASE \E s \in {200, 201, 400, 401, 409} : Answer(q, s)
    BY <2>2, <2>7, AnswerType
  <2>8. CASE Raise(q)
    BY <2>2, <2>8, RaiseType
  <2>9. CASE RegisterCheck(q)
    BY <2>3, <2>6, <2>7, <2>9 DEF RegisterCheck
  <2>10. CASE LoginRead(q)
    BY <2>4, <2>6, <2>7, <2>10 DEF LoginRead
  <2>11. CASE EnableRead(q)
    BY <2>5, <2>6, <2>7, <2>11 DEF EnableRead
  <2> QED BY <2>7, <2>8, <2>9, <2>10, <2>11 DEF RegisterInsert, LoginRehash, MfaSetup, EnableWrite
<1>8. ASSUME NEW r \in Requests PROVE Placed(r)'
  BY <1>3, <1>4, <1>5, <1>7, OthersPlaced
<1> QED BY <1>6, <1>8 DEF Typed

\* The handlers of notes, secrets and ping.
LEMMA VaultTyped ==
  ASSUME Typed, NEW q \in Requests, VaultNext(q), UNCHANGED <<users, account, late>>,
         UNCHANGED <<processVars, telemetryVars>>
  PROVE  Typed'
<1> USE DEF VaultNext, processVars, telemetryVars
<1>1. Running(q) /\ server = "serving"
  <2>1. Running(q)
    BY DEF CreateItem, ListItems, GetItem, DeleteItem, Ping, Running, Kinds
  <2> QED BY <2>1 DEF Typed, Placed
<1>2. op[q].item \in ItemKind /\ op[q].text \in Texts
  BY DEF Typed, TypeOK, ServerTypeOK, Operation
<1>3. items' \subseteq Item
  <2>1. CASE CreateItem(q)
    <3>1. Encrypted(op[q].item) \in Nat
      BY <1>1, EncryptedType
    <3>2. who[q] \in AccountIds
      BY <2>1 DEF CreateItem, InsertItem, Typed, TypeOK, ServerTypeOK
    <3>3. [id |-> q, kind |-> op[q].item, owner |-> who[q], text |-> op[q].text,
           key |-> Encrypted(op[q].item)] \in Item
      BY <1>2, <3>1, <3>2 DEF Item, ItemIds
    <3> QED BY <2>1, <3>3 DEF CreateItem, InsertItem, Typed, TypeOK, ServerTypeOK
  <2>2. CASE ListItems(q) \/ GetItem(q) \/ Ping(q)
    BY <2>2 DEF ListItems, GetItem, Ping, Typed, TypeOK, ServerTypeOK
  <2>3. CASE DeleteItem(q)
    BY <2>3 DEF DeleteItem, DeleteRow, Typed, TypeOK, ServerTypeOK
  <2> QED BY <2>1, <2>2, <2>3
<1>4. \A i \in items : i.id \in ItemIds /\ i.text \in Texts
  BY DEF Typed, TypeOK, ServerTypeOK, Item
<1>5. /\ body' \in [Requests -> SUBSET [id : ItemIds, text : Texts \cup {"masked"}]]
      /\ \A r \in Requests \ {q} : body'[r] = body[r]
  <2> DEFINE Shown == [id : ItemIds, text : Texts \cup {"masked"}]
  <2>1. CASE UNCHANGED body
    BY <2>1 DEF Typed, TypeOK, ServerTypeOK
  <2>2. CASE \E B \in SUBSET Shown : body' = [body EXCEPT ![q] = B]
    BY <2>2 DEF Typed, TypeOK, ServerTypeOK
  <2>3. CASE ListItems(q)
    <3>1. {[id |-> i.id, text |-> IF i.kind = "secret" THEN "masked" ELSE i.text] :
             i \in RowsOf(who[q], op[q].item)} \in SUBSET Shown
      BY <1>4 DEF RowsOf
    <3> QED BY <2>2, <2>3, <3>1 DEF ListItems
  <2>4. CASE GetItem(q)
    <3>1. {[id |-> i.id, text |-> i.text] : i \in Own(q)} \in SUBSET Shown
      BY <1>4 DEF Own, RowFor, RowsOf
    <3> QED BY <2>1, <2>2, <2>4, <3>1 DEF GetItem
  <2> QED BY <2>1, <2>3, <2>4 DEF CreateItem, DeleteItem, Ping
<1>6. /\ pc' \in [Requests -> Places] /\ status' \in [Requests -> Nat]
      /\ pc'[q] = "answered"
      /\ \A r \in Requests \ {q} : pc'[r] = pc[r] /\ status'[r] = status[r]
  <2>1. \E s \in {200, 201, 400, 404, 500, 503, 504} : Answer(q, s)
    BY DEF CreateItem, ListItems, GetItem, DeleteItem, Ping
  <2> QED BY <2>1, AnswerType
<1>7. TypeOK'
  BY <1>3, <1>5, <1>6 DEF Typed, TypeOK, ServerTypeOK, Places
<1>8. ASSUME NEW r \in Requests PROVE Placed(r)'
  BY <1>5, <1>6, OthersPlaced, AnsweredPlaced
<1> QED BY <1>7, <1>8 DEF Typed

\* The response leaves, with or without its row of telemetry.
LEMMA SendTyped ==
  ASSUME Typed, NEW q \in Requests, Send(q)
  PROVE  Typed'
<1> USE DEF Send, processVars, dbVars, telemetryVars
<1>1. pc' = [pc EXCEPT ![q] = "sent"]
  BY DEF Record, SendError
<1>2. queue' \in Seq(Requests) /\ submitted' \in Seq(Requests)
  <2>1. Append(queue, q) \in Seq(Requests) /\ Append(submitted, q) \in Seq(Requests)
    BY DEF Typed, TypeOK
  <2> QED BY <2>1 DEF Record, SendError, Typed, TypeOK
<1>3. UNCHANGED <<conn, pg, created, table, outages, gaveUp>>
  BY DEF Record, SendError
<1>4. TypeOK'
  BY <1>1, <1>2, <1>3 DEF Typed, TypeOK, ServerTypeOK
<1>5. ASSUME NEW r \in Requests PROVE Placed(r)'
  <2>1. CASE r = q
    BY <1>1, <2>1, AnsweredPlaced DEF Typed, TypeOK, ServerTypeOK
  <2>2. CASE r # q
    BY <1>1, <2>2, OthersPlaced DEF Typed, TypeOK, ServerTypeOK
  <2> QED BY <2>1, <2>2
<1> QED BY <1>4, <1>5 DEF Typed

\* No handler runs while the process is not serving.
LEMMA LifespanTyped ==
  ASSUME Typed, Lifespan
  PROVE  Typed'
<1> USE DEF Lifespan, SeedNext, requestVars, telemetryVars, dbVars
<1>1. server # "serving"
  BY DEF Start, SeedUser, SeedItem, SeedEnd
<1>2. \A r \in Requests : ~Running(r)
  BY <1>1 DEF Typed, Placed
<1>3. ASSUME NEW r \in Requests PROVE Placed(r)'
  BY <1>2 DEF Typed, Placed, Running, Acting
<1>4. /\ starts' \in 0 .. Len(workload.configs) /\ step' \in Nat /\ step' > 0
      /\ server' \in {"down", "seeding", "serving"}
      /\ server' # "down" => starts' > 0
  <2>1. workload.configs \in Seq(Config)
    BY ServerAssumption DEF Typed, TypeOK, ServerTypeOK, Workload
  <2>2. Len(workload.configs) \in Nat /\ step \in Nat /\ step > 0
        /\ starts \in 0 .. Len(workload.configs) /\ (server # "down" => starts > 0)
    BY <2>1 DEF Typed, TypeOK, ServerTypeOK
  <2>3. CASE Start
    BY <2>2, <2>3 DEF Start
  <2>4. CASE SeedUser \/ SeedItem \/ SeedEnd
    BY <2>2, <2>4 DEF SeedUser, SeedItem, SeedEnd
  <2> QED BY <2>3, <2>4
<1>5. users' \subseteq AccountIds /\ account' \in [AccountIds -> Account]
  <2>1. CASE UNCHANGED <<users, account>>
    BY <2>1 DEF Typed, TypeOK, ServerTypeOK
  <2>2. CASE SeedUser
    <3> DEFINE u == SeedUsers[step]
    <3>1. step \in DOMAIN SeedUsers
      BY <2>2, SeedUserNumber DEF SeedUser, Typed
    <3>2. u.id \in AccountIds /\ u.username \in Names /\ u.email \in Emails
          /\ DEMO_PASSWORD \in Passwords
      <4>1. u \in [id : SeedIds, username : Names, email : Emails]
        BY <3>1, SeedUserType
      <4> QED BY <4>1, ServerAssumption DEF AccountIds
    <3>3. CASE InsertUser(u.id, u.username, u.email, DEMO_PASSWORD)
      BY <2>2, <3>2, <3>3, InsertUserType DEF SeedUser
    <3> QED BY <2>1, <2>2, <3>3 DEF SeedUser
  <2> QED BY <2>1, <2>2 DEF Start, SeedItem, SeedEnd
<1>6. items' \subseteq Item
  <2>1. CASE UNCHANGED items
    BY <2>1 DEF Typed, TypeOK, ServerTypeOK
  <2>2. CASE SeedItem
    <3> DEFINE k == step - Len(SeedUsers)
    <3>1. k \in DOMAIN SeedItems /\ k \in Nat
      BY <2>2, SeedItemNumber
    <3>2. SeedItems[k].kind \in ItemKind /\ SeedItems[k].owner \in AccountIds
          /\ SeedItems[k].text \in Texts
      <4> HIDE DEF k
      <4>1. SeedItems[k] \in [kind : ItemKind, owner : SeedIds, text : Texts]
        BY <3>1, SeedItemType
      <4> QED BY <4>1 DEF AccountIds
    <3>3. <<starts, k>> \in ItemIds
      BY <3>1 DEF ItemIds, Typed, TypeOK, ServerTypeOK
    <3>4. Encrypted(SeedItems[k].kind) \in Nat
      BY <2>2, EncryptedType DEF SeedItem
    <3>5. [id |-> <<starts, k>>, kind |-> SeedItems[k].kind, owner |-> SeedItems[k].owner,
           text |-> SeedItems[k].text, key |-> Encrypted(SeedItems[k].kind)] \in Item
      BY <3>2, <3>3, <3>4 DEF Item
    <3> HIDE DEF k
    <3> QED BY <2>2, <3>5 DEF SeedItem, InsertItem, Typed, TypeOK, ServerTypeOK, k
  <2> QED BY <2>1, <2>2 DEF Start, SeedUser, SeedEnd
<1>7. TypeOK'
  BY <1>4, <1>5, <1>6 DEF Typed, TypeOK, ServerTypeOK
<1> QED BY <1>3, <1>4, <1>7 DEF Typed

\* The worker of the telemetry, and PostgreSQL.
LEMMA BackgroundTyped ==
  ASSUME Typed, Background
  PROVE  Typed'
<1> USE DEF Background, processVars, dbVars, requestVars
<1>1. ASSUME queue # <<>> PROVE Head(queue) \in Requests /\ Tail(queue) \in Seq(Requests)
  BY <1>1, HeadTailProperties DEF Typed, TypeOK
<1>2. /\ queue' \in Seq(Requests) /\ table' \in Seq(Requests) /\ gaveUp' \subseteq Requests
      /\ submitted' \in Seq(Requests)
  <2>1. CASE UNCHANGED <<queue, table, gaveUp, submitted>>
    BY <2>1 DEF Typed, TypeOK
  <2>2. CASE queue # <<>> /\ queue' = Tail(queue) /\ UNCHANGED submitted
             /\ table' \in {table, Append(table, Head(queue))}
             /\ gaveUp' \subseteq gaveUp \cup {Head(queue)}
    <3>1. Append(table, Head(queue)) \in Seq(Requests)
      BY <1>1, <2>2 DEF Typed, TypeOK
    <3> QED BY <1>1, <2>2, <3>1 DEF Typed, TypeOK
  <2> QED BY <2>1, <2>2 DEF Worker, Connect, ConnectRaces, ConnectFails, Insert, InsertFails,
             InsertRefused, PgStop, PgStart
<1>3. conn' \in {"none", "open", "broken"} /\ outages' \in Nat
  BY DEF Worker, Connect, ConnectRaces, ConnectFails, Insert, InsertFails, InsertRefused,
       PgStop, PgStart, Typed, TypeOK
<1>4. pg' \in BOOLEAN /\ created' \in BOOLEAN
  BY DEF Worker, Connect, ConnectRaces, ConnectFails, Insert, InsertFails, InsertRefused,
       PgStop, PgStart, Typed, TypeOK
<1>5. TypeOK'
  BY <1>2, <1>3, <1>4 DEF Typed, TypeOK, ServerTypeOK
<1>6. ASSUME NEW r \in Requests PROVE Placed(r)'
  BY DEF Typed, Placed, Running
<1> QED BY <1>5, <1>6 DEF Typed

\* After the death of the process no handler runs.
LEMMA DieTyped ==
  ASSUME Typed, Die
  PROVE  Typed'
<1> USE DEF Die, Crash, TelemetryStop, dbVars
<1>1. pc' \in [Requests -> Places]
  BY DEF Typed, TypeOK, ServerTypeOK, Places
<1>2. queue' \in Seq(Requests)
  OBVIOUS
<1>3. TypeOK'
  BY <1>1, <1>2 DEF Typed, TypeOK, ServerTypeOK, Places
<1>4. ASSUME NEW r \in Requests PROVE Placed(r)'
  <2>1. CASE pc'[r] = "lost"
    BY <2>1, AnsweredPlaced
  <2>2. CASE pc'[r] = pc[r] /\ ~Running(r)
    BY <2>2 DEF Typed, Placed, Running, Acting
  <2> QED BY <2>1, <2>2
<1> QED BY <1>3, <1>4 DEF Typed

\* Every step keeps Typed.
LEMMA NextTyped == Typed /\ [Next]_vars => Typed'
<1> SUFFICES ASSUME Typed, [Next]_vars PROVE Typed'
  OBVIOUS
<1>1. CASE \E q \in Requests : Arrive(q)
  BY <1>1, ArriveTyped
<1>2. CASE \E q \in Requests : Handle(q)
  BY <1>2, AccountsTyped, VaultTyped DEF Handle
<1>3. CASE \E q \in Requests : Send(q)
  BY <1>3, SendTyped
<1>4. CASE UNCHANGED vars
  BY <1>4 DEF vars, processVars, dbVars, requestVars, telemetryVars, Typed, TypeOK,
       ServerTypeOK, Placed, Running
<1> QED BY <1>1, <1>2, <1>3, <1>4, LifespanTyped, BackgroundTyped, DieTyped DEF Next

\* TypeOK holds: with any number of requests, and whatever restarts, each payload,
\* row, id and response has the type its column or schema gives it.
THEOREM SecureTypeCorrect == Spec => []TypeOK
<1>1. Typed => TypeOK
  BY DEF Typed
<1> QED BY <1>1, InitTyped, NextTyped, PTL DEF Spec

-----------------------------------------------------------------------------
(* What a step leaves as it is.                                            *)

Done == {"answered", "raised", "sent", "lost"}

\* A request keeps its payload, path and code once it has arrived, its user unless it
\* is a login, and its response once it has been decided.
Keeps(r) ==
  /\ pc[r] # "none" => /\ pc'[r] # "none" /\ op'[r] = op[r]
                       /\ item'[r] = item[r] /\ code'[r] = code[r]
                       /\ op[r].kind # "login" => who'[r] = who[r]
  /\ pc[r] \in Done => /\ pc'[r] \in Done /\ who'[r] = who[r]
                       /\ status'[r] = status[r] /\ body'[r] = body[r]

\* Every step keeps of a request what Keeps says.
LEMMA Settled ==
  ASSUME Typed, [Next]_vars, NEW r \in Requests
  PROVE  Keeps(r)
<1> USE DEF requestVars, Done
<1>0. /\ pc \in [Requests -> Places] /\ DOMAIN op = Requests /\ DOMAIN who = Requests
      /\ DOMAIN code = Requests /\ DOMAIN item = Requests /\ DOMAIN status = Requests
      /\ DOMAIN body = Requests
  BY DEF Typed, TypeOK, ServerTypeOK, Places
<1>1. ASSUME NEW q \in Requests, Arrive(q) PROVE Keeps(r)
  <2>1. pc[q] = "none" \/ Running(q)
    BY <1>1 DEF Arrive, Receive, Refuse, Fail
  <2>2. pc[q] \notin Done
    BY <2>1 DEF Running, Kinds
  <2>3. CASE r = q
    <3>1. CASE \E o \in workload.operations : Receive(q, o)
      BY <2>2, <2>3, <3>1 DEF Receive, Keeps
    <3>2. CASE Refuse(q) \/ Fail(q)
      BY <1>0, <2>2, <2>3, <3>2 DEF Refuse, Fail, Answer, Raise, Keeps
    <3> QED BY <1>1, <3>1, <3>2 DEF Arrive
  <2>4. CASE r # q
    BY <1>0, <1>1, <2>4 DEF Arrive, Receive, Refuse, Fail, Answer, Raise, Keeps
  <2> QED BY <2>3, <2>4
<1>2. ASSUME NEW q \in Requests, AccountsNext(q) PROVE Keeps(r)
  <2>1. Running(q)
    BY <1>2 DEF AccountsNext, RegisterCheck, RegisterInsert, LoginRead, LoginRehash, MfaSetup,
       EnableRead, EnableWrite, Running, Kinds
  <2>2. pc[q] \notin Done
    BY <2>1 DEF Running, Kinds
  <2>3. UNCHANGED <<op, code, item, body>>
    BY <1>2 DEF AccountsNext
  <2>4. /\ \A x \in Requests \ {q} : pc'[x] = pc[x] /\ status'[x] = status[x]
        /\ pc'[q] # "none"
    BY <1>0, <1>2 DEF AccountsNext, RegisterCheck, RegisterInsert, LoginRead, LoginRehash,
       MfaSetup, EnableRead, EnableWrite, Answer, Raise
  <2>5. who' = who \/ (op[q].kind = "login" /\ \A x \in Requests \ {q} : who'[x] = who[x])
    <3>1. CASE LoginRead(q)
      <4>1. op[q].kind = "login"
        BY <3>1 DEF LoginRead, Typed, Placed, Kinds
      <4> QED BY <1>0, <3>1, <4>1 DEF LoginRead
    <3> QED BY <1>2, <3>1 DEF AccountsNext, LoginRehash
  <2> QED BY <2>2, <2>3, <2>4, <2>5 DEF Keeps
<1>3. ASSUME NEW q \in Requests, VaultNext(q) PROVE Keeps(r)
  <2>1. Running(q)
    BY <1>3 DEF VaultNext, CreateItem, ListItems, GetItem, DeleteItem, Ping, Running, Kinds
  <2>2. pc[q] \notin Done
    BY <2>1 DEF Running, Kinds
  <2>3. UNCHANGED <<op, who, code, item>>
    BY <1>3 DEF VaultNext
  <2>4. /\ \A x \in Requests \ {q} : pc'[x] = pc[x] /\ status'[x] = status[x]
        /\ pc'[q] # "none"
    BY <1>0, <1>3 DEF VaultNext, CreateItem, ListItems, GetItem, DeleteItem, Ping, Answer
  <2>5. \A x \in Requests \ {q} : body'[x] = body[x]
    BY <1>0, <1>3 DEF VaultNext, CreateItem, ListItems, GetItem, DeleteItem, Ping
  <2> QED BY <2>2, <2>3, <2>4, <2>5 DEF Keeps
<1>4. ASSUME NEW q \in Requests, Send(q) PROVE Keeps(r)
  <2>1. pc' = [pc EXCEPT ![q] = "sent"] /\ pc[q] \in Done
    BY <1>4 DEF Send, Record, SendError
  <2> QED BY <1>0, <1>4, <2>1 DEF Send, Keeps
<1>5. CASE Lifespan \/ Background \/ UNCHANGED vars
  BY <1>5 DEF Lifespan, Background, vars, Keeps
<1>6. CASE Die
  <2>1. pc'[r] = pc[r] \/ (pc[r] # "none" /\ pc'[r] = "lost")
    <3>1. pc'[r] = IF Running(r) \/ pc[r] \in {"answered", "raised"} THEN "lost" ELSE pc[r]
      BY <1>6 DEF Die, Crash
    <3> QED BY <3>1 DEF Running, Kinds
  <2> QED BY <1>6, <2>1 DEF Die, Crash, Keeps
<1> QED BY <1>1, <1>2, <1>3, <1>4, <1>5, <1>6 DEF Next, Handle

\* Only a handler gives a request another response than 401, 500 or none.
LEMMA Answers ==
  ASSUME Typed, [Next]_vars, NEW r \in Requests, pc[r] \notin Done,
         status'[r] \notin {0, 401, 500}
  PROVE  \/ AccountsNext(r) /\ UNCHANGED items
         \/ VaultNext(r) /\ UNCHANGED <<users, account>>
<1> USE DEF requestVars
<1>0. /\ pc[r] \in Places /\ DOMAIN status = Requests
  BY DEF Typed, TypeOK, ServerTypeOK, Places
<1>1. status[r] = 0
  BY <1>0 DEF Typed, Placed, Running, Places, Done
<1>2. ~\E q \in Requests : Arrive(q)
  BY <1>0, <1>1 DEF Arrive, Receive, Refuse, Fail, Answer, Raise
<1>3. ~\E q \in Requests : Send(q)
  BY <1>1 DEF Send
<1>4. ~(Lifespan \/ Background \/ Die \/ UNCHANGED vars)
  BY <1>1 DEF Lifespan, Background, Die, Crash, vars
<1>5. PICK q \in Requests : Handle(q)
  BY <1>2, <1>3, <1>4 DEF Next
<1>6. CASE q = r
  BY <1>5, <1>6 DEF Handle
<1>7. CASE q # r
  <2>1. status'[r] = status[r]
    BY <1>0, <1>5, <1>7 DEF Handle, AccountsNext, RegisterCheck, RegisterInsert, LoginRead,
       LoginRehash, MfaSetup, EnableRead, EnableWrite, VaultNext, CreateItem, ListItems, GetItem,
       DeleteItem, Ping, Answer, Raise
  <2> QED BY <1>1, <2>1
<1> QED BY <1>6, <1>7

\* What may happen to the tables of notes and secrets, and to the responses.
LEMMA Rows ==
  ASSUME [Next]_vars
  PROVE  \/ UNCHANGED items
         \/ \E q \in Requests : (CreateItem(q) \/ DeleteItem(q)) /\ UNCHANGED <<users, op, who>>
         \/ SeedItem /\ UNCHANGED users
BY DEF Next, Arrive, Handle, Send, Lifespan, Background, Die, Crash, SeedNext, Start, SeedUser,
       SeedItem, SeedEnd, VaultNext, ListItems, GetItem, Ping, dbVars, vars

\* A body is written by the two handlers that read rows only.
LEMMA Bodies ==
  ASSUME Typed, [Next]_vars, NEW q \in Requests
  PROVE  \/ body'[q] = body[q]
         \/ (ListItems(q) \/ GetItem(q)) /\ UNCHANGED <<items, op, who, item>>
<1>0. DOMAIN body = Requests
  BY DEF Typed, TypeOK, ServerTypeOK
<1>1. CASE UNCHANGED body
  BY <1>1
<1>2. CASE \E r \in Requests : VaultNext(r)
  BY <1>0, <1>2 DEF VaultNext, CreateItem, ListItems, GetItem, DeleteItem, Ping
<1> QED BY <1>1, <1>2 DEF Next, Arrive, Receive, Refuse, Fail, Handle, AccountsNext, Send,
             Lifespan, Background, Die, Crash, requestVars, vars

\* No account is ever removed.
LEMMA UsersGrow ==
  ASSUME [Next]_vars
  PROVE  users \subseteq users'
BY DEF Next, Arrive, Handle, Send, Lifespan, Background, Die, Crash, SeedNext, Start, SeedUser,
       SeedItem, SeedEnd, AccountsNext, RegisterCheck, RegisterInsert, LoginRead, LoginRehash,
       MfaSetup, EnableRead, EnableWrite, InsertUser, UpdatePasswordHash, SetMfaSecret, EnableMfa,
       dbVars, vars

-----------------------------------------------------------------------------
(* Notes and secrets belong to their owners.                               *)

\* The request that names a row is the one that created it, and is over.
Stored(id) == id \in Requests => op[id].kind = "create" /\ pc[id] \in Done

\* Every row is what was asked to be stored, and its owner exists.
RowInv(i) ==
  /\ Stored(i.id)
  /\ Made(i.id).kind = i.kind /\ Made(i.id).owner = i.owner /\ Made(i.id).text = i.text
  /\ i.owner \in users

ShownInv(q, shown) ==
  /\ Stored(shown.id)
  /\ pc[q] \in Done /\ op[q].kind \in {"list", "get"}
  /\ Made(shown.id).owner = who[q] /\ Made(shown.id).kind = op[q].item
  /\ shown.text = IF op[q].kind = "list" /\ op[q].item = "secret" THEN "masked"
                  ELSE Made(shown.id).text

OwnersInv ==
  /\ \A i \in items : RowInv(i)
  /\ \A q \in Requests : \A shown \in body[q] : ShownInv(q, shown)

\* A row that can be stored stays one that its request made.
LEMMA MadeStays ==
  ASSUME Typed, [Next]_vars, NEW id, Stored(id)
  PROVE  Stored(id)' /\ Made(id)' = Made(id)
<1>1. CASE id \in Requests
  <2>1. Keeps(id) /\ pc[id] # "none" /\ op[id].kind # "login"
    BY <1>1, Settled DEF Stored, Done
  <2> QED BY <1>1, <2>1 DEF Stored, Keeps, Made
<1>2. CASE id \notin Requests
  BY <1>2 DEF Stored, Made
<1> QED BY <1>1, <1>2

\* OwnersInv holds initially: there are no rows.
LEMMA InitOwners == Init => OwnersInv
BY DEF Init, ServerInit, OwnersInv

\* Every step keeps OwnersInv.
LEMMA NextOwners == Typed /\ OwnersInv /\ [Next]_vars => OwnersInv'
<1> SUFFICES ASSUME Typed, OwnersInv, [Next]_vars PROVE OwnersInv'
  OBVIOUS
<1>1. \A i \in items : RowInv(i)'
  BY MadeStays, UsersGrow DEF OwnersInv, RowInv
<1>2. ASSUME NEW i \in items' PROVE RowInv(i)'
  <2>1. CASE i \in items
    BY <1>1, <2>1
  <2>2. CASE \E q \in Requests : CreateItem(q) /\ UNCHANGED <<users, op, who>> /\ i \notin items
    <3>1. PICK q \in Requests : CreateItem(q) /\ UNCHANGED <<users, op, who>>
      BY <2>2
    <3>2. i = [id |-> q, kind |-> op[q].item, owner |-> who[q], text |-> op[q].text,
               key |-> Encrypted(op[q].item)] /\ who[q] \in users
      BY <2>2, <3>1 DEF CreateItem, InsertItem
    <3>3. op[q].kind = "create" /\ pc'[q] \in Done
      BY <3>1, AnswerType DEF CreateItem, Typed, Placed, Kinds, Done
    <3> QED BY <3>1, <3>2, <3>3 DEF RowInv, Stored, Made
  <2>3. CASE SeedItem /\ UNCHANGED users /\ i \notin items
    <3> DEFINE k == step - Len(SeedUsers)
    <3>1. i.id = <<starts, k>> /\ i.kind = SeedItems[k].kind /\ i.owner = SeedItems[k].owner
          /\ i.text = SeedItems[k].text /\ i.owner \in users
      BY <2>3 DEF SeedItem, InsertItem
    <3>2. <<starts, k>> \notin Requests /\ <<starts, k>>[2] = k
      <4>1. starts \in Nat /\ k \in Nat
        BY <2>3, SeedItemNumber DEF Typed, TypeOK, ServerTypeOK
      <4>2. <<starts, k>> \in Nat \X Nat
        BY <4>1
      <4>3. Requests \cap (Nat \X Nat) = {}
        BY ServerAssumption
      <4> QED BY <4>2, <4>3
    <3> HIDE DEF k
    <3> QED BY <2>3, <3>1, <3>2 DEF RowInv, Stored, Made
  <2> QED BY <2>1, <2>2, <2>3, Rows DEF DeleteItem, DeleteRow
<1>3. ASSUME NEW q \in Requests, NEW shown \in body'[q] PROVE ShownInv(q, shown)'
  <2>1. CASE shown \in body[q]
    <3>1. ShownInv(q, shown) /\ Keeps(q)
      BY <2>1, Settled DEF OwnersInv
    <3>2. op'[q] = op[q] /\ who'[q] = who[q] /\ pc'[q] \in Done
      BY <3>1 DEF ShownInv, Keeps, Done
    <3>3. Stored(shown.id)' /\ Made(shown.id)' = Made(shown.id)
      BY <3>1, MadeStays DEF ShownInv
    <3> QED BY <3>1, <3>2, <3>3 DEF ShownInv
  <2>2. CASE (ListItems(q) \/ GetItem(q)) /\ UNCHANGED <<items, op, who, item>> /\ shown \notin body[q]
    <3>1. pc[q] = op[q].kind /\ pc'[q] \in Done /\ DOMAIN body = Requests
      BY <2>2, AnswerType DEF ListItems, GetItem, Typed, TypeOK, ServerTypeOK, Placed, Kinds, Done
    <3>2. PICK i \in items :
            /\ i.owner = who[q] /\ i.kind = op[q].item /\ shown.id = i.id
            /\ shown.text = IF op[q].kind = "list" /\ i.kind = "secret" THEN "masked" ELSE i.text
      <4>1. CASE ListItems(q)
        BY <2>2, <3>1, <4>1 DEF ListItems, RowsOf
      <4>2. CASE GetItem(q)
        BY <2>2, <3>1, <4>2 DEF GetItem, Own, RowFor, RowsOf
      <4> QED BY <2>2, <4>1, <4>2
    <3>3. RowInv(i) /\ Stored(i.id)' /\ Made(i.id)' = Made(i.id)
      BY MadeStays DEF OwnersInv, RowInv
    <3>4. op[q].kind \in {"list", "get"}
      BY <2>2, <3>1 DEF ListItems, GetItem
    <3> QED BY <2>2, <3>1, <3>2, <3>3, <3>4 DEF RowInv, ShownInv
  <2> QED BY <2>1, <2>2, Bodies
<1> QED BY <1>2, <1>3 DEF OwnersInv

\* OwnersOnly holds: a response never shows a row of another user, whatever is
\* created, deleted, re-keyed and seeded in between.
THEOREM OwnersSee == Spec => []OwnersOnly
<1>1. OwnersInv => OwnersOnly
  BY DEF OwnersInv, ShownInv, OwnersOnly
<1> QED BY <1>1, InitTyped, NextTyped, InitOwners, NextOwners, PTL DEF Spec

-----------------------------------------------------------------------------
(* The seed.                                                               *)

\* An id of a seeded row is a pair of numbers.
LEMMA SeedIdType ==
  ASSUME Typed, NEW i \in items, i.id \notin Requests
  PROVE  i.id \in Nat \X Nat /\ i.id[1] \in Nat /\ i.id[2] \in Nat /\ i.id = <<i.id[1], i.id[2]>>
BY DEF Typed, TypeOK, ServerTypeOK, Item, ItemIds

\* The seeded rows are of one start; while it runs they are the rows before `step`.
\* An id names one row.
SeedInv ==
  /\ \A i \in items : i.id \notin Requests =>
       /\ i.id[1] <= starts
       /\ server = "seeding" => i.id[1] = starts /\ i.id[2] < step - Len(SeedUsers)
  /\ \A i, j \in items : i.id \notin Requests /\ j.id \notin Requests => i.id[1] = j.id[1]
  /\ \A i, j \in items : i.id = j.id => i = j

\* SeedInv holds initially: no seed has run.
LEMMA InitSeed == Init => SeedInv
BY DEF Init, ServerInit, SeedInv

\* Every step keeps SeedInv.
LEMMA NextSeed == Typed /\ OwnersInv /\ SeedInv /\ [Next]_vars => SeedInv'
<1> SUFFICES ASSUME Typed, OwnersInv, SeedInv, [Next]_vars PROVE SeedInv'
  OBVIOUS
<1>1. CASE items' \subseteq items /\ UNCHANGED <<server, starts, step>>
  BY <1>1 DEF SeedInv
<1>2. CASE \E q \in Requests : CreateItem(q) /\ UNCHANGED <<server, starts, step>>
  <2>1. PICK q \in Requests : CreateItem(q) /\ UNCHANGED <<server, starts, step>>
    BY <1>2
  <2> DEFINE n == [id |-> q, kind |-> op[q].item, owner |-> who[q], text |-> op[q].text,
                   key |-> Encrypted(op[q].item)]
  <2>2. items' = items \cup {n} /\ n.id = q
    BY <2>1 DEF CreateItem, InsertItem
  <2> HIDE DEF n
  <2>3. \A i \in items : i.id # q
    BY <2>1 DEF CreateItem, OwnersInv, RowInv, Stored, Done
  <2> QED BY <2>1, <2>2, <2>3 DEF SeedInv
<1>3. CASE Lifespan
  <2>0. Len(SeedUsers) \in Nat /\ starts \in Nat /\ step \in Nat
    BY ServerAssumption DEF Typed, TypeOK, ServerTypeOK
  <2>1. CASE Start
    <3>1. items' = items /\ starts' = starts + 1 /\ (server' = "seeding" => users = {})
      BY <2>1 DEF Start, dbVars
    <3>2. users = {} => items = {}
      BY DEF OwnersInv, RowInv
    <3> QED BY <2>0, <3>1, <3>2, SeedIdType DEF SeedInv
  <2>2. CASE SeedUser
    <3>1. \A i \in items : i.id \notin Requests =>
            i.id[1] = starts /\ i.id[2] < step' - Len(SeedUsers)
      BY <2>0, <2>2, SeedIdType DEF SeedUser, SeedInv
    <3>2. items' = items /\ starts' = starts
      BY <2>2 DEF SeedUser
    <3> QED BY <2>0, <3>1, <3>2 DEF SeedInv
  <2>3. CASE SeedItem
    <3> DEFINE k == step - Len(SeedUsers)
    <3>1. k \in Nat
      BY <2>3, SeedItemNumber
    <3> DEFINE n == [id |-> <<starts, k>>, kind |-> SeedItems[k].kind,
                     owner |-> SeedItems[k].owner, text |-> SeedItems[k].text,
                     key |-> Encrypted(SeedItems[k].kind)]
    <3>2. items' = items \cup {n} /\ n.id = <<starts, k>>
      BY <2>3 DEF SeedItem, InsertItem
    <3> HIDE DEF n
    <3>3. server = "seeding" /\ UNCHANGED <<server, starts>> /\ step' = step + 1
      BY <2>3 DEF SeedItem
    <3>4. \A i \in items : i.id # <<starts, k>>
      <4>1. Requests \cap (Nat \X Nat) = {} /\ <<starts, k>> \in Nat \X Nat
        BY <2>0, <3>1, ServerAssumption
      <4> HIDE DEF k
      <4>2. \A i \in items : i.id \notin Requests => i.id[2] < k
        BY <3>3 DEF SeedInv, k
      <4>3. ASSUME NEW i \in items, i.id = <<starts, k>> PROVE FALSE
        <5>1. i.id \notin Requests
          BY <4>1, <4>3
        <5>2. i.id[2] = k
          BY <4>3
        <5> QED BY <3>1, <4>2, <5>1, <5>2
      <4> QED BY <4>3
    <3>5. k < step' - Len(SeedUsers)
      BY <2>0, <3>3
    <3>6. \A i \in items : i.id \notin Requests =>
            i.id[1] = starts /\ i.id[2] < step' - Len(SeedUsers)
      BY <2>0, <3>3, SeedIdType DEF SeedInv
    <3> HIDE DEF k
    <3>7. n.id[1] = starts /\ n.id[2] = k
      BY <3>2
    <3> QED BY <2>0, <3>2, <3>3, <3>4, <3>5, <3>6, <3>7 DEF SeedInv
  <2>4. CASE SeedEnd
    BY <2>4 DEF SeedEnd, SeedInv, dbVars
  <2> QED BY <1>3, <2>1, <2>2, <2>3, <2>4 DEF Lifespan, SeedNext
<1>4. CASE Die
  BY <1>4 DEF Die, Crash, dbVars, SeedInv
<1>5. CASE \E q \in Requests : Handle(q)
  BY <1>1, <1>2, <1>5 DEF Handle, processVars, VaultNext, ListItems, GetItem, DeleteItem,
     DeleteRow, Ping
<1>6. CASE (\E q \in Requests : Arrive(q) \/ Send(q)) \/ Background \/ UNCHANGED vars
  BY <1>1, <1>6 DEF Arrive, Send, Background, vars, processVars, dbVars
<1> QED BY <1>3, <1>4, <1>5, <1>6 DEF Next

\* SeededOnce holds, wherever starts die: rows are seeded by one start only, since a
\* start that inserted one had inserted a user.
THEOREM SeedOnce == Spec => []SeededOnce
<1>1. Typed /\ OwnersInv /\ SeedInv => SeededOnce
  <2> SUFFICES ASSUME Typed, OwnersInv, SeedInv, NEW i \in items, NEW j \in items,
                      i.id \notin Requests, j.id \notin Requests, i.id[2] = j.id[2]
               PROVE  i = j
    BY DEF SeededOnce, OwnersInv, RowInv
  <2>1. i.id[1] = j.id[1]
    BY DEF SeedInv
  <2>2. i.id = j.id
    BY <2>1, SeedIdType
  <2> QED BY <2>2 DEF SeedInv
<1> QED BY <1>1, InitTyped, NextTyped, InitOwners, NextOwners, InitSeed, NextSeed, PTL DEF Spec

-----------------------------------------------------------------------------
(* Deletions.                                                              *)

\* The request d was told that it deleted the row it names.
Deleted(d) == op[d].kind = "delete" /\ pc[d] \in Done /\ status[d] = 200

\* The row id is there, or was deleted by its owner.
Known(id) == Stored(id) /\ (DeletesOf(id) # {} \/ \E i \in items : i.id = id)

DeletedInv(d) ==
  /\ Stored(item[d]) /\ DeletesOf(item[d]) = {d}
  /\ \A i \in items : i.id # item[d]
  /\ item[d] \notin Requests =>
       /\ item[d] \in Nat \X Nat /\ item[d][1] <= starts
       /\ server = "seeding" => item[d][1] < starts

MissingInv(q) ==
  /\ Stored(item[q])
  /\ \/ Made(item[q]).owner # who[q] \/ Made(item[q]).kind # op[q].item
     \/ DeletesOf(item[q]) # {}

KeptInv ==
  \A q \in Requests :
    /\ Deleted(q) => DeletedInv(q)
    /\ op[q].kind = "create" /\ pc[q] \in Done /\ status[q] = 201 => Known(q)
    /\ pc[q] = "get" => Known(item[q])
    /\ op[q].kind = "get" /\ pc[q] \in Done /\ status[q] = 404 => MissingInv(q)

\* A deletion that succeeds stays one of the deletions of its row; a new one found a
\* row of its own.
LEMMA DeletesStay ==
  ASSUME Typed, [Next]_vars, NEW id, Stored(id)
  PROVE  /\ DeletesOf(id) \subseteq DeletesOf(id)'
         /\ \A d \in DeletesOf(id)' \ DeletesOf(id) :
              pc[d] \notin Done /\ DeleteItem(d) /\ Own(d) # {} /\ item[d] = id
<1>1. Made(id)' = Made(id)
  BY MadeStays
<1>2. ASSUME NEW d \in DeletesOf(id) PROVE d \in DeletesOf(id)'
  <2>1. d \in Requests /\ status[d] = 200 /\ op[d].kind = "delete"
    BY DEF DeletesOf
  <2>2. pc[d] \in Done
    BY <2>1 DEF Typed, TypeOK, ServerTypeOK, Placed, Running, Done
  <2>3. Keeps(d) /\ pc[d] # "none"
    BY <2>1, <2>2, Settled DEF Done
  <2> QED BY <1>1, <2>1, <2>2, <2>3 DEF DeletesOf, Keeps
<1>3. ASSUME NEW d \in DeletesOf(id)', d \notin DeletesOf(id)
      PROVE  pc[d] \notin Done /\ DeleteItem(d) /\ Own(d) # {} /\ item[d] = id
  <2>1. /\ d \in Requests /\ op'[d].kind = "delete" /\ item'[d] = id /\ status'[d] = 200
        /\ who'[d] = Made(id).owner /\ op'[d].item = Made(id).kind
    BY <1>1 DEF DeletesOf
  <2>2. pc[d] \notin Done
    <3>1. ASSUME pc[d] \in Done PROVE FALSE
      <4>1. Keeps(d) /\ pc[d] # "none"
        BY <2>1, <3>1, Settled DEF Done
      <4> QED BY <1>3, <2>1, <3>1, <4>1 DEF DeletesOf, Keeps
    <3> QED BY <3>1
  <2>3. AccountsNext(d) \/ VaultNext(d)
    BY <2>1, <2>2, Answers
  <2>4. op'[d] = op[d] /\ item'[d] = item[d]
    BY <2>3 DEF AccountsNext, VaultNext
  <2>5. pc[d] = "delete" /\ DeleteItem(d)
    BY <2>1, <2>3, <2>4 DEF Typed, Placed, AccountsNext, RegisterCheck, RegisterInsert, LoginRead,
       LoginRehash, MfaSetup, EnableRead, EnableWrite, VaultNext, CreateItem, ListItems, GetItem,
       DeleteItem, Ping, Kinds
  <2>6. Own(d) # {}
    BY <2>1, <2>5, AnswerType DEF DeleteItem
  <2> QED BY <2>1, <2>2, <2>4, <2>5, <2>6
<1> QED BY <1>2, <1>3

\* A row whose deletion succeeds is gone, and the deletion is one of its owner.
LEMMA DeleteEnds ==
  ASSUME Typed, OwnersInv, [Next]_vars, NEW d \in Requests, DeleteItem(d), Own(d) # {},
         UNCHANGED <<op, who, item>>
  PROVE  /\ \A i \in items' : i.id # item[d]
         /\ \E i \in items : i.id = item[d]
         /\ d \in DeletesOf(item[d])'
<1>1. PICK i \in Own(d) : TRUE
  OBVIOUS
<1>2. i \in items /\ i.id = item[d] /\ i.owner = who[d] /\ i.kind = op[d].item
  BY <1>1 DEF Own, RowFor, RowsOf
<1>3. RowInv(i)
  BY <1>2 DEF OwnersInv
<1>4. Made(item[d]).owner = who[d] /\ Made(item[d]).kind = op[d].item /\ Stored(item[d])
  BY <1>2, <1>3 DEF RowInv
<1>5. ASSUME NEW j \in items, j.id = item[d] PROVE j \in RowFor(item[d], who[d], op[d].item)
  <2>1. RowInv(j)
    BY DEF OwnersInv
  <2> QED BY <1>4, <1>5, <2>1 DEF RowInv, RowFor, RowsOf
<1>6. \A j \in items' : j.id # item[d]
  BY <1>5 DEF DeleteItem, DeleteRow
<1>7. op[d].kind = "delete" /\ status'[d] = 200
  BY <1>1, AnswerType DEF DeleteItem, Typed, Placed, Kinds
<1>8. Made(item[d])' = Made(item[d])
  BY <1>4, MadeStays
<1> QED BY <1>2, <1>4, <1>6, <1>7, <1>8 DEF DeletesOf

\* What is known stays known.
LEMMA KnownStays ==
  ASSUME Typed, OwnersInv, [Next]_vars, NEW id, Known(id)
  PROVE  Known(id)'
<1>1. Stored(id)' /\ DeletesOf(id) \subseteq DeletesOf(id)'
  BY MadeStays, DeletesStay DEF Known
<1>2. ASSUME NEW i \in items, i.id = id, i \notin items' PROVE DeletesOf(id)' # {}
  <2>1. PICK d \in Requests : DeleteItem(d) /\ i \in RowFor(item[d], who[d], op[d].item)
    BY <1>2, Rows DEF CreateItem, InsertItem, SeedItem, DeleteItem, DeleteRow
  <2>2. Own(d) # {} /\ item[d] = id
    BY <1>2, <2>1 DEF Own, RowFor
  <2>3. UNCHANGED <<op, who, item>>
    <3>1. status'[d] = 200 /\ pc[d] = "delete"
      BY <2>1, <2>2, AnswerType DEF DeleteItem
    <3>2. AccountsNext(d) \/ VaultNext(d)
      BY <3>1, Answers DEF Done
    <3> QED BY <3>1, <3>2 DEF AccountsNext, LoginRead, LoginRehash, RegisterCheck, RegisterInsert,
               MfaSetup, EnableRead, EnableWrite, VaultNext
  <2> QED BY <2>1, <2>2, <2>3, DeleteEnds
<1> QED BY <1>1, <1>2 DEF Known

\* The handler that answers a request is the one of its operation.
LEMMA VaultHandler ==
  ASSUME Typed, [Next]_vars, NEW q \in Requests, pc[q] \notin Done,
         op'[q].kind \in {"create", "get", "delete"}, status'[q] \in {200, 201, 404}
  PROVE  /\ VaultNext(q) /\ UNCHANGED <<users, account, op, who, item>>
         /\ pc[q] = op[q].kind /\ server = "serving" /\ UNCHANGED <<server, starts>>
         /\ op[q].kind = "create" => CreateItem(q)
         /\ op[q].kind = "get" => GetItem(q)
         /\ op[q].kind = "delete" => DeleteItem(q)
<1>1. AccountsNext(q) \/ (VaultNext(q) /\ UNCHANGED <<users, account>>)
  BY Answers
<1>2. op' = op
  BY <1>1 DEF AccountsNext, VaultNext
<1>3. ~AccountsNext(q)
  BY <1>2 DEF AccountsNext, RegisterCheck, RegisterInsert, LoginRead, LoginRehash, MfaSetup,
     EnableRead, EnableWrite, Typed, Placed, Kinds
<1>4. pc[q] \in {"create", "list", "get", "delete", "ping"}
  BY <1>1, <1>3 DEF VaultNext, CreateItem, ListItems, GetItem, DeleteItem, Ping
<1>5. pc[q] = op[q].kind /\ server = "serving"
  BY <1>4 DEF Typed, Placed, Running, Kinds
<1>6. UNCHANGED <<server, starts>>
  <2>1. pc'[q] = "answered" /\ pc[q] # "answered" /\ status'[q] # 401 /\ status'[q] # 500
    BY <1>1, <1>3, <1>4, AnswerType DEF VaultNext, CreateItem, ListItems, GetItem, DeleteItem, Ping
  <2> QED BY <2>1 DEF Next, Arrive, Handle, Send, processVars, Lifespan, requestVars, Background,
                      Die, Crash, vars
<1> QED BY <1>1, <1>2, <1>3, <1>4, <1>5, <1>6 DEF VaultNext, CreateItem, ListItems, GetItem,
           DeleteItem, Ping

\* Starts are counted up, and a process seeds from its start on only.
LEMMA StartsGrow ==
  ASSUME Typed, [Next]_vars
  PROVE  /\ starts' >= starts
         /\ server' = "seeding" => starts' > starts \/ server = "seeding"
<1>1. starts \in Nat
  BY DEF Typed, TypeOK, ServerTypeOK
<1> QED BY <1>1 DEF Next, Arrive, Handle, Send, Lifespan, SeedNext, Start, SeedUser, SeedItem,
           SeedEnd, Background, Die, Crash, processVars, vars

\* Two handlers do not answer in one step.
LEMMA OneAnswer ==
  ASSUME Typed, NEW q \in Requests, NEW d \in Requests, DeleteItem(q), DeleteItem(d)
  PROVE  q = d
BY AnswerType DEF DeleteItem

\* KeptInv holds initially: nothing was answered.
LEMMA InitKept == Init => KeptInv
<1> SUFFICES ASSUME Init, NEW q \in Requests, pc[q] = "none" PROVE pc[q] \notin Done /\ pc[q] # "get"
  BY DEF Init, ServerInit, KeptInv, Deleted
<1> QED BY DEF Done

\* Every step keeps KeptInv.
LEMMA NextKept == Typed /\ OwnersInv /\ SeedInv /\ KeptInv /\ [Next]_vars => KeptInv'
<1> SUFFICES ASSUME Typed, OwnersInv, SeedInv, KeptInv, [Next]_vars, NEW q \in Requests
             PROVE  /\ Deleted(q)' => DeletedInv(q)'
                    /\ op'[q].kind = "create" /\ pc'[q] \in Done /\ status'[q] = 201 => Known(q)'
                    /\ pc'[q] = "get" => Known(item[q])'
                    /\ op'[q].kind = "get" /\ pc'[q] \in Done /\ status'[q] = 404 => MissingInv(q)'
  BY DEF KeptInv
<1>1. CASE pc[q] \in Done
  <2>1. /\ Keeps(q) /\ pc[q] # "none"
        /\ op'[q] = op[q] /\ item'[q] = item[q] /\ who'[q] = who[q] /\ status'[q] = status[q]
    BY <1>1, Settled DEF Keeps, Done
  <2>2. ASSUME Deleted(q)' PROVE DeletedInv(q)'
    <3>1. DeletedInv(q)
      BY <1>1, <2>1, <2>2 DEF Deleted, KeptInv
    <3>2. Stored(item[q])' /\ DeletesOf(item[q])' = {q}
      <4>1. PICK id : id = item[q]
        OBVIOUS
      <4>2. Stored(id) /\ DeletesOf(id) = {q} /\ \A i \in items : i.id # id
        BY <3>1, <4>1 DEF DeletedInv
      <4>3. Stored(id)' /\ DeletesOf(id) \subseteq DeletesOf(id)'
        BY <4>2, MadeStays, DeletesStay
      <4>4. ASSUME NEW d \in DeletesOf(id)', d \notin DeletesOf(id) PROVE FALSE
        <5>1. Own(d) # {} /\ item[d] = id
          BY <4>2, <4>4, DeletesStay
        <5> QED BY <4>2, <5>1 DEF Own, RowFor, RowsOf
      <4>5. DeletesOf(id)' = {q}
        BY <4>2, <4>3, <4>4
      <4>6. item'[q] = id
        BY <2>1, <4>1
      <4> QED BY <4>3, <4>5, <4>6 DEF Stored, DeletesOf
    <3>3. ASSUME NEW i \in items', i.id = item[q] PROVE FALSE
      <4>1. i \notin items
        BY <3>1, <3>3 DEF DeletedInv
      <4>2. CASE \E p \in Requests : CreateItem(p)
        <5>1. PICK p \in Requests : CreateItem(p)
          BY <4>2
        <5>2. i.id = p /\ pc[p] = "create"
          BY <4>1, <5>1 DEF CreateItem, InsertItem
        <5> QED BY <3>1, <3>3, <5>2 DEF DeletedInv, Stored, Done
      <4>3. CASE SeedItem
        <5> DEFINE k == step - Len(SeedUsers)
        <5>1. i.id = <<starts, k>> /\ server = "seeding"
          BY <4>1, <4>3 DEF SeedItem, InsertItem
        <5>2. starts \in Nat /\ k \in Nat
          BY <4>3, SeedItemNumber DEF Typed, TypeOK, ServerTypeOK
        <5> HIDE DEF k
        <5>3. <<starts, k>> \in Nat \X Nat /\ Requests \cap (Nat \X Nat) = {}
          BY <5>2, ServerAssumption
        <5>4. item[q] \notin Requests /\ item[q][1] = starts
          BY <3>3, <5>1, <5>3
        <5> QED BY <3>1, <5>1, <5>2, <5>4 DEF DeletedInv
      <4> QED BY <4>1, <4>2, <4>3, Rows DEF DeleteItem, DeleteRow
    <3>4. ASSUME item[q] \notin Requests
          PROVE  /\ item[q] \in Nat \X Nat /\ item[q][1] <= starts'
                 /\ server' = "seeding" => item[q][1] < starts'
      <4>1. item[q] \in Nat \X Nat /\ item[q][1] \in Nat /\ starts \in Nat /\ starts' \in Nat
        <5>1. Typed'
          BY NextTyped
        <5> QED BY <3>1, <3>4, <5>1 DEF DeletedInv, Typed, TypeOK, ServerTypeOK
      <4> QED BY <3>1, <3>4, <4>1, StartsGrow DEF DeletedInv
    <3> QED BY <2>1, <3>2, <3>3, <3>4 DEF DeletedInv
  <2>3. ASSUME op'[q].kind = "create", status'[q] = 201 PROVE Known(q)'
    <3>1. Known(q)
      BY <1>1, <2>1, <2>3 DEF KeptInv
    <3> QED BY <3>1, KnownStays
  <2>4. ASSUME op'[q].kind = "get", status'[q] = 404 PROVE MissingInv(q)'
    <3>1. MissingInv(q)
      BY <1>1, <2>1, <2>4 DEF KeptInv
    <3>2. /\ Stored(item[q])' /\ Made(item[q])' = Made(item[q])
          /\ DeletesOf(item[q]) \subseteq DeletesOf(item[q])'
      <4>1. PICK id : id = item[q]
        OBVIOUS
      <4>2. Stored(id)' /\ Made(id)' = Made(id) /\ DeletesOf(id) \subseteq DeletesOf(id)'
        BY <3>1, <4>1, MadeStays, DeletesStay DEF MissingInv
      <4> QED BY <2>1, <4>1, <4>2 DEF Stored, Made, DeletesOf
    <3> QED BY <2>1, <3>1, <3>2 DEF MissingInv
  <2>5. pc'[q] # "get"
    BY <1>1, <2>1 DEF Keeps, Done
  <2> QED BY <2>2, <2>3, <2>4, <2>5
<1>2. CASE pc[q] \notin Done
  <2>1. ASSUME Deleted(q)' PROVE DeletedInv(q)'
    <3>1. /\ UNCHANGED <<op, who, item>> /\ DeleteItem(q) /\ server = "serving"
          /\ UNCHANGED <<server, starts>>
      BY <1>2, <2>1, VaultHandler DEF Deleted
    <3>2. Own(q) # {}
      BY <2>1, <3>1, AnswerType DEF DeleteItem, Deleted
    <3>3. /\ \A i \in items' : i.id # item[q]
          /\ \E i \in items : i.id = item[q]
          /\ q \in DeletesOf(item[q])'
      BY <3>1, <3>2, DeleteEnds
    <3>4. PICK i \in items : i.id = item[q]
      BY <3>3
    <3>5. Stored(item[q])
      BY <3>4 DEF OwnersInv, RowInv
    <3>6. ASSUME NEW d \in DeletesOf(item[q])' PROVE d = q
      <4>1. CASE d \in DeletesOf(item[q])
        <5>1. d \in Requests /\ Deleted(d) /\ item[d] = item[q]
          BY <4>1 DEF DeletesOf, Deleted, Done, Typed, TypeOK, ServerTypeOK, Placed, Running
        <5> QED BY <3>4, <5>1 DEF KeptInv, DeletedInv
      <4>2. CASE d \notin DeletesOf(item[q])
        <5>1. d \in Requests /\ DeleteItem(d)
          <6>1. PICK id : id = item[q]
            OBVIOUS
          <6>2. d \in DeletesOf(id)'
            BY <3>1, <3>6, <6>1 DEF DeletesOf, Made
          <6>3. d \in Requests
            BY <3>6 DEF DeletesOf
          <6> QED BY <3>5, <4>2, <6>1, <6>2, <6>3, DeletesStay
        <5> QED BY <3>1, <5>1, OneAnswer
      <4> QED BY <4>1, <4>2
    <3>7. item[q] \notin Requests => item[q] \in Nat \X Nat /\ item[q][1] <= starts
      BY <3>4, SeedIdType DEF SeedInv
    <3> QED BY <3>1, <3>3, <3>5, <3>6, <3>7, MadeStays DEF DeletedInv
  <2>2. ASSUME op'[q].kind = "create", pc'[q] \in Done, status'[q] = 201 PROVE Known(q)'
    <3>1. CreateItem(q) /\ op' = op
      BY <1>2, <2>2, VaultHandler
    <3>2. \E i \in items' : i.id = q
      <4> DEFINE n == [id |-> q, kind |-> op[q].item, owner |-> who[q], text |-> op[q].text,
                       key |-> Encrypted(op[q].item)]
      <4>1. items' = items \cup {n} /\ n.id = q
        BY <3>1 DEF CreateItem, InsertItem
      <4> HIDE DEF n
      <4> QED BY <4>1
    <3>3. op'[q].kind = "create" /\ pc'[q] \in Done
      BY <2>2
    <3> QED BY <3>2, <3>3 DEF Known, Stored
  <2>3. ASSUME pc'[q] = "get" PROVE Known(item[q])'
    <3>1. CASE pc[q] = "get"
      <4>1. item'[q] = item[q]
        BY <3>1, Settled DEF Keeps
      <4> QED BY <3>1, <4>1, KnownStays DEF KeptInv
    <3>2. CASE pc[q] # "get"
      <4>1. PICK o \in workload.operations : Receive(q, o)
        BY <2>3, <3>2 DEF Next, Arrive, Receive, Refuse, Fail, Answer, Raise, Handle, Send, Record,
           SendError, Lifespan, Background, Die, Crash, AccountsNext, RegisterCheck, RegisterInsert,
           LoginRead, LoginRehash, MfaSetup, EnableRead, EnableWrite, VaultNext, CreateItem,
           ListItems, GetItem, DeleteItem, Ping, requestVars, vars, Typed, TypeOK, ServerTypeOK
      <4>2. o.kind = "get" /\ item'[q] \in IdsFor(q, o)
        BY <2>3, <4>1 DEF Receive, Typed, TypeOK, ServerTypeOK
      <4>3. Known(item'[q])
        <5>1. CASE \E i \in items : i.id = item'[q]
          BY <5>1 DEF Known, OwnersInv, RowInv
        <5>2. CASE \E p \in Requests : p = item'[q] /\ op[p].kind = "create" /\ Told(p, 201)
          BY <5>2 DEF KeptInv, Told, Done
        <5> QED BY <4>2, <5>1, <5>2 DEF IdsFor
      <4> QED BY <4>3, KnownStays
    <3> QED BY <3>1, <3>2
  <2>4. ASSUME op'[q].kind = "get", pc'[q] \in Done, status'[q] = 404 PROVE MissingInv(q)'
    <3>1. GetItem(q) /\ UNCHANGED <<op, who, item>> /\ pc[q] = "get"
      BY <1>2, <2>4, VaultHandler
    <3>2. Own(q) = {}
      BY <2>4, <3>1, AnswerType DEF GetItem
    <3>3. Known(item[q])
      BY <3>1 DEF KeptInv
    <3>4. \/ Made(item[q]).owner # who[q] \/ Made(item[q]).kind # op[q].item
          \/ DeletesOf(item[q]) # {}
      BY <3>2, <3>3 DEF Known, OwnersInv, RowInv, Own, RowFor, RowsOf
    <3>5. /\ Stored(item[q])' /\ Made(item[q])' = Made(item[q])
          /\ DeletesOf(item[q]) \subseteq DeletesOf(item[q])'
      <4>1. PICK id : id = item[q]
        OBVIOUS
      <4>2. Stored(id)' /\ Made(id)' = Made(id) /\ DeletesOf(id) \subseteq DeletesOf(id)'
        BY <3>3, <4>1, MadeStays, DeletesStay DEF Known
      <4> QED BY <3>1, <4>1, <4>2 DEF Stored, Made, DeletesOf
    <3> QED BY <3>1, <3>4, <3>5 DEF MissingInv
  <2> QED BY <2>1, <2>2, <2>3, <2>4 DEF Deleted
<1> QED BY <1>1, <1>2

\* KeptUntilDeleted holds for any number of concurrent deletions, reads and lists, and
\* any sequence of keys.
THEOREM KeptRows == Spec => []KeptUntilDeleted
<1>1. Typed /\ OwnersInv /\ KeptInv => KeptUntilDeleted
  <2> SUFFICES ASSUME Typed, OwnersInv, KeptInv, NEW q \in Requests
               PROVE  /\ op[q].kind = "create" /\ Told(q, 201) =>
                           DeletesOf(q) # {} \/ \E i \in items : i.id = q /\ i.text = op[q].text
                      /\ op[q].kind = "get" /\ Told(q, 404) =>
                           LET made == Made(item[q]) IN
                           made.owner # who[q] \/ made.kind # op[q].item \/ DeletesOf(item[q]) # {}
                      /\ op[q].kind = "delete" /\ status[q] = 200 =>
                           DeletesOf(item[q]) = {q} /\ \A i \in items : i.id # item[q]
    BY DEF KeptUntilDeleted
  <2>1. op[q].kind = "create" /\ Told(q, 201) =>
          DeletesOf(q) # {} \/ \E i \in items : i.id = q /\ i.text = op[q].text
    BY DEF KeptInv, Known, Told, Done, OwnersInv, RowInv, Made
  <2>2. op[q].kind = "get" /\ Told(q, 404) => MissingInv(q)
    BY DEF KeptInv, Told, Done
  <2>3. op[q].kind = "delete" /\ status[q] = 200 => DeletedInv(q)
    BY DEF KeptInv, Deleted, Done, Typed, TypeOK, ServerTypeOK, Placed, Running
  <2> QED BY <2>1, <2>2, <2>3 DEF MissingInv, DeletedInv
<1> QED BY <1>1, InitTyped, NextTyped, InitOwners, NextOwners, InitSeed, NextSeed, InitKept,
           NextKept, PTL DEF Spec

-----------------------------------------------------------------------------
(* Accounts.                                                               *)

\* An id of a user names its account: of the registration that made it, or of the seed.
\* A login that will rewrite a hash has given the password of its account.
AccountsInv ==
  /\ \A u, v \in users : u # v => /\ account[u].username # account[v].username
                                  /\ account[u].email # account[v].email
  /\ \A q \in Requests :
       /\ q \in users => /\ op[q].kind = "register" /\ pc[q] \in Done
                         /\ account[q].username = op[q].username
                         /\ account[q].email = op[q].email
                         /\ account[q].password = op[q].password
       /\ op[q].kind = "register" /\ pc[q] \in Done /\ status[q] = 201 => q \in users
       /\ pc[q] = "rehash" => account[who[q]].password = op[q].password

\* What may happen to the users' table.
LEMMA Accounts ==
  ASSUME [Next]_vars
  PROVE  \/ UNCHANGED <<users, account>>
         \/ \E q \in Requests :
              /\ RegisterInsert(q) \/ LoginRehash(q) \/ MfaSetup(q) \/ EnableWrite(q)
              /\ UNCHANGED op
         \/ SeedUser
BY DEF Next, Arrive, Handle, Send, Lifespan, Background, Die, Crash, SeedNext, Start, SeedItem,
       SeedEnd, AccountsNext, RegisterCheck, LoginRead, EnableRead, dbVars, vars

\* The columns the MFA routes write are not those of the account, and a rehash keeps
\* the password.
LEMMA NamesStay ==
  ASSUME Typed, AccountsInv, [Next]_vars, NEW u \in users
  PROVE  /\ account'[u].username = account[u].username
         /\ account'[u].email = account[u].email
         /\ account'[u].password = account[u].password
<1>0. u \in AccountIds /\ account \in [AccountIds -> Account]
  BY DEF Typed, TypeOK, ServerTypeOK
<1>1. account[u] \in Account
  BY <1>0
<1>2. CASE UNCHANGED account
  BY <1>2
<1>3. ASSUME NEW q \in Requests, RegisterInsert(q) PROVE account'[u] = account[u]
  <2>1. q # u
    BY <1>3 DEF RegisterInsert, AccountsInv, Done
  <2> QED BY <1>0, <1>3, <2>1 DEF RegisterInsert, InsertUser
<1>4. ASSUME NEW q \in Requests, LoginRehash(q)
      PROVE  /\ account'[u].username = account[u].username
             /\ account'[u].email = account[u].email
             /\ account'[u].password = account[u].password
  <2>1. account[who[q]].password = op[q].password
    BY <1>4 DEF LoginRehash, AccountsInv
  <2> DEFINE one == [account EXCEPT ![who[q]].password = op[q].password]
  <2>2. account' = [one EXCEPT ![who[q]].cost = Settings.cost]
    BY <1>4 DEF LoginRehash, UpdatePasswordHash
  <2>3. /\ one \in [AccountIds -> Account] /\ one[u].username = account[u].username
        /\ one[u].email = account[u].email /\ one[u].password = account[u].password
    <3>1. op[q].password \in Passwords
      BY DEF Typed, TypeOK, ServerTypeOK, Operation
    <3> QED BY <1>0, <2>1, <3>1 DEF Account
  <2> HIDE DEF one
  <2>4. one[u] \in Account
    BY <1>0, <2>3
  <2> QED BY <1>0, <2>2, <2>3, <2>4 DEF Account
<1>5. ASSUME NEW q \in Requests, MfaSetup(q) \/ EnableWrite(q)
      PROVE  /\ account'[u].username = account[u].username
             /\ account'[u].email = account[u].email
             /\ account'[u].password = account[u].password
  BY <1>0, <1>1, <1>5 DEF MfaSetup, SetMfaSecret, EnableWrite, EnableMfa, Account
<1>6. CASE SeedUser
  BY <1>0, <1>6 DEF SeedUser, InsertUser
<1> QED BY <1>2, <1>3, <1>4, <1>5, <1>6, Accounts

\* A new account has a name and an address nobody had, and those of its registration.
LEMMA NewAccount ==
  ASSUME Typed, [Next]_vars
  PROVE  \/ users' = users
         \/ \E u \in AccountIds :
              /\ users' = users \cup {u} /\ u \notin users
              /\ ~Taken(account'[u].username, account'[u].email)
              /\ account'[u].mfa_secret = NoSecret /\ account'[u].mfa_enabled = FALSE
              /\ u \in Requests =>
                   /\ op'[u].kind = "register" /\ pc'[u] \in Done
                   /\ account'[u].username = op'[u].username
                   /\ account'[u].email = op'[u].email
                   /\ account'[u].password = op'[u].password
<1>0. account \in [AccountIds -> Account]
  BY DEF Typed, TypeOK, ServerTypeOK
<1>1. ASSUME NEW q \in Requests, RegisterInsert(q), UNCHANGED op, users' # users
      PROVE  /\ users' = users \cup {q} /\ q \notin users
             /\ ~Taken(account'[q].username, account'[q].email)
             /\ account'[q].mfa_secret = NoSecret /\ account'[q].mfa_enabled = FALSE
             /\ op'[q].kind = "register" /\ pc'[q] \in Done
             /\ account'[q].username = op'[q].username
             /\ account'[q].email = op'[q].email
             /\ account'[q].password = op'[q].password
  <2>1. ~Taken(op[q].username, op[q].email) /\ Answer(q, 201)
        /\ InsertUser(q, op[q].username, op[q].email, op[q].password)
    BY <1>1 DEF RegisterInsert
  <2>2. q \in AccountIds
    BY DEF AccountIds
  <2>3. account'[q] = [username |-> op[q].username, email |-> op[q].email,
                       password |-> op[q].password, cost |-> Settings.cost,
                       mfa_secret |-> NoSecret, mfa_enabled |-> FALSE]
        /\ users' = users \cup {q}
    BY <1>0, <2>1, <2>2 DEF InsertUser
  <2>4. op[q].kind = "register" /\ pc'[q] \in Done
    BY <1>1, <2>1, AnswerType DEF RegisterInsert, Typed, Placed, Done
  <2> QED BY <1>1, <2>1, <2>3, <2>4
<1>2. CASE SeedUser /\ users' # users
  <2> DEFINE u == SeedUsers[step]
  <2>1. u \in [id : SeedIds, username : Names, email : Emails]
    BY <1>2, SeedUserNumber, SeedUserType DEF SeedUser, Typed
  <2>2. u.id \in AccountIds /\ u.id \notin Requests
    BY <2>1, ServerAssumption DEF AccountIds
  <2>3. u.id \notin users /\ ~Taken(u.username, u.email)
        /\ InsertUser(u.id, u.username, u.email, DEMO_PASSWORD)
    BY <1>2 DEF SeedUser
  <2> HIDE DEF u
  <2>4. account'[u.id] = [username |-> u.username, email |-> u.email,
                          password |-> DEMO_PASSWORD, cost |-> Settings.cost,
                          mfa_secret |-> NoSecret, mfa_enabled |-> FALSE]
        /\ users' = users \cup {u.id}
    BY <1>0, <2>2, <2>3 DEF InsertUser
  <2> QED BY <2>2, <2>3, <2>4
<1> QED BY <1>1, <1>2, Accounts DEF LoginRehash, UpdatePasswordHash, MfaSetup, SetMfaSecret,
           EnableWrite, EnableMfa, AccountIds

\* The user of a request that has one stays.
LEMMA WhoStays ==
  ASSUME Typed, [Next]_vars, NEW p \in Requests, pc[p] \notin {"none", "login"}
  PROVE  who'[p] = who[p]
<1>0. DOMAIN who = Requests
  BY DEF Typed, TypeOK, ServerTypeOK
<1> QED BY <1>0 DEF Next, Arrive, Receive, Refuse, Fail, Handle, AccountsNext, LoginRead,
           LoginRehash, VaultNext, Send, Lifespan, Background, Die, Crash, requestVars, vars

\* AccountsInv holds initially: there are no accounts.
LEMMA InitAccounts == Init => AccountsInv
<1> SUFFICES ASSUME Init PROVE AccountsInv
  OBVIOUS
<1> QED BY DEF Init, ServerInit, AccountsInv, Done

\* The handler that answers 201 to a registration has inserted it.
LEMMA Registers ==
  ASSUME Typed, [Next]_vars, NEW q \in Requests, pc[q] \notin Done,
         op'[q].kind = "register", status'[q] = 201
  PROVE  q \in users'
<1>1. AccountsNext(q) \/ (VaultNext(q) /\ UNCHANGED <<users, account>>)
  BY Answers
<1>2. op' = op
  BY <1>1 DEF AccountsNext, VaultNext
<1>3. ~VaultNext(q)
  BY <1>2 DEF VaultNext, CreateItem, ListItems, GetItem, DeleteItem, Ping, Typed, Placed, Kinds
<1>4. pc[q] \in {"register", "insert"}
  BY <1>1, <1>2, <1>3 DEF AccountsNext, RegisterCheck, RegisterInsert, LoginRead, LoginRehash,
     MfaSetup, EnableRead, EnableWrite, Typed, Placed, Kinds
<1>5. status[q] = 0
  BY <1>4 DEF Typed, Placed, Running, Kinds
<1>6. CASE RegisterInsert(q)
  BY <1>6, RaiseType DEF RegisterInsert, InsertUser
<1>7. CASE RegisterCheck(q)
  BY <1>5, <1>7, AnswerType DEF RegisterCheck
<1> QED BY <1>1, <1>3, <1>4, <1>6, <1>7
        DEF AccountsNext, LoginRead, LoginRehash, MfaSetup, EnableRead, EnableWrite

\* Every step keeps AccountsInv.
LEMMA NextAccounts == Typed /\ AccountsInv /\ [Next]_vars => AccountsInv'
<1> SUFFICES ASSUME Typed, AccountsInv, [Next]_vars PROVE AccountsInv'
  OBVIOUS
<1>1. ASSUME NEW u \in users', NEW v \in users', u # v
      PROVE  account'[u].username # account'[v].username /\ account'[u].email # account'[v].email
  <2>1. CASE u \in users /\ v \in users
    BY <1>1, <2>1, NamesStay DEF AccountsInv
  <2>2. CASE ~(u \in users /\ v \in users)
    <3>1. users' # users
      BY <2>2
    <3>2. PICK n \in AccountIds : /\ users' = users \cup {n}
                                  /\ ~Taken(account'[n].username, account'[n].email)
      BY <3>1, NewAccount
    <3>3. ASSUME NEW w \in users
          PROVE  /\ account'[n].username # account'[w].username
                 /\ account'[n].email # account'[w].email
      BY <3>2, NamesStay DEF Taken
    <3>4. \/ u = n /\ v \in users
          \/ v = n /\ u \in users
      BY <1>1, <2>2, <3>2
    <3> QED BY <3>3, <3>4
  <2> QED BY <2>1, <2>2
<1>2. ASSUME NEW q \in Requests, q \in users'
      PROVE  /\ op'[q].kind = "register" /\ pc'[q] \in Done
             /\ account'[q].username = op'[q].username
             /\ account'[q].email = op'[q].email
             /\ account'[q].password = op'[q].password
  <2>1. CASE q \in users
    <3>1. Keeps(q) /\ pc[q] # "none" /\ pc[q] \in Done
      BY <2>1, Settled DEF AccountsInv, Done
    <3>2. op'[q] = op[q] /\ pc'[q] \in Done
      BY <3>1 DEF Keeps
    <3> QED BY <2>1, <3>2, NamesStay DEF AccountsInv
  <2> QED BY <1>2, <2>1, NewAccount
<1>3. ASSUME NEW q \in Requests, op'[q].kind = "register", pc'[q] \in Done, status'[q] = 201
      PROVE  q \in users'
  <2>1. CASE pc[q] \in Done
    <3>1. Keeps(q) /\ pc[q] # "none"
      BY <2>1, Settled DEF Done
    <3>2. op'[q] = op[q] /\ status'[q] = status[q]
      BY <2>1, <3>1 DEF Keeps
    <3> QED BY <1>3, <2>1, <3>2, UsersGrow DEF AccountsInv
  <2> QED BY <1>3, <2>1, Registers
<1>4. ASSUME NEW p \in Requests, pc'[p] = "rehash"
      PROVE  account'[who'[p]].password = op'[p].password
  <2>0. pc \in [Requests -> Places] /\ DOMAIN who = Requests
    BY DEF Typed, TypeOK, ServerTypeOK, Places
  <2>1. CASE pc[p] = "rehash"
    <3>1. who'[p] = who[p] /\ op'[p] = op[p]
      BY <2>1, WhoStays, Settled DEF Keeps
    <3>2. who[p] \in users /\ account[who[p]].password = op[p].password
      BY <2>1 DEF Typed, Placed, Acting, AccountsInv
    <3> QED BY <3>1, <3>2, NamesStay
  <2>2. CASE pc[p] # "rehash"
    <3>1. LoginRead(p) /\ UNCHANGED <<users, account, op>>
      <4>1. ~\E q \in Requests : Arrive(q) \/ Send(q)
        <5>1. \A o \in workload.operations : o.kind \in Kinds
          BY ServerAssumption DEF Typed, TypeOK, ServerTypeOK, Workload, Operation
        <5>2. \A q \in Requests, o \in workload.operations : ~Receive(q, o)
          BY <1>4, <2>0, <2>2, <5>1 DEF Receive, Kinds
        <5> QED BY <1>4, <2>0, <2>2, <5>2 DEF Arrive, Refuse, Fail, Answer, Raise, Send, Record,
                   SendError
      <4>2. ~(Lifespan \/ Background \/ Die \/ UNCHANGED vars)
        BY <1>4, <2>0, <2>2 DEF Lifespan, Background, Die, Crash, requestVars, vars
      <4>3. PICK q \in Requests : Handle(q)
        BY <4>1, <4>2 DEF Next
      <4>4. ~VaultNext(q)
        BY <1>4, <2>0, <2>2 DEF VaultNext, CreateItem, ListItems, GetItem, DeleteItem, Ping, Answer
      <4>5. LoginRead(q) /\ q = p /\ op' = op
        BY <1>4, <2>0, <2>2, <4>3, <4>4 DEF Handle, AccountsNext, RegisterCheck, RegisterInsert,
           LoginRead, LoginRehash, MfaSetup, EnableRead, EnableWrite, Answer, Raise
      <4> QED BY <4>5 DEF LoginRead
    <3>2. ~Answer(p, 401) /\ ~Answer(p, 200)
      BY <1>4, <2>0 DEF Answer
    <3>3. LetsIn(who'[p], p)
      BY <2>0, <3>1, <3>2 DEF LoginRead
    <3> QED BY <3>1, <3>3 DEF LetsIn
  <2> QED BY <2>1, <2>2
<1> QED BY <1>1, <1>2, <1>3, <1>4 DEF AccountsInv

\* AccountsAreKept holds, although the check and the insertion of a registration are
\* two steps of any number of concurrent handlers.
THEOREM AccountsKept == Spec => []AccountsAreKept
<1>1. AccountsInv => AccountsAreKept
  BY DEF AccountsInv, AccountsAreKept, Told, Done
<1> QED BY <1>1, InitTyped, NextTyped, InitAccounts, NextAccounts, PTL DEF Spec

-----------------------------------------------------------------------------
(* MFA.                                                                    *)

Confirms(q) == op[q].kind = "mfa_enable" /\ pc[q] \in Done /\ status[q] = 200

\* The secret that the request s made, for its user u.
SecretOf(s, u) == s \in Requests /\ op[s].kind = "mfa_setup" /\ pc[s] \in Done /\ who[s] = u

\* A handler that is about to set the flag has checked a code of the secret of its
\* user, which is that of the row still, unless its user is late.
CheckedInv(q) ==
  /\ pc[q] = "enable" \/ Confirms(q) => who[q] \in users /\ SecretOf(code[q], who[q])
  /\ pc[q] = "enable" /\ who[q] \notin late => account[who[q]].mfa_secret = code[q]

UserInv(u) ==
  /\ account[u].mfa_secret # NoSecret => SecretOf(account[u].mfa_secret, u)
  /\ account[u].mfa_enabled => \E q \in Requests : Confirms(q) /\ who[q] = u
  /\ account[u].mfa_enabled /\ u \notin late =>
       \E q \in Requests : Confirms(q) /\ who[q] = u /\ code[q] = account[u].mfa_secret
  /\ \A q \in Requests : Confirms(q) /\ who[q] = u => account[u].mfa_enabled

MfaInv ==
  /\ \A q \in Requests : CheckedInv(q)
  /\ \A u \in users : UserInv(u)

\* MfaInv holds initially: there are no accounts.
LEMMA InitMfa == Init => MfaInv
BY DEF Init, ServerInit, MfaInv, CheckedInv, Confirms, Done

\* A secret of a user stays one of that user.
LEMMA SecretStays ==
  ASSUME Typed, [Next]_vars, NEW s, NEW u, SecretOf(s, u)
  PROVE  SecretOf(s, u)'
BY Settled DEF SecretOf, Keeps, Done

\* A confirmation that was answered stays as it was.
LEMMA ConfirmStays ==
  ASSUME Typed, [Next]_vars, NEW q \in Requests, Confirms(q)
  PROVE  Confirms(q)' /\ who'[q] = who[q] /\ code'[q] = code[q]
BY Settled DEF Confirms, Keeps, Done

\* A confirmation is the step that sets the flag.
LEMMA ConfirmNew ==
  ASSUME Typed, [Next]_vars, NEW q \in Requests, Confirms(q)', ~Confirms(q)
  PROVE  EnableWrite(q) /\ UNCHANGED <<op, who, code>>
<1>1. pc[q] \notin Done
  BY Settled DEF Confirms, Keeps, Done
<1>2. AccountsNext(q) \/ (VaultNext(q) /\ UNCHANGED <<users, account>>)
  BY <1>1, Answers DEF Confirms
<1>3. op' = op /\ op[q].kind = "mfa_enable"
  BY <1>2 DEF AccountsNext, VaultNext, Confirms
<1>4. ~VaultNext(q)
  BY <1>3 DEF VaultNext, CreateItem, ListItems, GetItem, DeleteItem, Ping, Typed, Placed, Kinds
<1>5. pc[q] \in {"mfa_enable", "enable"}
  BY <1>2, <1>3, <1>4 DEF AccountsNext, RegisterCheck, RegisterInsert, LoginRead, LoginRehash,
     MfaSetup, EnableRead, EnableWrite, Typed, Placed, Kinds
<1>6. ~EnableRead(q)
  <2>1. SUFFICES ASSUME EnableRead(q) PROVE FALSE
    OBVIOUS
  <2>2. status[q] = 0
    BY <1>5 DEF Typed, Placed, Running, Kinds
  <2> QED BY <2>1, <2>2, AnswerType DEF EnableRead, Confirms
<1> QED BY <1>2, <1>3, <1>4, <1>5, <1>6 DEF AccountsNext, RegisterCheck, RegisterInsert, LoginRead,
           LoginRehash, MfaSetup, EnableWrite

\* A handler gets to the flag by its check.
LEMMA EnableNew ==
  ASSUME Typed, [Next]_vars, NEW q \in Requests, pc'[q] = "enable", pc[q] # "enable"
  PROVE  /\ UNCHANGED <<users, account, late, op, who, code>>
         /\ account[who[q]].mfa_secret # NoSecret /\ code[q] = account[who[q]].mfa_secret
         /\ who[q] \in users
<1>0. pc \in [Requests -> Places]
  BY DEF Typed, TypeOK, ServerTypeOK, Places
<1>1. ~\E p \in Requests : Arrive(p) \/ Send(p)
  <2>1. \A o \in workload.operations : o.kind \in Kinds
    BY ServerAssumption DEF Typed, TypeOK, ServerTypeOK, Workload, Operation
  <2>2. \A p \in Requests, o \in workload.operations : ~Receive(p, o)
    BY <1>0, <2>1 DEF Receive, Kinds
  <2> QED BY <1>0, <2>2 DEF Arrive, Refuse, Fail, Answer, Raise, Send, Record, SendError
<1>2. ~(Lifespan \/ Background \/ Die \/ UNCHANGED vars)
  BY <1>0 DEF Lifespan, Background, Die, Crash, requestVars, vars
<1>3. PICK p \in Requests : Handle(p)
  BY <1>1, <1>2 DEF Next
<1>4. ~VaultNext(p)
  BY <1>0 DEF VaultNext, CreateItem, ListItems, GetItem, DeleteItem, Ping, Answer
<1>5. EnableRead(p) /\ q = p /\ UNCHANGED <<op, who, code>>
  BY <1>0, <1>3, <1>4 DEF Handle, AccountsNext, RegisterCheck, RegisterInsert,
     LoginRead, LoginRehash, MfaSetup, EnableRead, EnableWrite, Answer, Raise
<1>6. ~Answer(q, 400)
  BY <1>0 DEF Answer
<1>7. who[q] \in users
  BY <1>5 DEF EnableRead, Typed, Placed, Acting, Kinds, Public
<1> QED BY <1>5, <1>6, <1>7 DEF EnableRead

\* A user who was late stays so.
LEMMA LateGrows ==
  ASSUME [Next]_vars
  PROVE  late \subseteq late'
BY DEF Next, Arrive, Handle, Send, Lifespan, Background, Die, AccountsNext, RegisterCheck,
       RegisterInsert, LoginRead, LoginRehash, MfaSetup, EnableRead, EnableWrite, vars

\* Only /mfa/setup and /mfa/enable of a user write its MFA columns.
LEMMA MfaWrites ==
  ASSUME Typed, AccountsInv, [Next]_vars, NEW u \in users
  PROVE  \/ /\ account'[u].mfa_secret = account[u].mfa_secret
            /\ account'[u].mfa_enabled = account[u].mfa_enabled
         \/ \E q \in Requests :
              /\ MfaSetup(q) /\ who[q] = u /\ op' = op
              /\ account'[u].mfa_secret = q
              /\ account'[u].mfa_enabled = account[u].mfa_enabled
         \/ \E q \in Requests :
              /\ EnableWrite(q) /\ who[q] = u /\ op' = op
              /\ account'[u].mfa_secret = account[u].mfa_secret
              /\ account'[u].mfa_enabled = TRUE
<1>0. u \in AccountIds /\ account \in [AccountIds -> Account] /\ account[u] \in Account
  BY DEF Typed, TypeOK, ServerTypeOK
<1>1. CASE UNCHANGED account
  BY <1>1
<1>2. ASSUME NEW q \in Requests, RegisterInsert(q) PROVE account'[u] = account[u]
  <2>1. q # u
    BY <1>2 DEF RegisterInsert, AccountsInv, Done
  <2> QED BY <1>0, <1>2, <2>1 DEF RegisterInsert, InsertUser
<1>3. CASE SeedUser
  BY <1>0, <1>3 DEF SeedUser, InsertUser
<1>4. ASSUME NEW q \in Requests, LoginRehash(q)
      PROVE  /\ account'[u].mfa_secret = account[u].mfa_secret
             /\ account'[u].mfa_enabled = account[u].mfa_enabled
  <2> DEFINE one == [account EXCEPT ![who[q]].password = op[q].password]
  <2>1. account' = [one EXCEPT ![who[q]].cost = Settings.cost]
    BY <1>4 DEF LoginRehash, UpdatePasswordHash
  <2>2. op[q].password \in Passwords
    BY DEF Typed, TypeOK, ServerTypeOK, Operation
  <2>3. one \in [AccountIds -> Account] /\ one[u].mfa_secret = account[u].mfa_secret
        /\ one[u].mfa_enabled = account[u].mfa_enabled
    BY <1>0, <2>2 DEF Account
  <2> HIDE DEF one
  <2>4. one[u] \in Account
    BY <1>0, <2>3
  <2> QED BY <1>0, <2>1, <2>3, <2>4 DEF Account
<1>5. ASSUME NEW q \in Requests, MfaSetup(q), op' = op
      PROVE  \/ account'[u] = account[u]
             \/ /\ who[q] = u /\ account'[u].mfa_secret = q
                /\ account'[u].mfa_enabled = account[u].mfa_enabled
  BY <1>0, <1>5 DEF MfaSetup, SetMfaSecret, Account
<1>6. ASSUME NEW q \in Requests, EnableWrite(q), op' = op
      PROVE  \/ account'[u] = account[u]
             \/ /\ who[q] = u /\ account'[u].mfa_secret = account[u].mfa_secret
                /\ account'[u].mfa_enabled = TRUE
  BY <1>0, <1>6 DEF EnableWrite, EnableMfa, Account
<1>7. CASE \E q \in Requests :
             /\ RegisterInsert(q) \/ LoginRehash(q) \/ MfaSetup(q) \/ EnableWrite(q)
             /\ UNCHANGED op
  <2>1. PICK q \in Requests :
          /\ RegisterInsert(q) \/ LoginRehash(q) \/ MfaSetup(q) \/ EnableWrite(q)
          /\ UNCHANGED op
    BY <1>7
  <2>2. CASE RegisterInsert(q) \/ LoginRehash(q)
    BY <1>2, <1>4, <2>2
  <2>3. CASE MfaSetup(q)
    BY <1>5, <2>1, <2>3
  <2>4. CASE EnableWrite(q)
    BY <1>6, <2>1, <2>4
  <2> QED BY <2>1, <2>2, <2>3, <2>4
<1> QED BY <1>1, <1>3, <1>7, Accounts

\* What a confirmation is, after a step: one that was, or the step that sets the flag.
LEMMA Confirmed ==
  ASSUME Typed, MfaInv, [Next]_vars, NEW q \in Requests, Confirms(q)'
  PROVE  /\ who'[q] = who[q] /\ code'[q] = code[q]
         /\ who[q] \in users /\ SecretOf(code[q], who[q])
         /\ Confirms(q) \/ EnableWrite(q)
<1>1. CheckedInv(q)
  BY DEF MfaInv
<1>2. CASE Confirms(q)
  BY <1>1, <1>2, ConfirmStays DEF CheckedInv
<1>3. CASE ~Confirms(q)
  <2>1. EnableWrite(q) /\ UNCHANGED <<op, who, code>>
    BY <1>3, ConfirmNew
  <2>2. pc[q] = "enable"
    BY <2>1 DEF EnableWrite
  <2> QED BY <1>1, <2>1, <2>2 DEF CheckedInv
<1> QED BY <1>2, <1>3

\* Every step keeps what MfaInv says of a code under check.
LEMMA NextChecked ==
  ASSUME Typed, AccountsInv, MfaInv, [Next]_vars, NEW q \in Requests
  PROVE  CheckedInv(q)'
<1>1. CheckedInv(q)
  BY DEF MfaInv
<1>2. ASSUME Confirms(q)' PROVE who'[q] \in users' /\ SecretOf(code[q], who[q])' /\ code'[q] = code[q]
  <2>1. /\ who'[q] = who[q] /\ code'[q] = code[q]
        /\ who[q] \in users /\ SecretOf(code[q], who[q])
    BY <1>2, Confirmed
  <2>2. PICK s, u : s = code[q] /\ u = who[q]
    OBVIOUS
  <2>3. SecretOf(s, u)'
    BY <2>1, <2>2, SecretStays
  <2> QED BY <2>1, <2>2, <2>3, UsersGrow DEF SecretOf
<1>3. ASSUME pc'[q] = "enable"
      PROVE  /\ who'[q] \in users' /\ SecretOf(code[q], who[q])' /\ code'[q] = code[q]
             /\ who'[q] \notin late' => account'[who'[q]].mfa_secret = code[q]
  <2>1. CASE pc[q] = "enable"
    <3>1. who'[q] = who[q] /\ code'[q] = code[q]
      BY <2>1, WhoStays, Settled DEF Keeps
    <3>2. who[q] \in users /\ SecretOf(code[q], who[q])
      BY <1>1, <2>1 DEF CheckedInv
    <3>3. PICK s, u : s = code[q] /\ u = who[q]
      OBVIOUS
    <3>4. SecretOf(s, u)'
      BY <3>2, <3>3, SecretStays
    <3>5. ASSUME u \notin late' PROVE account'[u].mfa_secret = code[q]
      <4>1. u \notin late
        BY <3>5, LateGrows
      <4>2. account[u].mfa_secret = code[q]
        BY <1>1, <2>1, <3>3, <4>1 DEF CheckedInv
      <4>3. ~\E p \in Requests : MfaSetup(p) /\ who[p] = u
        BY <2>1, <3>3, <3>5 DEF MfaSetup
      <4> QED BY <3>2, <3>3, <4>2, <4>3, MfaWrites
    <3> QED BY <3>1, <3>2, <3>3, <3>4, <3>5, UsersGrow DEF SecretOf
  <2>2. CASE pc[q] # "enable"
    <3>1. /\ UNCHANGED <<users, account, late, op, who, code>>
          /\ account[who[q]].mfa_secret # NoSecret /\ code[q] = account[who[q]].mfa_secret
          /\ who[q] \in users
      BY <1>3, <2>2, EnableNew
    <3>2. PICK s, u : s = code[q] /\ u = who[q]
      OBVIOUS
    <3>3. SecretOf(s, u)
      BY <3>1, <3>2 DEF MfaInv, UserInv
    <3>4. SecretOf(s, u)'
      BY <3>3, SecretStays
    <3> QED BY <3>1, <3>2, <3>4 DEF SecretOf
  <2> QED BY <2>1, <2>2
<1>4. ASSUME Confirms(q)' \/ pc'[q] = "enable" PROVE SecretOf(code[q], who[q])'
  BY <1>2, <1>3, <1>4
<1>5. SecretOf(code[q], who[q])' <=>
        code'[q] \in Requests /\ op'[code'[q]].kind = "mfa_setup" /\ pc'[code'[q]] \in Done
        /\ who'[code'[q]] = who'[q]
  BY DEF SecretOf, Done
<1> QED BY <1>2, <1>3, <1>4, <1>5 DEF CheckedInv, Confirms, SecretOf, Done

\* The same for the rows of the users that there were.
LEMMA NextUser ==
  ASSUME Typed, AccountsInv, MfaInv, [Next]_vars, NEW u \in users
  PROVE  UserInv(u)'
<1>0. UserInv(u)
  BY DEF MfaInv
<1>1. ASSUME NEW q \in Requests, Confirms(q)', who'[q] = u PROVE account'[u].mfa_enabled
  <2>1. who[q] = u /\ (Confirms(q) \/ EnableWrite(q))
    BY <1>1, Confirmed
  <2>2. CASE Confirms(q)
    <3>1. account[u].mfa_enabled
      BY <1>0, <2>1, <2>2 DEF UserInv
    <3> QED BY <3>1, MfaWrites
  <2>3. CASE EnableWrite(q)
    <3>1. account \in [AccountIds -> Account] /\ u \in AccountIds
      BY DEF Typed, TypeOK, ServerTypeOK
    <3> QED BY <2>1, <2>3, <3>1 DEF EnableWrite, EnableMfa, Account
  <2> QED BY <2>1, <2>2, <2>3
<1>2. CASE /\ account'[u].mfa_secret = account[u].mfa_secret
           /\ account'[u].mfa_enabled = account[u].mfa_enabled
  <2>1. account'[u].mfa_secret # NoSecret => SecretOf(account[u].mfa_secret, u)'
    <3>1. PICK s : s = account[u].mfa_secret
      OBVIOUS
    <3>2. s # NoSecret => SecretOf(s, u)'
      BY <1>0, <3>1, SecretStays DEF UserInv
    <3> QED BY <1>2, <3>1, <3>2 DEF SecretOf
  <2>2. account'[u].mfa_enabled => \E q \in Requests : Confirms(q)' /\ who'[q] = u
    BY <1>0, <1>2, ConfirmStays DEF UserInv
  <2>3. account'[u].mfa_enabled /\ u \notin late' =>
          \E q \in Requests : Confirms(q)' /\ who'[q] = u /\ code'[q] = account'[u].mfa_secret
    BY <1>0, <1>2, ConfirmStays, LateGrows DEF UserInv
  <2> QED BY <1>1, <2>1, <2>2, <2>3 DEF UserInv, Confirms, SecretOf, Done
<1>3. ASSUME NEW q \in Requests, MfaSetup(q), who[q] = u, op' = op,
             account'[u].mfa_secret = q, account'[u].mfa_enabled = account[u].mfa_enabled
      PROVE  UserInv(u)'
  <2>1. SecretOf(q, u)'
    <3>1. op[q].kind = "mfa_setup" /\ pc[q] # "none" /\ pc'[q] \in Done
      BY <1>3, AnswerType DEF MfaSetup, Typed, Placed, Kinds, Done
    <3>2. who'[q] = who[q]
      BY <3>1, Settled DEF Keeps
    <3> QED BY <1>3, <3>1, <3>2 DEF SecretOf
  <2>2. account'[u].mfa_enabled => \E p \in Requests : Confirms(p)' /\ who'[p] = u
    BY <1>0, <1>3, ConfirmStays DEF UserInv
  <2>3. account'[u].mfa_enabled => u \in late'
    BY <1>3 DEF MfaSetup
  <2> QED BY <1>1, <1>3, <2>1, <2>2, <2>3 DEF UserInv, Confirms, SecretOf, Done
<1>4. ASSUME NEW q \in Requests, EnableWrite(q), who[q] = u, op' = op,
             account'[u].mfa_secret = account[u].mfa_secret, account'[u].mfa_enabled = TRUE
      PROVE  UserInv(u)'
  <2>1. Confirms(q)'
    <3>1. op[q].kind = "mfa_enable" /\ pc'[q] \in Done /\ status'[q] = 200
      BY <1>4, AnswerType DEF EnableWrite, Typed, Placed, Done
    <3> QED BY <1>4, <3>1 DEF Confirms
  <2>2. who'[q] = u /\ code'[q] = code[q]
    BY <1>4, <2>1, Confirmed
  <2>3. u \notin late' => code'[q] = account'[u].mfa_secret
    BY <1>4, <2>2, LateGrows DEF MfaInv, CheckedInv, EnableWrite
  <2>4. account'[u].mfa_secret # NoSecret => SecretOf(account[u].mfa_secret, u)'
    <3>1. PICK s : s = account[u].mfa_secret
      OBVIOUS
    <3>2. s # NoSecret => SecretOf(s, u)'
      BY <1>0, <3>1, SecretStays DEF UserInv
    <3> QED BY <1>4, <3>1, <3>2 DEF SecretOf
  <2> QED BY <1>1, <2>1, <2>2, <2>3, <2>4 DEF UserInv, Confirms, SecretOf, Done
<1> QED BY <1>2, <1>3, <1>4, MfaWrites

\* Every step keeps MfaInv.
LEMMA NextMfa == Typed /\ AccountsInv /\ MfaInv /\ [Next]_vars => MfaInv'
<1> SUFFICES ASSUME Typed, AccountsInv, MfaInv, [Next]_vars PROVE MfaInv'
  OBVIOUS
<1>1. ASSUME NEW u \in users', u \notin users PROVE UserInv(u)'
  <2>1. account'[u].mfa_secret = NoSecret /\ account'[u].mfa_enabled = FALSE
    BY <1>1, NewAccount
  <2>2. ~\E q \in Requests : Confirms(q)' /\ who'[q] = u
    BY <1>1, Confirmed
  <2> QED BY <2>1, <2>2 DEF UserInv, Confirms, SecretOf, Done
<1>2. \A u \in users' : UserInv(u)'
  BY <1>1, NextUser
<1>3. \A q \in Requests : CheckedInv(q)'
  BY NextChecked
<1> QED BY <1>2, <1>3 DEF MfaInv

\* EnabledWithConfirmedSecret holds, although the check of a code and the flag are two
\* steps, and any number of enrolments and logins of one account overlap.
THEOREM ConfirmedSecrets == Spec => []EnabledWithConfirmedSecret
<1>1. Typed /\ MfaInv => EnabledWithConfirmedSecret
  <2> SUFFICES ASSUME Typed, MfaInv, NEW u \in users
               PROVE  LET confirmed == {code[q] : q \in {r \in Requests :
                            op[r].kind = "mfa_enable" /\ status[r] = 200 /\ who[r] = u}}
                      IN  /\ account[u].mfa_enabled <=> confirmed # {}
                          /\ confirmed # {} /\ u \notin late =>
                               account[u].mfa_secret \in confirmed
                          /\ \A s \in confirmed : s # NoSecret /\ who[s] = u
    BY DEF EnabledWithConfirmedSecret
  <2>1. ASSUME NEW r \in Requests
        PROVE  Confirms(r) <=> op[r].kind = "mfa_enable" /\ status[r] = 200
    <3>1. status[r] = 200 => pc[r] \in Done
      BY DEF Typed, TypeOK, ServerTypeOK, Placed, Running, Kinds, Done
    <3> QED BY <3>1 DEF Confirms
  <2> DEFINE confirmed == {code[q] : q \in {r \in Requests : Confirms(r) /\ who[r] = u}}
  <2>2. confirmed = {code[q] : q \in {r \in Requests :
                       op[r].kind = "mfa_enable" /\ status[r] = 200 /\ who[r] = u}}
    BY <2>1
  <2>3. UserInv(u) /\ account[u].mfa_enabled \in BOOLEAN
    BY DEF MfaInv, Typed, TypeOK, ServerTypeOK, Account
  <2>4. account[u].mfa_enabled <=> confirmed # {}
    BY <2>3 DEF UserInv
  <2>5. confirmed # {} /\ u \notin late => account[u].mfa_secret \in confirmed
    BY <2>3, <2>4 DEF UserInv
  <2>6. ASSUME NEW s \in confirmed PROVE s # NoSecret /\ who[s] = u
    <3>1. PICK q \in Requests : Confirms(q) /\ who[q] = u /\ s = code[q]
      OBVIOUS
    <3> QED BY <3>1, ServerAssumption DEF MfaInv, CheckedInv, SecretOf
  <2> HIDE DEF confirmed
  <2> QED BY <2>2, <2>4, <2>5, <2>6
<1> QED BY <1>1, InitTyped, NextTyped, InitAccounts, NextAccounts, InitMfa, NextMfa, PTL DEF Spec
-----------------------------------------------------------------------------
(* The telemetry tells the requests.                                       *)

\* x was submitted before y.
Before(x, y) ==
  \E k, l \in DOMAIN submitted : k < l /\ submitted[k] = x /\ submitted[l] = y
Submitted(x) == \E k \in DOMAIN submitted : submitted[k] = x

\* The rows of the table, then those that wait in the queue, are in the order in
\* which they were submitted.
OrderInv ==
  /\ \A i, j \in DOMAIN table : i < j => Before(table[i], table[j])
  /\ \A i, j \in DOMAIN queue : i < j => Before(queue[i], queue[j])
  /\ \A i \in DOMAIN table, j \in DOMAIN queue : Before(table[i], queue[j])
  /\ \A i \in DOMAIN table : Submitted(table[i])
  /\ \A j \in DOMAIN queue : Submitted(queue[j])

\* A broken connection is an outage whose row is still to be given up; the row of the
\* creation is given up while the table does not exist.
LossInv ==
  /\ IsFiniteSet(gaveUp)
  /\ Cardinality(gaveUp) + (IF conn = "broken" THEN 1 ELSE 0)
       <= outages + (IF created THEN 1 ELSE 0)

\* The inductive strengthening of TelemetryIsFaithful.
TelemetryInv == OrderInv /\ LossInv

\* TelemetryInv holds initially: nothing was submitted.
LEMMA InitTelemetry == Init => TelemetryInv
<1> SUFFICES ASSUME Init PROVE TelemetryInv
  OBVIOUS
<1>1. /\ queue = <<>> /\ table = <<>> /\ DOMAIN queue = {} /\ DOMAIN table = {}
      /\ gaveUp = {} /\ conn = "none" /\ outages = 0 /\ created = FALSE
  BY DEF Init, TelemetryInit
<1>2. OrderInv
  BY <1>1 DEF OrderInv
<1>3. LossInv
  BY <1>1, FS_EmptySet DEF LossInv
<1> QED BY <1>2, <1>3 DEF TelemetryInv

\* What a step that is none of the telemetry's, a recorded row, one of the worker, or
\* a death does to the telemetry.
LEMMA TelemetrySteps ==
  ASSUME [Next]_vars
  PROVE  \/ UNCHANGED telemetryVars
         \/ \E q \in Requests : Record(q)
         \/ Worker
         \/ TelemetryStop
<1> USE DEF telemetryVars
<1>1. CASE UNCHANGED vars
  BY <1>1 DEF vars
<1>2. ASSUME NEW q \in Requests, Arrive(q) \/ Handle(q) \/ Send(q)
      PROVE  UNCHANGED telemetryVars \/ Record(q)
  BY <1>2 DEF Arrive, Handle, Send, SendError
<1>3. Lifespan => UNCHANGED telemetryVars
  BY DEF Lifespan
<1>4. Background => Worker
  BY DEF Background
<1>5. Die => TelemetryStop
  BY DEF Die
<1> QED BY <1>1, <1>2, <1>3, <1>4, <1>5 DEF Next

\* The head of the queue goes to the table or is given up; the others stay.
LEMMA TailOf ==
  ASSUME NEW s \in Seq(Requests), s # <<>>
  PROVE  /\ Tail(s) \in Seq(Requests) /\ 1 \in DOMAIN s /\ Head(s) = s[1]
         /\ \A j \in DOMAIN Tail(s) : j + 1 \in DOMAIN s /\ 1 < j + 1 /\ Tail(s)[j] = s[j + 1]
         /\ \A i, j \in DOMAIN Tail(s) : i < j => i + 1 < j + 1
<1>1. Tail(s) \in Seq(Requests) /\ Len(Tail(s)) = Len(s) - 1 /\ Len(s) \in Nat /\ Len(s) # 0
  OBVIOUS
<1>2. \A j \in 1 .. Len(s) - 1 : Tail(s)[j] = s[j + 1]
  BY <1>1
<1>3. DOMAIN s = 1 .. Len(s) /\ DOMAIN Tail(s) = 1 .. Len(s) - 1 /\ Head(s) = s[1]
  BY <1>1
<1> QED BY <1>1, <1>2, <1>3

\* The positions and elements of a sequence that grows by one.
LEMMA AppendOf ==
  ASSUME NEW s \in Seq(Requests), NEW x \in Requests
  PROVE  /\ Append(s, x) \in Seq(Requests)
         /\ DOMAIN s = 1 .. Len(s) /\ Len(s) \in Nat
         /\ DOMAIN Append(s, x) = 1 .. Len(s) + 1
         /\ \A i \in DOMAIN s : i \in DOMAIN Append(s, x) /\ Append(s, x)[i] = s[i]
         /\ Append(s, x)[Len(s) + 1] = x
         /\ \A i \in DOMAIN Append(s, x) : i \in DOMAIN s \/ i = Len(s) + 1
OBVIOUS

\* What was submitted stays submitted, in the same order, before what comes now.
LEMMA BeforeStays ==
  ASSUME submitted \in Seq(Requests), NEW q \in Requests, submitted' = Append(submitted, q)
  PROVE  /\ \A x, y : Before(x, y) => Before(x, y)'
         /\ \A x : Submitted(x) => Submitted(x)' /\ Before(x, q)'
         /\ Submitted(q)'
<1>1. /\ DOMAIN submitted = 1 .. Len(submitted) /\ Len(submitted) \in Nat
      /\ \A i \in DOMAIN submitted : i \in DOMAIN submitted' /\ submitted'[i] = submitted[i]
      /\ Len(submitted) + 1 \in DOMAIN submitted' /\ submitted'[Len(submitted) + 1] = q
  BY AppendOf
<1>2. \A i \in DOMAIN submitted : i < Len(submitted) + 1
  BY <1>1
<1>3. ASSUME NEW x, NEW y, Before(x, y) PROVE Before(x, y)'
  BY <1>1, <1>3 DEF Before
<1>4. ASSUME NEW x, Submitted(x) PROVE Submitted(x)' /\ Before(x, q)'
  BY <1>1, <1>2, <1>4 DEF Submitted, Before
<1>5. Submitted(q)'
  BY <1>1 DEF Submitted
<1> QED BY <1>3, <1>4, <1>5

\* A response that is submitted keeps OrderInv.
LEMMA RecordOrder ==
  ASSUME Typed, OrderInv, NEW q \in Requests, Record(q)
  PROVE  OrderInv'
<1>1. /\ table' = table /\ table \in Seq(Requests) /\ queue \in Seq(Requests)
      /\ submitted \in Seq(Requests)
  BY DEF Record, Typed, TypeOK
<1>2. CASE UNCHANGED <<queue, submitted>>
  BY <1>1, <1>2 DEF OrderInv, Before, Submitted
<1>3. CASE queue' = Append(queue, q) /\ submitted' = Append(submitted, q)
  <2>1. /\ \A x, y : Before(x, y) => Before(x, y)'
        /\ \A x : Submitted(x) => Submitted(x)' /\ Before(x, q)'
        /\ Submitted(q)'
    BY <1>1, <1>3, BeforeStays
  <2>2. /\ DOMAIN queue = 1 .. Len(queue) /\ Len(queue) \in Nat
        /\ \A i \in DOMAIN queue : queue'[i] = queue[i]
        /\ queue'[Len(queue) + 1] = q
        /\ DOMAIN queue' = 1 .. Len(queue) + 1
        /\ \A i \in DOMAIN queue' : i \in DOMAIN queue \/ i = Len(queue) + 1
    BY <1>1, <1>3, AppendOf
  <2>3. ASSUME NEW i \in DOMAIN table, NEW j \in DOMAIN table, i < j
        PROVE  Before(table[i], table[j])'
    <3>1. PICK x, y : x = table[i] /\ y = table[j]
      OBVIOUS
    <3>2. Before(x, y)'
      BY <2>1, <2>3, <3>1 DEF OrderInv
    <3> QED BY <1>1, <3>1, <3>2 DEF Before
  <2>4. ASSUME NEW i \in DOMAIN queue', NEW j \in DOMAIN queue', i < j
        PROVE  Before(queue[i], queue[j])'
    <3>1. PICK x, y : x = queue'[i] /\ y = queue'[j]
      OBVIOUS
    <3>2. i \in DOMAIN queue /\ x = queue[i]
      BY <2>2, <2>4, <3>1
    <3>3. Before(x, y)'
      <4>1. CASE j \in DOMAIN queue
        BY <2>1, <2>2, <2>4, <3>1, <3>2, <4>1 DEF OrderInv
      <4>2. CASE j = Len(queue) + 1
        BY <2>1, <2>2, <3>1, <3>2, <4>2 DEF OrderInv
      <4> QED BY <2>2, <4>1, <4>2
    <3> QED BY <3>1, <3>3 DEF Before
  <2>5. ASSUME NEW i \in DOMAIN table, NEW j \in DOMAIN queue'
        PROVE  Before(table[i], queue[j])'
    <3>1. PICK x, y : x = table[i] /\ y = queue'[j]
      OBVIOUS
    <3>2. Before(x, y)'
      <4>1. CASE j \in DOMAIN queue
        BY <2>1, <2>2, <3>1, <4>1 DEF OrderInv
      <4>2. CASE j = Len(queue) + 1
        BY <2>1, <2>2, <3>1, <4>2 DEF OrderInv
      <4> QED BY <2>2, <4>1, <4>2
    <3> QED BY <1>1, <3>1, <3>2 DEF Before
  <2>6. ASSUME NEW i \in DOMAIN table PROVE Submitted(table[i])'
    <3>1. PICK x : x = table[i]
      OBVIOUS
    <3>2. Submitted(x)'
      BY <2>1, <3>1 DEF OrderInv
    <3> QED BY <1>1, <3>1, <3>2 DEF Submitted
  <2>7. ASSUME NEW j \in DOMAIN queue' PROVE Submitted(queue[j])'
    <3>1. PICK y : y = queue'[j]
      OBVIOUS
    <3>2. Submitted(y)'
      <4>1. CASE j \in DOMAIN queue
        BY <2>1, <2>2, <3>1, <4>1 DEF OrderInv
      <4>2. CASE j = Len(queue) + 1
        BY <2>1, <2>2, <3>1, <4>2
      <4> QED BY <2>2, <4>1, <4>2
    <3> QED BY <3>1, <3>2 DEF Submitted
  <2> QED BY <1>1, <2>3, <2>4, <2>5, <2>6, <2>7 DEF OrderInv
<1> QED BY <1>2, <1>3 DEF Record

\* Steps of the worker, and a death, take from the head of the queue, to the table or
\* to nowhere, and submit nothing.
LEMMA WorkerMoves ==
  ASSUME Typed, Worker \/ TelemetryStop \/ UNCHANGED telemetryVars
  PROVE  /\ submitted' = submitted
         /\ \/ table' = table /\ queue' = queue
            \/ table' = table /\ queue' = <<>>
            \/ queue # <<>> /\ queue' = Tail(queue) /\ table' = table
            \/ queue # <<>> /\ queue' = Tail(queue) /\ table' = Append(table, Head(queue))
BY DEF Worker, Connect, ConnectRaces, ConnectFails, Insert, InsertFails, InsertRefused,
       PgStop, PgStart, TelemetryStop, telemetryVars

\* The worker and the stops of PostgreSQL keep OrderInv.
LEMMA WorkerOrder ==
  ASSUME Typed, OrderInv, Worker \/ TelemetryStop \/ UNCHANGED telemetryVars
  PROVE  OrderInv'
<1>1. table \in Seq(Requests) /\ queue \in Seq(Requests) /\ submitted' = submitted
  BY WorkerMoves DEF Typed, TypeOK
<1>2. CASE table' = table /\ queue' = queue
  BY <1>1, <1>2 DEF OrderInv, Before, Submitted
<1>3. CASE table' = table /\ queue' = <<>>
  BY <1>1, <1>3 DEF OrderInv, Before, Submitted
<1>4. CASE queue # <<>> /\ queue' = Tail(queue)
  <2>1. /\ 1 \in DOMAIN queue /\ Head(queue) = queue[1]
        /\ \A j \in DOMAIN queue' : j + 1 \in DOMAIN queue /\ 1 < j + 1 /\ queue'[j] = queue[j + 1]
        /\ \A i, j \in DOMAIN queue' : i < j => i + 1 < j + 1
    BY <1>1, <1>4, TailOf
  <2>2. /\ \A i, j \in DOMAIN queue' : i < j => Before(queue'[i], queue'[j])
        /\ \A j \in DOMAIN queue' : Submitted(queue'[j]) /\ Before(queue[1], queue'[j])
        /\ \A i \in DOMAIN table, j \in DOMAIN queue' : Before(table[i], queue'[j])
    BY <2>1 DEF OrderInv
  <2>3. /\ \A i, j \in DOMAIN table' : i < j => Before(table'[i], table'[j])
        /\ \A i \in DOMAIN table', j \in DOMAIN queue' : Before(table'[i], queue'[j])
        /\ \A i \in DOMAIN table' : Submitted(table'[i])
    <3>1. CASE table' = table
      BY <2>2, <3>1 DEF OrderInv
    <3>2. CASE table' = Append(table, Head(queue))
      <4>1. /\ DOMAIN table = 1 .. Len(table) /\ Len(table) \in Nat
            /\ \A i \in DOMAIN table : table'[i] = table[i]
            /\ table'[Len(table) + 1] = queue[1]
            /\ \A i \in DOMAIN table' : i \in DOMAIN table \/ i = Len(table) + 1
            /\ DOMAIN table' = 1 .. Len(table) + 1
        <5>1. Head(queue) \in Requests
          BY <1>1, <1>4
        <5> QED BY <1>1, <2>1, <3>2, <5>1, AppendOf
      <4>2. ASSUME NEW i \in DOMAIN table', NEW j \in DOMAIN table', i < j
            PROVE  Before(table'[i], table'[j])
        <5>1. i \in DOMAIN table
          BY <4>1, <4>2
        <5> QED BY <2>1, <4>1, <4>2, <5>1 DEF OrderInv
      <4>3. ASSUME NEW i \in DOMAIN table', NEW j \in DOMAIN queue'
            PROVE  Before(table'[i], queue'[j])
        BY <2>2, <4>1
      <4>4. ASSUME NEW i \in DOMAIN table' PROVE Submitted(table'[i])
        BY <2>1, <4>1 DEF OrderInv
      <4> QED BY <4>2, <4>3, <4>4
    <3> QED BY <1>4, <3>1, <3>2, WorkerMoves, TailOf, <1>1
  <2> QED BY <1>1, <2>2, <2>3 DEF OrderInv, Before, Submitted
<1> QED BY <1>2, <1>3, <1>4, WorkerMoves

\* Every step keeps LossInv.
LEMMA TelemetryLosses ==
  ASSUME Typed, LossInv, [Next]_vars
  PROVE  LossInv'
<1>1. /\ Cardinality(gaveUp) \in Nat /\ outages \in Nat
      /\ IsFiniteSet(gaveUp)
  BY FS_CardinalityType DEF LossInv, Typed, TypeOK
<1>2. \A x : IsFiniteSet(gaveUp \cup {x}) /\ Cardinality(gaveUp \cup {x}) <= Cardinality(gaveUp) + 1
             /\ Cardinality(gaveUp \cup {x}) \in Nat
  <2>1. ASSUME NEW x
        PROVE  IsFiniteSet(gaveUp \cup {x}) /\ Cardinality(gaveUp \cup {x}) <= Cardinality(gaveUp) + 1
               /\ Cardinality(gaveUp \cup {x}) \in Nat
    BY <1>1, FS_AddElement, FS_CardinalityType
  <2> QED BY <2>1
<1>3. CASE gaveUp' = gaveUp /\ outages' = outages /\ created' = created
           /\ (conn' = "broken" => conn = "broken")
  BY <1>1, <1>3 DEF LossInv
<1>4. CASE UNCHANGED telemetryVars \/ \E q \in Requests : Record(q)
  BY <1>3, <1>4 DEF telemetryVars, Record
<1>5. CASE ConnectFails \/ Insert \/ InsertRefused \/ PgStart \/ TelemetryStop
  BY <1>3, <1>5 DEF ConnectFails, Insert, InsertRefused, PgStart, TelemetryStop
<1>6. CASE Connect
  BY <1>1, <1>6 DEF Connect, LossInv
<1>7. CASE ConnectRaces
  <2>1. /\ conn = "none" /\ conn' = "none" /\ created = FALSE /\ created' = TRUE
        /\ outages' = outages /\ gaveUp' = gaveUp \cup {Head(queue)}
    BY <1>7 DEF ConnectRaces, Typed, TypeOK
  <2>2. IsFiniteSet(gaveUp') /\ Cardinality(gaveUp') <= Cardinality(gaveUp) + 1
        /\ Cardinality(gaveUp') \in Nat
    BY <1>2, <2>1
  <2>3. Cardinality(gaveUp) <= outages
    BY <1>1, <2>1 DEF LossInv
  <2> QED BY <1>1, <2>1, <2>2, <2>3 DEF LossInv
<1>8. CASE InsertFails
  <2>1. /\ conn = "broken" /\ conn' = "none" /\ created' = created /\ outages' = outages
        /\ gaveUp' = gaveUp \/ gaveUp' = gaveUp \cup {Head(queue)}
    BY <1>8 DEF InsertFails
  <2>2. IsFiniteSet(gaveUp') /\ Cardinality(gaveUp') <= Cardinality(gaveUp) + 1
        /\ Cardinality(gaveUp') \in Nat
    <3>1. CASE gaveUp' = gaveUp
      BY <1>1, <3>1
    <3>2. CASE gaveUp' = gaveUp \cup {Head(queue)}
      BY <1>2, <3>2
    <3> QED BY <2>1, <3>1, <3>2
  <2>3. Cardinality(gaveUp) + 1 <= outages + (IF created THEN 1 ELSE 0)
    BY <2>1 DEF LossInv
  <2> QED BY <1>1, <2>1, <2>2, <2>3 DEF LossInv
<1>9. CASE PgStop
  BY <1>1, <1>9 DEF PgStop, LossInv
<1> QED BY <1>4, <1>5, <1>6, <1>7, <1>8, <1>9, TelemetrySteps DEF Worker

\* Every step keeps TelemetryInv.
LEMMA NextTelemetry == Typed /\ TelemetryInv /\ [Next]_vars => TelemetryInv'
<1> SUFFICES ASSUME Typed, TelemetryInv, [Next]_vars PROVE TelemetryInv'
  OBVIOUS
<1>1. OrderInv /\ LossInv
  BY DEF TelemetryInv
<1>2. OrderInv'
  BY <1>1, TelemetrySteps, RecordOrder, WorkerOrder
<1>3. LossInv'
  BY <1>1, TelemetryLosses
<1> QED BY <1>2, <1>3 DEF TelemetryInv

\* TelemetryIsFaithful: for any number of requests, outages, deaths and refused rows,
\* the rows of app_requests are in the order of the responses, and the rows given up
\* while PostgreSQL was up are at most one per outage, and one for the creation.
THEOREM TelemetryFaithful == Spec => []TelemetryIsFaithful
<1>1. Typed /\ TelemetryInv => TelemetryIsFaithful
  <2> SUFFICES ASSUME Typed, TelemetryInv PROVE TelemetryIsFaithful
    OBVIOUS
  <2>1. RowsInOrder
    BY DEF TelemetryInv, OrderInv, Before, RowsInOrder
  <2>2. LossesAreCaused
    <3>1. Cardinality(gaveUp) \in Nat /\ outages \in Nat
      BY FS_CardinalityType DEF TelemetryInv, LossInv, Typed, TypeOK
    <3> QED BY <3>1 DEF TelemetryInv, LossInv, LossesAreCaused
  <2> QED BY <2>1, <2>2 DEF TelemetryIsFaithful
<1> QED BY <1>1, InitTyped, NextTyped, InitTelemetry, NextTelemetry, PTL DEF Spec
=============================================================================
