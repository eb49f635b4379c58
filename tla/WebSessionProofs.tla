--------------------------- MODULE WebSessionProofs ---------------------------
(* Theorems about WebSession, for every number of calls, tabs, restarts and   *)
(* lost answers.                                                              *)
EXTENDS WebSession, TLAPS

\* A new request or answer keeps the type of the requests.
LEMMA AskType ==
  ASSUME TypeOK, NEW c \in Calls, NEW s \in State, NEW n \in 0 .. issued
  PROVE  [req EXCEPT ![c] = Ask(s, n)] \in [Calls -> [state : State, pair : 0 .. issued]]
<1>1. Ask(s, n) \in [state : State, pair : 0 .. issued]
  BY DEF Ask
<1> QED BY <1>1 DEF TypeOK

\* An answer keeps the type of the requests.
LEMMA AnswerType ==
  ASSUME TypeOK, NEW c \in Calls, NEW s \in State, Answer(c, s)
  PROVE  req' \in [Calls -> [state : State, pair : 0 .. issued]]
<1>1. req[c].pair \in 0 .. issued
  BY DEF TypeOK
<1> QED BY <1>1, AskType DEF Answer

\* Issuing a pair keeps the types of what it writes.
LEMMA IssueType ==
  ASSUME TypeOK, NEW c \in Calls, NEW p \in 0 .. issued, Issue(c, p)
  PROVE  /\ issued' = issued + 1
         /\ parent' \in [1 .. issued' -> 0 .. issued']
         /\ \A n \in 1 .. issued : parent'[n] = parent[n]
         /\ parent'[issued + 1] = p
         /\ req' = [req EXCEPT ![c] = Ask("ok", issued + 1)]
         /\ req' \in [Calls -> [state : State, pair : 0 .. issued']]
<1>1. issued' = issued + 1 /\ issued \in Nat
  BY DEF Issue, TypeOK
<1>2. parent' = [n \in 1 .. issued + 1 |-> IF n <= issued THEN parent[n] ELSE p]
  BY DEF Issue
<1>3. \A n \in 1 .. issued : parent[n] \in 0 .. issued + 1
  BY <1>1 DEF TypeOK
<1>4. parent' \in [1 .. issued' -> 0 .. issued']
  BY <1>1, <1>2, <1>3
<1>5. req' = [req EXCEPT ![c] = Ask("ok", issued + 1)]
  BY DEF Issue
<1>6. Ask("ok", issued + 1) \in [state : State, pair : 0 .. issued + 1]
  BY <1>1 DEF Ask, State
<1>7. \A d \in Calls : req[d] \in [state : State, pair : 0 .. issued + 1]
  <2> SUFFICES ASSUME NEW d \in Calls
               PROVE  req[d] \in [state : State, pair : 0 .. issued + 1]
    OBVIOUS
  <2>1. req[d] \in [state : State, pair : 0 .. issued]
    BY DEF TypeOK
  <2> QED BY <1>1, <2>1
<1>8. req' \in [Calls -> [state : State, pair : 0 .. issued']]
  BY <1>1, <1>5, <1>6, <1>7 DEF TypeOK
<1> QED BY <1>1, <1>2, <1>4, <1>5, <1>8

\* Initially all variables have their types.
LEMMA InitType == Init => TypeOK
<1> SUFFICES ASSUME Init PROVE TypeOK
  OBVIOUS
<1>1. issued = 0 \/ issued = 1
  BY DEF Init
<1>2. /\ issued \in Nat
      /\ stored \in [access : 0 .. issued, refresh : 0 .. issued]
      /\ received \subseteq 0 .. issued
      /\ parent \in [1 .. issued -> 0 .. issued]
  BY <1>1 DEF Init
<1>3. req \in [Calls -> [state : State, pair : 0 .. issued]]
  BY <1>1 DEF Init, Idle, State
<1> QED BY <1>2, <1>3 DEF Init, TypeOK, Kind, Place

\* Leaving a page keeps the type of pc.
LEMMA NavigateType ==
  ASSUME TypeOK, NEW c \in Calls, NEW o \in Place, Navigate(c, o)
  PROVE  pc' \in [Calls -> Place]
BY DEF Navigate, TypeOK, Place

\* The steps of the browser keep the types.
LEMMA ClientType ==
  ASSUME TypeOK, NEW c \in Calls,
         \/ Client(c)
         \/ \E k \in Kinds : Begin(c, k)
         \/ \E t \in Tabs : Leave(t)
  PROVE  TypeOK'
<1>1. ASSUME NEW k \in Kinds, Begin(c, k) PROVE TypeOK'
  <2>1. k \in Kind
    BY SessionAssumption
  <2>2. stored.access \in 0 .. issued /\ 0 \in 0 .. issued
    BY DEF TypeOK
  <2>3. req' \in [Calls -> [state : State, pair : 0 .. issued]]
    <3>1. req' = [req EXCEPT ![c] = Ask("login", 0)]
            \/ req' = [req EXCEPT ![c] = Ask("api", stored.access)]
      BY <1>1 DEF Begin
    <3>2. "login" \in State /\ "api" \in State
      BY DEF State
    <3>3. [req EXCEPT ![c] = Ask("login", 0)] \in [Calls -> [state : State, pair : 0 .. issued]]
      BY <2>2, <3>2, AskType
    <3>4. [req EXCEPT ![c] = Ask("api", stored.access)]
            \in [Calls -> [state : State, pair : 0 .. issued]]
      BY <2>2, <3>2, AskType
    <3> QED BY <3>1, <3>3, <3>4
  <2>4. hadSession' \in [Calls -> BOOLEAN] /\ overlapped' \in BOOLEAN
    BY <1>1 DEF Begin, TypeOK
  <2>5. pc' \in [Calls -> Place] /\ kind' \in [Calls -> Kind]
    BY <1>1, <2>1 DEF Begin, TypeOK, Place
  <2> QED BY <1>1, <2>3, <2>4, <2>5 DEF Begin, TypeOK, serverVars
<1>2. CASE Succeed(c)
  <2>1. pc' \in [Calls -> Place]
    BY <1>2, NavigateType DEF Succeed, TypeOK, Place
  <2>2. req[c].pair \in 0 .. issued /\ 0 \in 0 .. issued
    BY DEF TypeOK
  <2>3. stored' \in [access : 0 .. issued, refresh : 0 .. issued]
    BY <1>2, <2>2 DEF Succeed, TypeOK, None
  <2>4. received' \subseteq 0 .. issued
    BY <1>2, <2>2 DEF Succeed, TypeOK
  <2> QED BY <1>2, <2>1, <2>3, <2>4 DEF Succeed, TypeOK, serverVars
<1>3. CASE Renew(c)
  <2>1. stored.refresh \in 0 .. issued
    BY DEF TypeOK
  <2>2. req' \in [Calls -> [state : State, pair : 0 .. issued]]
    BY <1>3, <2>1, AskType DEF Renew, State
  <2> QED BY <1>3, <2>2 DEF Renew, TypeOK, Place, serverVars
<1>4. CASE Renewed(c)
  <2>1. req[c].pair \in 0 .. issued
    BY DEF TypeOK
  <2> QED BY <1>4, <2>1 DEF Renewed, TypeOK, Place, serverVars
<1>5. CASE Retry(c)
  <2>1. stored.access \in 0 .. issued
    BY DEF TypeOK
  <2>2. req' \in [Calls -> [state : State, pair : 0 .. issued]]
    BY <1>5, <2>1, AskType DEF Retry, State
  <2> QED BY <1>5, <2>2 DEF Retry, TypeOK, Place, serverVars
<1>6. CASE Throw(c)
  <2>1. GiveUp(c) /\ UNCHANGED <<kind, req, received, overlapped, hadSession, serverVars, losses>>
    BY <1>6 DEF Throw
  <2>2. pc' \in [Calls -> Place]
    BY <2>1, NavigateType DEF GiveUp, TypeOK, Place
  <2>3. stored' \in [access : 0 .. issued, refresh : 0 .. issued]
    BY <2>1 DEF GiveUp, TypeOK, None
  <2> QED BY <2>1, <2>2, <2>3 DEF TypeOK, serverVars
<1>7. CASE NotRenewed(c)
  <2>1. pc' \in [Calls -> Place]
    BY <1>7, NavigateType DEF NotRenewed, TypeOK, Place
  <2> QED BY <1>7, <2>1 DEF NotRenewed, TypeOK, None, serverVars
<1>8. ASSUME NEW t \in Tabs, Leave(t) PROVE TypeOK'
  BY <1>8 DEF Leave, TypeOK, Place, serverVars
<1> QED BY <1>1, <1>2, <1>3, <1>4, <1>5, <1>6, <1>7, <1>8 DEF Client

\* A token of one of the pairs up to n is one of the pairs up to a larger number.
LEMMA TokenGrows ==
  ASSUME NEW n \in Nat PROVE Token(n) \subseteq Token(n + 1)
BY DEF Token

\* The steps of the server keep the types.
LEMMA ServerType ==
  ASSUME TypeOK, NEW c \in Calls,
         Server(c) \/ Lose(c)
  PROVE  TypeOK'
<1>1. CASE Serve(c)
  <2>1. req' \in [Calls -> [state : State, pair : 0 .. issued]]
    BY <1>1, AnswerType DEF Serve, State
  <2>2. revoked' \subseteq Token(issued)
    <3>1. CASE Valid("access", req[c].pair)
      BY <1>1, <3>1 DEF Serve, Valid, TypeOK, Token
    <3>2. CASE ~Valid("access", req[c].pair)
      BY <1>1, <3>2 DEF Serve, TypeOK
    <3> QED BY <3>1, <3>2
  <2>3. ran' \in [Calls -> Nat]
    <3>1. ran \in [Calls -> Nat] /\ ran[c] + 1 \in Nat
      BY DEF TypeOK
    <3>2. ran' = [ran EXCEPT ![c] = ran[c] + 1] \/ ran' = ran
      BY <1>1 DEF Serve
    <3> QED BY <3>1, <3>2
  <2> QED BY <1>1, <2>1, <2>2, <2>3 DEF Serve, TypeOK, clientVars
<1>2. ASSUME NEW p \in 0 .. issued, Issue(c, p),
             UNCHANGED <<clientVars, expired, ran, raced, restarts, losses>>,
             revoked' \subseteq Token(issued)
      PROVE  TypeOK'
  <2>1. /\ issued' = issued + 1
        /\ parent' \in [1 .. issued' -> 0 .. issued']
        /\ req' \in [Calls -> [state : State, pair : 0 .. issued']]
    BY <1>2, IssueType
  <2>2. issued \in Nat
    BY DEF TypeOK
  <2>3. revoked' \subseteq Token(issued') /\ expired' \subseteq Token(issued')
    BY <1>2, <2>1, <2>2, TokenGrows DEF TypeOK
  <2>4. stored' \in [access : 0 .. issued', refresh : 0 .. issued']
        /\ received' \subseteq 0 .. issued'
    BY <1>2, <2>1, <2>2 DEF TypeOK, clientVars
  <2> QED BY <1>2, <2>1, <2>2, <2>3, <2>4 DEF TypeOK, clientVars
<1>3. CASE ServeLogin(c)
  <2>1. CASE Issue(c, 0)
    <3>1. 0 \in 0 .. issued /\ revoked' \subseteq Token(issued)
      BY <1>3 DEF ServeLogin, TypeOK
    <3> QED BY <1>2, <1>3, <2>1, <3>1 DEF ServeLogin
  <2>2. CASE Answer(c, "unauthorized") /\ UNCHANGED <<issued, parent>>
    <3>1. req' \in [Calls -> [state : State, pair : 0 .. issued]]
      BY <2>2, AnswerType DEF State
    <3> QED BY <1>3, <2>2, <3>1 DEF ServeLogin, TypeOK, clientVars
  <2> QED BY <1>3, <2>1, <2>2 DEF ServeLogin
<1>4. CASE RefreshCheck(c)
  <2>1. req' \in [Calls -> [state : State, pair : 0 .. issued]]
    BY <1>4, AnswerType DEF RefreshCheck, State
  <2>2. raced' \in BOOLEAN
    BY <1>4 DEF RefreshCheck, TypeOK
  <2> QED BY <1>4, <2>1, <2>2 DEF RefreshCheck, TypeOK, clientVars
<1>5. CASE RefreshIssue(c)
  <2>1. req[c].pair \in 0 .. issued
    BY DEF TypeOK
  <2>2. revoked' \subseteq Token(issued)
    BY <1>5, <2>1 DEF RefreshIssue, TypeOK, Token
  <2> QED BY <1>2, <1>5, <2>1, <2>2 DEF RefreshIssue
<1>6. CASE Lose(c)
  <2>1. req' \in [Calls -> [state : State, pair : 0 .. issued]]
    BY <1>6, AnswerType DEF Lose, State
  <2> QED BY <1>6, <2>1 DEF Lose, TypeOK, clientVars, serverVars
<1> QED BY <1>1, <1>3, <1>4, <1>5, <1>6 DEF Server

\* Restarts and the passing of time keep the types.
LEMMA RestartType == ASSUME TypeOK, Restart PROVE TypeOK'
<1>1. \A d \in Calls : Ask("error", req[d].pair) \in [state : State, pair : 0 .. issued]
  BY DEF Ask, State, TypeOK
<1>2. req' \in [Calls -> [state : State, pair : 0 .. issued]]
  BY <1>1 DEF Restart, TypeOK
<1> QED BY <1>2 DEF Restart, TypeOK, clientVars

\* A token that expires is one that was issued.
LEMMA ExpireType ==
  ASSUME TypeOK, NEW type \in {"access", "refresh"}, NEW n \in 1 .. issued, Expire(type, n)
  PROVE  TypeOK'
<1>1. expired' \subseteq Token(issued)
  BY DEF Expire, TypeOK, Token
<1> QED BY <1>1 DEF Expire, TypeOK, clientVars

\* Every step keeps the types, a step without calls included.
LEMMA NextType == TypeOK /\ [Next]_vars => TypeOK'
<1> SUFFICES ASSUME TypeOK, [Next]_vars PROVE TypeOK'
  OBVIOUS
<1>1. CASE UNCHANGED vars
  BY <1>1 DEF TypeOK, vars, clientVars, serverVars
<1>2. CASE Next
  <2>1. ASSUME NEW t \in Tabs, Leave(t) PROVE TypeOK'
    <3>1. PICK c \in Calls : TabOf[c] = t
      BY <2>1 DEF Leave
    <3> QED BY <2>1, <3>1, ClientType
  <2> QED BY <1>2, <2>1, ClientType, ServerType, RestartType, ExpireType DEF Next
<1> QED BY <1>1, <1>2

\* TypeOK (a property of the run websession).
THEOREM SessionTypeCorrect == Spec => []TypeOK
BY InitType, NextType, PTL DEF Spec

-----------------------------------------------------------------------------
(* The retry.                                                                *)

\* The inductive strengthening of EffectAtMostOnce: a call whose request can still be
\* served, or that can still be sent again, has not been served yet.
ServedInv ==
  \A c \in Calls :
    /\ ran[c] <= 1
    /\ pc[c] \in {"new", "refresh", "renewed"} => ran[c] = 0
    /\ req[c].state \in {"api", "login"} => ran[c] = 0 /\ pc[c] \notin {"refresh", "renewed"}
    /\ req[c].state \in {"refresh", "checked"} => pc[c] \notin {"new", "call", "retry"}
    /\ pc[c] = "new" => req[c].state = "none"
    /\ pc[c] = "call" /\ req[c].state = "unauthorized" => ran[c] = 0
    /\ pc[c] = "renewed" => req[c].state = "ok"

\* Reading back a request that was just asked.
LEMMA AskFields ==
  ASSUME NEW s, NEW n
  PROVE  Ask(s, n).state = s /\ Ask(s, n).pair = n
BY DEF Ask

\* ServedInv holds initially: nothing was asked or served.
LEMMA InitServedInv == Init => ServedInv
BY DEF Init, ServedInv, Idle

\* Where navigating leaves the other calls.
LEMMA NavigateFields ==
  ASSUME TypeOK, NEW c \in Calls, NEW o \in Place, Navigate(c, o)
  PROVE  pc'[c] = o /\ \A d \in Calls \ {c} : pc'[d] \in {pc[d], "gone"}
BY DEF Navigate

\* Steps that do not touch the requests and move calls only to where no request is sent.
LEMMA QuietServed ==
  ASSUME TypeOK, ServedInv, UNCHANGED <<req, ran>>,
         \A d \in Calls : pc'[d] \in {pc[d], "gone", "done", "failed"}
  PROVE  ServedInv'
BY DEF ServedInv

\* Every step keeps ServedInv.
LEMMA NextServedInv == TypeOK /\ ServedInv /\ [Next]_vars => ServedInv'
<1> SUFFICES ASSUME TypeOK, ServedInv, [Next]_vars PROVE ServedInv'
  OBVIOUS
<1>0. CASE UNCHANGED vars
  BY <1>0 DEF ServedInv, vars, clientVars, serverVars
<1>1. ASSUME NEW c \in Calls, NEW k \in Kinds, Begin(c, k) PROVE ServedInv'
  <2>1. /\ pc[c] = "new" /\ pc' = [pc EXCEPT ![c] = "call"] /\ ran' = ran
        /\ \/ req' = [req EXCEPT ![c] = Ask("login", 0)]
           \/ req' = [req EXCEPT ![c] = Ask("api", stored.access)]
    BY <1>1 DEF Begin, serverVars
  <2>2. /\ req'[c].state \in {"api", "login"} /\ pc'[c] = "call"
        /\ \A d \in Calls \ {c} : req'[d] = req[d] /\ pc'[d] = pc[d]
    BY <2>1, AskFields DEF TypeOK
  <2> QED BY <2>1, <2>2 DEF ServedInv
<1>2. ASSUME NEW c \in Calls, Succeed(c) PROVE ServedInv'
  <2>1. \A d \in Calls : pc'[d] \in {pc[d], "gone", "done"}
    BY <1>2, NavigateFields DEF Succeed, TypeOK, Place
  <2> QED BY <1>2, <2>1, QuietServed DEF Succeed, serverVars
<1>3. ASSUME NEW c \in Calls, Renew(c) PROVE ServedInv'
  <2>1. /\ pc[c] = "call" /\ req[c].state = "unauthorized" /\ ran' = ran
        /\ pc' = [pc EXCEPT ![c] = "refresh"]
        /\ req' = [req EXCEPT ![c] = Ask("refresh", stored.refresh)]
    BY <1>3 DEF Renew, serverVars
  <2>2. /\ req'[c].state = "refresh" /\ pc'[c] = "refresh"
        /\ \A d \in Calls \ {c} : req'[d] = req[d] /\ pc'[d] = pc[d]
    BY <2>1, AskFields DEF TypeOK
  <2> QED BY <2>1, <2>2 DEF ServedInv
<1>4. ASSUME NEW c \in Calls, Renewed(c) PROVE ServedInv'
  <2>1. /\ pc[c] = "refresh" /\ req[c].state = "ok" /\ UNCHANGED <<req, ran>>
        /\ pc' = [pc EXCEPT ![c] = "renewed"]
    BY <1>4 DEF Renewed, serverVars
  <2>2. pc'[c] = "renewed" /\ \A d \in Calls \ {c} : pc'[d] = pc[d]
    BY <2>1 DEF TypeOK
  <2> QED BY <2>1, <2>2 DEF ServedInv
<1>5. ASSUME NEW c \in Calls, Retry(c) PROVE ServedInv'
  <2>1. /\ pc[c] = "renewed" /\ ran' = ran
        /\ pc' = [pc EXCEPT ![c] = "retry"]
        /\ req' = [req EXCEPT ![c] = Ask("api", stored.access)]
    BY <1>5 DEF Retry, serverVars
  <2>2. /\ req'[c].state = "api" /\ pc'[c] = "retry"
        /\ \A d \in Calls \ {c} : req'[d] = req[d] /\ pc'[d] = pc[d]
    BY <2>1, AskFields DEF TypeOK
  <2> QED BY <2>1, <2>2 DEF ServedInv
<1>6. ASSUME NEW c \in Calls, Throw(c) PROVE ServedInv'
  <2>1. \A d \in Calls : pc'[d] \in {pc[d], "gone", "failed"}
    BY <1>6, NavigateFields DEF Throw, GiveUp, TypeOK, Place
  <2> QED BY <1>6, <2>1, QuietServed DEF Throw, serverVars
<1>7. ASSUME NEW c \in Calls, NotRenewed(c) PROVE ServedInv'
  <2>1. \A d \in Calls : pc'[d] \in {pc[d], "gone", "failed"}
    BY <1>7, NavigateFields DEF NotRenewed, TypeOK, Place
  <2> QED BY <1>7, <2>1, QuietServed DEF NotRenewed, serverVars
<1>8. ASSUME NEW t \in Tabs, Leave(t) PROVE ServedInv'
  <2>1. \A d \in Calls : pc'[d] \in {pc[d], "gone"}
    BY <1>8 DEF Leave
  <2> QED BY <1>8, <2>1, QuietServed DEF Leave, serverVars
<1>9. ASSUME NEW c \in Calls, Serve(c) PROVE ServedInv'
  <2>1. /\ req[c].state = "api" /\ pc' = pc
        /\ \/ ran' = [ran EXCEPT ![c] = @ + 1] /\ Answer(c, "ok")
           \/ ran' = ran /\ Answer(c, "unauthorized")
    BY <1>9 DEF Serve, clientVars
  <2>2. ran[c] = 0 /\ pc[c] \notin {"new", "refresh", "renewed"}
    BY <2>1 DEF ServedInv
  <2>3. \A d \in Calls \ {c} : req'[d] = req[d] /\ ran'[d] = ran[d]
    BY <2>1 DEF TypeOK, Answer
  <2>4. \/ req'[c].state = "ok" /\ ran'[c] = 1
        \/ req'[c].state = "unauthorized" /\ ran'[c] = 0
    BY <2>1, <2>2, AskFields DEF TypeOK, Answer
  <2> QED BY <2>1, <2>2, <2>3, <2>4 DEF ServedInv
<1>10. ASSUME NEW c \in Calls, ServeLogin(c) \/ RefreshCheck(c) \/ RefreshIssue(c) \/ Lose(c)
       PROVE ServedInv'
  <2>1. UNCHANGED <<pc, ran>>
    BY <1>10 DEF ServeLogin, RefreshCheck, RefreshIssue, Lose, clientVars, serverVars
  <2>2. \A d \in Calls \ {c} : req'[d] = req[d]
    BY <1>10 DEF ServeLogin, RefreshCheck, RefreshIssue, Lose, Answer, Issue, TypeOK
  <2>3. CASE ServeLogin(c)
    <3>1. req[c].state = "login" /\ req'[c].state \in {"ok", "unauthorized"}
      BY <2>3, AskFields DEF ServeLogin, Answer, Issue, TypeOK
    <3> QED BY <2>1, <2>2, <3>1 DEF ServedInv
  <2>4. CASE RefreshCheck(c)
    <3>1. req[c].state = "refresh" /\ req'[c].state \in {"checked", "unauthorized"}
      BY <2>4, AskFields DEF RefreshCheck, Answer, TypeOK
    <3> QED BY <2>1, <2>2, <3>1 DEF ServedInv
  <2>5. CASE RefreshIssue(c)
    <3>1. req[c].state = "checked" /\ req'[c].state = "ok"
      BY <2>5, AskFields DEF RefreshIssue, Issue, TypeOK
    <3> QED BY <2>1, <2>2, <3>1 DEF ServedInv
  <2>6. CASE Lose(c)
    <3>1. pc[c] # "renewed" /\ pc[c] # "new" /\ req'[c].state = "error"
      BY <2>6, AskFields DEF Lose, Answer, TypeOK, Active
    <3> QED BY <2>1, <2>2, <3>1 DEF ServedInv
  <2> QED BY <1>10, <2>3, <2>4, <2>5, <2>6
<1>11. CASE Restart
  <2>1. UNCHANGED <<pc, ran>>
    BY <1>11 DEF Restart, clientVars
  <2>2. \A d \in Calls : req'[d] = req[d] \/ (AtServer(d) /\ req'[d].state = "error")
    BY <1>11, AskFields DEF Restart
  <2>3. \A d \in Calls : AtServer(d) => pc[d] \notin {"new", "renewed"}
    BY DEF AtServer, ServedInv
  <2> QED BY <2>1, <2>2, <2>3 DEF ServedInv
<1>12. ASSUME NEW type \in {"access", "refresh"}, NEW n \in 1 .. issued, Expire(type, n)
       PROVE ServedInv'
  BY <1>12 DEF Expire, ServedInv, clientVars
<1>13. CASE Next
  BY <1>13, <1>1, <1>2, <1>3, <1>4, <1>5, <1>6, <1>7, <1>8, <1>9, <1>10, <1>11, <1>12
     DEF Next, Client, Server
<1> QED BY <1>0, <1>13

\* EffectAtMostOnce (a property of the run websession): for any number of calls,
\* restarts, lost answers and expired tokens, the retry never repeats the work.
THEOREM ServedOnce == Spec => []EffectAtMostOnce
<1>1. ServedInv => EffectAtMostOnce
  BY DEF ServedInv, EffectAtMostOnce
<1> QED BY <1>1, InitType, NextType, InitServedInv, NextServedInv, PTL DEF Spec

-----------------------------------------------------------------------------
(* The rotation of refresh tokens, in the browser.                           *)

\* The answer to c will put its pair in localStorage.
Carried(c) ==
  /\ req[c].state = "ok"
  /\ pc[c] = "refresh" \/ (pc[c] = "call" /\ kind[c] = "login")

\* The inductive strengthening of ReplacedTokenIsGone: a pair is delivered once, and a
\* refresh token is sent, hence exchanged, only after it was delivered.
DeliveryInv ==
  /\ stored.refresh \in received \cup {0}
  /\ \A n \in 1 .. issued :
       /\ parent[n] \in received \cup {0}
       /\ n \in received /\ parent[n] # 0 => parent[n] # stored.refresh
  /\ \A c \in Calls :
       /\ req[c].state \in {"refresh", "checked"} => req[c].pair \in received \cup {0}
       /\ Carried(c) => req[c].pair \in 1 .. issued /\ req[c].pair \notin received
       /\ req[c].state = "api" => kind[c] # "login"
       /\ req[c].state = "login" => kind[c] = "login"
       /\ pc[c] \in {"refresh", "renewed", "retry"} => kind[c] # "login"
  /\ \A c, d \in Calls :
       Carried(c) /\ Carried(d) /\ req[c].pair = req[d].pair => c = d

\* DeliveryInv holds initially: the only pair there can be was delivered.
LEMMA InitDeliveryInv == Init => DeliveryInv
<1> SUFFICES ASSUME Init PROVE DeliveryInv
  OBVIOUS
<1>1. issued = 0 \/ issued = 1
  BY DEF Init
<1>2. stored.refresh \in received \cup {0}
  BY <1>1 DEF Init
<1>3. \A n \in 1 .. issued : parent[n] = 0
  BY DEF Init
<1>4. \A c \in Calls : req[c].state = "none" /\ pc[c] = "new"
  BY DEF Init, Idle
<1> QED BY <1>2, <1>3, <1>4 DEF DeliveryInv, Carried

\* Storing a carried pair, or dropping the tokens, keeps DeliveryInv.
LEMMA StoreDelivery ==
  ASSUME TypeOK, DeliveryInv, NEW c \in Calls, Carried(c),
         UNCHANGED <<req, kind, issued, parent>>,
         stored'.refresh = req[c].pair, received' = received \cup {req[c].pair},
         pc'[c] \in {"renewed", "done"}, kind[c] = "login" => pc'[c] = "done",
         \A d \in Calls \ {c} : pc'[d] \in {pc[d], "gone"}
  PROVE  DeliveryInv'
<1>1. \A d \in Calls : Carried(d)' => d # c /\ Carried(d)
  BY DEF Carried
<1>2. /\ req[c].pair \in 1 .. issued /\ req[c].pair \notin received
      /\ \A d \in Calls : Carried(d) /\ d # c => req[d].pair # req[c].pair
  BY DEF DeliveryInv
<1>3. \A n \in 1 .. issued : parent[n] # req[c].pair
  BY <1>2 DEF DeliveryInv
<1> QED BY <1>1, <1>2, <1>3 DEF DeliveryInv

\* Dropping the tokens, or keeping them, and moving calls out of api() keeps DeliveryInv.
LEMMA DropDelivery ==
  ASSUME TypeOK, DeliveryInv, UNCHANGED <<req, kind, issued, parent, received>>,
         stored' = stored \/ stored' = None,
         \A d \in Calls : pc'[d] \in {pc[d], "gone", "done", "failed"}
  PROVE  DeliveryInv'
<1>1. \A d \in Calls : Carried(d)' => Carried(d)
  BY DEF Carried
<1>2. stored'.refresh = stored.refresh \/ stored'.refresh = 0
  BY DEF None
<1>3. stored'.refresh \in received' \cup {0}
  BY <1>2 DEF DeliveryInv
<1>4. \A n \in 1 .. issued' :
        /\ parent'[n] \in received' \cup {0}
        /\ n \in received' /\ parent'[n] # 0 => parent'[n] # stored'.refresh
  BY <1>2 DEF DeliveryInv
<1> QED BY <1>1, <1>3, <1>4 DEF DeliveryInv

\* A new request or answer of c that carries no pair keeps DeliveryInv.
LEMMA AskDelivery ==
  ASSUME TypeOK, DeliveryInv, UNCHANGED <<stored, issued, parent, received>>,
         NEW c \in Calls, ~Carried(c)',
         \A d \in Calls \ {c} : req'[d] = req[d] /\ pc'[d] = pc[d] /\ kind'[d] = kind[d],
         req'[c].state \in {"refresh", "checked"} => req'[c].pair \in received \cup {0},
         req'[c].state = "api" => kind'[c] # "login",
         req'[c].state = "login" => kind'[c] = "login",
         pc'[c] \in {"refresh", "renewed", "retry"} => kind'[c] # "login"
  PROVE  DeliveryInv'
<1>1. \A d \in Calls : Carried(d)' => d # c /\ Carried(d) /\ req'[d] = req[d]
  BY DEF Carried
<1> QED BY <1>1 DEF DeliveryInv

\* Issuing a pair keeps DeliveryInv: no other answer carries it.
LEMMA IssueDelivery ==
  ASSUME TypeOK, DeliveryInv, NEW c \in Calls, NEW p \in 0 .. issued, p \in received \cup {0},
         Issue(c, p), UNCHANGED <<stored, received, pc, kind>>,
         ~(req[c].state = "api")
  PROVE  DeliveryInv'
<1>1. /\ issued' = issued + 1 /\ issued \in Nat
      /\ \A n \in 1 .. issued : parent'[n] = parent[n]
      /\ parent'[issued + 1] = p
      /\ req' = [req EXCEPT ![c] = Ask("ok", issued + 1)]
  BY IssueType DEF TypeOK
<1>2. /\ req'[c].state = "ok" /\ req'[c].pair = issued + 1
      /\ \A d \in Calls \ {c} : req'[d] = req[d]
  BY <1>1, AskFields DEF TypeOK
<1>3. \A d \in Calls \ {c} : Carried(d)' => Carried(d)
  BY <1>2 DEF Carried
<1>4. \A d \in Calls \ {c} : req[d].pair \in 0 .. issued
  BY DEF TypeOK
<1>5. issued + 1 \notin received
  BY <1>1 DEF TypeOK
<1>6. \A n \in 1 .. issued' :
        /\ parent'[n] \in received' \cup {0}
        /\ n \in received' /\ parent'[n] # 0 => parent'[n] # stored'.refresh
  <2> SUFFICES ASSUME NEW n \in 1 .. issued'
               PROVE  /\ parent'[n] \in received' \cup {0}
                      /\ n \in received' /\ parent'[n] # 0 => parent'[n] # stored'.refresh
    OBVIOUS
  <2>1. CASE n = issued + 1
    BY <1>1, <1>5, <2>1
  <2>2. CASE n \in 1 .. issued
    BY <1>1, <2>2 DEF DeliveryInv
  <2> QED BY <1>1, <2>1, <2>2
<1>7. \A d \in Calls :
        /\ req'[d].state \in {"refresh", "checked"} => req'[d].pair \in received' \cup {0}
        /\ Carried(d)' => req'[d].pair \in 1 .. issued' /\ req'[d].pair \notin received'
        /\ req'[d].state = "api" => kind'[d] # "login"
        /\ req'[d].state = "login" => kind'[d] = "login"
        /\ pc'[d] \in {"refresh", "renewed", "retry"} => kind'[d] # "login"
  <2> SUFFICES ASSUME NEW d \in Calls
        PROVE  /\ req'[d].state \in {"refresh", "checked"} => req'[d].pair \in received' \cup {0}
               /\ Carried(d)' => req'[d].pair \in 1 .. issued' /\ req'[d].pair \notin received'
               /\ req'[d].state = "api" => kind'[d] # "login"
               /\ req'[d].state = "login" => kind'[d] = "login"
               /\ pc'[d] \in {"refresh", "renewed", "retry"} => kind'[d] # "login"
    OBVIOUS
  <2>1. CASE d = c
    BY <1>1, <1>2, <1>5, <2>1 DEF DeliveryInv
  <2>2. CASE d # c
    BY <1>1, <1>2, <1>3, <2>2 DEF DeliveryInv
  <2> QED BY <2>1, <2>2
<1>8. \A d, e \in Calls :
        Carried(d)' /\ Carried(e)' /\ req'[d].pair = req'[e].pair => d = e
  <2>1. \A d \in Calls \ {c} : req'[d].pair # req'[c].pair
    BY <1>1, <1>2, <1>4
  <2> QED BY <1>2, <1>3, <2>1 DEF DeliveryInv
<1> QED BY <1>6, <1>7, <1>8 DEF DeliveryInv

\* Every step keeps DeliveryInv.
LEMMA NextDeliveryInv == TypeOK /\ ServedInv /\ DeliveryInv /\ [Next]_vars => DeliveryInv'
<1> SUFFICES ASSUME TypeOK, ServedInv, DeliveryInv, [Next]_vars PROVE DeliveryInv'
  OBVIOUS
<1>0. CASE UNCHANGED vars
  BY <1>0 DEF DeliveryInv, Carried, vars, clientVars, serverVars
<1>1. ASSUME NEW c \in Calls, NEW k \in Kinds, Begin(c, k) PROVE DeliveryInv'
  <2>1. /\ pc' = [pc EXCEPT ![c] = "call"] /\ kind' = [kind EXCEPT ![c] = k]
        /\ req' = [req EXCEPT ![c] = IF k = "login" THEN Ask("login", 0)
                                                    ELSE Ask("api", stored.access)]
        /\ UNCHANGED <<stored, issued, parent, received>>
    BY <1>1 DEF Begin, serverVars
  <2>2. /\ pc'[c] = "call" /\ kind'[c] = k
        /\ req'[c].state = IF k = "login" THEN "login" ELSE "api"
        /\ \A d \in Calls \ {c} : req'[d] = req[d] /\ pc'[d] = pc[d] /\ kind'[d] = kind[d]
    BY <2>1, AskFields DEF TypeOK
  <2>3. ~Carried(c)'
    BY <2>2 DEF Carried
  <2> QED BY <2>1, <2>2, <2>3, AskDelivery
<1>2. ASSUME NEW c \in Calls, Succeed(c) PROVE DeliveryInv'
  <2>1. CASE kind[c] = "login"
    <3>1. /\ pc[c] = "call" /\ req[c].state = "ok" /\ Navigate(c, "done")
          /\ stored' = [access |-> req[c].pair, refresh |-> req[c].pair]
          /\ received' = received \cup {req[c].pair}
          /\ UNCHANGED <<req, kind, issued, parent>>
      BY <1>2, <2>1 DEF Succeed, serverVars, DeliveryInv
    <3>2. pc'[c] = "done" /\ \A d \in Calls \ {c} : pc'[d] \in {pc[d], "gone"}
      BY <3>1, NavigateFields DEF Place
    <3>3. Carried(c)
      BY <2>1, <3>1 DEF Carried
    <3> QED BY <3>1, <3>2, <3>3, StoreDelivery
  <2>2. CASE kind[c] # "login"
    <3>1. \A d \in Calls : pc'[d] \in {pc[d], "gone", "done"}
      BY <1>2, NavigateFields DEF Succeed, TypeOK, Place
    <3> QED BY <1>2, <2>2, <3>1, DropDelivery DEF Succeed, serverVars
  <2> QED BY <2>1, <2>2
<1>3. ASSUME NEW c \in Calls, Renew(c) PROVE DeliveryInv'
  <2>1. /\ kind[c] # "login" /\ pc' = [pc EXCEPT ![c] = "refresh"]
        /\ req' = [req EXCEPT ![c] = Ask("refresh", stored.refresh)]
        /\ UNCHANGED <<stored, kind, issued, parent, received>>
    BY <1>3 DEF Renew, serverVars
  <2>2. /\ req'[c].state = "refresh" /\ req'[c].pair = stored.refresh
        /\ \A d \in Calls \ {c} : req'[d] = req[d] /\ pc'[d] = pc[d]
    BY <2>1, AskFields DEF TypeOK
  <2>3. ~Carried(c)' /\ stored.refresh \in received \cup {0}
    BY <2>2 DEF Carried, DeliveryInv
  <2> QED BY <2>1, <2>2, <2>3, AskDelivery
<1>4. ASSUME NEW c \in Calls, Renewed(c) PROVE DeliveryInv'
  <2>1. /\ pc[c] = "refresh" /\ req[c].state = "ok"
        /\ stored' = [access |-> req[c].pair, refresh |-> req[c].pair]
        /\ received' = received \cup {req[c].pair}
        /\ pc' = [pc EXCEPT ![c] = "renewed"]
        /\ UNCHANGED <<req, kind, issued, parent>>
    BY <1>4 DEF Renewed, serverVars
  <2>2. pc'[c] = "renewed" /\ \A d \in Calls \ {c} : pc'[d] = pc[d]
    BY <2>1 DEF TypeOK
  <2>3. Carried(c) /\ kind[c] # "login"
    BY <2>1 DEF Carried, DeliveryInv
  <2> QED BY <2>1, <2>2, <2>3, StoreDelivery
<1>5. ASSUME NEW c \in Calls, Retry(c) PROVE DeliveryInv'
  <2>1. /\ pc[c] = "renewed" /\ pc' = [pc EXCEPT ![c] = "retry"]
        /\ req' = [req EXCEPT ![c] = Ask("api", stored.access)]
        /\ UNCHANGED <<stored, kind, issued, parent, received>>
    BY <1>5 DEF Retry, serverVars
  <2>2. /\ req'[c].state = "api" /\ pc'[c] = "retry"
        /\ \A d \in Calls \ {c} : req'[d] = req[d] /\ pc'[d] = pc[d]
    BY <2>1, AskFields DEF TypeOK
  <2>3. ~Carried(c)' /\ kind[c] # "login"
    BY <2>1, <2>2 DEF Carried, DeliveryInv
  <2> QED BY <2>1, <2>2, <2>3, AskDelivery
<1>6. ASSUME NEW c \in Calls, Throw(c) PROVE DeliveryInv'
  <2>1. \A d \in Calls : pc'[d] \in {pc[d], "gone", "failed"}
    BY <1>6, NavigateFields DEF Throw, GiveUp, TypeOK, Place
  <2> QED BY <1>6, <2>1, DropDelivery DEF Throw, GiveUp, serverVars
<1>7. ASSUME NEW c \in Calls, NotRenewed(c) PROVE DeliveryInv'
  <2>1. \A d \in Calls : pc'[d] \in {pc[d], "gone", "failed"}
    BY <1>7, NavigateFields DEF NotRenewed, TypeOK, Place
  <2> QED BY <1>7, <2>1, DropDelivery DEF NotRenewed, serverVars
<1>8. ASSUME NEW t \in Tabs, Leave(t) PROVE DeliveryInv'
  <2>1. \A d \in Calls : pc'[d] \in {pc[d], "gone"}
    BY <1>8 DEF Leave
  <2> QED BY <1>8, <2>1, DropDelivery DEF Leave, serverVars
<1>9. ASSUME NEW c \in Calls, NEW s \in State, Answer(c, s),
             s \in {"ok", "unauthorized", "error", "checked"}, ~Carried(c)',
             s = "checked" => req[c].state = "refresh",
             UNCHANGED <<clientVars, issued, parent>>
      PROVE  DeliveryInv'
  <2>1. /\ req'[c].state = s /\ req'[c].pair = req[c].pair
        /\ \A d \in Calls \ {c} : req'[d] = req[d]
    BY <1>9, AskFields DEF Answer, TypeOK
  <2>2. s = "checked" => req[c].pair \in received \cup {0}
    BY <1>9 DEF DeliveryInv
  <2>3. pc'[c] \in {"refresh", "renewed", "retry"} => kind'[c] # "login"
    BY <1>9 DEF DeliveryInv, clientVars
  <2> QED BY <1>9, <2>1, <2>2, <2>3, AskDelivery DEF clientVars
<1>10. ASSUME NEW c \in Calls, Serve(c) PROVE DeliveryInv'
  <2>1. ~Carried(c)'
    BY <1>10 DEF Serve, Carried, ServedInv, DeliveryInv, clientVars
  <2> QED BY <1>9, <1>10, <2>1 DEF Serve, State
<1>11. ASSUME NEW c \in Calls, ServeLogin(c) PROVE DeliveryInv'
  <2>1. CASE Issue(c, 0)
    <3>1. 0 \in 0 .. issued
      BY DEF TypeOK
    <3> QED BY <1>11, <2>1, <3>1, IssueDelivery DEF ServeLogin, clientVars
  <2>2. CASE Answer(c, "unauthorized") /\ UNCHANGED <<issued, parent>>
    <3>1. ~Carried(c)'
      BY <2>2, AskFields DEF Answer, Carried, TypeOK
    <3> QED BY <1>9, <1>11, <2>2, <3>1 DEF ServeLogin, State
  <2> QED BY <1>11, <2>1, <2>2 DEF ServeLogin
<1>12. ASSUME NEW c \in Calls, RefreshCheck(c) PROVE DeliveryInv'
  <2>1. req'[c].state \in {"checked", "unauthorized"}
    BY <1>12, AskFields DEF RefreshCheck, Answer, TypeOK
  <2>2. ~Carried(c)'
    BY <2>1 DEF Carried
  <2> QED BY <1>9, <1>12, <2>2 DEF RefreshCheck, State
<1>13. ASSUME NEW c \in Calls, RefreshIssue(c) PROVE DeliveryInv'
  <2>1. req[c].pair \in 0 .. issued /\ req[c].pair \in received \cup {0}
    BY <1>13 DEF TypeOK, DeliveryInv, RefreshIssue
  <2> QED BY <1>13, <2>1, IssueDelivery DEF RefreshIssue, clientVars
<1>14. ASSUME NEW c \in Calls, Lose(c) PROVE DeliveryInv'
  <2>1. ~Carried(c)'
    BY <1>14, AskFields DEF Lose, Answer, Carried, TypeOK
  <2> QED BY <1>9, <1>14, <2>1 DEF Lose, State, serverVars
<1>15. CASE Restart
  <2>1. \A d \in Calls : req'[d] = req[d] \/ req'[d].state = "error"
    BY <1>15, AskFields DEF Restart
  <2>2. UNCHANGED <<pc, kind, stored, received, issued, parent>>
    BY <1>15 DEF Restart, clientVars
  <2>3. \A d \in Calls : Carried(d)' => Carried(d) /\ req'[d] = req[d]
    BY <2>1, <2>2 DEF Carried
  <2> QED BY <2>1, <2>2, <2>3 DEF DeliveryInv
<1>16. ASSUME NEW type \in {"access", "refresh"}, NEW n \in 1 .. issued, Expire(type, n)
       PROVE DeliveryInv'
  BY <1>16 DEF Expire, DeliveryInv, Carried, clientVars
<1>17. CASE Next
  BY <1>17, <1>1, <1>2, <1>3, <1>4, <1>5, <1>6, <1>7, <1>8, <1>10, <1>11, <1>12, <1>13,
     <1>14, <1>15, <1>16 DEF Next, Client, Server
<1> QED BY <1>0, <1>17

\* ReplacedTokenIsGone (a property of the run websession): for any number of calls,
\* tabs and lost answers, the browser never keeps a token it was given another for.
THEOREM ReplacedGone == Spec => []ReplacedTokenIsGone
<1>1. DeliveryInv => ReplacedTokenIsGone
  BY DEF DeliveryInv, ReplacedTokenIsGone
<1> QED BY <1>1, InitType, NextType, InitServedInv, NextServedInv, InitDeliveryInv,
           NextDeliveryInv, PTL DEF Spec

-----------------------------------------------------------------------------
(* The rotation of refresh tokens, on the server.                            *)

\* The inductive strengthening of ExchangedOnce: what was exchanged is revoked, and
\* what a handler has checked is not, unless two handlers raced or the server
\* restarted.
RotationInv ==
  restarts = 0 =>
    /\ \A n \in 1 .. issued : parent[n] # 0 => <<"refresh", parent[n]>> \in revoked
    /\ ~raced =>
         /\ \A c \in Calls :
              req[c].state = "checked" => <<"refresh", req[c].pair>> \notin revoked
         /\ \A c, d \in Calls :
              /\ req[c].state = "checked" /\ req[d].state = "checked"
              /\ req[c].pair = req[d].pair
              => c = d
         /\ \A m, n \in 1 .. issued : parent[m] = parent[n] /\ parent[m] # 0 => m = n

\* RotationInv holds initially: nothing was exchanged.
LEMMA InitRotationInv == Init => RotationInv
<1> SUFFICES ASSUME Init PROVE RotationInv
  OBVIOUS
<1>1. \A n \in 1 .. issued : parent[n] = 0
  BY DEF Init
<1>2. \A c \in Calls : req[c].state = "none"
  BY DEF Init, Idle
<1> QED BY <1>1, <1>2 DEF RotationInv

\* A step that neither checks nor exchanges a refresh token keeps RotationInv.
LEMMA QuietRotation ==
  ASSUME TypeOK, RotationInv, UNCHANGED <<issued, parent, raced, restarts>>,
         \A p : <<"refresh", p>> \in revoked <=> <<"refresh", p>> \in revoked',
         \A d \in Calls : req'[d] = req[d] \/ req'[d].state # "checked"
  PROVE  RotationInv'
BY DEF RotationInv

\* Every step keeps RotationInv.
LEMMA NextRotationInv == TypeOK /\ RotationInv /\ [Next]_vars => RotationInv'
<1> SUFFICES ASSUME TypeOK, RotationInv, [Next]_vars PROVE RotationInv'
  OBVIOUS
<1>0. CASE UNCHANGED vars
  BY <1>0 DEF RotationInv, vars, clientVars, serverVars
<1>1. ASSUME NEW c \in Calls, NEW k \in Kinds, Begin(c, k) PROVE RotationInv'
  <2>1. \A d \in Calls : req'[d] = req[d] \/ req'[d].state # "checked"
    BY <1>1, AskFields DEF Begin, TypeOK
  <2> QED BY <1>1, <2>1, QuietRotation DEF Begin, serverVars
<1>2. ASSUME NEW c \in Calls, Client(c) PROVE RotationInv'
  <2>1. UNCHANGED serverVars
    BY <1>2 DEF Client, Succeed, Renew, Renewed, Retry, Throw, NotRenewed
  <2>2. \A d \in Calls : req'[d] = req[d] \/ req'[d].state # "checked"
    BY <1>2, AskFields DEF Client, Succeed, Renew, Renewed, Retry, Throw, NotRenewed, TypeOK
  <2> QED BY <2>1, <2>2, QuietRotation DEF serverVars
<1>3. ASSUME NEW t \in Tabs, Leave(t) PROVE RotationInv'
  BY <1>3, QuietRotation DEF Leave, serverVars
<1>4. ASSUME NEW c \in Calls, Serve(c) PROVE RotationInv'
  <2>1. \A d \in Calls : req'[d] = req[d] \/ req'[d].state # "checked"
    BY <1>4, AskFields DEF Serve, Answer, TypeOK
  <2>2. \A p : <<"refresh", p>> \in revoked <=> <<"refresh", p>> \in revoked'
    BY <1>4 DEF Serve
  <2> QED BY <1>4, <2>1, <2>2, QuietRotation DEF Serve
<1>5. ASSUME NEW c \in Calls, NEW p \in 0 .. issued, Issue(c, p),
             UNCHANGED <<raced, restarts>>,
             \/ p = 0 /\ revoked' = revoked
             \/ /\ req[c].state = "checked" /\ p = req[c].pair
                /\ revoked' = revoked \cup {<<"refresh", p>>}
      PROVE  RotationInv'
  <2>1. /\ issued' = issued + 1 /\ issued \in Nat
        /\ \A n \in 1 .. issued : parent'[n] = parent[n]
        /\ parent'[issued + 1] = p
        /\ req' = [req EXCEPT ![c] = Ask("ok", issued + 1)]
    BY <1>5, IssueType DEF TypeOK
  <2>2. /\ req'[c].state = "ok"
        /\ \A d \in Calls \ {c} : req'[d] = req[d]
    BY <2>1, AskFields DEF TypeOK
  <2>3. \A n \in 1 .. issued' : n = issued + 1 \/ n \in 1 .. issued
    BY <2>1
  <2> SUFFICES ASSUME restarts = 0 PROVE RotationInv'
    BY <1>5 DEF RotationInv
  <2>4. \A n \in 1 .. issued' : parent'[n] # 0 => <<"refresh", parent'[n]>> \in revoked'
    <3> SUFFICES ASSUME NEW n \in 1 .. issued', parent'[n] # 0
                 PROVE  <<"refresh", parent'[n]>> \in revoked'
      OBVIOUS
    <3>1. CASE n = issued + 1
      BY <1>5, <2>1, <3>1
    <3>2. CASE n \in 1 .. issued
      BY <1>5, <2>1, <3>2 DEF RotationInv
    <3> QED BY <2>3, <3>1, <3>2
  <2>5. ASSUME ~raced
        PROVE  \A d \in Calls :
                 req'[d].state = "checked" => <<"refresh", req'[d].pair>> \notin revoked'
    <3> SUFFICES ASSUME NEW d \in Calls, req'[d].state = "checked"
                 PROVE  <<"refresh", req'[d].pair>> \notin revoked'
      OBVIOUS
    <3>1. d # c /\ req'[d] = req[d]
      BY <2>2
    <3>2. <<"refresh", req[d].pair>> \notin revoked
      BY <2>5, <3>1 DEF RotationInv
    <3>3. req[c].state = "checked" => req[d].pair # req[c].pair
      BY <2>5, <3>1 DEF RotationInv
    <3> QED BY <1>5, <3>1, <3>2, <3>3
  <2>6. ASSUME ~raced
        PROVE  \A d, e \in Calls :
                 /\ req'[d].state = "checked" /\ req'[e].state = "checked"
                 /\ req'[d].pair = req'[e].pair
                 => d = e
    BY <2>2, <2>6 DEF RotationInv
  <2>7. ASSUME ~raced
        PROVE  \A m, n \in 1 .. issued' : parent'[m] = parent'[n] /\ parent'[m] # 0 => m = n
    <3>1. \A n \in 1 .. issued : p # 0 => parent[n] # p
      <4> SUFFICES ASSUME NEW n \in 1 .. issued, p # 0, parent[n] = p PROVE FALSE
        OBVIOUS
      <4>1. <<"refresh", p>> \in revoked
        BY DEF RotationInv
      <4>2. <<"refresh", p>> \notin revoked
        BY <1>5, <2>7 DEF RotationInv
      <4> QED BY <4>1, <4>2
    <3>2. \A m, n \in 1 .. issued : parent[m] = parent[n] /\ parent[m] # 0 => m = n
      BY <2>7 DEF RotationInv
    <3> QED BY <2>1, <2>3, <3>1, <3>2
  <2> QED BY <1>5, <2>4, <2>5, <2>6, <2>7 DEF RotationInv
<1>6. ASSUME NEW c \in Calls, ServeLogin(c) PROVE RotationInv'
  <2>1. CASE Issue(c, 0)
    <3>1. 0 \in 0 .. issued
      BY DEF TypeOK
    <3> QED BY <1>5, <1>6, <2>1, <3>1 DEF ServeLogin
  <2>2. CASE Answer(c, "unauthorized") /\ UNCHANGED <<issued, parent>>
    <3>1. \A d \in Calls : req'[d] = req[d] \/ req'[d].state # "checked"
      BY <2>2, AskFields DEF Answer, TypeOK
    <3> QED BY <1>6, <2>2, <3>1, QuietRotation DEF ServeLogin
  <2> QED BY <1>6, <2>1, <2>2 DEF ServeLogin
<1>7. ASSUME NEW c \in Calls, RefreshCheck(c) PROVE RotationInv'
  <2>1. CASE Answer(c, "unauthorized") /\ UNCHANGED raced
    <3>1. \A d \in Calls : req'[d] = req[d] \/ req'[d].state # "checked"
      BY <2>1, AskFields DEF Answer, TypeOK
    <3> QED BY <1>7, <2>1, <3>1, QuietRotation DEF RefreshCheck
  <2>2. CASE /\ Valid("refresh", req[c].pair) /\ Answer(c, "checked")
             /\ raced' = (raced \/ \E d \in Calls : req[d] = Ask("checked", req[c].pair))
    <3>1. /\ req'[c].state = "checked" /\ req'[c].pair = req[c].pair
          /\ \A d \in Calls \ {c} : req'[d] = req[d]
      BY <2>2, AskFields DEF Answer, TypeOK
    <3>2. <<"refresh", req[c].pair>> \notin revoked
      BY <2>2 DEF Valid
    <3>3. \A d \in Calls \ {c} :
            ~raced' /\ req[d].state = "checked" => req[d].pair # req[c].pair
      <4>1. \A d \in Calls : req[d] \in [state : State, pair : 0 .. issued]
        BY DEF TypeOK
      <4> QED BY <2>2, <4>1 DEF Ask
    <3>4. UNCHANGED <<issued, parent, revoked, restarts>> /\ (~raced' => ~raced)
      BY <1>7, <2>2 DEF RefreshCheck
    <3> QED BY <3>1, <3>2, <3>3, <3>4 DEF RotationInv
  <2> QED BY <1>7, <2>1, <2>2 DEF RefreshCheck
<1>8. ASSUME NEW c \in Calls, RefreshIssue(c) PROVE RotationInv'
  <2>1. req[c].pair \in 0 .. issued
    BY DEF TypeOK
  <2> QED BY <1>5, <1>8, <2>1 DEF RefreshIssue
<1>9. ASSUME NEW c \in Calls, Lose(c) PROVE RotationInv'
  <2>1. \A d \in Calls : req'[d] = req[d] \/ req'[d].state # "checked"
    BY <1>9, AskFields DEF Lose, Answer, TypeOK
  <2> QED BY <1>9, <2>1, QuietRotation DEF Lose, serverVars
<1>10. CASE Restart
  BY <1>10 DEF Restart, RotationInv, TypeOK
<1>11. ASSUME NEW type \in {"access", "refresh"}, NEW n \in 1 .. issued, Expire(type, n)
       PROVE RotationInv'
  BY <1>11, QuietRotation DEF Expire
<1>12. CASE Next
  BY <1>12, <1>1, <1>2, <1>3, <1>4, <1>6, <1>7, <1>8, <1>9, <1>10, <1>11 DEF Next, Server
<1> QED BY <1>0, <1>12

\* ExchangedOnce (a property of the run websession): for any number of calls, tabs and
\* lost answers, only a race of two handlers exchanges one refresh token twice.
THEOREM RotatedOnce == Spec => []ExchangedOnce
<1>1. RotationInv => ExchangedOnce
  BY DEF RotationInv, ExchangedOnce
<1> QED BY <1>1, InitType, NextType, InitRotationInv, NextRotationInv, PTL DEF Spec

-----------------------------------------------------------------------------
(* The refresh of a browser that makes one call at a time.                   *)

\* Nothing went wrong, and no call began before another was over.
Alone == Undisturbed /\ ~overlapped

\* What is known of the request of a call, by its place in api(): the pair it is about
\* is one the server still takes, so that no 401 but the first can come.
CallInv(c) ==
  /\ ~LostSession(c)
  /\ req[c].state # "error"
  /\ AtServer(c) => Active(c)
  /\ hadSession[c] /\ Active(c) => stored.refresh # 0 /\ kind[c] # "login"
  /\ pc[c] = "call" /\ kind[c] = "login" =>
       /\ req[c].state \in {"login", "ok", "unauthorized"}
       /\ req[c].state = "ok" => Valid("refresh", req[c].pair)
  /\ pc[c] = "refresh" =>
       /\ req[c].state \in {"refresh", "checked", "ok"}
       /\ Valid("refresh", req[c].pair)
       /\ req[c].state = "ok" => Valid("access", req[c].pair)
  /\ pc[c] = "renewed" => Valid("access", req[c].pair) /\ req[c].pair = stored.access
  /\ pc[c] = "retry" =>
       \/ req[c].state = "ok"
       \/ req[c].state = "api" /\ Valid("access", req[c].pair)

\* The refresh token in localStorage is good, except between the exchange of it and
\* the arrival of the answer.
StoredInv ==
  /\ stored.access = stored.refresh
  /\ /\ stored.refresh # 0
     /\ \A c \in Calls : pc[c] = "refresh" => req[c].state # "ok"
     => Valid("refresh", stored.refresh)

\* The inductive strengthening of TransparentWhenAlone.
LonelyInv ==
  /\ StoredInv
  /\ \A c, d \in Calls : Active(c) /\ Active(d) => c = d
  /\ \A c \in Calls : CallInv(c)

AloneInv == Alone => LonelyInv

\* AloneInv holds initially: no call has begun.
LEMMA InitAloneInv == Init => AloneInv
<1> SUFFICES ASSUME Init PROVE LonelyInv
  BY DEF AloneInv
<1>1. issued = 0 \/ issued = 1
  BY DEF Init
<1>2. stored.access = issued /\ stored.refresh = issued /\ revoked = {} /\ expired = {}
  BY DEF Init
<1>3. \A c \in Calls : pc[c] = "new" /\ req[c].state = "none" /\ hadSession[c] = FALSE
  BY DEF Init, Idle
<1>4. StoredInv
  BY <1>1, <1>2 DEF StoredInv, Valid
<1>5. \A c \in Calls : CallInv(c)
  BY <1>3 DEF CallInv, LostSession, AtServer, Active
<1> QED BY <1>3, <1>4, <1>5 DEF LonelyInv, Active

\* What one call does keeps LonelyInv when no other is under way and the call itself
\* and localStorage end up well.
LEMMA StepAlone ==
  ASSUME LonelyInv, NEW c \in Calls,
         \A d \in Calls \ {c} :
           /\ ~Active(d) /\ pc'[d] = pc[d] /\ req'[d] = req[d]
           /\ hadSession'[d] = hadSession[d],
         CallInv(c)', stored'.access = stored'.refresh,
         stored'.refresh # 0 /\ (pc'[c] = "refresh" => req'[c].state # "ok")
           => Valid("refresh", stored.refresh)'
  PROVE  LonelyInv'
<1>1. \A d \in Calls \ {c} : ~Active(d)' /\ pc'[d] \notin {"call", "refresh", "renewed", "retry"}
  BY DEF Active
<1>2. ASSUME NEW d \in Calls \ {c} PROVE CallInv(d)'
  <2>1. CallInv(d) /\ ~Active(d)
    BY DEF LonelyInv
  <2>2. ~LostSession(d)' /\ req'[d].state # "error" /\ ~AtServer(d)'
    BY <2>1 DEF CallInv, LostSession, AtServer
  <2> QED BY <1>1, <2>2 DEF CallInv
<1>3. \A d \in Calls : CallInv(d)'
  BY <1>2
<1>4. \A d, e \in Calls : Active(d)' /\ Active(e)' => d = e
  BY <1>1
<1>5. StoredInv'
  BY DEF StoredInv
<1> QED BY <1>3, <1>4, <1>5 DEF LonelyInv

\* The steps that leave a browser undisturbed find it undisturbed.
LEMMA AloneBefore ==
  ASSUME TypeOK, Next, Alone'
  PROVE  /\ Alone
         /\ ~Restart
         /\ \A c \in Calls : ~Lose(c)
         /\ \A t \in Tabs : ~Leave(t)
         /\ \A n \in 1 .. issued : ~Expire("refresh", n)
<1>1. restarts' = 0 /\ losses' = 0 /\ overlapped' = FALSE
      /\ (\A c \in Calls : pc'[c] # "gone")
      /\ \A n \in 1 .. issued' : <<"refresh", n>> \notin expired'
  BY DEF Alone, Undisturbed, TypeOK, Next
<1>2. restarts \in Nat /\ losses \in Nat /\ issued \in Nat
  BY DEF TypeOK
<1>3. ~Restart
  BY <1>1, <1>2 DEF Restart
<1>4. \A c \in Calls : ~Lose(c)
  BY <1>1, <1>2 DEF Lose
<1>5. \A t \in Tabs : ~Leave(t)
  BY <1>1 DEF Leave
<1>6. \A n \in 1 .. issued : ~Expire("refresh", n)
  <2> SUFFICES ASSUME NEW n \in 1 .. issued, Expire("refresh", n) PROVE FALSE
    OBVIOUS
  <2>1. <<"refresh", n>> \in expired' /\ issued' = issued
    BY DEF Expire
  <2> QED BY <1>1, <2>1
<1>7. ASSUME NEW c \in Calls, (\E k \in Kinds : Begin(c, k)) \/ Client(c) \/ Server(c)
      PROVE  Alone
  <2>1. UNCHANGED <<restarts, losses, expired>> /\ (overlapped => overlapped')
    <3>1. CASE \E k \in Kinds : Begin(c, k)
      BY <3>1 DEF Begin, serverVars, TypeOK
    <3>2. CASE Client(c)
      BY <3>2 DEF Client, Succeed, Renew, Renewed, Retry, Throw, NotRenewed, serverVars
    <3>3. CASE Server(c)
      BY <3>3 DEF Server, Serve, ServeLogin, RefreshCheck, RefreshIssue, clientVars
    <3> QED BY <1>7, <3>1, <3>2, <3>3
  <2>2. issued' = issued \/ issued' = issued + 1
    BY <1>7 DEF Begin, Client, Succeed, Renew, Renewed, Retry, Throw, NotRenewed, Server,
                Serve, ServeLogin, RefreshCheck, RefreshIssue, Issue, serverVars
  <2>3. \A d \in Calls : pc[d] = "gone" => pc'[d] = "gone"
    <3>1. CASE \E k \in Kinds : Begin(c, k)
      BY <3>1 DEF Begin, TypeOK
    <3>2. CASE Client(c)
      BY <3>2 DEF Client, Succeed, Renew, Renewed, Retry, Throw, GiveUp, NotRenewed,
                  Navigate, TypeOK
    <3>3. CASE Server(c)
      BY <3>3 DEF Server, Serve, ServeLogin, RefreshCheck, RefreshIssue, clientVars
    <3> QED BY <1>7, <3>1, <3>2, <3>3
  <2>4. \A n \in 1 .. issued : n \in 1 .. issued'
    BY <1>2, <2>2
  <2> QED BY <1>1, <2>1, <2>3, <2>4 DEF Alone, Undisturbed
<1>8. ASSUME NEW type \in {"access", "refresh"}, NEW n \in 1 .. issued, Expire(type, n)
      PROVE  Alone
  BY <1>1, <1>8 DEF Expire, Alone, Undisturbed, clientVars
<1> QED BY <1>3, <1>4, <1>5, <1>6, <1>7, <1>8 DEF Next

\* The steps of the browser keep LonelyInv.
LEMMA ClientAlone ==
  ASSUME TypeOK, ServedInv, DeliveryInv, LonelyInv, NEW c \in Calls, Client(c)
  PROVE  LonelyInv'
<1>0. Active(c) /\ \A d \in Calls \ {c} : ~Active(d)
  BY DEF Client, Succeed, Renew, Renewed, Retry, Throw, NotRenewed, Active, LonelyInv
<1>1. CallInv(c) /\ StoredInv
  BY DEF LonelyInv
<1>2. /\ UNCHANGED <<kind, hadSession, issued, revoked, expired>>
      /\ \A d \in Calls \ {c} : req'[d] = req[d] /\ pc'[d] = pc[d]
  <2>1. UNCHANGED <<kind, hadSession, issued, revoked, expired>>
    BY DEF Client, Succeed, Renew, Renewed, Retry, Throw, NotRenewed, serverVars
  <2>2. \A d \in Calls \ {c} : req'[d] = req[d]
    BY DEF Client, Succeed, Renew, Renewed, Retry, Throw, NotRenewed, TypeOK
  <2>3. \A d \in Calls \ {c} : pc'[d] = pc[d]
    BY <1>0 DEF Client, Succeed, Renew, Renewed, Retry, Throw, GiveUp, NotRenewed,
                Navigate, TypeOK
  <2> QED BY <2>1, <2>2, <2>3
<1>3. pc[c] # "refresh" => (stored.refresh # 0 => Valid("refresh", stored.refresh))
  BY <1>0, <1>1 DEF StoredInv, Active
<1>4. CASE Succeed(c)
  <2>1. /\ pc[c] \in {"call", "retry"} /\ req[c].state = "ok" /\ req' = req
        /\ pc'[c] = "done"
    BY <1>4, NavigateFields DEF Succeed, TypeOK, Place
  <2>2. \/ /\ kind[c] = "login"
           /\ stored' = [access |-> req[c].pair, refresh |-> req[c].pair]
        \/ stored' = None
        \/ stored' = stored
    BY <1>4 DEF Succeed
  <2>3. CallInv(c)'
    BY <2>1 DEF CallInv, LostSession, AtServer, Active
  <2>4. kind[c] = "login" => Valid("refresh", req[c].pair)
    BY <1>1, <2>1 DEF CallInv, DeliveryInv
  <2>5. stored'.access = stored'.refresh
    BY <1>1, <2>2 DEF StoredInv, None
  <2>6. stored'.refresh # 0 => Valid("refresh", stored.refresh)'
    BY <1>2, <1>3, <2>1, <2>2, <2>4 DEF Valid, None
  <2> QED BY <1>0, <1>2, <2>3, <2>5, <2>6, StepAlone
<1>5. CASE Renew(c)
  <2>1. /\ stored' = stored /\ stored.refresh # 0 /\ pc'[c] = "refresh" /\ kind[c] # "login"
        /\ pc[c] = "call" /\ req'[c] = Ask("refresh", stored.refresh)
    BY <1>5 DEF Renew, TypeOK
  <2>2. req'[c].state = "refresh" /\ req'[c].pair = stored.refresh
    BY <2>1, AskFields
  <2>3. Valid("refresh", stored.refresh)' /\ Valid("refresh", req[c].pair)'
    BY <1>2, <1>3, <2>1, <2>2 DEF Valid
  <2>4. CallInv(c)'
    BY <1>2, <2>1, <2>2, <2>3 DEF CallInv, LostSession, AtServer, Active
  <2> QED BY <1>0, <1>1, <1>2, <2>1, <2>3, <2>4, StepAlone DEF StoredInv
<1>6. CASE Renewed(c)
  <2>1. /\ pc[c] = "refresh" /\ req[c].state = "ok" /\ req' = req /\ pc'[c] = "renewed"
        /\ stored' = [access |-> req[c].pair, refresh |-> req[c].pair]
    BY <1>6 DEF Renewed, TypeOK
  <2>2. Valid("refresh", req[c].pair) /\ Valid("access", req[c].pair)
    BY <1>1, <2>1 DEF CallInv
  <2>3. /\ Valid("refresh", stored.refresh)' /\ Valid("access", req[c].pair)'
        /\ stored'.refresh # 0 /\ stored'.access = stored'.refresh
        /\ req'[c].pair = stored'.access
    BY <1>2, <2>1, <2>2 DEF Valid, TypeOK
  <2>4. kind'[c] # "login"
    BY <1>2, <2>1 DEF DeliveryInv
  <2>5. CallInv(c)'
    BY <2>1, <2>3, <2>4 DEF CallInv, LostSession, AtServer, Active
  <2> QED BY <1>0, <1>2, <2>3, <2>5, StepAlone
<1>7. CASE Retry(c)
  <2>1. /\ pc[c] = "renewed" /\ stored' = stored /\ pc'[c] = "retry"
        /\ req'[c] = Ask("api", stored.access)
    BY <1>7 DEF Retry, TypeOK
  <2>2. req'[c].state = "api" /\ req'[c].pair = stored.access
    BY <2>1, AskFields
  <2>3. Valid("access", stored.access)
    BY <1>1, <2>1 DEF CallInv
  <2>4. Valid("access", req[c].pair)' /\ stored'.refresh # 0
    <3>1. Valid("access", req[c].pair)'
      BY <1>2, <2>1, <2>2, <2>3 DEF Valid
    <3>2. stored.access # 0
      BY <2>3 DEF Valid, TypeOK
    <3> QED BY <1>1, <2>1, <3>1, <3>2 DEF StoredInv
  <2>5. kind'[c] # "login"
    BY <1>2, <2>1 DEF DeliveryInv
  <2>6. CallInv(c)'
    BY <2>1, <2>2, <2>4, <2>5 DEF CallInv, LostSession, AtServer, Active
  <2>7. Valid("refresh", stored.refresh)'
    BY <1>2, <1>3, <2>1, <2>4 DEF Valid
  <2> QED BY <1>0, <1>1, <1>2, <2>1, <2>6, <2>7, StepAlone DEF StoredInv
<1>8. CASE Throw(c)
  <2>1. pc[c] = "call" /\ req[c].state = "unauthorized" /\ (kind[c] = "login" \/ stored.refresh = 0)
    BY <1>1, <1>8 DEF Throw, CallInv
  <2>2. req' = req /\ pc'[c] = "failed" /\ stored' \in {stored, None}
    BY <1>8, NavigateFields DEF Throw, GiveUp, TypeOK, Place
  <2>3. ~hadSession[c]
    BY <1>0, <1>1, <2>1 DEF CallInv
  <2>4. CallInv(c)'
    BY <1>2, <2>1, <2>2, <2>3 DEF CallInv, LostSession, AtServer, Active
  <2>5. stored'.access = stored'.refresh
    BY <1>1, <2>2 DEF StoredInv, None
  <2>6. stored'.refresh # 0 => Valid("refresh", stored.refresh)'
    BY <1>2, <1>3, <2>1, <2>2 DEF Valid, None
  <2> QED BY <1>0, <1>2, <2>4, <2>5, <2>6, StepAlone
<1>9. ~NotRenewed(c)
  BY <1>1 DEF NotRenewed, CallInv
<1> QED BY <1>4, <1>5, <1>6, <1>7, <1>8, <1>9 DEF Client

\* The steps of the server keep LonelyInv.
LEMMA ServerAlone ==
  ASSUME TypeOK, ServedInv, DeliveryInv, LonelyInv, NEW c \in Calls, Server(c)
  PROVE  LonelyInv'
<1>0. Active(c) /\ \A d \in Calls \ {c} : ~Active(d)
  <2>1. AtServer(c)
    BY DEF Server, Serve, ServeLogin, RefreshCheck, RefreshIssue, AtServer
  <2> QED BY <2>1 DEF LonelyInv, CallInv
<1>1. CallInv(c) /\ StoredInv
  BY DEF LonelyInv
<1>2. /\ UNCHANGED <<pc, stored, kind, hadSession, expired>>
      /\ \A d \in Calls \ {c} : req'[d] = req[d]
  BY DEF Server, Serve, ServeLogin, RefreshCheck, RefreshIssue, Answer, Issue, clientVars,
         TypeOK
<1>3. pc[c] # "refresh" => (stored.refresh # 0 => Valid("refresh", stored.refresh))
  BY <1>0, <1>1 DEF StoredInv, Active
<1>4. stored'.access = stored'.refresh
  BY <1>1, <1>2 DEF StoredInv
<1>5. ASSUME NEW s, req' = [req EXCEPT ![c] = Ask(s, req[c].pair)]
      PROVE  req'[c].state = s /\ req'[c].pair = req[c].pair
  BY <1>5, AskFields DEF TypeOK
<1>6. ASSUME NEW p \in 0 .. issued, Issue(c, p)
      PROVE  /\ issued' = issued + 1
             /\ req'[c].state = "ok" /\ req'[c].pair = issued + 1
             /\ issued + 1 \in 1 .. issued' /\ \A n \in 1 .. issued : n \in 1 .. issued'
             /\ \A type : <<type, issued + 1>> \notin revoked /\ <<type, issued + 1>> \notin expired
  <2>1. issued' = issued + 1 /\ issued \in Nat
    BY <1>6 DEF Issue, TypeOK
  <2>2. req' = [req EXCEPT ![c] = Ask("ok", issued + 1)]
    BY <1>6 DEF Issue
  <2>3. req'[c].state = "ok" /\ req'[c].pair = issued + 1
    BY <2>2, AskFields DEF TypeOK
  <2>4. \A type : <<type, issued + 1>> \notin Token(issued)
    BY <2>1 DEF Token
  <2>5. issued + 1 \in 1 .. issued' /\ \A n \in 1 .. issued : n \in 1 .. issued'
    BY <2>1
  <2> QED BY <2>1, <2>3, <2>4, <2>5 DEF TypeOK
<1>7. CASE Serve(c)
  <2>1. /\ req[c].state = "api" /\ pc[c] \in {"call", "retry"} /\ kind[c] # "login"
        /\ issued' = issued
    BY <1>0, <1>7 DEF Serve, ServedInv, DeliveryInv, Active
  <2>2. \A n : <<"refresh", n>> \in revoked' <=> <<"refresh", n>> \in revoked
    BY <1>7 DEF Serve
  <2>3. stored'.refresh # 0 => Valid("refresh", stored.refresh)'
    BY <1>2, <1>3, <2>1, <2>2 DEF Valid
  <2>4. req'[c].state \in {"ok", "unauthorized"} /\ (pc[c] = "retry" => req'[c].state = "ok")
    <3>1. pc[c] = "retry" => Valid("access", req[c].pair)
      BY <1>1, <2>1 DEF CallInv
    <3> QED BY <1>5, <1>7, <3>1 DEF Serve, Answer
  <2>5. CallInv(c)'
    BY <1>1, <1>2, <2>1, <2>4 DEF CallInv, LostSession, AtServer, Active
  <2> QED BY <1>0, <1>2, <1>4, <2>3, <2>5, StepAlone
<1>8. CASE ServeLogin(c)
  <2>1. /\ pc[c] = "call" /\ kind[c] = "login" /\ revoked' = revoked
    BY <1>0, <1>8 DEF ServeLogin, ServedInv, DeliveryInv, Active
  <2>2. ~hadSession[c]
    BY <1>0, <1>1, <2>1 DEF CallInv
  <2>3. CASE Issue(c, 0)
    <3>1. 0 \in 0 .. issued
      BY DEF TypeOK
    <3>2. Valid("refresh", req[c].pair)' /\ req'[c].state = "ok"
      BY <1>2, <1>6, <2>1, <2>3, <3>1 DEF Valid
    <3>3. CallInv(c)'
      BY <1>2, <2>1, <2>2, <3>2 DEF CallInv, LostSession, AtServer, Active
    <3>4. stored'.refresh # 0 => Valid("refresh", stored.refresh)'
      BY <1>2, <1>3, <1>6, <2>1, <2>3, <3>1 DEF Valid
    <3> QED BY <1>0, <1>2, <1>4, <3>3, <3>4, StepAlone
  <2>4. CASE Answer(c, "unauthorized") /\ UNCHANGED <<issued, parent>>
    <3>1. req'[c].state = "unauthorized"
      BY <1>5, <2>4 DEF Answer
    <3>2. CallInv(c)'
      BY <1>2, <2>1, <2>2, <3>1 DEF CallInv, LostSession, AtServer, Active
    <3>3. stored'.refresh # 0 => Valid("refresh", stored.refresh)'
      BY <1>2, <1>3, <2>1, <2>4 DEF Valid
    <3> QED BY <1>0, <1>2, <1>4, <3>2, <3>3, StepAlone
  <2> QED BY <1>8, <2>3, <2>4 DEF ServeLogin
<1>9. ASSUME RefreshCheck(c) \/ RefreshIssue(c)
      PROVE  /\ pc[c] = "refresh" /\ Valid("refresh", req[c].pair) /\ kind[c] # "login"
             /\ hadSession[c] => stored.refresh # 0
  <2>1. req[c].state \in {"refresh", "checked"}
    BY <1>9 DEF RefreshCheck, RefreshIssue
  <2>2. pc[c] = "refresh"
    BY <1>0, <2>1 DEF ServedInv, Active
  <2> QED BY <1>0, <1>1, <2>2 DEF CallInv, DeliveryInv
<1>10. CASE RefreshCheck(c)
  <2>1. Answer(c, "checked") /\ req[c].state = "refresh" /\ UNCHANGED <<issued, revoked>>
    BY <1>9, <1>10 DEF RefreshCheck
  <2>2. req'[c].state = "checked" /\ req'[c].pair = req[c].pair
    BY <1>5, <2>1 DEF Answer
  <2>3. Valid("refresh", req[c].pair)'
    BY <1>2, <1>9, <1>10, <2>1, <2>2 DEF Valid
  <2>4. CallInv(c)'
    BY <1>2, <1>9, <1>10, <2>2, <2>3 DEF CallInv, LostSession, AtServer, Active
  <2>5. stored.refresh # 0 => Valid("refresh", stored.refresh)
    BY <1>0, <1>1, <2>1 DEF StoredInv, Active
  <2>6. stored'.refresh # 0 => Valid("refresh", stored.refresh)'
    BY <1>2, <2>1, <2>5 DEF Valid
  <2> QED BY <1>0, <1>2, <1>4, <2>4, <2>6, StepAlone
<1>11. CASE RefreshIssue(c)
  <2>1. /\ Issue(c, req[c].pair) /\ req[c].pair \in 0 .. issued
        /\ revoked' = revoked \cup {<<"refresh", req[c].pair>>}
    BY <1>11 DEF RefreshIssue, TypeOK
  <2>2. req'[c].state = "ok" /\ req'[c].pair = issued + 1
    BY <1>6, <2>1
  <2>3. req[c].pair # issued + 1
    BY <2>1 DEF TypeOK
  <2>4. Valid("refresh", req[c].pair)' /\ Valid("access", req[c].pair)'
    BY <1>2, <1>6, <2>1, <2>2, <2>3 DEF Valid
  <2>5. CallInv(c)'
    BY <1>2, <1>9, <1>11, <2>2, <2>4 DEF CallInv, LostSession, AtServer, Active
  <2> QED BY <1>0, <1>2, <1>4, <1>9, <1>11, <2>2, <2>5, StepAlone
<1> QED BY <1>7, <1>8, <1>10, <1>11 DEF Server

\* Every step keeps AloneInv.
LEMMA NextAloneInv ==
  TypeOK /\ ServedInv /\ DeliveryInv /\ AloneInv /\ [Next]_vars => AloneInv'
<1> SUFFICES ASSUME TypeOK, ServedInv, DeliveryInv, AloneInv, [Next]_vars, Alone'
             PROVE  LonelyInv'
  BY DEF AloneInv
<1>1. CASE UNCHANGED vars
  <2>1. LonelyInv
    BY <1>1 DEF AloneInv, Alone, Undisturbed, vars, clientVars, serverVars
  <2> QED BY <1>1, <2>1 DEF LonelyInv, StoredInv, CallInv, LostSession, AtServer, Active,
                            Valid, vars, clientVars, serverVars
<1>2. CASE Next
  <2>1. LonelyInv
    BY <1>2, AloneBefore DEF AloneInv
  <2>2. ASSUME NEW c \in Calls, NEW k \in Kinds, Begin(c, k) PROVE LonelyInv'
    <3>1. \A d \in Calls : ~Active(d) /\ ~AtServer(d)
      BY <2>2 DEF Begin, Alone
    <3>2. /\ UNCHANGED <<stored, issued, revoked, expired>>
          /\ pc'[c] = "call" /\ kind'[c] = k
          /\ hadSession'[c] = (k # "login" /\ stored # None)
          /\ req'[c] = IF k = "login" THEN Ask("login", 0) ELSE Ask("api", stored.access)
          /\ \A d \in Calls \ {c} :
               req'[d] = req[d] /\ pc'[d] = pc[d] /\ hadSession'[d] = hadSession[d]
      BY <2>2 DEF Begin, serverVars, TypeOK
    <3>3. req'[c].state = IF k = "login" THEN "login" ELSE "api"
      BY <3>2, AskFields
    <3>4. stored # None => stored.refresh # 0
      BY <2>1 DEF LonelyInv, StoredInv, None, TypeOK
    <3>5. CallInv(c)'
      BY <3>2, <3>3, <3>4 DEF CallInv, LostSession, AtServer, Active
    <3>6. stored.refresh # 0 => Valid("refresh", stored.refresh)
      BY <2>1, <3>1 DEF LonelyInv, StoredInv, Active
    <3>7. stored'.refresh # 0 => Valid("refresh", stored.refresh)'
      BY <3>2, <3>6 DEF Valid
    <3>8. stored'.access = stored'.refresh
      BY <2>1, <3>2 DEF LonelyInv, StoredInv
    <3> QED BY <2>1, <3>1, <3>2, <3>5, <3>7, <3>8, StepAlone
  <2>3. ASSUME NEW n \in 1 .. issued, Expire("access", n) PROVE LonelyInv'
    <3>1. /\ UNCHANGED <<pc, req, kind, stored, hadSession, issued, revoked>>
          /\ expired' = expired \cup {<<"access", n>>}
          /\ \A c \in Calls : pc[c] \in {"refresh", "renewed", "retry"} => req[c].pair # n
      BY <2>3 DEF Expire, clientVars
    <3>2. \A m : Valid("refresh", m) => Valid("refresh", m)'
      BY <3>1 DEF Valid
    <3>3. \A m : m # n /\ Valid("access", m) => Valid("access", m)'
      BY <3>1 DEF Valid
    <3>4. StoredInv'
      BY <2>1, <3>1, <3>2 DEF LonelyInv, StoredInv, Valid
    <3>5. ASSUME NEW c \in Calls PROVE CallInv(c)'
      <4>1. CallInv(c)
        BY <2>1 DEF LonelyInv
      <4> QED BY <3>1, <4>1 DEF CallInv, LostSession, AtServer, Active, Valid
    <3> QED BY <2>1, <3>1, <3>4, <3>5 DEF LonelyInv, Active
  <2> QED BY <1>2, <2>1, <2>2, <2>3, AloneBefore, ClientAlone, ServerAlone DEF Next
<1> QED BY <1>1, <1>2

\* TransparentWhenAlone (a property of the run websession): for any number of calls made
\* one after the other, none that began with tokens fails because they expired.
THEOREM TransparentAlone == Spec => []TransparentWhenAlone
<1>1. AloneInv => TransparentWhenAlone
  BY DEF AloneInv, LonelyInv, CallInv, TransparentWhenAlone, Alone
<1> QED BY <1>1, InitType, NextType, InitServedInv, NextServedInv, InitDeliveryInv,
           NextDeliveryInv, InitAloneInv, NextAloneInv, PTL DEF Spec

-----------------------------------------------------------------------------
(* The end of a call.                                                        *)

\* How much of api() a call has before it: its place, then the state of its request.
PlaceRank(place) ==
  CASE place = "call" -> 16 [] place = "refresh" -> 12 [] place = "renewed" -> 8
    [] place = "retry" -> 4 [] OTHER -> 0

StateRank(state) ==
  CASE state \in {"api", "login", "refresh"} -> 3 [] state = "checked" -> 2
    [] state \in {"ok", "unauthorized"} -> 1 [] OTHER -> 0

Rank(c) == PlaceRank(pc[c]) + (IF Active(c) THEN StateRank(req[c].state) ELSE 0)

\* Whatever happens to a call, restarts, lost answers and other tabs included, brings
\* it closer to its end: one refresh and one retry at most (`_retry`, `auth: false`),
\* however often the server refuses it.
CallsAdvance ==
  [][\A c \in Calls :
       Active(c) /\ (pc'[c] # pc[c] \/ req'[c] # req[c]) => Rank(c)' < Rank(c)]_vars

\* The ranks are numbers; a request about to be answered is worth less than a place.
LEMMA Ranks ==
  /\ \A s : StateRank(s) \in 0 .. 3
  /\ \A s : s \in {"api", "login", "refresh"} => StateRank(s) = 3
  /\ StateRank("checked") = 2 /\ StateRank("ok") = 1 /\ StateRank("unauthorized") = 1
  /\ StateRank("error") = 0
  /\ PlaceRank("call") = 16 /\ PlaceRank("refresh") = 12 /\ PlaceRank("renewed") = 8
  /\ PlaceRank("retry") = 4
  /\ \A p \in {"done", "failed", "gone"} : PlaceRank(p) = 0
BY DEF StateRank, PlaceRank

\* A call that leaves api() has nothing before it any more.
LEMMA LeavingAdvances ==
  ASSUME NEW c \in Calls, Active(c), pc'[c] \in {"done", "failed", "gone"}
  PROVE  Rank(c)' < Rank(c)
<1>1. PlaceRank(pc[c]) \in {16, 12, 8, 4}
  BY Ranks DEF Active
<1>2. Rank(c)' = 0
  <2>1. ~Active(c)' /\ PlaceRank(pc'[c]) = 0
    BY Ranks DEF Active
  <2> QED BY <2>1 DEF Rank
<1>3. Rank(c) = PlaceRank(pc[c]) + StateRank(req[c].state)
  BY DEF Rank
<1>4. StateRank(req[c].state) \in 0 .. 3
  BY Ranks
<1> HIDE DEF Rank
<1> QED BY <1>1, <1>2, <1>3, <1>4

\* A call whose request is answered, or gets further, stays where it is in api().
LEMMA AnswerAdvances ==
  ASSUME NEW c \in Calls, Active(c), pc'[c] = pc[c],
         StateRank(req'[c].state) < StateRank(req[c].state)
  PROVE  Rank(c)' < Rank(c)
<1>1. PlaceRank(pc[c]) \in {16, 12, 8, 4}
  BY Ranks DEF Active
<1>2. Rank(c) = PlaceRank(pc[c]) + StateRank(req[c].state)
  BY DEF Rank
<1>3. Rank(c)' = PlaceRank(pc[c]) + StateRank(req'[c].state)
  BY DEF Rank, Active
<1>4. StateRank(req[c].state) \in 0 .. 3 /\ StateRank(req'[c].state) \in 0 .. 3
  BY Ranks
<1> DEFINE x == StateRank(req[c].state)
           y == StateRank(req'[c].state)
           z == PlaceRank(pc[c])
<1> HIDE DEF x, y, z
<1>5. x \in 0 .. 3 /\ y \in 0 .. 3 /\ y < x /\ z \in {16, 12, 8, 4}
  BY <1>1, <1>4 DEF x, y, z
<1>6. z + y < z + x
  BY <1>5
<1> QED BY <1>2, <1>3, <1>6 DEF x, y, z

\* A call that goes on in api() is nearer to its end, whatever its request is then.
LEMMA PlaceAdvances ==
  ASSUME NEW c \in Calls, Active(c), pc[c] # pc'[c],
         pc[c] = "call" => pc'[c] = "refresh",
         pc[c] = "refresh" => pc'[c] = "renewed",
         pc[c] = "renewed" => pc'[c] = "retry",
         pc[c] # "retry"
  PROVE  Rank(c)' < Rank(c)
<1>1. Active(c)' /\ PlaceRank(pc[c]) = PlaceRank(pc'[c]) + 4 /\ PlaceRank(pc'[c]) \in {12, 8, 4}
  BY Ranks DEF Active
<1>2. Rank(c) = PlaceRank(pc[c]) + StateRank(req[c].state)
  BY DEF Rank
<1>3. Rank(c)' = PlaceRank(pc'[c]) + StateRank(req'[c].state)
  BY <1>1 DEF Rank
<1>4. StateRank(req[c].state) \in 0 .. 3 /\ StateRank(req'[c].state) \in 0 .. 3
  BY Ranks
<1> DEFINE x == StateRank(req[c].state)
           y == StateRank(req'[c].state)
           z == PlaceRank(pc'[c])
<1> HIDE DEF x, y, z
<1>5. x \in 0 .. 3 /\ y \in 0 .. 3 /\ z \in {12, 8, 4}
  BY <1>1, <1>4 DEF x, y, z
<1>6. z + y < (z + 4) + x
  BY <1>5
<1> QED BY <1>1, <1>2, <1>3, <1>6 DEF x, y, z

\* Every step that touches a call under way brings it nearer to its end.
LEMMA NextAdvances ==
  ASSUME TypeOK, [Next]_vars, NEW c \in Calls, Active(c), pc'[c] # pc[c] \/ req'[c] # req[c]
  PROVE  Rank(c)' < Rank(c)
<1>1. ASSUME NEW d \in Calls, NEW k \in Kinds, Begin(d, k) PROVE Rank(c)' < Rank(c)
  <2>1. d # c
    BY <1>1 DEF Begin, Active
  <2> QED BY <1>1, <2>1 DEF Begin, TypeOK
<1>2. ASSUME NEW d \in Calls, Client(d) PROVE Rank(c)' < Rank(c)
  <2>1. CASE d = c
    <3>1. CASE Succeed(c) \/ Throw(c) \/ NotRenewed(c)
      <4>1. pc'[c] \in {"done", "failed"}
        BY <3>1, NavigateFields DEF Succeed, Throw, GiveUp, NotRenewed, TypeOK, Place
      <4> QED BY <4>1, LeavingAdvances
    <3>2. CASE Renew(c) \/ Renewed(c) \/ Retry(c)
      <4>1. \/ pc[c] = "call" /\ pc'[c] = "refresh"
            \/ pc[c] = "refresh" /\ pc'[c] = "renewed"
            \/ pc[c] = "renewed" /\ pc'[c] = "retry"
        BY <3>2 DEF Renew, Renewed, Retry, TypeOK
      <4> QED BY <4>1, PlaceAdvances
    <3> QED BY <1>2, <2>1, <3>1, <3>2 DEF Client
  <2>2. CASE d # c
    <3>1. req'[c] = req[c]
      BY <1>2, <2>2 DEF Client, Succeed, Renew, Renewed, Retry, Throw, NotRenewed, TypeOK
    <3>2. pc'[c] \in {pc[c], "gone"}
      BY <1>2, <2>2 DEF Client, Succeed, Renew, Renewed, Retry, Throw, GiveUp, NotRenewed,
                        Navigate, TypeOK
    <3> QED BY <3>1, <3>2, LeavingAdvances
  <2> QED BY <2>1, <2>2
<1>3. ASSUME NEW d \in Calls, Server(d) \/ Lose(d) PROVE Rank(c)' < Rank(c)
  <2>1. pc' = pc
    BY <1>3 DEF Server, Serve, ServeLogin, RefreshCheck, RefreshIssue, Lose, clientVars
  <2>2. d = c
    BY <1>3, <2>1 DEF Server, Serve, ServeLogin, RefreshCheck, RefreshIssue, Lose, Answer,
                      Issue, TypeOK
  <2>3. \/ /\ req[c].state \in {"api", "login", "refresh"}
           /\ req'[c].state \in {"checked", "ok", "unauthorized", "error"}
        \/ req[c].state = "checked" /\ req'[c].state = "ok"
        \/ req[c].state \in {"ok", "unauthorized"} /\ req'[c].state = "error"
    <3>1. CASE Serve(c)
      BY <3>1, AskFields DEF Serve, Answer, TypeOK
    <3>2. CASE ServeLogin(c)
      BY <3>2, AskFields DEF ServeLogin, Answer, Issue, TypeOK
    <3>3. CASE RefreshCheck(c)
      BY <3>3, AskFields DEF RefreshCheck, Answer, TypeOK
    <3>4. CASE RefreshIssue(c)
      BY <3>4, AskFields DEF RefreshIssue, Issue, TypeOK
    <3>5. CASE Lose(c)
      BY <3>5, AskFields DEF Lose, Answer, TypeOK
    <3> QED BY <1>3, <2>2, <3>1, <3>2, <3>3, <3>4, <3>5 DEF Server
  <2>4. StateRank(req'[c].state) < StateRank(req[c].state)
    BY <2>3, Ranks
  <2> QED BY <2>1, <2>4, AnswerAdvances
<1>4. ASSUME NEW t \in Tabs, Leave(t) PROVE Rank(c)' < Rank(c)
  BY <1>4, LeavingAdvances DEF Leave
<1>5. CASE Restart
  <2>1. pc' = pc /\ AtServer(c) /\ req'[c] = Ask("error", req[c].pair)
    BY <1>5 DEF Restart, clientVars
  <2>2. StateRank(req'[c].state) < StateRank(req[c].state)
    BY <2>1, AskFields, Ranks DEF AtServer
  <2> QED BY <2>1, <2>2, AnswerAdvances
<1>6. ASSUME NEW type \in {"access", "refresh"}, NEW n \in 1 .. issued, Expire(type, n)
      PROVE Rank(c)' < Rank(c)
  BY <1>6 DEF Expire, clientVars
<1>7. CASE UNCHANGED vars
  BY <1>7 DEF vars, clientVars
<1> QED BY <1>1, <1>2, <1>3, <1>4, <1>5, <1>6, <1>7 DEF Next

\* CallsAdvance: for any number of calls, restarts and losses, no call refreshes or
\* retries more than once. Of EveryCallEnds (a property of the run websession) this is
\* the part that needs no fairness.
THEOREM AdvancingCalls == Spec => CallsAdvance
<1>1. TypeOK /\ [Next]_vars =>
        [\A c \in Calls :
           Active(c) /\ (pc'[c] # pc[c] \/ req'[c] # req[c]) => Rank(c)' < Rank(c)]_vars
  BY NextAdvances
<1> QED BY <1>1, InitType, NextType, PTL DEF Spec, CallsAdvance
===============================================================================
