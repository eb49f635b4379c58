------------------------------ MODULE WebSession ------------------------------
(***************************************************************************)
(* A browser session of the secured application: the pages' script         *)
(* (secure_app/static/common.js: TOKENS, api, tryRefresh, logout) and the  *)
(* routes it calls (secure_app/routers/auth.py: login, refresh, logout;    *)
(* security.py: decode_token and the revocation set).                      *)
(*                                                                         *)
(* The tabs of a browser share localStorage, and each runs several calls   *)
(* of api() at once.  The server answers requests in a pool of threads.    *)
(* A pair of tokens is named by its number: the tokens of a pair are       *)
(* <<"access", n>> and <<"refresh", n>>, and 0 stands for no token.        *)
(***************************************************************************)
EXTENDS Naturals, FiniteSets

CONSTANTS
  Calls,           \* bound: calls of api() by the pages, refreshes apart
  Tabs, TabOf,     \* TabOf[c]: the tab in which call c is made
  Kinds,           \* kinds of calls the pages make
  KeyIsKept,       \* SECURE_APP_SECRET_KEY is set: tokens outlive the server
  RefreshExpires,  \* the model lasts longer than refresh_ttl_seconds
  MaxExpired,      \* bound: tokens that expire
  MaxRestarts,     \* bound: restarts of the server
  MaxLosses        \* bound: requests or answers lost, or answered 5xx

Kind == {"page", "action", "logout", "login"}

ASSUME SessionAssumption ==
  /\ TabOf \in [Calls -> Tabs]
  /\ Kinds \subseteq Kind
  /\ KeyIsKept \in BOOLEAN /\ RefreshExpires \in BOOLEAN
  /\ MaxExpired \in Nat /\ MaxRestarts \in Nat /\ MaxLosses \in Nat

VARIABLES
  stored,          \* localStorage: sa_access and sa_refresh
  pc,              \* pc[c]: where call c is in api()
  kind,            \* kind[c]: what the page does with the outcome
  req,             \* req[c]: its current request, as the server has it
  issued,          \* pairs created so far: 1 .. issued
  revoked,         \* _revoked_jti
  expired,         \* tokens that are past `exp` or signed with an old key
  ran,             \* history: ran[c], times the handler of c did its work
  parent,          \* history: parent[n], the pair that n was exchanged for
  received,        \* history: pairs that were put in localStorage
  raced,           \* history: two handlers held one refresh token at once
  overlapped,      \* history: a call began before another was over
  hadSession,      \* history: c began with tokens in localStorage
  restarts, losses

clientVars == <<stored, pc, kind, received, overlapped, hadSession>>
serverVars == <<issued, revoked, expired, ran, parent, raced, restarts>>
vars == <<clientVars, req, serverVars, losses>>

\* Where a call can be in api(), and where a request can be.
Place == {"new", "call", "refresh", "renewed", "retry", "done", "failed", "gone"}
State == {"none", "api", "login", "refresh", "checked", "ok", "unauthorized", "error"}

Token(n) == {"access", "refresh"} \X (0 .. n)
None == [access |-> 0, refresh |-> 0]
Idle == [state |-> "none", pair |-> 0]
Ask(what, n) == [state |-> what, pair |-> n]

\* A browser that never logged in, or one that comes back with its tokens.
Init ==
  /\ issued \in {0, 1}
  /\ stored = [access |-> issued, refresh |-> issued]
  /\ received = 1 .. issued
  /\ parent = [n \in 1 .. issued |-> 0]
  /\ pc = [c \in Calls |-> "new"]
  /\ kind = [c \in Calls |-> "action"]
  /\ req = [c \in Calls |-> Idle]
  /\ revoked = {} /\ expired = {}
  /\ ran = [c \in Calls |-> 0]
  /\ raced = FALSE /\ overlapped = FALSE
  /\ hadSession = [c \in Calls |-> FALSE]
  /\ restarts = 0 /\ losses = 0

-----------------------------------------------------------------------------
(* The browser.                                                            *)

Active(c) == pc[c] \in {"call", "refresh", "renewed", "retry"}
AtServer(c) == req[c].state \in {"api", "login", "refresh", "checked"}

\* The page of call c is left: its other calls will never see an answer.
Navigate(c, outcome) ==
  pc' = [d \in Calls |-> IF d = c THEN outcome
                         ELSE IF TabOf[d] = TabOf[c] /\ Active(d) THEN "gone"
                         ELSE pc[d]]

\* A page calls api(): while it loads (requireAuth first), on a click, or from
\* the login form, which a page with tokens never shows.
Begin(c, k) ==
  /\ pc[c] = "new"
  /\ k = "page" => stored.access # 0
  /\ k = "login" => stored.access = 0
  /\ pc' = [pc EXCEPT ![c] = "call"]
  /\ kind' = [kind EXCEPT ![c] = k]
  /\ req' = [req EXCEPT ![c] = IF k = "login" THEN Ask("login", 0)
                                              ELSE Ask("api", stored.access)]
  /\ hadSession' = [hadSession EXCEPT ![c] = k # "login" /\ stored # None]
  /\ overlapped' = (overlapped \/ \E d \in Calls : Active(d) \/ AtServer(d))
  /\ UNCHANGED <<stored, received, serverVars, losses>>

\* The answer is a success: the login form stores the tokens and logout() drops
\* them, and both go to another page.
Succeed(c) ==
  /\ pc[c] \in {"call", "retry"}
  /\ req[c].state = "ok"
  /\ \/ /\ kind[c] = "login"
        /\ stored' = [access |-> req[c].pair, refresh |-> req[c].pair]
        /\ received' = received \cup {req[c].pair}
        /\ Navigate(c, "done")
     \/ /\ kind[c] = "logout"
        /\ stored' = None
        /\ Navigate(c, "done")
        /\ UNCHANGED received
     \/ /\ kind[c] \in {"page", "action"}
        /\ pc' = [pc EXCEPT ![c] = "done"]
        /\ UNCHANGED <<stored, received>>
  /\ UNCHANGED <<kind, req, overlapped, hadSession, serverVars, losses>>

\* Mutant of Renew: any failure is retried, not only a 401.
RenewAlways(c) ==
  /\ pc[c] = "call" /\ kind[c] # "login"
  /\ req[c].state \in {"unauthorized", "error"}
  /\ stored.refresh # 0
  /\ pc' = [pc EXCEPT ![c] = "refresh"]
  /\ req' = [req EXCEPT ![c] = Ask("refresh", stored.refresh)]
  /\ UNCHANGED <<stored, kind, received, overlapped, hadSession, serverVars, losses>>

\* A first 401: tryRefresh posts the refresh token of this moment.
Renew(c) ==
  /\ pc[c] = "call" /\ kind[c] # "login"
  /\ req[c].state = "unauthorized"
  /\ stored.refresh # 0
  /\ pc' = [pc EXCEPT ![c] = "refresh"]
  /\ req' = [req EXCEPT ![c] = Ask("refresh", stored.refresh)]
  /\ UNCHANGED <<stored, kind, received, overlapped, hadSession, serverVars, losses>>

\* Mutant of Renewed: the new refresh token only is stored.
RenewedRefreshOnly(c) ==
  /\ pc[c] = "refresh"
  /\ req[c].state = "ok"
  /\ stored' = [stored EXCEPT !.refresh = req[c].pair]
  /\ received' = received \cup {req[c].pair}
  /\ pc' = [pc EXCEPT ![c] = "renewed"]
  /\ UNCHANGED <<kind, req, overlapped, hadSession, serverVars, losses>>

\* Mutant of Renewed: the new access token only is stored.
RenewedAccessOnly(c) ==
  /\ pc[c] = "refresh"
  /\ req[c].state = "ok"
  /\ stored' = [stored EXCEPT !.access = req[c].pair]
  /\ received' = received \cup {req[c].pair}
  /\ pc' = [pc EXCEPT ![c] = "renewed"]
  /\ UNCHANGED <<kind, req, overlapped, hadSession, serverVars, losses>>

\* tryRefresh succeeds and stores the pair.
Renewed(c) ==
  /\ pc[c] = "refresh"
  /\ req[c].state = "ok"
  /\ stored' = [access |-> req[c].pair, refresh |-> req[c].pair]
  /\ received' = received \cup {req[c].pair}
  /\ pc' = [pc EXCEPT ![c] = "renewed"]
  /\ UNCHANGED <<kind, req, overlapped, hadSession, serverVars, losses>>

\* The call is made once more, with the access token of this moment.
Retry(c) ==
  /\ pc[c] = "renewed"
  /\ req' = [req EXCEPT ![c] = Ask("api", stored.access)]
  /\ pc' = [pc EXCEPT ![c] = "retry"]
  /\ UNCHANGED <<stored, kind, received, overlapped, hadSession, serverVars, losses>>

\* What a page does when api() throws: a loading page and logout() drop the
\* tokens and go elsewhere; the others show a message.
GiveUp(c) ==
  IF kind[c] \in {"page", "logout"}
  THEN stored' = None /\ Navigate(c, "failed")
  ELSE pc' = [pc EXCEPT ![c] = "failed"] /\ UNCHANGED stored

\* An error, a 401 without a refresh token, or a second 401: api() throws.
Throw(c) ==
  /\ \/ pc[c] \in {"call", "retry"} /\ req[c].state = "error"
     \/ pc[c] = "retry" /\ req[c].state = "unauthorized"
     \/ /\ pc[c] = "call" /\ req[c].state = "unauthorized"
        /\ kind[c] = "login" \/ stored.refresh = 0
  /\ GiveUp(c)
  /\ UNCHANGED <<kind, req, received, overlapped, hadSession, serverVars, losses>>

\* Mutant of NotRenewed: the call of tryRefresh has auth = true, so that its own
\* 401 is a reason to refresh.
NotRenewedAgain(c) ==
  /\ pc[c] = "refresh"
  /\ req[c].state = "unauthorized"
  /\ req' = [req EXCEPT ![c] = Ask("refresh", stored.refresh)]
  /\ UNCHANGED <<stored, pc, kind, received, overlapped, hadSession, serverVars, losses>>

\* tryRefresh fails, whatever the reason: the tokens of this moment are dropped
\* and the first 401 is thrown.
NotRenewed(c) ==
  /\ pc[c] = "refresh"
  /\ req[c].state \in {"unauthorized", "error"}
  /\ stored' = None
  /\ IF kind[c] \in {"page", "logout"} THEN Navigate(c, "failed")
                                       ELSE pc' = [pc EXCEPT ![c] = "failed"]
  /\ UNCHANGED <<kind, req, received, overlapped, hadSession, serverVars, losses>>

\* The user reloads or closes the tab.
Leave(t) ==
  /\ \E c \in Calls : TabOf[c] = t /\ Active(c)
  /\ pc' = [c \in Calls |-> IF TabOf[c] = t /\ Active(c) THEN "gone" ELSE pc[c]]
  /\ UNCHANGED <<stored, kind, req, received, overlapped, hadSession, serverVars, losses>>

-----------------------------------------------------------------------------
(* The server.                                                             *)

\* decode_token returns the payload.
Valid(type, n) ==
  n \in 1 .. issued /\ <<type, n>> \notin revoked /\ <<type, n>> \notin expired

Answer(c, state) == req' = [req EXCEPT ![c] = Ask(state, req[c].pair)]

\* Mutant of Issue: the tokens are handed out before the pair exists.
IssueUncounted(c, p) ==
  /\ req' = [req EXCEPT ![c] = Ask("ok", issued + 1)]
  /\ UNCHANGED <<issued, parent>>

\* _create_token, twice: a new pair, in exchange for pair p.
Issue(c, p) ==
  /\ issued' = issued + 1
  /\ parent' = [n \in 1 .. issued + 1 |-> IF n <= issued THEN parent[n] ELSE p]
  /\ req' = [req EXCEPT ![c] = Ask("ok", issued + 1)]

\* A protected route: get_current_user, then the work of the handler; that of
\* logout revokes the access token.
Serve(c) ==
  /\ req[c].state = "api"
  /\ \/ /\ Valid("access", req[c].pair)
        /\ ran' = [ran EXCEPT ![c] = @ + 1]
        /\ revoked' = IF kind[c] = "logout" THEN revoked \cup {<<"access", req[c].pair>>}
                                            ELSE revoked
        /\ Answer(c, "ok")
     \/ /\ ~Valid("access", req[c].pair)
        /\ Answer(c, "unauthorized")
        /\ UNCHANGED <<ran, revoked>>
  /\ UNCHANGED <<clientVars, issued, expired, parent, raced, restarts, losses>>

\* login: a new pair, or a refusal.
ServeLogin(c) ==
  /\ req[c].state = "login"
  /\ \/ Issue(c, 0)
     \/ Answer(c, "unauthorized") /\ UNCHANGED <<issued, parent>>
  /\ UNCHANGED <<clientVars, revoked, expired, ran, raced, restarts, losses>>

\* refresh, decode_token and the look-up of the user.
RefreshCheck(c) ==
  /\ req[c].state = "refresh"
  /\ \/ /\ Valid("refresh", req[c].pair)
        /\ Answer(c, "checked")
        /\ raced' = (raced \/ \E d \in Calls : req[d] = Ask("checked", req[c].pair))
     \/ /\ ~Valid("refresh", req[c].pair)
        /\ Answer(c, "unauthorized")
        /\ UNCHANGED raced
  /\ UNCHANGED <<clientVars, issued, revoked, expired, ran, parent, restarts, losses>>

\* Mutant of RefreshIssue: the access token of the pair is revoked instead.
RefreshIssueRevokesAccess(c) ==
  /\ req[c].state = "checked"
  /\ revoked' = revoked \cup {<<"access", req[c].pair>>}
  /\ Issue(c, req[c].pair)
  /\ UNCHANGED <<clientVars, expired, ran, raced, restarts, losses>>

\* refresh, the rest: revoke_token and the new pair.
RefreshIssue(c) ==
  /\ req[c].state = "checked"
  /\ revoked' = revoked \cup {<<"refresh", req[c].pair>>}
  /\ Issue(c, req[c].pair)
  /\ UNCHANGED <<clientVars, expired, ran, raced, restarts, losses>>

\* An answer is lost after the work, or the request before it (or a 5xx).
Lose(c) ==
  /\ losses < MaxLosses
  /\ Active(c) /\ pc[c] # "renewed"
  /\ req[c].state \in {"api", "login", "refresh", "ok", "unauthorized"}
  /\ losses' = losses + 1
  /\ Answer(c, "error")
  /\ UNCHANGED <<clientVars, serverVars>>

\* The server restarts: the revocations are forgotten; without a configured key
\* every token of before is refused.
Restart ==
  /\ restarts < MaxRestarts
  /\ restarts' = restarts + 1
  /\ revoked' = {}
  /\ expired' = IF KeyIsKept THEN expired ELSE Token(issued)
  /\ req' = [c \in Calls |-> IF AtServer(c) THEN Ask("error", req[c].pair)
                                            ELSE req[c]]
  /\ UNCHANGED <<clientVars, issued, ran, parent, raced, losses>>

\* Time passes `exp`.  An access token lasts 15 minutes, longer than the retry it
\* was issued for.
Expire(type, n) ==
  /\ n \in 1 .. issued /\ <<type, n>> \notin expired
  /\ Cardinality(expired) < MaxExpired
  /\ type = "access" =>
       \A c \in Calls : pc[c] \in {"refresh", "renewed", "retry"} => req[c].pair # n
  /\ type = "refresh" => RefreshExpires
  /\ expired' = expired \cup {<<type, n>>}
  /\ UNCHANGED <<clientVars, req, issued, revoked, ran, parent, raced, restarts, losses>>

-----------------------------------------------------------------------------
Client(c) ==
  Succeed(c) \/ Renew(c) \/ Renewed(c) \/ Retry(c) \/ Throw(c) \/ NotRenewed(c)

Server(c) == Serve(c) \/ ServeLogin(c) \/ RefreshCheck(c) \/ RefreshIssue(c)

Next ==
  \/ \E c \in Calls : (\E k \in Kinds : Begin(c, k)) \/ Client(c) \/ Server(c) \/ Lose(c)
  \/ \E t \in Tabs : Leave(t)
  \/ Restart
  \/ \E type \in {"access", "refresh"}, n \in 1 .. issued : Expire(type, n)

Spec == Init /\ [][Next]_vars

\* The server answers what reaches it, and the event loop runs what was answered.
Fairness == \A c \in Calls : WF_vars(Client(c)) /\ WF_vars(Server(c))

FairSpec == Spec /\ Fairness

-----------------------------------------------------------------------------
(* Properties.                                                             *)

\* Types of all variables; every token in the system belongs to an issued pair.
TypeOK ==
  /\ issued \in Nat
  /\ stored \in [access : 0 .. issued, refresh : 0 .. issued]
  /\ pc \in [Calls -> Place]
  /\ kind \in [Calls -> Kind]
  /\ req \in [Calls -> [state : State, pair : 0 .. issued]]
  /\ revoked \subseteq Token(issued)
  /\ expired \subseteq Token(issued)
  /\ ran \in [Calls -> Nat]
  /\ parent \in [1 .. issued -> 0 .. issued]
  /\ received \subseteq 0 .. issued
  /\ raced \in BOOLEAN /\ overlapped \in BOOLEAN
  /\ hadSession \in [Calls -> BOOLEAN]
  /\ restarts \in Nat /\ losses \in Nat

\* The retry never does the work of a call twice: a request is sent again only
\* when the first one was refused (api, `_retry`).
EffectAtMostOnce == \A c \in Calls : ran[c] <= 1

\* Once the replacement of a refresh token has reached the browser, the token that
\* was exchanged for it is never in localStorage again, in whatever order the
\* answers of concurrent refreshes arrive in the tabs (TOKENS.set, tryRefresh).
ReplacedTokenIsGone ==
  \A n \in 1 .. issued : n \in received /\ parent[n] # 0 => parent[n] # stored.refresh

\* "l'ancien refresh est revoque (anti-rejeu)" (refresh): while the server is up, a
\* refresh token is exchanged once, unless two handlers had checked it before either
\* revoked it.
ExchangedOnce ==
  restarts = 0 /\ ~raced =>
    \A m, n \in 1 .. issued : parent[m] = parent[n] /\ parent[m] # 0 => m = n

\* Nothing went wrong outside the script and the routes.
Undisturbed ==
  /\ restarts = 0 /\ losses = 0
  /\ \A c \in Calls : pc[c] # "gone"
  /\ \A n \in 1 .. issued : <<"refresh", n>> \notin expired

\* A call that began with tokens and ended in an error.
LostSession(c) == hadSession[c] /\ pc[c] = "failed"

\* "refresh transparent sur 401" (common.js): a call that begins with tokens does not
\* fail because its access token has expired.
TransparentRefresh == Undisturbed => \A c \in Calls : ~LostSession(c)

\* The refresh is transparent indeed for calls made one after the other, logouts,
\* logins and other tabs included.
TransparentWhenAlone == Undisturbed /\ ~overlapped => \A c \in Calls : ~LostSession(c)

\* Every call ends, with a value or an error: no chain of refreshes and retries goes
\* on for ever (`_retry`, `auth: false` in tryRefresh).
EveryCallEnds == \A c \in Calls : Active(c) ~> ~Active(c)
=============================================================================
