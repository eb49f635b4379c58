------------------------------- MODULE Enrichers -------------------------------
(***************************************************************************)
(* What POST /events asks about an address before it stores an event       *)
(* (analyzer/enrichers): a GeoLite2 base, and AbuseIPDB through a cache,   *)
(* one call per second, from the threads that run the handlers.            *)
(***************************************************************************)
EXTENDS Integers, FiniteSets

CONSTANTS
  Requests,        \* bound: events posted to the analyzer, one request each
  Addresses,
  Public,          \* the addresses that is_global accepts
  Provided,        \* Provided[q]: the enrichment the event carries itself
  Geo,             \* Geo[a]: what the GeoLite2 base says of a
  Reputation,      \* Reputation[a]: its score at AbuseIPDB
  Deployments,     \* settings of an analyzer and its neighbours, see Deployment
  CACHE_TTL,       \* _CACHE_TTL_S, in the unit of the throttle (1 s)
  MaxTime,         \* bound: the clock
  Fragile,         \* bound: the requests SQLite may fail
  Null, Free

Place == [country : STRING \cup {Null}, located : BOOLEAN]
\* source: the addresses of the events that are posted; key: ABUSEIPDB_API_KEY is
\* set; geoip: the base was there when the analyzer started; base: it comes later;
\* shipper: the process that writes the exports runs.
Deployment ==
  [source : UNION {[S -> Addresses] : S \in SUBSET Requests},
   key : BOOLEAN, geoip : BOOLEAN, base : BOOLEAN, shipper : BOOLEAN]

ASSUME EnrichersAssumption ==
  /\ IsFiniteSet(Requests) /\ Free \notin Requests
  /\ Public \subseteq Addresses
  /\ \A q \in Requests : /\ Provided[q].country \in STRING \cup {Null}
                         /\ Provided[q].located \in BOOLEAN
                         /\ Provided[q].score \in Nat \cup {Null}
  /\ \A a \in Addresses : Geo[a] \in Place
  /\ Reputation \in [Addresses -> Nat]
  /\ Deployments \subseteq Deployment
  /\ CACHE_TTL \in Nat \ {0} /\ Fragile \subseteq Requests /\ MaxTime \in Nat
  /\ Null \notin Nat

VARIABLES
  deployment,
  now,             \* time.time()
  cache,           \* cache[a]: the row of the cache, ts = Null without one
  lock,            \* the request that holds _lock, or Free
  lastCall,        \* _last_call
  wake,            \* when the sleep of the holder of the lock ends
  pc,              \* pc[q]: what the handler of q does next
  score,           \* score[q]: abuse_score of lookup(), Null without one
  calls,           \* history: calls to AbuseIPDB, [by, at]
  learnt,          \* history: learnt[a]: when an answer for a was last stored
  knew             \* history: lookups begun less than CACHE_TTL after that

enricherVars == <<deployment, now, cache, lock, lastCall, wake, pc, score, calls, learnt, knew>>

EnrichersInit ==
  /\ deployment \in Deployments
  /\ now = 1 /\ lastCall = 0 /\ wake = 0
  /\ cache = [a \in Addresses |-> [score |-> 0, ts |-> Null]]
  /\ lock = Free
  /\ pc = [q \in Requests |-> "none"]
  /\ score = [q \in Requests |-> Null]
  /\ calls = {}
  /\ learnt = [a \in Addresses |-> Null]
  /\ knew = {}

Source == deployment.source

Goto(q, where) == pc' = [pc EXCEPT ![q] = where]

\* A row of the cache, or an answer, of time t is still good.
Fresh(t) == t # Null /\ now - t < CACHE_TTL

\* A valid event arrives; enrich() asks AbuseIPDB about a public address only.
\* lookup() reads the cache, and gives up on a miss when there is no key.
Lookup(q) ==
  LET a == Source[q] IN
  /\ q \in DOMAIN Source /\ pc[q] = "none"
  /\ knew' = IF Fresh(learnt[a]) THEN knew \cup {q} ELSE knew
  /\ IF a \in Public /\ Fresh(cache[a].ts)
     THEN score' = [score EXCEPT ![q] = cache[a].score] /\ Goto(q, "insert")
     ELSE /\ UNCHANGED score
          /\ Goto(q, IF a \in Public /\ deployment.key THEN "wait" ELSE "insert")
  /\ UNCHANGED <<deployment, now, cache, lock, lastCall, wake, calls, learnt>>

\* Mutant of Acquire: the block is not under the lock.
AcquireAnyway(q) ==
  /\ pc[q] = "wait"
  /\ lock' = q
  /\ wake' = IF now - lastCall < 1 THEN lastCall + 1 ELSE now
  /\ Goto(q, "throttle")
  /\ UNCHANGED <<deployment, now, cache, lastCall, score, calls, learnt, knew>>

\* The lock, and the time to sleep.
Acquire(q) ==
  /\ pc[q] = "wait" /\ lock = Free
  /\ lock' = q
  /\ wake' = IF now - lastCall < 1 THEN lastCall + 1 ELSE now
  /\ Goto(q, "throttle")
  /\ UNCHANGED <<deployment, now, cache, lastCall, score, calls, learnt, knew>>

\* The sleep is over, and the request leaves; the cache is not read again.
Call(q) ==
  /\ pc[q] = "throttle"
  /\ now >= wake
  /\ lastCall' = now
  /\ calls' = calls \cup {[by |-> q, at |-> now]}
  /\ Goto(q, "call")
  /\ UNCHANGED <<deployment, now, cache, lock, wake, score, learnt, knew>>

\* An HTTP error, an answer that is not JSON, or none at all: no score, not cached.
CallFails(q) ==
  /\ pc[q] = "call"
  /\ lock' = Free
  /\ Goto(q, "insert")
  /\ UNCHANGED <<deployment, now, cache, lastCall, wake, score, calls, learnt, knew>>

Answered(q) ==
  /\ pc[q] = "call"
  /\ lock' = Free
  /\ score' = [score EXCEPT ![q] = Reputation[Source[q]]]
  /\ Goto(q, "store")
  /\ UNCHANGED <<deployment, now, cache, lastCall, wake, calls, learnt, knew>>

\* Mutant of Store: INSERT OR IGNORE, which leaves an expired row.
StoreOrIgnore(q) ==
  /\ pc[q] = "store"
  /\ cache' = IF cache[Source[q]].ts # Null THEN cache
              ELSE [cache EXCEPT ![Source[q]] = [score |-> score[q], ts |-> now]]
  /\ learnt' = [learnt EXCEPT ![Source[q]] = now]
  /\ Goto(q, "insert")
  /\ UNCHANGED <<deployment, now, lock, lastCall, wake, score, calls, knew>>

\* _store, outside of the lock.
Store(q) ==
  /\ pc[q] = "store"
  /\ cache' = [cache EXCEPT ![Source[q]] = [score |-> score[q], ts |-> now]]
  /\ learnt' = [learnt EXCEPT ![Source[q]] = now]
  /\ Goto(q, "insert")
  /\ UNCHANGED <<deployment, now, lock, lastCall, wake, score, calls, knew>>

\* SQLite refuses to read or write the cache (disk full, file locked for 5 s): the
\* handler answers 500 and the event is not stored.
CacheFails(q) ==
  /\ q \in Fragile \cap DOMAIN Source /\ Source[q] \in Public
  /\ pc[q] \in {"none", "store"}
  /\ Goto(q, "failed")
  /\ UNCHANGED <<deployment, now, cache, lock, lastCall, wake, score, calls, learnt, knew>>

Tick ==
  /\ now < MaxTime /\ deployment.key
  /\ now' = now + 1
  /\ UNCHANGED <<deployment, cache, lock, lastCall, wake, pc, score, calls, learnt, knew>>

LookupNext(q) ==
  \/ Lookup(q) \/ Acquire(q) \/ Call(q) \/ CallFails(q)
  \/ Answered(q) \/ Store(q) \/ CacheFails(q)

EnrichersTypeOK ==
  /\ deployment \in Deployments
  /\ now \in Nat /\ lastCall \in Nat /\ wake \in Nat
  /\ cache \in [Addresses -> [score : Nat, ts : Nat \cup {Null}]]
  /\ lock \in Requests \cup {Free}
  /\ pc \in [Requests -> {"none", "wait", "throttle", "call", "store", "insert", "label",
                          "answered", "failed"}]
  /\ score \in [Requests -> Nat \cup {Null}]
  /\ calls \subseteq [by : Requests, at : Nat]
  /\ learnt \in [Addresses -> Nat \cup {Null}]
  /\ knew \subseteq Requests

\* Two calls to AbuseIPDB are one second apart at least, whichever threads make
\* them and whatever became of the earlier one (abuseipdb.py:56-60).
CallsAreSpaced ==
  \A c, d \in calls : c # d => c.at - d.at >= 1 \/ d.at - c.at >= 1

\* A lookup that begins less than CACHE_TTL after an answer for its address was
\* stored does not call again, although lookups that began before it may still do,
\* and may store after it (abuseipdb.py:51: the cache is read outside of the lock).
CacheSparesCalls ==
  \A c \in calls : c.by \notin knew
=============================================================================
