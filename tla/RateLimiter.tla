----------------------------- MODULE RateLimiter -----------------------------
(***************************************************************************)
(* The sliding-window limiter of the secured application                   *)
(* (secure_app/ratelimit.py, SlidingWindowLimiter).  FastAPI runs the      *)
(* dependency, a plain function, in a pool of threads: check() reads the   *)
(* clock, then waits for the lock, so that stamps may enter a bucket out   *)
(* of order and with a delay.  Time is counted in ticks, several to the    *)
(* second, because Retry-After is rounded to whole seconds.                *)
(***************************************************************************)
EXTENDS Integers, Sequences, FiniteSets, FiniteSetsExt

CONSTANTS
  Threads,         \* threads of the pool that call check()
  Keys,            \* keys "<name>:<ip>"
  max_requests,
  window_seconds,
  TicksPerSecond,
  MaxClock,        \* bound: last instant of the clock
  MaxResets        \* bound: calls of reset()

ASSUME LimiterAssumption ==
  /\ max_requests \in Nat \ {0}
  /\ window_seconds \in Nat \ {0}
  /\ TicksPerSecond \in Nat \ {0}
  /\ MaxClock \in Nat
  /\ MaxResets \in Nat
  /\ Keys # {}

VARIABLES
  clock,           \* time.monotonic()
  _hits,           \* _hits[k]: the deque of stamps of key k
  pc,              \* pc[t]: "idle", or "called" once check() has read the clock
  key, now,        \* the local variables of check() in thread t
  retry_after,     \* retry_after[t]: last answer, 0 when the hit was allowed
  undisturbed,     \* history: nothing was allowed on key[t] since that answer
  allowed,         \* history: allowed[k], the hits recorded, with stamp and instant
  resets

vars == <<clock, _hits, pc, key, now, retry_after, undisturbed, allowed, resets>>

window == window_seconds * TicksPerSecond

Init ==
  /\ clock = 0
  /\ _hits = [k \in Keys |-> <<>>]
  /\ pc = [t \in Threads |-> "idle"]
  /\ key = [t \in Threads |-> CHOOSE k \in Keys : TRUE]
  /\ now = [t \in Threads |-> 0]
  /\ retry_after = [t \in Threads |-> 0]
  /\ undisturbed = [t \in Threads |-> FALSE]
  /\ allowed = [k \in Keys |-> <<>>]
  /\ resets = 0

Tick ==
  /\ clock < MaxClock
  /\ clock' = clock + 1
  /\ UNCHANGED <<_hits, pc, key, now, retry_after, undisturbed, allowed, resets>>

\* check(k) is called and reads the clock, before it asks for the lock.
Check(t, k) ==
  /\ pc[t] = "idle"
  /\ pc' = [pc EXCEPT ![t] = "called"]
  /\ key' = [key EXCEPT ![t] = k]
  /\ now' = [now EXCEPT ![t] = clock]
  /\ undisturbed' = [undisturbed EXCEPT ![t] = FALSE]
  /\ UNCHANGED <<clock, _hits, retry_after, allowed, resets>>

\* Mutant of Fresh: a hit is forgotten one tick early.
FreshEarly(bucket, at) == {i \in 1 .. Len(bucket) : bucket[i] > at - window + 1}

Fresh(bucket, at) == {i \in 1 .. Len(bucket) : bucket[i] > at - window}

\* The while loop: hits leave at the left until the leftmost one is fresh; a stale
\* one behind it stays.
Purged(bucket, at) ==
  IF Fresh(bucket, at) = {} THEN <<>>
  ELSE SubSeq(bucket, Min(Fresh(bucket, at)), Len(bucket))

\* Mutant of Delay: the delay is truncated, never rounded up.
DelayTruncated(bucket, at) ==
  LET seconds == (window - (at - bucket[1])) \div TicksPerSecond
  IN IF seconds >= 1 THEN seconds ELSE 1

\* int(window - (now - bucket[0])) + 1 seconds, and at least 1.
Delay(bucket, at) ==
  LET seconds == (window - (at - bucket[1])) \div TicksPerSecond + 1
  IN IF seconds >= 1 THEN seconds ELSE 1

\* Mutant of Decide: the hit is recorded before the bucket is found full.
DecideTooLate(t) ==
  LET k == key[t]
      bucket == Purged(_hits[k], now[t]) IN
  /\ pc[t] = "called"
  /\ pc' = [pc EXCEPT ![t] = "idle"]
  /\ IF Len(bucket) > max_requests
     THEN /\ _hits' = [_hits EXCEPT ![k] = bucket]
          /\ retry_after' = [retry_after EXCEPT ![t] = Delay(bucket, now[t])]
          /\ UNCHANGED allowed
     ELSE /\ _hits' = [_hits EXCEPT ![k] = Append(bucket, now[t])]
          /\ retry_after' = [retry_after EXCEPT ![t] = 0]
          /\ allowed' = [allowed EXCEPT ![k] = Append(@, [stamp |-> now[t], at |-> clock])]
  /\ UNCHANGED <<clock, key, now, undisturbed, resets>>

\* The rest of check(), under the lock.
Decide(t) ==
  LET k == key[t]
      bucket == Purged(_hits[k], now[t])
      full == Len(bucket) >= max_requests IN
  /\ pc[t] = "called"
  /\ pc' = [pc EXCEPT ![t] = "idle"]
  /\ \/ /\ full
        /\ _hits' = [_hits EXCEPT ![k] = bucket]
        /\ retry_after' = [retry_after EXCEPT ![t] = Delay(bucket, now[t])]
        /\ undisturbed' = [undisturbed EXCEPT ![t] = TRUE]
        /\ UNCHANGED allowed
     \/ /\ ~full
        /\ _hits' = [_hits EXCEPT ![k] = Append(bucket, now[t])]
        /\ retry_after' = [retry_after EXCEPT ![t] = 0]
        /\ undisturbed' = [u \in Threads |-> undisturbed[u] /\ key[u] # k]
        /\ allowed' = [allowed EXCEPT ![k] = Append(@, [stamp |-> now[t], at |-> clock])]
  /\ UNCHANGED <<clock, key, now, resets>>

\* reset(): the counters are forgotten, and with them the hits they stand for.
Reset ==
  /\ resets < MaxResets
  /\ resets' = resets + 1
  /\ _hits' = [k \in Keys |-> <<>>]
  /\ allowed' = [k \in Keys |-> <<>>]
  /\ UNCHANGED <<clock, pc, key, now, retry_after, undisturbed>>

Next ==
  \/ Tick
  \/ Reset
  \/ \E t \in Threads : Decide(t) \/ \E k \in Keys : Check(t, k)

Spec == Init /\ [][Next]_vars

-----------------------------------------------------------------------------
(* Properties.                                                             *)

Hit == [stamp : Nat, at : Nat]

\* Types of all variables; a bucket never holds more hits than are allowed.
TypeOK ==
  /\ clock \in Nat
  /\ _hits \in [Keys -> Seq(Nat)]
  /\ \A k \in Keys : Len(_hits[k]) <= max_requests
  /\ pc \in [Threads -> {"idle", "called"}]
  /\ key \in [Threads -> Keys]
  /\ now \in [Threads -> Nat]
  /\ retry_after \in [Threads -> Nat]
  /\ undisturbed \in [Threads -> BOOLEAN]
  /\ allowed \in [Keys -> Seq(Hit)]
  /\ resets \in Nat

\* Hits at a distance of max_requests in A are a window apart.
Spaced(A) ==
  \A i, n \in 1 .. Len(A) : n = i + max_requests => A[n].at >= A[i].stamp + window

\* However late and out of order threads get the lock, a hit is allowed at least one
\* window after the stamp of the hit that was allowed max_requests hits earlier: the
\* excess over the documented rate is bounded by the wait for the lock (check()).
AllowedHitsAreSpaced == \A k \in Keys : Spaced(allowed[k])

\* A refused client that waits as long as Retry-After says is allowed, unless another
\* hit was allowed on the key in the meantime (`retry_after`, whole seconds).
RetryAfterIsEnough ==
  \A t \in Threads :
    undisturbed[t] =>
      Len(Purged(_hits[key[t]], now[t] + retry_after[t] * TicksPerSecond)) < max_requests

\* No window of the clock holds more than max_requests stamps of hits allowed on k.
Limited(k) ==
  \A from \in 0 .. clock :
    Cardinality({i \in 1 .. Len(allowed[k]) :
                   allowed[k][i].stamp \in from .. from + window - 1}) <= max_requests

\* The stamps entered the bucket of k in the order of the clock.
InOrder(k) ==
  \A i, n \in 1 .. Len(allowed[k]) :
    i < n => allowed[k][i].stamp <= allowed[k][n].stamp

\* "au plus max_requests par window_seconds et par cle" (SlidingWindowLimiter).
WindowLimit == \A k \in Keys : Limited(k)

\* The documented limit holds on every key whose hits got the lock in the order in
\* which they read the clock: only the wait in between (check()) breaks it.
WindowLimitInOrder == \A k \in Keys : InOrder(k) => Limited(k)
=============================================================================
