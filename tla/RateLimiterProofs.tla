-------------------------- MODULE RateLimiterProofs --------------------------
(* Theorems about RateLimiter, for every number of threads, keys and hits    *)
(* and every window.                                                         *)
EXTENDS RateLimiter, SequenceTheorems, FiniteSetTheorems, WellFoundedInduction, TLAPS

\* A non-empty set of natural numbers has a least element: what Min stands for.
LEMMA MinOfNats ==
  ASSUME NEW S \in SUBSET Nat, S # {}
  PROVE  Min(S) \in S /\ \A y \in S : Min(S) <= y
<1> DEFINE less == OpToRel(<, Nat)
<1>1. IsWellFoundedOn(less, Nat)
  BY NatLessThanWellFounded
<1>2. ASSUME NEW x \in S, NEW y \in S, y < x
      PROVE  <<y, x>> \in less
  <2>1. <<y, x>> \in Nat \X Nat /\ <<y, x>>[1] < <<y, x>>[2]
    BY <1>2
  <2> QED BY <2>1, Zenon DEF OpToRel
<1> HIDE DEF less
<1>3. PICK x \in S : \A y \in S : ~(<<y, x>> \in less)
  BY <1>1, WFMin
<1>4. ASSUME NEW y \in S PROVE x <= y
  <2>1. ~(y < x)
    BY <1>2, <1>3, Zenon
  <2> QED BY <2>1
<1> QED BY <1>4, Zenon DEF Min

\* The window is a number of ticks.
LEMMA WindowType == window \in Nat \ {0}
BY LimiterAssumption DEF window

\* What purging a bucket leaves: its end, after hits that are too old.
LEMMA PurgedProperties ==
  ASSUME NEW b \in Seq(Nat), NEW at \in Nat
  PROVE  \E gone \in 0 .. Len(b) :
           /\ Purged(b, at) = SubSeq(b, gone + 1, Len(b))
           /\ Purged(b, at) \in Seq(Nat)
           /\ Len(Purged(b, at)) = Len(b) - gone
           /\ \A i \in 1 .. Len(b) - gone : Purged(b, at)[i] = b[gone + i]
           /\ \A i \in 1 .. gone : b[i] <= at - window
<1>1. \A gone \in 0 .. Len(b) :
        /\ SubSeq(b, gone + 1, Len(b)) \in Seq(Nat)
        /\ Len(SubSeq(b, gone + 1, Len(b))) = Len(b) - gone
        /\ \A i \in 1 .. Len(b) - gone : SubSeq(b, gone + 1, Len(b))[i] = b[gone + i]
  <2> SUFFICES ASSUME NEW gone \in 0 .. Len(b)
               PROVE  /\ SubSeq(b, gone + 1, Len(b)) \in Seq(Nat)
                      /\ Len(SubSeq(b, gone + 1, Len(b))) = Len(b) - gone
                      /\ \A i \in 1 .. Len(b) - gone :
                           SubSeq(b, gone + 1, Len(b))[i] = b[gone + i]
    OBVIOUS
  <2>1. \A i \in gone + 1 .. Len(b) : b[i] \in Nat
    OBVIOUS
  <2> QED BY <2>1, SubSeqProperties
<1>2. CASE Fresh(b, at) = {}
  <2>1. Purged(b, at) = SubSeq(b, Len(b) + 1, Len(b))
    BY <1>2, SubSeqEmpty DEF Purged
  <2>2. \A i \in 1 .. Len(b) : b[i] <= at - window
    BY <1>2, WindowType DEF Fresh
  <2> QED BY <1>1, <2>1, <2>2
<1>3. CASE Fresh(b, at) # {}
  <2> DEFINE m == Min(Fresh(b, at))
  <2>1. m \in Fresh(b, at) /\ \A y \in Fresh(b, at) : m <= y
    <3>1. Fresh(b, at) \in SUBSET Nat
      BY DEF Fresh
    <3> QED BY <1>3, <3>1, MinOfNats, Zenon
  <2>2. m \in 1 .. Len(b)
    BY <2>1, Zenon DEF Fresh
  <2>3. Purged(b, at) = SubSeq(b, m, Len(b))
    BY <1>3 DEF Purged
  <2> HIDE DEF m
  <2>4. m - 1 \in 0 .. Len(b) /\ m = (m - 1) + 1
    BY <2>2
  <2>5. \A i \in 1 .. m - 1 : b[i] <= at - window
    BY <2>1, <2>2, WindowType DEF Fresh
  <2> DEFINE gone == m - 1
  <2>6. gone \in 0 .. Len(b) /\ Purged(b, at) = SubSeq(b, gone + 1, Len(b))
    BY <2>3, <2>4
  <2>7. \A i \in 1 .. gone : b[i] <= at - window
    BY <2>5
  <2> HIDE DEF gone
  <2> QED BY <1>1, <2>6, <2>7, Zenon
<1> QED BY <1>2, <1>3

\* A delay is a whole number of seconds, at least one.
LEMMA DelayType ==
  ASSUME NEW b \in Seq(Nat), Len(b) > 0, NEW at \in Nat
  PROVE  Delay(b, at) \in Nat \ {0}
<1>1. b[1] \in Nat
  OBVIOUS
<1>2. (window - (at - b[1])) \div TicksPerSecond \in Int
  BY <1>1, WindowType, LimiterAssumption
<1> QED BY <1>2 DEF Delay

\* The types hold initially.
LEMMA InitTypeOK == Init => TypeOK
<1>1. (CHOOSE k \in Keys : TRUE) \in Keys
  BY LimiterAssumption, Zenon
<1> QED BY <1>1, LimiterAssumption DEF Init, TypeOK

\* Every step keeps the types; a full bucket receives no hit.
LEMMA NextTypeOK == TypeOK /\ [Next]_vars => TypeOK'
<1> SUFFICES ASSUME TypeOK, [Next]_vars PROVE TypeOK'
  OBVIOUS
<1> USE DEF TypeOK
<1>1. CASE Tick
  BY <1>1 DEF Tick
<1>2. CASE Reset
  BY <1>2, LimiterAssumption DEF Reset
<1>3. ASSUME NEW t \in Threads, NEW k \in Keys, Check(t, k) PROVE TypeOK'
  BY <1>3 DEF Check
<1>4. ASSUME NEW t \in Threads, Decide(t) PROVE TypeOK'
  <2> DEFINE bucket == Purged(_hits[key[t]], now[t])
  <2>1. bucket \in Seq(Nat) /\ Len(bucket) <= max_requests
    <3>1. _hits[key[t]] \in Seq(Nat) /\ now[t] \in Nat /\ Len(_hits[key[t]]) <= max_requests
      OBVIOUS
    <3>2. PICK gone \in 0 .. Len(_hits[key[t]]) :
            bucket \in Seq(Nat) /\ Len(bucket) = Len(_hits[key[t]]) - gone
      BY <3>1, PurgedProperties
    <3> HIDE DEF bucket
    <3> QED BY <3>1, <3>2, LimiterAssumption
  <2> HIDE DEF bucket
  <2>2. CASE Len(bucket) >= max_requests
    <3>1. Delay(bucket, now[t]) \in Nat
      <4>1. now[t] \in Nat /\ Len(bucket) > 0
        BY <2>1, <2>2, LimiterAssumption
      <4> QED BY <2>1, <4>1, DelayType
    <3>2. /\ _hits' = [_hits EXCEPT ![key[t]] = bucket]
          /\ retry_after' = [retry_after EXCEPT ![t] = Delay(bucket, now[t])]
          /\ undisturbed' = [undisturbed EXCEPT ![t] = TRUE]
          /\ UNCHANGED <<allowed, clock, key, now, resets>>
      BY <1>4, <2>2 DEF Decide, bucket
    <3>3. pc' = [pc EXCEPT ![t] = "idle"]
      BY <1>4 DEF Decide
    <3>4. undisturbed' \in [Threads -> BOOLEAN]
      BY <3>2, Zenon
    <3> QED BY <2>1, <3>1, <3>2, <3>3, <3>4
  <2>3. CASE ~(Len(bucket) >= max_requests)
    <3>1. /\ _hits' = [_hits EXCEPT ![key[t]] = Append(bucket, now[t])]
          /\ retry_after' = [retry_after EXCEPT ![t] = 0]
          /\ undisturbed' = [u \in Threads |-> undisturbed[u] /\ key[u] # key[t]]
          /\ allowed' = [allowed EXCEPT ![key[t]] =
                           Append(@, [stamp |-> now[t], at |-> clock])]
          /\ UNCHANGED <<clock, key, now, resets>>
      BY <1>4, <2>3 DEF Decide, bucket
    <3>2. pc' = [pc EXCEPT ![t] = "idle"]
      BY <1>4 DEF Decide
    <3>3. undisturbed' \in [Threads -> BOOLEAN]
      BY <3>1, Zenon
    <3>4. Append(bucket, now[t]) \in Seq(Nat) /\ Len(Append(bucket, now[t])) <= max_requests
      BY <2>1, <2>3, LimiterAssumption
    <3>5. [stamp |-> now[t], at |-> clock] \in Hit
      BY DEF Hit
    <3>6. allowed' \in [Keys -> Seq(Hit)]
      BY <3>1, <3>5
    <3> QED BY <3>1, <3>2, <3>3, <3>4, <3>6
  <2> QED BY <2>2, <2>3
<1>5. CASE UNCHANGED vars
  BY <1>5 DEF vars
<1> QED BY <1>1, <1>2, <1>3, <1>4, <1>5 DEF Next

\* The types of RateLimiter hold in every reachable state; in particular no bucket
\* outgrows max_requests, which bounds the memory of a key.
THEOREM LimiterTypeCorrect == Spec => []TypeOK
BY InitTypeOK, NextTypeOK, PTL DEF Spec

-----------------------------------------------------------------------------
(* Spacing of the hits that are allowed.                                     *)

\* The two times of a hit are times.
LEMMA HitTypes ==
  ASSUME NEW A \in Seq(Hit), NEW i \in 1 .. Len(A)
  PROVE  A[i].stamp \in Nat /\ A[i].at \in Nat
<1>1. A[i] \in Hit
  BY ElementOfSeq
<1> QED BY <1>1 DEF Hit

\* H holds the stamps of the last hits of A; the others are a window old at instant c.
EndOf(H, A, c) ==
  /\ Len(H) <= Len(A)
  /\ \A i \in 1 .. Len(H) : H[i] = A[Len(A) - Len(H) + i].stamp
  /\ \A i \in 1 .. Len(A) - Len(H) : A[i].stamp + window <= c

\* The inductive strengthening of AllowedHitsAreSpaced: the bucket of a key holds the
\* stamps of the last hits allowed on it, and those that left it were a window old by
\* a clock that some thread had read before.
SpacingInv ==
  /\ \A t \in Threads : now[t] <= clock
  /\ \A k \in Keys : EndOf(_hits[k], allowed[k], clock) /\ Spaced(allowed[k])

\* SpacingInv holds initially: no hit.
LEMMA InitSpacingInv == Init => SpacingInv
BY DEF Init, SpacingInv, Spaced, EndOf

\* Purging a bucket keeps it the end of the hits allowed: what left is a window old.
LEMMA PurgedIsSuffix ==
  ASSUME TypeOK, SpacingInv, NEW t \in Threads, NEW k \in Keys
  PROVE  /\ Purged(_hits[k], now[t]) \in Seq(Nat)
         /\ EndOf(Purged(_hits[k], now[t]), allowed[k], clock)
<1> DEFINE bucket == Purged(_hits[k], now[t])
           H == _hits[k]
           A == allowed[k]
<1>1. H \in Seq(Nat) /\ A \in Seq(Hit) /\ now[t] \in Nat /\ clock \in Nat
      /\ now[t] <= clock /\ window \in Nat
  BY WindowType DEF TypeOK, SpacingInv
<1>2. /\ Len(H) <= Len(A)
      /\ \A i \in 1 .. Len(H) : H[i] = A[Len(A) - Len(H) + i].stamp
      /\ \A i \in 1 .. Len(A) - Len(H) : A[i].stamp + window <= clock
  BY DEF SpacingInv, EndOf
<1>3. PICK gone \in 0 .. Len(H) :
        /\ bucket \in Seq(Nat)
        /\ Len(bucket) = Len(H) - gone
        /\ \A i \in 1 .. Len(H) - gone : bucket[i] = H[gone + i]
        /\ \A i \in 1 .. gone : H[i] <= now[t] - window
  BY <1>1, PurgedProperties
<1> HIDE DEF bucket, H, A
<1>3a. /\ Len(A) \in Nat /\ Len(H) \in Nat /\ Len(H) <= Len(A)
       /\ gone \in Nat /\ gone <= Len(H) /\ Len(bucket) = Len(H) - gone
  BY <1>1, <1>2, <1>3
<1>4. Len(bucket) <= Len(A)
  BY <1>3a
<1>5. ASSUME NEW i \in 1 .. Len(bucket)
      PROVE  bucket[i] = A[Len(A) - Len(bucket) + i].stamp
  <2>1. i \in 1 .. Len(H) - gone /\ gone + i \in 1 .. Len(H)
        /\ Len(A) - Len(bucket) + i = Len(A) - Len(H) + (gone + i)
    BY <1>1, <1>3
  <2> QED BY <1>2, <1>3, <2>1
<1>6. ASSUME NEW i \in 1 .. Len(A) - Len(bucket)
      PROVE  A[i].stamp + window <= clock
  <2>1. CASE i <= Len(A) - Len(H)
    BY <1>1, <1>2, <2>1
  <2>2. CASE i > Len(A) - Len(H)
    <3> DEFINE j == i - (Len(A) - Len(H))
    <3>1. j \in 1 .. gone /\ j \in 1 .. Len(H) /\ Len(A) - Len(H) + j = i
      BY <1>3a, <2>2
    <3>2. H[j] = A[i].stamp /\ H[j] <= now[t] - window /\ H[j] \in Nat
      <4> HIDE DEF j
      <4>1. H[j] = A[i].stamp
        BY <1>2, <3>1
      <4>2. H[j] <= now[t] - window
        BY <1>3, <3>1
      <4>3. H[j] \in Nat
        BY <1>1, <3>1
      <4> QED BY <4>1, <4>2, <4>3, Zenon
    <3>3. A[i].stamp \in Nat /\ A[i].stamp <= now[t] - window
      BY <3>2
    <3> QED BY <1>1, <3>3
  <2> QED BY <1>1, <2>1, <2>2
<1>7. bucket \in Seq(Nat) /\ EndOf(bucket, A, clock)
  BY <1>3, <1>4, <1>5, <1>6 DEF EndOf
<1> QED BY <1>7 DEF bucket, A

\* A hit that is allowed finds fewer than max_requests in the bucket H, so the one
\* max_requests before it in A has left the bucket, a window old.
LEMMA AllowedHit ==
  ASSUME NEW H \in Seq(Nat), NEW A \in Seq(Hit), NEW c \in Nat, NEW s \in Nat,
         EndOf(H, A, c), Spaced(A), Len(H) < max_requests
  PROVE  /\ EndOf(Append(H, s), Append(A, [stamp |-> s, at |-> c]), c)
         /\ Spaced(Append(A, [stamp |-> s, at |-> c]))
<1> DEFINE hit == [stamp |-> s, at |-> c]
           H1 == Append(H, s)
           A1 == Append(A, hit)
<1>1. hit \in Hit /\ hit.stamp = s /\ hit.at = c
  BY DEF Hit
<1> HIDE DEF hit
<1>2. Len(H1) = Len(H) + 1 /\ Len(A1) = Len(A) + 1
  OBVIOUS
<1>3. /\ \A i \in 1 .. Len(A) : A1[i] = A[i]
      /\ \A i \in 1 .. Len(H) : H1[i] = H[i]
      /\ A1[Len(A) + 1] = hit /\ H1[Len(H) + 1] = s
  BY <1>1
<1> HIDE DEF H1, A1
<1>4. /\ Len(H) \in Nat /\ Len(A) \in Nat /\ Len(H) <= Len(A)
      /\ \A i \in 1 .. Len(H) : H[i] = A[Len(A) - Len(H) + i].stamp
      /\ \A i \in 1 .. Len(A) - Len(H) : A[i].stamp + window <= c
  BY DEF EndOf
<1>5. ASSUME NEW i \in 1 .. Len(H1)
      PROVE  H1[i] = A1[Len(A1) - Len(H1) + i].stamp
  <2>0. Len(A1) - Len(H1) = Len(A) - Len(H)
    BY <1>2, <1>4
  <2>1. CASE i = Len(H) + 1
    <3>1. Len(A) - Len(H) + i = Len(A) + 1
      BY <1>4, <2>1
    <3> QED BY <1>1, <1>3, <2>0, <2>1, <3>1
  <2>2. CASE i # Len(H) + 1
    <3>1. i \in 1 .. Len(H) /\ Len(A) - Len(H) + i \in 1 .. Len(A)
      BY <1>2, <1>4, <2>2
    <3> QED BY <1>3, <1>4, <2>0, <3>1
  <2> QED BY <2>1, <2>2
<1>6. ASSUME NEW i \in 1 .. Len(A1) - Len(H1) PROVE A1[i].stamp + window <= c
  <2>1. i \in 1 .. Len(A) - Len(H) /\ i \in 1 .. Len(A)
    BY <1>2, <1>4
  <2>2. A1[i] = A[i] /\ A[i].stamp + window <= c
    BY <1>3, <1>4, <2>1
  <2> QED BY <2>2
<1>7. ASSUME NEW i \in 1 .. Len(A1), NEW n \in 1 .. Len(A1), n = i + max_requests
      PROVE  A1[n].at >= A1[i].stamp + window
  <2>1. CASE n = Len(A) + 1
    <3>1. i \in 1 .. Len(A) - Len(H) /\ i \in 1 .. Len(A)
      BY <1>2, <1>4, <1>7, <2>1, LimiterAssumption
    <3>2. A1[i] = A[i] /\ A[i].stamp + window <= c /\ A[i].stamp \in Nat
      BY <1>3, <1>4, <3>1, HitTypes
    <3>3. A1[n].at = c
      BY <1>1, <1>3, <2>1
    <3> QED BY <3>2, <3>3, WindowType
  <2>2. CASE n # Len(A) + 1
    <3>0. n \in 1 .. Len(A)
      BY <1>2, <1>4, <2>2
    <3>1. n \in 1 .. Len(A) /\ i \in 1 .. Len(A)
      <4>1. i \in Int /\ 1 <= i /\ i <= n
        BY <1>7, LimiterAssumption
      <4> QED BY <1>4, <3>0, <4>1
    <3>2. A1[n] = A[n] /\ A1[i] = A[i]
      BY <1>3, <3>1
    <3> QED BY <1>7, <3>1, <3>2 DEF Spaced
  <2> QED BY <2>1, <2>2
<1>8. Len(H1) <= Len(A1)
  BY <1>2, <1>4
<1>9. EndOf(H1, A1, c)
  BY <1>5, <1>6, <1>8 DEF EndOf
<1>10. Spaced(A1)
  BY <1>7 DEF Spaced
<1> QED BY <1>9, <1>10 DEF H1, A1, hit

\* As time passes, what is a window old stays so.
LEMMA EndOfLater ==
  ASSUME NEW H \in Seq(Nat), NEW A \in Seq(Hit), NEW c \in Nat, EndOf(H, A, c)
  PROVE  EndOf(H, A, c + 1)
<1>1. ASSUME NEW i \in 1 .. Len(A) - Len(H) PROVE A[i].stamp + window <= c + 1
  <2>1. i \in 1 .. Len(A)
    OBVIOUS
  <2>2. A[i].stamp \in Nat /\ A[i].stamp + window <= c
    BY <2>1, HitTypes DEF EndOf
  <2> QED BY <2>2, WindowType
<1> QED BY <1>1 DEF EndOf

\* Every step keeps SpacingInv.
LEMMA NextSpacingInv == TypeOK /\ SpacingInv /\ [Next]_vars => SpacingInv'
<1> SUFFICES ASSUME TypeOK, SpacingInv, [Next]_vars PROVE SpacingInv'
  OBVIOUS
<1>0. \A k \in Keys : _hits[k] \in Seq(Nat) /\ allowed[k] \in Seq(Hit) /\ clock \in Nat
  BY DEF TypeOK
<1>1. CASE Tick
  <2>1. clock' = clock + 1 /\ UNCHANGED <<now, _hits, allowed>>
    BY <1>1 DEF Tick
  <2>2. \A k \in Keys : EndOf(_hits[k], allowed[k], clock')
    BY <1>0, <2>1, EndOfLater DEF SpacingInv
  <2>3. \A t \in Threads : now'[t] <= clock'
    BY <2>1 DEF SpacingInv, TypeOK
  <2> QED BY <2>1, <2>2, <2>3 DEF SpacingInv
<1>2. CASE Reset
  <2>1. UNCHANGED <<clock, now>> /\ \A k \in Keys : _hits'[k] = <<>> /\ allowed'[k] = <<>>
    BY <1>2 DEF Reset
  <2>2. EndOf(<<>>, <<>>, clock) /\ Spaced(<<>>)
    BY DEF EndOf, Spaced
  <2> QED BY <2>1, <2>2 DEF SpacingInv
<1>3. ASSUME NEW t \in Threads, NEW k \in Keys, Check(t, k) PROVE SpacingInv'
  BY <1>3 DEF Check, SpacingInv, TypeOK
<1>4. ASSUME NEW t \in Threads, Decide(t) PROVE SpacingInv'
  <2> DEFINE k == key[t]
             bucket == Purged(_hits[k], now[t])
             hit == [stamp |-> now[t], at |-> clock]
  <2>1. k \in Keys /\ now[t] \in Nat /\ UNCHANGED <<clock, now>>
    BY <1>4 DEF Decide, TypeOK
  <2>2. bucket \in Seq(Nat) /\ EndOf(bucket, allowed[k], clock)
    BY <2>1, PurgedIsSuffix
  <2>3. \/ /\ _hits' = [_hits EXCEPT ![k] = bucket]
           /\ allowed' = allowed
        \/ /\ ~(Len(bucket) >= max_requests)
           /\ _hits' = [_hits EXCEPT ![k] = Append(bucket, now[t])]
           /\ allowed' = [allowed EXCEPT ![k] = Append(allowed[k], hit)]
    BY <1>4 DEF Decide
  <2> HIDE DEF bucket
  <2>4. EndOf(_hits'[k], allowed'[k], clock) /\ Spaced(allowed'[k])
    <3>1. CASE _hits'[k] = bucket /\ allowed'[k] = allowed[k]
      BY <2>1, <2>2, <3>1 DEF SpacingInv
    <3>2. CASE /\ ~(Len(bucket) >= max_requests) /\ _hits'[k] = Append(bucket, now[t])
               /\ allowed'[k] = Append(allowed[k], hit)
      <4>1. Len(bucket) < max_requests
        BY <2>2, <3>2, LimiterAssumption
      <4>2. Spaced(allowed[k]) /\ allowed[k] \in Seq(Hit) /\ clock \in Nat
        BY <1>0, <2>1 DEF SpacingInv
      <4> QED BY <2>1, <2>2, <3>2, <4>1, <4>2, AllowedHit
    <3> QED BY <2>1, <2>3, <3>1, <3>2 DEF TypeOK
  <2>5. \A j \in Keys \ {k} : _hits'[j] = _hits[j] /\ allowed'[j] = allowed[j]
    BY <2>1, <2>3 DEF TypeOK
  <2> HIDE DEF k
  <2>6. ASSUME NEW j \in Keys PROVE EndOf(_hits'[j], allowed'[j], clock) /\ Spaced(allowed'[j])
    BY <2>4, <2>5 DEF SpacingInv
  <2> QED BY <2>1, <2>6 DEF SpacingInv
<1>5. CASE UNCHANGED vars
  BY <1>5 DEF vars, SpacingInv
<1> QED BY <1>1, <1>2, <1>3, <1>4, <1>5 DEF Next

\* AllowedHitsAreSpaced (a property of the run ratelimit): whatever the number of
\* threads and their delays, hit i + max_requests is allowed a window after stamp i.
THEOREM SpacedHits == Spec => []AllowedHitsAreSpaced
<1>1. SpacingInv => AllowedHitsAreSpaced
  BY DEF SpacingInv, AllowedHitsAreSpaced
<1> QED BY <1>1, LimiterTypeCorrect, InitSpacingInv, NextSpacingInv, PTL DEF Spec

-----------------------------------------------------------------------------
(* The delay a refused client is told.                                       *)

\* Rounding up: the next multiple of d is past x.
LEMMA NextMultiple ==
  ASSUME NEW x \in Int, NEW d \in Nat \ {0}
  PROVE  /\ x \div d \in Int
         /\ x < (x \div d + 1) * d
         /\ x > 0 => x \div d >= 0
OBVIOUS

\* A client is refused when its bucket is full and its oldest hit fresh; then purging
\* has removed nothing.
LEMMA FullBucket ==
  ASSUME NEW b \in Seq(Nat), Len(b) <= max_requests, NEW at \in Nat,
         Len(Purged(b, at)) >= max_requests
  PROVE  /\ Purged(b, at) = b
         /\ Len(b) = max_requests
         /\ b[1] \in Nat /\ b[1] > at - window
<1>1. PICK gone \in 0 .. Len(b) :
        /\ Purged(b, at) \in Seq(Nat)
        /\ Len(Purged(b, at)) = Len(b) - gone
        /\ \A i \in 1 .. Len(b) - gone : Purged(b, at)[i] = b[gone + i]
  BY PurgedProperties
<1>2. gone = 0 /\ Len(b) = max_requests /\ Len(b) > 0
  BY <1>1, LimiterAssumption
<1>3. Purged(b, at) = b
  <2>1. Len(Purged(b, at)) = Len(b)
    BY <1>1, <1>2
  <2>2. \A i \in 1 .. Len(b) : Purged(b, at)[i] = b[i]
    BY <1>1, <1>2
  <2> QED BY <1>1, <2>1, <2>2, SeqEqual
<1>4. b[1] \in Nat
  BY <1>2
<1>5. b[1] > at - window
  <2> DEFINE m == Min(Fresh(b, at))
  <2>1. Fresh(b, at) # {}
    <3>1. ASSUME Fresh(b, at) = {} PROVE FALSE
      <4>1. Purged(b, at) = <<>>
        BY <3>1 DEF Purged
      <4> QED BY <1>2, <1>3, <4>1
    <3> QED BY <3>1
  <2>2. m \in Fresh(b, at)
    <3>1. Fresh(b, at) \in SUBSET Nat
      BY DEF Fresh
    <3> QED BY <2>1, <3>1, MinOfNats, Zenon
  <2>3. b = SubSeq(b, m, Len(b))
    BY <1>3, <2>1 DEF Purged
  <2> HIDE DEF m
  <2>4. m \in 1 .. Len(b) /\ b[m] > at - window
    BY <2>2 DEF Fresh
  <2>5. Len(SubSeq(b, m, Len(b))) = Len(b) - m + 1
    BY <2>4, SubSeqProperties
  <2>6. m = 1
    BY <2>3, <2>4, <2>5
  <2> QED BY <2>4, <2>6
<1> QED BY <1>2, <1>3, <1>4, <1>5

\* A bucket whose oldest hit is stale leaves room.
LEMMA RoomAfter ==
  ASSUME NEW b \in Seq(Nat), Len(b) <= max_requests, NEW at \in Nat,
         Len(b) = 0 \/ b[1] <= at - window
  PROVE  Len(Purged(b, at)) < max_requests
<1>1. ASSUME Len(Purged(b, at)) >= max_requests PROVE FALSE
  <2>1. Len(b) = max_requests /\ b[1] \in Nat /\ b[1] > at - window
    BY <1>1, FullBucket
  <2>2. b[1] <= at - window
    BY <2>1, LimiterAssumption
  <2> QED BY <2>1, <2>2, WindowType
<1>2. Len(Purged(b, at)) \in Nat
  <2>1. PICK gone \in 0 .. Len(b) : Len(Purged(b, at)) = Len(b) - gone
    BY PurgedProperties
  <2> QED BY <2>1
<1> QED BY <1>1, <1>2, LimiterAssumption

\* After the delay that is told, the oldest hit is stale.
LEMMA DelayIsEnough ==
  ASSUME NEW b \in Seq(Nat), b[1] \in Nat, NEW at \in Nat, b[1] > at - window
  PROVE  /\ Delay(b, at) \in Nat /\ at + Delay(b, at) * TicksPerSecond \in Nat
         /\ b[1] <= (at + Delay(b, at) * TicksPerSecond) - window
<1> DEFINE x == window - (at - b[1])
           seconds == x \div TicksPerSecond + 1
<1>1. x \in Int /\ x > 0 /\ window \in Nat
  BY WindowType
<1>2. TicksPerSecond \in Nat \ {0}
  BY LimiterAssumption
<1>3. Delay(b, at) = IF seconds >= 1 THEN seconds ELSE 1
  BY DEF Delay
<1> DEFINE wait == seconds * TicksPerSecond
<1>4. seconds \in Int /\ seconds >= 1 /\ x < wait
  <2> HIDE DEF x
  <2> QED BY <1>1, <1>2, NextMultiple
<1> HIDE DEF seconds
<1>5. Delay(b, at) = seconds /\ seconds \in Nat
  BY <1>3, <1>4
<1>6. wait \in Nat
  BY <1>2, <1>5
<1>7. wait = Delay(b, at) * TicksPerSecond
  BY <1>5
<1> HIDE DEF wait
<1>8. at + wait \in Nat /\ b[1] <= (at + wait) - window
  BY <1>1, <1>4, <1>6
<1> QED BY <1>5, <1>7, <1>8

\* The two outcomes of Decide.  A refusal leaves the buckets as they are.
LEMMA Decisions ==
  ASSUME TypeOK, NEW t \in Threads, Decide(t)
  PROVE  LET k == key[t]
             bucket == Purged(_hits[k], now[t])
         IN /\ UNCHANGED <<clock, key, now, resets>>
            /\ \/ /\ Len(bucket) >= max_requests
                  /\ _hits' = _hits /\ allowed' = allowed
                  /\ retry_after' = [retry_after EXCEPT ![t] = Delay(_hits[k], now[t])]
                  /\ undisturbed' = [undisturbed EXCEPT ![t] = TRUE]
                  /\ _hits[k][1] \in Nat /\ _hits[k][1] > now[t] - window
               \/ /\ Len(bucket) < max_requests
                  /\ _hits' = [_hits EXCEPT ![k] = Append(bucket, now[t])]
                  /\ retry_after' = [retry_after EXCEPT ![t] = 0]
                  /\ undisturbed' = [u \in Threads |-> undisturbed[u] /\ key[u] # k]
                  /\ allowed' = [allowed EXCEPT ![k] =
                                   Append(allowed[k], [stamp |-> now[t], at |-> clock])]
<1> DEFINE k == key[t]
           b == _hits[k]
           bucket == Purged(b, now[t])
<1>1. k \in Keys /\ b \in Seq(Nat) /\ Len(b) <= max_requests /\ now[t] \in Nat
  BY DEF TypeOK
<1>2. UNCHANGED <<clock, key, now, resets>>
  BY DEF Decide
<1>3. \/ /\ Len(bucket) >= max_requests
         /\ _hits' = [_hits EXCEPT ![k] = bucket]
         /\ retry_after' = [retry_after EXCEPT ![t] = Delay(bucket, now[t])]
         /\ undisturbed' = [undisturbed EXCEPT ![t] = TRUE]
         /\ allowed' = allowed
      \/ /\ ~(Len(bucket) >= max_requests)
         /\ _hits' = [_hits EXCEPT ![k] = Append(bucket, now[t])]
         /\ retry_after' = [retry_after EXCEPT ![t] = 0]
         /\ undisturbed' = [u \in Threads |-> undisturbed[u] /\ key[u] # k]
         /\ allowed' = [allowed EXCEPT ![k] =
                          Append(allowed[k], [stamp |-> now[t], at |-> clock])]
  BY Zenon DEF Decide
<1>4. Len(bucket) \in Nat
  <2>1. PICK gone \in 0 .. Len(b) : Len(bucket) = Len(b) - gone
    BY <1>1, PurgedProperties
  <2> QED BY <2>1
<1>5. ASSUME Len(bucket) >= max_requests
      PROVE  /\ bucket = b /\ [_hits EXCEPT ![k] = bucket] = _hits
             /\ b[1] \in Nat /\ b[1] > now[t] - window
  <2>1. bucket = b /\ b[1] \in Nat /\ b[1] > now[t] - window
    BY <1>1, <1>5, FullBucket
  <2> HIDE DEF bucket
  <2>2. [_hits EXCEPT ![k] = bucket] = _hits
    BY <1>1, <2>1 DEF TypeOK
  <2> QED BY <2>1, <2>2
<1>6. ~(Len(bucket) >= max_requests) => Len(bucket) < max_requests
  BY <1>4, LimiterAssumption
<1> QED BY <1>2, <1>3, <1>5, <1>6, Zenon

\* What RetryAfterIsEnough says of thread t.
Told(t) ==
  undisturbed[t] =>
    Len(Purged(_hits[key[t]], now[t] + retry_after[t] * TicksPerSecond)) < max_requests

\* What an unchanged bucket keeps.
LEMMA ToldKept ==
  ASSUME NEW t \in Threads, Told(t), undisturbed'[t] => undisturbed[t],
         key'[t] = key[t], _hits'[key[t]] = _hits[key[t]],
         now'[t] = now[t], retry_after'[t] = retry_after[t]
  PROVE  Told(t)'
BY Zenon DEF Told

\* An emptied bucket leaves room at once.
LEMMA RoomAtOnce ==
  ASSUME NEW from \in Nat, NEW seconds \in Nat
  PROVE  Len(Purged(<<>>, from + seconds * TicksPerSecond)) < max_requests
<1> DEFINE at == from + seconds * TicksPerSecond
<1>1. at \in Nat
  <2>1. seconds * TicksPerSecond \in Nat
    BY LimiterAssumption
  <2> QED BY <2>1
<1> HIDE DEF at
<1>2. <<>> \in Seq(Nat) /\ Len(<<>>) = 0 /\ Len(<<>>) <= max_requests
  BY LimiterAssumption
<1>3. Len(Purged(<<>>, at)) < max_requests
  BY <1>1, <1>2, RoomAfter
<1> QED BY <1>3 DEF at

\* Every step keeps RetryAfterIsEnough: a refusal leaves every bucket as it was and
\* tells the time its oldest hit needs; a hit that is allowed disturbs those who wait
\* on the same key.
LEMMA NextTold == TypeOK /\ RetryAfterIsEnough /\ [Next]_vars => RetryAfterIsEnough'
<1> SUFFICES ASSUME TypeOK, RetryAfterIsEnough, [Next]_vars, NEW t \in Threads
             PROVE  Told(t)'
  BY DEF RetryAfterIsEnough, Told
<1>0. Told(t)
  BY DEF RetryAfterIsEnough, Told
<1>0a. /\ key[t] \in Keys /\ now[t] \in Nat /\ retry_after[t] \in Nat
       /\ _hits[key[t]] \in Seq(Nat) /\ Len(_hits[key[t]]) <= max_requests
  BY DEF TypeOK
<1>same. ASSUME UNCHANGED <<_hits, key, now, retry_after, undisturbed>> PROVE Told(t)'
  <2>1. /\ undisturbed' = undisturbed /\ key' = key /\ _hits' = _hits
        /\ now' = now /\ retry_after' = retry_after
    BY <1>same
  <2> QED BY <1>0, <2>1, ToldKept
<1>1. CASE Tick
  BY <1>1, <1>same DEF Tick
<1>2. CASE Reset
  <2>1. _hits' = [k \in Keys |-> <<>>] /\ UNCHANGED <<key, now, retry_after>>
    BY <1>2 DEF Reset
  <2>2. _hits'[key'[t]] = <<>> /\ now'[t] \in Nat /\ retry_after'[t] \in Nat
    BY <2>1, <1>0a
  <2> QED BY <2>2, RoomAtOnce, Zenon DEF Told
<1>3. ASSUME NEW u \in Threads, NEW k \in Keys, Check(u, k) PROVE Told(t)'
  <2>1. /\ key' = [key EXCEPT ![u] = k]
        /\ now' = [now EXCEPT ![u] = clock]
        /\ undisturbed' = [undisturbed EXCEPT ![u] = FALSE]
        /\ _hits' = _hits /\ retry_after' = retry_after
    BY <1>3 DEF Check
  <2>2. CASE u = t
    <3>1. undisturbed'[t] = FALSE
      BY <2>1, <2>2 DEF TypeOK
    <3> QED BY <3>1, Zenon DEF Told
  <2>3. CASE u # t
    <3>1. key'[t] = key[t] /\ now'[t] = now[t] /\ undisturbed'[t] = undisturbed[t]
      BY <2>1, <2>3 DEF TypeOK
    <3> QED BY <2>1, <3>1, <1>0, ToldKept
  <2> QED BY <2>2, <2>3
<1>4. ASSUME NEW u \in Threads, Decide(u) PROVE Told(t)'
  <2> DEFINE k == key[u]
             bucket == Purged(_hits[k], now[u])
  <2>1. UNCHANGED <<key, now>>
    BY <1>4, Decisions
  <2>2. CASE /\ _hits' = _hits
             /\ retry_after' = [retry_after EXCEPT ![u] = Delay(_hits[k], now[u])]
             /\ undisturbed' = [undisturbed EXCEPT ![u] = TRUE]
             /\ _hits[k][1] \in Nat /\ _hits[k][1] > now[u] - window
    <3>1. CASE u = t
      <4> DEFINE b == _hits[key[t]]
                 d == Delay(b, now[t])
                 at == now[t] + d * TicksPerSecond
      <4>1. b \in Seq(Nat) /\ Len(b) <= max_requests /\ b[1] \in Nat /\ b[1] > now[t] - window
        BY <1>0a, <2>2, <3>1
      <4>2. d \in Nat /\ at \in Nat /\ b[1] <= at - window
        <5> HIDE DEF b
        <5> QED BY <1>0a, <4>1, DelayIsEnough, Zenon
      <4>3. retry_after'[t] = d
        <5> HIDE DEF d
        <5>1. retry_after' = [retry_after EXCEPT ![t] = d]
          BY <2>2, <3>1 DEF d
        <5> QED BY <5>1 DEF TypeOK
      <4>4. Len(Purged(b, at)) < max_requests
        <5> HIDE DEF b, at
        <5> QED BY <4>1, <4>2, RoomAfter
      <4>5. _hits'[key'[t]] = b /\ now'[t] = now[t]
        BY <2>1, <2>2
      <4> HIDE DEF b, d
      <4> QED BY <4>3, <4>4, <4>5, Zenon DEF Told
    <3>2. CASE u # t
      <4>1. undisturbed'[t] = undisturbed[t] /\ retry_after'[t] = retry_after[t]
        BY <2>2, <3>2 DEF TypeOK
      <4> QED BY <2>1, <2>2, <4>1, <1>0, ToldKept
    <3> QED BY <3>1, <3>2
  <2>3. CASE /\ _hits' = [_hits EXCEPT ![k] = Append(bucket, now[u])]
             /\ retry_after' = [retry_after EXCEPT ![u] = 0]
             /\ undisturbed' = [v \in Threads |-> undisturbed[v] /\ key[v] # k]
    <3>1. undisturbed'[t] <=> undisturbed[t] /\ key[t] # k
      BY <2>3, Zenon
    <3>2. CASE key[t] = k
      BY <3>1, <3>2, Zenon DEF Told
    <3>3. CASE key[t] # k
      <4>1. u # t
        BY <3>3
      <4>2. retry_after'[t] = retry_after[t]
        BY <2>3, <4>1 DEF TypeOK
      <4>3. _hits'[key[t]] = _hits[key[t]]
        <5> HIDE DEF bucket, k
        <5> QED BY <1>0a, <2>3, <3>3 DEF TypeOK
      <4>4. undisturbed'[t] => undisturbed[t]
        BY <3>1, Zenon
      <4>5. key'[t] = key[t] /\ now'[t] = now[t]
        BY <2>1
      <4> HIDE DEF k
      <4> QED BY <4>2, <4>3, <4>4, <4>5, <1>0, ToldKept, Zenon
    <3> QED BY <3>2, <3>3
  <2> QED BY <1>4, <2>2, <2>3, Decisions, Zenon
<1>5. CASE UNCHANGED vars
  BY <1>5, <1>same DEF vars
<1> QED BY <1>1, <1>2, <1>3, <1>4, <1>5 DEF Next

\* RetryAfterIsEnough (a property of the run ratelimit): whatever the threads, limit,
\* window and clock, a client that waits as long as it was told finds room.
THEOREM RetryAfterHonest == Spec => []RetryAfterIsEnough
<1>1. Init => RetryAfterIsEnough
  BY DEF Init, RetryAfterIsEnough
<1> QED BY <1>1, LimiterTypeCorrect, NextTold, PTL DEF Spec

-----------------------------------------------------------------------------
(* The documented limit, when the hits enter in the order of the clock.      *)

\* The stamps of A do not decrease.
Ordered(A) == \A i, n \in 1 .. Len(A) : i < n => A[i].stamp <= A[n].stamp

\* In A, the stamps of hits at a distance of max_requests are a window apart.
Spread(A) ==
  \A i, n \in 1 .. Len(A) : n = i + max_requests => A[n].stamp >= A[i].stamp + window

\* The hits of A that left the bucket H are a window older than the last one of A,
\* unless H is full: a thread that is refused may have read a later time than any of A.
Left(H, A) ==
  \/ Len(H) = max_requests
  \/ \A i \in 1 .. Len(A) - Len(H) : A[i].stamp + window <= A[Len(A)].stamp

\* The inductive strengthening of WindowLimitInOrder.
OrderInv ==
  \A k \in Keys :
    Ordered(allowed[k]) => Left(_hits[k], allowed[k]) /\ Spread(allowed[k])

\* OrderInv holds initially: no hit.
LEMMA InitOrderInv == Init => OrderInv
BY DEF Init, OrderInv, Left, Spread

\* A hit that is allowed in order, the bucket being purged to `bucket`: what has left
\* the bucket is a window older than the new hit.
LEMMA HitInOrder ==
  ASSUME NEW H \in Seq(Nat), NEW A \in Seq(Hit), NEW c \in Nat, NEW s \in Nat,
         EndOf(H, A, c), Len(H) <= max_requests,
         Ordered(A) => Left(H, A) /\ Spread(A),
         NEW bucket, bucket = Purged(H, s), Len(bucket) < max_requests,
         NEW A1, A1 = Append(A, [stamp |-> s, at |-> c]), Ordered(A1)
  PROVE  Left(Append(bucket, s), A1) /\ Spread(A1)
<1> DEFINE hit == [stamp |-> s, at |-> c]
           H1 == Append(bucket, s)
<1>1. hit \in Hit /\ hit.stamp = s
  BY DEF Hit
<1> HIDE DEF hit
<1>2. PICK gone \in 0 .. Len(H) :
        /\ bucket \in Seq(Nat)
        /\ Len(bucket) = Len(H) - gone
        /\ \A i \in 1 .. gone : H[i] <= s - window
  BY PurgedProperties
<1>3. A1 = Append(A, hit)
  BY DEF hit
<1>4. /\ Len(A) \in Nat /\ Len(H) \in Nat /\ Len(bucket) \in Nat
      /\ Len(H1) = Len(bucket) + 1 /\ Len(A1) = Len(A) + 1
      /\ A1[Len(A) + 1] = hit
      /\ \A i \in 1 .. Len(A) : A1[i] = A[i]
  BY <1>1, <1>2, <1>3
<1> HIDE DEF H1
<1>5. /\ Len(H) <= Len(A)
      /\ \A i \in 1 .. Len(H) : H[i] = A[Len(A) - Len(H) + i].stamp
  BY DEF EndOf
<1>5a. /\ Len(A) \in Nat /\ Len(H) \in Nat /\ Len(bucket) \in Nat
       /\ Len(H) <= Len(A) /\ gone \in Nat /\ Len(bucket) = Len(H) - gone
  BY <1>2, <1>4, <1>5
<1>6. \A i \in 1 .. Len(A) : A[i].stamp \in Nat
  BY HitTypes
<1>7. Ordered(A)
  <2> SUFFICES ASSUME NEW i \in 1 .. Len(A), NEW n \in 1 .. Len(A), i < n
               PROVE  A[i].stamp <= A[n].stamp
    BY DEF Ordered
  <2>1. i \in 1 .. Len(A1) /\ n \in 1 .. Len(A1)
    BY <1>4
  <2>2. A1[i].stamp <= A1[n].stamp
    BY <2>1 DEF Ordered
  <2> QED BY <1>4, <2>2
<1>8. \A i \in 1 .. Len(A) : A[i].stamp <= s
  <2> TAKE i \in 1 .. Len(A)
  <2>1. i \in 1 .. Len(A1) /\ Len(A) + 1 \in 1 .. Len(A1) /\ i < Len(A) + 1
    BY <1>4
  <2>2. A1[i].stamp <= A1[Len(A) + 1].stamp
    BY <2>1 DEF Ordered
  <2> QED BY <1>1, <1>4, <2>2
<1>9. ASSUME NEW i \in 1 .. Len(A) - Len(bucket)
      PROVE  A[i].stamp + window <= s
  <2>0. i \in 1 .. Len(A) /\ A[i].stamp \in Nat /\ window \in Nat
    <3>1. i \in 1 .. Len(A)
      BY <1>5a
    <3> QED BY <1>6, <3>1, WindowType
  <2>1. CASE i > Len(A) - Len(H)
    <3> DEFINE j == i - (Len(A) - Len(H))
    <3>1. j \in 1 .. gone /\ j \in 1 .. Len(H) /\ Len(A) - Len(H) + j = i
      BY <1>5a, <2>1
    <3>2. H[j] = A[i].stamp /\ H[j] <= s - window
      <4> HIDE DEF j
      <4>1. H[j] = A[i].stamp
        BY <1>5, <3>1
      <4>2. H[j] <= s - window
        BY <1>2, <3>1
      <4> QED BY <4>1, <4>2
    <3>3. A[i].stamp <= s - window
      BY <3>2, Zenon
    <3> QED BY <2>0, <3>3
  <2>2. CASE i <= Len(A) - Len(H) /\ Len(H) = max_requests
    <3>1. 1 \in 1 .. gone /\ 1 \in 1 .. Len(H)
      BY <1>5a, <2>2, LimiterAssumption
    <3>2. H[1] <= s - window /\ H[1] = A[Len(A) - Len(H) + 1].stamp
      BY <1>2, <1>5, <3>1
    <3>3. Len(A) - Len(H) + 1 \in 1 .. Len(A) /\ i < Len(A) - Len(H) + 1
      BY <1>5a, <2>2, <3>1
    <3>4. A[i].stamp <= A[Len(A) - Len(H) + 1].stamp
      BY <1>7, <2>0, <3>3 DEF Ordered
    <3>5. A[Len(A) - Len(H) + 1].stamp \in Nat
      BY <1>6, <3>3
    <3> DEFINE x == A[i].stamp
               y == A[Len(A) - Len(H) + 1].stamp
    <3>6. x \in Nat /\ y \in Nat /\ x <= y /\ y <= s - window /\ window \in Nat
      BY <2>0, <3>2, <3>4, <3>5, Zenon
    <3> HIDE DEF x, y
    <3>7. x + window <= s
      BY <3>6
    <3> QED BY <3>7 DEF x
  <2>3. CASE i <= Len(A) - Len(H) /\ Len(H) # max_requests
    <3>1. i \in 1 .. Len(A) - Len(H)
      BY <1>5a, <2>3
    <3>2. A[i].stamp + window <= A[Len(A)].stamp
      BY <1>7, <2>3, <3>1 DEF Left
    <3>3. Len(A) \in 1 .. Len(A)
      BY <2>0, <1>5a
    <3>4. A[Len(A)].stamp \in Nat /\ A[Len(A)].stamp <= s
      BY <1>6, <1>8, <3>3
    <3> DEFINE x == A[i].stamp
               y == A[Len(A)].stamp
    <3>5. x \in Nat /\ y \in Nat /\ x + window <= y /\ y <= s /\ window \in Nat
      BY <2>0, <3>2, <3>4, Zenon
    <3> HIDE DEF x, y
    <3>6. x + window <= s
      BY <3>5
    <3> QED BY <3>6 DEF x
  <2> QED BY <1>5a, <2>1, <2>2, <2>3
<1>10. Left(H1, A1)
  <2> SUFFICES ASSUME NEW i \in 1 .. Len(A1) - Len(H1)
               PROVE  A1[i].stamp + window <= A1[Len(A1)].stamp
    BY DEF Left
  <2>1. i \in 1 .. Len(A) - Len(bucket) /\ i \in 1 .. Len(A)
    BY <1>4, <1>5a
  <2>2. A1[i] = A[i] /\ A1[Len(A1)].stamp = s
    BY <1>1, <1>4, <2>1
  <2> QED BY <1>9, <2>1, <2>2
<1>11. Spread(A1)
  <2> SUFFICES ASSUME NEW i \in 1 .. Len(A1), NEW n \in 1 .. Len(A1), n = i + max_requests
               PROVE  A1[n].stamp >= A1[i].stamp + window
    BY DEF Spread
  <2>1. CASE n = Len(A) + 1
    <3>1. i \in 1 .. Len(A) - Len(bucket) /\ i \in 1 .. Len(A)
      BY <1>4, <1>5a, <2>1, LimiterAssumption
    <3>2. A1[i] = A[i] /\ A1[n].stamp = s
      BY <1>1, <1>4, <2>1, <3>1
    <3>3. A[i].stamp + window <= s /\ A[i].stamp \in Nat
      BY <1>6, <1>9, <3>1
    <3> QED BY <3>2, <3>3, WindowType
  <2>2. CASE n # Len(A) + 1
    <3>0. n \in 1 .. Len(A)
      BY <1>4, <2>2
    <3>1. n \in 1 .. Len(A) /\ i \in 1 .. Len(A)
      <4>1. i \in Nat /\ i >= 1 /\ i <= n
        BY LimiterAssumption
      <4> QED BY <1>5a, <3>0, <4>1
    <3>2. A[n].stamp >= A[i].stamp + window
      BY <1>7, <3>1 DEF Spread
    <3> QED BY <1>4, <3>1, <3>2
  <2> QED BY <2>1, <2>2
<1> QED BY <1>10, <1>11 DEF H1

\* Every step keeps OrderInv.
LEMMA NextOrderInv == TypeOK /\ SpacingInv /\ OrderInv /\ [Next]_vars => OrderInv'
<1> SUFFICES ASSUME TypeOK, SpacingInv, OrderInv, [Next]_vars, NEW j \in Keys,
                    Ordered(allowed'[j])
             PROVE  Left(_hits'[j], allowed'[j]) /\ Spread(allowed'[j])
  BY DEF OrderInv
<1>same. ASSUME _hits'[j] = _hits[j], allowed'[j] = allowed[j]
         PROVE  Left(_hits'[j], allowed'[j]) /\ Spread(allowed'[j])
  BY <1>same DEF OrderInv
<1>1. CASE Reset
  <2>1. allowed'[j] = <<>>
    BY <1>1 DEF Reset
  <2>2. _hits'[j] = <<>>
    BY <1>1 DEF Reset
  <2> QED BY <2>1, <2>2 DEF Left, Spread
<1>2. ASSUME NEW t \in Threads, Decide(t)
      PROVE  Left(_hits'[j], allowed'[j]) /\ Spread(allowed'[j])
  <2> DEFINE k == key[t]
             bucket == Purged(_hits[k], now[t])
             hit == [stamp |-> now[t], at |-> clock]
  <2>1. \/ _hits' = _hits /\ allowed' = allowed
        \/ /\ Len(bucket) < max_requests
           /\ _hits' = [_hits EXCEPT ![k] = Append(bucket, now[t])]
           /\ allowed' = [allowed EXCEPT ![k] = Append(allowed[k], hit)]
    BY <1>2, Decisions, Zenon
  <2>2. /\ k \in Keys /\ now[t] \in Nat /\ clock \in Nat
        /\ _hits[k] \in Seq(Nat) /\ Len(_hits[k]) <= max_requests
        /\ allowed[k] \in Seq(Hit)
    BY DEF TypeOK
  <2>3. /\ EndOf(_hits[k], allowed[k], clock)
        /\ Ordered(allowed[k]) => Left(_hits[k], allowed[k]) /\ Spread(allowed[k])
    BY <2>2 DEF SpacingInv, OrderInv
  <2>4. CASE /\ Len(bucket) < max_requests
             /\ _hits' = [_hits EXCEPT ![k] = Append(bucket, now[t])]
             /\ allowed' = [allowed EXCEPT ![k] = Append(allowed[k], hit)]
    <3>1. CASE j = k
      <4>1. _hits'[j] = Append(bucket, now[t]) /\ allowed'[j] = Append(allowed[k], hit)
        <5> HIDE DEF bucket, hit, k
        <5> QED BY <2>2, <2>4, <3>1 DEF TypeOK
      <4>2. Left(Append(bucket, now[t]), Append(allowed[k], hit))
            /\ Spread(Append(allowed[k], hit))
        BY <2>2, <2>3, <2>4, <4>1, HitInOrder, Zenon
      <4> QED BY <4>1, <4>2, Zenon
    <3>2. CASE j # k
      <4>1. _hits'[j] = _hits[j] /\ allowed'[j] = allowed[j]
        <5> HIDE DEF bucket, hit, k
        <5> QED BY <2>4, <3>2 DEF TypeOK
      <4> QED BY <4>1, <1>same
    <3> QED BY <3>1, <3>2
  <2> QED BY <2>1, <2>4, <1>same
<1>3. CASE UNCHANGED <<_hits, allowed>>
  BY <1>3, <1>same
<1>4. Reset \/ (\E t \in Threads : Decide(t)) \/ UNCHANGED <<_hits, allowed>>
  BY Zenon DEF Next, Tick, Check, vars
<1> QED BY <1>1, <1>2, <1>3, <1>4

\* Hits in order and a window apart every max_requests: no window holds more.
LEMMA AtMostInWindow ==
  ASSUME NEW A \in Seq(Hit), Ordered(A), Spread(A), NEW from \in Nat
  PROVE  Cardinality({i \in 1 .. Len(A) : A[i].stamp \in from .. from + window - 1})
           <= max_requests
<1> DEFINE I == {i \in 1 .. Len(A) : A[i].stamp \in from .. from + window - 1}
<1>0. \A i \in 1 .. Len(A) : A[i].stamp \in Nat
  BY HitTypes
<1>1. CASE I = {}
  <2>1. Cardinality(I) = 0
    BY <1>1, FS_EmptySet
  <2> QED BY <2>1, LimiterAssumption
<1>2. CASE I # {}
  <2> DEFINE m == Min(I)
  <2>1. m \in I /\ \A i \in I : m <= i
    <3>1. I \in SUBSET Nat
      OBVIOUS
    <3> HIDE DEF I
    <3> QED BY <1>2, <3>1, MinOfNats, Zenon
  <2> HIDE DEF m
  <2>2. m \in 1 .. Len(A) /\ A[m].stamp >= from /\ m \in Nat
    BY <2>1
  <2>3. ASSUME NEW i \in I PROVE i \in m .. m + max_requests - 1
    <3>1. i \in 1 .. Len(A) /\ i >= m /\ i \in Nat /\ A[i].stamp <= from + window - 1
      BY <2>1
    <3>2. ASSUME i >= m + max_requests PROVE FALSE
      <4> DEFINE n == m + max_requests
      <4>1. n \in 1 .. Len(A) /\ n <= i
        BY <2>2, <3>1, <3>2, LimiterAssumption
      <4>2. A[n].stamp >= A[m].stamp + window
        BY <2>2, <4>1 DEF Spread
      <4> HIDE DEF n
      <4>3. A[n].stamp <= A[i].stamp
        <5>1. CASE n = i
          BY <1>0, <3>1, <5>1
        <5>2. CASE n # i
          <6>1. n < i
            BY <3>1, <4>1, <5>2
          <6> QED BY <3>1, <4>1, <6>1 DEF Ordered
        <5> QED BY <5>1, <5>2
      <4>4. A[n].stamp \in Nat /\ A[m].stamp \in Nat /\ A[i].stamp \in Nat
        BY <1>0, <2>2, <3>1, <4>1
      <4>5. A[m].stamp >= from /\ A[i].stamp <= from + window - 1 /\ window \in Nat
        BY <2>2, <3>1, WindowType
      <4> DEFINE x == A[m].stamp
                 y == A[n].stamp
                 z == A[i].stamp
      <4>6. /\ x \in Nat /\ y \in Nat /\ z \in Nat
            /\ y >= x + window /\ y <= z /\ x >= from /\ z <= from + window - 1
        BY <4>2, <4>3, <4>4, <4>5, Zenon
      <4> HIDE DEF x, y, z
      <4> QED BY <4>5, <4>6
    <3> QED BY <2>2, <3>1, <3>2, LimiterAssumption
  <2>4. I \subseteq m .. m + max_requests - 1
    BY <2>3
  <2>5. /\ IsFiniteSet(m .. m + max_requests - 1)
        /\ Cardinality(m .. m + max_requests - 1) = max_requests
    <3>1. m \in Int /\ m + max_requests - 1 \in Int /\ ~(m > m + max_requests - 1)
          /\ (m + max_requests - 1) - m + 1 = max_requests
      BY <2>2, LimiterAssumption
    <3> DEFINE e == m + max_requests - 1
    <3> HIDE DEF e
    <3>2. IsFiniteSet(m .. e) /\ Cardinality(m .. e) = IF m > e THEN 0 ELSE e - m + 1
      BY <3>1, FS_Interval DEF e
    <3> QED BY <3>1, <3>2 DEF e
  <2> HIDE DEF I
  <2>6. Cardinality(I) <= Cardinality(m .. m + max_requests - 1)
    BY <2>4, <2>5, FS_Subset
  <2> QED BY <2>5, <2>6 DEF I
<1> QED BY <1>1, <1>2

\* WindowLimitInOrder (a property of the run ratelimit): the documented limit holds on
\* every key whose hits got the lock in the order of the clock.
THEOREM LimitInOrder == Spec => []WindowLimitInOrder
<1>1. TypeOK /\ OrderInv => WindowLimitInOrder
  <2> SUFFICES ASSUME TypeOK, OrderInv, NEW k \in Keys, InOrder(k), NEW from \in 0 .. clock
               PROVE  Cardinality({i \in 1 .. Len(allowed[k]) :
                                     allowed[k][i].stamp \in from .. from + window - 1})
                        <= max_requests
    BY DEF WindowLimitInOrder, Limited
  <2>1. Ordered(allowed[k]) /\ Spread(allowed[k])
    BY DEF InOrder, Ordered, OrderInv
  <2>2. allowed[k] \in Seq(Hit) /\ from \in Nat
    BY DEF TypeOK
  <2> QED BY <2>1, <2>2, AtMostInWindow
<1> QED BY <1>1, LimiterTypeCorrect, InitSpacingInv, NextSpacingInv, InitOrderInv, NextOrderInv,
           PTL DEF Spec
=============================================================================
