----------------------------- MODULE PoolProofs -----------------------------
(***************************************************************************)
(* Theorems about what is lent from a pool: the tokens of TokenPool, those *)
(* of RateLimit's buckets, and the proxies of ProxyPool and Refresher, for *)
(* any number of tokens, callers, requests and hosts, and any limits.      *)
(***************************************************************************)
EXTENDS TokenPool, RateLimit, ProxyPool, Refresher, FiniteSetTheorems,
        SequenceTheorems, TLAPS

\* A token that some caller uses has a session, and the session is in use: what Acquire
\* looks at before it gives a token away.
UsedIsInUse ==
    \A h \in Holders : \A t \in Tokens \ misused :
        Uses(h, t) => Present(t) /\ sessions[t].inUse

PoolInv == PoolTyped /\ UsedIsInUse /\ OneHolder

LEMMA PoolTypeInit == PoolInit => PoolTyped
  <1>1. 0 \in Tokens
    BY PoolAssumption DEF Tokens
  <1>2. QED
    BY <1>1 DEF PoolInit, PoolTyped

LEMMA CreateTypes ==
  ASSUME PoolTyped, NEW h \in Holders, NEW m \in Models, NEW t \in Tokens, Create(h, m, t)
  PROVE  /\ sessions' \in [Tokens -> TokenSession \union {NoSession}]
         /\ held' \in [Holders -> Hold \union {NoHold}]
         /\ made' \in Nat
  <1>1. made' \in Nat /\ made + 1 \in Nat \ {0}
    BY DEF PoolTyped, Create
  <1>2. NewSession(m) \in TokenSession
    BY <1>1 DEF NewSession, TokenSession
  <1>3. [gen |-> made + 1, token |-> t, released |-> FALSE] \in Hold
    BY <1>1 DEF Hold
  <1>4. QED
    BY <1>1, <1>2, <1>3 DEF PoolTyped, Create, Give

LEMMA PoolTypeStep == PoolTyped /\ [PoolNext]_poolVars => PoolTyped'
  <1> SUFFICES ASSUME PoolTyped, [PoolNext]_poolVars
               PROVE  PoolTyped'
    OBVIOUS
  <1> USE DEF PoolTyped
  <1>1. ASSUME NEW h \in Holders, NEW m \in Models, AcquireReused(h, m)
        PROVE  PoolTyped'
    <2>1. PICK t \in Tokens : /\ Reusable(t, m)
                              /\ sessions' = [sessions EXCEPT ![t].inUse = TRUE]
                              /\ Give(h, t, sessions[t].gen)
      BY <1>1 DEF AcquireReused
    <2>2. sessions[t] \in TokenSession
      BY <2>1 DEF Reusable, Idle, Present
    <2>3. [sessions[t] EXCEPT !.inUse = TRUE] \in TokenSession
      BY <2>2 DEF TokenSession
    <2>4. [gen |-> sessions[t].gen, token |-> t, released |-> FALSE] \in Hold
      BY <2>2 DEF TokenSession, Hold
    <2>5. QED
      BY <1>1, <2>1, <2>3, <2>4 DEF AcquireReused, Give
  <1>2. ASSUME NEW h \in Holders, NEW m \in Models, AcquireUnused(h, m)
        PROVE  PoolTyped'
    <2>1. PICK t \in Missing : next' = (t + 1) % NTokens /\ Create(h, m, t)
      BY <1>2 DEF AcquireUnused
    <2>2. t \in Tokens
      BY DEF Missing
    <2>3. next' \in Tokens
      BY <2>1, <2>2, PoolAssumption DEF Tokens
    <2>4. QED
      BY <1>2, <2>1, <2>2, <2>3, CreateTypes DEF AcquireUnused
  <1>3. ASSUME NEW h \in Holders, NEW m \in Models, AcquireOldest(h, m)
        PROVE  PoolTyped'
    BY <1>3, CreateTypes DEF AcquireOldest
  <1>4. ASSUME NEW h \in Holders, Release(h)
        PROVE  PoolTyped'
    <2>1. held[h] \in Hold
      BY <1>4 DEF Release
    <2>2. held[h].token \in Tokens /\ [held[h] EXCEPT !.released = TRUE] \in Hold
      BY <2>1 DEF Hold
    <2>3. sessions' \in [Tokens -> TokenSession \union {NoSession}]
      <3>1. CASE sessions' = sessions
        BY <3>1
      <3>2. CASE /\ sessions[held[h].token] # NoSession
                 /\ sessions' = [sessions EXCEPT ![held[h].token].inUse = FALSE]
        <4>1. [sessions[held[h].token] EXCEPT !.inUse = FALSE] \in TokenSession
          BY <2>2, <3>2 DEF TokenSession
        <4>2. QED
          BY <2>2, <3>2, <4>1
      <3>3. QED
        BY <1>4, <3>1, <3>2 DEF Release
    <2>4. held' \in [Holders -> Hold \union {NoHold}]
      BY <1>4, <2>2 DEF Release
    <2>5. QED
      BY <1>4, <2>2, <2>3, <2>4 DEF Release
  <1>5. ASSUME NEW t \in Tokens, Remove(t)
        PROVE  PoolTyped'
    BY <1>5 DEF Remove
  <1>6. ASSUME NEW t \in Tokens, MarkLocked(t)
        PROVE  PoolTyped'
    <2>1. [sessions[t] EXCEPT !.locked = TRUE] \in TokenSession
      BY <1>6 DEF MarkLocked, Present, TokenSession
    <2>2. QED
      BY <1>6, <2>1 DEF MarkLocked
  <1>7. ASSUME NEW t \in Tokens, SessionAges(t)
        PROVE  PoolTyped'
    <2>1. [sessions[t] EXCEPT !.stale = TRUE] \in TokenSession
      BY <1>7 DEF SessionAges, Present, TokenSession
    <2>2. QED
      BY <1>7, <2>1 DEF SessionAges
  <1>8. CASE UNCHANGED poolVars
    BY <1>8 DEF poolVars
  <1>9. QED
    BY <1>1, <1>2, <1>3, <1>4, <1>5, <1>6, <1>7, <1>8 DEF PoolNext

\* The type invariant: callers hold no token and no session that does not exist.
THEOREM PoolTypeCorrect == PoolSpec => []PoolTyped
  BY PoolTypeInit, PoolTypeStep, PTL DEF PoolSpec

\* What is given to h was nobody's: the others use what they used before, and h uses t.
LEMMA GivenToOne ==
  ASSUME PoolInv, NEW h \in Holders, NEW t \in Tokens, NEW g,
         held[h] = NoHold, Give(h, t, g),
         ~Present(t) \/ ~sessions[t].inUse,
         UNCHANGED misused,
         sessions'[t] # NoSession, sessions'[t].inUse,
         \A u \in Tokens \ {t} : sessions'[u] = sessions[u]
  PROVE  UsedIsInUse' /\ OneHolder'
  <1>1. \A i \in Holders : t \notin misused => ~Uses(i, t)
    BY DEF PoolInv, UsedIsInUse
  <1>2. ASSUME NEW i \in Holders, NEW u \in Tokens, Uses(i, u)'
        PROVE  (i = h /\ u = t) \/ (i # h /\ Uses(i, u))
    BY <1>2 DEF Uses, Give, PoolInv, PoolTyped
  <1>3. UsedIsInUse'
    BY <1>1, <1>2 DEF PoolInv, UsedIsInUse, Present
  <1>4. OneHolder'
    BY <1>1, <1>2 DEF PoolInv, OneHolder
  <1>5. QED
    BY <1>3, <1>4

\* Steps that leave every hold as it is, or end one, and keep the sessions in use.
LEMMA NobodyGains ==
  ASSUME PoolInv, misused \subseteq misused',
         \A i \in Holders : \A u \in Tokens : Uses(i, u)' => Uses(i, u),
         \A u \in Tokens \ misused' : \A i \in Holders :
             Uses(i, u)' => sessions'[u] # NoSession /\ sessions'[u].inUse = sessions[u].inUse
  PROVE  UsedIsInUse' /\ OneHolder'
  <1>1. UsedIsInUse'
    BY DEF PoolInv, UsedIsInUse, Present
  <1>2. OneHolder'
    BY DEF PoolInv, OneHolder
  <1>3. QED
    BY <1>1, <1>2

LEMMA PoolInvStep == PoolInv /\ [PoolNext]_poolVars => PoolInv'
  <1> SUFFICES ASSUME PoolInv, [PoolNext]_poolVars
               PROVE  UsedIsInUse' /\ OneHolder'
    BY PoolTypeStep DEF PoolInv
  <1>0. PoolTyped /\ PoolTyped'
    BY PoolTypeStep DEF PoolInv
  <1>1. ASSUME NEW h \in Holders, NEW m \in Models, AcquireReused(h, m)
        PROVE  UsedIsInUse' /\ OneHolder'
    <2>1. PICK t \in Tokens : /\ Reusable(t, m)
                              /\ sessions' = [sessions EXCEPT ![t].inUse = TRUE]
                              /\ Give(h, t, sessions[t].gen)
      BY <1>1 DEF AcquireReused
    <2>2. ~sessions[t].inUse /\ sessions[t] \in TokenSession
      BY <1>0, <2>1 DEF Reusable, Idle, Present, PoolTyped
    <2>3. sessions'[t] = [sessions[t] EXCEPT !.inUse = TRUE]
      BY <1>0, <2>1 DEF PoolTyped
    <2>4. sessions'[t].inUse /\ sessions'[t].gen # 0
      BY <2>2, <2>3 DEF TokenSession
    <2>5. sessions'[t] # NoSession
      BY <2>4 DEF NoSession
    <2>6. \A u \in Tokens \ {t} : sessions'[u] = sessions[u]
      BY <1>0, <2>1 DEF PoolTyped
    <2>7. QED
      BY <1>1, <2>1, <2>2, <2>4, <2>5, <2>6, GivenToOne DEF AcquireReused
  <1>2. ASSUME NEW h \in Holders, NEW m \in Models, NEW t \in Tokens,
               held[h] = NoHold, Create(h, m, t), ~Present(t) \/ ~sessions[t].inUse,
               UNCHANGED misused
        PROVE  UsedIsInUse' /\ OneHolder'
    <2>1. sessions'[t] = NewSession(m) /\ \A u \in Tokens \ {t} : sessions'[u] = sessions[u]
      BY <1>0, <1>2 DEF PoolTyped, Create
    <2>2. sessions'[t].inUse /\ sessions'[t].gen # 0
      BY <1>0, <2>1 DEF NewSession, PoolTyped
    <2>3. sessions'[t] # NoSession
      BY <2>2 DEF NoSession
    <2>4. Give(h, t, made + 1)
      BY <1>2 DEF Create
    <2>5. QED
      BY <1>2, <2>1, <2>2, <2>3, <2>4, GivenToOne
  <1>3. ASSUME NEW h \in Holders, NEW m \in Models, AcquireUnused(h, m)
        PROVE  UsedIsInUse' /\ OneHolder'
    BY <1>2, <1>3 DEF AcquireUnused, Missing
  <1>4. ASSUME NEW h \in Holders, NEW m \in Models, AcquireOldest(h, m)
        PROVE  UsedIsInUse' /\ OneHolder'
    BY <1>2, <1>4 DEF AcquireOldest, Idle
  <1>5. ASSUME NEW h \in Holders, Release(h)
        PROVE  UsedIsInUse' /\ OneHolder'
    <2> DEFINE t == held[h].token
    <2>1. held[h] \in Hold /\ t \in Tokens
      BY <1>0, <1>5 DEF Release, PoolTyped, Hold
    <2>2. \A i \in Holders : \A u \in Tokens : Uses(i, u)' => Uses(i, u) /\ i # h
      BY <1>0, <1>5, <2>1 DEF Release, Uses, PoolTyped, Hold, NoHold
    <2>3. ASSUME NEW u \in Tokens \ misused', NEW i \in Holders, Uses(i, u)'
          PROVE  u # t
      BY <1>5, <2>1, <2>2, <2>3 DEF Release, PoolInv, OneHolder, Uses
    <2>4. \A u \in Tokens \ {t} : sessions'[u] = sessions[u]
      BY <1>0, <1>5, <2>1 DEF Release, PoolTyped
    <2>5. misused \subseteq misused'
      BY <1>5 DEF Release
    <2>6. \A u \in Tokens \ misused' : \A i \in Holders :
             Uses(i, u)' => sessions'[u] # NoSession /\ sessions'[u].inUse = sessions[u].inUse
      BY <2>2, <2>3, <2>4, <2>5 DEF PoolInv, UsedIsInUse, Present
    <2>7. QED
      BY <2>2, <2>5, <2>6, NobodyGains
  <1>6. ASSUME NEW t \in Tokens, Remove(t)
        PROVE  UsedIsInUse' /\ OneHolder'
    <2>1. \A i \in Holders : \A u \in Tokens : Uses(i, u)' => Uses(i, u)
      BY <1>6 DEF Remove, Uses
    <2>2. misused \subseteq misused'
      BY <1>6 DEF Remove
    <2>3. ASSUME NEW u \in Tokens \ misused', NEW i \in Holders, Uses(i, u)
          PROVE  sessions'[u] = sessions[u] /\ sessions[u] # NoSession
      BY <1>0, <1>6, <2>2, <2>3 DEF Remove, PoolTyped, PoolInv, UsedIsInUse, Present
    <2>4. QED
      BY <2>1, <2>2, <2>3, NobodyGains
  <1>7. ASSUME NEW t \in Tokens, MarkLocked(t) \/ SessionAges(t)
        PROVE  UsedIsInUse' /\ OneHolder'
    <2>1. \A i \in Holders : \A u \in Tokens : Uses(i, u)' => Uses(i, u)
      BY <1>7 DEF MarkLocked, SessionAges, Uses
    <2>2. misused' = misused
      BY <1>7 DEF MarkLocked, SessionAges
    <2>3. sessions'[t] # NoSession /\ sessions'[t].inUse = sessions[t].inUse
      <3>1. sessions[t] \in TokenSession
        BY <1>0, <1>7 DEF MarkLocked, SessionAges, Present, PoolTyped
      <3>2. /\ sessions'[t].gen = sessions[t].gen
            /\ sessions'[t].inUse = sessions[t].inUse
        BY <1>0, <1>7, <3>1 DEF MarkLocked, SessionAges, PoolTyped, TokenSession
      <3>3. QED
        BY <3>1, <3>2 DEF TokenSession, NoSession
    <2>4. \A u \in Tokens \ {t} : sessions'[u] = sessions[u]
      BY <1>0, <1>7 DEF MarkLocked, SessionAges, PoolTyped
    <2>5. \A u \in Tokens \ misused' : \A i \in Holders :
             Uses(i, u)' => sessions'[u] # NoSession /\ sessions'[u].inUse = sessions[u].inUse
      BY <2>1, <2>2, <2>3, <2>4 DEF PoolInv, UsedIsInUse, Present
    <2>6. QED
      BY <2>1, <2>2, <2>5, NobodyGains
  <1>8. CASE UNCHANGED poolVars
    BY <1>8 DEF poolVars, PoolInv, UsedIsInUse, OneHolder, Uses, Present
  <1>9. QED
    BY <1>1, <1>3, <1>4, <1>5, <1>6, <1>7, <1>8 DEF PoolNext

\* Acquire, Release, Remove and expiry never leave two callers with the same token,
\* unless one of them broke the pool's protocol on that token (pool.go:47-130).
THEOREM TokenHasOneHolder == PoolSpec => []OneHolder
  <1>1. PoolInit => PoolInv
    BY PoolTypeInit DEF PoolInit, PoolInv, UsedIsInUse, OneHolder, Uses
  <1>2. PoolInv /\ [PoolNext]_poolVars => PoolInv'
    BY PoolInvStep
  <1>3. PoolInv => OneHolder
    BY DEF PoolInv
  <1>4. QED
    BY <1>1, <1>2, <1>3, PTL DEF PoolSpec

(***************************************************************************)
(* RateLimit.  What an identity was granted and what its bucket holds is   *)
(* paid for by the bucket's capacity and the time until its last refill.   *)
(* An idle bucket may be forgotten: the time since its last use has paid   *)
(* for the full one that follows.                                          *)
(***************************************************************************)
Owners == Identities \union {"global"}
Bucket == [tokens : Nat, last : Nat \union {Never}]
Asked == [pc : {"account", "client"}, now : Nat, who : Identities, client : ClientIds, ptr : Nat]

RateShape ==
    /\ clock \in Nat
    /\ buckets \in Seq(Bucket) /\ Len(buckets) >= 1
    /\ bucketOf \in [Identities -> Nat]
    /\ request \in [Requests -> {Idling} \union Asked]
    /\ taken \in [Owners -> Nat]
    /\ orphaned \subseteq Identities
    /\ \A i \in 1..Len(buckets) : buckets[i].last <= clock
    /\ \A n \in Identities : bucketOf[n] # 1 /\ bucketOf[n] <= Len(buckets)
    /\ \A r \in Requests : request[r] # Idling =>
          request[r].now <= clock /\ request[r].ptr # 1 /\ request[r].ptr <= Len(buckets)

\* No two identities share a bucket, and a request has its identity's.
OwnBuckets ==
    /\ \A m, n \in Identities : bucketOf[m] = bucketOf[n] /\ bucketOf[m] # 0 => m = n
    /\ \A r \in Requests : request[r] # Idling /\ request[r].ptr # 0 =>
          /\ request[r].who \notin orphaned => bucketOf[request[r].who] = request[r].ptr
          /\ \A n \in Identities : bucketOf[n] = request[r].ptr => n = request[r].who

BucketOf(n) == IF n = "global" THEN 1 ELSE bucketOf[n]
Paid(n, b, spent, now) ==
    IF b.last = Never THEN spent <= Rpm[Tier(n)] * now
    ELSE spent + b.tokens <= Capacity(n) + Rpm[Tier(n)] * b.last
AllPaid ==
    \A n \in Owners \ orphaned :
        Paid(n, IF BucketOf(n) = 0 THEN NewBucket ELSE buckets[BucketOf(n)],
             taken[n] * TicksPerMinute, clock)

RateInv == RateShape /\ OwnBuckets /\ AllPaid

LEMMA RateOfTier ==
  ASSUME NEW n
  PROVE  /\ Rpm[Tier(n)] \in Nat \ {0} /\ Capacity(n) \in Nat /\ TicksPerMinute \in Nat \ {0}
         /\ Capacity(n) = Rpm[Tier(n)] * TicksPerMinute
  <1>1. Tier(n) \in {"global", "account", "client"}
    BY DEF Tier
  <1>2. Rpm[Tier(n)] \in Nat \ {0} /\ TicksPerMinute \in Nat \ {0}
    BY <1>1, RateAssumption
  <1>3. ASSUME NEW x \in Nat, NEW y \in Nat PROVE x * y \in Nat
    OBVIOUS
  <1>4. QED
    BY <1>2, <1>3 DEF Capacity

LEMMA MoreTime ==
  ASSUME NEW rate \in Nat, NEW s \in Nat, NEW t \in Nat, s <= t
  PROVE  rate * s <= rate * t /\ rate * s \in Nat /\ rate * t \in Nat
  OBVIOUS

LEMMA TimeBetween ==
  ASSUME NEW rate \in Nat, NEW s \in Nat, NEW t \in Nat
  PROVE  rate * (t - s) = rate * t - rate * s /\ rate * (t + s) = rate * t + rate * s
  OBVIOUS

LEMMA OneMore ==
  ASSUME NEW k \in Nat, NEW t \in Nat
  PROVE  (k + 1) * t = k * t + t /\ k * t \in Nat
  OBVIOUS

\* A refill is paid for by the time it adds.
LEMMA RefilledIsPaid ==
  ASSUME NEW n, NEW b \in Bucket, NEW now \in Nat, NEW spent \in Nat, Paid(n, b, spent, now)
  PROVE  /\ Refilled(n, b, now) \in [tokens : Nat, last : Nat]
         /\ Refilled(n, b, now).last \in {now, b.last}
         /\ spent + Refilled(n, b, now).tokens <= Capacity(n) + Rpm[Tier(n)] * Refilled(n, b, now).last
  <1> DEFINE rate == Rpm[Tier(n)]
             seeded == IF b.last = Never THEN [tokens |-> Capacity(n), last |-> now] ELSE b
             gained == seeded.tokens + rate * (now - seeded.last)
  <1>1. rate \in Nat /\ Capacity(n) \in Nat
    BY RateOfTier
  <1>2. /\ seeded \in [tokens : Nat, last : Nat] /\ seeded.last \in {now, b.last}
        /\ spent + seeded.tokens <= Capacity(n) + rate * seeded.last
    <2>1. CASE b.last = Never
      <3>1. rate * now \in Nat /\ spent <= rate * now
        BY <2>1, <1>1, MoreTime DEF Paid
      <3>2. QED
        BY <2>1, <1>1, <3>1
    <2>2. CASE b.last # Never
      BY <2>2, <1>1 DEF Paid, Bucket
    <2>3. QED
      BY <2>1, <2>2
  <1>3. Refilled(n, b, now) =
          IF now <= seeded.last THEN seeded
          ELSE [tokens |-> IF gained > Capacity(n) THEN Capacity(n) ELSE gained, last |-> now]
    BY DEF Refilled
  <1> HIDE DEF seeded
  <1>4. CASE now <= seeded.last
    BY <1>2, <1>3, <1>4
  <1>5. CASE ~(now <= seeded.last)
    <2>1. /\ rate * (now - seeded.last) = rate * now - rate * seeded.last
          /\ rate * seeded.last <= rate * now /\ rate * now \in Nat /\ rate * seeded.last \in Nat
      BY <1>1, <1>2, <1>5, TimeBetween, MoreTime
    <2>2. gained \in Nat /\ gained = seeded.tokens + (rate * now - rate * seeded.last)
      BY <2>1, <1>2
    <2>3. spent + gained <= Capacity(n) + rate * now
      BY <2>1, <2>2, <1>1, <1>2
    <2> DEFINE kept == IF gained > Capacity(n) THEN Capacity(n) ELSE gained
    <2>4. kept \in Nat /\ kept <= gained
      BY <2>2, <1>1
    <2>5. spent + kept <= Capacity(n) + rate * now
      BY <2>1, <2>2, <2>3, <2>4, <1>1
    <2>6. Refilled(n, b, now) = [tokens |-> kept, last |-> now]
      BY <1>3, <1>5
    <2>7. QED
      BY <2>4, <2>5, <2>6
  <1>6. QED
    BY <1>4, <1>5

LEMMA RefilledTypes ==
  ASSUME NEW n, NEW b \in Bucket, NEW now \in Nat
  PROVE  Refilled(n, b, now) \in [tokens : Nat, last : Nat] /\ Refilled(n, b, now).last \in {now, b.last}
  <1> DEFINE rate == Rpm[Tier(n)]
             seeded == IF b.last = Never THEN [tokens |-> Capacity(n), last |-> now] ELSE b
             gained == seeded.tokens + rate * (now - seeded.last)
  <1>1. rate \in Nat /\ Capacity(n) \in Nat
    BY RateOfTier
  <1>2. seeded \in [tokens : Nat, last : Nat] /\ seeded.last \in {now, b.last}
    BY <1>1 DEF Bucket
  <1>3. Refilled(n, b, now) =
          IF now <= seeded.last THEN seeded
          ELSE [tokens |-> IF gained > Capacity(n) THEN Capacity(n) ELSE gained, last |-> now]
    BY DEF Refilled
  <1> HIDE DEF seeded
  <1>4. ~(now <= seeded.last) => gained \in Nat
    <2> SUFFICES ASSUME ~(now <= seeded.last) PROVE gained \in Nat
      OBVIOUS
    <2>1. /\ rate * (now - seeded.last) = rate * now - rate * seeded.last
          /\ rate * seeded.last <= rate * now /\ rate * now \in Nat /\ rate * seeded.last \in Nat
      BY <1>1, <1>2, TimeBetween, MoreTime
    <2>2. QED
      BY <2>1, <1>2
  <1>5. QED
    BY <1>1, <1>2, <1>3, <1>4

\* What take changes, and that a token that was paid for is still paid for.
LEMMA Taken ==
  ASSUME RateShape, NEW n \in Owners, NEW i \in 1..Len(buckets), NEW now \in Nat, now <= clock,
         Take(n, i, now)
  PROVE  /\ buckets' \in Seq(Bucket) /\ Len(buckets') = Len(buckets)
         /\ \A j \in 1..Len(buckets) : j # i => buckets'[j] = buckets[j]
         /\ buckets'[i].last \in Nat /\ buckets'[i].last <= clock
         /\ taken' \in [Owners -> Nat]
         /\ \A m \in Owners : m # n => taken'[m] = taken[m]
         /\ Paid(n, buckets[i], taken[n] * TicksPerMinute, now) =>
              Paid(n, buckets'[i], taken'[n] * TicksPerMinute, clock)
  <1> DEFINE b == Refilled(n, buckets[i], now)
             less == [b EXCEPT !.tokens = @ - TicksPerMinute]
             rate == Rpm[Tier(n)]
  <1>1. buckets[i] \in Bucket /\ buckets[i].last <= clock /\ taken[n] \in Nat /\ clock \in Nat
    BY DEF RateShape
  <1>2. b \in [tokens : Nat, last : Nat] /\ b.last \in {now, buckets[i].last}
    BY <1>1, RefilledTypes
  <1>3. b.last <= clock
    BY <1>1, <1>2
  <1>4. rate \in Nat /\ Capacity(n) \in Nat /\ TicksPerMinute \in Nat \ {0}
    BY RateOfTier
  <1>5. ASSUME Paid(n, buckets[i], taken[n] * TicksPerMinute, now)
        PROVE  taken[n] * TicksPerMinute + b.tokens <= Capacity(n) + rate * b.last
    <2>1. taken[n] * TicksPerMinute \in Nat
      BY <1>1, <1>4, OneMore
    <2>2. QED
      BY <1>1, <1>5, <2>1, RefilledIsPaid
  <1> HIDE DEF b
  <1>6. CASE Granted(n, i, now)
    <2>1. /\ buckets' = [buckets EXCEPT ![i] = less]
          /\ taken' = [taken EXCEPT ![n] = @ + 1]
      BY <1>6 DEF Take, b
    <2>2. b.tokens >= TicksPerMinute
      BY <1>6 DEF Granted, b
    <2>3. less \in Bucket /\ less.last = b.last /\ less.tokens = b.tokens - TicksPerMinute
      BY <1>2, <1>4, <2>2 DEF Bucket
    <2>4. buckets' \in Seq(Bucket) /\ Len(buckets') = Len(buckets) /\ buckets'[i] = less
      BY <2>1, <2>3 DEF RateShape
    <2>5. \A j \in 1..Len(buckets) : j # i => buckets'[j] = buckets[j]
      BY <2>1 DEF RateShape
    <2>6. taken' \in [Owners -> Nat] /\ taken'[n] = taken[n] + 1
      BY <2>1, <1>1 DEF RateShape
    <2>7. \A m \in Owners : m # n => taken'[m] = taken[m]
      BY <2>1 DEF RateShape
    <2>8. ASSUME Paid(n, buckets[i], taken[n] * TicksPerMinute, now)
          PROVE  Paid(n, buckets'[i], taken'[n] * TicksPerMinute, clock)
      <3>1. /\ (taken[n] + 1) * TicksPerMinute = taken[n] * TicksPerMinute + TicksPerMinute
            /\ taken[n] * TicksPerMinute \in Nat
        BY <1>1, <1>4, OneMore
      <3>2. rate * b.last \in Nat
        BY <1>2, <1>4, MoreTime
      <3>3. taken'[n] * TicksPerMinute + less.tokens <= Capacity(n) + rate * less.last
        BY <1>2, <1>4, <1>5, <2>3, <2>6, <2>8, <3>1, <3>2, SMTT(20)
      <3>4. less.last # Never
        BY <1>2, <2>3 DEF Never
      <3>5. QED
        BY <2>4, <3>3, <3>4 DEF Paid
    <2>9. QED
      BY <1>2, <1>3, <2>3, <2>4, <2>5, <2>6, <2>7, <2>8
  <1>7. CASE ~Granted(n, i, now)
    <2>1. buckets' = [buckets EXCEPT ![i] = b] /\ taken' = taken
      BY <1>7 DEF Take, b
    <2>2. b \in Bucket
      BY <1>2 DEF Bucket
    <2>3. buckets' \in Seq(Bucket) /\ Len(buckets') = Len(buckets) /\ buckets'[i] = b
      BY <2>1, <2>2 DEF RateShape
    <2>4. \A j \in 1..Len(buckets) : j # i => buckets'[j] = buckets[j]
      BY <2>1 DEF RateShape
    <2>5. b.last # Never
      BY <1>2 DEF Never
    <2>6. Paid(n, buckets[i], taken[n] * TicksPerMinute, now) =>
              Paid(n, buckets'[i], taken'[n] * TicksPerMinute, clock)
      BY <1>5, <2>1, <2>3, <2>5 DEF Paid
    <2>7. QED
      BY <1>2, <1>3, <2>1, <2>3, <2>4, <2>6 DEF RateShape
  <1>8. QED
    BY <1>6, <1>7

LEMMA RateInvInit == RateInit => RateInv
  <1> SUFFICES ASSUME RateInit PROVE RateInv
    OBVIOUS
  <1> USE DEF RateInit
  <1>1. NewBucket \in Bucket
    BY DEF NewBucket, Bucket, Never
  <1>2. RateShape
    BY <1>1 DEF RateShape, Owners, NewBucket, Never
  <1>3. OwnBuckets
    BY DEF OwnBuckets
  <1>4. ASSUME NEW n \in Owners
        PROVE  Paid(n, NewBucket, taken[n] * TicksPerMinute, clock)
    <2>1. taken[n] = 0 /\ clock = 0
      BY DEF Owners
    <2>2. Rpm[Tier(n)] \in Nat /\ TicksPerMinute \in Nat
      BY RateOfTier
    <2>3. QED
      BY <2>1, <2>2 DEF Paid, NewBucket
  <1>5. AllPaid
    BY <1>4 DEF AllPaid, Owners, BucketOf
  <1>6. QED
    BY <1>2, <1>3, <1>5 DEF RateInv

LEMMA PaidLater ==
  ASSUME NEW n, NEW b, NEW spent \in Nat, NEW s \in Nat, NEW t \in Nat, s <= t, Paid(n, b, spent, s)
  PROVE  Paid(n, b, spent, t)
  <1>1. Rpm[Tier(n)] \in Nat
    BY RateOfTier
  <1>2. Rpm[Tier(n)] * s <= Rpm[Tier(n)] * t /\ Rpm[Tier(n)] * s \in Nat /\ Rpm[Tier(n)] * t \in Nat
    BY <1>1, MoreTime
  <1>3. QED
    BY <1>2 DEF Paid

LEMMA TaskOfRequest ==
  ASSUME RateShape, NEW r \in Requests, request[r] # Idling
  PROVE  /\ request[r] \in Asked
         /\ request[r].who \in Identities /\ request[r].client \in Identities
         /\ request[r].now \in Nat /\ request[r].now <= clock
         /\ request[r].ptr \in Nat /\ request[r].ptr # 1 /\ request[r].ptr <= Len(buckets)
         /\ request[r].who # "global" /\ request[r].who \in Owners
  BY RateAssumption DEF RateShape, Asked, Identities, Owners

LEMMA AllowStep ==
  ASSUME RateInv, NEW r \in Requests, NEW a \in Accounts, NEW c \in ClientIds, Allow(r, a, c)
  PROVE  RateInv'
  <1> USE DEF RateInv
  <1>1. 1 \in 1..Len(buckets) /\ clock \in Nat /\ "global" \in Owners
    BY DEF RateShape, Owners
  <1>2. Take("global", 1, clock)
    BY DEF Allow
  <1>3. /\ buckets' \in Seq(Bucket) /\ Len(buckets') = Len(buckets)
        /\ \A j \in 1..Len(buckets) : j # 1 => buckets'[j] = buckets[j]
        /\ buckets'[1].last \in Nat /\ buckets'[1].last <= clock
        /\ taken' \in [Owners -> Nat]
        /\ \A m \in Owners : m # "global" => taken'[m] = taken[m]
        /\ Paid("global", buckets[1], taken["global"] * TicksPerMinute, clock) =>
             Paid("global", buckets'[1], taken'["global"] * TicksPerMinute, clock)
    BY <1>1, <1>2, Taken
  <1> DEFINE begun == [pc |-> "account", now |-> clock, who |-> a, client |-> c, ptr |-> 0]
  <1>4. /\ begun \in Asked /\ begun.now = clock /\ begun.ptr = 0
        /\ request' \in {request, [request EXCEPT ![r] = begun]}
        /\ clock' = clock /\ bucketOf' = bucketOf /\ orphaned' = orphaned
    BY <1>1 DEF Allow, Asked, Identities
  <1> HIDE DEF begun
  <1>5. \A q \in Requests : request'[q] = request[q] \/ request'[q] = begun
    BY <1>4 DEF RateShape
  <1>6. RateShape'
    <2>1. request' \in [Requests -> {Idling} \union Asked]
      BY <1>4 DEF RateShape
    <2>2. \A i \in 1..Len(buckets') : buckets'[i].last <= clock'
      BY <1>3, <1>4 DEF RateShape
    <2>3. \A q \in Requests : request'[q] # Idling =>
            request'[q].now <= clock' /\ request'[q].ptr # 1 /\ request'[q].ptr <= Len(buckets')
      BY <1>1, <1>3, <1>4, <1>5 DEF RateShape
    <2>4. QED
      BY <1>3, <1>4, <2>1, <2>2, <2>3 DEF RateShape
  <1>7. OwnBuckets'
    BY <1>4, <1>5 DEF OwnBuckets
  <1>8. ASSUME NEW n \in Owners \ orphaned
        PROVE  Paid(n, IF BucketOf(n)' = 0 THEN NewBucket ELSE buckets'[BucketOf(n)'],
                    taken'[n] * TicksPerMinute, clock)
    <2>1. BucketOf(n)' = BucketOf(n)
      BY <1>4 DEF BucketOf
    <2>2. Paid(n, IF BucketOf(n) = 0 THEN NewBucket ELSE buckets[BucketOf(n)],
               taken[n] * TicksPerMinute, clock)
      BY DEF AllPaid
    <2>3. CASE n = "global"
      BY <1>3, <2>1, <2>2, <2>3 DEF BucketOf
    <2>4. CASE n # "global"
      <3>1. BucketOf(n) # 1 /\ BucketOf(n) \in Nat /\ BucketOf(n) <= Len(buckets)
        BY <2>4 DEF BucketOf, RateShape, Owners
      <3>2. QED
        BY <1>3, <2>1, <2>2, <2>4, <3>1
    <2>5. QED
      BY <2>3, <2>4
  <1>9. AllPaid'
    BY <1>4, <1>8 DEF AllPaid
  <1>10. QED
    BY <1>6, <1>7, <1>9

LEMMA ClockTicksStep == RateInv /\ ClockTicks => RateInv'
  <1> SUFFICES ASSUME RateInv, ClockTicks PROVE RateInv'
    OBVIOUS
  <1> USE DEF RateInv, ClockTicks
  <1>1. clock \in Nat /\ clock' \in Nat /\ clock <= clock'
    BY DEF RateShape
  <1>2. RateShape'
    <2>1. \A i \in 1..Len(buckets') : buckets'[i].last <= clock'
      <3> SUFFICES ASSUME NEW i \in 1..Len(buckets) PROVE buckets[i].last <= clock'
        OBVIOUS
      <3>1. buckets[i] \in Bucket /\ buckets[i].last <= clock
        BY DEF RateShape
      <3>2. buckets[i].last \in Int
        BY <3>1 DEF Bucket, Never
      <3>3. QED
        BY <1>1, <3>1, <3>2
    <2>2. \A q \in Requests : request'[q] # Idling => request'[q].now <= clock'
      <3> SUFFICES ASSUME NEW q \in Requests, request[q] # Idling PROVE request[q].now <= clock'
        OBVIOUS
      <3>1. QED
        BY <1>1, TaskOfRequest
    <2>3. QED
      BY <1>1, <2>1, <2>2 DEF RateShape
  <1>3. OwnBuckets'
    BY DEF OwnBuckets
  <1>4. ASSUME NEW n \in Owners \ orphaned
        PROVE  Paid(n, IF BucketOf(n) = 0 THEN NewBucket ELSE buckets[BucketOf(n)],
                    taken[n] * TicksPerMinute, clock')
    <2>1. taken[n] \in Nat /\ TicksPerMinute \in Nat
      BY RateOfTier DEF RateShape
    <2>2. taken[n] * TicksPerMinute \in Nat
      BY <2>1, OneMore
    <2>3. QED
      BY <1>1, <2>2, PaidLater DEF AllPaid
  <1>5. AllPaid'
    BY <1>4 DEF AllPaid, BucketOf
  <1>6. QED
    BY <1>2, <1>3, <1>5

\* What has been forgotten as idle was paid for by the time since.
LEMMA IdleIsPaid ==
  ASSUME NEW n \in Owners, NEW b \in Bucket, NEW spent \in Nat, clock \in Nat,
         Paid(n, b, spent, clock), LooksIdle(b)
  PROVE  spent <= Rpm[Tier(n)] * clock
  <1> DEFINE rate == Rpm[Tier(n)]
  <1>1. /\ rate \in Nat /\ Capacity(n) = rate * TicksPerMinute
        /\ TicksPerMinute \in Nat /\ IdleTicks \in Nat /\ IdleTicks >= TicksPerMinute
    BY RateOfTier, RateAssumption
  <1>2. CASE b.last = Never
    BY <1>2 DEF Paid
  <1>3. CASE b.last # Never
    <2>1. b.last \in Nat /\ b.tokens \in Nat
      BY <1>3 DEF Bucket
    <2>2. TicksPerMinute + b.last <= clock /\ TicksPerMinute + b.last \in Nat
      <3>1. b.last < clock - IdleTicks
        BY <1>3 DEF LooksIdle
      <3>2. QED
        BY <1>1, <2>1, <3>1
    <2>3. /\ rate * (TicksPerMinute + b.last) = rate * TicksPerMinute + rate * b.last
          /\ rate * (TicksPerMinute + b.last) <= rate * clock
          /\ rate * TicksPerMinute \in Nat /\ rate * b.last \in Nat /\ rate * clock \in Nat
      <3>1. rate * (TicksPerMinute + b.last) = rate * TicksPerMinute + rate * b.last
        BY <1>1, <2>1, TimeBetween
      <3>2. rate * TicksPerMinute \in Nat /\ rate * b.last \in Nat
        BY <1>1, <2>1, MoreTime
      <3>3. QED
        BY <1>1, <2>2, <3>1, <3>2, MoreTime
    <2>4. spent + b.tokens <= rate * TicksPerMinute + rate * b.last
      BY <1>1, <1>3 DEF Paid
    <2>5. QED
      BY <2>1, <2>3, <2>4
  <1>4. QED
    BY <1>2, <1>3

LEMMA GetBucketStep ==
  ASSUME RateInv, NEW r \in Requests, GetBucket(r)
  PROVE  RateInv'
  <1> USE DEF RateInv
  <1> DEFINE n == request[r].who
             id == Len(buckets) + 1
             known == {p \in Peers(n) : bucketOf[p] # 0} \union {n}
             purged == IF Cardinality(known) > MaxBuckets
                         THEN {p \in known : p = n \/ LooksIdle(buckets[bucketOf[p]])} ELSE {}
  <1>1. /\ request[r] # Idling /\ request[r].ptr = 0
        /\ clock' = clock /\ taken' = taken
    BY DEF GetBucket
  <1>2. /\ request[r] \in Asked /\ n \in Identities /\ n # "global" /\ request[r].now <= clock
        /\ Len(buckets) \in Nat /\ Len(buckets) >= 1 /\ bucketOf[n] \in Nat
    BY <1>1, TaskOfRequest DEF RateShape
  <1>3. ASSUME NEW ptr \in Nat
        PROVE  [request[r] EXCEPT !.ptr = ptr] \in Asked
    BY <1>2 DEF Asked
  <1>4. CASE bucketOf[n] # 0
    <2>1. /\ request' = [request EXCEPT ![r].ptr = bucketOf[n]]
          /\ buckets' = buckets /\ bucketOf' = bucketOf /\ orphaned' = orphaned
      BY <1>4 DEF GetBucket
    <2>2. /\ request'[r] = [request[r] EXCEPT !.ptr = bucketOf[n]] /\ request'[r] \in Asked
          /\ request'[r].ptr = bucketOf[n] /\ request'[r].who = n /\ request'[r].now = request[r].now
          /\ \A q \in Requests : q # r => request'[q] = request[q]
          /\ request' \in [Requests -> {Idling} \union Asked]
      BY <1>2, <1>3, <2>1 DEF RateShape, Asked
    <2>3. RateShape'
      <3>1. \A q \in Requests : request'[q] # Idling =>
              request'[q].now <= clock' /\ request'[q].ptr # 1 /\ request'[q].ptr <= Len(buckets')
        BY <1>1, <1>2, <2>1, <2>2 DEF RateShape
      <3>2. QED
        BY <1>1, <2>1, <2>2, <3>1 DEF RateShape
    <2>4. OwnBuckets'
      <3>1. ASSUME NEW q \in Requests, request'[q] # Idling, request'[q].ptr # 0
            PROVE  /\ request'[q].who \notin orphaned => bucketOf[request'[q].who] = request'[q].ptr
                   /\ \A m \in Identities : bucketOf[m] = request'[q].ptr => m = request'[q].who
        <4>1. CASE q = r
          <5>1. \A m \in Identities : bucketOf[m] = bucketOf[n] => m = n
            BY <1>2, <1>4 DEF OwnBuckets
          <5>2. QED
            BY <2>2, <4>1, <5>1
        <4>2. CASE q # r
          BY <2>2, <3>1, <4>2 DEF OwnBuckets
        <4>3. QED
          BY <4>1, <4>2
      <3>2. QED
        BY <2>1, <3>1 DEF OwnBuckets
    <2>5. AllPaid'
      BY <1>1, <2>1 DEF AllPaid, BucketOf
    <2>6. QED
      BY <2>3, <2>4, <2>5
  <1>5. CASE bucketOf[n] = 0
    <2>1. /\ buckets' = Append(buckets, NewBucket)
          /\ bucketOf' = [p \in Identities |-> IF p \in purged THEN 0
                                               ELSE IF p = n THEN id ELSE bucketOf[p]]
          /\ orphaned' = orphaned \union {p \in purged : p = n \/ InUse(p)}
          /\ request' = [request EXCEPT ![r].ptr = id]
      BY <1>5 DEF GetBucket
    <2>2. /\ request'[r] = [request[r] EXCEPT !.ptr = id] /\ request'[r] \in Asked
          /\ request'[r].ptr = id /\ request'[r].who = n /\ request'[r].now = request[r].now
          /\ \A q \in Requests : q # r => request'[q] = request[q]
          /\ request' \in [Requests -> {Idling} \union Asked]
      <3>1. id \in Nat
        BY <1>2
      <3>2. [request[r] EXCEPT !.ptr = id] \in Asked
        BY <1>3, <3>1
      <3> HIDE DEF id
      <3>3. QED
        BY <1>2, <2>1, <3>1, <3>2 DEF RateShape, Asked
    <2>3. NewBucket \in Bucket /\ NewBucket.last = Never /\ Never <= clock
      BY DEF NewBucket, Bucket, Never, RateShape
    <2>4. /\ buckets' \in Seq(Bucket) /\ Len(buckets') = id /\ id \in Nat /\ id > 1
          /\ buckets'[id] = NewBucket
          /\ \A i \in 1..Len(buckets) : buckets'[i] = buckets[i]
      BY <1>2, <2>1, <2>3 DEF RateShape
    <2>5. purged \subseteq Identities
      BY <1>2 DEF Peers, Identities
    <2>6. \A p \in Identities : \/ bucketOf'[p] = 0
                                \/ p = n /\ bucketOf'[p] = id
                                \/ p # n /\ bucketOf'[p] = bucketOf[p] /\ p \notin purged
      BY <2>1
    <2> HIDE DEF purged
    <2>7. RateShape'
      <3>1. bucketOf' \in [Identities -> Nat]
        BY <2>1, <2>4 DEF RateShape
      <3>2. orphaned' \subseteq Identities
        BY <2>1, <2>5 DEF RateShape
      <3>3. \A i \in 1..Len(buckets') : buckets'[i].last <= clock'
        <4> SUFFICES ASSUME NEW i \in 1..id PROVE buckets'[i].last <= clock
          BY <1>1, <2>4
        <4>1. CASE i = id
          BY <2>3, <2>4, <4>1
        <4>2. CASE i \in 1..Len(buckets)
          BY <2>4, <4>2 DEF RateShape
        <4>3. QED
          BY <1>2, <4>1, <4>2
      <3>4. \A p \in Identities : bucketOf'[p] # 1 /\ bucketOf'[p] <= Len(buckets')
        <4> SUFFICES ASSUME NEW p \in Identities PROVE bucketOf'[p] # 1 /\ bucketOf'[p] <= id
          BY <2>4
        <4>1. bucketOf[p] \in Nat /\ bucketOf[p] # 1 /\ bucketOf[p] <= Len(buckets)
          BY DEF RateShape
        <4>2. QED
          BY <1>2, <2>4, <2>6, <4>1
      <3>5. \A q \in Requests : request'[q] # Idling =>
              request'[q].now <= clock' /\ request'[q].ptr # 1 /\ request'[q].ptr <= Len(buckets')
        <4> SUFFICES ASSUME NEW q \in Requests, request'[q] # Idling
                     PROVE  request'[q].now <= clock /\ request'[q].ptr # 1 /\ request'[q].ptr <= id
          BY <1>1, <2>4
        <4>1. CASE q = r
          <5>1. request'[r].now <= clock
            BY <1>2, <2>2
          <5>2. request'[r].ptr # 1 /\ request'[r].ptr <= id
            BY <2>2, <2>4
          <5>3. QED
            BY <4>1, <5>1, <5>2
        <4>2. CASE q # r
          <5>1. /\ request[q].ptr \in Nat /\ request[q].ptr # 1 /\ request[q].ptr <= Len(buckets)
                /\ request[q].now <= clock
            BY <2>2, <4>2, TaskOfRequest
          <5>2. QED
            BY <1>2, <2>2, <4>2, <5>1
        <4>3. QED
          BY <4>1, <4>2
      <3>6. QED
        BY <1>1, <1>2, <2>2, <2>4, <3>1, <3>2, <3>3, <3>4, <3>5 DEF RateShape
    <2>8. \A p \in Identities : bucketOf[p] \in Nat /\ bucketOf[p] < id
      BY <1>2 DEF RateShape
    <2>9. OwnBuckets'
      <3>1. ASSUME NEW p \in Identities, NEW m \in Identities,
                   bucketOf'[p] = bucketOf'[m], bucketOf'[p] # 0
            PROVE  p = m
        BY <2>6, <2>8, <3>1 DEF OwnBuckets
      <3>2. ASSUME NEW q \in Requests, request'[q] # Idling, request'[q].ptr # 0
            PROVE  /\ request'[q].who \notin orphaned' => bucketOf'[request'[q].who] = request'[q].ptr
                   /\ \A m \in Identities : bucketOf'[m] = request'[q].ptr => m = request'[q].who
        <4>1. CASE q = r
          <5>1. n \notin orphaned' => bucketOf'[n] = id
            BY <1>2, <2>1
          <5>2. \A m \in Identities : bucketOf'[m] = id => m = n
            BY <2>4, <2>6, <2>8
          <5>3. QED
            BY <2>2, <4>1, <5>1, <5>2
        <4>2. CASE q # r
          <5> DEFINE w == request[q].who
          <5>1. /\ request'[q] = request[q] /\ request[q] # Idling /\ request[q].ptr # 0
                /\ w \in Identities
                /\ request[q].ptr \in Nat /\ request[q].ptr <= Len(buckets)
            BY <2>2, <3>2, <4>2, TaskOfRequest
          <5>2. /\ w \notin orphaned => bucketOf[w] = request[q].ptr
                /\ \A m \in Identities : bucketOf[m] = request[q].ptr => m = w
            BY <5>1 DEF OwnBuckets
          <5>3. InUse(w)
            BY <5>1 DEF InUse
          <5>4. w \notin orphaned' => w \notin purged /\ w \notin orphaned
            BY <2>1, <5>3
          <5>5. w \notin orphaned' => bucketOf'[w] = request[q].ptr
            <6> SUFFICES ASSUME w \notin orphaned' PROVE bucketOf'[w] = request[q].ptr
              OBVIOUS
            <6>1. bucketOf[w] = request[q].ptr /\ w # n
              BY <1>5, <5>1, <5>2, <5>4
            <6>2. QED
              BY <2>1, <5>1, <5>4, <6>1
          <5>6. \A m \in Identities : bucketOf'[m] = request[q].ptr => m = w
            <6> SUFFICES ASSUME NEW m \in Identities, bucketOf'[m] = request[q].ptr PROVE m = w
              OBVIOUS
            <6>1. bucketOf'[m] # 0 /\ bucketOf'[m] # id
              BY <1>2, <5>1
            <6>2. bucketOf'[m] = bucketOf[m]
              BY <2>6, <6>1
            <6>3. QED
              BY <5>2, <6>2
          <5>7. QED
            BY <5>1, <5>5, <5>6
        <4>3. QED
          BY <4>1, <4>2
      <3>3. QED
        BY <3>1, <3>2 DEF OwnBuckets
    <2>10. ASSUME NEW m \in Owners \ orphaned'
           PROVE  Paid(m, IF BucketOf(m)' = 0 THEN NewBucket ELSE buckets'[BucketOf(m)'],
                       taken[m] * TicksPerMinute, clock)
      <3>1. m \in Owners /\ m \notin orphaned /\ clock \in Nat
        BY <2>1 DEF RateShape
      <3>2. Paid(m, IF BucketOf(m) = 0 THEN NewBucket ELSE buckets[BucketOf(m)],
                 taken[m] * TicksPerMinute, clock)
        BY <3>1 DEF AllPaid
      <3>3. taken[m] * TicksPerMinute \in Nat
        BY <3>1, RateOfTier, OneMore DEF RateShape
      <3>4. CASE BucketOf(m)' = BucketOf(m)
        <4>1. BucketOf(m) = 0 \/ BucketOf(m) \in 1..Len(buckets)
          <5>1. CASE m = "global"
            BY <1>2, <5>1 DEF BucketOf
          <5>2. CASE m # "global"
            <6>1. m \in Identities
              BY <3>1, <5>2 DEF Owners
            <6>2. QED
              BY <5>2, <6>1 DEF BucketOf, RateShape
          <5>3. QED
            BY <5>1, <5>2
        <4>2. QED
          BY <2>4, <3>2, <3>4, <4>1
      <3>5. CASE BucketOf(m)' # BucketOf(m)
        <4>1. m # "global" /\ m \in Identities /\ BucketOf(m)' = bucketOf'[m] /\ BucketOf(m) = bucketOf[m]
          BY <3>1, <3>5 DEF BucketOf, Owners
        <4>2. CASE m = n
          <5>1. Paid(m, NewBucket, taken[m] * TicksPerMinute, clock)
            BY <1>5, <3>2, <4>1, <4>2
          <5>2. bucketOf'[m] = 0 \/ bucketOf'[m] = id
            BY <2>6, <4>1, <4>2
          <5>3. QED
            BY <2>4, <4>1, <5>1, <5>2
        <4>3. CASE m # n
          <5>1. bucketOf'[m] = 0 /\ m \in purged
            BY <2>1, <3>5, <4>1, <4>3
          <5>2. LooksIdle(buckets[bucketOf[m]]) /\ bucketOf[m] # 0
            BY <4>3, <5>1 DEF purged
          <5>3. buckets[bucketOf[m]] \in Bucket
            <6>1. bucketOf[m] \in 1..Len(buckets)
              BY <4>1, <5>2 DEF RateShape
            <6>2. QED
              BY <6>1 DEF RateShape
          <5>4. taken[m] * TicksPerMinute <= Rpm[Tier(m)] * clock
            BY <3>1, <3>2, <3>3, <4>1, <5>2, <5>3, IdleIsPaid
          <5>5. QED
            BY <2>3, <4>1, <5>1, <5>4 DEF Paid
        <4>4. QED
          BY <4>2, <4>3
      <3>6. QED
        BY <3>4, <3>5
    <2>11. AllPaid'
      BY <1>1, <2>10 DEF AllPaid
    <2>12. QED
      BY <2>7, <2>9, <2>11
  <1>6. QED
    BY <1>4, <1>5

LEMMA TakeBucketStep ==
  ASSUME RateInv, NEW r \in Requests, TakeBucket(r)
  PROVE  RateInv'
  <1> USE DEF RateInv
  <1> DEFINE q == request[r]
             n == request[r].who
             i == request[r].ptr
             onward == [q EXCEPT !.pc = "client", !.who = q.client, !.ptr = 0]
  <1>1. /\ request[r] # Idling /\ i # 0 /\ Take(n, i, q.now)
        /\ clock' = clock /\ bucketOf' = bucketOf
        /\ request' \in {[request EXCEPT ![r] = onward], [request EXCEPT ![r] = Idling]}
        /\ orphaned' = IF SeededLate(q) THEN orphaned \union {n} ELSE orphaned
    BY DEF TakeBucket
  <1>2. /\ q \in Asked /\ n \in Identities /\ q.client \in Identities
        /\ q.now \in Nat /\ q.now <= clock /\ clock \in Nat
        /\ i \in Nat /\ i # 1 /\ i <= Len(buckets)
        /\ n # "global" /\ n \in Owners
    BY <1>1, TaskOfRequest DEF RateShape
  <1>3. i \in 1..Len(buckets)
    BY <1>1, <1>2
  <1>4. /\ buckets' \in Seq(Bucket) /\ Len(buckets') = Len(buckets)
        /\ \A j \in 1..Len(buckets) : j # i => buckets'[j] = buckets[j]
        /\ buckets'[i].last \in Nat /\ buckets'[i].last <= clock
        /\ taken' \in [Owners -> Nat]
        /\ \A m \in Owners : m # n => taken'[m] = taken[m]
        /\ Paid(n, buckets[i], taken[n] * TicksPerMinute, q.now) =>
             Paid(n, buckets'[i], taken'[n] * TicksPerMinute, clock)
    BY <1>1, <1>2, <1>3, Taken
  <1>5. onward \in Asked /\ onward.now = q.now /\ onward.ptr = 0
    BY <1>2 DEF Asked
  <1> HIDE DEF onward
  <1>6. /\ request'[r] \in {onward, Idling}
        /\ \A p \in Requests : p # r => request'[p] = request[p]
        /\ request' \in [Requests -> {Idling} \union Asked]
    BY <1>1, <1>5 DEF RateShape
  <1>7. RateShape'
    <2>1. \A j \in 1..Len(buckets') : buckets'[j].last <= clock'
      BY <1>1, <1>4 DEF RateShape
    <2>2. orphaned' \subseteq Identities
      BY <1>1, <1>2 DEF RateShape
    <2>3. \A p \in Requests : request'[p] # Idling =>
            request'[p].now <= clock' /\ request'[p].ptr # 1 /\ request'[p].ptr <= Len(buckets')
      BY <1>1, <1>2, <1>4, <1>5, <1>6 DEF RateShape
    <2>4. QED
      BY <1>1, <1>4, <1>6, <2>1, <2>2, <2>3 DEF RateShape
  <1>8. OwnBuckets'
    <2>1. ASSUME NEW p \in Requests, request'[p] # Idling, request'[p].ptr # 0
          PROVE  /\ request'[p].who \notin orphaned' => bucketOf[request'[p].who] = request'[p].ptr
                 /\ \A m \in Identities : bucketOf[m] = request'[p].ptr => m = request'[p].who
      <3>1. p # r
        BY <1>5, <1>6, <2>1
      <3>2. request'[p] = request[p]
        BY <1>6, <3>1
      <3>3. orphaned \subseteq orphaned'
        BY <1>1
      <3>4. QED
        BY <2>1, <3>2, <3>3 DEF OwnBuckets
    <2>2. QED
      BY <1>1, <2>1 DEF OwnBuckets
  <1>9. ASSUME NEW m \in Owners \ orphaned'
        PROVE  Paid(m, IF BucketOf(m)' = 0 THEN NewBucket ELSE buckets'[BucketOf(m)'],
                    taken'[m] * TicksPerMinute, clock)
    <2>1. m \in Owners /\ m \notin orphaned /\ BucketOf(m)' = BucketOf(m)
      BY <1>1 DEF BucketOf
    <2>2. Paid(m, IF BucketOf(m) = 0 THEN NewBucket ELSE buckets[BucketOf(m)],
               taken[m] * TicksPerMinute, clock)
      BY <2>1 DEF AllPaid
    <2>3. CASE m = n
      <3>1. BucketOf(m) = i
        BY <1>1, <1>2, <2>1, <2>3 DEF BucketOf, OwnBuckets
      <3>2. Paid(n, buckets[i], taken[n] * TicksPerMinute, clock)
        BY <1>1, <2>2, <2>3, <3>1
      <3>3. Paid(n, buckets[i], taken[n] * TicksPerMinute, q.now)
        <4>1. CASE buckets[i].last # Never
          BY <3>2, <4>1 DEF Paid
        <4>2. CASE buckets[i].last = Never
          <5>1. taken[n] = 0 \/ q.now = clock
            <6>1. ~SeededLate(q)
              BY <1>1, <2>3
            <6>2. taken[n] \in Nat
              BY <1>2 DEF RateShape
            <6>3. QED
              BY <1>2, <4>2, <6>1, <6>2 DEF SeededLate
          <5>2. ASSUME taken[n] = 0
                PROVE  taken[n] * TicksPerMinute <= Rpm[Tier(n)] * q.now
            <6>1. Rpm[Tier(n)] \in Nat /\ TicksPerMinute \in Nat
              BY RateOfTier
            <6>2. Rpm[Tier(n)] * q.now \in Nat
              BY <1>2, <6>1, MoreTime
            <6>3. QED
              BY <5>2, <6>1, <6>2
          <5>3. QED
            BY <3>2, <4>2, <5>1, <5>2 DEF Paid
        <4>3. QED
          BY <4>1, <4>2
      <3>4. QED
        BY <1>1, <1>4, <2>1, <2>3, <3>1, <3>3
    <2>4. CASE m # n
      <3>1. BucketOf(m) # i
        <4>1. CASE m = "global"
          BY <1>2, <4>1 DEF BucketOf
        <4>2. CASE m # "global"
          <5>1. m \in Identities /\ BucketOf(m) = bucketOf[m]
            BY <2>1, <4>2 DEF BucketOf, Owners
          <5>2. QED
            BY <1>1, <2>4, <5>1 DEF OwnBuckets
        <4>3. QED
          BY <4>1, <4>2
      <3>2. BucketOf(m) = 0 \/ BucketOf(m) \in 1..Len(buckets)
        <4>1. CASE m = "global"
          BY <1>3, <4>1 DEF BucketOf
        <4>2. CASE m # "global"
          <5>1. m \in Identities
            BY <2>1, <4>2 DEF Owners
          <5>2. QED
            BY <4>2, <5>1 DEF BucketOf, RateShape
        <4>3. QED
          BY <4>1, <4>2
      <3>3. taken'[m] = taken[m]
        BY <1>4, <2>1, <2>4
      <3>4. QED
        BY <1>4, <2>1, <2>2, <3>1, <3>2, <3>3
    <2>5. QED
      BY <2>3, <2>4
  <1>10. AllPaid'
    BY <1>1, <1>9 DEF AllPaid
  <1>11. QED
    BY <1>7, <1>8, <1>10

LEMMA RateInvStep == RateInv /\ [RateNext]_rateVars => RateInv'
  <1> SUFFICES ASSUME RateInv, [RateNext]_rateVars PROVE RateInv'
    OBVIOUS
  <1>1. CASE UNCHANGED rateVars
    BY <1>1 DEF rateVars, RateInv, RateShape, OwnBuckets, AllPaid, BucketOf
  <1>2. CASE RateNext
    BY <1>2, AllowStep, GetBucketStep, TakeBucketStep, ClockTicksStep DEF RateNext
  <1>3. QED
    BY <1>1, <1>2

LEMMA AllPaidIsWithinBudget == RateInv => WithinBudget
  <1> SUFFICES ASSUME RateInv, NEW n \in DOMAIN taken \ orphaned
               PROVE  taken[n] * TicksPerMinute <= Capacity(n) + Rpm[Tier(n)] * clock
    BY DEF WithinBudget
  <1> USE DEF RateInv
  <1> DEFINE b == IF BucketOf(n) = 0 THEN NewBucket ELSE buckets[BucketOf(n)]
  <1>1. n \in Owners /\ n \notin orphaned /\ clock \in Nat /\ taken[n] \in Nat
    BY DEF RateShape
  <1>2. Paid(n, b, taken[n] * TicksPerMinute, clock)
    BY <1>1 DEF AllPaid
  <1>3. b \in Bucket /\ b.last <= clock
    <2>1. BucketOf(n) = 0 \/ BucketOf(n) \in 1..Len(buckets)
      <3>1. CASE n = "global"
        BY <3>1 DEF BucketOf, RateShape
      <3>2. CASE n # "global"
        BY <1>1, <3>2 DEF BucketOf, RateShape, Owners
      <3>3. QED
        BY <3>1, <3>2
    <2>2. NewBucket \in Bucket /\ NewBucket.last <= clock
      BY <1>1 DEF NewBucket, Bucket, Never
    <2>3. QED
      BY <2>1, <2>2 DEF RateShape
  <1>4. /\ Rpm[Tier(n)] \in Nat /\ Capacity(n) \in Nat /\ TicksPerMinute \in Nat
        /\ taken[n] * TicksPerMinute \in Nat /\ Rpm[Tier(n)] * clock \in Nat
    BY <1>1, RateOfTier, OneMore, MoreTime
  <1> HIDE DEF b
  <1>5. CASE b.last = Never
    BY <1>2, <1>4, <1>5 DEF Paid
  <1>6. CASE b.last # Never
    <2>1. b.last \in Nat /\ b.tokens \in Nat
      BY <1>3, <1>6 DEF Bucket
    <2>2. Rpm[Tier(n)] * b.last <= Rpm[Tier(n)] * clock /\ Rpm[Tier(n)] * b.last \in Nat
      BY <1>1, <1>3, <1>4, <2>1, MoreTime
    <2>3. QED
      BY <1>2, <1>4, <1>6, <2>1, <2>2 DEF Paid
  <1>7. QED
    BY <1>5, <1>6

\* No tier grants more than a full bucket and what time has refilled, for any rates,
\* identities, requests and bound on the buckets (ratelimit.go:23-121).
THEOREM NoTierExceeded == RateSpec => []WithinBudget
  <1>1. RateSpec => []RateInv
    BY RateInvInit, RateInvStep, PTL DEF RateSpec
  <1>2. QED
    BY <1>1, AllPaidIsWithinBudget, PTL

LEMMA ClockIsBounded == RateSpec => [](RateInv /\ clock <= MaxTime)
  <1>1. RateInit => RateInv /\ clock <= MaxTime
    BY RateInvInit, RateAssumption DEF RateInit
  <1>2. RateInv /\ clock <= MaxTime /\ [RateNext]_rateVars => (RateInv /\ clock <= MaxTime)'
    <2> SUFFICES ASSUME RateInv, clock <= MaxTime, [RateNext]_rateVars
                 PROVE  clock' <= MaxTime
      BY RateInvStep
    <2>1. clock' = clock \/ (clock' = clock + 1 /\ clock < MaxTime)
      <3>1. CASE \E r \in Requests, a \in Accounts, c \in ClientIds : Allow(r, a, c)
        BY <3>1 DEF Allow
      <3>2. CASE \E r \in Requests : GetBucket(r) \/ TakeBucket(r)
        BY <3>2 DEF GetBucket, TakeBucket
      <3>3. CASE ClockTicks \/ UNCHANGED rateVars
        BY <3>3 DEF ClockTicks, rateVars
      <3>4. QED
        BY <3>1, <3>2, <3>3 DEF RateNext
    <2>2. clock \in Nat /\ MaxTime \in Nat
      BY RateAssumption DEF RateInv, RateShape
    <2>3. QED
      BY <2>1, <2>2
  <1>3. QED
    BY <1>1, <1>2, PTL DEF RateSpec

\* The limiter's variables keep their types: no request holds a bucket that is not there,
\* and none has been used in the future (ratelimit.go:23-121).
THEOREM RateTypeCorrect == RateSpec => []RateTyped
  <1>1. ASSUME RateInv, clock <= MaxTime PROVE RateTyped
    <2>1. clock \in 0..MaxTime /\ orphaned \subseteq Identities
      BY <1>1, RateAssumption DEF RateInv, RateShape
    <2>2. DOMAIN buckets = 1..Len(buckets) /\ \A i \in DOMAIN buckets : buckets[i] \in Bucket
      BY <1>1 DEF RateInv, RateShape
    <2>3. \A i \in DOMAIN buckets : buckets[i].tokens \in Nat /\ buckets[i].last \in -1..MaxTime
      BY <1>1, <2>1, <2>2, RateAssumption DEF RateInv, RateShape, Bucket, Never
    <2>4. \A n \in Identities : bucketOf[n] \in {0} \union DOMAIN buckets
      BY <1>1, <2>2 DEF RateInv, RateShape
    <2>5. \A r \in Requests : request[r] = Idling \/ request[r].pc \in {"account", "client"}
      BY <1>1 DEF RateInv, RateShape, Asked
    <2>6. QED
      BY <2>1, <2>3, <2>4, <2>5 DEF RateTyped
  <1>2. QED
    BY <1>1, ClockIsBounded, PTL

----------------------------------------------------------------------------
(***************************************************************************)
(* ProxyPool.  From the lookup of a refresh until its list is installed,   *)
(* what the refresh still keeps has been confirmed.                        *)
(***************************************************************************)
Strictly == mode.strict /\ mode.verify

KeptIsConfirmed ==
    /\ ~mode.on => refresh = Sleeping
    /\ Strictly /\ refresh # Sleeping /\ refresh.pc \in {"verified", "checked"} =>
          refresh.hosts \subseteq confirmed

LEMMA KeptInit == ProxyInit => KeptIsConfirmed
  BY DEF ProxyInit, KeptIsConfirmed

LEMMA KeptStep == KeptIsConfirmed /\ [ProxyNext]_proxyVars => KeptIsConfirmed'
  <1> SUFFICES ASSUME KeptIsConfirmed, [ProxyNext]_proxyVars
               PROVE  KeptIsConfirmed'
    OBVIOUS
  <1>1. CASE StartPool
    <2>1. ~mode.on
      BY <1>1 DEF StartPool, Off
    <2>2. refresh' = Sleeping
      BY <1>1, <2>1 DEF StartPool, KeptIsConfirmed
    <2>3. QED
      BY <2>2 DEF KeptIsConfirmed
  <1>2. CASE FetchList
    <2>1. mode.on /\ mode' = mode /\ refresh'.pc = "listed"
      BY <1>2 DEF FetchList
    <2>2. QED
      BY <2>1 DEF KeptIsConfirmed
  <1>3. CASE Verify
    <2>1. refresh # Sleeping /\ mode' = mode
      BY <1>3 DEF Verify, Sleeping
    <2>2. CASE Strictly
      <3>1. PICK found \in SUBSET refresh.hosts :
              /\ confirmed' = (confirmed \ refresh.hosts) \union found
              /\ refresh' = IF GeoVerified(refresh.hosts, found) = {} THEN Sleeping
                            ELSE [pc |-> "verified", hosts |-> GeoVerified(refresh.hosts, found),
                                  says |-> [h \in GeoVerified(refresh.hosts, found) |-> "US"]]
        BY <1>3, <2>2 DEF Verify, Strictly
      <3>2. refresh' = Sleeping \/ refresh'.hosts = GeoVerified(refresh.hosts, found)
        BY <3>1
      <3>3. GeoVerified(refresh.hosts, found) \subseteq confirmed'
        BY <3>1 DEF GeoVerified
      <3>4. QED
        BY <2>1, <3>2, <3>3 DEF KeptIsConfirmed
    <2>3. CASE ~Strictly
      BY <2>1, <2>3 DEF KeptIsConfirmed, Strictly
    <2>4. QED
      BY <2>2, <2>3
  <1>4. CASE HealthChecks
    <2>1. refresh # Sleeping /\ refresh.pc = "verified" /\ mode' = mode /\ confirmed' = confirmed
      BY <1>4 DEF HealthChecks, Sleeping
    <2>2. PICK up \in SUBSET refresh.hosts :
            LET healthy == {h \in up : ~(mode.strict /\ refresh.says[h] = "other")}
            IN  refresh' = IF healthy = {} /\ mode.strict THEN Sleeping
                           ELSE [pc |-> "checked", alive |-> healthy # {},
                                 hosts |-> IF healthy = {} THEN refresh.hosts ELSE healthy]
      BY <1>4 DEF HealthChecks, Reachable
    <2>3. refresh' = Sleeping \/ refresh'.hosts \subseteq refresh.hosts
      BY <2>2
    <2>4. QED
      BY <2>1, <2>3 DEF KeptIsConfirmed, Strictly
  <1>5. CASE Install
    BY <1>5 DEF Install, KeptIsConfirmed
  <1>6. ASSUME NEW c \in Callers, NextProxy(c) \/ MarkFailure(c) \/ MarkSuccess(c)
        PROVE  KeptIsConfirmed'
    BY <1>6 DEF NextProxy, MarkFailure, MarkSuccess, KeptIsConfirmed, Strictly
  <1>7. CASE UNCHANGED proxyVars
    BY <1>7 DEF proxyVars, KeptIsConfirmed, Strictly
  <1>8. QED
    BY <1>1, <1>2, <1>3, <1>4, <1>5, <1>6, <1>7 DEF ProxyNext

\* With StrictGeo and GeoVerify no proxy enters the pool that the lookup of the same
\* refresh has not confirmed, whatever fails (proxy.go:135-206, 395-456).
THEOREM StrictPoolFailsClosed == ProxySpec => StrictFailsClosed
  <1>1. ASSUME KeptIsConfirmed, [ProxyNext]_proxyVars, Strictly, refresh' # refresh,
               proxies' # proxies \/ refresh.pc = "checked"
        PROVE  \A i \in DOMAIN proxies' : proxies'[i].host \in confirmed
    <2>1. Install
      <3>1. refresh # Sleeping \/ proxies' # proxies
        BY <1>1 DEF Sleeping
      <3>2. ~FetchList /\ ~StartPool
        BY <1>1, <3>1 DEF FetchList, StartPool
      <3>3. ~Verify /\ ~HealthChecks
        BY <1>1 DEF Verify, HealthChecks
      <3>4. ~\E c \in Callers : NextProxy(c) \/ MarkFailure(c) \/ MarkSuccess(c)
        BY <1>1 DEF NextProxy, MarkFailure, MarkSuccess
      <3>5. QED
        BY <1>1, <3>2, <3>3, <3>4 DEF ProxyNext, proxyVars
    <2>2. refresh # Sleeping /\ refresh.pc = "checked"
      BY <2>1 DEF Install, Sleeping
    <2>3. refresh.hosts \subseteq confirmed
      BY <1>1, <2>2 DEF KeptIsConfirmed
    <2>4. PICK s \in Orders(refresh.hosts) :
            proxies' = [i \in DOMAIN s |-> [host |-> s[i], alive |-> refresh.alive, failures |-> 0]]
      BY <2>1 DEF Install
    <2>5. \A i \in DOMAIN s : s[i] \in refresh.hosts
      BY DEF Orders
    <2>6. QED
      BY <2>3, <2>4, <2>5
  <1>2. KeptIsConfirmed /\ [ProxyNext]_proxyVars =>
          [mode.strict /\ mode.verify
           /\ (refresh' # refresh /\ (proxies' # proxies \/ refresh.pc = "checked")) =>
             \A i \in DOMAIN proxies' : proxies'[i].host \in confirmed]_proxyVars
    BY <1>1 DEF Strictly
  <1>3. QED
    BY <1>2, KeptInit, KeptStep, PTL DEF ProxySpec, StrictFailsClosed

\* What a refresh carries, and a pool that names no more proxies than there are hosts.
ProxyShape ==
    /\ mode \in [strict : BOOLEAN, verify : BOOLEAN, on : BOOLEAN]
    /\ proxies \in Seq(ProxyEntry) /\ Len(proxies) <= Cardinality(Hosts)
    /\ cursor \in Nat /\ (cursor = 0 \/ cursor < Len(proxies))
    /\ holding \in [Callers -> Hosts \union {"none"}]
    /\ confirmed \subseteq Hosts
    /\ refresh # Sleeping =>
          /\ refresh.pc \in {"listed", "verified", "checked"}
          /\ refresh.hosts \subseteq Hosts
          /\ refresh.pc = "checked" => refresh.alive \in BOOLEAN

LEMMA HostsAreCounted ==
  ASSUME NEW S \in SUBSET Hosts
  PROVE  /\ Cardinality(S) \in Nat /\ Cardinality(Hosts) \in Nat
         /\ Cardinality(S) <= Cardinality(Hosts)
  BY ProxyAssumption, FS_Subset, FS_CardinalityType

LEMMA ProxyShapeInit == ProxyInit => ProxyShape
  <1> SUFFICES ASSUME ProxyInit PROVE ProxyShape
    OBVIOUS
  <1>1. proxies \in Seq(ProxyEntry) /\ Len(proxies) = 0 /\ cursor = 0
    BY DEF ProxyInit
  <1>2. Cardinality(Hosts) \in Nat
    BY HostsAreCounted
  <1>3. QED
    BY <1>1, <1>2 DEF ProxyInit, ProxyShape, Off, Sleeping

\* A round of the pool that touches neither the refresh nor the list.
LEMMA SlotIsInPool ==
  ASSUME ProxyShape, NEW k \in 0..Len(proxies) - 1
  PROVE  /\ Slot(k) \in 1..Len(proxies) /\ proxies[Slot(k)] \in ProxyEntry
         /\ (cursor + k + 1) % Len(proxies) \in 0..Len(proxies) - 1
  <1>1. PICK n \in Nat \ {0} : n = Len(proxies)
    BY DEF ProxyShape
  <1>2. PICK at \in 0..n - 1 : at = cursor
    BY <1>1 DEF ProxyShape
  <1>3. PICK m \in Nat : m = cursor + k
    BY <1>1, <1>2
  <1>4. m % n \in 0..n - 1 /\ (m + 1) % n \in 0..n - 1
    BY <1>1, <1>3
  <1>5. Slot(k) = at + 1 \/ Slot(k) = (m % n) + 1
    BY <1>1, <1>2, <1>3 DEF Slot
  <1>6. Slot(k) \in 1..Len(proxies)
    BY <1>1, <1>2, <1>4, <1>5
  <1>7. proxies[Slot(k)] \in ProxyEntry
    BY <1>6 DEF ProxyShape
  <1>8. QED
    BY <1>1, <1>3, <1>4, <1>6, <1>7

LEMMA ProxyShapeStep == ProxyShape /\ [ProxyNext]_proxyVars => ProxyShape'
  <1> SUFFICES ASSUME ProxyShape, [ProxyNext]_proxyVars PROVE ProxyShape'
    OBVIOUS
  <1> USE DEF ProxyShape
  <1>1. CASE StartPool
    BY <1>1 DEF StartPool
  <1>2. CASE FetchList
    <2>1. PICK says \in ParsedLists :
             refresh' = [pc |-> "listed", hosts |-> DOMAIN says, says |-> says]
      BY <1>2 DEF FetchList
    <2>2. DOMAIN says \subseteq Hosts
      BY DEF ParsedLists
    <2>3. QED
      BY <1>2, <2>1, <2>2 DEF FetchList
  <1>3. CASE Verify
    <2>1. refresh # Sleeping /\ refresh.hosts \subseteq Hosts
      BY <1>3 DEF Verify, Sleeping
    <2>2. CASE mode.strict /\ mode.verify
      <3>1. PICK found \in SUBSET refresh.hosts :
              /\ confirmed' = (confirmed \ refresh.hosts) \union found
              /\ refresh' = IF GeoVerified(refresh.hosts, found) = {} THEN Sleeping
                            ELSE [pc |-> "verified", hosts |-> GeoVerified(refresh.hosts, found),
                                  says |-> [h \in GeoVerified(refresh.hosts, found) |-> "US"]]
        BY <1>3, <2>2 DEF Verify
      <3>2. GeoVerified(refresh.hosts, found) \subseteq Hosts /\ confirmed' \subseteq Hosts
        BY <2>1, <3>1 DEF GeoVerified
      <3>3. QED
        BY <1>3, <3>1, <3>2 DEF Verify
    <2>3. CASE ~(mode.strict /\ mode.verify)
      <3>1. refresh' = [refresh EXCEPT !.pc = "verified"] /\ UNCHANGED confirmed
        BY <1>3, <2>3 DEF Verify
      <3>2. refresh'.hosts = refresh.hosts /\ (refresh'.pc = "verified" \/ refresh'.pc = refresh.pc)
        BY <3>1
      <3>3. QED
        BY <1>3, <2>1, <3>1, <3>2 DEF Verify
    <2>4. QED
      BY <2>2, <2>3
  <1>4. CASE HealthChecks
    <2>1. refresh # Sleeping /\ refresh.hosts \subseteq Hosts
      BY <1>4 DEF HealthChecks, Sleeping
    <2>2. PICK up \in SUBSET refresh.hosts :
            LET healthy == {h \in up : ~(mode.strict /\ refresh.says[h] = "other")}
            IN  refresh' = IF healthy = {} /\ mode.strict THEN Sleeping
                           ELSE [pc |-> "checked", alive |-> healthy # {},
                                 hosts |-> IF healthy = {} THEN refresh.hosts ELSE healthy]
      BY <1>4 DEF HealthChecks, Reachable
    <2>3. QED
      BY <1>4, <2>1, <2>2 DEF HealthChecks
  <1>5. CASE Install
    <2>1. refresh # Sleeping /\ refresh.hosts \subseteq Hosts /\ refresh.alive \in BOOLEAN
      BY <1>5 DEF Install, Sleeping
    <2>2. PICK s \in Orders(refresh.hosts) :
             proxies' = [i \in DOMAIN s |-> [host |-> s[i], alive |-> refresh.alive, failures |-> 0]]
      BY <1>5 DEF Install
    <2>3. s \in [1..Cardinality(refresh.hosts) -> refresh.hosts]
      BY DEF Orders
    <2>4. Cardinality(refresh.hosts) \in Nat /\ Cardinality(refresh.hosts) <= Cardinality(Hosts)
          /\ Cardinality(Hosts) \in Nat
      BY <2>1, HostsAreCounted
    <2>5. proxies' \in [1..Cardinality(refresh.hosts) -> ProxyEntry]
      BY <2>1, <2>2, <2>3 DEF ProxyEntry
    <2>6. proxies' \in Seq(ProxyEntry) /\ Len(proxies') = Cardinality(refresh.hosts)
      BY <2>4, <2>5
    <2>7. QED
      BY <1>5, <2>4, <2>6 DEF Install
  <1>6. ASSUME NEW c \in Callers, NextProxy(c) PROVE ProxyShape'
    <2>1. PICK k \in 0..Len(proxies) - 1 :
             /\ cursor' = (cursor + k + 1) % Len(proxies)
             /\ holding' = [holding EXCEPT ![c] = proxies[Slot(k)].host]
      BY <1>6 DEF NextProxy
    <2>2. proxies[Slot(k)].host \in Hosts /\ cursor' \in 0..Len(proxies) - 1
      BY <2>1, SlotIsInPool DEF ProxyEntry
    <2>3. cursor' \in Nat /\ cursor' < Len(proxies)
      BY <2>2
    <2>4. QED
      BY <1>6, <2>1, <2>2, <2>3 DEF NextProxy
  <1>7. ASSUME NEW c \in Callers, MarkFailure(c) \/ MarkSuccess(c) PROVE ProxyShape'
    <2>1. \A e \in ProxyEntry : Struck(e) \in ProxyEntry /\ Cleared(e) \in ProxyEntry
      <3> SUFFICES ASSUME NEW e \in ProxyEntry
                   PROVE  Struck(e) \in ProxyEntry /\ Cleared(e) \in ProxyEntry
        OBVIOUS
      <3>1. e = [host |-> e.host, alive |-> e.alive, failures |-> e.failures]
            /\ e.host \in Hosts /\ e.alive \in BOOLEAN /\ e.failures \in Nat
        BY DEF ProxyEntry
      <3>2. Cleared(e) \in ProxyEntry
        <4>1. \A yes \in BOOLEAN : [e EXCEPT !.failures = 0, !.alive = yes] \in ProxyEntry
          BY DEF ProxyEntry
        <4>2. QED
          BY <4>1, TRUE \in BOOLEAN, Zenon DEF Cleared
      <3> DEFINE up == e.alive /\ e.failures + 1 < MaxFailures
      <3>3. up \in BOOLEAN
        BY Zenon
      <3>4. Struck(e) = [host |-> e.host, alive |-> up, failures |-> e.failures + 1]
        <4>1. Struck(e) = [e EXCEPT !.failures = e.failures + 1, !.alive = up]
          BY <3>1, Zenon DEF Struck
        <4> HIDE DEF up
        <4>2. QED
          BY <3>1, <4>1 DEF ProxyEntry
      <3> HIDE DEF up
      <3>5. QED
        BY <3>1, <3>2, <3>3, <3>4 DEF ProxyEntry
    <2>2. \/ proxies' = [i \in DOMAIN proxies |->
                           IF proxies[i].host = holding[c] THEN Struck(proxies[i]) ELSE proxies[i]]
          \/ proxies' = [i \in DOMAIN proxies |->
                           IF proxies[i].host = holding[c] THEN Cleared(proxies[i]) ELSE proxies[i]]
      BY <1>7 DEF MarkFailure, MarkSuccess, ForHost
    <2>3. DOMAIN proxies = 1..Len(proxies) /\ Len(proxies) \in Nat
          /\ \A i \in DOMAIN proxies : proxies[i] \in ProxyEntry
      OBVIOUS
    <2>4. proxies' \in [1..Len(proxies) -> ProxyEntry]
      BY <2>1, <2>2, <2>3
    <2>5. proxies' \in Seq(ProxyEntry) /\ Len(proxies') = Len(proxies)
      BY <2>3, <2>4
    <2>6. holding' \in [Callers -> Hosts \union {"none"}]
      BY <1>7 DEF MarkFailure, MarkSuccess, Done
    <2>7. QED
      BY <1>7, <2>5, <2>6 DEF MarkFailure, MarkSuccess
  <1>8. CASE UNCHANGED proxyVars
    BY <1>8 DEF proxyVars
  <1>9. QED
    BY <1>1, <1>2, <1>3, <1>4, <1>5, <1>6, <1>7, <1>8 DEF ProxyNext

\* The proxy pool's variables keep their types: no list outgrows the hosts, and the
\* cursor, which Next uses as an index without a check, is inside the list, or 0,
\* through every replacement of it (proxy.go:135-330).
THEOREM ProxyTypeCorrect == ProxySpec => []ProxyTyped
  <1>1. ProxyShape => ProxyTyped
    BY DEF ProxyShape, ProxyTyped
  <1>2. QED
    BY <1>1, ProxyShapeInit, ProxyShapeStep, PTL DEF ProxySpec

(***************************************************************************)
(* Refresher.  When the countries are looked up something has answered,    *)
(* and what was found in the US is among it.                               *)
(***************************************************************************)
CycleOK ==
    /\ cycle.us \subseteq cycle.up
    /\ cycle.pc = "locate" => cycle.up # {} /\ cycle.todo \subseteq cycle.up

RefresherInv == RefresherTyped /\ CycleOK

\* A ranking names each of the ranked once.
LEMMA RankingsAreFair ==
  ASSUME NEW S \in SUBSET Candidates, NEW s \in Rankings(S)
  PROVE  /\ Cardinality(S) \in Nat
         /\ s \in Seq(S) /\ Len(s) = Cardinality(S)
         /\ \A i \in 1..Len(s) : s[i] \in S
         /\ \A i, j \in 1..Len(s) : s[i] = s[j] => i = j
         /\ s = << >> => S = {}
  <1>1. IsFiniteSet(S) /\ Cardinality(S) \in Nat
    BY RefresherAssumption, FS_Subset, FS_CardinalityType
  <1>2. PICK n \in Nat : n = Cardinality(S)
    BY <1>1
  <1>3. s \in [1..n -> S] /\ \A c \in S : \E i \in 1..n : s[i] = c
    BY <1>2 DEF Rankings
  <1>4. s \in Seq(S) /\ Len(s) = n /\ \A i \in 1..n : s[i] \in S
    BY <1>3
  <1>5. \A i, j \in 1..n : s[i] = s[j] => i = j
    <2>1. s \in Surjection(1..n, S)
      BY <1>3 DEF Surjection
    <2>2. IsFiniteSet(1..n) /\ Cardinality(1..n) = n
      BY FS_Interval
    <2>3. s \in Injection(1..n, S)
      BY <1>1, <1>2, <2>1, <2>2, FS_SurjSameCardinalityImpliesInj
    <2>4. QED
      BY <2>3 DEF Injection, IsInjective
  <1>6. s = << >> => S = {}
    <2>1. s = << >> => n = 0
      BY <1>4
    <2>2. n = 0 => S = {}
      BY <1>1, <1>2, FS_EmptySet
    <2>3. QED
      BY <2>1, <2>2
  <1>7. QED
    BY <1>1, <1>2, <1>4, <1>5, <1>6

\* The cut leaves no more than MaxProxies of those it is given, and something of
\* something.
LEMMA TheFastest ==
  ASSUME NEW S \in SUBSET Candidates, NEW kept \in Fastest(S)
  PROVE  /\ kept \subseteq S
         /\ \A T \in SUBSET kept : Cardinality(T) <= MaxProxies
         /\ S # {} => kept # {}
  <1>1. IsFiniteSet(S) /\ Cardinality(S) \in Nat /\ kept \subseteq S
    BY RefresherAssumption, FS_Subset, FS_CardinalityType DEF Fastest
  <1>2. PICK n \in Nat, max \in Nat \ {0} : n = Cardinality(S) /\ max = MaxProxies
    BY <1>1, RefresherAssumption
  <1>3. IsFiniteSet(kept) /\ Cardinality(kept) \in Nat
    BY <1>1, FS_Subset, FS_CardinalityType
  <1>4. Cardinality(kept) = IF n < max THEN n ELSE max
    BY <1>2 DEF Fastest, Fewer
  <1>5. ASSUME NEW T \in SUBSET kept
        PROVE  Cardinality(T) <= MaxProxies
    <2>1. Cardinality(T) \in Nat /\ Cardinality(T) <= Cardinality(kept)
      BY <1>3, FS_Subset, FS_CardinalityType
    <2>2. PICK t \in Nat, k \in Nat : t = Cardinality(T) /\ k = Cardinality(kept)
      BY <1>3, <2>1
    <2>3. QED
      BY <1>2, <1>4, <2>1, <2>2
  <1>6. ASSUME S # {}
        PROVE  kept # {}
    <2>1. n # 0
      BY <1>1, <1>2, <1>6, FS_EmptySet
    <2>2. Cardinality(kept) # 0
      BY <1>2, <1>4, <2>1
    <2>3. QED
      BY <2>2, FS_EmptySet
  <1>7. QED
    BY <1>1, <1>5, <1>6

\* A candidate that the cycle under way may install.
Fits(c) == c \in cycle.up /\ (cycle.us # {} => c \in cycle.us)

\* What ReplacePool installs.
LEMMA ReplacedPool ==
  ASSUME RefresherInv, ReplacePool
  PROVE  /\ egress' \in Seq(Parseable)
         /\ Len(egress') <= MaxProxies
         /\ \A i, j \in 1..Len(egress') : egress'[i] = egress'[j] => i = j
         /\ \A i \in 1..Len(egress') : egress'[i] \in Parseable /\ Fits(egress'[i])
         /\ egress' = << >> => \E c \in Candidates \ Parseable : Fits(c)
  <1>1. cycle.up \subseteq Candidates /\ cycle.us \subseteq cycle.up /\ cycle.up # {}
    BY DEF RefresherInv, RefresherTyped, CycleOK, ReplacePool
  <1>2. PICK S : S = Preferred(cycle.up, cycle.us)
    OBVIOUS
  <1>3. S \in SUBSET Candidates /\ S # {} /\ \A c \in S : Fits(c)
    BY <1>1, <1>2 DEF Preferred, Fits
  <1>4. PICK kept \in Fastest(S) : egress' \in Rankings(kept \intersect Parseable)
    BY <1>2 DEF ReplacePool, Replaced
  <1>5. kept \subseteq S /\ kept # {} /\ \A T \in SUBSET kept : Cardinality(T) <= MaxProxies
    BY <1>3, <1>4, TheFastest
  <1>6. PICK T \in SUBSET Candidates : T = kept \intersect Parseable
    BY <1>3, <1>5
  <1>7. /\ egress' \in Seq(T) /\ Len(egress') = Cardinality(T)
        /\ \A i \in 1..Len(egress') : egress'[i] \in T
        /\ \A i, j \in 1..Len(egress') : egress'[i] = egress'[j] => i = j
        /\ egress' = << >> => T = {}
    BY <1>4, <1>6, RankingsAreFair
  <1>8. egress' \in Seq(Parseable)
    BY <1>6, <1>7
  <1>9. Len(egress') <= MaxProxies
    BY <1>5, <1>6, <1>7
  <1>10. egress' = << >> => \E c \in Candidates \ Parseable : Fits(c)
    BY <1>3, <1>5, <1>6, <1>7
  <1>11. QED
    BY <1>3, <1>5, <1>6, <1>7, <1>8, <1>9, <1>10

Cycles == [pc : {"waiting", "probe", "locate"}, todo : SUBSET Candidates,
           probing : SUBSET Candidates, up : SUBSET Candidates, us : SUBSET Candidates]

LEMMA WaitingIsACycle == Waiting \in Cycles /\ Waiting.pc = "waiting" /\ Waiting.us = {}
  BY DEF Waiting, Cycles

LEMMA RefresherInvInit == RefresherInit => RefresherInv
  <1> SUFFICES ASSUME RefresherInit
               PROVE  RefresherInv
    OBVIOUS
  <1>1. cycle \in Cycles /\ CycleOK
    BY WaitingIsACycle DEF RefresherInit, CycleOK
  <1>2. egress \in Seq(Parseable) /\ turn \in 0..MaxTurn
    BY RefresherAssumption DEF RefresherInit
  <1>3. QED
    BY <1>1, <1>2 DEF RefresherInit, RefresherInv, RefresherTyped, Cycles

LEMMA RefresherInvStep == RefresherInv /\ [RefresherNext]_refresherVars => RefresherInv'
  <1> SUFFICES ASSUME RefresherInv, [RefresherNext]_refresherVars
               PROVE  RefresherInv'
    OBVIOUS
  <1>0. cycle \in Cycles /\ cycle.us \subseteq cycle.up
    BY DEF RefresherInv, RefresherTyped, CycleOK, Cycles
  <1>a. ASSUME cycle' \in Cycles, CycleOK', UNCHANGED <<egress, turn, lastEgress>>,
               usCache' \in [Candidates -> {"US", "not", "unknown"}], lastHadErr' \in BOOLEAN
        PROVE  RefresherInv'
    BY <1>a DEF RefresherInv, RefresherTyped, Cycles
  <1>1. CASE FetchCandidates
    <2>1. PICK fetched \in SUBSET Candidates :
            cycle' = IF fetched = {} THEN Waiting ELSE [Waiting EXCEPT !.pc = "probe", !.todo = fetched]
      BY <1>1 DEF FetchCandidates
    <2>2. lastHadErr' \in BOOLEAN
      BY <1>1 DEF FetchCandidates, RecordCycle, RefresherInv, RefresherTyped
    <2>3. cycle' \in Cycles /\ CycleOK'
      BY <2>1 DEF Waiting, Cycles, CycleOK
    <2>4. QED
      BY <1>1, <1>a, <2>2, <2>3 DEF FetchCandidates, RefresherInv, RefresherTyped
  <1>2. CASE Collect
    <2>1. lastHadErr' \in BOOLEAN
      BY <1>2 DEF Collect, RecordCycle, RefresherInv, RefresherTyped
    <2>2. CASE cycle.up = {}
      <3>1. cycle' = Waiting
        BY <1>2, <2>2 DEF Collect
      <3>2. cycle' \in Cycles /\ CycleOK'
        BY <3>1, WaitingIsACycle DEF CycleOK
      <3>3. QED
        BY <1>2, <1>a, <2>1, <3>2 DEF Collect, RefresherInv, RefresherTyped
    <2>3. CASE cycle.up # {}
      <3>1. cycle' = [cycle EXCEPT !.pc = "locate", !.todo = cycle.up]
        BY <1>2, <2>3 DEF Collect
      <3>2. cycle' \in Cycles /\ cycle'.us = cycle.us /\ cycle'.up = cycle.up /\ cycle'.todo = cycle.up
        BY <1>0, <3>1 DEF Cycles
      <3>3. CycleOK'
        BY <1>0, <2>3, <3>2 DEF CycleOK
      <3>4. QED
        BY <1>2, <1>a, <2>1, <3>2, <3>3 DEF Collect, RefresherInv, RefresherTyped
    <2>4. QED
      BY <2>2, <2>3
  <1>3. CASE ReplacePool
    <2>1. egress' \in Seq(Parseable)
      BY <1>3, ReplacedPool
    <2>2. turn' \in 0..MaxTurn
      BY <1>3, RefresherAssumption DEF ReplacePool, Replaced
    <2>3. cycle' \in Cycles /\ CycleOK'
      BY <1>3, WaitingIsACycle DEF ReplacePool, CycleOK
    <2>4. QED
      BY <1>3, <2>1, <2>2, <2>3 DEF ReplacePool, RecordCycle, RefresherInv, RefresherTyped, Cycles
  <1>4. CASE NextEgress
    <2>1. turn' \in 0..MaxTurn
      BY <1>4, RefresherAssumption DEF NextEgress, RefresherInv, RefresherTyped
    <2>2. lastEgress' \in Parseable \union {"direct"}
      <3>1. CASE egress = << >>
        BY <1>4, <3>1 DEF NextEgress
      <3>2. CASE egress # << >>
        <4>1. PICK n \in Nat \ {0} : n = Len(egress)
          BY <3>2 DEF RefresherInv, RefresherTyped
        <4>2. PICK k \in Nat : k = turn
          BY DEF RefresherInv, RefresherTyped
        <4>3. k % n \in 0..n - 1
          BY <4>1, <4>2
        <4>4. (k % n) + 1 \in 1..Len(egress)
          BY <4>1, <4>3
        <4>5. QED
          BY <1>4, <3>2, <4>1, <4>2, <4>4 DEF NextEgress, RefresherInv, RefresherTyped
      <3>3. QED
        BY <3>1, <3>2
    <2>3. QED
      BY <1>4, <2>1, <2>2 DEF NextEgress, RefresherInv, RefresherTyped, CycleOK
  <1>5. ASSUME NEW c \in Candidates, ProbeStarts(c)
        PROVE  RefresherInv'
    <2>1. cycle' = [cycle EXCEPT !.todo = @ \ {c}, !.probing = @ \union {c}] /\ cycle.pc = "probe"
      BY <1>5 DEF ProbeStarts
    <2>2. cycle' \in Cycles /\ cycle'.us = cycle.us /\ cycle'.up = cycle.up /\ cycle'.pc = "probe"
      BY <1>0, <2>1 DEF Cycles
    <2>3. CycleOK'
      BY <1>0, <2>2 DEF CycleOK
    <2>4. QED
      BY <1>5, <1>a, <2>2, <2>3 DEF ProbeStarts, RefresherInv, RefresherTyped
  <1>6. ASSUME NEW c \in Candidates, ProbeEnds(c)
        PROVE  RefresherInv'
    <2>1. PICK up \in SUBSET Candidates :
            /\ cycle.up \subseteq up
            /\ cycle' = [cycle EXCEPT !.probing = @ \ {c}, !.up = up]
      <3>1. CASE cycle' = [cycle EXCEPT !.probing = @ \ {c}, !.up = @ \union {c}]
        BY <1>0, <3>1 DEF Cycles
      <3>2. CASE cycle' = [cycle EXCEPT !.probing = @ \ {c}]
        <4>1. cycle' = [cycle EXCEPT !.probing = @ \ {c}, !.up = cycle.up]
          BY <1>0, <3>2 DEF Cycles
        <4>2. QED
          BY <1>0, <4>1 DEF Cycles
      <3>3. QED
        BY <1>6, <3>1, <3>2 DEF ProbeEnds
    <2>2. /\ cycle' \in Cycles /\ cycle'.us = cycle.us /\ cycle'.up = up
          /\ cycle'.pc = cycle.pc /\ cycle'.todo = cycle.todo
      BY <1>0, <2>1 DEF Cycles
    <2>3. CycleOK'
      BY <1>0, <2>1, <2>2 DEF CycleOK, RefresherInv
    <2>4. QED
      BY <1>6, <1>a, <2>2, <2>3 DEF ProbeEnds, RefresherInv, RefresherTyped
  <1>7. ASSUME NEW c \in Candidates, IsUS(c)
        PROVE  RefresherInv'
    <2>1. c \in cycle.up /\ cycle.up # {} /\ cycle.todo \subseteq cycle.up
      BY <1>7 DEF IsUS, RefresherInv, CycleOK
    <2>2. PICK answer \in {"US", "not"} :
            /\ usCache' = [usCache EXCEPT ![c] = answer]
            /\ cycle' = [cycle EXCEPT !.todo = @ \ {c},
                                      !.us = IF answer = "US" THEN @ \union {c} ELSE @]
      BY <1>7 DEF IsUS
    <2>3. usCache' \in [Candidates -> {"US", "not", "unknown"}]
      BY <2>2 DEF RefresherInv, RefresherTyped
    <2>4. /\ cycle' \in Cycles /\ cycle'.up = cycle.up /\ cycle'.todo = cycle.todo \ {c}
          /\ cycle'.us \subseteq cycle.us \union {c}
      BY <1>0, <2>2 DEF Cycles
    <2>5. CycleOK'
      BY <1>0, <2>1, <2>4 DEF CycleOK
    <2>6. QED
      BY <1>7, <1>a, <2>3, <2>4, <2>5 DEF IsUS, RefresherInv, RefresherTyped
  <1>8. ASSUME NEW c \in Candidates, ForgetCountry(c)
        PROVE  RefresherInv'
    BY <1>8 DEF ForgetCountry, RefresherInv, RefresherTyped, CycleOK
  <1>9. CASE UNCHANGED refresherVars
    BY <1>9 DEF refresherVars, RefresherInv, RefresherTyped, CycleOK
  <1>10. QED
    BY <1>1, <1>2, <1>3, <1>4, <1>5, <1>6, <1>7, <1>8, <1>9 DEF RefresherNext

LEMMA RefresherInvHolds == RefresherSpec => []RefresherInv
  BY RefresherInvInit, RefresherInvStep, PTL DEF RefresherSpec

\* The type invariant of the refresher and its pool.
THEOREM RefresherTypeCorrect == RefresherSpec => []RefresherTyped
  <1>1. RefresherInv => RefresherTyped
    BY DEF RefresherInv
  <1>2. QED
    BY <1>1, RefresherInvHolds, PTL

\* Whatever fails, nothing but a whole refresh touches the pool; it installs at most
\* MaxProxies proxies, none of them twice, all of which answered, and only US ones if
\* there are any; only a preferred candidate that net/url refuses can make it install
\* nothing (refresher.go:236-388, usproxy.go:69-91).
THEOREM OnlyTheUnparsedEmptyThePool == RefresherSpec => PoolKeepsServing
  <1> DEFINE Keeps ==
               /\ ~(cycle.pc = "locate" /\ cycle' = Waiting) => egress' = egress
               /\ cycle.pc = "locate" /\ cycle' = Waiting =>
                    /\ Len(egress') <= MaxProxies
                    /\ \A i, j \in DOMAIN egress' : egress'[i] = egress'[j] => i = j
                    /\ \A i \in DOMAIN egress' : egress'[i] \in Parseable /\ Fits(egress'[i])
                    /\ egress' = << >> => \E c \in Candidates \ Parseable : Fits(c)
  <1>1. ASSUME RefresherInv, RefresherNext
        PROVE  Keeps
    <2>1. CASE ReplacePool
      <3>1. egress' \in Seq(Parseable) /\ DOMAIN egress' = 1..Len(egress')
        BY <1>1, <2>1, ReplacedPool
      <3>2. cycle.pc = "locate" /\ cycle' = Waiting
        BY <2>1 DEF ReplacePool
      <3>3. QED
        BY <1>1, <2>1, <3>1, <3>2, ReplacedPool
    <2>2. CASE ~ReplacePool
      <3>1. egress' = egress
        BY <1>1, <2>2 DEF RefresherNext, FetchCandidates, Collect, NextEgress, ProbeStarts,
                          ProbeEnds, IsUS, ForgetCountry
      <3>2. cycle.pc = "locate" => cycle' = cycle \/ cycle'.pc = "locate"
        <4>1. cycle \in Cycles
          BY <1>1 DEF RefresherInv, RefresherTyped, Cycles
        <4>2. ASSUME NEW c \in Candidates, ProbeEnds(c) \/ IsUS(c)
              PROVE  cycle'.pc = cycle.pc
          BY <4>1, <4>2 DEF ProbeEnds, IsUS, Cycles
        <4>3. ASSUME FetchCandidates \/ Collect \/ \E c \in Candidates : ProbeStarts(c)
              PROVE  cycle.pc # "locate"
          BY <4>3, WaitingIsACycle DEF FetchCandidates, Collect, ProbeStarts
        <4>4. ASSUME NextEgress \/ \E c \in Candidates : ForgetCountry(c)
              PROVE  cycle' = cycle
          BY <4>4 DEF NextEgress, ForgetCountry
        <4>5. QED
          BY <1>1, <2>2, <4>2, <4>3, <4>4 DEF RefresherNext
      <3>3. ~(cycle.pc = "locate" /\ cycle' = Waiting)
        BY <3>2 DEF Waiting
      <3>4. QED
        BY <3>1, <3>3
    <2>3. QED
      BY <2>1, <2>2
  <1>2. RefresherInv /\ [RefresherNext]_refresherVars => [Keeps]_refresherVars
    BY <1>1
  <1>3. QED
    BY <1>2, RefresherInvInit, RefresherInvStep, PTL DEF RefresherSpec, PoolKeepsServing, Fits
=============================================================================
