----------------------------- MODULE RateLimit -----------------------------
(***************************************************************************)
(* The three tiers of token buckets in front of every route                *)
(* (internal/httpapi/ratelimit.go).  Allow takes from the global bucket,   *)
(* the account's and the client's, each under a lock of its own, and what  *)
(* was taken is not given back when a later tier refuses.  The buckets of  *)
(* accounts and clients are found in maps; a new one that takes its map    *)
(* beyond MaxBuckets purges it of the buckets that look idle, and a bucket *)
(* that was never used has the zero time and looks idle.  A request keeps  *)
(* the pointer it got, so buckets are objects and the maps hold their ids. *)
(*                                                                         *)
(* Time is in ticks of a minute / TicksPerMinute and tokens in units of    *)
(* 1 / TicksPerMinute, so a bucket gains exactly Rpm units in a tick.      *)
(***************************************************************************)
EXTENDS Integers, Sequences, FiniteSets

CONSTANTS Accounts, ClientIds, Requests,
          Rpm,           \* Rpm[tier], after safeRPM
          TicksPerMinute,
          MaxBuckets,    \* 512
          IdleTicks,     \* five minutes
          MaxTime, MaxAllows   \* bounds: the clock, the calls of Allow

ASSUME RateAssumption ==
    /\ Accounts \intersect ClientIds = {} /\ "global" \notin Accounts \union ClientIds
    /\ Rpm \in [{"global", "account", "client"} -> Nat \ {0}]
    /\ TicksPerMinute \in Nat \ {0} /\ MaxBuckets \in Nat
    /\ IdleTicks \in Nat /\ IdleTicks >= TicksPerMinute
    /\ MaxTime \in Nat

VARIABLES clock,
          buckets,   \* the objects, by id; the global one has id 1
          bucketOf,  \* the maps: an id for each account and client, or 0
          request,   \* the progress of each call of Allow
          taken,     \* how often each identity was granted a token
          orphaned,  \* identities whose bucket was purged while in use, or came back
                     \* with the time of a request that had begun before
          allows     \* calls of Allow so far

rateVars == <<clock, buckets, bucketOf, request, taken, orphaned, allows>>

Identities == Accounts \union ClientIds
Tier(n) == IF n = "global" THEN "global" ELSE IF n \in Accounts THEN "account" ELSE "client"
Peers(n) == IF n \in Accounts THEN Accounts ELSE ClientIds
Capacity(n) == Rpm[Tier(n)] * TicksPerMinute
Never == -1
NewBucket == [tokens |-> 0, last |-> Never]
Idling == [pc |-> "idle"]

RateTyped ==
    /\ clock \in 0..MaxTime
    /\ \A i \in DOMAIN buckets : buckets[i].tokens \in Nat /\ buckets[i].last \in -1..MaxTime
    /\ \A n \in Identities : bucketOf[n] \in {0} \union DOMAIN buckets
    /\ \A r \in Requests : request[r] = Idling \/ request[r].pc \in {"account", "client"}
    /\ orphaned \subseteq Identities

RateInit ==
    /\ clock = 0
    /\ buckets = <<NewBucket>>
    /\ bucketOf = [n \in Identities |-> 0]
    /\ request = [r \in Requests |-> Idling]
    /\ taken = [n \in Identities \union {"global"} |-> 0]
    /\ orphaned = {}
    /\ allows = 0

\* take: what the bucket holds once it is seeded and refilled at time now.
Refilled(n, b, now) ==
    LET seeded == IF b.last = Never THEN [tokens |-> Capacity(n), last |-> now] ELSE b
        gained == seeded.tokens + Rpm[Tier(n)] * (now - seeded.last)
    IN  IF now <= seeded.last THEN seeded
        ELSE [tokens |-> IF gained > Capacity(n) THEN Capacity(n) ELSE gained, last |-> now]

Granted(n, i, now) == Refilled(n, buckets[i], now).tokens >= TicksPerMinute

Take(n, i, now) ==
    LET b == Refilled(n, buckets[i], now)
    IN  IF Granted(n, i, now)
          THEN /\ buckets' = [buckets EXCEPT ![i] = [b EXCEPT !.tokens = @ - TicksPerMinute]]
               /\ taken' = [taken EXCEPT ![n] = @ + 1]
          ELSE buckets' = [buckets EXCEPT ![i] = b] /\ UNCHANGED taken

\* Allow begins: the time is read once, then the global tier is asked.
Allow(r, a, c) ==
    /\ request[r] = Idling
    /\ allows < MaxAllows
    /\ allows' = allows + 1
    /\ Take("global", 1, clock)
    /\ request' = IF Granted("global", 1, clock)
                    THEN [request EXCEPT ![r] =
                            [pc |-> "account", now |-> clock, who |-> a, client |-> c, ptr |-> 0]]
                    ELSE request
    /\ UNCHANGED <<clock, bucketOf, orphaned>>

\* Mutant: the cutoff lies in the future, so buckets in full use look idle.
LooksIdleSoon(b) == b.last <= clock

\* The bucket was last used before the cutoff, or never: the zero time is before any.
LooksIdle(b) == b.last = Never \/ b.last < clock - IdleTicks

InUse(n) == \E r \in Requests : request[r] # Idling /\ request[r].who = n /\ request[r].ptr # 0

\* getBucket: the bucket of the map, or a new one and a purge of its map.
GetBucket(r) ==
    /\ request[r] # Idling /\ request[r].ptr = 0
    /\ LET n == request[r].who
           id == Len(buckets) + 1
           known == {p \in Peers(n) : bucketOf[p] # 0} \union {n}
           purged == IF Cardinality(known) > MaxBuckets
                       THEN {p \in known : p = n \/ LooksIdle(buckets[bucketOf[p]])} ELSE {}
       IN  IF bucketOf[n] # 0
             THEN /\ request' = [request EXCEPT ![r].ptr = bucketOf[n]]
                  /\ UNCHANGED <<buckets, bucketOf, orphaned>>
             ELSE /\ buckets' = Append(buckets, NewBucket)
                  /\ bucketOf' = [p \in Identities |-> IF p \in purged THEN 0
                                                       ELSE IF p = n THEN id ELSE bucketOf[p]]
                  /\ orphaned' = orphaned \union {p \in purged : p = n \/ InUse(p)}
                  /\ request' = [request EXCEPT ![r].ptr = id]
    /\ UNCHANGED <<clock, taken, allows>>

\* A bucket made after a purge is seeded with a time of the past.
SeededLate(q) == buckets[q.ptr].last = Never /\ taken[q.who] > 0 /\ q.now < clock

\* The next tier after a grant; otherwise, or after the last one, Allow returns.
TakeBucket(r) ==
    /\ request[r] # Idling /\ request[r].ptr # 0
    /\ LET q == request[r]
       IN  /\ Take(q.who, q.ptr, q.now)
           /\ request' = [request EXCEPT ![r] =
                 IF Granted(q.who, q.ptr, q.now) /\ q.pc = "account"
                   THEN [q EXCEPT !.pc = "client", !.who = q.client, !.ptr = 0]
                   ELSE Idling]
           /\ orphaned' = IF SeededLate(q) THEN orphaned \union {q.who} ELSE orphaned
    /\ UNCHANGED <<clock, bucketOf, allows>>

ClockTicks ==
    /\ clock < MaxTime
    /\ clock' = clock + 1
    /\ UNCHANGED <<buckets, bucketOf, request, taken, orphaned, allows>>

RateNext ==
    \/ \E r \in Requests, a \in Accounts, c \in ClientIds : Allow(r, a, c)
    \/ \E r \in Requests : GetBucket(r) \/ TakeBucket(r)
    \/ ClockTicks

RateSpec == RateInit /\ [][RateNext]_rateVars

\* No identity is granted more than a full bucket and what time has refilled: not
\* through requests that race, come with an older time, or find their bucket purged
\* as idle.  An identity whose bucket was purged in use starts over with a full one, and
\* so does one that a request from before the purge gives a bucket of that time, which
\* then refills for the time between (ratelimit.go:23-121).
WithinBudget ==
    \A n \in DOMAIN taken \ orphaned :
        taken[n] * TicksPerMinute <= Capacity(n) + Rpm[Tier(n)] * clock
=============================================================================
