----------------------------- MODULE TokenPool -----------------------------
(***************************************************************************)
(* session.Pool (internal/session/pool.go): one upstream session per       *)
(* token, handed to one caller at a time.  A caller gets a pointer, which  *)
(* outlives the entry of the map: Remove and a later Acquire put another   *)
(* session in its place, and Release only changes the object it is given.  *)
(* Objects are told apart by "gen", the order in which they were created,  *)
(* which also stands for CreatedAt.  The pool's maxSize is never read.     *)
(***************************************************************************)
EXTENDS Integers, FiniteSets

CONSTANTS NTokens,   \* tokens are the indices 0 .. NTokens - 1 of p.tokens
          Models,
          Holders,   \* callers of Acquire
          MaxMade    \* bound: sessions created in a behaviour

ASSUME PoolAssumption == NTokens \in Nat \ {0} /\ MaxMade \in Nat

VARIABLES sessions,  \* p.sessions, a session or NoSession per token
          next,      \* p.next
          made,      \* sessions created so far
          held,      \* the pointer each caller has, or NoHold
          misused    \* tokens removed while in use, or released twice

poolVars == <<sessions, next, made, held, misused>>

Tokens == 0..NTokens - 1
NoSession == [gen |-> 0]
NoHold == [gen |-> 0]
TokenSession == [gen : Nat \ {0}, model : Models, stale : BOOLEAN,
                 inUse : BOOLEAN, locked : BOOLEAN]
Hold == [gen : Nat \ {0}, token : Tokens, released : BOOLEAN]

PoolTyped ==
    /\ sessions \in [Tokens -> TokenSession \union {NoSession}]
    /\ next \in Tokens
    /\ made \in Nat
    /\ held \in [Holders -> Hold \union {NoHold}]
    /\ misused \subseteq Tokens

PoolInit ==
    /\ sessions = [t \in Tokens |-> NoSession]
    /\ next = 0
    /\ made = 0
    /\ held = [h \in Holders |-> NoHold]
    /\ misused = {}

Present(t) == sessions[t] # NoSession
Idle(t) == Present(t) /\ ~sessions[t].inUse

\* Mutant: the reuse loop forgets to look at InUse.
ReusableShared(t, m) ==
    Present(t) /\ sessions[t].model = m /\ ~sessions[t].stale

Reusable(t, m) == Idle(t) /\ sessions[t].model = m /\ ~sessions[t].stale

Missing == {t \in Tokens : ~Present(t)}
\* How far the loop from p.next runs before it meets t.
Distance(t) == (t + NTokens - next) % NTokens

NewSession(m) == [gen |-> made + 1, model |-> m, stale |-> FALSE,
                  inUse |-> TRUE, locked |-> FALSE]

Give(h, t, g) == held' = [held EXCEPT ![h] = [gen |-> g, token |-> t, released |-> FALSE]]

\* The first loop of Acquire, over a map in any order.
AcquireReused(h, m) ==
    /\ held[h] = NoHold
    /\ \E t \in Tokens :
          /\ Reusable(t, m)
          /\ sessions' = [sessions EXCEPT ![t].inUse = TRUE]
          /\ Give(h, t, sessions[t].gen)
    /\ UNCHANGED <<next, made, misused>>

Create(h, m, t) ==
    /\ made < MaxMade
    /\ made' = made + 1
    /\ sessions' = [sessions EXCEPT ![t] = NewSession(m)]
    /\ Give(h, t, made + 1)

\* The second loop: round robin over the tokens that have no session.
AcquireUnused(h, m) ==
    /\ held[h] = NoHold
    /\ \A t \in Tokens : ~Reusable(t, m)
    /\ \E t \in Missing :
          /\ \A u \in Missing : Distance(t) <= Distance(u)
          /\ next' = (t + 1) % NTokens
          /\ Create(h, m, t)
    /\ UNCHANGED misused

\* The third: the idle session that was created first makes room.  When none
\* is idle Acquire returns an error and changes nothing.
AcquireOldest(h, m) ==
    /\ held[h] = NoHold
    /\ \A t \in Tokens : ~Reusable(t, m)
    /\ Missing = {}
    /\ \E t \in Tokens :
          /\ Idle(t)
          /\ \A u \in Tokens : Idle(u) => sessions[t].gen <= sessions[u].gen
          /\ Create(h, m, t)
    /\ UNCHANGED <<next, misused>>

\* Release, which a caller that keeps its pointer can call again: by then the
\* object may be in another caller's hands.
Release(h) ==
    /\ held[h] # NoHold
    /\ LET t == held[h].token
           inPool == sessions[t] # NoSession /\ sessions[t].gen = held[h].gen
       IN  /\ sessions' = IF inPool THEN [sessions EXCEPT ![t].inUse = FALSE] ELSE sessions
           /\ misused' = IF held[h].released THEN misused \union {t} ELSE misused
           /\ \/ held' = [held EXCEPT ![h] = NoHold]
              \/ ~held[h].released /\ held' = [held EXCEPT ![h].released = TRUE]
    /\ UNCHANGED <<next, made>>

\* Remove does not ask whether the session is in use.
Remove(t) ==
    /\ Present(t)
    /\ sessions' = [sessions EXCEPT ![t] = NoSession]
    /\ misused' = IF sessions[t].inUse THEN misused \union {t} ELSE misused
    /\ UNCHANGED <<next, made, held>>

MarkLocked(t) ==
    /\ Present(t) /\ ~sessions[t].locked
    /\ sessions' = [sessions EXCEPT ![t].locked = TRUE]
    /\ UNCHANGED <<next, made, held, misused>>

\* The session is older than p.ttl.
SessionAges(t) ==
    /\ Present(t) /\ ~sessions[t].stale
    /\ sessions' = [sessions EXCEPT ![t].stale = TRUE]
    /\ UNCHANGED <<next, made, held, misused>>

PoolNext ==
    \/ \E h \in Holders, m \in Models :
          AcquireReused(h, m) \/ AcquireUnused(h, m) \/ AcquireOldest(h, m)
    \/ \E h \in Holders : Release(h)
    \/ \E t \in Tokens : Remove(t) \/ MarkLocked(t) \/ SessionAges(t)

PoolSpec == PoolInit /\ [][PoolNext]_poolVars

Uses(h, t) == held[h] # NoHold /\ ~held[h].released /\ held[h].token = t

\* A token serves one caller at a time, through reuse, round robin, eviction and
\* expiry, unless it was removed while in use or released twice (pool.go:47-130).
OneHolder ==
    \A t \in Tokens \ misused : \A h, i \in Holders :
        Uses(h, t) /\ Uses(i, t) => h = i
=============================================================================
