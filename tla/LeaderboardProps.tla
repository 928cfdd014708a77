-------------------------- MODULE LeaderboardProps --------------------------
(***************************************************************************)
(* What Leaderboard.Get promises, over Leaderboard.                        *)
(***************************************************************************)
EXTENDS Leaderboard

\* Every variable has its type.
TypeOK ==
    /\ pc \in [Clients -> Steps]
    /\ asked \in [Clients -> Categories]
    /\ had \in [Clients -> BOOLEAN]
    /\ out \in [Clients -> Outcomes]
    /\ calls \in [Clients -> 0..MaxCalls]
    /\ inflight \in BOOLEAN
    /\ mutex \in Clients \cup {Nobody}
    /\ file \in [Categories -> Files]
    /\ faults \in 0..MaxFaults

\* A caller that came while a snapshot was cached gets a snapshot: refreshes
\* that fail, writes that fail and other callers never cost it that.
CachedNeverFails ==
    \A c \in Clients : had[c] => out[c] \notin {"failed", "nocache"}

\* A download is under way only for a category whose file is not fresh: two
\* callers never make two downloads of what one would have served.
NoFreshRefetch ==
    Refreshing =>
        \A c \in Clients : pc[c] = "fetch" => file[asked[c]] # "fresh"

\* Every call returns, also those that sleep through a refresh that fails.
EveryGetReturns == \A c \in Clients : pc[c] # "idle" ~> pc[c] = "idle"

\* Without any failure, a waiter that a refresh wakes finds the cache.
WokenSeeTheCache ==
    faults = MaxFaults => \A c \in Clients : out[c] # "nocache"

\* The refresh is a single-flight gate: its owner is who refreshes, its
\* waiters are those in cond.Wait.
Refreshers == {c \in Clients : pc[c] \in {"fetch", "write"}}

GateOwner == IF Refreshers = {} THEN Nobody ELSE CHOOSE c \in Refreshers : TRUE
GateWaiting == {c \in Clients : pc[c] = "asleep"}

Gate == INSTANCE SingleFlight WITH
    Callers <- Clients, owner <- GateOwner, waiting <- GateWaiting

\* Get implements a single-flight gate, failures and restarts included:
\* every refresh, however it ends, lets all its sleepers go.
IsSingleFlight == Gate!Spec
=============================================================================
