------------------------- MODULE SessionManagerProps -------------------------
(***************************************************************************)
(* What Manager.EnsureActive promises, over SessionManager.                *)
(***************************************************************************)
EXTENDS SessionManager

\* Every variable has its type.
TypeOK ==
    /\ pc \in [Clients -> Steps]
    /\ want \in [Clients -> Models \cup {NoModel}]
    /\ out \in [Clients -> Results]
    /\ on \in [Clients -> Clients \cup {Nobody}]
    /\ cancelled \in SUBSET Clients
    /\ polls \in [Clients -> 0..MaxPolls]
    /\ bootstrap \in Clients \cup {Nobody}
    /\ cache \in [Models -> Models \cup {NoModel}]
    /\ upstream \in Sessions
    /\ calls \in [Clients -> 0..MaxCalls]
    /\ faults \in 0..MaxFaults
    /\ seen \in SUBSET Models

\* The leaders: clients between startBootstrap and finishBootstrap.
Leaders == {c \in Clients : pc[c] \in Leading}

\* Whoever is between startBootstrap and finishBootstrap is the one leader
\* that Manager.bootstrap names: the call is neither leaked by an early
\* return nor cleared under a leader still at work.
BootstrapHasItsLeader ==
    \A c \in Clients : pc[c] \in Leading <=> bootstrap = c

\* Nobody waits on a call that has already been finished or never will be:
\* the leader of the call a client waits for is still leading.
NoOrphanedWaiter ==
    \A c \in Clients : pc[c] = "wait" => on[c] \in Leaders

\* While no fault has happened, StartSession is only sent when there is no
\* session: a bootstrap never replaces one that another caller was given.
StartsOnlyWhenGone ==
    \A c \in Clients :
        (pc[c] = "start" /\ faults = MaxFaults) => upstream = Gone

\* An upstream that opens a session for the model it was asked for.
HonestUpstream == \A m \in Models : Serves[m] = {m}

\* EnsureActive returns a session for the model it was asked for, from the
\* cache, from its own bootstrap or from somebody else's (given an upstream
\* that serves what it is asked to serve).
ReturnsTheModelAsked ==
    \A c \in Clients :
        (pc[c] \in {"idle", "store"} /\ out[c].st = "active")
            => out[c].model = want[c]

\* With one model in use and no fault, deduplication is invisible: no call
\* fails, whatever the interleaving of callers, pollers and the queue.
OneModelNeverFails ==
    (faults = MaxFaults /\ Cardinality(seen) <= 1) =>
        \A c \in Clients : out[c].st \notin {"refused", "fail", "ctx"}

\* A call that begins returns: no waiter is forgotten, no retry goes on for
\* ever once callers stop coming.
EveryCallReturns ==
    \A c \in Clients : pc[c] # "idle" ~> pc[c] = "idle"

\* EnsureActive's fast path is for a session that is already active: an
\* unexpired entry is the session the upstream still has.  Stated where
\* nothing but this manager ever ends a session.
CachedSessionIsActive ==
    \A m \in Models :
        (cache[m] # NoModel /\ faults = MaxFaults)
            => upstream = [st |-> "active", model |-> cache[m]]

\* What is left of it with one model in use: no bootstrap then ends or
\* replaces the session behind an entry.
OneModelIsFresh ==
    (faults = MaxFaults /\ Cardinality(seen) <= 1) => CachedSessionIsActive

\* The bootstrap is a single-flight gate: its owner is the client that is
\* in the bootstrap, its waiters those in waitForBootstrap.
GateOwner == IF Leaders = {} THEN Nobody ELSE CHOOSE c \in Leaders : TRUE
GateWaiting == {c \in Clients : pc[c] = "wait"}

Gate == INSTANCE SingleFlight WITH
    Callers <- Clients, owner <- GateOwner, waiting <- GateWaiting

\* EnsureActive implements a single-flight gate: every step of the manager
\* is a step of the gate or leaves it alone.
IsSingleFlight == Gate!Spec

\* Under the manager's own fairness the gate's flights all land.
FlightsLand == Gate!FairSpec
=============================================================================
