---------------------------- MODULE StatusCache ----------------------------
(***************************************************************************)
(* The two cached reports: ServeStaleCache (internal/httpapi/              *)
(* serve_stale.go) around the builder of /ai-stack/status, which may fail, *)
(* and /health/all (health_all.go), whose probes run in parallel and       *)
(* report failures as results.  Both look under a lock, build without it   *)
(* and store under it again, so requests build at the same time and the    *)
(* one that began first may store last.                                    *)
(***************************************************************************)
EXTENDS Naturals

CONSTANTS Askers,
          StatusTtl,   \* 5 s, or 10 s
          LastTick     \* bound: time

ASSUME StatusAssumption == StatusTtl \in Nat \ {0} /\ LastTick \in Nat

VARIABLES tick,
          report,    \* payload with builtAt, or Nothing, of each cache
          asking     \* the request of each asker

statusVars == <<tick, report, asking>>

Reports == {"status", "health"}
Nothing == [from |-> 0, at |-> 0, any |-> FALSE]
Report == [from : 0..LastTick, at : 0..LastTick, any : BOOLEAN]
NoRequest == [pc |-> "none"]

StatusTyped ==
    /\ tick \in 0..LastTick
    /\ report \in [Reports -> Report]
    /\ \A a \in Askers : asking[a].pc \in {"none", "building", "answered"}

StatusInit ==
    /\ tick = 0
    /\ report = [r \in Reports |-> Nothing]
    /\ asking = [a \in Askers |-> NoRequest]

\* The two compare with their limit differently.
Recent(r) ==
    /\ report[r].any
    /\ IF r = "health" THEN tick - report[r].at <= StatusTtl ELSE tick - report[r].at < StatusTtl

\* The request that finds a recent report; "seen" is what it read.
AskHit(a, r) ==
    /\ asking[a].pc = "none" /\ Recent(r)
    /\ asking' = [asking EXCEPT ![a] = [pc |-> "answered", of |-> r, at |-> tick, failed |-> FALSE,
                                        had |-> TRUE, got |-> report[r]]]
    /\ UNCHANGED <<tick, report>>

AskMiss(a, r) ==
    /\ asking[a].pc = "none" /\ ~Recent(r)
    /\ asking' = [asking EXCEPT ![a] = [pc |-> "building", of |-> r, from |-> tick, seen |-> report[r],
                                        had |-> \E b \in Askers : asking[b].pc = "answered"
                                                   /\ asking[b].of = r /\ asking[b].got.any]]
    /\ UNCHANGED <<tick, report>>

\* Mutant: whatever was built is stored.
RefreshedAlways(old, new) == new

\* What the cache holds after a build: a failed one leaves it as it is.
Refreshed(old, new) == IF new.any THEN new ELSE old

\* Whether there is a payload: a probe of /health/all reports its failure as a result,
\* so of the two only the builder of /ai-stack/status can fail.
BuildResults(r) == IF r = "health" THEN {TRUE} ELSE BOOLEAN

\* A failed build answers with what was read before.
BuildEnds(a) ==
    /\ asking[a].pc = "building"
    /\ \E ok \in BuildResults(asking[a].of) :
          LET r == asking[a].of
              new == IF ok THEN [from |-> asking[a].from, at |-> tick, any |-> TRUE] ELSE Nothing
          IN  /\ report' = [report EXCEPT ![r] = Refreshed(report[r], new)]
              /\ asking' = [asking EXCEPT ![a] =
                              [pc |-> "answered", of |-> r, at |-> tick, failed |-> ~ok, had |-> asking[a].had,
                               got |-> IF ok THEN new ELSE asking[a].seen]]
    /\ UNCHANGED tick

\* The asker may ask again.
AskerReads(a) ==
    /\ asking[a].pc = "answered"
    /\ asking' = [asking EXCEPT ![a] = NoRequest]
    /\ UNCHANGED <<tick, report>>

TickStatus == tick < LastTick /\ tick' = tick + 1 /\ UNCHANGED <<report, asking>>

StatusNext ==
    \/ TickStatus
    \/ \E a \in Askers : BuildEnds(a) \/ AskerReads(a)
    \/ \E a \in Askers, r \in Reports : AskHit(a, r) \/ AskMiss(a, r)

StatusSpec == StatusInit /\ [][StatusNext]_statusVars

\* Who asks after somebody has got a report gets one too, however many builds overlap
\* and fail; and one that is older than the time to live only when the build made for
\* this very request failed (serve_stale.go:33-50, health_all.go:53-88).
StaleShields ==
    \A a \in Askers : asking[a].pc = "answered" =>
        /\ asking[a].had => asking[a].got.any
        /\ asking[a].got.any /\ ~asking[a].failed => asking[a].at - asking[a].got.at <= StatusTtl
=============================================================================
