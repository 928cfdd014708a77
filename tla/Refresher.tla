----------------------------- MODULE Refresher -----------------------------
(***************************************************************************)
(* stealth.Refresher and the USProxyPool it refills (internal/stealth/     *)
(* refresher.go, usproxy.go).  A cycle downloads candidates, probes them   *)
(* through the sidecar, a few at a time, prefers those that leave in the   *)
(* US and swaps the pool while requests go on taking the next proxy.       *)
(* A candidate stands for its egress address as well.  The sidecar reads   *)
(* what stands after the last colon as far as it is a number, net/url does *)
(* not: a candidate that answers its probe need not be in Parseable.       *)
(***************************************************************************)
EXTENDS Naturals, Sequences, FiniteSets

CONSTANTS Candidates,
          Parseable,     \* those url.Parse accepts
          Configured,    \* what NewUSProxyPool keeps of the configuration's list
          MaxProbed,     \* r.maxProbes, 150
          Concurrency,   \* probes at once: 2
          MaxProxies,    \* 12
          MaxTurn        \* bound: calls of Next between two swaps

ASSUME RefresherAssumption ==
    /\ IsFiniteSet(Candidates) /\ MaxTurn \in Nat
    /\ Parseable \subseteq Candidates
    /\ Configured \in Seq(Parseable)
    /\ MaxProbed \in Nat \ {0} /\ Concurrency \in Nat \ {0} /\ MaxProxies \in Nat \ {0}

VARIABLES egress,      \* p.proxies
          turn,        \* p.counter
          lastEgress,       \* the proxy the last request got, or "direct"
          cycle,       \* the Refresh under way
          usCache,     \* isUSCache: "US", "not" or "unknown" for each address
          lastHadErr   \* r.lastHadErr

refresherVars == <<egress, turn, lastEgress, cycle, usCache, lastHadErr>>

Waiting == [pc |-> "waiting", todo |-> {}, probing |-> {}, up |-> {}, us |-> {}]

RefresherTyped ==
    /\ egress \in Seq(Parseable)
    /\ turn \in 0..MaxTurn
    /\ lastEgress \in Parseable \union {"direct"}
    /\ cycle \in [pc : {"waiting", "probe", "locate"}, todo : SUBSET Candidates,
                  probing : SUBSET Candidates, up : SUBSET Candidates, us : SUBSET Candidates]
    /\ usCache \in [Candidates -> {"US", "not", "unknown"}]
    /\ lastHadErr \in BOOLEAN

RefresherInit ==
    /\ egress = Configured
    /\ turn = 0
    /\ lastEgress = "direct"
    /\ cycle = Waiting
    /\ usCache = [c \in Candidates |-> "unknown"]
    /\ lastHadErr = FALSE

RecordCycle(hadErr) == lastHadErr' = hadErr

\* The sources answer what they like, nothing when they all fail; what exceeds the
\* cap is dropped after a shuffle.
FetchCandidates ==
    /\ cycle = Waiting
    /\ \E fetched \in SUBSET Candidates :
          /\ Cardinality(fetched) <= MaxProbed
          /\ cycle' = IF fetched = {} THEN Waiting
                      ELSE [Waiting EXCEPT !.pc = "probe", !.todo = fetched]
          /\ IF fetched = {} THEN RecordCycle(TRUE) ELSE UNCHANGED lastHadErr
    /\ UNCHANGED <<egress, turn, lastEgress, usCache>>

\* The goroutine of a candidate takes a place of the semaphore.
ProbeStarts(c) ==
    /\ cycle.pc = "probe" /\ c \in cycle.todo
    /\ Cardinality(cycle.probing) < Concurrency
    /\ cycle' = [cycle EXCEPT !.todo = @ \ {c}, !.probing = @ \union {c}]
    /\ UNCHANGED <<egress, turn, lastEgress, usCache, lastHadErr>>

ProbeEnds(c) ==
    /\ c \in cycle.probing
    /\ \/ cycle' = [cycle EXCEPT !.probing = @ \ {c}, !.up = @ \union {c}]
       \/ cycle' = [cycle EXCEPT !.probing = @ \ {c}]
    /\ UNCHANGED <<egress, turn, lastEgress, usCache, lastHadErr>>

\* After wg.Wait: with nothing alive the pool stays as it is.
Collect ==
    /\ cycle.pc = "probe" /\ cycle.todo = {} /\ cycle.probing = {}
    /\ IF cycle.up = {} THEN cycle' = Waiting /\ RecordCycle(TRUE)
       ELSE cycle' = [cycle EXCEPT !.pc = "locate", !.todo = cycle.up] /\ UNCHANGED lastHadErr
    /\ UNCHANGED <<egress, turn, lastEgress, usCache>>

\* isUS: a remembered answer, or a lookup, of which a failure counts as elsewhere.
IsUS(c) ==
    /\ cycle.pc = "locate" /\ c \in cycle.todo
    /\ \E answer \in {"US", "not"} :
          /\ usCache[c] # "unknown" => answer = usCache[c]
          /\ usCache' = [usCache EXCEPT ![c] = answer]
          /\ cycle' = [cycle EXCEPT !.todo = @ \ {c},
                                    !.us = IF answer = "US" THEN @ \union {c} ELSE @]
    /\ UNCHANGED <<egress, turn, lastEgress, lastHadErr>>

\* Mutant: the filter is not best effort.
PreferredOnlyUS(alive, us) == us

\* Those in the US if there are any, else all.
Preferred(alive, us) == IF us = {} THEN alive ELSE us

\* Sorted by latency, which may be any order, and cut to MaxProxies.
Fewer(m, n) == IF m < n THEN m ELSE n
Fastest(S) == {kept \in SUBSET S : Cardinality(kept) = Fewer(Cardinality(S), MaxProxies)}
Rankings(S) == {s \in [1..Cardinality(S) -> S] : \A c \in S : \E i \in DOMAIN s : s[i] = c}

\* USProxyPool.Replace: what does not parse is skipped, and the rest is installed under
\* the lock, if there is a rest or not.
Replaced(kept) == egress' \in Rankings(kept \intersect Parseable) /\ turn' = 0

ReplacePool ==
    /\ cycle.pc = "locate" /\ cycle.todo = {}
    /\ \E kept \in Fastest(Preferred(cycle.up, cycle.us)) : Replaced(kept)
    /\ cycle' = Waiting
    /\ RecordCycle(FALSE)
    /\ UNCHANGED <<lastEgress, usCache>>

NextEgress ==
    /\ turn < MaxTurn
    /\ IF egress = << >> THEN lastEgress' = "direct" /\ UNCHANGED turn
       ELSE lastEgress' = egress[(turn % Len(egress)) + 1] /\ turn' = turn + 1
    /\ UNCHANGED <<egress, cycle, usCache, lastHadErr>>

\* An hour after the lookup.
ForgetCountry(c) ==
    /\ usCache[c] # "unknown"
    /\ usCache' = [usCache EXCEPT ![c] = "unknown"]
    /\ UNCHANGED <<egress, turn, lastEgress, cycle, lastHadErr>>

RefresherNext ==
    \/ FetchCandidates \/ Collect \/ ReplacePool \/ NextEgress
    \/ \E c \in Candidates : ProbeStarts(c) \/ ProbeEnds(c) \/ IsUS(c) \/ ForgetCountry(c)

RefresherSpec == RefresherInit /\ [][RefresherNext]_refresherVars

\* Nothing but a whole refresh touches the pool, whatever fails in it: sources, probes
\* or lookups.  What it swaps in answered a probe of that cycle and parses, without
\* repetition, fits the limit, and leaves in the US if any was found to; nothing is
\* left only if one of those it preferred does not parse (refresher.go:236-388,
\* usproxy.go:69-91).
PoolKeepsServing ==
    [][LET swaps == cycle.pc = "locate" /\ cycle' = Waiting
           fits(c) == c \in cycle.up /\ (cycle.us # {} => c \in cycle.us)
       IN  /\ ~swaps => egress' = egress
           /\ swaps =>
                /\ Len(egress') <= MaxProxies
                /\ \A i, j \in DOMAIN egress' : egress'[i] = egress'[j] => i = j
                /\ \A i \in DOMAIN egress' : egress'[i] \in Parseable /\ fits(egress'[i])
                /\ egress' = << >> => \E c \in Candidates \ Parseable : fits(c)]_refresherVars
=============================================================================
