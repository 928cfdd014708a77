------------------------------ MODULE Research ------------------------------
(***************************************************************************)
(* POST /v1/deep-research (internal/httpapi/research.go, with the search   *)
(* clients it calls): a task run at Parallel if one can be created, else   *)
(* the gateway's own harness.  A planner turns the brief into queries, a   *)
(* bounded number of goroutines search and read pages for them and merge   *)
(* what they find by URL under a mutex, and a second completion writes the *)
(* report from it.  A URL stands for its normalized form, a page for its   *)
(* URL.                                                                    *)
(***************************************************************************)
EXTENDS Naturals, Sequences, FiniteSets

CONSTANTS Queries,       \* what the planner can think of
          Brief,         \* the brief itself, one of them
          Urls,
          Backends,      \* the configured search backends, in order
          Keyed,         \* Parallel has a key: it reads the pages of a query at once
          Searcher,      \* there is a web searcher, which reads them one by one
          FanOut, MaxQueries, ExtractPer, MaxEvidence,
          MaxHits        \* bound: results of a backend

ASSUME ResearchAssumption ==
    /\ Brief \in Queries /\ "none" \notin Queries
    /\ IsFiniteSet(Urls) /\ MaxHits \in Nat
    /\ Backends \in Seq({"parallel", "ddg", "searxng"})
    /\ Keyed <=> \E b \in DOMAIN Backends : Backends[b] = "parallel"
    /\ Searcher <=> \E b \in DOMAIN Backends : Backends[b] = "ddg"
    /\ FanOut \in 1..32 /\ MaxQueries \in 1..10 /\ ExtractPer \in 1..5
    /\ MaxEvidence \in Nat \ {0}

VARIABLES phase,      \* where runResearch is
          width,      \* the capacity of its semaphore
          asked,      \* the goroutine of each query
          evidence,   \* evidenceMap: the query that brought each URL
          kept,       \* evidenceList
          lost,       \* queries that ended with an error
          late        \* the run's context is over

researchVars == <<phase, width, asked, evidence, kept, lost, late>>

NotAsked == [pc |-> "none", next |-> 1, hits |-> << >>, items |-> {}]
UrlSet(s) == {s[i] : i \in DOMAIN s}

ResearchTyped ==
    /\ phase \in {"idle", "plan", "search", "write", "reported", "failed", "delegated"}
    /\ width \in 1..32
    /\ \A q \in Queries :
          /\ asked[q].pc \in {"none", "waiting", "searching", "reading", "merging", "over"}
          /\ asked[q].next \in 1..Len(Backends) + 1
          /\ asked[q].hits \in Seq(Urls) /\ asked[q].items \subseteq Urls
    /\ evidence \in [Urls -> Queries \union {"none"}]
    /\ kept \subseteq Urls
    /\ lost \subseteq Queries
    /\ late \in BOOLEAN

ResearchInit ==
    /\ phase = "idle"
    /\ width = FanOut
    /\ asked = [q \in Queries |-> NotAsked]
    /\ evidence = [u \in Urls |-> "none"]
    /\ kept = {} /\ lost = {}
    /\ late = FALSE

\* The two layers: a task run at Parallel is followed by Relay; without one, and
\* without a backend, the request is refused.
DeepResearch ==
    /\ phase = "idle"
    /\ phase' \in {"delegated", IF Backends = << >> THEN "failed" ELSE "plan"}
    /\ UNCHANGED <<width, asked, evidence, kept, lost, late>>

\* The adaptive controller is shared: a 429 of another run between init and
\* getFanOut may have narrowed what init has just set, down to 1.
Widths == {FanOut, 1}

\* A plan that cannot be parsed, or is empty, becomes the brief itself.
Plans == {P \in SUBSET Queries \ {{}} : Cardinality(P) <= MaxQueries} \union {{Brief}}

PlanQueries ==
    /\ phase = "plan"
    /\ \/ phase' = "failed" /\ UNCHANGED <<width, asked>>
       \/ /\ ~late
          /\ phase' = "search"
          /\ width' \in Widths
          /\ \E plan \in Plans :
                asked' = [q \in Queries |-> [NotAsked EXCEPT !.pc = IF q \in plan THEN "waiting" ELSE "none"]]
    /\ UNCHANGED <<evidence, kept, lost, late>>

Holding == {q \in Queries : asked[q].pc \in {"searching", "reading", "merging"}}
Stage(q, pc) == asked[q].pc = pc
Move(q, r) == asked' = [asked EXCEPT ![q] = r]

TakePlace(q) ==
    /\ Stage(q, "waiting")
    /\ Cardinality(Holding) < width
    /\ Move(q, [asked[q] EXCEPT !.pc = "searching"])
    /\ UNCHANGED <<phase, width, evidence, kept, lost, late>>

\* One backend: from the cache or from the network, in the backend's order, or an
\* error, which is not reported.
BackendAnswers == UNION {[1..n -> Urls] : n \in 0..MaxHits}

\* What the loop over an answer leaves of it: neither a URL that an earlier backend has
\* brought nor one twice.
Unseen(hits) ==
    {s \in BackendAnswers : /\ \A i \in DOMAIN s : s[i] \notin UrlSet(hits)
                            /\ \A i, j \in DOMAIN s : s[i] = s[j] => i = j}

SearchBackend(q) ==
    /\ Stage(q, "searching") /\ asked[q].next <= Len(Backends)
    /\ \E s \in Unseen(asked[q].hits) :
          Move(q, [asked[q] EXCEPT !.next = @ + 1, !.hits = @ \o s])
    /\ UNCHANGED <<phase, width, evidence, kept, lost, late>>

Top(hits) == UrlSet(SubSeq(hits, 1, IF Len(hits) < ExtractPer THEN Len(hits) ELSE ExtractPer))

SelectTop(q) ==
    /\ Stage(q, "searching") /\ asked[q].next > Len(Backends)
    /\ Move(q, [asked[q] EXCEPT !.pc = IF Len(asked[q].hits) = 0 THEN "over" ELSE "reading",
                                !.items = Top(asked[q].hits)])
    /\ lost' = IF Len(asked[q].hits) = 0 THEN lost \union {q} ELSE lost
    /\ UNCHANGED <<phase, width, evidence, kept, late>>

\* A page that cannot be read is an item without content; without anything that reads
\* pages the query is an error.
ReadPages(q) ==
    /\ Stage(q, "reading")
    /\ \/ /\ Keyed \/ Searcher
          /\ Move(q, [asked[q] EXCEPT !.pc = "merging"]) /\ UNCHANGED lost
       \/ /\ ~Searcher
          /\ Move(q, [asked[q] EXCEPT !.pc = "over"]) /\ lost' = lost \union {q}
    /\ UNCHANGED <<phase, width, evidence, kept, late>>

\* Mutant: an item already seen ends the loop, as break instead of continue.
MergedUntilSeen(seen, q, items) ==
    IF \E u \in items : seen[u] # "none" THEN seen ELSE [u \in Urls |-> IF u \in items THEN q ELSE seen[u]]

\* Under the mutex: the first query that brings a URL keeps it.
Merged(seen, q, items) ==
    [u \in Urls |-> IF u \in items /\ seen[u] = "none" THEN q ELSE seen[u]]

MergeEvidence(q) ==
    /\ Stage(q, "merging") /\ ~late
    /\ evidence' = Merged(evidence, q, asked[q].items)
    /\ Move(q, [asked[q] EXCEPT !.pc = "over"])
    /\ UNCHANGED <<phase, width, kept, lost, late>>

\* A goroutine that sees the context over brings nothing.
QueryTooLate(q) ==
    /\ late /\ asked[q].pc \in {"waiting", "searching", "reading", "merging"}
    /\ Move(q, [asked[q] EXCEPT !.pc = "over", !.items = {}])
    /\ UNCHANGED <<phase, width, evidence, kept, lost, late>>

\* After wg.Wait: sorted and cut.
Found == {u \in Urls : evidence[u] # "none"}

CollectEvidence ==
    /\ phase = "search"
    /\ \A q \in Queries : asked[q].pc \in {"none", "over"}
    /\ \E S \in SUBSET Found :
          /\ Cardinality(S) = (IF Cardinality(Found) < MaxEvidence THEN Cardinality(Found) ELSE MaxEvidence)
          /\ kept' = S
          /\ phase' = IF S = {} THEN "failed" ELSE "write"
    /\ UNCHANGED <<width, asked, evidence, lost, late>>

Synthesize ==
    /\ phase = "write"
    /\ phase' \in (IF late THEN {"failed"} ELSE {"reported", "failed"})
    /\ UNCHANGED <<width, asked, evidence, kept, lost, late>>

RunOutOfTime ==
    /\ ~late /\ phase \in {"plan", "search", "write"}
    /\ late' = TRUE
    /\ UNCHANGED <<phase, width, asked, evidence, kept, lost>>

ResearchNext ==
    \/ DeepResearch \/ PlanQueries \/ CollectEvidence \/ Synthesize \/ RunOutOfTime
    \/ \E q \in Queries : TakePlace(q) \/ SearchBackend(q) \/ SelectTop(q) \/ ReadPages(q)
                             \/ MergeEvidence(q) \/ QueryTooLate(q)

ResearchSpec == ResearchInit /\ [][ResearchNext]_researchVars

\* Whatever the order in which queries finish, and whichever fail, the report is written
\* from what the others found: each URL once, from a query that brought it, as many as
\* fit; and a run in time fails for lack of evidence only if every query found nothing.
\* No more queries run at once than the semaphore has places (research.go:880-985).
NothingFoundIsLost ==
    /\ Cardinality(Holding) <= width
    /\ \A u \in Urls : evidence[u] # "none" =>
          u \in asked[evidence[u]].items /\ Stage(evidence[u], "over")
    /\ \A q \in Queries : Stage(q, "over") /\ q \notin lost =>
          \A u \in asked[q].items : evidence[u] # "none"
    /\ phase \in {"write", "reported"} =>
          kept \subseteq Found /\ Cardinality(kept) <= MaxEvidence
              /\ (kept = Found \/ Cardinality(kept) = MaxEvidence)
=============================================================================
