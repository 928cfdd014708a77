---------------------------- MODULE CacheProofs ----------------------------
(***************************************************************************)
(* Theorems about what is cached: SearchCache, StatusCache and RunCache,   *)
(* the dashboard's results and the credential, for any number of workers,  *)
(* askers, keys, viewers and calls and any bounds.                         *)
(***************************************************************************)
EXTENDS SearchCache, StatusCache, RunCache, Dashboard, Credentials,
        FiniteSetTheorems, SequenceTheorems, TLAPS

(***************************************************************************)
(* SearchCache.  Wherever an entry is, in memory, in the file or in the    *)
(* hands of a worker, it is a whole response that expires Ttl after it was *)
(* stored.                                                                 *)
(***************************************************************************)
Whole == {e \in CacheEntry : e.stored <= now /\ e.expires = e.stored + Ttl}

Work == {Free} \union {Doing(p, e) : p \in {"truncate", "write", "loaded"}, e \in Whole}
               \union {Doing("loaded", Corrupt)}

Timely == {NoAnswer} \union {a \in [entry : Whole, at : 0..now] : a.at - a.entry.stored \in 0..Ttl}

SearchInv ==
    /\ now \in 0..MaxNow
    /\ item \in Whole \union {NoEntry}
    /\ disk \in Whole \union {NoEntry, Corrupt}
    /\ worker \in [Workers -> Work]
    /\ answered \in [Workers -> Timely]

\* Time makes no entry less whole and no answer less timely.
LEMMA WholeLater ==
  ASSUME SearchInv, now' \in {now, now + 1}, now' \in 0..MaxNow
  PROVE  Whole \subseteq Whole' /\ Work \subseteq Work' /\ Timely \subseteq Timely'
  <1>1. Whole \subseteq Whole'
    BY SearchAssumption DEF SearchInv, Whole, CacheEntry
  <1>2. Work \subseteq Work'
    BY <1>1 DEF Work
  <1>3. Timely \subseteq Timely'
    BY <1>1, SearchAssumption DEF Timely, SearchInv
  <1>4. QED
    BY <1>1, <1>2, <1>3

LEMMA SearchInvInit == SearchInit => SearchInv
  BY SearchAssumption DEF SearchInit, SearchInv, Work, Timely

\* An entry that a worker holds, by what it is about to do with it.
LEMMA HeldIsWhole ==
  ASSUME SearchInv, NEW w \in Workers, worker[w] # Free
  PROVE  /\ worker[w].entry \in Whole \union {Corrupt}
         /\ worker[w].pc \in {"truncate", "write"} => worker[w].entry \in Whole
         /\ worker[w].pc = "truncate" => [worker[w] EXCEPT !.pc = "write"] \in Work
  <1>1. worker[w] \in Work
    BY DEF SearchInv
  <1>2. CASE worker[w] = Doing("loaded", Corrupt)
    BY <1>2 DEF Doing
  <1>3. CASE \E p \in {"truncate", "write", "loaded"}, e \in Whole : worker[w] = Doing(p, e)
    <2>1. PICK p \in {"truncate", "write", "loaded"}, e \in Whole : worker[w] = Doing(p, e)
      BY <1>3
    <2>2. worker[w].entry = e /\ [worker[w] EXCEPT !.pc = "write"] = Doing("write", e)
      BY <2>1 DEF Doing
    <2>3. QED
      BY <2>1, <2>2 DEF Work
  <1>4. QED
    BY <1>1, <1>2, <1>3 DEF Work

\* What is answered while it has not expired is timely.
LEMMA UnexpiredIsTimely ==
  ASSUME SearchInv, NEW e \in Whole, ~Expired(e)
  PROVE  [entry |-> e, at |-> now] \in Timely
  BY SearchAssumption DEF SearchInv, Whole, CacheEntry, Expired, Timely

LEMMA SearchInvStep == SearchInv /\ [SearchNext]_searchVars => SearchInv'
  <1> SUFFICES ASSUME SearchInv, [SearchNext]_searchVars
               PROVE  SearchInv'
    OBVIOUS
  <1>0. ASSUME now' = now
        PROVE  Whole' = Whole /\ Work' = Work /\ Timely' = Timely
    BY <1>0 DEF Whole, Work, Timely
  <1>1. ASSUME NEW w \in Workers, SetMemory(w)
        PROVE  SearchInv'
    <2> DEFINE e == [stored |-> now, expires |-> now + Ttl]
    <2>1. e \in Whole
      BY SearchAssumption DEF SearchInv, Whole, CacheEntry
    <2>2. Doing("truncate", e) \in Work
      BY <2>1 DEF Work
    <2>3. QED
      BY <1>0, <1>1, <2>1, <2>2 DEF SetMemory, SearchInv
  <1>2. ASSUME NEW w \in Workers, Truncate(w)
        PROVE  SearchInv'
    <2>1. worker[w] # Free
      BY <1>2 DEF Truncate, Free
    <2>2. [worker[w] EXCEPT !.pc = "write"] \in Work
      BY <1>2, <2>1, HeldIsWhole DEF Truncate
    <2>3. QED
      BY <1>0, <1>2, <2>2 DEF Truncate, SearchInv
  <1>3. ASSUME NEW w \in Workers, WriteFile(w)
        PROVE  SearchInv'
    <2>0. worker[w] # Free
      BY <1>3 DEF WriteFile, Free
    <2>1. worker[w].entry \in Whole
      BY <1>3, <2>0, HeldIsWhole DEF WriteFile
    <2>2. disk' \in Whole \union {NoEntry, Corrupt}
      BY <1>3, <2>1 DEF WriteFile
    <2>3. Free \in Work
      BY DEF Work
    <2>4. QED
      BY <1>0, <1>3, <2>2, <2>3 DEF WriteFile, SearchInv
  <1>4. ASSUME NEW w \in Workers, WriteFails(w) \/ DiscardFile(w)
        PROVE  SearchInv'
    <2>1. Free \in Work
      BY DEF Work
    <2>2. QED
      BY <1>0, <1>4, <2>1 DEF WriteFails, DiscardFile, SearchInv
  <1>5. ASSUME NEW w \in Workers, GetHit(w)
        PROVE  SearchInv'
    <2>1. [entry |-> item, at |-> now] \in Timely
      BY <1>5, UnexpiredIsTimely DEF GetHit, SearchInv
    <2>2. QED
      BY <1>0, <1>5, <2>1 DEF GetHit, Answers, SearchInv
  <1>6. ASSUME NEW w \in Workers, ReadFile(w)
        PROVE  SearchInv'
    <2>1. Doing("loaded", disk) \in Work
      <3>1. CASE disk \in Whole
        BY <3>1 DEF Work
      <3>2. CASE disk = Corrupt
        BY <3>2 DEF Work
      <3>3. QED
        BY <1>6, <3>1, <3>2 DEF ReadFile, SearchInv
    <2>2. QED
      BY <1>0, <1>6, <2>1 DEF ReadFile, SearchInv
  <1>7. ASSUME NEW w \in Workers, Populate(w)
        PROVE  SearchInv'
    <2>0. worker[w] # Free
      BY <1>7 DEF Populate, Free
    <2>1. worker[w].entry \in Whole /\ ~Expired(worker[w].entry)
      BY <1>7, <2>0, HeldIsWhole DEF Populate, Unusable
    <2>2. [entry |-> worker[w].entry, at |-> now] \in Timely
      BY <2>1, UnexpiredIsTimely
    <2>3. Free \in Work
      BY DEF Work
    <2>4. QED
      BY <1>0, <1>7, <2>1, <2>2, <2>3 DEF Populate, Answers, SearchInv
  <1>8. CASE Evict
    BY <1>0, <1>8 DEF Evict, SearchInv
  <1>9. CASE Restart
    BY <1>0, <1>9 DEF Restart, SearchInv, Work, Timely
  <1>10. CASE TimePasses
    <2>1. now' = now + 1 /\ now' \in 0..MaxNow
      BY <1>10, SearchAssumption DEF TimePasses, SearchInv
    <2>2. Whole \subseteq Whole' /\ Work \subseteq Work' /\ Timely \subseteq Timely'
      BY <2>1, WholeLater
    <2>3. QED
      BY <1>10, <2>1, <2>2 DEF TimePasses, SearchInv
  <1>11. CASE UNCHANGED searchVars
    BY <1>0, <1>11 DEF searchVars, SearchInv
  <1>12. QED
    BY <1>1, <1>2, <1>3, <1>4, <1>5, <1>6, <1>7, <1>8, <1>9, <1>10, <1>11 DEF SearchNext

LEMMA SearchInvHolds == SearchSpec => []SearchInv
  BY SearchInvInit, SearchInvStep, PTL DEF SearchSpec

\* The type invariant of the search cache.
THEOREM SearchTypeCorrect == SearchSpec => []SearchTyped
  <1>1. ASSUME SearchInv
        PROVE  SearchTyped
    <2>1. item \in CacheEntry \union {NoEntry} /\ disk \in CacheEntry \union {NoEntry, Corrupt}
      BY <1>1 DEF SearchInv, Whole
    <2>2. ASSUME NEW w \in Workers
          PROVE  worker[w] = Free \/ worker[w].pc \in {"truncate", "write", "loaded"}
      BY <1>1, <2>2 DEF SearchInv, Work, Doing
    <2>3. ASSUME NEW w \in Workers
          PROVE  answered[w].at \in 0..MaxNow
      BY <1>1, <2>3, SearchAssumption DEF SearchInv, Timely, NoAnswer
    <2>4. QED
      BY <1>1, <2>1, <2>2, <2>3 DEF SearchInv, SearchTyped
  <1>2. QED
    BY <1>1, SearchInvHolds, PTL

\* No copy between file and memory, overlapping or failed write, or restart makes a
\* cached answer older than Ttl, or a mixture of two (cache.go:42-139).
THEOREM AnswersAreTimely == SearchSpec => []ServedWithinTtl
  <1>1. SearchInv => ServedWithinTtl
    BY DEF SearchInv, ServedWithinTtl, Timely, Whole
  <1>2. QED
    BY <1>1, SearchInvHolds, PTL

(***************************************************************************)
(* StatusCache.  A cache that has held a report holds one for ever, so who *)
(* has seen one, or read one before building, knows that there is one.     *)
(***************************************************************************)
Building == [pc : {"building"}, of : Reports, from : 0..LastTick, seen : Report, had : BOOLEAN]
Answered == [pc : {"answered"}, of : Reports, at : 0..LastTick, failed : BOOLEAN,
             had : BOOLEAN, got : Report]

Told(q) == q \in Answered => /\ q.had => q.got.any
                             /\ q.got.any => report[q.of].any
                             /\ q.got.any /\ ~q.failed => q.at - q.got.at <= StatusTtl
Knows(q) == q \in Building => /\ q.had => q.seen.any
                              /\ q.seen.any => report[q.of].any

StatusInv ==
    /\ tick \in 0..LastTick
    /\ report \in [Reports -> Report]
    /\ asking \in [Askers -> {NoRequest} \union Building \union Answered]
    /\ \A a \in Askers : Told(asking[a]) /\ Knows(asking[a])

LEMMA StatusInvInit == StatusInit => StatusInv
  <1> SUFFICES ASSUME StatusInit
               PROVE  StatusInv
    OBVIOUS
  <1>1. Nothing \in Report
    BY StatusAssumption DEF Nothing, Report
  <1>2. NoRequest \notin Building /\ NoRequest \notin Answered
    BY DEF NoRequest, Building, Answered
  <1>3. QED
    BY <1>1, <1>2, StatusAssumption DEF StatusInit, StatusInv, Told, Knows

\* One asker moves, and no report is forgotten.
LEMMA OneAsks ==
  ASSUME StatusInv, NEW a \in Askers, NEW q \in {NoRequest} \union Building \union Answered,
         asking' = [asking EXCEPT ![a] = q], tick' = tick,
         report' \in [Reports -> Report],
         \A r \in Reports : report[r].any => report'[r].any,
         Told(q)', Knows(q)'
  PROVE  StatusInv'
  <1>1. ASSUME NEW b \in Askers
        PROVE  Told(asking[b])' /\ Knows(asking[b])'
    <2>1. CASE b = a
      BY <2>1 DEF StatusInv
    <2>2. CASE b # a
      <3>1. asking'[b] = asking[b] /\ Told(asking[b]) /\ Knows(asking[b])
        BY <2>2 DEF StatusInv
      <3>2. QED
        BY <3>1 DEF Told, Knows, Building, Answered
    <2>3. QED
      BY <2>1, <2>2
  <1>2. QED
    BY <1>1 DEF StatusInv

LEMMA StatusInvStep == StatusInv /\ [StatusNext]_statusVars => StatusInv'
  <1> SUFFICES ASSUME StatusInv, [StatusNext]_statusVars
               PROVE  StatusInv'
    OBVIOUS
  <1>0. NoRequest \notin Building /\ NoRequest \notin Answered
    BY DEF NoRequest, Building, Answered
  <1>1. CASE TickStatus
    BY <1>1, StatusAssumption DEF TickStatus, StatusInv, Told, Knows
  <1>2. ASSUME NEW a \in Askers, AskerReads(a)
        PROVE  StatusInv'
    <2>1. Told(NoRequest)' /\ Knows(NoRequest)'
      BY <1>0 DEF Told, Knows, Building, Answered, NoRequest
    <2>2. QED
      BY <1>2, <2>1, OneAsks DEF AskerReads, StatusInv
  <1>3. ASSUME NEW a \in Askers, NEW r \in Reports, AskHit(a, r)
        PROVE  StatusInv'
    <2>1. PICK q : q = [pc |-> "answered", of |-> r, at |-> tick, failed |-> FALSE,
                        had |-> TRUE, got |-> report[r]]
      OBVIOUS
    <2>2. report[r] \in Report /\ report[r].any
      BY <1>3 DEF AskHit, Recent, StatusInv
    <2>3. q \in Answered
      BY <2>1, <2>2 DEF Answered, StatusInv
    <2>4. tick - report[r].at <= StatusTtl
      BY <1>3, <2>2, StatusAssumption DEF AskHit, Recent, StatusInv, Report
    <2>5. report' = report /\ tick' = tick
      BY <1>3 DEF AskHit
    <2>6. Told(q)' /\ Knows(q)'
      BY <2>1, <2>2, <2>4, <2>5 DEF Told, Knows, Building
    <2>7. asking' = [asking EXCEPT ![a] = q]
      BY <1>3, <2>1 DEF AskHit
    <2>8. QED
      BY <2>3, <2>5, <2>6, <2>7, OneAsks DEF StatusInv
  <1>4. ASSUME NEW a \in Askers, NEW r \in Reports, AskMiss(a, r)
        PROVE  StatusInv'
    <2> DEFINE had == \E b \in Askers : /\ asking[b].pc = "answered"
                                       /\ asking[b].of = r /\ asking[b].got.any
    <2>1. PICK q : q = [pc |-> "building", of |-> r, from |-> tick, seen |-> report[r], had |-> had]
      OBVIOUS
    <2>2. report[r] \in Report
      BY DEF StatusInv
    <2>3. q \in Building
      BY <2>1, <2>2 DEF Building, StatusInv
    <2>4. had => report[r].any
      <3>1. ASSUME NEW b \in Askers, asking[b].pc = "answered", asking[b].of = r, asking[b].got.any
            PROVE  report[r].any
        <4>1. asking[b] \in Answered /\ Told(asking[b])
          BY <3>1 DEF StatusInv, NoRequest, Building
        <4>2. QED
          BY <3>1, <4>1 DEF Told
      <3>2. QED
        BY <3>1
    <2>5. report' = report /\ tick' = tick
      BY <1>4 DEF AskMiss
    <2>6. q.pc = "building" /\ q.of = r /\ q.seen = report[r] /\ q.had = had
      BY <2>1
    <2>7. Told(q)' /\ Knows(q)'
      BY <2>4, <2>5, <2>6 DEF Told, Knows, Answered
    <2>8. asking' = [asking EXCEPT ![a] = q]
      BY <1>4, <2>1 DEF AskMiss
    <2>9. QED
      BY <2>3, <2>5, <2>7, <2>8, OneAsks DEF StatusInv
  <1>5. ASSUME NEW a \in Askers, BuildEnds(a)
        PROVE  StatusInv'
    <2>1. asking[a] \in Building /\ Knows(asking[a])
      BY <1>5 DEF BuildEnds, StatusInv, NoRequest, Answered
    <2>2. PICK r \in Reports : r = asking[a].of
      BY <2>1 DEF Building
    <2>3. /\ asking[a].from \in 0..LastTick /\ asking[a].seen \in Report /\ asking[a].had \in BOOLEAN
          /\ asking[a].had => asking[a].seen.any
          /\ asking[a].seen.any => report[r].any
      BY <2>1, <2>2 DEF Building, Knows
    <2> DEFINE built == [from |-> asking[a].from, at |-> tick, any |-> TRUE]
    <2>4. built \in Report
      BY <2>3 DEF Report, StatusInv
    <2>5. report[r] \in Report
      BY DEF StatusInv
    <2>6. PICK ok \in BOOLEAN :
            LET new == IF ok THEN built ELSE Nothing
            IN  /\ report' = [report EXCEPT ![r] = Refreshed(report[r], new)]
                /\ asking' = [asking EXCEPT ![a] =
                     [pc |-> "answered", of |-> r, at |-> tick, failed |-> ~ok,
                      had |-> asking[a].had, got |-> IF ok THEN new ELSE asking[a].seen]]
      BY <1>5, <2>2 DEF BuildEnds, BuildResults
    <2>7. tick' = tick
      BY <1>5 DEF BuildEnds
    <2>8. PICK q : q = [pc |-> "answered", of |-> r, at |-> tick, failed |-> ~ok,
                        had |-> asking[a].had, got |-> IF ok THEN built ELSE asking[a].seen]
      OBVIOUS
    <2>9. asking' = [asking EXCEPT ![a] = q]
      BY <2>6, <2>8
    <2>10. q \in Answered
      BY <2>3, <2>4, <2>8 DEF Answered, StatusInv
    <2>11. /\ q.of = r /\ q.had = asking[a].had /\ q.at = tick /\ q.failed = ~ok
           /\ q.got = IF ok THEN built ELSE asking[a].seen
           /\ q.pc = "answered"
      BY <2>8
    <2>12. CASE ok
      <3>1. report' = [report EXCEPT ![r] = built]
        BY <2>6, <2>12 DEF Refreshed
      <3>2. built.any /\ built.at = tick
        OBVIOUS
      <3>3. report'[r] = built /\ q.got = built
        BY <2>11, <2>12, <3>1 DEF StatusInv
      <3>4. tick - tick <= StatusTtl
        BY StatusAssumption DEF StatusInv
      <3>5. Told(q)' /\ Knows(q)'
        BY <2>11, <3>2, <3>3, <3>4 DEF Told, Knows, Building
      <3>6. \A s \in Reports : report[s].any => report'[s].any
        BY <3>1, <3>2 DEF StatusInv
      <3>7. report' \in [Reports -> Report]
        BY <2>4, <3>1 DEF StatusInv
      <3>8. QED
        BY <2>7, <2>9, <2>10, <3>5, <3>6, <3>7, OneAsks
    <2>13. CASE ~ok
      <3>1. report' = report
        BY <2>5, <2>6, <2>13 DEF Refreshed, Nothing, StatusInv
      <3>2. q.got = asking[a].seen /\ q.failed
        BY <2>11, <2>13
      <3>3. Told(q)' /\ Knows(q)'
        BY <2>3, <2>11, <3>1, <3>2 DEF Told, Knows, Building
      <3>4. QED
        BY <2>7, <2>9, <2>10, <3>1, <3>3, OneAsks DEF StatusInv
    <2>14. QED
      BY <2>12, <2>13
  <1>6. CASE UNCHANGED statusVars
    BY <1>6 DEF statusVars, StatusInv, Told, Knows
  <1>7. QED
    BY <1>1, <1>2, <1>3, <1>4, <1>5, <1>6 DEF StatusNext

LEMMA StatusInvHolds == StatusSpec => []StatusInv
  BY StatusInvInit, StatusInvStep, PTL DEF StatusSpec

\* The type invariant of the status caches.
THEOREM StatusTypeCorrect == StatusSpec => []StatusTyped
  <1>1. StatusInv => StatusTyped
    BY DEF StatusInv, StatusTyped, NoRequest, Building, Answered
  <1>2. QED
    BY <1>1, StatusInvHolds, PTL

\* A report that somebody has got is not taken away by builds that overlap or fail, and
\* an old one is only given to a request whose own build failed (serve_stale.go:33-50,
\* health_all.go:53-88).
THEOREM StaleReportsShield == StatusSpec => []StaleShields
  <1>1. StatusInv => StaleShields
    BY DEF StatusInv, StaleShields, Told, NoRequest, Building
  <1>2. QED
    BY <1>1, StatusInvHolds, PTL

(***************************************************************************)
(* RunCache.  The order lists the keys that have an entry, each once, so   *)
(* that its first key is always one that Set can evict.                    *)
(***************************************************************************)
NoRepeat(s) == \A i, j \in 1..Len(s) : s[i] = s[j] => i = j
In(k, s) == \E i \in 1..Len(s) : s[i] = k

RunInv == RunTyped /\ IsFiniteSet(Stored) /\ EntriesCanBeEvicted

\* Without one of its positions a sequence has the elements of the others.
LEMMA WithoutPosition ==
  ASSUME NEW s \in Seq(Keys), NEW i \in 1..Len(s),
         NEW r, r = SubSeq(s, 1, i - 1) \o SubSeq(s, i + 1, Len(s))
  PROVE  /\ r \in Seq(Keys) /\ Len(r) = Len(s) - 1
         /\ \A j \in 1..Len(r) : r[j] = IF j < i THEN s[j] ELSE s[j + 1]
  <1> DEFINE left == SubSeq(s, 1, i - 1)
             right == SubSeq(s, i + 1, Len(s))
  <1>0. i \in Int /\ Len(s) \in Nat /\ 1 <= i /\ i <= Len(s)
    OBVIOUS
  <1>1. /\ left \in Seq(Keys) /\ Len(left) = i - 1
        /\ \A j \in 1..i - 1 : left[j] = s[j]
    <2>1. \A j \in 1..i - 1 : s[j] \in Keys
      BY <1>0
    <2>2. QED
      BY <1>0, <2>1, SubSeqProperties
  <1>2. /\ right \in Seq(Keys) /\ Len(right) = Len(s) - i
        /\ \A j \in 1..Len(s) - i : right[j] = s[i + j]
    <2>1. \A j \in i + 1..Len(s) : s[j] \in Keys
      BY <1>0
    <2>2. QED
      BY <1>0, <2>1, SubSeqProperties, SMTT(20)
  <1>3. /\ r \in Seq(Keys) /\ Len(r) = Len(left) + Len(right)
        /\ \A j \in 1..Len(left) + Len(right) :
              r[j] = IF j <= Len(left) THEN left[j] ELSE right[j - Len(left)]
    BY <1>1, <1>2, ConcatProperties
  <1> HIDE DEF left, right
  <1>4. Len(r) = Len(s) - 1 /\ Len(left) = i - 1 /\ Len(left) + Len(right) = Len(s) - 1
    <2>1. Len(left) = i - 1 /\ Len(right) = Len(s) - i /\ Len(r) = Len(left) + Len(right)
      BY <1>1, <1>2, <1>3
    <2>2. (i - 1) + (Len(s) - i) = Len(s) - 1
      BY <1>0
    <2>3. QED
      BY <2>1, <2>2
  <1>5. ASSUME NEW j \in 1..Len(r)
        PROVE  r[j] = IF j < i THEN s[j] ELSE s[j + 1]
    <2>0. j \in Int /\ 1 <= j /\ j <= Len(s) - 1 /\ j \in 1..Len(left) + Len(right)
      <3>1. j \in 1..Len(s) - 1
        BY <1>4
      <3>2. QED
        BY <1>0, <1>4, <3>1
    <2>1. CASE j < i
      <3>1. r[j] = left[j] /\ j \in 1..i - 1
        BY <1>0, <1>1, <1>3, <2>0, <2>1
      <3>2. QED
        BY <1>1, <2>1, <3>1
    <2>2. CASE ~(j < i)
      <3>1. r[j] = right[j - Len(left)]
        <4>1. ~(j <= Len(left))
          BY <1>0, <1>4, <2>0, <2>2
        <4>2. QED
          BY <1>3, <2>0, <4>1
      <3>2. j - Len(left) \in 1..Len(s) - i /\ i + (j - Len(left)) = j + 1
        <4>1. j - (i - 1) \in 1..Len(s) - i /\ i + (j - (i - 1)) = j + 1
          BY <1>0, <2>0, <2>2
        <4>2. QED
          BY <1>4, <4>1
      <3>3. right[j - Len(left)] = s[j + 1]
        BY <1>2, <3>2
      <3>4. QED
        BY <2>2, <3>1, <3>3
    <2>3. QED
      BY <2>1, <2>2
  <1>6. QED
    BY <1>3, <1>4, <1>5

\* removeOrderLocked takes the key out and leaves the others in their order.
LEMMA RemoveOrderRemoves ==
  ASSUME NEW s \in Seq(Keys), NoRepeat(s), NEW k \in Keys
  PROVE  /\ RemoveOrder(s, k) \in Seq(Keys) /\ NoRepeat(RemoveOrder(s, k))
         /\ \A x \in Keys : In(x, RemoveOrder(s, k)) <=> x # k /\ In(x, s)
  <1>1. CASE At(s, k) = {}
    BY <1>1 DEF RemoveOrder, At, In
  <1>2. CASE At(s, k) # {}
    <2>1. PICK i \in 1..Len(s) : s[i] = k
      BY <1>2 DEF At
    <2>2. At(s, k) = {i}
      BY <2>1 DEF At, NoRepeat
    <2>3. FirstAt(s, k) = i
      BY <2>2 DEF FirstAt
    <2>4. PICK r : r = RemoveOrder(s, k)
      OBVIOUS
    <2>5. r = SubSeq(s, 1, i - 1) \o SubSeq(s, i + 1, Len(s))
      BY <1>2, <2>3, <2>4 DEF RemoveOrder
    <2>6. /\ r \in Seq(Keys) /\ Len(r) = Len(s) - 1
          /\ \A j \in 1..Len(r) : r[j] = IF j < i THEN s[j] ELSE s[j + 1]
      BY <2>5, WithoutPosition
    <2>7. NoRepeat(r)
      <3>1. SUFFICES ASSUME NEW a \in 1..Len(r), NEW b \in 1..Len(r), r[a] = r[b]
                     PROVE  a = b
        BY DEF NoRepeat
      <3> DEFINE A == IF a < i THEN a ELSE a + 1
                 B == IF b < i THEN b ELSE b + 1
      <3>2. A \in 1..Len(s) /\ B \in 1..Len(s) /\ s[A] = s[B]
        BY <2>6, <3>1
      <3>3. A = B
        BY <3>2 DEF NoRepeat
      <3>4. QED
        BY <3>3
    <2>8. ASSUME NEW x \in Keys
          PROVE  In(x, r) <=> x # k /\ In(x, s)
      <3>1. ASSUME NEW a \in 1..Len(r), r[a] = x
            PROVE  x # k /\ In(x, s)
        <4>1. PICK b \in 1..Len(s) : b # i /\ s[b] = x
          BY <2>6, <3>1
        <4>2. QED
          BY <2>1, <4>1 DEF NoRepeat, In
      <3>2. ASSUME NEW b \in 1..Len(s), s[b] = x, x # k
            PROVE  In(x, r)
        <4>1. CASE b < i
          <5>1. b \in 1..Len(r) /\ r[b] = x
            BY <2>6, <3>2, <4>1
          <5>2. QED
            BY <5>1 DEF In
        <4>2. CASE b > i
          <5>1. b - 1 \in 1..Len(r) /\ r[b - 1] = x
            BY <2>6, <3>2, <4>2
          <5>2. QED
            BY <5>1 DEF In
        <4>3. QED
          BY <2>1, <3>2, <4>1, <4>2
      <3>3. QED
        BY <3>1, <3>2 DEF In
    <2>9. QED
      BY <2>4, <2>6, <2>7, <2>8
  <1>3. QED
    BY <1>1, <1>2

LEMMA AppendAdds ==
  ASSUME NEW s \in Seq(Keys), NoRepeat(s), NEW k \in Keys, ~In(k, s)
  PROVE  /\ Append(s, k) \in Seq(Keys) /\ NoRepeat(Append(s, k))
         /\ \A x \in Keys : In(x, Append(s, k)) <=> x = k \/ In(x, s)
  <1>1. PICK r : r = Append(s, k)
    OBVIOUS
  <1>2. /\ r \in Seq(Keys) /\ Len(r) = Len(s) + 1
        /\ \A i \in 1..Len(s) : r[i] = s[i]
        /\ r[Len(s) + 1] = k
    BY <1>1, AppendProperties
  <1>3. \A i \in 1..Len(r) : i = Len(s) + 1 \/ i \in 1..Len(s)
    BY <1>2
  <1>4. \A i \in 1..Len(s) : i \in 1..Len(r)
    BY <1>2
  <1>5. Len(s) + 1 \in 1..Len(r)
    BY <1>2
  <1>6. \A i \in 1..Len(s) : r[i] # k
    BY <1>2 DEF In
  <1>7. NoRepeat(r)
    <2>1. SUFFICES ASSUME NEW i \in 1..Len(r), NEW j \in 1..Len(r), r[i] = r[j]
                   PROVE  i = j
      BY DEF NoRepeat
    <2>2. CASE i \in 1..Len(s) /\ j \in 1..Len(s)
      BY <1>2, <2>1, <2>2 DEF NoRepeat
    <2>3. CASE i = Len(s) + 1 \/ j = Len(s) + 1
      BY <1>2, <1>3, <1>6, <2>1, <2>3
    <2>4. QED
      BY <1>3, <2>2, <2>3
  <1>8. ASSUME NEW x \in Keys
        PROVE  In(x, r) <=> x = k \/ In(x, s)
    BY <1>2, <1>3, <1>4, <1>5 DEF In
  <1>9. QED
    BY <1>1, <1>2, <1>7, <1>8

LEMMA DropKeepsOrder ==
  ASSUME RunInv, NEW k \in Keys, Drop(k)
  PROVE  /\ entries' \in [Keys -> Entry] /\ order' \in Seq(Keys)
         /\ IsFiniteSet(Stored') /\ EntriesCanBeEvicted'
  <1>1. entries' \in [Keys -> Entry] /\ \A x \in Keys : Has(x)' <=> x # k /\ Has(x)
    BY DEF RunInv, RunTyped, Drop, Has, Entry
  <1>2. NoRepeat(order) /\ order \in Seq(Keys)
    BY DEF RunInv, RunTyped, EntriesCanBeEvicted, NoRepeat
  <1>3. /\ order' \in Seq(Keys) /\ NoRepeat(order')
        /\ \A x \in Keys : In(x, order') <=> x # k /\ In(x, order)
    BY <1>2, RemoveOrderRemoves DEF Drop
  <1>4. Stored' = Stored \ {k}
    BY <1>1 DEF Stored
  <1>5. IsFiniteSet(Stored') /\ Cardinality(Stored') <= MaxEntries
    <2>1. IsFiniteSet(Stored) /\ Cardinality(Stored) <= MaxEntries
      BY DEF RunInv, EntriesCanBeEvicted
    <2>2. IsFiniteSet(Stored') /\ Cardinality(Stored') <= Cardinality(Stored)
      BY <1>4, <2>1, FS_Subset
    <2>3. Cardinality(Stored) \in Nat /\ Cardinality(Stored') \in Nat
      BY <2>1, <2>2, FS_CardinalityType
    <2>4. QED
      BY <2>1, <2>2, <2>3, RunCacheAssumption
  <1>6. \A x \in Keys : Has(x) <=> In(x, order)
    BY DEF RunInv, EntriesCanBeEvicted, In
  <1>7. \A x \in Keys : Has(x)' <=> In(x, order')
    BY <1>1, <1>3, <1>6
  <1>8. QED
    BY <1>1, <1>3, <1>5, <1>7 DEF EntriesCanBeEvicted, In, NoRepeat

LEMMA InsertKeepsOrder ==
  ASSUME RunInv, NEW k \in Keys, Insert(k)
  PROVE  RunInv'
  <1>1. ~Has(k)
    BY DEF Insert
  <1>2. NoRepeat(order) /\ order \in Seq(Keys) /\ \A x \in Keys : Has(x) <=> In(x, order)
    BY DEF RunInv, RunTyped, EntriesCanBeEvicted, NoRepeat, In
  <1>3. IsFiniteSet(Stored) /\ Cardinality(Stored) <= MaxEntries /\ Cardinality(Stored) \in Nat
    BY FS_CardinalityType DEF RunInv, EntriesCanBeEvicted
  <1>4. k \notin Stored
    BY <1>1 DEF Stored
  <1>5. CASE Cardinality(Stored) >= MaxEntries /\ Victims # {}
    <2>1. PICK v \in Victims : /\ entries' = [entries EXCEPT ![v] = "none", ![k] = "fresh"]
                               /\ order' = Append(RemoveOrder(order, v), k)
      BY <1>5 DEF Insert
    <2>2. v \in Stored /\ v \in Keys /\ v # k
      BY <1>4 DEF Victims, Stored
    <2>3. entries' \in [Keys -> Entry] /\ \A x \in Keys : Has(x)' <=> x = k \/ (x # v /\ Has(x))
      BY <2>1, <2>2 DEF RunInv, RunTyped, Has, Entry
    <2>4. PICK r : r = RemoveOrder(order, v)
      OBVIOUS
    <2>5. /\ r \in Seq(Keys) /\ NoRepeat(r)
          /\ \A x \in Keys : In(x, r) <=> x # v /\ In(x, order)
      BY <1>2, <2>2, <2>4, RemoveOrderRemoves
    <2>6. ~In(k, r)
      BY <1>1, <1>2, <2>5
    <2>7. /\ order' \in Seq(Keys) /\ NoRepeat(order')
          /\ \A x \in Keys : In(x, order') <=> x = k \/ In(x, r)
      BY <2>1, <2>4, <2>5, <2>6, AppendAdds
    <2>8. Stored' = (Stored \ {v}) \union {k}
      BY <2>3 DEF Stored
    <2>9. IsFiniteSet(Stored') /\ Cardinality(Stored') <= MaxEntries
      <3>1. IsFiniteSet(Stored \ {v}) /\ Cardinality(Stored \ {v}) = Cardinality(Stored) - 1
        BY <1>3, <2>2, FS_RemoveElement
      <3>2. IsFiniteSet(Stored') /\ Cardinality(Stored') = Cardinality(Stored \ {v}) + 1
        BY <1>4, <2>8, <3>1, FS_AddElement
      <3>3. QED
        BY <1>3, <3>1, <3>2, RunCacheAssumption
    <2>10. \A x \in Keys : Has(x)' <=> In(x, order')
      BY <1>2, <2>3, <2>5, <2>7
    <2>11. purging' = purging
      BY DEF Insert
    <2>12. QED
      BY <2>3, <2>7, <2>9, <2>10, <2>11 DEF RunInv, RunTyped, EntriesCanBeEvicted, In, NoRepeat
  <1>6. CASE ~(Cardinality(Stored) >= MaxEntries /\ Victims # {})
    <2>1. entries' = [entries EXCEPT ![k] = "fresh"] /\ order' = Append(order, k) /\ purging' = purging
      BY <1>6 DEF Insert
    <2>2. entries' \in [Keys -> Entry] /\ \A x \in Keys : Has(x)' <=> x = k \/ Has(x)
      BY <2>1 DEF RunInv, RunTyped, Has, Entry
    <2>3. /\ order' \in Seq(Keys) /\ NoRepeat(order')
          /\ \A x \in Keys : In(x, order') <=> x = k \/ In(x, order)
      BY <1>1, <1>2, <2>1, AppendAdds
    <2>4. Stored' = Stored \union {k}
      BY <2>2 DEF Stored
    <2>5. IsFiniteSet(Stored') /\ Cardinality(Stored') = Cardinality(Stored) + 1
      BY <1>3, <1>4, <2>4, FS_AddElement
    <2>6. Cardinality(Stored) < MaxEntries
      <3>1. SUFFICES ASSUME Cardinality(Stored) >= MaxEntries
                     PROVE  Victims # {}
        BY <1>3, <1>6, RunCacheAssumption
      <3>2. Stored # {}
        BY <1>3, <3>1, RunCacheAssumption, FS_EmptySet
      <3>3. PICK x \in Keys : In(x, order)
        BY <1>2, <3>2 DEF Stored
      <3>4. 1 \in 1..Len(order)
        BY <1>2, <3>3 DEF In
      <3>5. order[1] \in Keys /\ In(order[1], order)
        BY <1>2, <3>4 DEF In
      <3>6. order[1] \in Stored
        BY <1>2, <3>5 DEF Stored
      <3>7. \A j \in 1..1 - 1 : ~Has(order[j])
        OBVIOUS
      <3>8. order[1] \in Victims
        BY <3>4, <3>6, <3>7 DEF Victims
      <3>9. QED
        BY <3>8
    <2>7. Cardinality(Stored') <= MaxEntries
      BY <1>3, <2>5, <2>6, RunCacheAssumption
    <2>8. \A x \in Keys : Has(x)' <=> In(x, order')
      BY <1>2, <2>2, <2>3
    <2>9. QED
      BY <2>1, <2>2, <2>3, <2>5, <2>7, <2>8 DEF RunInv, RunTyped, EntriesCanBeEvicted, In, NoRepeat
  <1>7. QED
    BY <1>5, <1>6

LEMMA RunInvInit == RunInit => RunInv
  <1> SUFFICES ASSUME RunInit
               PROVE  RunInv
    OBVIOUS
  <1>1. RunTyped
    BY DEF RunInit, RunTyped, Entry
  <1>2. Stored = {}
    BY DEF RunInit, Stored, Has
  <1>3. IsFiniteSet(Stored) /\ Cardinality(Stored) <= MaxEntries
    BY <1>2, FS_EmptySet, RunCacheAssumption
  <1>4. EntriesCanBeEvicted
    BY <1>3 DEF RunInit, EntriesCanBeEvicted, Has
  <1>5. QED
    BY <1>1, <1>3, <1>4 DEF RunInv

LEMMA RunInvStep == RunInv /\ [RunNext]_runVars => RunInv'
  <1> SUFFICES ASSUME RunInv, [RunNext]_runVars
               PROVE  RunInv'
    OBVIOUS
  <1>1. ASSUME NEW g \in Getters, NEW k \in Keys, GetExpired(g, k)
        PROVE  RunInv'
    BY <1>1 DEF GetExpired, RunInv, RunTyped, EntriesCanBeEvicted, Stored, Has
  <1>2. ASSUME NEW g \in Getters, GetPurges(g)
        PROVE  RunInv'
    <2>1. purging[g] \in Keys /\ Drop(purging[g])
      BY <1>2 DEF GetPurges, RunInv, RunTyped
    <2>2. purging' \in [Getters -> Keys \union {"none"}]
      BY <1>2 DEF GetPurges, RunInv, RunTyped
    <2>3. QED
      BY <2>1, <2>2, DropKeepsOrder DEF RunInv, RunTyped
  <1>3. ASSUME NEW k \in Keys, Delete(k)
        PROVE  RunInv'
    BY <1>3, DropKeepsOrder DEF Delete, RunInv, RunTyped
  <1>4. ASSUME NEW k \in Keys, Replace(k) \/ Expire(k)
        PROVE  RunInv'
    <2>1. entries' \in [Keys -> Entry] /\ \A x \in Keys : Has(x)' <=> Has(x)
      BY <1>4 DEF Replace, Expire, RunInv, RunTyped, Has, Entry
    <2>2. order' = order /\ purging' = purging
      BY <1>4 DEF Replace, Expire
    <2>3. Stored' = Stored
      BY <2>1 DEF Stored
    <2>4. QED
      BY <2>1, <2>2, <2>3 DEF RunInv, RunTyped, EntriesCanBeEvicted
  <1>5. ASSUME NEW k \in Keys, Insert(k)
        PROVE  RunInv'
    BY <1>5, InsertKeepsOrder
  <1>6. CASE UNCHANGED runVars
    BY <1>6 DEF runVars, RunInv, RunTyped, EntriesCanBeEvicted, Stored, Has
  <1>7. QED
    BY <1>1, <1>2, <1>3, <1>4, <1>5, <1>6 DEF RunNext

LEMMA RunInvHolds == RunSpec => []RunInv
  BY RunInvInit, RunInvStep, PTL DEF RunSpec

\* The type invariant of the run cache.
THEOREM RunTypeCorrect == RunSpec => []RunTyped
  <1>1. RunInv => RunTyped
    BY DEF RunInv
  <1>2. QED
    BY <1>1, RunInvHolds, PTL

\* Set always finds an entry to evict, so the cache never outgrows its limit, also when
\* a Get deletes a key that was stored anew after it had seen it expired
\* (run_cache.go:60-111).
THEOREM RunsCanBeEvicted == RunSpec => []EntriesCanBeEvicted
  <1>1. RunInv => EntriesCanBeEvicted
    BY DEF RunInv
  <1>2. QED
    BY <1>1, RunInvHolds, PTL

----------------------------------------------------------------------------
(***************************************************************************)
(* Dashboard.  One probe is under way at a time, so what is stored and     *)
(* offered is newer than all that was; until it has been offered, nobody   *)
(* has got it from a channel.                                              *)
(***************************************************************************)
Probe == [id : Nat \ {0}, pc : {"probing", "stored"}]
Viewer == [pc : {"subscribed", "loop"}, chan : Seq(Nat), caughtUp : Nat, written : Seq(Nat)]

DashShape ==
    /\ probes \in Nat /\ lastResult \in Nat
    /\ history \in Seq(Nat)
    /\ inFlight \subseteq Probe
    /\ viewer \in [Viewers -> {Away} \union Viewer]

OneProbe ==
    /\ \A p, q \in inFlight : p = q
    /\ \A p \in inFlight : p.id = probes
    /\ \A p \in inFlight : p.id = IF p.pc = "probing" THEN lastResult + 1 ELSE lastResult
    /\ inFlight = {} => probes = lastResult

\* What a viewer gets is in order and older than what is under way, and no result that
\* was offered has passed it by.
Upto(s, id) == \A i \in 1..Len(s) : s[i] <= id
Below(s, id) == \A i \in 1..Len(s) : s[i] < id
Misses(q, id) == ~Brought(q, id) /\ ~HadNoRoom(q, id)
Served(q) ==
    q # Away => /\ Ascending(ViaChannel(q)) /\ Upto(ViaChannel(q), probes)
                /\ \A p \in inFlight : Below(ViaChannel(q), p.id)
                /\ q.pc = "loop" => \A id \in Announced : ~Misses(q, id)

HistoryOK ==
    /\ Ascending(history)
    /\ history # << >> => history[Len(history)] = lastResult
    /\ Upto(history, probes)
    /\ \A p \in inFlight : p.pc = "probing" => Below(history, p.id)

DashInv == DashShape /\ OneProbe /\ HistoryOK /\ \A v \in Viewers : Served(viewer[v])

\* A line that is in order stays so when something newer is appended.
LEMMA NewerAtTheEnd ==
  ASSUME NEW s \in Seq(Nat), Ascending(s), NEW x \in Nat, Below(s, x)
  PROVE  /\ Append(s, x) \in Seq(Nat) /\ Len(Append(s, x)) = Len(s) + 1
         /\ Ascending(Append(s, x)) /\ Upto(Append(s, x), x)
         /\ Append(s, x)[Len(s) + 1] = x
         /\ \A i \in 1..Len(s) : Append(s, x)[i] = s[i]
  <1> DEFINE u == Append(s, x)
  <1>1. u \in Seq(Nat) /\ Len(u) = Len(s) + 1 /\ u[Len(s) + 1] = x /\ Len(s) \in Nat
        /\ \A i \in 1..Len(s) : u[i] = s[i] /\ s[i] \in Nat
    OBVIOUS
  <1> HIDE DEF u
  <1>2. \A i \in 1..Len(u) : i = Len(s) + 1 \/ i \in 1..Len(s)
    BY <1>1
  <1>3. Upto(u, x)
    <2> SUFFICES ASSUME NEW i \in 1..Len(u) PROVE u[i] <= x
      BY DEF Upto
    <2>1. CASE i \in 1..Len(s)
      <3>1. s[i] < x
        BY <2>1 DEF Below
      <3>2. QED
        BY <1>1, <2>1, <3>1
    <2>2. QED
      BY <1>1, <1>2, <2>1
  <1>4. Ascending(u)
    <2> SUFFICES ASSUME NEW i \in 1..Len(u), NEW j \in 1..Len(u), i < j PROVE u[i] < u[j]
      BY DEF Ascending
    <2>1. i \in 1..Len(s)
      BY <1>1
    <2>2. CASE j = Len(s) + 1
      BY <1>1, <2>1, <2>2 DEF Below
    <2>3. CASE j \in 1..Len(s)
      <3>1. s[i] < s[j]
        BY <2>1, <2>3 DEF Ascending
      <3>2. QED
        BY <1>1, <2>1, <2>3, <3>1
    <2>4. QED
      BY <1>2, <2>2, <2>3
  <1>5. QED
    BY <1>1, <1>3, <1>4 DEF u

\* What a history keeps when a newer result is appended.
LEMMA LastOfAppended ==
  ASSUME NEW s \in Seq(Nat), Ascending(s), NEW x \in Nat, Below(s, x), NEW n \in Nat \ {0}
  PROVE  LET t == LastOf(Append(s, x), n) IN
         /\ t \in Seq(Nat) /\ Ascending(t) /\ t # << >> /\ t[Len(t)] = x
         /\ Upto(t, x)
  <1> DEFINE u == Append(s, x)
             t == LastOf(u, n)
  <1>1. u \in Seq(Nat) /\ Len(u) = Len(s) + 1 /\ u[Len(u)] = x /\ Len(s) \in Nat
        /\ Ascending(u) /\ Upto(u, x)
    BY NewerAtTheEnd
  <1> HIDE DEF u
  <1>2. \A i \in 1..Len(u) : u[i] \in Nat /\ u[i] <= x
    BY <1>1 DEF Upto
  <1>4. CASE ~(Len(u) > n)
    <2>1. t = u
      BY <1>4 DEF LastOf
    <2>2. u # << >>
      BY <1>1
    <2>3. QED
      BY <1>1, <2>1, <2>2 DEF u
  <1>5. CASE Len(u) > n
    <2> DEFINE m == Len(u) - n
    <2>1. m \in Nat /\ m + 1 \in 1..Len(u) /\ m + n = Len(u) /\ n \in Nat /\ n >= 1
      BY <1>1, <1>5
    <2>2. t = SubSeq(u, m + 1, Len(u))
      BY <1>5 DEF LastOf
    <2> HIDE DEF t
    <2>3. t \in Seq(Nat) /\ Len(t) = n /\ \A i \in 1..n : t[i] = u[m + i] /\ m + i \in 1..Len(u)
      <3>1. t \in Seq(Nat) /\ Len(t) = Len(u) - (m + 1) + 1
        BY <1>1, <2>1, <2>2
      <3>2. \A i \in 1..Len(t) : t[i] = u[(m + 1) + i - 1]
        BY <1>1, <2>1, <2>2
      <3> HIDE DEF m
      <3>3. QED
        BY <1>1, <2>1, <3>1, <3>2
    <2> HIDE DEF m
    <2>4. t[Len(t)] = x
      BY <1>1, <2>1, <2>3
    <2>5. Ascending(t)
      <3> SUFFICES ASSUME NEW i \in 1..Len(t), NEW j \in 1..Len(t), i < j PROVE t[i] < t[j]
        BY DEF Ascending
      <3>1. m + i \in 1..Len(u) /\ m + j \in 1..Len(u) /\ m + i < m + j
        BY <2>1, <2>3
      <3>2. u[m + i] < u[m + j]
        BY <1>1, <3>1 DEF Ascending
      <3>3. QED
        BY <2>3, <3>2
    <2>6. t # << >> /\ Upto(t, x)
      BY <1>2, <2>1, <2>3 DEF Upto
    <2>7. QED
      BY <2>3, <2>4, <2>5, <2>6 DEF t, u
  <1>6. QED
    BY <1>4, <1>5

\* A line that is continued goes on bringing what it brought.
LEMMA StillBrought ==
  ASSUME NEW q \in Viewer, NEW r \in Viewer, r.caughtUp = q.caughtUp, NEW x \in Nat,
         ViaChannel(r) = Append(ViaChannel(q), x), NEW id \in Nat, ~Misses(q, id)
  PROVE  ~Misses(r, id)
  <1>1. ViaChannel(q) \in Seq(Nat) /\ SubBuffer \in Nat \ {0}
    BY DashboardAssumption DEF Viewer, ViaChannel
  <1>2. PICK s \in Seq(Nat) : s = ViaChannel(q)
    BY <1>1
  <1>3. /\ ViaChannel(r) = Append(s, x) /\ Len(Append(s, x)) = Len(s) + 1 /\ Len(s) \in Nat
        /\ \A i \in 1..Len(s) : Append(s, x)[i] = s[i]
    BY <1>2
  <1>4. \A i \in 1..Len(s) : i \in 1..Len(ViaChannel(r)) /\ ViaChannel(r)[i] = s[i]
    BY <1>3
  <1>5. CASE Brought(q, id)
    <2>1. Brought(r, id)
      BY <1>2, <1>4, <1>5 DEF Brought
    <2>2. QED
      BY <2>1 DEF Misses
  <1>6. CASE HadNoRoom(q, id)
    <2>1. SubBuffer \in 1..Len(s)
      BY <1>1, <1>2, <1>3, <1>6 DEF HadNoRoom
    <2>2. Len(ViaChannel(r)) >= SubBuffer
      BY <1>1, <1>3, <2>1
    <2>3. HadNoRoom(r, id)
      BY <1>2, <1>4, <1>6, <2>1, <2>2 DEF HadNoRoom
    <2>4. QED
      BY <2>3 DEF Misses
  <1>7. QED
    BY <1>5, <1>6 DEF Misses

\* What is offered comes behind all that the viewer is told.
LEMMA OfferedLast ==
  ASSUME NEW w \in Seq(Nat), NEW c \in Seq(Nat), NEW id \in Nat
  PROVE  w \o Append(c, id) = Append(w \o c, id)
  <1>1. <<id>> \in Seq(Nat) /\ w \o c \in Seq(Nat)
    BY ConcatProperties
  <1>2. Append(c, id) = c \o <<id>> /\ Append(w \o c, id) = (w \o c) \o <<id>>
    BY <1>1, AppendIsConcat
  <1>3. (w \o c) \o <<id>> = w \o (c \o <<id>>)
    BY <1>1, ConcatAssociative
  <1>4. QED
    BY <1>2, <1>3

LEMMA ViaChannelTyped ==
  ASSUME NEW q \in Viewer
  PROVE  /\ q.chan \in Seq(Nat) /\ q.written \in Seq(Nat) /\ q # Away
         /\ ViaChannel(q) \in Seq(Nat) /\ Len(ViaChannel(q)) = Len(q.written) + Len(q.chan)
         /\ Len(q.chan) \in Nat /\ Len(q.written) \in Nat
  <1>1. q.chan \in Seq(Nat) /\ q.written \in Seq(Nat) /\ q # Away
    BY DEF Viewer, Away
  <1>2. /\ q.written \o q.chan \in Seq(Nat)
        /\ Len(q.written \o q.chan) = Len(q.written) + Len(q.chan)
    BY <1>1, ConcatProperties
  <1>3. Len(q.chan) \in Nat /\ Len(q.written) \in Nat
    BY <1>1, LenProperties
  <1>4. QED
    BY <1>1, <1>2, <1>3 DEF ViaChannel

\* A result offered to a viewer that has only got older ones: there is room for it ...
LEMMA OfferWithRoom ==
  ASSUME NEW q \in Viewer, Ascending(ViaChannel(q)), NEW id \in Nat, Below(ViaChannel(q), id),
         Len(q.chan) < SubBuffer
  PROVE  LET r == Offer(q, id) IN
         /\ r \in Viewer /\ Ascending(ViaChannel(r)) /\ Upto(ViaChannel(r), id)
         /\ r.pc = q.pc /\ r.caughtUp = q.caughtUp
         /\ ~Misses(r, id)
         /\ \A k \in Nat : ~Misses(q, k) => ~Misses(r, k)
  <1> DEFINE r == Offer(q, id)
  <1>1. r = [q EXCEPT !.chan = Append(q.chan, id)]
    BY ViaChannelTyped DEF Offer
  <1>2. Append(q.chan, id) \in Seq(Nat)
    BY ViaChannelTyped, AppendProperties
  <1>3. r \in Viewer /\ r.chan = Append(q.chan, id) /\ r.written = q.written
        /\ r.pc = q.pc /\ r.caughtUp = q.caughtUp
    BY <1>1, <1>2 DEF Viewer
  <1> HIDE DEF r
  <1>4. ViaChannel(r) = Append(ViaChannel(q), id)
    <2>1. q.written \o Append(q.chan, id) = Append(q.written \o q.chan, id)
      BY ViaChannelTyped, OfferedLast
    <2>2. QED
      BY <1>3, <2>1 DEF ViaChannel
  <1>5. PICK s \in Seq(Nat) : s = ViaChannel(q)
    BY ViaChannelTyped
  <1>6. /\ Ascending(ViaChannel(r)) /\ Upto(ViaChannel(r), id)
        /\ Len(ViaChannel(r)) = Len(s) + 1 /\ ViaChannel(r)[Len(s) + 1] = id
    BY <1>4, <1>5, NewerAtTheEnd
  <1>7. Len(s) + 1 \in 1..Len(ViaChannel(r))
    BY <1>5, <1>6
  <1>8. Brought(r, id)
    BY <1>6, <1>7 DEF Brought
  <1>9. \A k \in Nat : ~Misses(q, k) => ~Misses(r, k)
    BY <1>3, <1>4, StillBrought
  <1>10. QED
    BY <1>3, <1>6, <1>8, <1>9 DEF Misses, r

\* ... or there is none, and what it gets instead is older.
LEMMA OfferToTheFull ==
  ASSUME NEW q \in Viewer, NEW id \in Nat, Below(ViaChannel(q), id),
         ~(Len(q.chan) < SubBuffer)
  PROVE  Offer(q, id) = q /\ Upto(ViaChannel(q), id) /\ ~Misses(q, id)
  <1>1. Offer(q, id) = q
    BY DEF Offer
  <1>2. PICK s \in Seq(Nat), n \in Nat \ {0} : s = ViaChannel(q) /\ n = SubBuffer
    BY ViaChannelTyped, DashboardAssumption
  <1>3. \A i \in 1..Len(s) : s[i] < id /\ s[i] \in Nat
    BY <1>2 DEF Below
  <1>4. Len(s) >= n
    <2>1. PICK a \in Nat, b \in Nat : a = Len(q.written) /\ b = Len(q.chan)
      BY ViaChannelTyped
    <2>2. Len(s) = a + b /\ ~(b < n)
      BY <1>2, <2>1, ViaChannelTyped
    <2>3. QED
      BY <2>2
  <1>5. s[n] < id
    BY <1>3, <1>4
  <1>6. HadNoRoom(q, id)
    BY <1>2, <1>4, <1>5 DEF HadNoRoom
  <1>7. \A i \in 1..Len(s) : s[i] <= id
    BY <1>3
  <1>8. QED
    BY <1>1, <1>2, <1>6, <1>7 DEF Misses, Upto

LEMMA OfferIsTold ==
  ASSUME NEW q \in Viewer, Ascending(ViaChannel(q)), NEW id \in Nat, Below(ViaChannel(q), id)
  PROVE  LET r == Offer(q, id) IN
         /\ r \in Viewer /\ Ascending(ViaChannel(r)) /\ Upto(ViaChannel(r), id)
         /\ r.pc = q.pc /\ r.caughtUp = q.caughtUp
         /\ ~Misses(r, id)
         /\ \A k \in Nat : ~Misses(q, k) => ~Misses(r, k)
  <1>1. CASE Len(q.chan) < SubBuffer
    BY <1>1, OfferWithRoom
  <1>2. CASE ~(Len(q.chan) < SubBuffer)
    BY <1>2, OfferToTheFull
  <1>3. QED
    BY <1>1, <1>2

LEMMA DashInvInit == DashInit => DashInv
  <1> SUFFICES ASSUME DashInit PROVE DashInv
    OBVIOUS
  <1> USE DEF DashInit
  <1>1. DashShape
    BY DEF DashShape
  <1>2. OneProbe /\ HistoryOK
    BY DEF OneProbe, HistoryOK, Ascending, Upto
  <1>3. \A v \in Viewers : Served(viewer[v])
    BY DEF Served
  <1>4. QED
    BY <1>1, <1>2, <1>3 DEF DashInv

\* One viewer moves.
LEMMA ViewerStep ==
  ASSUME DashInv, NEW v \in Viewers, NEW q \in {Away} \union Viewer, Served(q),
         viewer' = [viewer EXCEPT ![v] = q],
         UNCHANGED <<probes, inFlight, lastResult, history>>
  PROVE  DashInv'
  <1> USE DEF DashInv
  <1>1. DashShape' /\ \A u \in Viewers : viewer'[u] = IF u = v THEN q ELSE viewer[u]
    BY DEF DashShape
  <1>2. OneProbe' /\ HistoryOK'
    BY DEF OneProbe, HistoryOK
  <1>3. \A u \in Viewers : Served(viewer[u])'
    BY <1>1 DEF Served, Announced
  <1>4. QED
    BY <1>1, <1>2, <1>3

LEMMA SubscribeStep ==
  ASSUME DashInv, NEW v \in Viewers, Subscribe(v)
  PROVE  DashInv'
  <1>1. NewViewer \in Viewer /\ NewViewer.pc = "subscribed" /\ ViaChannel(NewViewer) = << >>
    BY DEF Viewer, NewViewer, ViaChannel
  <1>2. Ascending(<< >>) /\ \A id : Upto(<< >>, id) /\ Below(<< >>, id)
    BY DEF Ascending, Upto, Below
  <1>3. Served(NewViewer)
    BY <1>1, <1>2 DEF Served
  <1>4. QED
    BY <1>1, <1>3, ViewerStep DEF Subscribe

LEMMA ViewerTyped ==
  ASSUME DashInv, NEW v \in Viewers, viewer[v] # Away
  PROVE  viewer[v] \in Viewer /\ Served(viewer[v])
  BY DEF DashInv, DashShape

LEMMA CatchUpStep ==
  ASSUME DashInv, NEW v \in Viewers, CatchUp(v)
  PROVE  DashInv'
  <1> DEFINE old == viewer[v]
             q == [old EXCEPT !.pc = "loop", !.caughtUp = lastResult]
  <1>1. old # Away
    BY DEF CatchUp, Away
  <1>2. old \in Viewer /\ Served(old)
    BY <1>1, ViewerTyped
  <1>3. q \in Viewer /\ q.chan = old.chan /\ q.written = old.written /\ q.caughtUp = lastResult
    BY <1>2 DEF Viewer, DashInv, DashShape
  <1>4. \A id \in Announced : id <= lastResult
    BY DEF Announced, DashInv, DashShape
  <1> HIDE DEF q
  <1>5. \A id \in Announced : ~Misses(q, id)
    BY <1>3, <1>4 DEF Misses, Brought
  <1>6. ViaChannel(q) = ViaChannel(old)
    BY <1>3 DEF ViaChannel
  <1>7. Served(q)
    BY <1>1, <1>2, <1>5, <1>6 DEF Served
  <1>8. viewer' = [viewer EXCEPT ![v] = q]
    BY DEF q, CatchUp, DashInv, DashShape
  <1>9. QED
    BY <1>3, <1>7, <1>8, ViewerStep DEF CatchUp

LEMMA UnsubscribeStep ==
  ASSUME DashInv, NEW v \in Viewers, Unsubscribe(v)
  PROVE  DashInv'
  <1>1. Served(Away)
    BY DEF Served
  <1>2. QED
    BY <1>1, ViewerStep DEF Unsubscribe

\* What leaves the channel is written, and nothing else changes what a viewer is told.
LEMMA ReceiveStep ==
  ASSUME DashInv, NEW v \in Viewers, Receive(v)
  PROVE  DashInv'
  <1> DEFINE old == viewer[v]
             q == [old EXCEPT !.written = Append(old.written, Head(old.chan)),
                              !.chan = Tail(old.chan)]
  <1>1. old # Away /\ old.chan # << >>
    BY DEF Receive, Away
  <1>2. old \in Viewer /\ Served(old)
    BY <1>1, ViewerTyped
  <1>3. PICK w \in Seq(Nat), c \in Seq(Nat) : w = old.written /\ c = old.chan
    BY <1>2 DEF Viewer
  <1>4. Append(w, Head(c)) \o Tail(c) = w \o c /\ Append(w, Head(c)) \in Seq(Nat) /\ Tail(c) \in Seq(Nat)
    <2>1. c # << >> /\ Head(c) \in Nat /\ Tail(c) \in Seq(Nat)
      BY <1>1, <1>3, HeadTailProperties
    <2>2. Append(w, Head(c)) = w \o <<Head(c)>> /\ Append(w, Head(c)) \in Seq(Nat)
          /\ <<Head(c)>> \in Seq(Nat)
      BY <2>1, AppendIsConcat, AppendProperties
    <2>3. <<Head(c)>> \o Tail(c) = c
      BY <2>1
    <2>4. (w \o <<Head(c)>>) \o Tail(c) = w \o (<<Head(c)>> \o Tail(c))
      BY <2>1, <2>2, ConcatAssociative
    <2>5. QED
      BY <2>1, <2>2, <2>3, <2>4
  <1>5. q \in Viewer /\ q.written = Append(w, Head(c)) /\ q.chan = Tail(c)
        /\ q.pc = old.pc /\ q.caughtUp = old.caughtUp
    BY <1>2, <1>3, <1>4 DEF Viewer
  <1>6. viewer' = [viewer EXCEPT ![v] = q]
    BY DEF Receive, DashInv, DashShape
  <1> HIDE DEF q
  <1>7. ViaChannel(q) = ViaChannel(old)
    BY <1>3, <1>4, <1>5 DEF ViaChannel
  <1>8. \A id : Misses(q, id) <=> Misses(old, id)
    BY <1>5, <1>7 DEF Misses, Brought, HadNoRoom
  <1>9. Served(q)
    BY <1>1, <1>2, <1>5, <1>7, <1>8 DEF Served
  <1>10. QED
    BY <1>5, <1>6, <1>9, ViewerStep DEF Receive

LEMMA ProbeBeginsStep == DashInv /\ ProbeBegins => DashInv'
  <1> SUFFICES ASSUME DashInv, ProbeBegins PROVE DashInv'
    OBVIOUS
  <1> DEFINE p == [id |-> probes + 1, pc |-> "probing"]
  <1>1. /\ probes' = probes + 1 /\ inFlight = {} /\ inFlight' = {p}
        /\ UNCHANGED <<lastResult, history, viewer>>
    BY DEF ProbeBegins, MayProbe
  <1>2. probes \in Nat /\ p \in Probe /\ p.id = probes + 1
    BY DEF DashInv, DashShape, Probe
  <1> HIDE DEF p
  <1>3. lastResult \in Nat /\ lastResult = probes /\ p.pc = "probing"
    BY <1>1 DEF DashInv, DashShape, OneProbe, p
  <1>4. DashShape' /\ OneProbe'
    BY <1>1, <1>2, <1>3 DEF DashInv, DashShape, OneProbe
  <1>5. \A s \in Seq(Nat) : Upto(s, probes) => Upto(s, probes + 1) /\ Below(s, p.id)
    <2> SUFFICES ASSUME NEW s \in Seq(Nat), Upto(s, probes), NEW i \in 1..Len(s)
                 PROVE  s[i] <= probes + 1 /\ s[i] < p.id
      BY DEF Upto, Below
    <2>1. s[i] \in Nat /\ s[i] <= probes
      BY DEF Upto
    <2>2. QED
      BY <1>2, <2>1
  <1>6. HistoryOK'
    BY <1>1, <1>5 DEF DashInv, HistoryOK, DashShape
  <1>7. Announced' = Announced
    BY <1>1, <1>2, <1>3 DEF Announced
  <1>8. ASSUME NEW v \in Viewers, viewer[v] # Away PROVE Served(viewer[v])'
    <2>1. viewer[v] \in Viewer /\ Served(viewer[v]) /\ ViaChannel(viewer[v]) \in Seq(Nat)
      BY <1>8, ViewerTyped DEF Viewer, ViaChannel
    <2>2. QED
      BY <1>1, <1>5, <1>7, <1>8, <2>1 DEF Served
  <1>9. \A v \in Viewers : Served(viewer[v])'
    BY <1>1, <1>8 DEF Served
  <1>10. QED
    BY <1>4, <1>6, <1>9 DEF DashInv

LEMMA StoreStep ==
  ASSUME DashInv, NEW p \in inFlight, Store(p)
  PROVE  DashInv'
  <1> DEFINE stored == [p EXCEPT !.pc = "stored"]
             kept == LastOf(Append(history, p.id), MaxHistory)
  <1>1. /\ p \in Probe /\ p.id = probes /\ p.id \in Nat /\ p.pc = "probing"
        /\ \A q \in inFlight : q = p
    BY DEF DashInv, DashShape, OneProbe, Probe, Store, TargetsProbed
  <1>2. /\ lastResult' = p.id /\ history' = kept /\ inFlight' = {stored}
        /\ UNCHANGED <<probes, viewer>>
    BY <1>1 DEF Store
  <1>3. stored \in Probe /\ stored.id = p.id /\ stored.pc = "stored"
    BY <1>1 DEF Probe
  <1>4. /\ history \in Seq(Nat) /\ Ascending(history) /\ MaxHistory \in Nat \ {0}
        /\ Below(history, p.id)
    BY <1>1, DashboardAssumption DEF DashInv, DashShape, HistoryOK
  <1>5. /\ kept \in Seq(Nat) /\ Ascending(kept) /\ kept # << >> /\ kept[Len(kept)] = p.id
        /\ Upto(kept, p.id)
    BY <1>1, <1>4, LastOfAppended
  <1> HIDE DEF stored, kept
  <1>6. DashShape' /\ OneProbe'
    BY <1>1, <1>2, <1>3, <1>5 DEF DashInv, DashShape, OneProbe
  <1>7. HistoryOK'
    BY <1>1, <1>2, <1>3, <1>5 DEF HistoryOK
  <1>8. Announced' \subseteq Announced
    <2>1. lastResult \in Nat /\ p.id = lastResult + 1
      BY <1>1 DEF DashInv, DashShape, OneProbe
    <2>2. {q.id : q \in inFlight'} = {p.id} /\ {q.id : q \in inFlight} = {p.id}
      BY <1>1, <1>2, <1>3
    <2>3. SUFFICES ASSUME NEW id \in 1..p.id, id # p.id PROVE id \in 1..lastResult
      BY <1>2, <2>2 DEF Announced
    <2>4. QED
      BY <2>1, <2>3
  <1>9. \A v \in Viewers : Served(viewer[v])'
    BY <1>1, <1>2, <1>3, <1>8 DEF DashInv, Served
  <1>10. QED
    BY <1>6, <1>7, <1>9 DEF DashInv

LEMMA BroadcastStep ==
  ASSUME DashInv, NEW p \in inFlight, Broadcast(p)
  PROVE  DashInv'
  <1>1. /\ p \in Probe /\ p.id = probes /\ p.id \in Nat /\ p.pc = "stored"
        /\ lastResult = p.id /\ \A q \in inFlight : q = p
    BY DEF DashInv, DashShape, OneProbe, Probe, Broadcast
  <1>2. /\ viewer' = [v \in Viewers |-> Offer(viewer[v], p.id)] /\ inFlight' = {}
        /\ UNCHANGED <<probes, lastResult, history>>
    BY <1>1 DEF Broadcast
  <1>3. \A id \in Announced' : id \in Nat /\ (id = p.id \/ id \in Announced)
    BY <1>1, <1>2 DEF Announced
  <1>4. ASSUME NEW v \in Viewers
        PROVE  viewer'[v] \in {Away} \union Viewer /\ Served(viewer[v])'
    <2>0. viewer'[v] = Offer(viewer[v], p.id)
      BY <1>2
    <2>1. CASE viewer[v] = Away
      <3>1. viewer'[v] = Away
        BY <2>0, <2>1 DEF Offer
      <3>2. QED
        BY <3>1 DEF Served
    <2>2. CASE viewer[v] # Away
      <3>1. /\ viewer[v] \in Viewer /\ Ascending(ViaChannel(viewer[v])) /\ Below(ViaChannel(viewer[v]), p.id)
            /\ viewer[v].pc = "loop" => \A id \in Announced : ~Misses(viewer[v], id)
        BY <2>2, ViewerTyped DEF Served
      <3>2. /\ viewer'[v] \in Viewer /\ Ascending(ViaChannel(viewer'[v])) /\ Upto(ViaChannel(viewer'[v]), p.id)
            /\ viewer'[v].pc = viewer[v].pc
            /\ ~Misses(viewer'[v], p.id)
            /\ \A k \in Nat : ~Misses(viewer[v], k) => ~Misses(viewer'[v], k)
        BY <1>1, <2>0, <3>1, OfferIsTold
      <3>3. viewer'[v].pc = "loop" => \A id \in Announced' : ~Misses(viewer'[v], id)
        BY <1>3, <3>1, <3>2
      <3>4. QED
        BY <1>1, <1>2, <3>2, <3>3 DEF Served, Misses, Brought, HadNoRoom, ViaChannel
    <2>3. QED
      BY <2>1, <2>2
  <1>5. DashShape' /\ OneProbe'
    BY <1>1, <1>2, <1>4 DEF DashInv, DashShape, OneProbe
  <1>6. HistoryOK'
    BY <1>2 DEF DashInv, HistoryOK
  <1>7. \A v \in Viewers : Served(viewer[v])'
    BY <1>2, <1>4
  <1>8. QED
    BY <1>5, <1>6, <1>7 DEF DashInv

LEMMA DashInvStep == DashInv /\ [DashNext]_dashVars => DashInv'
  <1> SUFFICES ASSUME DashInv, [DashNext]_dashVars PROVE DashInv'
    OBVIOUS
  <1>1. CASE UNCHANGED dashVars
    BY <1>1 DEF dashVars, DashInv, DashShape, OneProbe, HistoryOK, Served, Announced
  <1>2. CASE DashNext
    BY <1>2, ProbeBeginsStep, StoreStep, BroadcastStep, SubscribeStep, CatchUpStep,
       ReceiveStep, UnsubscribeStep DEF DashNext
  <1>3. QED
    BY <1>1, <1>2

\* Every result that was offered reaches a viewer, by the catch-up or through its
\* channel, in order and once, unless its channel had no room, however subscription,
\* catch-up, storing and broadcast interleave; for any number of viewers, any buffer and
\* any history, which ends with the newest result (dashboard.go:108-181, 353-371).
THEOREM NoResultFallsThrough == DashSpec => []ViewersMissNothing
  <1>1. DashSpec => []DashInv
    BY DashInvInit, DashInvStep, PTL DEF DashSpec
  <1>2. ASSUME DashInv PROVE ViewersMissNothing
    <2>1. ASSUME NEW v \in Viewers, viewer[v] # Away
          PROVE  /\ Ascending(ViaChannel(viewer[v]))
                 /\ viewer[v].pc = "loop" =>
                      \A id \in Announced : Brought(viewer[v], id) \/ HadNoRoom(viewer[v], id)
      BY <1>2, <2>1, ViewerTyped DEF Served, Misses
    <2>2. QED
      BY <1>2, <2>1 DEF ViewersMissNothing, DashInv, HistoryOK
  <1>3. QED
    BY <1>1, <1>2, PTL

\* What bounds the dashboard's state: the caps of its history and of each channel.
DashFits ==
    /\ probes <= MaxProbes /\ lastResult <= probes
    /\ Len(history) <= MaxHistory
    /\ \A v \in Viewers : viewer[v] # Away => Len(viewer[v].chan) <= SubBuffer

LEMMA LastOfFits ==
  ASSUME NEW s \in Seq(Nat), NEW n \in Nat
  PROVE  Len(LastOf(s, n)) <= n
  <1>1. CASE Len(s) > n
    <2>1. LastOf(s, n) = SubSeq(s, Len(s) - n + 1, Len(s))
      BY <1>1 DEF LastOf
    <2>2. Len(SubSeq(s, Len(s) - n + 1, Len(s))) = n
      BY <1>1
    <2>3. QED
      BY <2>1, <2>2
  <1>2. CASE ~(Len(s) > n)
    BY <1>2 DEF LastOf
  <1>3. QED
    BY <1>1, <1>2

\* One viewer moves, and its channel does not grow.
LEMMA ViewerFits ==
  ASSUME DashInv, DashFits, NEW v \in Viewers, NEW q,
         viewer' = [viewer EXCEPT ![v] = q],
         q # Away => Len(q.chan) <= SubBuffer,
         UNCHANGED <<probes, lastResult, history>>
  PROVE  DashFits'
  <1>1. \A u \in Viewers : viewer'[u] = IF u = v THEN q ELSE viewer[u]
    BY DEF DashInv, DashShape
  <1>2. QED
    BY <1>1 DEF DashFits

LEMMA DashFitsStep == DashInv /\ DashFits /\ [DashNext]_dashVars => DashFits'
  <1> SUFFICES ASSUME DashInv, DashFits, [DashNext]_dashVars PROVE DashFits'
    OBVIOUS
  <1>0. probes \in Nat /\ lastResult \in Nat /\ MaxProbes \in Nat /\ SubBuffer \in Nat \ {0}
        /\ MaxHistory \in Nat \ {0}
    BY DashboardAssumption DEF DashInv, DashShape
  <1>1. CASE ProbeBegins
    BY <1>0, <1>1 DEF ProbeBegins, DashFits
  <1>2. ASSUME NEW p \in inFlight, Store(p) PROVE DashFits'
    <2>1. p.id = probes /\ p.id \in Nat /\ history \in Seq(Nat)
      BY DEF DashInv, DashShape, OneProbe, Probe
    <2>2. lastResult' = probes /\ history' = LastOf(Append(history, p.id), MaxHistory)
          /\ UNCHANGED <<probes, viewer>>
      BY <1>2, <2>1 DEF Store
    <2>3. Append(history, p.id) \in Seq(Nat)
      BY <2>1
    <2>4. Len(history') <= MaxHistory
      BY <1>0, <2>2, <2>3, LastOfFits
    <2>5. QED
      BY <1>0, <2>2, <2>4 DEF DashFits
  <1>3. ASSUME NEW p \in inFlight, Broadcast(p) PROVE DashFits'
    <2>1. /\ viewer' = [v \in Viewers |-> Offer(viewer[v], p.id)] /\ p.id \in Nat
          /\ UNCHANGED <<probes, lastResult, history>>
      BY <1>3 DEF Broadcast, DashInv, DashShape, Probe
    <2>2. ASSUME NEW v \in Viewers, viewer'[v] # Away PROVE Len(viewer'[v].chan) <= SubBuffer
      <3>1. viewer'[v] = Offer(viewer[v], p.id)
        BY <2>1
      <3>2. viewer[v] # Away
        BY <2>2, <3>1 DEF Offer
      <3>3. viewer[v] \in Viewer /\ viewer[v].chan \in Seq(Nat) /\ Len(viewer[v].chan) <= SubBuffer
        BY <3>2, ViewerTyped DEF Viewer, DashFits
      <3>4. CASE Len(viewer[v].chan) < SubBuffer
        <4>0. viewer'[v] = [viewer[v] EXCEPT !.chan = Append(viewer[v].chan, p.id)]
          BY <3>1, <3>2, <3>4 DEF Offer
        <4>1. viewer'[v].chan = Append(viewer[v].chan, p.id)
          BY <3>3, <4>0 DEF Viewer
        <4>2. QED
          BY <1>0, <2>1, <3>3, <3>4, <4>1
      <3>5. CASE ~(Len(viewer[v].chan) < SubBuffer)
        BY <3>1, <3>3, <3>5 DEF Offer
      <3>6. QED
        BY <3>4, <3>5
    <2>3. QED
      BY <2>1, <2>2 DEF DashFits
  <1>4. ASSUME NEW v \in Viewers, Subscribe(v) PROVE DashFits'
    <2>1. PICK q : q = NewViewer
      OBVIOUS
    <2>2. q.chan = << >> /\ Len(q.chan) <= SubBuffer
      BY <1>0, <2>1 DEF NewViewer
    <2>3. QED
      BY <1>4, <2>1, <2>2, ViewerFits DEF Subscribe
  <1>5. ASSUME NEW v \in Viewers, CatchUp(v) PROVE DashFits'
    <2>1. viewer[v] # Away
      BY <1>5 DEF CatchUp, Away
    <2>2. viewer[v] \in Viewer /\ Len(viewer[v].chan) <= SubBuffer
      BY <2>1, ViewerTyped DEF DashFits
    <2>3. PICK q : q = [viewer[v] EXCEPT !.pc = "loop", !.caughtUp = lastResult]
      OBVIOUS
    <2>4. q.chan = viewer[v].chan /\ viewer' = [viewer EXCEPT ![v] = q]
          /\ UNCHANGED <<probes, lastResult, history>>
      BY <1>5, <2>2, <2>3 DEF CatchUp, Viewer, DashInv, DashShape
    <2>5. QED
      BY <2>2, <2>4, ViewerFits
  <1>6. ASSUME NEW v \in Viewers, Receive(v) PROVE DashFits'
    <2>1. viewer[v] # Away /\ viewer[v].chan # << >>
      BY <1>6 DEF Receive, Away
    <2>2. viewer[v] \in Viewer /\ viewer[v].chan \in Seq(Nat) /\ Len(viewer[v].chan) <= SubBuffer
      BY <2>1, ViewerTyped DEF DashFits, Viewer
    <2>3. PICK q : q = [viewer[v] EXCEPT !.written = Append(viewer[v].written, Head(viewer[v].chan)),
                                         !.chan = Tail(viewer[v].chan)]
      OBVIOUS
    <2>4. q.chan = Tail(viewer[v].chan) /\ viewer' = [viewer EXCEPT ![v] = q]
          /\ UNCHANGED <<probes, lastResult, history>>
      BY <1>6, <2>2, <2>3 DEF Receive, Viewer, DashInv, DashShape
    <2>5. Len(Tail(viewer[v].chan)) <= SubBuffer
      BY <1>0, <2>1, <2>2
    <2>6. QED
      BY <2>4, <2>5, ViewerFits
  <1>7. ASSUME NEW v \in Viewers, Unsubscribe(v) PROVE DashFits'
    BY <1>7, ViewerFits DEF Unsubscribe
  <1>8. CASE UNCHANGED dashVars
    BY <1>8 DEF dashVars, DashFits
  <1>9. QED
    BY <1>1, <1>2, <1>3, <1>4, <1>5, <1>6, <1>7, <1>8 DEF DashNext

\* The dashboard's variables keep their types: neither the history nor a viewer's
\* channel outgrows its cap (dashboard.go:108-181).
THEOREM DashTypeCorrect == DashSpec => []DashTyped
  <1>1. DashInit => DashInv /\ DashFits
    BY DashInvInit, DashboardAssumption DEF DashInit, DashFits
  <1>2. DashInv /\ DashFits /\ [DashNext]_dashVars => (DashInv /\ DashFits)'
    BY DashInvStep, DashFitsStep
  <1>3. DashInv /\ DashFits => DashTyped
    BY DashboardAssumption DEF DashInv, DashShape, DashFits, DashTyped, Viewer
  <1>4. QED
    BY <1>1, <1>2, <1>3, PTL DEF DashSpec

----------------------------------------------------------------------------
(***************************************************************************)
(* Credentials.  A cached value that is not the file's is no younger than  *)
(* the last upset, so while a calm call lasts nothing but the file's value *)
(* can be loaded: the cache has it or has expired, and nobody carries      *)
(* another one.                                                            *)
(***************************************************************************)
ChatCall == [pc : CallPcs, seen : Contents, session : Contents, used : Contents, calm : BOOLEAN]

CredShape ==
    /\ second \in Nat /\ upset \in Nat
    /\ file \in Contents \ {Torn}
    /\ cached # NotCached =>
          cached.value \in Contents \ {Torn} /\ cached.at \in 0..second
    /\ call \in [Calls -> {NoCall} \union ChatCall]
    /\ issued \in 0..MaxCommands

Outdated == cached # NotCached /\ cached.value # file => cached.at <= upset

Sound(q) ==
    q # NoCall => /\ q.pc \in {"sessionRead", "chatRead"} => q.seen # Torn
                  /\ q.pc = "done" => q.used # Torn

Holds(q) ==
    /\ q.pc \in {"chat", "chatRead", "done"} => q.session = file
    /\ q.pc = "done" => q.used = file

Carried == \A c \in Calls : call[c] # NoCall /\ call[c].pc \in {"sessionRead", "chatRead"} =>
               call[c].seen = file

Calmly ==
    \A c \in Calls : call[c] # NoCall /\ call[c].calm =>
        second > upset /\ Carried /\ Holds(call[c])

CredInv == CredShape /\ Outdated /\ (\A c \in Calls : Sound(call[c])) /\ Calmly

LEMMA ContentsTyped ==
  /\ NoFile \in Contents /\ Torn \in Contents /\ NoFile # Torn
  /\ 0..MaxCommands \subseteq Contents /\ Torn \notin 0..MaxCommands
  BY CredentialAssumption DEF NoFile, Torn, Contents

LEMMA CredInvInit == CredInit => CredInv
  <1> SUFFICES ASSUME CredInit PROVE CredInv
    OBVIOUS
  <1> USE DEF CredInit
  <1>1. CredShape
    BY ContentsTyped, CredentialAssumption DEF CredShape
  <1>2. \A c \in Calls : call[c] = NoCall
    OBVIOUS
  <1>3. Outdated
    BY DEF Outdated
  <1>4. \A c \in Calls : Sound(call[c])
    BY <1>2 DEF Sound
  <1>5. Calmly
    BY <1>2 DEF Calmly
  <1>6. QED
    BY <1>1, <1>3, <1>4, <1>5 DEF CredInv

LEMMA CallTyped ==
  ASSUME CredInv, NEW c \in Calls, call[c] # NoCall
  PROVE  call[c] \in ChatCall /\ Sound(call[c])
  BY DEF CredInv, CredShape

\* One call moves, and nothing else.
LEMMA OneCallSteps ==
  ASSUME CredInv, NEW c \in Calls, NEW q \in {NoCall} \union ChatCall, Sound(q),
         q # NoCall /\ q.calm => second > upset /\ Carried /\ Holds(q),
         q # NoCall /\ q.pc \in {"sessionRead", "chatRead"} =>
             q.seen = file \/ \A d \in Calls : d # c /\ call[d] # NoCall => ~call[d].calm,
         q # NoCall /\ q.pc \in {"sessionRead", "chatRead"} /\ q.calm => q.seen = file,
         call' = [call EXCEPT ![c] = q], UNCHANGED <<second, file, cached, issued, upset>>
  PROVE  CredInv'
  <1> USE DEF CredInv
  <1>1. CredShape' /\ \A d \in Calls : call'[d] = IF d = c THEN q ELSE call[d]
    BY DEF CredShape
  <1>2. Outdated'
    BY DEF Outdated
  <1>3. \A d \in Calls : Sound(call'[d])
    BY <1>1
  <1>4. ASSUME NEW d \in Calls, call'[d] # NoCall, call'[d].calm
        PROVE  second > upset /\ Carried' /\ Holds(call'[d])
    <2>1. second > upset /\ Carried /\ Holds(call'[d])
      BY <1>1, <1>4 DEF Calmly
    <2>2. q # NoCall /\ q.pc \in {"sessionRead", "chatRead"} => q.seen = file
      BY <1>1, <1>4
    <2>3. Carried'
      BY <1>1, <2>1, <2>2 DEF Carried
    <2>4. QED
      BY <2>1, <2>3
  <1>5. Calmly'
    BY <1>4 DEF Calmly, Holds
  <1>6. QED
    BY <1>1, <1>2, <1>3, <1>5 DEF Sound

LEMMA BeginCallStep ==
  ASSUME CredInv, NEW c \in Calls, BeginCall(c)
  PROVE  CredInv'
  <1> DEFINE q == [pc |-> "session", seen |-> 0, session |-> 0, used |-> 0, calm |-> CalmNow]
  <1>1. q \in ChatCall
    BY ContentsTyped DEF ChatCall, CallPcs, NoFile, CalmNow
  <1>2. Sound(q) /\ Holds(q)
    BY DEF Sound, Holds
  <1>3. CalmNow => second > upset /\ Carried
    <2> SUFFICES ASSUME CalmNow, NEW d \in Calls, call[d] # NoCall,
                        call[d].pc \in {"sessionRead", "chatRead"}
                 PROVE  call[d].seen = file
      BY DEF CalmNow, Carried
    <2>1. call[d].seen \in Contents
      BY CallTyped DEF ChatCall
    <2>2. QED
      BY <2>1 DEF CalmNow, Carries
  <1>4. QED
    BY <1>1, <1>2, <1>3, OneCallSteps DEF BeginCall

\* What a Load returns while its call is calm is the file's value.
LEMMA ReturnedHolds ==
  ASSUME CredInv, NEW q \in ChatCall, NEW v \in Contents \ {Torn},
         q.pc \in {"session", "sessionRead", "chat", "chatRead"}
  PROVE  /\ Returned(q, v) \in ChatCall /\ Sound(Returned(q, v))
         /\ Returned(q, v).calm = q.calm
         /\ Returned(q, v).pc \in {"chat", "done"}
         /\ Holds(q) /\ v = file => Holds(Returned(q, v))
  <1>1. CASE v \in {NoFile, Torn}
    <2>1. Returned(q, v) = [q EXCEPT !.pc = "done", !.used = v, !.session = v]
      BY <1>1 DEF Returned
    <2>2. /\ Returned(q, v) \in ChatCall /\ Returned(q, v).pc = "done" /\ Returned(q, v).used = v
          /\ Returned(q, v).session = v /\ Returned(q, v).calm = q.calm
      BY <2>1 DEF ChatCall, CallPcs
    <2>3. QED
      BY <2>2 DEF Sound, Holds
  <1>2. CASE v \notin {NoFile, Torn} /\ q.pc \in {"session", "sessionRead"}
    <2>1. Returned(q, v) = [q EXCEPT !.pc = "chat", !.session = v]
      BY <1>2 DEF Returned
    <2>2. /\ Returned(q, v) \in ChatCall /\ Returned(q, v).pc = "chat"
          /\ Returned(q, v).session = v /\ Returned(q, v).calm = q.calm
      BY <2>1 DEF ChatCall, CallPcs
    <2>3. QED
      BY <2>2 DEF Sound, Holds
  <1>3. CASE v \notin {NoFile, Torn} /\ q.pc \in {"chat", "chatRead"}
    <2>1. Returned(q, v) = [q EXCEPT !.pc = "done", !.used = v]
      BY <1>3 DEF Returned
    <2>2. /\ Returned(q, v) \in ChatCall /\ Returned(q, v).pc = "done" /\ Returned(q, v).used = v
          /\ Returned(q, v).session = q.session /\ Returned(q, v).calm = q.calm
      BY <2>1 DEF ChatCall, CallPcs
    <2>3. QED
      BY <1>3, <2>2 DEF Sound, Holds
  <1>4. QED
    BY <1>1, <1>2, <1>3

LEMMA LoadHitStep ==
  ASSUME CredInv, NEW c \in Calls, LoadHit(c)
  PROVE  CredInv'
  <1> DEFINE q == Returned(call[c], cached.value)
  <1>1. call[c] \in ChatCall /\ call[c] # NoCall /\ call[c].pc \in {"session", "chat"} /\ Hit
    BY CallTyped DEF LoadHit
  <1>2. cached # NotCached /\ cached.value \in Contents \ {Torn} /\ cached.at \in Nat /\ second \in Nat
        /\ upset \in Nat
    BY <1>1 DEF Hit, CredInv, CredShape
  <1>3. /\ q \in ChatCall /\ Sound(q) /\ q.calm = call[c].calm /\ q.pc \in {"chat", "done"}
        /\ Holds(call[c]) /\ cached.value = file => Holds(q)
    BY <1>1, <1>2, ReturnedHolds
  <1>4. call[c].calm => second > upset /\ Carried /\ Holds(q)
    <2> SUFFICES ASSUME call[c].calm PROVE second > upset /\ Carried /\ Holds(q)
      OBVIOUS
    <2>1. second > upset /\ Carried /\ Holds(call[c])
      BY <1>1 DEF CredInv, Calmly
    <2>2. cached.at > upset
      BY <1>1, <1>2, <2>1 DEF Hit
    <2>3. cached.value = file
      BY <1>2, <2>2 DEF CredInv, Outdated
    <2>4. QED
      BY <1>3, <2>1, <2>3
  <1>5. call' = [call EXCEPT ![c] = q] /\ UNCHANGED <<second, file, cached, issued, upset>>
    BY DEF LoadHit, CredInv, CredShape
  <1> HIDE DEF q
  <1>6. QED
    BY <1>3, <1>4, <1>5, OneCallSteps

LEMMA LoadReadStep ==
  ASSUME CredInv, NEW c \in Calls, LoadRead(c)
  PROVE  CredInv'
  <1> DEFINE pc == IF call[c].pc = "session" THEN "sessionRead" ELSE "chatRead"
             q == [call[c] EXCEPT !.seen = file, !.pc = pc]
  <1>1. call[c] \in ChatCall /\ call[c] # NoCall /\ call[c].pc \in {"session", "chat"}
        /\ file \in Contents \ {Torn}
    BY CallTyped DEF LoadRead, CredInv, CredShape
  <1>2. /\ q \in ChatCall /\ q.seen = file /\ q.calm = call[c].calm /\ q.session = call[c].session
        /\ q.pc = pc
    BY <1>1 DEF ChatCall, CallPcs
  <1>3. Sound(q)
    BY <1>1, <1>2 DEF Sound
  <1>4. Holds(call[c]) => Holds(q)
    BY <1>1, <1>2 DEF Holds
  <1>5. call[c].calm => second > upset /\ Carried /\ Holds(q)
    BY <1>1, <1>4 DEF CredInv, Calmly
  <1>6. call' = [call EXCEPT ![c] = q] /\ UNCHANGED <<second, file, cached, issued, upset>>
    BY DEF LoadRead, CredInv, CredShape
  <1> HIDE DEF q
  <1>7. QED
    BY <1>2, <1>3, <1>5, <1>6, OneCallSteps

LEMMA LoadCachesStep ==
  ASSUME CredInv, NEW c \in Calls, LoadCaches(c)
  PROVE  CredInv'
  <1> DEFINE v == call[c].seen
             q == Returned(call[c], v)
  <1>1. /\ call[c] \in ChatCall /\ call[c] # NoCall /\ call[c].pc \in {"sessionRead", "chatRead"}
        /\ v \in Contents \ {Torn} /\ second \in Nat /\ upset \in Nat
    BY CallTyped DEF LoadCaches, Sound, ChatCall, CredInv, CredShape
  <1>2. /\ q \in ChatCall /\ Sound(q) /\ q.calm = call[c].calm /\ q.pc \in {"chat", "done"}
        /\ Holds(call[c]) /\ v = file => Holds(q)
    BY <1>1, ReturnedHolds
  <1>3. /\ call' = [call EXCEPT ![c] = q] /\ cached' = [value |-> v, at |-> second]
        /\ upset' = IF v = file THEN upset ELSE second
        /\ UNCHANGED <<second, file, issued>>
    BY DEF LoadCaches, CredInv, CredShape
  <1> HIDE DEF q, v
  <1>4. CredShape'
    BY <1>1, <1>2, <1>3 DEF CredInv, CredShape
  <1>5. Outdated'
    BY <1>1, <1>3 DEF Outdated
  <1>6. \A d \in Calls : call'[d] = IF d = c THEN q ELSE call[d]
    BY <1>3 DEF CredInv, CredShape
  <1>7. \A d \in Calls : Sound(call'[d])
    BY <1>2, <1>6 DEF CredInv
  <1>8. ASSUME NEW d \in Calls, call'[d] # NoCall, call'[d].calm
        PROVE  second > upset' /\ Carried' /\ Holds(call'[d])
    <2>1. call[d] # NoCall /\ call[d].calm
      BY <1>1, <1>2, <1>6, <1>8
    <2>2. second > upset /\ Carried /\ Holds(call[d])
      BY <2>1 DEF CredInv, Calmly
    <2>3. v = file
      BY <1>1, <2>2 DEF Carried, v
    <2>4. Carried'
      BY <1>2, <1>3, <1>6, <2>2 DEF Carried
    <2>5. QED
      BY <1>2, <1>3, <1>6, <2>2, <2>3, <2>4
  <1>9. Calmly'
    BY <1>3, <1>8 DEF Calmly, Holds
  <1>10. QED
    BY <1>4, <1>5, <1>7, <1>9 DEF CredInv, Sound

LEMMA EndCallStep ==
  ASSUME CredInv, NEW c \in Calls, EndCall(c)
  PROVE  CredInv'
  <1>1. Sound(NoCall)
    BY DEF Sound
  <1>2. QED
    BY <1>1, OneCallSteps DEF EndCall

LEMMA SecondPassesStep == CredInv /\ SecondPasses => CredInv'
  <1> SUFFICES ASSUME CredInv, SecondPasses PROVE CredInv'
    OBVIOUS
  <1> USE DEF CredInv, SecondPasses
  <1>1. CredShape'
    BY DEF CredShape
  <1>2. Outdated'
    BY DEF Outdated
  <1>3. Calmly'
    BY DEF Calmly, Carried, Holds, CredShape
  <1>4. QED
    BY <1>1, <1>2, <1>3 DEF Sound

\* A command leaves the file, or changes it and makes every call uneasy.
LEMMA FileChangedStep ==
  ASSUME CredInv, NEW v \in {NoFile, issued}, FileBecomes(v), UNCHANGED <<second, cached, issued>>
  PROVE  CredInv'
  <1> USE DEF CredInv
  <1>1. file' = v /\ upset' = second /\ v \in Contents \ {Torn}
    BY ContentsTyped DEF FileBecomes, CredShape
  <1>2. \A c \in Calls : \/ call'[c] = NoCall /\ call[c] = NoCall
                         \/ /\ call[c] # NoCall /\ call[c] \in ChatCall
                            /\ call'[c] = [call[c] EXCEPT !.calm = FALSE]
    BY DEF FileBecomes, CredShape
  <1>3. ASSUME NEW c \in Calls
        PROVE  /\ call'[c] \in {NoCall} \union ChatCall /\ Sound(call'[c])
               /\ call'[c] # NoCall => ~call'[c].calm
    <2>1. CASE call'[c] = NoCall
      BY <2>1 DEF Sound
    <2>2. CASE call[c] # NoCall /\ call[c] \in ChatCall /\ call'[c] = [call[c] EXCEPT !.calm = FALSE]
      <3>1. /\ call'[c] \in ChatCall /\ call'[c].pc = call[c].pc /\ call'[c].seen = call[c].seen
            /\ call'[c].used = call[c].used /\ call'[c].calm = FALSE
        BY <2>2 DEF ChatCall
      <3>2. Sound(call[c])
        OBVIOUS
      <3>3. QED
        BY <2>2, <3>1, <3>2 DEF Sound
    <2>3. QED
      BY <1>2, <2>1, <2>2
  <1>4. call' \in [Calls -> {NoCall} \union ChatCall]
    <2>1. call' = [c \in Calls |-> IF call[c] = NoCall THEN NoCall
                                   ELSE [call[c] EXCEPT !.calm = FALSE]]
      BY DEF FileBecomes
    <2>2. QED
      BY <1>3, <2>1
  <1>5. CredShape'
    BY <1>1, <1>4 DEF CredShape
  <1>6. Outdated'
    BY <1>1 DEF Outdated, CredShape
  <1>7. Calmly'
    BY <1>3 DEF Calmly
  <1>8. QED
    BY <1>3, <1>5, <1>6, <1>7 DEF Sound

LEMMA CommandStep ==
  ASSUME CredInv,
         \/ RunLogin \/ RunLogout \/ RequestLoginCode \/ PollLoginStatus \/ FlowSave \/ MainSave
         \/ Rename \/ Chmod \/ LogoutPost \/ FlowClear \/ MainClear \/ Interrupt \/ NextCommand
  PROVE  CredInv'
  <1> DEFINE Same == UNCHANGED <<second, file, cached, call, upset>> /\ issued' \in 0..MaxCommands
  <1>1. issued \in 0..MaxCommands
    BY DEF CredInv, CredShape
  <1>2. CASE Same
    BY <1>2 DEF CredInv, CredShape, Outdated, Sound, Calmly, Carried, Holds
  <1>3. CASE RunLogin \/ RunLogout
    <2>1. issued < MaxCommands /\ issued' = issued + 1
          /\ UNCHANGED <<second, file, cached, call, upset>>
      BY <1>3 DEF RunLogin, RunLogout, Start
    <2>2. Same
      BY <1>1, <2>1, CredentialAssumption
    <2>3. QED
      BY <1>2, <2>2
  <1>4. CASE \/ RequestLoginCode \/ PollLoginStatus \/ FlowSave \/ MainSave
             \/ Chmod \/ LogoutPost \/ Interrupt \/ NextCommand
    <2>1. Same
      BY <1>1, <1>4 DEF RequestLoginCode, PollLoginStatus, FlowSave, MainSave, WriteTemp, Chmod,
                        LogoutPost, Interrupt, NextCommand
    <2>2. QED
      BY <1>2, <2>1
  <1>5. CASE Rename
    BY <1>5, FileChangedStep DEF Rename
  <1>6. CASE FlowClear \/ MainClear
    <2>1. Same \/ (FileBecomes(NoFile) /\ UNCHANGED <<second, cached, issued>>)
      BY <1>1, <1>6 DEF FlowClear, MainClear
    <2>2. QED
      BY <1>2, <2>1, FileChangedStep
  <1>7. QED
    BY <1>3, <1>4, <1>5, <1>6

LEMMA CredInvStep == CredInv /\ [CredNext]_credVars => CredInv'
  <1> SUFFICES ASSUME CredInv, [CredNext]_credVars PROVE CredInv'
    OBVIOUS
  <1>1. CASE UNCHANGED credVars
    BY <1>1 DEF credVars, CredInv, CredShape, Outdated, Sound, Calmly, Carried, Holds
  <1>2. CASE CredNext
    BY <1>2, BeginCallStep, LoadHitStep, LoadReadStep, LoadCachesStep, EndCallStep,
       SecondPassesStep, CommandStep DEF CredNext
  <1>3. QED
    BY <1>1, <1>2

\* A chat call that begins when nothing is changing uses the file's credential twice, and
\* no call a torn one, for any calls, commands and interruptions (store.go:53-221,
\* chat_service.go:40-63).
THEOREM CredentialIsCurrent == CredSpec => []CallsAreCurrent
  <1>1. CredSpec => []CredInv
    BY CredInvInit, CredInvStep, PTL DEF CredSpec
  <1>2. CredInv => CallsAreCurrent
    BY DEF CredInv, Sound, Calmly, Holds, CallsAreCurrent
  <1>3. QED
    BY <1>1, <1>2, PTL

\* The running command: its kind, and whether it has reported an error.
Commands == [pc : CommandPcs, kind : {"login", "logout"}, failed : BOOLEAN, by : {"flow", "main"}]

CommandShape ==
    /\ command \in {NoCommand} \union Commands
    /\ second <= MaxSeconds

\* Where the running command's word and the file stand.
CommandWord ==
    command # NoCommand =>
        /\ command.pc \in {"code", "poll", "flowSave", "mainSave", "rename", "chmod"} => command.kind = "login"
        /\ command.pc \in {"logout", "flowClear", "mainClear"} => command.kind = "logout"
        /\ command.pc = "chmod" => file = issued
        /\ StoreWired /\ command.pc = "ended" /\ ~command.failed =>
              file = IF command.kind = "login" THEN issued ELSE NoFile

LEMMA IsACommand ==
  ASSUME NEW q \in Commands
  PROVE  q # NoCommand
  BY DEF Commands, NoCommand, CommandPcs

LEMMA CommandGoto ==
  ASSUME NEW c \in Commands, NEW p \in CommandPcs, NEW q, q = [c EXCEPT !.pc = p]
  PROVE  q \in Commands /\ q.pc = p /\ q.kind = c.kind /\ q.failed = c.failed
  BY DEF Commands

LEMMA CommandBy ==
  ASSUME NEW c \in Commands, NEW p \in CommandPcs, NEW b \in {"flow", "main"}
  PROVE  LET q == [c EXCEPT !.pc = p, !.by = b] IN
         q \in Commands /\ q.pc = p /\ q.kind = c.kind /\ q.failed = c.failed
  BY DEF Commands

LEMMA CommandFailed ==
  ASSUME NEW c \in Commands, NEW p \in CommandPcs, NEW f \in BOOLEAN
  PROVE  LET q == [c EXCEPT !.pc = p, !.failed = f] IN
         q \in Commands /\ q.pc = p /\ q.kind = c.kind /\ q.failed = f
  BY DEF Commands

LEMMA CommandInit == CredInit => CommandShape /\ CommandWord
  BY CredentialAssumption DEF CredInit, CommandShape, CommandWord

\* A step of the command that leaves the file and the clock alone.
LEMMA CommandGoes ==
  ASSUME CommandShape, CommandWord, command # NoCommand, UNCHANGED <<second, file, issued>>,
         NEW q \in Commands, command' = q, q.kind = command.kind,
         q.pc \in {"code", "poll", "flowSave", "mainSave", "rename"} => q.kind = "login",
         q.pc \in {"logout", "flowClear", "mainClear"} => q.kind = "logout",
         q.pc = "ended" => q.failed,
         q.pc # "chmod"
  PROVE  CommandShape' /\ CommandWord'
  BY DEF CommandShape, CommandWord

LEMMA CommandFails ==
  ASSUME CommandShape, CommandWord, command # NoCommand, UNCHANGED <<second, file, issued>>, Fails
  PROVE  CommandShape' /\ CommandWord'
  <1>1. command \in Commands
    BY DEF CommandShape
  <1>2. "ended" \in CommandPcs
    BY DEF CommandPcs
  <1>3. PICK q : q = [command EXCEPT !.pc = "ended", !.failed = TRUE]
    OBVIOUS
  <1>4. TRUE \in BOOLEAN
    OBVIOUS
  <1>5. q \in Commands /\ q.pc = "ended" /\ q.kind = command.kind /\ q.failed = TRUE
    BY <1>1, <1>2, <1>3, <1>4, CommandFailed, Zenon
  <1>6. command' = q
    BY <1>3, Zenon DEF Fails
  <1>7. /\ q.pc \notin {"code", "poll", "flowSave", "mainSave", "rename", "chmod"}
        /\ q.pc \notin {"logout", "flowClear", "mainClear"}
    BY <1>5
  <1>8. q.pc = "ended" => q.failed
    BY <1>5, Zenon
  <1> HIDE DEF Fails
  <1>9. QED
    BY <1>5, <1>6, <1>7, <1>8, CommandGoes, Zenon

LEMMA CommandMoves ==
  ASSUME CommandShape, CommandWord, command # NoCommand, UNCHANGED <<second, file, issued>>,
         NEW p \in CommandPcs \ {"chmod", "ended"}, Goto(p),
         p \in {"code", "poll", "flowSave", "mainSave", "rename"} => command.kind = "login",
         p \in {"logout", "flowClear", "mainClear"} => command.kind = "logout"
  PROVE  CommandShape' /\ CommandWord'
  <1>1. command \in Commands
    BY DEF CommandShape
  <1>2. PICK q : q = [command EXCEPT !.pc = p]
    OBVIOUS
  <1>3. q \in Commands /\ q.pc = p /\ q.kind = command.kind
    BY <1>1, <1>2, CommandGoto
  <1>4. command' = q
    BY <1>2 DEF Goto
  <1>5. q.pc # "chmod" /\ (q.pc = "ended" => q.failed)
    BY <1>3
  <1>6. /\ q.pc \in {"code", "poll", "flowSave", "mainSave", "rename"} => q.kind = "login"
        /\ q.pc \in {"logout", "flowClear", "mainClear"} => q.kind = "logout"
    BY <1>3
  <1>7. QED
    BY <1>3, <1>4, <1>5, <1>6, CommandGoes, Zenon

LEMMA CommandWrites ==
  ASSUME CommandShape, CommandWord, NEW p \in {"flowSave", "mainSave"}, NEW by \in {"flow", "main"},
         WriteTemp(p, by)
  PROVE  CommandShape' /\ CommandWord'
  <1>1. command # NoCommand /\ command \in Commands /\ command.kind = "login"
    BY DEF WriteTemp, CommandShape, CommandWord, NoCommand
  <1>2. UNCHANGED <<second, file, issued>>
    BY DEF WriteTemp
  <1>3. CASE Fails
    BY <1>1, <1>2, <1>3, CommandFails
  <1>4. CASE command' = [command EXCEPT !.pc = "rename", !.by = by]
    <2>1. "rename" \in CommandPcs /\ by \in {"flow", "main"} /\ command \in Commands
      BY <1>1 DEF CommandPcs
    <2>2. PICK q : q = [command EXCEPT !.pc = "rename", !.by = by]
      OBVIOUS
    <2>3. q \in Commands /\ q.pc = "rename" /\ q.kind = command.kind
      BY <2>1, <2>2, CommandBy, ZenonT(30)
    <2>4. q.pc # "chmod" /\ (q.pc = "ended" => q.failed)
          /\ q.pc \notin {"logout", "flowClear", "mainClear"}
      BY <2>3
    <2>5. QED
      BY <1>1, <1>2, <1>4, <2>2, <2>3, <2>4, CommandGoes, Zenon
  <1>5. QED
    BY <1>3, <1>4 DEF WriteTemp

LEMMA CommandEnds ==
  ASSUME CommandShape, command # NoCommand, NEW p \in {"chmod", "ended"}, Goto(p),
         UNCHANGED <<second, issued>>,
         p = "chmod" => command.kind = "login" /\ file' = issued,
         p = "ended" => file' = (IF command.kind = "login" THEN issued ELSE NoFile)
  PROVE  CommandShape' /\ CommandWord'
  <1>1. command \in Commands /\ p \in CommandPcs
    BY DEF CommandShape, CommandPcs
  <1>2. PICK q : q = [command EXCEPT !.pc = p]
    OBVIOUS
  <1>3. q \in Commands /\ q.pc = p /\ q.kind = command.kind /\ q # NoCommand
    BY <1>1, <1>2, CommandGoto, IsACommand
  <1>4. command' = q
    BY <1>2 DEF Goto
  <1>5. CommandShape'
    BY <1>3, <1>4 DEF CommandShape
  <1>6. CASE p = "chmod"
    <2>1. q.pc = "chmod" /\ q.kind = "login" /\ file' = issued'
      BY <1>3, <1>6
    <2>2. QED
      BY <1>4, <1>5, <2>1 DEF CommandWord
  <1>7. CASE p = "ended"
    <2>1. q.pc = "ended" /\ file' = (IF q.kind = "login" THEN issued' ELSE NoFile)
      BY <1>3, <1>7
    <2>2. QED
      BY <1>4, <1>5, <2>1 DEF CommandWord
  <1>8. QED
    BY <1>6, <1>7


LEMMA StartShape ==
  ASSUME CommandShape, CommandWord, NEW kind \in {"login", "logout"},
         NEW p \in {"code", "logout"}, p = "code" <=> kind = "login", Start(kind, p)
  PROVE  CommandShape' /\ CommandWord'
  <1>1. PICK q : q = [pc |-> p, kind |-> kind, failed |-> FALSE, by |-> "flow"]
    OBVIOUS
  <1>2. q \in Commands /\ q.pc = p /\ q.kind = kind
    BY <1>1 DEF Commands, CommandPcs
  <1>3. command' = q /\ UNCHANGED second
    BY <1>1 DEF Start
  <1>4. CommandShape'
    BY <1>2, <1>3 DEF CommandShape
  <1>5. QED
    BY <1>2, <1>3, <1>4 DEF CommandWord

\* Every step keeps the command's shape and its word.
LEMMA CommandWordStep ==
  ASSUME CredInv, CommandShape, CommandWord, [CredNext]_credVars
  PROVE  (CommandShape /\ CommandWord)'
  <1>0. /\ second <= MaxSeconds /\ second \in Nat /\ NoCommand.pc = "none"
        /\ command # NoCommand => command \in Commands
        /\ {"code", "poll", "flowSave", "mainSave", "rename", "logout", "flowClear", "mainClear"}
              \subseteq CommandPcs \ {"chmod", "ended"}
    BY DEF CommandShape, NoCommand, CredInv, CredShape, CommandPcs
  <1>1. CASE \E c \in Calls : BeginCall(c) \/ LoadHit(c) \/ LoadRead(c) \/ LoadCaches(c) \/ EndCall(c)
    <2>1. UNCHANGED <<second, file, command, issued>>
      BY <1>1 DEF BeginCall, LoadHit, LoadRead, LoadCaches, EndCall
    <2>2. QED
      BY <2>1 DEF CommandShape, CommandWord
  <1>2. CASE SecondPasses
    <2>1. UNCHANGED <<file, command, issued>> /\ second' <= MaxSeconds
      BY <1>0, <1>2, CredentialAssumption DEF SecondPasses
    <2>2. QED
      BY <2>1 DEF CommandShape, CommandWord
  <1>3. CASE RunLogin \/ RunLogout
    BY <1>3, StartShape DEF RunLogin, RunLogout
  <1>4. CASE RequestLoginCode
    <2>1. command # NoCommand /\ command.kind = "login" /\ UNCHANGED <<second, file, issued>>
      BY <1>0, <1>4 DEF RequestLoginCode, CommandWord
    <2>2. QED
      BY <1>0, <1>4, <2>1, CommandMoves, CommandFails DEF RequestLoginCode
  <1>5. CASE PollLoginStatus
    <2>1. command # NoCommand /\ command.kind = "login" /\ UNCHANGED <<second, file, issued>>
      BY <1>0, <1>5 DEF PollLoginStatus, CommandWord
    <2>2. Goto("flowSave") \/ Fails
      BY <1>5 DEF PollLoginStatus
    <2>3. QED
      BY <1>0, <2>1, <2>2, CommandMoves, CommandFails
  <1>6. CASE FlowSave
    <2>1. CASE StoreWired
      BY <1>6, <2>1, CommandWrites DEF FlowSave
    <2>2. CASE ~StoreWired
      <3>1. command # NoCommand /\ command.kind = "login" /\ UNCHANGED <<second, file, issued>>
            /\ command' = [command EXCEPT !.pc = "ended"]
        BY <1>0, <1>6, <2>2 DEF FlowSave, Panic, CommandWord
      <3>2. "ended" \in CommandPcs
        BY DEF CommandPcs
      <3>3. command' \in Commands /\ command'.pc = "ended"
        BY <1>0, <3>1, <3>2, CommandGoto
      <3>4. QED
        BY <1>0, <2>2, <3>1, <3>3 DEF CommandShape, CommandWord
    <2>3. QED
      BY <2>1, <2>2
  <1>7. CASE MainSave
    BY <1>7, CommandWrites DEF MainSave
  <1>8. CASE Rename
    <2>1. command # NoCommand /\ command.kind = "login" /\ UNCHANGED <<second, issued>>
          /\ file' = issued /\ Goto("chmod")
      BY <1>0, <1>8 DEF Rename, FileBecomes, CommandWord
    <2>2. QED
      BY <2>1, CommandEnds
  <1>9. CASE Chmod
    <2>1. /\ command # NoCommand /\ command.kind = "login" /\ file = issued
          /\ UNCHANGED <<second, file, issued>>
      BY <1>0, <1>9 DEF Chmod, CommandWord
    <2>2. Fails \/ Goto("mainSave") \/ Goto("ended")
      BY <1>9 DEF Chmod
    <2>3. QED
      BY <1>0, <2>1, <2>2, CommandMoves, CommandFails, CommandEnds
  <1>10. CASE LogoutPost
    <2>1. command # NoCommand /\ command.kind = "logout" /\ UNCHANGED <<second, file, issued>>
      BY <1>0, <1>10 DEF LogoutPost, CommandWord
    <2>2. QED
      BY <1>0, <1>10, <2>1, CommandMoves DEF LogoutPost
  <1>11. CASE FlowClear
    <2>1. command # NoCommand /\ command.kind = "logout" /\ UNCHANGED <<second, issued>>
      BY <1>0, <1>11 DEF FlowClear, CommandWord
    <2>2. CASE StoreWired
      <3>1. Goto("mainClear")
        BY <1>11, <2>2 DEF FlowClear
      <3>2. PICK q : q = [command EXCEPT !.pc = "mainClear"]
        OBVIOUS
      <3>3. q \in Commands /\ q.pc = "mainClear" /\ q.kind = "logout" /\ command' = q
        BY <1>0, <2>1, <3>1, <3>2, CommandGoto DEF Goto
      <3>4. QED
        BY <2>1, <3>3 DEF CommandShape, CommandWord
    <2>3. CASE ~StoreWired
      <3>1. command' = [command EXCEPT !.pc = "ended"]
        BY <1>11, <2>3 DEF FlowClear, Panic
      <3>2. "ended" \in CommandPcs
        BY DEF CommandPcs
      <3>3. command' \in Commands /\ command'.pc = "ended"
        BY <1>0, <2>1, <3>1, <3>2, CommandGoto
      <3>4. QED
        BY <1>0, <2>1, <2>3, <3>1, <3>3 DEF CommandShape, CommandWord
    <2>4. QED
      BY <2>2, <2>3
  <1>12. CASE MainClear
    <2>1. command # NoCommand /\ command.kind = "logout" /\ UNCHANGED <<second, issued>>
      BY <1>0, <1>12 DEF MainClear, CommandWord
    <2>2. CASE FileBecomes(NoFile) /\ Goto("ended")
      BY <2>1, <2>2, CommandEnds DEF FileBecomes
    <2>3. CASE Fails /\ UNCHANGED file
      BY <2>1, <2>3, CommandFails
    <2>4. QED
      BY <1>12, <2>2, <2>3 DEF MainClear
  <1>13. CASE Interrupt
    BY <1>13, CommandFails DEF Interrupt
  <1>14. CASE NextCommand
    BY <1>14 DEF NextCommand, CommandShape, CommandWord
  <1>15. CASE UNCHANGED credVars
    BY <1>15 DEF credVars, CommandShape, CommandWord
  <1>16. QED
    BY <1>1, <1>2, <1>3, <1>4, <1>5, <1>6, <1>7, <1>8, <1>9, <1>10, <1>11, <1>12, <1>13, <1>14,
       <1>15 DEF CredNext

LEMMA CredInvHolds == CredSpec => [](CredInv /\ CommandShape /\ CommandWord)
  BY CredInvInit, CredInvStep, CommandInit, CommandWordStep, PTL DEF CredSpec

\* The type invariant of the credential file, the server's cache of it and the commands.
THEOREM CredTypeCorrect == CredSpec => []CredTyped
  <1>1. CredInv /\ CommandShape => CredTyped
    <2> SUFFICES ASSUME CredInv, CommandShape PROVE CredTyped
      OBVIOUS
    <2>1. second \in 0..MaxSeconds /\ file \in Contents /\ issued \in 0..MaxCommands
          /\ (cached = NotCached \/ (cached.value \in Contents /\ cached.at \in 0..second))
      BY CredentialAssumption DEF CredInv, CredShape, CommandShape
    <2>2. \A c \in Calls : call[c] = NoCall \/ call[c].pc \in CallPcs
      BY CallTyped DEF ChatCall
    <2>3. command = NoCommand \/ command.pc \in CommandPcs
      BY DEF CommandShape, Commands
    <2>4. QED
      BY <2>1, <2>2, <2>3 DEF CredTyped
  <1>2. QED
    BY <1>1, CredInvHolds, PTL

\* Finding: the commands' word is broken only because oauth.Flow is built without its
\* Store.  With it, a login that ends without an error has stored its credential and a
\* logout has cleared it, whatever is interrupted (flow.go:113-205, main.go:112-149, 789-816).
THEOREM WiredCommandsKeepTheirWord ==
  ASSUME StoreWired = TRUE
  PROVE  CredSpec => []CommandsReachTheFile
  <1>1. CommandShape /\ CommandWord => CommandsReachTheFile
    BY DEF CommandShape, CommandWord, CommandsReachTheFile, NoCommand
  <1>2. QED
    BY <1>1, CredInvHolds, PTL

=============================================================================
