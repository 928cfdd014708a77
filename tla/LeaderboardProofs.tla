-------------------------- MODULE LeaderboardProofs --------------------------
(***************************************************************************)
(* Theorems about Leaderboard, for any number of clients and categories    *)
(* and any bounds.                                                         *)
(***************************************************************************)
EXTENDS LeaderboardProps, TLAPS

LEMMA TypeInit == Init => TypeOK
  <1> SUFFICES ASSUME Init
               PROVE  TypeOK
    OBVIOUS
  <1>1. asked \in [Clients -> Categories]
    BY LeaderboardAssumption DEF Init
  <1>2. had \in [Clients -> BOOLEAN] /\ inflight \in BOOLEAN
    BY DEF Init
  <1>3. pc \in [Clients -> Steps] /\ out \in [Clients -> Outcomes]
    BY DEF Init, Steps, Outcomes
  <1>4. calls \in [Clients -> 0..MaxCalls] /\ faults \in 0..MaxFaults
    BY LeaderboardAssumption DEF Init
  <1>5. mutex \in Clients \cup {Nobody} /\ file \in [Categories -> Files]
    BY DEF Init
  <1>6. QED
    BY <1>1, <1>2, <1>3, <1>4, <1>5 DEF TypeOK

\* The types of what Land, Charge and Ends change.
LEMMA LandTypes ==
  ASSUME TypeOK, NEW c \in Clients, NEW how \in Outcomes, Land(c, how)
  PROVE  /\ pc' \in [Clients -> Steps]
         /\ out' \in [Clients -> Outcomes]
         /\ inflight' \in BOOLEAN
  <1>1. pc' \in [Clients -> Steps]
    BY DEF TypeOK, Land, Steps
  <1>2. out' \in [Clients -> Outcomes]
    BY DEF TypeOK, Land, Ends
  <1>3. QED
    BY <1>1, <1>2 DEF Land

LEMMA ChargeTypes ==
  ASSUME TypeOK, NEW fault \in BOOLEAN, fault => MayFault, Charge(fault)
  PROVE  faults' \in 0..MaxFaults
  BY LeaderboardAssumption DEF TypeOK, MayFault, Charge

LEMMA TypeStep == TypeOK /\ [Next]_vars => TypeOK'
  <1> SUFFICES ASSUME TypeOK, [Next]_vars
               PROVE  TypeOK'
    OBVIOUS
  <1> USE DEF TypeOK
  <1>1. ASSUME NEW c \in Clients, NEW k \in Categories, Get(c, k)
        PROVE  TypeOK'
    <2>1. calls' \in [Clients -> 0..MaxCalls]
      BY <1>1, LeaderboardAssumption DEF Get
    <2>2. had' \in [Clients -> BOOLEAN]
      BY <1>1 DEF Get, Whole
    <2>3. pc' \in [Clients -> Steps] /\ out' \in [Clients -> Outcomes]
      BY <1>1 DEF Get, Enter, Goto, Ends, Steps, Outcomes
    <2>4. inflight' \in BOOLEAN
      BY <1>1 DEF Get, Enter
    <2>5. asked' \in [Clients -> Categories]
      BY <1>1 DEF Get
    <2>6. QED
      BY <1>1, <2>1, <2>2, <2>3, <2>4, <2>5 DEF Get
  <1>2. ASSUME NEW c \in Clients, FetchFails(c)
        PROVE  TypeOK'
    <2>1. Fallback(asked[c]) \in Outcomes
      BY DEF Fallback, Outcomes
    <2>2. QED
      BY <1>2, <2>1, LandTypes, ChargeTypes DEF FetchFails
  <1>3. ASSUME NEW c \in Clients, BeginWrite(c)
        PROVE  TypeOK'
    BY <1>3 DEF BeginWrite, Goto, Steps, Files
  <1>4. ASSUME NEW c \in Clients, SkipWrite(c)
        PROVE  TypeOK'
    <2>1. "served" \in Outcomes
      BY DEF Outcomes
    <2>2. QED
      BY <1>4, <2>1, LandTypes, ChargeTypes DEF SkipWrite
  <1>5. ASSUME NEW c \in Clients, EndWrite(c)
        PROVE  TypeOK'
    <2>1. "served" \in Outcomes
      BY DEF Outcomes
    <2>2. file' \in [Categories -> Files] /\ mutex' = Nobody
      BY <1>5 DEF EndWrite, Files
    <2>3. faults' \in 0..MaxFaults
      BY <1>5, ChargeTypes DEF EndWrite
    <2>4. QED
      BY <1>5, <2>1, <2>2, <2>3, LandTypes DEF EndWrite
  <1>6. ASSUME NEW c \in Clients, Wait(c)
        PROVE  TypeOK'
    BY <1>6 DEF Wait, Goto, Steps
  <1>7. ASSUME NEW c \in Clients, Read(c)
        PROVE  TypeOK'
    BY <1>7 DEF Read, Goto, Ends, Steps, Outcomes
  <1>8. ASSUME NEW c \in Clients, StopWaiting(c)
        PROVE  TypeOK'
    <2>1. pc' \in [Clients -> Steps] /\ out' \in [Clients -> Outcomes]
      BY <1>8 DEF StopWaiting, Goto, Ends, Steps, Outcomes
    <2>2. QED
      BY <1>8, <2>1, ChargeTypes DEF StopWaiting
  <1>9. ASSUME NEW k \in Categories, Age(k)
        PROVE  TypeOK'
    BY <1>9 DEF Age, Files
  <1>10. CASE Restart
    <2>1. pc' \in [Clients -> Steps] /\ out' \in [Clients -> Outcomes]
      BY <1>10 DEF Restart, Steps, Outcomes
    <2>2. QED
      BY <1>10, <2>1, ChargeTypes DEF Restart
  <1>11. CASE UNCHANGED vars
    BY <1>11 DEF vars
  <1>12. QED
    BY <1>1, <1>2, <1>3, <1>4, <1>5, <1>6, <1>7, <1>8, <1>9, <1>10, <1>11
       DEF Next, ClientStep

\* Every variable of the leaderboard keeps its type, and no Get ends other
\* than with a snapshot or an error.
THEOREM TypeCorrect == Spec => []TypeOK
  BY TypeInit, TypeStep, PTL DEF Spec

----------------------------------------------------------------------------
(* One refresher.  That no download is of a fresh file is inductive once   *)
(* it is known that only one client refreshes: the file that EndWrite      *)
(* makes fresh is then nobody else's to download.                          *)

OneRefresher ==
    /\ \A c, d \in Refreshers : c = d
    /\ inflight <=> Refreshers # {}
    /\ \A c \in Clients : pc[c] = "asleep" => inflight

RefreshInv == TypeOK /\ OneRefresher /\ NoFreshRefetch

LEMMA RefreshInit == Init => RefreshInv
  BY TypeInit DEF Init, RefreshInv, OneRefresher, Refreshers, NoFreshRefetch

LEMMA RefreshStep == RefreshInv /\ [Next]_vars => RefreshInv'
  <1> SUFFICES ASSUME RefreshInv, [Next]_vars
               PROVE  OneRefresher' /\ NoFreshRefetch'
    BY TypeStep DEF RefreshInv
  <1> USE DEF RefreshInv, TypeOK, OneRefresher, NoFreshRefetch, Refreshers,
              Steps, Files
  <1>1. ASSUME NEW c \in Clients, NEW k \in Categories, Get(c, k)
        PROVE  OneRefresher' /\ NoFreshRefetch'
    BY <1>1 DEF Get, Enter, Goto, Whole
  <1>2. ASSUME NEW c \in Clients, FetchFails(c) \/ SkipWrite(c)
        PROVE  OneRefresher' /\ NoFreshRefetch'
    <2>1. /\ pc[c] = "fetch" /\ UNCHANGED file
          /\ inflight' = FALSE
          /\ pc' = [d \in Clients |->
                      IF d = c THEN "idle"
                      ELSE IF pc[d] = "asleep" THEN "wait" ELSE pc[d]]
      BY <1>2 DEF FetchFails, SkipWrite, Land
    <2>2. \A d \in Clients : pc'[d] \notin {"fetch", "write", "asleep"}
      BY <2>1
    <2>3. QED
      BY <2>1, <2>2
  <1>3. ASSUME NEW c \in Clients, BeginWrite(c)
        PROVE  OneRefresher' /\ NoFreshRefetch'
    BY <1>3 DEF BeginWrite, Goto
  <1>4. ASSUME NEW c \in Clients, EndWrite(c)
        PROVE  OneRefresher' /\ NoFreshRefetch'
    BY <1>4 DEF EndWrite, Land
  <1>5. ASSUME NEW c \in Clients, Wait(c) \/ Read(c) \/ StopWaiting(c)
        PROVE  OneRefresher' /\ NoFreshRefetch'
    <2>1. CASE Wait(c)
      BY <2>1 DEF Wait, Goto
    <2>2. CASE Read(c) \/ StopWaiting(c)
      <3>1. /\ pc[c] \in {"wait", "asleep", "read"}
            /\ pc' = [pc EXCEPT ![c] = "idle"]
            /\ UNCHANGED <<asked, inflight, file>>
        BY <2>2 DEF Read, StopWaiting, Goto
      <3>2. Refreshers' = Refreshers
        BY <3>1
      <3>3. \A d \in Clients : pc'[d] = "asleep" => pc[d] = "asleep"
        BY <3>1
      <3>4. \A d \in Clients : pc'[d] = "fetch" => pc[d] = "fetch"
        BY <3>1
      <3>5. QED
        BY <3>1, <3>2, <3>3, <3>4
    <2>3. QED
      BY <1>5, <2>1, <2>2
  <1>6. ASSUME NEW k \in Categories, Age(k)
        PROVE  OneRefresher' /\ NoFreshRefetch'
    BY <1>6 DEF Age
  <1>7. CASE Restart
    BY <1>7 DEF Restart
  <1>8. CASE UNCHANGED vars
    BY <1>8 DEF vars
  <1>9. QED
    BY <1>1, <1>2, <1>3, <1>4, <1>5, <1>6, <1>7, <1>8 DEF Next, ClientStep

\* Whatever callers, failures and restarts do, no download starts or goes on
\* for a category whose file is fresh.
THEOREM NoSecondDownload == Spec => []NoFreshRefetch
  <1>1. RefreshInv => NoFreshRefetch
    BY DEF RefreshInv
  <1>2. QED
    BY RefreshInit, RefreshStep, <1>1, PTL DEF Spec

----------------------------------------------------------------------------
(* Callers with a cache.  They never wait, since they are served at once;  *)
(* and while they refresh, nobody else writes: the file they fall back on  *)
(* is still there.                                                         *)

CachedInv ==
    /\ RefreshInv
    /\ CachedNeverFails
    /\ \A c \in Clients :
          had[c] => /\ pc[c] \notin {"wait", "asleep", "read"}
                    /\ pc[c] = "fetch" => Whole(asked[c])

LEMMA CachedInit == Init => CachedInv
  BY RefreshInit DEF Init, CachedInv, CachedNeverFails

LEMMA CachedStep == CachedInv /\ [Next]_vars => CachedInv'
  <1> SUFFICES ASSUME CachedInv, [Next]_vars
               PROVE  CachedInv'
    OBVIOUS
  <1>0. RefreshInv /\ RefreshInv'
    BY RefreshStep DEF CachedInv
  <1> USE <1>0 DEF CachedInv, CachedNeverFails, TypeOK, Whole
  <1> USE DEF RefreshInv
  <1>1. ASSUME NEW c \in Clients, NEW k \in Categories, Get(c, k)
        PROVE  CachedInv'
    <2>1. /\ had' = [had EXCEPT ![c] = Whole(k)]
          /\ asked' = [asked EXCEPT ![c] = k]
          /\ UNCHANGED file
      BY <1>1 DEF Get
    <2>2. PICK step \in Steps, how \in {"none", "served"} :
            /\ pc' = [pc EXCEPT ![c] = step]
            /\ out' = [out EXCEPT ![c] = how]
            /\ step \in {"wait", "asleep", "read"} => ~Whole(k)
      BY <1>1 DEF Get, Enter, Goto, Ends, Steps
    <2>3. \A d \in Clients \ {c} :
            /\ pc'[d] = pc[d] /\ out'[d] = out[d]
            /\ had'[d] = had[d] /\ asked'[d] = asked[d]
      BY <2>1, <2>2
    <2>4. /\ pc'[c] = step /\ out'[c] = how
          /\ had'[c] = Whole(k) /\ asked'[c] = k
      BY <2>1, <2>2
    <2>5. QED
      BY <2>1, <2>2, <2>3, <2>4
  <1>2. ASSUME NEW c \in Clients, FetchFails(c)
        PROVE  CachedInv'
    BY <1>2 DEF FetchFails, Land, Ends, Fallback
  <1>3. ASSUME NEW c \in Clients, BeginWrite(c)
        PROVE  CachedInv'
    BY <1>3 DEF BeginWrite, Goto, OneRefresher, Refreshers
  <1>4. ASSUME NEW c \in Clients, SkipWrite(c)
        PROVE  CachedInv'
    BY <1>4 DEF SkipWrite, Land, Ends
  <1>5. ASSUME NEW c \in Clients, EndWrite(c)
        PROVE  CachedInv'
    BY <1>5 DEF EndWrite, Land, Ends
  <1>6. ASSUME NEW c \in Clients, Wait(c) \/ Read(c) \/ StopWaiting(c)
        PROVE  CachedInv'
    BY <1>6 DEF Wait, Read, StopWaiting, Goto, Ends
  <1>7. ASSUME NEW k \in Categories, Age(k)
        PROVE  CachedInv'
    BY <1>7 DEF Age
  <1>8. CASE Restart
    BY <1>8 DEF Restart
  <1>9. CASE UNCHANGED vars
    BY <1>9 DEF vars
  <1>10. QED
    BY <1>1, <1>2, <1>3, <1>4, <1>5, <1>6, <1>7, <1>8, <1>9
       DEF Next, ClientStep

\* A caller that came while a snapshot was cached is never told of an error,
\* for any interleaving of callers, failed fetches, failed writes, restarts.
THEOREM CacheShieldsCallers == Spec => []CachedNeverFails
  <1>1. CachedInv => CachedNeverFails
    BY DEF CachedInv
  <1>2. QED
    BY CachedInit, CachedStep, <1>1, PTL DEF Spec

----------------------------------------------------------------------------
(* The refinement of the single-flight gate.                               *)

\* The gate's owner is the one refresher.
LEMMA OwnerIsRefresher ==
  ASSUME RefreshInv
  PROVE  /\ \A c \in Refreshers : GateOwner = c
         /\ Refreshers = {} => GateOwner = Nobody
  BY DEF RefreshInv, OneRefresher, GateOwner

LEMMA GateInit == Init => Gate!Init
  BY DEF Init, Gate!Init, GateOwner, GateWaiting, Refreshers

LEMMA GateStep ==
  RefreshInv /\ RefreshInv' /\ [Next]_vars => [Gate!Next]_(Gate!vars)
  <1> SUFFICES ASSUME RefreshInv, RefreshInv', [Next]_vars
               PROVE  [Gate!Next]_(Gate!vars)
    OBVIOUS
  <1> USE LeaderboardAssumption
  <1>a. /\ \A c \in Refreshers : GateOwner = c
        /\ Refreshers = {} => GateOwner = Nobody
    BY OwnerIsRefresher
  <1>b. /\ \A c \in Refreshers' : GateOwner' = c
        /\ Refreshers' = {} => GateOwner' = Nobody
    <2>1. RefreshInv' => (/\ \A c \in Refreshers : GateOwner = c
                          /\ Refreshers = {} => GateOwner = Nobody)'
      BY OwnerIsRefresher, PTL
    <2>2. QED
      BY <2>1
  <1>c. ASSUME UNCHANGED <<Refreshers, GateWaiting>>
        PROVE  UNCHANGED Gate!vars
    BY <1>c DEF Gate!vars, GateOwner
  <1>1. ASSUME NEW c \in Clients, NEW k \in Categories, Get(c, k)
        PROVE  [Gate!Next]_(Gate!vars)
    <2>1. CASE pc'[c] = "fetch"
      <3>1. Refreshers = {} /\ c \in Refreshers' /\ c \notin GateWaiting
        BY <1>1, <2>1 DEF Get, Enter, Goto, Whole, Refreshers, GateWaiting,
                          RefreshInv, TypeOK, OneRefresher
      <3>2. UNCHANGED GateWaiting
        BY <1>1, <2>1 DEF Get, Enter, Goto, GateWaiting, RefreshInv, TypeOK
      <3>3. QED
        BY <3>1, <3>2, <1>a, <1>b DEF Gate!Next, Gate!TakeOff
    <2>2. CASE pc'[c] # "fetch"
      <3>1. UNCHANGED <<Refreshers, GateWaiting>>
        BY <1>1, <2>2 DEF Get, Enter, Goto, Refreshers, GateWaiting,
                          RefreshInv, TypeOK
      <3>2. QED
        BY <3>1, <1>c
    <2>3. QED
      BY <2>1, <2>2
  <1>2. ASSUME NEW c \in Clients, NEW how, pc[c] \in {"fetch", "write"},
               Land(c, how)
        PROVE  Gate!Next
    <2>1. c \in Refreshers /\ Refreshers' = {}
      BY <1>2 DEF Land, Refreshers, RefreshInv, OneRefresher, TypeOK
    <2>2. GateWaiting' = {}
      BY <1>2 DEF Land, GateWaiting
    <2>3. QED
      BY <2>1, <2>2, <1>a, <1>b DEF Gate!Next, Gate!Land
  <1>3. ASSUME NEW c \in Clients, BeginWrite(c)
        PROVE  UNCHANGED Gate!vars
    <2>1. UNCHANGED <<Refreshers, GateWaiting>>
      BY <1>3 DEF BeginWrite, Goto, Refreshers, GateWaiting, RefreshInv, TypeOK
    <2>2. QED
      BY <2>1, <1>c
  <1>4. ASSUME NEW c \in Clients, Wait(c)
        PROVE  [Gate!Next]_(Gate!vars)
    <2>1. UNCHANGED Refreshers
      BY <1>4 DEF Wait, Goto, Refreshers, RefreshInv, TypeOK
    <2>2. CASE inflight
      <3>1. GateWaiting' = GateWaiting \cup {c}
        BY <1>4, <2>2 DEF Wait, Goto, GateWaiting, RefreshInv, TypeOK
      <3>2. PICK d \in Refreshers : d # c
        BY <1>4, <2>2 DEF Wait, Refreshers, RefreshInv, OneRefresher
      <3>3. GateOwner \notin {Nobody, c} /\ UNCHANGED GateOwner
        BY <3>2, <2>1, <1>a DEF GateOwner, Refreshers
      <3>4. QED
        BY <3>1, <3>3 DEF Gate!Next, Gate!Board
    <2>3. CASE ~inflight
      <3>1. UNCHANGED GateWaiting
        BY <1>4, <2>3 DEF Wait, Goto, GateWaiting, RefreshInv, TypeOK
      <3>2. QED
        BY <2>1, <3>1, <1>c
    <2>4. QED
      BY <2>2, <2>3
  <1>5. ASSUME NEW c \in Clients, Read(c) \/ StopWaiting(c)
        PROVE  [Gate!Next]_(Gate!vars)
    <2>1. UNCHANGED Refreshers
      BY <1>5 DEF Read, StopWaiting, Goto, Refreshers, RefreshInv, TypeOK
    <2>2. GateWaiting' = GateWaiting \ {c}
      BY <1>5 DEF Read, StopWaiting, Goto, GateWaiting, RefreshInv, TypeOK
    <2>3. CASE c \in GateWaiting
      BY <2>1, <2>2, <2>3 DEF Gate!Next, Gate!Leave, GateOwner
    <2>4. CASE c \notin GateWaiting
      BY <2>1, <2>2, <2>4, <1>c
    <2>5. QED
      BY <2>3, <2>4
  <1>6. CASE Restart
    <2>1. Refreshers' = {} /\ GateWaiting' = {}
      BY <1>6 DEF Restart, Refreshers, GateWaiting
    <2>2. CASE Refreshers = {}
      <3>1. GateWaiting = {}
        BY <2>2 DEF GateWaiting, RefreshInv, OneRefresher
      <3>2. QED
        BY <2>1, <2>2, <3>1, <1>c
    <2>3. CASE Refreshers # {}
      <3>1. GateOwner # Nobody /\ GateOwner' = Nobody
        BY <2>1, <2>3, <1>a, <1>b DEF Refreshers
      <3>2. QED
        BY <2>1, <3>1 DEF Gate!Next, Gate!Land
    <2>4. QED
      BY <2>2, <2>3
  <1>7. ASSUME \/ \E k \in Categories : Age(k)
               \/ UNCHANGED vars
        PROVE  UNCHANGED Gate!vars
    <2>1. UNCHANGED pc
      BY <1>7 DEF Age, vars
    <2>2. UNCHANGED <<Refreshers, GateWaiting>>
      BY <2>1 DEF Refreshers, GateWaiting
    <2>3. QED
      BY <2>2, <1>c
  <1>8. ASSUME NEW c \in Clients, FetchFails(c) \/ SkipWrite(c) \/ EndWrite(c)
        PROVE  Gate!Next
    <2>1. pc[c] \in {"fetch", "write"} /\ \E how : Land(c, how)
      BY <1>8 DEF FetchFails, SkipWrite, EndWrite
    <2>2. QED
      BY <2>1, <1>2
  <1>9. QED
    BY <1>1, <1>3, <1>4, <1>5, <1>6, <1>7, <1>8 DEF Next, ClientStep

\* Get implements the single-flight gate for any number of callers and
\* categories: one refresh at a time, and each lets all its sleepers go,
\* whether it succeeds, fails, cannot write or dies with the process.
THEOREM ImplementsSingleFlight == Spec => IsSingleFlight
  BY GateInit, RefreshInit, RefreshStep, GateStep, PTL
     DEF Spec, IsSingleFlight, Gate!Spec

----------------------------------------------------------------------------
(* The halves of EveryGetReturns that need no fairness: whoever is in Get  *)
(* waits for a step that somebody can take, and steps bring a call nearer  *)
(* to its end.                                                             *)

\* The mutex is held by who fills a file, and by nobody else.
MutexInv ==
    /\ RefreshInv
    /\ \A c \in Clients : pc[c] = "write" <=> mutex = c

LEMMA MutexInit == Init => MutexInv
  BY RefreshInit, LeaderboardAssumption DEF Init, MutexInv

LEMMA MutexStep == MutexInv /\ [Next]_vars => MutexInv'
  <1> SUFFICES ASSUME MutexInv, [Next]_vars, NEW c \in Clients
               PROVE  pc'[c] = "write" <=> mutex' = c
    BY RefreshStep DEF MutexInv
  <1> USE LeaderboardAssumption DEF MutexInv, RefreshInv, TypeOK, Steps
  <1>1. ASSUME NEW d \in Clients, NEW k \in Categories, Get(d, k)
        PROVE  pc'[c] = "write" <=> mutex' = c
    BY <1>1 DEF Get, Enter, Goto
  <1>2. ASSUME NEW d \in Clients, FetchFails(d) \/ SkipWrite(d)
        PROVE  pc'[c] = "write" <=> mutex' = c
    BY <1>2 DEF FetchFails, SkipWrite, Land
  <1>3. ASSUME NEW d \in Clients, BeginWrite(d)
        PROVE  pc'[c] = "write" <=> mutex' = c
    BY <1>3 DEF BeginWrite, Goto
  <1>4. ASSUME NEW d \in Clients, EndWrite(d)
        PROVE  pc'[c] = "write" <=> mutex' = c
    BY <1>4 DEF EndWrite, Land
  <1>5. ASSUME NEW d \in Clients, Wait(d) \/ Read(d) \/ StopWaiting(d)
        PROVE  pc'[c] = "write" <=> mutex' = c
    BY <1>5 DEF Wait, Read, StopWaiting, Goto
  <1>6. ASSUME (\E k \in Categories : Age(k)) \/ UNCHANGED vars
        PROVE  pc'[c] = "write" <=> mutex' = c
    BY <1>6 DEF Age, vars
  <1>7. CASE Restart
    BY <1>7 DEF Restart
  <1>8. QED
    BY <1>1, <1>2, <1>3, <1>4, <1>5, <1>6, <1>7 DEF Next, ClientStep

\* A step that needs no fault and no new caller.
MayStep(c) ==
    \/ pc[c] \in {"write", "read"}                      \* EndWrite, Read
    \/ pc[c] \in {"fetch", "wait"} /\ mutex = Nobody    \* BeginWrite, Wait

\* Whoever is in Get can go on, or a refresher can that will let it: nobody sleeps in
\* cond.Wait without a refresh in flight, nobody holds l.mu that does not write
\* (leaderboard.go:118-200).
GetsCanGoOn ==
    \A c \in Clients :
        pc[c] # "idle" =>
            MayStep(c) \/ \E d \in Clients : pc[d] \in {"fetch", "write"} /\ MayStep(d)

THEOREM NobodySleepsForNothing == Spec => []GetsCanGoOn
  <1>1. MutexInv => GetsCanGoOn
    <2> SUFFICES ASSUME MutexInv, NEW c \in Clients, pc[c] # "idle", ~MayStep(c)
                 PROVE  \E d \in Clients : pc[d] \in {"fetch", "write"} /\ MayStep(d)
      BY DEF GetsCanGoOn
    <2>1. pc[c] \in Steps /\ mutex \in Clients \cup {Nobody}
      BY DEF MutexInv, RefreshInv, TypeOK
    <2>2. CASE mutex # Nobody
      BY <2>1, <2>2 DEF MutexInv, MayStep
    <2>3. CASE mutex = Nobody
      <3>1. pc[c] = "asleep"
        BY <2>1, <2>3 DEF MayStep, Steps
      <3>2. PICK d \in Clients : pc[d] \in {"fetch", "write"}
        BY <3>1 DEF MutexInv, RefreshInv, OneRefresher, Refreshers
      <3>3. QED
        BY <2>3, <3>2 DEF MayStep
    <2>4. QED
      BY <2>2, <2>3
  <1>2. QED
    BY MutexInit, MutexStep, <1>1, PTL DEF Spec

\* How far a call still has to go.
Ahead(c) ==
    CASE pc[c] = "wait" -> 3
      [] pc[c] \in {"fetch", "asleep"} -> 2
      [] pc[c] \in {"write", "read"} -> 1
      [] OTHER -> 0

\* Each step of a caller brings its call nearer to its end; what others do sends it back
\* only by the end of a refresh that wakes it, and refreshes begin with a call of Get.
CallRunsOut(c) ==
    /\ ClientStep(c) \/ StopWaiting(c) => Ahead(c)' < Ahead(c)
    /\ Ahead(c)' > Ahead(c) =>
           \/ pc[c] = "asleep" /\ inflight /\ ~inflight'
           \/ \E k \in Categories : Get(c, k)
    /\ ~inflight /\ inflight' => \E d \in Clients, k \in Categories : Get(d, k)

THEOREM GetsRunOut == Spec => [][\A c \in Clients : Ahead(c) \in Nat /\ CallRunsOut(c)]_vars
  <1>1. ASSUME TypeOK, RefreshInv, [Next]_vars
        PROVE  [\A c \in Clients : Ahead(c) \in Nat /\ CallRunsOut(c)]_vars
    <2> SUFFICES ASSUME Next, NEW c \in Clients PROVE Ahead(c) \in Nat /\ CallRunsOut(c)
      BY <1>1
    <2> USE <1>1 DEF TypeOK, Steps, Ahead
    <2>0. Ahead(c) \in Nat
      OBVIOUS
    <2>1. ASSUME NEW how, NEW d \in Clients, Land(d, how), pc[d] \in {"fetch", "write"}
          PROVE  /\ pc'[d] = "idle" /\ inflight /\ ~inflight'
                 /\ d # c => pc'[c] = IF pc[c] = "asleep" THEN "wait" ELSE pc[c]
      <3>1. inflight
        BY <2>1 DEF RefreshInv, OneRefresher, Refreshers
      <3>2. QED
        BY <2>1, <3>1 DEF Land
    <2>2. ASSUME NEW d \in Clients, FetchFails(d) \/ SkipWrite(d) \/ EndWrite(d)
          PROVE  /\ pc[d] \in {"fetch", "write"}
                 /\ pc'[d] = "idle" /\ inflight /\ ~inflight'
                 /\ d # c => pc'[c] = IF pc[c] = "asleep" THEN "wait" ELSE pc[c]
      <3>1. pc[d] \in {"fetch", "write"}
        BY <2>2 DEF FetchFails, SkipWrite, EndWrite
      <3>2. PICK how : Land(d, how)
        BY <2>2 DEF FetchFails, SkipWrite, EndWrite
      <3>3. QED
        BY <2>1, <3>1, <3>2
    <2>3. ASSUME NEW d \in Clients, BeginWrite(d) \/ Wait(d) \/ Read(d) \/ StopWaiting(d)
          PROVE  /\ inflight' = inflight
                 /\ d # c => pc'[c] = pc[c]
                 /\ Ahead(d)' < Ahead(d)
      <3>1. CASE BeginWrite(d)
        BY <3>1 DEF BeginWrite, Goto
      <3>2. CASE Wait(d)
        <4>1. PICK step \in {"asleep", "read"} : pc' = [pc EXCEPT ![d] = step]
          BY <3>2 DEF Wait, Goto
        <4>2. pc[d] = "wait" /\ UNCHANGED inflight
          BY <3>2 DEF Wait
        <4>3. QED
          BY <4>1, <4>2
      <3>3. CASE Read(d) \/ StopWaiting(d)
        <4>1. /\ pc[d] \in {"wait", "asleep", "read"} /\ UNCHANGED inflight
              /\ pc' = [pc EXCEPT ![d] = "idle"]
          BY <3>3 DEF Read, StopWaiting, Goto
        <4>2. pc'[d] = "idle" /\ (d # c => pc'[c] = pc[c])
          BY <4>1
        <4>3. Ahead(d)' = 0
          BY <4>2
        <4>4. Ahead(d) \in {1, 2, 3}
          BY <4>1
        <4>5. QED
          BY <4>1, <4>2, <4>3, <4>4
      <3>4. QED
        BY <2>3, <3>1, <3>2, <3>3
    <2>4. ASSUME NEW d \in Clients, ClientStep(d) \/ StopWaiting(d)
          PROVE  Ahead(d)' < Ahead(d)
      <3>1. CASE FetchFails(d) \/ SkipWrite(d) \/ EndWrite(d)
        BY <2>2, <3>1
      <3>2. QED
        BY <2>3, <2>4, <3>1 DEF ClientStep
    <2>5. ASSUME Ahead(c)' > Ahead(c)
          PROVE  \/ pc[c] = "asleep" /\ inflight /\ ~inflight'
                 \/ \E k \in Categories : Get(c, k)
      <3>1. ASSUME NEW d \in Clients, ClientStep(d) \/ StopWaiting(d)
            PROVE  pc[c] = "asleep" /\ inflight /\ ~inflight'
        <4>1. d # c /\ Ahead(c) \in Nat /\ Ahead(c)' \in Nat
          BY <2>4, <2>5, <3>1
        <4>2. CASE FetchFails(d) \/ SkipWrite(d) \/ EndWrite(d)
          BY <2>2, <2>5, <4>1, <4>2
        <4>3. CASE BeginWrite(d) \/ Wait(d) \/ Read(d) \/ StopWaiting(d)
          BY <2>3, <2>5, <4>1, <4>3
        <4>4. QED
          BY <3>1, <4>2, <4>3 DEF ClientStep
      <3>2. ASSUME NEW d \in Clients, NEW k \in Categories, Get(d, k)
            PROVE  Get(c, k)
        <4>1. d # c => pc'[c] = pc[c]
          BY <3>2 DEF Get, Enter, Goto
        <4>2. QED
          BY <2>5, <3>2, <4>1
      <3>3. CASE \E k \in Categories : Age(k)
        BY <2>5, <3>3 DEF Age
      <3>4. CASE Restart
        BY <2>5, <3>4 DEF Restart
      <3>5. QED
        BY <3>1, <3>2, <3>3, <3>4 DEF Next
    <2>6. ASSUME ~inflight, inflight'
          PROVE  \E d \in Clients, k \in Categories : Get(d, k)
      <3>1. ASSUME NEW d \in Clients, ClientStep(d) \/ StopWaiting(d)
            PROVE  FALSE
        BY <2>2, <2>3, <2>6, <3>1 DEF ClientStep
      <3>2. CASE \E k \in Categories : Age(k)
        BY <2>6, <3>2 DEF Age
      <3>3. CASE Restart
        BY <2>6, <3>3 DEF Restart
      <3>4. QED
        BY <3>1, <3>2, <3>3 DEF Next
    <2>7. QED
      BY <2>0, <2>4, <2>5, <2>6 DEF CallRunsOut
  <1>2. QED
    BY RefreshInit, RefreshStep, <1>1, TypeCorrect, PTL DEF Spec

=============================================================================
