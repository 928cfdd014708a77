---------------------------- MODULE GatewayProofs ----------------------------
(***************************************************************************)
(* What holds of the reloader of the configuration, and of the components  *)
(* together: their composition in MCGateway implements each of them, so    *)
(* that every theorem about one of them holds of the composition.          *)
(***************************************************************************)
EXTENDS MCGateway, PoolProofs, CacheProofs, ClientProofs

(***************************************************************************)
(* Reloader.  A version that was completed while the directory was watched *)
(* is the configuration, or something that is still to happen leads to it. *)
(***************************************************************************)
Loaded == 1..version \union {PartOf(v) : v \in 1..version}

ReloadShape ==
    /\ version \in 1..MaxVersions /\ whole \in BOOLEAN
    /\ watching \in BOOLEAN /\ noticed \in BOOLEAN /\ pending \in BOOLEAN
    /\ timer \in {"off", "armed", "fired"}
    /\ loop \in {Select, Loading} \union Loaded
    /\ current \in Loaded
    /\ events \in Nat
    /\ whole => events <= 2 * version - 2
    /\ ~whole => events <= 2 * version - 3

\* What was loaded is never ahead of the file, and the newest is not overwritten by an older.
NewestStays ==
    /\ ~whole => current # version /\ loop # version
    /\ current = version => loop \in {Select, Loading, version}
    /\ pending <=> timer # "off"

\* Whatever is due, is on its way.
NothingForgotten ==
    whole /\ noticed => \/ current = version \/ loop \in {Loading, version}
                        \/ events > 0 \/ timer # "off"

ReloadInv == ReloadShape /\ NewestStays /\ NothingForgotten

\* What the goroutine still has to do: an event arms the timer, the timer fires, a
\* reload follows and is stored.
ReloadWork ==
    10 * events + (CASE timer = "armed" -> 4 [] timer = "fired" -> 3 [] OTHER -> 0)
        + (IF loop = Loading THEN 2 ELSE IF loop = Select THEN 0 ELSE 1)

LEMMA LoadedParts ==
  ASSUME version \in 1..MaxVersions
  PROVE  /\ Loaded \subseteq 1..2 * MaxVersions
         /\ version \in Loaded /\ PartOf(version) \in Loaded
         /\ PartOf(version) # version /\ Select \notin Loaded /\ Loading \notin Loaded
  <1>1. \A v \in 1..version : v \in 1..MaxVersions /\ PartOf(v) \in MaxVersions + 1..2 * MaxVersions
    BY ReloadAssumption DEF PartOf
  <1>2. version \in 1..version
    BY ReloadAssumption
  <1>3. Loaded \subseteq 1..2 * MaxVersions
    BY <1>1, ReloadAssumption DEF Loaded
  <1>4. version \in Loaded /\ PartOf(version) \in Loaded
    BY <1>2 DEF Loaded
  <1>5. PartOf(version) # version
    BY ReloadAssumption DEF PartOf
  <1>6. Select \notin Loaded /\ Loading \notin Loaded
    BY <1>3, ReloadAssumption DEF Select, Loading
  <1>7. QED
    BY <1>3, <1>4, <1>5, <1>6

LEMMA ReloadInvInit == ReloadInit => ReloadInv
  <1> SUFFICES ASSUME ReloadInit PROVE ReloadInv
    OBVIOUS
  <1>1. version \in 1..MaxVersions /\ version = 1 /\ 1 \in Loaded
    BY ReloadAssumption DEF ReloadInit, Loaded
  <1>2. /\ whole \in BOOLEAN /\ watching \in BOOLEAN /\ noticed \in BOOLEAN /\ pending \in BOOLEAN
        /\ whole /\ ~pending
    BY Zenon DEF ReloadInit
  <1>3. current = 1 /\ events = 0 /\ timer = "off" /\ loop = Select
    BY DEF ReloadInit
  <1>4. QED
    BY <1>1, <1>2, <1>3 DEF ReloadInv, ReloadShape, NewestStays, NothingForgotten

LEMMA ReloadInvStep == ReloadInv /\ [ReloadNext]_reloadVars => ReloadInv'
  <1> SUFFICES ASSUME ReloadInv, [ReloadNext]_reloadVars PROVE ReloadInv'
    OBVIOUS
  <1> USE DEF ReloadInv, ReloadShape, NewestStays, NothingForgotten
  <1>0. version \in 1..MaxVersions /\ MaxVersions \in Nat \ {0}
    BY ReloadAssumption
  <1>1. /\ Loaded \subseteq 1..2 * MaxVersions /\ version \in Loaded /\ PartOf(version) \in Loaded
        /\ PartOf(version) # version /\ Select \notin Loaded /\ Loading \notin Loaded
    BY <1>0, LoadedParts
  <1>2. version' = version => Loaded' = Loaded
    BY DEF Loaded, PartOf
  <1>3. CASE WatcherAdd \/ TimerFires \/ UNCHANGED reloadVars
    <2>1. UNCHANGED <<version, whole, noticed, events, pending, loop, current>>
      BY <1>3 DEF WatcherAdd, TimerFires, reloadVars
    <2>2. watching' \in BOOLEAN
      BY <1>3, Zenon DEF WatcherAdd, TimerFires, reloadVars
    <2>3. timer' \in {"armed", "fired", "off"} /\ (timer' = "off" <=> timer = "off")
      BY <1>3 DEF WatcherAdd, TimerFires, reloadVars
    <2>4. QED
      BY <1>2, <2>1, <2>2, <2>3
  <1>4. CASE BeginEdit
    <2>1. version' = version + 1 /\ version' \in 1..MaxVersions /\ whole' = FALSE /\ whole = TRUE
          /\ UNCHANGED <<watching, noticed, pending, timer, loop, current>>
      BY <1>0, <1>4 DEF BeginEdit
    <2>2. Loaded \subseteq Loaded'
      BY <1>0, <2>1 DEF Loaded, PartOf
    <2>3. version' \notin Loaded /\ version' # Select /\ version' # Loading
      BY <1>0, <2>1 DEF Loaded, PartOf, Select, Loading
    <2>4. events' \in Nat /\ events' <= 2 * version' - 3
      BY <1>0, <1>4, <2>1 DEF BeginEdit, Notify
    <2>5. QED
      BY <2>1, <2>2, <2>3, <2>4
  <1>5. CASE EndEdit
    <2>1. /\ events' \in Nat /\ events' <= 2 * version' - 2 /\ (watching => events' > 0)
          /\ whole' = TRUE /\ whole = FALSE /\ noticed' = watching
          /\ UNCHANGED <<version, watching, pending, timer, loop, current>>
      BY <1>0, <1>5 DEF EndEdit, Notify
    <2>2. QED
      BY <1>2, <2>1
  <1>6. CASE OnEvent
    BY <1>0, <1>1, <1>2, <1>6 DEF OnEvent, Select, Loading
  <1>7. CASE OnTimer
    BY <1>0, <1>1, <1>2, <1>7 DEF OnTimer, Select, Loading
  <1>8. CASE LoadConfig
    <2>1. /\ loop = Loading /\ UNCHANGED <<version, whole, watching, noticed, events, pending, timer, current>>
          /\ whole => loop' = version
          /\ ~whole => loop' \in {Select, PartOf(version)}
      BY <1>8 DEF LoadConfig
    <2>2. QED
      BY <1>0, <1>1, <1>2, <2>1 DEF Select, Loading
  <1>9. CASE Swap
    BY <1>0, <1>1, <1>2, <1>9 DEF Swap, Select, Loading
  <1>10. QED
    BY <1>3, <1>4, <1>5, <1>6, <1>7, <1>8, <1>9 DEF ReloadNext, Reloader

LEMMA ReloadInvHolds == ReloadSpec => []ReloadInv
  BY ReloadInvInit, ReloadInvStep, PTL DEF ReloadSpec

\* The reloader's variables keep their types: every edit leaves at most two events, and
\* no configuration is loaded that the file never held (watcher.go:36-95).
THEOREM ReloadTypeCorrect == ReloadSpec => []ReloadTyped
  <1>1. ReloadInv => ReloadTyped
    <2> SUFFICES ASSUME ReloadInv PROVE ReloadTyped
      OBVIOUS
    <2>1. version \in 1..MaxVersions /\ MaxVersions \in Nat \ {0}
      BY ReloadAssumption DEF ReloadInv, ReloadShape
    <2>2. Loaded \subseteq 1..2 * MaxVersions
      BY <2>1, LoadedParts
    <2>3. events \in 0..2 * MaxVersions
      BY <2>1 DEF ReloadInv, ReloadShape
    <2>4. loop \in Loading..2 * MaxVersions
      BY <2>1, <2>2 DEF ReloadInv, ReloadShape, Select, Loading
    <2>5. QED
      BY <2>1, <2>2, <2>3, <2>4 DEF ReloadInv, ReloadShape, ReloadTyped
  <1>2. QED
    BY <1>1, ReloadInvHolds, PTL

\* No noticed version is forgotten, whatever arrives during the debounce or a reload:
\* until the last one is the configuration, there is work, and the goroutine or its
\* timer has a step to take (watcher.go:56-95).
DueHasAStep ==
    whole /\ noticed /\ current # version =>
        /\ ReloadWork > 0
        /\ \/ timer = "armed"                                  \* TimerFires
           \/ loop = Select /\ (events > 0 \/ timer = "fired") \* OnEvent, OnTimer
           \/ loop # Select                                    \* LoadConfig, Swap

THEOREM NoVersionIsForgotten == ReloadSpec => []DueHasAStep
  <1>1. ReloadInv => DueHasAStep
    <2> SUFFICES ASSUME ReloadInv, whole, noticed, current # version PROVE DueHasAStep
      BY DEF DueHasAStep
    <2>1. loop \in {Loading, version} \/ events > 0 \/ timer # "off"
      BY DEF ReloadInv, NothingForgotten
    <2>2. timer \in {"off", "armed", "fired"} /\ events \in Nat /\ version \in 1..MaxVersions
          /\ version \notin {Select, Loading}
      BY ReloadAssumption DEF ReloadInv, ReloadShape, Select, Loading
    <2>3. QED
      BY <2>1, <2>2 DEF DueHasAStep, ReloadWork, Select, Loading
  <1>2. QED
    BY <1>1, ReloadInvHolds, PTL

\* Only the editor gives the reloader work; each of its own steps and each tick leaves
\* less of it, so that between two edits it takes finitely many.
WorkRunsOut ==
    /\ TimerFires \/ Reloader => ReloadWork' < ReloadWork
    /\ ReloadWork' > ReloadWork => BeginEdit \/ EndEdit

THEOREM ReloadsEnd == ReloadSpec => [][WorkRunsOut /\ ReloadWork \in Nat]_reloadVars
  <1>1. ASSUME ReloadInv, [ReloadNext]_reloadVars
        PROVE  [WorkRunsOut /\ ReloadWork \in Nat]_reloadVars
    <2>1. timer \in {"off", "armed", "fired"} /\ events \in Nat
      BY <1>1 DEF ReloadInv, ReloadShape
    <2>2. ReloadWork \in Nat
      BY <2>1 DEF ReloadWork
    <2>3. ASSUME TimerFires \/ Reloader PROVE ReloadWork' < ReloadWork
      <3>1. CASE TimerFires
        BY <2>1, <3>1 DEF TimerFires, ReloadWork
      <3>2. CASE OnEvent
        BY <2>1, <3>2 DEF OnEvent, ReloadWork, Select, Loading
      <3>3. CASE OnTimer
        BY <2>1, <3>3 DEF OnTimer, ReloadWork, Select, Loading
      <3>4. CASE LoadConfig
        <4>1. version \in 1..MaxVersions
          BY <1>1 DEF ReloadInv, ReloadShape
        <4>2. loop = Loading /\ loop' # Loading /\ UNCHANGED <<events, timer>>
          BY <3>4, <4>1, ReloadAssumption DEF LoadConfig, PartOf, Select, Loading
        <4>3. QED
          BY <2>1, <4>2 DEF ReloadWork, Select, Loading
      <3>5. CASE Swap
        BY <2>1, <3>5 DEF Swap, ReloadWork, Select, Loading
      <3>6. QED
        BY <2>3, <3>1, <3>2, <3>3, <3>4, <3>5 DEF Reloader
    <2>4. ASSUME WatcherAdd PROVE ReloadWork' = ReloadWork
      BY <2>4 DEF WatcherAdd, ReloadWork
    <2>5. ASSUME reloadVars' # reloadVars PROVE WorkRunsOut
      <3>1. TimerFires \/ Reloader \/ WatcherAdd \/ BeginEdit \/ EndEdit
        BY <1>1, <2>5 DEF ReloadNext
      <3>2. ReloadWork' \in Nat
        <4>1. ReloadInv'
          BY <1>1, ReloadInvStep
        <4>2. timer' \in {"off", "armed", "fired"} /\ events' \in Nat
          BY <4>1 DEF ReloadInv, ReloadShape
        <4>3. QED
          BY <4>2 DEF ReloadWork
      <3>3. QED
        BY <2>2, <2>3, <2>4, <3>1, <3>2 DEF WorkRunsOut
    <2>6. QED
      BY <2>2, <2>5
  <1>2. QED
    BY <1>1, ReloadInvHolds, PTL DEF ReloadSpec

----------------------------------------------------------------------------
(***************************************************************************)
(* The composition.  A step is a step of one component that leaves the     *)
(* variables of all the others, or of all of them, unchanged.              *)
(***************************************************************************)
LEMMA GatewayStarts ==
  GatewayInit =>
    /\ PoolInit /\ RunInit /\ RateInit /\ CredInit /\ SearchInit /\ ReloadInit /\ DashInit
    /\ ProxyInit /\ RefresherInit /\ UpstreamInit /\ ResearchInit /\ RelayInit /\ StatusInit
  BY DEF GatewayInit

LEMMA GatewaySteps ==
  ASSUME [GatewayNext]_gatewayVars
  PROVE  /\ [PoolNext]_poolVars
         /\ [RunNext]_runVars
         /\ [RateNext]_rateVars
         /\ [CredNext]_credVars
         /\ [SearchNext]_searchVars
         /\ [ReloadNext]_reloadVars
         /\ [DashNext]_dashVars
         /\ [ProxyNext]_proxyVars
         /\ [RefresherNext]_refresherVars
         /\ [UpstreamNext]_upstreamVars
         /\ [ResearchNext]_researchVars
         /\ [RelayNext]_relayVars
         /\ [StatusNext]_statusVars
  <1>1. CASE PoolMoves
    <2>1. PoolNext /\ UNCHANGED <<runVars, rateVars, credVars, searchVars, reloadVars, dashVars, proxyVars,
              refresherVars, upstreamVars, researchVars, relayVars, statusVars>>
      BY <1>1 DEF PoolMoves
    <2>2. QED
      BY <2>1
  <1>2. CASE RunMoves
    <2>1. RunNext /\ UNCHANGED <<poolVars, rateVars, credVars, searchVars, reloadVars, dashVars, proxyVars,
              refresherVars, upstreamVars, researchVars, relayVars, statusVars>>
      BY <1>2 DEF RunMoves
    <2>2. QED
      BY <2>1
  <1>3. CASE RateMoves
    <2>1. RateNext /\ UNCHANGED <<poolVars, runVars, credVars, searchVars, reloadVars, dashVars, proxyVars,
              refresherVars, upstreamVars, researchVars, relayVars, statusVars>>
      BY <1>3 DEF RateMoves
    <2>2. QED
      BY <2>1
  <1>4. CASE CredMoves
    <2>1. CredNext /\ UNCHANGED <<poolVars, runVars, rateVars, searchVars, reloadVars, dashVars, proxyVars,
              refresherVars, upstreamVars, researchVars, relayVars, statusVars>>
      BY <1>4 DEF CredMoves
    <2>2. QED
      BY <2>1
  <1>5. CASE SearchMoves
    <2>1. SearchNext /\ UNCHANGED <<poolVars, runVars, rateVars, credVars, reloadVars, dashVars, proxyVars,
              refresherVars, upstreamVars, researchVars, relayVars, statusVars>>
      BY <1>5 DEF SearchMoves
    <2>2. QED
      BY <2>1
  <1>6. CASE ReloadMoves
    <2>1. ReloadNext /\ UNCHANGED <<poolVars, runVars, rateVars, credVars, searchVars, dashVars, proxyVars,
              refresherVars, upstreamVars, researchVars, relayVars, statusVars>>
      BY <1>6 DEF ReloadMoves
    <2>2. QED
      BY <2>1
  <1>7. CASE DashMoves
    <2>1. DashNext /\ UNCHANGED <<poolVars, runVars, rateVars, credVars, searchVars, reloadVars, proxyVars,
              refresherVars, upstreamVars, researchVars, relayVars, statusVars>>
      BY <1>7 DEF DashMoves
    <2>2. QED
      BY <2>1
  <1>8. CASE ProxyMoves
    <2>1. ProxyNext /\ UNCHANGED <<poolVars, runVars, rateVars, credVars, searchVars, reloadVars, dashVars,
              refresherVars, upstreamVars, researchVars, relayVars, statusVars>>
      BY <1>8 DEF ProxyMoves
    <2>2. QED
      BY <2>1
  <1>9. CASE RefresherMoves
    <2>1. RefresherNext /\ UNCHANGED <<poolVars, runVars, rateVars, credVars, searchVars, reloadVars, dashVars,
              proxyVars, upstreamVars, researchVars, relayVars, statusVars>>
      BY <1>9 DEF RefresherMoves
    <2>2. QED
      BY <2>1
  <1>10. CASE UpstreamMoves
    <2>1. UpstreamNext /\ UNCHANGED <<poolVars, runVars, rateVars, credVars, searchVars, reloadVars, dashVars,
              proxyVars, refresherVars, researchVars, relayVars, statusVars>>
      BY <1>10 DEF UpstreamMoves
    <2>2. QED
      BY <2>1
  <1>11. CASE ResearchMoves
    <2>1. ResearchNext /\ UNCHANGED <<poolVars, runVars, rateVars, credVars, searchVars, reloadVars, dashVars,
              proxyVars, refresherVars, upstreamVars, relayVars, statusVars>>
      BY <1>11 DEF ResearchMoves
    <2>2. QED
      BY <2>1
  <1>12. CASE RelayMoves
    <2>1. RelayNext /\ UNCHANGED <<poolVars, runVars, rateVars, credVars, searchVars, reloadVars, dashVars,
              proxyVars, refresherVars, upstreamVars, researchVars, statusVars>>
      BY <1>12 DEF RelayMoves
    <2>2. QED
      BY <2>1
  <1>13. CASE StatusMoves
    <2>1. StatusNext /\ UNCHANGED <<poolVars, runVars, rateVars, credVars, searchVars, reloadVars, dashVars,
              proxyVars, refresherVars, upstreamVars, researchVars, relayVars>>
      BY <1>13 DEF StatusMoves
    <2>2. QED
      BY <2>1
  <1>14. CASE UNCHANGED gatewayVars
    BY <1>14 DEF gatewayVars
  <1>15. QED
    BY <1>1, <1>2, <1>3, <1>4, <1>5, <1>6, <1>7, <1>8,
       <1>9, <1>10, <1>11, <1>12, <1>13, <1>14 DEF GatewayNext

\* Every behaviour of the composition is one of each component, with the fairness of
\* those that have one: what is proved of a component holds where the run checks it.
THEOREM GatewayImplementsItsParts ==
  GatewaySpec =>
    /\ PoolSpec /\ RunSpec /\ RateSpec /\ CredSpec /\ SearchSpec /\ ReloadSpec /\ DashSpec
    /\ ProxySpec /\ RefresherSpec /\ UpstreamSpec /\ ResearchSpec /\ RelaySpec /\ StatusSpec
  BY GatewayStarts, GatewaySteps, PTL
     DEF GatewaySpec, PoolSpec, RunSpec, RateSpec, CredSpec, SearchSpec, ReloadSpec, DashSpec,
         ProxySpec, RefresherSpec, UpstreamSpec, ResearchSpec, RelaySpec, StatusSpec

\* The type invariants of all the components hold of their composition, for every value
\* of their constants.
THEOREM GatewayTypeCorrect == GatewaySpec => []AllTyped
  <1>1. GatewaySpec =>
          /\ []PoolTyped /\ []RunTyped /\ []RateTyped /\ []CredTyped /\ []SearchTyped
          /\ []ReloadTyped /\ []DashTyped /\ []ProxyTyped /\ []RefresherTyped
          /\ []UpstreamTyped /\ []ResearchTyped /\ []RelayTyped /\ []StatusTyped
    BY GatewayImplementsItsParts, PoolTypeCorrect, RunTypeCorrect, RateTypeCorrect,
       CredTypeCorrect, SearchTypeCorrect, ReloadTypeCorrect, DashTypeCorrect,
       ProxyTypeCorrect, RefresherTypeCorrect, UpstreamTypeCorrect, ResearchTypeCorrect,
       RelayTypeCorrect, StatusTypeCorrect, PTL
  <1>2. QED
    BY <1>1, PTL DEF AllTyped
=============================================================================
