---------------------------- MODULE ConfigReload ----------------------------
(***************************************************************************)
(* config.Reloader (internal/config/watcher.go): one goroutine that waits  *)
(* for events of the directory and reloads the file 200 ms after the last. *)
(* The file is edited by another program: every write truncates it first,  *)
(* so a reload can meet a part of a version, which may decode or not.      *)
(***************************************************************************)
EXTENDS Integers

CONSTANT MaxVersions    \* bound: edits of the file

ASSUME ReloadAssumption == MaxVersions \in Nat \ {0}

VARIABLES version,      \* the edit the file holds, its first being 1
          whole,        \* FALSE while an edit is under way
          watching,     \* watcher.Add has returned
          noticed,      \* the last edit was made while watching
          events,       \* unread events of the file
          pending,      \* pending
          timer,        \* debounce: "off", "armed" or "fired"
          loop,         \* Select, Loading, or the version that was loaded
          current       \* r.current: a version, or PartOf it

reloadVars == <<version, whole, watching, noticed, events, pending, timer, loop, current>>

PartOf(v) == MaxVersions + v
Select == 0
Loading == -1

ReloadTyped ==
    /\ version \in 1..MaxVersions /\ whole \in BOOLEAN
    /\ watching \in BOOLEAN /\ noticed \in BOOLEAN
    /\ events \in 0..2 * MaxVersions /\ pending \in BOOLEAN
    /\ timer \in {"off", "armed", "fired"}
    /\ loop \in Loading..2 * MaxVersions
    /\ current \in 1..2 * MaxVersions

\* NewReloader has loaded the file and started watch, which adds the directory.
ReloadInit ==
    /\ version = 1 /\ whole = TRUE /\ current = 1
    /\ watching = FALSE /\ noticed = FALSE
    /\ events = 0 /\ pending = FALSE /\ timer = "off" /\ loop = Select

WatcherAdd ==
    /\ ~watching
    /\ watching' = TRUE
    /\ UNCHANGED <<version, whole, noticed, events, pending, timer, loop, current>>

Notify == events' = IF watching THEN events + 1 ELSE events

BeginEdit ==
    /\ whole /\ version < MaxVersions
    /\ version' = version + 1 /\ whole' = FALSE
    /\ Notify
    /\ UNCHANGED <<watching, noticed, pending, timer, loop, current>>

EndEdit ==
    /\ ~whole
    /\ whole' = TRUE
    /\ noticed' = watching
    /\ Notify
    /\ UNCHANGED <<version, watching, pending, timer, loop, current>>

\* A Write or Create event: Reset also forgets a tick that was not received yet.
OnEvent ==
    /\ loop = Select /\ events > 0
    /\ events' = events - 1
    /\ pending' = TRUE
    /\ timer' = "armed"
    /\ UNCHANGED <<version, whole, watching, noticed, loop, current>>

TimerFires ==
    /\ timer = "armed"
    /\ timer' = "fired"
    /\ UNCHANGED <<version, whole, watching, noticed, events, pending, loop, current>>

OnTimer ==
    /\ loop = Select /\ timer = "fired"
    /\ timer' = "off"
    /\ loop' = IF pending THEN Loading ELSE Select
    /\ pending' = FALSE
    /\ UNCHANGED <<version, whole, watching, noticed, events, current>>

\* LoadConfig.  A file that is half written may decode; one that does not keeps
\* the old configuration, as an invalid version would.
LoadConfig ==
    /\ loop = Loading
    /\ loop' \in IF whole THEN {version} ELSE {Select, PartOf(version)}
    /\ UNCHANGED <<version, whole, watching, noticed, events, pending, timer, current>>

\* Mutant: what was reported during the reload is taken for done.
SwapDrains ==
    /\ loop > Select
    /\ current' = loop
    /\ loop' = Select
    /\ events' = 0
    /\ UNCHANGED <<version, whole, watching, noticed, pending, timer>>

Swap ==
    /\ loop > Select
    /\ current' = loop
    /\ loop' = Select
    /\ UNCHANGED <<version, whole, watching, noticed, events, pending, timer>>

Reloader == OnEvent \/ OnTimer \/ LoadConfig \/ Swap

ReloadNext == WatcherAdd \/ BeginEdit \/ EndEdit \/ TimerFires \/ Reloader

ReloadFair == WF_reloadVars(TimerFires) /\ WF_reloadVars(Reloader)

ReloadSpec == ReloadInit /\ [][ReloadNext]_reloadVars /\ ReloadFair

\* Every version that was completed while the directory was watched becomes the
\* configuration, unless a newer one follows: events that arrive during the debounce
\* or during a reload are not lost (watcher.go:56-95).
LastVersionLoaded ==
    \A v \in 1..MaxVersions :
        (version = v /\ whole /\ noticed) ~> (current = v \/ version # v)
=============================================================================
