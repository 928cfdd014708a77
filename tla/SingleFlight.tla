---------------------------- MODULE SingleFlight ----------------------------
(***************************************************************************)
(* What a single-flight gate promises, whatever the flight does: at most   *)
(* one caller owns the flight, callers that arrive while it is up wait     *)
(* for it, and when it lands every one of them is let go in the same step. *)
(*                                                                         *)
(* This is the abstract specification that the session bootstrap of        *)
(* internal/session/manager.go and the refresh of                          *)
(* internal/lmarena/leaderboard.go are shown to implement.                 *)
(***************************************************************************)

CONSTANTS
    Callers,    \* the goroutines that may ask for the flight
    Nobody      \* the owner of no flight; not a caller

VARIABLES
    owner,      \* the caller whose flight is up, or Nobody
    waiting     \* the callers that wait for it to land

vars == <<owner, waiting>>

Init ==
    /\ owner = Nobody
    /\ waiting = {}

\* A caller that finds no flight starts one and owns it.
TakeOff(c) ==
    /\ owner = Nobody
    /\ c \notin waiting
    /\ owner' = c
    /\ UNCHANGED waiting

\* A caller that finds a flight of somebody else waits for it.
Board(c) ==
    /\ owner \notin {Nobody, c}
    /\ waiting' = waiting \cup {c}
    /\ UNCHANGED owner

\* A waiting caller gives up (its context ends).
Leave(c) ==
    /\ c \in waiting
    /\ waiting' = waiting \ {c}
    /\ UNCHANGED owner

\* The owner lands: nobody owns a flight and nobody waits any more.
Land ==
    /\ owner # Nobody
    /\ owner' = Nobody
    /\ waiting' = {}

Next ==
    \/ Land
    \/ \E c \in Callers : TakeOff(c) \/ Board(c) \/ Leave(c)

Spec == Init /\ [][Next]_vars

\* The specification with its promise of progress: every flight lands.
FairSpec == Spec /\ WF_vars(Land)

=============================================================================
