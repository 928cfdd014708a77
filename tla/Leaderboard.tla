----------------------------- MODULE Leaderboard -----------------------------
(***************************************************************************)
(* internal/lmarena/leaderboard.go: snapshots of the public leaderboard,   *)
(* one cache file per category, refreshed when older than Refresh.  One    *)
(* in-flight flag and one condition variable serve ALL categories.         *)
(*                                                                         *)
(* A client is a goroutine inside Leaderboard.Get.  A section under l.mu   *)
(* is one action, except that writing a cache file is two: WriteFile       *)
(* truncates the file and then fills it, and waitRefresh reads it without  *)
(* the mutex.  How fetch pages the data is left out: it succeeds or fails. *)
(***************************************************************************)
EXTENDS Naturals

CONSTANTS
    Clients,    \* goroutines that call Get
    Nobody,     \* the holder of a free mutex
    Categories, \* leaderboard categories
    Refreshing, \* l.refresh > 0
    MaxCalls,   \* bound: calls of Get per client
    MaxFaults   \* bound: failed fetches, failed writes, contexts that end,
                \* restarts of the process, over the whole behaviour

ASSUME LeaderboardAssumption ==
    /\ Nobody \notin Clients /\ Categories # {}
    /\ Refreshing \in BOOLEAN
    /\ MaxCalls \in Nat /\ MaxFaults \in Nat

VARIABLES
    pc,         \* what each client does next
    asked,      \* the category of each client's latest call
    had,        \* history: its file was whole when that call began
    out,        \* how each client's latest call ended
    calls,      \* calls each client has made (bounds the model)
    inflight,   \* l.inflight
    mutex,      \* who holds l.mu from one action to the next
    file,       \* the cache file of each category
    faults      \* faults still to come (bounds the model)

vars == <<pc, asked, had, out, calls, inflight, mutex, file, faults>>

----------------------------------------------------------------------------
\* "fetch" and "write" are the refresher's; "wait" is before the lock in
\* waitRefresh, "asleep" in cond.Wait, "read" after the refresh.
Steps == {"idle", "fetch", "write", "wait", "asleep", "read"}
Outcomes == {"none", "served", "failed", "nocache", "ctx", "lost"}
Files == {"none", "torn", "stale", "fresh"}

\* loadCache finds a snapshot.
Whole(k) == file[k] \in {"stale", "fresh"}

MayFault == faults > 0
Charge(fault) == faults' = IF fault THEN faults - 1 ELSE faults

Goto(c, step) == pc' = [pc EXCEPT ![c] = step]
Ends(c, how) == out' = [out EXCEPT ![c] = how]

----------------------------------------------------------------------------
Init ==
    /\ pc = [c \in Clients |-> "idle"]
    /\ asked = [c \in Clients |-> CHOOSE k \in Categories : TRUE]
    /\ had = [c \in Clients |-> FALSE]
    /\ out = [c \in Clients |-> "none"]
    /\ calls = [c \in Clients |-> 0]
    /\ inflight = FALSE
    /\ mutex = Nobody
    /\ file \in [Categories -> Files]
    /\ faults = MaxFaults

\* Mutant: the flag is not looked at.
EnterStampede(c, k) ==
    IF Refreshing /\ file[k] = "fresh"
    THEN Goto(c, "idle") /\ Ends(c, "served") /\ UNCHANGED inflight
    ELSE Goto(c, "fetch") /\ Ends(c, "none") /\ inflight' = TRUE

\* What Get finds under the mutex: a fresh file, somebody else's refresh
\* (with a file to serve, or not), or a refresh to be made.
Enter(c, k) ==
    CASE Refreshing /\ file[k] = "fresh" ->
            Goto(c, "idle") /\ Ends(c, "served") /\ UNCHANGED inflight
      [] ~(Refreshing /\ file[k] = "fresh") /\ inflight /\ Whole(k) ->
            Goto(c, "idle") /\ Ends(c, "served") /\ UNCHANGED inflight
      [] inflight /\ ~Whole(k) ->
            Goto(c, "wait") /\ Ends(c, "none") /\ UNCHANGED inflight
      [] OTHER ->
            Goto(c, "fetch") /\ Ends(c, "none") /\ inflight' = TRUE

Get(c, k) ==
    /\ pc[c] = "idle"
    /\ calls[c] < MaxCalls
    /\ mutex = Nobody
    /\ calls' = [calls EXCEPT ![c] = @ + 1]
    /\ asked' = [asked EXCEPT ![c] = k]
    /\ had' = [had EXCEPT ![c] = Whole(k)]
    /\ Enter(c, k)
    /\ UNCHANGED <<mutex, file, faults>>

\* Mutant: only one sleeper is woken.
LandOne(c, how) ==
    /\ inflight' = FALSE
    /\ Ends(c, how)
    /\ LET asleep == {d \in Clients : pc[d] = "asleep"}
       IN  \/ asleep = {} /\ Goto(c, "idle")
           \/ \E d \in asleep : pc' = [pc EXCEPT ![c] = "idle", ![d] = "wait"]

\* The refresh of c is over: Broadcast, unlock, return.
Land(c, how) ==
    /\ inflight' = FALSE
    /\ Ends(c, how)
    /\ pc' = [d \in Clients |->
                IF d = c THEN "idle"
                ELSE IF pc[d] = "asleep" THEN "wait" ELSE pc[d]]

\* Mutant: the error is returned whatever is cached.
LastResort(k) == "failed"

\* Mutant: without a cache the error is swallowed.
LastResortEmpty(k) == IF Whole(k) THEN "served" ELSE "empty"

\* What a refresher returns when its fetch failed.
Fallback(k) == IF Whole(k) THEN "served" ELSE "failed"

FetchFails(c) ==
    /\ pc[c] = "fetch"
    /\ mutex = Nobody
    /\ MayFault
    /\ Charge(TRUE)
    /\ Land(c, Fallback(asked[c]))
    /\ UNCHANGED <<asked, had, calls, mutex, file>>

\* The mutex is taken, the file truncated.
BeginWrite(c) ==
    /\ pc[c] = "fetch"
    /\ mutex = Nobody
    /\ mutex' = c
    /\ file' = [file EXCEPT ![asked[c]] = "torn"]
    /\ Goto(c, "write")
    /\ UNCHANGED <<asked, had, out, calls, inflight, faults>>

\* The directory or the file cannot be opened, which saveCache ignores.
SkipWrite(c) ==
    /\ pc[c] = "fetch"
    /\ mutex = Nobody
    /\ MayFault
    /\ Charge(TRUE)
    /\ Land(c, "served")
    /\ UNCHANGED <<asked, had, calls, mutex, file>>

\* The file is filled; a write that fails is ignored, too.
EndWrite(c) ==
    /\ pc[c] = "write"
    /\ \/ file' = [file EXCEPT ![asked[c]] = "fresh"] /\ Charge(FALSE)
       \/ UNCHANGED file /\ MayFault /\ Charge(TRUE)
    /\ mutex' = Nobody
    /\ Land(c, "served")
    /\ UNCHANGED <<asked, had, calls>>

----------------------------------------------------------------------------
(* waitRefresh                                                             *)

\* The loop around cond.Wait, which lets go of the mutex while it sleeps.
Wait(c) ==
    /\ pc[c] = "wait"
    /\ mutex = Nobody
    /\ Goto(c, IF inflight THEN "asleep" ELSE "read")
    /\ UNCHANGED <<asked, had, out, calls, inflight, mutex, file, faults>>

\* loadCache, without the mutex.
Read(c) ==
    /\ pc[c] = "read"
    /\ Ends(c, IF Whole(asked[c]) THEN "served" ELSE "nocache")
    /\ Goto(c, "idle")
    /\ UNCHANGED <<asked, had, calls, inflight, mutex, file, faults>>

\* The caller's context ends first; the refresh goes on without it.
StopWaiting(c) ==
    /\ pc[c] \in {"wait", "asleep", "read"}
    /\ MayFault
    /\ Charge(TRUE)
    /\ Ends(c, "ctx")
    /\ Goto(c, "idle")
    /\ UNCHANGED <<asked, had, calls, inflight, mutex, file>>

----------------------------------------------------------------------------
\* The refresh interval passes.
Age(k) ==
    /\ file[k] = "fresh"
    /\ file' = [file EXCEPT ![k] = "stale"]
    /\ UNCHANGED <<pc, asked, had, out, calls, inflight, mutex, faults>>

\* The process dies, perhaps in the middle of a write, and starts again.
Restart ==
    /\ MayFault
    /\ Charge(TRUE)
    /\ pc' = [c \in Clients |-> "idle"]
    /\ out' = [c \in Clients |-> IF pc[c] = "idle" THEN out[c] ELSE "lost"]
    /\ inflight' = FALSE
    /\ mutex' = Nobody
    /\ UNCHANGED <<asked, had, calls, file>>

ClientStep(c) ==
    \/ FetchFails(c) \/ BeginWrite(c) \/ SkipWrite(c) \/ EndWrite(c)
    \/ Wait(c) \/ Read(c)

Next ==
    \/ \E c \in Clients : ClientStep(c) \/ StopWaiting(c)
    \/ \E c \in Clients, k \in Categories : Get(c, k)
    \/ \E k \in Categories : Age(k)
    \/ Restart

Spec == Init /\ [][Next]_vars

\* A fetch ends (the HTTP client and the handler's context time out) and a
\* goroutine that can run does; nothing makes callers call or files age.
FairSpec == Spec /\ \A c \in Clients : WF_vars(ClientStep(c))

=============================================================================
