--------------------------- MODULE SessionManager ---------------------------
(***************************************************************************)
(* internal/session/manager.go: Manager.EnsureActive hands every chat      *)
(* request an active upstream session for its model.  All requests share   *)
(* one token, hence ONE upstream session; concurrent requests share one    *)
(* bootstrap (the call that may start a session); recent results are kept  *)
(* per model for a while.                                                  *)
(*                                                                         *)
(* A client is a goroutine inside EnsureActive; pc[c] names what it does   *)
(* next.  One action is one access to what clients share: the bootstrap    *)
(* under mu, the cache under activeCacheMu, or one HTTP request.  What a   *)
(* client does with a reply before its next shared access is part of the   *)
(* action that received it.  The upstream service is external.             *)
(***************************************************************************)
EXTENDS Naturals, FiniteSets

CONSTANTS
    Clients,    \* goroutines that call EnsureActive
    Nobody,     \* the leader of no bootstrap
    Models,     \* canonical model names
    NoModel,    \* the model of no session, and an empty cache entry
    Serves,     \* Serves[m]: models the upstream may serve when asked for m
    MaxPolls,   \* Manager.MaxPolls; 0 polls without limit (NewManager)
    MaxCalls,   \* bound: calls of EnsureActive per client
    MaxFaults   \* bound: cancellations, errors, refusals, sessions changed
                \* by other devices, over the whole behaviour

ASSUME SessionAssumption ==
    /\ Nobody \notin Clients
    /\ NoModel \notin Models
    /\ Serves \in [Models -> SUBSET Models]
    /\ MaxPolls \in Nat /\ MaxCalls \in Nat /\ MaxFaults \in Nat

VARIABLES
    pc,         \* what each client does next
    want,       \* the model of each client's latest call
    out,        \* the latest reply or the result of each client's call
    on,         \* the leader whose bootstrap call a client waits for
    cancelled,  \* the clients whose context is done
    polls,      \* polls each client has made in pollUntilActive
    bootstrap,  \* the leader of Manager.bootstrap, Nobody when nil
    cache,      \* activeCache: the model of the unexpired entry of each key
    upstream,   \* the token's session at the upstream
    calls,      \* calls each client has made (bounds the model)
    faults,     \* faults still to come (bounds the model)
    seen        \* history: models ever asked for or held by the upstream

clientVars == <<pc, want, out, on, cancelled, polls, calls>>
vars == <<clientVars, bootstrap, cache, upstream, faults, seen>>

----------------------------------------------------------------------------
(* Replies, which are also what the calls return.                          *)

NoSession(st) == [st |-> st, model |-> NoModel]
Gone     == NoSession("gone")       \* none, ended, superseded
Live     == [st : {"queued", "active"}, model : Models]
Sessions == Live \cup {Gone}
Refused  == NoSession("refused")    \* disabled, banned, model_locked, ...
Failed   == NoSession("fail")       \* any other error
CtxDone  == NoSession("ctx")        \* context cancelled, or a timeout
Retry    == NoSession("retry")      \* errRetryBootstrap
TooMany  == NoSession("tired")      \* MaxPolls reached
Nothing  == NoSession("nothing")    \* no call has returned yet
Errors   == {Refused, Failed, CtxDone}
Results  == Sessions \cup Errors \cup {Retry, TooMany, Nothing}

\* Where a client is between startBootstrap and finishBootstrap.
Leading == {"recheck", "lend", "start", "lpoll", "lpend", "finish"}
Steps == Leading \cup
    {"idle", "get", "look", "end", "join", "wait", "poll", "pend", "store"}

\* Mutant: the two names are compared in different spellings.
MatchesNone(r, m) == r.model = m /\ FALSE

\* sessionMatchesModel, for an active session.
Matches(r, m) == r.model = m

\* A request may be answered, or meet a fault while some are left; one made
\* under a context that is done fails at once.
MayFault == faults > 0

Charge(fault) == faults' = IF fault THEN faults - 1 ELSE faults

----------------------------------------------------------------------------
Init ==
    /\ pc = [c \in Clients |-> "idle"]
    /\ want = [c \in Clients |-> NoModel]
    /\ out = [c \in Clients |-> Nothing]
    /\ on = [c \in Clients |-> Nobody]
    /\ cancelled = {}
    /\ polls = [c \in Clients |-> 0]
    /\ bootstrap = Nobody
    /\ cache = [m \in Models |-> NoModel]
    /\ upstream \in Sessions
    /\ calls = [c \in Clients |-> 0]
    /\ faults = MaxFaults
    /\ seen = {upstream.model} \ {NoModel}

Goto(c, step) == pc' = [pc EXCEPT ![c] = step]
Got(c, r) == out' = [out EXCEPT ![c] = r]

\* What EnsureActive does with what resolveSession returned.
AfterReturn(r) ==
    CASE r.st = "retry"  -> "get"
      [] r.st = "active" -> "store"
      [] OTHER           -> "idle"

----------------------------------------------------------------------------
(* EnsureActive                                                            *)

\* The fast path under activeCacheMu, then Store.Load, which may fail.
Begin(c, m) ==
    /\ pc[c] = "idle"
    /\ calls[c] < MaxCalls
    /\ calls' = [calls EXCEPT ![c] = @ + 1]
    /\ want' = [want EXCEPT ![c] = m]
    /\ seen' = seen \cup {m}
    /\ cancelled' = cancelled \ {c}
    /\ polls' = [polls EXCEPT ![c] = 0]
    /\ \/ /\ cache[m] = m
          /\ Got(c, [st |-> "active", model |-> m])
          /\ UNCHANGED <<pc, faults>>
       \/ /\ cache[m] # m
          /\ Goto(c, "get")
          /\ Got(c, Nothing)
          /\ UNCHANGED faults
       \/ /\ cache[m] # m
          /\ MayFault
          /\ Charge(TRUE)
          /\ Got(c, Failed)
          /\ UNCHANGED pc
    /\ UNCHANGED <<on, bootstrap, cache, upstream>>

\* A GetSession request and its reply r.
GetReply(c, r) ==
    \/ /\ c \in cancelled
       /\ r = CtxDone
       /\ UNCHANGED faults
    \/ /\ c \notin cancelled
       /\ \/ r = upstream /\ UNCHANGED faults
          \/ r \in Errors /\ MayFault /\ Charge(TRUE)

\* resolveSession, up to the next shared access.
Resolved(c, r) ==
    CASE r.st = "active" -> IF Matches(r, want[c]) THEN "store" ELSE "end"
      [] r.st = "queued" -> "look"
      [] r.st = "gone"   -> "join"
      [] OTHER           -> "idle"

GetSession(c) ==
    /\ pc[c] = "get"
    /\ \E r \in Sessions \cup Errors :
          /\ GetReply(c, r)
          /\ Got(c, r)
          /\ Goto(c, Resolved(c, r))
    /\ UNCHANGED <<want, on, cancelled, polls, bootstrap, cache, upstream,
                   calls, seen>>

\* lookupBootstrap of a queued session: wait for the bootstrap or poll.
Look(c) ==
    /\ pc[c] = "look"
    /\ IF bootstrap = Nobody
       THEN Goto(c, "poll") /\ UNCHANGED on
       ELSE Goto(c, "wait") /\ on' = [on EXCEPT ![c] = bootstrap]
    /\ polls' = [polls EXCEPT ![c] = 0]
    /\ UNCHANGED <<want, out, cancelled, bootstrap, cache, upstream, calls,
                   faults, seen>>

\* An EndSession request: it may fail after the upstream has ended it.
EndReply(c, r) ==
    \/ /\ c \in cancelled
       /\ r = CtxDone
       /\ UNCHANGED <<faults, upstream>>
    \/ /\ c \notin cancelled
       /\ \/ r = Gone /\ upstream' = Gone /\ UNCHANGED faults
          \/ /\ r \in {Failed, CtxDone}
             /\ MayFault
             /\ Charge(TRUE)
             /\ upstream' \in {upstream, Gone}

\* restartSessionForModel, then startBootstrap.
EndMismatched(c) ==
    /\ pc[c] = "end"
    /\ \E r \in {Gone, Failed, CtxDone} :
          /\ EndReply(c, r)
          /\ Got(c, r)
          /\ Goto(c, IF r = Gone THEN "join" ELSE "idle")
    /\ UNCHANGED <<want, on, cancelled, polls, bootstrap, cache, calls, seen>>

\* The result of a finished call, cached per model and returned.
Store(c) ==
    /\ pc[c] = "store"
    /\ cache' = [cache EXCEPT ![want[c]] = out[c].model]
    /\ Goto(c, "idle")
    /\ UNCHANGED <<want, out, on, cancelled, polls, bootstrap, upstream,
                   calls, faults, seen>>

----------------------------------------------------------------------------
(* The bootstrap call                                                      *)

\* Mutant: startBootstrap does not look for a bootstrap in flight.
JoinUnguarded(c) ==
    /\ pc[c] = "join"
    /\ bootstrap' = c
    /\ Goto(c, "recheck")
    /\ UNCHANGED <<want, out, on, cancelled, polls, cache, upstream, calls,
                   faults, seen>>

\* startBootstrap: become the leader, or wait for the one there is.
Join(c) ==
    /\ pc[c] = "join"
    /\ IF bootstrap = Nobody
       THEN /\ bootstrap' = c
            /\ Goto(c, "recheck")
            /\ UNCHANGED on
       ELSE /\ on' = [on EXCEPT ![c] = bootstrap]
            /\ Goto(c, "wait")
            /\ UNCHANGED bootstrap
    /\ UNCHANGED <<want, out, cancelled, polls, cache, upstream, calls,
                   faults, seen>>

\* Mutant: an early return that skips finishBootstrap.
RecheckedLeaks(c, r) ==
    CASE r.st = "active" -> IF Matches(r, want[c]) THEN "finish" ELSE "lend"
      [] r.st = "queued" -> "lpoll"
      [] r.st = "gone"   -> "start"
      [] OTHER           -> "idle"

\* Mutant: the leader starts a session although one is in the queue.
RecheckedBlind(c, r) ==
    CASE r.st = "active" -> IF Matches(r, want[c]) THEN "finish" ELSE "lend"
      [] r.st \in {"queued", "gone"} -> "start"
      [] OTHER           -> "finish"

\* What the leader does after its second look at the session.
Rechecked(c, r) ==
    CASE r.st = "active" -> IF Matches(r, want[c]) THEN "finish" ELSE "lend"
      [] r.st = "queued" -> "lpoll"
      [] r.st = "gone"   -> "start"
      [] OTHER           -> "finish"

Recheck(c) ==
    /\ pc[c] = "recheck"
    /\ \E r \in Sessions \cup Errors :
          /\ GetReply(c, r)
          /\ Got(c, r)
          /\ Goto(c, Rechecked(c, r))
    /\ polls' = [polls EXCEPT ![c] = 0]
    /\ UNCHANGED <<want, on, cancelled, bootstrap, cache, upstream, calls,
                   seen>>

LeaderEnd(c) ==
    /\ pc[c] = "lend"
    /\ \E r \in {Gone, Failed, CtxDone} :
          /\ EndReply(c, r)
          /\ Got(c, r)
          /\ Goto(c, IF r = Gone THEN "start" ELSE "finish")
    /\ UNCHANGED <<want, on, cancelled, polls, bootstrap, cache, calls, seen>>

\* A StartSession request: the upstream opens a session, queued or active,
\* or refuses; the reply may be lost after the session was opened.
StartReply(c, r, u) ==
    \/ /\ c \in cancelled
       /\ r = CtxDone /\ u = upstream
       /\ UNCHANGED faults
    \/ /\ c \notin cancelled
       /\ \/ /\ u \in Live /\ u.model \in Serves[want[c]]
             /\ r = u
             /\ UNCHANGED faults
          \/ /\ r = Refused /\ u = upstream
             /\ MayFault /\ Charge(TRUE)
          \/ /\ r \in {Failed, CtxDone}
             /\ \/ u = upstream
                \/ u \in Live /\ u.model \in Serves[want[c]]
             /\ MayFault /\ Charge(TRUE)

StartSession(c) ==
    /\ pc[c] = "start"
    /\ \E r \in Live \cup Errors, u \in Sessions :
          /\ StartReply(c, r, u)
          /\ upstream' = u
          /\ seen' = seen \cup ({u.model} \ {NoModel})
          /\ Got(c, r)
          /\ Goto(c, IF r.st = "queued" THEN "lpoll" ELSE "finish")
    /\ polls' = [polls EXCEPT ![c] = 0]
    /\ UNCHANGED <<want, on, cancelled, bootstrap, cache, calls>>

\* Mutant: waiters take the leader's session whatever its model.
DeliverAny(c, l) == IF out[l].st = "ctx" THEN Retry ELSE out[l]

\* What a call that waited for leader l gets from it (waitForBootstrap).
Deliver(c, l) ==
    LET r == out[l]
        mismatched == want[l] # want[c] /\ ~Matches(r, want[c])
    IN  IF r.st = "ctx" \/ (r.st = "active" /\ mismatched) THEN Retry ELSE r

\* Mutant: call.done is never closed.
WaitersForgotten(l) == {c \in Clients : pc[c] = "wait" /\ on[c] = Nobody}

WaitersOf(l) == {c \in Clients : pc[c] = "wait" /\ on[c] = l}

\* finishBootstrap, deferred: the bootstrap is cleared, call.done closed and
\* every waiter of the call let go with its result.
Finish(l) ==
    /\ pc[l] = "finish"
    /\ bootstrap' = IF bootstrap = l THEN Nobody ELSE bootstrap
    /\ out' = [c \in Clients |->
                 IF c \in WaitersOf(l) THEN Deliver(c, l) ELSE out[c]]
    /\ pc' = [c \in Clients |->
                 IF c = l \/ c \in WaitersOf(l)
                 THEN AfterReturn(out'[c]) ELSE pc[c]]
    /\ on' = [c \in Clients |->
                 IF c \in WaitersOf(l) THEN Nobody ELSE on[c]]
    /\ UNCHANGED <<want, cancelled, polls, cache, upstream, calls, faults,
                   seen>>

\* waitForBootstrap sees its own context end first.
StopWaiting(c) ==
    /\ pc[c] = "wait"
    /\ c \in cancelled
    /\ Got(c, CtxDone)
    /\ on' = [on EXCEPT ![c] = Nobody]
    /\ Goto(c, "idle")
    /\ UNCHANGED <<want, cancelled, polls, bootstrap, cache, upstream, calls,
                   faults, seen>>

----------------------------------------------------------------------------
(* pollUntilActive, called by a leader ("lpoll") or outside any bootstrap  *)

\* It returns r: to the bootstrap call, or to EnsureActive.
Settle(c, r) ==
    /\ Got(c, r)
    /\ Goto(c, IF pc[c] \in Leading THEN "finish" ELSE AfterReturn(r))

\* Mutant: one poll too many.
PollsExhaustedLate(c) == MaxPolls > 0 /\ polls[c] > MaxPolls

PollsExhausted(c) == MaxPolls > 0 /\ polls[c] >= MaxPolls

\* The reply to a poll, and what resolvePolledSession makes of it.
PollReply(c, r) ==
    \/ r.st = "queued" /\ Got(c, r) /\ UNCHANGED pc
    \/ r.st = "gone" /\ Settle(c, Failed)
    \/ r \in Errors /\ Settle(c, r)
    \/ r.st = "active" /\ Matches(r, want[c]) /\ Settle(c, r)
    \/ /\ r.st = "active" /\ ~Matches(r, want[c])
       /\ Got(c, r)
       /\ Goto(c, IF pc[c] = "poll" THEN "pend" ELSE "lpend")

\* One round: a context that is done, the limit, or the interval and then
\* one GetSession.
Poll(c) ==
    /\ pc[c] \in {"poll", "lpoll"}
    /\ CASE c \in cancelled ->
              Settle(c, CtxDone) /\ UNCHANGED <<polls, faults>>
         [] c \notin cancelled /\ PollsExhausted(c) ->
              Settle(c, TooMany) /\ UNCHANGED <<polls, faults>>
         [] OTHER ->
              /\ polls' = [polls EXCEPT ![c] =
                              IF MaxPolls > 0 THEN @ + 1 ELSE 0]
              /\ \E r \in Sessions \cup Errors :
                    GetReply(c, r) /\ PollReply(c, r)
    /\ UNCHANGED <<want, on, cancelled, bootstrap, cache, upstream, calls,
                   seen>>

\* The session came up for another model: end it and start over.
PollEnd(c) ==
    /\ pc[c] \in {"pend", "lpend"}
    /\ \E r \in {Gone, Failed, CtxDone} :
          /\ EndReply(c, r)
          /\ Settle(c, IF r = Gone THEN Retry ELSE r)
    /\ UNCHANGED <<want, on, cancelled, polls, bootstrap, cache, calls, seen>>

----------------------------------------------------------------------------
(* The surroundings                                                        *)

\* The request's context is cancelled, or its deadline passes.
Cancel(c) ==
    /\ pc[c] # "idle"
    /\ c \notin cancelled
    /\ MayFault
    /\ Charge(TRUE)
    /\ cancelled' = cancelled \cup {c}
    /\ UNCHANGED <<pc, want, out, on, polls, calls, bootstrap, cache,
                   upstream, seen>>

\* An entry of activeCache passes its 30 seconds.
CacheExpires(m) ==
    /\ cache[m] # NoModel
    /\ cache' = [cache EXCEPT ![m] = NoModel]
    /\ UNCHANGED <<clientVars, bootstrap, upstream, faults, seen>>

\* External: the waiting room lets the session in.
Admit ==
    /\ upstream.st = "queued"
    /\ upstream' = [upstream EXCEPT !.st = "active"]
    /\ UNCHANGED <<clientVars, bootstrap, cache, faults, seen>>

\* External: the session lapses, or another device of the same account
\* takes it over.
Disturb(s) ==
    /\ upstream # s
    /\ MayFault
    /\ Charge(TRUE)
    /\ upstream' = s
    /\ seen' = seen \cup ({s.model} \ {NoModel})
    /\ UNCHANGED <<clientVars, bootstrap, cache>>

ClientStep(c) ==
    \/ GetSession(c) \/ Look(c) \/ EndMismatched(c) \/ Store(c)
    \/ Join(c) \/ Recheck(c) \/ LeaderEnd(c) \/ StartSession(c)
    \/ Finish(c) \/ StopWaiting(c) \/ Poll(c) \/ PollEnd(c)

Next ==
    \/ \E c \in Clients : ClientStep(c) \/ Cancel(c)
    \/ \E c \in Clients, m \in Models : Begin(c, m)
    \/ \E m \in Models : CacheExpires(m)
    \/ \E s \in Sessions : Disturb(s)
    \/ Admit

Spec == Init /\ [][Next]_vars

\* A goroutine that can run does, and the waiting room moves on.  Nothing
\* makes callers call, contexts end, entries expire or others interfere.
FairSpec ==
    /\ Spec
    /\ \A c \in Clients : WF_vars(ClientStep(c))
    /\ WF_vars(Admit)

=============================================================================
