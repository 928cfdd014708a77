--------------------------- MODULE UpstreamClient ---------------------------
(***************************************************************************)
(* freebuff.Client.Complete and Stream (internal/freebuff/client.go) over  *)
(* the transport of stealth mode (internal/stealth/hermes_roundtrip.go).   *)
(* A call starts an agent run, posts the chat, and when the upstream says  *)
(* that its session is gone starts another session and calls itself.  The  *)
(* upstream admits one model at a time: the recovery of one call takes the *)
(* session from under another.                                             *)
(***************************************************************************)
EXTENDS Naturals

CONSTANTS Chats,        \* calls
          Streamed,     \* those of Stream: their chat request bypasses the sidecar
          Timed,        \* those whose context has a deadline, or whose client's
                        \* connection has one (310 s, server.go); not /v1/messages
          ChatModels,
          MaxAttempts   \* maxTransportAttempts

ASSUME UpstreamAssumption ==
    /\ Streamed \subseteq Chats /\ Timed \subseteq Chats
    /\ MaxAttempts \in Nat \ {0}

VARIABLES chats,   \* the local state of each call
          slot     \* the model the upstream has a session for, or "none"

upstreamVars == <<chats, slot>>

Unsent == [pc |-> "idle", model |-> "none", run |-> "none", path |-> "none",
           attempt |-> 0, sends |-> 0, over |-> FALSE]

Posting == {"run", "chat"}

UpstreamTyped ==
    /\ \A c \in Chats :
          /\ chats[c].pc \in {"idle", "run", "chat", "start", "get", "poll", "ended"}
          /\ chats[c].model \in ChatModels \union {"none"}
          /\ chats[c].run \in ChatModels \union {"none"}
          /\ chats[c].path \in {"none", "sidecar", "direct", "backoff"}
          /\ chats[c].attempt \in 0..MaxAttempts
          /\ chats[c].sends \in 0..2 * MaxAttempts
          /\ chats[c].over \in BOOLEAN
    /\ slot \in ChatModels \union {"none"}

UpstreamInit == chats = [c \in Chats |-> Unsent] /\ slot = "none"

\* Mutant: the calls below are made with a background context.
ContextNeverOver(c) == FALSE

ContextOver(c) == chats[c].over

Set(c, r) == chats' = [chats EXCEPT ![c] = r]
Ended(c) == [Unsent EXCEPT !.pc = "ended", !.over = chats[c].over]

\* doJSONRequest with its first attempt; a request that accepts an event stream
\* goes past the sidecar.
FirstPath(c, pc) == IF c \in Streamed /\ pc = "chat" THEN "direct" ELSE "sidecar"
Post(c, pc, m, run) ==
    [chats[c] EXCEPT !.pc = pc, !.model = m, !.run = run,
                     !.path = FirstPath(c, pc), !.attempt = 1, !.sends = 0]

\* A call of Complete or Stream, the recursive one too: the session names the model
\* (modelForActiveSession).
Round(c, m) == Post(c, "run", m, "none")

\* EnsureActive has returned a session for m, perhaps an outdated one.
BeginChat(c, m) ==
    /\ chats[c].pc = "idle"
    /\ Set(c, Round(c, m))
    /\ slot' \in {slot, m}

Sending(c) == chats[c].pc \in Posting /\ chats[c].path \in {"sidecar", "direct"} /\ ~ContextOver(c)
\* Mutant: one attempt more.
MayRetryOnceMore(c) == chats[c].attempt <= MaxAttempts

MayRetry(c) == chats[c].attempt < MaxAttempts

\* The sidecar's failure hands the request, whose body may be gone by then, to the
\* fallback.
FailedOpen(c, seen) == [chats[c] EXCEPT !.sends = @ + seen, !.path = "direct"]

\* An attempt without an answer, "seen" when the upstream had got the request.  Of the
\* direct path's failures a timeout is not tried again.
AttemptFails(c) ==
    /\ Sending(c)
    /\ \E seen \in {0, 1}, timeout \in BOOLEAN :
          Set(c, IF chats[c].path = "sidecar"
                   THEN FailedOpen(c, seen)
                 ELSE IF MayRetry(c) /\ ~timeout
                   THEN [chats[c] EXCEPT !.sends = @ + seen, !.path = "backoff"]
                 ELSE Ended(c))
    /\ UNCHANGED slot

Resend(c) ==
    /\ chats[c].path = "backoff" /\ ~ContextOver(c)
    /\ Set(c, [chats[c] EXCEPT !.path = FirstPath(c, chats[c].pc), !.attempt = @ + 1])
    /\ UNCHANGED slot

\* startAgentRun: an id, or an error.
RunAnswered(c) ==
    /\ chats[c].pc = "run" /\ Sending(c)
    /\ \/ Set(c, Post(c, "chat", chats[c].model, chats[c].model))
       \/ Set(c, Ended(c))
    /\ UNCHANGED slot

\* shouldRecoverSessionFromResponse: the answer says that the session is gone.
SessionRefused(c) == [chats[c] EXCEPT !.pc = "start", !.path = "none"]

\* The chat is refused for want of a session when another model has it, and may be
\* at any other time; else it is answered, or fails for good.
ChatAnswered(c) ==
    /\ chats[c].pc = "chat" /\ Sending(c)
    /\ \/ Set(c, SessionRefused(c))
       \/ slot = chats[c].model /\ Set(c, Ended(c))
    /\ UNCHANGED slot

\* retryWithFreshSession goes on with an active session only, of the model the
\* upstream gave it.
Recovered(c) ==
    \E m \in ChatModels : Set(c, Round(c, m)) /\ slot' = m

NotRecovered(c) == Set(c, Ended(c)) /\ UNCHANGED slot

StartRecovery(c) ==
    /\ chats[c].pc = "start" /\ ~ContextOver(c)
    /\ \/ Recovered(c)
       \/ \E next \in {"get", "poll"} : Set(c, [chats[c] EXCEPT !.pc = next]) /\ UNCHANGED slot
       \/ NotRecovered(c)

\* StartSession failed: whatever session there is.
GetExisting(c) ==
    /\ chats[c].pc = "get" /\ ~ContextOver(c)
    /\ \/ slot # "none" /\ Set(c, Round(c, slot)) /\ UNCHANGED slot
       \/ NotRecovered(c)

\* pollSessionUntilActive, which gives up after two minutes.
PollRecovery(c) ==
    /\ chats[c].pc = "poll" /\ ~ContextOver(c)
    /\ Recovered(c) \/ NotRecovered(c)

\* With the context over, sends, pauses and polls return.
GiveUp(c) ==
    /\ chats[c].pc \notin {"idle", "ended"} /\ ContextOver(c)
    /\ NotRecovered(c)

Deadline(c) ==
    /\ c \in Timed /\ chats[c].pc \notin {"idle", "ended"} /\ ~chats[c].over
    /\ Set(c, [chats[c] EXCEPT !.over = TRUE])
    /\ UNCHANGED slot

CallStep(c) ==
    \/ AttemptFails(c) \/ Resend(c) \/ RunAnswered(c) \/ ChatAnswered(c)
    \/ StartRecovery(c) \/ GetExisting(c) \/ PollRecovery(c) \/ GiveUp(c)

UpstreamNext ==
    \E c \in Chats : CallStep(c) \/ Deadline(c) \/ \E m \in ChatModels : BeginChat(c, m)

UpstreamFair == \A c \in Chats : WF_upstreamVars(CallStep(c)) /\ WF_upstreamVars(Deadline(c))

UpstreamSpec == UpstreamInit /\ [][UpstreamNext]_upstreamVars /\ UpstreamFair

\* However connections break on the two paths, the upstream gets a request at most once
\* per attempt and path; what is posted as a chat carries a run that was started in the
\* same round for the same model, also after recoveries (client.go:256-288, 500-551,
\* hermes_roundtrip.go:50-86).
BoundedResends ==
    \A c \in Chats :
        /\ chats[c].sends <= (IF FirstPath(c, chats[c].pc) = "sidecar" THEN 2 ELSE 1) * chats[c].attempt
        /\ chats[c].attempt <= MaxAttempts
        /\ chats[c].pc = "chat" => chats[c].run = chats[c].model

\* Two calls of different models can take the session from each other for ever, and an
\* upstream can refuse every fresh session: only the deadline ends a call, and it does
\* whatever the call is doing (client.go:256-288, 880-946).
CallsEnd == \A c \in Timed : chats[c].pc # "idle" ~> chats[c].pc = "ended"
=============================================================================
