------------------------------- MODULE Relay -------------------------------
(***************************************************************************)
(* The answers that take minutes (internal/httpapi/research.go, and the    *)
(* non-streamed completion of handlers.go): a goroutine produces frames    *)
(* into a channel, the writer of the response takes them out and in        *)
(* between keeps the connection alive.  Five of them:                      *)
(*   events      relayTaskEvents: a task run's events, then its result     *)
(*   stream      streamResearch: progress of the harness, then its report  *)
(*   responses   relayResponses: an upstream body, verbatim                *)
(*   report      bufferedResearch: one result                              *)
(*   completion  ChatCompletions: one result                               *)
(* All but responses end with a verdict, a frame "done" or "error".  The   *)
(* server gives a response one deadline for all its writes (server.go:86), *)
(* and beyond it they fail although the client is there.                   *)
(***************************************************************************)
EXTENDS Naturals, Sequences

CONSTANTS Room,       \* capacity of frames: 64, or 16
          MaxFrames   \* bound: frames before the verdict

ASSUME RelayAssumption == Room \in Nat \ {0} /\ MaxFrames \in Nat

VARIABLES relayed,    \* which of the five, "none" before the request
          pump,       \* the goroutine
          frames,     \* the channel
          produced,   \* frames so far
          writer,     \* the function given to SendStreamWriter
          relayCtx,   \* "live", "timeout" or "cancelled"
          present,    \* the client reads on
          overdue,    \* the response's WriteTimeout of 310 s has passed
          written     \* frames the client has got

relayVars == <<relayed, pump, frames, produced, writer, relayCtx, present, overdue, written>>

Buffered == {"report", "completion"}
Kinds == {"events", "stream", "responses"} \union Buffered
Frames == {"data", "done", "error"}
Verdicts == {"done", "error"}

RelayTyped ==
    /\ relayed \in Kinds \union {"none"}
    /\ pump \in {"none", "working", "verdict", "ended"}
    /\ frames \in Seq(Frames) /\ Len(frames) <= Room
    /\ produced \in 0..MaxFrames
    /\ writer \in {"none", "opening", "writing", "returned"}
    /\ relayCtx \in {"live", "timeout", "cancelled"}
    /\ present \in BOOLEAN /\ overdue \in BOOLEAN
    /\ written \in Seq(Frames)

RelayInit ==
    /\ relayed = "none" /\ pump = "none" /\ writer = "none"
    /\ frames = << >> /\ produced = 0
    /\ relayCtx = "live" /\ present = TRUE /\ overdue = FALSE
    /\ written = << >>

BeginRelay ==
    /\ relayed = "none"
    /\ relayed' \in Kinds
    /\ IF relayed' = "events" THEN writer' = "opening" /\ UNCHANGED pump
       ELSE writer' = "writing" /\ pump' = "working"
    /\ UNCHANGED <<frames, produced, relayCtx, present, overdue, written>>

\* What a cancel function does to the context.
Cancelled(ctx) == IF ctx = "live" THEN "cancelled" ELSE ctx

\* The writers' deferred cancel; bufferedResearch leaves it to its goroutine.
Return ==
    /\ writer' = "returned"
    /\ relayCtx' = IF relayed = "report" THEN relayCtx ELSE Cancelled(relayCtx)

\* A write succeeds.
Reaches == present /\ ~overdue

Write(f) == written' = IF Reaches THEN Append(written, f) ELSE written

\* TaskEvents: an answer, or an error that is told at once.
OpenEvents ==
    /\ writer = "opening"
    /\ \/ writer' = "writing" /\ pump' = "working" /\ UNCHANGED <<relayCtx, written>>
       \/ Return /\ Write("error") /\ UNCHANGED pump
    /\ UNCHANGED <<relayed, frames, produced, present, overdue>>

Emit(f) == Len(frames) < Room /\ frames' = Append(frames, f)

\* Mutant: a plain send on the channel.
NeverAbandons == FALSE

\* The other arm of emit's select.
MayAbandon == relayCtx # "live"

Progress ==
    /\ pump = "working" /\ relayed \notin Buffered /\ produced < MaxFrames
    /\ Emit("data")
    /\ produced' = produced + 1
    /\ UNCHANGED <<relayed, pump, writer, relayCtx, present, overdue, written>>

\* runResearch goes on without the frame, and fails in the end; the others return.
ProgressAbandoned ==
    /\ pump = "working" /\ relayed \notin Buffered /\ MayAbandon
    /\ pump' = IF relayed = "stream" THEN "verdict" ELSE "ended"
    /\ UNCHANGED <<relayed, frames, produced, writer, relayCtx, present, overdue, written>>

\* The upstream's body ends, breaks or times out, or runResearch returns, unless a
\* frame is still to be sent.
WorkEnds ==
    /\ pump = "working" /\ Len(frames) < Room
    /\ pump' = IF relayed = "responses" THEN "ended" ELSE "verdict"
    /\ UNCHANGED <<relayed, frames, produced, writer, relayCtx, present, overdue, written>>

\* A result, or an error; then the channel is closed, or never used again.
TellVerdict ==
    /\ pump = "verdict"
    /\ \E v \in Verdicts : Emit(v)
    /\ pump' = "ended"
    /\ relayCtx' = IF relayed = "report" THEN Cancelled(relayCtx) ELSE relayCtx
    /\ UNCHANGED <<relayed, produced, writer, present, overdue, written>>

VerdictAbandoned ==
    /\ pump = "verdict" /\ relayed \notin Buffered /\ MayAbandon
    /\ pump' = "ended"
    /\ UNCHANGED <<relayed, frames, produced, writer, relayCtx, present, overdue, written>>

\* A write that fails ends the writer, and so does the one result of a buffered answer.
TakeFrame ==
    /\ writer = "writing" /\ frames # << >>
    /\ frames' = Tail(frames)
    /\ Write(Head(frames))
    /\ IF Reaches /\ relayed \notin Buffered THEN UNCHANGED <<writer, relayCtx>> ELSE Return
    /\ UNCHANGED <<relayed, pump, produced, present, overdue>>

\* Mutant: the end of the goroutine is watched apart from its frames.
FramesDoneEarly == pump = "ended"

\* A receive from a closed channel fails only when it is empty.
FramesDone == pump = "ended" /\ frames = << >>

SeesEnd ==
    /\ writer = "writing" /\ FramesDone
    /\ Return
    /\ UNCHANGED <<relayed, pump, frames, produced, present, overdue, written>>

SeesContext ==
    /\ writer = "writing" /\ relayed \notin Buffered /\ relayCtx # "live"
    /\ Return
    /\ UNCHANGED <<relayed, pump, frames, produced, present, overdue, written>>

\* A keep-alive that cannot be written.
HeartbeatFails ==
    /\ writer = "writing" /\ ~Reaches
    /\ Return
    /\ UNCHANGED <<relayed, pump, frames, produced, present, overdue, written>>

ClientGoes ==
    /\ relayed # "none" /\ present
    /\ present' = FALSE
    /\ UNCHANGED <<relayed, pump, frames, produced, writer, relayCtx, overdue, written>>

\* The timeout of a research.
RelayTimesOut ==
    /\ relayed \in {"stream", "report"} /\ relayCtx = "live"
    /\ relayCtx' = "timeout"
    /\ UNCHANGED <<relayed, pump, frames, produced, writer, present, overdue, written>>

WriteDeadlinePasses ==
    /\ relayed # "none" /\ ~overdue
    /\ overdue' = TRUE
    /\ UNCHANGED <<relayed, pump, frames, produced, writer, relayCtx, present, written>>

PumpSteps == Progress \/ ProgressAbandoned \/ WorkEnds \/ TellVerdict \/ VerdictAbandoned
WriterSteps == OpenEvents \/ TakeFrame \/ SeesEnd \/ SeesContext \/ HeartbeatFails

RelayNext ==
    \/ BeginRelay \/ PumpSteps \/ WriterSteps
    \/ ClientGoes \/ RelayTimesOut \/ WriteDeadlinePasses

\* Goroutines run; an upstream's body and runResearch end by their own timeouts.
RelayFair ==
    WF_relayVars(PumpSteps) /\ WF_relayVars(WriterSteps)

RelaySpec == RelayInit /\ [][RelayNext]_relayVars /\ RelayFair

EndsTold(s) == s # << >> /\ s[Len(s)] \in Verdicts

\* streamResearch's writer leaves with its context, and the verdict may be lost.
RunExpired == relayed = "stream" /\ relayCtx = "timeout"

\* A client that stays gets the verdict, as its last frame and once, if the writer
\* returned within the response's write deadline and, in streamResearch, the run's
\* time; in whatever order the select of the writer takes frames and the end of the
\* goroutine (research.go:365-476, 735-870, handlers.go:424-507).
VerdictIsTold ==
    /\ \A i \in DOMAIN written : written[i] \in Verdicts => i = Len(written)
    /\ writer = "returned" /\ present /\ ~overdue /\ relayed # "responses" /\ ~RunExpired =>
          EndsTold(written)

\* No goroutine outlives its response: the pump ends, also when the writer has left it
\* with a full channel (research.go:393-446, 520-538, 809-845).
PumpsEnd == relayed # "none" ~> writer = "returned" /\ pump \in {"ended", "none"}
=============================================================================
