------------------------------ MODULE ChatStream ------------------------------
(***************************************************************************)
(* One streamed chat answer on its way through the gateway:                *)
(*                                                                         *)
(*   producer   the goroutine that reads the upstream's SSE body           *)
(*              (freebuff streamFromBody, or BackendChatService.Stream)    *)
(*   forwarder  FreebuffChatService.Stream's goroutine, for the native     *)
(*              producer only                                              *)
(*   writer     the stream writer of the HTTP handler: chat completions,   *)
(*              Anthropic messages or responses                            *)
(*                                                                         *)
(* They are joined by pairs of Go channels, one for deltas and one, of     *)
(* capacity 1, for an error: "up" from the native producer to the          *)
(* forwarder, "down" to the writer.  One action is one choice of a select, *)
(* or one step of a goroutine between two of them.  A send on an           *)
(* unbuffered channel is a sender that waits and a receiver that takes.    *)
(*                                                                         *)
(* Deltas are numbered in the order the upstream sent them.  How Stream    *)
(* obtains a response (session, credential, agent run, retries, recovery)  *)
(* is left out: it yields a body or an error.                              *)
(***************************************************************************)
EXTENDS Naturals, Sequences

CONSTANTS
    Routes,     \* the <<producer, writer>> pairs a stream may take
    Capacity,   \* of BackendChatService's channel of deltas (16)
    MaxDeltas,  \* bound: deltas the upstream sends
    MaxFaults   \* bound: failures of the upstream

ASSUME ChatAssumption ==
    /\ Routes \subseteq {"native", "backend"} \X
                        {"chat", "messages", "responses"}
    /\ Capacity \in Nat \ {0} /\ MaxDeltas \in Nat /\ MaxFaults \in Nat

VARIABLES
    source,     \* the producer: "native" or "backend"
    sink,       \* the writer: "chat", "messages" or "responses"
    producer,   \* what the producer does next
    made,       \* deltas it has read; the last is the one it sends
    forwarder,  \* what the forwarder does next
    held,       \* the delta it sends
    fwd,        \* its channels that are not nil yet
    writer,     \* what the handler does next, or how the answer ended
    hears,      \* its channels that are not nil yet
    chan,       \* the pairs of channels
    wire,       \* the deltas the client was sent
    gone,       \* the client has disconnected
    expired,    \* the request's context ended by itself
    failed,     \* history: the upstream failed
    faults      \* failures still to come (bounds the model)

route == <<source, sink>>
vars == <<route, producer, made, forwarder, held, fwd, writer, hears, chan,
          wire, gone, expired, failed, faults>>

----------------------------------------------------------------------------
Both == {"deltas", "errs"}
Pair == [deltas : Seq(1..MaxDeltas), err : BOOLEAN, open : SUBSET Both]
NewPair == [deltas |-> <<>>, err |-> FALSE, open |-> Both]
FailedPair == [deltas |-> <<>>, err |-> TRUE, open |-> {}]  \* failedStream

Ends == {"done", "error", "cut"}
Over == writer \in Ends

\* The producer's own channels.
Out == IF source = "native" THEN "up" ELSE "down"

\* The handler's streamCtx, which it cancels when it returns.
StreamCtxOver == expired \/ Over

\* The context of the upstream request: FreebuffChatService cancels its own
\* when the forwarder returns, or when none was needed.
UpstreamCtxOver ==
    \/ StreamCtxOver
    \/ /\ source = "native"
       /\ \/ forwarder = "ended"
          \/ forwarder = "none" /\ writer \notin {"call", "inspect"}

MayFail == faults > 0 /\ faults' = faults - 1 /\ failed' = TRUE
NoFault == UNCHANGED <<faults, failed>>

----------------------------------------------------------------------------
Init ==
    /\ \E r \in Routes : source = r[1] /\ sink = r[2]
    /\ producer = "none" /\ made = 0
    /\ forwarder = "none" /\ held = 0 /\ fwd = Both
    /\ writer = "call" /\ hears = Both
    /\ chan = [p \in {"up", "down"} |-> NewPair]
    /\ wire = <<>>
    /\ gone = FALSE /\ expired = FALSE /\ failed = FALSE
    /\ faults = MaxFaults

----------------------------------------------------------------------------
(* The handler's call of Stream                                            *)

\* The handler has its channels.
Returned == IF sink = "responses" THEN "loop" ELSE "first"

\* No response to read from: failedStream.
CallFails ==
    /\ writer = "call" /\ source = "native"
    /\ (expired /\ NoFault) \/ MayFail
    /\ chan' = [chan EXCEPT !["down"] = FailedPair]
    /\ writer' = Returned
    /\ UNCHANGED <<route, producer, made, forwarder, held, fwd, hears, wire,
                   gone, expired>>

\* The producer is started; the backend's makes its request by itself.
CallStarts ==
    /\ writer = "call"
    /\ IF source = "native"
       THEN writer' = "inspect" /\ producer' = "read"
       ELSE writer' = Returned /\ producer' = "dial"
    /\ UNCHANGED <<route, made, forwarder, held, fwd, hears, chan, wire, gone,
                   expired>>
    /\ NoFault

\* Mutant: a delta that is ready is taken and dropped.
InspectDrops ==
    /\ writer = "inspect"
    /\ forwarder' = "loop"
    /\ writer' = Returned
    /\ producer' = IF producer = "send" THEN "read" ELSE producer
    /\ UNCHANGED <<route, made, held, fwd, hears, chan, wire, gone, expired>>
    /\ NoFault

\* inspectStreamStart.  An error that is ready is the answer; a delta
\* cannot be ready with it, as the producer has ended and buffers none.
Inspect ==
    /\ writer = "inspect"
    /\ IF chan["up"].err
       THEN /\ chan' = [chan EXCEPT !["up"].err = FALSE,
                                    !["down"] = FailedPair]
            /\ UNCHANGED <<forwarder, fwd>>
       ELSE /\ forwarder' = "loop"
            /\ fwd' = IF "errs" \in chan["up"].open THEN Both ELSE {"deltas"}
            /\ UNCHANGED chan
    /\ writer' = Returned
    /\ UNCHANGED <<route, producer, made, held, hears, wire, gone, expired>>
    /\ NoFault

----------------------------------------------------------------------------
(* The producer                                                            *)

Producing(step) == producer = step /\ UNCHANGED
    <<route, forwarder, held, fwd, writer, hears, wire, gone, expired>>

\* External: the backend answers, with a body or badly.
Dial ==
    /\ Producing("dial")
    /\ ~UpstreamCtxOver
    /\ \/ producer' = "read" /\ NoFault
       \/ producer' = "fail" /\ MayFail
    /\ UNCHANGED <<made, chan>>

\* External: the body holds another delta, ends, or fails.
Upstream ==
    /\ Producing("read")
    /\ ~UpstreamCtxOver
    /\ \/ /\ made < MaxDeltas
          /\ made' = made + 1 /\ producer' = "send" /\ NoFault
       \/ producer' = "close" /\ UNCHANGED made /\ NoFault
       \/ producer' = "fail" /\ UNCHANGED made /\ MayFail
    /\ UNCHANGED chan

\* A request that is cancelled fails, and so does reading its body, which
\* the backend's producer does not report.
Cancelled ==
    /\ \/ Producing("dial") /\ producer' = "fail"
       \/ Producing("read") /\ source = "native" /\ producer' = "fail"
       \/ Producing("read") /\ source = "backend" /\ producer' = "close"
    /\ UpstreamCtxOver
    /\ UNCHANGED <<made, chan>>
    /\ NoFault

\* Mutant: one delta more than the channel holds.
RoomForMore(p) == Len(chan[p].deltas) <= Capacity

Room(p) == Len(chan[p].deltas) < Capacity

\* Mutant: a delta that finds no room is dropped.
BufferOrDrop ==
    /\ Producing("send") /\ source = "backend"
    /\ chan' = IF Room("down")
               THEN [chan EXCEPT !["down"].deltas = Append(@, made)]
               ELSE chan
    /\ producer' = "read"
    /\ UNCHANGED made
    /\ NoFault

\* The backend's producer sends to a buffer, or gives up.
Buffer ==
    /\ Producing("send") /\ source = "backend"
    /\ \/ /\ Room("down")
          /\ chan' = [chan EXCEPT !["down"].deltas = Append(@, made)]
          /\ producer' = "read"
       \/ UpstreamCtxOver /\ producer' = "close" /\ UNCHANGED chan
    /\ UNCHANGED made
    /\ NoFault

\* The error goes to the buffered channel; the backend's may be given up.
Fail ==
    /\ Producing("fail")
    /\ \/ chan' = [chan EXCEPT ![Out].err = TRUE]
       \/ source = "backend" /\ UpstreamCtxOver /\ UNCHANGED chan
    /\ producer' = "close"
    /\ UNCHANGED made
    /\ NoFault

\* Mutant: the channel of errors is left open.
CloseOnlyDeltas(p) ==
    chan' = [chan EXCEPT ![p].open = @ \ {"deltas"}]

\* The deferred calls: close(errs), then close(deltas).
Close(p) ==
    chan' = [chan EXCEPT ![p].open =
                IF "errs" \in @ THEN @ \ {"errs"} ELSE {}]

Closed(p) == chan'[p].open = {}

ProducerCloses ==
    /\ Producing("close")
    /\ Close(Out)
    /\ producer' = IF Closed(Out) THEN "ended" ELSE "close"
    /\ UNCHANGED made
    /\ NoFault

----------------------------------------------------------------------------
(* forwardStream                                                           *)

Forwarding(step) ==
    /\ forwarder = step
    /\ UNCHANGED <<route, made, writer, hears, wire, gone, expired>>
    /\ NoFault

FwdTakes ==
    /\ Forwarding("loop") /\ "deltas" \in fwd
    /\ producer = "send"
    /\ producer' = "read"
    /\ held' = made
    /\ forwarder' = "delta"
    /\ UNCHANGED <<fwd, chan>>

FwdTakesError ==
    /\ Forwarding("loop") /\ "errs" \in fwd
    /\ chan["up"].err
    /\ chan' = [chan EXCEPT !["up"].err = FALSE]
    /\ forwarder' = "error"
    /\ UNCHANGED <<producer, held, fwd>>

\* Nothing more will come over channel k.
Drained(p, k) ==
    /\ k \notin chan[p].open
    /\ IF k = "errs" THEN ~chan[p].err ELSE chan[p].deltas = <<>>

FwdSeesClosed(k) ==
    /\ Forwarding("loop") /\ k \in fwd
    /\ Drained("up", k)
    /\ fwd' = fwd \ {k}
    /\ UNCHANGED <<producer, forwarder, held, chan>>

FwdSendsError ==
    /\ Forwarding("error")
    /\ ~chan["down"].err
    /\ chan' = [chan EXCEPT !["down"].err = TRUE]
    /\ forwarder' = "loop"
    /\ UNCHANGED <<producer, held, fwd>>

\* Mutant: the send of a delta does not look at the context.
FwdMayStopDeaf ==
    \/ forwarder = "loop" /\ fwd = {}
    \/ forwarder \in {"loop", "error"} /\ UpstreamCtxOver

\* The loop is over, or the context is.
FwdMayStop ==
    \/ forwarder = "loop" /\ fwd = {}
    \/ forwarder \in {"loop", "delta", "error"} /\ UpstreamCtxOver

FwdStops ==
    /\ FwdMayStop
    /\ forwarder' = "close"
    /\ UNCHANGED <<route, producer, made, held, fwd, writer, hears, chan,
                   wire, gone, expired>>
    /\ NoFault

FwdCloses ==
    /\ Forwarding("close")
    /\ Close("down")
    /\ forwarder' = IF Closed("down") THEN "ended" ELSE "close"
    /\ UNCHANGED <<producer, held, fwd>>

----------------------------------------------------------------------------
(* The writer                                                              *)

\* receiveImmediateError: an error that is ready becomes a JSON answer.
First ==
    /\ writer = "first"
    /\ IF chan["down"].err
       THEN /\ writer' = "error"
            /\ chan' = [chan EXCEPT !["down"].err = FALSE]
            /\ UNCHANGED hears
       ELSE /\ writer' = "loop"
            /\ hears' = IF "errs" \in chan["down"].open THEN Both
                                                       ELSE {"deltas"}
            /\ UNCHANGED chan
    /\ UNCHANGED <<route, producer, made, forwarder, held, fwd, wire, gone,
                   expired>>
    /\ NoFault

\* Mutant: the loop ends with the deltas, whatever the writer.
LoopsForDeltas == "deltas" \in hears

\* The condition of the writer's loop.
Loops == IF sink = "responses" THEN "deltas" \in hears ELSE hears # {}

Looping == writer = "loop" /\ Loops

\* A write fails once the client is gone, and the handler returns.
Write(delta) ==
    IF gone THEN writer' = "cut" /\ UNCHANGED wire
            ELSE wire' = Append(wire, delta) /\ UNCHANGED writer

\* From the forwarder, which waits to send it, or from the buffer.
TakeDelta ==
    /\ Looping /\ "deltas" \in hears
    /\ \/ /\ forwarder = "delta"
          /\ Write(held)
          /\ forwarder' = "loop"
          /\ UNCHANGED chan
       \/ /\ chan["down"].deltas # <<>>
          /\ Write(Head(chan["down"].deltas))
          /\ chan' = [chan EXCEPT !["down"].deltas = Tail(@)]
          /\ UNCHANGED forwarder
    /\ UNCHANGED <<route, producer, made, held, fwd, hears, gone, expired>>
    /\ NoFault

TakeError ==
    /\ Looping /\ "errs" \in hears
    /\ chan["down"].err
    /\ chan' = [chan EXCEPT !["down"].err = FALSE]
    /\ writer' = IF gone THEN "cut" ELSE "error"
    /\ UNCHANGED <<route, producer, made, forwarder, held, fwd, hears, wire,
                   gone, expired>>
    /\ NoFault

SeesClosed(k) ==
    /\ Looping /\ k \in hears
    /\ Drained("down", k)
    /\ hears' = hears \ {k}
    /\ UNCHANGED <<route, producer, made, forwarder, held, fwd, writer, chan,
                   wire, gone, expired>>
    /\ NoFault

\* streamCtx is done, or a heartbeat cannot be written.
Stop ==
    /\ Looping
    /\ gone \/ (expired /\ sink # "responses")
    /\ writer' = "cut"
    /\ UNCHANGED <<route, producer, made, forwarder, held, fwd, hears, chan,
                   wire, gone, expired>>
    /\ NoFault

\* The loop is over: the last events, [DONE] or message_stop.
Finish ==
    /\ writer = "loop" /\ ~Loops
    /\ writer' = IF gone THEN "cut" ELSE "done"
    /\ UNCHANGED <<route, producer, made, forwarder, held, fwd, hears, chan,
                   wire, gone, expired>>
    /\ NoFault

----------------------------------------------------------------------------
\* External: the client disconnects; the request's context ends (the five
\* minutes of responsesNativeStream, or the server shuts down).
Leave ==
    /\ ~gone /\ ~Over
    /\ gone' = TRUE
    /\ UNCHANGED <<route, producer, made, forwarder, held, fwd, writer, hears,
                   chan, wire, expired>>
    /\ NoFault

Expire ==
    /\ ~expired /\ ~Over
    /\ expired' = TRUE
    /\ UNCHANGED <<route, producer, made, forwarder, held, fwd, writer, hears,
                   chan, wire, gone>>
    /\ NoFault

Produce == Cancelled \/ Buffer \/ Fail \/ ProducerCloses

Forward ==
    \/ FwdTakes \/ FwdTakesError \/ FwdSendsError \/ FwdStops \/ FwdCloses
    \/ \E k \in Both : FwdSeesClosed(k)

Serve ==
    \/ Inspect \/ First \/ TakeDelta \/ TakeError \/ Stop \/ Finish
    \/ \E k \in Both : SeesClosed(k)

Next ==
    \/ Produce \/ Forward \/ Serve
    \/ CallFails \/ CallStarts \/ Dial \/ Upstream
    \/ Leave \/ Expire

Spec == Init /\ [][Next]_vars

\* The gateway's goroutines run when they can, and the heartbeat ticks.  The
\* upstream may stall for ever, so nothing is assumed of it.
FairSpec == Spec /\ WF_vars(Produce) /\ WF_vars(Forward) /\ WF_vars(Serve)

=============================================================================
