--------------------------- MODULE ChatStreamProps ---------------------------
(***************************************************************************)
(* What a streamed chat answer promises, over ChatStream.                  *)
(***************************************************************************)
EXTENDS ChatStream

Producers == {"none", "dial", "read", "send", "fail", "close", "ended"}
Forwarders == {"none", "loop", "delta", "error", "close", "ended"}
Writers == {"call", "inspect", "first", "loop"} \cup Ends

\* Every variable has its type, and no channel holds more than it can.
TypeOK ==
    /\ <<source, sink>> \in Routes
    /\ producer \in Producers
    /\ made \in 0..MaxDeltas /\ held \in 0..MaxDeltas
    /\ forwarder \in Forwarders
    /\ fwd \in SUBSET Both /\ hears \in SUBSET Both
    /\ writer \in Writers
    /\ chan \in [{"up", "down"} -> Pair]
    /\ Len(chan["down"].deltas) <= Capacity
    /\ wire \in Seq(1..MaxDeltas)
    /\ gone \in BOOLEAN /\ expired \in BOOLEAN /\ failed \in BOOLEAN
    /\ faults \in 0..MaxFaults

\* The client gets the upstream's deltas in order, none twice and none left
\* out, whatever the three goroutines and the closing of channels do.
InOrder == \A i \in 1..Len(wire) : wire[i] = i

\* A stream that ended for its client, with [DONE] or with an error, brought
\* it every delta read from the upstream.  An error of the backend's
\* producer is excepted (it may overtake what is still in the buffer), and
\* so is the end of the request's context.
EndsComplete ==
    (/\ ~expired
     /\ writer = "done" \/ (writer = "error" /\ source = "native"))
        => Len(wire) = made

\* A chat or messages stream is not ended as a success when its upstream
\* failed: the error reaches the client, unless the context ended first.
ChatErrorsAreTold ==
    (sink # "responses" /\ failed /\ ~expired) => writer # "done"

\* The same for every stream.
ErrorsAreTold == (failed /\ ~expired) => writer # "done"

\* Once an upstream has ended, well or badly, so does the answer.
EndsWithUpstream ==
    (producer \in {"fail", "close"} /\ writer # "call") ~> Over

\* A client that leaves a stream frees the handler, the forwarder and the
\* backend's producer, even if the upstream never sends another byte.
LeavingFreesGateway ==
    (gone /\ writer = "loop") ~>
        /\ Over
        /\ forwarder \in {"none", "ended"}
        /\ source = "backend" => producer = "ended"

\* A client that leaves a stream frees every goroutine of it.
LeavingFreesAll ==
    (gone /\ writer = "loop") ~> (Over /\ producer \in {"none", "ended"})
=============================================================================
