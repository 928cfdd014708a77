----------------------------- MODULE Dashboard -----------------------------
(***************************************************************************)
(* dashboard.ProbeEngine (internal/dashboard/dashboard.go): one goroutine  *)
(* probes all targets, stores the result, and offers it to the channel of  *)
(* every subscriber without waiting.  handleSSE subscribes first and then  *)
(* sends the last result, before what its channel holds, which may be      *)
(* older or the same.  A result is the number of its probe.                *)
(***************************************************************************)
EXTENDS Naturals, Sequences

CONSTANTS Viewers, SubBuffer,   \* clients of handleSSE; room in a channel (4)
          MaxHistory,           \* 60
          MaxProbes             \* bound: probes

ASSUME DashboardAssumption ==
    SubBuffer \in Nat \ {0} /\ MaxHistory \in Nat \ {0} /\ MaxProbes \in Nat

VARIABLES probes,      \* probes started
          inFlight,    \* probes under way: "probing", then "stored"
          lastResult, history,
          viewer       \* handleSSE of each client, and what it has written

dashVars == <<probes, inFlight, lastResult, history, viewer>>

Away == [pc |-> "away"]

DashTyped ==
    /\ probes \in 0..MaxProbes /\ lastResult \in 0..probes
    /\ Len(history) <= MaxHistory
    /\ \A v \in Viewers : viewer[v] = Away \/
          (viewer[v].pc \in {"subscribed", "loop"} /\ Len(viewer[v].chan) <= SubBuffer)

DashInit ==
    /\ probes = 0 /\ inFlight = {}
    /\ lastResult = 0 /\ history = << >>
    /\ viewer = [v \in Viewers |-> Away]

\* Mutant: every tick starts a goroutine for probeAll.
MayProbeAnyTime == probes < MaxProbes

\* The ticker's goroutine calls probeAll and returns to it when that has ended.
MayProbe == inFlight = {}

ProbeBegins ==
    /\ probes < MaxProbes /\ MayProbe
    /\ probes' = probes + 1
    /\ inFlight' = inFlight \union {[id |-> probes + 1, pc |-> "probing"]}
    /\ UNCHANGED <<lastResult, history, viewer>>

LastOf(s, n) == IF Len(s) > n THEN SubSeq(s, Len(s) - n + 1, Len(s)) ELSE s

\* Every probe of a target ends, by its answers or their timeouts of five seconds.
TargetsProbed(p) == p.pc = "probing"

\* The result is stored under e.mu ...
Store(p) ==
    /\ TargetsProbed(p)
    /\ lastResult' = p.id
    /\ history' = LastOf(Append(history, p.id), MaxHistory)
    /\ inFlight' = (inFlight \ {p}) \union {[p EXCEPT !.pc = "stored"]}
    /\ UNCHANGED <<probes, viewer>>

\* ... and offered to all subscribers under e.subsMu; a full channel misses it.
Offer(q, id) ==
    IF q # Away /\ Len(q.chan) < SubBuffer THEN [q EXCEPT !.chan = Append(@, id)] ELSE q

Broadcast(p) ==
    /\ p.pc = "stored"
    /\ viewer' = [v \in Viewers |-> Offer(viewer[v], p.id)]
    /\ inFlight' = inFlight \ {p}
    /\ UNCHANGED <<probes, lastResult, history>>

NewViewer == [pc |-> "subscribed", chan |-> << >>, caughtUp |-> 0, written |-> << >>]

Subscribe(v) ==
    /\ viewer[v] = Away
    /\ viewer' = [viewer EXCEPT ![v] = NewViewer]
    /\ UNCHANGED <<probes, inFlight, lastResult, history>>

\* The last result, if there is one, is written before the loop.
CatchUp(v) ==
    /\ viewer[v].pc = "subscribed"
    /\ viewer' = [viewer EXCEPT ![v].pc = "loop", ![v].caughtUp = lastResult]
    /\ UNCHANGED <<probes, inFlight, lastResult, history>>

Receive(v) ==
    /\ viewer[v].pc = "loop" /\ viewer[v].chan # << >>
    /\ viewer' = [viewer EXCEPT ![v].written = Append(@, Head(viewer[v].chan)),
                                 ![v].chan = Tail(@)]
    /\ UNCHANGED <<probes, inFlight, lastResult, history>>

Unsubscribe(v) ==
    /\ viewer[v].pc = "loop"
    /\ viewer' = [viewer EXCEPT ![v] = Away]
    /\ UNCHANGED <<probes, inFlight, lastResult, history>>

DashNext ==
    \/ ProbeBegins
    \/ \E p \in inFlight : Store(p) \/ Broadcast(p)
    \/ \E v \in Viewers : Subscribe(v) \/ CatchUp(v) \/ Receive(v) \/ Unsubscribe(v)

DashSpec == DashInit /\ [][DashNext]_dashVars

Ascending(s) == \A i, j \in 1..Len(s) : i < j => s[i] < s[j]

\* What a viewer gets through its channel, and the results that were offered to all.
ViaChannel(q) == q.written \o q.chan
Announced == (1..lastResult) \ {p.id : p \in inFlight}

\* The viewer caught up with the result or a later one, or gets it; or the channel was
\* full: a buffer's worth of older results is what it gets instead.
Brought(q, id) == id <= q.caughtUp \/ \E i \in 1..Len(ViaChannel(q)) : ViaChannel(q)[i] = id
HadNoRoom(q, id) == Len(ViaChannel(q)) >= SubBuffer /\ ViaChannel(q)[SubBuffer] < id

\* Between the subscription and the catch-up no result falls through, and afterwards
\* none but those a full channel had no room for; what comes through the channel is in
\* order and nothing comes through it twice, although the stream as a whole may go
\* back once, to what was offered before the catch-up; and the history ends with the
\* newest result (dashboard.go:108-181, 353-371).
ViewersMissNothing ==
    /\ Ascending(history)
    /\ history # << >> => history[Len(history)] = lastResult
    /\ \A v \in Viewers : viewer[v] # Away =>
          /\ Ascending(ViaChannel(viewer[v]))
          /\ viewer[v].pc = "loop" =>
                \A id \in Announced : Brought(viewer[v], id) \/ HadNoRoom(viewer[v], id)
=============================================================================
