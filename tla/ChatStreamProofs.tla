-------------------------- MODULE ChatStreamProofs --------------------------
(***************************************************************************)
(* Proofs about ChatStream, for any channel capacity, number of deltas and *)
(* number of faults.                                                       *)
(***************************************************************************)
EXTENDS ChatStreamProps, SequenceTheorems, TLAPS

\* Every step of the model, as one disjunction to split proofs on.
LEMMA StepCases ==
    ASSUME Next
    PROVE  \/ Cancelled \/ Buffer \/ Fail \/ ProducerCloses
           \/ FwdTakes \/ FwdTakesError \/ FwdSendsError \/ FwdStops
           \/ FwdCloses \/ (\E k \in Both : FwdSeesClosed(k))
           \/ Inspect \/ First \/ TakeDelta \/ TakeError \/ Stop \/ Finish
           \/ (\E k \in Both : SeesClosed(k))
           \/ CallFails \/ CallStarts \/ Dial \/ Upstream
           \/ Leave \/ Expire
BY DEF Next, Produce, Forward, Serve

----------------------------------------------------------------------------
(* Types                                                                   *)

\* A delta under way is one that was read.
TypeInv ==
    /\ TypeOK
    /\ producer = "send" => made >= 1
    /\ forwarder = "delta" => held >= 1

LEMMA TypeInit == Init => TypeInv
<1> SUFFICES ASSUME Init PROVE TypeInv
    OBVIOUS
<1> USE ChatAssumption
<1>1. NewPair \in Pair /\ Len(NewPair.deltas) = 0
    BY DEF NewPair, Pair, Both
<1>2. <<source, sink>> \in Routes
    BY DEF Init
<1>3. chan \in [{"up", "down"} -> Pair] /\ chan["down"] = NewPair
    BY <1>1 DEF Init
<1>4. wire \in Seq(1..MaxDeltas)
    BY DEF Init
<1>5. TypeOK
    <2>1. producer \in Producers /\ made = 0 /\ held = 0
        BY DEF Init, Producers
    <2>2. forwarder \in Forwarders /\ writer \in Writers
        BY DEF Init, Forwarders, Writers
    <2>3. fwd \in SUBSET Both /\ hears \in SUBSET Both
        BY DEF Init
    <2>4. gone \in BOOLEAN /\ expired \in BOOLEAN /\ failed \in BOOLEAN
        BY DEF Init
    <2>5. faults \in 0..MaxFaults
        BY DEF Init
    <2> QED
        BY <1>1, <1>2, <1>3, <1>4, <2>1, <2>2, <2>3, <2>4, <2>5 DEF TypeOK
<1> QED
    BY <1>5 DEF Init, TypeInv

\* A pair with one component replaced.
LEMMA PairWith ==
    ASSUME NEW q \in Pair
    PROVE  /\ \A e \in BOOLEAN :
                /\ [q EXCEPT !.err = e] \in Pair
                /\ [q EXCEPT !.err = e].deltas = q.deltas
           /\ \A o \in SUBSET Both :
                /\ [q EXCEPT !.open = o] \in Pair
                /\ [q EXCEPT !.open = o].deltas = q.deltas
           /\ \A s \in Seq(1..MaxDeltas) :
                /\ [q EXCEPT !.deltas = s] \in Pair
                /\ [q EXCEPT !.deltas = s].deltas = s
BY DEF Pair

\* What happens to the pairs of channels keeps them well formed.
LEMMA ChanTypes ==
    ASSUME chan \in [{"up", "down"} -> Pair],
           Len(chan["down"].deltas) <= Capacity,
           \/ UNCHANGED chan
           \/ chan' = [chan EXCEPT !["down"] = FailedPair]
           \/ chan' = [chan EXCEPT !["up"].err = FALSE,
                                   !["down"] = FailedPair]
           \/ \E p \in {"up", "down"}, e \in BOOLEAN :
                 chan' = [chan EXCEPT ![p].err = e]
           \/ \E p \in {"up", "down"} : Close(p)
           \/ chan' = [chan EXCEPT !["down"].deltas = Tail(@)]
              /\ chan["down"].deltas # <<>>
           \/ chan' = [chan EXCEPT !["down"].deltas = Append(@, made)]
              /\ made \in 1..MaxDeltas /\ Room("down")
    PROVE  /\ chan' \in [{"up", "down"} -> Pair]
           /\ Len(chan'["down"].deltas) <= Capacity
<1> USE ChatAssumption
<1>1. CASE UNCHANGED chan
    BY <1>1
<1>2. FailedPair \in Pair /\ Len(FailedPair.deltas) = 0
    BY DEF FailedPair, Pair, Both
<1>3. CASE chan' = [chan EXCEPT !["down"] = FailedPair]
    BY <1>2, <1>3
<1>4. CASE chan' = [chan EXCEPT !["up"].err = FALSE, !["down"] = FailedPair]
    <2> DEFINE q == [chan["up"] EXCEPT !.err = FALSE]
    <2>1. q \in Pair
        BY PairWith
    <2>2. chan' = [chan EXCEPT !["up"] = q, !["down"] = FailedPair]
        BY <1>4
    <2> HIDE DEF q
    <2> QED
        BY <1>2, <2>1, <2>2
<1>5. CASE \E p \in {"up", "down"}, e \in BOOLEAN :
              chan' = [chan EXCEPT ![p].err = e]
    <2>1. PICK p \in {"up", "down"}, e \in BOOLEAN :
             chan' = [chan EXCEPT ![p].err = e]
        BY <1>5
    <2> DEFINE q == [chan[p] EXCEPT !.err = e]
    <2>2. q \in Pair /\ q.deltas = chan[p].deltas
        BY PairWith
    <2>3. chan' = [chan EXCEPT ![p] = q]
        BY <2>1
    <2> HIDE DEF q
    <2>4. chan' \in [{"up", "down"} -> Pair]
        BY <2>2, <2>3
    <2>5. chan'["down"].deltas = chan["down"].deltas
        BY <2>2, <2>3
    <2> QED
        BY <2>4, <2>5
<1>6. CASE \E p \in {"up", "down"} : Close(p)
    <2>1. PICK p \in {"up", "down"} : Close(p)
        BY <1>6
    <2> DEFINE o == IF "errs" \in chan[p].open
                    THEN chan[p].open \ {"errs"} ELSE {}
               q == [chan[p] EXCEPT !.open = o]
    <2>2. o \in SUBSET Both
        BY DEF Pair
    <2>3. chan' = [chan EXCEPT ![p] = q]
        BY <2>1 DEF Close
    <2> HIDE DEF o
    <2>4. q \in Pair /\ q.deltas = chan[p].deltas
        BY <2>2, PairWith
    <2> HIDE DEF q
    <2> QED
        BY <2>3, <2>4
<1>7. CASE chan' = [chan EXCEPT !["down"].deltas = Tail(@)]
           /\ chan["down"].deltas # <<>>
    <2>1. chan["down"].deltas \in Seq(1..MaxDeltas)
        BY DEF Pair
    <2> DEFINE s == Tail(chan["down"].deltas)
               q == [chan["down"] EXCEPT !.deltas = s]
    <2>2. s \in Seq(1..MaxDeltas) /\ Len(s) = Len(chan["down"].deltas) - 1
        BY <1>7, <2>1, HeadTailProperties
    <2>3. chan' = [chan EXCEPT !["down"] = q]
        BY <1>7
    <2> HIDE DEF s
    <2>4. q \in Pair /\ q.deltas = s
        BY <2>2, PairWith
    <2> HIDE DEF q
    <2> QED
        BY <2>2, <2>3, <2>4
<1>8. CASE chan' = [chan EXCEPT !["down"].deltas = Append(@, made)]
           /\ made \in 1..MaxDeltas /\ Room("down")
    <2>1. chan["down"].deltas \in Seq(1..MaxDeltas)
        BY DEF Pair
    <2> DEFINE s == Append(chan["down"].deltas, made)
               q == [chan["down"] EXCEPT !.deltas = s]
    <2>2. s \in Seq(1..MaxDeltas) /\ Len(s) <= Capacity
        BY <1>8, <2>1 DEF Room
    <2>3. chan' = [chan EXCEPT !["down"] = q]
        BY <1>8
    <2> HIDE DEF s
    <2>4. q \in Pair /\ q.deltas = s
        BY <2>2, PairWith
    <2> HIDE DEF q
    <2> QED
        BY <2>2, <2>3, <2>4
<1> QED
    BY <1>1, <1>3, <1>4, <1>5, <1>6, <1>7, <1>8

\* The types of the pairs of channels, and of what is neither they nor wire.
ChanOK ==
    /\ chan \in [{"up", "down"} -> Pair]
    /\ Len(chan["down"].deltas) <= Capacity

RestOK ==
    /\ <<source, sink>> \in Routes
    /\ producer \in Producers
    /\ made \in 0..MaxDeltas /\ held \in 0..MaxDeltas
    /\ forwarder \in Forwarders
    /\ fwd \in SUBSET Both /\ hears \in SUBSET Both
    /\ writer \in Writers
    /\ gone \in BOOLEAN /\ expired \in BOOLEAN /\ failed \in BOOLEAN
    /\ faults \in 0..MaxFaults
    /\ producer = "send" => made >= 1
    /\ forwarder = "delta" => held >= 1

LEMMA TypeParts ==
    TypeInv <=> ChanOK /\ RestOK /\ wire \in Seq(1..MaxDeltas)
BY DEF TypeInv, TypeOK, ChanOK, RestOK

LEMMA FaultTypes ==
    ASSUME faults \in 0..MaxFaults, failed \in BOOLEAN, MayFail \/ NoFault
    PROVE  faults' \in 0..MaxFaults /\ failed' \in BOOLEAN
<1>1. CASE MayFail
    BY <1>1, ChatAssumption DEF MayFail
<1>2. CASE NoFault
    BY <1>2 DEF NoFault
<1> QED
    BY <1>1, <1>2

LEMMA TypeStep == TypeInv /\ [Next]_vars => TypeInv'
<1> SUFFICES ASSUME TypeInv, [Next]_vars PROVE TypeInv'
    OBVIOUS
<1> USE ChatAssumption
<1> USE DEF Producers, Forwarders, Writers, Ends, Both, MayFail, NoFault,
            route
<1>1. ChanOK /\ RestOK /\ wire \in Seq(1..MaxDeltas)
    BY TypeParts
<1>2. SUFFICES ChanOK' /\ RestOK' /\ (wire \in Seq(1..MaxDeltas))'
    BY DEF TypeInv, TypeOK, ChanOK, RestOK
<1>3. CASE UNCHANGED vars
    BY <1>1, <1>3 DEF vars, ChanOK, RestOK
<1>4. CASE Cancelled
    <2>1. ChanOK'
        BY <1>1, <1>4 DEF Cancelled, ChanOK, Producing
    <2>2. RestOK'
        BY <1>1, <1>4, ZenonT(30) DEF Cancelled, RestOK, Producing
    <2> QED
        BY <1>1, <1>4, <2>1, <2>2 DEF Cancelled, Producing
<1>5. CASE Buffer
    <2>1. ChanOK'
        BY <1>1, <1>5, ChanTypes DEF Buffer, ChanOK, RestOK, Producing
    <2>2. RestOK'
        BY <1>1, <1>5 DEF Buffer, RestOK, Producing
    <2> QED
        BY <1>1, <1>5, <2>1, <2>2 DEF Buffer, Producing
<1>6. CASE Fail
    <2>1. ChanOK'
        BY <1>1, <1>6, ChanTypes DEF Fail, Out, ChanOK
    <2>2. RestOK'
        BY <1>1, <1>6 DEF Fail, RestOK, Producing, Out
    <2> QED
        BY <1>1, <1>6, <2>1, <2>2 DEF Fail, Producing, Out
<1>7. CASE ProducerCloses
    <2>1. ChanOK'
        BY <1>1, <1>7, ChanTypes DEF ProducerCloses, Out, ChanOK
    <2>2. RestOK'
        BY <1>1, <1>7 DEF ProducerCloses, RestOK, Producing, Out, Closed
    <2> QED
        BY <1>1, <1>7, <2>1, <2>2 DEF ProducerCloses, Producing, Out, Closed
<1>8. CASE FwdTakes
    <2>1. ChanOK'
        BY <1>1, <1>8 DEF FwdTakes, ChanOK, Forwarding
    <2>2. RestOK'
        BY <1>1, <1>8 DEF FwdTakes, RestOK, Forwarding
    <2> QED
        BY <1>1, <1>8, <2>1, <2>2 DEF FwdTakes, Forwarding
<1>9. CASE FwdTakesError
    <2>1. ChanOK'
        BY <1>1, <1>9, ChanTypes DEF FwdTakesError, ChanOK
    <2>2. RestOK'
        BY <1>1, <1>9 DEF FwdTakesError, RestOK, Forwarding
    <2> QED
        BY <1>1, <1>9, <2>1, <2>2 DEF FwdTakesError, Forwarding
<1>10. CASE FwdSendsError
    <2>1. ChanOK'
        BY <1>1, <1>10, ChanTypes DEF FwdSendsError, ChanOK
    <2>2. RestOK'
        BY <1>1, <1>10 DEF FwdSendsError, RestOK, Forwarding
    <2> QED
        BY <1>1, <1>10, <2>1, <2>2 DEF FwdSendsError, Forwarding
<1>11. CASE FwdStops
    <2>1. ChanOK'
        BY <1>1, <1>11 DEF FwdStops, ChanOK
    <2>2. RestOK'
        BY <1>1, <1>11 DEF FwdStops, RestOK
    <2> QED
        BY <1>1, <1>11, <2>1, <2>2 DEF FwdStops
<1>12. CASE FwdCloses
    <2>1. ChanOK'
        BY <1>1, <1>12, ChanTypes DEF FwdCloses, ChanOK
    <2>2. RestOK'
        BY <1>1, <1>12 DEF FwdCloses, RestOK, Forwarding, Closed
    <2> QED
        BY <1>1, <1>12, <2>1, <2>2 DEF FwdCloses, Forwarding, Closed
<1>13. CASE \E k \in Both : FwdSeesClosed(k)
    <2>1. ChanOK'
        BY <1>1, <1>13 DEF FwdSeesClosed, ChanOK, Forwarding
    <2>2. RestOK'
        BY <1>1, <1>13 DEF FwdSeesClosed, RestOK, Forwarding
    <2> QED
        BY <1>1, <1>13, <2>1, <2>2 DEF FwdSeesClosed, Forwarding
<1>14. CASE Inspect
    <2>1. ChanOK'
        BY <1>1, <1>14, ChanTypes DEF Inspect, ChanOK
    <2>2. RestOK'
        BY <1>1, <1>14 DEF Inspect, RestOK, Returned
    <2> QED
        BY <1>1, <1>14, <2>1, <2>2 DEF Inspect, Returned
<1>15. CASE First
    <2>1. ChanOK'
        BY <1>1, <1>15, ChanTypes DEF First, ChanOK
    <2>2. RestOK'
        BY <1>1, <1>15 DEF First, RestOK
    <2> QED
        BY <1>1, <1>15, <2>1, <2>2 DEF First
<1>16. CASE TakeDelta
    <2>1. ChanOK'
        BY <1>1, <1>16, ChanTypes DEF TakeDelta, ChanOK, Write
    <2>2. (wire \in Seq(1..MaxDeltas))'
        <3>1. CASE forwarder = "delta" /\ Write(held)
            <4>1. held \in 1..MaxDeltas
                BY <1>1, <3>1 DEF RestOK
            <4>2. wire' = wire \/ wire' = Append(wire, held)
                BY <3>1 DEF Write
            <4> QED
                BY <1>1, <4>1, <4>2, AppendProperties
        <3>2. CASE /\ chan["down"].deltas # <<>>
                   /\ Write(Head(chan["down"].deltas))
            <4>1. chan["down"].deltas \in Seq(1..MaxDeltas)
                BY <1>1 DEF ChanOK, Pair
            <4>2. Head(chan["down"].deltas) \in 1..MaxDeltas
                BY <3>2, <4>1, HeadTailProperties
            <4>3. \/ wire' = wire
                  \/ wire' = Append(wire, Head(chan["down"].deltas))
                BY <3>2 DEF Write
            <4>4. Append(wire, Head(chan["down"].deltas)) \in Seq(1..MaxDeltas)
                BY <1>1, <4>2, AppendProperties
            <4> QED
                BY <1>1, <4>3, <4>4
        <3> QED
            BY <1>16, <3>1, <3>2 DEF TakeDelta
    <2>3. RestOK'
        BY <1>1, <1>16, SMTT(20) DEF TakeDelta, RestOK, Write
    <2> QED
        BY <2>1, <2>2, <2>3
<1>17. CASE TakeError
    <2>1. ChanOK'
        BY <1>1, <1>17, ChanTypes DEF TakeError, ChanOK
    <2>2. RestOK'
        BY <1>1, <1>17 DEF TakeError, RestOK, Looping
    <2> QED
        BY <1>1, <1>17, <2>1, <2>2 DEF TakeError, Looping
<1>18. CASE Stop
    <2>1. ChanOK'
        BY <1>1, <1>18 DEF Stop, ChanOK, Looping
    <2>2. RestOK'
        BY <1>1, <1>18 DEF Stop, RestOK, Looping
    <2> QED
        BY <1>1, <1>18, <2>1, <2>2 DEF Stop, Looping
<1>19. CASE Finish
    <2>1. ChanOK'
        BY <1>1, <1>19 DEF Finish, ChanOK
    <2>2. RestOK'
        BY <1>1, <1>19 DEF Finish, RestOK
    <2> QED
        BY <1>1, <1>19, <2>1, <2>2 DEF Finish
<1>20. CASE \E k \in Both : SeesClosed(k)
    <2>1. ChanOK'
        BY <1>1, <1>20 DEF SeesClosed, ChanOK, Looping
    <2>2. RestOK'
        BY <1>1, <1>20 DEF SeesClosed, RestOK, Looping
    <2> QED
        BY <1>1, <1>20, <2>1, <2>2 DEF SeesClosed, Looping
<1>21. CASE CallFails
    <2>1. ChanOK'
        BY <1>1, <1>21, ChanTypes DEF CallFails, ChanOK
    <2>2. (faults \in 0..MaxFaults)' /\ (failed \in BOOLEAN)'
        BY <1>1, <1>21, FaultTypes DEF CallFails, RestOK
    <2>3. RestOK'
        BY <1>1, <1>21, <2>2 DEF CallFails, RestOK, Returned
    <2> QED
        BY <1>1, <1>21, <2>1, <2>3 DEF CallFails, Returned
<1>22. CASE CallStarts
    <2>1. ChanOK'
        BY <1>1, <1>22 DEF CallStarts, ChanOK, Returned
    <2>2. RestOK'
        BY <1>1, <1>22 DEF CallStarts, RestOK, Returned
    <2> QED
        BY <1>1, <1>22, <2>1, <2>2 DEF CallStarts, Returned
<1>23. CASE Dial
    <2>1. ChanOK'
        BY <1>1, <1>23 DEF Dial, ChanOK, Producing
    <2>2. (faults \in 0..MaxFaults)' /\ (failed \in BOOLEAN)'
        BY <1>1, <1>23, FaultTypes DEF Dial, RestOK
    <2>3. RestOK'
        BY <1>1, <1>23, <2>2 DEF Dial, RestOK, Producing
    <2> QED
        BY <1>1, <1>23, <2>1, <2>3 DEF Dial, Producing
<1>24. CASE Upstream
    <2>1. ChanOK'
        BY <1>1, <1>24 DEF Upstream, ChanOK, Producing
    <2>2. (faults \in 0..MaxFaults)' /\ (failed \in BOOLEAN)'
        BY <1>1, <1>24, FaultTypes DEF Upstream, RestOK
    <2>3. RestOK'
        BY <1>1, <1>24, <2>2 DEF Upstream, RestOK, Producing
    <2> QED
        BY <1>1, <1>24, <2>1, <2>3 DEF Upstream, Producing
<1>25. CASE Leave
    <2>1. ChanOK'
        BY <1>1, <1>25 DEF Leave, ChanOK
    <2>2. RestOK'
        BY <1>1, <1>25 DEF Leave, RestOK
    <2> QED
        BY <1>1, <1>25, <2>1, <2>2 DEF Leave
<1>26. CASE Expire
    <2>1. ChanOK'
        BY <1>1, <1>26 DEF Expire, ChanOK
    <2>2. RestOK'
        BY <1>1, <1>26 DEF Expire, RestOK
    <2> QED
        BY <1>1, <1>26, <2>1, <2>2 DEF Expire
<1> QED
    BY StepCases, <1>3, <1>4, <1>5, <1>6, <1>7, <1>8, <1>9, <1>10, <1>11,
       <1>12, <1>13, <1>14, <1>15, <1>16, <1>17, <1>18, <1>19, <1>20, <1>21,
       <1>22, <1>23, <1>24, <1>25, <1>26

\* The variables keep their types, for any capacity and number of deltas.
THEOREM TypeCorrect == Spec => []TypeOK
<1>1. TypeInv => TypeOK
    BY DEF TypeInv
<1> QED
    BY <1>1, TypeInit, TypeStep, PTL DEF Spec

----------------------------------------------------------------------------
(* How the stages hang together                                            *)

\* A native stream that never got a forwarder: its call failed.
Stillborn ==
    /\ forwarder = "none" /\ writer \notin {"call", "inspect"}
    /\ producer \in {"none", "close", "ended"}

Finishing == {"close", "ended"}

\* What the state of a channel says of the goroutines at its two ends.
Wiring ==
    /\ writer = "call" =>
         /\ producer = "none" /\ forwarder = "none" /\ hears = Both
         /\ chan["up"] = NewPair /\ chan["down"] = NewPair
    /\ writer = "inspect" =>
         /\ source = "native" /\ forwarder = "none" /\ hears = Both
         /\ chan["down"] = NewPair
    /\ forwarder # "none" => source = "native"
    /\ chan["up"].deltas = <<>>
    /\ source = "backend" => ~chan["up"].err
    /\ "deltas" \notin chan[Out].open => producer = "ended"
    /\ "errs" \notin chan[Out].open => producer \in Finishing
    /\ \A k \in Both \ hears : Drained("down", k)

\* The same of the forwarder, which has a channel at each side.
Relaying ==
    source = "native" =>
        /\ chan["down"].deltas = <<>>
        /\ \A k \in Both \ fwd : Drained("up", k)
        /\ chan["up"].err => producer \in Finishing
        /\ (forwarder = "none" /\ writer \notin {"call", "inspect"}) =>
             Stillborn /\ ~chan["up"].err
        /\ forwarder = "error" => producer \in Finishing
        /\ chan["down"].err =>
             Stillborn \/ (producer \in Finishing /\ forwarder # "delta")
        /\ "deltas" \notin chan["down"].open =>
             Stillborn \/ forwarder = "ended"
        /\ "errs" \notin chan["down"].open =>
             Stillborn \/ forwarder \in Finishing
        /\ (~expired /\ ~Over /\ forwarder \in Finishing) => fwd = {}

----------------------------------------------------------------------------
(* Where the deltas are                                                    *)

Queue == chan["down"].deltas

\* No goroutine has dropped a delta: none has stopped for its context.
Intact ==
    \/ ~expired
    \/ /\ forwarder \notin Finishing
       /\ source = "native" \/ producer \notin Finishing

\* Deltas in the hands of the two goroutines that send them.
InHand == (IF forwarder = "delta" THEN 1 ELSE 0)
            + (IF producer = "send" THEN 1 ELSE 0)

\* While an answer goes on, what was read is on the wire, in the buffer or in
\* a goroutine's hand, in this order.
Flow ==
    ~Over =>
        /\ \A i \in 1..Len(Queue) : Queue[i] = Len(wire) + i
        /\ forwarder = "delta" => held = Len(wire) + 1
        /\ Intact => made = Len(wire) + Len(Queue) + InHand

\* A failure that was not told yet is on its way.
Pending ==
    (failed /\ ~expired /\ ~Over) =>
        \/ producer = "fail" \/ chan["up"].err
        \/ forwarder = "error" \/ chan["down"].err

\* The fields of the two pairs, after what the actions do to them.
LEMMA ErrSet ==
    ASSUME ChanOK, NEW p \in {"up", "down"}, NEW e,
           chan' = [chan EXCEPT ![p].err = e]
    PROVE  /\ chan'[p].err = e /\ chan'[p].open = chan[p].open
           /\ chan'[p].deltas = chan[p].deltas
           /\ \A q \in {"up", "down"} \ {p} : chan'[q] = chan[q]
<1> DEFINE r == [chan[p] EXCEPT !.err = e]
<1>1. r.err = e /\ r.open = chan[p].open /\ r.deltas = chan[p].deltas
    BY DEF ChanOK, Pair
<1>2. chan' = [chan EXCEPT ![p] = r]
    OBVIOUS
<1> HIDE DEF r
<1> QED
    BY <1>1, <1>2 DEF ChanOK

LEMMA Closing ==
    ASSUME ChanOK, NEW p \in {"up", "down"}, Close(p)
    PROVE  /\ chan'[p].open = IF "errs" \in chan[p].open
                              THEN chan[p].open \ {"errs"} ELSE {}
           /\ chan'[p].err = chan[p].err
           /\ chan'[p].deltas = chan[p].deltas
           /\ \A q \in {"up", "down"} \ {p} : chan'[q] = chan[q]
<1> DEFINE o == IF "errs" \in chan[p].open
                THEN chan[p].open \ {"errs"} ELSE {}
           r == [chan[p] EXCEPT !.open = o]
<1>1. r.open = o /\ r.err = chan[p].err /\ r.deltas = chan[p].deltas
    BY DEF ChanOK, Pair
<1>2. chan' = [chan EXCEPT ![p] = r]
    BY DEF Close
<1> HIDE DEF r
<1> QED
    BY <1>1, <1>2 DEF ChanOK

LEMMA DeltasSet ==
    ASSUME ChanOK, NEW t, chan' = [chan EXCEPT !["down"].deltas = t]
    PROVE  /\ chan'["down"].deltas = t
           /\ chan'["down"].err = chan["down"].err
           /\ chan'["down"].open = chan["down"].open
           /\ chan'["up"] = chan["up"]
<1> DEFINE r == [chan["down"] EXCEPT !.deltas = t]
<1>1. /\ r.deltas = t /\ r.err = chan["down"].err
      /\ r.open = chan["down"].open
    BY DEF ChanOK, Pair
<1>2. chan' = [chan EXCEPT !["down"] = r]
    OBVIOUS
<1> HIDE DEF r
<1> QED
    BY <1>1, <1>2 DEF ChanOK

LEMMA WiringInit == Init => Wiring /\ Relaying
<1> SUFFICES ASSUME Init PROVE Wiring /\ Relaying
    OBVIOUS
<1>1. /\ chan["up"] = NewPair /\ chan["down"] = NewPair
      /\ producer = "none" /\ forwarder = "none" /\ writer = "call"
      /\ hears = Both /\ fwd = Both
    BY DEF Init
<1>2. NewPair.deltas = <<>> /\ ~NewPair.err /\ NewPair.open = Both
    BY DEF NewPair
<1>3. chan[Out] = NewPair
    BY <1>1 DEF Out
<1> QED
    BY <1>1, <1>2, <1>3 DEF Wiring, Relaying, Both, Finishing

LEMMA WiringStep ==
    ASSUME TypeInv, Wiring, Relaying, [Next]_vars
    PROVE  Wiring' /\ Relaying'
<1> USE DEF Stillborn, Finishing, Drained, Out, Over, Ends, Both, route,
            StreamCtxOver, UpstreamCtxOver
<1>1. ChanOK /\ RestOK
    BY TypeParts
<1>2. CASE UNCHANGED vars
    BY <1>2 DEF vars, Wiring, Relaying
<1>3. CASE Cancelled
    <2>1. Wiring'
        BY <1>1, <1>3 DEF Cancelled, RestOK, Producing, Wiring, Relaying
    <2>2. Relaying'
        BY <1>1, <1>3 DEF Cancelled, RestOK, Producing, Wiring, Relaying
    <2> QED
        BY <2>1, <2>2
<1>4. CASE Buffer
    <2>1. chan' = [chan EXCEPT !["down"].deltas = Append(@, made)]
          \/ UNCHANGED chan
        BY <1>4 DEF Buffer
    <2>2. /\ chan'["up"] = chan["up"]
          /\ chan'["down"].err = chan["down"].err
          /\ chan'["down"].open = chan["down"].open
        BY <1>1, <2>1, DeltasSet
    <2>3. Wiring'
        BY <1>1, <1>4, <2>2 DEF Buffer, RestOK, Producing, Wiring, Relaying
    <2>4. Relaying'
        BY <1>1, <1>4, <2>2 DEF Buffer, RestOK, Producing, Wiring, Relaying
    <2> QED
        BY <2>3, <2>4
<1>5. CASE Fail
    <2>1. chan' = [chan EXCEPT ![Out].err = TRUE] \/ UNCHANGED chan
        BY <1>5 DEF Fail
    <2>2. /\ chan'[Out].err \in {chan[Out].err, TRUE}
          /\ chan'[Out].open = chan[Out].open
          /\ chan'[Out].deltas = chan[Out].deltas
          /\ \A q \in {"up", "down"} \ {Out} : chan'[q] = chan[q]
        BY <1>1, <2>1, ErrSet
    <2>3. Wiring'
        BY <1>1, <1>5, <2>2 DEF Fail, RestOK, Producing, Wiring, Relaying
    <2>4. Relaying'
        BY <1>1, <1>5, <2>2 DEF Fail, RestOK, Producing, Wiring, Relaying
    <2> QED
        BY <2>3, <2>4
<1>6. CASE ProducerCloses
    <2>1. Close(Out)
        BY <1>6 DEF ProducerCloses
    <2>2. /\ chan'[Out].open = IF "errs" \in chan[Out].open
                                THEN chan[Out].open \ {"errs"} ELSE {}
          /\ chan'[Out].err = chan[Out].err
          /\ chan'[Out].deltas = chan[Out].deltas
          /\ \A q \in {"up", "down"} \ {Out} : chan'[q] = chan[q]
        BY <1>1, <2>1, Closing
    <2>3. Wiring'
        BY <1>1, <1>6, <2>2
           DEF ProducerCloses, RestOK, Producing, Closed, Wiring, Relaying
    <2>4. Relaying'
        BY <1>1, <1>6, <2>2
           DEF ProducerCloses, RestOK, Producing, Closed, Wiring, Relaying
    <2> QED
        BY <2>3, <2>4
<1>7. CASE FwdTakes
    <2>1. Wiring'
        BY <1>1, <1>7 DEF FwdTakes, RestOK, Forwarding, Wiring, Relaying
    <2>2. Relaying'
        BY <1>1, <1>7 DEF FwdTakes, RestOK, Forwarding, Wiring, Relaying
    <2> QED
        BY <2>1, <2>2
<1>8. CASE FwdTakesError
    <2>1. chan' = [chan EXCEPT !["up"].err = FALSE]
        BY <1>8 DEF FwdTakesError, Forwarding
    <2>2. /\ chan'["up"].err = FALSE
          /\ chan'["up"].open = chan["up"].open
          /\ chan'["up"].deltas = chan["up"].deltas
          /\ chan'["down"] = chan["down"]
        BY <1>1, <2>1, ErrSet
    <2>3. Wiring'
        BY <1>1, <1>8, <2>2
           DEF FwdTakesError, RestOK, Forwarding, Wiring, Relaying
    <2>4. Relaying'
        BY <1>1, <1>8, <2>2
           DEF FwdTakesError, RestOK, Forwarding, Wiring, Relaying
    <2> QED
        BY <2>3, <2>4
<1>9. CASE FwdSendsError
    <2>1. chan' = [chan EXCEPT !["down"].err = TRUE]
        BY <1>9 DEF FwdSendsError, Forwarding
    <2>2. /\ chan'["down"].err = TRUE
          /\ chan'["down"].open = chan["down"].open
          /\ chan'["down"].deltas = chan["down"].deltas
          /\ chan'["up"] = chan["up"]
        BY <1>1, <2>1, ErrSet
    <2>3. Wiring'
        BY <1>1, <1>9, <2>2
           DEF FwdSendsError, RestOK, Forwarding, Wiring, Relaying
    <2>4. Relaying'
        BY <1>1, <1>9, <2>2
           DEF FwdSendsError, RestOK, Forwarding, Wiring, Relaying
    <2> QED
        BY <2>3, <2>4
<1>10. CASE FwdStops
    <2>1. Wiring'
        BY <1>1, <1>10 DEF FwdStops, RestOK, FwdMayStop, Wiring, Relaying
    <2>2. Relaying'
        BY <1>1, <1>10 DEF FwdStops, RestOK, FwdMayStop, Wiring, Relaying
    <2> QED
        BY <2>1, <2>2
<1>11. CASE FwdCloses
    <2>1. Close("down")
        BY <1>11 DEF FwdCloses
    <2>2. /\ chan'["down"].open = IF "errs" \in chan["down"].open
                                   THEN chan["down"].open \ {"errs"} ELSE {}
          /\ chan'["down"].err = chan["down"].err
          /\ chan'["down"].deltas = chan["down"].deltas
          /\ chan'["up"] = chan["up"]
        BY <1>1, <2>1, Closing
    <2>3. Wiring'
        BY <1>1, <1>11, <2>2
           DEF FwdCloses, RestOK, Forwarding, Closed, Wiring, Relaying
    <2>4. Relaying'
        BY <1>1, <1>11, <2>2
           DEF FwdCloses, RestOK, Forwarding, Closed, Wiring, Relaying
    <2> QED
        BY <2>3, <2>4
<1>12. CASE \E k \in Both : FwdSeesClosed(k)
    <2>1. Wiring'
        BY <1>1, <1>12 DEF FwdSeesClosed, RestOK, Forwarding, Wiring, Relaying
    <2>2. Relaying'
        BY <1>1, <1>12 DEF FwdSeesClosed, RestOK, Forwarding, Wiring, Relaying
    <2> QED
        BY <2>1, <2>2
<1>13. CASE Inspect
    <2>1. \/ UNCHANGED chan
          \/ /\ chan["up"].err
             /\ chan' = [chan EXCEPT !["up"].err = FALSE,
                                     !["down"] = FailedPair]
        BY <1>13 DEF Inspect
    <2> DEFINE r == [chan["up"] EXCEPT !.err = FALSE]
    <2>2. r.deltas = chan["up"].deltas /\ r.open = chan["up"].open /\ ~r.err
        BY <1>1 DEF ChanOK, Pair
    <2>3. chan["up"].err =>
             chan' = [chan EXCEPT !["up"] = r, !["down"] = FailedPair]
        BY <1>13 DEF Inspect
    <2> HIDE DEF r
    <2>4. \/ UNCHANGED chan
          \/ /\ chan["up"].err /\ ~chan'["up"].err
             /\ chan'["up"].deltas = chan["up"].deltas
             /\ chan'["up"].open = chan["up"].open
             /\ chan'["down"] = FailedPair
        BY <1>1, <2>1, <2>2, <2>3 DEF ChanOK
    <2>5. Wiring'
        BY <1>1, <1>13, <2>4
           DEF Inspect, RestOK, Returned, FailedPair, NewPair, Wiring,
               Relaying
    <2>6. Relaying'
        <3>1. /\ source = "native" /\ source' = source
              /\ forwarder = "none" /\ UNCHANGED <<producer, expired>>
              /\ chan["down"] = NewPair
            BY <1>13 DEF Inspect, Wiring
        <3>2. CASE chan["up"].err
            <4>1. /\ forwarder' = "none" /\ fwd' = fwd
                  /\ writer' \in {"loop", "first"}
                BY <1>13, <3>1, <3>2 DEF Inspect, Returned
            <4>2. /\ ~chan'["up"].err
                  /\ chan'["up"].deltas = chan["up"].deltas
                  /\ chan'["up"].open = chan["up"].open
                  /\ chan'["down"].deltas = <<>>
                BY <1>1, <1>13, <2>2, <2>3, <3>2 DEF ChanOK, FailedPair
            <4>3. producer' \in Finishing
                BY <3>1, <3>2 DEF Relaying
            <4>4. Stillborn'
                BY <3>1, <4>1, <4>3
            <4>5. \A k \in Both \ fwd' : Drained("up", k)'
                BY <3>1, <4>1, <4>2 DEF Relaying
            <4> QED
                BY <4>1, <4>2, <4>4, <4>5, <3>1 DEF Relaying
        <3>3. CASE ~chan["up"].err
            BY <1>13, <3>1, <3>3
               DEF Inspect, RestOK, Returned, FailedPair, NewPair, Wiring,
                   Relaying
        <3> QED
            BY <3>2, <3>3
    <2> QED
        BY <2>5, <2>6
<1>14. CASE First
    <2>1. chan' = [chan EXCEPT !["down"].err = FALSE] \/ UNCHANGED chan
        BY <1>14 DEF First
    <2>2. /\ chan'["down"].err \in {chan["down"].err, FALSE}
          /\ chan'["down"].open = chan["down"].open
          /\ chan'["down"].deltas = chan["down"].deltas
          /\ chan'["up"] = chan["up"]
        BY <1>1, <2>1, ErrSet
    <2>3. Wiring'
        BY <1>1, <1>14, <2>2 DEF First, RestOK, Wiring, Relaying
    <2>4. Relaying'
        BY <1>1, <1>14, <2>2 DEF First, RestOK, Wiring, Relaying
    <2> QED
        BY <2>3, <2>4
<1>15. CASE TakeDelta
    <2>1. \/ UNCHANGED chan
          \/ /\ chan["down"].deltas # <<>>
             /\ chan' = [chan EXCEPT !["down"].deltas = Tail(@)]
        BY <1>15 DEF TakeDelta
    <2>2. /\ chan'["up"] = chan["up"]
          /\ chan'["down"].err = chan["down"].err
          /\ chan'["down"].open = chan["down"].open
          /\ chan["down"].deltas = <<>> => UNCHANGED chan["down"].deltas
        BY <1>1, <2>1, DeltasSet
    <2>3. Wiring'
        BY <1>1, <1>15, <2>2
           DEF TakeDelta, RestOK, Write, Looping, Wiring, Relaying
    <2>4. Relaying'
        BY <1>1, <1>15, <2>2
           DEF TakeDelta, RestOK, Write, Looping, Wiring, Relaying
    <2> QED
        BY <2>3, <2>4
<1>16. CASE TakeError
    <2>1. chan' = [chan EXCEPT !["down"].err = FALSE]
        BY <1>16 DEF TakeError
    <2>2. /\ chan'["down"].err = FALSE
          /\ chan'["down"].open = chan["down"].open
          /\ chan'["down"].deltas = chan["down"].deltas
          /\ chan'["up"] = chan["up"]
        BY <1>1, <2>1, ErrSet
    <2>3. Wiring'
        BY <1>1, <1>16, <2>2 DEF TakeError, RestOK, Looping, Wiring, Relaying
    <2>4. Relaying'
        BY <1>1, <1>16, <2>2 DEF TakeError, RestOK, Looping, Wiring, Relaying
    <2> QED
        BY <2>3, <2>4
<1>17. CASE Stop
    <2>1. Wiring'
        BY <1>1, <1>17 DEF Stop, RestOK, Looping, Wiring, Relaying
    <2>2. Relaying'
        BY <1>1, <1>17 DEF Stop, RestOK, Looping, Wiring, Relaying
    <2> QED
        BY <2>1, <2>2
<1>18. CASE Finish
    <2>1. Wiring'
        BY <1>1, <1>18 DEF Finish, RestOK, Wiring, Relaying
    <2>2. Relaying'
        BY <1>1, <1>18 DEF Finish, RestOK, Wiring, Relaying
    <2> QED
        BY <2>1, <2>2
<1>19. CASE \E k \in Both : SeesClosed(k)
    <2>1. Wiring'
        BY <1>1, <1>19 DEF SeesClosed, RestOK, Looping, Wiring, Relaying
    <2>2. Relaying'
        BY <1>1, <1>19 DEF SeesClosed, RestOK, Looping, Wiring, Relaying
    <2> QED
        BY <2>1, <2>2
<1>20. CASE CallFails
    <2>1. chan'["up"] = chan["up"] /\ chan'["down"] = FailedPair
        BY <1>1, <1>20 DEF CallFails, ChanOK
    <2>2. Wiring'
        BY <1>1, <1>20, <2>1
           DEF CallFails, RestOK, Returned, FailedPair, NewPair, Wiring,
               Relaying
    <2>3. Relaying'
        BY <1>1, <1>20, <2>1
           DEF CallFails, RestOK, Returned, FailedPair, NewPair, Wiring,
               Relaying
    <2> QED
        BY <2>2, <2>3
<1>21. CASE CallStarts
    <2>1. Wiring'
        BY <1>1, <1>21
           DEF CallStarts, RestOK, Returned, NewPair, Wiring, Relaying
    <2>2. Relaying'
        BY <1>1, <1>21
           DEF CallStarts, RestOK, Returned, NewPair, Wiring, Relaying
    <2> QED
        BY <2>1, <2>2
<1>22. CASE Dial
    <2>1. Wiring'
        BY <1>1, <1>22 DEF Dial, RestOK, Producing, Wiring, Relaying
    <2>2. Relaying'
        BY <1>1, <1>22 DEF Dial, RestOK, Producing, Wiring, Relaying
    <2> QED
        BY <2>1, <2>2
<1>23. CASE Upstream
    <2>1. Wiring'
        BY <1>1, <1>23 DEF Upstream, RestOK, Producing, Wiring, Relaying
    <2>2. Relaying'
        BY <1>1, <1>23 DEF Upstream, RestOK, Producing, Wiring, Relaying
    <2> QED
        BY <2>1, <2>2
<1>24. CASE Leave
    <2>1. Wiring'
        BY <1>1, <1>24 DEF Leave, RestOK, Wiring, Relaying
    <2>2. Relaying'
        BY <1>1, <1>24 DEF Leave, RestOK, Wiring, Relaying
    <2> QED
        BY <2>1, <2>2
<1>25. CASE Expire
    <2>1. Wiring'
        BY <1>1, <1>25 DEF Expire, RestOK, Wiring, Relaying
    <2>2. Relaying'
        BY <1>1, <1>25 DEF Expire, RestOK, Wiring, Relaying
    <2> QED
        BY <2>1, <2>2
<1> QED
    BY StepCases, <1>2, <1>3, <1>4, <1>5, <1>6, <1>7, <1>8, <1>9, <1>10,
       <1>11, <1>12, <1>13, <1>14, <1>15, <1>16, <1>17, <1>18, <1>19, <1>20,
       <1>21, <1>22, <1>23, <1>24, <1>25

LEMMA FlowInit == Init => Flow /\ InOrder
<1> SUFFICES ASSUME Init PROVE Flow /\ InOrder
    OBVIOUS
<1>1. Queue = <<>> /\ wire = <<>> /\ made = 0
    BY DEF Init, Queue, NewPair
<1>2. InHand = 0 /\ forwarder # "delta"
    BY DEF Init, InHand
<1> QED
    BY <1>1, <1>2 DEF Flow, InOrder

\* A step that leaves the wire and the buffer alone, and takes in hand what
\* it reads, keeps the deltas where they are.
LEMMA FlowKept ==
    ASSUME Flow, InOrder, made \in Nat, InHand \in Nat,
           made' \in Nat, InHand' \in Nat,
           UNCHANGED <<wire, held>>, Queue' = Queue, Over => Over',
           (~Over' /\ forwarder' = "delta") => forwarder = "delta",
           (~Over' /\ Intact') =>
               Intact /\ made' + InHand = made + InHand'
    PROVE  Flow' /\ InOrder'
<1>1. InOrder'
    BY DEF InOrder
<1>2. SUFFICES ASSUME ~Over' PROVE
          /\ \A i \in 1..Len(Queue') : Queue'[i] = Len(wire') + i
          /\ forwarder' = "delta" => held' = Len(wire') + 1
          /\ Intact' => made' = Len(wire') + Len(Queue') + InHand'
    BY <1>1 DEF Flow
<1>3. ~Over
    BY <1>2
<1>4. \A i \in 1..Len(Queue') : Queue'[i] = Len(wire') + i
    BY <1>3 DEF Flow
<1>5. forwarder' = "delta" => held' = Len(wire') + 1
    BY <1>2, <1>3 DEF Flow
<1>6. ASSUME Intact'
      PROVE  made' = Len(wire') + Len(Queue') + InHand'
    <2>1. Intact /\ made' + InHand = made + InHand'
        BY <1>2, <1>6
    <2>2. made = Len(wire) + Len(Queue) + InHand
        BY <1>3, <2>1 DEF Flow
    <2>3. wire' = wire /\ Queue' = Queue
        OBVIOUS
    <2> QED
        BY <2>1, <2>2, <2>3, SMTT(20)
<1> QED
    BY <1>4, <1>5, <1>6

\* One delta moves from a goroutine's hand to the wire or to the buffer.
LEMMA FlowStep ==
    ASSUME TypeInv, TypeInv', Wiring, Relaying, Flow, InOrder, [Next]_vars
    PROVE  Flow' /\ InOrder'
<1> USE DEF Ends, Finishing, StreamCtxOver, UpstreamCtxOver, route
<1>1. ChanOK /\ RestOK /\ wire \in Seq(1..MaxDeltas)
    BY TypeParts
<1>2. /\ made \in Nat /\ made' \in Nat /\ held \in Nat
      /\ Len(wire) \in Nat /\ InHand \in Nat /\ InHand' \in Nat
    BY <1>1 DEF TypeInv, TypeOK, InHand
<1>3. Queue \in Seq(1..MaxDeltas) /\ Len(Queue) \in Nat
    BY <1>1 DEF ChanOK, Pair, Queue
<1>4. CASE UNCHANGED vars
    <2>1. UNCHANGED <<wire, held, made, forwarder, producer, source, writer,
                      expired, chan>>
        BY <1>4 DEF vars
    <2> QED
        BY <1>2, <2>1, FlowKept DEF Queue, InHand, Intact, Over
<1>5. CASE Cancelled
    <2>1. Queue' = Queue
        BY <1>5 DEF Cancelled, Queue, Producing
    <2>2. UNCHANGED <<wire, held>>
        BY <1>5 DEF Cancelled, Producing
    <2>3. Over => Over'
        BY <1>5 DEF Cancelled, Producing, Looping, Over
    <2>4. (~Over' /\ forwarder' = "delta") => forwarder = "delta"
        BY <1>5 DEF Cancelled, Producing
    <2>5. (~Over' /\ Intact') => Intact /\ made' + InHand = made + InHand'
        BY <1>2, <1>5 DEF Cancelled, Producing, Intact, InHand, Over, Wiring
    <2> QED
        BY <1>2, <2>1, <2>2, <2>3, <2>4, <2>5, FlowKept
<1>6. CASE Buffer
    <2>1. /\ source = "backend" /\ forwarder = "none"
          /\ producer = "send" /\ made \in 1..MaxDeltas
        BY <1>1, <1>6 DEF Buffer, Producing, Wiring, RestOK
    <2>2. UNCHANGED <<wire, held, made, forwarder, source, writer, expired>>
        BY <1>6 DEF Buffer, Producing
    <2>3. CASE producer' = "close" /\ UNCHANGED chan /\ UpstreamCtxOver
        <3>1. ~(~Over' /\ Intact')
            BY <2>1, <2>2, <2>3 DEF Intact, Over
        <3> QED
            BY <1>2, <2>1, <2>2, <2>3, <3>1, FlowKept DEF Queue, Over
    <2>4. CASE /\ producer' = "read"
               /\ chan' = [chan EXCEPT !["down"].deltas = Append(@, made)]
        <3>1. Queue' = Append(Queue, made)
            BY <1>1, <2>4, DeltasSet DEF Queue
        <3>2. /\ Len(Queue') = Len(Queue) + 1
              /\ \A i \in 1..Len(Queue) : Queue'[i] = Queue[i]
              /\ Queue'[Len(Queue) + 1] = made
            BY <1>3, <2>1, <3>1, AppendProperties
        <3>3. Over' = Over /\ Intact
            BY <2>1, <2>2 DEF Over, Intact
        <3>4. InHand = 1 /\ InHand' = 0
            BY <2>1, <2>2, <2>4 DEF InHand
        <3> HIDE DEF Queue, InHand, Over
        <3>5. ASSUME ~Over
              PROVE  /\ made = Len(wire) + Len(Queue')
                     /\ \A i \in 1..Len(Queue') : Queue'[i] = Len(wire) + i
            BY <1>2, <1>3, <3>2, <3>3, <3>4, <3>5 DEF Flow
        <3>6. InOrder'
            BY <2>2 DEF InOrder
        <3>7. /\ Len(Queue') \in Nat
              /\ wire' = wire /\ made' = made /\ forwarder' = "none"
            BY <1>3, <2>1, <2>2, <3>2
        <3>8. Flow'
            BY <1>2, <3>3, <3>4, <3>5, <3>7 DEF Flow
        <3> QED
            BY <3>6, <3>8
    <2> QED
        BY <1>6, <2>3, <2>4 DEF Buffer
<1>7. CASE Fail
    <2>1. chan' = [chan EXCEPT ![Out].err = TRUE] \/ UNCHANGED chan
        BY <1>7 DEF Fail
    <2>2. Queue' = Queue
        BY <1>1, <2>1, ErrSet DEF Queue, Out
    <2>3. UNCHANGED <<wire, held>>
        BY <1>7 DEF Fail, Producing
    <2>4. Over => Over'
        BY <1>7 DEF Fail, Producing, Looping, Over
    <2>5. (~Over' /\ forwarder' = "delta") => forwarder = "delta"
        BY <1>7 DEF Fail, Producing
    <2>6. (~Over' /\ Intact') => Intact /\ made' + InHand = made + InHand'
        BY <1>2, <1>7 DEF Fail, Producing, Intact, InHand, Over, Wiring
    <2> QED
        BY <1>2, <2>2, <2>3, <2>4, <2>5, <2>6, FlowKept
<1>8. CASE ProducerCloses
    <2>1. Close(Out)
        BY <1>8 DEF ProducerCloses
    <2>2. Queue' = Queue
        BY <1>1, <2>1, Closing DEF Queue, Out
    <2>3. UNCHANGED <<wire, held>>
        BY <1>8 DEF ProducerCloses, Producing
    <2>4. Over => Over'
        BY <1>8 DEF ProducerCloses, Producing, Looping, Over
    <2>5. (~Over' /\ forwarder' = "delta") => forwarder = "delta"
        BY <1>8 DEF ProducerCloses, Producing
    <2>6. (~Over' /\ Intact') => Intact /\ made' + InHand = made + InHand'
        BY <1>2, <1>8
           DEF ProducerCloses, Producing, Intact, InHand, Over, Wiring
    <2> QED
        BY <1>2, <2>2, <2>3, <2>4, <2>5, <2>6, FlowKept
<1>9. CASE FwdTakes
    <2>1. /\ forwarder = "loop" /\ forwarder' = "delta"
          /\ producer = "send" /\ producer' = "read" /\ held' = made
          /\ UNCHANGED <<source, made, writer, wire, expired, chan>>
        BY <1>9 DEF FwdTakes, Forwarding
    <2>2. source = "native" /\ Queue = <<>>
        BY <2>1 DEF Wiring, Relaying, Queue
    <2>3. Queue' = Queue /\ Over' = Over /\ Intact
        BY <2>1, <2>2 DEF Queue, Over, Intact
    <2>4. InHand = 1 /\ InHand' = 1
        BY <2>1 DEF InHand
    <2>5. ~Over => made = Len(wire) + 1
        BY <1>2, <2>2, <2>3, <2>4 DEF Flow
    <2>6. InOrder'
        BY <2>1 DEF InOrder
    <2>7. Flow'
        BY <1>2, <2>1, <2>2, <2>3, <2>4, <2>5 DEF Flow
    <2> QED
        BY <2>6, <2>7
<1>10. CASE FwdTakesError
    <2>1. chan' = [chan EXCEPT !["up"].err = FALSE]
        BY <1>10 DEF FwdTakesError
    <2>2. Queue' = Queue
        BY <1>1, <2>1, ErrSet DEF Queue, Out
    <2>3. UNCHANGED <<wire, held>>
        BY <1>10 DEF FwdTakesError, Forwarding
    <2>4. Over => Over'
        BY <1>10 DEF FwdTakesError, Forwarding, Looping, Over
    <2>5. (~Over' /\ forwarder' = "delta") => forwarder = "delta"
        BY <1>10 DEF FwdTakesError, Forwarding
    <2>6. (~Over' /\ Intact') => Intact /\ made' + InHand = made + InHand'
        BY <1>2, <1>10
           DEF FwdTakesError, Forwarding, Intact, InHand, Over, Wiring
    <2> QED
        BY <1>2, <2>2, <2>3, <2>4, <2>5, <2>6, FlowKept
<1>11. CASE FwdSendsError
    <2>1. chan' = [chan EXCEPT !["down"].err = TRUE]
        BY <1>11 DEF FwdSendsError
    <2>2. Queue' = Queue
        BY <1>1, <2>1, ErrSet DEF Queue, Out
    <2>3. UNCHANGED <<wire, held>>
        BY <1>11 DEF FwdSendsError, Forwarding
    <2>4. Over => Over'
        BY <1>11 DEF FwdSendsError, Forwarding, Looping, Over
    <2>5. (~Over' /\ forwarder' = "delta") => forwarder = "delta"
        BY <1>11 DEF FwdSendsError, Forwarding
    <2>6. (~Over' /\ Intact') => Intact /\ made' + InHand = made + InHand'
        BY <1>2, <1>11
           DEF FwdSendsError, Forwarding, Intact, InHand, Over, Wiring
    <2> QED
        BY <1>2, <2>2, <2>3, <2>4, <2>5, <2>6, FlowKept
<1>12. CASE FwdStops
    <2>1. Queue' = Queue
        BY <1>12 DEF FwdStops, Queue
    <2>2. UNCHANGED <<wire, held>>
        BY <1>12 DEF FwdStops
    <2>3. Over => Over'
        BY <1>12 DEF FwdStops, Looping, Over
    <2>4. (~Over' /\ forwarder' = "delta") => forwarder = "delta"
        BY <1>12 DEF FwdStops
    <2>5. (~Over' /\ Intact') => Intact /\ made' + InHand = made + InHand'
        BY <1>2, <1>12 DEF FwdStops, Intact, InHand, Over, Wiring, FwdMayStop
    <2> QED
        BY <1>2, <2>1, <2>2, <2>3, <2>4, <2>5, FlowKept
<1>13. CASE FwdCloses
    <2>1. Close("down")
        BY <1>13 DEF FwdCloses
    <2>2. Queue' = Queue
        BY <1>1, <2>1, Closing DEF Queue, Out
    <2>3. UNCHANGED <<wire, held>>
        BY <1>13 DEF FwdCloses, Forwarding
    <2>4. Over => Over'
        BY <1>13 DEF FwdCloses, Forwarding, Looping, Over
    <2>5. (~Over' /\ forwarder' = "delta") => forwarder = "delta"
        BY <1>13 DEF FwdCloses, Forwarding
    <2>6. (~Over' /\ Intact') => Intact /\ made' + InHand = made + InHand'
        BY <1>2, <1>13 DEF FwdCloses, Forwarding, Intact, InHand, Over, Wiring
    <2> QED
        BY <1>2, <2>2, <2>3, <2>4, <2>5, <2>6, FlowKept
<1>14. CASE \E k \in Both : FwdSeesClosed(k)
    <2>1. Queue' = Queue
        BY <1>14 DEF FwdSeesClosed, Queue, Forwarding
    <2>2. UNCHANGED <<wire, held>>
        BY <1>14 DEF FwdSeesClosed, Forwarding
    <2>3. Over => Over'
        BY <1>14 DEF FwdSeesClosed, Forwarding, Looping, Over
    <2>4. (~Over' /\ forwarder' = "delta") => forwarder = "delta"
        BY <1>14 DEF FwdSeesClosed, Forwarding
    <2>5. (~Over' /\ Intact') => Intact /\ made' + InHand = made + InHand'
        BY <1>2, <1>14
           DEF FwdSeesClosed, Forwarding, Intact, InHand, Over, Wiring
    <2> QED
        BY <1>2, <2>1, <2>2, <2>3, <2>4, <2>5, FlowKept
<1>15. CASE Inspect
    <2>1. source = "native" /\ Queue = <<>>
        BY <1>15 DEF Inspect, Wiring, Queue, NewPair
    <2>2. Queue' = Queue
        BY <1>1, <1>15, <2>1 DEF Inspect, Queue, FailedPair, ChanOK
    <2>3. UNCHANGED <<wire, held>>
        BY <1>15 DEF Inspect
    <2>4. Over => Over'
        BY <1>15 DEF Inspect, Returned, Looping, Over
    <2>5. (~Over' /\ forwarder' = "delta") => forwarder = "delta"
        BY <1>15 DEF Inspect
    <2>6. (~Over' /\ Intact') => Intact /\ made' + InHand = made + InHand'
        BY <1>2, <1>15 DEF Inspect, Intact, InHand, Over, Wiring
    <2> QED
        BY <1>2, <2>2, <2>3, <2>4, <2>5, <2>6, FlowKept
<1>16. CASE First
    <2>1. chan' = [chan EXCEPT !["down"].err = FALSE] \/ UNCHANGED chan
        BY <1>16 DEF First
    <2>2. Queue' = Queue
        BY <1>1, <2>1, ErrSet DEF Queue, Out
    <2>3. UNCHANGED <<wire, held>>
        BY <1>16 DEF First
    <2>4. Over => Over'
        BY <1>16 DEF First, Looping, Over
    <2>5. (~Over' /\ forwarder' = "delta") => forwarder = "delta"
        BY <1>16 DEF First
    <2>6. (~Over' /\ Intact') => Intact /\ made' + InHand = made + InHand'
        BY <1>2, <1>16 DEF First, Intact, InHand, Over, Wiring
    <2> QED
        BY <1>2, <2>2, <2>3, <2>4, <2>5, <2>6, FlowKept
<1>17. CASE TakeDelta
    <2>1. UNCHANGED <<source, producer, made, held, expired, gone>>
        BY <1>17 DEF TakeDelta
    <2>2. CASE gone
        <3>1. Over' /\ wire' = wire
            BY <1>17, <2>2 DEF TakeDelta, Write, Over
        <3> QED
            BY <3>1 DEF Flow, InOrder
    <2>3. CASE ~gone /\ forwarder = "delta"
        <3>1. /\ source = "native" /\ Queue = <<>>
            BY <2>3 DEF Wiring, Relaying, Queue
        <3>2. /\ wire' = Append(wire, held) /\ writer' = writer
              /\ forwarder' = "loop" /\ UNCHANGED chan
            BY <1>17, <2>3, <3>1 DEF TakeDelta, Write, Queue
        <3>3. /\ Queue' = Queue /\ Over' = Over
              /\ ~Over /\ Intact
            BY <1>17, <2>1, <2>3, <3>1, <3>2
               DEF TakeDelta, Looping, Queue, Over, Intact
        <3>4. held = Len(wire) + 1
            BY <2>3, <3>3 DEF Flow
        <3>5. /\ Len(wire') = Len(wire) + 1
              /\ \A i \in 1..Len(wire) : wire'[i] = wire[i]
              /\ wire'[Len(wire) + 1] = held
            <4>1. held \in 1..MaxDeltas
                BY <1>1, <2>3 DEF RestOK
            <4> QED
                BY <1>1, <3>2, <4>1, AppendProperties
        <3>6. InOrder'
            BY <1>2, <3>4, <3>5 DEF InOrder
        <3>7. InHand = InHand' + 1
            BY <2>1, <2>3, <3>2 DEF InHand
        <3>8. made = Len(wire) + Len(Queue) + InHand
            BY <3>3 DEF Flow
        <3>9. Flow'
            BY <1>2, <2>1, <3>1, <3>2, <3>3, <3>5, <3>7, <3>8 DEF Flow
        <3> QED
            BY <3>6, <3>9
    <2>4. CASE ~gone /\ forwarder # "delta"
        <3>1. /\ Queue # <<>> /\ wire' = Append(wire, Head(Queue))
              /\ chan' = [chan EXCEPT !["down"].deltas = Tail(@)]
              /\ forwarder' = forwarder /\ writer' = writer
            BY <1>17, <2>4 DEF TakeDelta, Write, Queue
        <3>2. Queue' = Tail(Queue)
            BY <1>1, <3>1, DeltasSet DEF Queue
        <3>3. /\ Len(Queue') = Len(Queue) - 1
              /\ \A i \in 1..Len(Queue') : Queue'[i] = Queue[i + 1]
              /\ Head(Queue) = Queue[1] /\ Head(Queue) \in 1..MaxDeltas
              /\ Len(Queue) >= 1
            <4>1. Len(Queue) >= 1 /\ Head(Queue) = Queue[1]
                BY <1>3, <3>1, EmptySeq
            <4> QED
                BY <1>3, <3>1, <3>2, <4>1, HeadTailProperties
        <3>4. /\ Len(wire') = Len(wire) + 1
              /\ \A i \in 1..Len(wire) : wire'[i] = wire[i]
              /\ wire'[Len(wire) + 1] = Queue[1]
            BY <1>1, <3>1, <3>3, AppendProperties
        <3>5. ~Over /\ Over' = Over /\ Intact' = Intact /\ InHand' = InHand
            BY <1>17, <2>1, <3>1 DEF TakeDelta, Looping, Over, Intact, InHand
        <3> HIDE DEF Queue, Over, InHand, Intact
        <3>6. \A i \in 1..Len(Queue) : Queue[i] = Len(wire) + i
            BY <3>5 DEF Flow
        <3>7. InOrder'
            <4>1. Queue[1] = Len(wire) + 1
                BY <1>2, <1>3, <3>3, <3>6
            <4> QED
                BY <1>2, <3>4, <4>1 DEF InOrder
        <3>8. \A i \in 1..Len(Queue') : Queue'[i] = Len(wire') + i
            BY <1>2, <1>3, <3>3, <3>4, <3>6
        <3>9. Intact' => made' = Len(wire') + Len(Queue') + InHand'
            <4>1. Intact => made = Len(wire) + Len(Queue) + InHand
                BY <3>5 DEF Flow
            <4> QED
                BY <1>2, <1>3, <2>1, <3>3, <3>4, <3>5, <4>1
        <3> QED
            BY <2>4, <3>1, <3>5, <3>7, <3>8, <3>9 DEF Flow
    <2> QED
        BY <2>2, <2>3, <2>4
<1>18. CASE TakeError
    <2>1. chan' = [chan EXCEPT !["down"].err = FALSE]
        BY <1>18 DEF TakeError
    <2>2. Queue' = Queue
        BY <1>1, <2>1, ErrSet DEF Queue, Out
    <2>3. UNCHANGED <<wire, held>>
        BY <1>18 DEF TakeError
    <2>4. Over => Over'
        BY <1>18 DEF TakeError, Looping, Over
    <2>5. (~Over' /\ forwarder' = "delta") => forwarder = "delta"
        BY <1>18 DEF TakeError
    <2>6. (~Over' /\ Intact') => Intact /\ made' + InHand = made + InHand'
        BY <1>2, <1>18 DEF TakeError, Intact, InHand, Over, Wiring
    <2> QED
        BY <1>2, <2>2, <2>3, <2>4, <2>5, <2>6, FlowKept
<1>19. CASE Stop
    <2>1. Queue' = Queue
        BY <1>19 DEF Stop, Queue
    <2>2. UNCHANGED <<wire, held>>
        BY <1>19 DEF Stop
    <2>3. Over => Over'
        BY <1>19 DEF Stop, Looping, Over
    <2>4. (~Over' /\ forwarder' = "delta") => forwarder = "delta"
        BY <1>19 DEF Stop
    <2>5. (~Over' /\ Intact') => Intact /\ made' + InHand = made + InHand'
        BY <1>2, <1>19 DEF Stop, Intact, InHand, Over, Wiring
    <2> QED
        BY <1>2, <2>1, <2>2, <2>3, <2>4, <2>5, FlowKept
<1>20. CASE Finish
    <2>1. Queue' = Queue
        BY <1>20 DEF Finish, Queue
    <2>2. UNCHANGED <<wire, held>>
        BY <1>20 DEF Finish
    <2>3. Over => Over'
        BY <1>20 DEF Finish, Looping, Over
    <2>4. (~Over' /\ forwarder' = "delta") => forwarder = "delta"
        BY <1>20 DEF Finish
    <2>5. (~Over' /\ Intact') => Intact /\ made' + InHand = made + InHand'
        BY <1>2, <1>20 DEF Finish, Intact, InHand, Over, Wiring
    <2> QED
        BY <1>2, <2>1, <2>2, <2>3, <2>4, <2>5, FlowKept
<1>21. CASE \E k \in Both : SeesClosed(k)
    <2>1. Queue' = Queue
        BY <1>21 DEF SeesClosed, Queue
    <2>2. UNCHANGED <<wire, held>>
        BY <1>21 DEF SeesClosed
    <2>3. Over => Over'
        BY <1>21 DEF SeesClosed, Looping, Over
    <2>4. (~Over' /\ forwarder' = "delta") => forwarder = "delta"
        BY <1>21 DEF SeesClosed
    <2>5. (~Over' /\ Intact') => Intact /\ made' + InHand = made + InHand'
        BY <1>2, <1>21 DEF SeesClosed, Intact, InHand, Over, Wiring
    <2> QED
        BY <1>2, <2>1, <2>2, <2>3, <2>4, <2>5, FlowKept
<1>22. CASE CallFails
    <2>1. Queue = <<>>
        BY <1>22 DEF CallFails, Wiring, Queue, NewPair
    <2>2. Queue' = Queue
        BY <1>1, <1>22, <2>1 DEF CallFails, Queue, FailedPair, ChanOK
    <2>3. UNCHANGED <<wire, held>>
        BY <1>22 DEF CallFails
    <2>4. Over => Over'
        BY <1>22 DEF CallFails, Returned, Looping, Over
    <2>5. (~Over' /\ forwarder' = "delta") => forwarder = "delta"
        BY <1>22 DEF CallFails
    <2>6. (~Over' /\ Intact') => Intact /\ made' + InHand = made + InHand'
        BY <1>2, <1>22 DEF CallFails, Intact, InHand, Over, Wiring
    <2> QED
        BY <1>2, <2>2, <2>3, <2>4, <2>5, <2>6, FlowKept
<1>23. CASE CallStarts
    <2>1. Queue' = Queue
        BY <1>23 DEF CallStarts, Queue
    <2>2. UNCHANGED <<wire, held>>
        BY <1>23 DEF CallStarts
    <2>3. Over => Over'
        BY <1>23 DEF CallStarts, Returned, Looping, Over
    <2>4. (~Over' /\ forwarder' = "delta") => forwarder = "delta"
        BY <1>23 DEF CallStarts
    <2>5. (~Over' /\ Intact') => Intact /\ made' + InHand = made + InHand'
        BY <1>2, <1>23 DEF CallStarts, Intact, InHand, Over, Wiring
    <2> QED
        BY <1>2, <2>1, <2>2, <2>3, <2>4, <2>5, FlowKept
<1>24. CASE Dial
    <2>1. Queue' = Queue
        BY <1>24 DEF Dial, Queue, Producing
    <2>2. UNCHANGED <<wire, held>>
        BY <1>24 DEF Dial, Producing
    <2>3. Over => Over'
        BY <1>24 DEF Dial, Producing, Looping, Over
    <2>4. (~Over' /\ forwarder' = "delta") => forwarder = "delta"
        BY <1>24 DEF Dial, Producing
    <2>5. (~Over' /\ Intact') => Intact /\ made' + InHand = made + InHand'
        BY <1>2, <1>24 DEF Dial, Producing, Intact, InHand, Over, Wiring
    <2> QED
        BY <1>2, <2>1, <2>2, <2>3, <2>4, <2>5, FlowKept
<1>25. CASE Upstream
    <2>1. Queue' = Queue
        BY <1>25 DEF Upstream, Queue, Producing
    <2>2. UNCHANGED <<wire, held>>
        BY <1>25 DEF Upstream, Producing
    <2>3. Over => Over'
        BY <1>25 DEF Upstream, Producing, Looping, Over
    <2>4. (~Over' /\ forwarder' = "delta") => forwarder = "delta"
        BY <1>25 DEF Upstream, Producing
    <2>5. made' + InHand = made + InHand'
        <3>1. forwarder' = forwarder /\ producer = "read"
            BY <1>25 DEF Upstream, Producing
        <3>2. CASE made' = made + 1 /\ producer' = "send"
            BY <1>2, <3>1, <3>2 DEF InHand
        <3>3. CASE made' = made /\ producer' \in {"close", "fail"}
            BY <1>2, <3>1, <3>3 DEF InHand
        <3> QED
            BY <1>25, <3>2, <3>3 DEF Upstream
    <2>6. (~Over' /\ Intact') => Intact /\ made' + InHand = made + InHand'
        BY <2>5, <1>2, <1>25
           DEF Upstream, Producing, Intact, InHand, Over, Wiring
    <2> QED
        BY <1>2, <2>1, <2>2, <2>3, <2>4, <2>6, FlowKept
<1>26. CASE Leave
    <2>1. Queue' = Queue
        BY <1>26 DEF Leave, Queue
    <2>2. UNCHANGED <<wire, held>>
        BY <1>26 DEF Leave
    <2>3. Over => Over'
        BY <1>26 DEF Leave, Looping, Over
    <2>4. (~Over' /\ forwarder' = "delta") => forwarder = "delta"
        BY <1>26 DEF Leave
    <2>5. (~Over' /\ Intact') => Intact /\ made' + InHand = made + InHand'
        BY <1>2, <1>26 DEF Leave, Intact, InHand, Over, Wiring
    <2> QED
        BY <1>2, <2>1, <2>2, <2>3, <2>4, <2>5, FlowKept
<1>27. CASE Expire
    <2>1. Queue' = Queue
        BY <1>27 DEF Expire, Queue
    <2>2. UNCHANGED <<wire, held>>
        BY <1>27 DEF Expire
    <2>3. Over => Over'
        BY <1>27 DEF Expire, Looping, Over
    <2>4. (~Over' /\ forwarder' = "delta") => forwarder = "delta"
        BY <1>27 DEF Expire
    <2>5. (~Over' /\ Intact') => Intact /\ made' + InHand = made + InHand'
        BY <1>2, <1>27 DEF Expire, Intact, InHand, Over, Wiring
    <2> QED
        BY <1>2, <2>1, <2>2, <2>3, <2>4, <2>5, FlowKept
<1> QED
    BY StepCases, <1>4, <1>5, <1>6, <1>7, <1>8, <1>9, <1>10, <1>11, <1>12,
       <1>13, <1>14, <1>15, <1>16, <1>17, <1>18, <1>19, <1>20, <1>21, <1>22,
       <1>23, <1>24, <1>25, <1>26, <1>27

----------------------------------------------------------------------------
(* How answers end                                                         *)

\* An answer that is over stays as it is, and no more is read for it.
LEMMA OverStays ==
    ASSUME Next, Over
    PROVE  UNCHANGED <<source, sink, writer, wire, made, expired, failed>>
<1> USE DEF Over, Ends
<1>1. CASE Cancelled \/ Buffer \/ Fail \/ ProducerCloses
    BY <1>1 DEF Cancelled, Buffer, Fail, ProducerCloses, Producing, NoFault,
                route
<1>2. CASE FwdTakes \/ FwdTakesError \/ FwdSendsError \/ FwdCloses
              \/ \E k \in Both : FwdSeesClosed(k)
    BY <1>2 DEF FwdTakes, FwdTakesError, FwdSendsError, FwdCloses,
                FwdSeesClosed, Forwarding, NoFault, route
<1>3. CASE FwdStops \/ Leave \/ Expire
    BY <1>3 DEF FwdStops, Leave, Expire, NoFault, route
<1>4. ~(Inspect \/ First \/ CallFails \/ CallStarts \/ Finish)
    BY DEF Inspect, First, CallFails, CallStarts, Finish
<1>5. ~(TakeDelta \/ TakeError \/ Stop \/ \E k \in Both : SeesClosed(k))
    BY DEF TakeDelta, TakeError, Stop, SeesClosed, Looping
<1>6. ~(Dial \/ Upstream)
    BY DEF Dial, Upstream, UpstreamCtxOver, StreamCtxOver
<1> QED
    BY StepCases, <1>1, <1>2, <1>3, <1>4, <1>5, <1>6

\* The steps that end an answer with [DONE] or an error.
LEMMA EndingSteps ==
    ASSUME Next, ~Over, writer' \in {"done", "error"}
    PROVE  /\ UNCHANGED <<source, sink, wire, made, expired, failed>>
           /\ \/ writer = "loop" /\ ~Loops /\ writer' = "done"
              \/ chan["down"].err /\ writer' = "error"
<1> USE DEF Over, Ends
<1>1. CASE Finish \/ TakeError \/ First
    BY <1>1 DEF Finish, TakeError, First, NoFault, route
<1>2. ~(Cancelled \/ Buffer \/ Fail \/ ProducerCloses \/ Dial \/ Upstream)
    BY DEF Cancelled, Buffer, Fail, ProducerCloses, Dial, Upstream, Producing
<1>3. ~(FwdTakes \/ FwdTakesError \/ FwdSendsError \/ FwdCloses
           \/ \E k \in Both : FwdSeesClosed(k))
    BY DEF FwdTakes, FwdTakesError, FwdSendsError, FwdCloses, FwdSeesClosed,
           Forwarding
<1>4. ~(FwdStops \/ Leave \/ Expire \/ CallFails \/ CallStarts \/ Inspect)
    BY DEF FwdStops, Leave, Expire, CallFails, CallStarts, Inspect, Returned
<1>5. ~(TakeDelta \/ Stop \/ \E k \in Both : SeesClosed(k))
    BY DEF TakeDelta, Stop, SeesClosed, Write, Looping
<1> QED
    BY StepCases, <1>1, <1>2, <1>3, <1>4, <1>5

\* When the writer is done with the deltas, or a native stream has told its
\* error, no delta is in the buffer or in anybody's hand.
LEMMA NothingLeft ==
    ASSUME TypeInv, Wiring, Relaying, Flow, ~Over, ~expired,
           \/ writer = "loop" /\ "deltas" \notin hears
           \/ source = "native" /\ chan["down"].err
    PROVE  Len(wire) = made
<1>1. ChanOK /\ RestOK /\ wire \in Seq(1..MaxDeltas)
    BY TypeParts
<1>2. source \in {"native", "backend"}
    BY <1>1, ChatAssumption DEF RestOK
<1>3. Queue = <<>>
    BY DEF Wiring, Relaying, Drained, Both, Queue
<1>4. forwarder # "delta" /\ producer # "send"
    <2>1. CASE source = "native" /\ chan["down"].err
        BY <2>1 DEF Relaying, Stillborn, Finishing
    <2>2. CASE /\ source = "native"
               /\ writer = "loop" /\ "deltas" \notin hears
        <3>1. Stillborn \/ forwarder = "ended"
            BY <2>2 DEF Wiring, Relaying, Drained, Both
        <3>2. CASE Stillborn
            BY <3>2 DEF Stillborn
        <3>3. CASE forwarder = "ended"
            <4>1. Drained("up", "deltas")
                BY <2>2, <3>3 DEF Relaying, Finishing, Both
            <4> QED
                BY <2>2, <3>3, <4>1 DEF Wiring, Drained, Out
        <3> QED
            BY <3>1, <3>2, <3>3
    <2>3. CASE /\ source = "backend"
               /\ writer = "loop" /\ "deltas" \notin hears
        BY <2>3 DEF Wiring, Drained, Both, Out
    <2> QED
        BY <1>2, <2>1, <2>2, <2>3
<1>5. made = Len(wire) + Len(Queue) + InHand
    BY DEF Flow, Intact
<1>6. InHand = 0
    BY <1>4 DEF InHand
<1> QED
    BY <1>1, <1>3, <1>5, <1>6 DEF RestOK

LEMMA CompleteStep ==
    ASSUME TypeInv, Wiring, Relaying, Flow, EndsComplete, [Next]_vars
    PROVE  EndsComplete'
<1>1. CASE UNCHANGED vars
    BY <1>1 DEF vars, route, EndsComplete
<1>2. CASE Next /\ Over
    BY <1>2, OverStays DEF EndsComplete
<1>3. CASE Next /\ ~Over
    <2>1. SUFFICES ASSUME ~expired', writer' = "done"
                             \/ (writer' = "error" /\ source' = "native")
                   PROVE  Len(wire') = made'
        BY DEF EndsComplete
    <2>2. /\ UNCHANGED <<source, sink, wire, made, expired>>
          /\ \/ writer = "loop" /\ ~Loops /\ writer' = "done"
             \/ chan["down"].err /\ writer' = "error"
        BY <1>3, <2>1, EndingSteps
    <2>3. ~Loops => "deltas" \notin hears
        BY DEF Loops
    <2>4. Len(wire) = made
        BY <1>3, <2>1, <2>2, <2>3, NothingLeft
    <2> QED
        BY <2>2, <2>4
<1> QED
    BY <1>1, <1>2, <1>3

\* A chat writer has heard of every failure before it ends its loop.
LEMMA ToldStep ==
    ASSUME TypeInv, Wiring, Relaying, Pending, ChatErrorsAreTold, [Next]_vars
    PROVE  ChatErrorsAreTold'
<1>1. CASE UNCHANGED vars
    BY <1>1 DEF vars, route, ChatErrorsAreTold
<1>2. CASE Next /\ Over
    BY <1>2, OverStays DEF ChatErrorsAreTold
<1>3. CASE Next /\ ~Over
    <2>1. SUFFICES ASSUME sink' # "responses", failed', ~expired',
                          writer' = "done"
                   PROVE  FALSE
        BY DEF ChatErrorsAreTold
    <2>2. /\ UNCHANGED <<source, sink, expired, failed>>
          /\ writer = "loop" /\ ~Loops
        BY <1>3, <2>1, EndingSteps
    <2>3. hears = {}
        BY <2>1, <2>2 DEF Loops
    <2>4. /\ Drained("down", "errs") /\ Drained("down", "deltas")
        BY <2>3 DEF Wiring, Both
    <2>5. \/ producer = "fail" \/ chan["up"].err \/ forwarder = "error"
        BY <1>3, <2>1, <2>2, <2>4 DEF Pending, Drained
    <2>6. source \in {"native", "backend"}
        BY ChatAssumption DEF TypeInv, TypeOK
    <2>7. CASE source = "backend"
        BY <2>4, <2>5, <2>7 DEF Wiring, Drained, Out, Finishing
    <2>8. CASE source = "native"
        <3>1. Stillborn \/ forwarder = "ended"
            BY <2>4, <2>8 DEF Relaying, Drained
        <3>2. CASE Stillborn
            BY <2>2, <2>5, <2>8, <3>2 DEF Relaying, Stillborn
        <3>3. CASE forwarder = "ended"
            <4>1. Drained("up", "errs") /\ Drained("up", "deltas")
                BY <1>3, <2>1, <2>2, <2>8, <3>3 DEF Relaying, Finishing, Both
            <4> QED
                BY <2>5, <2>8, <3>3, <4>1 DEF Wiring, Drained, Out
        <3> QED
            BY <3>1, <3>2, <3>3
    <2> QED
        BY <2>6, <2>7, <2>8
<1> QED
    BY <1>1, <1>2, <1>3

LEMMA PendingStep ==
    ASSUME TypeInv, Wiring, Relaying, Pending, [Next]_vars
    PROVE  Pending'
<1> USE DEF Over, Ends, MayFail, NoFault, StreamCtxOver, UpstreamCtxOver,
            route
<1>1. ChanOK /\ RestOK
    BY TypeParts
<1>2. source \in {"native", "backend"}
    BY <1>1, ChatAssumption DEF RestOK
<1>3. CASE UNCHANGED vars
    BY <1>3 DEF vars, Pending
<1>4. CASE Cancelled
    BY <1>2, <1>4 DEF Cancelled, Producing, Wiring, Pending
<1>5. CASE Buffer
    <2>1. chan'["up"] = chan["up"] /\ chan'["down"].err = chan["down"].err
        BY <1>1, <1>5, DeltasSet DEF Buffer
    <2> QED
        BY <1>5, <2>1 DEF Buffer, Producing, Pending
<1>6. CASE Fail
    <2>1. \/ chan' = [chan EXCEPT ![Out].err = TRUE]
          \/ source = "backend" /\ UpstreamCtxOver
        BY <1>6 DEF Fail
    <2>2. CASE chan' = [chan EXCEPT ![Out].err = TRUE]
        <3>1. chan'["up"].err \/ chan'["down"].err
            BY <1>1, <2>2, ErrSet DEF Out
        <3> QED
            BY <3>1 DEF Pending
    <2>3. CASE source = "backend" /\ UpstreamCtxOver
        BY <1>6, <2>3 DEF Fail, Producing, Pending
    <2> QED
        BY <2>1, <2>2, <2>3
<1>7. CASE ProducerCloses
    <2>1. Close(Out)
        BY <1>7 DEF ProducerCloses
    <2>2. /\ chan'["up"].err = chan["up"].err
          /\ chan'["down"].err = chan["down"].err
        BY <1>1, <2>1, Closing DEF Out
    <2> QED
        BY <1>7, <2>2 DEF ProducerCloses, Producing, Pending
<1>8. CASE FwdTakes
    BY <1>2, <1>8 DEF FwdTakes, Forwarding, Wiring, Pending
<1>9. CASE FwdTakesError
    <2> QED
        BY <1>9 DEF FwdTakesError, Pending
<1>10. CASE FwdSendsError
    <2>1. chan'["down"].err
        BY <1>1, <1>10, ErrSet DEF FwdSendsError
    <2> QED
        BY <2>1 DEF Pending
<1>11. CASE FwdStops
    BY <1>2, <1>11 DEF FwdStops, FwdMayStop, Wiring, Pending
<1>12. CASE FwdCloses
    <2>1. Close("down")
        BY <1>12 DEF FwdCloses
    <2>2. /\ chan'["up"].err = chan["up"].err
          /\ chan'["down"].err = chan["down"].err
        BY <1>1, <2>1, Closing DEF Out
    <2> QED
        BY <1>12, <2>2 DEF FwdCloses, Forwarding, Pending
<1>13. CASE \E k \in Both : FwdSeesClosed(k)
    BY <1>2, <1>13 DEF FwdSeesClosed, Forwarding, Wiring, Pending
<1>14. CASE Inspect
    <2>1. CASE chan["up"].err
        <3>1. chan'["down"].err
            BY <1>1, <1>14, <2>1 DEF Inspect, FailedPair, ChanOK
        <3> QED
            BY <3>1 DEF Pending
    <2>2. CASE ~chan["up"].err
        BY <1>14, <2>2 DEF Inspect, Wiring, Pending
    <2> QED
        BY <2>1, <2>2
<1>15. CASE First
    <2>1. CASE chan["down"].err
        BY <1>15, <2>1 DEF First, Pending
    <2>2. CASE ~chan["down"].err
        BY <1>15, <2>2 DEF First, Pending
    <2> QED
        BY <2>1, <2>2
<1>16. CASE TakeDelta
    <2>1. chan'["up"] = chan["up"] /\ chan'["down"].err = chan["down"].err
        BY <1>1, <1>16, DeltasSet DEF TakeDelta
    <2>2. ~Over /\ UNCHANGED <<producer, failed, expired>>
        BY <1>16 DEF TakeDelta, Looping
    <2>3. forwarder = "error" => forwarder' = "error"
        BY <1>16 DEF TakeDelta
    <2> QED
        BY <2>1, <2>2, <2>3 DEF Pending
<1>17. CASE TakeError
    <2>1. CASE chan["down"].err
        BY <1>17, <2>1 DEF TakeError, Pending
    <2> QED
        BY <1>17, <2>1 DEF TakeError
<1>18. CASE Stop
    BY <1>2, <1>18 DEF Stop, Looping, Wiring, Pending
<1>19. CASE Finish
    BY <1>2, <1>19 DEF Finish, Looping, Wiring, Pending
<1>20. CASE \E k \in Both : SeesClosed(k)
    BY <1>2, <1>20 DEF SeesClosed, Looping, Wiring, Pending
<1>21. CASE CallFails
    <2>1. chan'["down"].err
        BY <1>1, <1>21 DEF CallFails, FailedPair, ChanOK
    <2> QED
        BY <2>1 DEF Pending
<1>22. CASE CallStarts
    BY <1>2, <1>22 DEF CallStarts, Returned, Wiring, Pending
<1>23. CASE Dial
    BY <1>2, <1>23 DEF Dial, Producing, Wiring, Pending
<1>24. CASE Upstream
    BY <1>2, <1>24 DEF Upstream, Producing, Wiring, Pending
<1>25. CASE Leave
    BY <1>2, <1>25 DEF Leave, Wiring, Pending
<1>26. CASE Expire
    BY <1>2, <1>26 DEF Expire, Wiring, Pending
<1> QED
    BY StepCases, <1>3, <1>4, <1>5, <1>6, <1>7, <1>8, <1>9, <1>10, <1>11,
       <1>12, <1>13, <1>14, <1>15, <1>16, <1>17, <1>18, <1>19, <1>20, <1>21,
       <1>22, <1>23, <1>24, <1>25, <1>26

----------------------------------------------------------------------------
(* The theorems                                                            *)

ChatInv ==
    TypeInv /\ Wiring /\ Relaying /\ Flow /\ InOrder /\ EndsComplete

LEMMA InvariantHolds == Spec => []ChatInv
<1>1. Init => ChatInv
    <2>1. Init => EndsComplete
        BY DEF Init, EndsComplete
    <2> QED
        BY <2>1, TypeInit, WiringInit, FlowInit DEF ChatInv
<1>2. ChatInv /\ [Next]_vars => ChatInv'
    <2> SUFFICES ASSUME ChatInv, [Next]_vars PROVE ChatInv'
        OBVIOUS
    <2>1. TypeInv'
        BY TypeStep DEF ChatInv
    <2>2. Wiring' /\ Relaying'
        BY WiringStep DEF ChatInv
    <2>3. Flow' /\ InOrder'
        BY <2>1, FlowStep DEF ChatInv
    <2>4. EndsComplete'
        BY CompleteStep DEF ChatInv
    <2> QED
        BY <2>1, <2>2, <2>3, <2>4 DEF ChatInv
<1> QED
    BY <1>1, <1>2, PTL DEF Spec

\* The client gets the upstream's deltas in order, none twice, none skipped,
\* for any capacity of the buffer and any number of deltas and failures.
THEOREM DeltasInOrder == Spec => []InOrder
<1>1. ChatInv => InOrder
    BY DEF ChatInv
<1> QED
    BY <1>1, InvariantHolds, PTL

\* An answer that ended for its client brought it everything that was read.
THEOREM AnswersAreComplete == Spec => []EndsComplete
<1>1. ChatInv => EndsComplete
    BY DEF ChatInv
<1> QED
    BY <1>1, InvariantHolds, PTL

\* No chat or messages stream ends as a success when its upstream failed.
THEOREM FailuresReachTheClient == Spec => []ChatErrorsAreTold
<1>1. Init => Pending /\ ChatErrorsAreTold
    BY DEF Init, Pending, ChatErrorsAreTold
<1>2. /\ ChatInv /\ Pending /\ ChatErrorsAreTold /\ [Next]_vars
      => Pending' /\ ChatErrorsAreTold'
    <2> SUFFICES ASSUME ChatInv, Pending, ChatErrorsAreTold, [Next]_vars
                 PROVE  Pending' /\ ChatErrorsAreTold'
        OBVIOUS
    <2>1. TypeInv /\ Wiring /\ Relaying
        BY DEF ChatInv
    <2> QED
        BY <2>1, PendingStep, ToldStep
<1> QED
    BY <1>1, <1>2, InvariantHolds, PTL DEF Spec

----------------------------------------------------------------------------
(* No answer is stuck                                                      *)

\* A goroutine that has ended has closed what it sends on, and only one of
\* those that may hold a failure does.
Settled ==
    /\ producer = "none" =>
         /\ forwarder = "none" /\ writer # "inspect"
         /\ source = "backend" => writer = "call"
    /\ producer = "ended" => chan[Out].open = {}
    /\ forwarder = "ended" => chan["down"].open = {}
    /\ (source = "native" /\ forwarder = "none" /\ writer \notin {"call", "inspect"}) =>
         chan["down"].open = {}
    /\ forwarder = "error" => ~chan["up"].err /\ ~chan["down"].err
    /\ source = "native" => ~(chan["up"].err /\ chan["down"].err)

LEMMA SettledInit == Init => Settled
BY DEF Init, Settled, NewPair

\* What the two calls that make a failed stream do to the channels.
LEMMA FailedCall ==
    ASSUME ChanOK, Inspect, chan["up"].err
    PROVE  /\ ~chan'["up"].err /\ chan'["down"] = FailedPair
           /\ chan'["up"].open = chan["up"].open
           /\ chan'["up"].deltas = chan["up"].deltas
<1> DEFINE r == [chan["up"] EXCEPT !.err = FALSE]
<1>1. r.deltas = chan["up"].deltas /\ r.open = chan["up"].open /\ ~r.err
    BY DEF ChanOK, Pair
<1>2. chan' = [chan EXCEPT !["up"] = r, !["down"] = FailedPair]
    BY DEF Inspect
<1> HIDE DEF r
<1> QED
    BY <1>1, <1>2 DEF ChanOK

LEMMA SettledStep ==
    ASSUME TypeInv, Wiring, Relaying, Settled, [Next]_vars
    PROVE  Settled'
<1> USE DEF Stillborn, Finishing, Out, route, Ends
<1>1. ChanOK /\ RestOK
    BY TypeParts
<1>2. source \in {"native", "backend"}
    BY <1>1, ChatAssumption DEF RestOK
<1>3. CASE Cancelled \/ Dial \/ Upstream
    BY <1>1, <1>3 DEF Cancelled, Dial, Upstream, Producing, Settled
<1>4. CASE Buffer
    <2>1. chan' = [chan EXCEPT !["down"].deltas = Append(@, made)]
          \/ UNCHANGED chan
        BY <1>4 DEF Buffer
    <2>2. /\ chan'["up"] = chan["up"]
          /\ chan'["down"].err = chan["down"].err
          /\ chan'["down"].open = chan["down"].open
        BY <1>1, <2>1, DeltasSet
    <2> QED
        BY <1>4, <2>2 DEF Buffer, Producing, Settled
<1>5. CASE Fail
    <2>1. chan' = [chan EXCEPT ![Out].err = TRUE] \/ UNCHANGED chan
        BY <1>5 DEF Fail
    <2>2. /\ chan'[Out].err \in {chan[Out].err, TRUE}
          /\ chan'[Out].open = chan[Out].open
          /\ \A q \in {"up", "down"} \ {Out} : chan'[q] = chan[q]
        BY <1>1, <2>1, ErrSet
    <2> QED
        BY <1>1, <1>2, <1>5, <2>2
           DEF Fail, Producing, Settled, Wiring, Relaying
<1>6. CASE ProducerCloses
    <2>1. Close(Out)
        BY <1>6 DEF ProducerCloses
    <2>2. /\ chan'[Out].open = IF "errs" \in chan[Out].open
                                THEN chan[Out].open \ {"errs"} ELSE {}
          /\ chan'[Out].err = chan[Out].err
          /\ \A q \in {"up", "down"} \ {Out} : chan'[q] = chan[q]
        BY <1>1, <2>1, Closing
    <2> QED
        BY <1>1, <1>2, <1>6, <2>2
           DEF ProducerCloses, Closed, Producing, Settled, Wiring
<1>7. CASE FwdTakes \/ \E k \in Both : FwdSeesClosed(k)
    BY <1>7 DEF FwdTakes, FwdSeesClosed, Forwarding, Settled
<1>8. CASE FwdTakesError
    <2>1. chan' = [chan EXCEPT !["up"].err = FALSE]
        BY <1>8 DEF FwdTakesError
    <2>2. /\ chan'["up"].err = FALSE
          /\ chan'["up"].open = chan["up"].open
          /\ chan'["down"] = chan["down"]
        BY <1>1, <2>1, ErrSet
    <2> QED
        BY <1>2, <1>8, <2>2 DEF FwdTakesError, Forwarding, Settled, Wiring
<1>9. CASE FwdSendsError
    <2>1. chan' = [chan EXCEPT !["down"].err = TRUE]
        BY <1>9 DEF FwdSendsError
    <2>2. /\ chan'["down"].err = TRUE
          /\ chan'["down"].open = chan["down"].open
          /\ chan'["up"] = chan["up"]
        BY <1>1, <2>1, ErrSet
    <2> QED
        BY <1>2, <1>9, <2>2 DEF FwdSendsError, Forwarding, Settled, Wiring
<1>10. CASE FwdStops
    BY <1>10 DEF FwdStops, FwdMayStop, Settled
<1>11. CASE FwdCloses
    <2>1. Close("down")
        BY <1>11 DEF FwdCloses
    <2>2. /\ chan'["down"].open = IF "errs" \in chan["down"].open
                                   THEN chan["down"].open \ {"errs"} ELSE {}
          /\ chan'["down"].err = chan["down"].err
          /\ chan'["up"] = chan["up"]
        BY <1>1, <2>1, Closing
    <2> QED
        BY <1>2, <1>11, <2>2 DEF FwdCloses, Closed, Forwarding, Settled, Wiring
<1>12. CASE Inspect
    <2>1. CASE chan["up"].err
        <3>1. producer \in Finishing /\ producer' = producer /\ source' = source
            BY <1>12, <2>1 DEF Inspect, Wiring, Relaying
        <3>2. forwarder' = "none" /\ source = "native"
            BY <1>12, <2>1 DEF Inspect, Wiring
        <3>3. /\ ~chan'["up"].err /\ chan'["down"].open = {}
              /\ chan'["up"].open = chan["up"].open
            BY <1>1, <1>12, <2>1, FailedCall DEF FailedPair
        <3> QED
            BY <3>1, <3>2, <3>3 DEF Settled
    <2>2. CASE ~chan["up"].err
        BY <1>12, <2>2 DEF Inspect, Settled, Wiring, NewPair, Returned
    <2> QED
        BY <2>1, <2>2
<1>13. CASE First \/ TakeError
    <2>1. chan' = [chan EXCEPT !["down"].err = FALSE] \/ UNCHANGED chan
        BY <1>13 DEF First, TakeError
    <2>2. /\ chan'["down"].err \in {chan["down"].err, FALSE}
          /\ chan'["down"].open = chan["down"].open
          /\ chan'["up"] = chan["up"]
        BY <1>1, <2>1, ErrSet
    <2>3. /\ UNCHANGED <<source, producer, forwarder>>
          /\ writer \in {"first", "loop"} /\ writer' # "inspect"
        BY <1>13 DEF First, TakeError, Looping
    <2> QED
        BY <1>2, <2>2, <2>3 DEF Settled
<1>14. CASE TakeDelta
    <2>1. \/ UNCHANGED chan
          \/ chan' = [chan EXCEPT !["down"].deltas = Tail(@)]
        BY <1>14 DEF TakeDelta
    <2>2. /\ chan'["down"].err = chan["down"].err
          /\ chan'["down"].open = chan["down"].open
          /\ chan'["up"] = chan["up"]
        BY <1>1, <2>1, DeltasSet
    <2>3. /\ UNCHANGED <<source, producer>>
          /\ writer = "loop" /\ writer' # "inspect"
          /\ forwarder' = forwarder \/ (forwarder = "delta" /\ forwarder' = "loop")
        BY <1>14 DEF TakeDelta, Looping, Write
    <2> QED
        BY <1>2, <2>2, <2>3 DEF Settled, Wiring
<1>15. CASE Stop \/ Finish \/ Leave \/ Expire \/ \E k \in Both : SeesClosed(k)
    BY <1>15 DEF Stop, Finish, Leave, Expire, SeesClosed, Looping, Settled
<1>16. CASE CallFails
    BY <1>1, <1>16
       DEF CallFails, Settled, Wiring, NewPair, FailedPair, ChanOK, Returned
<1>17. CASE CallStarts
    BY <1>2, <1>17 DEF CallStarts, Settled, Wiring, NewPair, Returned
<1>18. CASE UNCHANGED vars
    BY <1>18 DEF vars, Settled
<1> QED
    BY StepCases, <1>3, <1>4, <1>5, <1>6, <1>7, <1>8, <1>9, <1>10, <1>11,
       <1>12, <1>13, <1>14, <1>15, <1>16, <1>17, <1>18
----------------------------------------------------------------------------
(* What each goroutine may do next: the guards of its steps.               *)

\* Buffer, Fail, ProducerCloses, Cancelled.
ProducerMayMove ==
    \/ producer \in {"fail", "close"}
    \/ producer = "send" /\ source = "backend" /\ (Room("down") \/ UpstreamCtxOver)
    \/ producer \in {"dial", "read"} /\ UpstreamCtxOver

\* FwdTakes, FwdTakesError, FwdSeesClosed, FwdSendsError, FwdStops, FwdCloses.
ForwarderMayMove ==
    \/ /\ forwarder = "loop"
       /\ \/ "deltas" \in fwd /\ producer = "send"
          \/ "errs" \in fwd /\ chan["up"].err
          \/ \E k \in fwd : Drained("up", k)
    \/ forwarder = "error" /\ ~chan["down"].err
    \/ FwdMayStop
    \/ forwarder = "close"

\* Inspect, First, Finish, TakeDelta, TakeError, SeesClosed, Stop.
WriterMayMove ==
    \/ writer \in {"inspect", "first"}
    \/ writer = "loop" /\ ~Loops
    \/ /\ Looping
       /\ \/ "deltas" \in hears /\ (forwarder = "delta" \/ Queue # <<>>)
          \/ "errs" \in hears /\ chan["down"].err
          \/ \E k \in hears : Drained("down", k)
          \/ gone

\* Until an answer is over one of its goroutines may move, or all wait for the
\* upstream's next bytes and the client is there; after that, what is left of
\* the gateway's goroutines may move by itself (chat_service.go:63-316,
\* backend_chat.go:87-157, handlers.go:577-617, research.go:612-665).
AnswerCanGoOn ==
    /\ writer \notin Ends \cup {"call"} =>
         \/ ProducerMayMove \/ ForwarderMayMove \/ WriterMayMove
         \/ producer \in {"dial", "read"} /\ ~gone
    /\ Over =>
         /\ forwarder \in {"none", "ended"} \/ ForwarderMayMove
         /\ source = "backend" =>
              producer \in {"none", "ended"} \/ ProducerMayMove

\* A writer that waits can be served, as long as the upstream is not waited for.
LEMMA WriterServed ==
    ASSUME TypeInv, Wiring, Relaying, Settled, Looping, ~gone,
           producer \notin {"dial", "read"}
    PROVE  ProducerMayMove \/ ForwarderMayMove \/ WriterMayMove
<1> SUFFICES ASSUME ~ProducerMayMove, ~WriterMayMove
             PROVE  ForwarderMayMove
    OBVIOUS
<1>1. ChanOK /\ RestOK
    BY TypeParts
<1>2. source \in {"native", "backend"}
    BY <1>1, ChatAssumption DEF RestOK
<1>3. PICK k \in hears : TRUE
    BY <1>1 DEF Looping, Loops, RestOK
<1>4. k \in Both /\ hears \subseteq Both
    BY <1>1, <1>3 DEF RestOK
<1>5. chan["down"].open # {}
    BY <1>3, <1>4 DEF WriterMayMove, Drained, Both, Queue
<1>6. Queue = <<>>
    <2>1. CASE "deltas" \in hears
        BY <2>1 DEF WriterMayMove
    <2>2. CASE "deltas" \notin hears
        BY <2>2 DEF Wiring, Drained, Both, Queue
    <2> QED
        BY <2>1, <2>2
<1>7. writer = "loop"
    BY DEF Looping
<1>8. producer \in {"none", "send", "ended"}
    BY <1>1 DEF RestOK, Producers, ProducerMayMove
<1>9. CASE source = "backend"
    <2>1. producer = "send"
        BY <1>5, <1>7, <1>8, <1>9 DEF Settled, Out
    <2>2. Room("down")
        BY <1>6, ChatAssumption DEF Room, Queue
    <2> QED
        BY <1>9, <2>1, <2>2 DEF ProducerMayMove
<1>10. CASE source = "native"
    <2>1. forwarder \in {"loop", "delta", "error", "close"}
        BY <1>1, <1>5, <1>7, <1>10 DEF RestOK, Forwarders, Settled
    <2>2. CASE forwarder = "loop"
        <3>1. producer # "none"
            BY <2>2 DEF Settled
        <3>2. CASE fwd = {}
            BY <2>2, <3>2 DEF ForwarderMayMove, FwdMayStop
        <3>3. CASE producer = "send" /\ fwd # {}
            <4>1. "deltas" \in fwd
                BY <1>10, <3>3 DEF Relaying, Drained, Both, Wiring, Out
            <4> QED
                BY <2>2, <3>3, <4>1 DEF ForwarderMayMove
        <3>4. CASE producer = "ended" /\ fwd # {}
            <4>1. PICK j \in fwd : TRUE
                BY <3>4
            <4>2. j \in Both
                BY <1>1, <4>1 DEF RestOK
            <4>3. chan["up"].open = {} /\ chan["up"].deltas = <<>>
                BY <1>10, <3>4 DEF Settled, Wiring, Out
            <4>4. CASE chan["up"].err /\ j = "errs"
                BY <2>2, <4>1, <4>4 DEF ForwarderMayMove
            <4>5. CASE ~chan["up"].err \/ j = "deltas"
                BY <2>2, <4>1, <4>2, <4>3, <4>5
                   DEF ForwarderMayMove, Drained, Both
            <4> QED
                BY <4>2, <4>4, <4>5 DEF Both
        <3> QED
            BY <1>8, <3>1, <3>2, <3>3, <3>4
    <2>3. CASE forwarder = "delta"
        <3>1. "deltas" \in hears
            BY <1>7, <1>10, <2>3
               DEF Wiring, Relaying, Drained, Both, Stillborn
        <3> QED
            BY <2>3, <3>1 DEF WriterMayMove
    <2>4. CASE forwarder \in {"error", "close"}
        BY <2>4 DEF Settled, ForwarderMayMove
    <2> QED
        BY <2>1, <2>2, <2>3, <2>4
<1> QED
    BY <1>2, <1>9, <1>10

\* Nobody waits in vain: of the goroutines of an answer one can always go on, unless all
\* wait for the upstream of a client that is there; those of an answer that is over
\* (but for the native producer, finding 5) need nobody to end.
THEOREM AnswersAreNeverStuck == Spec => []AnswerCanGoOn
<1>1. ChatInv /\ Settled => AnswerCanGoOn
    <2> SUFFICES ASSUME TypeInv, Wiring, Relaying, Settled
                 PROVE  AnswerCanGoOn
        BY DEF ChatInv
    <2>1. ChanOK /\ RestOK
        BY TypeParts
    <2>2. ASSUME Over
          PROVE  /\ forwarder \in {"none", "ended"} \/ ForwarderMayMove
                 /\ source = "backend" =>
                      producer \in {"none", "ended"} \/ ProducerMayMove
        <3>1. UpstreamCtxOver
            BY <2>2 DEF UpstreamCtxOver, StreamCtxOver
        <3>2. producer \in Producers /\ forwarder \in Forwarders
            BY <2>1 DEF RestOK
        <3> QED
            BY <3>1, <3>2 DEF Producers, Forwarders, FwdMayStop,
                              ForwarderMayMove, ProducerMayMove
    <2>3. ASSUME writer \notin Ends \cup {"call"}
          PROVE  \/ ProducerMayMove \/ ForwarderMayMove \/ WriterMayMove
                 \/ producer \in {"dial", "read"} /\ ~gone
        <3>1. writer \in {"inspect", "first", "loop"}
            BY <2>1, <2>3 DEF RestOK, Writers
        <3>2. CASE Looping /\ ~gone
            BY <3>2, WriterServed
        <3>3. CASE ~Looping \/ gone
            BY <3>1, <3>3 DEF Looping, WriterMayMove
        <3> QED
            BY <3>2, <3>3
    <2> QED
        BY <2>2, <2>3 DEF AnswerCanGoOn
<1>2. ChatInv /\ Settled /\ [Next]_vars => Settled'
    BY SettledStep DEF ChatInv
<1> QED
    BY <1>1, <1>2, SettledInit, InvariantHolds, PTL DEF Spec

----------------------------------------------------------------------------
(* Every answer ends                                                       *)

Count(S) == (IF "deltas" \in S THEN 1 ELSE 0)
              + (IF "errs" \in S THEN 1 ELSE 0)

\* A bound on the steps a goroutine and a channel still give cause for, as long
\* as no other delta arrives.
ProducerLeft ==
    CASE producer = "dial" -> 10
      [] producer = "read" -> 8
      [] producer = "send" -> 12
      [] producer = "fail" -> 6
      [] producer = "close" -> 1
      [] OTHER -> 0

ForwarderLeft ==
    CASE forwarder = "loop" -> 2
      [] forwarder = "delta" -> 4
      [] forwarder = "error" -> 5
      [] forwarder = "close" -> 1
      [] OTHER -> 0

WriterLeft ==
    CASE writer = "call" -> 40
      [] writer = "inspect" -> 12
      [] writer = "first" -> 4
      [] writer = "loop" -> 1
      [] OTHER -> 0

ErrorLeft(p) == IF chan[p].err THEN (IF p = "up" THEN 4 ELSE 2) ELSE 0

ChannelsLeft ==
    Len(Queue) + ErrorLeft("up") + ErrorLeft("down")
      + Count(chan["up"].open) + Count(chan["down"].open)

AnswerLeft ==
    ProducerLeft + ForwarderLeft + WriterLeft + ChannelsLeft
      + Count(fwd) + Count(hears)

\* Every step of the gateway's goroutines leaves less to do, and only another
\* delta of the upstream adds to it: once the upstream has ended, or its
\* request is cancelled, an answer takes finitely many steps.
AnswerRunsOut ==
    /\ Produce \/ Forward \/ Serve => AnswerLeft' < AnswerLeft
    /\ AnswerLeft' > AnswerLeft => Upstream /\ made' = made + 1

LEMMA Counting ==
    /\ \A S : Count(S) \in 0..2
    /\ \A S : "errs" \in S => Count(S \ {"errs"}) < Count(S)
    /\ \A S : "deltas" \in S => Count(S \ {"deltas"}) < Count(S)
    /\ Count({}) = 0
<1>1. \A S : Count(S) \in 0..2
    BY DEF Count
<1>2. ASSUME NEW S, "errs" \in S
      PROVE  Count(S \ {"errs"}) < Count(S)
    <2>1. "errs" \notin S \ {"errs"}
        OBVIOUS
    <2>2. "deltas" \in S \ {"errs"} <=> "deltas" \in S
        OBVIOUS
    <2> QED
        BY <1>2, <2>1, <2>2 DEF Count
<1>3. ASSUME NEW S, "deltas" \in S
      PROVE  Count(S \ {"deltas"}) < Count(S)
    <2>1. "deltas" \notin S \ {"deltas"}
        OBVIOUS
    <2>2. "errs" \in S \ {"deltas"} <=> "errs" \in S
        OBVIOUS
    <2> QED
        BY <1>3, <2>1, <2>2 DEF Count
<1>4. Count({}) = 0
    BY DEF Count
<1> QED
    BY <1>1, <1>2, <1>3, <1>4

LEMMA ChannelsLeftType ==
    /\ ChanOK => ChannelsLeft \in Nat
    /\ ChanOK' => ChannelsLeft' \in Nat
<1>1. \A S : Count(S) \in Nat
    BY Counting
<1>2. ASSUME ChanOK PROVE ChannelsLeft \in Nat
    <2>1. Len(Queue) \in Nat
        BY <1>2 DEF ChanOK, Pair, Queue
    <2>2. PICK l, n, m, e, d \in Nat :
             /\ l = Len(Queue)
             /\ n = Count(chan["up"].open) /\ m = Count(chan["down"].open)
             /\ e = ErrorLeft("up") /\ d = ErrorLeft("down")
        BY <1>1, <2>1 DEF ErrorLeft
    <2>3. ChannelsLeft = l + e + d + n + m
        BY <2>2 DEF ChannelsLeft
    <2> QED
        BY <2>3
<1>3. ASSUME ChanOK' PROVE ChannelsLeft' \in Nat
    <2>1. Len(Queue') \in Nat
        BY <1>3 DEF ChanOK, Pair, Queue
    <2>2. PICK l, n, m, e, d \in Nat :
             /\ l = Len(Queue')
             /\ n = Count(chan'["up"].open) /\ m = Count(chan'["down"].open)
             /\ e = ErrorLeft("up")' /\ d = ErrorLeft("down")'
        BY <1>1, <2>1 DEF ErrorLeft
    <2>3. ChannelsLeft' = l + e + d + n + m
        BY <2>2 DEF ChannelsLeft
    <2> QED
        BY <2>3
<1> QED
    BY <1>2, <1>3

\* What is left, as numbers to calculate with.
LEMMA Amounts ==
    ASSUME ChanOK, ChanOK'
    PROVE  \E p, f, w, c, n, m \in Nat, p1, f1, w1, c1, n1, m1 \in Nat :
             /\ p = ProducerLeft /\ f = ForwarderLeft /\ w = WriterLeft
             /\ c = ChannelsLeft /\ n = Count(fwd) /\ m = Count(hears)
             /\ p1 = ProducerLeft' /\ f1 = ForwarderLeft' /\ w1 = WriterLeft'
             /\ c1 = ChannelsLeft' /\ n1 = Count(fwd') /\ m1 = Count(hears')
             /\ AnswerLeft = p + f + w + c + n + m
             /\ AnswerLeft' = p1 + f1 + w1 + c1 + n1 + m1
<1>1. \A S : Count(S) \in Nat
    BY Counting
<1>2. /\ ProducerLeft \in Nat /\ ForwarderLeft \in Nat /\ WriterLeft \in Nat
      /\ ProducerLeft' \in Nat /\ ForwarderLeft' \in Nat /\ WriterLeft' \in Nat
    BY DEF ProducerLeft, ForwarderLeft, WriterLeft
<1>3. ChannelsLeft \in Nat /\ ChannelsLeft' \in Nat
    BY ChannelsLeftType
<1> USE <1>1, <1>2, <1>3
<1> WITNESS ProducerLeft \in Nat, ForwarderLeft \in Nat, WriterLeft \in Nat,
            ChannelsLeft \in Nat, Count(fwd) \in Nat, Count(hears) \in Nat,
            ProducerLeft' \in Nat, ForwarderLeft' \in Nat, WriterLeft' \in Nat,
            ChannelsLeft' \in Nat, Count(fwd') \in Nat, Count(hears') \in Nat
<1> QED
    BY DEF AnswerLeft

\* What closing a channel takes away.
LEMMA ClosingLeft ==
    ASSUME ChanOK, NEW p \in {"up", "down"}, Close(p)
    PROVE  /\ ChannelsLeft' <= ChannelsLeft
           /\ ~Closed(p) => ChannelsLeft' < ChannelsLeft
<1>1. /\ chan'[p].open = IF "errs" \in chan[p].open
                         THEN chan[p].open \ {"errs"} ELSE {}
      /\ chan'[p].err = chan[p].err
      /\ chan'[p].deltas = chan[p].deltas
      /\ \A q \in {"up", "down"} \ {p} : chan'[q] = chan[q]
    BY Closing
<1>2. Len(Queue) \in Nat /\ Queue' = Queue
    BY <1>1 DEF ChanOK, Pair, Queue
<1>3. \A q \in {"up", "down"} :
         ErrorLeft(q)' = ErrorLeft(q) /\ ErrorLeft(q) \in Nat
    BY <1>1 DEF ErrorLeft
<1>4. /\ Count(chan'[p].open) <= Count(chan[p].open)
      /\ ~Closed(p) => Count(chan'[p].open) < Count(chan[p].open)
    BY <1>1, Counting DEF Closed
<1>5. \A S : Count(S) \in Nat
    BY Counting
<1>6. PICK l, e, d, n, m, n1, m1 \in Nat :
         /\ l = Len(Queue) /\ e = ErrorLeft("up") /\ d = ErrorLeft("down")
         /\ n = Count(chan["up"].open) /\ m = Count(chan["down"].open)
         /\ n1 = Count(chan'["up"].open) /\ m1 = Count(chan'["down"].open)
    BY <1>2, <1>3, <1>5
<1>7. /\ n1 <= n /\ m1 <= m
      /\ ~Closed(p) => n1 < n \/ m1 < m
    <2>1. CASE p = "up"
        BY <1>1, <1>4, <1>6, <2>1
    <2>2. CASE p = "down"
        BY <1>1, <1>4, <1>6, <2>2
    <2> QED
        BY <2>1, <2>2
<1>8. ErrorLeft("up")' = e /\ ErrorLeft("down")' = d
    BY <1>3, <1>6
<1>9. /\ ChannelsLeft = l + e + d + n + m
      /\ ChannelsLeft' = l + e + d + n1 + m1
    BY <1>2, <1>6, <1>8 DEF ChannelsLeft
<1> QED
    BY <1>7, <1>9

\* What an error put into a channel adds, and one taken out takes away.
LEMMA ErrorChange ==
    ASSUME ChanOK, NEW p \in {"up", "down"}, NEW e \in BOOLEAN,
           chan' = [chan EXCEPT ![p].err = e]
    PROVE  /\ e => /\ ChannelsLeft' <= ChannelsLeft + 4
                   /\ p = "down" => ChannelsLeft' <= ChannelsLeft + 2
           /\ ~e /\ chan[p].err => /\ ChannelsLeft' <= ChannelsLeft - 2
                                   /\ p = "up" => ChannelsLeft' <= ChannelsLeft - 4
<1>1. /\ chan'[p].err = e /\ chan'[p].open = chan[p].open
      /\ chan'[p].deltas = chan[p].deltas
      /\ \A q \in {"up", "down"} \ {p} : chan'[q] = chan[q]
    BY ErrSet
<1>2. Len(Queue) \in Nat /\ Queue' = Queue
    BY <1>1 DEF ChanOK, Pair, Queue
<1>3. \A q \in {"up", "down"} :
         Count(chan[q].open) \in Nat /\ chan'[q].open = chan[q].open
    BY <1>1, Counting
<1>4. PICK l, n, m \in Nat :
         /\ l = Len(Queue)
         /\ n = Count(chan["up"].open) /\ m = Count(chan["down"].open)
    BY <1>2, <1>3
<1>5. /\ ChannelsLeft = l + ErrorLeft("up") + ErrorLeft("down") + n + m
      /\ ChannelsLeft' = l + ErrorLeft("up")' + ErrorLeft("down")' + n + m
    BY <1>2, <1>3, <1>4 DEF ChannelsLeft
<1>6. CASE p = "up"
    BY <1>1, <1>6, <1>5 DEF ErrorLeft
<1>7. CASE p = "down"
    BY <1>1, <1>7, <1>5 DEF ErrorLeft
<1> QED
    BY <1>6, <1>7

Buffers(t) ==
    /\ ChanOK /\ ChanOK'
    /\ t \in Seq(1..MaxDeltas)
    /\ chan' = [chan EXCEPT !["down"].deltas = t]

\* The same of the buffer.
LEMMA QueueChange ==
    ASSUME NEW t, Buffers(t)
    PROVE  \E l, k, c, c1 \in Nat :
             /\ l = Len(Queue) /\ k = Len(t)
             /\ c = ChannelsLeft /\ c1 = ChannelsLeft'
             /\ c1 + l = c + k
<1>1. /\ chan'["down"].deltas = t
      /\ chan'["down"].err = chan["down"].err
      /\ chan'["down"].open = chan["down"].open
      /\ chan'["up"] = chan["up"]
    BY DeltasSet DEF Buffers
<1>2. Queue' = t
    BY <1>1 DEF Queue
<1>3. Len(Queue) \in Nat /\ Len(t) \in Nat
    BY DEF Buffers, ChanOK, Pair, Queue
<1>4. \A S : Count(S) \in Nat
    BY Counting
<1>5. ChannelsLeft \in Nat /\ ChannelsLeft' \in Nat
    BY ChannelsLeftType DEF Buffers
<1>6. PICK l, k, c, c1, n, m, e, d \in Nat :
         /\ l = Len(Queue) /\ k = Len(t)
         /\ c = ChannelsLeft /\ c1 = ChannelsLeft'
         /\ n = Count(chan["up"].open) /\ m = Count(chan["down"].open)
         /\ e = ErrorLeft("up") /\ d = ErrorLeft("down")
    BY <1>3, <1>4, <1>5 DEF ErrorLeft
<1>7. ErrorLeft("up")' = e /\ ErrorLeft("down")' = d
    BY <1>1, <1>6 DEF ErrorLeft
<1>8. c = l + e + d + n + m
    BY <1>6 DEF ChannelsLeft
<1>9. c1 = k + e + d + n + m
    BY <1>1, <1>2, <1>6, <1>7 DEF ChannelsLeft
<1>10. c1 + l = c + k
    BY <1>8, <1>9
<1> WITNESS l \in Nat, k \in Nat, c \in Nat, c1 \in Nat
<1> QED
    BY <1>6, <1>10

\* A failed stream has an error and nothing else.
LEMMA FailedPairLeft ==
    ASSUME ChanOK, chan'["down"] = FailedPair,
           chan'["up"].open = chan["up"].open
    PROVE  /\ chan'["up"] = chan["up"] => ChannelsLeft' <= ChannelsLeft + 2
           /\ chan["up"].err /\ ~chan'["up"].err =>
                ChannelsLeft' <= ChannelsLeft - 2
<1>1. Queue' = <<>> /\ ErrorLeft("down")' = 2 /\ Len(Queue') = 0
    BY DEF FailedPair, Queue, ErrorLeft
<1>2. Len(Queue) \in Nat
    BY DEF ChanOK, Pair, Queue
<1>3. Count(chan'["down"].open) = 0 /\ \A S : Count(S) \in Nat
    BY Counting DEF FailedPair
<1>4. PICK l, e, e1, d, n, m \in Nat :
         /\ l = Len(Queue) /\ e = ErrorLeft("up") /\ e1 = ErrorLeft("up")'
         /\ d = ErrorLeft("down")
         /\ n = Count(chan["up"].open) /\ m = Count(chan["down"].open)
    BY <1>2, <1>3 DEF ErrorLeft
<1>5. Count(chan'["up"].open) = n
    BY <1>4
<1>6. ChannelsLeft = l + e + d + n + m
    BY <1>4 DEF ChannelsLeft
<1>7. ChannelsLeft' = 0 + e1 + 2 + n + 0
    BY <1>1, <1>3, <1>4, <1>5 DEF ChannelsLeft
<1>8. chan'["up"] = chan["up"] => e1 = e
    BY <1>4 DEF ErrorLeft
<1>9. chan["up"].err /\ ~chan'["up"].err => e = 4 /\ e1 = 0
    BY <1>4 DEF ErrorLeft
<1> QED
    BY <1>6, <1>7, <1>8, <1>9

LEMMA SameChannels == UNCHANGED chan => ChannelsLeft' = ChannelsLeft
BY DEF ChannelsLeft, ErrorLeft, Queue

LEMMA ProduceLeft ==
    ASSUME ChanOK, ChanOK', RestOK, Produce
    PROVE  AnswerLeft' < AnswerLeft
<1>1. PICK p, f, w, c, n, m \in Nat, p1, f1, w1, c1, n1, m1 \in Nat :
         /\ p = ProducerLeft /\ f = ForwarderLeft /\ w = WriterLeft
         /\ c = ChannelsLeft /\ n = Count(fwd) /\ m = Count(hears)
         /\ p1 = ProducerLeft' /\ f1 = ForwarderLeft' /\ w1 = WriterLeft'
         /\ c1 = ChannelsLeft' /\ n1 = Count(fwd') /\ m1 = Count(hears')
         /\ AnswerLeft = p + f + w + c + n + m
         /\ AnswerLeft' = p1 + f1 + w1 + c1 + n1 + m1
    BY Amounts
<1>2. UNCHANGED <<forwarder, writer, fwd, hears>>
    BY DEF Produce, Cancelled, Buffer, Fail, ProducerCloses, Producing
<1>3. f1 = f /\ w1 = w /\ n1 = n /\ m1 = m
    BY <1>1, <1>2 DEF ForwarderLeft, WriterLeft
<1>4. p1 + c1 < p + c
    <2>1. CASE Cancelled
        <3>1. c1 = c
            BY <1>1, <2>1, SameChannels DEF Cancelled
        <3>2. p1 < p
            BY <1>1, <2>1 DEF Cancelled, Producing, ProducerLeft
        <3> QED
            BY <3>1, <3>2
    <2>2. CASE Buffer /\ producer' = "close" /\ UNCHANGED chan
        <3>1. c1 = c
            BY <1>1, <2>2, SameChannels
        <3>2. p1 < p
            BY <1>1, <2>2 DEF Buffer, Producing, ProducerLeft
        <3> QED
            BY <3>1, <3>2
    <2>3. CASE /\ Buffer /\ producer' = "read"
               /\ chan' = [chan EXCEPT !["down"].deltas = Append(@, made)]
        <3>1. Queue \in Seq(1..MaxDeltas) /\ made \in 1..MaxDeltas
            BY <2>3 DEF Buffer, Producing, RestOK, ChanOK, Pair, Queue
        <3>2. chan' = [chan EXCEPT !["down"].deltas = Append(Queue, made)]
            BY <2>3 DEF Queue
        <3>3. Append(Queue, made) \in Seq(1..MaxDeltas)
            BY <3>1
        <3>4. PICK l, k, x, x1 \in Nat :
                 /\ l = Len(Queue) /\ k = Len(Append(Queue, made))
                 /\ x = ChannelsLeft /\ x1 = ChannelsLeft'
                 /\ x1 + l = x + k
            BY <3>2, <3>3, QueueChange DEF Buffers
        <3>5. k = l + 1
            BY <3>1, <3>4
        <3>6. c1 = x1 /\ c = x
            BY <1>1, <3>4
        <3>7. c1 = c + 1
            BY <3>4, <3>5, <3>6
        <3>8. p = 12 /\ p1 = 8
            BY <1>1, <2>3 DEF Buffer, Producing, ProducerLeft
        <3> QED
            BY <3>7, <3>8
    <2>4. CASE Fail
        <3>1. p = 6 /\ p1 = 1
            BY <1>1, <2>4 DEF Fail, Producing, ProducerLeft
        <3>2. CASE UNCHANGED chan
            <4>1. c1 = c
                BY <1>1, <3>2, SameChannels
            <4> QED
                BY <3>1, <4>1
        <3>3. CASE chan' = [chan EXCEPT ![Out].err = TRUE]
            <4>1. c1 <= c + 4
                BY <1>1, <3>3, ErrorChange DEF Out
            <4> QED
                BY <3>1, <4>1
        <3> QED
            BY <2>4, <3>2, <3>3 DEF Fail
    <2>5. CASE ProducerCloses
        <3>1. p1 <= p /\ (Closed(Out) => p1 < p)
            BY <1>1, <2>5 DEF ProducerCloses, Producing, ProducerLeft
        <3>2. Out \in {"up", "down"} /\ Close(Out)
            BY <2>5 DEF ProducerCloses, Out
        <3>3. c1 <= c /\ (~Closed(Out) => c1 < c)
            BY <1>1, <3>2, ClosingLeft
        <3> QED
            BY <3>1, <3>3
    <2> QED
        BY <2>1, <2>2, <2>3, <2>4, <2>5 DEF Produce, Buffer
<1>5. p1 + f1 + w1 + c1 + n1 + m1 < p + f + w + c + n + m
    BY <1>3, <1>4
<1> QED
    BY <1>1, <1>5

LEMMA ForwardLeft ==
    ASSUME ChanOK, ChanOK', RestOK, Forward
    PROVE  AnswerLeft' < AnswerLeft
<1>1. PICK p, f, w, c, n, m \in Nat, p1, f1, w1, c1, n1, m1 \in Nat :
         /\ p = ProducerLeft /\ f = ForwarderLeft /\ w = WriterLeft
         /\ c = ChannelsLeft /\ n = Count(fwd) /\ m = Count(hears)
         /\ p1 = ProducerLeft' /\ f1 = ForwarderLeft' /\ w1 = WriterLeft'
         /\ c1 = ChannelsLeft' /\ n1 = Count(fwd') /\ m1 = Count(hears')
         /\ AnswerLeft = p + f + w + c + n + m
         /\ AnswerLeft' = p1 + f1 + w1 + c1 + n1 + m1
    BY Amounts
<1>2. UNCHANGED <<writer, hears>>
    BY DEF Forward, FwdTakes, FwdTakesError, FwdSendsError, FwdStops,
           FwdCloses, FwdSeesClosed, Forwarding
<1>3. w1 = w /\ m1 = m
    BY <1>1, <1>2 DEF WriterLeft
<1>4. p1 + f1 + c1 + n1 < p + f + c + n
    <2>1. CASE FwdTakes
        <3>1. c1 = c /\ n1 = n
            BY <1>1, <2>1, SameChannels DEF FwdTakes
        <3>2. p = 12 /\ p1 = 8 /\ f = 2 /\ f1 = 4
            BY <1>1, <2>1 DEF FwdTakes, Forwarding, ProducerLeft, ForwarderLeft
        <3> QED
            BY <3>1, <3>2
    <2>2. CASE FwdTakesError
        <3>1. chan' = [chan EXCEPT !["up"].err = FALSE] /\ chan["up"].err
            BY <2>2 DEF FwdTakesError
        <3>2. c1 <= c - 4
            BY <1>1, <3>1, ErrorChange
        <3>3. p1 = p /\ n1 = n /\ f = 2 /\ f1 = 5
            BY <1>1, <2>2
               DEF FwdTakesError, Forwarding, ProducerLeft, ForwarderLeft
        <3> QED
            BY <3>2, <3>3
    <2>3. CASE \E k \in Both : FwdSeesClosed(k)
        <3>1. PICK k \in Both : FwdSeesClosed(k)
            BY <2>3
        <3>2. n1 < n
            BY <1>1, <3>1, Counting DEF FwdSeesClosed, Both
        <3>3. c1 = c
            BY <1>1, <3>1, SameChannels DEF FwdSeesClosed
        <3>4. p1 = p /\ f1 = f
            BY <1>1, <3>1 DEF FwdSeesClosed, ProducerLeft, ForwarderLeft
        <3> QED
            BY <3>2, <3>3, <3>4
    <2>4. CASE FwdSendsError
        <3>1. chan' = [chan EXCEPT !["down"].err = TRUE]
            BY <2>4 DEF FwdSendsError
        <3>2. c1 <= c + 2
            BY <1>1, <3>1, ErrorChange
        <3>3. p1 = p /\ n1 = n /\ f = 5 /\ f1 = 2
            BY <1>1, <2>4
               DEF FwdSendsError, Forwarding, ProducerLeft, ForwarderLeft
        <3> QED
            BY <3>2, <3>3
    <2>5. CASE FwdStops
        <3>1. c1 = c /\ n1 = n
            BY <1>1, <2>5, SameChannels DEF FwdStops
        <3>2. p1 = p /\ f1 < f
            BY <1>1, <2>5 DEF FwdStops, FwdMayStop, ProducerLeft, ForwarderLeft
        <3> QED
            BY <3>1, <3>2
    <2>6. CASE FwdCloses
        <3>1. p1 = p /\ n1 = n /\ f1 <= f /\ (Closed("down") => f1 < f)
            BY <1>1, <2>6
               DEF FwdCloses, Forwarding, ProducerLeft, ForwarderLeft
        <3>2. Close("down")
            BY <2>6 DEF FwdCloses
        <3>3. c1 <= c /\ (~Closed("down") => c1 < c)
            BY <1>1, <3>2, ClosingLeft
        <3> QED
            BY <3>1, <3>3
    <2> QED
        BY <2>1, <2>2, <2>3, <2>4, <2>5, <2>6 DEF Forward
<1>5. p1 + f1 + w1 + c1 + n1 + m1 < p + f + w + c + n + m
    BY <1>3, <1>4
<1> QED
    BY <1>1, <1>5

LEMMA ServeLeft ==
    ASSUME ChanOK, ChanOK', RestOK, Serve
    PROVE  AnswerLeft' < AnswerLeft
<1>1. PICK p, f, w, c, n, m \in Nat, p1, f1, w1, c1, n1, m1 \in Nat :
         /\ p = ProducerLeft /\ f = ForwarderLeft /\ w = WriterLeft
         /\ c = ChannelsLeft /\ n = Count(fwd) /\ m = Count(hears)
         /\ p1 = ProducerLeft' /\ f1 = ForwarderLeft' /\ w1 = WriterLeft'
         /\ c1 = ChannelsLeft' /\ n1 = Count(fwd') /\ m1 = Count(hears')
         /\ AnswerLeft = p + f + w + c + n + m
         /\ AnswerLeft' = p1 + f1 + w1 + c1 + n1 + m1
    BY Amounts
<1>2. producer' = producer
    BY DEF Serve, Inspect, First, TakeDelta, TakeError, Stop, Finish, SeesClosed
<1>3. p1 = p
    BY <1>1, <1>2 DEF ProducerLeft
<1>4. n1 <= 2 /\ m1 <= 2
    <2>1. Count(fwd') \in 0..2 /\ Count(hears') \in 0..2
        BY Counting
    <2> QED
        BY <1>1, <2>1
<1>5. f1 + w1 + c1 + n1 + m1 < f + w + c + n + m
    <2>1. CASE Inspect
        <3>1. w = 12 /\ w1 <= 4 /\ f1 <= f + 2 /\ m1 = m
            BY <1>1, <2>1 DEF Inspect, Returned, WriterLeft, ForwarderLeft
        <3>2. c1 <= c
            <4>1. CASE chan["up"].err
                <5>1. /\ ~chan'["up"].err /\ chan'["down"] = FailedPair
                      /\ chan'["up"].open = chan["up"].open
                    BY <2>1, <4>1, FailedCall
                <5> QED
                    BY <1>1, <4>1, <5>1, FailedPairLeft
            <4>2. CASE ~chan["up"].err
                BY <1>1, <2>1, <4>2, SameChannels DEF Inspect
            <4> QED
                BY <4>1, <4>2
        <3> QED
            BY <1>4, <3>1, <3>2
    <2>2. CASE First
        <3>1. f1 = f /\ n1 = n /\ w = 4
            BY <1>1, <2>2 DEF First, ForwarderLeft, WriterLeft
        <3>2. CASE chan["down"].err
            <4>1. chan' = [chan EXCEPT !["down"].err = FALSE]
                BY <2>2, <3>2 DEF First
            <4>2. c1 <= c - 2
                BY <1>1, <3>2, <4>1, ErrorChange
            <4>3. w1 = 0 /\ m1 = m
                BY <1>1, <2>2, <3>2 DEF First, WriterLeft
            <4> QED
                BY <3>1, <4>2, <4>3
        <3>3. CASE ~chan["down"].err
            <4>1. c1 = c /\ w1 = 1
                BY <1>1, <2>2, <3>3, SameChannels DEF First, WriterLeft
            <4> QED
                BY <1>4, <3>1, <4>1
        <3> QED
            BY <3>2, <3>3
    <2>3. CASE TakeDelta
        <3>1. n1 = n /\ m1 = m /\ w1 <= w
            BY <1>1, <2>3, SMTT(20) DEF TakeDelta, Looping, Write, WriterLeft
        <3>2. CASE forwarder = "delta" /\ forwarder' = "loop" /\ UNCHANGED chan
            <4>1. c1 = c
                BY <1>1, <3>2, SameChannels
            <4>2. f = 4 /\ f1 = 2
                BY <1>1, <3>2 DEF ForwarderLeft
            <4> QED
                BY <3>1, <4>1, <4>2
        <3>3. CASE /\ Queue # <<>> /\ UNCHANGED forwarder
                   /\ chan' = [chan EXCEPT !["down"].deltas = Tail(@)]
            <4>1. Queue \in Seq(1..MaxDeltas)
                BY DEF ChanOK, Pair, Queue
            <4>2. chan' = [chan EXCEPT !["down"].deltas = Tail(Queue)]
                BY <3>3 DEF Queue
            <4>3. Tail(Queue) \in Seq(1..MaxDeltas)
                BY <3>3, <4>1
            <4>4. PICK l, k, x, x1 \in Nat :
                     /\ l = Len(Queue) /\ k = Len(Tail(Queue))
                     /\ x = ChannelsLeft /\ x1 = ChannelsLeft'
                     /\ x1 + l = x + k
                BY <4>2, <4>3, QueueChange DEF Buffers
            <4>5. l = k + 1
                BY <3>3, <4>1, <4>4
            <4>6. c1 = x1 /\ c = x
                BY <1>1, <4>4
            <4>7. c = c1 + 1
                <5>1. x1 + l = x + k
                    BY <4>4
                <5>2. x = x1 + 1
                    BY <4>5, <5>1
                <5> QED
                    BY <4>6, <5>2
            <4>8. f1 = f
                BY <1>1, <3>3 DEF ForwarderLeft
            <4> QED
                BY <3>1, <4>7, <4>8
        <3> QED
            BY <2>3, <3>2, <3>3 DEF TakeDelta, Queue
    <2>4. CASE TakeError
        <3>1. chan' = [chan EXCEPT !["down"].err = FALSE] /\ chan["down"].err
            BY <2>4 DEF TakeError
        <3>2. c1 <= c - 2
            BY <1>1, <3>1, ErrorChange
        <3>3. f1 = f /\ n1 = n /\ m1 = m /\ w1 <= w
            BY <1>1, <2>4 DEF TakeError, Looping, ForwarderLeft, WriterLeft
        <3> QED
            BY <3>2, <3>3
    <2>5. CASE \E k \in Both : SeesClosed(k)
        <3>1. PICK k \in Both : SeesClosed(k)
            BY <2>5
        <3>2. m1 < m
            BY <1>1, <3>1, Counting DEF SeesClosed, Both
        <3>3. c1 = c
            BY <1>1, <3>1, SameChannels DEF SeesClosed
        <3>4. f1 = f /\ w1 = w /\ n1 = n
            BY <1>1, <3>1 DEF SeesClosed, ForwarderLeft, WriterLeft
        <3> QED
            BY <3>2, <3>3, <3>4
    <2>6. CASE Stop \/ Finish
        <3>1. c1 = c
            BY <1>1, <2>6, SameChannels DEF Stop, Finish
        <3>2. f1 = f /\ n1 = n /\ m1 = m /\ w = 1 /\ w1 = 0
            BY <1>1, <2>6
               DEF Stop, Finish, Looping, ForwarderLeft, WriterLeft
        <3> QED
            BY <3>1, <3>2
    <2> QED
        BY <2>1, <2>2, <2>3, <2>4, <2>5, <2>6 DEF Serve
<1>6. p1 + f1 + w1 + c1 + n1 + m1 < p + f + w + c + n + m
    BY <1>3, <1>5
<1> QED
    BY <1>1, <1>6

\* What is begun with a call, and what the upstream and the client do.
LEMMA OutsideLeft ==
    ASSUME ChanOK, ChanOK', RestOK, Wiring,
           CallFails \/ CallStarts \/ Dial \/ Upstream \/ Leave \/ Expire,
           AnswerLeft' > AnswerLeft
    PROVE  Upstream /\ made' = made + 1
<1> SUFFICES ASSUME ~(Upstream /\ made' = made + 1)
             PROVE  AnswerLeft' <= AnswerLeft
    <2>1. AnswerLeft \in Nat /\ AnswerLeft' \in Nat
        BY Amounts
    <2> QED
        BY <2>1
<1>1. PICK p, f, w, c, n, m \in Nat, p1, f1, w1, c1, n1, m1 \in Nat :
         /\ p = ProducerLeft /\ f = ForwarderLeft /\ w = WriterLeft
         /\ c = ChannelsLeft /\ n = Count(fwd) /\ m = Count(hears)
         /\ p1 = ProducerLeft' /\ f1 = ForwarderLeft' /\ w1 = WriterLeft'
         /\ c1 = ChannelsLeft' /\ n1 = Count(fwd') /\ m1 = Count(hears')
         /\ AnswerLeft = p + f + w + c + n + m
         /\ AnswerLeft' = p1 + f1 + w1 + c1 + n1 + m1
    BY Amounts
<1>2. f1 = f /\ n1 = n /\ m1 = m
    BY <1>1 DEF CallFails, CallStarts, Dial, Upstream, Leave, Expire, Producing,
                ForwarderLeft
<1>3. p1 + w1 + c1 <= p + w + c
    <2>1. CASE CallFails
        <3>1. p1 = p /\ w = 40 /\ w1 <= 4
            BY <1>1, <2>1 DEF CallFails, Returned, ProducerLeft, WriterLeft
        <3>2. chan'["down"] = FailedPair /\ chan'["up"] = chan["up"]
            BY <2>1 DEF CallFails, ChanOK
        <3>3. c1 <= c + 2
            BY <1>1, <3>2, FailedPairLeft
        <3> QED
            BY <3>1, <3>3
    <2>2. CASE CallStarts
        <3>1. c1 = c
            BY <1>1, <2>2, SameChannels DEF CallStarts
        <3>2. p1 <= 10 /\ w = 40 /\ w1 <= 12
            BY <1>1, <2>2 DEF CallStarts, Returned, ProducerLeft, WriterLeft
        <3> QED
            BY <3>1, <3>2
    <2>3. CASE Dial
        <3>1. c1 = c
            BY <1>1, <2>3, SameChannels DEF Dial
        <3>2. w1 = w /\ p1 <= p
            BY <1>1, <2>3 DEF Dial, Producing, ProducerLeft, WriterLeft
        <3> QED
            BY <3>1, <3>2
    <2>4. CASE Upstream
        <3>1. c1 = c
            BY <1>1, <2>4, SameChannels DEF Upstream
        <3>2. w1 = w /\ p1 <= p
            BY <1>1, <2>4 DEF Upstream, Producing, ProducerLeft, WriterLeft
        <3> QED
            BY <3>1, <3>2
    <2>5. CASE Leave \/ Expire
        <3>1. c1 = c
            BY <1>1, <2>5, SameChannels DEF Leave, Expire
        <3>2. w1 = w /\ p1 = p
            BY <1>1, <2>5 DEF Leave, Expire, ProducerLeft, WriterLeft
        <3> QED
            BY <3>1, <3>2
    <2> QED
        BY <2>1, <2>2, <2>3, <2>4, <2>5
<1>4. p1 + f1 + w1 + c1 + n1 + m1 <= p + f + w + c + n + m
    BY <1>2, <1>3
<1> QED
    BY <1>1, <1>4

\* An answer whose upstream has ended takes finitely many steps, whoever takes them, and
\* so does one whose client has left.
THEOREM AnswersRunOut ==
    Spec => [][AnswerRunsOut /\ AnswerLeft \in Nat]_vars
<1>1. ASSUME ChatInv, ChatInv', [Next]_vars
      PROVE  [AnswerRunsOut /\ AnswerLeft \in Nat]_vars
    <2>1. ChanOK /\ RestOK /\ Wiring
        BY <1>1, TypeParts DEF ChatInv
    <2>2. ChanOK'
        BY <1>1 DEF ChatInv, TypeInv, TypeOK, ChanOK
    <2>3. AnswerLeft \in Nat /\ AnswerLeft' \in Nat
        BY <2>1, <2>2, Amounts
    <2>4. CASE Next
        <3>1. Produce \/ Forward \/ Serve => AnswerLeft' < AnswerLeft
            BY <2>1, <2>2, ProduceLeft, ForwardLeft, ServeLeft
        <3>2. ASSUME AnswerLeft' > AnswerLeft
              PROVE  Upstream /\ made' = made + 1
            <4>1. ~(Produce \/ Forward \/ Serve)
                BY <2>3, <3>1, <3>2
            <4> QED
                BY <2>1, <2>2, <2>4, <3>2, <4>1, OutsideLeft DEF Next
        <3> QED
            BY <2>3, <3>1, <3>2 DEF AnswerRunsOut
    <2>5. CASE UNCHANGED vars
        BY <2>5
    <2> QED
        BY <1>1, <2>4, <2>5
<1> QED
    BY <1>1, InvariantHolds, PTL DEF Spec
=============================================================================
