------------------------ MODULE SessionManagerProofs ------------------------
(***************************************************************************)
(* Theorems about SessionManager, for any number of clients and models and *)
(* any bounds.                                                             *)
(***************************************************************************)
EXTENDS SessionManagerProps, FiniteSetTheorems, TLAPS

LEMMA TypeInit == Init => TypeOK
  BY SessionAssumption
     DEF Init, TypeOK, Steps, Leading, Results, Sessions, Nothing, Gone, Live,
         NoSession

LEMMA TypeStep == TypeOK /\ [Next]_vars => TypeOK'
  <1> USE SessionAssumption DEF TypeOK, Steps, Leading, Results, Sessions,
      Errors, Live, Gone, Refused, Failed, CtxDone, Retry, TooMany, Nothing,
      NoSession
  <1> SUFFICES ASSUME TypeOK, [Next]_vars
               PROVE  TypeOK'
    OBVIOUS
  <1>1. ASSUME NEW c \in Clients, NEW m \in Models, Begin(c, m)
        PROVE  TypeOK'
    BY <1>1 DEF Begin, Goto, Got, MayFault, Charge
  <1>2. ASSUME NEW c \in Clients, GetSession(c)
        PROVE  TypeOK'
    BY <1>2 DEF GetSession, GetReply, Resolved, Goto, Got, MayFault, Charge
  <1>3. ASSUME NEW c \in Clients, Look(c)
        PROVE  TypeOK'
    BY <1>3 DEF Look, Goto
  <1>4. ASSUME NEW c \in Clients, EndMismatched(c)
        PROVE  TypeOK'
    BY <1>4 DEF EndMismatched, EndReply, Goto, Got, MayFault, Charge
  <1>5. ASSUME NEW c \in Clients, Store(c)
        PROVE  TypeOK'
    <2>1. out[c].model \in Models \cup {NoModel}
      <3>1. out[c] \in Results
        BY <1>5
      <3>2. QED
        BY <3>1
    <2>2. cache' \in [Models -> Models \cup {NoModel}]
      BY <1>5, <2>1 DEF Store
    <2>3. QED
      BY <1>5, <2>2 DEF Store, Goto
  <1>6. ASSUME NEW c \in Clients, Join(c)
        PROVE  TypeOK'
    BY <1>6 DEF Join, Goto
  <1>7. ASSUME NEW c \in Clients, Recheck(c)
        PROVE  TypeOK'
    BY <1>7 DEF Recheck, GetReply, Rechecked, Goto, Got, MayFault, Charge
  <1>8. ASSUME NEW c \in Clients, LeaderEnd(c)
        PROVE  TypeOK'
    BY <1>8 DEF LeaderEnd, EndReply, Goto, Got, MayFault, Charge
  <1>9. ASSUME NEW c \in Clients, StartSession(c)
        PROVE  TypeOK'
    BY <1>9 DEF StartSession, StartReply, Goto, Got, MayFault, Charge
  <1>10. ASSUME NEW c \in Clients, Finish(c)
         PROVE  TypeOK'
    BY <1>10 DEF Finish, WaitersOf, Deliver, AfterReturn
  <1>11. ASSUME NEW c \in Clients, StopWaiting(c)
         PROVE  TypeOK'
    BY <1>11 DEF StopWaiting, Goto, Got
  <1>12. ASSUME NEW c \in Clients, Poll(c)
         PROVE  TypeOK'
    BY <1>12, SMTT(20) DEF Poll, PollsExhausted, PollReply, GetReply, Settle,
                 AfterReturn, Goto, Got, MayFault, Charge
  <1>13. ASSUME NEW c \in Clients, PollEnd(c)
         PROVE  TypeOK'
    BY <1>13 DEF PollEnd, EndReply, Settle, AfterReturn, Goto, Got, MayFault,
                 Charge
  <1>14. ASSUME NEW c \in Clients, Cancel(c)
         PROVE  TypeOK'
    BY <1>14 DEF Cancel, MayFault, Charge
  <1>15. ASSUME NEW m \in Models, CacheExpires(m)
         PROVE  TypeOK'
    BY <1>15 DEF CacheExpires, clientVars
  <1>16. ASSUME NEW s \in Sessions, Disturb(s)
         PROVE  TypeOK'
    BY <1>16 DEF Disturb, MayFault, Charge, clientVars
  <1>17. CASE Admit
    BY <1>17 DEF Admit, clientVars
  <1>18. CASE UNCHANGED vars
    BY <1>18 DEF vars, clientVars
  <1>19. QED
    BY <1>1, <1>2, <1>3, <1>4, <1>5, <1>6, <1>7, <1>8, <1>9, <1>10, <1>11,
       <1>12, <1>13, <1>14, <1>15, <1>16, <1>17, <1>18
       DEF Next, ClientStep

\* Every variable of the session manager keeps its type, however many
\* clients, models and faults there are.
THEOREM TypeCorrect == Spec => []TypeOK
  BY TypeInit, TypeStep, PTL DEF Spec

----------------------------------------------------------------------------
(* The single flight.  BootstrapHasItsLeader is not inductive by itself:   *)
(* Finish moves every waiter of its call, so it must be known that waiters *)
(* wait, hence do not lead; NoOrphanedWaiter needs that the only leader is *)
(* the one that bootstrap names.  Together with the types they are.        *)

FlightInv == TypeOK /\ BootstrapHasItsLeader /\ NoOrphanedWaiter

LEMMA FlightInit == Init => FlightInv
  BY TypeInit, SessionAssumption
     DEF Init, FlightInv, BootstrapHasItsLeader, NoOrphanedWaiter, Leading

\* A client that takes no part in the step keeps its place: the facts the
\* step below needs for every action that neither joins nor finishes.
LEMMA SameSide ==
  ASSUME FlightInv, NEW c \in Clients, NEW step \in Steps,
         pc' = [pc EXCEPT ![c] = step],
         step # "wait",
         step \in Leading <=> pc[c] \in Leading,
         UNCHANGED bootstrap,
         \A d \in Clients : d # c => on'[d] = on[d]
  PROVE  BootstrapHasItsLeader' /\ NoOrphanedWaiter'
  BY DEF FlightInv, TypeOK, BootstrapHasItsLeader, NoOrphanedWaiter, Leaders

LEMMA FlightStep == FlightInv /\ [Next]_vars => FlightInv'
  <1> SUFFICES ASSUME FlightInv, [Next]_vars
               PROVE  BootstrapHasItsLeader' /\ NoOrphanedWaiter'
    BY TypeStep DEF FlightInv
  <1> USE SessionAssumption
  <1> USE DEF FlightInv, TypeOK, Steps, Leading
  <1>1. ASSUME NEW c \in Clients, NEW m \in Models, Begin(c, m)
        PROVE  BootstrapHasItsLeader' /\ NoOrphanedWaiter'
    BY <1>1, ZenonT(30)
       DEF Begin, Goto, BootstrapHasItsLeader, NoOrphanedWaiter, Leaders
  <1>2. ASSUME NEW c \in Clients, GetSession(c)
        PROVE  BootstrapHasItsLeader' /\ NoOrphanedWaiter'
    <2>1. PICK r \in Sessions \cup Errors : Goto(c, Resolved(c, r))
      BY <1>2 DEF GetSession
    <2>2. Resolved(c, r) \in {"store", "end", "look", "join", "idle"}
      BY DEF Resolved
    <2>3. QED
      BY <1>2, <2>1, <2>2, SameSide DEF GetSession, Goto
  <1>3. ASSUME NEW c \in Clients, Look(c)
        PROVE  BootstrapHasItsLeader' /\ NoOrphanedWaiter'
    BY <1>3 DEF Look, Goto, BootstrapHasItsLeader, NoOrphanedWaiter, Leaders
  <1>4. ASSUME NEW c \in Clients, EndMismatched(c)
        PROVE  BootstrapHasItsLeader' /\ NoOrphanedWaiter'
    <2>1. PICK step \in {"join", "idle"} : pc' = [pc EXCEPT ![c] = step]
      BY <1>4 DEF EndMismatched, Goto
    <2>2. QED
      BY <1>4, <2>1, SameSide DEF EndMismatched
  <1>5. ASSUME NEW c \in Clients, Store(c)
        PROVE  BootstrapHasItsLeader' /\ NoOrphanedWaiter'
    BY <1>5, SameSide DEF Store, Goto
  <1>6. ASSUME NEW c \in Clients, Join(c)
        PROVE  BootstrapHasItsLeader' /\ NoOrphanedWaiter'
    BY <1>6 DEF Join, Goto, BootstrapHasItsLeader, NoOrphanedWaiter, Leaders
  <1>7. ASSUME NEW c \in Clients, Recheck(c)
        PROVE  BootstrapHasItsLeader' /\ NoOrphanedWaiter'
    <2>1. PICK r \in Sessions \cup Errors : Goto(c, Rechecked(c, r))
      BY <1>7 DEF Recheck
    <2>2. Rechecked(c, r) \in {"finish", "lend", "lpoll", "start"}
      BY DEF Rechecked
    <2>3. QED
      BY <1>7, <2>1, <2>2, SameSide DEF Recheck, Goto
  <1>8. ASSUME NEW c \in Clients, LeaderEnd(c)
        PROVE  BootstrapHasItsLeader' /\ NoOrphanedWaiter'
    <2>1. PICK step \in {"start", "finish"} : pc' = [pc EXCEPT ![c] = step]
      BY <1>8 DEF LeaderEnd, Goto
    <2>2. QED
      BY <1>8, <2>1, SameSide DEF LeaderEnd
  <1>9. ASSUME NEW c \in Clients, StartSession(c)
        PROVE  BootstrapHasItsLeader' /\ NoOrphanedWaiter'
    <2>1. PICK step \in {"lpoll", "finish"} : pc' = [pc EXCEPT ![c] = step]
      BY <1>9 DEF StartSession, Goto
    <2>2. QED
      BY <1>9, <2>1, SameSide DEF StartSession
  <1>10. ASSUME NEW c \in Clients, Finish(c)
         PROVE  BootstrapHasItsLeader' /\ NoOrphanedWaiter'
    <2>1. bootstrap = c /\ bootstrap' = Nobody
      BY <1>10 DEF Finish, BootstrapHasItsLeader
    <2>2. \A d \in Clients : pc[d] = "wait" => d \in WaitersOf(c)
      BY <2>1 DEF NoOrphanedWaiter, Leaders, BootstrapHasItsLeader, WaitersOf
    <2>3. \A d \in Clients : pc'[d] \notin Leading \cup {"wait"}
      <3> TAKE d \in Clients
      <3>1. CASE d = c \/ d \in WaitersOf(c)
        <4>1. pc'[d] = AfterReturn(out'[d])
          BY <1>10, <3>1 DEF Finish
        <4>2. AfterReturn(out'[d]) \in {"get", "store", "idle"}
          BY DEF AfterReturn
        <4>3. QED
          BY <4>1, <4>2
      <3>2. CASE d # c /\ d \notin WaitersOf(c)
        <4>1. pc'[d] = pc[d]
          BY <1>10, <3>2 DEF Finish
        <4>2. QED
          BY <2>1, <2>2, <3>2, <4>1 DEF BootstrapHasItsLeader
      <3>3. QED
        BY <3>1, <3>2
    <2>4. QED
      BY <2>1, <2>3 DEF BootstrapHasItsLeader, NoOrphanedWaiter
  <1>11. ASSUME NEW c \in Clients, StopWaiting(c)
         PROVE  BootstrapHasItsLeader' /\ NoOrphanedWaiter'
    BY <1>11, SameSide DEF StopWaiting, Goto
  <1>12. ASSUME NEW c \in Clients, Poll(c)
         PROVE  BootstrapHasItsLeader' /\ NoOrphanedWaiter'
    <2>1. PICK step \in Steps :
             /\ pc' = [pc EXCEPT ![c] = step]
             /\ step # "wait"
             /\ step \in Leading <=> pc[c] \in Leading
      BY <1>12 DEF Poll, PollReply, Settle, AfterReturn, Goto
    <2>2. QED
      BY <1>12, <2>1, SameSide DEF Poll
  <1>13. ASSUME NEW c \in Clients, PollEnd(c)
         PROVE  BootstrapHasItsLeader' /\ NoOrphanedWaiter'
    <2>1. PICK r : Settle(c, r)
      BY <1>13 DEF PollEnd
    <2> DEFINE step == IF pc[c] \in Leading THEN "finish" ELSE AfterReturn(r)
    <2>2. AfterReturn(r) \in {"get", "store", "idle"}
      BY DEF AfterReturn
    <2>3. pc' = [pc EXCEPT ![c] = step]
      BY <2>1 DEF Settle, Goto
    <2>4. /\ step \in Steps
          /\ step # "wait"
          /\ step \in Leading <=> pc[c] \in Leading
      BY <2>2
    <2>5. QED
      BY <1>13, <2>3, <2>4, SameSide DEF PollEnd
  <1>14. CASE UNCHANGED <<pc, on, bootstrap>>
    BY <1>14 DEF BootstrapHasItsLeader, NoOrphanedWaiter, Leaders
  <1>15. ASSUME \/ \E c \in Clients : Cancel(c)
                \/ \E m \in Models : CacheExpires(m)
                \/ \E s \in Sessions : Disturb(s)
                \/ Admit
                \/ UNCHANGED vars
         PROVE  UNCHANGED <<pc, on, bootstrap>>
    BY <1>15 DEF Cancel, CacheExpires, Disturb, Admit, vars, clientVars
  <1>16. QED
    BY <1>1, <1>2, <1>3, <1>4, <1>5, <1>6, <1>7, <1>8, <1>9, <1>10, <1>11,
       <1>12, <1>13, <1>14, <1>15 DEF Next, ClientStep

\* Manager.bootstrap names exactly the goroutine that is between
\* startBootstrap and finishBootstrap: at most one leads, none is leaked.
THEOREM OneLeader == Spec => []BootstrapHasItsLeader
  <1>1. FlightInv => BootstrapHasItsLeader
    BY DEF FlightInv
  <1>2. QED
    BY FlightInit, FlightStep, <1>1, PTL DEF Spec

\* A goroutine in waitForBootstrap always waits for a call whose leader is
\* still at work, so finishBootstrap will close its channel.
THEOREM WaitersHaveALeader == Spec => []NoOrphanedWaiter
  <1>1. FlightInv => NoOrphanedWaiter
    BY DEF FlightInv
  <1>2. QED
    BY FlightInit, FlightStep, <1>1, PTL DEF Spec

----------------------------------------------------------------------------
(* The refinement.                                                         *)

LEMMA OwnerIsBootstrap == FlightInv => GateOwner = bootstrap
  <1> SUFFICES ASSUME FlightInv PROVE GateOwner = bootstrap
    OBVIOUS
  <1> USE SessionAssumption
         DEF FlightInv, TypeOK, BootstrapHasItsLeader, GateOwner, Leaders
  <1>1. CASE bootstrap = Nobody
    BY <1>1
  <1>2. CASE bootstrap \in Clients
    <2>1. Leaders = {bootstrap}
      BY <1>2
    <2>2. QED
      BY <2>1
  <1>3. QED
    BY <1>1, <1>2

\* A step that neither starts nor ends a wait and leaves bootstrap alone
\* leaves the gate alone.
LEMMA GateUntouched ==
  ASSUME FlightInv, FlightInv', UNCHANGED bootstrap,
         NEW c \in Clients, NEW step \in Steps,
         pc' = [pc EXCEPT ![c] = step],
         pc[c] # "wait", step # "wait"
  PROVE  UNCHANGED <<GateOwner, GateWaiting>>
  <1>1. UNCHANGED GateOwner
    BY OwnerIsBootstrap DEF GateOwner, Leaders, FlightInv, TypeOK,
       BootstrapHasItsLeader
  <1>2. UNCHANGED GateWaiting
    BY DEF GateWaiting, FlightInv, TypeOK
  <1>3. QED
    BY <1>1, <1>2

LEMMA GateInit == Init => Gate!Init
  BY DEF Init, Gate!Init, GateOwner, GateWaiting, Leaders, Leading

LEMMA GateStep ==
  FlightInv /\ FlightInv' /\ [Next]_vars => [Gate!Next]_(Gate!vars)
  <1> SUFFICES ASSUME FlightInv, FlightInv', [Next]_vars
               PROVE  [Gate!Next]_(Gate!vars)
    OBVIOUS
  <1> USE SessionAssumption
  <1>a. GateOwner = bootstrap /\ GateOwner' = bootstrap'
    <2>1. FlightInv' => (GateOwner = bootstrap)'
      BY OwnerIsBootstrap, PTL
    <2>2. QED
      BY <2>1, OwnerIsBootstrap
  <1>1. ASSUME NEW c \in Clients, Join(c) \/ Look(c)
        PROVE  Gate!Next \/ UNCHANGED Gate!vars
    <2>1. CASE bootstrap = Nobody /\ Join(c)
      <3>1. GateOwner = Nobody /\ GateOwner' = c
        BY <2>1, <1>a DEF Join
      <3>2. c \notin GateWaiting /\ UNCHANGED GateWaiting
        BY <2>1 DEF Join, Goto, GateWaiting, FlightInv, TypeOK
      <3>3. QED
        BY <3>1, <3>2 DEF Gate!Next, Gate!TakeOff
    <2>2. CASE bootstrap # Nobody
      <3>1. pc[c] \notin Leading
        BY <1>1 DEF Join, Look, Leading
      <3>2. GateOwner \notin {Nobody, c} /\ UNCHANGED GateOwner
        BY <1>1, <2>2, <3>1, <1>a
           DEF Join, Look, FlightInv, BootstrapHasItsLeader
      <3>3. GateWaiting' = GateWaiting \cup {c}
        BY <1>1, <2>2 DEF Join, Look, Goto, GateWaiting, FlightInv, TypeOK
      <3>4. QED
        BY <3>2, <3>3 DEF Gate!Next, Gate!Board
    <2>3. CASE bootstrap = Nobody /\ Look(c)
      <3>1. pc' = [pc EXCEPT ![c] = "poll"] /\ pc[c] # "wait"
        BY <2>3 DEF Look, Goto
      <3>2. UNCHANGED <<GateOwner, GateWaiting>>
        BY <2>3, <3>1, GateUntouched DEF Look, Steps
      <3>3. QED
        BY <3>2 DEF Gate!vars
    <2>4. QED
      BY <1>1, <2>1, <2>2, <2>3
  <1>2. ASSUME NEW c \in Clients, StopWaiting(c)
        PROVE  Gate!Next
    <2>1. c \in GateWaiting /\ GateWaiting' = GateWaiting \ {c}
      BY <1>2 DEF StopWaiting, Goto, GateWaiting, FlightInv, TypeOK
    <2>2. UNCHANGED GateOwner
      BY <1>2, <1>a DEF StopWaiting
    <2>3. QED
      BY <2>1, <2>2 DEF Gate!Next, Gate!Leave
  <1>3. ASSUME NEW c \in Clients, Finish(c)
        PROVE  Gate!Next
    <2>1. bootstrap = c /\ bootstrap' = Nobody
      BY <1>3 DEF Finish, FlightInv, BootstrapHasItsLeader, Leading
    <2>2. GateWaiting' = {}
      BY <2>1 DEF GateWaiting, FlightInv, NoOrphanedWaiter, Leaders,
                  BootstrapHasItsLeader
    <2>3. GateOwner # Nobody /\ GateOwner' = Nobody
      BY <2>1, <1>a
    <2>4. QED
      BY <2>2, <2>3 DEF Gate!Next, Gate!Land
  <1>4. ASSUME NEW c \in Clients,
               \/ GetSession(c) \/ EndMismatched(c) \/ Store(c)
               \/ Recheck(c) \/ LeaderEnd(c) \/ StartSession(c)
               \/ Poll(c) \/ PollEnd(c)
        PROVE  UNCHANGED Gate!vars
    <2>1. \E step \in Steps \ {"wait"} : pc' = [pc EXCEPT ![c] = step]
      <3>1. CASE GetSession(c)
        BY <3>1 DEF GetSession, Goto, Resolved, Steps, Leading
      <3>2. CASE EndMismatched(c)
        BY <3>2 DEF EndMismatched, Goto, Steps, Leading
      <3>3. CASE Store(c)
        BY <3>3 DEF Store, Goto, Steps, Leading
      <3>4. CASE Recheck(c)
        BY <3>4 DEF Recheck, Goto, Rechecked, Steps, Leading
      <3>5. CASE LeaderEnd(c)
        BY <3>5 DEF LeaderEnd, Goto, Steps, Leading
      <3>6. CASE StartSession(c)
        BY <3>6 DEF StartSession, Goto, Steps, Leading
      <3>7. CASE Poll(c)
        BY <3>7 DEF Poll, PollReply, Settle, AfterReturn, Goto, Steps, Leading,
                    FlightInv, TypeOK
      <3>8. CASE PollEnd(c)
        <4>1. PICK r : Settle(c, r)
          BY <3>8 DEF PollEnd
        <4>2. AfterReturn(r) \in {"get", "store", "idle"}
          BY DEF AfterReturn
        <4>3. QED
          BY <4>1, <4>2 DEF Settle, Goto, Steps, Leading
      <3>9. QED
        BY <1>4, <3>1, <3>2, <3>3, <3>4, <3>5, <3>6, <3>7, <3>8
    <2>2. PICK step \in Steps : step # "wait" /\ pc' = [pc EXCEPT ![c] = step]
      BY <2>1
    <2>3. UNCHANGED bootstrap /\ pc[c] # "wait"
      BY <1>4 DEF GetSession, EndMismatched, Store, Recheck, LeaderEnd,
                  StartSession, Poll, PollEnd
    <2>4. UNCHANGED <<GateOwner, GateWaiting>>
      BY <2>2, <2>3, GateUntouched
    <2>5. QED
      BY <2>4 DEF Gate!vars
  <1>5. ASSUME NEW c \in Clients, NEW m \in Models, Begin(c, m)
        PROVE  UNCHANGED Gate!vars
    <2>1. UNCHANGED bootstrap
      BY <1>5 DEF Begin
    <2>2. UNCHANGED GateWaiting
      BY <1>5 DEF Begin, Goto, GateWaiting, FlightInv, TypeOK
    <2>3. QED
      BY <2>1, <2>2, <1>a DEF Gate!vars
  <1>6. ASSUME \/ \E c \in Clients : Cancel(c)
               \/ \E m \in Models : CacheExpires(m)
               \/ \E s \in Sessions : Disturb(s)
               \/ Admit
               \/ UNCHANGED vars
        PROVE  UNCHANGED Gate!vars
    <2>1. UNCHANGED <<pc, bootstrap>>
      BY <1>6 DEF Cancel, CacheExpires, Disturb, Admit, vars, clientVars
    <2>2. QED
      BY <2>1, <1>a DEF Gate!vars, GateWaiting
  <1>7. QED
    BY <1>1, <1>2, <1>3, <1>4, <1>5, <1>6 DEF Next, ClientStep

\* Manager's bootstrap implements the single-flight gate for any number of
\* concurrent callers: one flight at a time, and every waiter let go by the
\* landing of the flight it waits for.
THEOREM ImplementsSingleFlight == Spec => IsSingleFlight
  BY GateInit, FlightInit, FlightStep, GateStep, PTL
     DEF Spec, IsSingleFlight, Gate!Spec

----------------------------------------------------------------------------
(* StartSession is only sent for a token without a session.                *)

StartInv == FlightInv /\ StartsOnlyWhenGone

LEMMA StartInit == Init => StartInv
  BY FlightInit DEF Init, StartInv, StartsOnlyWhenGone

LEMMA StartStep == StartInv /\ [Next]_vars => StartInv'
  <1> SUFFICES ASSUME StartInv, [Next]_vars, NEW c \in Clients,
                      pc'[c] = "start", faults' = MaxFaults
               PROVE  upstream' = Gone
    BY FlightStep DEF StartInv, StartsOnlyWhenGone
  <1> USE SessionAssumption DEF StartInv, FlightInv, TypeOK
  \* A fault that is spent does not come back.
  <1>a. \A f \in BOOLEAN : Charge(f) => f = FALSE
    BY DEF Charge
  <1>1. ASSUME NEW d \in Clients,
               EndMismatched(d) \/ LeaderEnd(d) \/ PollEnd(d)
        PROVE  upstream' = Gone
    <2>1. PICK r \in {Gone, Failed, CtxDone} : EndReply(d, r)
      BY <1>1 DEF EndMismatched, LeaderEnd, PollEnd
    <2>2. CASE r = Gone
      BY <2>1, <2>2, <1>a DEF EndReply, Gone, CtxDone, Failed, NoSession
    <2>3. CASE r # Gone
      <3>1. UNCHANGED <<upstream, faults>>
        BY <2>1, <2>3, <1>a DEF EndReply
      <3>2. pc'[d] # "start"
        BY <1>1, <2>3, <2>1, <3>1, <1>a
           DEF EndMismatched, LeaderEnd, PollEnd, EndReply, Settle, AfterReturn,
               Goto, Got, Gone, Failed, CtxDone, NoSession
      <3>3. pc[c] = "start"
        BY <1>1, <3>2 DEF EndMismatched, LeaderEnd, PollEnd, Settle, Goto
      <3>4. QED
        BY <3>1, <3>3 DEF StartsOnlyWhenGone
    <2>4. QED
      BY <2>2, <2>3
  <1>2. ASSUME NEW d \in Clients, StartSession(d)
        PROVE  FALSE
    <2>1. pc[d] = "start" /\ pc'[d] # "start"
      BY <1>2 DEF StartSession, Goto
    <2>2. pc[c] = "start" /\ c # d
      BY <1>2, <2>1 DEF StartSession, Goto
    <2>3. QED
      BY <2>1, <2>2 DEF BootstrapHasItsLeader, Leading
  <1>3. ASSUME NEW d \in Clients, Recheck(d)
        PROVE  upstream' = Gone
    <2>1. PICK r \in Sessions \cup Errors :
             GetReply(d, r) /\ Goto(d, Rechecked(d, r))
      BY <1>3 DEF Recheck
    <2>2. UNCHANGED <<upstream, faults>>
      BY <1>3, <2>1, <1>a DEF Recheck, GetReply
    <2>3. CASE c # d
      BY <2>1, <2>2, <2>3 DEF Goto, StartsOnlyWhenGone
    <2>4. CASE c = d
      <3>1. Rechecked(d, r) = "start"
        BY <2>1, <2>4 DEF Goto
      <3>2. r.st = "gone"
        <4>1. CASE r.st = "active"
          BY <3>1, <4>1 DEF Rechecked
        <4>2. CASE r.st # "active" /\ r.st # "gone"
          BY <3>1, <4>2 DEF Rechecked
        <4>3. QED
          BY <4>1, <4>2
      <3>3. r = upstream
        <4>1. \A e \in Errors : e.st # "gone"
          BY DEF Errors, CtxDone, Refused, Failed, NoSession
        <4>2. CtxDone.st # "gone"
          BY DEF CtxDone, NoSession
        <4>3. QED
          BY <2>1, <3>2, <4>1, <4>2 DEF GetReply
      <3>4. QED
        BY <2>2, <3>2, <3>3 DEF Sessions, Live, Gone, NoSession
    <2>5. QED
      BY <2>3, <2>4
  <1>4. ASSUME UNCHANGED upstream, faults = MaxFaults, pc[c] = "start"
        PROVE  upstream' = Gone
    BY <1>4 DEF StartsOnlyWhenGone
  <1>5. ASSUME NEW d \in Clients,
               \/ GetSession(d) \/ Look(d) \/ Store(d) \/ Join(d)
               \/ Finish(d) \/ StopWaiting(d) \/ Poll(d) \/ Cancel(d)
               \/ \E m \in Models : Begin(d, m)
        PROVE  upstream' = Gone
    <2>1. UNCHANGED upstream
      BY <1>5 DEF GetSession, Look, Store, Join, Finish, StopWaiting, Poll,
                  Cancel, Begin
    <2>2. faults = MaxFaults
      BY <1>5, <1>a DEF GetSession, Look, Store, Join, Finish, StopWaiting,
                        Poll, Cancel, Begin, GetReply
    <2>3. pc[c] = "start"
      <3>1. CASE Finish(d)
        BY <3>1 DEF Finish, AfterReturn, WaitersOf
      <3>2. CASE Poll(d)
        BY <3>2 DEF Poll, PollReply, Settle, AfterReturn, Goto
      <3>3. CASE GetSession(d)
        BY <3>3 DEF GetSession, Resolved, Goto
      <3>4. CASE ~ (Finish(d) \/ Poll(d) \/ GetSession(d))
        BY <1>5, <3>4, ZenonT(30)
           DEF Look, Store, Join, StopWaiting, Cancel, Begin, Goto
      <3>5. QED
        BY <3>1, <3>2, <3>3, <3>4
    <2>4. QED
      BY <2>1, <2>2, <2>3, <1>4
  <1>6. ASSUME \/ \E m \in Models : CacheExpires(m)
               \/ UNCHANGED vars
        PROVE  upstream' = Gone
    BY <1>6, <1>4 DEF CacheExpires, vars, clientVars
  <1>7. ASSUME NEW s \in Sessions, Disturb(s)
        PROVE  FALSE
    BY <1>7, <1>a DEF Disturb
  <1>8. ASSUME Admit
        PROVE  FALSE
    <2>1. pc[c] = "start" /\ faults = MaxFaults /\ upstream.st = "queued"
      BY <1>8 DEF Admit, clientVars
    <2>2. QED
      BY <2>1 DEF StartsOnlyWhenGone, Gone, NoSession
  <1>9. QED
    BY <1>1, <1>2, <1>3, <1>5, <1>6, <1>7, <1>8 DEF Next, ClientStep

\* As long as nobody else meddles with the session and no request fails, a
\* bootstrap never opens a session over one that exists: the leader's second
\* look at the session still holds when StartSession is sent.
THEOREM NoSessionIsReplaced == Spec => []StartsOnlyWhenGone
  <1>1. StartInv => StartsOnlyWhenGone
    BY DEF StartInv
  <1>2. QED
    BY StartInit, StartStep, <1>1, PTL DEF Spec

----------------------------------------------------------------------------
(* The model of what is returned.  The invariant follows a result from the *)
(* reply that produced it ("finish"), through the waiters and the cache.   *)

FitsWant(c) == out[c].st = "active" => out[c].model = want[c]

ModelInv ==
    /\ TypeOK
    /\ \A c \in Clients : pc[c] # "idle" => want[c] \in Models
    /\ \A c \in Clients : pc[c] \in {"idle", "store", "finish"} => FitsWant(c)
    /\ \A c \in Clients : pc[c] = "store" => out[c].st = "active"
    /\ \A m \in Models : cache[m] \in {NoModel, m}

LEMMA StoreMeansActive ==
  ASSUME NEW r, AfterReturn(r) = "store"
  PROVE  r.st = "active"
  <1>1. CASE r.st = "retry"
    BY <1>1 DEF AfterReturn
  <1>2. CASE r.st # "retry" /\ r.st # "active"
    BY <1>2 DEF AfterReturn
  <1>3. QED
    BY <1>1, <1>2

LEMMA ModelInit == Init => ModelInv
  BY TypeInit DEF Init, ModelInv, FitsWant, Nothing, NoSession

\* A step of one client that neither begins a call nor touches the cache
\* preserves ModelInv if what it leaves behind fits.
LEMMA ModelStepOf ==
  ASSUME ModelInv, TypeOK', NEW c \in Clients,
         pc[c] # "idle", UNCHANGED <<want, cache>>,
         \A d \in Clients \ {c} : pc'[d] = pc[d] /\ out'[d] = out[d],
         pc'[c] \in {"idle", "store", "finish"} => FitsWant(c)',
         pc'[c] = "store" => out'[c].st = "active"
  PROVE  ModelInv'
  BY DEF ModelInv, FitsWant

\* The same, from the form most actions have.
LEMMA ModelSettle ==
  ASSUME ModelInv, TypeOK', NEW c \in Clients, NEW r, NEW step,
         pc[c] # "idle", UNCHANGED <<want, cache>>, Got(c, r), Goto(c, step),
         step \in {"idle", "store", "finish"}
             => (r.st = "active" => r.model = want[c]),
         step = "store" => r.st = "active"
  PROVE  ModelInv'
  BY ModelStepOf DEF ModelInv, FitsWant, TypeOK, Got, Goto

LEMMA ModelStep ==
  ASSUME HonestUpstream, ModelInv, [Next]_vars
  PROVE  ModelInv'
  <1>0. TypeOK'
    BY TypeStep DEF ModelInv
  <1> USE <1>0, SessionAssumption
  <1>e. \A r \in Errors \cup {Gone, TooMany, Retry} : r.st # "active"
    BY DEF Errors, Refused, Failed, CtxDone, Gone, TooMany, Retry, NoSession
  <1>1. ASSUME NEW c \in Clients, NEW m \in Models, Begin(c, m)
        PROVE  ModelInv'
    <2>1. want'[c] = m /\ cache' = cache
      BY <1>1 DEF Begin, ModelInv, TypeOK
    <2>2. out'[c].st = "active" => out'[c].model = m
      <3>1. \/ out'[c] = [st |-> "active", model |-> m]
            \/ out'[c] = Nothing
            \/ out'[c] = Failed
        BY <1>1, ZenonT(30) DEF Begin, Got, ModelInv, TypeOK
      <3>2. QED
        BY <3>1 DEF Nothing, Failed, NoSession
    <2>3. \A d \in Clients \ {c} :
            pc'[d] = pc[d] /\ out'[d] = out[d] /\ want'[d] = want[d]
      BY <1>1, ZenonT(30) DEF Begin, Got, Goto, ModelInv, TypeOK
    <2>4. pc'[c] \in {"idle", "get"}
      BY <1>1 DEF Begin, Goto, ModelInv, TypeOK
    <2>5. QED
      BY <2>1, <2>2, <2>3, <2>4 DEF ModelInv, FitsWant
  <1>2. ASSUME NEW c \in Clients, GetSession(c)
        PROVE  ModelInv'
    <2>1. PICK r \in Sessions \cup Errors : Got(c, r) /\ Goto(c, Resolved(c, r))
      BY <1>2 DEF GetSession
    <2>2. Resolved(c, r) \in {"idle", "store", "finish"}
            => (r.st = "active" => r.model = want[c])
      BY DEF Resolved, Matches
    <2>3. Resolved(c, r) = "store" => r.st = "active"
      BY DEF Resolved
    <2>4. QED
      BY <1>2, <2>1, <2>2, <2>3, ModelSettle DEF GetSession
  <1>3. ASSUME NEW c \in Clients, Look(c) \/ Join(c)
        PROVE  ModelInv'
    BY <1>3, ModelStepOf DEF Look, Join, Goto, ModelInv, TypeOK
  <1>4. ASSUME NEW c \in Clients, EndMismatched(c) \/ LeaderEnd(c)
        PROVE  ModelInv'
    <2>1. PICK r \in {Gone, Failed, CtxDone},
               step \in {"join", "idle", "start", "finish"} :
             Got(c, r) /\ Goto(c, step)
      BY <1>4 DEF EndMismatched, LeaderEnd
    <2>2. QED
      BY <1>4, <2>1, <1>e, ModelSettle DEF EndMismatched, LeaderEnd, Errors
  <1>5. ASSUME NEW c \in Clients, Store(c)
        PROVE  ModelInv'
    <2>1. out[c].model \in {NoModel, want[c]}
      BY <1>5 DEF Store, ModelInv, FitsWant
    <2>2. \A m \in Models : cache'[m] \in {NoModel, m}
      BY <1>5, <2>1 DEF Store, ModelInv, TypeOK
    <2>3. QED
      BY <1>5, <2>2 DEF Store, Goto, ModelInv, FitsWant, TypeOK
  <1>7. ASSUME NEW c \in Clients, Recheck(c)
        PROVE  ModelInv'
    <2>1. PICK r \in Sessions \cup Errors :
             Got(c, r) /\ Goto(c, Rechecked(c, r))
      BY <1>7 DEF Recheck
    <2>2. Rechecked(c, r) \in {"idle", "store", "finish"}
            => (r.st = "active" => r.model = want[c])
      BY DEF Rechecked, Matches
    <2>3. Rechecked(c, r) # "store"
      BY DEF Rechecked
    <2>4. QED
      BY <1>7, <2>1, <2>2, <2>3, ModelSettle DEF Recheck
  <1>9. ASSUME NEW c \in Clients, StartSession(c)
        PROVE  ModelInv'
    <2>1. PICK r \in Live \cup Errors, u \in Sessions :
             StartReply(c, r, u) /\ Got(c, r)
      BY <1>9 DEF StartSession
    <2>2. want[c] \in Models
      BY <1>9 DEF StartSession, ModelInv
    <2>3. r.st = "active" => r.model = want[c]
      BY <2>1, <2>2, <1>e, HonestUpstream, ZenonT(30)
         DEF StartReply, HonestUpstream, Errors
    <2>4. PICK step \in {"lpoll", "finish"} : Goto(c, step)
      BY <1>9 DEF StartSession
    <2>5. QED
      BY <1>9, <2>1, <2>3, <2>4, ModelSettle DEF StartSession
  <1>10. ASSUME NEW l \in Clients, Finish(l)
         PROVE  ModelInv'
    <2>1. FitsWant(l)
      BY <1>10 DEF Finish, ModelInv
    <2>2. \A c \in WaitersOf(l) : FitsWant(c)'
      <3> TAKE c \in WaitersOf(l)
      <3>1. out'[c] = Deliver(c, l)
        BY <1>10 DEF Finish, WaitersOf
      <3>2. Deliver(c, l).st = "active" => Deliver(c, l).model = want[c]
        <4>1. CASE out[l].st = "ctx"
          BY <4>1, <1>e DEF Deliver
        <4>2. CASE out[l].st # "ctx" /\ out[l].st # "active"
          BY <4>2 DEF Deliver
        <4>3. CASE out[l].st = "active"
          BY <4>3, <2>1, <1>e DEF Deliver, Matches, FitsWant
        <4>4. QED
          BY <4>1, <4>2, <4>3
      <3>3. QED
        BY <1>10, <3>1, <3>2 DEF FitsWant, Finish
    <2>3. \A c \in Clients \ WaitersOf(l) :
             out'[c] = out[c] /\ (c # l => pc'[c] = pc[c])
      BY <1>10 DEF Finish
    <2>0. l \notin WaitersOf(l)
      BY <1>10 DEF Finish, WaitersOf
    <2>4. \A c \in WaitersOf(l) \cup {l} : pc[c] # "idle"
      BY <1>10 DEF WaitersOf, Finish
    <2>5. UNCHANGED <<want, cache>>
      BY <1>10 DEF Finish
    <2>6. \A c \in Clients : FitsWant(c)' \/ (pc'[c] = pc[c] /\ out'[c] = out[c])
      <3> TAKE c \in Clients
      <3>1. CASE c = l
        BY <3>1, <2>0, <2>1, <2>3, <2>5 DEF FitsWant
      <3>2. CASE c # l /\ c \notin WaitersOf(l)
        BY <3>2, <2>3
      <3>3. CASE c \in WaitersOf(l)
        BY <3>3, <2>2
      <3>4. QED
        BY <3>1, <3>2, <3>3
    <2>9. \A c \in Clients : pc'[c] = "store" =>
             out'[c].st = "active" \/ (pc'[c] = pc[c] /\ out'[c] = out[c])
      <3> TAKE c \in Clients
      <3>1. CASE c = l \/ c \in WaitersOf(l)
        <4>1. pc'[c] = AfterReturn(out'[c])
          BY <1>10, <3>1 DEF Finish
        <4>2. QED
          BY <4>1, StoreMeansActive
      <3>2. CASE c # l /\ c \notin WaitersOf(l)
        BY <3>2, <2>3
      <3>3. QED
        BY <3>1, <3>2
    <2>7. \A c \in Clients : want'[c] \in Models \/ pc'[c] = pc[c]
      BY <2>3, <2>4, <2>5 DEF ModelInv
    <2>8. QED
      BY <2>5, <2>6, <2>7, <2>9 DEF ModelInv, FitsWant
  <1>11. ASSUME NEW c \in Clients, StopWaiting(c)
         PROVE  ModelInv'
    BY <1>11, <1>e, ModelSettle DEF StopWaiting, Errors
  <1>12. ASSUME NEW c \in Clients, Poll(c)
         PROVE  ModelInv'
    <2>1. PICK r, step :
             /\ Got(c, r) /\ Goto(c, step)
             /\ step \in {"idle", "store", "finish"}
                  => (r.st = "active" => r.model = want[c])
             /\ step = "store" => r.st = "active"
      <3>1. CASE \E r \in {CtxDone, TooMany, Failed} : Settle(c, r)
        BY <3>1, <1>e DEF Settle, Errors, AfterReturn
      <3>2. CASE \E r \in Sessions \cup Errors : PollReply(c, r)
        <4>1. PICK r \in Sessions \cup Errors : PollReply(c, r)
          BY <3>2
        <4>2. CASE r.st = "queued" /\ Got(c, r) /\ UNCHANGED pc
          <5>1. Goto(c, pc[c]) /\ pc[c] \in {"poll", "lpoll"}
            BY <1>12, <4>2 DEF Goto, Poll, ModelInv, TypeOK
          <5>2. QED
            BY <4>2, <5>1
        <4>3. CASE Settle(c, Failed)
          BY <3>1, <4>3
        <4>4. CASE r \in Errors /\ Settle(c, r)
          BY <4>4, <1>e DEF Settle, AfterReturn
        <4>5. CASE r.st = "active" /\ Matches(r, want[c]) /\ Settle(c, r)
          BY <4>5 DEF Settle, Matches, AfterReturn
        <4>6. CASE Got(c, r) /\ Goto(c, IF pc[c] = "poll" THEN "pend"
                                         ELSE "lpend")
          BY <4>6
        <4>7. QED
          BY <4>1, <4>2, <4>3, <4>4, <4>5, <4>6 DEF PollReply
      <3>3. QED
        BY <1>12, <3>1, <3>2 DEF Poll
    <2>2. QED
      BY <1>12, <2>1, ModelSettle DEF Poll
  <1>13. ASSUME NEW c \in Clients, PollEnd(c)
         PROVE  ModelInv'
    <2>1. PICK r \in {Retry, Failed, CtxDone} : Settle(c, r)
      BY <1>13 DEF PollEnd
    <2>2. PICK step : Got(c, r) /\ Goto(c, step) /\ step # "store"
      BY <2>1, <1>e DEF Settle, AfterReturn, Errors
    <2>3. QED
      BY <1>13, <2>2, <1>e, ModelSettle DEF PollEnd, Errors
  <1>14. ASSUME NEW m \in Models, CacheExpires(m)
         PROVE  ModelInv'
    BY <1>14 DEF CacheExpires, clientVars, ModelInv, FitsWant, TypeOK
  <1>15. ASSUME \/ \E c \in Clients : Cancel(c)
                \/ \E s \in Sessions : Disturb(s)
                \/ Admit
                \/ UNCHANGED vars
         PROVE  ModelInv'
    <2>1. UNCHANGED <<pc, want, out, cache>>
      BY <1>15 DEF Cancel, Disturb, Admit, vars, clientVars
    <2>2. QED
      BY <2>1 DEF ModelInv, FitsWant
  <1>16. QED
    BY <1>1, <1>2, <1>3, <1>4, <1>5, <1>7, <1>9, <1>10, <1>11, <1>12, <1>13,
       <1>14, <1>15 DEF Next, ClientStep

\* Over an upstream that serves what it is asked for, whatever EnsureActive
\* returns - from the cache, its own bootstrap or another caller's - is a
\* session for the model it was called with.
THEOREM RightModel ==
  ASSUME HonestUpstream
  PROVE  Spec => []ReturnsTheModelAsked
  <1>1. ModelInv => ReturnsTheModelAsked
    BY DEF ModelInv, ReturnsTheModelAsked, FitsWant
  <1>2. ModelInv /\ [Next]_vars => ModelInv'
    BY ModelStep, HonestUpstream
  <1>3. QED
    BY ModelInit, <1>1, <1>2, PTL DEF Spec


----------------------------------------------------------------------------
(* Deduplication is invisible.  While nothing has failed and one model is in *)
(* use, nobody ends the session: whoever polls has seen one, and it is still *)
(* there.                                                                    *)

\* The history names every model there is, and nobody is cancelled without a fault.
SeenInv ==
    /\ TypeOK
    /\ IsFiniteSet(seen)
    /\ faults = MaxFaults => cancelled = {}
    /\ \A c \in Clients : want[c] \in seen \cup {NoModel}
    /\ \A c \in Clients : pc[c] # "idle" => want[c] \in Models
    /\ upstream.model \in seen \cup {NoModel}

Alike == \A x, y \in seen : x = y
Quiet == faults = MaxFaults /\ Alike

Calm(c) ==
    /\ pc[c] \notin {"end", "lend", "pend", "lpend"}
    /\ out[c].st \notin {"refused", "fail", "ctx"}
    /\ pc[c] \in {"look", "poll", "lpoll"} => upstream.st # "gone"

CalmInv == SeenInv /\ (Quiet => \A c \in Clients : Calm(c))

LEMMA FewAreAlike ==
  ASSUME NEW S, IsFiniteSet(S), Cardinality(S) <= 1, NEW x \in S, NEW y \in S
  PROVE  x = y
  <1>1. SUFFICES ASSUME x # y PROVE FALSE
    OBVIOUS
  <1>2. IsFiniteSet(S \ {x}) /\ Cardinality(S \ {x}) = Cardinality(S) - 1
    BY FS_RemoveElement
  <1>3. y \in S \ {x}
    BY <1>1
  <1>4. /\ IsFiniteSet((S \ {x}) \ {y})
        /\ Cardinality((S \ {x}) \ {y}) = Cardinality(S \ {x}) - 1
    BY <1>2, <1>3, FS_RemoveElement
  <1>5. Cardinality((S \ {x}) \ {y}) \in Nat /\ Cardinality(S) \in Nat
    BY <1>4, FS_CardinalityType
  <1>6. QED
    BY <1>2, <1>4, <1>5

LEMMA SeenInit == Init => SeenInv
  <1>1. SUFFICES ASSUME Init PROVE SeenInv
    OBVIOUS
  <1>2. IsFiniteSet({}) /\ IsFiniteSet({} \cup {upstream.model})
    BY FS_EmptySet, FS_AddElement
  <1>3. IsFiniteSet(seen)
    <2>1. CASE upstream.model = NoModel
      <3>1. seen = {}
        BY <1>1, <2>1 DEF Init
      <3>2. QED
        BY <1>2, <3>1
    <2>2. CASE upstream.model # NoModel
      <3>1. seen = {} \cup {upstream.model}
        BY <1>1, <2>2 DEF Init
      <3>2. QED
        BY <1>2, <3>1
    <2>3. QED
      BY <2>1, <2>2
  <1>4. QED
    BY <1>1, <1>3, TypeInit DEF Init, SeenInv

\* How the history grows.
LEMMA SeenGrows ==
  ASSUME SeenInv, Next
  PROVE  \E x : seen' = seen \cup ({x} \ {NoModel})
  <1>1. CASE \E c \in Clients, m \in Models : Begin(c, m)
    <2>1. PICK m \in Models : seen' = seen \cup {m}
      BY <1>1 DEF Begin
    <2>2. {m} \ {NoModel} = {m}
      BY SessionAssumption
    <2>3. QED
      BY <2>1, <2>2
  <1>2. CASE \E c \in Clients : StartSession(c)
    BY <1>2 DEF StartSession
  <1>3. CASE \E s \in Sessions : Disturb(s)
    BY <1>3 DEF Disturb
  <1>4. CASE UNCHANGED seen
    <2>1. seen' = seen \cup ({NoModel} \ {NoModel})
      BY <1>4
    <2>2. QED
      BY <2>1
  <1>5. QED
    BY <1>1, <1>2, <1>3, <1>4
       DEF Next, ClientStep, GetSession, Look, EndMismatched, Store, Join, Recheck, LeaderEnd,
           Finish, StopWaiting, Poll, PollEnd, Cancel, CacheExpires, Admit

\* A fault shows in what is left of them.
LEMMA FaultsCount ==
  ASSUME TypeOK, Charge(TRUE)
  PROVE  faults' # MaxFaults
  <1>1. faults \in 0..MaxFaults /\ faults' = faults - 1 /\ MaxFaults \in Nat
    BY SessionAssumption DEF TypeOK, Charge
  <1>2. QED
    BY <1>1

LEMMA FaultsFall ==
  ASSUME TypeOK, Next, faults' = MaxFaults
  PROVE  faults = MaxFaults
  <1>1. ~Charge(TRUE)
    BY FaultsCount
  <1>2. UNCHANGED faults
    <2>1. ASSUME NEW c \in Clients, ClientStep(c)
          PROVE  UNCHANGED faults
      <3>1. CASE GetSession(c) \/ Recheck(c) \/ Poll(c)
        BY <1>1, <3>1 DEF GetSession, Recheck, Poll, GetReply
      <3>2. CASE EndMismatched(c) \/ LeaderEnd(c) \/ PollEnd(c)
        BY <1>1, <3>2 DEF EndMismatched, LeaderEnd, PollEnd, EndReply
      <3>3. CASE StartSession(c)
        BY <1>1, <3>3 DEF StartSession, StartReply
      <3>4. CASE Look(c) \/ Store(c) \/ Join(c) \/ Finish(c) \/ StopWaiting(c)
        BY <3>4 DEF Look, Store, Join, Finish, StopWaiting
      <3>5. QED
        BY <2>1, <3>1, <3>2, <3>3, <3>4 DEF ClientStep
    <2>2. CASE (\E c \in Clients : Cancel(c)) \/ (\E s \in Sessions : Disturb(s))
      BY <1>1, <2>2 DEF Cancel, Disturb
    <2>3. CASE \E c \in Clients, m \in Models : Begin(c, m)
      BY <1>1, <2>3 DEF Begin
    <2>4. CASE (\E m \in Models : CacheExpires(m)) \/ Admit
      BY <2>4 DEF CacheExpires, Admit
    <2>5. QED
      BY <2>1, <2>2, <2>3, <2>4 DEF Next
  <1>3. QED
    BY <1>2

LEMMA SeenStep == SeenInv /\ [Next]_vars => SeenInv'
  <1>1. SUFFICES ASSUME SeenInv, Next PROVE SeenInv'
    <2>1. CASE UNCHANGED vars
      BY <2>1, TypeStep DEF vars, clientVars, SeenInv
    <2>2. QED
      BY <2>1
  <1>2. TypeOK'
    BY <1>1, TypeStep DEF SeenInv
  <1>3. PICK x : seen' = seen \cup ({x} \ {NoModel})
    BY <1>1, SeenGrows
  <1>4. IsFiniteSet(seen')
    <2>1. IsFiniteSet(seen) /\ IsFiniteSet(seen \cup {x})
      BY <1>1, FS_AddElement DEF SeenInv
    <2>2. seen' = seen \/ seen' = seen \cup {x}
      BY <1>3
    <2>3. QED
      BY <2>1, <2>2
  <1>5. faults' = MaxFaults => cancelled' = {}
    <2>1. SUFFICES ASSUME faults' = MaxFaults PROVE cancelled' = {}
      OBVIOUS
    <2>2. cancelled = {} /\ ~Charge(TRUE)
      BY <1>1, <2>1, FaultsFall, FaultsCount DEF SeenInv
    <2>3. cancelled' \subseteq cancelled
      BY <1>1, <2>2
         DEF Next, ClientStep, GetSession, Look, EndMismatched, Store, Join, Recheck, LeaderEnd,
             StartSession, Finish, StopWaiting, Poll, PollEnd, Cancel, CacheExpires, Admit,
             Disturb, Begin, clientVars
    <2>4. QED
      BY <2>2, <2>3
  <1>6. /\ \A c \in Clients : want'[c] \in seen' \cup {NoModel}
        /\ \A c \in Clients : pc'[c] # "idle" => want'[c] \in Models
    <2>1. CASE \E c \in Clients, m \in Models : Begin(c, m)
      <3>1. PICK c \in Clients, m \in Models : Begin(c, m)
        BY <2>1
      <3>2. /\ seen' = seen \cup {m}
            /\ \A d \in Clients : want'[d] = IF d = c THEN m ELSE want[d]
        BY <1>1, <3>1 DEF Begin, SeenInv, TypeOK
      <3>3. \A d \in Clients : d # c => pc'[d] = pc[d]
        BY <1>1, <3>1 DEF Begin, Goto, SeenInv, TypeOK
      <3>4. QED
        BY <1>1, <3>2, <3>3 DEF SeenInv
    <2>2. CASE UNCHANGED want /\ \A c \in Clients : pc[c] = "idle" => pc'[c] = pc[c]
      BY <1>1, <1>3, <2>2 DEF SeenInv
    <2>3. ASSUME NEW c \in Clients, ClientStep(c)
          PROVE  UNCHANGED want /\ \A d \in Clients : pc[d] = "idle" => pc'[d] = pc[d]
      <3>1. CASE GetSession(c) \/ Recheck(c)
        BY <1>1, <3>1 DEF GetSession, Recheck, Goto, SeenInv, TypeOK
      <3>2. CASE EndMismatched(c) \/ LeaderEnd(c) \/ StartSession(c)
        BY <1>1, <3>2 DEF EndMismatched, LeaderEnd, StartSession, Goto, SeenInv, TypeOK
      <3>3. CASE Poll(c) \/ PollEnd(c)
        BY <1>1, <3>3 DEF Poll, PollEnd, PollReply, Settle, Goto, SeenInv, TypeOK
      <3>4. CASE Look(c) \/ Store(c) \/ Join(c) \/ StopWaiting(c)
        BY <1>1, <3>4 DEF Look, Store, Join, StopWaiting, Goto, SeenInv, TypeOK
      <3>5. CASE Finish(c)
        BY <3>5 DEF Finish, WaitersOf
      <3>6. QED
        BY <2>3, <3>1, <3>2, <3>3, <3>4, <3>5 DEF ClientStep
    <2>4. CASE \/ \E c \in Clients : Cancel(c)
               \/ \E s \in Sessions : Disturb(s)
               \/ \E m \in Models : CacheExpires(m)
               \/ Admit
      BY <2>2, <2>4 DEF Cancel, Disturb, CacheExpires, Admit, clientVars
    <2>5. QED
      BY <1>1, <2>1, <2>2, <2>3, <2>4 DEF Next
  <1>7. upstream'.model \in seen' \cup {NoModel}
    <2>1. CASE upstream'.model \in {upstream.model, NoModel}
      BY <1>1, <1>3, <2>1 DEF SeenInv
    <2>2. ASSUME NEW c \in Clients, EndMismatched(c) \/ LeaderEnd(c) \/ PollEnd(c)
          PROVE  upstream' \in {upstream, Gone}
      BY <2>2 DEF EndMismatched, LeaderEnd, PollEnd, EndReply
    <2>3. CASE \E c \in Clients : StartSession(c)
      BY <2>3 DEF StartSession
    <2>4. CASE \E s \in Sessions : Disturb(s)
      BY <2>4 DEF Disturb
    <2>5. CASE Admit
      <3>1. upstream \in Sessions
        BY <1>1 DEF SeenInv, TypeOK
      <3>2. upstream'.model = upstream.model
        BY <2>5, <3>1 DEF Admit, Sessions, Live, Gone, NoSession
      <3>3. QED
        BY <2>1, <3>2
    <2>6. Gone.model = NoModel
      BY DEF Gone, NoSession
    <2>7. QED
      BY <1>1, <2>1, <2>2, <2>3, <2>4, <2>5, <2>6
         DEF Next, ClientStep, GetSession, Look, Store, Join, Recheck, Finish, StopWaiting, Poll,
             Cancel, CacheExpires, Begin
  <1>8. QED
    BY <1>2, <1>4, <1>5, <1>6, <1>7 DEF SeenInv

\* What is known of a step that leaves things quiet.
LEMMA QuietBefore ==
  ASSUME SeenInv, Next, Quiet'
  PROVE  /\ Quiet /\ ~Charge(TRUE) /\ cancelled = {}
         /\ \A c \in Clients : pc[c] # "idle" /\ upstream # Gone => upstream.model = want[c]
         /\ \A c \in Clients, u \in Live :
                pc[c] # "idle" /\ want'[c] = want[c] /\ u.model \in seen' => u.model = want[c]
  <1>1. faults = MaxFaults /\ ~Charge(TRUE)
    BY FaultsFall, FaultsCount DEF SeenInv, Quiet
  <1>2. seen \subseteq seen'
    BY SeenGrows
  <1>3. Alike
    BY <1>2 DEF Quiet, Alike
  <1>4. cancelled = {}
    BY <1>1 DEF SeenInv
  <1>5. ASSUME NEW c \in Clients, pc[c] # "idle"
        PROVE  want[c] \in seen
    BY <1>5, SessionAssumption DEF SeenInv
  <1>6. ASSUME NEW c \in Clients, pc[c] # "idle", upstream # Gone
        PROVE  upstream.model = want[c]
    <2>1. upstream \in Live
      BY <1>6 DEF SeenInv, TypeOK, Sessions
    <2>2. upstream.model \in Models
      BY <2>1 DEF Live
    <2>3. upstream.model \in seen
      BY <2>2, SessionAssumption DEF SeenInv
    <2>4. QED
      BY <1>3, <1>5, <1>6, <2>3 DEF Alike
  <1>7. ASSUME NEW c \in Clients, pc[c] # "idle", NEW u \in Live, u.model \in seen'
        PROVE  u.model = want[c]
    BY <1>2, <1>5, <1>7 DEF Quiet, Alike
  <1>8. QED
    BY <1>1, <1>3, <1>4, <1>6, <1>7 DEF Quiet

\* A step of one client, that takes no session away.
LEMMA CalmStays ==
  ASSUME TypeOK, TypeOK', NEW c \in Clients, \A d \in Clients : Calm(d), NEW r, NEW step,
         Got(c, r), Goto(c, step),
         upstream'.st # "gone" \/ upstream' = upstream,
         step \notin {"end", "lend", "pend", "lpend"},
         r.st \notin {"refused", "fail", "ctx"},
         step \in {"look", "poll", "lpoll"} => upstream'.st # "gone"
  PROVE  \A d \in Clients : Calm(d)'
  <1>1. \A d \in Clients : /\ pc'[d] = IF d = c THEN step ELSE pc[d]
                           /\ out'[d] = IF d = c THEN r ELSE out[d]
    BY DEF Got, Goto, TypeOK
  <1>2. QED
    BY <1>1 DEF Calm

LEMMA CalmKept ==
  ASSUME \A d \in Clients : Calm(d), UNCHANGED out,
         upstream'.st # "gone" \/ upstream' = upstream,
         \A d \in Clients : \/ pc'[d] = pc[d]
                            \/ pc'[d] \in Steps \ {"end", "lend", "pend", "lpend", "look", "poll", "lpoll"}
                            \/ pc'[d] = "poll" /\ pc[d] = "look"
  PROVE  \A d \in Clients : Calm(d)'
  BY DEF Calm

LEMMA CalmStep == CalmInv /\ [Next]_vars => CalmInv'
  <1>1. SUFFICES ASSUME CalmInv, Next, Quiet' PROVE \A d \in Clients : Calm(d)'
    <2>1. CASE UNCHANGED vars
      BY <2>1, SeenStep DEF vars, clientVars, CalmInv, Quiet, Alike, Calm
    <2>2. QED
      BY <2>1, SeenStep DEF CalmInv
  <1>2. /\ Quiet /\ ~Charge(TRUE) /\ cancelled = {}
        /\ \A c \in Clients : pc[c] # "idle" /\ upstream # Gone => upstream.model = want[c]
        /\ \A c \in Clients, u \in Live :
               pc[c] # "idle" /\ want'[c] = want[c] /\ u.model \in seen' => u.model = want[c]
    BY <1>1, QuietBefore DEF CalmInv
  <1>3. TypeOK /\ TypeOK' /\ upstream \in Sessions /\ \A d \in Clients : Calm(d)
    BY <1>1, <1>2, TypeStep DEF CalmInv, SeenInv, TypeOK
  <1>4. /\ upstream.st = "gone" => upstream = Gone
        /\ Gone.st = "gone" /\ upstream.st \in {"gone", "queued", "active"}
    BY <1>3 DEF Sessions, Live, Gone, NoSession
  <1>5. ASSUME NEW c \in Clients, NEW r, GetReply(c, r)
        PROVE  r = upstream
    BY <1>2, <1>5 DEF GetReply
  <1>6. ASSUME NEW c \in Clients, pc[c] # "idle", upstream.st = "active"
        PROVE  Matches(upstream, want[c])
    <2>1. upstream # Gone
      BY <1>4, <1>6
    <2>2. QED
      BY <1>2, <1>6, <2>1 DEF Matches
  <1>7. ASSUME NEW c \in Clients, NEW m \in Models, Begin(c, m)
        PROVE  \A d \in Clients : Calm(d)'
    <2>1. PICK r \in {[st |-> "active", model |-> m], Nothing}, step \in {pc[c], "get"} :
             Got(c, r) /\ Goto(c, step)
      <3>1. pc = [pc EXCEPT ![c] = pc[c]]
        BY <1>3 DEF TypeOK
      <3>2. QED
        BY <1>2, <1>7, <3>1 DEF Begin, Goto
    <2>2. r.st \notin {"refused", "fail", "ctx"}
      BY <2>1 DEF Nothing, NoSession
    <2>3. step \in {"idle", "get"} /\ upstream' = upstream
      BY <1>7, <2>1 DEF Begin
    <2>4. QED
      BY <1>3, <2>1, <2>2, <2>3, CalmStays
  <1>8. ASSUME NEW c \in Clients, GetSession(c)
        PROVE  \A d \in Clients : Calm(d)'
    <2>1. /\ Got(c, upstream) /\ Goto(c, Resolved(c, upstream))
          /\ pc[c] = "get" /\ upstream' = upstream
      BY <1>5, <1>8 DEF GetSession
    <2>2. PICK step : step = Resolved(c, upstream)
      OBVIOUS
    <2>3. /\ step \in {"store", "look", "join"}
          /\ step = "look" => upstream.st # "gone"
      BY <1>4, <1>6, <2>1, <2>2 DEF Resolved
    <2>4. QED
      BY <1>3, <1>4, <2>1, <2>2, <2>3, CalmStays
  <1>9. ASSUME NEW c \in Clients, Recheck(c)
        PROVE  \A d \in Clients : Calm(d)'
    <2>1. /\ Got(c, upstream) /\ Goto(c, Rechecked(c, upstream))
          /\ pc[c] = "recheck" /\ upstream' = upstream
      BY <1>5, <1>9 DEF Recheck
    <2>2. PICK step : step = Rechecked(c, upstream)
      OBVIOUS
    <2>3. /\ step \in {"finish", "lpoll", "start"}
          /\ step = "lpoll" => upstream.st # "gone"
      BY <1>4, <1>6, <2>1, <2>2 DEF Rechecked
    <2>4. QED
      BY <1>3, <1>4, <2>1, <2>2, <2>3, CalmStays
  <1>10. ASSUME NEW c \in Clients, EndMismatched(c) \/ LeaderEnd(c) \/ PollEnd(c)
         PROVE  FALSE
    BY <1>3, <1>10 DEF EndMismatched, LeaderEnd, PollEnd, Calm
  <1>11. ASSUME NEW c \in Clients, StartSession(c)
         PROVE  \A d \in Clients : Calm(d)'
    <2>1. PICK r \in Live, step \in {"lpoll", "finish"} :
             Got(c, r) /\ Goto(c, step) /\ upstream' = r
      BY <1>2, <1>11 DEF StartSession, StartReply
    <2>2. r.st \in {"queued", "active"}
      BY <2>1 DEF Live
    <2>3. QED
      BY <1>3, <2>1, <2>2, CalmStays
  <1>12. ASSUME NEW l \in Clients, Finish(l)
         PROVE  \A d \in Clients : Calm(d)'
    <2>1. ASSUME NEW d \in Clients
          PROVE  out'[d].st \notin {"refused", "fail", "ctx"}
      <3>1. CASE d \in WaitersOf(l)
        <4>1. out'[d] \in {Retry, out[l]}
          BY <1>12, <3>1 DEF Finish, Deliver
        <4>2. QED
          BY <1>3, <4>1 DEF Calm, Retry, NoSession
      <3>2. CASE d \notin WaitersOf(l)
        BY <1>3, <1>12, <3>2 DEF Finish, Calm
      <3>3. QED
        BY <3>1, <3>2
    <2>2. \A d \in Clients : pc'[d] \in {"get", "store", "idle", pc[d]}
      BY <1>12 DEF Finish, AfterReturn
    <2>3. upstream' = upstream
      BY <1>12 DEF Finish
    <2>4. QED
      BY <1>3, <2>1, <2>2, <2>3 DEF Calm
  <1>13. ASSUME NEW c \in Clients, StopWaiting(c)
         PROVE  FALSE
    BY <1>2, <1>13 DEF StopWaiting
  <1>14. ASSUME NEW c \in Clients, Poll(c)
         PROVE  \A d \in Clients : Calm(d)'
    <2>1. pc[c] \in {"poll", "lpoll"} /\ upstream.st # "gone" /\ upstream' = upstream
      BY <1>3, <1>14 DEF Poll, Calm
    <2>2. ASSUME NEW r, Settle(c, r), r \in {TooMany, upstream}
          PROVE  \A d \in Clients : Calm(d)'
      <3>1. PICK step : step = IF pc[c] \in Leading THEN "finish" ELSE AfterReturn(r)
        OBVIOUS
      <3>2. step \in {"finish", "get", "store", "idle"}
        BY <3>1 DEF AfterReturn
      <3>3. r.st \notin {"refused", "fail", "ctx"}
        BY <1>4, <2>2 DEF TooMany, NoSession
      <3>4. Got(c, r) /\ Goto(c, step)
        BY <2>2, <3>1 DEF Settle
      <3>5. QED
        BY <1>3, <2>1, <3>2, <3>3, <3>4, CalmStays
    <2>3. CASE Settle(c, TooMany)
      BY <2>2, <2>3
    <2>4. CASE PollReply(c, upstream)
      <3>1. CASE Got(c, upstream) /\ UNCHANGED pc
        <4>1. Goto(c, pc[c])
          BY <1>3, <3>1 DEF Goto, TypeOK
        <4>2. QED
          BY <1>3, <1>4, <2>1, <3>1, <4>1, CalmStays
      <3>2. CASE Settle(c, upstream)
        BY <2>2, <3>2
      <3>3. upstream \notin Errors
        BY <1>4 DEF Errors, Refused, Failed, CtxDone, NoSession
      <3>4. upstream.st = "active" => Matches(upstream, want[c])
        BY <1>6, <2>1
      <3>5. QED
        BY <2>1, <2>4, <3>1, <3>2, <3>3, <3>4 DEF PollReply
    <2>5. QED
      <3>1. c \notin cancelled
        BY <1>2
      <3>2. CASE PollsExhausted(c)
        BY <1>14, <2>3, <3>1, <3>2 DEF Poll
      <3>3. CASE ~PollsExhausted(c)
        BY <1>5, <1>14, <2>4, <3>1, <3>3 DEF Poll
      <3>4. QED
        BY <3>2, <3>3
  <1>15. ASSUME NEW c \in Clients, Look(c) \/ Store(c) \/ Join(c)
         PROVE  \A d \in Clients : Calm(d)'
    <2>1. UNCHANGED <<out, upstream>>
      BY <1>15 DEF Look, Store, Join
    <2>2. \A d \in Clients : \/ pc'[d] = pc[d]
                             \/ pc'[d] \in {"wait", "recheck", "idle"}
                             \/ pc'[d] = "poll" /\ pc[d] = "look"
      BY <1>3, <1>15 DEF Look, Store, Join, Goto, TypeOK
    <2>3. QED
      BY <1>3, <2>1, <2>2, CalmKept DEF Steps, Leading
  <1>16. CASE \/ \E c \in Clients : Cancel(c)
              \/ \E s \in Sessions : Disturb(s)
    BY <1>2, <1>16 DEF Cancel, Disturb
  <1>17. CASE \E m \in Models : CacheExpires(m)
    BY <1>3, <1>17 DEF CacheExpires, clientVars, Calm
  <1>18. CASE Admit
    <2>1. UNCHANGED <<pc, out>>
      BY <1>18 DEF Admit, clientVars
    <2>2. upstream'.st = "active"
      BY <1>3, <1>18 DEF Admit, Sessions, Live, Gone, NoSession
    <2>3. QED
      BY <1>3, <2>1, <2>2 DEF Calm
  <1>19. QED
    BY <1>1, <1>7, <1>8, <1>9, <1>10, <1>11, <1>12, <1>13, <1>14, <1>15, <1>16, <1>17, <1>18
       DEF Next, ClientStep

\* Deduplication is invisible to callers of one model: as long as nothing fails no call
\* of EnsureActive does, whatever callers, pollers and the waiting room do in between
\* (manager.go:97-411).
THEOREM DedupIsInvisible == Spec => []OneModelNeverFails
  <1>1. Init => CalmInv
    BY SeenInit DEF Init, CalmInv, Calm, Nothing, NoSession
  <1>2. CalmInv => OneModelNeverFails
    <2>1. SUFFICES ASSUME CalmInv, faults = MaxFaults, Cardinality(seen) <= 1,
                          NEW c \in Clients
                   PROVE  out[c].st \notin {"refused", "fail", "ctx"}
      BY DEF OneModelNeverFails
    <2>2. Alike
      BY <2>1, FewAreAlike DEF CalmInv, SeenInv, Alike
    <2>3. QED
      BY <2>1, <2>2 DEF CalmInv, Quiet, Calm
  <1>3. QED
    BY <1>1, <1>2, CalmStep, PTL DEF Spec

----------------------------------------------------------------------------
(* Nor does the cache mislead callers of one model: a session that is up     *)
(* stays up, since nobody has a reason to end or to replace it.              *)

\* A result on its way to the caller, the waiters or the cache.
InHand(c) == pc[c] \in {"store", "finish"} /\ out[c].st = "active"

Fresh ==
    /\ \A c \in Clients : pc[c] = "store" => out[c].st = "active"
    /\ \A c \in Clients : InHand(c) => out[c] = upstream
    /\ \A m \in Models :
           cache[m] # NoModel => upstream = [st |-> "active", model |-> cache[m]]

FreshInv == StartInv /\ CalmInv /\ (Quiet => Fresh)

\* A quiet step leaves an active session as it is.
LEMMA ActiveStays ==
  ASSUME StartInv, CalmInv, Next, Quiet', upstream.st = "active"
  PROVE  upstream' = upstream
  <1>1. /\ Quiet /\ ~Charge(TRUE)
        /\ \A c \in Clients : Calm(c)
    BY QuietBefore DEF CalmInv
  <1>2. ASSUME NEW c \in Clients, EndMismatched(c) \/ LeaderEnd(c) \/ PollEnd(c)
        PROVE  FALSE
    BY <1>1, <1>2 DEF EndMismatched, LeaderEnd, PollEnd, Calm
  <1>3. ASSUME NEW c \in Clients, StartSession(c)
        PROVE  FALSE
    <2>1. upstream = Gone
      BY <1>1, <1>3 DEF StartSession, StartInv, StartsOnlyWhenGone, Quiet
    <2>2. QED
      BY <2>1 DEF Gone, NoSession
  <1>4. ASSUME NEW s \in Sessions, Disturb(s)
        PROVE  FALSE
    BY <1>1, <1>4 DEF Disturb
  <1>5. ASSUME Admit
        PROVE  FALSE
    BY <1>5 DEF Admit
  <1>6. ASSUME NEW c \in Clients,
               \/ GetSession(c) \/ Look(c) \/ Store(c) \/ Join(c) \/ Recheck(c)
               \/ Finish(c) \/ StopWaiting(c) \/ Poll(c) \/ Cancel(c)
        PROVE  upstream' = upstream
    BY <1>6 DEF GetSession, Look, Store, Join, Recheck, Finish, StopWaiting, Poll, Cancel
  <1>7. ASSUME NEW m \in Models, CacheExpires(m) \/ \E c \in Clients : Begin(c, m)
        PROVE  upstream' = upstream
    BY <1>7 DEF CacheExpires, Begin
  <1>8. QED
    BY <1>2, <1>3, <1>4, <1>5, <1>6, <1>7 DEF Next, ClientStep

\* Results and entries stay fresh if new ones are what the upstream has.
LEMMA FreshKept ==
  ASSUME Fresh, TypeOK, upstream.st = "active" => upstream' = upstream,
         \A d \in Clients : pc'[d] = "store" => out'[d].st = "active",
         \A d \in Clients : InHand(d)' => \/ InHand(d) /\ out'[d] = out[d]
                                          \/ out'[d] = upstream'
                                          \/ \E l \in Clients : InHand(l) /\ out'[d] = out[l],
         \A m \in Models : cache'[m] # NoModel =>
             \/ cache'[m] = cache[m]
             \/ \E c \in Clients : InHand(c) /\ cache'[m] = out[c].model
  PROVE  Fresh'
  <1>1. ASSUME NEW d \in Clients, InHand(d)'
        PROVE  out'[d] = upstream'
    BY <1>1 DEF Fresh, InHand
  <1>2. ASSUME NEW m \in Models, cache'[m] # NoModel
        PROVE  upstream' = [st |-> "active", model |-> cache'[m]]
    <2>1. CASE cache'[m] = cache[m]
      BY <1>2, <2>1 DEF Fresh
    <2>2. ASSUME NEW c \in Clients, InHand(c), cache'[m] = out[c].model
          PROVE  upstream' = [st |-> "active", model |-> cache'[m]]
      <3>1. upstream = out[c] /\ upstream' = upstream /\ upstream.st = "active"
        BY <2>2 DEF Fresh, InHand
      <3>2. upstream \in Live
        BY <3>1 DEF TypeOK, Sessions, Gone, NoSession
      <3>3. QED
        BY <2>2, <3>1, <3>2 DEF Live
    <2>3. QED
      BY <1>2, <2>1, <2>2
  <1>3. QED
    BY <1>1, <1>2 DEF Fresh

\* One client's step with a result: it is what the upstream has, or not held.
LEMMA FreshResult ==
  ASSUME Fresh, TypeOK, upstream.st = "active" => upstream' = upstream,
         NEW c \in Clients, NEW r, NEW step, Got(c, r), Goto(c, step), UNCHANGED cache,
         step = "store" => r.st = "active",
         step \in {"store", "finish"} /\ r.st = "active" => r = upstream'
  PROVE  Fresh'
  <1>1. \A d \in Clients : /\ pc'[d] = IF d = c THEN step ELSE pc[d]
                           /\ out'[d] = IF d = c THEN r ELSE out[d]
    BY DEF Got, Goto, TypeOK
  <1>2. \A d \in Clients : InHand(d)' => \/ InHand(d) /\ out'[d] = out[d]
                                         \/ out'[d] = upstream'
    BY <1>1 DEF InHand
  <1>3. \A d \in Clients : pc'[d] = "store" => out'[d].st = "active"
    BY <1>1 DEF Fresh
  <1>4. QED
    BY <1>2, <1>3, FreshKept

LEMMA FreshStep == FreshInv /\ [Next]_vars => FreshInv'
  <1>1. SUFFICES ASSUME FreshInv, Next, Quiet' PROVE Fresh'
    <2>1. CASE UNCHANGED vars
      BY <2>1, StartStep, CalmStep
         DEF vars, clientVars, FreshInv, Fresh, InHand, Quiet, Alike
    <2>2. QED
      BY <2>1, StartStep, CalmStep DEF FreshInv
  <1>2. /\ Quiet /\ ~Charge(TRUE) /\ cancelled = {}
        /\ upstream.st = "active" => upstream' = upstream
    BY <1>1, QuietBefore, ActiveStays DEF FreshInv, CalmInv
  <1>3. /\ TypeOK /\ Fresh /\ upstream \in Sessions
        /\ \A c \in Clients : Calm(c)
        /\ \A c \in Clients : pc[c] = "start" => upstream = Gone
    BY <1>1, <1>2 DEF FreshInv, CalmInv, SeenInv, StartInv, StartsOnlyWhenGone, Quiet, TypeOK
  <1>5. ASSUME NEW c \in Clients, NEW r, GetReply(c, r)
        PROVE  r = upstream
    BY <1>2, <1>5 DEF GetReply
  <1>6. ASSUME UNCHANGED <<out, cache>>,
               \A d \in Clients : \/ pc'[d] = pc[d]
                                  \/ pc'[d] \notin {"store", "finish"}
        PROVE  Fresh'
    <2>1. \A d \in Clients : InHand(d)' => InHand(d) /\ out'[d] = out[d]
      BY <1>6 DEF InHand
    <2>2. \A d \in Clients : pc'[d] = "store" => out'[d].st = "active"
      BY <1>3, <1>6 DEF Fresh
    <2>3. QED
      BY <1>2, <1>3, <1>6, <2>1, <2>2, FreshKept
  <1>7. ASSUME NEW c \in Clients, NEW m \in Models, Begin(c, m)
        PROVE  Fresh'
    <2>1. PICK r \in {[st |-> "active", model |-> m], Nothing}, step \in {"idle", "get"} :
             Got(c, r) /\ Goto(c, step)
      <3>1. pc = [pc EXCEPT ![c] = "idle"]
        BY <1>3, <1>7 DEF TypeOK, Begin
      <3>2. QED
        BY <1>2, <1>7, <3>1 DEF Begin, Goto
    <2>2. UNCHANGED cache
      BY <1>7 DEF Begin
    <2>3. QED
      BY <1>2, <1>3, <2>1, <2>2, FreshResult
  <1>8. ASSUME NEW c \in Clients, GetSession(c)
        PROVE  Fresh'
    <2>1. Got(c, upstream) /\ Goto(c, Resolved(c, upstream)) /\ UNCHANGED <<cache, upstream>>
      BY <1>5, <1>8 DEF GetSession
    <2>2. Resolved(c, upstream) = "store" => upstream.st = "active"
      BY DEF Resolved
    <2>3. QED
      BY <1>2, <1>3, <2>1, <2>2, FreshResult
  <1>9. ASSUME NEW c \in Clients, Recheck(c)
        PROVE  Fresh'
    <2>1. Got(c, upstream) /\ Goto(c, Rechecked(c, upstream)) /\ UNCHANGED <<cache, upstream>>
      BY <1>5, <1>9 DEF Recheck
    <2>2. Rechecked(c, upstream) = "store" => upstream.st = "active"
      BY DEF Rechecked
    <2>3. QED
      BY <1>2, <1>3, <2>1, <2>2, FreshResult
  <1>10. ASSUME NEW c \in Clients, EndMismatched(c) \/ LeaderEnd(c) \/ PollEnd(c)
         PROVE  FALSE
    BY <1>3, <1>10 DEF EndMismatched, LeaderEnd, PollEnd, Calm
  <1>11. ASSUME NEW c \in Clients, StartSession(c)
         PROVE  Fresh'
    <2>1. PICK r \in Live, step \in {"lpoll", "finish"} : Got(c, r) /\ Goto(c, step) /\ upstream' = r
      BY <1>2, <1>11 DEF StartSession, StartReply
    <2>2. UNCHANGED cache
      BY <1>11 DEF StartSession
    <2>3. QED
      BY <1>2, <1>3, <2>1, <2>2, FreshResult
  <1>12. ASSUME NEW l \in Clients, Finish(l)
         PROVE  Fresh'
    <2>1. ASSUME NEW d \in Clients, InHand(d)'
          PROVE  \E e \in Clients : InHand(e) /\ out'[d] = out[e]
      <3>1. CASE d \in WaitersOf(l)
        <4>1. out'[d] \in {Retry, out[l]}
          BY <1>12, <3>1 DEF Finish, Deliver
        <4>2. out'[d].st = "active"
          BY <2>1 DEF InHand
        <4>3. out'[d] = out[l] /\ pc[l] = "finish"
          BY <1>12, <4>1, <4>2 DEF Retry, NoSession, Finish
        <4>4. QED
          BY <4>2, <4>3 DEF InHand
      <3>2. CASE d = l /\ d \notin WaitersOf(l)
        BY <1>12, <2>1, <3>2 DEF Finish, InHand
      <3>3. CASE d # l /\ d \notin WaitersOf(l)
        BY <1>12, <2>1, <3>3 DEF Finish, InHand
      <3>4. QED
        BY <3>1, <3>2, <3>3
    <2>2. ASSUME NEW d \in Clients, pc'[d] = "store"
          PROVE  out'[d].st = "active"
      <3>1. CASE d = l \/ d \in WaitersOf(l)
        <4>1. PICK r : r = out'[d] /\ AfterReturn(r) = "store"
          BY <1>12, <2>2, <3>1 DEF Finish
        <4>2. QED
          BY <4>1, StoreMeansActive
      <3>2. CASE d # l /\ d \notin WaitersOf(l)
        BY <1>3, <1>12, <2>2, <3>2 DEF Finish, Fresh
      <3>3. QED
        BY <3>1, <3>2
    <2>3. UNCHANGED cache
      BY <1>12 DEF Finish
    <2>4. QED
      BY <1>2, <1>3, <2>1, <2>2, <2>3, FreshKept
  <1>13. ASSUME NEW c \in Clients, StopWaiting(c)
         PROVE  FALSE
    BY <1>2, <1>13 DEF StopWaiting
  <1>14. ASSUME NEW c \in Clients, Poll(c)
         PROVE  Fresh'
    <2>1. UNCHANGED <<cache, upstream>>
      BY <1>14 DEF Poll
    <2>2. ASSUME NEW r \in {TooMany, Failed, upstream}, Settle(c, r)
          PROVE  Fresh'
      <3>1. PICK step : /\ Got(c, r) /\ Goto(c, step)
                        /\ step = IF pc[c] \in Leading THEN "finish" ELSE AfterReturn(r)
        BY <2>2 DEF Settle
      <3>4. step = "store" => r.st = "active"
        BY <3>1, StoreMeansActive
      <3>2. r.st = "active" => r = upstream'
        BY <2>1, <2>2 DEF TooMany, Failed, NoSession
      <3>3. QED
        BY <1>2, <1>3, <2>1, <3>1, <3>2, <3>4, FreshResult
    <2>3. CASE PollReply(c, upstream)
      <3>1. \/ Settle(c, upstream) \/ Settle(c, Failed)
            \/ \E step \in {"poll", "lpoll", "pend", "lpend"} : Got(c, upstream) /\ Goto(c, step)
        <4>1. pc = [pc EXCEPT ![c] = pc[c]] /\ pc[c] \in {"poll", "lpoll"}
          BY <1>3, <1>14 DEF TypeOK, Poll
        <4>2. QED
          BY <2>3, <4>1 DEF PollReply, Goto
      <3>2. QED
        BY <1>2, <1>3, <2>1, <2>2, <3>1, FreshResult
    <2>4. QED
      <3>1. c \notin cancelled
        BY <1>2
      <3>2. CASE PollsExhausted(c)
        BY <1>14, <2>2, <3>1, <3>2 DEF Poll
      <3>3. CASE ~PollsExhausted(c)
        BY <1>5, <1>14, <2>3, <3>1, <3>3 DEF Poll
      <3>4. QED
        BY <3>2, <3>3
  <1>15. ASSUME NEW c \in Clients, Look(c) \/ Join(c)
         PROVE  Fresh'
    <2>1. UNCHANGED <<out, cache>>
      BY <1>15 DEF Look, Join
    <2>2. \A d \in Clients : pc'[d] = pc[d] \/ pc'[d] \notin {"store", "finish"}
      BY <1>3, <1>15 DEF Look, Join, Goto, TypeOK
    <2>3. QED
      BY <1>6, <2>1, <2>2
  <1>16. ASSUME NEW c \in Clients, Store(c)
         PROVE  Fresh'
    <2>1. /\ pc[c] = "store" /\ UNCHANGED <<out, upstream>>
          /\ cache' = [cache EXCEPT ![want[c]] = out[c].model]
          /\ Goto(c, "idle")
      BY <1>16 DEF Store
    <2>2. \A d \in Clients : InHand(d)' => InHand(d) /\ out'[d] = out[d]
      BY <1>3, <2>1 DEF InHand, Goto, TypeOK
    <2>3. out[c].st = "active"
      BY <1>3, <2>1 DEF Fresh
    <2>4. InHand(c) /\ \A m \in Models : cache'[m] = cache[m] \/ cache'[m] = out[c].model
      BY <1>3, <2>1, <2>3 DEF InHand, TypeOK
    <2>5. \A d \in Clients : pc'[d] = "store" => out'[d].st = "active"
      BY <1>3, <2>1 DEF Fresh, Goto, TypeOK
    <2>6. QED
      BY <1>2, <1>3, <2>2, <2>4, <2>5, FreshKept
  <1>17. CASE \/ \E c \in Clients : Cancel(c)
              \/ \E s \in Sessions : Disturb(s)
    BY <1>2, <1>17 DEF Cancel, Disturb
  <1>18. ASSUME NEW m \in Models, CacheExpires(m)
         PROVE  Fresh'
    <2>1. \A d \in Clients : InHand(d)' => InHand(d) /\ out'[d] = out[d]
      BY <1>18 DEF CacheExpires, clientVars, InHand
    <2>2. \A n \in Models : cache'[n] # NoModel => cache'[n] = cache[n]
      BY <1>3, <1>18 DEF CacheExpires, TypeOK
    <2>3. \A d \in Clients : pc'[d] = "store" => out'[d].st = "active"
      BY <1>3, <1>18 DEF Fresh, CacheExpires, clientVars
    <2>4. QED
      BY <1>2, <1>3, <2>1, <2>2, <2>3, FreshKept
  <1>19. CASE Admit
    <2>1. UNCHANGED <<pc, out, cache>>
      BY <1>19 DEF Admit, clientVars
    <2>2. QED
      BY <1>6, <2>1
  <1>20. QED
    BY <1>1, <1>7, <1>8, <1>9, <1>10, <1>11, <1>12, <1>13, <1>14, <1>15, <1>16, <1>17, <1>18,
       <1>19 DEF Next, ClientStep

\* With one model in use and no fault the fast path of EnsureActive is what its comment
\* says, "session is already active": the cached session is the one the upstream has
\* (manager.go:56, 99-112).  With two models it is not: CachedSessionIsActive.
THEOREM OneModelCachesTruly == Spec => []OneModelIsFresh
  <1>1. Init => FreshInv
    BY StartInit, SeenInit
       DEF Init, FreshInv, Fresh, InHand, CalmInv, Calm, Nothing, NoSession
  <1>2. FreshInv => OneModelIsFresh
    <2>1. SUFFICES ASSUME FreshInv, faults = MaxFaults, Cardinality(seen) <= 1
                   PROVE  Fresh
      BY DEF OneModelIsFresh, CachedSessionIsActive, Fresh
    <2>2. Alike
      BY <2>1, FewAreAlike DEF FreshInv, CalmInv, SeenInv, Alike
    <2>3. QED
      BY <2>1, <2>2 DEF FreshInv, Quiet
  <1>3. QED
    BY <1>1, <1>2, FreshStep, PTL DEF Spec

=============================================================================
