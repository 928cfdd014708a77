---------------------------- MODULE ClientProofs ----------------------------
(***************************************************************************)
(* Theorems about UpstreamClient, Relay and Research, for any number of    *)
(* calls, attempts, frames, queries and URLs.                              *)
(***************************************************************************)
EXTENDS UpstreamClient, Relay, Research, FiniteSetTheorems, SequenceTheorems, TLAPS

(***************************************************************************)
(* UpstreamClient.  How often the upstream may have got a request depends  *)
(* on the path that is tried next: on the direct one there is room for one *)
(* more, on the sidecar's for two.                                         *)
(***************************************************************************)
CallState == [pc : {"idle", "run", "chat", "start", "get", "poll", "ended"},
              model : ChatModels \union {"none"}, run : ChatModels \union {"none"},
              path : {"none", "sidecar", "direct", "backoff"},
              attempt : 0..MaxAttempts, sends : Nat, over : BOOLEAN]

Allowed(c, q) == IF FirstPath(c, q.pc) = "sidecar" THEN 2 * q.attempt ELSE q.attempt

CallOK(c, q) ==
    /\ q.sends <= Allowed(c, q)
    /\ q.path = "sidecar" => FirstPath(c, q.pc) = "sidecar" /\ q.sends + 2 <= 2 * q.attempt
    /\ q.path = "direct" => q.sends + 1 <= Allowed(c, q)
    /\ q.path = "backoff" => q.attempt < MaxAttempts
    /\ q.pc = "chat" => q.run = q.model

UpstreamInv ==
    /\ chats \in [Chats -> CallState]
    /\ slot \in ChatModels \union {"none"}
    /\ \A c \in Chats : CallOK(c, chats[c])

\* One call moves.
LEMMA OneCallMoves ==
  ASSUME UpstreamInv, NEW c \in Chats, NEW q \in CallState, CallOK(c, q),
         chats' = [chats EXCEPT ![c] = q], slot' \in ChatModels \union {"none"}
  PROVE  UpstreamInv'
  <1>1. chats' \in [Chats -> CallState]
    BY DEF UpstreamInv
  <1>2. ASSUME NEW d \in Chats
        PROVE  CallOK(d, chats'[d])
    BY DEF UpstreamInv
  <1>3. QED
    BY <1>1, <1>2 DEF UpstreamInv

\* A request before its first attempt, and a call that has ended.
LEMMA PostIsOK ==
  ASSUME UpstreamInv, NEW c \in Chats, NEW pc \in Posting,
         NEW m \in ChatModels \union {"none"}, NEW run \in ChatModels \union {"none"},
         pc = "chat" => run = m
  PROVE  Post(c, pc, m, run) \in CallState /\ CallOK(c, Post(c, pc, m, run))
  <1>1. chats[c] \in CallState
    BY DEF UpstreamInv
  <1>2. PICK q : q = Post(c, pc, m, run)
    OBVIOUS
  <1>3. q = [pc |-> pc, model |-> m, run |-> run, path |-> FirstPath(c, pc),
             attempt |-> 1, sends |-> 0, over |-> chats[c].over]
    BY <1>1, <1>2 DEF Post, CallState
  <1>4. q \in CallState
    <2>1. FirstPath(c, pc) \in {"none", "sidecar", "direct", "backoff"}
      BY DEF FirstPath
    <2>2. pc \in {"idle", "run", "chat", "start", "get", "poll", "ended"}
      BY DEF Posting
    <2>3. chats[c].over \in BOOLEAN
      BY <1>1 DEF CallState
    <2>4. 1 \in 0..MaxAttempts /\ 0 \in Nat
      BY UpstreamAssumption
    <2>5. QED
      BY <1>3, <2>1, <2>2, <2>3, <2>4 DEF CallState
  <1>5. CallOK(c, q)
    <2>1. CASE FirstPath(c, pc) = "sidecar"
      BY <1>3, <2>1 DEF CallOK, Allowed
    <2>2. CASE FirstPath(c, pc) # "sidecar"
      BY <1>3, <2>2 DEF CallOK, Allowed, FirstPath
    <2>3. QED
      BY <2>1, <2>2
  <1>6. QED
    BY <1>2, <1>4, <1>5

\* A record of a call, put together from its parts.
LEMMA CallParts ==
  ASSUME NEW r \in CallState
  PROVE  /\ r.pc \in {"idle", "run", "chat", "start", "get", "poll", "ended"}
         /\ r.model \in ChatModels \union {"none"} /\ r.run \in ChatModels \union {"none"}
         /\ r.path \in {"none", "sidecar", "direct", "backoff"}
         /\ r.attempt \in 0..MaxAttempts /\ r.attempt \in Nat
         /\ r.sends \in Nat /\ r.over \in BOOLEAN
  <1>1. r.attempt \in 0..MaxAttempts
    BY DEF CallState
  <1>2. r.attempt \in Nat
    BY <1>1, UpstreamAssumption
  <1>3. QED
    BY <1>1, <1>2 DEF CallState

LEMMA Altered ==
  ASSUME NEW r \in CallState,
         NEW pc \in {"idle", "run", "chat", "start", "get", "poll", "ended"},
         NEW path \in {"none", "sidecar", "direct", "backoff"},
         NEW attempt \in 0..MaxAttempts, NEW sends \in Nat, NEW q,
         q = [pc |-> pc, model |-> r.model, run |-> r.run, path |-> path,
              attempt |-> attempt, sends |-> sends, over |-> r.over]
  PROVE  /\ q \in CallState
         /\ q.pc = pc /\ q.path = path /\ q.attempt = attempt /\ q.sends = sends
         /\ q.run = r.run /\ q.model = r.model
  BY CallParts DEF CallState

LEMMA EndedIsOK ==
  ASSUME UpstreamInv, NEW c \in Chats
  PROVE  Ended(c) \in CallState /\ CallOK(c, Ended(c))
  <1>1. chats[c].over \in BOOLEAN
    BY DEF UpstreamInv, CallState
  <1>2. PICK q : q = Ended(c)
    OBVIOUS
  <1>3. q = [pc |-> "ended", model |-> "none", run |-> "none", path |-> "none",
             attempt |-> 0, sends |-> 0, over |-> chats[c].over]
    BY <1>2 DEF Ended, Unsent
  <1>4. q \in CallState
    BY <1>1, <1>3, UpstreamAssumption DEF CallState
  <1>5. CallOK(c, q)
    BY <1>3 DEF CallOK, Allowed, FirstPath
  <1>6. QED
    BY <1>2, <1>4, <1>5

LEMMA UpstreamInvInit == UpstreamInit => UpstreamInv
  <1>1. Unsent \in CallState
    BY UpstreamAssumption DEF Unsent, CallState
  <1>2. ASSUME NEW c \in Chats
        PROVE  CallOK(c, Unsent)
    BY DEF Unsent, CallOK, Allowed, FirstPath
  <1>3. QED
    BY <1>1, <1>2 DEF UpstreamInit, UpstreamInv

LEMMA AttemptFailsStep ==
  ASSUME UpstreamInv, NEW c \in Chats, AttemptFails(c)
  PROVE  UpstreamInv'
  <1> DEFINE r == chats[c]
  <1>1. r \in CallState /\ CallOK(c, r) /\ slot' \in ChatModels \union {"none"}
    BY DEF UpstreamInv, AttemptFails
  <1>2. PICK seen \in {0, 1}, timeout \in BOOLEAN :
          Set(c, IF r.path = "sidecar" THEN FailedOpen(c, seen)
                 ELSE IF MayRetry(c) /\ ~timeout
                   THEN [r EXCEPT !.sends = @ + seen, !.path = "backoff"]
                 ELSE Ended(c))
    BY DEF AttemptFails
  <1>3. r.path \in {"sidecar", "direct"}
    BY DEF AttemptFails, Sending
  <1>4. r.sends \in Nat /\ r.attempt \in Nat /\ r.sends + seen \in Nat
    BY <1>1, CallParts
  <1>5. ASSUME NEW path \in {"direct", "backoff"}, NEW q,
               q = [r EXCEPT !.sends = @ + seen, !.path = path]
        PROVE  /\ q \in CallState /\ q.pc = r.pc /\ q.path = path /\ q.attempt = r.attempt
               /\ q.sends = r.sends + seen /\ q.run = r.run /\ q.model = r.model
    <2>1. q = [pc |-> r.pc, model |-> r.model, run |-> r.run, path |-> path,
               attempt |-> r.attempt, sends |-> r.sends + seen, over |-> r.over]
      BY <1>1, <1>5 DEF CallState
    <2>2. /\ r.pc \in {"idle", "run", "chat", "start", "get", "poll", "ended"}
          /\ path \in {"none", "sidecar", "direct", "backoff"}
          /\ r.attempt \in 0..MaxAttempts
      BY <1>1, CallParts
    <2>3. QED
      BY <1>1, <1>4, <2>1, <2>2, Altered
  <1>6. CASE r.path = "sidecar"
    <2>1. PICK q : q = FailedOpen(c, seen)
      OBVIOUS
    <2>2. /\ q \in CallState /\ q.pc = r.pc /\ q.path = "direct" /\ q.attempt = r.attempt
          /\ q.sends = r.sends + seen /\ q.run = r.run /\ q.model = r.model
      BY <1>5, <2>1 DEF FailedOpen
    <2>3. CallOK(c, q)
      BY <1>1, <1>4, <1>6, <2>2 DEF CallOK, Allowed
    <2>4. QED
      BY <1>1, <1>2, <1>6, <2>1, <2>2, <2>3, OneCallMoves DEF Set
  <1>7. CASE r.path # "sidecar" /\ MayRetry(c) /\ ~timeout
    <2>1. PICK q : q = [r EXCEPT !.sends = @ + seen, !.path = "backoff"]
      OBVIOUS
    <2>2. /\ q \in CallState /\ q.pc = r.pc /\ q.path = "backoff" /\ q.attempt = r.attempt
          /\ q.sends = r.sends + seen /\ q.run = r.run /\ q.model = r.model
      BY <1>5, <2>1
    <2>3. CallOK(c, q)
      BY <1>1, <1>3, <1>4, <1>7, <2>2 DEF CallOK, Allowed, MayRetry
    <2>4. QED
      BY <1>1, <1>2, <1>7, <2>1, <2>2, <2>3, OneCallMoves DEF Set
  <1>8. CASE r.path # "sidecar" /\ ~(MayRetry(c) /\ ~timeout)
    BY <1>1, <1>2, <1>8, EndedIsOK, OneCallMoves DEF Set
  <1>9. QED
    BY <1>6, <1>7, <1>8

LEMMA ResendStep ==
  ASSUME UpstreamInv, NEW c \in Chats, Resend(c)
  PROVE  UpstreamInv'
  <1> DEFINE r == chats[c]
  <1>1. r \in CallState /\ CallOK(c, r) /\ slot' \in ChatModels \union {"none"}
    BY DEF UpstreamInv, Resend
  <1>2. r.path = "backoff" /\ r.attempt < MaxAttempts
    BY <1>1 DEF Resend, CallOK
  <1>3. r.sends \in Nat /\ r.attempt \in Nat /\ r.attempt + 1 \in 0..MaxAttempts
    BY <1>1, <1>2, CallParts, UpstreamAssumption
  <1>4. PICK q : q = [r EXCEPT !.path = FirstPath(c, r.pc), !.attempt = @ + 1]
    OBVIOUS
  <1>5. PICK path : path = FirstPath(c, r.pc)
    OBVIOUS
  <1>6. path \in {"sidecar", "direct"}
    BY <1>5 DEF FirstPath
  <1>7. q = [pc |-> r.pc, model |-> r.model, run |-> r.run, path |-> path,
             attempt |-> r.attempt + 1, sends |-> r.sends, over |-> r.over]
    BY <1>1, <1>4, <1>5 DEF CallState
  <1>8. /\ q \in CallState /\ q.pc = r.pc /\ q.path = path /\ q.attempt = r.attempt + 1
        /\ q.sends = r.sends /\ q.run = r.run /\ q.model = r.model
    <2>1. /\ r.pc \in {"idle", "run", "chat", "start", "get", "poll", "ended"}
          /\ path \in {"none", "sidecar", "direct", "backoff"}
      BY <1>1, <1>6, CallParts
    <2>2. QED
      BY <1>1, <1>3, <1>7, <2>1, Altered
  <1>9. CallOK(c, q)
    BY <1>1, <1>3, <1>5, <1>6, <1>8 DEF CallOK, Allowed
  <1>10. QED
    BY <1>1, <1>4, <1>8, <1>9, OneCallMoves DEF Resend, Set

\* A call that changes its place between requests keeps what it has counted.
LEMMA ElsewhereIsOK ==
  ASSUME UpstreamInv, NEW c \in Chats, NEW pc \in {"start", "get", "poll"},
         NEW q, q = [pc |-> pc, model |-> chats[c].model, run |-> chats[c].run, path |-> "none",
                     attempt |-> chats[c].attempt, sends |-> chats[c].sends, over |-> chats[c].over]
  PROVE  q \in CallState /\ CallOK(c, q)
  <1> DEFINE r == chats[c]
  <1>1. r \in CallState /\ CallOK(c, r)
    BY DEF UpstreamInv
  <1>2. r.sends \in Nat /\ r.attempt \in Nat
    BY <1>1, CallParts
  <1>3. /\ q \in CallState /\ q.pc = pc /\ q.path = "none" /\ q.attempt = r.attempt /\ q.sends = r.sends
    <2>1. /\ pc \in {"idle", "run", "chat", "start", "get", "poll", "ended"}
          /\ r.attempt \in 0..MaxAttempts /\ "none" \in {"none", "sidecar", "direct", "backoff"}
      BY <1>1, CallParts
    <2>2. QED
      BY <1>1, <1>2, <2>1, Altered
  <1>4. q.sends <= 2 * q.attempt
    <2>1. CASE FirstPath(c, r.pc) = "sidecar"
      BY <1>1, <1>2, <1>3, <2>1 DEF CallOK, Allowed
    <2>2. CASE FirstPath(c, r.pc) # "sidecar"
      BY <1>1, <1>2, <1>3, <2>2 DEF CallOK, Allowed
    <2>3. QED
      BY <2>1, <2>2
  <1>5. FirstPath(c, q.pc) = "sidecar"
    BY <1>3 DEF FirstPath
  <1>6. QED
    BY <1>3, <1>4, <1>5 DEF CallOK, Allowed

LEMMA DeadlineStep ==
  ASSUME UpstreamInv, NEW c \in Chats, Deadline(c)
  PROVE  UpstreamInv'
  <1> DEFINE r == chats[c]
  <1>1. r \in CallState /\ CallOK(c, r) /\ slot' \in ChatModels \union {"none"}
    BY DEF UpstreamInv, Deadline
  <1>2. PICK q : q = [r EXCEPT !.over = TRUE]
    OBVIOUS
  <1>3. q = [pc |-> r.pc, model |-> r.model, run |-> r.run, path |-> r.path,
             attempt |-> r.attempt, sends |-> r.sends, over |-> TRUE]
    BY <1>1, <1>2 DEF CallState
  <1>4. q \in CallState
    BY <1>1, <1>3, CallParts DEF CallState
  <1>5. CallOK(c, q)
    BY <1>1, <1>3 DEF CallOK, Allowed
  <1>6. QED
    BY <1>1, <1>2, <1>4, <1>5, OneCallMoves DEF Deadline, Set

\* What the steps that end a call, and those that begin a round, have in common.
LEMMA EndingStep ==
  ASSUME UpstreamInv, NEW c \in Chats, Set(c, Ended(c)), UNCHANGED slot
  PROVE  UpstreamInv'
  BY EndedIsOK, OneCallMoves DEF Set, UpstreamInv

LEMMA RoundStep ==
  ASSUME UpstreamInv, NEW c \in Chats, NEW m \in ChatModels, Set(c, Round(c, m)),
         slot' \in {slot, m}
  PROVE  UpstreamInv'
  <1>1. Round(c, m) \in CallState /\ CallOK(c, Round(c, m))
    BY PostIsOK DEF Round, Posting
  <1>2. QED
    BY <1>1, OneCallMoves DEF Set, UpstreamInv

LEMMA ElsewhereStep ==
  ASSUME UpstreamInv, NEW c \in Chats, NEW pc \in {"start", "get", "poll"},
         Set(c, [chats[c] EXCEPT !.pc = pc, !.path = "none"]), UNCHANGED slot
  PROVE  UpstreamInv'
  <1> DEFINE r == chats[c]
  <1>1. r \in CallState
    BY DEF UpstreamInv
  <1>2. PICK q : q = [r EXCEPT !.pc = pc, !.path = "none"]
    OBVIOUS
  <1>3. q = [pc |-> pc, model |-> r.model, run |-> r.run, path |-> "none",
             attempt |-> r.attempt, sends |-> r.sends, over |-> r.over]
    BY <1>1, <1>2 DEF CallState
  <1>4. q \in CallState /\ CallOK(c, q)
    BY <1>3, ElsewhereIsOK
  <1>5. chats' = [chats EXCEPT ![c] = q]
    BY <1>2 DEF Set
  <1>6. slot' \in ChatModels \union {"none"}
    BY DEF UpstreamInv
  <1>7. QED
    BY <1>4, <1>5, <1>6, OneCallMoves

LEMMA RunAnsweredStep ==
  ASSUME UpstreamInv, NEW c \in Chats, RunAnswered(c)
  PROVE  UpstreamInv'
  <1>1. CASE Set(c, Post(c, "chat", chats[c].model, chats[c].model))
    <2>1. chats[c].model \in ChatModels \union {"none"}
      BY CallParts DEF UpstreamInv
    <2>2. /\ Post(c, "chat", chats[c].model, chats[c].model) \in CallState
          /\ CallOK(c, Post(c, "chat", chats[c].model, chats[c].model))
      BY <2>1, PostIsOK DEF Posting
    <2>3. QED
      BY <1>1, <2>2, OneCallMoves DEF Set, RunAnswered, UpstreamInv
  <1>2. CASE Set(c, Ended(c))
    BY <1>2, EndingStep DEF RunAnswered
  <1>3. QED
    BY <1>1, <1>2 DEF RunAnswered

LEMMA ChatAnsweredStep ==
  ASSUME UpstreamInv, NEW c \in Chats, ChatAnswered(c)
  PROVE  UpstreamInv'
  <1>1. CASE Set(c, SessionRefused(c))
    BY <1>1, ElsewhereStep DEF ChatAnswered, SessionRefused
  <1>2. CASE Set(c, Ended(c))
    BY <1>2, EndingStep DEF ChatAnswered
  <1>3. QED
    BY <1>1, <1>2 DEF ChatAnswered

\* Between requests a call has no path.
LEMMA RecoveryStep ==
  ASSUME UpstreamInv, NEW c \in Chats, StartRecovery(c) \/ GetExisting(c) \/ PollRecovery(c)
  PROVE  UpstreamInv'
  <1>1. CASE Recovered(c)
    BY <1>1, RoundStep DEF Recovered
  <1>2. CASE NotRecovered(c)
    BY <1>2, EndingStep DEF NotRecovered
  <1>3. CASE slot # "none" /\ Set(c, Round(c, slot)) /\ UNCHANGED slot
    BY <1>3, RoundStep DEF UpstreamInv
  <1>4. CASE /\ chats[c].pc = "start" /\ UNCHANGED slot
             /\ \E next \in {"get", "poll"} : Set(c, [chats[c] EXCEPT !.pc = next])
    <2>1. PICK next \in {"get", "poll"} : Set(c, [chats[c] EXCEPT !.pc = next])
      BY <1>4
    <2>2. chats[c] \in CallState /\ CallOK(c, chats[c])
      BY DEF UpstreamInv
    <2>3. PICK q : q = [chats[c] EXCEPT !.pc = next]
      OBVIOUS
    <2>4. q = [pc |-> next, model |-> chats[c].model, run |-> chats[c].run, path |-> chats[c].path,
               attempt |-> chats[c].attempt, sends |-> chats[c].sends, over |-> chats[c].over]
      BY <2>2, <2>3 DEF CallState
    <2>5. q \in CallState
      BY <2>1, <2>2, <2>4, CallParts DEF CallState
    <2>6. FirstPath(c, q.pc) = "sidecar" /\ FirstPath(c, chats[c].pc) = "sidecar"
      BY <1>4, <2>4 DEF FirstPath
    <2>7. CallOK(c, q)
      BY <2>1, <2>2, <2>4, <2>6 DEF CallOK, Allowed
    <2>8. QED
      BY <1>4, <2>1, <2>3, <2>5, <2>7, OneCallMoves DEF Set, UpstreamInv
  <1>5. QED
    BY <1>1, <1>2, <1>3, <1>4 DEF StartRecovery, GetExisting, PollRecovery

LEMMA UpstreamInvStep == UpstreamInv /\ [UpstreamNext]_upstreamVars => UpstreamInv'
  <1>1. SUFFICES ASSUME UpstreamInv, UpstreamNext PROVE UpstreamInv'
    BY DEF upstreamVars, UpstreamInv
  <1>2. PICK c \in Chats : CallStep(c) \/ Deadline(c) \/ \E m \in ChatModels : BeginChat(c, m)
    BY <1>1 DEF UpstreamNext
  <1>3. CASE AttemptFails(c)
    BY <1>1, <1>3, AttemptFailsStep
  <1>4. CASE Resend(c)
    BY <1>1, <1>4, ResendStep
  <1>5. CASE RunAnswered(c)
    BY <1>1, <1>5, RunAnsweredStep
  <1>6. CASE ChatAnswered(c)
    BY <1>1, <1>6, ChatAnsweredStep
  <1>7. CASE StartRecovery(c) \/ GetExisting(c) \/ PollRecovery(c)
    BY <1>1, <1>7, RecoveryStep
  <1>8. CASE GiveUp(c)
    BY <1>1, <1>8, EndingStep DEF GiveUp, NotRecovered
  <1>9. CASE Deadline(c)
    BY <1>1, <1>9, DeadlineStep
  <1>10. CASE \E m \in ChatModels : BeginChat(c, m)
    BY <1>1, <1>10, RoundStep DEF BeginChat
  <1>11. QED
    BY <1>2, <1>3, <1>4, <1>5, <1>6, <1>7, <1>8, <1>9, <1>10 DEF CallStep

\* The invariant gives the counts their ranges: no request of a call has reached the
\* upstream more often than the attempts and the two paths allow.
LEMMA UpstreamInvImplies == UpstreamInv => UpstreamTyped /\ BoundedResends
  <1>1. SUFFICES ASSUME UpstreamInv PROVE UpstreamTyped /\ BoundedResends
    OBVIOUS
  <1>2. ASSUME NEW c \in Chats
        PROVE  /\ chats[c] \in CallState /\ CallOK(c, chats[c])
               /\ chats[c].sends \in Nat /\ chats[c].attempt \in Nat /\ chats[c].attempt <= MaxAttempts
    BY <1>1, CallParts, UpstreamAssumption DEF UpstreamInv
  <1>3. ASSUME NEW c \in Chats
        PROVE  /\ chats[c].sends <= (IF FirstPath(c, chats[c].pc) = "sidecar" THEN 2 ELSE 1) * chats[c].attempt
               /\ chats[c].sends <= 2 * chats[c].attempt
    <2>1. CASE FirstPath(c, chats[c].pc) = "sidecar"
      BY <1>2, <2>1 DEF CallOK, Allowed
    <2>2. CASE FirstPath(c, chats[c].pc) # "sidecar"
      BY <1>2, <2>2 DEF CallOK, Allowed
    <2>3. QED
      BY <2>1, <2>2
  <1>4. ASSUME NEW c \in Chats
        PROVE  chats[c].sends \in 0..2 * MaxAttempts
    BY <1>2, <1>3, UpstreamAssumption
  <1>5. BoundedResends
    BY <1>2, <1>3 DEF BoundedResends, CallOK
  <1>6. UpstreamTyped
    BY <1>1, <1>2, <1>4, CallParts DEF UpstreamTyped, UpstreamInv
  <1>7. QED
    BY <1>5, <1>6

\* For any number of calls, models and attempts: a request gets to the upstream at most
\* once per attempt and path, and a chat carries the run of its own round
\* (client.go:256-288, 500-551).
THEOREM ResendsAreBounded == UpstreamSpec => []BoundedResends
  <1>1. UpstreamSpec => []UpstreamInv
    BY UpstreamInvInit, UpstreamInvStep, PTL DEF UpstreamSpec
  <1>2. QED
    BY <1>1, UpstreamInvImplies, PTL

\* The calls' records keep their shape: counts within the attempts, models and paths of
\* their sets (client.go:256-288, 500-551).
THEOREM UpstreamTypeCorrect == UpstreamSpec => []UpstreamTyped
  <1>1. UpstreamSpec => []UpstreamInv
    BY UpstreamInvInit, UpstreamInvStep, PTL DEF UpstreamSpec
  <1>2. QED
    BY <1>1, UpstreamInvImplies, PTL

(***************************************************************************)
(* The halves of CallsEnd that need no fairness.                           *)
(***************************************************************************)
\* Who posts has a path, and nobody's time is up before the call.
PathInv ==
    /\ UpstreamInv
    /\ \A c \in Chats : /\ chats[c].pc \in Posting <=> chats[c].path # "none"
                        /\ chats[c].pc = "idle" => ~chats[c].over

\* What a step makes of a call, in the parts that tell how far it is.
LEMMA AfterSet ==
  ASSUME UpstreamInv, NEW c \in Chats, NEW q, Set(c, q)
  PROVE  chats'[c] = q /\ \A d \in Chats \ {c} : chats'[d] = chats[d]
  BY DEF UpstreamInv, Set

LEMMA PostParts ==
  ASSUME UpstreamInv, NEW c \in Chats, NEW pc \in Posting, NEW m, NEW run
  PROVE  \A q : q = Post(c, pc, m, run) =>
             q.pc = pc /\ q.path \in {"sidecar", "direct"} /\ q.attempt = 1 /\ q.over = chats[c].over
  <1>1. chats[c] \in CallState
    BY DEF UpstreamInv
  <1>2. FirstPath(c, pc) \in {"sidecar", "direct"}
    BY DEF FirstPath
  <1>3. TAKE q
  <1>4. HAVE q = Post(c, pc, m, run)
  <1>5. q = [pc |-> pc, model |-> m, run |-> run, path |-> FirstPath(c, pc),
             attempt |-> 1, sends |-> 0, over |-> chats[c].over]
    BY <1>1, <1>4 DEF Post, CallState
  <1>6. QED
    BY <1>2, <1>5

LEMMA EndedParts ==
  ASSUME UpstreamInv, NEW c \in Chats
  PROVE  Ended(c).pc = "ended" /\ Ended(c).path = "none" /\ Ended(c).over = chats[c].over
  BY DEF Ended, Unsent

\* How the steps of a call change its place, path and attempt.
GoesOn(c) ==
    LET r == chats[c]  q == chats'[c]
    IN  \/ /\ r.pc \in Posting /\ q.pc = r.pc
           /\ \/ r.path = "sidecar" /\ q.path = "direct" /\ q.attempt = r.attempt
              \/ r.path = "direct" /\ q.path = "backoff" /\ q.attempt = r.attempt
              \/ r.path = "backoff" /\ q.path \in {"sidecar", "direct"} /\ q.attempt = r.attempt + 1
        \/ r.pc = "run" /\ q.pc = "chat" /\ q.path \in {"sidecar", "direct"} /\ q.attempt = 1
        \/ r.pc = "chat" /\ q.pc = "start" /\ q.path = "none"
        \/ r.pc = "start" /\ q.pc \in {"get", "poll"} /\ q.path = "none"
        \/ r.pc \in {"start", "get", "poll"} /\ q.pc = "run" /\ q.path \in {"sidecar", "direct"}

HasEnded(c) == chats[c].pc = "ended" /\ chats[c].path = "none"

LEMMA CallMoves ==
  ASSUME PathInv, NEW c \in Chats, CallStep(c)
  PROVE  /\ chats'[c].over = chats[c].over
         /\ \A d \in Chats \ {c} : chats'[d] = chats[d]
         /\ chats[c].pc \notin {"idle", "ended"}
         /\ \/ HasEnded(c)'
            \/ (~chats[c].over /\ GoesOn(c))
  <1> DEFINE r == chats[c]
  <1>0. UpstreamInv /\ r \in CallState /\ Ended(c).pc = "ended" /\ Ended(c).path = "none"
        /\ Ended(c).over = r.over
    BY EndedParts DEF PathInv, UpstreamInv
  <1> DEFINE Goal == /\ chats'[c].over = r.over
                     /\ \A d \in Chats \ {c} : chats'[d] = chats[d]
                     /\ r.pc \notin {"idle", "ended"}
                     /\ (HasEnded(c)' \/ (~r.over /\ GoesOn(c)))
  <1>1. ASSUME Set(c, Ended(c)), r.pc \notin {"idle", "ended"}
        PROVE  Goal
    <2>1. PICK q : q = Ended(c)
      OBVIOUS
    <2>2. Set(c, q) /\ q.pc = "ended" /\ q.path = "none" /\ q.over = r.over
      BY <1>0, <1>1, <2>1
    <2>3. chats'[c] = q /\ \A d \in Chats \ {c} : chats'[d] = chats[d]
      BY <1>0, <2>2, AfterSet
    <2>4. QED
      BY <1>1, <2>2, <2>3 DEF HasEnded
  <1>2. CASE AttemptFails(c)
    <2>1. r.pc \in Posting /\ r.path \in {"sidecar", "direct"} /\ ~r.over
      BY <1>2 DEF AttemptFails, Sending, ContextOver
    <2>2. PICK seen \in {0, 1}, timeout \in BOOLEAN :
             Set(c, IF r.path = "sidecar" THEN FailedOpen(c, seen)
                    ELSE IF MayRetry(c) /\ ~timeout
                      THEN [r EXCEPT !.sends = @ + seen, !.path = "backoff"]
                    ELSE Ended(c))
      BY <1>2 DEF AttemptFails
    <2>3. ASSUME NEW path \in {"direct", "backoff"}, NEW q,
                 q = [r EXCEPT !.sends = @ + seen, !.path = path]
          PROVE  q.pc = r.pc /\ q.path = path /\ q.attempt = r.attempt /\ q.over = r.over
      BY <1>0, <2>3 DEF CallState
    <2>4. CASE r.path = "sidecar"
      <3>1. PICK q : q = FailedOpen(c, seen)
        OBVIOUS
      <3>2. Set(c, q) /\ q.pc = r.pc /\ q.path = "direct" /\ q.attempt = r.attempt /\ q.over = r.over
        BY <2>2, <2>3, <2>4, <3>1 DEF FailedOpen
      <3>3. QED
        BY <1>0, <2>1, <2>4, <3>2, AfterSet DEF GoesOn, Posting
    <2>5. CASE r.path # "sidecar" /\ MayRetry(c) /\ ~timeout
      <3>1. PICK q : q = [r EXCEPT !.sends = @ + seen, !.path = "backoff"]
        OBVIOUS
      <3>2. Set(c, q) /\ q.pc = r.pc /\ q.path = "backoff" /\ q.attempt = r.attempt /\ q.over = r.over
        BY <2>2, <2>3, <2>5, <3>1
      <3>3. QED
        BY <1>0, <2>1, <2>5, <3>2, AfterSet DEF GoesOn, Posting
    <2>6. CASE r.path # "sidecar" /\ ~(MayRetry(c) /\ ~timeout)
      BY <1>1, <2>1, <2>2, <2>6 DEF Posting
    <2>7. QED
      BY <2>4, <2>5, <2>6
  <1>3. CASE Resend(c)
    <2>1. r.path = "backoff" /\ ~r.over /\ r.pc \in Posting
      BY <1>0, <1>3 DEF Resend, ContextOver, PathInv
    <2>2. PICK q : q = [r EXCEPT !.path = FirstPath(c, r.pc), !.attempt = @ + 1]
      OBVIOUS
    <2>3. /\ q.pc = r.pc /\ q.path \in {"sidecar", "direct"} /\ q.attempt = r.attempt + 1
          /\ q.over = r.over /\ Set(c, q)
      BY <1>0, <1>3, <2>2 DEF CallState, FirstPath, Resend
    <2>4. QED
      BY <1>0, <2>1, <2>3, AfterSet DEF GoesOn, Posting
  <1>4. CASE RunAnswered(c)
    <2>1. r.pc = "run" /\ ~r.over
      BY <1>4 DEF RunAnswered, Sending, ContextOver
    <2>2. CASE Set(c, Post(c, "chat", r.model, r.model))
      <3>1. PICK q : q = Post(c, "chat", r.model, r.model)
        OBVIOUS
      <3>2. q.pc = "chat" /\ q.path \in {"sidecar", "direct"} /\ q.attempt = 1 /\ q.over = r.over
        BY <1>0, <3>1, PostParts DEF Posting
      <3>3. QED
        BY <1>0, <2>1, <2>2, <3>1, <3>2, AfterSet DEF GoesOn
    <2>3. QED
      BY <1>1, <1>4, <2>1, <2>2 DEF RunAnswered
  <1>5. CASE ChatAnswered(c)
    <2>1. r.pc = "chat" /\ ~r.over
      BY <1>5 DEF ChatAnswered, Sending, ContextOver
    <2>2. CASE Set(c, SessionRefused(c))
      <3>1. PICK q : q = SessionRefused(c)
        OBVIOUS
      <3>2. q.pc = "start" /\ q.path = "none" /\ q.over = r.over
        BY <1>0, <3>1 DEF SessionRefused, CallState
      <3>3. QED
        BY <1>0, <2>1, <2>2, <3>1, <3>2, AfterSet DEF GoesOn
    <2>3. QED
      BY <1>1, <1>5, <2>1, <2>2 DEF ChatAnswered
  <1>6. ASSUME r.pc \in {"start", "get", "poll"}, ~r.over, NEW m, Set(c, Round(c, m))
        PROVE  Goal
    <2>1. PICK q : q = Round(c, m)
      OBVIOUS
    <2>2. q.pc = "run" /\ q.path \in {"sidecar", "direct"} /\ q.over = r.over
      BY <1>0, <2>1, PostParts DEF Round, Posting
    <2>3. QED
      BY <1>0, <1>6, <2>1, <2>2, AfterSet DEF GoesOn
  <1>7. CASE StartRecovery(c) \/ GetExisting(c) \/ PollRecovery(c)
    <2>1. r.pc \in {"start", "get", "poll"} /\ ~r.over
      BY <1>7 DEF StartRecovery, GetExisting, PollRecovery, ContextOver
    <2>2. ASSUME NEW next \in {"get", "poll"}, Set(c, [r EXCEPT !.pc = next]), r.pc = "start"
          PROVE  Goal
      <3>1. PICK q : q = [r EXCEPT !.pc = next]
        OBVIOUS
      <3>2. q.pc = next /\ q.path = "none" /\ q.over = r.over
        BY <1>0, <2>2, <3>1 DEF CallState, PathInv, Posting
      <3>3. QED
        BY <1>0, <2>1, <2>2, <3>1, <3>2, AfterSet DEF GoesOn
    <2>3. QED
      BY <1>1, <1>6, <1>7, <2>1, <2>2
         DEF StartRecovery, GetExisting, PollRecovery, Recovered, NotRecovered
  <1>8. CASE GiveUp(c)
    BY <1>1, <1>8 DEF GiveUp, NotRecovered
  <1>9. QED
    BY <1>2, <1>3, <1>4, <1>5, <1>7, <1>8 DEF CallStep

\* The invariant and the steps of the surroundings.
LEMMA PathInvInit == UpstreamInit => PathInv
  BY UpstreamInvInit DEF UpstreamInit, PathInv, Unsent, Posting

LEMMA OthersMove ==
  ASSUME PathInv, NEW c \in Chats, Deadline(c) \/ \E m \in ChatModels : BeginChat(c, m)
  PROVE  /\ \A d \in Chats \ {c} : chats'[d] = chats[d]
         /\ \/ /\ chats[c].pc \notin {"idle", "ended"} /\ chats'[c].over
               /\ chats'[c].pc = chats[c].pc /\ chats'[c].path = chats[c].path
               /\ chats'[c].attempt = chats[c].attempt
            \/ /\ chats[c].pc = "idle" /\ chats'[c].over = chats[c].over
               /\ chats'[c].pc = "run" /\ chats'[c].path \in {"sidecar", "direct"}
  <1>0. UpstreamInv /\ chats[c] \in CallState
    BY DEF PathInv, UpstreamInv
  <1>1. CASE Deadline(c)
    <2>1. PICK q : q = [chats[c] EXCEPT !.over = TRUE]
      OBVIOUS
    <2>2. /\ q.over = TRUE /\ q.pc = chats[c].pc /\ q.path = chats[c].path
          /\ q.attempt = chats[c].attempt /\ Set(c, q) /\ chats[c].pc \notin {"idle", "ended"}
      BY <1>0, <1>1, <2>1 DEF CallState, Deadline
    <2>3. QED
      BY <1>0, <2>2, AfterSet
  <1>2. ASSUME NEW m \in ChatModels, BeginChat(c, m)
        PROVE  /\ \A d \in Chats \ {c} : chats'[d] = chats[d]
               /\ chats[c].pc = "idle" /\ chats'[c].over = chats[c].over
               /\ chats'[c].pc = "run" /\ chats'[c].path \in {"sidecar", "direct"}
    <2>1. PICK q : q = Round(c, m)
      OBVIOUS
    <2>2. q.pc = "run" /\ q.path \in {"sidecar", "direct"} /\ q.over = chats[c].over
      BY <1>0, <2>1, PostParts DEF Round, Posting
    <2>3. Set(c, q) /\ chats[c].pc = "idle"
      BY <1>2, <2>1 DEF BeginChat
    <2>4. QED
      BY <1>0, <2>2, <2>3, AfterSet
  <1>3. QED
    BY <1>1, <1>2

LEMMA PathInvStep == PathInv /\ [UpstreamNext]_upstreamVars => PathInv'
  <1> SUFFICES ASSUME PathInv, [UpstreamNext]_upstreamVars,  NEW d \in Chats
               PROVE  /\ chats'[d].pc \in Posting <=> chats'[d].path # "none"
                      /\ chats'[d].pc = "idle" => ~chats'[d].over
    BY UpstreamInvStep DEF PathInv
  <1>1. CASE UNCHANGED upstreamVars
    BY <1>1 DEF upstreamVars, PathInv
  <1>2. ASSUME NEW c \in Chats, CallStep(c)
        PROVE  /\ chats'[d].pc \in Posting <=> chats'[d].path # "none"
               /\ chats'[d].pc = "idle" => ~chats'[d].over
    <2>1. CASE c = d
      BY <1>2, <2>1, CallMoves DEF PathInv, GoesOn, HasEnded, Posting
    <2>2. CASE c # d
      BY <1>2, <2>2, CallMoves DEF PathInv
    <2>3. QED
      BY <2>1, <2>2
  <1>3. ASSUME NEW c \in Chats, Deadline(c) \/ \E m \in ChatModels : BeginChat(c, m)
        PROVE  /\ chats'[d].pc \in Posting <=> chats'[d].path # "none"
               /\ chats'[d].pc = "idle" => ~chats'[d].over
    <2>1. CASE c = d
      BY <1>3, <2>1, OthersMove DEF PathInv, Posting
    <2>2. CASE c # d
      BY <1>3, <2>2, OthersMove DEF PathInv
    <2>3. QED
      BY <2>1, <2>2
  <1>4. QED
    BY <1>1, <1>2, <1>3 DEF UpstreamNext

LEMMA PathInvHolds == UpstreamSpec => []PathInv
  BY PathInvInit, PathInvStep, PTL DEF UpstreamSpec

\* How much one round of a call has left, before it ends or starts another.
LeftInRequest(q) ==
    3 * (MaxAttempts - q.attempt)
        + (CASE q.path = "sidecar" -> 2 [] q.path = "direct" -> 1 [] OTHER -> 0)

LeftInRound(q) ==
    CASE q.pc = "run" -> 3 * MaxAttempts + 4 + LeftInRequest(q)
      [] q.pc = "chat" -> 4 + LeftInRequest(q)
      [] q.pc = "start" -> 2
      [] q.pc \in {"get", "poll"} -> 1
      [] OTHER -> 0

AnotherRound(c) == chats[c].pc \in {"start", "get", "poll"} /\ chats'[c].pc = "run"

\* Retries and recoveries are bounded but for one thing: a round runs out by the call's
\* own steps, and only a session found or started anew begins another.  Once its context
\* is over, which is never taken back, the next thing a call does is to end
\* (client.go:256-288, 880-946).
CallRunsOut(c) ==
    /\ CallStep(c) =>
           \/ LeftInRound(chats'[c]) < LeftInRound(chats[c])
           \/ AnotherRound(c) /\ ~chats[c].over
    /\ chats[c].over =>
           /\ chats'[c].over
           /\ chats'[c] # chats[c] => chats'[c].pc = "ended"

LEMMA LeftIsNat ==
  ASSUME NEW q \in CallState
  PROVE  /\ LeftInRequest(q) \in Nat /\ LeftInRound(q) \in Nat
         /\ q.pc # "ended" /\ q.pc # "idle" => LeftInRound(q) > 0
  <1>1. /\ q.attempt \in Nat /\ q.attempt <= MaxAttempts /\ MaxAttempts \in Nat
        /\ q.pc \in {"idle", "run", "chat", "start", "get", "poll", "ended"}
    BY CallParts, UpstreamAssumption
  <1>2. LeftInRequest(q) \in Nat
    BY <1>1 DEF LeftInRequest
  <1>3. QED
    BY <1>1, <1>2 DEF LeftInRound

LEMMA MovesRunOut ==
  ASSUME PathInv, NEW c \in Chats, chats'[c] \in CallState, GoesOn(c)
  PROVE  LeftInRound(chats'[c]) < LeftInRound(chats[c]) \/ AnotherRound(c)
  <1> DEFINE r == chats[c]
             q == chats'[c]
  <1>0. r \in CallState /\ q \in CallState
    BY DEF PathInv, UpstreamInv
  <1>1. /\ r.attempt \in Nat /\ r.attempt <= MaxAttempts /\ MaxAttempts \in Nat
        /\ q.attempt \in Nat /\ q.attempt <= MaxAttempts
    BY <1>0, CallParts, UpstreamAssumption
  <1>2. LeftInRequest(r) \in Nat /\ LeftInRequest(q) \in Nat
    BY <1>0, LeftIsNat
  <1>3. CASE r.pc \in Posting /\ q.pc = r.pc
    <2>1. LeftInRequest(q) < LeftInRequest(r)
      BY <1>1, <1>3 DEF GoesOn, LeftInRequest, Posting
    <2>2. QED
      BY <1>1, <1>2, <1>3, <2>1 DEF LeftInRound, Posting
  <1>4. CASE r.pc = "run" /\ q.pc = "chat" /\ q.path \in {"sidecar", "direct"} /\ q.attempt = 1
    <2>1. LeftInRequest(q) <= 3 * MaxAttempts - 1
      BY <1>1, <1>4 DEF LeftInRequest
    <2>2. QED
      BY <1>1, <1>2, <1>4, <2>1 DEF LeftInRound
  <1>5. CASE r.pc = "chat" /\ q.pc = "start"
    BY <1>1, <1>2, <1>5 DEF LeftInRound
  <1>6. CASE r.pc = "start" /\ q.pc \in {"get", "poll"}
    BY <1>6 DEF LeftInRound
  <1>7. CASE r.pc \in {"start", "get", "poll"} /\ q.pc = "run"
    BY <1>7 DEF AnotherRound
  <1>8. QED
    BY <1>3, <1>4, <1>5, <1>6, <1>7 DEF GoesOn

THEOREM RoundsRunOut ==
  UpstreamSpec =>
    [][\A c \in Chats : LeftInRound(chats[c]) \in Nat /\ CallRunsOut(c)]_upstreamVars
  <1>1. ASSUME PathInv, [UpstreamNext]_upstreamVars
        PROVE  [\A c \in Chats : LeftInRound(chats[c]) \in Nat /\ CallRunsOut(c)]_upstreamVars
    <2> SUFFICES ASSUME UpstreamNext, NEW c \in Chats
                 PROVE  LeftInRound(chats[c]) \in Nat /\ CallRunsOut(c)
      BY <1>1
    <2>1. chats[c] \in CallState /\ chats'[c] \in CallState
      BY <1>1, UpstreamInvStep DEF PathInv, UpstreamInv
    <2>2. LeftInRound(chats[c]) \in Nat /\ (chats[c].pc \notin {"idle", "ended"} => LeftInRound(chats[c]) > 0)
      BY <2>1, LeftIsNat
    <2>3. ASSUME CallStep(c)
          PROVE  /\ \/ LeftInRound(chats'[c]) < LeftInRound(chats[c])
                    \/ AnotherRound(c) /\ ~chats[c].over
                 /\ chats[c].over => chats'[c].over /\ chats'[c].pc = "ended"
      <3>1. CASE HasEnded(c)'
        <4>1. LeftInRound(chats'[c]) = 0
          BY <3>1 DEF HasEnded, LeftInRound
        <4>2. LeftInRound(chats[c]) > 0 /\ chats'[c].over = chats[c].over
          BY <1>1, <2>2, <2>3, CallMoves
        <4>3. QED
          BY <3>1, <4>1, <4>2 DEF HasEnded
      <3>2. CASE ~HasEnded(c)'
        <4>1. ~chats[c].over /\ GoesOn(c)
          BY <1>1, <2>3, <3>2, CallMoves
        <4>2. QED
          BY <1>1, <2>1, <4>1, MovesRunOut
      <3>3. QED
        BY <3>1, <3>2
    <2>4. PICK d \in Chats : CallStep(d) \/ Deadline(d) \/ \E m \in ChatModels : BeginChat(d, m)
      BY DEF UpstreamNext
    <2>5. ASSUME chats[c].over
          PROVE  chats'[c].over /\ (chats'[c] # chats[c] => chats'[c].pc = "ended")
      <3>1. CASE d = c /\ CallStep(c)
        BY <2>3, <2>5, <3>1
      <3>2. CASE d # c /\ CallStep(d)
        BY <1>1, <2>5, <3>2, CallMoves
      <3>3. CASE d # c /\ (Deadline(d) \/ \E m \in ChatModels : BeginChat(d, m))
        BY <1>1, <2>5, <3>3, OthersMove
      <3>4. CASE d = c /\ (Deadline(d) \/ \E m \in ChatModels : BeginChat(d, m))
        BY <1>1, <2>5, <3>4 DEF Deadline, BeginChat, PathInv
      <3>5. QED
        BY <2>4, <3>1, <3>2, <3>3, <3>4
    <2>6. QED
      BY <2>2, <2>3, <2>5 DEF CallRunsOut
  <1>2. QED
    BY PathInvHolds, <1>1, PTL DEF UpstreamSpec

\* Until it ends, a call has something to do or its context is over: no retry or recovery
\* leaves it without a step (client.go:500-551, 880-946).
CallCanGoOn(c) ==
    chats[c].pc \notin {"idle", "ended"} =>
        \/ chats[c].over                                 \* GiveUp
        \/ Sending(c) \/ chats[c].path = "backoff"       \* AttemptFails, Resend
        \/ chats[c].pc \in {"start", "get", "poll"}

THEOREM CallsAreNeverStuck == UpstreamSpec => [](\A c \in Chats : CallCanGoOn(c))
  <1>1. PathInv => \A c \in Chats : CallCanGoOn(c)
    <2> SUFFICES ASSUME PathInv, NEW c \in Chats, chats[c].pc \notin {"idle", "ended"},
                        ~chats[c].over, chats[c].pc \notin {"start", "get", "poll"}
                 PROVE  Sending(c) \/ chats[c].path = "backoff"
      BY DEF CallCanGoOn
    <2>1. chats[c] \in CallState
      BY DEF PathInv, UpstreamInv
    <2>2. chats[c].pc \in Posting
      BY <2>1, CallParts DEF Posting
    <2>3. chats[c].path \in {"sidecar", "direct", "backoff"}
      BY <2>1, <2>2, CallParts DEF PathInv
    <2>4. QED
      BY <2>2, <2>3 DEF Sending, ContextOver
  <1>2. QED
    BY PathInvHolds, <1>1, PTL

(***************************************************************************)
(* Relay.  A verdict is the last frame of whatever holds it; until the     *)
(* pump has ended there is none in the channel, and once the writer has    *)
(* taken it the channel is empty.                                          *)
(***************************************************************************)
Silent(s) == \A i \in DOMAIN s : s[i] \notin Verdicts
OnlyLast(s) == \A i \in DOMAIN s : s[i] \in Verdicts => i = Len(s)
OnlyVerdicts(s) == \A i \in DOMAIN s : s[i] \in Verdicts

RelayShape ==
    /\ relayed \in Kinds \union {"none"}
    /\ pump \in {"none", "working", "verdict", "ended"}
    /\ writer \in {"none", "opening", "writing", "returned"}
    /\ relayCtx \in {"live", "timeout", "cancelled"}
    /\ frames \in Seq(Frames) /\ written \in Seq(Frames)
    /\ relayed = "none" => writer = "none" /\ pump = "none"
    /\ writer = "none" => relayed = "none"
    /\ writer = "opening" => pump = "none"
    /\ relayed # "report" =>
          /\ relayCtx = "cancelled" => writer = "returned"
          /\ writer = "returned" => relayCtx # "live"
    /\ relayCtx = "timeout" => relayed \in {"stream", "report"}

VerdictInv ==
    /\ OnlyLast(frames) /\ OnlyLast(written)
    /\ pump # "ended" => Silent(frames)
    /\ writer # "returned" /\ ~Silent(written) => pump = "ended" /\ frames = << >>
    /\ relayed \in Buffered => OnlyVerdicts(frames)
    /\ relayed = "none" => frames = << >>
    /\ writer = "writing" /\ relayed # "responses" /\ pump = "ended" /\ ~RunExpired =>
          EndsTold(frames) \/ EndsTold(written)
    /\ writer = "returned" /\ Reaches /\ relayed # "responses" /\ ~RunExpired =>
          EndsTold(written)

LEMMA AppendedFrame ==
  ASSUME NEW s \in Seq(Frames), NEW f \in Frames
  PROVE  /\ Append(s, f) \in Seq(Frames)
         /\ Silent(s) => OnlyLast(Append(s, f))
         /\ f \in Verdicts => EndsTold(Append(s, f))
         /\ Silent(s) /\ f \notin Verdicts => Silent(Append(s, f))
         /\ OnlyVerdicts(s) /\ f \in Verdicts => OnlyVerdicts(Append(s, f))
  <1> DEFINE t == Append(s, f)
  <1>1. /\ t \in Seq(Frames) /\ Len(s) \in Nat /\ Len(t) = Len(s) + 1 /\ t[Len(s) + 1] = f
        /\ DOMAIN t = 1..Len(s) + 1 /\ DOMAIN s = 1..Len(s)
    OBVIOUS
  <1>2. \A i \in 1..Len(s) : t[i] = s[i]
    OBVIOUS
  <1>3. t # << >>
    BY <1>1
  <1> HIDE DEF t
  <1>4. ASSUME NEW i \in DOMAIN t
        PROVE  \/ i = Len(t) /\ t[i] = f
               \/ i \in DOMAIN s /\ t[i] = s[i]
    BY <1>1, <1>2
  <1>5. Silent(s) => OnlyLast(t)
    BY <1>4 DEF Silent, OnlyLast
  <1>6. f \in Verdicts => EndsTold(t)
    BY <1>1, <1>3 DEF EndsTold
  <1>7. Silent(s) /\ f \notin Verdicts => Silent(t)
    BY <1>4 DEF Silent
  <1>8. OnlyVerdicts(s) /\ f \in Verdicts => OnlyVerdicts(t)
    BY <1>4 DEF OnlyVerdicts
  <1>9. QED
    BY <1>1, <1>5, <1>6, <1>7, <1>8 DEF t

LEMMA TakenFrame ==
  ASSUME NEW s \in Seq(Frames), s # << >>
  PROVE  /\ Tail(s) \in Seq(Frames) /\ Head(s) \in Frames
         /\ OnlyLast(s) => OnlyLast(Tail(s))
         /\ Silent(s) => Silent(Tail(s)) /\ Head(s) \notin Verdicts
         /\ OnlyVerdicts(s) => OnlyVerdicts(Tail(s)) /\ Head(s) \in Verdicts
         /\ OnlyLast(s) /\ Head(s) \in Verdicts => Tail(s) = << >>
         /\ EndsTold(s) => EndsTold(Tail(s)) \/ Head(s) \in Verdicts
  <1> DEFINE t == Tail(s)
  <1>1. /\ t \in Seq(Frames) /\ Len(s) \in Nat /\ Len(s) >= 1 /\ Len(t) = Len(s) - 1
        /\ DOMAIN s = 1..Len(s) /\ DOMAIN t = 1..Len(t) /\ Head(s) = s[1] /\ s[1] \in Frames
    OBVIOUS
  <1>2. \A i \in 1..Len(t) : t[i] = s[i + 1]
    OBVIOUS
  <1> HIDE DEF t
  <1>3. Len(t) = 0 => t = << >>
    BY <1>1, EmptySeq
  <1>4. Len(t) # 0 => t # << >>
    BY <1>1, EmptySeq
  <1>5. ASSUME NEW i \in DOMAIN t
        PROVE  i + 1 \in DOMAIN s /\ t[i] = s[i + 1] /\ (i + 1 = Len(s) => i = Len(t)) /\ i + 1 # 1
    <2>1. i \in 1..Len(t)
      BY <1>1
    <2>2. t[i] = s[i + 1]
      BY <1>2, <2>1
    <2>3. Len(t) \in Nat /\ Len(s) = Len(t) + 1
      BY <1>1
    <2>4. i + 1 \in 1..Len(s) /\ (i + 1 = Len(s) => i = Len(t)) /\ i + 1 # 1
      BY <2>1, <2>3
    <2>5. QED
      BY <1>1, <2>2, <2>4
  <1>6. OnlyLast(s) => OnlyLast(t)
    BY <1>5 DEF OnlyLast
  <1>7. Silent(s) => Silent(t) /\ s[1] \notin Verdicts
    BY <1>1, <1>5 DEF Silent
  <1>8. OnlyVerdicts(s) => OnlyVerdicts(t) /\ s[1] \in Verdicts
    BY <1>1, <1>5 DEF OnlyVerdicts
  <1>9. OnlyLast(s) /\ s[1] \in Verdicts => t = << >>
    BY <1>1, <1>3 DEF OnlyLast
  <1>10. ASSUME EndsTold(s) PROVE EndsTold(t) \/ s[1] \in Verdicts
    <2>1. s[Len(s)] \in Verdicts
      BY <1>10 DEF EndsTold
    <2>2. CASE Len(s) = 1
      BY <2>1, <2>2
    <2>3. CASE Len(s) # 1
      <3>1. Len(t) \in 1..Len(t) /\ Len(t) + 1 = Len(s) /\ Len(t) # 0
        BY <1>1, <2>3
      <3>2. t[Len(t)] = s[Len(s)]
        BY <1>2, <3>1
      <3>3. QED
        BY <1>4, <2>1, <3>1, <3>2 DEF EndsTold
    <2>4. QED
      BY <2>2, <2>3
  <1>11. QED
    BY <1>1, <1>6, <1>7, <1>8, <1>9, <1>10 DEF t

LEMMA VerdictInvInit == RelayInit => RelayShape /\ VerdictInv
  <1>1. SUFFICES ASSUME RelayInit PROVE RelayShape /\ VerdictInv
    OBVIOUS
  <1>2. frames \in Seq(Frames) /\ written \in Seq(Frames) /\ Len(frames) = 0 /\ Len(written) = 0
    BY <1>1 DEF RelayInit
  <1>3. DOMAIN frames = {} /\ DOMAIN written = {}
    BY <1>2
  <1>4. OnlyLast(frames) /\ OnlyLast(written) /\ Silent(frames) /\ Silent(written) /\ OnlyVerdicts(frames)
    BY <1>3 DEF OnlyLast, Silent, OnlyVerdicts
  <1>5. RelayShape
    BY <1>1, <1>2 DEF RelayInit, RelayShape
  <1>6. VerdictInv
    BY <1>1, <1>4 DEF RelayInit, VerdictInv
  <1>7. QED
    BY <1>5, <1>6

\* The steps of the goroutine only add to the channel.
LEMMA PumpKeepsVerdicts ==
  ASSUME RelayShape, VerdictInv, PumpSteps
  PROVE  RelayShape' /\ VerdictInv'
  <1> USE DEF Buffered, RunExpired, Reaches, Cancelled
  <1>1. ASSUME NEW f \in Frames, Len(frames) < Room, frames' = Append(frames, f), pump # "ended"
        PROVE  /\ frames' \in Seq(Frames) /\ OnlyLast(frames)'
               /\ f \in Verdicts => EndsTold(frames)'
               /\ f \notin Verdicts => Silent(frames)'
               /\ OnlyVerdicts(frames) /\ f \in Verdicts => OnlyVerdicts(frames)'
    BY <1>1, AppendedFrame DEF RelayShape, VerdictInv
  <1>2. CASE Progress
    <2>1. "data" \in Frames /\ "data" \notin Verdicts
      BY DEF Frames, Verdicts
    <2>2. /\ frames' \in Seq(Frames) /\ OnlyLast(frames)' /\ Silent(frames)'
          /\ pump = "working" /\ relayed \notin Buffered
          /\ UNCHANGED <<relayed, pump, writer, relayCtx, present, overdue, written>>
      BY <1>1, <1>2, <2>1 DEF Progress, Emit
    <2>3. RelayShape'
      BY <2>2 DEF RelayShape
    <2>4. VerdictInv'
      BY <2>2 DEF VerdictInv, RelayShape, OnlyLast, Silent, EndsTold
    <2>5. QED
      BY <2>3, <2>4
  <1>3. CASE ProgressAbandoned
    BY <1>3 DEF ProgressAbandoned, MayAbandon, RelayShape, VerdictInv, OnlyLast, Silent, EndsTold, OnlyVerdicts
  <1>4. CASE WorkEnds
    BY <1>4 DEF WorkEnds, RelayShape, VerdictInv, OnlyLast, Silent, EndsTold, OnlyVerdicts
  <1>5. CASE TellVerdict
    <2>1. PICK v \in Verdicts : Emit(v)
      BY <1>5 DEF TellVerdict
    <2>2. v \in Frames
      BY <2>1 DEF Frames, Verdicts
    <2>3. /\ frames' \in Seq(Frames) /\ OnlyLast(frames)' /\ EndsTold(frames)'
          /\ OnlyVerdicts(frames) => OnlyVerdicts(frames)'
          /\ pump = "verdict" /\ pump' = "ended"
          /\ UNCHANGED <<relayed, writer, present, overdue, written>>
          /\ relayCtx' = IF relayed = "report" THEN Cancelled(relayCtx) ELSE relayCtx
      BY <1>1, <1>5, <2>1, <2>2 DEF TellVerdict, Emit
    <2>4. RelayShape'
      BY <2>3 DEF RelayShape
    <2>5. VerdictInv'
      BY <2>3 DEF VerdictInv, RelayShape, OnlyLast, Silent, EndsTold
    <2>6. QED
      BY <2>4, <2>5
  <1>6. CASE VerdictAbandoned
    BY <1>6 DEF VerdictAbandoned, MayAbandon, RelayShape, VerdictInv, OnlyLast, Silent, EndsTold, OnlyVerdicts
  <1>7. QED
    BY <1>2, <1>3, <1>4, <1>5, <1>6 DEF PumpSteps

\* The writer moves frames on, and leaves only with a verdict or a reason.
LEMMA WriterKeepsVerdicts ==
  ASSUME RelayShape, VerdictInv, WriterSteps
  PROVE  RelayShape' /\ VerdictInv'
  <1> USE DEF Buffered, RunExpired, Reaches, Cancelled
  <1>1. CASE OpenEvents
    <2>1. CASE writer' = "writing" /\ pump' = "working" /\ UNCHANGED <<relayCtx, written>>
      BY <1>1, <2>1 DEF OpenEvents, RelayShape, VerdictInv, OnlyLast, Silent, EndsTold, OnlyVerdicts
    <2>2. CASE Return /\ Write("error") /\ UNCHANGED pump
      <3>1. "error" \in Frames /\ "error" \in Verdicts
        BY DEF Frames, Verdicts
      <3>2. written \in Seq(Frames) /\ Silent(written)
        BY <1>1 DEF OpenEvents, RelayShape, VerdictInv
      <3>3. written' \in Seq(Frames) /\ OnlyLast(written)' /\ (Reaches => EndsTold(written)')
        <4>1. CASE Reaches
          BY <2>2, <3>1, <3>2, <4>1, AppendedFrame DEF Write
        <4>2. CASE ~Reaches
          BY <2>2, <3>2, <4>2 DEF Write, OnlyLast, Silent
        <4>3. QED
          BY <4>1, <4>2
      <3>4. RelayShape'
        BY <1>1, <2>2, <3>3 DEF OpenEvents, Return, RelayShape
      <3>5. VerdictInv'
        BY <1>1, <2>2, <3>3 DEF OpenEvents, Return, RelayShape, VerdictInv, OnlyLast, Silent, EndsTold, OnlyVerdicts
      <3>6. QED
        BY <3>4, <3>5
    <2>3. QED
      BY <1>1, <2>1, <2>2 DEF OpenEvents
  <1>2. CASE TakeFrame
    <2>1. PICK f : f = Head(frames)
      OBVIOUS
    <2>2. /\ frames \in Seq(Frames) /\ written \in Seq(Frames) /\ frames # << >>
          /\ writer = "writing" /\ OnlyLast(frames) /\ OnlyLast(written) /\ Silent(written)
      BY <1>2 DEF TakeFrame, RelayShape, VerdictInv
    <2>3. /\ frames' \in Seq(Frames) /\ f \in Frames /\ OnlyLast(frames)'
          /\ Silent(frames) => Silent(frames)' /\ f \notin Verdicts
          /\ OnlyVerdicts(frames) => OnlyVerdicts(frames)' /\ f \in Verdicts
          /\ f \in Verdicts => frames' = << >>
          /\ EndsTold(frames) => EndsTold(frames)' \/ f \in Verdicts
      BY <1>2, <2>1, <2>2, TakenFrame DEF TakeFrame
    <2>4. ASSUME written' = Append(written, f)
          PROVE  /\ written' \in Seq(Frames) /\ OnlyLast(written)'
                 /\ f \in Verdicts => EndsTold(written)'
                 /\ f \notin Verdicts => Silent(written)'
      BY <2>2, <2>3, <2>4, AppendedFrame
    <2>5. UNCHANGED <<relayed, pump, produced, present, overdue>>
      BY <1>2 DEF TakeFrame
    <2>6. ~EndsTold(written)
      <3>1. SUFFICES ASSUME EndsTold(written) PROVE FALSE
        OBVIOUS
      <3>2. written # << >> /\ Len(written) \in DOMAIN written
        <4>1. Len(written) # 0 /\ Len(written) \in Nat
          BY <2>2, <3>1, EmptySeq DEF EndsTold
        <4>2. DOMAIN written = 1..Len(written)
          BY <2>2
        <4>3. QED
          BY <3>1, <4>1, <4>2 DEF EndsTold
      <3>3. QED
        BY <2>2, <3>1, <3>2 DEF EndsTold, Silent
    <2>7. CASE Reaches /\ relayed \notin Buffered
      <3>1. written' = Append(written, f) /\ UNCHANGED <<writer, relayCtx>>
        BY <1>2, <2>1, <2>7 DEF TakeFrame, Write
      <3>2. RelayShape'
        BY <2>3, <2>4, <2>5, <3>1 DEF RelayShape
      <3>3. f \in Verdicts => pump = "ended"
        BY <2>3 DEF VerdictInv
      <3>4. VerdictInv'
        BY <2>2, <2>3, <2>4, <2>5, <2>6, <2>7, <3>1, <3>3 DEF VerdictInv, RelayShape
      <3>5. QED
        BY <3>2, <3>4
    <2>8. CASE ~(Reaches /\ relayed \notin Buffered)
      <3>1. /\ Return
            /\ written' = IF Reaches THEN Append(written, f) ELSE written
        BY <1>2, <2>1, <2>8 DEF TakeFrame, Write
      <3>2. written' \in Seq(Frames) /\ OnlyLast(written)'
        <4>1. CASE Reaches
          BY <2>4, <3>1, <4>1
        <4>2. CASE ~Reaches
          BY <2>2, <3>1, <4>2 DEF OnlyLast
        <4>3. QED
          BY <4>1, <4>2
      <3>3. Reaches => EndsTold(written)'
        BY <2>3, <2>4, <2>8, <3>1 DEF VerdictInv
      <3>4. RelayShape'
        BY <2>2, <2>3, <2>5, <3>1, <3>2 DEF RelayShape, Return
      <3>5. VerdictInv'
        BY <2>2, <2>3, <2>5, <3>1, <3>2, <3>3 DEF VerdictInv, RelayShape, Return
      <3>6. QED
        BY <3>4, <3>5
    <2>9. QED
      BY <2>7, <2>8
  <1>3. CASE SeesEnd
    <2>1. ~EndsTold(frames)
      BY <1>3 DEF SeesEnd, FramesDone, EndsTold
    <2>2. QED
      BY <1>3, <2>1 DEF SeesEnd, FramesDone, Return, RelayShape, VerdictInv, OnlyLast, Silent, EndsTold, OnlyVerdicts
  <1>4. CASE SeesContext
    BY <1>4 DEF SeesContext, Return, RelayShape, VerdictInv, OnlyLast, Silent, EndsTold, OnlyVerdicts
  <1>5. CASE HeartbeatFails
    BY <1>5 DEF HeartbeatFails, Return, RelayShape, VerdictInv, OnlyLast, Silent, EndsTold, OnlyVerdicts
  <1>6. QED
    BY <1>1, <1>2, <1>3, <1>4, <1>5 DEF WriterSteps

LEMMA VerdictInvStep ==
  RelayShape /\ VerdictInv /\ [RelayNext]_relayVars => RelayShape' /\ VerdictInv'
  <1> USE DEF Buffered, RunExpired, Reaches, Cancelled
  <1>1. SUFFICES ASSUME RelayShape, VerdictInv, [RelayNext]_relayVars
                 PROVE  RelayShape' /\ VerdictInv'
    OBVIOUS
  <1>2. CASE BeginRelay
    <2>1. DOMAIN << >> = {} /\ frames = << >>
      BY <1>1, <1>2 DEF BeginRelay, VerdictInv
    <2>2. OnlyVerdicts(frames)
      BY <2>1 DEF OnlyVerdicts
    <2>3. QED
      BY <1>1, <1>2, <2>2 DEF BeginRelay, RelayShape, VerdictInv, OnlyLast, Silent, EndsTold, OnlyVerdicts, Kinds
  <1>3. CASE PumpSteps
    BY <1>1, <1>3, PumpKeepsVerdicts
  <1>4. CASE WriterSteps
    BY <1>1, <1>4, WriterKeepsVerdicts
  <1>5. CASE ClientGoes
    BY <1>1, <1>5 DEF ClientGoes, RelayShape, VerdictInv, OnlyLast, Silent, EndsTold, OnlyVerdicts
  <1>6. CASE RelayTimesOut
    BY <1>1, <1>6 DEF RelayTimesOut, RelayShape, VerdictInv, OnlyLast, Silent, EndsTold, OnlyVerdicts
  <1>7. CASE WriteDeadlinePasses
    BY <1>1, <1>7 DEF WriteDeadlinePasses, RelayShape, VerdictInv, OnlyLast, Silent, EndsTold, OnlyVerdicts
  <1>8. CASE UNCHANGED relayVars
    BY <1>1, <1>8 DEF relayVars, RelayShape, VerdictInv, OnlyLast, Silent, EndsTold, OnlyVerdicts
  <1>9. QED
    BY <1>1, <1>2, <1>3, <1>4, <1>5, <1>6, <1>7, <1>8 DEF RelayNext

\* Whatever the capacity of the channel and the number of frames, a client that stays
\* gets one verdict, as its last frame, unless the write deadline of the response or,
\* in streamResearch, the time of the run is up (research.go:365-476, 735-870,
\* handlers.go:424-507, server.go:86).
THEOREM ClientsAreTold == RelaySpec => []VerdictIsTold
  <1>1. VerdictInv => VerdictIsTold
    BY DEF VerdictInv, VerdictIsTold, OnlyLast, Reaches
  <1>2. RelaySpec => [](RelayShape /\ VerdictInv)
    BY VerdictInvInit, VerdictInvStep, PTL DEF RelaySpec
  <1>3. QED
    BY <1>1, <1>2, PTL

\* The channel's capacity, and the bound on what is produced.
RelayFits ==
    /\ Len(frames) <= Room /\ produced \in 0..MaxFrames
    /\ present \in BOOLEAN /\ overdue \in BOOLEAN

LEMMA RelayFitsInit == RelayInit => RelayFits
  <1> SUFFICES ASSUME RelayInit PROVE RelayFits
    OBVIOUS
  <1>1. present \in BOOLEAN /\ overdue \in BOOLEAN
    BY Zenon DEF RelayInit
  <1>2. Len(frames) = 0 /\ produced = 0
    BY DEF RelayInit
  <1>3. QED
    BY <1>1, <1>2, RelayAssumption DEF RelayFits

LEMMA RelayFitsStep == RelayShape /\ RelayFits /\ [RelayNext]_relayVars => RelayFits'
  <1> SUFFICES ASSUME RelayShape, RelayFits, [RelayNext]_relayVars PROVE RelayFits'
    OBVIOUS
  <1>0. /\ frames \in Seq(Frames) /\ Len(frames) \in Nat /\ Len(frames) <= Room
        /\ produced \in 0..MaxFrames /\ present \in BOOLEAN /\ overdue \in BOOLEAN
        /\ Room \in Nat \ {0} /\ MaxFrames \in Nat
    BY RelayAssumption DEF RelayShape, RelayFits
  <1>1. \A f : Len(frames) < Room => Len(Append(frames, f)) <= Room
    BY <1>0
  <1>2. CASE Progress
    BY <1>0, <1>1, <1>2 DEF Progress, Emit, RelayFits
  <1>3. CASE TellVerdict
    BY <1>0, <1>1, <1>3 DEF TellVerdict, Emit, RelayFits
  <1>4. CASE TakeFrame
    <2>1. frames # << >> /\ frames' = Tail(frames) /\ UNCHANGED <<produced, present, overdue>>
      BY <1>4 DEF TakeFrame
    <2>2. Len(Tail(frames)) <= Room
      BY <1>0, <2>1
    <2>3. QED
      BY <1>0, <2>1, <2>2 DEF RelayFits
  <1>5. CASE ClientGoes \/ WriteDeadlinePasses
    BY <1>0, <1>5 DEF ClientGoes, WriteDeadlinePasses, RelayFits
  <1>6. CASE \/ BeginRelay \/ ProgressAbandoned \/ WorkEnds \/ VerdictAbandoned
             \/ OpenEvents \/ SeesEnd \/ SeesContext \/ HeartbeatFails \/ RelayTimesOut
             \/ UNCHANGED relayVars
    <2>1. UNCHANGED <<frames, produced, present, overdue>>
      BY <1>6 DEF BeginRelay, ProgressAbandoned, WorkEnds, VerdictAbandoned, OpenEvents, SeesEnd,
                  SeesContext, HeartbeatFails, RelayTimesOut, relayVars
    <2>2. QED
      BY <2>1 DEF RelayFits
  <1>7. QED
    BY <1>2, <1>3, <1>4, <1>5, <1>6 DEF RelayNext, PumpSteps, WriterSteps

\* The type invariant of a relayed answer: its channel never holds more frames than it
\* has room for (research.go:393-446, 809-845).
THEOREM RelayTypeCorrect == RelaySpec => []RelayTyped
  <1>1. RelayInit => RelayFits
    BY RelayFitsInit
  <1>2. RelayShape /\ RelayFits => RelayTyped
    BY DEF RelayShape, RelayFits, RelayTyped
  <1>3. QED
    BY <1>1, <1>2, VerdictInvInit, VerdictInvStep, RelayFitsStep, PTL DEF RelaySpec

\* What keeps the two sides of a relay from waiting on each other: a writer that writes
\* has a pump, and a buffered answer's pump finds the channel empty.
RelayPairs ==
    /\ writer = "writing" => pump # "none"
    /\ relayed \in {"none"} \union Buffered /\ pump # "ended" => frames = << >>

\* The guards of the pump's steps and of the writer's.
PumpMayMove ==
    /\ pump \in {"working", "verdict"}
    /\ \/ Len(frames) < Room                               \* WorkEnds, TellVerdict
       \/ relayed \notin Buffered /\ relayCtx # "live"         \* ProgressAbandoned, VerdictAbandoned
WriterMayMove ==
    \/ writer = "opening"                                  \* OpenEvents
    \/ /\ writer = "writing"
       /\ \/ frames # << >> \/ pump = "ended"               \* TakeFrame, SeesEnd
          \/ relayed \notin Buffered /\ relayCtx # "live"      \* SeesContext
          \/ ~Reaches                                      \* HeartbeatFails

NobodyWaitsInVain ==
    relayed # "none" =>
        \/ writer = "returned" /\ pump \in {"ended", "none"}
        \/ PumpMayMove \/ WriterMayMove

\* What is left to do, given that MaxFrames frames can be produced.
PumpLeft(p) == IF p = "working" THEN 4 ELSE IF p = "verdict" THEN 2 ELSE 0
WriterLeft(w) == IF w = "opening" THEN 6 ELSE IF w = "writing" THEN 1 ELSE 0
RelayLeft == 2 * (MaxFrames - produced) + Len(frames) + PumpLeft(pump) + WriterLeft(writer)

RelayRunsOut ==
    /\ PumpSteps \/ WriterSteps => RelayLeft' < RelayLeft
    /\ RelayLeft' > RelayLeft => BeginRelay

LEMMA RelayPairsStep == RelayShape /\ RelayPairs /\ [RelayNext]_relayVars => RelayPairs'
  <1> SUFFICES ASSUME RelayShape, RelayPairs, [RelayNext]_relayVars PROVE RelayPairs'
    OBVIOUS
  <1> USE DEF RelayPairs
  <1>1. CASE BeginRelay
    BY <1>1 DEF BeginRelay, RelayShape, Kinds, Buffered
  <1>2. CASE PumpSteps
    <2>1. CASE Progress
      BY <2>1 DEF Progress, RelayShape
    <2>2. CASE ProgressAbandoned \/ WorkEnds
      BY <2>2 DEF ProgressAbandoned, WorkEnds, RelayShape
    <2>3. CASE TellVerdict \/ VerdictAbandoned
      BY <2>3 DEF TellVerdict, VerdictAbandoned, RelayShape
    <2>4. QED
      BY <1>2, <2>1, <2>2, <2>3 DEF PumpSteps
  <1>3. CASE WriterSteps
    <2>1. CASE TakeFrame
      <3>1. frames # << >> /\ writer' \in {"writing", "returned"} /\ writer = "writing"
            /\ UNCHANGED <<relayed, pump>>
        BY <2>1 DEF TakeFrame, Return
      <3>2. QED
        BY <3>1 DEF RelayShape
    <2>2. CASE OpenEvents
      BY <2>2 DEF OpenEvents, Return, RelayShape
    <2>3. CASE SeesEnd \/ SeesContext \/ HeartbeatFails
      BY <2>3 DEF SeesEnd, SeesContext, HeartbeatFails, Return
    <2>4. QED
      BY <1>3, <2>1, <2>2, <2>3 DEF WriterSteps
  <1>4. CASE ClientGoes \/ RelayTimesOut \/ WriteDeadlinePasses \/ UNCHANGED relayVars
    BY <1>4 DEF ClientGoes, RelayTimesOut, WriteDeadlinePasses, relayVars
  <1>5. QED
    BY <1>1, <1>2, <1>3, <1>4 DEF RelayNext

LEMMA RelayLeftTyped == RelayShape /\ RelayFits => RelayLeft \in Nat
  <1> SUFFICES ASSUME RelayShape, RelayFits PROVE RelayLeft \in Nat
    OBVIOUS
  <1>1. produced \in 0..MaxFrames /\ MaxFrames \in Nat /\ Len(frames) \in Nat
    BY RelayAssumption DEF RelayShape, RelayFits
  <1>2. QED
    BY <1>1 DEF RelayLeft, PumpLeft, WriterLeft

LEMMA RelayLeftStep ==
  ASSUME RelayShape, RelayFits, PumpSteps \/ WriterSteps
  PROVE  RelayLeft' < RelayLeft
  <1>1. /\ produced \in 0..MaxFrames /\ MaxFrames \in Nat /\ Len(frames) \in Nat /\ frames \in Seq(Frames)
        /\ \A f : Len(Append(frames, f)) = Len(frames) + 1
        /\ frames # << >> => Len(Tail(frames)) = Len(frames) - 1
    BY RelayAssumption DEF RelayShape, RelayFits
  <1>2. CASE Progress
    <2>1. produced' = produced + 1 /\ Len(frames') = Len(frames) + 1 /\ UNCHANGED <<pump, writer>>
      BY <1>1, <1>2 DEF Progress, Emit
    <2>2. QED
      BY <1>1, <2>1 DEF RelayLeft, PumpLeft, WriterLeft
  <1>3. CASE ProgressAbandoned \/ WorkEnds \/ VerdictAbandoned
    <2>1. /\ UNCHANGED <<produced, frames, writer>>
          /\ \/ pump = "working" /\ pump' \in {"verdict", "ended"}
             \/ pump = "verdict" /\ pump' = "ended"
      BY <1>3 DEF ProgressAbandoned, WorkEnds, VerdictAbandoned
    <2>2. QED
      BY <1>1, <2>1 DEF RelayLeft, PumpLeft, WriterLeft
  <1>4. CASE TellVerdict
    <2>1. Len(frames') = Len(frames) + 1 /\ pump = "verdict" /\ pump' = "ended"
          /\ UNCHANGED <<produced, writer>>
      BY <1>1, <1>4 DEF TellVerdict, Emit
    <2>2. QED
      BY <1>1, <2>1 DEF RelayLeft, PumpLeft, WriterLeft
  <1>5. CASE TakeFrame
    <2>1. /\ Len(frames') = Len(frames) - 1 /\ writer = "writing" /\ writer' \in {"writing", "returned"}
          /\ UNCHANGED <<produced, pump>>
      BY <1>1, <1>5 DEF TakeFrame, Return
    <2>2. QED
      BY <1>1, <2>1 DEF RelayLeft, PumpLeft, WriterLeft
  <1>6. CASE OpenEvents
    <2>1. /\ UNCHANGED <<produced, frames>> /\ writer = "opening"
          /\ \/ writer' = "writing" /\ pump' = "working"
             \/ writer' = "returned" /\ pump' = pump
          /\ pump = "none"
      BY <1>6 DEF OpenEvents, Return, RelayShape
    <2>2. QED
      BY <1>1, <2>1 DEF RelayLeft, PumpLeft, WriterLeft
  <1>7. CASE SeesEnd \/ SeesContext \/ HeartbeatFails
    <2>1. UNCHANGED <<produced, frames, pump>> /\ writer = "writing" /\ writer' = "returned"
      BY <1>7 DEF SeesEnd, SeesContext, HeartbeatFails, Return
    <2>2. QED
      BY <1>1, <2>1 DEF RelayLeft, PumpLeft, WriterLeft
  <1>8. QED
    BY <1>2, <1>3, <1>4, <1>5, <1>6, <1>7 DEF PumpSteps, WriterSteps

\* Of pump and writer never both wait for the other until the response and its goroutine
\* have ended: a writer that leaves a full channel has cancelled the context the pump
\* also waits for, and a buffered result always has room (research.go:393-446, 520-538,
\* 809-845, handlers.go:424-507).
THEOREM RelaysAreNeverStuck == RelaySpec => []NobodyWaitsInVain
  <1>1. RelayInit => RelayPairs
    BY DEF RelayInit, RelayPairs
  <1>2. RelayShape /\ RelayPairs => NobodyWaitsInVain
    <2> SUFFICES ASSUME RelayShape, RelayPairs, relayed # "none" PROVE NobodyWaitsInVain
      BY DEF NobodyWaitsInVain
    <2>1. Len(<< >>) < Room
      BY RelayAssumption
    <2>2. QED
      BY <2>1 DEF RelayShape, RelayPairs, NobodyWaitsInVain, PumpMayMove, WriterMayMove, Buffered
  <1>3. QED
    BY <1>1, <1>2, VerdictInvInit, VerdictInvStep, RelayPairsStep, PTL DEF RelaySpec

\* Every step of the pump or the writer leaves less to do, and nothing but a new request
\* adds to it: a relay whose source ends takes finitely many steps.
THEOREM RelaysRunOut == RelaySpec => [][RelayRunsOut /\ RelayLeft \in Nat]_relayVars
  <1>1. RelayInit => RelayFits
    BY RelayFitsInit
  <1>2. ASSUME RelayShape, VerdictInv, RelayFits, [RelayNext]_relayVars
        PROVE  [RelayRunsOut /\ RelayLeft \in Nat]_relayVars
    <2>1. CASE UNCHANGED relayVars
      BY <2>1
    <2>2. CASE RelayNext
      <3>1. RelayLeft \in Nat
        BY <1>2, RelayLeftTyped
      <3>2. RelayShape' /\ RelayFits'
        BY <1>2, VerdictInvStep, RelayFitsStep
      <3>3. RelayLeft' \in Nat
        <4>1. produced' \in 0..MaxFrames /\ MaxFrames \in Nat /\ Len(frames') \in Nat
          BY <3>2, RelayAssumption DEF RelayShape, RelayFits
        <4>2. QED
          BY <4>1, SMTT(20) DEF RelayLeft, PumpLeft, WriterLeft
      <3>4. PumpSteps \/ WriterSteps => RelayLeft' < RelayLeft
        BY <1>2, RelayLeftStep
      <3>5. ClientGoes \/ RelayTimesOut \/ WriteDeadlinePasses => RelayLeft' = RelayLeft
        BY DEF ClientGoes, RelayTimesOut, WriteDeadlinePasses, RelayLeft, PumpLeft, WriterLeft
      <3>6. RelayRunsOut
        BY <2>2, <3>1, <3>3, <3>4, <3>5 DEF RelayRunsOut, RelayNext
      <3>7. QED
        BY <3>1, <3>6
    <2>3. QED
      BY <1>2, <2>1, <2>2
  <1>3. RelaySpec => [](RelayShape /\ VerdictInv /\ RelayFits)
    BY <1>1, VerdictInvInit, VerdictInvStep, RelayFitsStep, PTL DEF RelaySpec
  <1>4. QED
    BY <1>2, <1>3, PTL DEF RelaySpec

(***************************************************************************)
(* Research.  A URL in the evidence belongs to a query that is over, which *)
(* no later step touches; the queries work only while the phase is         *)
(* "search", so that what is kept from their evidence stays all of it.     *)
(***************************************************************************)
AskedState == [pc : {"none", "waiting", "searching", "reading", "merging", "over"},
               next : Nat, hits : Seq(Urls), items : SUBSET Urls]

ResearchShape ==
    /\ phase \in {"idle", "plan", "search", "write", "reported", "failed", "delegated"}
    /\ width \in Nat
    /\ asked \in [Queries -> AskedState]
    /\ evidence \in [Urls -> Queries \union {"none"}]
    /\ phase \in {"idle", "plan", "delegated"} =>
          /\ \A q \in Queries : asked[q].pc = "none"
          /\ \A u \in Urls : evidence[u] = "none"
    /\ phase \in {"write", "reported", "failed"} =>
          \A q \in Queries : asked[q].pc \in {"none", "over"}

EvidenceKnown ==
    \A u \in Urls : evidence[u] # "none" =>
        u \in asked[evidence[u]].items /\ asked[evidence[u]].pc = "over"
EvidenceWhole ==
    \A q \in Queries : asked[q].pc = "over" /\ q \notin lost =>
        \A u \in asked[q].items : evidence[u] # "none"
PlacesKept == IsFiniteSet(Holding) /\ Cardinality(Holding) <= width
KeptWhole ==
    phase \in {"write", "reported"} =>
        kept \subseteq Found /\ Cardinality(kept) <= MaxEvidence
            /\ (kept = Found \/ Cardinality(kept) = MaxEvidence)

EvidenceInv == PlacesKept /\ EvidenceKnown /\ EvidenceWhole /\ KeptWhole

Working == {"searching", "reading", "merging"}

\* Places are taken one at a time, by a query that waited while one was free.
LEMMA PlacesStay ==
  ASSUME ResearchShape, PlacesKept, NEW q \in Queries, NEW r \in AskedState,
         asked' = [asked EXCEPT ![q] = r], width' = width,
         r.pc \in Working => asked[q].pc \in Working \/ Cardinality(Holding) < width
  PROVE  PlacesKept'
  <1>1. PICK H : H = Holding
    OBVIOUS
  <1>2. IsFiniteSet(H) /\ Cardinality(H) <= width /\ Cardinality(H) \in Nat /\ width \in Nat
    BY <1>1, FS_CardinalityType DEF PlacesKept, ResearchShape
  <1>3. asked \in [Queries -> AskedState]
    BY DEF ResearchShape
  <1>4. \A p \in Queries : asked'[p] = IF p = q THEN r ELSE asked[p]
    BY <1>3
  <1>5. /\ H = {p \in Queries : asked[p].pc \in Working}
        /\ Holding' = {p \in Queries : asked'[p].pc \in Working}
    BY <1>1 DEF Holding, Working
  <1>6. CASE r.pc \in Working
    <2>1. Holding' = H \union {q}
      BY <1>4, <1>5, <1>6
    <2>2. /\ IsFiniteSet(H \union {q})
          /\ Cardinality(H \union {q}) = IF q \in H THEN Cardinality(H) ELSE Cardinality(H) + 1
      BY <1>2, FS_AddElement
    <2>3. q \in H \/ Cardinality(H) < width
      BY <1>1, <1>5, <1>6
    <2>4. Cardinality(H \union {q}) <= width
      BY <1>2, <2>2, <2>3
    <2>5. QED
      BY <2>1, <2>2, <2>4 DEF PlacesKept
  <1>7. CASE r.pc \notin Working
    <2>1. Holding' = H \ {q}
      BY <1>4, <1>5, <1>7
    <2>2. H \ {q} \in SUBSET H
      OBVIOUS
    <2>3. IsFiniteSet(H \ {q}) /\ Cardinality(H \ {q}) <= Cardinality(H) /\ Cardinality(H \ {q}) \in Nat
      BY <1>2, <2>2, FS_Subset, FS_CardinalityType
    <2>4. Cardinality(H \ {q}) <= width
      BY <1>2, <2>3
    <2>5. QED
      BY <2>1, <2>3, <2>4 DEF PlacesKept
  <1>8. QED
    BY <1>6, <1>7

\* A query that works does so while the phase is "search".
LEMMA QueriesWorkInSearch ==
  ASSUME ResearchShape, NEW q \in Queries, asked[q].pc \notin {"none", "over"}
  PROVE  phase = "search"
  BY DEF ResearchShape

\* One query moves and brings no evidence yet.
LEMMA OneQueryMoves ==
  ASSUME ResearchShape, EvidenceInv, NEW q \in Queries, NEW r \in AskedState,
         asked[q].pc \notin {"none", "over"},
         asked' = [asked EXCEPT ![q] = r],
         UNCHANGED <<phase, width, evidence, kept>>,
         lost \subseteq lost',
         r.pc \in Working => asked[q].pc \in Working \/ Cardinality(Holding) < width,
         r.pc = "over" => q \in lost' \/ r.items = {}
  PROVE  ResearchShape' /\ EvidenceInv'
  <1>1. phase = "search" /\ phase' = "search"
    BY QueriesWorkInSearch
  <1>2. asked \in [Queries -> AskedState] /\ asked' \in [Queries -> AskedState]
    BY DEF ResearchShape
  <1>3. \A p \in Queries : asked'[p] = IF p = q THEN r ELSE asked[p]
    BY <1>2
  <1>4. ResearchShape'
    BY <1>1, <1>2 DEF ResearchShape
  <1>5. PlacesKept'
    BY PlacesStay DEF EvidenceInv
  <1>6. EvidenceKnown'
    <2>1. ASSUME NEW u \in Urls, evidence[u] # "none"
          PROVE  u \in asked'[evidence[u]].items /\ asked'[evidence[u]].pc = "over"
      <3>1. evidence[u] \in Queries /\ asked[evidence[u]].pc = "over" /\ u \in asked[evidence[u]].items
        BY <2>1 DEF EvidenceInv, EvidenceKnown, ResearchShape
      <3>2. evidence[u] # q
        BY <3>1
      <3>3. QED
        BY <1>3, <3>1, <3>2
    <2>2. QED
      BY <2>1 DEF EvidenceKnown
  <1>7. EvidenceWhole'
    <2>1. ASSUME NEW p \in Queries, asked'[p].pc = "over", p \notin lost', NEW u \in asked'[p].items
          PROVE  evidence[u] # "none"
      <3>1. CASE p = q
        BY <1>3, <2>1, <3>1
      <3>2. CASE p # q
        BY <1>3, <2>1, <3>2 DEF EvidenceInv, EvidenceWhole
      <3>3. QED
        BY <3>1, <3>2
    <2>2. QED
      BY <2>1 DEF EvidenceWhole
  <1>8. KeptWhole'
    BY <1>1 DEF KeptWhole
  <1>9. QED
    BY <1>4, <1>5, <1>6, <1>7, <1>8 DEF EvidenceInv

LEMMA MergeKeepsEvidence ==
  ASSUME ResearchShape, EvidenceInv, NEW q \in Queries, MergeEvidence(q)
  PROVE  ResearchShape' /\ EvidenceInv'
  <1>1. asked[q].pc = "merging" /\ asked[q] \in AskedState /\ asked \in [Queries -> AskedState]
    BY DEF MergeEvidence, Stage, ResearchShape
  <1>2. phase = "search" /\ phase' = "search"
    BY <1>1, QueriesWorkInSearch DEF MergeEvidence
  <1>3. PICK r : r = [asked[q] EXCEPT !.pc = "over"]
    OBVIOUS
  <1>4. r \in AskedState /\ r.pc = "over" /\ r.items = asked[q].items
    BY <1>1, <1>3 DEF AskedState
  <1>5. asked' = [asked EXCEPT ![q] = r]
    BY <1>3 DEF MergeEvidence, Move
  <1>6. \A p \in Queries : asked'[p] = IF p = q THEN r ELSE asked[p]
    BY <1>1, <1>5
  <1>7. \A u \in Urls : evidence'[u] = IF u \in asked[q].items /\ evidence[u] = "none" THEN q ELSE evidence[u]
    BY DEF MergeEvidence, Merged
  <1>8. asked[q].items \subseteq Urls /\ q # "none"
    BY <1>1, ResearchAssumption DEF AskedState
  <1>9. ResearchShape'
    <2>1. evidence' \in [Urls -> Queries \union {"none"}]
      BY DEF MergeEvidence, Merged, ResearchShape
    <2>2. asked' \in [Queries -> AskedState]
      BY <1>1, <1>4, <1>5
    <2>3. QED
      BY <1>2, <2>1, <2>2 DEF ResearchShape, MergeEvidence
  <1>10. PlacesKept'
    <2>1. r.pc \notin Working /\ width' = width /\ PlacesKept
      BY <1>4 DEF Working, MergeEvidence, EvidenceInv
    <2>2. QED
      BY <1>4, <1>5, <2>1, PlacesStay
  <1>11. EvidenceKnown'
    <2>1. ASSUME NEW u \in Urls, evidence'[u] # "none"
          PROVE  u \in asked'[evidence'[u]].items /\ asked'[evidence'[u]].pc = "over"
      <3>1. CASE u \in asked[q].items /\ evidence[u] = "none"
        BY <1>4, <1>6, <1>7, <3>1
      <3>2. CASE ~(u \in asked[q].items /\ evidence[u] = "none")
        <4>1. evidence'[u] = evidence[u]
          BY <1>7, <3>2
        <4>2. evidence[u] \in Queries /\ asked[evidence[u]].pc = "over" /\ u \in asked[evidence[u]].items
          BY <2>1, <4>1 DEF EvidenceInv, EvidenceKnown, ResearchShape
        <4>3. evidence[u] # q
          BY <1>1, <4>2
        <4>4. QED
          BY <1>6, <4>1, <4>2, <4>3
      <3>3. QED
        BY <3>1, <3>2
    <2>2. QED
      BY <2>1 DEF EvidenceKnown
  <1>12. EvidenceWhole'
    <2>1. ASSUME NEW p \in Queries, asked'[p].pc = "over", p \notin lost', NEW u \in asked'[p].items
          PROVE  evidence'[u] # "none"
      <3>1. asked'[p] \in AskedState
        BY <1>1, <1>4, <1>6
      <3>2. u \in Urls
        BY <2>1, <3>1 DEF AskedState
      <3>3. CASE p = q
        BY <1>4, <1>6, <1>7, <1>8, <2>1, <3>2, <3>3
      <3>4. CASE p # q
        <4>1. evidence[u] # "none"
          BY <1>6, <2>1, <3>4 DEF EvidenceInv, EvidenceWhole, MergeEvidence
        <4>2. QED
          BY <1>7, <3>2, <4>1
      <3>5. QED
        BY <3>3, <3>4
    <2>2. QED
      BY <2>1 DEF EvidenceWhole
  <1>13. KeptWhole'
    BY <1>2 DEF KeptWhole
  <1>14. QED
    BY <1>9, <1>10, <1>11, <1>12, <1>13 DEF EvidenceInv

\* The steps of a query that is neither asked nor over.
LEMMA QueryKeepsEvidence ==
  ASSUME ResearchShape, EvidenceInv, NEW q \in Queries,
         TakePlace(q) \/ SearchBackend(q) \/ SelectTop(q) \/ ReadPages(q) \/ QueryTooLate(q)
  PROVE  ResearchShape' /\ EvidenceInv'
  <1> DEFINE a == asked[q]
  <1>1. a \in AskedState
    BY DEF ResearchShape
  <1>2. a.next \in Nat /\ a.hits \in Seq(Urls) /\ a.items \subseteq Urls
    BY <1>1 DEF AskedState
  <1>3. CASE TakePlace(q)
    <2>1. PICK r : r = [a EXCEPT !.pc = "searching"]
      OBVIOUS
    <2>2. r \in AskedState /\ r.pc = "searching"
      BY <1>1, <2>1 DEF AskedState
    <2>3. /\ a.pc = "waiting" /\ Cardinality(Holding) < width /\ asked' = [asked EXCEPT ![q] = r]
          /\ UNCHANGED <<phase, width, evidence, kept, lost>>
      BY <1>3, <2>1 DEF TakePlace, Stage, Move
    <2>4. QED
      BY <2>2, <2>3, OneQueryMoves
  <1>4. CASE SearchBackend(q)
    <2>1. PICK s \in BackendAnswers : Move(q, [a EXCEPT !.next = @ + 1, !.hits = @ \o s])
      BY <1>4 DEF SearchBackend, Unseen
    <2>2. s \in Seq(Urls)
      BY <2>1, ResearchAssumption DEF BackendAnswers
    <2>3. PICK r : r = [a EXCEPT !.next = @ + 1, !.hits = @ \o s]
      OBVIOUS
    <2>4. r = [pc |-> a.pc, next |-> a.next + 1, hits |-> a.hits \o s, items |-> a.items]
      BY <1>1, <2>3 DEF AskedState
    <2>5. a.hits \o s \in Seq(Urls) /\ a.next + 1 \in Nat
      BY <1>2, <2>2
    <2>6. a.pc = "searching"
      BY <1>4 DEF SearchBackend, Stage
    <2>7. r \in AskedState /\ r.pc = "searching"
      BY <1>2, <2>4, <2>5, <2>6 DEF AskedState
    <2>8. /\ asked' = [asked EXCEPT ![q] = r]
          /\ UNCHANGED <<phase, width, evidence, kept, lost>>
      BY <1>4, <2>1, <2>3 DEF SearchBackend, Move
    <2>9. "searching" \in Working
      BY DEF Working
    <2>10. QED
      BY <2>6, <2>7, <2>8, <2>9, OneQueryMoves
  <1>5. CASE SelectTop(q)
    <2>1. Top(a.hits) \subseteq Urls
      <3>1. PICK n : n = IF Len(a.hits) < ExtractPer THEN Len(a.hits) ELSE ExtractPer
        OBVIOUS
      <3>2. n \in Nat /\ n <= Len(a.hits)
        BY <1>2, <3>1, ResearchAssumption
      <3>3. SubSeq(a.hits, 1, n) \in Seq(Urls)
        BY <1>2, <3>2
      <3>4. QED
        BY <3>1, <3>3 DEF Top, UrlSet
    <2>2. PICK pc : pc = IF Len(a.hits) = 0 THEN "over" ELSE "reading"
      OBVIOUS
    <2>3. PICK r : r = [a EXCEPT !.pc = pc, !.items = Top(a.hits)]
      OBVIOUS
    <2>4. r = [pc |-> pc, next |-> a.next, hits |-> a.hits, items |-> Top(a.hits)]
      BY <1>1, <2>3 DEF AskedState
    <2>5. pc \in {"over", "reading"}
      BY <2>2
    <2>6. r \in AskedState /\ r.pc = pc
      BY <1>2, <2>1, <2>4, <2>5 DEF AskedState
    <2>7. /\ a.pc = "searching" /\ asked' = [asked EXCEPT ![q] = r]
          /\ UNCHANGED <<phase, width, evidence, kept>>
          /\ lost' = IF pc = "over" THEN lost \union {q} ELSE lost
      BY <1>5, <2>2, <2>3 DEF SelectTop, Stage, Move
    <2>8. lost \subseteq lost' /\ (pc = "over" => q \in lost')
      BY <2>7
    <2>9. "searching" \in Working
      BY DEF Working
    <2>10. QED
      BY <2>6, <2>7, <2>8, <2>9, OneQueryMoves
  <1>6. CASE ReadPages(q)
    <2>1. PICK pc \in {"merging", "over"} :
            /\ Move(q, [a EXCEPT !.pc = pc])
            /\ lost' = IF pc = "over" THEN lost \union {q} ELSE lost
      BY <1>6 DEF ReadPages
    <2>2. PICK r : r = [a EXCEPT !.pc = pc]
      OBVIOUS
    <2>3. r \in AskedState /\ r.pc = pc
      BY <1>1, <2>1, <2>2 DEF AskedState
    <2>4. /\ a.pc = "reading" /\ asked' = [asked EXCEPT ![q] = r]
          /\ UNCHANGED <<phase, width, evidence, kept>>
      BY <1>6, <2>1, <2>2 DEF ReadPages, Stage, Move
    <2>5. lost \subseteq lost' /\ (pc = "over" => q \in lost')
      BY <2>1
    <2>6. "reading" \in Working
      BY DEF Working
    <2>7. QED
      BY <2>3, <2>4, <2>5, <2>6, OneQueryMoves
  <1>7. CASE QueryTooLate(q)
    <2>1. PICK r : r = [a EXCEPT !.pc = "over", !.items = {}]
      OBVIOUS
    <2>2. r \in AskedState /\ r.pc = "over" /\ r.items = {}
      BY <1>1, <2>1 DEF AskedState
    <2>3. /\ a.pc \notin {"none", "over"} /\ asked' = [asked EXCEPT ![q] = r]
          /\ UNCHANGED <<phase, width, evidence, kept, lost>>
      BY <1>7, <2>1 DEF QueryTooLate, Move
    <2>4. "over" \notin Working
      BY DEF Working
    <2>5. QED
      BY <2>2, <2>3, <2>4, OneQueryMoves
  <1>8. QED
    BY <1>3, <1>4, <1>5, <1>6, <1>7

\* A step of the run that leaves the queries and their evidence alone.
LEMMA PhaseKeepsEvidence ==
  ASSUME ResearchShape, EvidenceInv, UNCHANGED <<width, asked, evidence, lost>>
  PROVE  PlacesKept' /\ EvidenceKnown' /\ EvidenceWhole'
  BY DEF EvidenceInv, PlacesKept, Holding, EvidenceKnown, EvidenceWhole

LEMMA PlanKeepsEvidence ==
  ASSUME ResearchShape, EvidenceInv, PlanQueries
  PROVE  ResearchShape' /\ EvidenceInv'
  <1>1. /\ phase = "plan" /\ \A q \in Queries : asked[q].pc = "none"
        /\ \A u \in Urls : evidence[u] = "none" /\ evidence'[u] = "none"
    BY DEF PlanQueries, ResearchShape
  <1>2. CASE phase' = "failed" /\ UNCHANGED <<width, asked>>
    <2>1. ResearchShape'
      BY <1>1, <1>2 DEF PlanQueries, ResearchShape
    <2>2. KeptWhole'
      BY <1>2 DEF KeptWhole
    <2>3. UNCHANGED <<evidence, lost>>
      BY DEF PlanQueries
    <2>4. QED
      BY <1>2, <2>1, <2>2, <2>3, PhaseKeepsEvidence DEF EvidenceInv
  <1>3. CASE phase' = "search" /\ width' \in Widths /\ \E plan \in Plans :
               asked' = [q \in Queries |-> [NotAsked EXCEPT !.pc = IF q \in plan THEN "waiting" ELSE "none"]]
    <2>1. PICK plan \in Plans :
               asked' = [q \in Queries |-> [NotAsked EXCEPT !.pc = IF q \in plan THEN "waiting" ELSE "none"]]
      BY <1>3
    <2>2. << >> \in Seq(Urls)
      BY EmptySeq
    <2>3. ASSUME NEW q \in Queries
          PROVE  asked'[q] \in AskedState /\ asked'[q].pc \in {"waiting", "none"}
      <3>1. PICK pc \in {"waiting", "none"} : asked'[q] = [NotAsked EXCEPT !.pc = pc]
        BY <2>1
      <3>2. asked'[q] = [pc |-> pc, next |-> 1, hits |-> << >>, items |-> {}]
        BY <3>1 DEF NotAsked
      <3>3. QED
        BY <2>2, <3>2 DEF AskedState
    <2>4. asked' \in [Queries -> AskedState]
      BY <2>1, <2>3
    <2>5. width' \in Nat
      <3>1. FanOut \in 1..32
        BY ResearchAssumption
      <3>2. width' = FanOut \/ width' = 1
        BY <1>3 DEF Widths
      <3>3. QED
        BY <3>1, <3>2
    <2>6. ResearchShape'
      BY <1>3, <2>4, <2>5 DEF PlanQueries, ResearchShape
    <2>7. Holding' = {}
      BY <2>3 DEF Holding
    <2>8. PlacesKept'
      BY <2>5, <2>7, FS_EmptySet DEF PlacesKept
    <2>9. EvidenceKnown'
      BY <1>1 DEF EvidenceKnown
    <2>10. EvidenceWhole'
      BY <2>3 DEF EvidenceWhole
    <2>11. KeptWhole'
      BY <1>3 DEF KeptWhole
    <2>12. QED
      BY <2>6, <2>8, <2>9, <2>10, <2>11 DEF EvidenceInv
  <1>4. QED
    BY <1>2, <1>3 DEF PlanQueries

\* What is cut from the evidence is as much of it as fits.
LEMMA CollectKeepsEvidence ==
  ASSUME ResearchShape, EvidenceInv, CollectEvidence
  PROVE  ResearchShape' /\ EvidenceInv'
  <1>1. PICK S \in SUBSET Found :
          /\ Cardinality(S) = (IF Cardinality(Found) < MaxEvidence THEN Cardinality(Found) ELSE MaxEvidence)
          /\ kept' = S
          /\ phase' = IF S = {} THEN "failed" ELSE "write"
    BY DEF CollectEvidence
  <1>2. /\ phase = "search" /\ \A q \in Queries : asked[q].pc \in {"none", "over"}
        /\ UNCHANGED <<width, asked, evidence, lost>>
    BY DEF CollectEvidence
  <1>3. ResearchShape'
    BY <1>1, <1>2 DEF ResearchShape
  <1>4. PICK F : F = Found
    OBVIOUS
  <1>5. F \in SUBSET Urls /\ Found' = F
    BY <1>2, <1>4 DEF Found
  <1>6. IsFiniteSet(F) /\ Cardinality(F) \in Nat
    BY <1>5, FS_Subset, FS_CardinalityType, ResearchAssumption
  <1>7. S \in SUBSET F
    BY <1>1, <1>4
  <1>8. Cardinality(S) = Cardinality(F) => S = F
    BY <1>6, <1>7, FS_Subset
  <1>9. Cardinality(S) = IF Cardinality(F) < MaxEvidence THEN Cardinality(F) ELSE MaxEvidence
    BY <1>1, <1>4
  <1>10. Cardinality(S) <= MaxEvidence /\ (S = F \/ Cardinality(S) = MaxEvidence)
    BY <1>6, <1>8, <1>9, ResearchAssumption
  <1>11. KeptWhole'
    BY <1>1, <1>5, <1>7, <1>10 DEF KeptWhole
  <1>12. QED
    BY <1>2, <1>3, <1>11, PhaseKeepsEvidence DEF EvidenceInv

LEMMA EvidenceInvStep ==
  ResearchShape /\ EvidenceInv /\ [ResearchNext]_researchVars => ResearchShape' /\ EvidenceInv'
  <1>1. SUFFICES ASSUME ResearchShape, EvidenceInv, [ResearchNext]_researchVars
                 PROVE  ResearchShape' /\ EvidenceInv'
    OBVIOUS
  <1>2. CASE DeepResearch
    <2>1. phase = "idle" /\ phase' \in {"delegated", "failed", "plan"}
          /\ UNCHANGED <<width, asked, evidence, kept, lost>>
      BY <1>2 DEF DeepResearch
    <2>2. ResearchShape'
      BY <1>1, <2>1 DEF ResearchShape
    <2>3. KeptWhole'
      BY <2>1 DEF KeptWhole
    <2>4. QED
      BY <1>1, <2>1, <2>2, <2>3, PhaseKeepsEvidence DEF EvidenceInv
  <1>3. CASE PlanQueries
    BY <1>1, <1>3, PlanKeepsEvidence
  <1>4. CASE CollectEvidence
    BY <1>1, <1>4, CollectKeepsEvidence
  <1>5. CASE Synthesize
    <2>1. phase = "write" /\ phase' \in {"reported", "failed"}
          /\ UNCHANGED <<width, asked, evidence, kept, lost>>
      BY <1>5 DEF Synthesize
    <2>2. ResearchShape'
      BY <1>1, <2>1 DEF ResearchShape
    <2>3. KeptWhole'
      BY <1>1, <2>1 DEF KeptWhole, EvidenceInv, Found
    <2>4. QED
      BY <1>1, <2>1, <2>2, <2>3, PhaseKeepsEvidence DEF EvidenceInv
  <1>6. CASE RunOutOfTime \/ UNCHANGED researchVars
    <2>1. UNCHANGED <<phase, width, asked, evidence, kept, lost>>
      BY <1>6 DEF RunOutOfTime, researchVars
    <2>2. ResearchShape'
      BY <1>1, <2>1 DEF ResearchShape
    <2>3. KeptWhole'
      BY <1>1, <2>1 DEF KeptWhole, EvidenceInv, Found
    <2>4. QED
      BY <1>1, <2>1, <2>2, <2>3, PhaseKeepsEvidence DEF EvidenceInv
  <1>7. ASSUME NEW q \in Queries,
               TakePlace(q) \/ SearchBackend(q) \/ SelectTop(q) \/ ReadPages(q)
                  \/ MergeEvidence(q) \/ QueryTooLate(q)
        PROVE  ResearchShape' /\ EvidenceInv'
    BY <1>1, <1>7, QueryKeepsEvidence, MergeKeepsEvidence
  <1>8. QED
    BY <1>1, <1>2, <1>3, <1>4, <1>5, <1>6, <1>7 DEF ResearchNext

LEMMA EvidenceInvInit == ResearchInit => ResearchShape /\ EvidenceInv
  <1>1. SUFFICES ASSUME ResearchInit PROVE ResearchShape /\ EvidenceInv
    OBVIOUS
  <1>2. NotAsked \in AskedState /\ NotAsked.pc = "none"
    BY EmptySeq DEF NotAsked, AskedState
  <1>3. asked \in [Queries -> AskedState] /\ \A q \in Queries : asked[q].pc = "none"
    BY <1>1, <1>2 DEF ResearchInit
  <1>4. width \in Nat
    BY <1>1, ResearchAssumption DEF ResearchInit
  <1>5. ResearchShape
    BY <1>1, <1>3, <1>4 DEF ResearchInit, ResearchShape
  <1>6. Holding = {}
    BY <1>3 DEF Holding
  <1>7. PlacesKept
    BY <1>4, <1>6, FS_EmptySet DEF PlacesKept
  <1>8. EvidenceKnown /\ EvidenceWhole /\ KeptWhole
    BY <1>1, <1>3 DEF ResearchInit, EvidenceKnown, EvidenceWhole, KeptWhole
  <1>9. QED
    BY <1>5, <1>7, <1>8 DEF EvidenceInv

\* For any queries, backends and limits: whatever the order in which the queries end and
\* whichever fail, the report has all the evidence of those that did not, or as much as
\* fits, and no more of them run at once than there are places (research.go:880-985).
THEOREM EvidenceIsKept == ResearchSpec => []NothingFoundIsLost
  <1>1. ResearchShape /\ EvidenceInv => NothingFoundIsLost
    BY DEF EvidenceInv, PlacesKept, EvidenceKnown, EvidenceWhole, KeptWhole, NothingFoundIsLost, Stage
  <1>2. ResearchSpec => [](ResearchShape /\ EvidenceInv)
    BY EvidenceInvInit, EvidenceInvStep, PTL DEF ResearchSpec
  <1>3. QED
    BY <1>1, <1>2, PTL

\* The bounds of the harness: its places, and the backends a query has left.
ResearchFits ==
    /\ width \in 1..32
    /\ \A q \in Queries : asked[q].next \in 1..Len(Backends) + 1
    /\ kept \subseteq Urls /\ lost \subseteq Queries /\ late \in BOOLEAN

LEMMA NextStays ==
  ASSUME ResearchShape, ResearchFits, NEW q \in Queries, NEW r,
         asked' = [asked EXCEPT ![q] = r], r.next \in 1..Len(Backends) + 1,
         UNCHANGED <<width, kept, late>>, lost' \in {lost, lost \union {q}}
  PROVE  ResearchFits'
  <1>1. \A p \in Queries : asked'[p] = IF p = q THEN r ELSE asked[p]
    BY DEF ResearchShape
  <1>2. lost' \subseteq Queries
    BY DEF ResearchFits
  <1>3. QED
    BY <1>1, <1>2 DEF ResearchFits

LEMMA QueryFits ==
  ASSUME ResearchShape, ResearchFits, NEW q \in Queries,
         TakePlace(q) \/ SearchBackend(q) \/ SelectTop(q) \/ ReadPages(q)
            \/ MergeEvidence(q) \/ QueryTooLate(q)
  PROVE  ResearchFits'
  <1> DEFINE a == asked[q]
  <1>1. a \in AskedState /\ a.next \in 1..Len(Backends) + 1 /\ Len(Backends) \in Nat
    BY ResearchAssumption DEF ResearchShape, ResearchFits
  <1>2. UNCHANGED <<width, kept, late>> /\ lost' \in {lost, lost \union {q}}
    BY DEF TakePlace, SearchBackend, SelectTop, ReadPages, MergeEvidence, QueryTooLate
  <1>3. CASE SearchBackend(q)
    <2>1. PICK s : Move(q, [a EXCEPT !.next = @ + 1, !.hits = @ \o s])
      BY <1>3 DEF SearchBackend
    <2>2. a.next <= Len(Backends)
      BY <1>3 DEF SearchBackend
    <2>3. PICK r : r = [a EXCEPT !.next = @ + 1, !.hits = @ \o s]
      OBVIOUS
    <2>4. r.next = a.next + 1
      BY <1>1, <2>3 DEF AskedState
    <2>5. r.next \in 1..Len(Backends) + 1
      BY <1>1, <2>2, <2>4
    <2>6. QED
      BY <1>2, <2>1, <2>3, <2>5, NextStays DEF Move
  <1>4. CASE ~SearchBackend(q)
    <2>1. \/ asked' = [asked EXCEPT ![q] = [a EXCEPT !.pc = "searching"]]
          \/ asked' = [asked EXCEPT ![q] = [a EXCEPT !.pc = "merging"]]
          \/ asked' = [asked EXCEPT ![q] = [a EXCEPT !.pc = "over"]]
          \/ \E pc, items : asked' = [asked EXCEPT ![q] = [a EXCEPT !.pc = pc, !.items = items]]
      <3>1. CASE TakePlace(q)
        BY <3>1 DEF TakePlace, Move
      <3>2. CASE ReadPages(q)
        BY <3>2 DEF ReadPages, Move
      <3>3. CASE MergeEvidence(q)
        BY <3>3 DEF MergeEvidence, Move
      <3>4. CASE SelectTop(q)
        BY <3>4 DEF SelectTop, Move
      <3>5. CASE QueryTooLate(q)
        BY <3>5 DEF QueryTooLate, Move
      <3>6. QED
        BY <1>4, <3>1, <3>2, <3>3, <3>4, <3>5
    <2>2. PICK r : asked' = [asked EXCEPT ![q] = r] /\ r.next = a.next
      <3>1. \A pc : [a EXCEPT !.pc = pc].next = a.next
        BY <1>1 DEF AskedState
      <3>2. \A pc, items : [a EXCEPT !.pc = pc, !.items = items].next = a.next
        BY <1>1 DEF AskedState
      <3>3. CASE \E pc : asked' = [asked EXCEPT ![q] = [a EXCEPT !.pc = pc]]
        <4>1. PICK pc : asked' = [asked EXCEPT ![q] = [a EXCEPT !.pc = pc]]
          BY <3>3
        <4>2. QED
          BY <3>1, <4>1, Zenon
      <3>4. CASE \E pc, items : asked' = [asked EXCEPT ![q] = [a EXCEPT !.pc = pc, !.items = items]]
        <4>1. PICK pc, items : asked' = [asked EXCEPT ![q] = [a EXCEPT !.pc = pc, !.items = items]]
          BY <3>4
        <4>2. QED
          BY <3>2, <4>1, Zenon
      <3>5. QED
        <4>1. CASE \E pc : asked' = [asked EXCEPT ![q] = [a EXCEPT !.pc = pc]]
          BY <3>3, <4>1
        <4>2. QED
          BY <2>1, <3>4, <4>1, Zenon
    <2>3. QED
      BY <1>1, <1>2, <2>2, NextStays
  <1>5. QED
    BY <1>3, <1>4

LEMMA ResearchFitsStep ==
  ResearchShape /\ ResearchFits /\ [ResearchNext]_researchVars => ResearchFits'
  <1> SUFFICES ASSUME ResearchShape, ResearchFits, [ResearchNext]_researchVars PROVE ResearchFits'
    OBVIOUS
  <1>1. CASE DeepResearch \/ Synthesize \/ RunOutOfTime \/ UNCHANGED researchVars
    BY <1>1 DEF DeepResearch, Synthesize, RunOutOfTime, researchVars, ResearchFits
  <1>2. CASE PlanQueries
    <2>1. width' \in 1..32
      <3>1. width' = width \/ width' = FanOut \/ width' = 1
        BY <1>2 DEF PlanQueries, Widths
      <3>2. width \in 1..32 /\ FanOut \in 1..32
        BY ResearchAssumption DEF ResearchFits
      <3>3. QED
        BY <3>1, <3>2
    <2>2. UNCHANGED <<kept, lost, late>>
      BY <1>2 DEF PlanQueries
    <2>3. Len(Backends) \in Nat
      BY ResearchAssumption
    <2>4. ASSUME NEW q \in Queries PROVE asked'[q].next \in 1..Len(Backends) + 1
      <3>1. CASE asked' = asked
        BY <3>1 DEF ResearchFits
      <3>2. CASE asked' # asked
        <4>1. PICK plan \in Plans :
                asked' = [p \in Queries |-> [NotAsked EXCEPT !.pc = IF p \in plan THEN "waiting" ELSE "none"]]
          BY <1>2, <3>2 DEF PlanQueries
        <4>2. PICK pc : asked'[q] = [NotAsked EXCEPT !.pc = pc]
          BY <4>1
        <4>3. asked'[q].next = 1
          BY <4>2 DEF NotAsked
        <4>4. QED
          BY <2>3, <4>3
      <3>3. QED
        BY <3>1, <3>2
    <2>5. QED
      BY <2>1, <2>2, <2>4 DEF ResearchFits
  <1>3. CASE CollectEvidence
    <2>1. kept' \in SUBSET Found /\ UNCHANGED <<width, asked, lost, late>>
      BY <1>3 DEF CollectEvidence
    <2>2. QED
      BY <2>1 DEF ResearchFits, Found
  <1>4. ASSUME NEW q \in Queries,
               TakePlace(q) \/ SearchBackend(q) \/ SelectTop(q) \/ ReadPages(q)
                  \/ MergeEvidence(q) \/ QueryTooLate(q)
        PROVE  ResearchFits'
    BY <1>4, QueryFits
  <1>5. QED
    BY <1>1, <1>2, <1>3, <1>4 DEF ResearchNext

\* The type invariant of a research: a query never asks beyond the last backend, and the
\* semaphore's width stays one the controller gives (research.go:880-985).
THEOREM ResearchTypeCorrect == ResearchSpec => []ResearchTyped
  <1>1. ResearchInit => ResearchFits
    <2> SUFFICES ASSUME ResearchInit PROVE ResearchFits
      OBVIOUS
    <2>1. Len(Backends) \in Nat /\ FanOut \in 1..32
      BY ResearchAssumption
    <2>2. \A q \in Queries : asked[q].next \in 1..Len(Backends) + 1
      BY <2>1 DEF ResearchInit, NotAsked
    <2>3. width \in 1..32 /\ kept = {} /\ lost = {} /\ late = FALSE
      BY <2>1 DEF ResearchInit
    <2>4. late \in BOOLEAN
      BY <2>3, Zenon
    <2>5. QED
      BY <2>2, <2>3, <2>4 DEF ResearchFits
  <1>2. ResearchShape /\ ResearchFits => ResearchTyped
    BY DEF ResearchShape, ResearchFits, ResearchTyped, AskedState
  <1>3. QED
    BY <1>1, <1>2, EvidenceInvInit, EvidenceInvStep, ResearchFitsStep, PTL DEF ResearchSpec

=============================================================================
