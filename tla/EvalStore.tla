------------------------------ MODULE EvalStore ------------------------------
(***************************************************************************)
(* internal/eval: the store of blind A/B comparisons, seen through its     *)
(* HTTP handlers.  One eval: its entry of the in-memory index and its      *)
(* file.  Every operation changes memory under Store.mu, lets go of it,    *)
(* and then saves its copy of the Eval value: marshal, temp file, rename.  *)
(*                                                                         *)
(* The copy is shallow: its Rounds share a backing array with the index    *)
(* until an append moves the index to a new one, so a save may write votes *)
(* that were cast after its copy was taken.  Arrays are told apart here.   *)
(*                                                                         *)
(* A worker is a request's goroutine.  A round is a slot of the array; its *)
(* id is never used again, as newID's are not.  Prompts, outputs and times *)
(* are left out: nothing branches on them once a request is accepted.      *)
(***************************************************************************)
EXTENDS Naturals

CONSTANTS
    Workers,    \* requests being served at the same time
    Models,     \* model labels
    NoLabel,    \* the empty label
    Pairs,      \* the pairs of labels that requests carry
    Votes,      \* the winners a vote may name: "a", "b", "tie"
    Unvoted,    \* no winner yet
    MaxRounds,  \* bound: rounds ever added to the eval
    MaxMoves    \* bound: moves to a larger array between two restarts

ASSUME EvalAssumption ==
    /\ NoLabel \notin Models
    /\ Pairs \subseteq (Models \cup {NoLabel}) \X (Models \cup {NoLabel})
    /\ Unvoted \notin Votes
    /\ MaxRounds \in Nat /\ MaxMoves \in Nat

VARIABLES
    known,      \* the index has the eval
    index,      \* its Rounds in the index: [arr |-> array, len |-> length]
    cells,      \* the rounds in every backing array
    filed,      \* the eval has a file
    file,       \* the rounds in the file
    pc,         \* what each worker does next
    copy,       \* the Rounds slice each worker saves
    buf,        \* what each worker has marshalled so far
    next,       \* the next slot each worker marshals
    answer,     \* what each worker tells its client once it has saved
    ids,        \* rounds added so far, ever
    told,       \* history: what clients were told had been done
    opened,     \* history: the rounds some Reveal unsealed
    raced       \* history: two saves have overlapped

workers == <<pc, copy, buf, next, answer>>
vars == <<known, index, cells, filed, file, workers, ids, told, opened, raced>>

----------------------------------------------------------------------------
Labels == Models \cup {NoLabel}
Slots == 1..MaxRounds
Arrays == 0..MaxMoves

Round == [id : Slots, a : Labels, b : Labels, sealed : BOOLEAN,
          winner : Votes \cup {Unvoted}]
Empty == [id |-> 0]                    \* beyond the end of a slice
Rounds == [Slots -> Round \cup {Empty}]
NoRounds == [s \in Slots |-> Empty]
NoSlice == [arr |-> 0, len |-> 0]

\* What a client is told: a round is in, its winner is w, it is unsealed.
Facts == [what : {"added", "open"}, winner : {Unvoted}, id : Slots]
            \cup [what : {"voted"}, winner : Votes, id : Slots]
Fact(what, S) == [what : {what}, winner : {Unvoted}, id : S]
Voted(winner, S) == [what : {"voted"}, winner : {winner}, id : S]

\* A slice's rounds, as they are in its backing array now.
Slice(s) == [i \in Slots |-> IF i <= s.len THEN cells[s.arr][i] ELSE Empty]

Saving == {w \in Workers : pc[w] # "idle"}

----------------------------------------------------------------------------
Init ==
    /\ known = FALSE /\ filed = FALSE
    /\ index = NoSlice
    /\ cells = [r \in Arrays |-> NoRounds]
    /\ file = NoRounds
    /\ pc = [w \in Workers |-> "idle"]
    /\ copy = [w \in Workers |-> NoSlice]
    /\ buf = [w \in Workers |-> NoRounds]
    /\ next = [w \in Workers |-> 1]
    /\ answer = [w \in Workers |-> {}]
    /\ ids = 0
    /\ told = {} /\ opened = {}
    /\ raced = FALSE

----------------------------------------------------------------------------
(* What clients see.                                                       *)

\* Blind, and blindRound: sealed labels are stripped.
Blind(rs) ==
    [i \in Slots |-> IF rs[i] # Empty /\ rs[i].sealed
                     THEN [rs[i] EXCEPT !.a = NoLabel, !.b = NoLabel]
                     ELSE rs[i]]

\* ScoreOf and btMatchesOf: the rounds whose labels are in the tally by
\* model, or in the ratings.
Tallied(rs) ==
    {i \in Slots : /\ rs[i] # Empty
                   /\ rs[i].winner # Unvoted
                   /\ ~rs[i].sealed
                   /\ rs[i].a # NoLabel \/ rs[i].b # NoLabel}

----------------------------------------------------------------------------
(* Changes of the index, under mu                                          *)

\* Worker w leaves the mutex with Rounds s of its own to save.
Unlock(w, s, facts) ==
    /\ pc' = [pc EXCEPT ![w] = "marshal"]
    /\ copy' = [copy EXCEPT ![w] = s]
    /\ buf' = [buf EXCEPT ![w] = NoRounds]
    /\ next' = [next EXCEPT ![w] = 1]
    /\ answer' = [answer EXCEPT ![w] = facts]
    /\ raced' = (raced \/ Saving # {})

\* Create: the eval is in the index, hence listed, before it has a file.
Create(w) ==
    /\ pc[w] = "idle" /\ ~known
    /\ known' = TRUE
    /\ index' = NoSlice
    /\ Unlock(w, NoSlice, {})
    /\ UNCHANGED <<cells, filed, file, ids, told, opened>>

\* Mutant: rounds that come with a winner are not sealed.
NewRoundOpen(id, a, b, winner) ==
    [id |-> id, a |-> a, b |-> b, winner |-> winner,
     sealed |-> winner = Unvoted /\ a # NoLabel /\ b # NoLabel]

\* The round that a request with labels a and b, and a winner, becomes.
NewRound(id, a, b, winner) ==
    [id |-> id, a |-> a, b |-> b, winner |-> winner,
     sealed |-> a # NoLabel /\ b # NoLabel]

\* append: in place while the array has room, otherwise to a new array.
AppendRounds(rs, n) ==
    /\ index.len + n <= MaxRounds /\ ids + n <= MaxRounds
    /\ \E arr \in {index.arr, index.arr + 1} \cap Arrays :
          /\ index' = [arr |-> arr, len |-> index.len + n]
          /\ cells' = [cells EXCEPT ![arr] =
                [i \in Slots |->
                    IF i <= index.len THEN cells[index.arr][i]
                    ELSE IF i <= index.len + n THEN rs[i - index.len]
                    ELSE Empty]]
    /\ ids' = ids + n

\* Mutant: the value saved is the one from before the append.
AddRoundStale(w, a, b) ==
    /\ pc[w] = "idle" /\ known
    /\ AppendRounds(<<NewRound(ids + 1, a, b, Unvoted)>>, 1)
    /\ Unlock(w, index, Fact("added", {ids'}))
    /\ UNCHANGED <<known, filed, file, told, opened>>

\* AddRound, called by EvalAddRound.
AddRound(w, a, b) ==
    /\ pc[w] = "idle" /\ known
    /\ AppendRounds(<<NewRound(ids + 1, a, b, Unvoted)>>, 1)
    /\ Unlock(w, index', Fact("added", {ids'}))
    /\ UNCHANGED <<known, filed, file, told, opened>>

\* Import, called by EvalImport: a batch of records, one of them voted.
Import(w, a, b, winner) ==
    /\ pc[w] = "idle" /\ known
    /\ AppendRounds(<<NewRound(ids + 1, a, b, winner),
                      NewRound(ids + 2, b, a, Unvoted)>>, 2)
    /\ Unlock(w, index',
              Fact("added", {ids + 1, ids + 2}) \cup Voted(winner, {ids + 1}))
    /\ UNCHANGED <<known, filed, file, told, opened>>

\* Mutant: the winner is looked at before the mutex is taken.
MayVoteTwice(i) == i <= index.len

\* A round is voted once.
MayVote(i) == i <= index.len /\ cells[index.arr][i].winner = Unvoted

\* RecordVote, called by EvalVote, on the round in slot i.
RecordVote(w, i, winner) ==
    /\ pc[w] = "idle" /\ known
    /\ MayVote(i)
    /\ cells' = [cells EXCEPT ![index.arr][i].winner = winner]
    /\ Unlock(w, index, Voted(winner, {cells[index.arr][i].id}))
    /\ UNCHANGED <<known, index, filed, file, ids, told, opened>>

\* Reveal, called by EvalReveal.
Reveal(w) ==
    /\ pc[w] = "idle" /\ known
    /\ cells' = [cells EXCEPT ![index.arr] =
          [i \in Slots |-> IF i <= index.len
                           THEN [@[i] EXCEPT !.sealed = FALSE] ELSE @[i]]]
    /\ LET all == {cells[index.arr][i].id : i \in 1..index.len}
       IN  opened' = opened \cup all /\ Unlock(w, index, Fact("open", all))
    /\ UNCHANGED <<known, index, filed, file, ids, told>>

----------------------------------------------------------------------------
(* save                                                                    *)

\* json.MarshalIndent reads the rounds one after the other, without mu.
Marshal(w) ==
    /\ pc[w] = "marshal"
    /\ IF next[w] <= copy[w].len
       THEN /\ buf' = [buf EXCEPT ![w][next[w]] = Slice(copy[w])[next[w]]]
            /\ next' = [next EXCEPT ![w] = @ + 1]
            /\ UNCHANGED pc
       ELSE /\ pc' = [pc EXCEPT ![w] = "rename"]
            /\ UNCHANGED <<buf, next>>
    /\ UNCHANGED <<known, index, cells, filed, file, copy, answer, ids, told,
                   opened, raced>>

\* Worker w is done: its state is of no further use.
Done(w) ==
    /\ pc' = [pc EXCEPT ![w] = "idle"]
    /\ copy' = [copy EXCEPT ![w] = NoSlice]
    /\ buf' = [buf EXCEPT ![w] = NoRounds]
    /\ next' = [next EXCEPT ![w] = 1]
    /\ answer' = [answer EXCEPT ![w] = {}]

\* The temp file, written and closed, becomes the eval's file.
Rename(w) ==
    /\ pc[w] = "rename"
    /\ filed' = TRUE
    /\ file' = buf[w]
    /\ told' = told \cup answer[w]
    /\ Done(w)
    /\ UNCHANGED <<known, index, cells, ids, opened, raced>>

\* A step of save fails: the client is told so, memory stays as it is.
SaveFails(w) ==
    /\ pc[w] = "rename"
    /\ Done(w)
    /\ UNCHANGED <<known, index, cells, filed, file, ids, told, opened, raced>>

\* The number of rounds in a file.
Count(rs) ==
    CHOOSE n \in 0..MaxRounds : \A i \in Slots : i <= n <=> rs[i] # Empty

\* Mutant: one round too many is made room for.
LengthPadded(rs) == Count(rs) + 1

Length(rs) == Count(rs)

\* The process dies and is started again: NewStore reads the file.
Restart ==
    /\ known \/ filed
    /\ known' = filed
    /\ index' = [arr |-> 0, len |-> Length(file)]
    /\ cells' = [r \in Arrays |-> IF r = 0 THEN file ELSE NoRounds]
    /\ pc' = [w \in Workers |-> "idle"]
    /\ copy' = [w \in Workers |-> NoSlice]
    /\ buf' = [w \in Workers |-> NoRounds]
    /\ next' = [w \in Workers |-> 1]
    /\ answer' = [w \in Workers |-> {}]
    /\ UNCHANGED <<filed, file, ids, told, opened, raced>>

----------------------------------------------------------------------------
Work(w) ==
    \/ Create(w) \/ Reveal(w) \/ Marshal(w) \/ Rename(w) \/ SaveFails(w)
    \/ \E p \in Pairs : AddRound(w, p[1], p[2])
    \/ \E p \in Pairs, winner \in Votes : Import(w, p[1], p[2], winner)
    \/ \E i \in Slots, winner \in Votes : RecordVote(w, i, winner)

Next == Restart \/ \E w \in Workers : Work(w)

Spec == Init /\ [][Next]_vars

=============================================================================
