--------------------------- MODULE EvalStoreProps ---------------------------
(***************************************************************************)
(* What the eval store promises, over EvalStore.                           *)
(***************************************************************************)
EXTENDS EvalStore

\* Every variable has its type.
TypeOK ==
    /\ known \in BOOLEAN /\ filed \in BOOLEAN /\ raced \in BOOLEAN
    /\ index \in [arr : Arrays, len : 0..MaxRounds]
    /\ cells \in [Arrays -> Rounds]
    /\ file \in Rounds
    /\ pc \in [Workers -> {"idle", "marshal", "rename"}]
    /\ copy \in [Workers -> [arr : Arrays, len : 0..MaxRounds]]
    /\ buf \in [Workers -> Rounds]
    /\ next \in [Workers -> 1..(MaxRounds + 1)]
    /\ answer \in [Workers -> SUBSET Facts]
    /\ ids \in 0..MaxRounds
    /\ told \in SUBSET Facts
    /\ opened \in SUBSET Slots

\* Cell r is a past of cell s: nothing, or the same round, perhaps before
\* its vote, perhaps before it was unsealed.
Before(r, s) ==
    r = Empty \/ /\ s # Empty
                 /\ r.id = s.id /\ r.a = s.a /\ r.b = s.b
                 /\ r.winner \in {Unvoted, s.winner}
                 /\ s.sealed => r.sealed

Past(rs, ss) == \A i \in Slots : Before(rs[i], ss[i])

\* The file lags behind the index but never contradicts it: whatever order
\* the saves of concurrent requests finish in, it holds no round the index
\* does not have, no other winner and no label the index still hides; so
\* what a restart brings back is a past of what was there.
FileIsAPast ==
    /\ filed => known
    /\ Past(file, Slice(index))

\* What rounds rs say of a fact that a client was told.
Holds(f, rs) ==
    \E i \in Slots :
        /\ rs[i] # Empty
        /\ rs[i].id = f.id
        /\ f.what = "voted" => rs[i].winner = f.winner
        /\ f.what = "open" => ~rs[i].sealed

\* An answer outlives the process: a round, vote or reveal that a client
\* was told of is in the file.
AnswersAreDurable == \A f \in told : Holds(f, file)

\* Answers are durable across crashes and failed saves as long as no two
\* saves ever overlapped.
LoneAnswersAreDurable == ~raced => AnswersAreDurable

\* Both labels of a round can be seen in the index, through Blind or the
\* scores, only after some Reveal, whichever way the round came in, through
\* races and restarts.
BlindUntilRevealed ==
    \A i \in Slots :
        LET r == Slice(index)[i]
            shown == Blind(Slice(index))[i]
        IN  (/\ r # Empty
             /\ r.a # NoLabel /\ r.b # NoLabel
             /\ \/ shown.a # NoLabel \/ shown.b # NoLabel
                \/ i \in Tallied(Slice(index)))
                => r.id \in opened
=============================================================================
