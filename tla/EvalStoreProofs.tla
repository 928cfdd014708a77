--------------------------- MODULE EvalStoreProofs ---------------------------
(***************************************************************************)
(* Theorems about EvalStore, for any number of concurrent requests, any    *)
(* labels and any number of rounds and moves of the array.                 *)
(***************************************************************************)
EXTENDS EvalStoreProps, TLAPS

(* A slice has a round in each of its slots. *)
Full(s) == \A i \in 1..s.len : cells[s.arr][i] # Empty

(* What makes TypeOK inductive: slices are full, buffers and the file hold *)
(* as many rounds as were marshalled, no copy is ahead of the index.       *)
Shape ==
    /\ TypeOK
    /\ filed => known
    /\ ~filed => file = NoRounds
    /\ ~known => index = NoSlice /\ \A w \in Workers : pc[w] = "idle"
    /\ Full(index)
    /\ \A w \in Workers : /\ Full(copy[w])
                          /\ copy[w].arr <= index.arr
                          /\ copy[w].len <= index.len
                          /\ next[w] <= copy[w].len + 1
    /\ \A w \in Workers, i \in Slots : i < next[w] <=> buf[w][i] # Empty
    /\ \E n \in 0..MaxRounds : \A i \in Slots : i <= n <=> file[i] # Empty

(* Both labels of a round of the index are hidden until it is unsealed.     *)
Hidden ==
    \A i \in 1..index.len :
        LET r == cells[index.arr][i]
        IN  (r.a # NoLabel /\ r.b # NoLabel /\ ~r.sealed) => r.id \in opened

(* What the four operations that change the index under mu have in common. *)
Grows(w) ==
    /\ known /\ known'
    /\ \E facts \in SUBSET Facts :
          Unlock(w, index', facts) /\ \A f \in facts : Holds(f, Slice(index)')
    /\ UNCHANGED <<filed, file, told>>
    /\ Hidden => Hidden'
    /\ index' \in [arr : Arrays, len : 0..MaxRounds]
    /\ cells' \in [Arrays -> Rounds]
    /\ ids' \in 0..MaxRounds
    /\ opened' \in SUBSET Slots
    /\ index.arr <= index'.arr /\ index.len <= index'.len
    /\ \A i \in 1..index'.len : cells'[index'.arr][i] # Empty
    /\ \A i \in 1..index.len :
          Before(cells[index.arr][i], cells'[index'.arr][i])
    /\ \A r \in 0..index.arr, i \in 1..index.len :
          /\ cells[r][i] # Empty => cells'[r][i] # Empty
          /\ Before(cells[r][i], cells[index.arr][i])
                => Before(cells'[r][i], cells'[index'.arr][i])

(* An append leaves every slice there was as it was, and fills its own.    *)
LEMMA AppendKeeps ==
    ASSUME Shape, NEW n \in {1, 2}, NEW rs,
           \A k \in 1..n : rs[k] \in Round,
           AppendRounds(rs, n)
    PROVE  /\ index' \in [arr : Arrays, len : 0..MaxRounds]
           /\ cells' \in [Arrays -> Rounds]
           /\ ids' \in 0..MaxRounds
           /\ index.arr <= index'.arr /\ index'.len = index.len + n
           /\ \A i \in 1..index'.len : cells'[index'.arr][i] # Empty
           /\ \A i \in 1..index.len :
                 cells'[index'.arr][i] = cells[index.arr][i]
           /\ \A r \in 0..index.arr, i \in 1..index.len :
                 cells'[r][i] = cells[r][i]
           /\ \A k \in 1..n : cells'[index'.arr][index.len + k] = rs[k]
  <1> USE EvalAssumption DEF Shape, TypeOK, Arrays, Slots, Rounds
  <1>1. PICK arr \in {index.arr, index.arr + 1} \cap Arrays :
          /\ index' = [arr |-> arr, len |-> index.len + n]
          /\ cells' = [cells EXCEPT ![arr] =
                [i \in Slots |->
                    IF i <= index.len THEN cells[index.arr][i]
                    ELSE IF i <= index.len + n THEN rs[i - index.len]
                    ELSE Empty]]
    BY DEF AppendRounds
  <1>2. /\ index.len + n <= MaxRounds
        /\ ids' = ids + n /\ ids + n <= MaxRounds
    BY DEF AppendRounds
  <1>3. \A i \in Slots :
          cells'[arr][i] = IF i <= index.len THEN cells[index.arr][i]
                           ELSE IF i <= index.len + n THEN rs[i - index.len]
                           ELSE Empty
    BY <1>1
  <1>4. \A i \in Slots : (index.len < i /\ i <= index.len + n)
                            => rs[i - index.len] \in Round
    <2> TAKE i \in Slots
    <2> HAVE index.len < i /\ i <= index.len + n
    <2>1. i - index.len \in 1..n
      OBVIOUS
    <2>2. QED
      BY <2>1
  <1>5. \A r \in Round : r # Empty
    BY DEF Round, Empty
  <1>6. cells' \in [Arrays -> Rounds]
    <2>1. [i \in Slots |->
              IF i <= index.len THEN cells[index.arr][i]
              ELSE IF i <= index.len + n THEN rs[i - index.len]
              ELSE Empty] \in Rounds
      BY <1>4
    <2>2. QED
      BY <1>1, <2>1
  <1>7. \A i \in 1..index'.len : cells'[index'.arr][i] # Empty
    BY <1>1, <1>2, <1>3, <1>4, <1>5 DEF Full
  <1>8. \A i \in 1..index.len : cells'[index'.arr][i] = cells[index.arr][i]
    BY <1>1, <1>2, <1>3
  <1>9. \A r \in 0..index.arr, i \in 1..index.len :
          cells'[r][i] = cells[r][i]
    BY <1>1, <1>2, <1>3
  <1>10. ids' \in 0..MaxRounds
    BY <1>2
  <1>11. index' \in [arr : Arrays, len : 0..MaxRounds]
    BY <1>1, <1>2
  <1>12. index.arr <= index'.arr /\ index'.len = index.len + n
    BY <1>1
  <1>13. \A k \in 1..n : cells'[index'.arr][index.len + k] = rs[k]
    <2> TAKE k \in 1..n
    <2>1. /\ index.len + k \in Slots /\ ~(index.len + k <= index.len)
          /\ index.len + k <= index.len + n /\ index.len + k - index.len = k
      BY <1>2
    <2>2. QED
      BY <1>1, <1>3, <2>1
  <1>14. QED
    BY <1>6, <1>7, <1>8, <1>9, <1>10, <1>11, <1>12, <1>13

(* A round of the index bears out what is said of it. *)
LEMMA IndexHolds ==
    ASSUME NEW f, NEW i \in 1..index'.len, index'.len <= MaxRounds,
           index'.len \in Nat, EvalAssumption,
           cells'[index'.arr][i] # Empty,
           cells'[index'.arr][i].id = f.id,
           f.what = "voted" => cells'[index'.arr][i].winner = f.winner,
           f.what = "open" => ~cells'[index'.arr][i].sealed
    PROVE  Holds(f, Slice(index)')
  <1>1. i \in Slots /\ Slice(index)'[i] = cells'[index'.arr][i]
    BY DEF Slots, Slice
  <1>2. QED
    BY <1>1 DEF Holds

LEMMA BeforeItself == \A r : Before(r, r)
  BY DEF Before

LEMMA BeforeTransitive ==
    ASSUME NEW r, NEW s, NEW t, Before(r, s), Before(s, t)
    PROVE  Before(r, t)
  BY DEF Before

LEMMA UnchangedCellsKeepOrder ==
    ASSUME Shape,
           \A i \in 1..index.len :
               cells'[index'.arr][i] = cells[index.arr][i],
           \A r \in 0..index.arr, i \in 1..index.len :
               cells'[r][i] = cells[r][i]
    PROVE  /\ \A i \in 1..index.len :
                 Before(cells[index.arr][i], cells'[index'.arr][i])
           /\ \A r \in 0..index.arr, i \in 1..index.len :
                 /\ cells[r][i] # Empty => cells'[r][i] # Empty
                 /\ Before(cells[r][i], cells[index.arr][i])
                       => Before(cells'[r][i], cells'[index'.arr][i])
  BY BeforeItself

LEMMA NewRoundIsSealed ==
    ASSUME NEW id \in Slots, NEW p \in Pairs, NEW winner \in Votes \cup {Unvoted}
    PROVE  LET r == NewRound(id, p[1], p[2], winner)
               s == NewRound(id, p[2], p[1], winner)
           IN  /\ r \in Round /\ r.id = id /\ r.winner = winner
               /\ (r.a # NoLabel /\ r.b # NoLabel) => r.sealed
               /\ s \in Round /\ s.id = id /\ s.winner = winner
               /\ (s.a # NoLabel /\ s.b # NoLabel) => s.sealed
  BY EvalAssumption DEF NewRound, Round, Labels

LEMMA AddGrows ==
    ASSUME Shape, NEW w \in Workers, NEW p \in Pairs, AddRound(w, p[1], p[2])
    PROVE  Grows(w)
  <1> DEFINE rs == <<NewRound(ids + 1, p[1], p[2], Unvoted)>>
             said == Fact("added", {ids'})
  <1>1. AppendRounds(rs, 1) /\ ids + 1 \in Slots /\ ids' = ids + 1
    <2>1. AppendRounds(rs, 1)
      BY DEF AddRound
    <2> HIDE DEF rs
    <2>2. ids + 1 <= MaxRounds /\ ids' = ids + 1
      BY <2>1 DEF AppendRounds
    <2>3. QED
      BY <2>1, <2>2, EvalAssumption DEF Shape, TypeOK, Slots
  <1>2. /\ \A k \in 1..1 : rs[k] \in Round
        /\ rs[1].id = ids + 1
        /\ (rs[1].a # NoLabel /\ rs[1].b # NoLabel) => rs[1].sealed
    BY <1>1, NewRoundIsSealed
  <1>3. said \in SUBSET Facts /\ \A f \in said : f.id = ids + 1 /\ f.what = "added"
    BY <1>1 DEF Fact, Facts
  <1>4. /\ known /\ known' /\ UNCHANGED <<filed, file, told, opened>>
        /\ Unlock(w, index', said)
    BY DEF AddRound
  <1> HIDE DEF rs, said
  <1>5. /\ index' \in [arr : Arrays, len : 0..MaxRounds]
        /\ cells' \in [Arrays -> Rounds]
        /\ ids' \in 0..MaxRounds
        /\ index.arr <= index'.arr /\ index'.len = index.len + 1
        /\ \A i \in 1..index'.len : cells'[index'.arr][i] # Empty
        /\ \A i \in 1..index.len :
              cells'[index'.arr][i] = cells[index.arr][i]
        /\ \A r \in 0..index.arr, i \in 1..index.len :
              cells'[r][i] = cells[r][i]
        /\ \A k \in 1..1 : cells'[index'.arr][index.len + k] = rs[k]
    BY <1>1, <1>2, AppendKeeps
  <1>6. index.len <= index'.len /\ opened' \in SUBSET Slots
    BY <1>4, <1>5 DEF Shape, TypeOK
  <1>7. \A f \in said : Holds(f, Slice(index)')
    <2> TAKE f \in said
    <2>1. /\ index.len + 1 \in 1..index'.len
          /\ index'.len <= MaxRounds /\ index'.len \in Nat
      BY <1>5, EvalAssumption DEF Shape, TypeOK
    <2>2. cells'[index'.arr][index.len + 1].id = f.id
      BY <1>2, <1>3, <1>5
    <2>3. QED
      BY <1>3, <1>5, <2>1, <2>2, IndexHolds, EvalAssumption
  <1>8. Hidden => Hidden'
    <2> SUFFICES ASSUME Hidden, NEW i \in 1..index'.len
                 PROVE  LET r == cells'[index'.arr][i]
                        IN  (r.a # NoLabel /\ r.b # NoLabel /\ ~r.sealed)
                                => r.id \in opened'
      BY DEF Hidden
    <2>1. CASE i \in 1..index.len
      BY <1>4, <1>5, <2>1 DEF Hidden
    <2>2. CASE i = index.len + 1
      <3>1. cells'[index'.arr][i] = rs[1]
        BY <1>5, <2>2
      <3>2. QED
        BY <1>2, <3>1
    <2>3. QED
      BY <1>5, <2>1, <2>2 DEF Shape, TypeOK
  <1>9. QED
    BY <1>3, <1>4, <1>5, <1>6, <1>7, <1>8, UnchangedCellsKeepOrder DEF Grows

LEMMA ImportGrows ==
    ASSUME Shape, NEW w \in Workers, NEW p \in Pairs, NEW winner \in Votes,
           Import(w, p[1], p[2], winner)
    PROVE  Grows(w)
  <1> DEFINE rs == <<NewRound(ids + 1, p[1], p[2], winner),
                     NewRound(ids + 2, p[2], p[1], Unvoted)>>
             said == Fact("added", {ids + 1, ids + 2})
                         \cup Voted(winner, {ids + 1})
  <1>1. AppendRounds(rs, 2) /\ ids + 1 \in Slots /\ ids + 2 \in Slots
    <2>1. AppendRounds(rs, 2)
      BY DEF Import
    <2> HIDE DEF rs
    <2>2. ids + 2 <= MaxRounds
      BY <2>1 DEF AppendRounds
    <2>3. QED
      BY <2>1, <2>2, EvalAssumption DEF Shape, TypeOK, Slots
  <1>2. /\ rs[1] \in Round /\ rs[2] \in Round
        /\ rs[1].id = ids + 1 /\ rs[2].id = ids + 2 /\ rs[1].winner = winner
        /\ (rs[1].a # NoLabel /\ rs[1].b # NoLabel) => rs[1].sealed
        /\ (rs[2].a # NoLabel /\ rs[2].b # NoLabel) => rs[2].sealed
    BY <1>1, NewRoundIsSealed
  <1>3. /\ said \in SUBSET Facts
        /\ \A f \in said :
              \/ f.what = "added" /\ f.id \in {ids + 1, ids + 2}
              \/ f.what = "voted" /\ f.id = ids + 1 /\ f.winner = winner
    BY <1>1 DEF Fact, Facts, Voted
  <1>4. /\ known /\ known' /\ UNCHANGED <<filed, file, told, opened>>
        /\ Unlock(w, index', said)
    BY DEF Import
  <1> HIDE DEF rs, said
  <1>10. \A k \in 1..2 : rs[k] \in Round
    BY <1>2
  <1>5. /\ index' \in [arr : Arrays, len : 0..MaxRounds]
        /\ cells' \in [Arrays -> Rounds]
        /\ ids' \in 0..MaxRounds
        /\ index.arr <= index'.arr /\ index'.len = index.len + 2
        /\ \A i \in 1..index'.len : cells'[index'.arr][i] # Empty
        /\ \A i \in 1..index.len :
              cells'[index'.arr][i] = cells[index.arr][i]
        /\ \A r \in 0..index.arr, i \in 1..index.len :
              cells'[r][i] = cells[r][i]
        /\ \A k \in 1..2 : cells'[index'.arr][index.len + k] = rs[k]
    BY <1>1, <1>10, AppendKeeps
  <1>6. index.len <= index'.len /\ opened' \in SUBSET Slots
    BY <1>4, <1>5 DEF Shape, TypeOK
  <1>7. \A f \in said : Holds(f, Slice(index)')
    <2> TAKE f \in said
    <2>1. /\ index.len + 1 \in 1..index'.len /\ index.len + 2 \in 1..index'.len
          /\ index'.len <= MaxRounds /\ index'.len \in Nat
      BY <1>5, EvalAssumption DEF Shape, TypeOK
    <2>2. /\ cells'[index'.arr][index.len + 1] = rs[1]
          /\ cells'[index'.arr][index.len + 2] = rs[2]
      BY <1>5
    <2>3. CASE f.what = "added" /\ f.id = ids + 2
      BY <1>2, <1>5, <2>1, <2>2, <2>3, IndexHolds, EvalAssumption
    <2>4. CASE f.id = ids + 1 /\ f.what # "open"
                  /\ (f.what = "voted" => f.winner = winner)
      BY <1>2, <1>5, <2>1, <2>2, <2>4, IndexHolds, EvalAssumption
    <2>5. QED
      BY <1>3, <2>3, <2>4
  <1>8. Hidden => Hidden'
    <2> SUFFICES ASSUME Hidden, NEW i \in 1..index'.len
                 PROVE  LET r == cells'[index'.arr][i]
                        IN  (r.a # NoLabel /\ r.b # NoLabel /\ ~r.sealed)
                                => r.id \in opened'
      BY DEF Hidden
    <2>1. CASE i \in 1..index.len
      BY <1>4, <1>5, <2>1 DEF Hidden
    <2>2. CASE i \in {index.len + 1, index.len + 2}
      <3>1. cells'[index'.arr][i] \in {rs[1], rs[2]}
        BY <1>5, <2>2
      <3>2. QED
        BY <1>2, <3>1
    <2>3. index.len \in Nat /\ index'.len = index.len + 2
      BY <1>5, EvalAssumption DEF Shape, TypeOK
    <2>4. i \in 1..index.len \/ i \in {index.len + 1, index.len + 2}
      BY <2>3
    <2>5. QED
      BY <2>1, <2>2, <2>4
  <1>9. QED
    BY <1>3, <1>4, <1>5, <1>6, <1>7, <1>8, UnchangedCellsKeepOrder DEF Grows

LEMMA VoteGrows ==
    ASSUME Shape, NEW w \in Workers, NEW i \in Slots, NEW winner \in Votes,
           RecordVote(w, i, winner)
    PROVE  Grows(w)
  <1> USE EvalAssumption DEF Shape, TypeOK, Arrays, Slots, Rounds
  <1>1. /\ i <= index.len
        /\ cells[index.arr][i].winner = Unvoted
        /\ cells[index.arr][i] \in Round
    BY DEF RecordVote, MayVote, Full
  <1> DEFINE voted == [cells[index.arr][i] EXCEPT !.winner = winner]
  <1>2. /\ voted \in Round /\ voted # Empty
        /\ Before(cells[index.arr][i], voted)
    BY <1>1 DEF Round, Before, Empty
  <1>3. cells' = [cells EXCEPT ![index.arr] =
                     [cells[index.arr] EXCEPT ![i] = voted]]
    BY DEF RecordVote
  <1> HIDE DEF voted
  <1>4. /\ cells' \in [Arrays -> Rounds]
        /\ \A r \in Arrays, j \in Slots :
              cells'[r][j] = IF r = index.arr /\ j = i THEN voted
                             ELSE cells[r][j]
    BY <1>2, <1>3
  <1>5. /\ known /\ known' /\ index' = index /\ opened' = opened
        /\ ids' = ids /\ UNCHANGED <<filed, file, told>>
        /\ Unlock(w, index', Voted(winner, {cells[index.arr][i].id}))
    BY DEF RecordVote
  <1>6. Voted(winner, {cells[index.arr][i].id}) \in SUBSET Facts
    BY <1>1 DEF Voted, Facts, Round
  <1>7. \A j \in 1..index'.len : cells'[index'.arr][j] # Empty
    BY <1>2, <1>4, <1>5 DEF Full
  <1>8. \A j \in 1..index.len :
           Before(cells[index.arr][j], cells'[index'.arr][j])
    BY <1>2, <1>4, <1>5, BeforeItself
  <1>9. ASSUME NEW r \in 0..index.arr, NEW j \in 1..index.len
        PROVE  /\ cells[r][j] # Empty => cells'[r][j] # Empty
               /\ Before(cells[r][j], cells[index.arr][j])
                     => Before(cells'[r][j], cells'[index'.arr][j])
    <2>1. CASE r = index.arr
      BY <2>1, <1>2, <1>4, <1>5, BeforeItself
    <2>2. CASE r # index.arr
      <3>1. cells'[r][j] = cells[r][j]
        BY <2>2, <1>4
      <3>2. QED
        BY <3>1, <1>8, BeforeTransitive
    <2>3. QED
      BY <2>1, <2>2
  <1>10. /\ index' \in [arr : Arrays, len : 0..MaxRounds]
         /\ ids' \in 0..MaxRounds /\ opened' \in SUBSET Slots
         /\ index.arr <= index'.arr /\ index.len <= index'.len
    BY <1>5
  <1> DEFINE said == Voted(winner, {cells[index.arr][i].id})
  <1>11. \A f \in said : Holds(f, Slice(index)')
    <2> TAKE f \in said
    <2>1. /\ f.id = voted.id /\ f.what = "voted" /\ f.winner = winner
          /\ voted.winner = winner
      BY <1>1 DEF Voted, Round, voted
    <2>2. cells'[index'.arr][i] = voted /\ i \in 1..index'.len
      BY <1>1, <1>4, <1>5
    <2>3. index'.len <= MaxRounds /\ index'.len \in Nat
      BY <1>5
    <2>4. QED
      BY <1>2, <2>1, <2>2, <2>3, IndexHolds, EvalAssumption
  <1>12. Hidden => Hidden'
    <2>1. /\ voted.a = cells[index.arr][i].a /\ voted.b = cells[index.arr][i].b
          /\ voted.sealed = cells[index.arr][i].sealed
          /\ voted.id = cells[index.arr][i].id
      BY <1>1 DEF Round, voted
    <2>2. QED
      BY <1>1, <1>4, <1>5, <2>1 DEF Hidden
  <1> HIDE DEF said
  <1> HIDE DEF Shape, TypeOK, Arrays, Slots, Rounds
  <1>13. QED
    BY <1>4, <1>5, <1>6, <1>7, <1>8, <1>9, <1>10, <1>11, <1>12 DEF Grows, said

LEMMA RevealGrows ==
    ASSUME Shape, NEW w \in Workers, Reveal(w)
    PROVE  Grows(w)
  <1> USE EvalAssumption DEF Shape, TypeOK, Arrays, Slots, Rounds
  <1> DEFINE all == {cells[index.arr][i].id : i \in 1..index.len}
             open(r) == [r EXCEPT !.sealed = FALSE]
  <1>1. \A i \in 1..index.len : cells[index.arr][i] \in Round
    BY DEF Full
  <1>2. \A r \in Round : /\ open(r) \in Round /\ open(r) # Empty
                         /\ Before(r, open(r))
                         /\ open(r).id = r.id /\ ~open(r).sealed
    BY DEF Round, Before, Empty
  <1>3. cells' = [cells EXCEPT ![index.arr] =
                     [i \in Slots |-> IF i <= index.len
                                      THEN open(cells[index.arr][i])
                                      ELSE cells[index.arr][i]]]
    BY DEF Reveal
  <1> HIDE DEF open
  <1>4. /\ cells' \in [Arrays -> Rounds]
        /\ \A r \in Arrays, j \in Slots :
              cells'[r][j] = IF r = index.arr /\ j <= index.len
                             THEN open(cells[r][j]) ELSE cells[r][j]
    <2>1. [i \in Slots |-> IF i <= index.len THEN open(cells[index.arr][i])
                           ELSE cells[index.arr][i]] \in Rounds
      BY <1>1, <1>2
    <2>2. QED
      BY <1>3, <2>1
  <1>5. /\ known /\ known' /\ index' = index /\ ids' = ids
        /\ opened' = opened \cup all /\ UNCHANGED <<filed, file, told>>
        /\ Unlock(w, index', Fact("open", all))
    BY DEF Reveal
  <1>6. all \in SUBSET Slots
    BY <1>1 DEF Round
  <1>11. Fact("open", all) \in SUBSET Facts
    BY <1>6 DEF Fact, Facts
  <1>7. \A j \in 1..index'.len : cells'[index'.arr][j] # Empty
    BY <1>1, <1>2, <1>4, <1>5
  <1>8. \A j \in 1..index.len :
           Before(cells[index.arr][j], cells'[index'.arr][j])
    BY <1>1, <1>2, <1>4, <1>5
  <1>9. ASSUME NEW r \in 0..index.arr, NEW j \in 1..index.len
        PROVE  /\ cells[r][j] # Empty => cells'[r][j] # Empty
               /\ Before(cells[r][j], cells[index.arr][j])
                     => Before(cells'[r][j], cells'[index'.arr][j])
    <2>1. CASE r = index.arr
      BY <2>1, <1>1, <1>2, <1>4, <1>5, BeforeItself
    <2>2. CASE r # index.arr
      <3>1. cells'[r][j] = cells[r][j]
        BY <2>2, <1>4
      <3>2. QED
        BY <3>1, <1>8, BeforeTransitive
    <2>3. QED
      BY <2>1, <2>2
  <1> HIDE DEF all
  <1>10. /\ index' \in [arr : Arrays, len : 0..MaxRounds]
         /\ ids' \in 0..MaxRounds /\ opened' \in SUBSET Slots
         /\ index.arr <= index'.arr /\ index.len <= index'.len
    BY <1>5, <1>6
  <1> DEFINE said == Fact("open", all)
  <1>12. \A f \in said : Holds(f, Slice(index)')
    <2> TAKE f \in said
    <2>1. f.id \in all /\ f.what = "open"
      BY DEF Fact
    <2>2. PICK i \in 1..index.len : cells[index.arr][i].id = f.id
      BY <2>1 DEF all
    <2>3. /\ cells'[index'.arr][i].id = f.id
          /\ ~cells'[index'.arr][i].sealed
      <3>1. cells'[index'.arr][i] = open(cells[index.arr][i])
        BY <1>4, <1>5
      <3>2. QED
        BY <1>1, <1>2, <2>2, <3>1
    <2>4. i \in 1..index'.len /\ index'.len <= MaxRounds /\ index'.len \in Nat
      BY <1>5
    <2>5. cells'[index'.arr][i] # Empty /\ (f.what = "voted" => FALSE)
      BY <1>7, <2>1, <2>4
    <2>6. QED
      BY <2>3, <2>4, <2>5, IndexHolds, EvalAssumption
  <1>13. Hidden => Hidden'
    <2>1. \A i \in 1..index.len : cells[index.arr][i].id \in all
      BY DEF all
    <2> HIDE DEF all
    <2>2. \A i \in 1..index'.len : cells'[index'.arr][i].id \in opened'
      <3> TAKE i \in 1..index'.len
      <3>1. cells'[index'.arr][i] = open(cells[index.arr][i])
        BY <1>4, <1>5
      <3>2. cells'[index'.arr][i].id = cells[index.arr][i].id
        BY <1>1, <1>2, <1>5, <3>1
      <3>3. QED
        BY <1>5, <2>1, <3>2
    <2>3. QED
      BY <2>2 DEF Hidden
  <1> HIDE DEF said
  <1> HIDE DEF Shape, TypeOK, Arrays, Slots, Rounds
  <1>14. QED
    BY <1>4, <1>5, <1>7, <1>8, <1>9, <1>10, <1>11, <1>12, <1>13 DEF Grows, said

LEMMA StepsThatGrow ==
    ASSUME Shape, NEW w \in Workers, Work(w)
    PROVE  Grows(w) \/ Create(w) \/ Marshal(w) \/ Rename(w) \/ SaveFails(w)
  BY AddGrows, ImportGrows, VoteGrows, RevealGrows DEF Work

LEMMA EmptyRounds ==
    /\ NoRounds \in Rounds
    /\ NoSlice \in [arr : Arrays, len : 0..MaxRounds]
    /\ \A i \in Slots : NoRounds[i] = Empty
  BY EvalAssumption DEF NoRounds, Rounds, NoSlice, Arrays

LEMMA GrowsKeepsShape ==
    ASSUME Shape, NEW w \in Workers, Grows(w)
    PROVE  Shape'
  <1>1. PICK facts \in SUBSET Facts : Unlock(w, index', facts)
    BY DEF Grows
  <1>2. \A v \in Workers \ {w} :
           /\ copy'[v] = copy[v] /\ buf'[v] = buf[v] /\ next'[v] = next[v]
    BY <1>1 DEF Unlock, Shape, TypeOK
  <1>3. /\ copy'[w] = index' /\ buf'[w] = NoRounds /\ next'[w] = 1
    BY <1>1 DEF Unlock, Shape, TypeOK
  <1>4. TypeOK'
    BY <1>1, EmptyRounds, EvalAssumption
       DEF Grows, Unlock, Shape, TypeOK, Rounds
  <1>5. Full(index)'
    BY DEF Grows, Full
  <1>6. ASSUME NEW v \in Workers
        PROVE  /\ Full(copy[v])'
               /\ copy'[v].arr <= index'.arr
               /\ copy'[v].len <= index'.len
               /\ next'[v] <= copy'[v].len + 1
    <2>1. CASE v = w
      BY <2>1, <1>3, <1>5, <1>4 DEF Full, TypeOK, Arrays
    <2>2. CASE v # w
      <3>1. /\ copy[v].arr \in 0..index.arr /\ copy[v].len <= index.len
            /\ copy[v].len \in Nat /\ index.len \in Nat
            /\ copy[v].arr \in Nat /\ index.arr \in Nat
            /\ next[v] <= copy[v].len + 1 /\ Full(copy[v])
        BY EvalAssumption DEF Shape, TypeOK, Arrays
      <3>2. \A i \in 1..copy[v].len : cells'[copy[v].arr][i] # Empty
        BY <3>1 DEF Full, Grows
      <3>3. QED
        BY <2>2, <1>2, <1>4, <3>1, <3>2, SMTT(20)
           DEF Grows, Full, TypeOK, Arrays
    <2>3. QED
      BY <2>1, <2>2
  <1>7. \A v \in Workers, i \in Slots : i < next'[v] <=> buf'[v][i] # Empty
    BY <1>2, <1>3, EmptyRounds DEF Shape, Slots
  <1>8. \E n \in 0..MaxRounds : \A i \in Slots : i <= n <=> file'[i] # Empty
    BY DEF Grows, Shape
  <1>9. /\ filed' => known'
        /\ ~filed' => file' = NoRounds
        /\ known'
    BY DEF Grows, Shape
  <1>10. QED
    BY <1>4, <1>5, <1>6, <1>7, <1>8, <1>9 DEF Shape

LEMMA DoneKeepsShape ==
    ASSUME Shape, NEW w \in Workers, Done(w), UNCHANGED <<index, cells>>
    PROVE  /\ pc' \in [Workers -> {"idle", "marshal", "rename"}]
           /\ copy' \in [Workers -> [arr : Arrays, len : 0..MaxRounds]]
           /\ buf' \in [Workers -> Rounds]
           /\ next' \in [Workers -> 1..(MaxRounds + 1)]
           /\ answer' \in [Workers -> SUBSET Facts]
           /\ \A v \in Workers : /\ Full(copy[v])'
                                 /\ copy'[v].arr <= index'.arr
                                 /\ copy'[v].len <= index'.len
                                 /\ next'[v] <= copy'[v].len + 1
           /\ \A v \in Workers, i \in Slots :
                 i < next'[v] <=> buf'[v][i] # Empty
  <1>1. /\ pc' \in [Workers -> {"idle", "marshal", "rename"}]
        /\ copy' \in [Workers -> [arr : Arrays, len : 0..MaxRounds]]
        /\ buf' \in [Workers -> Rounds]
        /\ next' \in [Workers -> 1..(MaxRounds + 1)]
        /\ answer' \in [Workers -> SUBSET Facts]
    BY EmptyRounds, EvalAssumption DEF Done, Shape, TypeOK
  <1>2. /\ copy'[w] = NoSlice /\ buf'[w] = NoRounds /\ next'[w] = 1
        /\ \A v \in Workers \ {w} :
              copy'[v] = copy[v] /\ buf'[v] = buf[v] /\ next'[v] = next[v]
    BY DEF Done, Shape, TypeOK
  <1>3. ASSUME NEW v \in Workers
        PROVE  /\ Full(copy[v])'
               /\ copy'[v].arr <= index'.arr
               /\ copy'[v].len <= index'.len
               /\ next'[v] <= copy'[v].len + 1
    <2>1. CASE v = w
      BY <2>1, <1>2, EvalAssumption DEF Full, NoSlice, Shape, TypeOK, Arrays
    <2>2. CASE v # w
      BY <2>2, <1>2 DEF Full, Shape
    <2>3. QED
      BY <2>1, <2>2
  <1>4. \A v \in Workers, i \in Slots : i < next'[v] <=> buf'[v][i] # Empty
    BY <1>2, EmptyRounds DEF Shape, Slots
  <1>5. QED
    BY <1>1, <1>3, <1>4

LEMMA LengthFits ==
    ASSUME Shape
    PROVE  /\ Length(file) \in 0..MaxRounds
           /\ \A i \in Slots : i <= Length(file) <=> file[i] # Empty
  BY DEF Length, Count, Shape

LEMMA ShapeStep ==
    ASSUME Shape, [Next]_vars
    PROVE  Shape'
  <1>1. CASE UNCHANGED vars
    BY <1>1 DEF vars, workers, Shape, TypeOK, Full
  <1>2. ASSUME NEW w \in Workers, Create(w)
        PROVE  Shape'
    <2>1. /\ index' = NoSlice /\ copy'[w] = NoSlice
          /\ buf'[w] = NoRounds /\ next'[w] = 1
          /\ \A v \in Workers \ {w} :
                copy'[v] = copy[v] /\ buf'[v] = buf[v] /\ next'[v] = next[v]
      BY <1>2 DEF Create, Unlock, Shape, TypeOK
    <2>2. TypeOK'
      BY <1>2, EmptyRounds, EvalAssumption
         DEF Create, Unlock, Shape, TypeOK
    <2>3. index' = index
      BY <1>2, <2>1 DEF Create, Shape
    <2>4. UNCHANGED <<cells, file, filed>> /\ known'
      BY <1>2 DEF Create
    <2>5. ASSUME NEW v \in Workers
          PROVE  /\ Full(copy[v])'
                 /\ copy'[v].arr <= index'.arr
                 /\ copy'[v].len <= index'.len
                 /\ next'[v] <= copy'[v].len + 1
      <3>1. CASE v = w
        BY <3>1, <2>1, EvalAssumption DEF Full, NoSlice
      <3>2. CASE v # w
        BY <3>2, <2>1, <2>3, <2>4 DEF Full, Shape
      <3>3. QED
        BY <3>1, <3>2
    <2>6. \A v \in Workers, i \in Slots :
             i < next'[v] <=> buf'[v][i] # Empty
      BY <2>1, EmptyRounds DEF Shape, Slots
    <2>7. QED
      BY <2>2, <2>3, <2>4, <2>5, <2>6 DEF Shape, Full
  <1>3. ASSUME NEW w \in Workers, Marshal(w)
        PROVE  Shape'
    <2>1. CASE next[w] <= copy[w].len
      <3>1. next[w] \in Slots /\ copy[w].len \in 0..MaxRounds
        BY <2>1, EvalAssumption DEF Shape, TypeOK, Slots
      <3> DEFINE r == cells[copy[w].arr][next[w]]
      <3>2. r \in Round /\ r # Empty
        <4>1. r # Empty
          BY <2>1, <3>1, EvalAssumption DEF Shape, Full, Slots
        <4>2. cells[copy[w].arr] \in Rounds
          BY DEF Shape, TypeOK
        <4>3. QED
          BY <3>1, <4>1, <4>2 DEF Rounds
      <3>3. Slice(copy[w])[next[w]] = r
        BY <2>1, <3>1 DEF Slice
      <3>4. buf' = [buf EXCEPT ![w] = [buf[w] EXCEPT ![next[w]] = r]]
        BY <1>3, <2>1, <3>3 DEF Marshal
      <3>5. buf' \in [Workers -> Rounds]
        BY <3>1, <3>2, <3>4 DEF Shape, TypeOK, Rounds
      <3>6. next' = [next EXCEPT ![w] = next[w] + 1] /\ pc' = pc
        BY <1>3, <2>1 DEF Marshal
      <3>7. TypeOK'
        <4>1. next' \in [Workers -> 1..(MaxRounds + 1)]
          BY <3>1, <3>6, EvalAssumption DEF Shape, TypeOK, Slots
        <4>2. QED
          BY <1>3, <3>5, <3>6, <4>1 DEF Marshal, Shape, TypeOK
      <3>8. \A v \in Workers, i \in Slots :
               i < next'[v] <=> buf'[v][i] # Empty
        BY <3>1, <3>2, <3>4, <3>6, EvalAssumption
           DEF Shape, TypeOK, Rounds, Slots
      <3>9. \A v \in Workers : next'[v] <= copy[v].len + 1
        BY <2>1, <3>1, <3>6 DEF Shape, TypeOK
      <3>10. UNCHANGED <<index, cells, copy, file, filed, known>>
        BY <1>3 DEF Marshal
      <3> HIDE DEF r
      <3>11. QED
        BY <3>6, <3>7, <3>8, <3>9, <3>10 DEF Shape, Full
    <2>2. CASE ~(next[w] <= copy[w].len)
      BY <1>3, <2>2 DEF Marshal, Shape, TypeOK, Full
    <2>3. QED
      BY <2>1, <2>2
  <1>4. ASSUME NEW w \in Workers, Rename(w)
        PROVE  Shape'
    <2>1. Done(w) /\ UNCHANGED <<known, index, cells, ids, opened, raced>>
      BY <1>4 DEF Rename
    <2>2. /\ file' = buf[w] /\ filed' = TRUE /\ told' = told \cup answer[w]
      BY <1>4 DEF Rename
    <2>3. \E n \in 0..MaxRounds : \A i \in Slots : i <= n <=> file'[i] # Empty
      <3>1. /\ next[w] - 1 \in 0..MaxRounds
            /\ \A i \in Slots : i <= next[w] - 1 <=> i < next[w]
        BY EvalAssumption DEF Shape, TypeOK, Slots
      <3>2. QED
        BY <2>2, <3>1 DEF Shape
    <2>4. TypeOK'
      BY <2>1, <2>2, DoneKeepsShape DEF Shape, TypeOK
    <2>5. known
      BY <1>4 DEF Rename, Shape
    <2>6. QED
      BY <2>1, <2>2, <2>3, <2>4, <2>5, DoneKeepsShape DEF Shape, Full
  <1>5. ASSUME NEW w \in Workers, SaveFails(w)
        PROVE  Shape'
    <2>1. /\ Done(w)
          /\ UNCHANGED <<known, index, cells, filed, file, ids, told, opened,
                         raced>>
      BY <1>5 DEF SaveFails
    <2>2. TypeOK'
      BY <2>1, DoneKeepsShape DEF Shape, TypeOK
    <2>3. known
      BY <1>5 DEF SaveFails, Shape
    <2>4. QED
      BY <2>1, <2>2, <2>3, DoneKeepsShape DEF Shape, Full
  <1>6. CASE Restart
    <2>1. /\ index' = [arr |-> 0, len |-> Length(file)]
          /\ cells' = [r \in Arrays |-> IF r = 0 THEN file ELSE NoRounds]
          /\ UNCHANGED <<filed, file, ids, told, opened, raced>>
          /\ known' = filed
      BY <1>6 DEF Restart
    <2>2. /\ pc' = [w \in Workers |-> "idle"]
          /\ copy' = [w \in Workers |-> NoSlice]
          /\ buf' = [w \in Workers |-> NoRounds]
          /\ next' = [w \in Workers |-> 1]
          /\ answer' = [w \in Workers |-> {}]
      BY <1>6 DEF Restart
    <2>3. TypeOK'
      BY <2>1, <2>2, LengthFits, EmptyRounds, EvalAssumption
         DEF Shape, TypeOK, Arrays
    <2>4. Full(index)'
      BY <2>1, LengthFits, EvalAssumption DEF Full, Arrays, Slots
    <2>5. \A v \in Workers : /\ Full(copy[v])'
                             /\ copy'[v].arr <= index'.arr
                             /\ copy'[v].len <= index'.len
                             /\ next'[v] <= copy'[v].len + 1
      BY <2>1, <2>2, LengthFits DEF Full, NoSlice
    <2>6. \A v \in Workers, i \in Slots : i < next'[v] <=> buf'[v][i] # Empty
      BY <2>2, EmptyRounds DEF Slots
    <2>7. ~known' => /\ index' = NoSlice
                     /\ \A v \in Workers : pc'[v] = "idle"
      <3>1. SUFFICES ASSUME ~filed
                     PROVE  Length(file) = 0
        BY <2>1, <2>2 DEF NoSlice
      <3>2. \A i \in Slots : ~(i <= Length(file))
        BY <3>1, LengthFits, EmptyRounds DEF Shape
      <3>3. QED
        BY <3>2, LengthFits, EvalAssumption DEF Slots
    <2>8. QED
      BY <2>1, <2>3, <2>4, <2>5, <2>6, <2>7 DEF Shape
  <1>7. QED
    BY <1>1, <1>2, <1>3, <1>4, <1>5, <1>6, StepsThatGrow, GrowsKeepsShape
       DEF Next

LEMMA ShapeInit == Init => Shape
  <1> SUFFICES ASSUME Init
               PROVE  Shape
    OBVIOUS
  <1>1. TypeOK
    <2>1. /\ index = NoSlice /\ file = NoRounds
          /\ cells = [r \in Arrays |-> NoRounds]
          /\ buf = [w \in Workers |-> NoRounds]
          /\ copy = [w \in Workers |-> NoSlice]
      BY DEF Init
    <2>2. /\ index \in [arr : Arrays, len : 0..MaxRounds]
          /\ cells \in [Arrays -> Rounds] /\ file \in Rounds
          /\ copy \in [Workers -> [arr : Arrays, len : 0..MaxRounds]]
          /\ buf \in [Workers -> Rounds]
      BY <2>1, EmptyRounds
    <2>3. known \in BOOLEAN /\ filed \in BOOLEAN /\ raced \in BOOLEAN
      BY DEF Init
    <2>4. /\ next = [w \in Workers |-> 1] /\ ids = 0
          /\ pc = [w \in Workers |-> "idle"]
          /\ answer = [w \in Workers |-> {}]
          /\ told = {} /\ opened = {}
      BY DEF Init
    <2>5. 1 \in 1..(MaxRounds + 1) /\ 0 \in 0..MaxRounds
      BY EvalAssumption
    <2>6. QED
      BY <2>2, <2>3, <2>4, <2>5 DEF TypeOK
  <1>2. /\ index.len = 0 /\ index.arr = 0
        /\ \A w \in Workers :
              copy[w].len = 0 /\ copy[w].arr = 0 /\ next[w] = 1
    BY DEF Init, NoSlice
  <1>21. Full(index) /\ \A w \in Workers : Full(copy[w])
    BY <1>2 DEF Full
  <1>3. \A w \in Workers : /\ copy[w].arr <= index.arr
                           /\ copy[w].len <= index.len
                           /\ next[w] <= copy[w].len + 1
    <2> TAKE w \in Workers
    <2>1. /\ copy[w].len = 0 /\ copy[w].arr = 0 /\ next[w] = 1
          /\ index.len = 0 /\ index.arr = 0
      BY <1>2
    <2>2. QED
      BY <2>1
  <1>4. \A w \in Workers, i \in Slots : i < next[w] <=> buf[w][i] # Empty
    <2>1. \A w \in Workers : buf[w] = NoRounds
      BY DEF Init
    <2>2. QED
      BY <1>2, <2>1, EmptyRounds DEF Slots
  <1>5. \E n \in 0..MaxRounds : \A i \in Slots : i <= n <=> file[i] # Empty
    <2>1. file = NoRounds
      BY DEF Init
    <2>2. 0 \in 0..MaxRounds /\ \A i \in Slots : i <= 0 <=> file[i] # Empty
      BY <2>1, EmptyRounds, EvalAssumption DEF Slots
    <2>3. QED
      BY <2>2
  <1>6. /\ filed => known
        /\ ~filed => file = NoRounds
        /\ ~known => index = NoSlice /\ \A w \in Workers : pc[w] = "idle"
    BY DEF Init
  <1>7. QED
    BY <1>1, <1>21, <1>3, <1>4, <1>5, <1>6 DEF Shape

LEMMA ShapeHolds == Spec => []Shape
  BY ShapeInit, ShapeStep, PTL DEF Spec

\* EvalStore is type-correct: slices stay within their arrays, buffers
\* within the rounds, and a reloaded file fits the index.
THEOREM TypeCorrect == Spec => []TypeOK
  <1>1. Shape => TypeOK
    BY DEF Shape
  <1>2. QED
    BY <1>1, ShapeHolds, PTL

----------------------------------------------------------------------------
(* The file is a past of the index.                                        *)

(* Everything that may still be written to the file is a past of the index *)
(* as well: each worker's copy, and what it has marshalled.                *)
Pasts ==
    /\ Past(file, Slice(index))
    /\ \A w \in Workers : /\ Past(Slice(copy[w]), Slice(index))
                          /\ Past(buf[w], Slice(index))

LEMMA GrowsMovesForward ==
    ASSUME Shape, NEW w \in Workers, Grows(w)
    PROVE  /\ Past(Slice(index), Slice(index)')
           /\ \A s \in [arr : Arrays, len : 0..MaxRounds] :
                 /\ s.arr <= index.arr /\ s.len <= index.len
                 /\ Past(Slice(s), Slice(index))
                 => Past(Slice(s)', Slice(index)')
  <1> USE EvalAssumption DEF Shape, TypeOK
  <1>1. /\ \A i \in Slots : Slice(index)[i] =
              IF i <= index.len THEN cells[index.arr][i] ELSE Empty
        /\ \A i \in Slots : Slice(index)'[i] =
              IF i <= index'.len THEN cells'[index'.arr][i] ELSE Empty
    BY DEF Slice
  <1>2. index.len \in 0..MaxRounds /\ index.arr \in 0..MaxMoves
    BY DEF Arrays
  <1>3. Past(Slice(index), Slice(index)')
    <2> SUFFICES ASSUME NEW i \in Slots
                 PROVE  Before(Slice(index)[i], Slice(index)'[i])
      BY DEF Past
    <2>1. CASE i <= index.len
      <3>1. i \in 1..index.len /\ i <= index'.len
        BY <1>2, <2>1 DEF Slots, Grows
      <3>2. QED
        BY <1>1, <2>1, <3>1 DEF Grows
    <2>2. CASE ~(i <= index.len)
      BY <1>1, <2>2 DEF Before
    <2>3. QED
      BY <2>1, <2>2
  <1>4. ASSUME NEW s \in [arr : Arrays, len : 0..MaxRounds],
               s.arr <= index.arr, s.len <= index.len,
               Past(Slice(s), Slice(index)), NEW i \in Slots
        PROVE  Before(Slice(s)'[i], Slice(index)'[i])
    <2>1. CASE i <= s.len
      <3>1. /\ i \in 1..index.len /\ i <= index'.len
            /\ s.arr \in 0..index.arr
        BY <1>2, <1>4, <2>1 DEF Slots, Grows, Arrays
      <3>2. Before(cells[s.arr][i], cells[index.arr][i])
        BY <1>1, <1>4, <2>1, <3>1 DEF Past, Slice
      <3>3. Before(cells'[s.arr][i], cells'[index'.arr][i])
        BY <3>1, <3>2 DEF Grows
      <3>4. Slice(s)'[i] = cells'[s.arr][i]
        BY <2>1 DEF Slice
      <3>5. QED
        BY <1>1, <3>1, <3>3, <3>4
    <2>2. CASE ~(i <= s.len)
      BY <2>2 DEF Slice, Before
    <2>3. QED
      BY <2>1, <2>2
  <1>5. QED
    BY <1>3, <1>4 DEF Past

LEMMA PastTransitive ==
    ASSUME NEW r, NEW s, NEW t, Past(r, s), Past(s, t)
    PROVE  Past(r, t)
  <1> SUFFICES ASSUME NEW i \in Slots
               PROVE  Before(r[i], t[i])
    BY DEF Past
  <1>1. Before(r[i], s[i]) /\ Before(s[i], t[i])
    BY DEF Past
  <1>2. QED
    BY <1>1, BeforeTransitive

LEMMA NothingIsAPast ==
    ASSUME NEW rs
    PROVE  Past(NoRounds, rs) /\ Past(Slice(NoSlice), rs)
  BY DEF Past, Before, NoRounds, Slice, NoSlice, Slots

(* A restart brings back the file as it was. *)
LEMMA RestartReloads ==
    ASSUME Shape, Restart
    PROVE  \A i \in Slots : Slice(index)'[i] = file[i]
  <1> TAKE i \in Slots
  <1>1. /\ index' = [arr |-> 0, len |-> Length(file)]
        /\ cells' = [r \in Arrays |-> IF r = 0 THEN file ELSE NoRounds]
    BY DEF Restart
  <1>2. cells'[0] = file
    BY <1>1, EvalAssumption DEF Arrays
  <1>3. Slice(index)'[i] = IF i <= Length(file) THEN file[i] ELSE Empty
    BY <1>1, <1>2 DEF Slice
  <1>4. QED
    BY <1>3, LengthFits

LEMMA PastsStep ==
    ASSUME Shape, Pasts, [Next]_vars
    PROVE  Pasts'
  <1>1. CASE UNCHANGED vars
    BY <1>1 DEF vars, workers, Pasts, Slice, Past
  <1>2. ASSUME NEW w \in Workers, Grows(w)
        PROVE  Pasts'
    <2>1. PICK facts \in SUBSET Facts : Unlock(w, index', facts)
      BY <1>2 DEF Grows
    <2>2. /\ file' = file
          /\ copy'[w] = index' /\ buf'[w] = NoRounds
          /\ \A v \in Workers \ {w} : copy'[v] = copy[v] /\ buf'[v] = buf[v]
      BY <1>2, <2>1 DEF Grows, Unlock, Shape, TypeOK
    <2>3. Past(file, Slice(index))'
      BY <1>2, <2>2, GrowsMovesForward, PastTransitive DEF Pasts
    <2>4. ASSUME NEW v \in Workers
          PROVE  Past(Slice(copy[v]), Slice(index))' /\ Past(buf[v], Slice(index))'
      <3>1. CASE v = w
        <4>1. Slice(copy[v])' = Slice(index)'
          BY <2>2, <3>1 DEF Slice
        <4>2. Past(Slice(index)', Slice(index)')
          BY BeforeItself DEF Past
        <4>3. QED
          BY <2>2, <3>1, <4>1, <4>2, NothingIsAPast
      <3>2. CASE v # w
        <4>1. copy[v] \in [arr : Arrays, len : 0..MaxRounds]
          BY DEF Shape, TypeOK
        <4>2. Past(Slice(copy[v]), Slice(index)')
                 \/ copy[v].arr <= index.arr
          BY DEF Shape
        <4>3. \A s \in [arr : Arrays, len : 0..MaxRounds] :
                 (s = copy[v]) => Past(Slice(s)', Slice(index)')
          BY <1>2, <4>1, GrowsMovesForward DEF Shape, Pasts
        <4>4. \A s : (s = copy[v]) => Slice(copy[v])' = Slice(s)'
          BY <2>2, <3>2 DEF Slice
        <4>5. Past(Slice(copy[v])', Slice(index)')
          BY <4>1, <4>3, <4>4
        <4>6. Past(buf[v], Slice(index)')
          BY <1>2, GrowsMovesForward, PastTransitive DEF Pasts
        <4>7. QED
          BY <2>2, <3>2, <4>5, <4>6
      <3>3. QED
        BY <3>1, <3>2
    <2>5. QED
      BY <2>3, <2>4 DEF Pasts
  <1>3. ASSUME NEW w \in Workers, UNCHANGED <<index, cells>>,
               \A v \in Workers : copy'[v] \in {copy[v], NoSlice},
               \A v \in Workers : Past(buf'[v], Slice(index)),
               Past(file', Slice(index))
        PROVE  Pasts'
    <2>1. Slice(index)' = Slice(index) /\ \A s : Slice(s)' = Slice(s)
      BY <1>3 DEF Slice
    <2>2. ASSUME NEW v \in Workers
          PROVE  Past(Slice(copy[v])', Slice(index))
      <3>1. CASE copy'[v] = copy[v]
        <4>1. Slice(copy[v])' = Slice(copy[v])
          BY <1>3, <3>1 DEF Slice
        <4>2. QED
          BY <4>1 DEF Pasts
      <3>2. CASE copy'[v] = NoSlice
        <4>1. Slice(copy[v])' = Slice(NoSlice)
          BY <1>3, <3>2 DEF Slice, NoSlice, Slots
        <4>2. QED
          BY <4>1, NothingIsAPast
      <3>3. QED
        BY <1>3, <3>1, <3>2
    <2>3. QED
      BY <1>3, <2>1, <2>2 DEF Pasts
  <1>4. ASSUME NEW w \in Workers, Create(w)
        PROVE  Pasts'
    <2>1. /\ index' = index /\ UNCHANGED <<cells, file>>
          /\ \A v \in Workers : copy'[v] \in {copy[v], NoSlice}
          /\ \A v \in Workers : buf'[v] \in {buf[v], NoRounds}
      BY <1>4 DEF Create, Unlock, Shape, TypeOK
    <2>2. QED
      BY <1>3, <2>1, NothingIsAPast DEF Pasts
  <1>5. ASSUME NEW w \in Workers, Marshal(w)
        PROVE  Pasts'
    <2>1. UNCHANGED <<index, cells, file, copy>>
      BY <1>5 DEF Marshal
    <2>2. \A v \in Workers : Past(buf'[v], Slice(index))
      <3>1. CASE next[w] <= copy[w].len
        <4>1. buf' = [buf EXCEPT ![w] =
                 [buf[w] EXCEPT ![next[w]] = Slice(copy[w])[next[w]]]]
          BY <1>5, <3>1 DEF Marshal
        <4>2. \A v \in Workers, i \in Slots :
                 buf'[v][i] \in {buf[v][i], Slice(copy[v])[i]}
          BY <4>1 DEF Shape, TypeOK, Rounds
        <4>3. QED
          BY <4>2 DEF Past, Pasts
      <3>2. CASE ~(next[w] <= copy[w].len)
        BY <1>5, <3>2 DEF Marshal, Pasts
      <3>3. QED
        BY <3>1, <3>2
    <2>3. QED
      BY <1>3, <2>1, <2>2 DEF Pasts
  <1>6. ASSUME NEW w \in Workers, Rename(w) \/ SaveFails(w)
        PROVE  Pasts'
    <2>1. /\ UNCHANGED <<index, cells>> /\ file' \in {file, buf[w]}
          /\ \A v \in Workers : copy'[v] \in {copy[v], NoSlice}
          /\ \A v \in Workers : buf'[v] \in {buf[v], NoRounds}
      BY <1>6 DEF Rename, SaveFails, Done, Shape, TypeOK
    <2>2. QED
      BY <1>3, <2>1, NothingIsAPast DEF Pasts
  <1>7. CASE Restart
    <2>1. /\ file' = file
          /\ \A v \in Workers : copy'[v] = NoSlice /\ buf'[v] = NoRounds
      BY <1>7 DEF Restart
    <2>2. Past(file, Slice(index)')
      BY <1>7, RestartReloads, BeforeItself DEF Past
    <2>3. ASSUME NEW v \in Workers
          PROVE  Past(Slice(copy[v])', Slice(index)')
      BY <2>1 DEF Past, Slice, NoSlice, Before, Slots
    <2>4. QED
      BY <2>1, <2>2, <2>3, NothingIsAPast DEF Pasts
  <1>8. QED
    BY <1>1, <1>2, <1>4, <1>5, <1>6, <1>7, StepsThatGrow DEF Next

LEMMA PastsInit == Init => Pasts
  BY DEF Init, Pasts, Past, Before, Slice, NoSlice, NoRounds, Slots

\* Whatever order concurrent saves finish in, whichever fail and whenever
\* the process restarts, the file holds a past of the index.
THEOREM FileLags == Spec => []FileIsAPast
  <1>1. Shape /\ Pasts => FileIsAPast
    BY DEF Shape, Pasts, FileIsAPast
  <1>2. Init => Shape /\ Pasts
    BY ShapeInit, PastsInit
  <1>3. Shape /\ Pasts /\ [Next]_vars => (Shape /\ Pasts)'
    BY ShapeStep, PastsStep
  <1>4. QED
    BY <1>1, <1>2, <1>3, PTL DEF Spec

----------------------------------------------------------------------------
(* Labels stay hidden.                                                     *)

LEMMA HiddenStep ==
    ASSUME Shape, Pasts, Hidden, [Next]_vars
    PROVE  Hidden'
  <1>1. CASE UNCHANGED vars
    BY <1>1 DEF vars, Hidden
  <1>2. ASSUME NEW w \in Workers, Grows(w)
        PROVE  Hidden'
    BY <1>2 DEF Grows
  <1>3. ASSUME NEW w \in Workers, Create(w)
        PROVE  Hidden'
    <2>1. UNCHANGED <<index, cells, opened>>
      BY <1>3 DEF Create, Shape
    <2>2. QED
      BY <2>1 DEF Hidden
  <1>4. ASSUME NEW w \in Workers, Marshal(w) \/ Rename(w) \/ SaveFails(w)
        PROVE  Hidden'
    BY <1>4 DEF Marshal, Rename, SaveFails, Hidden
  <1>5. CASE Restart
    <2> SUFFICES ASSUME NEW i \in 1..index'.len
                 PROVE  LET r == cells'[index'.arr][i]
                        IN  (r.a # NoLabel /\ r.b # NoLabel /\ ~r.sealed)
                                => r.id \in opened'
      BY DEF Hidden
    <2>1. /\ i \in Slots /\ i <= Length(file) /\ opened' = opened
          /\ cells'[index'.arr][i] = file[i]
      BY <1>5, LengthFits, EvalAssumption DEF Restart, Slots, Arrays
    <2>2. file[i] # Empty /\ Before(file[i], Slice(index)[i])
      BY <2>1, LengthFits DEF Pasts, Past
    <2>3. i \in 1..index.len /\ Slice(index)[i] = cells[index.arr][i]
      BY <2>1, <2>2 DEF Before, Slice, Slots, Shape, TypeOK
    <2>4. QED
      BY <2>1, <2>2, <2>3 DEF Before, Hidden
  <1>6. QED
    BY <1>1, <1>2, <1>3, <1>4, <1>5, StepsThatGrow DEF Next

LEMMA HiddenBlinds ==
    ASSUME Shape, Hidden
    PROVE  BlindUntilRevealed
  <1> SUFFICES ASSUME NEW i \in Slots, Slice(index)[i] # Empty,
                      Slice(index)[i].a # NoLabel, Slice(index)[i].b # NoLabel,
                      \/ Blind(Slice(index))[i].a # NoLabel
                      \/ Blind(Slice(index))[i].b # NoLabel
                      \/ i \in Tallied(Slice(index))
               PROVE  Slice(index)[i].id \in opened
    BY DEF BlindUntilRevealed
  <1> DEFINE r == Slice(index)[i]
  <1>1. /\ i \in 1..index.len /\ r = cells[index.arr][i]
        /\ r \in Round
    <2>1. r = IF i <= index.len THEN cells[index.arr][i] ELSE Empty
      BY DEF Slice
    <2>2. i <= index.len /\ r = cells[index.arr][i]
      BY <2>1
    <2>3. cells[index.arr] \in Rounds
      BY DEF Shape, TypeOK
    <2>4. r \in Round
      BY <2>2, <2>3 DEF Rounds
    <2>5. i \in 1..index.len
      BY <2>2, EvalAssumption DEF Slots, Shape, TypeOK
    <2>6. QED
      BY <2>2, <2>4, <2>5
  <1>2. ~r.sealed
    <2>1. CASE i \in Tallied(Slice(index))
      BY <2>1 DEF Tallied
    <2>2. CASE r.sealed
      <3>1. Blind(Slice(index))[i] = [r EXCEPT !.a = NoLabel, !.b = NoLabel]
        BY <2>2 DEF Blind
      <3>2. /\ Blind(Slice(index))[i].a = NoLabel
            /\ Blind(Slice(index))[i].b = NoLabel
        BY <1>1, <3>1 DEF Round
      <3>3. QED
        BY <2>1, <3>2
    <2>3. QED
      BY <2>2
  <1>3. QED
    BY <1>1, <1>2 DEF Hidden

\* No request and no restart shows both labels of a round that nobody has
\* revealed, through Blind or through the scores.
THEOREM StaysBlind == Spec => []BlindUntilRevealed
  <1>1. Init => Shape /\ Pasts /\ Hidden
    BY ShapeInit, PastsInit DEF Init, Hidden, NoSlice
  <1>2. Shape /\ Pasts /\ Hidden /\ [Next]_vars => (Shape /\ Pasts /\ Hidden)'
    BY ShapeStep, PastsStep, HiddenStep
  <1>3. Shape /\ Hidden => BlindUntilRevealed
    BY HiddenBlinds
  <1>4. QED
    BY <1>1, <1>2, <1>3, PTL DEF Spec

----------------------------------------------------------------------------
(* Saves that do not overlap are durable.                                  *)

(* While no two saves have overlapped, at most one worker saves; what it    *)
(* marshals is the index, which bears out what it will tell its client.    *)
Rests(w) == pc[w] = "idle" /\ answer[w] = {} /\ next[w] = 1

SavesIndex(w) ==
    /\ pc[w] # "idle"
    /\ copy[w] = index
    /\ pc[w] = "rename" => next[w] = copy[w].len + 1
    /\ \A i \in Slots : i < next[w] => buf[w][i] = Slice(index)[i]
    /\ \A f \in answer[w] : Holds(f, Slice(index))

Alone ==
    ~raced =>
        /\ \A v, w \in Workers : v = w \/ Rests(v) \/ Rests(w)
        /\ \A w \in Workers : Rests(w) \/ SavesIndex(w)
        /\ AnswersAreDurable

LEMMA HoldsLater ==
    ASSUME NEW f \in Facts, NEW rs, NEW ss, Past(rs, ss), Holds(f, rs)
    PROVE  Holds(f, ss)
  <1>1. f.what = "voted" => f.winner # Unvoted
    BY EvalAssumption DEF Facts
  <1>2. PICK i \in Slots : /\ rs[i] # Empty
                           /\ rs[i].id = f.id
                           /\ f.what = "voted" => rs[i].winner = f.winner
                           /\ f.what = "open" => ~rs[i].sealed
    BY DEF Holds
  <1>3. Before(rs[i], ss[i])
    BY DEF Past
  <1>4. /\ ss[i] # Empty /\ ss[i].id = f.id
        /\ f.what = "voted" => ss[i].winner = f.winner
        /\ f.what = "open" => ~ss[i].sealed
    <2>1. ss[i] # Empty /\ ss[i].id = f.id
      BY <1>2, <1>3 DEF Before
    <2>2. f.what = "voted" => ss[i].winner = f.winner
      BY <1>1, <1>2, <1>3 DEF Before
    <2>3. f.what = "open" => ~ss[i].sealed
      BY <1>2, <1>3, Zenon DEF Before
    <2>4. QED
      BY <2>1, <2>2, <2>3
  <1>5. QED
    BY <1>4 DEF Holds

LEMMA HoldsEqual ==
    ASSUME NEW f, NEW rs, NEW ss, \A i \in Slots : rs[i] = ss[i], Holds(f, rs)
    PROVE  Holds(f, ss)
  BY DEF Holds

LEMMA AloneInit == Init => Alone
  BY DEF Init, Alone, Rests, AnswersAreDurable

(* A save begins: it is alone, or two have overlapped. *)
LEMMA AloneBegins ==
    ASSUME Shape, Alone, NEW w \in Workers,
           NEW facts \in SUBSET Facts, Unlock(w, index', facts),
           \A f \in facts : Holds(f, Slice(index)'),
           UNCHANGED <<file, told>>
    PROVE  Alone'
  <1> SUFFICES ASSUME ~raced'
               PROVE  Alone'
    BY DEF Alone
  <1>1. ~raced /\ \A v \in Workers : pc[v] = "idle"
    BY DEF Unlock, Saving
  <1>2. /\ pc'[w] = "marshal" /\ copy'[w] = index'
        /\ next'[w] = 1 /\ answer'[w] = facts
        /\ \A v \in Workers \ {w} : /\ pc'[v] = pc[v] /\ next'[v] = next[v]
                                     /\ answer'[v] = answer[v]
    BY DEF Unlock, Shape, TypeOK
  <1>3. \A v \in Workers \ {w} : Rests(v)'
    <2> TAKE v \in Workers \ {w}
    <2>1. pc[v] = "idle" /\ (Rests(v) \/ SavesIndex(v))
      BY <1>1 DEF Alone
    <2>2. QED
      BY <1>2, <2>1 DEF Rests, SavesIndex
  <1>4. \A i \in Slots : ~(i < 1)
    BY DEF Slots
  <1>5. SavesIndex(w)'
    BY <1>2, <1>4 DEF SavesIndex
  <1>6. AnswersAreDurable'
    BY <1>1 DEF Alone, AnswersAreDurable
  <1>7. QED
    BY <1>3, <1>5, <1>6 DEF Alone

LEMMA AloneStep ==
    ASSUME Shape, Pasts, Alone, [Next]_vars
    PROVE  Alone'
  <1> SUFFICES ASSUME ~raced'
               PROVE  Alone'
    BY DEF Alone
  <1>1. CASE UNCHANGED vars
    BY <1>1 DEF vars, workers, Alone, Rests, SavesIndex, AnswersAreDurable,
                Slice
  <1>2. ASSUME NEW w \in Workers, Grows(w)
        PROVE  Alone'
    BY <1>2, AloneBegins DEF Grows
  <1>3. ASSUME NEW w \in Workers, Create(w)
        PROVE  Alone'
    BY <1>3, AloneBegins DEF Create
  <1>4. ASSUME NEW w \in Workers, Marshal(w)
        PROVE  Alone'
    <2>1. ~raced /\ Slice(index)' = Slice(index)
      BY <1>4 DEF Marshal, Slice
    <2>2. /\ \A v \in Workers \ {w} : Rests(v) /\ Rests(v)'
          /\ SavesIndex(w)
      <3>1. ~Rests(w)
        BY <1>4 DEF Marshal, Rests
      <3>2. \A v \in Workers \ {w} :
               pc'[v] = pc[v] /\ next'[v] = next[v] /\ answer' = answer
        BY <1>4 DEF Marshal, Shape, TypeOK
      <3>3. QED
        BY <2>1, <3>1, <3>2 DEF Alone, Rests
    <2>3. pc'[w] # "idle" /\ UNCHANGED <<copy, index, answer, told, file>>
      BY <1>4 DEF Marshal, Shape, TypeOK
    <2>4. pc'[w] = "rename" => next'[w] = copy[w].len + 1
      BY <1>4 DEF Marshal, Shape, TypeOK, Slots
    <2>5. \A i \in Slots : i < next'[w] => buf'[w][i] = Slice(index)[i]
      <3>1. CASE next[w] <= copy[w].len
        <4>1. /\ next' = [next EXCEPT ![w] = next[w] + 1]
              /\ buf' = [buf EXCEPT ![w] =
                    [buf[w] EXCEPT ![next[w]] = Slice(copy[w])[next[w]]]]
          BY <1>4, <3>1 DEF Marshal
        <4>2. \A i \in Slots : buf'[w][i] =
                 IF i = next[w] THEN Slice(index)[i] ELSE buf[w][i]
          BY <2>2, <4>1 DEF SavesIndex, Shape, TypeOK, Rounds
        <4>3. next'[w] = next[w] + 1 /\ next[w] \in Nat
          BY <4>1, EvalAssumption DEF Shape, TypeOK
        <4>4. \A i \in Slots : i < next'[w] => i < next[w] \/ i = next[w]
          BY <4>3 DEF Slots
        <4>5. QED
          BY <2>2, <4>2, <4>4 DEF SavesIndex
      <3>2. CASE ~(next[w] <= copy[w].len)
        BY <1>4, <2>2, <3>2 DEF Marshal, SavesIndex
      <3>3. QED
        BY <3>1, <3>2
    <2>6. SavesIndex(w)'
      BY <2>1, <2>2, <2>3, <2>4, <2>5 DEF SavesIndex
    <2>7. AnswersAreDurable'
      BY <2>1, <2>3 DEF Alone, AnswersAreDurable
    <2>8. QED
      BY <2>2, <2>6, <2>7 DEF Alone
  <1>5. ASSUME NEW w \in Workers, Done(w), pc[w] = "rename",
               UNCHANGED <<index, cells, raced>>, AnswersAreDurable'
        PROVE  Alone'
    <2>1. Rests(w)'
      BY <1>5 DEF Done, Rests, Shape, TypeOK
    <2>2. \A v \in Workers \ {w} : Rests(v)
      BY <1>5 DEF Alone, Rests
    <2>3. \A v \in Workers \ {w} : Rests(v)'
      BY <1>5, <2>2 DEF Done, Rests, Shape, TypeOK
    <2>4. QED
      BY <1>5, <2>1, <2>3 DEF Alone
  <1>6. ASSUME NEW w \in Workers, SaveFails(w)
        PROVE  Alone'
    BY <1>5, <1>6 DEF SaveFails, Alone, AnswersAreDurable
  <1>7. ASSUME NEW w \in Workers, Rename(w)
        PROVE  Alone'
    <2>1. /\ Done(w) /\ pc[w] = "rename" /\ UNCHANGED <<index, cells, raced>>
          /\ file' = buf[w] /\ told' = told \cup answer[w]
      BY <1>7 DEF Rename
    <2>2. SavesIndex(w) /\ AnswersAreDurable
      BY <2>1 DEF Alone, Rests
    <2>3. \A i \in Slots : buf[w][i] = Slice(index)[i]
      <3> TAKE i \in Slots
      <3>1. CASE i < next[w]
        BY <2>2, <3>1 DEF SavesIndex
      <3>2. CASE ~(i < next[w])
        <4>1. buf[w][i] = Empty
          BY <3>2 DEF Shape
        <4>2. ~(i <= index.len)
          BY <2>1, <2>2, <3>2, EvalAssumption
             DEF SavesIndex, Shape, TypeOK, Slots
        <4>3. QED
          BY <4>1, <4>2 DEF Slice
      <3>3. QED
        BY <3>1, <3>2
    <2>4. \A f \in told' : Holds(f, Slice(index))
      <3>1. \A f \in told : f \in Facts /\ Holds(f, file)
        BY <2>2 DEF AnswersAreDurable, Shape, TypeOK
      <3>2. \A f \in told : Holds(f, Slice(index))
        BY <3>1, HoldsLater DEF Pasts
      <3>3. QED
        BY <2>1, <2>2, <3>2 DEF SavesIndex
    <2>5. AnswersAreDurable'
      BY <2>1, <2>3, <2>4, HoldsEqual DEF AnswersAreDurable
    <2>6. QED
      BY <1>5, <2>1, <2>5
  <1>8. CASE Restart
    <2>1. /\ pc' = [w \in Workers |-> "idle"]
          /\ next' = [w \in Workers |-> 1]
          /\ answer' = [w \in Workers |-> {}]
          /\ UNCHANGED <<file, told, raced>>
      BY <1>8 DEF Restart
    <2>2. \A w \in Workers : Rests(w)'
      BY <2>1 DEF Rests
    <2>3. QED
      BY <2>1, <2>2 DEF Alone, AnswersAreDurable
  <1>9. QED
    BY <1>1, <1>2, <1>3, <1>4, <1>6, <1>7, <1>8, StepsThatGrow DEF Next

\* As long as no two saves have overlapped, whatever a client was told has
\* been done is in the file, across failed saves and restarts.
THEOREM LoneSavesAreDurable == Spec => []LoneAnswersAreDurable
  <1>1. Init => Shape /\ Pasts /\ Alone
    BY ShapeInit, PastsInit, AloneInit
  <1>2. Shape /\ Pasts /\ Alone /\ [Next]_vars => (Shape /\ Pasts /\ Alone)'
    BY ShapeStep, PastsStep, AloneStep
  <1>3. Alone => LoneAnswersAreDurable
    BY DEF Alone, LoneAnswersAreDurable
  <1>4. QED
    BY <1>1, <1>2, <1>3, PTL DEF Spec

=============================================================================
