CONSTANTS
    w1 = w1
    w2 = w2
    m1 = m1
    Workers = {w1, w2}
    Models = {m1}
    NoLabel = NoLabel
    Pairs <- Labelled
    va = va
    vb = vb
    Votes = {va, vb}
    Unvoted = Unvoted
    MaxRounds = 2
    MaxMoves = 1
SPECIFICATION Spec
INVARIANTS
    TypeOK
    FileIsAPast
    LoneAnswersAreDurable
    BlindUntilRevealed
SYMMETRY Symmetric
