SPECIFICATION Spec
CONSTANTS
    t1 = t1  t2 = t2
    a1 = a1  a2 = a2  b1 = b1  b2 = b2
    c1 = c1  c2 = c2
    Torrent <- MCTorrent
    Piece <- MCPiece
    Of <- MCOf
    Length <- MCLength
    Chunk <- MCChunk
    MaxBytes = 3
INVARIANTS
    OverBudgetOnlyInFlight
