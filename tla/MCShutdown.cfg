SPECIFICATION ShutSpec
CONSTANTS
    p1 = p1  p2 = p2
    h1 = h1
    t1 = t1  t2 = t2  t3 = t3
    None = None
    Proc <- TwoProcs
    Hash <- OneHash
    Torrent <- Torrents3
    MaxActive = 1
SYMMETRY Symmetry
CHECK_DEADLOCK FALSE
INVARIANTS
    SafeUntilClientCloses
