SPECIFICATION ImpatientSpec
CONSTANTS
    p1 = p1  p2 = p2
    h1 = h1  h2 = h2
    t1 = t1  t2 = t2  t3 = t3  t4 = t4
    None = None
    Proc <- TwoProcs
    Hash <- OneHash
    Torrent <- Torrents3
    MaxActive = 1
PROPERTIES
    OperationsFinish
    ActiveOrGone
