---------------------------- MODULE MCLifecycle ----------------------------
(* Small instances of Lifecycle.  A torrent name can be reused when nothing   *)
(* points to it, and at most one per hash and one per goroutine are pointed   *)
(* to at once, so |Hash| + |Proc| names are enough.                           *)
EXTENDS Lifecycle, TLC
CONSTANTS p1, p2, h1, h2, t1, t2, t3, t4
TwoProcs  == {p1, p2}
OneHash   == {h1}
TwoHashes == {h1, h2}
Torrents3 == {t1, t2, t3}
Torrents4 == {t1, t2, t3, t4}
SymTwo   == Permutations(TwoProcs) \cup Permutations(Torrents4) \cup Permutations(TwoHashes)
=============================================================================
