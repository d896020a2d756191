----------------------------- MODULE MCShutdown -----------------------------
(* Engine.Close against two goroutines and one infohash.             *)
EXTENDS Shutdown, TLC
CONSTANTS p1, p2, h1, t1, t2, t3
TwoProcs  == {p1, p2}
OneHash   == {h1}
Torrents3 == {t1, t2, t3}
Symmetry  == Permutations(TwoProcs) \cup Permutations(Torrents3)
=============================================================================
