----------------------------- MODULE MCHashLock -----------------------------
(* Three goroutines over two infohashes.  As many entries as goroutines is    *)
(* enough: every entry in use has a goroutine pointing to it.                 *)
EXTENDS HashLock
CONSTANTS p1, p2, p3, h1, h2, e1, e2, e3
MCProc  == {p1, p2, p3}
MCHash  == {h1, h2}
MCEntry == {e1, e2, e3}
=============================================================================
