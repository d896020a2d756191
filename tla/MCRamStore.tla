----------------------------- MODULE MCRamStore -----------------------------
(* Two torrents, one with two pieces of two bytes and one with two of one,    *)
(* each written by two chunks.  The budget of three bytes is passed with any  *)
(* three pieces in memory and with both long ones.                            *)
EXTENDS RamStore
CONSTANTS t1, t2, a1, a2, b1, b2, c1, c2
MCTorrent == {t1, t2}
MCPiece   == {a1, a2, b1, b2}
MCOf      == [p \in MCPiece |-> IF p \in {a1, a2} THEN t1 ELSE t2]
MCLength  == [p \in MCPiece |-> IF p \in {a1, a2} THEN 2 ELSE 1]
MCChunk   == {c1, c2}
=============================================================================
