------------------------------ MODULE RamStore ------------------------------
(* The in-memory piece store of internal/engine/storage_ram.go: a byte budget *)
(* shared by all torrents, enforced by WriteAt, which evicts the least        *)
(* recently used complete pieces.                                             *)
(*                                                                            *)
(* Every method runs under store.mu and is one action.  clock and lastUsed    *)
(* only order the resident pieces, so they are a relation between these.      *)
(* The pieces with data are those in s.pieces.                                *)
(*                                                                            *)
(* The caller is the torrent client (external): it writes the chunks of a     *)
(* piece in any order and within its length, hashes a piece when it has all   *)
(* of it, marks it complete if the hash is right and starts it over if not,   *)
(* and uses no piece of a torrent once it closes that torrent's storage.      *)
EXTENDS Integers, FiniteSets

CONSTANTS Torrent,      \* ramTorrent objects
          Piece,        \* ramPiece objects
          Of,           \* the torrent of each piece
          Length,       \* p.length
          Chunk,        \* what a piece is written by
          MaxBytes      \* s.maxBytes

ASSUME PieceAssumption == /\ Of     \in [Piece -> Torrent]
                          /\ Length \in [Piece -> Nat \ {0}]
                          /\ MaxBytes \in Nat
                          /\ Chunk # {}

VARIABLES pieces,    \* the pieces some t.pieces has
          used,      \* s.used
          resident,  \* the pieces with p.data, which are those in s.pieces
          older,     \* <<p, q>>: p.lastUsed < q.lastUsed
          complete,  \* p.complete
          have,      \* chunks in p.data that the client has not found bad
          hashing    \* pieces the client is hashing (external)

vars == <<pieces, used, resident, older, complete, have, hashing>>

(* What the pieces of S weigh: each of their bytes, counted.                  *)
BytesOf(S) == UNION {{p} \X (1 .. Length[p]) : p \in S}
Bytes(S)   == Cardinality(BytesOf(S))

Init == /\ pieces   = {}
        /\ used     = 0
        /\ resident = {}
        /\ older    = {}
        /\ complete = [p \in Piece |-> FALSE]
        /\ have     = [p \in Piece |-> {}]
        /\ hashing  = {}

(* t.piece(p): a new ramPiece for an index asked for the first time.          *)
NewPiece(p) == /\ p \notin pieces
               /\ pieces'   = pieces \cup {p}
               /\ complete' = [complete EXCEPT ![p] = FALSE]
               /\ UNCHANGED <<used, resident, older, have, hashing>>

(* p.lastUsed = ++clock: of the pieces of S, p is now the one used last.      *)
Touched(S, p) == {r \in older : r[1] # p /\ r[2] # p} \cup {<<q, p>> : q \in S \ {p}}
Without(o, V) == {r \in o : r[1] \notin V /\ r[2] \notin V}

(* What evictLocked(keep) may take of the pieces S.                           *)
Evictable(S, keep) == {p \in S : p # keep /\ complete[p]}

(* Mutant of Evicted: one piece at most goes (if for the loop).               *)
EvictedOne(S, o, u, keep) ==
    LET E == Evictable(S, keep)
    IN  {p \in E : u > MaxBytes /\ \A q \in E \ {p} : <<p, q>> \in o}

(* Mutant of Evicted: the most recently used go first.                        *)
EvictedNewest(S, o, u, keep) ==
    LET E == Evictable(S, keep)
    IN  {p \in E : u - Bytes({q \in E : <<p, q>> \in o}) > MaxBytes}

(* evictLocked(keep) with u bytes in use by S, ordered by o: of those it may  *)
(* take, a piece goes if u is over budget when all older ones have gone.      *)
Evicted(S, o, u, keep) ==
    LET E == Evictable(S, keep)
    IN  {p \in E : u - Bytes({q \in E : <<q, p>> \in o}) > MaxBytes}

(* Mutant of WriteAt: eviction leaves the complete flag set.                  *)
WriteKeepsFlag(p, c) ==
    LET u == used + (IF p \in resident THEN 0 ELSE Length[p])
        S == resident \cup {p}
        o == Touched(S, p)
        V == Evicted(S, o, u, p)
    IN  /\ p \in pieces /\ p \notin hashing
        /\ ~(complete[p] /\ p \in resident)
        /\ used'     = u - Bytes(V)
        /\ resident' = S \ V
        /\ older'    = Without(o, V)
        /\ have'     = [q \in Piece |-> IF q \in V THEN {}
                                        ELSE IF q = p THEN have[p] \cup {c}
                                        ELSE have[q]]
        /\ UNCHANGED <<pieces, complete, hashing>>

(* p.WriteAt(chunk): allocate when not resident, copy, touch, evict.  The     *)
(* client does not write to a piece it is hashing or has completed.           *)
WriteAt(p, c) ==
    LET u == used + (IF p \in resident THEN 0 ELSE Length[p])
        S == resident \cup {p}
        o == Touched(S, p)
        V == Evicted(S, o, u, p)
    IN  /\ p \in pieces /\ p \notin hashing
        /\ ~(complete[p] /\ p \in resident)
        /\ used'     = u - Bytes(V)
        /\ resident' = S \ V
        /\ older'    = Without(o, V)
        /\ have'     = [q \in Piece |-> IF q \in V THEN {}
                                        ELSE IF q = p THEN have[p] \cup {c}
                                        ELSE have[q]]
        /\ complete' = [q \in Piece |-> q \notin V /\ complete[q]]
        /\ UNCHANGED <<pieces, hashing>>

(* p.ReadAt: end of file when not resident (nothing changes), else a touch.   *)
ReadAt(p) == /\ p \in pieces /\ p \in resident
             /\ older' = Touched(resident, p)
             /\ UNCHANGED <<pieces, used, resident, complete, have, hashing>>

(* The client has all chunks of a piece that Completion() says is incomplete. *)
Hash(p) == /\ p \in pieces \ hashing
           /\ have[p] = Chunk /\ ~complete[p]
           /\ hashing' = hashing \cup {p}
           /\ UNCHANGED <<pieces, used, resident, older, complete, have>>

MarkComplete(p) == /\ p \in hashing
                   /\ hashing'  = hashing \ {p}
                   /\ complete' = [complete EXCEPT ![p] = TRUE]
                   /\ UNCHANGED <<pieces, used, resident, older, have>>

MarkNotComplete(p) == /\ p \in hashing
                      /\ hashing'  = hashing \ {p}
                      /\ complete' = [complete EXCEPT ![p] = FALSE]
                      /\ have'     = [have EXCEPT ![p] = {}]
                      /\ UNCHANGED <<pieces, used, resident, older>>

(* Mutant of Close: pieces that were evicted are freed again.                 *)
CloseFreesEvicted(t) ==
    LET P == {p \in pieces : Of[p] = t}
    IN  /\ P # {}
        /\ used'     = used - Bytes(P)
        /\ pieces'   = pieces \ P
        /\ resident' = resident \ P
        /\ older'    = Without(older, P)
        /\ have'     = [p \in Piece |-> IF p \in P THEN {} ELSE have[p]]
        /\ hashing'  = hashing \ P
        /\ UNCHANGED complete

(* Mutant of Close: the bytes of the torrent stay accounted for.              *)
CloseUncounted(t) ==
    LET P == {p \in pieces : Of[p] = t}
    IN  /\ P # {}
        /\ pieces'   = pieces \ P
        /\ resident' = resident \ P
        /\ older'    = Without(older, P)
        /\ have'     = [p \in Piece |-> IF p \in P THEN {} ELSE have[p]]
        /\ hashing'  = hashing \ P
        /\ UNCHANGED <<used, complete>>

(* t.Close(): free what is resident and forget all pieces.                    *)
Close(t) ==
    LET P == {p \in pieces : Of[p] = t}
    IN  /\ P # {}
        /\ used'     = used - Bytes(P \cap resident)
        /\ pieces'   = pieces \ P
        /\ resident' = resident \ P
        /\ older'    = Without(older, P)
        /\ have'     = [p \in Piece |-> IF p \in P THEN {} ELSE have[p]]
        /\ hashing'  = hashing \ P
        /\ UNCHANGED complete

Next == \/ \E p \in Piece : \/ NewPiece(p) \/ ReadAt(p) \/ Hash(p)
                            \/ MarkComplete(p) \/ MarkNotComplete(p)
                            \/ \E c \in Chunk : WriteAt(p, c)
        \/ \E t \in Torrent : Close(t)

Spec == Init /\ [][Next]_vars

-----------------------------------------------------------------------------
TypeOK == /\ pieces   \in SUBSET Piece
          /\ used     \in Nat
          /\ resident \in SUBSET Piece
          /\ older    \in SUBSET (Piece \X Piece)
          /\ complete \in [Piece -> BOOLEAN]
          /\ have     \in [Piece -> SUBSET Chunk]
          /\ hashing  \in SUBSET Piece

(* used is what the resident pieces weigh, each counted once, over any number *)
(* of evictions, refetches and closed torrents; a closed torrent leaves no    *)
(* bytes behind.                                                              *)
Accounting == used = Bytes(resident) /\ resident \subseteq pieces

(* What Completion() says is complete can be played: all of it is there.  A   *)
(* piece evicted and written to again is not complete before it is whole.     *)
CompleteIsWhole == \A p \in pieces : complete[p] /\ p \in resident => have[p] = Chunk

(* A write that makes the store grow leaves it within its budget, unless all  *)
(* that is left besides the piece just written is in flight                   *)
(* (storage_ram.go:148-164).                                                  *)
BudgetStep == used' > used =>
    \/ used' <= MaxBytes
    \/ \A q \in resident' : complete'[q] =>
           \A r \in resident' \ {q} : <<r, q>> \in older'
BudgetAfterWrite == [][BudgetStep]_vars

(* A piece leaves memory because its torrent closes, or it is complete, older *)
(* than every complete piece that stays, and without it and the younger       *)
(* victims gone the store would be over budget: nothing goes needlessly.      *)
EvictionStep ==
    LET victims == (resident \ resident') \cap pieces'
    IN  \A p \in victims :
          /\ complete[p]
          /\ \A q \in resident' : complete[q] => <<p, q>> \in older
          /\ used' + Bytes({q \in victims : q = p \/ <<p, q>> \in older}) > MaxBytes
EvictsOldest == [][EvictionStep]_vars

(* The store "evicts the least-recently-used complete pieces once the global  *)
(* byte budget is exceeded" (storage_ram.go:14-15): while it is exceeded, at  *)
(* most the piece last used is complete.                                      *)
OverBudgetOnlyInFlight ==
    used > MaxBytes => \A p \in resident : complete[p] =>
                          \A q \in resident \ {p} : <<q, p>> \in older
=============================================================================
