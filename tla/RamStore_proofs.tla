-------------------------- MODULE RamStore_proofs --------------------------
(* Proofs about RamStore, for any torrents, pieces, lengths and budget.       *)
(*                                                                            *)
(* The resident pieces are always finitely many and strictly ordered by their *)
(* last use.  So the victims of an eviction are the oldest pieces that can be *)
(* evicted: whoever is older than a victim is one too, and the oldest of      *)
(* those that stay shows that enough has gone.                                *)
EXTENDS RamStore, TLAPS, FiniteSetTheorems

-----------------------------------------------------------------------------
(* Bytes.                                                                     *)

(* Finitely many pieces weigh a finite number of bytes.                       *)
LEMMA BytesType ==
    ASSUME NEW S \in SUBSET Piece, IsFiniteSet(S)
    PROVE  IsFiniteSet(BytesOf(S)) /\ Bytes(S) \in Nat
<1> DEFINE one == [p \in S |-> {p} \X (1 .. Length[p])]
           all == {one[p] : p \in S}
<1>1. IsFiniteSet(all)
  <2>1. one \in Surjection(S, all)
    BY DEF Surjection
  <2> QED  BY <2>1, FS_Surjection
<1>2. ASSUME NEW p \in S PROVE IsFiniteSet(one[p])
  <2>1. 1 \in Int /\ Length[p] \in Int
    BY PieceAssumption
  <2>2. IsFiniteSet({p}) /\ IsFiniteSet(1 .. Length[p])
    BY <2>1, FS_Singleton, FS_Interval
  <2>3. IsFiniteSet({p} \X (1 .. Length[p]))
    BY <2>2, FS_Product
  <2> QED  BY <2>3
<1>3. IsFiniteSet(UNION all)
  BY <1>1, <1>2, FS_UNION
<1>4. UNION all = BytesOf(S)
  BY DEF BytesOf
<1> QED  BY <1>3, <1>4, FS_CardinalityType DEF Bytes

(* Different pieces share no bytes.                                           *)
LEMMA BytesUnion ==
    ASSUME NEW S \in SUBSET Piece, IsFiniteSet(S),
           NEW T \in SUBSET Piece, IsFiniteSet(T), S \cap T = {}
    PROVE  Bytes(S \cup T) = Bytes(S) + Bytes(T)
<1>1. BytesOf(S \cup T) = BytesOf(S) \cup BytesOf(T)
  BY DEF BytesOf
<1>2. BytesOf(S) \cap BytesOf(T) = {}
  BY DEF BytesOf
<1>3. /\ IsFiniteSet(BytesOf(S)) /\ Bytes(S) \in Nat
      /\ IsFiniteSet(BytesOf(T)) /\ Bytes(T) \in Nat
  BY BytesType
<1>4. Cardinality(BytesOf(S) \cup BytesOf(T))
        = Bytes(S) + Bytes(T) - Cardinality({})
  BY <1>2, <1>3, FS_Union DEF Bytes
<1>5. Bytes(S \cup T) = Bytes(S) + Bytes(T) - Cardinality({})
  BY <1>1, <1>4 DEF Bytes
<1>6. Cardinality({}) = 0
  BY FS_EmptySet
<1> QED  BY <1>3, <1>5, <1>6

(* What is taken away weighs what is missing.                                 *)
LEMMA BytesDifference ==
    ASSUME NEW S \in SUBSET Piece, IsFiniteSet(S), NEW V \in SUBSET S
    PROVE  /\ IsFiniteSet(V) /\ IsFiniteSet(S \ V)
           /\ Bytes(S \ V) = Bytes(S) - Bytes(V)
           /\ Bytes(V) <= Bytes(S)
           /\ Bytes(V) \in Nat /\ Bytes(S \ V) \in Nat
<1>1. IsFiniteSet(V) /\ IsFiniteSet(S \ V)
  BY FS_Subset, FS_Difference
<1>2. Bytes((S \ V) \cup V) = Bytes(S \ V) + Bytes(V)
  BY <1>1, BytesUnion
<1>3. Bytes((S \ V) \cup V) = Bytes(S)
  <2>1. (S \ V) \cup V = S
    OBVIOUS
  <2> QED  BY <2>1
<1>4. Bytes(V) \in Nat /\ Bytes(S \ V) \in Nat
  BY <1>1, BytesType
<1> QED  BY <1>1, <1>2, <1>3, <1>4

(* One piece weighs its length.                                               *)
LEMMA BytesOne ==
    ASSUME NEW p \in Piece
    PROVE  Bytes({p}) = Length[p]
<1>1. Length[p] \in Nat \ {0}
  BY PieceAssumption
<1>2. BytesOf({p}) = {p} \X (1 .. Length[p])
  BY DEF BytesOf
<1>3. Cardinality({p} \X (1 .. Length[p])) = 1 * Length[p]
  <2>1. IsFiniteSet({p}) /\ Cardinality({p}) = 1
    BY FS_Singleton
  <2>2. IsFiniteSet(1 .. Length[p]) /\ Cardinality(1 .. Length[p]) = Length[p]
    <3>1. 1 \in Int /\ Length[p] \in Int /\ ~(1 > Length[p])
      BY <1>1
    <3>2. /\ IsFiniteSet(1 .. Length[p])
          /\ Cardinality(1 .. Length[p]) = IF 1 > Length[p] THEN 0 ELSE Length[p] - 1 + 1
      BY <3>1, FS_Interval
    <3> QED  BY <1>1, <3>1, <3>2
  <2>3. Cardinality({p} \X (1 .. Length[p])) = Cardinality({p}) * Cardinality(1 .. Length[p])
    BY <2>1, <2>2, FS_Product
  <2> QED  BY <2>1, <2>2, <2>3
<1>4. 1 * Length[p] = Length[p]
  BY <1>1
<1> QED  BY <1>2, <1>3, <1>4 DEF Bytes

(* Nothing weighs nothing.                                                    *)
LEMMA BytesNone == Bytes({}) = 0
<1>1. BytesOf({}) = {}
  BY DEF BytesOf
<1> QED  BY <1>1, FS_EmptySet DEF Bytes

-----------------------------------------------------------------------------
(* The order of last use.                                                     *)

Ordered(S, o) == /\ o \subseteq S \X S
                 /\ \A p \in S : <<p, p>> \notin o
                 /\ \A p, q \in S : p # q => <<p, q>> \in o \/ <<q, p>> \in o
                 /\ \A p, q, r \in S : <<p, q>> \in o /\ <<q, r>> \in o => <<p, r>> \in o

(* The piece just used becomes the last one.                                  *)
LEMMA TouchedOrdered ==
    ASSUME NEW S, NEW p \in S, Ordered(S \ {p}, {r \in older : r[1] # p /\ r[2] # p})
    PROVE  Ordered(S, Touched(S, p))
BY DEF Ordered, Touched

(* An order stays one without some of its pieces.                             *)
LEMMA WithoutOrdered ==
    ASSUME NEW S, NEW o, NEW V, Ordered(S, o)
    PROVE  Ordered(S \ V, Without(o, V))
BY DEF Ordered, Without

(* Of some ordered pieces one is the oldest.                                  *)
LEMMA Oldest ==
    ASSUME NEW S, IsFiniteSet(S), NEW o, Ordered(S, o),
           NEW T \in SUBSET S, T # {}
    PROVE  \E p \in T : \A q \in T : <<q, p>> \notin o
<1> DEFINE before(p) == {q \in S : <<q, p>> \in o}
           B == {before(p) : p \in T}
<1>1. B \subseteq FiniteSubsetsOf(S) /\ B # {}
  <2>1. B \subseteq SUBSET S /\ B # {}
    OBVIOUS
  <2> QED  BY <2>1, FS_FiniteSubsetsOfFinite
<1>2. PICK b \in B : \A c \in B : <<c, b>> \notin StrictSubsetOrdering(S)
  BY <1>1, FS_StrictSubsetOrderingWellFounded, WFMin
<1>3. PICK p \in T : b = before(p)
  OBVIOUS
<1>4. ASSUME NEW q \in T, <<q, p>> \in o PROVE FALSE
  <2>1. before(q) \subseteq before(p) /\ q \in before(p) /\ q \notin before(q)
    BY <1>4 DEF Ordered
  <2>2. <<before(q), before(p)>> \in StrictSubsetOrdering(S)
    <3>1. before(p) \in SUBSET S /\ before(q) \in SUBSET S
      OBVIOUS
    <3> HIDE DEF before
    <3> QED  BY <2>1, <3>1 DEF StrictSubsetOrdering
  <2> QED  BY <1>2, <1>3, <2>2
<1> QED  BY <1>4

-----------------------------------------------------------------------------
(* What is older than a piece of S, of E.                                     *)
Elder(E, o, p) == {q \in E : <<q, p>> \in o}

(* Of what can be evicted, the oldest go, as many as need to: what is left is *)
(* within the budget if anything that could be evicted stays, and would not   *)
(* be without any one victim and those younger than it.                       *)
LEMMA EvictedOldest ==
    ASSUME NEW S \in SUBSET Piece, IsFiniteSet(S), NEW o, Ordered(S, o),
           NEW u \in Nat, NEW keep, NEW V, V = Evicted(S, o, u, keep)
    PROVE  LET E == Evictable(S, keep) IN
           /\ V \subseteq E
           /\ \A p \in V, q \in E : <<q, p>> \in o => q \in V
           /\ \A p \in V : u - Bytes(V) + Bytes({q \in V : q = p \/ <<p, q>> \in o}) > MaxBytes
           /\ u - Bytes(V) <= MaxBytes \/ V = E
<1> DEFINE E == Evictable(S, keep)
<1>1. E \in SUBSET S /\ IsFiniteSet(E)
  BY FS_Subset DEF Evictable
<1>2. V = {p \in E : u - Bytes(Elder(E, o, p)) > MaxBytes}
  BY DEF Evicted, Elder
<1>3. MaxBytes \in Nat
  BY PieceAssumption
<1>4. ASSUME NEW p \in V, NEW q \in E, <<q, p>> \in o PROVE q \in V
  <2>1. Elder(E, o, q) \subseteq Elder(E, o, p)
    BY <1>1, <1>2, <1>4 DEF Elder, Ordered
  <2>2. /\ Elder(E, o, p) \in SUBSET Piece /\ IsFiniteSet(Elder(E, o, p))
        /\ Bytes(Elder(E, o, p)) \in Nat
    BY <1>1, FS_Subset, BytesType DEF Elder
  <2>3. /\ Bytes(Elder(E, o, q)) <= Bytes(Elder(E, o, p))
        /\ Bytes(Elder(E, o, q)) \in Nat
    BY <2>1, <2>2, BytesDifference
  <2>4. u - Bytes(Elder(E, o, p)) > MaxBytes
    BY <1>2
  <2>5. u - Bytes(Elder(E, o, q)) > MaxBytes
    BY <1>3, <2>2, <2>3, <2>4
  <2> QED  BY <1>2, <2>5
<1>5. V \in SUBSET Piece /\ IsFiniteSet(V) /\ Bytes(V) \in Nat
  BY <1>1, <1>2, FS_Subset, BytesType
<1>6. ASSUME NEW p \in V
      PROVE  u - Bytes(V) + Bytes({q \in V : q = p \/ <<p, q>> \in o}) > MaxBytes
  <2> DEFINE W == {q \in V : q = p \/ <<p, q>> \in o}
  <2>1. V \ W = Elder(E, o, p)
    BY <1>1, <1>2, <1>4 DEF Elder, Ordered
  <2>2. W \in SUBSET V
    OBVIOUS
  <2>3. /\ Bytes(V \ W) = Bytes(V) - Bytes(W)
        /\ Bytes(W) \in Nat
    BY <1>5, <2>2, BytesDifference
  <2>4. u - Bytes(V \ W) > MaxBytes
    BY <1>2, <2>1
  <2> HIDE DEF W
  <2>5. u - Bytes(V) + Bytes(W) > MaxBytes
    BY <1>3, <1>5, <2>3, <2>4
  <2> QED  BY <2>5 DEF W
<1>7. ASSUME V # E PROVE u - Bytes(V) <= MaxBytes
  <2>1. E \ V # {} /\ E \ V \in SUBSET S
    BY <1>1, <1>2, <1>7
  <2>2. PICK p \in E \ V : \A q \in E \ V : <<q, p>> \notin o
    BY <2>1, Oldest
  <2>3. Elder(E, o, p) \in SUBSET V
    BY <2>2 DEF Elder
  <2>4. /\ Bytes(Elder(E, o, p)) <= Bytes(V)
        /\ Bytes(Elder(E, o, p)) \in Nat
    BY <1>5, <2>3, BytesDifference
  <2>5. ~(u - Bytes(Elder(E, o, p)) > MaxBytes)
    BY <1>2, <2>2
  <2> QED  BY <1>3, <1>5, <2>4, <2>5
<1> QED  BY <1>2, <1>4, <1>6, <1>7

-----------------------------------------------------------------------------
(* The invariant.                                                             *)

Ranked == IsFiniteSet(resident) /\ Ordered(resident, older)

(* What the client has of a piece is in memory; a piece it is hashing, or has *)
(* completed, it has all of.                                                  *)
Whole == /\ \A p \in Piece : have[p] # {} => p \in resident
         /\ \A p \in pieces : complete[p] => have[p] = Chunk
         /\ \A p \in hashing : p \in pieces /\ have[p] = Chunk /\ ~complete[p]

RInv == TypeOK /\ Accounting /\ Ranked /\ Whole

(* The store is empty at first.                                               *)
LEMMA InitRInv == Init => RInv
<1> SUFFICES ASSUME Init PROVE RInv
  OBVIOUS
<1>1. TypeOK /\ Whole
  BY DEF Init, TypeOK, Whole
<1>2. Accounting
  BY BytesNone DEF Init, Accounting
<1>3. Ranked
  BY FS_EmptySet DEF Init, Ranked, Ordered
<1> QED  BY <1>1, <1>2, <1>3 DEF RInv

-----------------------------------------------------------------------------
(* The steps.                                                                 *)

(* An order of pieces, one of them set aside.                                 *)
LEMMA RestOrdered ==
    ASSUME NEW p, Ordered(resident, older)
    PROVE  Ordered(resident \ {p}, {r \in older : r[1] # p /\ r[2] # p})
BY DEF Ordered

(* What a write has to account for, before it evicts.                         *)
LEMMA WriteGrows ==
    ASSUME RInv, NEW p \in pieces, NEW c \in Chunk, WriteAt(p, c)
    PROVE  LET S == resident \cup {p}
               u == used + (IF p \in resident THEN 0 ELSE Length[p])
           IN  /\ S \in SUBSET Piece /\ S \subseteq pieces /\ IsFiniteSet(S)
               /\ u \in Nat /\ u = Bytes(S)
               /\ Ordered(S, Touched(S, p))
<1> DEFINE S == resident \cup {p}
           u == used + (IF p \in resident THEN 0 ELSE Length[p])
<1>1. S \in SUBSET Piece /\ S \subseteq pieces
  BY DEF RInv, TypeOK, Accounting
<1>2. p \in Piece /\ resident \in SUBSET Piece /\ IsFiniteSet(resident)
  BY DEF RInv, TypeOK, Ranked
<1>3. IsFiniteSet({p}) /\ IsFiniteSet(S)
  BY <1>2, FS_Singleton, FS_Union
<1>4. Bytes(S) \in Nat /\ Bytes(resident) \in Nat /\ used = Bytes(resident)
  BY <1>1, <1>2, <1>3, BytesType DEF RInv, Accounting
<1>5. u = Bytes(S)
  <2>1. CASE p \in resident
    <3>1. S = resident
      BY <2>1
    <3>2. Bytes(S) = used
      BY <3>1, <1>4
    <3>3. u = used + 0
      BY <2>1
    <3> QED  BY <3>2, <3>3, <1>4
  <2>2. CASE p \notin resident
    <3>1. resident \cap {p} = {}
      BY <2>2
    <3>2. Bytes(S) = Bytes(resident) + Bytes({p})
      BY <1>2, <1>3, <3>1, BytesUnion
    <3>3. Bytes({p}) = Length[p]
      BY <1>2, BytesOne
    <3> QED  BY <2>2, <3>2, <3>3, <1>4
  <2> QED  BY <2>1, <2>2
<1>6. Ordered(S, Touched(S, p))
  <2>1. S \ {p} = resident \ {p}
    OBVIOUS
  <2>2. Ordered(S \ {p}, {r \in older : r[1] # p /\ r[2] # p})
    BY <2>1, RestOrdered DEF RInv, Ranked
  <2> HIDE DEF S
  <2>3. p \in S
    BY DEF S
  <2> QED  BY <2>2, <2>3, TouchedOrdered
<1>7. u \in Nat
  BY <1>4, <1>5
<1> QED  BY <1>1, <1>3, <1>5, <1>6, <1>7

(* A write evicts only complete pieces, and neither the piece written to.     *)
LEMMA WriteInv ==
    ASSUME RInv, NEW p \in pieces, NEW c \in Chunk, WriteAt(p, c)
    PROVE  RInv'
<1> DEFINE S == resident \cup {p}
           u == used + (IF p \in resident THEN 0 ELSE Length[p])
           o == Touched(S, p)
           V == Evicted(S, o, u, p)
<1>1. /\ S \in SUBSET Piece /\ S \subseteq pieces /\ IsFiniteSet(S)
      /\ u \in Nat /\ u = Bytes(S)
      /\ Ordered(S, o)
  BY WriteGrows
<1>2. /\ used' = u - Bytes(V) /\ resident' = S \ V /\ older' = Without(o, V)
      /\ have' = [q \in Piece |-> IF q \in V THEN {}
                                  ELSE IF q = p THEN have[p] \cup {c} ELSE have[q]]
      /\ complete' = [q \in Piece |-> q \notin V /\ complete[q]]
      /\ UNCHANGED <<pieces, hashing>>
      /\ p \notin hashing /\ ~(complete[p] /\ p \in resident)
  BY DEF WriteAt
<1>3. V \subseteq S /\ p \notin V /\ \A q \in V : complete[q]
  BY DEF Evicted, Evictable
<1>4. /\ Bytes(S \ V) = Bytes(S) - Bytes(V)
      /\ Bytes(S \ V) \in Nat
      /\ IsFiniteSet(S \ V)
  <2> HIDE DEF S, V
  <2> QED  BY <1>1, <1>3, BytesDifference
<1>5. Ordered(S \ V, Without(o, V))
  <2> HIDE DEF S, V, o
  <2> QED  BY <1>1, WithoutOrdered
<1> HIDE DEF S, V, o, u
<1>6. used' = Bytes(resident')
  BY <1>1, <1>2, <1>4
<1>7. Bytes(resident') = Bytes(resident)'
  BY DEF Bytes, BytesOf
<1>8. used' \in Nat
  BY <1>1, <1>2, <1>4
<1>9. Ranked'
  BY <1>2, <1>4, <1>5 DEF Ranked, Ordered
<1>10. TypeOK'
  <2>1. older' \in SUBSET (Piece \X Piece)
    BY <1>1, <1>2, <1>5 DEF Ordered
  <2>2. have' \in [Piece -> SUBSET Chunk] /\ complete' \in [Piece -> BOOLEAN]
    BY <1>2, <1>1 DEF RInv, TypeOK
  <2> QED  BY <1>1, <1>2, <1>8, <2>1, <2>2 DEF RInv, TypeOK
<1>11. Accounting'
  BY <1>1, <1>2, <1>6, <1>7 DEF Accounting
<1>12. Whole'
  <2>1. ASSUME NEW q \in Piece, have'[q] # {} PROVE q \in resident'
    BY <2>1, <1>2 DEF RInv, Whole, S
  <2>2. ASSUME NEW q \in pieces, complete'[q] PROVE have'[q] = Chunk
    <3>1. q \in Piece
      BY DEF RInv, TypeOK
    <3>2. have[q] = Chunk /\ q \notin V
      BY <2>2, <1>2, <3>1 DEF RInv, Whole
    <3> QED  BY <1>2, <3>1, <3>2
  <2>3. ASSUME NEW q \in hashing PROVE q \in pieces /\ have'[q] = Chunk /\ ~complete'[q]
    <3>1. q \in Piece /\ q \in pieces /\ have[q] = Chunk /\ ~complete[q] /\ q # p
      BY <1>2, <2>3 DEF RInv, Whole, TypeOK
    <3>2. q \notin V
      BY <3>1, <1>3
    <3> QED  BY <1>2, <3>1, <3>2
  <2> QED  BY <2>1, <2>2, <2>3, <1>2 DEF Whole
<1> QED  BY <1>9, <1>10, <1>11, <1>12 DEF RInv

(* Reading a piece makes it the last one used.                                *)
LEMMA ReadInv ==
    ASSUME RInv, NEW p \in Piece, ReadAt(p)
    PROVE  RInv'
<1>1. Ordered(resident, Touched(resident, p))
  <2>1. p \in resident /\ Ordered(resident, older)
    BY DEF ReadAt, RInv, Ranked
  <2>2. Ordered(resident \ {p}, {r \in older : r[1] # p /\ r[2] # p})
    BY <2>1, RestOrdered
  <2> QED  BY <2>1, <2>2, TouchedOrdered
<1>2. /\ older' = Touched(resident, p)
      /\ UNCHANGED <<pieces, used, resident, complete, have, hashing>>
  BY DEF ReadAt
<1>3. TypeOK'
  <2>1. older' \in SUBSET (Piece \X Piece)
    BY <1>1, <1>2 DEF RInv, TypeOK, Ordered
  <2> QED  BY <1>2, <2>1 DEF RInv, TypeOK
<1>4. Accounting'
  BY <1>2 DEF RInv, Accounting, Bytes, BytesOf
<1>5. Ranked'
  BY <1>1, <1>2 DEF RInv, Ranked, Ordered
<1>6. Whole'
  BY <1>2 DEF RInv, Whole
<1> QED  BY <1>3, <1>4, <1>5, <1>6 DEF RInv

(* Closing a torrent gives back what its resident pieces weigh.               *)
LEMMA CloseInv ==
    ASSUME RInv, NEW t \in Torrent, Close(t)
    PROVE  RInv'
<1> DEFINE P == {p \in pieces : Of[p] = t}
<1>1. /\ used' = used - Bytes(P \cap resident) /\ pieces' = pieces \ P
      /\ resident' = resident \ P /\ older' = Without(older, P)
      /\ have' = [p \in Piece |-> IF p \in P THEN {} ELSE have[p]]
      /\ hashing' = hashing \ P /\ UNCHANGED complete
  BY DEF Close
<1>2. /\ resident \in SUBSET Piece /\ IsFiniteSet(resident)
      /\ used = Bytes(resident) /\ resident \subseteq pieces
  BY DEF RInv, TypeOK, Ranked, Accounting
<1> HIDE DEF P
<1>3. P \cap resident \in SUBSET resident /\ resident \ (P \cap resident) = resident \ P
  OBVIOUS
<1>4. /\ Bytes(resident \ P) = used - Bytes(P \cap resident)
      /\ Bytes(resident \ P) \in Nat /\ IsFiniteSet(resident \ P)
  BY <1>2, <1>3, BytesDifference
<1>5. Ordered(resident \ P, Without(older, P))
  BY WithoutOrdered DEF RInv, Ranked
<1>6. used' = Bytes(resident') /\ Bytes(resident') = Bytes(resident)' /\ used' \in Nat
  BY <1>1, <1>4 DEF Bytes, BytesOf
<1>7. TypeOK'
  <2>1. older' \in SUBSET (Piece \X Piece)
    BY <1>1, <1>2, <1>5 DEF Ordered
  <2>2. have' \in [Piece -> SUBSET Chunk]
    BY <1>1 DEF RInv, TypeOK
  <2> QED  BY <1>1, <1>6, <2>1, <2>2 DEF RInv, TypeOK
<1>8. Accounting'
  BY <1>1, <1>2, <1>6 DEF Accounting
<1>9. Ranked'
  BY <1>1, <1>4, <1>5 DEF Ranked, Ordered
<1>10. Whole'
  BY <1>1 DEF RInv, Whole, TypeOK
<1> QED  BY <1>7, <1>8, <1>9, <1>10 DEF RInv

(* The other steps leave the memory as it is.                                 *)
LEMMA FlagInv ==
    ASSUME RInv, NEW p \in Piece,
           NewPiece(p) \/ Hash(p) \/ MarkComplete(p) \/ MarkNotComplete(p)
    PROVE  RInv'
<1>1. UNCHANGED <<used, resident, older>> /\ pieces \subseteq pieces'
  BY DEF NewPiece, Hash, MarkComplete, MarkNotComplete
<1>2. TypeOK'
  BY DEF RInv, TypeOK, NewPiece, Hash, MarkComplete, MarkNotComplete
<1>3. Accounting'
  BY <1>1 DEF RInv, Accounting, Bytes, BytesOf
<1>4. Ranked'
  BY <1>1 DEF RInv, Ranked, Ordered
<1>5. Whole'
  <2>1. CASE NewPiece(p)
    BY <2>1 DEF NewPiece, RInv, Whole, TypeOK
  <2>2. CASE Hash(p)
    BY <2>2 DEF Hash, RInv, Whole, TypeOK
  <2>3. CASE MarkComplete(p)
    BY <2>3 DEF MarkComplete, RInv, Whole, TypeOK
  <2>4. CASE MarkNotComplete(p)
    BY <2>4 DEF MarkNotComplete, RInv, Whole, TypeOK
  <2> QED  BY <2>1, <2>2, <2>3, <2>4
<1> QED  BY <1>2, <1>3, <1>4, <1>5 DEF RInv

(* Every step keeps the invariant.                                            *)
LEMMA StepRInv == RInv /\ [Next]_vars => RInv'
<1> SUFFICES ASSUME RInv, [Next]_vars PROVE RInv'
  OBVIOUS
<1>1. CASE UNCHANGED vars
  BY <1>1 DEF vars, RInv, TypeOK, Accounting, Bytes, BytesOf, Ranked, Ordered, Whole
<1>2. ASSUME NEW p \in Piece, NEW c \in Chunk, WriteAt(p, c) PROVE RInv'
  <2>1. p \in pieces
    BY <1>2 DEF WriteAt
  <2> QED  BY <1>2, <2>1, WriteInv
<1>3. ASSUME NEW p \in Piece, ReadAt(p) PROVE RInv'
  BY <1>3, ReadInv
<1>4. ASSUME NEW t \in Torrent, Close(t) PROVE RInv'
  BY <1>4, CloseInv
<1>5. ASSUME NEW p \in Piece,
             NewPiece(p) \/ Hash(p) \/ MarkComplete(p) \/ MarkNotComplete(p)
      PROVE  RInv'
  BY <1>5, FlagInv
<1> QED  BY <1>1, <1>2, <1>3, <1>4, <1>5 DEF Next

-----------------------------------------------------------------------------
(* What a write evicts, and leaves.                                           *)

(* A write that grows the store evicts until it is within its budget, or      *)
(* until nothing complete is left but the piece written to.                   *)
LEMMA WriteBudget ==
    ASSUME RInv, NEW p \in pieces, NEW c \in Chunk, WriteAt(p, c)
    PROVE  BudgetStep
<1> DEFINE S == resident \cup {p}
           u == used + (IF p \in resident THEN 0 ELSE Length[p])
           o == Touched(S, p)
           V == Evicted(S, o, u, p)
           E == Evictable(S, p)
<1>1. /\ S \in SUBSET Piece /\ IsFiniteSet(S) /\ u \in Nat
      /\ Ordered(S, o)
  BY WriteGrows
<1>2. /\ used' = u - Bytes(V) /\ resident' = S \ V /\ older' = Without(o, V)
      /\ complete' = [q \in Piece |-> q \notin V /\ complete[q]]
  BY DEF WriteAt
<1>3. V \subseteq E /\ (u - Bytes(V) <= MaxBytes \/ V = E)
  <2> HIDE DEF S, V, o, u
  <2>1. V = Evicted(S, o, u, p)
    BY DEF V, S, o, u
  <2> QED  BY <1>1, <2>1, EvictedOldest
<1>4. CASE V = E
  <2>1. ASSUME NEW q \in resident', complete'[q] PROVE q = p
    BY <1>1, <1>2, <1>4, <2>1 DEF Evictable
  <2>2. ASSUME NEW r \in resident' \ {p} PROVE <<r, p>> \in older'
    BY <1>2, <1>3 DEF Without, Touched, Evictable
  <2> QED  BY <2>1, <2>2 DEF BudgetStep
<1>5. CASE u - Bytes(V) <= MaxBytes
  BY <1>2, <1>5 DEF BudgetStep
<1> QED  BY <1>3, <1>4, <1>5

(* The victims of a write are the oldest complete pieces, and none of them    *)
(* could have stayed.                                                         *)
LEMMA WriteEvicts ==
    ASSUME RInv, NEW p \in pieces, NEW c \in Chunk, WriteAt(p, c)
    PROVE  EvictionStep
<1> DEFINE S == resident \cup {p}
           u == used + (IF p \in resident THEN 0 ELSE Length[p])
           o == Touched(S, p)
           V == Evicted(S, o, u, p)
           E == Evictable(S, p)
<1>1. /\ S \in SUBSET Piece /\ S \subseteq pieces /\ IsFiniteSet(S) /\ u \in Nat
      /\ Ordered(S, o)
  BY WriteGrows
<1>2. used' = u - Bytes(V) /\ resident' = S \ V /\ pieces' = pieces
  BY DEF WriteAt
<1>3. /\ V \subseteq E
      /\ \A v \in V, q \in E : <<q, v>> \in o => q \in V
      /\ \A v \in V : u - Bytes(V) + Bytes({q \in V : q = v \/ <<v, q>> \in o}) > MaxBytes
  <2> HIDE DEF S, V, o, u
  <2>1. V = Evicted(S, o, u, p)
    BY DEF V, S, o, u
  <2> QED  BY <1>1, <2>1, EvictedOldest
<1>4. ~complete[p]
  <2>1. p \in Piece /\ ~(complete[p] /\ p \in resident)
    BY DEF WriteAt, RInv, TypeOK
  <2> QED  BY <2>1, PieceAssumption DEF RInv, Whole
<1>5. \A q, r \in S : q # p /\ r # p /\ <<q, r>> \in o => <<q, r>> \in older
  BY DEF Touched
<1>6. p \notin E /\ E \subseteq S /\ \A q \in S : q \in E <=> complete[q]
  BY <1>4 DEF Evictable
<1> HIDE DEF o, V, E
<1>7. (resident \ resident') \cap pieces' = V
  BY <1>1, <1>2, <1>3, <1>6
<1> HIDE DEF S, u
<1>8. ASSUME NEW v \in V
      PROVE  /\ complete[v]
             /\ \A q \in resident' : complete[q] => <<v, q>> \in older
             /\ used' + Bytes({q \in V : q = v \/ <<v, q>> \in older}) > MaxBytes
  <2>1. complete[v]
    BY <1>3, <1>6
  <2>2. ASSUME NEW q \in resident', complete[q] PROVE <<v, q>> \in older
    <3>1. q \in E /\ q \notin V /\ v \in E /\ q # v /\ q # p /\ v # p
      BY <1>2, <1>3, <1>6, <2>2
    <3>2. <<v, q>> \in o
      BY <1>1, <1>3, <1>6, <3>1 DEF Ordered
    <3> QED  BY <1>5, <1>6, <3>1, <3>2
  <2>3. {q \in V : q = v \/ <<v, q>> \in older} = {q \in V : q = v \/ <<v, q>> \in o}
    <3>1. ASSUME NEW q \in V, <<v, q>> \in older PROVE q = v \/ <<v, q>> \in o
      <4>1. v \in resident /\ q \in resident /\ q # p /\ v # p
        BY <1>3, <1>6 DEF S
      <4> QED  BY <4>1, <3>1 DEF o, Touched
    <3>2. ASSUME NEW q \in V, <<v, q>> \in o PROVE <<v, q>> \in older
      BY <1>3, <1>5, <1>6, <3>2
    <3> QED  BY <3>1, <3>2
  <2>4. u - Bytes(V) + Bytes({q \in V : q = v \/ <<v, q>> \in o}) > MaxBytes
    BY <1>3
  <2>5. used' + Bytes({q \in V : q = v \/ <<v, q>> \in older}) > MaxBytes
    BY <1>2, <2>3, <2>4
  <2> QED  BY <2>1, <2>2, <2>5
<1> QED  BY <1>7, <1>8 DEF EvictionStep

(* No other step grows the store, or takes a piece out of it whose torrent    *)
(* stays open.                                                                *)
LEMMA OtherSteps ==
    ASSUME RInv, [Next]_vars
    PROVE  \/ \E p \in pieces, c \in Chunk : WriteAt(p, c)
           \/ BudgetStep /\ EvictionStep
<1>1. used \in Nat /\ resident \in SUBSET Piece /\ IsFiniteSet(resident) /\ used = Bytes(resident)
  BY DEF RInv, TypeOK, Accounting, Ranked
<1>2. ASSUME used' = used, resident' = resident PROVE BudgetStep /\ EvictionStep
  BY <1>1, <1>2 DEF BudgetStep, EvictionStep
<1>3. ASSUME NEW t \in Torrent, Close(t) PROVE BudgetStep /\ EvictionStep
  <2> DEFINE P == {p \in pieces : Of[p] = t}
  <2>1. /\ used' = used - Bytes(P \cap resident) /\ pieces' = pieces \ P
        /\ resident' = resident \ P
    BY <1>3 DEF Close
  <2> HIDE DEF P
  <2>2. P \cap resident \in SUBSET resident
    OBVIOUS
  <2>3. Bytes(P \cap resident) \in Nat
    BY <1>1, <2>2, BytesDifference
  <2>4. BudgetStep
    BY <1>1, <2>1, <2>3 DEF BudgetStep
  <2>5. (resident \ resident') \cap pieces' = {}
    BY <2>1
  <2>6. EvictionStep
    BY <2>5 DEF EvictionStep
  <2> QED  BY <2>4, <2>6
<1>4. CASE UNCHANGED vars
  BY <1>2, <1>4 DEF vars
<1>5. ASSUME NEW p \in Piece,
             NewPiece(p) \/ ReadAt(p) \/ Hash(p) \/ MarkComplete(p) \/ MarkNotComplete(p)
      PROVE  BudgetStep /\ EvictionStep
  BY <1>2, <1>5 DEF NewPiece, ReadAt, Hash, MarkComplete, MarkNotComplete
<1>6. ASSUME NEW p \in Piece, NEW c \in Chunk, WriteAt(p, c) PROVE p \in pieces
  BY <1>6 DEF WriteAt
<1> QED  BY <1>3, <1>4, <1>5, <1>6 DEF Next

-----------------------------------------------------------------------------
(* The invariant holds in every state.                                        *)
THEOREM Invariant == Spec => []RInv
<1>1. Init => RInv
  BY InitRInv
<1>2. RInv /\ [Next]_vars => RInv'
  BY StepRInv
<1> QED  BY <1>1, <1>2, PTL DEF Spec

(* The store is of the types of storage_ram.go:21-47; above all, used is      *)
(* never negative.                                                            *)
THEOREM TypeCorrect == Spec => []TypeOK
<1>1. RInv => TypeOK
  BY DEF RInv
<1> QED  BY <1>1, Invariant, PTL

(* The accounting never drifts: after any writes, evictions, refetches and    *)
(* closes, used is the number of bytes of the resident pieces, and a closed   *)
(* torrent has none of them (storage_ram.go:72-88, 130-170).                  *)
THEOREM Accounted == Spec => []Accounting
<1>1. RInv => Accounting
  BY DEF RInv
<1> QED  BY <1>1, Invariant, PTL

(* A piece that Completion() reports complete, and that is resident, is whole *)
(* (storage_ram.go:92-104, 130-170).                                          *)
THEOREM CompleteWhole == Spec => []CompleteIsWhole
<1>1. RInv => CompleteIsWhole
  BY DEF RInv, Whole, CompleteIsWhole
<1> QED  BY <1>1, Invariant, PTL

(* A write that grows the store leaves it within the budget, or with nothing  *)
(* to evict but the piece just written to (storage_ram.go:148-169).           *)
THEOREM WithinBudget == Spec => BudgetAfterWrite
<1>1. RInv /\ [Next]_vars => BudgetStep
  BY WriteBudget, OtherSteps
<1>2. RInv /\ [Next]_vars => [BudgetStep]_vars
  BY <1>1
<1> QED  BY <1>2, Invariant, PTL DEF Spec, BudgetAfterWrite

(* Eviction is least recently used first, among complete pieces, and stops as *)
(* soon as the budget is met (storage_ram.go:148-169).                        *)
THEOREM LeastRecentlyUsed == Spec => EvictsOldest
<1>1. RInv /\ [Next]_vars => EvictionStep
  BY WriteEvicts, OtherSteps
<1>2. RInv /\ [Next]_vars => [EvictionStep]_vars
  BY <1>1
<1> QED  BY <1>2, Invariant, PTL DEF Spec, EvictsOldest

=============================================================================
