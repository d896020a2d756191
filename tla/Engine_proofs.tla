---------------------------- MODULE Engine_proofs ----------------------------
(* What Lifecycle_proofs' invariant lets one prove of the whole engine, for   *)
(* any number of goroutines and infohashes.                                   *)
(*                                                                            *)
(* 1. m.readers is the number of streams open on m.  Counting in and out      *)
(*    keeps the equality; what could break it is Add, which starts m.readers  *)
(*    at zero.  It does so on a torrent that no other goroutine points to     *)
(*    (Fresh), because Add never gets a torrent that somebody else made       *)
(*    (NoAdoption).                                                           *)
(* 2. The sweep of the active limit closes as many of the least recently      *)
(*    played idle torrents as there are too many.  The torrents in the map    *)
(*    are finitely many, and no two were played last at the same time         *)
(*    (Sorted); so among n idle ones there is for each k < n exactly one with *)
(*    k older ones.                                                           *)
(* 3. Engine.Close does no harm to the operations in flight: emptying         *)
(*    e.managed in one section keeps the invariant up to cl.Close().          *)
EXTENDS Shutdown, Lifecycle_proofs, FiniteSetTheorems

-----------------------------------------------------------------------------
(* 1. Readers.                                                                *)

(* A torrent on its way in is known to the goroutine that brings it only.     *)
Fresh == \A p, q \in Proc : p # q /\ pc[p] \in In => tor[p] # tor[q]

RInv == IInv /\ Fresh /\ ReadersCounted

(* The streams on a torrent are finitely many.                                *)
LEMMA StreamsFinite ==
    ASSUME NEW t
    PROVE  IsFiniteSet(Streams(t)) /\ Cardinality(Streams(t)) \in Nat
<1>1. Streams(t) \in SUBSET Proc
  BY DEF Streams
<1>2. IsFiniteSet(Streams(t))
  BY <1>1, FS_Subset, ProcAssumption
<1> QED  BY <1>2, FS_CardinalityType

(* At the start there are no streams.                                         *)
LEMMA InitRInv == Init => RInv
<1> SUFFICES ASSUME Init PROVE Fresh /\ ReadersCounted
  BY InitIInv DEF RInv
<1>1. Fresh
  BY DEF Init, Fresh, In
<1>2. ASSUME NEW t \in Torrent PROVE readers[t] = Cardinality(Streams(t))
  <2>1. Streams(t) = {}
    BY DEF Init, Streams
  <2> QED  BY <2>1, FS_EmptySet DEF Init
<1> QED  BY <1>1, <1>2 DEF ReadersCounted

(* A goroutine that comes by no pointer, or by that of a managed torrent,     *)
(* does not meet a torrent on its way in.                                     *)
LEMMA FreshKept ==
    ASSUME IInv, TypeOK', Fresh, NEW p \in Proc,
           \A q \in Proc \ {p} : pc'[q] = pc[q] /\ tor'[q] = tor[q],
           pc'[p] \in In => pc[p] \in In /\ tor'[p] = tor[p],
           \/ tor'[p] \in {tor[p], None}
           \/ \E h \in Hash : managed[h] # None /\ tor'[p] = managed[h]
    PROVE  Fresh'
<1>1. ASSUME NEW q \in Proc, q # p, pc[q] \in In PROVE tor[q] # tor'[p]
  <2>1. tor[q] # None /\ managed[hash[q]] = None
    BY <1>1, OwnTorrent DEF IInv, Responsible
  <2>2. ASSUME NEW h \in Hash, managed[h] # None PROVE managed[h] # tor[q]
    <3>1. client[h] = managed[h]
      BY <2>2 DEF IInv, Settled, Responsible
    <3> QED  BY <1>1, <2>1, <2>2, <3>1, OwnTorrent
  <2> QED  BY <1>1, <2>1, <2>2 DEF Fresh
<1> QED  BY <1>1 DEF Fresh

(* Nothing is counted by whoever has no stream and opens none.                *)
LEMMA CountKept ==
    ASSUME ReadersCounted, NEW p \in Proc,
           \A q \in Proc \ {p} : pc'[q] = pc[q] /\ tor'[q] = tor[q],
           pc[p] # "streaming", pc'[p] # "streaming",
           readers' = readers
    PROVE  ReadersCounted'
<1>1. \A t \in Torrent : Streams(t)' = Streams(t)
  BY DEF Streams
<1> QED  BY <1>1 DEF ReadersCounted

(* The steps that count nothing and bring no torrent in.                      *)
LEMMA OtherStep ==
    ASSUME RInv, TypeOK', NEW p \in Proc,
           \/ \E h \in Hash : Start(p, h)
           \/ Lock(p) \/ GotInfo(p) \/ TimedOut(p)
           \/ Run(p) /\ ~AddSpec(p) /\ ~AddAgain(p) /\ ~Build(p) /\ ~Attach(p)
    PROVE  Fresh' /\ ReadersCounted'
<1> USE DEF Goto, End, Begin, shared
<1>1. ASSUME NEW h \in Hash, Start(p, h) PROVE Fresh' /\ ReadersCounted'
  <2>1. CASE StartAdd(p, h) \/ StartDrop(p, h) \/ StartDelete(p, h)
    BY <2>1, FreshKept, CountKept
       DEF StartAdd, StartDrop, StartDelete, RInv, IInv, TypeOK, In
  <2>2. CASE StartStream(p, h) \/ ReapIdle(p, h) \/ SeedVisit(p, h)
    BY <2>2, FreshKept, CountKept
       DEF StartStream, ReapIdle, SeedVisit, RInv, IInv, TypeOK, In
  <2> QED  BY <1>1, <2>1, <2>2 DEF Start
<1>2. CASE Lock(p) \/ Unlock(p) \/ UnlockWake(p)
  BY <1>2, FreshKept, CountKept
     DEF Lock, AfterLock, Unlock, UnlockWake, RInv, IInv, TypeOK, In
<1>3. CASE GotInfo(p) \/ TimedOut(p) \/ NotPlayable(p) \/ ReaddDrop(p)
  BY <1>3, FreshKept, CountKept
     DEF GotInfo, TimedOut, NotPlayable, Abandon, ReaddDrop, Dispose,
         RInv, IInv, TypeOK, In
<1>4. CASE AddCheck(p) \/ AddSpecFails(p) \/ Register(p) \/ Save(p)
  BY <1>4, FreshKept, CountKept
     DEF AddCheck, Added, AddSpecFails, Register, Save, RInv, IInv, TypeOK, In
<1>5. CASE DropRemove(p) \/ DeleteRemove(p) \/ CloseManaged(p) \/ DeleteRecord(p)
  BY <1>5, FreshKept, CountKept
     DEF DropRemove, DeleteRemove, Remove, CloseManaged, DeleteRecord,
         RInv, IInv, TypeOK, Located, In
<1>6. CASE Ensure(p) \/ EnsureRecord(p) \/ EnsureAgain(p)
  BY <1>6, FreshKept, CountKept
     DEF Ensure, EnsureRecord, EnsureAgain, RInv, IInv, TypeOK, Located, In
<1>7. CASE NoSuchFile(p) \/ SeedCheck(p)
  BY <1>7, FreshKept, CountKept DEF NoSuchFile, SeedCheck, RInv, IInv, TypeOK, In
<1> QED  BY <1>1, <1>2, <1>3, <1>4, <1>5, <1>6, <1>7 DEF Run

(* AddTorrentSpec: a torrent nobody points to.                                *)
LEMMA NewTorrentStep ==
    ASSUME RInv, TypeOK', NEW p \in Proc, AddSpec(p) \/ AddAgain(p)
    PROVE  Fresh' /\ ReadersCounted'
<1>1. /\ pc[p] \in {"addSpec", "diskSpec"}
      /\ \E to \in {"metadata", "diskMetadata"} : pc' = [pc EXCEPT ![p] = to]
      /\ readers' = readers
  BY DEF AddSpec, AddAgain, AddTorrentSpec, Goto
<1>2. client[hash[p]] = None
  BY <1>1, NothingThere DEF RInv
<1>3. PICK t \in Torrent : Unreferenced(t) /\ tor' = [tor EXCEPT ![p] = t]
  BY <1>2 DEF AddSpec, AddAgain, AddTorrentSpec
<1>4. \A q \in Proc : tor[q] # t
  BY <1>3 DEF Unreferenced
<1>5. \A q \in Proc \ {p} : pc'[q] = pc[q] /\ tor'[q] = tor[q]
  BY <1>1, <1>3 DEF RInv, IInv, TypeOK
<1>6. Fresh'
  BY <1>1, <1>3, <1>4, <1>5 DEF RInv, IInv, TypeOK, Fresh
<1>7. ReadersCounted'
  BY <1>1, <1>5, CountKept DEF RInv, IInv, TypeOK
<1> QED  BY <1>6, <1>7

(* m := &managed{...}: nobody has a stream on it yet.                         *)
LEMMA BuildCount ==
    ASSUME RInv, TypeOK', NEW p \in Proc, Build(p)
    PROVE  Fresh' /\ ReadersCounted'
<1>1. /\ pc[p] = "build" /\ pc' = [pc EXCEPT ![p] = "register"] /\ tor' = tor
      /\ readers' = [readers EXCEPT ![tor[p]] = 0]
  BY DEF Build, Goto
<1>2. Fresh'
  BY <1>1, FreshKept DEF RInv, IInv, TypeOK, In
<1>3. ASSUME NEW t \in Torrent PROVE Streams(t)' = Streams(t)
  BY <1>1 DEF Streams, RInv, IInv, TypeOK
<1>4. Streams(tor[p]) = {}
  BY <1>1 DEF Streams, RInv, Fresh, In
<1>5. ReadersCounted'
  BY <1>1, <1>3, <1>4, FS_EmptySet DEF ReadersCounted, RInv, IInv, TypeOK
<1> QED  BY <1>2, <1>5

(* m.readers++                                                                *)
LEMMA AttachCount ==
    ASSUME RInv, TypeOK', NEW p \in Proc, Attach(p)
    PROVE  Fresh' /\ ReadersCounted'
<1>1. /\ pc[p] = "attach" /\ pc' = [pc EXCEPT ![p] = "streaming"] /\ tor' = tor
      /\ readers' = [readers EXCEPT ![tor[p]] = @ + 1]
      /\ tor[p] \in Torrent
  BY DEF Attach, Goto, RInv, IInv, Located
<1>2. Fresh'
  BY <1>1, FreshKept DEF RInv, IInv, TypeOK, In
<1>3. /\ Streams(tor[p])' = Streams(tor[p]) \cup {p}
      /\ p \notin Streams(tor[p])
      /\ \A t \in Torrent : t # tor[p] => Streams(t)' = Streams(t)
  BY <1>1 DEF Streams, RInv, IInv, TypeOK
<1>4. Cardinality(Streams(tor[p])') = Cardinality(Streams(tor[p])) + 1
  BY <1>3, StreamsFinite, FS_AddElement
<1>5. ReadersCounted'
  BY <1>1, <1>3, <1>4 DEF ReadersCounted, RInv, IInv, TypeOK
<1> QED  BY <1>2, <1>5

(* m.readers--                                                                *)
LEMMA ReleaseCount ==
    ASSUME RInv, TypeOK', NEW p \in Proc, Release(p)
    PROVE  Fresh' /\ ReadersCounted'
<1>1. PICK s \in Torrent :
        /\ pc[p] = "streaming" /\ tor[p] = s
        /\ \E to \in {"idle", "lock"} : pc' = [pc EXCEPT ![p] = to]
        /\ tor' = [tor EXCEPT ![p] = None]
        /\ readers' = [readers EXCEPT ![s] = IF readers[s] > 0 THEN readers[s] - 1 ELSE 0]
  BY DEF Release, ReleaseTo, Goto, End, RInv, IInv, Located
<1>2. Fresh'
  BY <1>1, FreshKept DEF RInv, IInv, TypeOK, In
<1>3. /\ Streams(s)' = Streams(s) \ {p}
      /\ p \in Streams(s)
  BY <1>1, NoneAssumption DEF Streams, RInv, IInv, TypeOK
<1>4. \A t \in Torrent : t # s => Streams(t)' = Streams(t)
  BY <1>1, NoneAssumption DEF Streams, RInv, IInv, TypeOK
<1>5. Cardinality(Streams(s)') = Cardinality(Streams(s)) - 1
  BY <1>3, StreamsFinite, FS_RemoveElement
<1>6. Cardinality(Streams(s)) > 0
  BY <1>3, StreamsFinite, FS_EmptySet
<1>7. ReadersCounted'
  BY <1>1, <1>4, <1>5, <1>6, StreamsFinite DEF ReadersCounted, RInv, IInv, TypeOK
<1> QED  BY <1>2, <1>7

(* Every step keeps the count.                                                *)
LEMMA NextRInv == RInv /\ [Next]_vars => RInv'
<1> SUFFICES ASSUME RInv, [Next]_vars PROVE Fresh' /\ ReadersCounted'
  BY NextIInv DEF RInv
<1>1. TypeOK'
  BY NextIInv DEF RInv, IInv
<1>2. CASE UNCHANGED vars
  BY <1>2 DEF vars, RInv, Fresh, ReadersCounted, Streams
<1>3. ASSUME NEW p \in Proc, Run(p) PROVE Fresh' /\ ReadersCounted'
  BY <1>1, <1>3, OtherStep, NewTorrentStep, BuildCount, AttachCount
<1>4. ASSUME NEW p \in Proc,
             \/ \E h \in Hash : Start(p, h)
             \/ Lock(p) \/ GotInfo(p) \/ TimedOut(p) \/ Release(p)
      PROVE  Fresh' /\ ReadersCounted'
  BY <1>1, <1>4, OtherStep, ReleaseCount
<1> QED  BY <1>2, <1>3, <1>4 DEF Next

(* The reader count of every torrent is the number of streams open on it, so  *)
(* that the last one to close sees zero and no other one does                 *)
(* (stream.go:63-67, 146-155).                                                *)
THEOREM ExactCount == Spec => []ReadersCounted
<1>1. RInv => ReadersCounted
  BY DEF RInv
<1> QED  BY <1>1, InitRInv, NextRInv, PTL DEF Spec

-----------------------------------------------------------------------------
(* 2. The active limit.                                                       *)

(* The torrents whose age counts: those in the map, and one about to get in.  *)
Aged(t) == Active(t) \/ \E p \in Proc : pc[p] = "register" /\ tor[p] = t

(* The ages of open torrents are ordered strictly, and those that count are   *)
(* all different.                                                             *)
Sorted ==
    /\ \A t, u \in Torrent : <<t, u>> \in older => Open(t) /\ Open(u)
    /\ \A t \in Torrent : <<t, t>> \notin older
    /\ \A t, u, v \in Torrent : <<t, u>> \in older /\ <<u, v>> \in older => <<t, v>> \in older
    /\ \A t, u \in Torrent : Aged(t) /\ Aged(u) /\ t # u => <<t, u>> \in older \/ <<u, t>> \in older

(* However many infohashes there are, finitely many are in the map.           *)
Mapped     == {h \in Hash : managed[h] # None}
FewManaged == IsFiniteSet(Mapped)

LInv == IInv /\ FewManaged /\ Sorted

(* A torrent whose age counts is open.                                        *)
AgedAreOpen == \A t \in Torrent : Aged(t) => Open(t)
LEMMA AgedOpen == IInv => AgedAreOpen
<1> SUFFICES ASSUME IInv, NEW t \in Torrent, Aged(t) PROVE Open(t)
  BY DEF AgedAreOpen
<1>1. ASSUME NEW h \in Hash, managed[h] = t PROVE Open(t)
  BY <1>1, NoneAssumption DEF IInv, Settled, Responsible, Open
<1>2. ASSUME NEW p \in Proc, pc[p] = "register", tor[p] = t PROVE Open(t)
  BY <1>2, OwnTorrent DEF In
<1> QED  BY <1>1, <1>2 DEF Aged, Active

(* The same, after a step.                                                    *)
LEMMA AgedOpenPrime == IInv' => AgedAreOpen'
BY AgedOpen, PTL

(* Nobody is about to register who was not, and nothing enters the map.       *)
LEMMA FewerAged ==
    ASSUME \A h \in Hash : managed'[h] \in {managed[h], None},
           \A q \in Proc : pc'[q] = "register" => pc[q] = "register" /\ tor'[q] = tor[q],
           NEW t \in Torrent, Aged(t)'
    PROVE  Aged(t)
BY NoneAssumption DEF Aged, Active

(* The map grows by registration only.                                        *)
LEMMA FewKept ==
    ASSUME FewManaged, \A h \in Hash : managed'[h] \in {managed[h], None}
    PROVE  FewManaged'
<1>1. Mapped' \in SUBSET Mapped
  BY DEF Mapped
<1> QED  BY <1>1, FS_Subset DEF FewManaged

(* Nobody's age changes, and nothing is closed.                               *)
LEMMA AgesKept ==
    ASSUME LInv, older' = older, \A t \in Torrent : Open(t) => Open(t)',
           \A h \in Hash : managed'[h] \in {managed[h], None},
           \A q \in Proc : pc'[q] = "register" => pc[q] = "register" /\ tor'[q] = tor[q]
    PROVE  FewManaged' /\ Sorted'
<1>1. \A t \in Torrent : Aged(t)' => Aged(t)
  BY FewerAged
<1> QED  BY <1>1, FewKept DEF LInv, Sorted

(* The torrents of T are closed; they are no longer in the order, and what is *)
(* still open has the place it had.                                           *)
LEMMA AgesClosed ==
    ASSUME LInv, IInv', NEW T, Dispose(T), \A t \in Torrent : Aged(t)' => Aged(t)
    PROVE  Sorted'
<1>1. older' = {r \in older : r[1] \notin T /\ r[2] \notin T}
  BY DEF Dispose
<1>2. ASSUME NEW t \in Torrent PROVE Open(t)' <=> Open(t) /\ t \notin T
  BY NoneAssumption DEF Dispose, Open
<1>3. \A t \in Torrent : Aged(t)' => Aged(t) /\ t \notin T
  BY <1>2, AgedOpenPrime DEF AgedAreOpen
<1> QED  BY <1>1, <1>2, <1>3 DEF LInv, Sorted

(* A torrent is played: it becomes the youngest of those that are open.       *)
LEMMA AgesTouched ==
    ASSUME LInv, IInv', NEW s \in Torrent, Touch(s), client' = client,
           \A t \in Torrent : Aged(t)' => Aged(t) \/ t = s
    PROVE  Sorted'
<1>1. \A t \in Torrent : Open(t)' <=> Open(t)
  BY DEF Open
<1>2. \A t \in Torrent : Aged(t)' => Open(t)
  BY <1>1, AgedOpenPrime DEF AgedAreOpen
<1>3. CASE Open(s)
  <2>1. older' = {r \in older : r[1] # s /\ r[2] # s}
                    \cup {<<u, s>> : u \in {v \in Torrent : v # s /\ Open(v)}}
    BY <1>3 DEF Touch
  <2>2. \A t, u \in Torrent : <<t, u>> \in older' <=>
           \/ <<t, u>> \in older /\ t # s /\ u # s
           \/ u = s /\ t # s /\ Open(t)
    BY <2>1
  <2> QED  BY <1>1, <1>2, <1>3, <2>2 DEF LInv, Sorted
<1>4. CASE ~Open(s)
  <2>1. older' = older
    BY <1>4 DEF Touch
  <2> QED  BY <1>1, <1>2, <1>4, <2>1 DEF LInv, Sorted
<1> QED  BY <1>3, <1>4

(* The map is empty at first.                                                 *)
LEMMA InitLInv == Init => LInv
<1> SUFFICES ASSUME Init PROVE FewManaged /\ Sorted
  BY InitIInv DEF LInv
<1>1. Mapped = {}
  BY DEF Init, Mapped
<1>2. FewManaged
  BY <1>1, FS_EmptySet DEF FewManaged
<1>3. \A t \in Torrent : ~Aged(t)
  BY NoneAssumption DEF Init, Aged, Active
<1>4. Sorted
  BY <1>3 DEF Init, Sorted
<1> QED  BY <1>2, <1>4

(* The steps that neither play nor close a torrent, nor register one.         *)
LEMMA AgelessStep ==
    ASSUME LInv, NEW p \in Proc,
           \/ \E h \in Hash : Start(p, h)
           \/ Lock(p) \/ GotInfo(p) \/ Release(p)
           \/ /\ Run(p) /\ ~Build(p) /\ ~Attach(p) /\ ~Register(p)
              /\ ~ReaddDrop(p) /\ ~NotPlayable(p) /\ ~CloseManaged(p)
    PROVE  FewManaged' /\ Sorted'
<1> USE DEF Goto, End, Begin, shared
<1>1. ASSUME older' = older, client' = client,
             \A h \in Hash : managed'[h] \in {managed[h], None},
             \A q \in Proc : pc'[q] = "register" => pc[q] = "register" /\ tor'[q] = tor[q]
      PROVE  FewManaged' /\ Sorted'
  <2>1. \A t \in Torrent : Open(t) => Open(t)'
    BY <1>1 DEF Open
  <2> QED  BY <1>1, <2>1, AgesKept
<1>2. ASSUME NEW h \in Hash, Start(p, h) PROVE FewManaged' /\ Sorted'
  BY <1>1, <1>2 DEF Start, StartAdd, StartDrop, StartDelete, StartStream, ReapIdle,
                    SeedVisit, LInv, IInv, TypeOK
<1>3. CASE Lock(p) \/ Unlock(p) \/ UnlockWake(p)
  BY <1>1, <1>3 DEF Lock, AfterLock, Unlock, UnlockWake, LInv, IInv, TypeOK
<1>4. CASE GotInfo(p) \/ Release(p) \/ NoSuchFile(p) \/ SeedCheck(p)
  BY <1>1, <1>4 DEF GotInfo, Release, ReleaseTo, NoSuchFile, SeedCheck, LInv, IInv, TypeOK
<1>5. CASE AddCheck(p) \/ AddSpecFails(p) \/ Save(p) \/ DeleteRecord(p)
  BY <1>1, <1>5 DEF AddCheck, Added, AddSpecFails, Save, DeleteRecord, LInv, IInv, TypeOK
<1>6. CASE DropRemove(p) \/ DeleteRemove(p)
  BY <1>1, <1>6 DEF DropRemove, DeleteRemove, Remove, LInv, IInv, TypeOK
<1>7. CASE Ensure(p) \/ EnsureRecord(p) \/ EnsureAgain(p)
  BY <1>1, <1>7 DEF Ensure, EnsureRecord, EnsureAgain, LInv, IInv, TypeOK
<1>8. CASE AddSpec(p) \/ AddAgain(p)
  <2>1. /\ \E to \in {"metadata", "diskMetadata"} : pc' = [pc EXCEPT ![p] = to]
        /\ UNCHANGED <<managed, older>>
        /\ \A q \in Proc : q # p => tor'[q] = tor[q]
        /\ pc[p] \in {"addSpec", "diskSpec"}
        /\ client' = client \/ \E t \in Torrent : client' = [client EXCEPT ![hash[p]] = t]
    BY <1>8 DEF AddSpec, AddAgain, AddTorrentSpec, LInv, IInv, TypeOK
  <2>2. client[hash[p]] = None
    BY <2>1, NothingThere DEF LInv
  <2>3. \A t \in Torrent : Open(t) => Open(t)'
    BY <2>1, <2>2, NoneAssumption DEF Open, LInv, IInv, TypeOK
  <2>4. \A q \in Proc : pc'[q] = "register" => pc[q] = "register" /\ tor'[q] = tor[q]
    BY <2>1 DEF LInv, IInv, TypeOK
  <2> QED  BY <2>1, <2>3, <2>4, AgesKept
<1> QED  BY <1>2, <1>3, <1>4, <1>5, <1>6, <1>7, <1>8 DEF Run

(* The steps that play a torrent, or close one that is not managed.           *)
LEMMA AgeStep ==
    ASSUME LInv, IInv', NEW p \in Proc,
           \/ Build(p) \/ Attach(p)
           \/ ReaddDrop(p) \/ NotPlayable(p) \/ TimedOut(p) \/ CloseManaged(p)
    PROVE  FewManaged' /\ Sorted'
<1>1. UNCHANGED managed /\ UNCHANGED hash
  BY DEF Build, Attach, ReaddDrop, NotPlayable, TimedOut, Abandon, CloseManaged
<1>2. FewManaged'
  BY <1>1, FewKept DEF LInv
<1>3. CASE Build(p)
  <2>1. /\ pc[p] = "build" /\ pc' = [pc EXCEPT ![p] = "register"] /\ tor' = tor
        /\ client' = client /\ Touch(tor[p])
    BY <1>3 DEF Build, Goto
  <2>2. tor[p] \in Torrent
    BY <2>1 DEF LInv, IInv, Located, In
  <2>3. \A t \in Torrent : Aged(t)' => Aged(t) \/ t = tor[p]
    BY <1>1, <2>1 DEF Aged, Active, LInv, IInv, TypeOK
  <2> QED  BY <1>2, <2>1, <2>2, <2>3, AgesTouched
<1>4. CASE Attach(p)
  <2>1. /\ pc[p] = "attach" /\ pc' = [pc EXCEPT ![p] = "streaming"] /\ tor' = tor
        /\ client' = client /\ Touch(tor[p])
    BY <1>4 DEF Attach, Goto
  <2>2. tor[p] \in Torrent
    BY <2>1 DEF LInv, IInv, Located
  <2>3. \A t \in Torrent : Aged(t)' => Aged(t)
    BY <1>1, <2>1 DEF Aged, Active, LInv, IInv, TypeOK
  <2> QED  BY <1>2, <2>1, <2>2, <2>3, AgesTouched
<1>5. CASE ReaddDrop(p) \/ NotPlayable(p) \/ TimedOut(p) \/ CloseManaged(p)
  <2>1. /\ \E to \in {"diskSpec", "unlock", "deleteRecord"} : pc' = [pc EXCEPT ![p] = to]
        /\ \A q \in Proc : q # p => tor'[q] = tor[q]
    BY <1>5 DEF ReaddDrop, NotPlayable, TimedOut, Abandon, CloseManaged, Goto,
                LInv, IInv, TypeOK
  <2>2. \E T : Dispose(T)
    BY <1>5 DEF ReaddDrop, NotPlayable, TimedOut, Abandon, CloseManaged, DropManaged
  <2>3. \A q \in Proc : pc'[q] = "register" => pc[q] = "register" /\ tor'[q] = tor[q]
    BY <2>1 DEF LInv, IInv, TypeOK
  <2>4. \A t \in Torrent : Aged(t)' => Aged(t)
    BY <1>1, <2>3, FewerAged
  <2> QED  BY <1>2, <2>2, <2>4, AgesClosed
<1> QED  BY <1>3, <1>4, <1>5

(* Registration: the torrent was about to get in, and its age counted then.   *)
LEMMA RegisterAges ==
    ASSUME LInv, IInv', NEW p \in Proc, Register(p)
    PROVE  FewManaged' /\ Sorted'
<1> DEFINE ms == [managed EXCEPT ![hash[p]] = tor[p]]
           V  == Victims(ms)
<1>1. /\ pc[p] = "register" /\ pc' = [pc EXCEPT ![p] = "save"] /\ tor' = tor
      /\ managed' = [h \in Hash |-> IF ms[h] \in V THEN None ELSE ms[h]]
      /\ \E T : Dispose(T)
  BY DEF Register, Goto, DropManaged
<1>2. hash[p] \in Hash /\ tor[p] \in Torrent
  BY <1>1 DEF LInv, IInv, Located, In
<1>3. \A h \in Hash : managed'[h] \in {managed[h], None} \/ (h = hash[p] /\ managed'[h] = tor[p])
  <2>1. \A h \in Hash : ms[h] = IF h = hash[p] THEN tor[p] ELSE managed[h]
    BY <1>2 DEF LInv, IInv, TypeOK
  <2> HIDE DEF ms, V
  <2>2. \A h \in Hash : managed'[h] = ms[h] \/ managed'[h] = None
    BY <1>1
  <2> QED  BY <2>1, <2>2
<1> HIDE DEF ms, V
<1>4. FewManaged'
  <2>1. Mapped' \in SUBSET (Mapped \cup {hash[p]})
    BY <1>3 DEF Mapped
  <2>2. IsFiniteSet(Mapped \cup {hash[p]})
    BY FS_AddElement DEF LInv, FewManaged
  <2> QED  BY <2>1, <2>2, FS_Subset DEF FewManaged
<1>5. \A t \in Torrent : Aged(t)' => Aged(t)
  BY <1>1, <1>3, NoneAssumption DEF Aged, Active, LInv, IInv, TypeOK
<1>6. Sorted'
  BY <1>1, <1>5, AgesClosed
<1> QED  BY <1>4, <1>6

(* Every step keeps the ages sorted.                                          *)
LEMMA NextLInv == LInv /\ [Next]_vars => LInv'
<1> SUFFICES ASSUME LInv, [Next]_vars PROVE FewManaged' /\ Sorted'
  BY NextIInv DEF LInv
<1>1. IInv'
  BY NextIInv DEF LInv
<1>2. CASE UNCHANGED vars
  BY <1>2 DEF vars, LInv, FewManaged, Mapped, Sorted, Aged, Active, Open
<1>3. ASSUME NEW p \in Proc, Run(p) PROVE FewManaged' /\ Sorted'
  BY <1>1, <1>3, AgelessStep, AgeStep, RegisterAges
<1>4. ASSUME NEW p \in Proc,
             \/ \E h \in Hash : Start(p, h)
             \/ Lock(p) \/ GotInfo(p) \/ TimedOut(p) \/ Release(p)
      PROVE  FewManaged' /\ Sorted'
  BY <1>1, <1>4, AgelessStep, AgeStep
<1> QED  BY <1>2, <1>3, <1>4 DEF Next

(* The torrents of S fewer than k of which are older: k of them, or all.      *)
Oldest(S, k) == {t \in S : Cardinality({u \in S : <<u, t>> \in older}) < k}

LEMMA OldestCount ==
    ASSUME NEW S \in SUBSET Torrent, IsFiniteSet(S), NEW k \in Nat,
           Sorted, \A t \in S : Aged(t)
    PROVE  /\ Cardinality(Oldest(S, k)) \in Nat /\ Cardinality(Oldest(S, k)) <= k
           /\ Oldest(S, k) # S => Cardinality(Oldest(S, k)) = k
<1> DEFINE Elder(t) == {u \in S : <<u, t>> \in older}
           rank(t)  == Cardinality(Elder(t))
           V        == Oldest(S, k)
<1>1. \A t \in S : IsFiniteSet(Elder(t)) /\ rank(t) \in Nat
  BY FS_Subset, FS_CardinalityType
<1>2. ASSUME NEW t \in S, NEW u \in S, <<u, t>> \in older
      PROVE  Elder(u) \in SUBSET Elder(t) /\ Elder(u) # Elder(t) /\ rank(u) < rank(t)
  <2>1. Elder(u) \in SUBSET Elder(t) /\ u \in Elder(t) /\ u \notin Elder(u)
    BY <1>2 DEF Sorted
  <2> HIDE DEF Elder
  <2>2. Elder(u) # Elder(t)
    BY <2>1
  <2>3. Cardinality(Elder(u)) <= Cardinality(Elder(t)) /\ Cardinality(Elder(u)) # Cardinality(Elder(t))
    BY <1>1, <2>1, <2>2, FS_Subset
  <2> QED  BY <1>1, <2>1, <2>2, <2>3
<1>3. V \in SUBSET S /\ IsFiniteSet(V) /\ Cardinality(V) \in Nat
  BY FS_Subset, FS_CardinalityType DEF Oldest
<1>4. V = {t \in S : rank(t) < k}
  BY DEF Oldest
<1>5. \A t, u \in S : t # u => rank(t) # rank(u)
  <2> HIDE DEF rank, Elder
  <2> SUFFICES ASSUME NEW t \in S, NEW u \in S, t # u PROVE rank(t) # rank(u)
    OBVIOUS
  <2>1. <<t, u>> \in older \/ <<u, t>> \in older
    BY DEF Sorted
  <2> QED  BY <1>1, <1>2, <2>1
<1> HIDE DEF Elder
<1>6. Cardinality(V) <= k
  <2> DEFINE f == [t \in V |-> rank(t)]
             K == 0 .. k - 1
  <2>1. IsFiniteSet(K) /\ Cardinality(K) = k
    <3>1. 0 \in Int /\ k - 1 \in Int
      OBVIOUS
    <3>2. /\ IsFiniteSet(K)
          /\ Cardinality(K) = IF 0 > k - 1 THEN 0 ELSE k - 1 - 0 + 1
      BY <3>1, FS_Interval
    <3> QED  BY <3>2
  <2>2. f \in Injection(V, K)
    <3> HIDE DEF rank
    <3>1. f \in [V -> K]
      BY <1>1, <1>3, <1>4
    <3>2. \A t, u \in V : f[t] = f[u] => t = u
      BY <1>3, <1>5
    <3> HIDE DEF f, K
    <3> QED  BY <3>1, <3>2 DEF Injection, IsInjective
  <2> HIDE DEF f, K, V
  <2> QED  BY <2>1, <2>2, FS_Injection
<1>7. ASSUME V # S PROVE Cardinality(V) >= k
  <2> DEFINE B == {Elder(t) : t \in S \ V}
  <2>1. B \subseteq FiniteSubsetsOf(S) /\ B # {}
    <3>1. B \subseteq SUBSET S /\ B # {}
      BY <1>3, <1>7 DEF Elder
    <3> QED  BY <3>1, FS_FiniteSubsetsOfFinite
  <2>2. PICK b \in B : \A c \in B : <<c, b>> \notin StrictSubsetOrdering(S)
    BY <2>1, FS_StrictSubsetOrderingWellFounded, WFMin
  <2>3. PICK t \in S \ V : b = Elder(t)
    OBVIOUS
  <2>4. ASSUME NEW u \in S \ V, <<u, t>> \in older PROVE FALSE
    <3>1. Elder(u) \in SUBSET S /\ Elder(t) \in SUBSET S
      BY DEF Elder
    <3>2. <<Elder(u), Elder(t)>> \in StrictSubsetOrdering(S)
      BY <1>2, <2>4, <3>1 DEF StrictSubsetOrdering
    <3> QED  BY <2>2, <2>3, <3>2
  <2>5. Elder(t) \in SUBSET V
    BY <2>4 DEF Elder
  <2>6. Cardinality(Elder(t)) <= Cardinality(V)
    BY <1>3, <2>5, FS_Subset
  <2>7. ~(rank(t) < k)
    BY <1>4, <2>3
  <2> QED  BY <1>1, <1>3, <2>3, <2>6, <2>7
<1> QED  BY <1>3, <1>6, <1>7

(* A torrent is in the map, or about to get in, under one hash.               *)
MapWith(p) == [managed EXCEPT ![hash[p]] = tor[p]]

LEMMA OneHashEach ==
    ASSUME IInv, NEW p \in Proc, pc[p] = "register"
    PROVE  LET ms == MapWith(p) IN
           /\ \A h \in Hash : ms[h] # None => ms[h] \in Torrent /\ client[h] = ms[h]
           /\ \A g, h \in Hash : g # h /\ ms[g] # None => ms[g] # ms[h]
<1> DEFINE ms == MapWith(p)
<1>1. /\ hash[p] \in Hash /\ tor[p] \in Torrent
      /\ client[hash[p]] = tor[p] /\ managed[hash[p]] = None
  BY OwnTorrent DEF IInv, Responsible, In
<1>2. \A h \in Hash : ms[h] = IF h = hash[p] THEN tor[p] ELSE managed[h]
  BY <1>1 DEF MapWith, IInv, TypeOK
<1> HIDE DEF ms
<1>3. \A h \in Hash : managed[h] # None => managed[h] \in Torrent /\ client[h] = managed[h]
  BY DEF IInv, TypeOK, Settled, Responsible
<1>4. \A h \in Hash : ms[h] # None => ms[h] \in Torrent /\ client[h] = ms[h]
  BY <1>1, <1>2, <1>3
<1>5. ASSUME NEW g \in Hash, NEW h \in Hash, g # h, ms[g] # None, ms[g] = ms[h]
      PROVE  FALSE
  BY <1>4, <1>5 DEF IInv, Distinct
<1> QED  BY <1>4, <1>5 DEF ms

(* The sweep at a registration.  Of the torrents then in the map, T, it takes *)
(* the idle ones of which fewer are older than there are too many.            *)
LEMMA Sweep ==
    ASSUME LInv, IInv', NEW p \in Proc, Register(p)
    PROVE  LET before == {managed[h] : h \in Hash} \cup {tor[p]}
               after  == {managed'[h] : h \in Hash}
               gone   == (before \ after) \ {None}
               Busy(t) == readers[t] > 0 \/ keep[t]
           IN  /\ \/ Cardinality(after \ {None}) <= MaxActive
                  \/ \A t \in after \ {None} : Busy(t)
               /\ gone # {} => Cardinality(after \ {None}) >= MaxActive
               /\ \A t \in gone : ~Busy(t)
               /\ \A t \in gone, u \in after \ {None} : <<u, t>> \in older => Busy(u)
<1> DEFINE ms == [managed EXCEPT ![hash[p]] = tor[p]]
           M  == {h \in Hash : ms[h] # None}
           T  == {ms[h] : h \in M}
           I  == IdleIn(ms)
           k  == Excess(ms)
           V  == Victims(ms)
           after == {managed'[h] : h \in Hash} \ {None}
           Busy(t) == readers[t] > 0 \/ keep[t]
<1>1. /\ pc[p] = "register" /\ hash[p] \in Hash /\ tor[p] \in Torrent /\ managed[hash[p]] = None
      /\ managed' = [h \in Hash |-> IF ms[h] \in V THEN None ELSE ms[h]]
  BY OwnTorrent DEF Register, Goto, LInv, IInv, Responsible, In
<1>2. /\ \A h \in Hash : ms[h] # None => ms[h] \in Torrent
      /\ \A g, h \in Hash : g # h /\ ms[g] # None => ms[g] # ms[h]
  BY <1>1, OneHashEach DEF LInv, MapWith
<1>3. \A h \in Hash : ms[h] = IF h = hash[p] THEN tor[p] ELSE managed[h]
  BY <1>1 DEF LInv, IInv, TypeOK
<1>4. V = Oldest(I, k)
  BY DEF Victims, Oldest
<1>5. /\ I = {t \in T : readers[t] = 0 /\ ~keep[t]}
      /\ T \subseteq Torrent
  BY <1>2, NoneAssumption DEF IdleIn
<1>6. k = IF Cardinality(M) > MaxActive THEN Cardinality(M) - MaxActive ELSE 0
  BY DEF Excess
<1>7. tor[p] # None
  BY <1>1, NoneAssumption
<1> HIDE DEF ms, I, k, V
<1>8. IsFiniteSet(M)
  <2>1. M \in SUBSET (Mapped \cup {hash[p]})
    BY <1>3 DEF Mapped
  <2>2. IsFiniteSet(Mapped \cup {hash[p]})
    BY FS_AddElement DEF LInv, FewManaged
  <2> HIDE DEF M
  <2> QED  BY <2>1, <2>2, FS_Subset
<1>9. IsFiniteSet(T) /\ Cardinality(T) = Cardinality(M)
  <2> DEFINE f == [h \in M |-> ms[h]]
  <2>1. f \in Bijection(M, T)
    BY <1>2 DEF Bijection, Injection, Surjection, IsInjective
  <2> HIDE DEF f, M, T
  <2>2. ExistsBijection(M, T)
    BY <2>1 DEF ExistsBijection
  <2> QED  BY <1>8, <2>2, FS_Bijection
<1>10. \A t \in T : Aged(t)
  BY <1>1, <1>3 DEF Aged, Active
<1>11. V \subseteq I /\ I \subseteq T
  BY <1>4, <1>5 DEF Oldest
<1>12. after = T \ V
  <2>1. \A t \in after : t \in T \ V
    BY <1>1
  <2>2. \A t \in T \ V : t \in after
    BY <1>1
  <2> QED  BY <2>1, <2>2
<1>13. ({managed[h] : h \in Hash} \cup {tor[p]}) \ {None} = T
  BY <1>1, <1>3, <1>7
<1> HIDE DEF M, T
<1>14. MaxActive \in Nat /\ Cardinality(T) \in Nat /\ k \in Nat
  BY <1>6, <1>9, MaxActiveAssumption, FS_CardinalityType
<1>15. /\ Cardinality(V) \in Nat /\ Cardinality(V) <= k
       /\ V # I => Cardinality(V) = k
  <2>1. I \in SUBSET Torrent /\ IsFiniteSet(I)
    BY <1>5, <1>9, <1>11, FS_Subset
  <2> QED  BY <1>4, <1>10, <1>11, <1>14, <2>1, OldestCount DEF LInv
<1>16. Cardinality(after) = Cardinality(T) - Cardinality(V)
  <2>1. V \in SUBSET T
    BY <1>11
  <2>2. IsFiniteSet(V) /\ T \cap V = V
    BY <1>9, <2>1, FS_Subset
  <2>3. Cardinality(T \ V) = Cardinality(T) - Cardinality(T \cap V)
    BY <1>9, <2>2, FS_Difference
  <2> QED  BY <1>12, <2>2, <2>3
<1>17. \A t \in T : readers[t] \in Nat
  BY <1>5 DEF LInv, IInv, TypeOK
<1>18. Cardinality(after) <= MaxActive \/ \A t \in after : Busy(t)
  <2>1. CASE V = I
    BY <1>5, <1>12, <1>17, <2>1
  <2>2. CASE V # I
    BY <1>6, <1>9, <1>14, <1>15, <1>16, <2>2
  <2> QED  BY <2>1, <2>2
<1>19. V # {} => Cardinality(after) >= MaxActive
  <2>1. V # {} => k # 0
    <3>1. V # {} => Cardinality(V) # 0
      <4>1. IsFiniteSet(V)
        BY <1>9, <1>11, FS_Subset
      <4> QED  BY <4>1, FS_EmptySet
    <3> QED  BY <3>1, <1>14, <1>15
  <2> QED  BY <1>6, <1>9, <1>14, <1>15, <1>16, <2>1
<1>20. \A t \in V : ~Busy(t)
  BY <1>5, <1>11, <1>17
<1>21. ASSUME NEW t \in V, NEW u \in after, <<u, t>> \in older PROVE Busy(u)
  <2> SUFFICES ASSUME ~Busy(u) PROVE FALSE
    OBVIOUS
  <2>1. u \in I /\ u \notin V /\ t \in I
    BY <1>5, <1>11, <1>12, <1>17
  <2> DEFINE Eu == {v \in I : <<v, u>> \in older}
             Et == {v \in I : <<v, t>> \in older}
  <2>2. Eu \in SUBSET Et
    BY <1>5, <1>11, <1>21, <2>1 DEF LInv, Sorted
  <2>3. IsFiniteSet(Et) /\ IsFiniteSet(I)
    BY <1>9, <1>11, FS_Subset
  <2>4. Cardinality(Et) < k /\ ~(Cardinality(Eu) < k)
    BY <1>4, <2>1 DEF Oldest
  <2> HIDE DEF Eu, Et
  <2>5. /\ Cardinality(Eu) <= Cardinality(Et) /\ IsFiniteSet(Eu)
        /\ Cardinality(Eu) \in Nat /\ Cardinality(Et) \in Nat
    BY <2>2, <2>3, FS_Subset, FS_CardinalityType
  <2> QED  BY <1>14, <2>4, <2>5
<1>22. (({managed[h] : h \in Hash} \cup {tor[p]}) \ {managed'[h] : h \in Hash}) \ {None} = V
  <2>1. \A t : t \in ((({managed[h] : h \in Hash} \cup {tor[p]}) \ {managed'[h] : h \in Hash}) \ {None})
                 <=> t \in T /\ t \notin after
    BY <1>13
  <2> QED  BY <1>11, <1>12, <2>1
<1> HIDE DEF Busy, after
<1> QED  BY <1>18, <1>19, <1>20, <1>21, <1>22 DEF Busy, after

(* Whoever gets from "register" to "save" does it by Register.                *)
LEMMA LimitKept == LInv /\ IInv' /\ [Next]_vars => LimitStep
<1> SUFFICES ASSUME LInv, IInv', [Next]_vars,
                    NEW p \in Proc, pc[p] = "register", pc'[p] = "save"
             PROVE  Register(p)
  BY Sweep DEF LimitStep
<1> USE DEF Goto, Begin, End
<1>1. ASSUME NEW q \in Proc, q # p PROVE pc' # [pc EXCEPT ![q] = pc'[q]]
  BY <1>1 DEF LInv, IInv, TypeOK
<1>2. ASSUME NEW q \in Proc, NEW h \in Hash, Start(q, h) PROVE FALSE
  BY <1>1, <1>2 DEF Start, StartAdd, StartDrop, StartDelete, StartStream, ReapIdle,
                    SeedVisit, LInv, IInv, TypeOK
<1>3. ASSUME NEW q \in Proc, Lock(q) \/ GotInfo(q) \/ TimedOut(q) \/ Release(q) PROVE FALSE
  BY <1>1, <1>3 DEF Lock, GotInfo, TimedOut, Abandon, Release, ReleaseTo,
                    LInv, IInv, TypeOK
<1>4. ASSUME NEW q \in Proc, Run(q) PROVE Register(p)
  <2>1. q = p
    BY <1>1, <1>4
       DEF Run, AddCheck, AddSpec, AddAgain, AddSpecFails, ReaddDrop, NotPlayable, Abandon,
           Build, Register, Save, DropRemove, DeleteRemove, Remove, CloseManaged,
           DeleteRecord, Ensure, EnsureRecord, EnsureAgain, Attach, NoSuchFile,
           SeedCheck, Unlock, UnlockWake, LInv, IInv, TypeOK
  <2> QED
    BY <1>4, <2>1
       DEF Run, AddCheck, AddSpec, AddAgain, AddSpecFails, ReaddDrop, NotPlayable, Abandon,
           Build, Save, DropRemove, DeleteRemove, Remove, CloseManaged,
           DeleteRecord, Ensure, EnsureRecord, EnsureAgain, Attach, NoSuchFile,
           SeedCheck, Unlock, UnlockWake
<1>5. pc' # pc
  OBVIOUS
<1> QED  BY <1>2, <1>3, <1>4, <1>5 DEF Next, vars

(* Registering a torrent enforces the active limit as far as idle torrents    *)
(* allow, takes no more of them than that needs, none that is being watched   *)
(* or kept for seeding, and none that was played after an idle one that stays *)
(* (engine.go:511-544).                                                       *)
THEOREM Limited == Spec => LimitEnforced
<1>1. Spec => []LInv
  BY InitLInv, NextLInv, PTL DEF Spec
<1>2. LInv /\ LInv' /\ [Next]_vars => [LimitStep]_vars
  BY LimitKept DEF LInv
<1> QED  BY <1>1, <1>2, PTL DEF Spec, LimitEnforced

-----------------------------------------------------------------------------
(* 3. Shutdown.                                                               *)

SInv == engine # "closed" => IInv

(* What is managed is closed for the first time; what a goroutine answers for *)
(* is not managed, and is left to that goroutine (engine.go:317-324).         *)
LEMMA CloseManagedAllStep ==
    ASSUME IInv, CloseManagedAll
    PROVE  IInv'
<1> DEFINE Managed == {t \in Torrent : Active(t)}
<1>1. /\ managed' = [h \in Hash |-> None]
      /\ UNCHANGED <<readers, keep, lock, pc, op, hash, tor>>
      /\ dropped' = [t \in Torrent |-> dropped[t] \/ t \in Managed]
      /\ Dispose({t \in Managed : ~dropped[t]})
  BY DEF CloseManagedAll, DropManaged
<1>2. {t \in Managed : ~dropped[t]} = Managed
  BY NoneAssumption DEF IInv, Undropped, Active
<1>3. /\ client' = [h \in Hash |-> IF client[h] \in Managed THEN None ELSE client[h]]
      /\ older' \subseteq older
      /\ panicked' = (panicked \/ \E t \in Managed : ~Open(t))
  BY <1>1, <1>2 DEF Dispose
<1>4. \A h \in Hash : managed[h] # None => client[h] = managed[h]
  BY DEF IInv, Settled, Responsible
<1>5. \A t \in Managed : Open(t)
  BY <1>4, NoneAssumption DEF Active, Open
<1>6. \A p \in Proc : pc[p] \in In \cup Out => tor[p] \notin Managed
  <2> SUFFICES ASSUME NEW p \in Proc, pc[p] \in In \cup Out,
                      NEW h \in Hash, managed[h] = tor[p]
               PROVE  FALSE
    BY DEF Active
  <2>1. client[h] = tor[p]
    BY <1>4, OwnTorrent
  <2>2. h = hash[p]
    BY <2>1, OwnTorrent
  <2> QED  BY <2>2, OwnTorrent DEF IInv, Responsible
<1>7. TypeOK'
  BY <1>1, <1>3, <1>5 DEF IInv, TypeOK
<1>8. Located' /\ Locked'
  BY <1>1 DEF IInv, Located, Locked
<1>9. Responsible'
  BY <1>1, <1>3, <1>6 DEF IInv, TypeOK, Located, Responsible, In, Out
<1>10. Settled'
  <2> SUFFICES ASSUME NEW h \in Hash, client'[h] # None
               PROVE  \E p \in Proc : pc[p] \in In \cup Out /\ hash[p] = h
    BY <1>1 DEF Settled
  <2>1. client[h] # None /\ client[h] \notin Managed
    BY <1>3
  <2>2. client[h] # managed[h]
    BY <2>1 DEF Active, IInv, TypeOK
  <2> QED  BY <2>2 DEF IInv, Settled
<1>11. ~panicked' /\ Distinct' /\ Undropped'
  BY <1>1, <1>3, <1>5 DEF IInv, Distinct, Undropped
<1> QED  BY <1>7, <1>8, <1>9, <1>10, <1>11 DEF IInv

(* Up to cl.Close(), every step of the program keeps the invariant.           *)
LEMMA NextSInv == SInv /\ [ShutNext]_allVars => SInv'
<1> SUFFICES ASSUME SInv, [ShutNext]_allVars, engine' # "closed" PROVE IInv'
  BY DEF SInv
<1>1. CASE WhileClosing
  BY <1>1, NextIInv DEF WhileClosing, SInv
<1>2. CASE CloseManagedAll
  BY <1>2, CloseManagedAllStep DEF CloseManagedAll, SInv
<1>3. CASE CloseClient
  BY <1>3 DEF CloseClient
<1>4. CASE UNCHANGED allVars
  BY <1>4, NextIInv DEF allVars, SInv
<1> QED  BY <1>1, <1>2, <1>3, <1>4 DEF ShutNext

(* Whatever handlers, sweeps and the enforcer are doing when the program is   *)
(* told to stop: until the client closes, the map holds live torrents only,   *)
(* any other is in somebody's hands, and nothing is closed twice              *)
(* (engine.go:317-329).                                                       *)
THEOREM SafeShutdown == ShutSpec => []SafeUntilClientCloses
<1>1. ShutInit => SInv
  BY InitIInv DEF ShutInit, SInv
<1>2. SInv => SafeUntilClientCloses
  <2> SUFFICES ASSUME IInv PROVE ManagedAlive /\ NoZombie /\ NoPanic
    BY DEF SInv, SafeUntilClientCloses
  <2>1. ManagedAlive /\ NoPanic
    BY DEF IInv, ManagedAlive, NoPanic, Settled, Responsible, Undropped
  <2>2. NoZombie
    BY HandsOn
  <2> QED  BY <2>1, <2>2
<1> QED  BY <1>1, <1>2, NextSInv, PTL DEF ShutSpec
=============================================================================
