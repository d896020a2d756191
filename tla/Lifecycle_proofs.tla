-------------------------- MODULE Lifecycle_proofs --------------------------
(* Proofs about Lifecycle, for any number of goroutines and infohashes.       *)
(*                                                                            *)
(* The invariant says who answers for each torrent of the client: the map     *)
(* (client[h] = managed[h]) or, where the two differ, one goroutine that is   *)
(* past lockHash(h) and points to that torrent.  As lock holders of different *)
(* hashes never meet, closing a torrent disturbs only its own hash; the sweep *)
(* of the active limit, which closes other hashes' torrents without their     *)
(* locks, finds them in the map and takes them out of it in the same section. *)
EXTENDS Lifecycle, TLAPS

In       == {"metadata", "readd", "diskMetadata", "build", "register"}
Out      == {"dropClose", "deleteClose"}
Critical == In \cup Out \cup {"unlock", "unlockWake", "addCheck", "addSpec", "diskSpec",
                              "save", "dropRemove", "deleteRemove", "deleteRecord"}

(* A goroutine in an operation has an infohash, and a torrent where it needs it. *)
Located == \A p \in Proc :
    /\ pc[p] # "idle" => hash[p] \in Hash
    /\ pc[p] \in In \cup Out \cup {"attach", "streaming", "seedCheck"} => tor[p] \in Torrent

(* Whoever is between lockHash and the release has the lock.                  *)
Locked == \A p \in Proc : pc[p] \in Critical => lock[hash[p]] = p

(* A goroutine bringing a torrent in or taking it out has the client's one,   *)
(* unmanaged; about to be managed or closed, it was not dropped before.       *)
Responsible == \A p \in Proc :
    /\ pc[p] \in In \cup Out => client[hash[p]] = tor[p] /\ managed[hash[p]] = None
    /\ pc[p] \in Out \cup {"register"} => ~dropped[tor[p]]
    /\ pc[p] \in {"addSpec", "diskSpec"} => managed[hash[p]] = None

(* Any other hash has the same torrent in the client and in the map.          *)
Settled == \A h \in Hash : client[h] # managed[h] =>
               \E p \in Proc : pc[p] \in In \cup Out /\ hash[p] = h

(* A torrent belongs to one hash, and is managed only until it is dropped.    *)
Distinct == \A g, h \in Hash : g # h /\ client[g] # None => client[g] # client[h]
Undropped == \A h \in Hash : managed[h] # None => ~dropped[managed[h]]

IInv == /\ TypeOK
        /\ ~panicked
        /\ Located
        /\ Locked
        /\ Responsible
        /\ Settled
        /\ Distinct
        /\ Undropped

(* At the start nothing is in the client and nobody is in an operation.       *)
LEMMA InitIInv == Init => IInv
<1> SUFFICES ASSUME Init PROVE IInv
  OBVIOUS
<1>1. TypeOK
  BY DEF Init, TypeOK, PCs, Ops
<1>2. Located /\ Locked /\ Responsible
  BY DEF Init, Located, Locked, Responsible, In, Out, Critical
<1>3. ~panicked /\ Settled /\ Distinct /\ Undropped
  BY DEF Init, Settled, Distinct, Undropped
<1> QED
  BY <1>1, <1>2, <1>3 DEF IInv

(* Getting the lock: nobody else is past lockHash for this hash.              *)
LEMMA LockStep ==
    ASSUME IInv, NEW p \in Proc, Lock(p)
    PROVE  IInv'
<1>1. TypeOK'
  BY DEF IInv, TypeOK, Located, PCs, Ops, Adds, Drops, Deletes, In, Out, Lock,
         Goto, AfterLock, shared
<1>2. Located' /\ Locked'
  BY NoneAssumption
     DEF IInv, TypeOK, Located, Locked, In, Out, Critical, Lock, Goto,
         AfterLock, shared
<1>3. Responsible'
  BY DEF IInv, TypeOK, Located, Responsible, In, Out, Lock, Goto, AfterLock,
         shared
<1>4. Settled'
  BY DEF IInv, TypeOK, Responsible, Settled, In, Out, Lock, Goto, AfterLock,
         shared
<1>5. ~panicked' /\ Distinct' /\ Undropped'
  BY DEF IInv, TypeOK, Located, Distinct, Undropped, In, Out, Lock, Goto,
         AfterLock, shared
<1> QED
  BY <1>1, <1>2, <1>3, <1>4, <1>5 DEF IInv

(* Releasing it: this goroutine answers for no torrent any more.              *)
LEMMA UnlockStep ==
    ASSUME IInv, NEW p \in Proc, Unlock(p)
    PROVE  IInv'
<1>1. TypeOK'
  BY DEF IInv, TypeOK, Located, PCs, Ops, Adds, Drops, Deletes, In, Out,
         Unlock, End, shared
<1>2. Located' /\ Locked'
  BY NoneAssumption
     DEF IInv, TypeOK, Located, Locked, In, Out, Critical, Unlock, End, shared
<1>3. Responsible'
  BY DEF IInv, TypeOK, Located, Responsible, In, Out, Unlock, End, shared
<1>4. Settled'
  BY DEF IInv, TypeOK, Responsible, Settled, In, Out, Unlock, End, shared
<1>5. ~panicked' /\ Distinct' /\ Undropped'
  BY DEF IInv, TypeOK, Located, Distinct, Undropped, In, Out, Unlock, End,
         shared
<1> QED
  BY <1>1, <1>2, <1>3, <1>4, <1>5 DEF IInv

(* The same, on the way back to Ensure.                                       *)
LEMMA UnlockWakeStep ==
    ASSUME IInv, NEW p \in Proc, UnlockWake(p)
    PROVE  IInv'
<1>1. TypeOK'
  BY DEF IInv, TypeOK, Located, PCs, Ops, Adds, Drops, Deletes, In, Out,
         UnlockWake, Goto, shared
<1>2. Located' /\ Locked'
  BY NoneAssumption
     DEF IInv, TypeOK, Located, Locked, In, Out, Critical, UnlockWake, Goto,
         shared
<1>3. Responsible'
  BY DEF IInv, TypeOK, Located, Responsible, In, Out, UnlockWake, Goto, shared
<1>4. Settled'
  BY DEF IInv, TypeOK, Responsible, Settled, In, Out, UnlockWake, Goto, shared
<1>5. ~panicked' /\ Distinct' /\ Undropped'
  BY DEF IInv, TypeOK, Located, Distinct, Undropped, In, Out, UnlockWake, Goto,
         shared
<1> QED
  BY <1>1, <1>2, <1>3, <1>4, <1>5 DEF IInv

(* Entering an operation changes nothing shared.                              *)
LEMMA StartStep ==
    ASSUME IInv, NEW p \in Proc, NEW h \in Hash, Start(p, h)
    PROVE  IInv'
<1>1. TypeOK'
  BY DEF IInv, TypeOK, Located, PCs, Ops, Adds, Drops, Deletes, In, Out, Start,
         StartAdd, StartDrop, StartDelete, StartStream, ReapIdle, SeedVisit,
         Begin, shared
<1>2. Located' /\ Locked'
  BY NoneAssumption
     DEF IInv, TypeOK, Located, Locked, In, Out, Critical, Start, StartAdd,
         StartDrop, StartDelete, StartStream, ReapIdle, SeedVisit, Begin,
         shared
<1>3. Responsible'
  BY DEF IInv, TypeOK, Located, Responsible, In, Out, Start, StartAdd,
         StartDrop, StartDelete, StartStream, ReapIdle, SeedVisit, Begin,
         shared
<1>4. Settled'
  BY DEF IInv, TypeOK, Responsible, Settled, In, Out, Start, StartAdd,
         StartDrop, StartDelete, StartStream, ReapIdle, SeedVisit, Begin,
         shared
<1>5. ~panicked' /\ Distinct' /\ Undropped'
  BY DEF IInv, TypeOK, Located, Distinct, Undropped, In, Out, Start, StartAdd,
         StartDrop, StartDelete, StartStream, ReapIdle, SeedVisit, Begin,
         shared
<1> QED
  BY <1>1, <1>2, <1>3, <1>4, <1>5 DEF IInv

(* AddCheck goes on to AddTorrentSpec only for a hash not in the map.         *)
LEMMA AddCheckStep ==
    ASSUME IInv, NEW p \in Proc, AddCheck(p)
    PROVE  IInv'
<1>1. TypeOK'
  BY DEF IInv, TypeOK, Located, PCs, Ops, Adds, Drops, Deletes, In, Out,
         AddCheck, Goto, Added, shared
<1>2. Located' /\ Locked'
  BY NoneAssumption
     DEF IInv, TypeOK, Located, Locked, In, Out, Critical, AddCheck, Goto,
         Added, shared
<1>3. Responsible'
  BY DEF IInv, TypeOK, Located, Responsible, In, Out, AddCheck, Goto, Added,
         shared
<1>4. Settled'
  BY DEF IInv, TypeOK, Responsible, Settled, In, Out, AddCheck, Goto, Added,
         shared
<1>5. ~panicked' /\ Distinct' /\ Undropped'
  BY DEF IInv, TypeOK, Located, Distinct, Undropped, In, Out, AddCheck, Goto,
         Added, shared
<1> QED
  BY <1>1, <1>2, <1>3, <1>4, <1>5 DEF IInv

(* A failed AddTorrentSpec leaves the client as it was.                       *)
LEMMA AddSpecFailsStep ==
    ASSUME IInv, NEW p \in Proc, AddSpecFails(p)
    PROVE  IInv'
<1>1. TypeOK'
  BY DEF IInv, TypeOK, Located, PCs, Ops, Adds, Drops, Deletes, In, Out,
         AddSpecFails, Goto, shared
<1>2. Located' /\ Locked'
  BY NoneAssumption
     DEF IInv, TypeOK, Located, Locked, In, Out, Critical, AddSpecFails, Goto,
         shared
<1>3. Responsible'
  BY DEF IInv, TypeOK, Located, Responsible, In, Out, AddSpecFails, Goto,
         shared
<1>4. Settled'
  BY DEF IInv, TypeOK, Responsible, Settled, In, Out, AddSpecFails, Goto,
         shared
<1>5. ~panicked' /\ Distinct' /\ Undropped'
  BY DEF IInv, TypeOK, Located, Distinct, Undropped, In, Out, AddSpecFails,
         Goto, shared
<1> QED
  BY <1>1, <1>2, <1>3, <1>4, <1>5 DEF IInv

(* Metadata arrives: the goroutine keeps the torrent it has.                  *)
LEMMA GotInfoStep ==
    ASSUME IInv, NEW p \in Proc, GotInfo(p)
    PROVE  IInv'
<1>1. TypeOK'
  BY DEF IInv, TypeOK, Located, PCs, Ops, Adds, Drops, Deletes, In, Out,
         GotInfo, Goto
<1>2. Located' /\ Locked'
  BY NoneAssumption
     DEF IInv, TypeOK, Located, Locked, In, Out, Critical, GotInfo, Goto
<1>3. Responsible'
  BY DEF IInv, TypeOK, Located, Responsible, In, Out, GotInfo, Goto
<1>4. Settled'
  BY DEF IInv, TypeOK, Responsible, Settled, In, Out, GotInfo, Goto
<1>5. ~panicked' /\ Distinct' /\ Undropped'
  BY DEF IInv, TypeOK, Located, Distinct, Undropped, In, Out, GotInfo, Goto
<1> QED
  BY <1>1, <1>2, <1>3, <1>4, <1>5 DEF IInv

(* The new m is not dropped.                                                  *)
LEMMA BuildStep ==
    ASSUME IInv, NEW p \in Proc, Build(p)
    PROVE  IInv'
<1>1. TypeOK'
  BY DEF IInv, TypeOK, Located, PCs, Ops, Adds, Drops, Deletes, In, Out, Build,
         Goto, Touch, Open
<1>2. Located' /\ Locked'
  BY NoneAssumption
     DEF IInv, TypeOK, Located, Locked, In, Out, Critical, Build, Goto, Touch,
         Open
<1>3. Responsible'
  BY DEF IInv, TypeOK, Located, Responsible, In, Out, Build, Goto, Touch, Open
<1>4. Settled'
  BY DEF IInv, TypeOK, Responsible, Settled, In, Out, Build, Goto, Touch, Open
<1>5. ~panicked' /\ Distinct' /\ Undropped'
  BY DEF IInv, TypeOK, Located, Distinct, Undropped, In, Out, Build, Goto,
         Touch, Open
<1> QED
  BY <1>1, <1>2, <1>3, <1>4, <1>5 DEF IInv

(* The record is saved after the torrent was registered.                      *)
LEMMA SaveStep ==
    ASSUME IInv, NEW p \in Proc, Save(p)
    PROVE  IInv'
<1>1. TypeOK'
  BY DEF IInv, TypeOK, Located, PCs, Ops, Adds, Drops, Deletes, In, Out, Save, shared,
         Goto, Added
<1>2. Located' /\ Locked'
  BY NoneAssumption
     DEF IInv, TypeOK, Located, Locked, In, Out, Critical, Save, shared, Goto, Added
<1>3. Responsible'
  BY DEF IInv, TypeOK, Located, Responsible, In, Out, Save, shared, Goto, Added
<1>4. Settled'
  BY DEF IInv, TypeOK, Responsible, Settled, In, Out, Save, shared, Goto, Added
<1>5. ~panicked' /\ Distinct' /\ Undropped'
  BY DEF IInv, TypeOK, Located, Distinct, Undropped, In, Out, Save, shared, Goto, Added
<1> QED
  BY <1>1, <1>2, <1>3, <1>4, <1>5 DEF IInv

(* The record is deleted after the torrent was closed.                        *)
LEMMA DeleteRecordStep ==
    ASSUME IInv, NEW p \in Proc, DeleteRecord(p)
    PROVE  IInv'
<1>1. TypeOK'
  BY DEF IInv, TypeOK, Located, PCs, Ops, Adds, Drops, Deletes, In, Out,
         DeleteRecord, shared, Goto
<1>2. Located' /\ Locked'
  BY NoneAssumption
     DEF IInv, TypeOK, Located, Locked, In, Out, Critical, DeleteRecord, shared, Goto
<1>3. Responsible'
  BY DEF IInv, TypeOK, Located, Responsible, In, Out, DeleteRecord, shared, Goto
<1>4. Settled'
  BY DEF IInv, TypeOK, Responsible, Settled, In, Out, DeleteRecord, shared, Goto
<1>5. ~panicked' /\ Distinct' /\ Undropped'
  BY DEF IInv, TypeOK, Located, Distinct, Undropped, In, Out, DeleteRecord, shared,
         Goto
<1> QED
  BY <1>1, <1>2, <1>3, <1>4, <1>5 DEF IInv

(* Ensure only looks.                                                         *)
LEMMA EnsureStep ==
    ASSUME IInv, NEW p \in Proc, Ensure(p) \/ EnsureRecord(p) \/ EnsureAgain(p)
    PROVE  IInv'
<1>1. TypeOK'
  BY DEF IInv, TypeOK, Located, PCs, Ops, Adds, Drops, Deletes, In, Out,
         Ensure, EnsureRecord, EnsureAgain, Goto, End, shared
<1>2. Located' /\ Locked'
  BY NoneAssumption
     DEF IInv, TypeOK, Located, Locked, In, Out, Critical, Ensure,
         EnsureRecord, EnsureAgain, Goto, End, shared
<1>3. Responsible'
  BY DEF IInv, TypeOK, Located, Responsible, In, Out, Ensure, EnsureRecord,
         EnsureAgain, Goto, End, shared
<1>4. Settled'
  BY DEF IInv, TypeOK, Responsible, Settled, In, Out, Ensure, EnsureRecord,
         EnsureAgain, Goto, End, shared
<1>5. ~panicked' /\ Distinct' /\ Undropped'
  BY DEF IInv, TypeOK, Located, Distinct, Undropped, In, Out, Ensure,
         EnsureRecord, EnsureAgain, Goto, End, shared
<1> QED
  BY <1>1, <1>2, <1>3, <1>4, <1>5 DEF IInv

(* A reader more, or none.                                                    *)
LEMMA AttachStep ==
    ASSUME IInv, NEW p \in Proc, Attach(p) \/ NoSuchFile(p)
    PROVE  IInv'
<1>1. TypeOK'
  BY DEF IInv, TypeOK, Located, PCs, Ops, Adds, Drops, Deletes, In, Out,
         Attach, NoSuchFile, Goto, End, Touch, Open, shared
<1>2. Located' /\ Locked'
  BY NoneAssumption
     DEF IInv, TypeOK, Located, Locked, In, Out, Critical, Attach, NoSuchFile,
         Goto, End, Touch, Open, shared
<1>3. Responsible'
  BY DEF IInv, TypeOK, Located, Responsible, In, Out, Attach, NoSuchFile, Goto,
         End, Touch, Open, shared
<1>4. Settled'
  BY DEF IInv, TypeOK, Responsible, Settled, In, Out, Attach, NoSuchFile, Goto,
         End, Touch, Open, shared
<1>5. ~panicked' /\ Distinct' /\ Undropped'
  BY DEF IInv, TypeOK, Located, Distinct, Undropped, In, Out, Attach,
         NoSuchFile, Goto, End, Touch, Open, shared
<1> QED
  BY <1>1, <1>2, <1>3, <1>4, <1>5 DEF IInv

(* A reader less.                                                             *)
LEMMA ReleaseStep ==
    ASSUME IInv, NEW p \in Proc, Release(p)
    PROVE  IInv'
<1>1. TypeOK'
  BY DEF IInv, TypeOK, Located, PCs, Ops, Adds, Drops, Deletes, In, Out,
         Release, ReleaseTo, Goto, End
<1>2. Located' /\ Locked'
  BY NoneAssumption
     DEF IInv, TypeOK, Located, Locked, In, Out, Critical, Release, ReleaseTo, Goto, End
<1>3. Responsible'
  BY DEF IInv, TypeOK, Located, Responsible, In, Out, Release, ReleaseTo, Goto, End
<1>4. Settled'
  BY DEF IInv, TypeOK, Responsible, Settled, In, Out, Release, ReleaseTo, Goto, End
<1>5. ~panicked' /\ Distinct' /\ Undropped'
  BY DEF IInv, TypeOK, Located, Distinct, Undropped, In, Out, Release, ReleaseTo, Goto,
         End
<1> QED
  BY <1>1, <1>2, <1>3, <1>4, <1>5 DEF IInv

(* The seed enforcer looks at a torrent.                                      *)
LEMMA SeedCheckStep ==
    ASSUME IInv, NEW p \in Proc, SeedCheck(p)
    PROVE  IInv'
<1>1. TypeOK'
  BY DEF IInv, TypeOK, Located, PCs, Ops, Adds, Drops, Deletes, In, Out,
         SeedCheck, Goto, End, shared
<1>2. Located' /\ Locked'
  BY NoneAssumption
     DEF IInv, TypeOK, Located, Locked, In, Out, Critical, SeedCheck, Goto,
         End, shared
<1>3. Responsible'
  BY DEF IInv, TypeOK, Located, Responsible, In, Out, SeedCheck, Goto, End,
         shared
<1>4. Settled'
  BY DEF IInv, TypeOK, Responsible, Settled, In, Out, SeedCheck, Goto, End,
         shared
<1>5. ~panicked' /\ Distinct' /\ Undropped'
  BY DEF IInv, TypeOK, Located, Distinct, Undropped, In, Out, SeedCheck, Goto,
         End, shared
<1> QED
  BY <1>1, <1>2, <1>3, <1>4, <1>5 DEF IInv

(* Two goroutines past lockHash are there for different hashes.               *)
LEMMA NoRival ==
    ASSUME IInv, NEW p \in Proc, NEW q \in Proc, p # q,
           pc[p] \in Critical, pc[q] \in Critical
    PROVE  hash[p] # hash[q]
BY DEF IInv, Locked

(* The torrent a goroutine answers for is the client's torrent of its hash    *)
(* and of no other, so closing it changes the client at that hash only.       *)
LEMMA OwnTorrent ==
    ASSUME IInv, NEW p \in Proc, pc[p] \in In \cup Out
    PROVE  /\ hash[p] \in Hash /\ tor[p] \in Torrent /\ tor[p] # None
           /\ Open(tor[p])
           /\ \A h \in Hash : client[h] = tor[p] <=> h = hash[p]
<1>1. /\ hash[p] \in Hash /\ tor[p] \in Torrent
      /\ client[hash[p]] = tor[p]
  BY DEF IInv, Located, Responsible, In, Out
<1>2. tor[p] # None
  BY <1>1, NoneAssumption
<1> QED
  BY <1>1, <1>2 DEF IInv, Distinct, Open

(* About to call AddTorrentSpec, under the lock, with the hash not managed:   *)
(* nobody answers for a torrent of that hash, so the client has none.         *)
LEMMA NothingThere ==
    ASSUME IInv, NEW p \in Proc, pc[p] \in {"addSpec", "diskSpec"}
    PROVE  client[hash[p]] = None
<1>1. hash[p] \in Hash /\ managed[hash[p]] = None
  BY DEF IInv, Located, Responsible
<1>2. ASSUME NEW q \in Proc, pc[q] \in In \cup Out
      PROVE  hash[q] # hash[p]
  BY <1>2, NoRival DEF In, Out, Critical
<1> QED
  BY <1>1, <1>2 DEF IInv, Settled

(* AddTorrentSpec: the client does not know the hash, so the torrent is new.  *)
LEMMA AddSpecStep ==
    ASSUME IInv, NEW p \in Proc, AddSpec(p) \/ AddAgain(p)
    PROVE  IInv'
<1> DEFINE h == hash[p]
<1>1. /\ pc[p] \in {"addSpec", "diskSpec"}
      /\ \E to \in {"metadata", "diskMetadata"} : pc' = [pc EXCEPT ![p] = to]
      /\ UNCHANGED <<managed, readers, keep, dropped, older, panicked,
                     lock, op, hash>>
  BY DEF AddSpec, AddAgain, AddTorrentSpec, Goto
<1>2. h \in Hash /\ managed[h] = None /\ client[h] = None
  BY <1>1, NothingThere DEF IInv, Located, Responsible
<1>3. PICK t \in Torrent : /\ Unreferenced(t)
                           /\ tor' = [tor EXCEPT ![p] = t]
                           /\ client' = [client EXCEPT ![h] = t]
  BY <1>2 DEF AddSpec, AddAgain, AddTorrentSpec
<1>4. t # None /\ \A g \in Hash : client[g] # t
  BY <1>3, NoneAssumption DEF Unreferenced, Open
<1>5. TypeOK'
  BY <1>1, <1>2, <1>3 DEF IInv, TypeOK, PCs
<1>6. Located' /\ Locked'
  BY <1>1, <1>2, <1>3 DEF IInv, TypeOK, Located, Locked, In, Out, Critical
<1>7. Responsible'
  <2> SUFFICES ASSUME NEW q \in Proc, q # p
               PROVE  /\ pc[q] \in In \cup Out =>
                            client'[hash[q]] = tor[q] /\ managed[hash[q]] = None
                      /\ pc[q] \in Out \cup {"register"} => ~dropped[tor[q]]
                      /\ pc[q] \in {"addSpec", "diskSpec"} => managed[hash[q]] = None
    BY <1>1, <1>2, <1>3 DEF IInv, TypeOK, Responsible, In, Out
  <2>1. pc[q] \in In \cup Out => client'[hash[q]] = client[hash[q]]
    BY <1>1, <1>2, <1>3, NoRival, OwnTorrent DEF IInv, TypeOK, In, Out, Critical
  <2> QED
    BY <2>1 DEF IInv, Responsible
<1>8. Settled'
  BY <1>1, <1>2, <1>3 DEF IInv, TypeOK, Settled, In, Out
<1>9. ~panicked' /\ Distinct' /\ Undropped'
  BY <1>1, <1>2, <1>3, <1>4 DEF IInv, TypeOK, Distinct, Undropped
<1> QED
  BY <1>5, <1>6, <1>7, <1>8, <1>9 DEF IInv

(* t.Drop() by the goroutine that answers for t, which then gives it up.      *)
LEMMA GiveUp ==
    ASSUME IInv, NEW p \in Proc, pc[p] \in In \cup Out,
           client' = [h \in Hash |-> IF client[h] \in {tor[p]} THEN None ELSE client[h]],
           panicked' = (panicked \/ \E t \in {tor[p]} : ~Open(t)),
           NEW to \in {"diskSpec", "unlock", "deleteRecord"},
           pc' = [pc EXCEPT ![p] = to],
           \A q \in Proc : q # p => tor'[q] = tor[q],
           \A t \in Torrent : t # tor[p] => dropped'[t] = dropped[t],
           UNCHANGED <<managed, lock, hash>>
    PROVE  /\ Located' /\ Locked' /\ Responsible'
           /\ Settled' /\ Distinct' /\ Undropped' /\ ~panicked'
<1>1. /\ client' = [client EXCEPT ![hash[p]] = None]
      /\ hash[p] \in Hash /\ tor[p] \in Torrent
      /\ managed[hash[p]] = None
  <2>1. /\ hash[p] \in Hash /\ tor[p] \in Torrent
        /\ \A h \in Hash : client[h] = tor[p] <=> h = hash[p]
    BY OwnTorrent
  <2>2. client' = [client EXCEPT ![hash[p]] = None]
    BY <2>1 DEF IInv, TypeOK
  <2>3. managed[hash[p]] = None
    BY DEF IInv, Responsible
  <2> QED
    BY <2>1, <2>2, <2>3
<1>2. ASSUME NEW q \in Proc, q # p, pc[q] \in In \cup Out
      PROVE  hash[q] \in Hash /\ hash[q] # hash[p] /\ tor[q] # tor[p] /\ tor[q] \in Torrent
  BY <1>1, <1>2, NoRival, OwnTorrent DEF Critical
<1>3. Located' /\ Locked'
  BY <1>1 DEF IInv, TypeOK, Located, Locked, In, Out, Critical
<1>4. Responsible'
  <2> SUFFICES ASSUME NEW q \in Proc, q # p
               PROVE  /\ pc[q] \in In \cup Out =>
                            client'[hash[q]] = tor[q] /\ managed[hash[q]] = None
                      /\ pc[q] \in Out \cup {"register"} => ~dropped'[tor[q]]
                      /\ pc[q] \in {"addSpec", "diskSpec"} => managed[hash[q]] = None
    BY <1>1 DEF IInv, TypeOK, Responsible, In, Out
  <2> QED
    BY <1>1, <1>2 DEF IInv, TypeOK, Responsible, In, Out
<1>5. Settled'
  BY <1>1 DEF IInv, TypeOK, Settled, In, Out
<1>6. Distinct'
  BY <1>1 DEF IInv, TypeOK, Distinct
<1>7. Undropped'
  <2> SUFFICES ASSUME NEW h \in Hash, managed[h] # None
               PROVE  ~dropped'[managed[h]]
    BY DEF Undropped
  <2>1. ~dropped[managed[h]] /\ managed[h] \in Torrent
    BY DEF IInv, TypeOK, Undropped
  <2>2. client[h] = managed[h]
    BY DEF IInv, Settled, Responsible
  <2>3. managed[h] # tor[p]
    BY <1>1, <2>2, OwnTorrent
  <2> QED
    BY <2>1, <2>3
<1>8. ~panicked'
  BY OwnTorrent DEF IInv
<1> QED
  BY <1>3, <1>4, <1>5, <1>6, <1>7, <1>8

(* keepSeed found late: the RAM torrent is dropped to be added again.         *)
LEMMA ReaddDropStep ==
    ASSUME IInv, NEW p \in Proc, ReaddDrop(p)
    PROVE  IInv'
<1>1. TypeOK'
  BY DEF IInv, TypeOK, PCs, ReaddDrop, Goto, Dispose
<1>2. /\ pc[p] \in In \cup Out
      /\ pc' = [pc EXCEPT ![p] = "diskSpec"]
      /\ \A q \in Proc : q # p => tor'[q] = tor[q]
  BY DEF IInv, TypeOK, ReaddDrop, Goto, In
<1> QED
  BY <1>1, <1>2, GiveUp DEF IInv, ReaddDrop, Dispose

(* An Add that failed drops what it had added.                                *)
LEMMA AbandonStep ==
    ASSUME IInv, NEW p \in Proc, TimedOut(p) \/ NotPlayable(p)
    PROVE  IInv'
<1>1. TypeOK'
  BY DEF IInv, TypeOK, PCs, TimedOut, NotPlayable, Abandon, Goto, Dispose
<1>2. /\ pc[p] \in In \cup Out
      /\ pc' = [pc EXCEPT ![p] = "unlock"]
      /\ UNCHANGED <<managed, dropped, lock, hash, tor>>
      /\ Dispose({tor[p]})
  BY DEF TimedOut, NotPlayable, Abandon, Goto, In
<1> QED
  BY <1>1, <1>2, GiveUp DEF IInv, Dispose

(* Drop and Delete close what they took out of the map; it was not dropped.   *)
LEMMA CloseManagedStep ==
    ASSUME IInv, NEW p \in Proc, CloseManaged(p)
    PROVE  IInv'
<1>1. TypeOK'
  BY DEF IInv, TypeOK, PCs, CloseManaged, Goto, DropManaged, Dispose
<1>2. /\ pc[p] \in Out
      /\ \E to \in {"unlock", "deleteRecord"} : pc' = [pc EXCEPT ![p] = to]
      /\ UNCHANGED <<managed, lock, hash, tor>>
      /\ dropped' = [t \in Torrent |-> dropped[t] \/ t \in {tor[p]}]
      /\ Dispose({t \in {tor[p]} : ~dropped[t]})
  BY DEF CloseManaged, Goto, DropManaged, Out
<1>3. {t \in {tor[p]} : ~dropped[t]} = {tor[p]}
  BY <1>2 DEF IInv, Responsible
<1>4. Dispose({tor[p]})
  BY <1>2, <1>3
<1>5. \A t \in Torrent : t # tor[p] => dropped'[t] = dropped[t]
  BY <1>2 DEF IInv, TypeOK
<1> QED
  BY <1>1, <1>2, <1>4, <1>5, GiveUp DEF IInv, Dispose

(* Out of the map: from here on this goroutine answers for the torrent.       *)
LEMMA RemoveStep ==
    ASSUME IInv, NEW p \in Proc, DropRemove(p) \/ DeleteRemove(p)
    PROVE  IInv'
<1>1. /\ pc[p] \in {"dropRemove", "deleteRemove"}
      /\ hash[p] \in Hash
      /\ UNCHANGED <<client, readers, keep, dropped, older, panicked,
                     lock, op, hash>>
  BY DEF IInv, Located, DropRemove, DeleteRemove, Remove, Goto
<1>2. CASE managed[hash[p]] = None
  <2>1. /\ \E to \in {"unlock", "deleteRecord"} : pc' = [pc EXCEPT ![p] = to]
        /\ UNCHANGED <<managed, tor>>
    BY <1>2 DEF DropRemove, DeleteRemove, Remove, Goto
  <2>2. TypeOK'
    BY <1>1, <2>1 DEF IInv, TypeOK, PCs
  <2>3. Located' /\ Locked' /\ Responsible'
    BY <1>1, <2>1
       DEF IInv, TypeOK, Located, Locked, Responsible, In, Out, Critical
  <2>4. ~panicked' /\ Settled' /\ Distinct' /\ Undropped'
    BY <1>1, <2>1 DEF IInv, TypeOK, Settled, Distinct, Undropped, In, Out
  <2> QED
    BY <2>2, <2>3, <2>4 DEF IInv
<1>3. CASE managed[hash[p]] # None
  <2>1. /\ \E to \in Out : pc' = [pc EXCEPT ![p] = to]
        /\ tor' = [tor EXCEPT ![p] = managed[hash[p]]]
        /\ managed' = [managed EXCEPT ![hash[p]] = None]
    BY <1>3 DEF DropRemove, DeleteRemove, Remove, Goto, Out
  <2>2. client[hash[p]] = managed[hash[p]] /\ ~dropped[managed[hash[p]]]
    BY <1>1, <1>3 DEF IInv, Settled, Responsible, Undropped
  <2>3. TypeOK'
    BY <1>1, <2>1 DEF IInv, TypeOK, PCs, Out
  <2>4. Located' /\ Locked'
    BY <1>1, <1>3, <2>1 DEF IInv, TypeOK, Located, Locked, In, Out, Critical
  <2>5. Responsible'
    BY <1>1, <2>1, <2>2 DEF IInv, TypeOK, Located, Responsible, In, Out
  <2>6. Settled'
    BY <1>1, <2>1 DEF IInv, TypeOK, Settled, In, Out
  <2>7. ~panicked' /\ Distinct' /\ Undropped'
    BY <1>1, <2>1 DEF IInv, TypeOK, Distinct, Undropped
  <2> QED
    BY <2>3, <2>4, <2>5, <2>6, <2>7 DEF IInv
<1> QED
  BY <1>2, <1>3

(* Registration and the sweep of the active limit.                            *)
LEMMA RegisterStep ==
    ASSUME IInv, NEW p \in Proc, Register(p)
    PROVE  IInv'
<1> DEFINE h  == hash[p]
           ms == [managed EXCEPT ![h] = tor[p]]
           V  == Victims(ms)
<1>1. /\ pc[p] = "register"
      /\ pc' = [pc EXCEPT ![p] = "save"]
      /\ managed' = [g \in Hash |-> IF ms[g] \in V THEN None ELSE ms[g]]
      /\ DropManaged(V)
      /\ UNCHANGED <<readers, keep, lock, op, hash, tor>>
  BY DEF Register, Goto
<1>2. /\ h \in Hash /\ tor[p] \in Torrent
      /\ client[h] = tor[p] /\ managed[h] = None
      /\ ~dropped[tor[p]]
  BY <1>1 DEF IInv, Located, Responsible, In
(* What the map has is open and not dropped, the new torrent included.        *)
<1>3. ASSUME NEW g \in Hash, ms[g] # None
      PROVE  ms[g] \in Torrent /\ client[g] = ms[g] /\ ~dropped[ms[g]]
  <2>1. CASE g = h
    BY <1>2, <2>1 DEF IInv, TypeOK
  <2>2. CASE g # h
    <3>1. ms[g] = managed[g]
      BY <1>2, <2>2 DEF IInv, TypeOK
    <3> QED
      BY <1>3, <3>1 DEF IInv, TypeOK, Settled, Responsible, Undropped
  <2> QED
    BY <2>1, <2>2
<1>4. \A t \in V : t \in Torrent /\ \E g \in Hash : ms[g] = t
  BY DEF Victims, IdleIn
<1>5. \A t \in V : /\ t \in Torrent /\ t # None /\ ~dropped[t]
                   /\ \E g \in Hash : ms[g] = t /\ client[g] = t
  BY <1>3, <1>4, NoneAssumption
<1>6. {t \in V : ~dropped[t]} = V
  BY <1>5
<1>7. /\ client' = [g \in Hash |-> IF client[g] \in V THEN None ELSE client[g]]
      /\ older' \in SUBSET older
      /\ dropped' = [t \in Torrent |-> dropped[t] \/ t \in V]
      /\ panicked' = (panicked \/ \E t \in V : ~Open(t))
  BY <1>1, <1>6 DEF DropManaged, Dispose
(* A victim is the client's torrent of the hash it is in the map for only.    *)
<1>8. ASSUME NEW g \in Hash, client[g] \in V
      PROVE  ms[g] = client[g]
  BY <1>5, <1>8 DEF IInv, Distinct
<1>9. TypeOK'
  <2>1. managed' \in [Hash -> Torrent \cup {None}]
    BY <1>1, <1>2 DEF IInv, TypeOK
  <2>2. client' \in [Hash -> Torrent \cup {None}] /\ dropped' \in [Torrent -> BOOLEAN]
    BY <1>7 DEF IInv, TypeOK
  <2> QED
    BY <1>1, <1>7, <2>1, <2>2 DEF IInv, TypeOK, PCs
<1>10. Located' /\ Locked'
  BY <1>1 DEF IInv, TypeOK, Located, Locked, In, Out, Critical
<1>11. Responsible'
  <2> SUFFICES ASSUME NEW q \in Proc, q # p
               PROVE  /\ pc[q] \in In \cup Out =>
                            client'[hash[q]] = tor[q] /\ managed'[hash[q]] = None
                      /\ pc[q] \in Out \cup {"register"} => ~dropped'[tor[q]]
                      /\ pc[q] \in {"addSpec", "diskSpec"} => managed'[hash[q]] = None
    BY <1>1 DEF IInv, TypeOK, Responsible, In, Out
  <2>1. ASSUME pc[q] \in In \cup Out \cup {"addSpec", "diskSpec"}
        PROVE  hash[q] \in Hash /\ hash[q] # h /\ managed[hash[q]] = None
    BY <1>1, <2>1, NoRival DEF IInv, Located, Responsible, In, Out, Critical
  <2>2. ASSUME pc[q] \in In \cup Out \cup {"addSpec", "diskSpec"}
        PROVE  ms[hash[q]] = None /\ managed'[hash[q]] = None
    BY <1>1, <2>1, <2>2 DEF IInv, TypeOK
  <2>3. ASSUME pc[q] \in In \cup Out
        PROVE  tor[q] \in Torrent /\ client[hash[q]] = tor[q] /\ tor[q] \notin V
    <3>1. tor[q] \in Torrent /\ tor[q] # None /\ client[hash[q]] = tor[q]
      BY <2>1, <2>3, OwnTorrent
    <3> QED
      BY <1>8, <2>1, <2>2, <2>3, <3>1
  <2> QED
    BY <1>7, <2>1, <2>2, <2>3 DEF IInv, Responsible, In
<1>12. Settled'
  <2> SUFFICES ASSUME NEW g \in Hash, client'[g] # managed'[g]
               PROVE  \E q \in Proc : pc'[q] \in In \cup Out /\ hash[q] = g
    BY <1>1 DEF Settled
  <2>1. client[g] # ms[g]
    BY <1>1, <1>7
  <2>2. g # h /\ ms[g] = managed[g]
    BY <1>2, <2>1 DEF IInv, TypeOK
  <2>3. PICK q \in Proc : pc[q] \in In \cup Out /\ hash[q] = g
    BY <2>1, <2>2 DEF IInv, Settled
  <2> QED
    BY <1>1, <2>2, <2>3 DEF IInv, TypeOK
<1>13. Distinct'
  BY <1>7 DEF IInv, Distinct
<1>14. Undropped'
  BY <1>1, <1>3, <1>7 DEF Undropped
<1>15. ~panicked'
  BY <1>5, <1>7 DEF IInv, Open
<1> QED
  BY <1>9, <1>10, <1>11, <1>12, <1>13, <1>14, <1>15 DEF IInv

(* Every step keeps the invariant.                                            *)
LEMMA NextIInv == IInv /\ [Next]_vars => IInv'
<1> SUFFICES ASSUME IInv, [Next]_vars PROVE IInv'
  OBVIOUS
<1>1. ASSUME NEW p \in Proc, NEW h \in Hash, Start(p, h)
      PROVE  IInv'
  BY <1>1, StartStep
<1>2. ASSUME NEW p \in Proc, Run(p)
      PROVE  IInv'
  BY <1>2, AddCheckStep, AddSpecStep, AddSpecFailsStep, ReaddDropStep,
     AbandonStep, BuildStep, RegisterStep, SaveStep, RemoveStep,
     CloseManagedStep, DeleteRecordStep, EnsureStep, AttachStep,
     SeedCheckStep, UnlockStep, UnlockWakeStep DEF Run
<1>3. ASSUME NEW p \in Proc, Lock(p) \/ GotInfo(p) \/ TimedOut(p) \/ Release(p)
      PROVE  IInv'
  BY <1>3, LockStep, GotInfoStep, AbandonStep, ReleaseStep
<1>4. ASSUME UNCHANGED vars
      PROVE  IInv'
  BY <1>4 DEF vars, IInv, TypeOK, Located, Locked, Responsible, Settled,
              Distinct, Undropped
<1> QED
  BY <1>1, <1>2, <1>3, <1>4 DEF Next

(* Each of the client's torrents has the map or one goroutine to answer for it. *)
THEOREM Invariant == Spec => []IInv
BY InitIInv, NextIInv, PTL DEF Spec

(* Every variable keeps its type.                                             *)
THEOREM TypeCorrect == Spec => []TypeOK
<1>1. IInv => TypeOK
  BY DEF IInv
<1> QED
  BY <1>1, Invariant, PTL

(* No torrent is closed twice, however Add, Drop, Delete, streams, the active *)
(* limit and the background disposals interleave (lifecycle.go:18-20).        *)
THEOREM NeverPanics == Spec => []NoPanic
<1>1. IInv => NoPanic
  BY DEF IInv, NoPanic
<1> QED
  BY <1>1, Invariant, PTL

(* Whatever is in e.managed is alive (lifecycle.go:12-17).                    *)
THEOREM Alive == Spec => []ManagedAlive
<1>1. IInv => ManagedAlive
  BY DEF IInv, ManagedAlive, Settled, Responsible, Undropped
<1> QED
  BY <1>1, Invariant, PTL

(* Where the client and the map differ, the lock's holder has the torrent.    *)
LEMMA HandsOn ==
    ASSUME IInv
    PROVE  NoZombie
<1> SUFFICES ASSUME NEW h \in Hash, client[h] # None, managed[h] # client[h]
             PROVE  lock[h] # None /\ tor[lock[h]] = client[h]
  BY DEF NoZombie
<1>1. PICK p \in Proc : pc[p] \in In \cup Out /\ hash[p] = h
  BY DEF IInv, Settled
<1>2. lock[h] = p /\ client[h] = tor[p]
  BY <1>1 DEF IInv, Locked, Responsible, Critical
<1> QED
  BY <1>2, NoneAssumption

(* An open torrent that is not in the map is in the hands of the goroutine    *)
(* that has the lock of its hash (README.md:58).                              *)
THEOREM Zombieless == Spec => []NoZombie
<1>1. IInv => NoZombie
  BY HandsOn
<1> QED
  BY <1>1, Invariant, PTL

(* Add never gets somebody else's torrent from the client.                    *)
THEOREM NoAdoption == Spec => []NewTorrentsOnly
<1>1. IInv => NewTorrentsOnly
  BY NothingThere DEF NewTorrentsOnly
<1> QED
  BY <1>1, Invariant, PTL

-----------------------------------------------------------------------------
(* The refinement of TorrentLife.                                             *)

(* What the life of a hash says about the goroutines and the map.             *)
Lives == \A h \in Hash :
    /\ Life(h) \in {"gone", "joining", "active", "leaving"}
    /\ Life(h) = "gone"    <=> client[h] = None
    /\ Life(h) = "active"  <=> managed[h] # None
    /\ Life(h) = "joining" <=> \E p \in Proc : pc[p] \in In  /\ hash[p] = h
    /\ Life(h) = "leaving" <=> \E p \in Proc : pc[p] \in Out /\ hash[p] = h

(* The invariant settles which life a hash has.                               *)
LEMMA LivesOK == IInv => Lives
<1> SUFFICES ASSUME IInv, NEW h \in Hash
             PROVE  /\ Life(h) \in {"gone", "joining", "active", "leaving"}
                    /\ Life(h) = "gone"    <=> client[h] = None
                    /\ Life(h) = "active"  <=> managed[h] # None
                    /\ Life(h) = "joining" <=> \E p \in Proc : pc[p] \in In  /\ hash[p] = h
                    /\ Life(h) = "leaving" <=> \E p \in Proc : pc[p] \in Out /\ hash[p] = h
  BY DEF Lives
<1>1. ASSUME NEW p \in Proc, pc[p] \in In \cup Out, hash[p] = h
      PROVE  client[h] # None /\ managed[h] = None /\ lock[h] = p
  BY <1>1, OwnTorrent DEF IInv, Responsible, Locked, Critical
<1>2. client[h] # managed[h] => \E p \in Proc : pc[p] \in In \cup Out /\ hash[p] = h
  BY DEF IInv, Settled
<1>3. \A p, q \in Proc : pc[p] \in In /\ pc[q] \in Out => p # q
  BY DEF In, Out
<1>4. \A p \in Proc : BringingIn(p) <=> pc[p] \in In
  BY DEF BringingIn, In
<1>5. CASE client[h] = managed[h]
  BY <1>1, <1>5 DEF Life
<1>6. CASE client[h] # managed[h]
  <2>1. PICK p \in Proc : pc[p] \in In \cup Out /\ hash[p] = h
    BY <1>2, <1>6
  <2>2. client[h] # None /\ managed[h] = None /\ lock[h] = p
    BY <1>1, <2>1
  <2>3. \A q \in Proc : pc[q] \in In \cup Out /\ hash[q] = h => q = p
    BY <1>1, <2>2
  <2>4. Life(h) = IF pc[p] \in In THEN "joining" ELSE "leaving"
    <3>1. (\E q \in Proc : lock[h] = q /\ BringingIn(q)) <=> pc[p] \in In
      BY <1>4, <2>2
    <3> QED
      BY <1>6, <2>2, <3>1 DEF Life
  <2> QED
    BY <1>3, <2>1, <2>2, <2>3, <2>4
<1> QED
  BY <1>5, <1>6

(* The same, after a step.                                                    *)
LEMMA LivesPrime == IInv' => Lives'
BY LivesOK, PTL

(* A goroutine in its operation on h, the others where they were: their       *)
(* hashes live on unchanged when neither client nor map changes there.        *)
LEMMA Elsewhere ==
    ASSUME IInv, IInv', NEW p \in Proc, NEW to \in PCs, NEW g \in Hash,
           pc' = [pc EXCEPT ![p] = to], hash' = hash, hash[p] # g,
           client'[g] = client[g], managed'[g] = managed[g]
    PROVE  Life(g)' = Life(g)
<1>1. ASSUME NEW S
      PROVE  (\E q \in Proc : pc'[q] \in S /\ hash'[q] = g)
                <=> (\E q \in Proc : pc[q] \in S /\ hash[q] = g)
  BY DEF IInv, TypeOK
<1>2. /\ (\E q \in Proc : pc'[q] \in In /\ hash'[q] = g)
            <=> (\E q \in Proc : pc[q] \in In /\ hash[q] = g)
      /\ (\E q \in Proc : pc'[q] \in Out /\ hash'[q] = g)
            <=> (\E q \in Proc : pc[q] \in Out /\ hash[q] = g)
  BY <1>1
<1>3. Lives /\ Lives'
  BY LivesOK, LivesPrime
<1> QED
  BY <1>2, <1>3 DEF Lives

(* Steps that leave the client and the map alone, and move no goroutine into  *)
(* or out of the places where it answers for a torrent.                       *)
LEMMA QuietStep ==
    ASSUME IInv, IInv', NEW p \in Proc, UNCHANGED <<client, managed>>,
           \A q \in Proc : q # p => pc'[q] = pc[q] /\ hash'[q] = hash[q],
           \/ pc[p] \notin In \cup Out /\ pc'[p] \notin In \cup Out
           \/ pc[p] \in In /\ pc'[p] \in In /\ hash'[p] = hash[p]
    PROVE  UNCHANGED [h \in Hash |-> Life(h)]
<1>1. ASSUME NEW h \in Hash
      PROVE  Life(h)' = Life(h)
  <2>1. Lives /\ Lives'
    BY LivesOK, LivesPrime
  <2>2. (\E q \in Proc : pc'[q] \in In /\ hash'[q] = h)
           <=> (\E q \in Proc : pc[q] \in In /\ hash[q] = h)
    OBVIOUS
  <2>3. (\E q \in Proc : pc'[q] \in Out /\ hash'[q] = h)
           <=> (\E q \in Proc : pc[q] \in Out /\ hash[q] = h)
    BY DEF In, Out
  <2> QED
    BY <2>1, <2>2, <2>3 DEF Lives
<1> QED
  BY <1>1

(* One hash changes its life from a to b, the others live on.                 *)
LEMMA OneLife ==
    ASSUME IInv, IInv', NEW p \in Proc, NEW to \in PCs,
           pc' = [pc EXCEPT ![p] = to], hash' = hash, hash[p] \in Hash,
           \A g \in Hash : g # hash[p] => client'[g] = client[g] /\ managed'[g] = managed[g],
           NEW b, Life(hash[p])' = b
    PROVE  [h \in Hash |-> Life(h)]' = [[h \in Hash |-> Life(h)] EXCEPT ![hash[p]] = b]
<1>1. \A g \in Hash : g # hash[p] => Life(g)' = Life(g)
  BY Elsewhere
<1> QED
  BY <1>1

(* AddTorrentSpec: a hash that was gone joins.                                *)
LEMMA JoinSimulation ==
    ASSUME IInv, IInv', NEW p \in Proc, AddSpec(p) \/ AddAgain(p)
    PROVE  TL!Join(hash[p])
<1> DEFINE h == hash[p]
<1>1. PICK to \in {"metadata", "diskMetadata"} : pc' = [pc EXCEPT ![p] = to]
  BY DEF AddSpec, AddAgain, Goto
<1>2. pc[p] \in {"addSpec", "diskSpec"} /\ hash' = hash /\ managed' = managed
  BY DEF AddSpec, AddAgain, AddTorrentSpec, Goto
<1>3. h \in Hash /\ client[h] = None
  <2>1. h \in Hash /\ managed[h] = None
    BY <1>2 DEF IInv, Located, Responsible
  <2>2. ASSUME NEW q \in Proc, pc[q] \in In \cup Out
        PROVE  hash[q] # h
    BY <1>2, <2>2, NoRival DEF In, Out, Critical
  <2> QED
    BY <2>1, <2>2 DEF IInv, Settled
<1>4. \A g \in Hash : g # h => client'[g] = client[g]
  BY <1>3 DEF AddSpec, AddAgain, AddTorrentSpec, IInv, TypeOK
<1>5. Life(h) = "gone"
  BY <1>3, LivesOK DEF Lives
<1>6. Life(h)' = "joining"
  <2>1. pc'[p] \in In /\ hash'[p] = h
    BY <1>1, <1>2 DEF IInv, TypeOK, In
  <2>2. \A g \in Hash : (\E q \in Proc : pc'[q] \in In /\ hash'[q] = g) => Life(g)' = "joining"
    BY LivesPrime DEF Lives
  <2> QED
    BY <1>2, <1>3, <2>1, <2>2
<1>7. to \in PCs
  BY <1>1 DEF PCs
<1>8. [g \in Hash |-> Life(g)]' = [[g \in Hash |-> Life(g)] EXCEPT ![h] = "joining"]
  BY <1>1, <1>2, <1>3, <1>4, <1>6, <1>7, OneLife
<1> QED
  BY <1>3, <1>5, <1>8 DEF TL!Join

(* The goroutine that answers for a torrent closes it: the hash is gone.      *)
LEMMA GoneSimulation ==
    ASSUME IInv, IInv', NEW p \in Proc, pc[p] \in In \cup Out,
           Dispose({tor[p]}), UNCHANGED <<managed, hash>>,
           NEW to \in PCs, pc' = [pc EXCEPT ![p] = to]
    PROVE  IF pc[p] \in In THEN TL!Abort(hash[p]) ELSE TL!Close(hash[p])
<1> DEFINE h == hash[p]
<1>1. /\ h \in Hash /\ tor[p] # None
      /\ \A g \in Hash : client[g] = tor[p] <=> g = h
  BY OwnTorrent
<1>2. client' = [g \in Hash |-> IF client[g] \in {tor[p]} THEN None ELSE client[g]]
  BY DEF Dispose
<1>3. client'[h] = None /\ \A g \in Hash : g # h => client'[g] = client[g]
  BY <1>1, <1>2
<1>4. Life(h)' = "gone"
  <2>1. \A g \in Hash : client'[g] = None => Life(g)' = "gone"
    BY LivesPrime DEF Lives
  <2> QED
    BY <1>1, <1>3, <2>1
<1>5. Life(h) = IF pc[p] \in In THEN "joining" ELSE "leaving"
  BY <1>1, LivesOK DEF Lives
<1>6. [g \in Hash |-> Life(g)]' = [[g \in Hash |-> Life(g)] EXCEPT ![h] = "gone"]
  BY <1>1, <1>3, <1>4, OneLife
<1> QED
  BY <1>1, <1>5, <1>6 DEF TL!Abort, TL!Close

(* Taking a torrent out of the map, or finding none there.                    *)
LEMMA RetireSimulation ==
    ASSUME IInv, IInv', NEW p \in Proc, DropRemove(p) \/ DeleteRemove(p)
    PROVE  TL!Retire(hash[p]) \/ UNCHANGED [h \in Hash |-> Life(h)]
<1> DEFINE h == hash[p]
<1>1. /\ pc[p] \in {"dropRemove", "deleteRemove"}
      /\ h \in Hash
      /\ UNCHANGED <<client, hash>>
  BY DEF IInv, Located, DropRemove, DeleteRemove, Remove, Goto
<1>2. CASE managed[h] = None
  <2>1. /\ \E to \in {"unlock", "deleteRecord"} : pc' = [pc EXCEPT ![p] = to]
        /\ UNCHANGED managed
    BY <1>2 DEF DropRemove, DeleteRemove, Remove, Goto
  <2> QED
    BY <1>1, <2>1, QuietStep DEF IInv, TypeOK, In, Out
<1>3. CASE managed[h] # None
  <2>1. PICK to \in Out : pc' = [pc EXCEPT ![p] = to]
    BY <1>3 DEF DropRemove, DeleteRemove, Remove, Goto, Out
  <2>2. managed' = [managed EXCEPT ![h] = None]
    BY <1>3 DEF DropRemove, DeleteRemove, Remove
  <2>3. Life(h) = "active"
    BY <1>1, <1>3, LivesOK DEF Lives
  <2>4. Life(h)' = "leaving"
    <3>1. pc'[p] \in Out /\ hash'[p] = h
      BY <1>1, <2>1 DEF IInv, TypeOK
    <3>2. \A g \in Hash : (\E q \in Proc : pc'[q] \in Out /\ hash'[q] = g) => Life(g)' = "leaving"
      BY LivesPrime DEF Lives
    <3> QED
      BY <1>1, <3>1, <3>2
  <2>5. to \in PCs /\ \A g \in Hash : g # h => client'[g] = client[g] /\ managed'[g] = managed[g]
    BY <1>1, <2>1, <2>2 DEF IInv, TypeOK, Out, PCs
  <2>6. [g \in Hash |-> Life(g)]' = [[g \in Hash |-> Life(g)] EXCEPT ![h] = "leaving"]
    BY <1>1, <2>1, <2>4, <2>5, OneLife
  <2> QED
    BY <1>1, <2>3, <2>6 DEF TL!Retire
<1> QED
  BY <1>2, <1>3

(* Registration makes the hash active and closes the sweep's victims.         *)
LEMMA ActivateSimulation ==
    ASSUME IInv, IInv', NEW p \in Proc, Register(p)
    PROVE  \E W \in SUBSET Hash : TL!Activate(hash[p], W)
<1> DEFINE h  == hash[p]
           ms == [managed EXCEPT ![h] = tor[p]]
           V  == Victims(ms)
           W  == {g \in Hash : ms[g] \in V}
<1>1. /\ pc[p] = "register"
      /\ pc' = [pc EXCEPT ![p] = "save"]
      /\ managed' = [g \in Hash |-> IF ms[g] \in V THEN None ELSE ms[g]]
      /\ hash' = hash
  BY DEF Register, Goto
<1>2. h \in Hash /\ tor[p] # None /\ managed[h] = None
  BY <1>1, OwnTorrent DEF IInv, Responsible, In
<1>3. None \notin V
  BY NoneAssumption DEF Victims, IdleIn
<1>4. Life(h) = "joining"
  BY <1>1, <1>2, LivesOK DEF Lives, In
<1>5. ASSUME NEW g \in Hash, g # h, managed[g] # None
      PROVE  Life(g) = "active"
  BY <1>5, LivesOK DEF Lives
<1>6. ASSUME NEW g \in W
      PROVE  Life(g)' = "gone" /\ (g = h \/ Life(g) = "active")
  <2>1. g \in Hash /\ managed'[g] = None /\ ms[g] # None
    BY <1>1, <1>3, <1>6
  <2>2. g = h \/ managed[g] # None
    BY <2>1 DEF IInv, TypeOK
  <2>3. \A q \in Proc : pc'[q] \in In \cup Out => hash'[q] # g
    <3> SUFFICES ASSUME NEW q \in Proc, pc'[q] \in In \cup Out, hash[q] = g
                 PROVE  FALSE
      BY <1>1
    <3>1. q # p /\ pc[q] \in In \cup Out
      BY <1>1 DEF IInv, TypeOK, In, Out
    <3>2. hash[q] # h /\ managed[g] = None
      BY <1>1, <3>1, NoRival DEF IInv, Responsible, In, Critical
    <3> QED
      BY <2>2, <3>2
  <2>4. \A k \in Hash : \/ Life(k)' = "gone" \/ managed'[k] # None
                        \/ \E q \in Proc : pc'[q] \in In \cup Out /\ hash'[q] = k
    BY LivesPrime DEF Lives
  <2> QED
    BY <1>5, <2>1, <2>2, <2>3, <2>4
<1>7. h \notin W => Life(h)' = "active"
  <2>1. h \notin W => managed'[h] # None
    BY <1>1, <1>2 DEF IInv, TypeOK
  <2>2. \A k \in Hash : managed'[k] # None => Life(k)' = "active"
    BY LivesPrime DEF Lives
  <2> QED
    BY <1>1, <1>2, <2>1, <2>2
<1>8. ASSUME NEW g \in Hash, g # h, g \notin W
      PROVE  Life(g)' = Life(g)
  <2>1. managed'[g] = managed[g]
    BY <1>1, <1>8 DEF IInv, TypeOK
  <2>2. CASE managed[g] # None
    <3>1. \A k \in Hash : managed'[k] # None => Life(k)' = "active"
      BY LivesPrime DEF Lives
    <3> QED
      BY <1>5, <1>8, <2>1, <2>2, <3>1
  <2>3. CASE managed[g] = None
    <3>1. ASSUME NEW q \in Proc, hash[q] = g
          PROVE  q # p /\ pc'[q] = pc[q] /\ hash'[q] = g
      BY <1>1, <1>8, <3>1 DEF IInv, TypeOK
    <3>2. \A S : (\E q \in Proc : pc'[q] \in S /\ hash'[q] = g)
                    <=> (\E q \in Proc : pc[q] \in S /\ hash[q] = g)
      BY <1>1, <3>1
    <3>3. /\ (\E q \in Proc : pc'[q] \in In /\ hash'[q] = g)
                <=> (\E q \in Proc : pc[q] \in In /\ hash[q] = g)
          /\ (\E q \in Proc : pc'[q] \in Out /\ hash'[q] = g)
                <=> (\E q \in Proc : pc[q] \in Out /\ hash[q] = g)
      BY <3>2
    <3>4. Lives /\ Lives'
      BY LivesOK, LivesPrime
    <3> QED
      BY <2>1, <2>3, <3>3, <3>4 DEF Lives
  <2> QED
    BY <2>2, <2>3
<1>9. [g \in Hash |-> Life(g)]' =
         [g \in Hash |-> IF g \in W THEN "gone" ELSE IF g = h THEN "active" ELSE Life(g)]
  <2>1. ASSUME NEW g \in Hash
        PROVE  Life(g)' = IF g \in W THEN "gone" ELSE IF g = h THEN "active" ELSE Life(g)
    BY <1>1, <1>6, <1>7, <1>8, <2>1
  <2> QED
    BY <2>1
<1>10. \A v \in W : v = h \/ [g \in Hash |-> Life(g)][v] = "active"
  BY <1>6
<1>11. TL!Activate(h, W)
  BY <1>2, <1>4, <1>9, <1>10 DEF TL!Activate
<1> QED
  BY <1>11

(* Every step is one of TorrentLife, or leaves all lives as they are.         *)
LEMMA SimulationStep ==
    ASSUME IInv, IInv', [Next]_vars
    PROVE  [TL!Next]_([h \in Hash |-> Life(h)])
<1> DEFINE Quiet == UNCHANGED [h \in Hash |-> Life(h)]
<1>1. ASSUME NEW p \in Proc, AddSpec(p) \/ AddAgain(p)
      PROVE  TL!Next
  <2>1. hash[p] \in Hash
    BY <1>1 DEF IInv, Located, AddSpec, AddAgain, Goto
  <2> QED
    BY <1>1, <2>1, JoinSimulation DEF TL!Next
<1>2. ASSUME NEW p \in Proc, ReaddDrop(p) \/ TimedOut(p) \/ NotPlayable(p)
      PROVE  TL!Next
  <2>1. PICK to \in {"diskSpec", "unlock"} : pc' = [pc EXCEPT ![p] = to]
    BY <1>2 DEF ReaddDrop, TimedOut, NotPlayable, Abandon, Goto
  <2>2. pc[p] \in In /\ Dispose({tor[p]}) /\ UNCHANGED <<managed, hash>>
    BY <1>2 DEF ReaddDrop, TimedOut, NotPlayable, Abandon, Goto, In
  <2>3. TL!Abort(hash[p]) /\ hash[p] \in Hash
    BY <2>1, <2>2, GoneSimulation, OwnTorrent DEF PCs
  <2> QED
    BY <2>3 DEF TL!Next, TL!Settle
<1>3. ASSUME NEW p \in Proc, CloseManaged(p)
      PROVE  TL!Next
  <2>1. PICK to \in {"unlock", "deleteRecord"} : pc' = [pc EXCEPT ![p] = to]
    BY <1>3 DEF CloseManaged, Goto
  <2>2. pc[p] \in Out /\ UNCHANGED <<managed, hash>>
    BY <1>3 DEF CloseManaged, Goto, Out
  <2>3. {t \in {tor[p]} : ~dropped[t]} = {tor[p]}
    BY <2>2 DEF IInv, Responsible
  <2>4. Dispose({tor[p]})
    BY <1>3, <2>3 DEF CloseManaged, DropManaged
  <2>5. pc[p] \notin In
    BY <2>2 DEF In, Out
  <2>6. TL!Close(hash[p]) /\ hash[p] \in Hash
    BY <2>1, <2>2, <2>4, <2>5, GoneSimulation, OwnTorrent DEF PCs
  <2> QED
    BY <2>6 DEF TL!Next, TL!Settle
<1>4. ASSUME NEW p \in Proc, DropRemove(p) \/ DeleteRemove(p)
      PROVE  TL!Next \/ Quiet
  <2>1. hash[p] \in Hash
    BY <1>4 DEF IInv, Located, DropRemove, DeleteRemove, Remove
  <2> QED
    BY <1>4, <2>1, RetireSimulation DEF TL!Next
<1>5. ASSUME NEW p \in Proc, Register(p)
      PROVE  TL!Next
  <2>1. hash[p] \in Hash
    BY <1>5 DEF IInv, Located, Register, Goto
  <2> QED
    BY <1>5, <2>1, ActivateSimulation DEF TL!Next, TL!Settle
<1>6. ASSUME NEW p \in Proc, NEW h \in Hash, Start(p, h)
      PROVE  Quiet
  <2>1. /\ UNCHANGED <<client, managed>> /\ pc[p] = "idle"
        /\ \E to \in {"lock", "ensure", "seedCheck"} : pc' = [pc EXCEPT ![p] = to]
        /\ hash' = [hash EXCEPT ![p] = h]
    BY <1>6 DEF Start, StartAdd, StartDrop, StartDelete, StartStream, ReapIdle,
                SeedVisit, Begin, shared
  <2> QED
    BY <2>1, QuietStep DEF IInv, TypeOK, In, Out
<1>7. ASSUME NEW p \in Proc,
             \/ AddCheck(p) \/ AddSpecFails(p) \/ Save(p) \/ DeleteRecord(p)
             \/ Lock(p) \/ UnlockWake(p)
      PROVE  Quiet
  <2>1. /\ UNCHANGED <<client, managed, hash>> /\ pc[p] \notin In \cup Out
        /\ \E to \in PCs \ (In \cup Out) : pc' = [pc EXCEPT ![p] = to]
    BY <1>7 DEF AddCheck, AddSpecFails, Save, DeleteRecord, Lock, UnlockWake,
                Added, AfterLock, Goto, shared, PCs, In, Out
  <2> QED
    BY <2>1, QuietStep DEF IInv, TypeOK
<1>8. ASSUME NEW p \in Proc,
             \/ Ensure(p) \/ EnsureRecord(p) \/ EnsureAgain(p) \/ Attach(p)
             \/ NoSuchFile(p) \/ SeedCheck(p) \/ Release(p) \/ Unlock(p)
      PROVE  Quiet
  <2>1. /\ UNCHANGED <<client, managed>> /\ pc[p] \notin In \cup Out
        /\ \E to \in PCs \ (In \cup Out) : pc' = [pc EXCEPT ![p] = to]
        /\ \E g \in Hash \cup {None} : hash' = [hash EXCEPT ![p] = g] \/ hash' = hash
    BY <1>8 DEF Ensure, EnsureRecord, EnsureAgain, Attach, NoSuchFile, SeedCheck,
                Release, ReleaseTo, Unlock, End, Goto, shared, PCs, In, Out
  <2> QED
    BY <2>1, QuietStep DEF IInv, TypeOK
<1>9. ASSUME NEW p \in Proc, GotInfo(p) \/ Build(p)
      PROVE  Quiet
  <2>1. /\ UNCHANGED <<client, managed, hash>> /\ pc[p] \in In
        /\ \E to \in In : pc' = [pc EXCEPT ![p] = to]
    BY <1>9 DEF GotInfo, Build, Goto, In
  <2> QED
    BY <2>1, QuietStep DEF IInv, TypeOK
<1>10. ASSUME UNCHANGED vars
       PROVE  Quiet
  BY <1>10 DEF vars, Life, BringingIn
<1> QED
  BY <1>1, <1>2, <1>3, <1>4, <1>5, <1>6, <1>7, <1>8, <1>9, <1>10 DEF Next, Run

(* The engine's torrents live as TorrentLife says: one on its way out of the  *)
(* client never becomes active again.                                         *)
THEOREM Implements == Spec => ImplementsTorrentLife
<1>1. Init => TL!Init
  BY DEF Init, TL!Init, Life
<1> QED
  BY <1>1, SimulationStep, Invariant, PTL DEF Spec, TL!Spec, ImplementsTorrentLife
=============================================================================
