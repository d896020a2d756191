-------------------------- MODULE Retention_proofs --------------------------
(* Proofs about Retention, for any numbers of request goroutines, infohashes  *)
(* and folders: Delete removes the files of closed torrents only, and no      *)
(* sweep takes the files of a torrent in use since the sweep began, provided  *)
(* that no two torrents share a folder and safeDataPath changes no name.      *)
EXTENDS Retention, TLAPS

(* Where a goroutine holds the lock of its infohash.                          *)
Locked  == {"addOpen", "metadata", "save", "deleteRead", "close", "deleteRecord", "wipe"}
(* Where it has taken it out of e.managed, and where it has closed it.        *)
Leaving == {"deleteRead", "close", "deleteRecord", "wipe"}
Closed  == {"deleteRecord", "wipe"}
(* Where it works on no infohash in particular.                               *)
Free    == {"idle", "resume", "scanActive", "scanRecords", "removeAll", "forget"}

Typed  == /\ lock \in [Hash -> Proc \cup {None}]
          /\ pc   \in [Proc -> PCs]
          /\ hash \in [Proc -> Hash \cup {None}]
          /\ active \subseteq Hash
Placed == \A p \in Proc : pc[p] \notin Free    => hash[p] \in Hash
Held   == \A p \in Proc : pc[p] \in Locked  => lock[hash[p]] = p
Out    == \A p \in Proc : pc[p] \in Leaving => hash[p] \notin active
Shut   == \A p \in Proc : pc[p] \in Closed  => hash[p] \notin open

(* The lock is what keeps Out and Shut: only its holder opens or registers    *)
(* the torrent.                                                               *)
IInv == Typed /\ Placed /\ Held /\ Out /\ Shut

(* p moves to a place where it needs no lock, and perhaps unlocks; what was   *)
(* open or active may be less.                                                *)
LEMMA Outside ==
    ASSUME IInv,
           NEW p \in Proc, NEW to \in PCs \ Locked,
           pc' = [pc EXCEPT ![p] = to],
           hash' \in [Proc -> Hash \cup {None}],
           \A q \in Proc \ {p} : hash'[q] = hash[q],
           to \in Free \/ hash'[p] \in Hash,
           active' \subseteq active, open' \subseteq open,
           \/ lock' = lock
           \/ /\ hash[p] \in Hash /\ lock[hash[p]] \in {p, None}
              /\ lock' = [lock EXCEPT ![hash[p]] = None]
    PROVE  IInv'
<1>1. Typed'
  BY DEF IInv, Typed
<1>2. Placed'
  BY DEF IInv, Typed, Placed
<1>3. Held'
  <2> SUFFICES ASSUME NEW q \in Proc, pc'[q] \in Locked
               PROVE  lock'[hash'[q]] = q
    BY DEF Held
  <2>1. q # p /\ pc'[q] = pc[q] /\ hash'[q] = hash[q]
    BY DEF IInv, Typed
  <2>2. lock[hash[q]] = q /\ hash[q] \in Hash
    BY <2>1 DEF IInv, Held, Placed, Locked, Free
  <2>3. q # None
    BY NoneAssumption DEF Proc
  <2> QED  BY <2>1, <2>2, <2>3 DEF IInv, Typed
<1>4. Out' /\ Shut'
  BY DEF IInv, Typed, Out, Shut, Leaving, Closed, Locked
<1> QED  BY <1>1, <1>2, <1>3, <1>4 DEF IInv

(* p returns from an operation under the lock, or without having locked.      *)
LEMMA Returns ==
    ASSUME IInv, NEW p \in Proc, NEW from,
           Return(p, from), from \notin Free,
           lock[hash[p]] \in {p, None},
           active' \subseteq active, open' \subseteq open
    PROVE  IInv'
<1>1. pc[p] = from /\ hash[p] \in Hash
  BY DEF Return, Goto, End, IInv, Placed
<1>2. CASE End(p, from)
  <2>1. /\ pc' = [pc EXCEPT ![p] = "idle"]
        /\ hash' = [hash EXCEPT ![p] = None]
    BY <1>2 DEF End, Goto
  <2> QED  BY <1>1, <2>1, Outside DEF Return, IInv, Typed, PCs, Locked, Free
<1>3. CASE ~End(p, from)
  <2>1. PICK to \in {"markRead", "attach"} :
            pc' = [pc EXCEPT ![p] = to] /\ hash' = hash
    BY <1>3 DEF Return, Goto, local
  <2> QED  BY <1>1, <2>1, Outside DEF Return, IInv, Typed, PCs, Locked, Free
<1> QED  BY <1>2, <1>3

(* p goes on while it holds the lock, or takes it; nobody else is past        *)
(* lockHash for the infohash, so what p does to it disturbs nobody.           *)
LEMMA Inside ==
    ASSUME IInv,
           NEW p \in Proc, NEW to \in Locked,
           hash[p] \in Hash,
           pc' = [pc EXCEPT ![p] = to],
           hash' = hash,
           \/ lock[hash[p]] = p /\ lock' = lock
           \/ lock[hash[p]] = None /\ lock' = [lock EXCEPT ![hash[p]] = p],
           active' \subseteq active \cup {hash[p]},
           open' \subseteq open \cup {hash[p]},
           to \in Leaving => hash[p] \notin active',
           to \in Closed => hash[p] \notin open'
    PROVE  IInv'
<1>1. Typed'
  BY DEF IInv, Typed, Locked, PCs
<1>2. Placed'
  BY DEF IInv, Typed, Placed, Locked, Free
<1>3. \A q \in Proc \ {p} : pc[q] \in Locked => hash[q] # hash[p]
  BY NoneAssumption DEF IInv, Held, Proc
<1>4. Held'
  BY <1>3 DEF IInv, Typed, Held, Placed, Locked, Free
<1>5. Out' /\ Shut'
  BY <1>3 DEF IInv, Typed, Out, Shut, Leaving, Closed, Locked
<1> QED  BY <1>1, <1>2, <1>4, <1>5 DEF IInv

(* At a start on an empty disk nothing is open and nothing is locked.         *)
LEMMA InitIInv == Init => IInv
BY DEF Init, IInv, Typed, Placed, Held, Out, Shut, NoLocks, Booting, AllAt, PCs,
       Locked, Leaving, Closed, Free

(* Operations begin without the lock.                                         *)
LEMMA BeginStep ==
    ASSUME IInv, NEW p \in Proc, NEW h \in Hash, NEW o, NEW to \in PCs \ Locked,
           Begin(p, o, h, to), UNCHANGED <<engine, lock>>
    PROVE  IInv'
BY Outside DEF Begin, Goto, IInv, Typed, engine

(* A request begins an operation: it has no lock yet (torrserver.go:64-150).  *)
LEMMA RequestStep ==
    ASSUME IInv, NEW p \in Proc, NEW h \in Hash, Request(p, h)
    PROVE  IInv'
<1>1. \E o, to : /\ to \in {"add", "attach", "remove"}
                 /\ Begin(p, o, h, to) /\ UNCHANGED <<engine, lock>>
  BY DEF Request, StartAdd, StartPlay, StartDrop, StartDelete, StartRetire
<1> QED  BY <1>1, BeginStep DEF PCs, Locked

(* The operations that requests, the seed enforcer and resumption share keep  *)
(* to the order of locks: Add, Drop, Delete, retire and releaseReader.        *)
LEMMA RunStep ==
    ASSUME IInv, NEW p \in Proc, Run(p)
    PROVE  IInv'
<1> USE DEF Goto, engine, store, local
<1>1. CASE Add(p)
  <2>1. pc[p] = "add" /\ hash[p] \in Hash
    BY <1>1 DEF Add, IInv, Placed, Free
  <2>2. CASE Return(p, "add")
    BY <1>1, <2>2, Returns DEF Add, Free
  <2>3. CASE ~Return(p, "add")
    BY <1>1, <2>1, <2>3, Inside DEF Add, Acquire, Locked, Leaving, Closed
  <2> QED  BY <2>2, <2>3
<1>2. CASE AddOpen(p)
  <2>1. pc[p] = "addOpen" /\ hash[p] \in Hash /\ lock[hash[p]] = p
    BY <1>2 DEF AddOpen, IInv, Placed, Held, Locked, Free
  <2> QED  BY <1>2, <2>1, Inside DEF AddOpen, Locked, Leaving, Closed
<1>3. CASE Abandon(p)
  <2>1. pc[p] = "metadata" /\ hash[p] \in Hash /\ lock[hash[p]] = p
    BY <1>3 DEF Abandon, End, IInv, Placed, Held, Locked, Free
  <2> QED  BY <1>3, <2>1, Outside DEF Abandon, End, IInv, Typed, PCs, Locked, Free
<1>4. CASE Register(p)
  <2>1. pc[p] = "metadata" /\ hash[p] \in Hash /\ lock[hash[p]] = p
    BY <1>4 DEF Register, IInv, Placed, Held, Locked, Free
  <2> QED  BY <1>4, <2>1, Inside DEF Register, Locked, Leaving, Closed
<1>5. CASE SaveNew(p)
  <2>1. pc[p] = "save" /\ lock[hash[p]] = p
    BY <1>5 DEF SaveNew, IInv, Held, Locked
  <2> QED  BY <1>5, <2>1, Returns DEF SaveNew, Free
<1>6. CASE Attach(p)
  BY <1>6, Outside DEF Attach, End, IInv, Typed, Placed, PCs, Locked, Free
<1>7. CASE Release(p)
  BY <1>7, Outside DEF Release, End, IInv, Typed, Placed, PCs, Locked, Free
<1>8. CASE Remove(p)
  <2>1. pc[p] = "remove" /\ hash[p] \in Hash
    BY <1>8 DEF Remove, IInv, Placed, Free
  <2>2. CASE Return(p, "remove")
    BY <1>8, <2>2, Returns DEF Remove, Free
  <2>3. CASE ~Return(p, "remove")
    BY <1>8, <2>1, <2>3, Inside DEF Remove, Acquire, Locked, Leaving, Closed
  <2> QED  BY <2>2, <2>3
<1>9. CASE DeleteRead(p)
  <2>1. /\ pc[p] = "deleteRead" /\ hash[p] \in Hash
        /\ lock[hash[p]] = p /\ hash[p] \notin active
    BY <1>9 DEF DeleteRead, IInv, Placed, Held, Out, Locked, Leaving, Free
  <2> QED  BY <1>9, <2>1, Inside DEF DeleteRead, Locked, Leaving, Closed
<1>10. CASE Close(p)
  <2>1. /\ pc[p] = "close" /\ hash[p] \in Hash
        /\ lock[hash[p]] = p /\ hash[p] \notin active
    BY <1>10 DEF Close, Return, End, IInv, Placed, Held, Out, Locked, Leaving, Free
  <2>2. CASE Return(p, "close")
    BY <1>10, <2>1, <2>2, Returns DEF Close, Free
  <2>3. CASE ~Return(p, "close")
    BY <1>10, <2>1, <2>3, Inside DEF Close, Locked, Leaving, Closed
  <2> QED  BY <2>2, <2>3
<1>11. CASE DeleteRecord(p)
  <2>1. /\ pc[p] = "deleteRecord" /\ hash[p] \in Hash
        /\ lock[hash[p]] = p /\ hash[p] \notin active \cup open
    BY <1>11 DEF DeleteRecord, Return, End, IInv, Placed, Held, Out, Shut,
                 Locked, Leaving, Closed, Free
  <2>2. CASE Return(p, "deleteRecord")
    BY <1>11, <2>1, <2>2, Returns DEF DeleteRecord, Free
  <2>3. CASE ~Return(p, "deleteRecord")
    BY <1>11, <2>1, <2>3, Inside DEF DeleteRecord, Locked, Leaving, Closed
  <2> QED  BY <2>2, <2>3
<1>12. CASE Wipe(p)
  <2>1. pc[p] = "wipe" /\ lock[hash[p]] = p
    BY <1>12 DEF Wipe, Return, End, IInv, Held, Locked
  <2> QED  BY <1>12, <2>1, Returns DEF Wipe, Free
<1>13. CASE MarkRead(p) \/ MarkSave(p)
  BY <1>13, Outside DEF MarkRead, MarkSave, End, IInv, Typed, Placed, PCs, Locked, Free
<1> QED
  BY <1>1, <1>2, <1>3, <1>4, <1>5, <1>6, <1>7, <1>8, <1>9, <1>10, <1>11, <1>12, <1>13
     DEF Run

(* The seed enforcer and the idle reaper list and save without locks          *)
(* (seeding.go:36-161).                                                       *)
LEMMA SeederStep ==
    ASSUME IInv, NEW p \in Proc, SeederRun(p)
    PROVE  IInv'
<1> USE DEF Goto, engine, store, local
<1>1. CASE ListIdle(p) \/ ListSeeding(p)
  BY <1>1 DEF ListIdle, ListSeeding, IInv, Typed, Placed, Held, Out, Shut
<1>2. ASSUME NEW h \in Hash, Reap(p, h) \/ Visit(p, h)
      PROVE  IInv'
  <2>1. \E o, to : /\ to \in {"remove", "seedRead"}
                   /\ Begin(p, o, h, to) /\ UNCHANGED <<engine, lock>>
    BY <1>2 DEF Reap, Visit
  <2> QED  BY <2>1, BeginStep DEF PCs, Locked
<1>3. CASE SeedRead(p) \/ SeedSave(p)
  <2>1. pc[p] \in {"seedRead", "seedSave"} /\ hash[p] \in Hash
    BY <1>3 DEF SeedRead, SeedSave, IInv, Placed, Free
  <2>2. PICK to \in {"seedSave", "idle", "remove", "clearRead"} :
            /\ pc' = [pc EXCEPT ![p] = to]
            /\ \/ to = "idle" /\ hash' = [hash EXCEPT ![p] = None]
               \/ hash' = hash
    BY <1>3 DEF SeedRead, SeedSave, Act, End
  <2>3. active' = active /\ open' = open /\ lock' = lock
    BY <1>3 DEF SeedRead, SeedSave
  <2> QED  BY <2>1, <2>2, <2>3, Outside DEF IInv, Typed, PCs, Locked, Free
<1>4. CASE ClearRead(p) \/ ClearSave(p)
  BY <1>4, Outside DEF ClearRead, ClearSave, IInv, Typed, Placed, PCs, Locked, Free
<1> QED  BY <1>1, <1>2, <1>3, <1>4 DEF SeederRun

(* ResumeKeepSeed only begins Adds (seeding.go:163-177).                      *)
LEMMA BooterStep ==
    ASSUME IInv, NEW p \in Proc, BooterRun(p)
    PROVE  IInv'
<1>1. CASE ResumeScan(p)
  BY <1>1, Outside DEF ResumeScan, Goto, engine, local, IInv, Typed, PCs, Locked, Free
<1>2. ASSUME NEW h \in Hash, Resume(p, h)
      PROVE  IInv'
  BY <1>2, BeginStep DEF Resume, PCs, Locked
<1> QED  BY <1>1, <1>2 DEF BooterRun

(* Sweeps take no locks, and neither open nor register anything.              *)
LEMMA SweepStep ==
    ASSUME IInv, NEW p \in Proc,
           \/ ListDue(p) \/ ScanDisk(p) \/ UnderCap(p) \/ Scan(p) \/ Removed(p)
           \/ \E h \in Hash : Sweep(p, h)
    PROVE  IInv'
<1>1. active' = active /\ open' = open /\ lock' = lock
  BY DEF ListDue, ScanDisk, UnderCap, Scan, ScanActive, ScanRecords, Evict,
         RemoveFails, Forget, Removed, Sweep, engine
<1>2. \/ pc' = pc /\ hash' = hash
      \/ \E to \in Free, h \in Hash \cup {None} :
            /\ pc' = [pc EXCEPT ![p] = to]
            /\ hash' = [hash EXCEPT ![p] = h] \/ hash' = hash
  <2> USE DEF Goto, local
  <2>1. CASE ListDue(p) \/ ScanDisk(p) \/ UnderCap(p)
    BY <2>1 DEF ListDue, ScanDisk, UnderCap, Free
  <2>2. CASE ScanActive(p) \/ ScanRecords(p) \/ RemoveFails(p) \/ Forget(p) \/ Removed(p)
    BY <2>2 DEF ScanActive, ScanRecords, RemoveFails, Forget, Removed, End, Free
  <2>3. CASE Evict(p) \/ \E h \in Hash : Sweep(p, h)
    BY <2>3 DEF Evict, Sweep, Spare, Target, Free
  <2> QED  BY <2>1, <2>2, <2>3 DEF Scan
<1>3. CASE pc' = pc /\ hash' = hash
  BY <1>1, <1>3 DEF IInv, Typed, Placed, Held, Out, Shut
<1>4. CASE ~(pc' = pc /\ hash' = hash)
  <2>1. PICK to \in Free :
            /\ pc' = [pc EXCEPT ![p] = to]
            /\ \E h \in Hash \cup {None} :
                  hash' = [hash EXCEPT ![p] = h] \/ hash' = hash
    BY <1>2, <1>4
  <2> QED  BY <1>1, <2>1, Outside DEF IInv, Typed, PCs, Locked, Free
<1> QED  BY <1>3, <1>4

(* Every step, and a stop of the program, keeps the invariant.                *)
LEMMA NextIInv == IInv /\ [Next]_vars => IInv'
<1> SUFFICES ASSUME IInv, [Next]_vars PROVE IInv'
  OBVIOUS
<1>1. ASSUME NEW p \in Proc, NEW h \in Hash, Request(p, h) PROVE IInv'
  BY <1>1, RequestStep
<1>2. ASSUME NEW p \in Proc, Run(p) PROVE IInv'
  BY <1>2, RunStep
<1>3. ASSUME NEW p \in Proc,
             \/ ListDue(p) \/ ScanDisk(p) \/ UnderCap(p) \/ Scan(p) \/ Removed(p)
             \/ \E h \in Hash : Sweep(p, h)
      PROVE  IInv'
  BY <1>3, SweepStep
<1>4. CASE SeederRun(Seeder) \/ BooterRun(Booter)
  BY <1>4, SeederStep, BooterStep DEF Proc
<1>5. ASSUME NEW h \in Hash, Download(h) \/ Elapse(h) PROVE IInv'
  BY <1>5 DEF Download, Elapse, engine, local, IInv, Typed, Placed, Held, Out, Shut
<1>6. CASE Crash
  BY <1>6 DEF Crash, IInv, Typed, Placed, Held, Out, Shut, NoLocks, Booting, AllAt, PCs,
              Locked, Leaving, Closed, Free
<1>7. CASE UNCHANGED vars
  BY <1>7 DEF vars, IInv, Typed, Placed, Held, Out, Shut
<1>8. CASE Step
  BY <1>8, <1>1, <1>2, <1>3, <1>4, <1>5 DEF Step, WorkOff, Proc
<1> QED  BY <1>6, <1>7, <1>8 DEF Next

(* The inductive invariant holds of every behaviour (engine.go:771-794).       *)
THEOREM Invariant == Spec => []IInv
BY InitIInv, NextIInv, PTL DEF Spec

(* When Delete comes to remove the files, the torrent is closed and not       *)
(* active: the lock of the hash is still held (engine.go:771-794).            *)
THEOREM DeletesClosed == Spec => []WipesClosed
<1>1. IInv => WipesClosed
  BY DEF IInv, Out, Shut, WipesClosed, Leaving, Closed
<1> QED  BY <1>1, Invariant, PTL

-----------------------------------------------------------------------------
(* Protected.  Where a sweep is about to remove a folder, it belongs to none  *)
(* of the torrents active ever since the sweep began.                         *)

Clear == \A p \in Proc : pc[p] = "removeAll" =>
             \A h \in steady[p] : folder[p] # Name[h]

PInv == /\ pc     \in [Proc -> PCs]
        /\ folder \in [Proc -> Folder \cup {None}]
        /\ steady \in [Proc -> SUBSET Hash]
        /\ \A p \in Proc : steady[p] \subseteq active
        /\ Clear

(* Whoever comes to removeAll comes from a list of entries to sweep, and with *)
(* a folder of no active torrent.                                             *)
Aims ==
    /\ folder' \in [Proc -> Folder \cup {None}]
    /\ \A p \in Proc : pc'[p] = "removeAll" =>
          \/ pc[p] = "removeAll" /\ folder'[p] = folder[p]
          \/ Sweeping(p) /\ active' = active /\ \A h \in active : folder'[p] # Name[h]

Unshared == /\ \A g, h \in Hash : g # h => Name[g] # Name[h]
            /\ \A f \in Folder : DataPath[f] \in {f, None}

(* Moving elsewhere.                                                          *)
LEMMA AimsElsewhere ==
    ASSUME PInv, NEW p \in Proc, NEW to \in PCs \ {"removeAll"},
           pc' = [pc EXCEPT ![p] = to],
           folder' = folder \/ folder' = [folder EXCEPT ![p] = None]
    PROVE  Aims
BY DEF Aims, PInv

(* A return from an operation aims at no folder.                              *)
LEMMA ReturnAims ==
    ASSUME PInv, NEW p \in Proc, NEW from, Return(p, from)
    PROVE  Aims
BY AimsElsewhere DEF Return, End, Goto, local, PCs

(* No step that sweeps share with other operations aims at a folder.          *)
LEMMA RunAims ==
    ASSUME PInv, NEW p \in Proc, Run(p)
    PROVE  Aims
<1> USE DEF Goto, local
<1>1. CASE Add(p) \/ SaveNew(p) \/ Remove(p)
  BY <1>1, ReturnAims, AimsElsewhere DEF Add, SaveNew, Remove, PCs
<1>2. CASE Close(p) \/ DeleteRecord(p) \/ Wipe(p)
  BY <1>2, ReturnAims, AimsElsewhere DEF Close, DeleteRecord, Wipe, PCs
<1>3. CASE AddOpen(p) \/ Abandon(p) \/ Register(p) \/ Attach(p) \/ Release(p)
  BY <1>3, AimsElsewhere DEF AddOpen, Abandon, Register, Attach, Release, End, PCs
<1>4. CASE DeleteRead(p) \/ MarkRead(p) \/ MarkSave(p)
  BY <1>4, AimsElsewhere DEF DeleteRead, MarkRead, MarkSave, End, PCs
<1> QED  BY <1>1, <1>2, <1>3, <1>4 DEF Run

(* Nor does a step of the seed enforcer, the reaper or of ResumeKeepSeed.     *)
LEMMA OthersAims ==
    ASSUME PInv, NEW p \in Proc,
           \/ SeederRun(p) \/ BooterRun(p)
           \/ \E h \in Hash : Request(p, h)
    PROVE  Aims
<1> USE DEF Goto, local
<1>1. ASSUME NEW h \in Hash, Request(p, h) PROVE Aims
  BY <1>1, AimsElsewhere
     DEF Request, StartAdd, StartPlay, StartDrop, StartDelete, StartRetire, Begin, PCs
<1>2. CASE ListIdle(p) \/ ListSeeding(p)
  BY <1>2 DEF ListIdle, ListSeeding, Aims, PInv
<1>3. ASSUME NEW h \in Hash, Reap(p, h) \/ Visit(p, h) \/ Resume(p, h) PROVE Aims
  BY <1>3, AimsElsewhere DEF Reap, Visit, Resume, Begin, PCs
<1>4. CASE SeedRead(p) \/ SeedSave(p)
  BY <1>4, AimsElsewhere DEF SeedRead, SeedSave, Act, End, PCs
<1>5. CASE ClearRead(p) \/ ClearSave(p) \/ ResumeScan(p)
  BY <1>5, AimsElsewhere DEF ClearRead, ClearSave, ResumeScan, PCs
<1> QED  BY <1>1, <1>2, <1>3, <1>4, <1>5 DEF SeederRun, BooterRun

(* A sweep aims at a folder only after it has looked whether that is active.  *)
LEMMA SweepAims ==
    ASSUME IInv, PInv, Unshared, NEW p \in Proc,
           \/ ListDue(p) \/ ScanDisk(p) \/ UnderCap(p) \/ Scan(p) \/ Removed(p)
           \/ \E h \in Hash : Sweep(p, h)
    PROVE  Aims
<1> USE DEF Goto, local
<1>1. CASE ListDue(p) \/ UnderCap(p)
  BY <1>1 DEF ListDue, UnderCap, Aims, PInv
<1>2. CASE ScanDisk(p) \/ ScanActive(p) \/ ScanRecords(p)
  BY <1>2, AimsElsewhere DEF ScanDisk, ScanActive, ScanRecords, End, PCs
<1>3. CASE RemoveFails(p) \/ Forget(p) \/ Removed(p)
  BY <1>3, AimsElsewhere DEF RemoveFails, Forget, Removed, End, PCs
<1>4. ASSUME NEW h \in Hash, Sweep(p, h) PROVE Aims
  <2>1. Sweeping(p) /\ active' = active
    BY <1>4 DEF Sweep, Take, Sweeping, engine
  <2>2. CASE Spare(p)
    BY <2>2 DEF Spare, Aims, PInv
  <2>3. CASE h \notin active /\ ~Refused(Name[h]) /\ Target(p, "sweep", h, Name[h])
    <3>1. DataPath[Name[h]] = Name[h]
      BY <2>3, NameAssumption DEF Refused, Unshared
    <3>2. folder' = [folder EXCEPT ![p] = Name[h]] /\ pc' = [pc EXCEPT ![p] = "removeAll"]
      BY <2>3, <3>1 DEF Target, Goto
    <3>3. \A g \in active : Name[h] # Name[g]
      BY <2>3 DEF IInv, Typed, Unshared
    <3>4. Name[h] \in Folder
      BY NameAssumption
    <3> QED  BY <2>1, <3>2, <3>3, <3>4 DEF Aims, PInv
  <2> QED  BY <1>4, <2>2, <2>3 DEF Sweep
<1>5. CASE Evict(p)
  <2>1. PICK h \in Hash \cup {None}, f \in Folder :
            /\ Take(p, <<"evict", h, f>>)
            /\ \/ Spare(p)
               \/ /\ f \notin ActiveNames /\ ~Refused(f)
                  /\ Target(p, "evict", h, f)
    BY <1>5 DEF Evict
  <2>2. Sweeping(p) /\ active' = active
    BY <1>5, <2>1 DEF Evict, Take, Sweeping, engine
  <2>3. CASE Spare(p)
    BY <2>3 DEF Spare, Aims, PInv
  <2>4. CASE f \notin ActiveNames /\ ~Refused(f) /\ Target(p, "evict", h, f)
    <3>1. DataPath[f] = f
      BY <2>4 DEF Refused, Unshared
    <3> QED  BY <2>2, <2>4, <3>1 DEF Target, Aims, PInv, ActiveNames
  <2> QED  BY <2>1, <2>3, <2>4
<1> QED  BY <1>1, <1>2, <1>3, <1>4, <1>5 DEF Scan

(* So does every step.                                                        *)
LEMMA StepAims ==
    ASSUME IInv, PInv, Unshared, Step
    PROVE  Aims
<1>1. ASSUME NEW h \in Hash, Download(h) \/ Elapse(h) PROVE Aims
  BY <1>1 DEF Download, Elapse, local, Aims, PInv
<1> QED
  BY <1>1, RunAims, OthersAims, SweepAims DEF Step, WorkOff, Proc

(* At a start no sweep is under way.                                          *)
LEMMA InitPInv == Init => PInv
BY DEF Init, PInv, Clear, AllAt, Booting, PCs

(* A list's steady torrents only become fewer, unless the list is just begun. *)
LEMMA NextPInv == Unshared /\ IInv /\ PInv /\ [Next]_vars => PInv'
<1> SUFFICES ASSUME Unshared, IInv, PInv, [Next]_vars PROVE PInv'
  OBVIOUS
<1>1. Typed'
  BY NextIInv DEF IInv
<1>2. CASE Step /\ Observe
  <2>1. Aims
    BY <1>2, StepAims
  <2>2. /\ steady' \in [Proc -> SUBSET Hash]
        /\ \A p \in Proc : steady'[p] \subseteq active'
        /\ \A p \in Proc : Sweeping(p) => steady'[p] \subseteq steady[p]
    BY <1>1, <1>2 DEF Observe, PInv, Typed
  <2>3. \A p \in Proc : pc[p] = "removeAll" => Sweeping(p)
    BY DEF Sweeping
  <2>4. Clear'
    BY <2>1, <2>2, <2>3 DEF Aims, Clear, PInv
  <2> QED  BY <1>1, <2>1, <2>2, <2>4 DEF PInv, Aims, Typed
<1>3. CASE Crash
  BY <1>1, <1>3 DEF Crash, PInv, Clear, AllAt, Booting, Typed
<1>4. CASE UNCHANGED vars
  BY <1>4 DEF vars, PInv, Clear
<1> QED  BY <1>2, <1>3, <1>4 DEF Next

(* While torrents have folders of their own, and names that safeDataPath      *)
(* refuses or takes as they are, no sweep of the janitor and no orphan        *)
(* cleanup removes the files of a torrent that has been active since the      *)
(* sweep began (janitor.go:86-87).                                            *)
THEOREM SweepsSpareActive ==
    ASSUME \A g, h \in Hash : g # h => Name[g] # Name[h],
           \A f \in Folder : DataPath[f] \in {f, None}
    PROVE  Spec => Protected
<1>1. Unshared
  BY DEF Unshared
<1>2. PInv => \A p \in Proc : pc[p] = "removeAll" =>
                  folder[p] \notin {Name[h] : h \in steady[p]}
  BY DEF PInv, Clear
<1>3. PInv /\ [Next]_vars =>
        [\A p \in Proc : pc[p] = "removeAll" /\ folder[p] \in onDisk \ onDisk'
            => folder[p] \notin {Name[h] : h \in steady[p]}]_vars
  BY <1>2
<1>4. Unshared /\ Init => IInv /\ PInv
  BY InitIInv, InitPInv
<1>5. IInv /\ PInv /\ [Next]_vars => IInv' /\ PInv'
  BY <1>1, NextIInv, NextPInv
<1> QED  BY <1>1, <1>3, <1>4, <1>5, PTL DEF Spec, Protected
-----------------------------------------------------------------------------
(* TypeOK.  A record is written back only by who read one, and forgotten only *)
(* with an infohash.                                                          *)

Reading == {"markSave", "seedSave", "clearSave"}
Copied  == \A p \in Proc :
    /\ pc[p] \in Reading => copy[p] \in Record
    /\ pc[p] = "forget" => hash[p] \in Hash

(* The list of a scan under way is one of folders.                            *)
Scanning == {"scanActive", "scanRecords"}
Listed   == \A p \in Proc : pc[p] \in Scanning => \A d \in todo[p] : d[3] \in Folder

TInv == TypeOK /\ Copied /\ Listed

(* All of TypeOK that steps besides Register and stops can break, but for     *)
(* steady.                                                                    *)
Kinds == /\ pc     \in [Proc -> PCs]
         /\ op     \in [Proc -> Ops]
         /\ hash   \in [Proc -> Hash \cup {None}]
         /\ folder \in [Proc -> Folder \cup {None}]
         /\ copy   \in [Proc -> Record \cup {None}]
         /\ kept   \in [Proc -> BOOLEAN]
Lists == todo \in [Proc -> SUBSET ({"reap", "seed", "sweep", "evict", "resume"}
                             \X (Hash \cup {None}) \X (Folder \cup {None}))]
Stored == /\ open   \subseteq Hash
          /\ active \subseteq Hash
          /\ keep   \subseteq active
          /\ onDisk \subseteq Folder
          /\ rec    \in [Hash -> Record \cup {None}]
          /\ lock   \in [Hash -> Proc \cup {None}]
          /\ owed   \subseteq Hash
Sound == Kinds /\ Lists /\ Stored /\ Copied

(* A start on an empty disk.                                                  *)
LEMMA InitTInv == Init => TInv
BY NoneAssumption
   DEF Init, TInv, TypeOK, Copied, Listed, Scanning, Reading, AllAt, Booting, NoLocks, PCs, Ops

(* A record marked for deletion, or without its target.                       *)
LEMMA RecordChange ==
    ASSUME NEW r \in Record
    PROVE  /\ [r EXCEPT !.pending = "wait"] \in Record
           /\ [r EXCEPT !.target = FALSE] \in Record
BY DEF Record

(* A flag set to a truth value stays a flag.                                  *)
LEMMA FlagChange ==
    ASSUME NEW f \in [Proc -> BOOLEAN], NEW p \in Proc, NEW b \in BOOLEAN
    PROVE  [f EXCEPT ![p] = b] \in [Proc -> BOOLEAN]
OBVIOUS

(* An operation begins where nothing is written back yet.                     *)
LEMMA BeginSound ==
    ASSUME TInv, NEW p \in Proc, NEW o \in Ops, NEW h \in Hash,
           NEW to \in PCs \ (Reading \cup {"forget"}), Begin(p, o, h, to)
    PROVE  Kinds' /\ Copied'
BY DEF Begin, Goto, Become, TInv, TypeOK, Kinds, Copied, Reading

(* An operation that ends leaves its own state as it was at first.            *)
LEMMA EndSound ==
    ASSUME TInv, NEW p \in Proc, NEW from, End(p, from)
    PROVE  Kinds' /\ Copied'
<1>1. Kinds'
  BY DEF End, Goto, Become, TInv, TypeOK, Kinds, PCs, Ops
<1>2. Copied'
  BY DEF End, Goto, Become, TInv, TypeOK, Copied, Reading
<1> QED  BY <1>1, <1>2

(* A goroutine moves on, and perhaps to another errand.                       *)
LEMMA MoveSound ==
    ASSUME TInv, NEW p \in Proc, NEW to \in PCs \ (Reading \cup {"forget"}),
           pc' = [pc EXCEPT ![p] = to], op' \in [Proc -> Ops],
           UNCHANGED <<hash, folder>>,
           copy' \in [Proc -> Record \cup {None}],
           \A q \in Proc \ {p} : copy'[q] = copy[q],
           kept' \in [Proc -> BOOLEAN]
    PROVE  Kinds' /\ Copied'
BY DEF TInv, TypeOK, Kinds, Copied, Reading

(* Requests begin an operation.                                               *)
LEMMA RequestSound ==
    ASSUME TInv, NEW p \in Proc, NEW h \in Hash, Request(p, h)
    PROVE  Sound'
<1>1. Kinds' /\ Copied'
  <2>1. CASE StartAdd(p, h) \/ StartPlay(p, h)
    BY <2>1, BeginSound DEF StartAdd, StartPlay, PCs, Ops, Reading
  <2>2. CASE StartDrop(p, h) \/ StartDelete(p, h) \/ StartRetire(p, h)
    BY <2>2, BeginSound
       DEF StartDrop, StartDelete, StartRetire, Disposal, PCs, Ops, Reading
  <2> QED  BY <2>1, <2>2 DEF Request
<1>2. UNCHANGED <<engine, lock, store, todo, owed>>
  BY DEF Request, StartAdd, StartPlay, StartDrop, StartDelete, StartRetire
<1> QED
  BY <1>1, <1>2 DEF TInv, TypeOK, Sound, Lists, Stored, engine, store

(* A return from an operation.                                                *)
LEMMA ReturnSound ==
    ASSUME TInv, NEW p \in Proc, NEW from, Return(p, from)
    PROVE  Kinds' /\ Copied' /\ lock' \in [Hash -> Proc \cup {None}]
<1>1. CASE End(p, from)
  BY <1>1, EndSound DEF Return, TInv, TypeOK
<1>2. CASE ~End(p, from)
  <2>1. PICK to \in {"markRead", "attach"} :
            /\ pc' = [pc EXCEPT ![p] = to]
            /\ UNCHANGED <<op, hash, folder, copy, kept>>
    BY <1>2 DEF Return, Goto, local
  <2>2. Kinds' /\ Copied'
    BY <2>1, MoveSound DEF TInv, TypeOK, PCs, Reading
  <2> QED  BY <2>2 DEF Return, TInv, TypeOK
<1> QED  BY <1>1, <1>2

(* Add, Drop, Delete, retire and releaseReader.                               *)
LEMMA RunSound ==
    ASSUME IInv, TInv, NEW p \in Proc, Run(p)
    PROVE  Sound'
<1>1. Kinds' /\ Copied'
  <2>1. CASE Add(p) \/ SaveNew(p) \/ Remove(p) \/ Close(p) \/ DeleteRecord(p) \/ Wipe(p)
    <3>1. CASE \E from \in PCs : Return(p, from)
      BY <3>1, ReturnSound
    <3>2. CASE ~\E from \in PCs : Return(p, from)
      <4>1. /\ \E to \in PCs \ (Reading \cup {"forget"}) : pc' = [pc EXCEPT ![p] = to]
            /\ UNCHANGED <<op, hash, folder, copy, kept>>
        BY <2>1, <3>2
           DEF Add, SaveNew, Remove, Close, DeleteRecord, Wipe, Goto, local, PCs, Reading
      <4> QED  BY <4>1, MoveSound DEF TInv, TypeOK
    <3> QED  BY <3>1, <3>2
  <2>2. CASE AddOpen(p) \/ Register(p) \/ DeleteRead(p)
    <3>1. /\ \E to \in PCs \ (Reading \cup {"forget"}) : pc' = [pc EXCEPT ![p] = to]
          /\ UNCHANGED <<op, hash, folder>>
      BY <2>2 DEF AddOpen, Register, DeleteRead, Goto, local, PCs, Reading
    <3>2. /\ copy' \in [Proc -> Record \cup {None}]
          /\ \A q \in Proc \ {p} : copy'[q] = copy[q]
      BY <2>2
         DEF AddOpen, Register, DeleteRead, Read, Goto, local, TInv, TypeOK, IInv, Placed, Free
    <3>3. kept' = kept \/ \E k \in BOOLEAN : kept' = [kept EXCEPT ![p] = k]
      BY <2>2 DEF AddOpen, Register, DeleteRead, local
    <3>4. kept' \in [Proc -> BOOLEAN]
      BY <3>3, FlagChange DEF TInv, TypeOK
    <3> QED  BY <3>1, <3>2, <3>4, MoveSound DEF TInv, TypeOK
  <2>3. CASE Attach(p) \/ Release(p)
    <3>1. CASE End(p, pc[p])
      BY <3>1, EndSound
    <3>2. CASE ~End(p, pc[p])
      <4>1. /\ \E to \in {"playing", "remove"} : pc' = [pc EXCEPT ![p] = to]
            /\ UNCHANGED <<hash, folder, copy>>
        BY <2>3, <3>2 DEF Attach, Release, End, Goto, local
      <4>2. op' \in [Proc -> Ops]
        BY <2>3, <3>2
           DEF Attach, Release, End, Goto, Become, Disposal, local, Ops, TInv, TypeOK
      <4>3. (hash[p] \in keep) \in BOOLEAN
        OBVIOUS
      <4>4. kept' = kept \/ kept' = [kept EXCEPT ![p] = hash[p] \in keep]
        BY <2>3, <3>2 DEF Attach, Release, End, Goto, local
      <4>5. kept' \in [Proc -> BOOLEAN]
        BY <4>3, <4>4, FlagChange DEF TInv, TypeOK
      <4> QED  BY <4>1, <4>2, <4>5, MoveSound DEF TInv, TypeOK, PCs, Reading
    <3> QED  BY <3>1, <3>2
  <2>4. CASE Abandon(p) \/ MarkSave(p)
    BY <2>4, EndSound DEF Abandon, MarkSave
  <2>5. CASE MarkRead(p)
    BY <2>5, EndSound
       DEF MarkRead, Read, Goto, Kinds, Copied, Reading, PCs, TInv, TypeOK, IInv, Placed, Free
  <2> QED  BY <2>1, <2>2, <2>3, <2>4, <2>5 DEF Run
<1>2. lock' \in [Hash -> Proc \cup {None}]
  BY DEF Run, Add, AddOpen, Abandon, Register, SaveNew, Attach, Release, Remove, DeleteRead,
         Close, DeleteRecord, Wipe, MarkRead, MarkSave, Return, Acquire, TInv, TypeOK
<1>3. rec' \in [Hash -> Record \cup {None}]
  <2>1. CASE SaveNew(p) \/ DeleteRecord(p)
    BY <2>1 DEF SaveNew, DeleteRecord, Record, TInv, TypeOK
  <2>2. CASE MarkSave(p)
    <3>1. [copy[p] EXCEPT !.pending = "wait"] \in Record
      <4>1. copy[p] \in Record
        BY <2>2 DEF MarkSave, End, Goto, TInv, Copied, Reading
      <4> QED  BY <4>1, RecordChange, Zenon
    <3>2. PICK r \in Record : rec' = [rec EXCEPT ![hash[p]] = r]
      BY <2>2, <3>1 DEF MarkSave, Write
    <3> QED  BY <3>2 DEF TInv, TypeOK
  <2>3. CASE rec' = rec
    BY <2>3 DEF TInv, TypeOK
  <2> QED
    BY <2>1, <2>2, <2>3
       DEF Run, Add, AddOpen, Abandon, Register, Attach, Release, Remove, DeleteRead,
           Close, Wipe, MarkRead, store
<1>4. /\ open' \subseteq Hash /\ active' \subseteq Hash
      /\ keep' \subseteq active' /\ onDisk' \subseteq Folder
  <2>1. CASE Register(p) \/ AddOpen(p)
    BY <2>1 DEF Register, AddOpen, Goto, store, TInv, TypeOK, IInv, Placed, Free
  <2>2. CASE ~Register(p) /\ ~AddOpen(p)
    BY <2>2
       DEF Run, Add, Abandon, SaveNew, Attach, Release, Remove, DeleteRead, Close,
           DeleteRecord, Wipe, MarkRead, MarkSave, engine, store, TInv, TypeOK
  <2> QED  BY <2>1, <2>2
<1>5. todo' = todo /\ owed' = owed
  BY DEF Run, Add, AddOpen, Abandon, Register, SaveNew, Attach, Release, Remove, DeleteRead,
         Close, DeleteRecord, Wipe, MarkRead, MarkSave
<1> QED
  BY <1>1, <1>2, <1>3, <1>4, <1>5 DEF Sound, Lists, Stored, TInv, TypeOK

(* The seed enforcer, and resumption.                                         *)
LEMMA SeederSound ==
    ASSUME IInv, TInv, NEW p \in Proc, SeederRun(p) \/ BooterRun(p)
    PROVE  Sound'
<1> USE DEF Goto, Become, engine, store, local
<1>1. CASE ListIdle(p) \/ ListSeeding(p) \/ ResumeScan(p)
  BY <1>1 DEF ListIdle, ListSeeding, ResumeScan, Entry, TInv, TypeOK, Sound, Kinds,
              Lists, Stored, Copied, Reading, PCs
<1>2. ASSUME NEW h \in Hash, Reap(p, h) \/ Visit(p, h) \/ Resume(p, h) PROVE Sound'
  <2>1. Kinds' /\ Copied'
    <3>1. PICK o \in Ops, to \in {"remove", "seedRead", "add"} : Begin(p, o, h, to)
      BY <1>2 DEF Reap, Visit, Resume, Disposal, Ops
    <3> QED  BY <3>1, BeginSound DEF PCs, Reading
  <2> QED
    BY <1>2, <2>1 DEF Reap, Visit, Resume, Take, TInv, TypeOK, Sound, Lists, Stored
<1>3. ASSUME NEW from, Act(p, from) PROVE Kinds' /\ Copied'
  <2>1. CASE End(p, from)
    BY <2>1, EndSound
  <2>2. CASE ~End(p, from)
    <3>1. /\ \E to \in {"remove", "clearRead"} : pc' = [pc EXCEPT ![p] = to]
          /\ copy' = [copy EXCEPT ![p] = None]
          /\ UNCHANGED <<hash, folder, kept>>
          /\ op' \in [Proc -> Ops]
      BY <1>3, <2>2 DEF Act, Disposal, Ops, TInv, TypeOK
    <3> QED  BY <3>1, MoveSound DEF TInv, TypeOK, PCs, Reading
  <2> QED  BY <2>1, <2>2
<1>4. CASE SeedRead(p)
  <2>1. Kinds' /\ Copied'
    BY <1>3, <1>4 DEF SeedRead, Read, Kinds, Copied, Reading, PCs, TInv, TypeOK,
                      IInv, Placed, Free
  <2> QED  BY <1>4, <2>1 DEF SeedRead, TInv, TypeOK, Sound, Lists, Stored
<1>5. CASE SeedSave(p)
  <2>1. rec' \in [Hash -> Record \cup {None}]
    BY <1>5 DEF SeedSave, Write, TInv, TypeOK
  <2>2. Kinds' /\ Copied'
    BY <1>3, <1>5 DEF SeedSave
  <2> QED  BY <1>5, <2>1, <2>2 DEF SeedSave, TInv, TypeOK, Sound, Lists, Stored
<1>6. CASE ClearRead(p)
  <2>1. Kinds' /\ Copied'
    BY <1>6 DEF ClearRead, Read, Kinds, Copied, Reading, PCs, Ops, TInv, TypeOK,
                IInv, Placed, Free
  <2> QED  BY <1>6, <2>1 DEF ClearRead, TInv, TypeOK, Sound, Lists, Stored
<1>7. CASE ClearSave(p)
  <2>1. rec' \in [Hash -> Record \cup {None}]
    <3>1. [copy[p] EXCEPT !.target = FALSE] \in Record
      <4>1. copy[p] \in Record
        BY <1>7 DEF ClearSave, TInv, Copied, Reading
      <4> QED  BY <4>1, RecordChange, Zenon
    <3>2. PICK r \in Record : rec' = [rec EXCEPT ![hash[p]] = r]
      BY <1>7, <3>1 DEF ClearSave, Write
    <3> QED  BY <3>2 DEF TInv, TypeOK
  <2>2. Kinds' /\ Copied'
    BY <1>7 DEF ClearSave, Write, Kinds, Copied, Reading, PCs, Ops, TInv, TypeOK
  <2> QED  BY <1>7, <2>1, <2>2 DEF ClearSave, TInv, TypeOK, Sound, Lists, Stored
<1> QED
  BY <1>1, <1>2, <1>4, <1>5, <1>6, <1>7 DEF SeederRun, BooterRun

(* The janitor and orphan cleanup.                                            *)
LEMMA SweepSound ==
    ASSUME TInv, NEW p \in Proc,
           \/ ListDue(p) \/ ScanDisk(p) \/ UnderCap(p) \/ Scan(p) \/ Removed(p)
           \/ \E h \in Hash : Sweep(p, h)
    PROVE  Sound'
<1> USE DEF TInv, TypeOK, Sound, Lists, Stored, Reading, PCs, Ops,
            Goto, Become, engine, store, local
<1>1. CASE ListDue(p) \/ UnderCap(p) \/ ScanDisk(p)
  BY <1>1, MoveSound DEF ListDue, UnderCap, ScanDisk, Due, Entry, Kinds, Copied
<1>2. CASE ScanActive(p)
  BY <1>2, MoveSound DEF ScanActive
<1>3. CASE ScanRecords(p)
  <2>1. PICK own \in [Folder -> Hash \cup {None}] :
           /\ End(p, "scanRecords")
           /\ todo' = [todo EXCEPT ![p] =
                         {<<"evict", own[d[3]], d[3]>> :
                            d \in {c \in @ : op[p] = "cap" \/ own[c[3]] = None}}]
           /\ UNCHANGED <<engine, lock, store, owed>>
    BY <1>3 DEF ScanRecords
  <2>2. \A d \in todo[p] : d[3] \in Folder
    BY <1>3 DEF ScanRecords, End, Listed, Scanning
  <2> QED  BY <2>1, <2>2, EndSound
<1>4. CASE Evict(p)
  BY <1>4, PathAssumption DEF Evict, Take, Spare, Target, Kinds, Copied
<1>5. CASE RemoveFails(p) \/ Forget(p) \/ Removed(p)
  BY <1>5, EndSound DEF RemoveFails, Forget, Removed, Kinds, Copied
<1>6. ASSUME NEW h \in Hash, Sweep(p, h) PROVE Sound'
  BY <1>6, NameAssumption, PathAssumption DEF Sweep, Take, Spare, Target, Kinds, Copied
<1> QED  BY <1>1, <1>2, <1>3, <1>4, <1>5, <1>6 DEF Scan

(* A scan lists folders, and a list becomes shorter before it is worked off.  *)
LEMMA StepListed ==
    ASSUME TInv, Step
    PROVE  Listed'
<1>1. ASSUME NEW p \in Proc, NEW to, to \notin Scanning,
             pc' = [pc EXCEPT ![p] = to],
             \A q \in Proc \ {p} : todo'[q] = todo[q]
      PROVE  Listed'
  BY <1>1 DEF Listed, TInv, TypeOK
<1>7. ASSUME NEW p \in Proc, pc' = pc, pc[p] \notin Scanning,
             \A q \in Proc \ {p} : todo'[q] = todo[q]
      PROVE  Listed'
  BY <1>7 DEF Listed, TInv, TypeOK
<1>8. ASSUME NEW p \in Proc, NEW d, Take(p, d) \/ \E L : todo' = [todo EXCEPT ![p] = L]
      PROVE  \A q \in Proc \ {p} : todo'[q] = todo[q]
  BY <1>8 DEF Take, TInv, TypeOK
<1>2. ASSUME NEW h \in Hash, Download(h) \/ Elapse(h) PROVE Listed'
  BY <1>2 DEF Download, Elapse, TInv, Listed
<1>3. ASSUME NEW p \in Proc, Run(p) PROVE Listed'
  <2>1. todo' = todo
    BY <1>3 DEF Run, Add, AddOpen, Abandon, Register, SaveNew, Attach, Release, Remove,
                DeleteRead, Close, DeleteRecord, Wipe, MarkRead, MarkSave
  <2>2. \E to \in PCs \ Scanning : pc' = [pc EXCEPT ![p] = to]
    BY <1>3 DEF Run, Add, AddOpen, Abandon, Register, SaveNew, Attach, Release, Remove,
                DeleteRead, Close, DeleteRecord, Wipe, MarkRead, MarkSave, Return, End,
                Goto, PCs, Scanning
  <2> QED  BY <1>1, <2>1, <2>2
<1>4. ASSUME NEW p \in Proc, NEW h \in Hash, Request(p, h) PROVE Listed'
  BY <1>1, <1>4 DEF Request, StartAdd, StartPlay, StartDrop, StartDelete, StartRetire,
                    Begin, Goto, Scanning
<1>5. ASSUME NEW p \in Proc, SeederRun(p) \/ BooterRun(p) PROVE Listed'
  <2>1. CASE ListIdle(p) \/ ListSeeding(p) \/ ResumeScan(p)
    BY <1>1, <1>7, <2>1
       DEF ListIdle, ListSeeding, ResumeScan, Idle, Goto, Scanning, TInv, TypeOK
  <2>2. ASSUME NEW h \in Hash, Reap(p, h) \/ Visit(p, h) \/ Resume(p, h) PROVE Listed'
    <3>1. \A q \in Proc \ {p} : todo'[q] = todo[q]
      BY <1>8, <2>2 DEF Reap, Visit, Resume
    <3>2. \E to \in {"remove", "seedRead", "add"} : pc' = [pc EXCEPT ![p] = to]
      BY <2>2 DEF Reap, Visit, Resume, Begin, Goto
    <3> QED  BY <1>1, <3>1, <3>2 DEF Scanning
  <2>3. CASE SeedRead(p) \/ SeedSave(p) \/ ClearRead(p) \/ ClearSave(p)
    BY <1>1, <2>3 DEF SeedRead, SeedSave, ClearRead, ClearSave, Act, End, Goto, Scanning
  <2> QED  BY <1>5, <2>1, <2>2, <2>3 DEF SeederRun, BooterRun
<1>6. ASSUME NEW p \in Proc,
             \/ ListDue(p) \/ ScanDisk(p) \/ UnderCap(p) \/ Scan(p) \/ Removed(p)
             \/ \E h \in Hash : Sweep(p, h)
      PROVE  Listed'
  <2>1. CASE ScanDisk(p)
    BY <2>1 DEF ScanDisk, Goto, Listed, TInv, TypeOK
  <2>2. CASE ScanActive(p)
    BY <2>2 DEF ScanActive, Goto, Listed, Scanning, TInv, TypeOK
  <2>3. CASE ScanRecords(p)
    <3>1. \A q \in Proc \ {p} : todo'[q] = todo[q]
      BY <1>8, <2>3 DEF ScanRecords
    <3>2. pc' = [pc EXCEPT ![p] = "idle"]
      BY <2>3 DEF ScanRecords, End, Goto
    <3> QED  BY <1>1, <3>1, <3>2 DEF Scanning
  <2>4. CASE ListDue(p) \/ UnderCap(p) \/ Evict(p) \/ \E h \in Hash : Sweep(p, h)
    <3>1. \A q \in Proc \ {p} : todo'[q] = todo[q]
      BY <1>8, <2>4 DEF ListDue, UnderCap, Evict, Sweep
    <3>2. \/ pc' = [pc EXCEPT ![p] = "removeAll"]
          \/ pc' = pc /\ pc[p] = "idle"
      BY <2>4 DEF ListDue, UnderCap, Evict, Sweep, Spare, Target, Idle, Goto
    <3> QED  BY <1>1, <1>7, <3>1, <3>2 DEF Scanning
  <2>5. CASE RemoveFails(p) \/ Forget(p) \/ Removed(p)
    BY <1>1, <2>5 DEF RemoveFails, Forget, Removed, End, Goto, Scanning
  <2> QED  BY <1>6, <2>1, <2>2, <2>3, <2>4, <2>5 DEF Scan
<1> QED
  BY <1>2, <1>3, <1>4, <1>5, <1>6 DEF Step, WorkOff, Proc

(* Every step, and a stop of the program.                                     *)
LEMMA NextTInv == IInv /\ TInv /\ [Next]_vars => TInv'
<1> SUFFICES ASSUME IInv, TInv, [Next]_vars PROVE TInv'
  OBVIOUS
<1>1. CASE Step /\ Observe
  <2>1. ASSUME NEW h \in Hash, Download(h) \/ Elapse(h) PROVE Sound'
    BY <2>1, NameAssumption
       DEF Download, Elapse, engine, local, Record, TInv, TypeOK, Sound, Kinds,
           Lists, Stored, Copied, Reading
  <2>2. Sound'
    BY <1>1, <2>1, RequestSound, RunSound, SeederSound, SweepSound
       DEF Step, WorkOff, Proc
  <2>3. steady' \in [Proc -> SUBSET Hash]
    BY <1>1, <2>2 DEF Observe, Sound, Stored, TInv, TypeOK
  <2>4. Listed'
    BY <1>1, StepListed
  <2> QED  BY <2>2, <2>3, <2>4 DEF Sound, Kinds, Lists, Stored, TInv, TypeOK
<1>2. CASE Crash
  BY <1>2, NoneAssumption
     DEF Crash, TInv, TypeOK, Copied, Listed, Scanning, Reading, AllAt, Booting, NoLocks, Seeding,
         PCs, Ops, store
<1>3. CASE UNCHANGED vars
  BY <1>3 DEF vars, TInv, TypeOK, Copied, Listed
<1> QED  BY <1>1, <1>2, <1>3 DEF Next

(* Whatever is read, rewritten and listed without locks keeps its type: in    *)
(* particular no step writes back a record it did not find, and nothing is    *)
(* kept for seeding that is not active (seeding.go:143-161, janitor.go:50-62). *)
THEOREM TypeCorrect == Spec => []TypeOK
<1>1. TInv => TypeOK
  BY DEF TInv
<1> QED  BY <1>1, InitTInv, InitIInv, NextTInv, NextIInv, PTL DEF Spec
=============================================================================
