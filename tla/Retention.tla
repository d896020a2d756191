----------------------------- MODULE Retention -----------------------------
(* What happens to the files and the records of disk-mode torrents: who       *)
(* writes them and who removes them (internal/engine: janitor.go, seeding.go, *)
(* and the parts of Add, Delete and releaseReader that touch them).           *)
(*                                                                            *)
(* A record is read, changed and written back by several goroutines; only Add *)
(* and Delete do so under the lock of the infohash.  One action is one bbolt  *)
(* transaction, one section under e.mu, one call of the torrent client or one *)
(* RemoveAll, with the taking or the release of the hash lock beside it.  A   *)
(* stop of the program, at any moment, keeps records and files only.          *)
(*                                                                            *)
(* Left to Lifecycle: which instance of a torrent a pointer means, readers    *)
(* (viewers may leave or come back before anyone acts on their number, so     *)
(* whoever acts only on idle torrents may act on any) and whom the active     *)
(* limit evicts.  Left out: sizes and ages (the disk cap may be exceeded or   *)
(* not, and the oldest entry be any), torrents in RAM, and the bytes seeded   *)
(* (a target is met or not).                                                  *)
EXTENDS Naturals, FiniteSets

CONSTANTS Client,      \* goroutines of HTTP requests
          Janitor,     \* startJanitor's goroutine
          Seeder,      \* startSeedEnforcer's goroutine
          Booter,      \* the goroutine of ResumeKeepSeed
          Hash,        \* infohashes
          Private,     \* those of private torrents
          Folder,      \* top-level names in the download folder
          Name,        \* t.Name() of each infohash: its folder
          DataPath,    \* what safeDataPath makes of a name, None if it refuses
          None         \* nil, no record

ASSUME NoneAssumption ==
    None \notin Client \cup {Janitor, Seeder, Booter} \cup Hash \cup Folder
ASSUME NameAssumption == Name \in [Hash -> Folder] /\ Private \subseteq Hash
ASSUME PathAssumption == DataPath \in [Folder -> Folder \cup {None}]

Proc   == Client \cup {Janitor, Seeder, Booter}
Record == [pending : {"no", "wait", "due"},  \* PendingDeleteAt: 0, to come, past
           target  : BOOLEAN]                \* SeedUntilRatio or -Minutes is above 0

VARIABLES
    open,      \* infohashes the torrent client runs, writing to their folders
    active,    \* those in e.managed
    keep,      \* of the active ones, those with m.keepSeed
    onDisk,    \* folders that exist
    rec,       \* the bucket of torrent records
    lock,      \* who is past lockHash(h), or None
    pc, op,    \* where each goroutine is, and in the course of what
    hash, folder, copy, \* the infohash, data path and record it works with
    kept,      \* m.keepSeed of the torrent it adds or has a stream on
    todo,      \* <<job, infohash, folder>>: what is left of the list it works off
    steady,    \* (history) active ever since its list was begun
    owed       \* (history) what was seeding, with its record saved, at the stop

engine == <<open, active, keep>>
local  == <<hash, folder, copy, kept>>
store  == <<onDisk, rec>>
vars   == <<open, active, keep, onDisk, rec, lock, pc, op, hash, folder, copy,
            kept, todo, steady, owed>>

AllAt(v) == [p \in Proc |-> v]
NoLocks  == [h \in Hash |-> None]
Booting  == [p \in Proc |-> IF p = Booter THEN "resume" ELSE "idle"]

(* A start on an empty disk; Crash leads to every other start.                *)
Init == /\ open = {} /\ active = {} /\ keep = {} /\ lock = NoLocks
        /\ onDisk = {}
        /\ rec = [h \in Hash |-> None]
        /\ pc = Booting /\ op = AllAt("none")
        /\ hash = AllAt(None) /\ folder = AllAt(None)
        /\ copy = AllAt(None) /\ kept = AllAt(FALSE)
        /\ todo = AllAt({}) /\ steady = AllAt({})
        /\ owed = {}

-----------------------------------------------------------------------------
(* Steps of a goroutine.                                                      *)

Goto(p, from, to) == pc[p] = from /\ pc' = [pc EXCEPT ![p] = to]
Become(p, o)      == op' = [op EXCEPT ![p] = o]
Idle(p)           == pc[p] = "idle" /\ todo[p] = {}

Begin(p, o, h, to) == /\ Goto(p, "idle", to)
                      /\ Become(p, o)
                      /\ hash' = [hash EXCEPT ![p] = h]
                      /\ UNCHANGED <<folder, copy, kept>>
End(p, from)       == /\ Goto(p, from, "idle")
                      /\ Become(p, "none")
                      /\ hash'   = [hash   EXCEPT ![p] = None]
                      /\ folder' = [folder EXCEPT ![p] = None]
                      /\ copy'   = [copy   EXCEPT ![p] = None]
                      /\ kept'   = [kept   EXCEPT ![p] = FALSE]

(* The next entry of the list p works off.                                    *)
Take(p, item) == /\ item \in todo[p]
                 /\ todo' = [todo EXCEPT ![p] = @ \ {item}]

Entry(job, H) == {<<job, h, None>> : h \in H}

(* GetTorrent into a local copy, and SaveTorrent of the copy, changed.        *)
Read(p)     == copy' = [copy EXCEPT ![p] = rec[hash[p]]]
Write(p, r) == /\ rec'  = [rec EXCEPT ![hash[p]] = r]
               /\ copy' = [copy EXCEPT ![p] = None]

(* lockHash, and its release when an operation returns: Drop to retire, Add   *)
(* to Ensure, anything else to its caller, who is done.                       *)
Acquire(p) == /\ lock[hash[p]] = None
              /\ lock' = [lock EXCEPT ![hash[p]] = p]
Return(p, from) ==
    /\ \/ op[p] = "retire" /\ Goto(p, from, "markRead") /\ UNCHANGED <<op, local>>
       \/ op[p] = "play" /\ Goto(p, from, "attach") /\ UNCHANGED <<op, local>>
       \/ op[p] \notin {"retire", "play"} /\ End(p, from)
    /\ lock' = [lock EXCEPT ![hash[p]] = None]

-----------------------------------------------------------------------------
(* Add, and the waking of a torrent for a stream.                             *)

StartAdd(p, h) == /\ Idle(p)
                  /\ Begin(p, "add", h, "add")
                  /\ UNCHANGED <<engine, lock, store, todo, owed>>

(* Ensure: an inactive torrent needs a record to be added from.               *)
StartPlay(p, h) == /\ Idle(p)
                   /\ \/ h \in active /\ Begin(p, "play", h, "attach")
                      \/ h \notin active /\ rec[h] # None /\ Begin(p, "play", h, "add")
                   /\ UNCHANGED <<engine, lock, store, todo, owed>>

(* Already active: as it is.  Else AddTorrentSpec follows.                    *)
Add(p) == /\ pc[p] = "add"
          /\ lock[hash[p]] = None
          /\ \/ hash[p] \in active /\ Return(p, "add")
             \/ /\ hash[p] \notin active
                /\ Acquire(p)
                /\ Goto(p, "add", "addOpen") /\ UNCHANGED <<op, local>>
          /\ UNCHANGED <<engine, store, todo, owed>>

AddOpen(p) == /\ Goto(p, "addOpen", "metadata")
              /\ open' = open \cup {hash[p]}
              /\ UNCHANGED <<active, keep, lock, store, op, local, todo, owed>>

(* No metadata in time, or nothing in it is playable.                         *)
Abandon(p) == /\ End(p, "metadata")
              /\ open' = open \ {hash[p]}
              /\ lock' = [lock EXCEPT ![hash[p]] = None]
              /\ UNCHANGED <<active, keep, store, todo, owed>>

(* Mutant of Register: the active limit evicts torrents kept for seeding.     *)
RegisterEvictsSeeders(p) ==
    \E k \in BOOLEAN, V \in SUBSET (active \cup {hash[p]}) :
       /\ Goto(p, "metadata", "save")
       /\ active' = (active \cup {hash[p]}) \ V
       /\ keep'   = IF k THEN keep \cup {hash[p]} ELSE keep
       /\ open'   = open \ V
       /\ kept'   = [kept EXCEPT ![p] = k]
       /\ UNCHANGED <<lock, store, op, hash, folder, copy, todo, owed>>

(* e.managed[hash] = m, and the active limit, which takes no hash lock.       *)
Register(p) ==
    \E k \in BOOLEAN, V \in SUBSET (active \cup {hash[p]}) :
       /\ Goto(p, "metadata", "save")
       /\ V \cap keep = {} /\ (k => hash[p] \notin V)
       /\ active' = (active \cup {hash[p]}) \ V
       /\ keep'   = IF k THEN keep \cup {hash[p]} ELSE keep
       /\ open'   = open \ V
       /\ kept'   = [kept EXCEPT ![p] = k]
       /\ UNCHANGED <<lock, store, op, hash, folder, copy, todo, owed>>

(* A new record, not pending.  One kept for seeding may have no target.       *)
SaveNew(p) == /\ pc[p] = "save"
              /\ \E t \in BOOLEAN :
                    /\ t => kept[p]
                    /\ rec' = [rec EXCEPT ![hash[p]] = [pending |-> "no", target |-> t]]
              /\ Return(p, "save")
              /\ UNCHANGED <<engine, onDisk, todo, owed>>

(* A running torrent writes what it downloads (external).                     *)
Download(h) == /\ h \in open
               /\ onDisk' = onDisk \cup {Name[h]}
               /\ UNCHANGED <<engine, rec, lock, pc, op, local, todo, owed>>

(* Ensure looks m up again and a stream counts itself in on it; or there is   *)
(* none any more, or the stream fails.                                        *)
Attach(p) == /\ \/ /\ hash[p] \in active
                   /\ Goto(p, "attach", "playing")
                   /\ kept' = [kept EXCEPT ![p] = hash[p] \in keep]
                   /\ UNCHANGED <<op, hash, folder, copy>>
                \/ End(p, "attach")
             /\ UNCHANGED <<engine, lock, store, todo, owed>>

-----------------------------------------------------------------------------
(* Drop and Delete.                                                           *)

StartDrop(p, h)   == /\ Idle(p)
                     /\ Begin(p, "drop", h, "remove")
                     /\ UNCHANGED <<engine, lock, store, todo, owed>>
StartDelete(p, h) == /\ Idle(p)
                     /\ \E o \in {"delete", "wipe"} : Begin(p, o, h, "remove")
                     /\ UNCHANGED <<engine, lock, store, todo, owed>>

IsDelete(p) == op[p] \in {"delete", "wipe"}

(* delete(e.managed, hash); Drop of what is not there has nothing to do.      *)
Remove(p) == /\ pc[p] = "remove"
             /\ lock[hash[p]] = None
             /\ \/ ~IsDelete(p) /\ hash[p] \notin active /\ Return(p, "remove")
                \/ /\ IsDelete(p) \/ hash[p] \in active
                   /\ Acquire(p)
                   /\ Goto(p, "remove", IF IsDelete(p) THEN "deleteRead" ELSE "close")
                   /\ UNCHANGED <<op, local>>
             /\ active' = active \ {hash[p]}
             /\ keep'   = keep \ {hash[p]}
             /\ UNCHANGED <<open, store, todo, owed>>

DeleteRead(p) == /\ Goto(p, "deleteRead", "close")
                 /\ Read(p)
                 /\ UNCHANGED <<engine, lock, store, op, hash, folder, kept, todo, owed>>

(* dropManaged, if there was one: while the hash is locked and not active,    *)
(* the client has at most the torrent just removed (Lifecycle's NoZombie).    *)
Close(p) == /\ \/ /\ IsDelete(p)
                  /\ Goto(p, "close", "deleteRecord") /\ UNCHANGED <<lock, op, local>>
               \/ ~IsDelete(p) /\ Return(p, "close")
            /\ open' = open \ {hash[p]}
            /\ UNCHANGED <<active, keep, store, todo, owed>>

(* Mutant of DeleteRecord: the hash is unlocked before the files are removed. *)
DeleteRecordUnlocks(p) ==
    /\ \/ /\ op[p] = "wipe" /\ copy[p] # None
          /\ Goto(p, "deleteRecord", "wipe")
          /\ lock' = [lock EXCEPT ![hash[p]] = None]
          /\ UNCHANGED <<op, local>>
       \/ ~(op[p] = "wipe" /\ copy[p] # None) /\ Return(p, "deleteRecord")
    /\ rec' = [rec EXCEPT ![hash[p]] = None]
    /\ UNCHANGED <<engine, onDisk, todo, owed>>

(* DeleteTorrent; files are removed if so asked and a record was found.       *)
DeleteRecord(p) ==
    /\ \/ /\ op[p] = "wipe" /\ copy[p] # None
          /\ Goto(p, "deleteRecord", "wipe")
          /\ UNCHANGED <<lock, op, local>>
       \/ ~(op[p] = "wipe" /\ copy[p] # None) /\ Return(p, "deleteRecord")
    /\ rec' = [rec EXCEPT ![hash[p]] = None]
    /\ UNCHANGED <<engine, onDisk, todo, owed>>

(* os.RemoveAll, whose error Delete ignores, of a path that is not refused.   *)
Wipe(p) == /\ Return(p, "wipe")
           /\ onDisk' \in {onDisk, onDisk \ {DataPath[Name[hash[p]]]}}
           /\ UNCHANGED <<engine, rec, todo, owed>>

-----------------------------------------------------------------------------
(* retire: a private torrent is deleted at once, a public one is dropped and  *)
(* its record marked.                                                         *)

Disposal(h) == IF h \in Private THEN "wipe" ELSE "retire"

MarkRead(p) == /\ pc[p] = "markRead"
               /\ \/ rec[hash[p]] = None /\ End(p, "markRead")
                  \/ /\ rec[hash[p]] # None
                     /\ Goto(p, "markRead", "markSave")
                     /\ Read(p)
                     /\ UNCHANGED <<op, hash, folder, kept>>
               /\ UNCHANGED <<engine, lock, store, todo, owed>>
MarkSave(p) == /\ End(p, "markSave")
               /\ Write(p, [copy[p] EXCEPT !.pending = "wait"])
               /\ UNCHANGED <<engine, lock, onDisk, todo, owed>>

(* The grace window passes.                                                   *)
Elapse(h) == /\ rec[h] # None /\ rec[h].pending = "wait"
             /\ rec' = [rec EXCEPT ![h].pending = "due"]
             /\ UNCHANGED <<engine, lock, onDisk, pc, op, local, todo, owed>>

(* releaseReader: the last reader of a torrent not kept for seeding may       *)
(* retire it, by its hash.                                                    *)
Release(p) == /\ \/ End(p, "playing")
                 \/ /\ ~kept[p]
                    /\ Goto(p, "playing", "remove")
                    /\ Become(p, Disposal(hash[p]))
                    /\ UNCHANGED local
              /\ UNCHANGED <<engine, lock, store, todo, owed>>

(* A player's "rem" (torrserver.go), refused for a torrent kept for seeding.  *)
(* Only an active torrent is known to be private.                             *)
StartRetire(p, h) == /\ Idle(p)
                     /\ h \notin keep
                     /\ Begin(p, IF h \in active THEN Disposal(h) ELSE "retire", h, "remove")
                     /\ UNCHANGED <<engine, lock, store, todo, owed>>

-----------------------------------------------------------------------------
(* The seed enforcer's two passes over the active torrents.                   *)

(* reapIdle lists the torrents idle for too long ...                          *)
ListIdle(p) == /\ Idle(p)
               /\ \E S \in SUBSET (active \ keep) :
                     /\ S # {}
                     /\ todo' = [todo EXCEPT ![p] = Entry("reap", S)]
               /\ UNCHANGED <<engine, lock, store, pc, op, local, owed>>
(* ... and retires or drops each.                                             *)
Reap(p, h) == /\ Take(p, <<"reap", h, None>>)
              /\ \E o \in {"drop", Disposal(h)} : Begin(p, o, h, "remove")
              /\ UNCHANGED <<engine, lock, store, owed>>

(* enforceSeeding lists the torrents kept for seeding ...                     *)
ListSeeding(p) == /\ Idle(p)
                  /\ keep # {}
                  /\ todo' = [todo EXCEPT ![p] = Entry("seed", keep)]
                  /\ UNCHANGED <<engine, lock, store, pc, op, local, owed>>
(* ... looks at each: it has met its target without readers, or not ...       *)
Visit(p, h) == /\ Take(p, <<"seed", h, None>>)
               /\ \E o \in {"seeding", "met"} : Begin(p, o, h, "seedRead")
               /\ UNCHANGED <<engine, lock, store, owed>>

(* What follows for torrents that met their target: retire them, or clear the *)
(* target and drop them.                                                      *)
Act(p, from) == \/ op[p] = "seeding" /\ End(p, from)
                \/ /\ op[p] = "met"
                   /\ \/ Goto(p, from, "remove") /\ Become(p, Disposal(hash[p]))
                      \/ Goto(p, from, "clearRead") /\ UNCHANGED op
                   /\ copy' = [copy EXCEPT ![p] = None]
                   /\ UNCHANGED <<hash, folder, kept>>

(* ... updateSeedRecord: saves its accounting, if it has a record ...         *)
SeedRead(p) == /\ pc[p] = "seedRead"
               /\ \/ /\ rec[hash[p]] # None
                     /\ Goto(p, "seedRead", "seedSave")
                     /\ Read(p)
                     /\ UNCHANGED <<op, hash, folder, kept>>
                  \/ rec[hash[p]] = None /\ Act(p, "seedRead")
               /\ UNCHANGED <<engine, lock, store, todo, owed>>
SeedSave(p) == /\ pc[p] = "seedSave"
               /\ Write(p, copy[p])
               /\ Act(p, "seedSave")
               /\ UNCHANGED <<engine, lock, onDisk, todo, owed>>
(* ... clearKeepSeed.                                                         *)
ClearRead(p) == /\ pc[p] = "clearRead"
                /\ \/ /\ rec[hash[p]] # None
                      /\ Goto(p, "clearRead", "clearSave")
                      /\ Read(p)
                      /\ UNCHANGED op
                   \/ /\ rec[hash[p]] = None
                      /\ Goto(p, "clearRead", "remove")
                      /\ Become(p, "drop")
                      /\ UNCHANGED copy
                /\ UNCHANGED <<engine, lock, store, hash, folder, kept, todo, owed>>
ClearSave(p) == /\ Goto(p, "clearSave", "remove")
                /\ Become(p, "drop")
                /\ Write(p, [copy[p] EXCEPT !.target = FALSE])
                /\ UNCHANGED <<engine, lock, onDisk, hash, folder, kept, todo, owed>>

-----------------------------------------------------------------------------
(* The janitor: sweepPending, then enforceDiskCap; and CleanOrphans.          *)

ActiveNames == {Name[h] : h \in active}       \* activeDiskNames
Due         == {h \in Hash : rec[h] # None /\ rec[h].pending = "due"}

ListDue(p) == /\ Idle(p)
              /\ Due # {}
              /\ todo' = [todo EXCEPT ![p] = Entry("sweep", Due)]
              /\ UNCHANGED <<engine, lock, store, pc, op, local, owed>>

(* safeDataPath: an empty name and one that leads out of the download folder  *)
(* are refused, and blanks around a name are cut off.                         *)
Refused(f) == DataPath[f] = None

(* os.RemoveAll of the path of f is next, for the record of h if there is one. *)
Target(p, o, h, f) == /\ Goto(p, "idle", "removeAll")
                      /\ Become(p, o)
                      /\ hash'   = [hash   EXCEPT ![p] = h]
                      /\ folder' = [folder EXCEPT ![p] = DataPath[f]]
                      /\ UNCHANGED <<copy, kept>>
Spare(p) == pc[p] = "idle" /\ UNCHANGED <<pc, op, local>>

(* Mutant of Sweep: it does not look whether the torrent was rescued.         *)
SweepBlind(p, h) == /\ Take(p, <<"sweep", h, None>>)
                    /\ Target(p, "sweep", h, Name[h])
                    /\ UNCHANGED <<engine, lock, store, owed>>

(* isActive(h): it was rescued.  deleteRecordFiles keeps the record, and so   *)
(* the mark, if the path is refused.                                          *)
Sweep(p, h) == /\ Take(p, <<"sweep", h, None>>)
               /\ \/ (h \in active \/ Refused(Name[h])) /\ Spare(p)
                  \/ /\ h \notin active /\ ~Refused(Name[h])
                     /\ Target(p, "sweep", h, Name[h])
               /\ UNCHANGED <<engine, lock, store, owed>>

(* scanDisk: the directory, the active names and the records, one by one.     *)
ScanDisk(p) == /\ Idle(p) /\ onDisk # {}
               /\ Goto(p, "idle", "scanActive")
               /\ Become(p, IF p = Janitor THEN "cap" ELSE "clean")
               /\ todo' = [todo EXCEPT ![p] = {<<"evict", None, f>> : f \in onDisk}]
               /\ UNCHANGED <<engine, lock, store, local, owed>>
ScanActive(p) == /\ Goto(p, "scanActive", "scanRecords")
                 /\ todo' = [todo EXCEPT ![p] = {d \in @ : d[3] \notin ActiveNames}]
                 /\ UNCHANGED <<engine, lock, store, op, local, owed>>

(* Each entry gets the record of its name, if there is one (of several, any); *)
(* CleanOrphans keeps those without.                                          *)
Owners(f) == {h \in Hash : rec[h] # None /\ Name[h] = f}
ScanRecords(p) ==
    \E own \in [Folder -> Hash \cup {None}] :
       /\ End(p, "scanRecords")
       /\ \A f \in Folder : own[f] \in IF Owners(f) = {} THEN {None} ELSE Owners(f)
       /\ todo' = [todo EXCEPT ![p] =
                     {<<"evict", own[d[3]], d[3]>> :
                        d \in {c \in @ : op[p] = "cap" \/ own[c[3]] = None}}]
       /\ UNCHANGED <<engine, lock, store, owed>>

(* evictDiskEntry: it became active between scan and eviction, or its path is *)
(* refused, or it goes.                                                       *)
Evict(p) == /\ \E h \in Hash \cup {None}, f \in Folder :
                  /\ Take(p, <<"evict", h, f>>)
                  /\ \/ (f \in ActiveNames \/ Refused(f)) /\ Spare(p)
                     \/ /\ f \notin ActiveNames /\ ~Refused(f)
                        /\ Target(p, "evict", h, f)
            /\ UNCHANGED <<engine, lock, store, owed>>

(* Under the cap again: enforceDiskCap leaves the rest.                       *)
UnderCap(p) == /\ p = Janitor /\ pc[p] = "idle"
               /\ \E d \in todo[p] : d[1] = "evict"
               /\ todo' = [todo EXCEPT ![p] = {}]
               /\ UNCHANGED <<engine, lock, store, pc, op, local, owed>>

(* os.RemoveAll; the record goes after the files, and only then.              *)
Removed(p) == /\ pc[p] = "removeAll"
              /\ \/ hash[p] # None /\ Goto(p, "removeAll", "forget") /\ UNCHANGED <<op, local>>
                 \/ hash[p] = None /\ End(p, "removeAll")
              /\ onDisk' = onDisk \ {folder[p]}
              /\ UNCHANGED <<engine, rec, lock, todo, owed>>

(* Mutant of RemoveFails: the record is dropped although the files are there. *)
RemoveFailsForgets(p) == /\ pc[p] = "removeAll"
                         /\ \/ /\ hash[p] # None
                               /\ Goto(p, "removeAll", "forget")
                               /\ UNCHANGED <<op, local>>
                            \/ hash[p] = None /\ End(p, "removeAll")
                         /\ UNCHANGED <<engine, store, lock, todo, owed>>

(* It fails: the record stays, and so does a mark on it.                      *)
RemoveFails(p) == /\ End(p, "removeAll")
                  /\ UNCHANGED <<engine, store, lock, todo, owed>>

(* DeleteTorrent.                                                             *)
Forget(p) == /\ pc[p] = "forget"
             /\ rec' = [rec EXCEPT ![hash[p]] = None]
             /\ End(p, "forget")
             /\ UNCHANGED <<engine, onDisk, lock, todo, owed>>

-----------------------------------------------------------------------------
(* Stops and starts.                                                          *)

Seeding == {h \in keep : rec[h] # None
                         /\ \A p \in Proc : ~(pc[p] = "save" /\ hash[p] = h)}

Crash == /\ open' = {} /\ active' = {} /\ keep' = {} /\ lock' = NoLocks
         /\ pc' = Booting /\ op' = AllAt("none")
         /\ hash' = AllAt(None) /\ folder' = AllAt(None)
         /\ copy' = AllAt(None) /\ kept' = AllAt(FALSE)
         /\ todo' = AllAt({}) /\ steady' = AllAt({})
         /\ owed' = Seeding
         /\ UNCHANGED store

(* ResumeKeepSeed lists the records with a target ...                         *)
ResumeScan(p) == /\ Goto(p, "resume", "idle")
                 /\ todo' = [todo EXCEPT ![p] =
                       Entry("resume", {h \in Hash : rec[h] # None /\ rec[h].target})]
                 /\ owed' = {}
                 /\ UNCHANGED <<engine, lock, store, op, local>>
(* ... and adds each.                                                         *)
Resume(p, h)  == /\ Take(p, <<"resume", h, None>>)
                 /\ Begin(p, "add", h, "add")
                 /\ UNCHANGED <<engine, lock, store, owed>>

-----------------------------------------------------------------------------
Request(p, h) == StartAdd(p, h) \/ StartPlay(p, h) \/ StartDrop(p, h)
                    \/ StartDelete(p, h) \/ StartRetire(p, h)

Run(p) == \/ Add(p) \/ AddOpen(p) \/ Abandon(p) \/ Register(p) \/ SaveNew(p)
          \/ Attach(p) \/ Release(p)
          \/ Remove(p) \/ DeleteRead(p) \/ Close(p) \/ DeleteRecord(p) \/ Wipe(p)
          \/ MarkRead(p) \/ MarkSave(p)

SeederRun(p) == \/ ListIdle(p) \/ ListSeeding(p)
                \/ (\E h \in Hash : Reap(p, h) \/ Visit(p, h))
                \/ SeedRead(p) \/ SeedSave(p) \/ ClearRead(p) \/ ClearSave(p)

BooterRun(p) == ResumeScan(p) \/ \E h \in Hash : Resume(p, h)

Scan(p) == ScanActive(p) \/ ScanRecords(p) \/ Evict(p) \/ RemoveFails(p) \/ Forget(p)

(* What the janitor does before its list is empty again.                      *)
WorkOff == (\E h \in Hash : Sweep(Janitor, h)) \/ UnderCap(Janitor) \/ Scan(Janitor)
              \/ Removed(Janitor)

Step == \/ \E p \in Client : \/ \E h \in Hash : Request(p, h)
                             \/ ScanDisk(p) \/ Scan(p) \/ Removed(p)
        \/ \E p \in Proc : Run(p)
        \/ ListDue(Janitor) \/ ScanDisk(Janitor) \/ WorkOff
        \/ SeederRun(Seeder)
        \/ BooterRun(Booter)
        \/ \E h \in Hash : Download(h) \/ Elapse(h)

(* steady: what is active when a sweep begins its list, and stays so.         *)
Sweeping(p) == pc[p] = "removeAll" \/ \E d \in todo[p] : d[1] \in {"sweep", "evict"}
Observe == steady' = [p \in Proc |->
              IF ~Sweeping(p)' THEN {}
              ELSE IF ~Sweeping(p) THEN active'
              ELSE steady[p] \cap active']

Next == (Step /\ Observe) \/ Crash

Spec == Init /\ [][Next]_vars

(* The program does not stop for ever, the janitor's ticker goes on, each     *)
(* tick begins with the records that are due, and a removal tried again and   *)
(* again succeeds at last.                                                    *)
FairSpec == /\ Spec
            /\ <>[][Step]_vars
            /\ SF_vars(ListDue(Janitor) /\ Observe)
            /\ WF_vars(WorkOff /\ Observe)
            /\ SF_vars(Removed(Janitor) /\ Observe)

-----------------------------------------------------------------------------
PCs == {"idle", "add", "addOpen", "metadata", "save", "attach", "playing", "remove",
        "deleteRead", "close", "deleteRecord", "wipe", "markRead", "markSave",
        "seedRead", "seedSave", "clearRead", "clearSave", "scanActive", "scanRecords",
        "removeAll", "forget", "resume"}
Ops == {"none", "add", "play", "drop", "delete", "wipe", "retire", "seeding", "met",
        "cap", "clean", "sweep", "evict"}

TypeOK == /\ open   \subseteq Hash
          /\ active \subseteq Hash
          /\ keep   \subseteq active
          /\ onDisk \subseteq Folder
          /\ rec    \in [Hash -> Record \cup {None}]
          /\ lock   \in [Hash -> Proc \cup {None}]
          /\ pc     \in [Proc -> PCs]
          /\ op     \in [Proc -> Ops]
          /\ hash   \in [Proc -> Hash \cup {None}]
          /\ folder \in [Proc -> Folder \cup {None}]
          /\ copy   \in [Proc -> Record \cup {None}]
          /\ kept   \in [Proc -> BOOLEAN]
          /\ todo   \in [Proc -> SUBSET ({"reap", "seed", "sweep", "evict", "resume"}
                                  \X (Hash \cup {None}) \X (Folder \cup {None}))]
          /\ steady \in [Proc -> SUBSET Hash]
          /\ owed   \subseteq Hash

(* Delete removes files nobody uses: when it comes to RemoveAll the torrent   *)
(* is neither active nor running, whoever adds or plays it meanwhile          *)
(* (engine.go:771-794).                                                       *)
WipesClosed == \A p \in Proc : pc[p] = "wipe" => hash[p] \notin open \cup active

(* "Content that is being watched or seeding toward a live target (i.e. an    *)
(* active torrent) is never touched" (janitor.go:86): what a sweep removes    *)
(* does not belong to a torrent that has been active since the sweep began.   *)
Protected ==
    [][\A p \in Proc : pc[p] = "removeAll" /\ folder[p] \in onDisk \ onDisk'
          => folder[p] \notin {Name[h] : h \in steady[p]}]_vars

(* A torrent is due and out of use, and its record is not being forgotten     *)
(* after a removal already done.                                              *)
Claimed(h) == /\ h \in Due \ active
              /\ \A p \in Proc : ~(pc[p] = "forget" /\ hash[p] = h)

(* Its files and its record are gone, both; or the client runs it again, its  *)
(* record has a new window or none, or a request deletes it, files or not.    *)
Disposed(h) == \/ Name[h] \notin onDisk /\ rec[h] = None
               \/ h \in open
               \/ rec[h] # None /\ h \notin Due
               \/ \E p \in Proc : IsDelete(p) /\ hash[p] = h

(* What is due is deleted, files and record: "the janitor loop deletes        *)
(* pending content once its grace window elapses" (janitor.go:15), and it     *)
(* tries again while it must: a record goes "ONLY once the files are actually *)
(* gone" (janitor.go:269-271), so that a removal that fails orphans nothing.  *)
(* The name of the torrent is one that safeDataPath takes as it is.           *)
Reclaimed == \A h \in Hash :
    Claimed(h) /\ DataPath[Name[h]] = Name[h] ~> Disposed(h)

(* keepSeed torrents are resumed "on startup so sharing survives restarts"    *)
(* (seeding.go:11): whatever was seeding when the program stopped is on       *)
(* ResumeKeepSeed's list.                                                     *)
SharingSurvives ==
    [][pc[Booter] = "resume" /\ pc'[Booter] = "idle"
          => owed \subseteq {d[2] : d \in todo'[Booter]}]_vars
=============================================================================
