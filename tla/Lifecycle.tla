----------------------------- MODULE Lifecycle -----------------------------
(* The life of torrents in internal/engine: Add, Drop, Delete, Ensure, the    *)
(* active-torrent limit, opening and closing a stream, and the two background *)
(* disposals (idle timeout, seed target).                                     *)
(*                                                                            *)
(* Any number of goroutines run these operations at once.  One action is what *)
(* one goroutine does between two points where others can interfere: a        *)
(* section under e.mu (the map e.managed) or under m.mu (one torrent's        *)
(* fields), one call of the torrent client, one bbolt transaction.  The       *)
(* per-infohash lock is held across many actions; it is the abstract mutex of *)
(* KeyedMutex, which HashLock shows lockHash to be.                           *)
(*                                                                            *)
(* The records of the store are no part of the state here.  Not only Add and  *)
(* Delete write them, under the lock: retire and the seed enforcer read,      *)
(* change and put them back, and the janitor deletes them, under none.  So    *)
(* looking one up may find it or not, and saving or deleting it is a step     *)
(* that takes its time.                                                       *)
(*                                                                            *)
(* The torrent client (anacrolix) is external and modelled by what            *)
(* lifecycle.go:5-10 says of it: AddTorrentSpec returns the torrent it has    *)
(* for a known infohash, and Drop of a closed torrent panics.                 *)
(*                                                                            *)
(* A *torrent.Torrent and the *managed wrapped around it have one name here:  *)
(* Add wraps each torrent once, as long as AddTorrentSpec never hands out a   *)
(* torrent that was wrapped before, which is NewTorrentsOnly below.           *)
EXTENDS Naturals, FiniteSets

CONSTANTS Proc,        \* goroutines
          Hash,        \* infohashes
          Torrent,     \* names for torrents
          None,        \* nil
          MaxActive    \* cfg.Limits.MaxActiveTorrents

ASSUME NoneAssumption == None \notin Proc \cup Hash \cup Torrent
ASSUME ProcAssumption == IsFiniteSet(Proc)
ASSUME MaxActiveAssumption == MaxActive \in Nat \ {0}  \* config.go:314

VARIABLES
    client,    \* the torrent client's torrents: hash -> torrent, or None
    managed,   \* e.managed: hash -> torrent, or None
    readers,   \* m.readers of each torrent
    keep,      \* m.keepSeed of each torrent
    dropped,   \* m.dropped of each torrent
    older,     \* <<t, u>>: t was played (or added) last before u was
    lock,      \* who is past lockHash(h), or None
    pc, op,    \* where each goroutine is, and in the course of what
    hash, tor, \* its infohash, and its pointer t or m
    panicked   \* some Drop hit a closed torrent

shared == <<client, managed, readers, keep, dropped, older, panicked>>
vars   == <<client, managed, readers, keep, dropped, older, lock,
            pc, op, hash, tor, panicked>>

Init == /\ client   = [h \in Hash |-> None]
        /\ managed  = [h \in Hash |-> None]
        /\ readers  = [t \in Torrent |-> 0]
        /\ keep     = [t \in Torrent |-> FALSE]
        /\ dropped  = [t \in Torrent |-> FALSE]
        /\ older    = {}
        /\ lock     = [h \in Hash |-> None]
        /\ pc       = [p \in Proc |-> "idle"]
        /\ op       = [p \in Proc |-> "none"]
        /\ hash     = [p \in Proc |-> None]
        /\ tor      = [p \in Proc |-> None]
        /\ panicked = FALSE

Open(t)   == \E h \in Hash : client[h] = t
Active(t) == \E h \in Hash : managed[h] = t

-----------------------------------------------------------------------------
(* Steps of a goroutine.                                                      *)

Begin(p, o, h, to) == /\ pc[p] = "idle"
                      /\ pc'   = [pc   EXCEPT ![p] = to]
                      /\ op'   = [op   EXCEPT ![p] = o]
                      /\ hash' = [hash EXCEPT ![p] = h]
Goto(p, from, to)  == pc[p] = from /\ pc' = [pc EXCEPT ![p] = to]
End(p, from)       == /\ pc[p] = from
                      /\ pc'   = [pc   EXCEPT ![p] = "idle"]
                      /\ op'   = [op   EXCEPT ![p] = "none"]
                      /\ hash' = [hash EXCEPT ![p] = None]
                      /\ tor'  = [tor  EXCEPT ![p] = None]

(* t.Drop() for every t in T (external): a closed one makes it panic.         *)
Dispose(T) == /\ client'   = [h \in Hash |-> IF client[h] \in T THEN None ELSE client[h]]
              /\ older'    = {r \in older : r[1] \notin T /\ r[2] \notin T}
              /\ panicked' = (panicked \/ \E t \in T : ~Open(t))

(* e.dropManaged(m) for every m in T: at most one t.Drop() for each.          *)
DropManaged(T) == /\ Dispose({t \in T : ~dropped[t]})
                  /\ dropped' = [t \in Torrent |-> dropped[t] \/ t \in T]

(* m.played or m.addedAt = now.  (A closed torrent's age matters to nobody.)  *)
Touch(t) == older' = IF Open(t)
                     THEN {r \in older : r[1] # t /\ r[2] # t}
                             \cup {<<u, t>> : u \in {v \in Torrent : v # t /\ Open(v)}}
                     ELSE older

(* A torrent no pointer of the program leads to.                              *)
Unreferenced(t) == ~Open(t) /\ ~Active(t) /\ \A p \in Proc : tor[p] # t

-----------------------------------------------------------------------------
(* lockHash and the deferred release.                                         *)

Adds    == {"add", "wake"}                          \* Add, called by a client or by Ensure
Drops   == {"drop", "idleDrop", "seedDrop"}         \* Drop: on request, idle, target met
Deletes == {"delete", "idleDelete", "seedDelete"}   \* Delete: the same

AfterLock(p) == IF op[p] \in Adds       THEN "addCheck"
                ELSE IF op[p] \in Drops THEN "dropRemove"
                ELSE "deleteRemove"

(* Mutant of Lock: Add, Drop and Delete of a hash are not serialized.         *)
LockUnguarded(p) == /\ Goto(p, "lock", AfterLock(p))
                    /\ lock' = [lock EXCEPT ![hash[p]] = p]
                    /\ UNCHANGED <<shared, op, hash, tor>>

Lock(p) == /\ Goto(p, "lock", AfterLock(p))
           /\ lock[hash[p]] = None
           /\ lock' = [lock EXCEPT ![hash[p]] = p]
           /\ UNCHANGED <<shared, op, hash, tor>>

(* The operation returns.                                                     *)
Unlock(p) == /\ End(p, "unlock")
             /\ lock' = [lock EXCEPT ![hash[p]] = None]
             /\ UNCHANGED shared

(* Add returns to Ensure without an error.                                    *)
UnlockWake(p) == /\ Goto(p, "unlockWake", "wake")
                 /\ lock' = [lock EXCEPT ![hash[p]] = None]
                 /\ tor'  = [tor EXCEPT ![p] = None]
                 /\ UNCHANGED <<shared, op, hash>>

(* Where Add goes on from when it succeeds.                                   *)
Added(p) == IF op[p] = "wake" THEN "unlockWake" ELSE "unlock"

-----------------------------------------------------------------------------
(* Add                                                                        *)

StartAdd(p, h) == /\ Begin(p, "add", h, "lock")
                  /\ UNCHANGED <<shared, lock, tor>>

(* Mutant of AddCheck: it does not look whether the torrent is active.        *)
AddCheckBlind(p) == /\ Goto(p, "addCheck", "addSpec") \/ Goto(p, "addCheck", "unlock")
                    /\ UNCHANGED <<shared, lock, op, hash, tor>>

(* Already active: return it as it is.  Else the rules may reject the name,   *)
(* or the torrent is new to us.                                               *)
AddCheck(p) == /\ pc[p] = "addCheck"
               /\ \/ managed[hash[p]] # None /\ Goto(p, "addCheck", Added(p))
                  \/ managed[hash[p]] = None /\ Goto(p, "addCheck", "addSpec")
                  \/ managed[hash[p]] = None /\ Goto(p, "addCheck", "unlock")
               /\ UNCHANGED <<shared, lock, op, hash, tor>>

(* e.cl.AddTorrentSpec(spec): the torrent the client has, or a new one.       *)
AddTorrentSpec(p) ==
    LET h == hash[p] IN
    /\ \/ /\ client[h] # None
          /\ tor' = [tor EXCEPT ![p] = client[h]]
          /\ UNCHANGED client
       \/ /\ client[h] = None
          /\ \E t \in Torrent : /\ Unreferenced(t)
                                /\ tor' = [tor EXCEPT ![p] = t]
                                /\ client' = [client EXCEPT ![h] = t]
    /\ UNCHANGED <<managed, readers, keep, dropped, older, panicked,
                   lock, op, hash>>

AddSpec(p)  == Goto(p, "addSpec", "metadata") /\ AddTorrentSpec(p)
AddAgain(p) == Goto(p, "diskSpec", "diskMetadata") /\ AddTorrentSpec(p)

(* Mutant of AddSpecFails: the early return does not release the lock.        *)
AddSpecFailsLocked(p) == /\ End(p, "addSpec") \/ End(p, "diskSpec")
                         /\ UNCHANGED <<shared, lock>>

(* AddTorrentSpec returns an error; a torrent it had made it drops itself.    *)
AddSpecFails(p) == /\ Goto(p, "addSpec", "unlock") \/ Goto(p, "diskSpec", "unlock")
                   /\ UNCHANGED <<shared, lock, op, hash, tor>>

(* <-t.GotInfo(): a rule or a private tracker may ask to keep seeding; when   *)
(* the torrent was added in RAM it is then dropped and added again on disk.   *)
GotInfo(p) ==
    /\ \/ Goto(p, "metadata", "readd") /\ UNCHANGED keep
       \/ /\ Goto(p, "metadata", "build") \/ Goto(p, "diskMetadata", "build")
          /\ \E k \in BOOLEAN : /\ pc[p] = "diskMetadata" => k
                                /\ keep' = [keep EXCEPT ![tor[p]] = k]
    /\ UNCHANGED <<client, managed, readers, dropped, older, panicked,
                   lock, op, hash, tor>>

(* Mutant of ReaddDrop: added again on disk without dropping it in RAM.       *)
ReaddKept(p) == /\ Goto(p, "readd", "diskSpec")
                /\ tor' = [tor EXCEPT ![p] = None]
                /\ UNCHANGED <<shared, lock, op, hash>>

ReaddDrop(p) == /\ Goto(p, "readd", "diskSpec")
                /\ Dispose({tor[p]})
                /\ tor' = [tor EXCEPT ![p] = None]
                /\ UNCHANGED <<managed, readers, keep, dropped, lock, op, hash>>

(* Mutant of Abandon: Add fails and leaves the torrent in the client.         *)
AbandonOpen(p, from) == /\ Goto(p, from, "unlock")
                        /\ UNCHANGED <<shared, lock, op, hash, tor>>

(* <-ctx.Done() while waiting, or no playable file in it: drop it and fail.   *)
Abandon(p, from) == /\ Goto(p, from, "unlock")
                    /\ Dispose({tor[p]})
                    /\ UNCHANGED <<managed, readers, keep, dropped,
                                   lock, op, hash, tor>>

TimedOut(p)    == Abandon(p, "metadata") \/ Abandon(p, "diskMetadata")
NotPlayable(p) == Abandon(p, "build")

(* m := &managed{...}                                                         *)
Build(p) == /\ Goto(p, "build", "register")
            /\ readers' = [readers EXCEPT ![tor[p]] = 0]
            /\ dropped' = [dropped EXCEPT ![tor[p]] = FALSE]
            /\ Touch(tor[p])
            /\ UNCHANGED <<client, managed, keep, panicked, lock, op, hash, tor>>

(* enforceActiveLimitLocked on the map ms: the torrents least recently played *)
(* among the idle ones, as many as there are too many.                        *)
IdleIn(ms)  == {t \in Torrent : /\ \E h \in Hash : ms[h] = t
                                /\ readers[t] = 0
                                /\ ~keep[t]}
(* Mutant of Excess: the sweep makes room for one more.                       *)
ExcessPlus(ms) == LET n == Cardinality({h \in Hash : ms[h] # None})
                  IN  IF n >= MaxActive THEN n - MaxActive + 1 ELSE 0
Excess(ms)  == LET n == Cardinality({h \in Hash : ms[h] # None})
               IN  IF n > MaxActive THEN n - MaxActive ELSE 0
Victims(ms) == {t \in IdleIn(ms) :
                   Cardinality({u \in IdleIn(ms) : <<u, t>> \in older}) < Excess(ms)}

(* Mutant of Register: the sweep closes its victims and leaves them in the map. *)
RegisterKeepsVictims(p) ==
    LET ms == [managed EXCEPT ![hash[p]] = tor[p]] IN
    /\ Goto(p, "register", "save")
    /\ managed' = ms
    /\ DropManaged(Victims(ms))
    /\ UNCHANGED <<readers, keep, lock, op, hash, tor>>

(* e.managed[hash] = m; e.enforceActiveLimitLocked(max), in one e.mu section. *)
Register(p) ==
    LET ms == [managed EXCEPT ![hash[p]] = tor[p]] IN
    /\ Goto(p, "register", "save")
    /\ managed' = [h \in Hash |-> IF ms[h] \in Victims(ms) THEN None ELSE ms[h]]
    /\ DropManaged(Victims(ms))
    /\ UNCHANGED <<readers, keep, lock, op, hash, tor>>

(* SaveTorrent: the record is written after the torrent is registered.        *)
Save(p) == /\ Goto(p, "save", Added(p))
           /\ UNCHANGED <<shared, lock, op, hash, tor>>

-----------------------------------------------------------------------------
(* Drop and Delete                                                            *)

StartDrop(p, h)   == /\ Begin(p, "drop", h, "lock")
                     /\ UNCHANGED <<shared, lock, tor>>
StartDelete(p, h) == /\ Begin(p, "delete", h, "lock")
                     /\ UNCHANGED <<shared, lock, tor>>

(* delete(e.managed, hash) under e.mu; not there: nothing to dispose of.      *)
Remove(p, from, found, notFound) ==
    /\ pc[p] = from
    /\ \/ /\ managed[hash[p]] # None
          /\ Goto(p, from, found)
          /\ tor' = [tor EXCEPT ![p] = managed[hash[p]]]
          /\ managed' = [managed EXCEPT ![hash[p]] = None]
       \/ /\ managed[hash[p]] = None
          /\ Goto(p, from, notFound)
          /\ UNCHANGED <<managed, tor>>
    /\ UNCHANGED <<client, readers, keep, dropped, older, panicked,
                   lock, op, hash>>

DropRemove(p)   == Remove(p, "dropRemove", "dropClose", "unlock")
DeleteRemove(p) == Remove(p, "deleteRemove", "deleteClose", "deleteRecord")

(* e.dropManaged(m), after e.mu was released.                                 *)
CloseManaged(p) == /\ \/ Goto(p, "dropClose", "unlock")
                      \/ Goto(p, "deleteClose", "deleteRecord")
                   /\ DropManaged({tor[p]})
                   /\ UNCHANGED <<managed, readers, keep, lock, op, hash, tor>>

(* GetTorrent, DeleteTorrent and, if asked for, the removal of the files.     *)
DeleteRecord(p) == /\ Goto(p, "deleteRecord", "unlock")
                   /\ UNCHANGED <<shared, lock, op, hash, tor>>

-----------------------------------------------------------------------------
(* Streams                                                                    *)

StartStream(p, h) == /\ Begin(p, "wake", h, "ensure")
                     /\ UNCHANGED <<shared, lock, tor>>

(* Ensure: the active torrent, else the record of a dropped one ...           *)
Ensure(p) == /\ pc[p] = "ensure"
             /\ \/ /\ managed[hash[p]] # None
                   /\ Goto(p, "ensure", "attach")
                   /\ tor' = [tor EXCEPT ![p] = managed[hash[p]]]
                \/ /\ managed[hash[p]] = None
                   /\ Goto(p, "ensure", "record")
                   /\ UNCHANGED tor
             /\ UNCHANGED <<shared, lock, op, hash>>

(* ... which is added again.  Without one, or with a link that cannot be      *)
(* turned into a spec any more, the torrent is unknown.                       *)
EnsureRecord(p) == /\ pc[p] = "record"
                   /\ \/ /\ Goto(p, "record", "lock")
                         /\ UNCHANGED <<op, hash, tor>>
                      \/ End(p, "record")
                   /\ UNCHANGED <<shared, lock>>

(* Ensure looks it up once more; it may be gone already.                      *)
EnsureAgain(p) == /\ pc[p] = "wake"
                  /\ \/ /\ managed[hash[p]] # None
                        /\ Goto(p, "wake", "attach")
                        /\ tor' = [tor EXCEPT ![p] = managed[hash[p]]]
                        /\ UNCHANGED <<op, hash>>
                     \/ managed[hash[p]] = None /\ End(p, "wake")
                  /\ UNCHANGED <<shared, lock>>

(* Mutant of Attach: a flag in place of a count.                              *)
AttachFlag(p) == /\ Goto(p, "attach", "streaming")
                 /\ readers' = [readers EXCEPT ![tor[p]] = 1]
                 /\ Touch(tor[p])
                 /\ UNCHANGED <<client, managed, keep, dropped, panicked,
                                lock, op, hash, tor>>

(* m.readers++, m.played = now, under m.mu.                                   *)
Attach(p) == /\ Goto(p, "attach", "streaming")
             /\ readers' = [readers EXCEPT ![tor[p]] = @ + 1]
             /\ Touch(tor[p])
             /\ UNCHANGED <<client, managed, keep, dropped, panicked,
                            lock, op, hash, tor>>

(* No such file in the torrent.                                               *)
NoSuchFile(p) == End(p, "attach") /\ UNCHANGED <<shared, lock>>

(* releaseReader, when playback or the wait for its first byte ends, leaving  *)
(* n readers: the last reader of a torrent not kept for seeding drops or, on  *)
(* disk, retires it if the settings of the moment say so.                     *)
ReleaseTo(p, n) ==
    /\ pc[p] = "streaming"
    /\ readers' = [readers EXCEPT ![tor[p]] = n]
    /\ \/ End(p, "streaming")
       \/ /\ n = 0 /\ ~keep[tor[p]]
          /\ Goto(p, "streaming", "lock")
          /\ \E o \in {"idleDrop", "idleDelete"} : op' = [op EXCEPT ![p] = o]
          /\ tor' = [tor EXCEPT ![p] = None]
          /\ UNCHANGED hash
    /\ UNCHANGED <<client, managed, keep, dropped, older, panicked, lock>>

(* Mutant of Release: the reader is released by two paths.                    *)
ReleaseTwice(p) == ReleaseTo(p, readers[tor[p]] - 2)

Release(p) ==
    ReleaseTo(p, IF readers[tor[p]] > 0 THEN readers[tor[p]] - 1 ELSE 0)

-----------------------------------------------------------------------------
(* Background disposal                                                        *)

(* reapIdle found h idle for too long, and disposes of it after unlocking.    *)
ReapIdle(p, h) == /\ managed[h] # None
                  /\ readers[managed[h]] = 0 /\ ~keep[managed[h]]
                  /\ \E o \in {"idleDrop", "idleDelete"} : Begin(p, o, h, "lock")
                  /\ UNCHANGED <<shared, lock, tor>>

(* enforceSeeding notes h's torrent among those it will look at ...           *)
SeedVisit(p, h) == /\ managed[h] # None /\ keep[managed[h]]
                   /\ Begin(p, "seeding", h, "seedCheck")
                   /\ tor' = [tor EXCEPT ![p] = managed[h]]
                   /\ UNCHANGED <<shared, lock>>

(* ... and finds it at its target without readers, or not.                    *)
SeedCheck(p) == /\ pc[p] = "seedCheck"
                /\ \/ End(p, "seedCheck")
                   \/ /\ readers[tor[p]] = 0
                      /\ Goto(p, "seedCheck", "lock")
                      /\ \E o \in {"seedDrop", "seedDelete"} : op' = [op EXCEPT ![p] = o]
                      /\ tor' = [tor EXCEPT ![p] = None]
                      /\ UNCHANGED hash
                /\ UNCHANGED <<shared, lock>>

-----------------------------------------------------------------------------
(* What a goroutine that is inside an operation does next, on its own.        *)
Run(p) == \/ AddCheck(p) \/ AddSpec(p) \/ AddAgain(p) \/ AddSpecFails(p)
          \/ ReaddDrop(p) \/ NotPlayable(p) \/ Build(p) \/ Register(p) \/ Save(p)
          \/ DropRemove(p) \/ DeleteRemove(p) \/ CloseManaged(p) \/ DeleteRecord(p)
          \/ Ensure(p) \/ EnsureRecord(p) \/ EnsureAgain(p) \/ Attach(p)
          \/ NoSuchFile(p) \/ SeedCheck(p) \/ Unlock(p) \/ UnlockWake(p)

Start(p, h) == \/ StartAdd(p, h) \/ StartDrop(p, h) \/ StartDelete(p, h)
               \/ StartStream(p, h) \/ ReapIdle(p, h) \/ SeedVisit(p, h)

Next == \E p \in Proc : \/ \E h \in Hash : Start(p, h)
                        \/ Lock(p)
                        \/ Run(p)
                        \/ GotInfo(p)
                        \/ TimedOut(p)
                        \/ Release(p)

Spec == Init /\ [][Next]_vars

(* Goroutines run on, and lockHash is fair.  Metadata need not ever arrive    *)
(* and a player may keep its connection for as long as it likes, but an Add   *)
(* of its own gives up at its deadline (90 s from the handlers, 120 s from    *)
(* ResumeKeepSeed); an Add made by Ensure has only the player's connection to *)
(* end it (server.go:198, 215).                                               *)
FairSpec == /\ Spec
            /\ \A p \in Proc : /\ WF_vars(Run(p))
                               /\ SF_vars(Lock(p))
                               /\ WF_vars(op[p] = "add" /\ TimedOut(p))

(* ... and no player waits for ever on a stream that does not start.          *)
ImpatientSpec == FairSpec /\ \A p \in Proc : WF_vars(TimedOut(p))

-----------------------------------------------------------------------------
PCs == {"idle", "lock", "unlock", "unlockWake", "addCheck", "addSpec", "metadata",
        "readd", "diskSpec", "diskMetadata", "build", "register", "save",
        "dropRemove", "dropClose", "deleteRemove", "deleteClose", "deleteRecord",
        "ensure", "record", "wake", "attach", "streaming", "seedCheck"}
Ops == {"none", "seeding"} \cup Adds \cup Drops \cup Deletes

TypeOK == /\ client   \in [Hash -> Torrent \cup {None}]
          /\ managed  \in [Hash -> Torrent \cup {None}]
          /\ readers  \in [Torrent -> Nat]
          /\ keep     \in [Torrent -> BOOLEAN]
          /\ dropped  \in [Torrent -> BOOLEAN]
          /\ older    \in SUBSET (Torrent \X Torrent)
          /\ lock     \in [Hash -> Proc \cup {None}]
          /\ pc       \in [Proc -> PCs]
          /\ op       \in [Proc -> Ops]
          /\ hash     \in [Proc -> Hash \cup {None}]
          /\ tor      \in [Proc -> Torrent \cup {None}]
          /\ panicked \in BOOLEAN

(* No interleaving of additions, drops, deletions, sweeps and drops after     *)
(* playback closes a torrent twice (lifecycle.go:18-20).                      *)
NoPanic == ~panicked

(* What is in e.managed is alive: nobody has closed it or begun to, and it is *)
(* the client's torrent for that hash (lifecycle.go:12-17).                   *)
ManagedAlive == \A h \in Hash : managed[h] # None =>
                    client[h] = managed[h] /\ ~dropped[managed[h]]

(* A torrent the client runs is managed, or some goroutine is this moment     *)
(* bringing it in or taking it out under the hash's lock: no zombie is left   *)
(* with peers and no entry in the listing (README.md:58).                     *)
NoZombie == \A h \in Hash : client[h] # None /\ managed[h] # client[h] =>
                lock[h] # None /\ tor[lock[h]] = client[h]

(* Add never adopts a torrent that someone else made and may be about to      *)
(* close: when it calls AddTorrentSpec, the client does not know the hash.    *)
NewTorrentsOnly == \A p \in Proc : pc[p] \in {"addSpec", "diskSpec"} =>
                                       client[hash[p]] = None

(* m.readers counts the streams open on m, over any number of wakes, drops    *)
(* and registrations, so that the last one to close is the one that sees zero *)
(* (stream.go:63-67, 146-155).                                                *)
Streams(t) == {p \in Proc : pc[p] = "streaming" /\ tor[p] = t}
ReadersCounted == \A t \in Torrent : readers[t] = Cardinality(Streams(t))

(* The active limit (engine.go:511-544): registering a torrent leaves no more *)
(* than the limit unless all that are left are busy; whatever it evicts was   *)
(* idle, and no idle torrent survives one played after it.                    *)
LimitStep ==
    \A p \in Proc : pc[p] = "register" /\ pc'[p] = "save" =>
        LET before == {managed[h] : h \in Hash} \cup {tor[p]}
            after  == {managed'[h] : h \in Hash}
            gone   == (before \ after) \ {None}
            Busy(t) == readers[t] > 0 \/ keep[t]
        IN  /\ \/ Cardinality(after \ {None}) <= MaxActive
               \/ \A t \in after \ {None} : Busy(t)
            /\ gone # {} => Cardinality(after \ {None}) >= MaxActive
            /\ \A t \in gone : ~Busy(t)
            /\ \A t \in gone, u \in after \ {None} : <<u, t>> \in older => Busy(u)
LimitEnforced == [][LimitStep]_vars

(* Every operation comes to an end, whoever else is at work on the hash.      *)
OperationsFinish ==
    \A p \in Proc : pc[p] \notin {"idle", "streaming"} ~> pc[p] \in {"idle", "streaming"}

(* OpenStream "blocks until the first bytes are reachable or the no-peers     *)
(* timeout" (stream.go:35): it returns, whether or not metadata ever arrives  *)
(* and although the player is patient.                                        *)
OpenStreamReturns ==
    \A p \in Proc : op[p] = "wake" ~> (pc[p] = "streaming" \/ op[p] # "wake")

(* "Don't cut off an active viewer; act once the target is met and idle"      *)
(* (seeding.go:127): what the seed enforcer closes has no readers.            *)
SeedingSparesViewers ==
    [][\A p \in Proc : pc[p] \in {"dropClose", "deleteClose"} /\ pc'[p] # pc[p]
           /\ op[p] \in {"seedDrop", "seedDelete"} => readers[tor[p]] = 0]_vars

-----------------------------------------------------------------------------
(* The refinement: while a torrent is in the client but not managed, the lock *)
(* holder's position says whether it is on its way in or out.                 *)
BringingIn(p) == pc[p] \in {"metadata", "readd", "diskMetadata", "build", "register"}

Life(h) == IF client[h] = None              THEN "gone"
           ELSE IF managed[h] = client[h]   THEN "active"
           ELSE IF \E p \in Proc : lock[h] = p /\ BringingIn(p) THEN "joining"
           ELSE "leaving"

TL == INSTANCE TorrentLife WITH life <- [h \in Hash |-> Life(h)]

(* Whatever runs at once, a torrent takes only the steps TorrentLife allows:  *)
(* one on its way out never comes back (lifecycle.go:12-17).                  *)
ImplementsTorrentLife == TL!Spec

(* ... and none gets stuck between being gone and being active.               *)
ActiveOrGone == TL!FairSpec
=============================================================================
