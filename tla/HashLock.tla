------------------------------ MODULE HashLock ------------------------------
(* The reference-counted per-infohash locks of internal/engine/lifecycle.go.  *)
(*                                                                            *)
(* lockHash looks the hash up in e.hashLocks under e.hashMu, makes an entry    *)
(* when there is none, counts itself in, leaves e.hashMu and only then blocks *)
(* on the entry's own mutex.  The release function unlocks that mutex first   *)
(* and afterwards, under e.hashMu again, counts itself out and deletes the    *)
(* map entry at zero.  Between any two of those four steps other goroutines   *)
(* run, so an entry may leave the map and a new one for the same hash appear  *)
(* while this goroutine still holds a pointer to the old one -- unless the    *)
(* count forbids it, which is what is to be shown.                            *)
(*                                                                            *)
(* Each section under e.hashMu is one action: nothing else touches hashLocks  *)
(* or refs.  An entry nobody points to is garbage and its name is used again. *)
EXTENDS Naturals, FiniteSets

CONSTANTS Proc,     \* goroutines
          Hash,     \* infohashes
          Entry,    \* names for *hashLock objects
          None      \* nil: no entry, no hash, no owner

ASSUME NoneAssumption == None \notin Proc \cup Hash \cup Entry
ASSUME ProcAssumption == IsFiniteSet(Proc)

VARIABLES hashLocks,  \* e.hashLocks: hash -> entry, or None
          refs,       \* entry.refs
          owner,      \* entry.mu: the process that has it locked, or None
          pc,         \* where in lockHash / release each process is
          hash,       \* its argument
          l           \* its local pointer l

vars == <<hashLocks, refs, owner, pc, hash, l>>

Init == /\ hashLocks = [h \in Hash |-> None]
        /\ refs  = [e \in Entry |-> 0]
        /\ owner = [e \in Entry |-> None]
        /\ pc    = [p \in Proc |-> "idle"]
        /\ hash  = [p \in Proc |-> None]
        /\ l     = [p \in Proc |-> None]

(* l = &hashLock{}: an object no pointer in the program leads to yet.        *)
Unreferenced(e) == /\ \A h \in Hash : hashLocks[h] # e
                   /\ \A p \in Proc : l[p] # e

(* Mutant of Enter: a goroutine that finds an entry does not count itself in. *)
EnterUncounted(p, h) ==
    /\ pc[p] = "idle"
    /\ \/ /\ hashLocks[h] # None
          /\ l' = [l EXCEPT ![p] = hashLocks[h]]
          /\ UNCHANGED <<hashLocks, refs, owner>>
       \/ /\ hashLocks[h] = None
          /\ \E e \in Entry :
                /\ Unreferenced(e)
                /\ hashLocks' = [hashLocks EXCEPT ![h] = e]
                /\ l' = [l EXCEPT ![p] = e]
                /\ refs'  = [refs EXCEPT ![e] = 1]
                /\ owner' = [owner EXCEPT ![e] = None]
    /\ pc'   = [pc EXCEPT ![p] = "blocked"]
    /\ hash' = [hash EXCEPT ![p] = h]

(* Lines 51-58: find or make the entry and count in, under e.hashMu.          *)
Enter(p, h) ==
    /\ pc[p] = "idle"
    /\ \/ /\ hashLocks[h] # None
          /\ l' = [l EXCEPT ![p] = hashLocks[h]]
          /\ refs' = [refs EXCEPT ![hashLocks[h]] = @ + 1]
          /\ UNCHANGED <<hashLocks, owner>>
       \/ /\ hashLocks[h] = None
          /\ \E e \in Entry :
                /\ Unreferenced(e)
                /\ hashLocks' = [hashLocks EXCEPT ![h] = e]
                /\ l' = [l EXCEPT ![p] = e]
                /\ refs'  = [refs EXCEPT ![e] = 1]
                /\ owner' = [owner EXCEPT ![e] = None]
    /\ pc'   = [pc EXCEPT ![p] = "blocked"]
    /\ hash' = [hash EXCEPT ![p] = h]

(* Line 60: l.mu.Lock() returns.                                              *)
Lock(p) == /\ pc[p] = "blocked"
           /\ owner[l[p]] = None
           /\ owner' = [owner EXCEPT ![l[p]] = p]
           /\ pc'    = [pc EXCEPT ![p] = "holding"]
           /\ UNCHANGED <<hashLocks, refs, hash, l>>

(* Mutant of Unlock: the entry is left locked.                                *)
UnlockForgotten(p) == /\ pc[p] = "holding"
                      /\ pc' = [pc EXCEPT ![p] = "leaving"]
                      /\ UNCHANGED <<owner, hashLocks, refs, hash, l>>

(* Line 62: the release function unlocks the entry.                           *)
Unlock(p) == /\ pc[p] = "holding"
             /\ owner' = [owner EXCEPT ![l[p]] = None]
             /\ pc'    = [pc EXCEPT ![p] = "leaving"]
             /\ UNCHANGED <<hashLocks, refs, hash, l>>

(* Counting out, as Leave does, but by n, and deleting when drop says so.     *)
LeaveWhen(p, n, drop) ==
    /\ pc[p] = "leaving"
    /\ refs' = [refs EXCEPT ![l[p]] = @ - n]
    /\ hashLocks' = IF drop THEN [hashLocks EXCEPT ![hash[p]] = None] ELSE hashLocks
    /\ pc'   = [pc EXCEPT ![p] = "idle"]
    /\ hash' = [hash EXCEPT ![p] = None]
    /\ l'    = [l EXCEPT ![p] = None]
    /\ UNCHANGED owner

(* Mutants of Leave: it counts twice, deletes whatever the count, tests the   *)
(* count before it counts.                                                    *)
LeaveTwice(p)  == LeaveWhen(p, 2, refs[l[p]] = 1)
LeaveAlways(p) == LeaveWhen(p, 1, TRUE)
LeaveEarly(p)  == LeaveWhen(p, 1, refs[l[p]] = 0)

(* Lines 63-67: count out; at zero delete whatever the map has for the hash. *)
Leave(p) == LeaveWhen(p, 1, refs[l[p]] = 1)

Next == \E p \in Proc : \/ \E h \in Hash : Enter(p, h)
                        \/ Lock(p)
                        \/ Unlock(p)
                        \/ Leave(p)

Spec == Init /\ [][Next]_vars

(* A goroutine past lockHash runs on; sync.Mutex does not starve a waiter.    *)
Fairness == \A p \in Proc : /\ WF_vars(Unlock(p))
                            /\ WF_vars(Leave(p))
                            /\ SF_vars(Lock(p))

FairSpec == Spec /\ Fairness

-----------------------------------------------------------------------------
TypeOK == /\ hashLocks \in [Hash -> Entry \cup {None}]
          /\ refs  \in [Entry -> Nat]
          /\ owner \in [Entry -> Proc \cup {None}]
          /\ pc    \in [Proc -> {"idle", "blocked", "holding", "leaving"}]
          /\ hash  \in [Proc -> Hash \cup {None}]
          /\ l     \in [Proc -> Entry \cup {None}]

(* The goroutines that have a pointer to entry e.                             *)
Users(e) == {p \in Proc : l[p] = e}

(* Add, Drop and Delete of one infohash never overlap: two goroutines that    *)
(* are past lockHash have different hashes, although each locked whatever     *)
(* entry its own lookup gave it (lifecycle.go:51-60).                         *)
MutualExclusion ==
    \A p, q \in Proc : pc[p] = "holding" /\ pc[q] = "holding" /\ p # q
                          => hash[p] # hash[q]

(* The map does not grow with every torrent ever seen (lifecycle.go:44-45):   *)
(* it has an entry for a hash exactly while some goroutine uses that hash.    *)
NoLeak == \A h \in Hash : hashLocks[h] # None <=> \E p \in Proc : hash[p] = h

(* A goroutine inside lockHash uses the entry the map has for its hash.       *)
UsersShareEntry ==
    \A p \in Proc : /\ pc[p] = "idle" <=> l[p] = None
                    /\ pc[p] = "idle" <=> hash[p] = None
                    /\ pc[p] # "idle" => hashLocks[hash[p]] = l[p]

(* The entry in the map is in use and its count says by how many.             *)
CountIsUsers ==
    \A h \in Hash : hashLocks[h] # None =>
                       /\ refs[hashLocks[h]] = Cardinality(Users(hashLocks[h]))
                       /\ Users(hashLocks[h]) # {}

(* Two hashes never share an entry.                                           *)
EntriesDistinct ==
    \A g, h \in Hash : g # h /\ hashLocks[g] # None => hashLocks[g] # hashLocks[h]

(* A goroutine past the mutex owns the mutex of the entry it points to.       *)
HolderOwns == \A p \in Proc : pc[p] = "holding" => owner[l[p]] = p

(* All users of a hash meet at one entry, which stays in the map for as long  *)
(* as one of them is left (lifecycle.go:53-58 and 64-66).                     *)
OneEntryPerHash ==
    UsersShareEntry /\ CountIsUsers /\ EntriesDistinct /\ HolderOwns

(* Whoever calls lockHash gets the lock, however busy the hash is.            *)
Served == \A p \in Proc : pc[p] = "blocked" ~> pc[p] = "holding"

-----------------------------------------------------------------------------
(* The refinement: a goroutine waits from Enter to Lock and holds from Lock   *)
(* to Unlock; the counting out afterwards is invisible.                       *)
Waiting(p) == pc[p] = "blocked"
Holding(p) == pc[p] = "holding"

KM == INSTANCE KeyedMutex WITH
        Key   <- Hash,
        NoKey <- None,
        st    <- [p \in Proc |-> CASE Waiting(p) -> "waiting"
                                   [] Holding(p) -> "holding"
                                   [] OTHER      -> "idle"],
        want  <- [p \in Proc |-> IF Waiting(p) \/ Holding(p) THEN hash[p] ELSE None]

(* lockHash as written is a fair keyed mutex.                                 *)
ImplementsKeyedMutex == KM!FairSpec
=============================================================================
