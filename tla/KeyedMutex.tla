----------------------------- MODULE KeyedMutex -----------------------------
(* What lockHash(hash) promises its callers (lifecycle.go:43-50): one mutex   *)
(* per infohash.  A process asks for a key, waits, holds it and lets it go;   *)
(* two processes never hold the same key, processes on different keys never   *)
(* wait for each other.  How the code keeps the mutexes is in HashLock.       *)

CONSTANTS Proc,     \* goroutines
          Key,      \* infohashes
          NoKey     \* what a process that wants nothing has as its key

VARIABLES st,       \* st[p]: "idle", "waiting" or "holding"
          want      \* want[p]: the key p waits for or holds

vars == <<st, want>>

Init == /\ st   = [p \in Proc |-> "idle"]
        /\ want = [p \in Proc |-> NoKey]

(* The call of lockHash(k).                                                  *)
Request(p, k) == /\ st[p] = "idle"
                 /\ st'   = [st EXCEPT ![p] = "waiting"]
                 /\ want' = [want EXCEPT ![p] = k]

(* lockHash returns.                                                         *)
Grant(p) == /\ st[p] = "waiting"
            /\ \A q \in Proc : st[q] = "holding" => want[q] # want[p]
            /\ st' = [st EXCEPT ![p] = "holding"]
            /\ UNCHANGED want

(* The returned release function is called.                                  *)
Release(p) == /\ st[p] = "holding"
              /\ st'   = [st EXCEPT ![p] = "idle"]
              /\ want' = [want EXCEPT ![p] = NoKey]

Next == \E p \in Proc : \/ \E k \in Key : Request(p, k)
                        \/ Grant(p)
                        \/ Release(p)

Spec == Init /\ [][Next]_vars

(* A caller that holds a key lets it go, and a waiter overtaken again and    *)
(* again is served in the end: sync.Mutex hands the lock to the longest       *)
(* waiter once it has waited a millisecond.                                  *)
FairSpec == Spec /\ \A p \in Proc : WF_vars(Release(p)) /\ SF_vars(Grant(p))

(* Two processes never hold the same key.                                    *)
Exclusive == \A p, q \in Proc :
                st[p] = "holding" /\ st[q] = "holding" /\ p # q => want[p] # want[q]
=============================================================================
