--------------------------- MODULE HashLock_proofs ---------------------------
(* Proofs about HashLock, for any number of goroutines, hashes and entries.   *)
(*                                                                            *)
(* Mutual exclusion rests on the reference count: TypeOK and OneEntryPerHash  *)
(* together are inductive.  The one delicate step is Leave, which deletes the *)
(* map entry: the count being the number of users, a count of one means that  *)
(* the leaving goroutine is the only user, so nobody is left behind on an     *)
(* entry the map has forgotten.                                               *)
EXTENDS HashLock, FiniteSetTheorems, TLAPS

IInv == TypeOK /\ OneEntryPerHash

(* The users of any entry are finitely many.                                  *)
LEMMA UsersFinite ==
    ASSUME NEW e
    PROVE  IsFiniteSet(Users(e)) /\ Cardinality(Users(e)) \in Nat
<1>1. Users(e) \in SUBSET Proc
  BY DEF Users
<1>2. IsFiniteSet(Users(e))
  BY <1>1, FS_Subset, ProcAssumption
<1> QED
  BY <1>2, FS_CardinalityType

(* A goroutine whose entry counts one user is that user.                      *)
LEMMA LastUser ==
    ASSUME NEW p \in Proc, Cardinality(Users(l[p])) = 1
    PROVE  Users(l[p]) = {p}
<1>1. PICK x : Users(l[p]) = {x}
  BY UsersFinite, FS_Singleton
<1>2. p \in Users(l[p])
  BY DEF Users
<1> QED
  BY <1>1, <1>2

(* No goroutine runs and no entry exists at the start.                        *)
LEMMA InitIInv == Init => IInv
BY NoneAssumption
   DEF Init, IInv, TypeOK, OneEntryPerHash, UsersShareEntry, CountIsUsers,
       EntriesDistinct, HolderOwns

(* A goroutine joins the entry the map has.                                   *)
LEMMA JoinStep ==
    ASSUME IInv, NEW p \in Proc, NEW h \in Hash, Enter(p, h), hashLocks[h] # None
    PROVE  IInv'
<1> DEFINE e == hashLocks[h]
<1>1. /\ e \in Entry
      /\ pc[p] = "idle"
      /\ l' = [l EXCEPT ![p] = e]
      /\ refs' = [refs EXCEPT ![e] = @ + 1]
      /\ UNCHANGED <<hashLocks, owner>>
      /\ pc' = [pc EXCEPT ![p] = "blocked"]
      /\ hash' = [hash EXCEPT ![p] = h]
  BY DEF Enter, IInv, TypeOK
<1>2. l[p] = None
  BY <1>1 DEF IInv, OneEntryPerHash, UsersShareEntry
<1>3. TypeOK'
  BY <1>1 DEF IInv, TypeOK
<1>4. UsersShareEntry'
  BY <1>1, NoneAssumption DEF IInv, TypeOK, OneEntryPerHash, UsersShareEntry
<1>5. CountIsUsers'
  <2> SUFFICES ASSUME NEW g \in Hash, hashLocks[g] # None
               PROVE  /\ refs'[hashLocks[g]] = Cardinality(Users(hashLocks[g])')
                      /\ Users(hashLocks[g])' # {}
    BY <1>1 DEF CountIsUsers, Users
  <2>1. hashLocks[g] \in Entry
    BY DEF IInv, TypeOK
  <2>2. /\ refs[hashLocks[g]] = Cardinality(Users(hashLocks[g]))
        /\ Users(hashLocks[g]) # {}
    BY DEF IInv, OneEntryPerHash, CountIsUsers
  <2>3. CASE g = h
    <3>1. Users(e)' = Users(e) \cup {p} /\ p \notin Users(e)
      BY <1>1, <1>2, NoneAssumption DEF Users, IInv, TypeOK
    <3>2. Cardinality(Users(e) \cup {p}) = Cardinality(Users(e)) + 1
      BY <3>1, UsersFinite, FS_AddElement
    <3>3. refs'[e] = refs[e] + 1
      BY <1>1 DEF IInv, TypeOK
    <3> QED
      BY <2>2, <2>3, <3>1, <3>2, <3>3, <1>1
  <2>4. CASE g # h
    <3>1. hashLocks[g] # e
      BY <2>4 DEF IInv, OneEntryPerHash, EntriesDistinct
    <3>2. Users(hashLocks[g])' = Users(hashLocks[g])
      BY <1>1, <1>2, <3>1, <2>1, NoneAssumption DEF Users, IInv, TypeOK
    <3>3. refs'[hashLocks[g]] = refs[hashLocks[g]]
      BY <1>1, <2>1, <3>1 DEF IInv, TypeOK
    <3> QED
      BY <2>2, <3>2, <3>3, <1>1
  <2> QED
    BY <2>3, <2>4
<1>6. EntriesDistinct'
  BY <1>1 DEF IInv, OneEntryPerHash, EntriesDistinct
<1>7. HolderOwns'
  BY <1>1 DEF IInv, TypeOK, OneEntryPerHash, HolderOwns
<1> QED
  BY <1>3, <1>4, <1>5, <1>6, <1>7 DEF IInv, OneEntryPerHash

(* A goroutine finds no entry and makes one.                                  *)
LEMMA CreateStep ==
    ASSUME IInv, NEW p \in Proc, NEW h \in Hash, Enter(p, h), hashLocks[h] = None
    PROVE  IInv'
<1>1. PICK e \in Entry :
         /\ Unreferenced(e)
         /\ hashLocks' = [hashLocks EXCEPT ![h] = e]
         /\ l' = [l EXCEPT ![p] = e]
         /\ refs' = [refs EXCEPT ![e] = 1]
         /\ owner' = [owner EXCEPT ![e] = None]
  BY DEF Enter
<1>2. /\ pc[p] = "idle"
      /\ pc' = [pc EXCEPT ![p] = "blocked"]
      /\ hash' = [hash EXCEPT ![p] = h]
  BY DEF Enter
<1>3. TypeOK'
  BY <1>1, <1>2 DEF IInv, TypeOK
<1>4. UsersShareEntry'
  <2> SUFFICES ASSUME NEW q \in Proc
               PROVE  /\ pc'[q] = "idle" <=> l'[q] = None
                      /\ pc'[q] = "idle" <=> hash'[q] = None
                      /\ pc'[q] # "idle" => hashLocks'[hash'[q]] = l'[q]
    BY DEF UsersShareEntry
  <2>1. CASE q = p
    BY <1>1, <1>2, <2>1, NoneAssumption DEF IInv, TypeOK
  <2>2. CASE q # p
    <3>1. /\ pc'[q] = pc[q] /\ l'[q] = l[q] /\ hash'[q] = hash[q]
      BY <1>1, <1>2, <2>2 DEF IInv, TypeOK
    <3>2. /\ pc[q] = "idle" <=> l[q] = None
          /\ pc[q] = "idle" <=> hash[q] = None
          /\ pc[q] # "idle" => hashLocks[hash[q]] = l[q]
      BY DEF IInv, OneEntryPerHash, UsersShareEntry
    <3>3. pc[q] # "idle" => hash[q] # h /\ hash[q] \in Hash
      BY <3>2 DEF IInv, TypeOK
    <3> QED
      BY <1>1, <3>1, <3>2, <3>3 DEF IInv, TypeOK
  <2> QED
    BY <2>1, <2>2
<1>5. CountIsUsers'
  <2> SUFFICES ASSUME NEW g \in Hash, hashLocks'[g] # None
               PROVE  /\ refs'[hashLocks'[g]] = Cardinality({q \in Proc : l'[q] = hashLocks'[g]})
                      /\ {q \in Proc : l'[q] = hashLocks'[g]} # {}
    BY DEF CountIsUsers, Users
  <2>1. CASE g = h
    <3>1. hashLocks'[g] = e /\ refs'[e] = 1
      BY <1>1, <2>1 DEF IInv, TypeOK
    <3>2. {q \in Proc : l'[q] = e} = {p}
      BY <1>1 DEF Unreferenced, IInv, TypeOK
    <3> QED
      BY <3>1, <3>2, FS_Singleton
  <2>2. CASE g # h
    <3>1. hashLocks'[g] = hashLocks[g] /\ hashLocks[g] # e /\ hashLocks[g] \in Entry
      BY <1>1, <2>2 DEF Unreferenced, IInv, TypeOK
    <3>2. l[p] = None
      BY <1>2 DEF IInv, OneEntryPerHash, UsersShareEntry
    <3>3. {q \in Proc : l'[q] = hashLocks[g]} = Users(hashLocks[g])
      BY <1>1, <3>1, <3>2, NoneAssumption DEF Users, IInv, TypeOK
    <3>4. refs'[hashLocks[g]] = refs[hashLocks[g]]
      BY <1>1, <3>1 DEF IInv, TypeOK
    <3> QED
      BY <3>1, <3>3, <3>4 DEF IInv, OneEntryPerHash, CountIsUsers
  <2> QED
    BY <2>1, <2>2
<1>6. EntriesDistinct'
  BY <1>1 DEF Unreferenced, IInv, TypeOK, OneEntryPerHash, EntriesDistinct
<1>7. HolderOwns'
  BY <1>1, <1>2 DEF Unreferenced, IInv, TypeOK, OneEntryPerHash, HolderOwns
<1> QED
  BY <1>3, <1>4, <1>5, <1>6, <1>7 DEF IInv, OneEntryPerHash

(* Taking the mutex disturbs only its owner.                                  *)
LEMMA LockStep ==
    ASSUME IInv, NEW p \in Proc, Lock(p)
    PROVE  IInv'
<1>1. l[p] \in Entry
  BY DEF IInv, TypeOK, OneEntryPerHash, UsersShareEntry, Lock
<1>2. TypeOK'
  BY <1>1 DEF IInv, TypeOK, Lock
<1>3. UsersShareEntry' /\ EntriesDistinct' /\ CountIsUsers'
  BY DEF IInv, TypeOK, OneEntryPerHash, UsersShareEntry, EntriesDistinct,
         CountIsUsers, Users, Lock
<1>4. HolderOwns'
  BY <1>1, NoneAssumption DEF IInv, TypeOK, OneEntryPerHash, HolderOwns, Lock
<1> QED
  BY <1>2, <1>3, <1>4 DEF IInv, OneEntryPerHash

(* Unlocking: no other goroutine can be the holder of the same entry.         *)
LEMMA UnlockStep ==
    ASSUME IInv, NEW p \in Proc, Unlock(p)
    PROVE  IInv'
<1>1. l[p] \in Entry /\ owner[l[p]] = p
  BY DEF IInv, TypeOK, OneEntryPerHash, UsersShareEntry, HolderOwns, Unlock
<1>2. TypeOK'
  BY <1>1 DEF IInv, TypeOK, Unlock
<1>3. UsersShareEntry' /\ EntriesDistinct' /\ CountIsUsers'
  <2>1. UsersShareEntry'
    BY DEF IInv, TypeOK, OneEntryPerHash, UsersShareEntry, Unlock
  <2>2. EntriesDistinct' /\ CountIsUsers'
    BY DEF IInv, OneEntryPerHash, EntriesDistinct, CountIsUsers, Users, Unlock
  <2> QED
    BY <2>1, <2>2
<1>4. HolderOwns'
  BY <1>1 DEF IInv, TypeOK, OneEntryPerHash, HolderOwns, Unlock
<1> QED
  BY <1>2, <1>3, <1>4 DEF IInv, OneEntryPerHash

(* Counting out: the entry is deleted only by its last user.                  *)
LEMMA LeaveStep ==
    ASSUME IInv, NEW p \in Proc, Leave(p)
    PROVE  IInv'
<1> DEFINE e == l[p]
           h == hash[p]
<1>1. /\ e \in Entry /\ h \in Hash
      /\ hashLocks[h] = e
      /\ pc[p] = "leaving"
      /\ refs' = [refs EXCEPT ![e] = @ - 1]
      /\ pc' = [pc EXCEPT ![p] = "idle"]
      /\ hash' = [hash EXCEPT ![p] = None]
      /\ l' = [l EXCEPT ![p] = None]
      /\ UNCHANGED owner
  BY DEF IInv, TypeOK, OneEntryPerHash, UsersShareEntry, Leave, LeaveWhen
<1>2. /\ e # None
      /\ refs[e] = Cardinality(Users(e))
      /\ p \in Users(e)
      /\ refs[e] \in Nat \ {0}
  <2>1. e # None
    BY <1>1, NoneAssumption
  <2>2. refs[e] = Cardinality(Users(e)) /\ p \in Users(e)
    BY <1>1, <2>1 DEF IInv, OneEntryPerHash, CountIsUsers, Users
  <2> QED
    BY <2>1, <2>2, UsersFinite, FS_EmptySet
<1>3. \A f \in Entry : {q \in Proc : l'[q] = f} = Users(f) \ {p}
  BY <1>1, <1>2, NoneAssumption DEF Users, IInv, TypeOK
<1>4. Cardinality(Users(e) \ {p}) = Cardinality(Users(e)) - 1
  BY <1>2, UsersFinite, FS_RemoveElement
<1>5. CASE refs[e] = 1
  <2>1. hashLocks' = [hashLocks EXCEPT ![h] = None]
    BY <1>5 DEF Leave, LeaveWhen
  <2>2. Users(e) = {p}
    BY <1>2, <1>5, LastUser
  <2>3. \A q \in Proc : q # p => l[q] # e
    BY <2>2 DEF Users
  <2>4. TypeOK'
    BY <1>1, <1>2, <2>1 DEF IInv, TypeOK
  <2>5. UsersShareEntry'
    BY <1>1, <2>1, <2>3, NoneAssumption
       DEF IInv, TypeOK, OneEntryPerHash, UsersShareEntry
  <2>6. EntriesDistinct'
    BY <2>1 DEF IInv, TypeOK, OneEntryPerHash, EntriesDistinct
  <2>7. CountIsUsers'
    <3> SUFFICES ASSUME NEW g \in Hash, hashLocks'[g] # None
                 PROVE  /\ refs'[hashLocks'[g]] = Cardinality({q \in Proc : l'[q] = hashLocks'[g]})
                        /\ {q \in Proc : l'[q] = hashLocks'[g]} # {}
      BY DEF CountIsUsers, Users
    <3>1. g # h /\ hashLocks'[g] = hashLocks[g] /\ hashLocks[g] \in Entry
      BY <2>1 DEF IInv, TypeOK
    <3>2. hashLocks[g] # e
      BY <1>1, <3>1 DEF IInv, OneEntryPerHash, EntriesDistinct
    <3>3. {q \in Proc : l'[q] = hashLocks[g]} = Users(hashLocks[g])
      BY <1>3, <3>1, <3>2 DEF Users
    <3>4. refs'[hashLocks[g]] = refs[hashLocks[g]]
      BY <1>1, <3>1, <3>2 DEF IInv, TypeOK
    <3> QED
      BY <3>1, <3>3, <3>4 DEF IInv, OneEntryPerHash, CountIsUsers
  <2>8. HolderOwns'
    BY <1>1 DEF IInv, TypeOK, OneEntryPerHash, HolderOwns
  <2> QED
    BY <2>4, <2>5, <2>6, <2>7, <2>8 DEF IInv, OneEntryPerHash
<1>6. CASE refs[e] # 1
  <2>1. hashLocks' = hashLocks
    BY <1>6 DEF Leave, LeaveWhen
  <2>2. TypeOK'
    BY <1>1, <1>2, <2>1 DEF IInv, TypeOK
  <2>3. UsersShareEntry'
    BY <1>1, <2>1, NoneAssumption
       DEF IInv, TypeOK, OneEntryPerHash, UsersShareEntry
  <2>4. EntriesDistinct'
    BY <2>1 DEF IInv, OneEntryPerHash, EntriesDistinct
  <2>5. CountIsUsers'
    <3> SUFFICES ASSUME NEW g \in Hash, hashLocks[g] # None
                 PROVE  /\ refs'[hashLocks[g]] = Cardinality({q \in Proc : l'[q] = hashLocks[g]})
                        /\ {q \in Proc : l'[q] = hashLocks[g]} # {}
      BY <2>1 DEF CountIsUsers, Users
    <3>1. hashLocks[g] \in Entry
      BY DEF IInv, TypeOK
    <3>2. CASE g = h
      <4>1. refs'[e] = refs[e] - 1
        BY <1>1 DEF IInv, TypeOK
      <4>2. {q \in Proc : l'[q] = e} = Users(e) \ {p}
        BY <1>1, <1>3
      <4>3. /\ IsFiniteSet(Users(e) \ {p})
            /\ Cardinality(Users(e) \ {p}) # 0
        BY <1>2, <1>4, <1>6, UsersFinite, FS_RemoveElement
      <4>4. Users(e) \ {p} # {}
        BY <4>3, FS_EmptySet
      <4> QED
        BY <1>1, <1>2, <1>4, <3>2, <4>1, <4>2, <4>4
    <3>3. CASE g # h
      <4>1. hashLocks[g] # e
        BY <1>1, <3>3 DEF IInv, OneEntryPerHash, EntriesDistinct
      <4>2. {q \in Proc : l'[q] = hashLocks[g]} = Users(hashLocks[g])
        BY <1>3, <3>1, <4>1 DEF Users
      <4>3. refs'[hashLocks[g]] = refs[hashLocks[g]]
        BY <1>1, <3>1, <4>1 DEF IInv, TypeOK
      <4> QED
        BY <4>2, <4>3 DEF IInv, OneEntryPerHash, CountIsUsers
    <3> QED
      BY <3>2, <3>3
  <2>6. HolderOwns'
    BY <1>1 DEF IInv, TypeOK, OneEntryPerHash, HolderOwns
  <2> QED
    BY <2>2, <2>3, <2>4, <2>5, <2>6 DEF IInv, OneEntryPerHash
<1> QED
  BY <1>5, <1>6

(* Every step keeps the inductive invariant.                                  *)
LEMMA NextIInv == IInv /\ [Next]_vars => IInv'
<1> SUFFICES ASSUME IInv, [Next]_vars PROVE IInv'
  OBVIOUS
<1>1. CASE \E p \in Proc, h \in Hash : Enter(p, h)
  BY <1>1, JoinStep, CreateStep
<1>2. CASE \E p \in Proc : Lock(p)
  BY <1>2, LockStep
<1>3. CASE \E p \in Proc : Unlock(p)
  BY <1>3, UnlockStep
<1>4. CASE \E p \in Proc : Leave(p)
  BY <1>4, LeaveStep
<1>5. CASE UNCHANGED vars
  BY <1>5 DEF IInv, TypeOK, OneEntryPerHash, UsersShareEntry, EntriesDistinct,
              CountIsUsers, HolderOwns, Users, vars
<1> QED
  BY <1>1, <1>2, <1>3, <1>4, <1>5 DEF Next

(* The pointers, counts and owners of lockHash are always in order, so a hash *)
(* is in the map for as long as it is used (lifecycle.go:50-68).              *)
THEOREM Invariant == Spec => []IInv
BY InitIInv, NextIInv, PTL DEF Spec

(* Every variable keeps its type.                                             *)
THEOREM TypeCorrect == Spec => []TypeOK
<1>1. IInv => TypeOK
  BY DEF IInv
<1> QED
  BY <1>1, Invariant, PTL

(* The lock map never forgets an entry in use.                                *)
THEOREM OneEntry == Spec => []OneEntryPerHash
<1>1. IInv => OneEntryPerHash
  BY DEF IInv
<1> QED
  BY <1>1, Invariant, PTL

(* Two goroutines never run Add, Drop or Delete of one infohash together.     *)
THEOREM Exclusion == Spec => []MutualExclusion
<1>1. IInv => MutualExclusion
  <2> SUFFICES ASSUME IInv, NEW p \in Proc, NEW q \in Proc,
                      pc[p] = "holding", pc[q] = "holding", hash[p] = hash[q]
               PROVE  p = q
    BY DEF MutualExclusion
  <2>1. l[p] = l[q]
    BY DEF IInv, OneEntryPerHash, UsersShareEntry
  <2>2. owner[l[p]] = p /\ owner[l[q]] = q
    BY DEF IInv, OneEntryPerHash, HolderOwns
  <2> QED
    BY <2>1, <2>2
<1> QED
  BY <1>1, Invariant, PTL

(* The lock map has an entry for a hash exactly while the hash is in use.     *)
THEOREM MapBounded == Spec => []NoLeak
<1>1. IInv => NoLeak
  <2> SUFFICES ASSUME IInv, NEW h \in Hash
               PROVE  hashLocks[h] # None <=> \E p \in Proc : hash[p] = h
    BY DEF NoLeak
  <2>1. ASSUME hashLocks[h] # None
        PROVE  \E p \in Proc : hash[p] = h
    <3>1. PICK p \in Proc : l[p] = hashLocks[h]
      BY <2>1 DEF IInv, OneEntryPerHash, CountIsUsers, Users
    <3>2. hash[p] \in Hash /\ hashLocks[hash[p]] = hashLocks[h]
      BY <2>1, <3>1 DEF IInv, TypeOK, OneEntryPerHash, UsersShareEntry
    <3>3. hash[p] = h
      BY <2>1, <3>2 DEF IInv, OneEntryPerHash, EntriesDistinct
    <3> QED
      BY <3>3
  <2>2. ASSUME NEW p \in Proc, hash[p] = h
        PROVE  hashLocks[h] # None
    BY <2>2, NoneAssumption DEF IInv, TypeOK, OneEntryPerHash, UsersShareEntry
  <2> QED
    BY <2>1, <2>2
<1> QED
  BY <1>1, Invariant, PTL

-----------------------------------------------------------------------------
(* The detailed lock takes only steps of the abstract keyed mutex.            *)
LEMMA SimulationStep ==
    ASSUME IInv, IInv', [Next]_vars
    PROVE  [KM!Next]_KM!vars
<1>1. ASSUME NEW p \in Proc, NEW h \in Hash, Enter(p, h)
      PROVE  KM!Request(p, h)
  BY <1>1 DEF Enter, KM!Request, Waiting, Holding, IInv, TypeOK
<1>2. ASSUME NEW p \in Proc, Lock(p)
      PROVE  KM!Grant(p)
  <2>1. pc[p] = "blocked" /\ owner[l[p]] = None
    BY <1>2 DEF Lock
  <2>2. ASSUME NEW q \in Proc, pc[q] = "holding"
        PROVE  hash[q] # hash[p]
    <3>1. owner[l[q]] = q /\ q # None
      BY <2>2, NoneAssumption DEF IInv, OneEntryPerHash, HolderOwns
    <3>2. l[q] # l[p]
      BY <2>1, <3>1
    <3> QED
      BY <2>1, <2>2, <3>2 DEF IInv, OneEntryPerHash, UsersShareEntry
  <2> QED
    BY <1>2, <2>1, <2>2 DEF Lock, KM!Grant, Waiting, Holding, IInv, TypeOK
<1>3. ASSUME NEW p \in Proc, Unlock(p)
      PROVE  KM!Release(p)
  BY <1>3 DEF Unlock, KM!Release, Waiting, Holding, IInv, TypeOK
<1>4. ASSUME NEW p \in Proc, Leave(p)
      PROVE  UNCHANGED KM!vars
  BY <1>4 DEF Leave, LeaveWhen, KM!vars, Waiting, Holding, IInv, TypeOK
<1>5. ASSUME UNCHANGED vars
      PROVE  UNCHANGED KM!vars
  BY <1>5 DEF vars, KM!vars, Waiting, Holding
<1> QED
  BY <1>1, <1>2, <1>3, <1>4, <1>5 DEF Next, KM!Next

(* lockHash implements a mutex per infohash.                                  *)
THEOREM Implements == Spec => KM!Spec
<1>1. Init => KM!Init
  BY DEF Init, KM!Init, Waiting, Holding
<1> QED
  BY <1>1, SimulationStep, Invariant, PTL DEF Spec, KM!Spec
=============================================================================
