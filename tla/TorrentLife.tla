---------------------------- MODULE TorrentLife ----------------------------
(* What the engine promises about the one torrent an infohash can have in the *)
(* torrent client (lifecycle.go:7-20, README "either active or fully gone"):  *)
(* it joins, becomes active, is retired from the active set and is then       *)
(* closed, in that order.  A torrent on its way out never becomes active      *)
(* again: whoever wants the infohash back gets a new one.                     *)

CONSTANT Hash        \* infohashes

VARIABLE life        \* life[h]: "gone", "joining", "active" or "leaving"

Init == life = [h \in Hash |-> "gone"]

(* The client is given the infohash, nobody can see the torrent yet.          *)
Join(h) == /\ life[h] = "gone"
           /\ life' = [life EXCEPT ![h] = "joining"]

(* No metadata in time, rejected, or to be added again on disk.               *)
Abort(h) == /\ life[h] = "joining"
            /\ life' = [life EXCEPT ![h] = "gone"]

(* The torrent becomes active, and the active limit closes some active ones,  *)
(* the new one included when all others are busy.                             *)
Activate(h, victims) ==
    /\ life[h] = "joining"
    /\ \A v \in victims : v = h \/ life[v] = "active"
    /\ life' = [g \in Hash |-> IF g \in victims THEN "gone"
                               ELSE IF g = h    THEN "active"
                               ELSE life[g]]

(* Drop or Delete takes it out of the active set ...                          *)
Retire(h) == /\ life[h] = "active"
             /\ life' = [life EXCEPT ![h] = "leaving"]

(* ... and closes it.                                                         *)
Close(h) == /\ life[h] = "leaving"
            /\ life' = [life EXCEPT ![h] = "gone"]

Settle(h) == Abort(h) \/ (\E V \in SUBSET Hash : Activate(h, V)) \/ Close(h)

Next == \E h \in Hash : Join(h) \/ Retire(h) \/ Settle(h)

Spec == Init /\ [][Next]_life

(* Nothing stays between gone and active.                                     *)
FairSpec == Spec /\ \A h \in Hash : WF_life(Settle(h))
=============================================================================
