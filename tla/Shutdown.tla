------------------------------ MODULE Shutdown ------------------------------
(* Engine.Close (engine.go:318-329) while goroutines of Lifecycle are still   *)
(* at work.  main waits ten seconds for the HTTP handlers and then closes the *)
(* engine whatever they are doing (main.go:73-75); the seed enforcer and the  *)
(* janitor are never stopped.                                                 *)
EXTENDS Lifecycle

VARIABLE engine     \* "up"; "emptied" once e.managed is empty; "closed" after cl.Close()

allVars == <<vars, engine>>

ShutInit == Init /\ engine = "up"

(* Mutant of CloseManagedAll: the map keeps the torrents it dropped.          *)
CloseKeepsMap == /\ engine = "up"
                 /\ engine' = "emptied"
                 /\ DropManaged({t \in Torrent : Active(t)})
                 /\ UNCHANGED <<managed, readers, keep, lock, pc, op, hash, tor>>

(* Drop every managed torrent and empty the map, in one e.mu section.         *)
CloseManagedAll == /\ engine = "up"
                   /\ engine' = "emptied"
                   /\ DropManaged({t \in Torrent : Active(t)})
                   /\ managed' = [h \in Hash |-> None]
                   /\ UNCHANGED <<readers, keep, lock, pc, op, hash, tor>>

(* cl.Close() (external): closes every torrent the client still has.  The     *)
(* program only has a moment left to live; no torrent is added any more.      *)
CloseClient == /\ engine = "emptied"
               /\ engine' = "closed"
               /\ client' = [h \in Hash |-> None]
               /\ older'  = {}
               /\ UNCHANGED <<managed, readers, keep, dropped, lock,
                              pc, op, hash, tor, panicked>>

WhileClosing == /\ Next
                /\ engine = "closed" => \A h \in Hash : client'[h] = None
                /\ UNCHANGED engine

ShutNext == WhileClosing \/ CloseManagedAll \/ CloseClient

ShutSpec == ShutInit /\ [][ShutNext]_allVars

-----------------------------------------------------------------------------
(* Up to cl.Close, dropping all torrents under the feet of whoever is adding, *)
(* dropping or streaming does no harm: the map holds live torrents only,      *)
(* every other one is in somebody's hands, and nothing was closed twice.      *)
SafeUntilClientCloses ==
    engine # "closed" => ManagedAlive /\ NoZombie /\ NoPanic
=============================================================================
