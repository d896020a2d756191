-------------------------------- MODULE Hub --------------------------------
(***************************************************************************)
(* internal/api/hub.go: the goroutine that fans events out to the          *)
(* WebSocket clients, and the two pumps of every client.  An event is an   *)
(* opaque value; Conns names the connections, and a name is used again     *)
(* once nothing of the connection it stood for is left.                    *)
(*                                                                         *)
(* The channels register and unreg are unbuffered: a rendezvous with       *)
(* hub.run is one step.  hub.mu only protects the map against count(),     *)
(* and hub.run holds it over a whole fan-out, which is one step too.       *)
(***************************************************************************)
EXTENDS Naturals, Sequences

CONSTANTS Conns,      \* connections
          Messages,   \* events
          SendCap,    \* capacity of client.send (32 in the code)
          OutCap      \* capacity of hub.out (64 in the code)

ASSUME CapAssumption == /\ SendCap \in Nat \ {0}
                        /\ OutCap \in Nat \ {0}

VARIABLES clients,    \* hub.clients
          out,        \* hub.out
          send,       \* client.send, the events it holds
          chan,       \* client.send, whether it exists and is open
          reader,     \* serveWS, then readPump
          writer,     \* writePump
          up          \* the connection carries bytes, as the server sees it

hubvars == <<clients, out, send, chan, reader, writer, up>>

HubInit ==
  /\ clients = {}
  /\ out = << >>
  /\ send = [c \in Conns |-> << >>]
  /\ chan = [c \in Conns |-> "none"]
  /\ reader = [c \in Conns |-> "none"]
  /\ writer = [c \in Conns |-> "none"]
  /\ up = [c \in Conns |-> FALSE]

\* serveWS: the upgrade succeeds and the client is made.
Accept(c) ==
  /\ reader[c] = "none"
  /\ reader' = [reader EXCEPT ![c] = "registering"]
  /\ chan' = [chan EXCEPT ![c] = "open"]
  /\ up' = [up EXCEPT ![c] = TRUE]
  /\ UNCHANGED <<clients, out, send, writer>>

\* h.register <- c meets run's first case; then the pumps start.
Register(c) ==
  /\ reader[c] = "registering"
  /\ clients' = clients \cup {c}
  /\ reader' = [reader EXCEPT ![c] = "reading"]
  /\ writer' = [writer EXCEPT ![c] = "running"]
  /\ UNCHANGED <<out, send, chan, up>>

\* The peer closes the connection, or the network loses it.
Hangup(c) ==
  /\ up[c]
  /\ up' = [up EXCEPT ![c] = FALSE]
  /\ UNCHANGED <<clients, out, send, chan, reader, writer>>

\* readPump: ReadMessage fails (for a silent peer, once TCP gives up).
ReadFails(c) ==
  /\ reader[c] = "reading"
  /\ ~up[c]
  /\ reader' = [reader EXCEPT ![c] = "leaving"]
  /\ UNCHANGED <<clients, out, send, chan, writer, up>>

\* Mutants of Unregister: the client stays in the map; its channel stays open.
UnregisterKept(c) ==
  /\ reader[c] = "leaving"
  /\ chan' = [chan EXCEPT ![c] = "closed"]
  /\ reader' = [reader EXCEPT ![c] = "done"]
  /\ up' = [up EXCEPT ![c] = FALSE]
  /\ UNCHANGED <<clients, out, send, writer>>

UnregisterOpen(c) ==
  /\ reader[c] = "leaving"
  /\ clients' = clients \ {c}
  /\ reader' = [reader EXCEPT ![c] = "done"]
  /\ up' = [up EXCEPT ![c] = FALSE]
  /\ UNCHANGED <<out, send, chan, writer>>

\* h.unreg <- c meets run's second case; then readPump closes the connection.
Unregister(c) ==
  /\ reader[c] = "leaving"
  /\ clients' = clients \ {c}
  /\ chan' = IF c \in clients THEN [chan EXCEPT ![c] = "closed"] ELSE chan
  /\ reader' = [reader EXCEPT ![c] = "done"]
  /\ up' = [up EXCEPT ![c] = FALSE]
  /\ UNCHANGED <<out, send, writer>>

\* hub.broadcast: an event that finds hub.out full is dropped.
Broadcast(m) ==
  /\ out' = IF Len(out) < OutCap THEN Append(out, m) ELSE out
  /\ UNCHANGED <<clients, send, chan, reader, writer, up>>

\* run's third case: every client with room gets the event.
FanOut ==
  /\ out # << >>
  /\ out' = Tail(out)
  /\ send' = [c \in Conns |-> IF c \in clients /\ Len(send[c]) < SendCap
                              THEN Append(send[c], Head(out)) ELSE send[c]]
  /\ UNCHANGED <<clients, chan, reader, writer, up>>

\* writePump: WriteJSON succeeds.  It blocks while the connection is full, so
\* an event is here until the browser takes it: what the connection holds in
\* between only makes send longer.
Write(c) ==
  /\ writer[c] = "running"
  /\ send[c] # << >>
  /\ up[c]
  /\ send' = [send EXCEPT ![c] = Tail(@)]
  /\ UNCHANGED <<clients, out, chan, reader, writer, up>>

\* writePump: WriteJSON fails, and the pump returns without unregistering.
WriteFails(c) ==
  /\ writer[c] = "running"
  /\ send[c] # << >>
  /\ ~up[c]
  /\ send' = [send EXCEPT ![c] = Tail(@)]
  /\ writer' = [writer EXCEPT ![c] = "ended"]
  /\ UNCHANGED <<clients, out, chan, reader, up>>

\* writePump: the channel is closed and drained.
WriterEnds(c) ==
  /\ writer[c] = "running"
  /\ send[c] = << >>
  /\ chan[c] = "closed"
  /\ writer' = [writer EXCEPT ![c] = "ended"]
  /\ UNCHANGED <<clients, out, send, chan, reader, up>>

\* Both pumps have returned: nothing refers to the client any more.
Collect(c) ==
  /\ reader[c] = "done" /\ writer[c] = "ended"
  /\ reader' = [reader EXCEPT ![c] = "none"]
  /\ writer' = [writer EXCEPT ![c] = "none"]
  /\ chan' = [chan EXCEPT ![c] = "none"]
  /\ send' = [send EXCEPT ![c] = << >>]
  /\ UNCHANGED <<clients, out, up>>

HubNext ==
  \/ \E c \in Conns : \/ Accept(c) \/ Register(c) \/ Hangup(c) \/ ReadFails(c)
                      \/ Unregister(c) \/ Write(c) \/ WriteFails(c)
                      \/ WriterEnds(c) \/ Collect(c)
  \/ \E m \in Messages : Broadcast(m)
  \/ FanOut

HubSpec == HubInit /\ [][HubNext]_hubvars

-----------------------------------------------------------------------------
HubTypeOK ==
  /\ clients \subseteq Conns
  /\ out \in Seq(Messages)
  /\ send \in [Conns -> Seq(Messages)]
  /\ chan \in [Conns -> {"none", "open", "closed"}]
  /\ reader \in [Conns -> {"none", "registering", "reading", "leaving", "done"}]
  /\ writer \in [Conns -> {"none", "running", "ended"}]
  /\ up \in [Conns -> BOOLEAN]

\* The hub never sends on, and never closes, a closed channel: either one
\* would panic, and the panic of hub.run ends the process (hub.go:48-66).
NoPanic == \A c \in clients : chan[c] = "open"

\* What NoPanic rests on: a client is in the map exactly while its read pump
\* has registered it and not yet taken it out, its channel is closed exactly
\* when it leaves, and no event is put in a channel afterwards.
ClientLife ==
  /\ clients = {c \in Conns : reader[c] \in {"reading", "leaving"}}
  /\ \A c \in Conns :
       /\ chan[c] = (CASE reader[c] = "none" -> "none"
                       [] reader[c] = "done" -> "closed"
                       [] OTHER -> "open")
       /\ writer[c] = "none" <=> reader[c] \in {"none", "registering"}
       /\ reader[c] \in {"none", "done"} => ~up[c]
       /\ reader[c] \in {"none", "registering"} => send[c] = << >>
=============================================================================
