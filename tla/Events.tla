------------------------------- MODULE Events -------------------------------
(***************************************************************************)
(* The live list: the hub of Hub.tla fed by broadcastLoop and by the       *)
(* handlers that add and drop torrents (server.go), and read by the        *)
(* browser: connectEvents, with its reconnection (api.ts), and the effect  *)
(* of App.tsx that shows the torrents and asks for the list.               *)
(*                                                                         *)
(* The engine's list goes through the versions 1 .. Len(Script); version n *)
(* holds the torrents Script[n].  A stats event and the reply of           *)
(* GET /api/torrents carry the version the list had when List() ran.       *)
(***************************************************************************)
EXTENDS Hub

CONSTANTS Script,     \* the lists the engine goes through
          MaxLists,   \* bound on the list requests of the page in flight
          MaxBreaks   \* bound on the connections the network loses

Versions == 1 .. Len(Script)

WsEvent == [type : {"stats"}, v : Versions]
             \cup [type : {"added", "dropped"}, v : {0}]

ASSUME EventsAssumption == /\ Messages = WsEvent
                           /\ Len(Script) \in Nat \ {0}
                           /\ MaxLists \in Nat \ {0}
                           /\ MaxBreaks \in Nat

VARIABLES ver,        \* version of the engine's list
          loop,       \* version broadcastLoop is about to broadcast, or 0
          mounted,    \* App is on the screen (the session may end)
          shown,      \* version App shows, 0 for its initial empty list
          sock,       \* readyState of the WebSocket of a connection
          mine,       \* its closure is the one of the mounted App
          timer,      \* closures with a pending setTimeout(open, 2000)
          request,    \* list requests of the mounted App
          breaks      \* connections lost so far

pagevars == <<mounted, shown, sock, mine, timer, request>>
servervars == <<ver, loop>>
vars == <<hubvars, servervars, pagevars, breaks>>

Torrents(v) == IF v = 0 THEN {} ELSE Script[v]

Free == [at |-> "free", v |-> 0]
Slots == 1 .. MaxLists

Init ==
  /\ HubInit
  /\ ver = 1 /\ loop = 0
  /\ mounted = FALSE /\ shown = 0
  /\ sock = [c \in Conns |-> "unused"]
  /\ mine = [c \in Conns |-> FALSE]
  /\ timer = {}
  /\ request = [i \in Slots |-> Free]
  /\ breaks = 0

-----------------------------------------------------------------------------
(* The server.                                                             *)

\* The engine's list changes: seed enforcer, idle reaper, active limit, a
\* player's API, and the handlers that announce it afterwards.
Change ==
  /\ ver < Len(Script)
  /\ ver' = ver + 1
  /\ UNCHANGED <<hubvars, loop, pagevars, breaks>>

\* addTorrent, dropTorrent and deleteTorrent broadcast their event once the
\* engine is done, whether or not it changed anything: a torrent can be added
\* again, and one that is not there can be dropped.
Announce(type) ==
  /\ Broadcast([type |-> type, v |-> 0])
  /\ UNCHANGED <<servervars, pagevars, breaks>>

\* broadcastLoop: while somebody watches, List() runs about once a second ...
Tick ==
  /\ loop = 0
  /\ clients # {}
  /\ loop' = ver
  /\ UNCHANGED <<hubvars, ver, pagevars, breaks>>

\* Mutant of Push: it broadcasts before List() has returned.
PushEarly ==
  /\ clients # {}
  /\ Broadcast([type |-> "stats", v |-> loop])
  /\ loop' = 0
  /\ UNCHANGED <<ver, pagevars, breaks>>

\* ... and what it returned is broadcast.
Push ==
  /\ loop # 0
  /\ Broadcast([type |-> "stats", v |-> loop])
  /\ loop' = 0
  /\ UNCHANGED <<ver, pagevars, breaks>>

\* The steps of hub.run and of the pumps.
HubStep(c) ==
  /\ Register(c) \/ ReadFails(c) \/ Unregister(c)
       \/ WriteFails(c) \/ WriterEnds(c)
  /\ UNCHANGED <<servervars, pagevars, breaks>>

Fan == FanOut /\ UNCHANGED <<servervars, pagevars, breaks>>

\* The network loses a connection: both ends find out later.
Lose(c) ==
  /\ breaks < MaxBreaks
  /\ Hangup(c)
  /\ breaks' = breaks + 1
  /\ UNCHANGED <<servervars, pagevars>>

-----------------------------------------------------------------------------
(* The browser.                                                            *)

\* A closure's open(): new WebSocket.
Open(c, live) ==
  /\ sock[c] = "unused"
  /\ sock' = [sock EXCEPT ![c] = "connecting"]
  /\ mine' = [mine EXCEPT ![c] = live]

\* api.list() in a slot that is free.
Ask(i) ==
  /\ request[i] = Free
  /\ \A k \in Slots : request[k] = Free => i <= k
  /\ request' = [request EXCEPT ![i] = [at |-> "sent", v |-> 0]]

\* App's first effect: ask for the list, connect.
Mount ==
  /\ ~mounted
  /\ mounted' = TRUE
  /\ \E i \in Slots : Ask(i)
  /\ \E c \in Conns : Open(c, TRUE)
  /\ UNCHANGED <<hubvars, servervars, shown, timer, breaks>>

\* Mutant of Unmount: clearTimeout is forgotten.
UnmountArmed ==
  /\ mounted
  /\ mounted' = FALSE
  /\ shown' = 0
  /\ sock' = [c \in Conns |->
                IF mine[c] /\ sock[c] \in {"connecting", "open"}
                THEN "closing" ELSE sock[c]]
  /\ mine' = [c \in Conns |-> FALSE]
  /\ request' = [i \in Slots |-> Free]
  /\ UNCHANGED <<hubvars, servervars, timer, breaks>>

\* App goes away (logout, or a 401): the function connectEvents returned
\* closes what it has; replies that arrive later set the state of an App
\* that is gone.
Unmount ==
  /\ mounted
  /\ mounted' = FALSE
  /\ shown' = 0
  /\ timer' = timer \ {"live"}
  /\ sock' = [c \in Conns |->
                IF mine[c] /\ sock[c] \in {"connecting", "open"}
                THEN "closing" ELSE sock[c]]
  /\ mine' = [c \in Conns |-> FALSE]
  /\ request' = [i \in Slots |-> Free]
  /\ UNCHANGED <<hubvars, servervars, breaks>>

\* The timer of a closure fires.
Retry(owner) ==
  /\ owner \in timer
  /\ timer' = timer \ {owner}
  /\ \E c \in Conns : Open(c, owner = "live")
  /\ UNCHANGED <<hubvars, servervars, mounted, shown, request, breaks>>

\* onclose: only a closure that is not closed tries again.
Rearm(c) == timer' = IF mine[c] THEN timer \cup {"live"} ELSE timer

Gone(c) ==
  /\ Rearm(c)
  /\ mine' = [mine EXCEPT ![c] = FALSE]
  /\ UNCHANGED <<mounted, shown, request>>

\* The server upgrades the request, even one the page has given up.
Connect(c) ==
  /\ sock[c] \in {"connecting", "closing"}
  /\ Accept(c)
  /\ sock' = [sock EXCEPT ![c] = IF @ = "connecting" THEN "open" ELSE @]
  /\ UNCHANGED <<servervars, mounted, shown, mine, timer, request, breaks>>

\* The handshake fails: onerror, then onclose.
Refused(c) ==
  /\ sock[c] = "connecting"
  /\ breaks < MaxBreaks
  /\ breaks' = breaks + 1
  /\ sock' = [sock EXCEPT ![c] = "unused"]
  /\ Gone(c)
  /\ UNCHANGED <<hubvars, servervars>>

\* The close frame of a socket the page closed reaches the server.
Bye(c) ==
  /\ sock[c] = "closing"
  /\ Hangup(c)
  /\ UNCHANGED <<servervars, pagevars, breaks>>

\* The browser learns that the connection is gone: onclose.
SockClosed(c) ==
  /\ sock[c] \in {"open", "closing"}
  /\ ~up[c]
  /\ sock' = [sock EXCEPT ![c] = IF reader[c] = "none" THEN "unused" ELSE "closed"]
  /\ Gone(c)
  /\ UNCHANGED <<hubvars, servervars, breaks>>

Finish(c) ==
  /\ sock[c] = "closed"
  /\ Collect(c)
  /\ sock' = [sock EXCEPT ![c] = "unused"]
  /\ UNCHANGED <<servervars, mounted, shown, mine, timer, request, breaks>>

\* Mutant of Ingest: it fills an empty page only.
IngestOnce(m) == shown' = IF shown = 0 THEN m.v ELSE shown

\* ingest: the torrents are shown.  An event whose list is empty has no
\* torrents at all (omitempty), spreading undefined throws, and onmessage
\* swallows the exception.
Ingest(m) == shown' = IF Torrents(m.v) = {} THEN shown ELSE m.v

\* onmessage, and the callback of App.
OnMessage(c) ==
  /\ sock[c] = "open"
  /\ Write(c)
  /\ LET m == Head(send[c]) IN
       \/ /\ m.type = "stats" /\ mine[c]
          /\ Ingest(m) /\ UNCHANGED request
       \/ /\ m.type = "dropped" /\ mine[c]
          /\ \E i \in Slots : Ask(i)
          /\ UNCHANGED shown
       \/ /\ m.type = "added" \/ ~mine[c]
          /\ UNCHANGED <<shown, request>>
  /\ UNCHANGED <<servervars, mounted, sock, mine, timer, breaks>>

\* A socket that is not open takes what arrives and calls nobody.
Ignored(c) ==
  /\ sock[c] # "open"
  /\ Write(c)
  /\ UNCHANGED <<servervars, pagevars, breaks>>

\* GET /api/torrents: List() runs ...
ListServed(i) ==
  /\ request[i].at = "sent"
  /\ request' = [request EXCEPT ![i] = [at |-> "served", v |-> ver]]
  /\ UNCHANGED <<hubvars, servervars, mounted, shown, sock, mine, timer, breaks>>

\* ... and its reply arrives, whatever arrived before it; [] is a list.
ListReply(i) ==
  /\ request[i].at = "served"
  /\ shown' = request[i].v
  /\ request' = [request EXCEPT ![i] = Free]
  /\ UNCHANGED <<hubvars, servervars, mounted, sock, mine, timer, breaks>>

\* The request fails: .catch(() => {}).
ListFails(i) ==
  /\ request[i].at # "free"
  /\ request' = [request EXCEPT ![i] = Free]
  /\ UNCHANGED <<hubvars, servervars, mounted, shown, sock, mine, timer, breaks>>

Next ==
  \/ Change \/ Announce("added") \/ Announce("dropped") \/ Tick \/ Push \/ Fan
  \/ Mount \/ Unmount
  \/ \E owner \in {"live", "dead"} : Retry(owner)
  \/ \E c \in Conns : \/ HubStep(c) \/ Lose(c) \/ Connect(c) \/ Refused(c)
                      \/ Bye(c) \/ SockClosed(c) \/ Finish(c)
                      \/ OnMessage(c) \/ Ignored(c)
  \/ \E i \in Slots : ListServed(i) \/ ListReply(i) \/ ListFails(i)

\* Goroutines run, timers fire, and what is sent over a connection that
\* lives arrives; a request is answered or fails.  Nothing makes the list
\* change, a handler run, a user log in or out, or the network break.
\* A lost connection is noticed at both ends: the browser closes the socket,
\* and the server's TCP gives up on a peer that is silent.
Fairness ==
  /\ WF_vars(Tick) /\ WF_vars(Push) /\ WF_vars(Fan)
  /\ WF_vars(Retry("live"))
  /\ \A c \in Conns : /\ WF_vars(HubStep(c)) /\ WF_vars(Connect(c))
                      /\ WF_vars(Bye(c)) /\ WF_vars(SockClosed(c))
                      /\ WF_vars(Finish(c)) /\ WF_vars(OnMessage(c))
  /\ \A i \in Slots : /\ WF_vars(ListServed(i))
                      /\ WF_vars(ListReply(i) \/ ListFails(i))

Spec == Init /\ [][Next]_vars /\ Fairness

-----------------------------------------------------------------------------
PageTypeOK ==
  /\ ver \in Versions /\ loop \in 0 .. Len(Script)
  /\ mounted \in BOOLEAN /\ shown \in 0 .. Len(Script)
  /\ sock \in [Conns -> {"unused", "connecting", "open", "closing", "closed"}]
  /\ mine \in [Conns -> BOOLEAN]
  /\ timer \subseteq {"live", "dead"}
  /\ request \in [Slots -> [at : {"free", "sent", "served"}, v : 0 .. Len(Script)]]
  /\ breaks \in 0 .. MaxBreaks
TypeOK == HubTypeOK /\ PageTypeOK

\* While App is on the screen exactly one thing keeps it live: one socket
\* that connects or is open, or one timer that will open it.  When App is
\* gone nothing is left that listens or that would connect again
\* (connectEvents, api.ts:208-235).
Watching == {c \in Conns : sock[c] \in {"connecting", "open"}}
OneSocket ==
  /\ \A c \in Conns : mine[c] <=> c \in Watching
  /\ IF mounted
     THEN \/ timer = {"live"} /\ Watching = {}
          \/ timer = {} /\ \E c \in Conns : Watching = {c}
     ELSE timer = {} /\ Watching = {}

\* A connection never carries an older list behind a newer one: what waits
\* for the writer and the browser, then for the fan-out, and what
\* broadcastLoop holds are in the order of the lists (hub.go:59-66,
\* server.go:338-347).
InSequence(s) ==
  \A i, j \in DOMAIN s :
    i < j /\ s[i].type = "stats" /\ s[j].type = "stats" => s[i].v <= s[j].v
Held == IF loop = 0 THEN << >> ELSE <<[type |-> "stats", v |-> loop]>>
Pending(c) == IF c \in clients THEN (send[c] \o out) \o Held ELSE send[c]
InOrder == \A c \in Conns : InSequence(Pending(c))

\* The server forgets a connection that is gone: its client leaves the map
\* and both of its goroutines return (hub.go:97-115).  A write pump that
\* met an error does not unregister, and a read pump cannot see the error.
Forgotten ==
  \A c \in Conns : (reader[c] # "none" /\ ~up[c]) ~> (reader[c] = "none")

\* Handlers stop announcing: they could fill hub.out before every Push.
Quiet == <>[][~(Announce("added") \/ Announce("dropped"))]_vars

\* A page that stays on the screen ends up showing the list the engine ends
\* up with, however many events were dropped, however late a reply of
\* api.list() came, and after every reconnection; unless that list is empty
\* (App.tsx:61-75, hub.go:61-66).
CatchesUp ==
  Quiet => \A S \in {Script[n] : n \in Versions} \ {{}} :
             <>[](Torrents(ver) = S /\ mounted) => <>[](Torrents(shown) = S)

\* The same of an empty list (README.md:335: "live { type:"stats",
\* torrents:[...] }").
CatchesUpEmpty ==
  Quiet => (<>[](Torrents(ver) = {} /\ mounted) => <>[](Torrents(shown) = {}))
=============================================================================
