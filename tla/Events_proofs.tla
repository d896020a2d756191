---------------------------- MODULE Events_proofs ----------------------------
(***************************************************************************)
(* The hub, for every number of connections and every capacity: it never   *)
(* panics (HubSafety), whoever uses it; the pages and the server use it as *)
(* its specification says (Implementation), so that the same holds of the  *)
(* whole (Safety); a page never has two sockets, nor a page that is gone   *)
(* any (Sockets); and the lists a connection carries are in the order in   *)
(* which the engine had them (Ordering).                                   *)
(***************************************************************************)
EXTENDS Events, TLAPS

HubInv == HubTypeOK /\ ClientLife

LEMMA HubInitially == HubInit => HubInv
BY DEF HubInit, HubInv, HubTypeOK, ClientLife

\* What a step does to a queue.
LEMMA TailType == ASSUME NEW S, NEW s \in Seq(S), s # << >>
                  PROVE  Tail(s) \in Seq(S) /\ Head(s) \in S
OBVIOUS

LEMMA HubTypeStep == HubTypeOK /\ [HubNext]_hubvars => HubTypeOK'
<1> SUFFICES ASSUME HubTypeOK, [HubNext]_hubvars PROVE HubTypeOK'
  OBVIOUS
<1> USE DEF HubTypeOK
<1>1. CASE UNCHANGED hubvars
  BY <1>1 DEF hubvars
<1>2. ASSUME NEW c \in Conns, Accept(c) PROVE HubTypeOK'
  BY <1>2 DEF Accept
<1>3. ASSUME NEW c \in Conns, Register(c) PROVE HubTypeOK'
  BY <1>3 DEF Register
<1>4. ASSUME NEW c \in Conns, Hangup(c) PROVE HubTypeOK'
  BY <1>4 DEF Hangup
<1>5. ASSUME NEW c \in Conns, ReadFails(c) PROVE HubTypeOK'
  BY <1>5 DEF ReadFails
<1>6. ASSUME NEW c \in Conns, Unregister(c) PROVE HubTypeOK'
  BY <1>6 DEF Unregister
<1>7. ASSUME NEW c \in Conns, Write(c) PROVE HubTypeOK'
  <2>1. Tail(send[c]) \in Seq(Messages)
    BY <1>7, TailType DEF Write
  <2> QED
    BY <1>7, <2>1 DEF Write
<1>8. ASSUME NEW c \in Conns, WriteFails(c) PROVE HubTypeOK'
  <2>1. Tail(send[c]) \in Seq(Messages)
    BY <1>8, TailType DEF WriteFails
  <2> QED
    BY <1>8, <2>1 DEF WriteFails
<1>9. ASSUME NEW c \in Conns, WriterEnds(c) PROVE HubTypeOK'
  BY <1>9 DEF WriterEnds
<1>10. ASSUME NEW c \in Conns, Collect(c) PROVE HubTypeOK'
  BY <1>10 DEF Collect
<1>11. ASSUME NEW m \in Messages, Broadcast(m) PROVE HubTypeOK'
  BY <1>11 DEF Broadcast
<1>12. ASSUME FanOut PROVE HubTypeOK'
  <2>1. out' \in Seq(Messages) /\ Head(out) \in Messages
    BY <1>12, TailType DEF FanOut
  <2>2. \A c \in Conns : Append(send[c], Head(out)) \in Seq(Messages)
    BY <2>1
  <2>3. send' \in [Conns -> Seq(Messages)]
    BY <1>12, <2>2 DEF FanOut
  <2> QED
    BY <1>12, <2>1, <2>3 DEF FanOut
<1> QED
  BY <1>1, <1>2, <1>3, <1>4, <1>5, <1>6, <1>7, <1>8, <1>9, <1>10, <1>11, <1>12
  DEF HubNext

LEMMA ClientLifeStep == HubInv /\ [HubNext]_hubvars => ClientLife'
<1> SUFFICES ASSUME HubInv, [HubNext]_hubvars PROVE ClientLife'
  OBVIOUS
<1> USE DEF HubInv, HubTypeOK, ClientLife
<1>1. CASE UNCHANGED hubvars
  BY <1>1 DEF hubvars
<1>2. ASSUME NEW c \in Conns, Accept(c) PROVE ClientLife'
  BY <1>2 DEF Accept
<1>3. ASSUME NEW c \in Conns, Register(c) PROVE ClientLife'
  BY <1>3 DEF Register
<1>4. ASSUME NEW c \in Conns, Hangup(c) PROVE ClientLife'
  BY <1>4 DEF Hangup
<1>5. ASSUME NEW c \in Conns, ReadFails(c) PROVE ClientLife'
  BY <1>5 DEF ReadFails
<1>6. ASSUME NEW c \in Conns, Unregister(c) PROVE ClientLife'
  BY <1>6 DEF Unregister
<1>7. ASSUME NEW c \in Conns, Write(c) PROVE ClientLife'
  BY <1>7 DEF Write
<1>8. ASSUME NEW c \in Conns, WriteFails(c) PROVE ClientLife'
  BY <1>8 DEF WriteFails
<1>9. ASSUME NEW c \in Conns, WriterEnds(c) PROVE ClientLife'
  BY <1>9 DEF WriterEnds
<1>10. ASSUME NEW c \in Conns, Collect(c) PROVE ClientLife'
  BY <1>10 DEF Collect
<1>11. ASSUME NEW m \in Messages, Broadcast(m) PROVE ClientLife'
  BY <1>11 DEF Broadcast
<1>12. ASSUME FanOut PROVE ClientLife'
  <2>1. \A c \in Conns : c \notin clients => send'[c] = send[c]
    BY <1>12 DEF FanOut
  <2> QED
    BY <1>12, <2>1 DEF FanOut
<1> QED
  BY <1>1, <1>2, <1>3, <1>4, <1>5, <1>6, <1>7, <1>8, <1>9, <1>10, <1>11, <1>12
  DEF HubNext

LEMMA HubStepInv == HubInv /\ [HubNext]_hubvars => HubInv'
BY HubTypeStep, ClientLifeStep DEF HubInv

LEMMA InvNoPanic == HubInv => NoPanic
BY DEF HubInv, HubTypeOK, ClientLife, NoPanic

\* Whoever opens, breaks and closes connections and whatever is broadcast,
\* the hub never sends on a closed channel and never closes one twice
\* (hub.go:48-66).
THEOREM HubSafety == HubSpec => [](HubInv /\ NoPanic)
<1>1. HubSpec => []HubInv
  BY HubInitially, HubStepInv, PTL DEF HubSpec
<1> QED
  BY <1>1, InvNoPanic, PTL

-----------------------------------------------------------------------------
LEMMA AnnouncedIsMessage == ASSUME NEW type \in {"added", "dropped"}
                            PROVE  [type |-> type, v |-> 0] \in Messages
BY EventsAssumption DEF WsEvent

\* Every step of the server and of the pages is a step of the hub's
\* specification or leaves the hub alone: the hub's promises do not depend
\* on how connectEvents reconnects (hub.go, api.ts:208-235).
LEMMA StepIsHubStep == ASSUME TypeOK, [Next]_vars PROVE [HubNext]_hubvars
<1>1. CASE UNCHANGED vars
  BY <1>1 DEF vars, hubvars
<1>2. CASE Change \/ Tick \/ Mount \/ Unmount
  BY <1>2 DEF Change, Tick, Mount, Unmount, hubvars
<1>3. ASSUME NEW type \in {"added", "dropped"}, Announce(type)
      PROVE  HubNext
  BY <1>3, AnnouncedIsMessage DEF Announce, HubNext
<1>4. ASSUME Push PROVE HubNext
  <2>1. [type |-> "stats", v |-> loop] \in Messages
    BY <1>4, EventsAssumption DEF Push, WsEvent, TypeOK, PageTypeOK, Versions
  <2> QED
    BY <1>4, <2>1 DEF Push, HubNext
<1>5. CASE Fan
  BY <1>5 DEF Fan, HubNext
<1>6. ASSUME NEW owner \in {"live", "dead"}, Retry(owner) PROVE UNCHANGED hubvars
  BY <1>6 DEF Retry, hubvars
<1>7. ASSUME NEW c \in Conns,
             HubStep(c) \/ Lose(c) \/ Connect(c) \/ Bye(c) \/ Finish(c)
               \/ OnMessage(c) \/ Ignored(c)
      PROVE  HubNext
  BY <1>7 DEF HubStep, Lose, Connect, Bye, Finish, OnMessage, Ignored, HubNext
<1>8. ASSUME NEW c \in Conns, Refused(c) \/ SockClosed(c)
      PROVE  UNCHANGED hubvars
  BY <1>8 DEF Refused, SockClosed, hubvars
<1>9. ASSUME NEW i \in Slots, ListServed(i) \/ ListReply(i) \/ ListFails(i)
      PROVE  UNCHANGED hubvars
  BY <1>9 DEF ListServed, ListReply, ListFails, hubvars
<1> QED
  BY <1>1, <1>2, <1>3, <1>4, <1>5, <1>6, <1>7, <1>8, <1>9 DEF Next

LEMMA LastVersion == /\ Len(Script) \in Nat
                     /\ 1 \in Versions /\ 0 \in 0 .. Len(Script)
                     /\ Versions \subseteq 0 .. Len(Script)
BY EventsAssumption DEF Versions

LEMMA OneMore == ASSUME breaks \in 0 .. MaxBreaks, breaks < MaxBreaks
                 PROVE  breaks + 1 \in 0 .. MaxBreaks
BY EventsAssumption

LEMMA Initially == Init => HubInit /\ TypeOK /\ OneSocket
<1> SUFFICES ASSUME Init PROVE HubInit /\ TypeOK /\ OneSocket
  OBVIOUS
<1>1. HubInit /\ HubTypeOK
  BY HubInitially DEF Init, HubInv
<1>2. PageTypeOK
  <2>1. ver \in Versions /\ loop \in 0 .. Len(Script)
    BY LastVersion DEF Init
  <2>2. mounted \in BOOLEAN /\ shown \in 0 .. Len(Script)
    BY LastVersion DEF Init
  <2>3. sock \in [Conns -> {"unused", "connecting", "open", "closing", "closed"}]
    BY DEF Init
  <2>4. mine \in [Conns -> BOOLEAN] /\ timer \subseteq {"live", "dead"}
    BY DEF Init
  <2>5. request \in [Slots -> [at : {"free", "sent", "served"}, v : 0 .. Len(Script)]]
    BY EventsAssumption DEF Init, Free
  <2>6. breaks \in 0 .. MaxBreaks
    BY EventsAssumption DEF Init
  <2> QED
    BY <2>1, <2>2, <2>3, <2>4, <2>5, <2>6 DEF PageTypeOK
<1>3. OneSocket
  BY DEF Init, OneSocket, Watching
<1> QED
  BY <1>1, <1>2, <1>3 DEF TypeOK

\* A step keeps the types of the server's and of the pages' variables.
LEMMA PageTypeStep == ASSUME TypeOK, [Next]_vars PROVE PageTypeOK'
<1> USE LastVersion, EventsAssumption DEF PageTypeOK, TypeOK, Versions, servervars, pagevars, Slots, Free
<1>1. CASE UNCHANGED vars
  BY <1>1 DEF vars
<1>2. CASE Change
  BY <1>2 DEF Change, Versions
<1>12. CASE Tick
  BY <1>12 DEF Tick, Versions
<1>13. CASE Push \/ Fan
  BY <1>13 DEF Push, Fan
<1>3. ASSUME NEW type \in {"added", "dropped"}, Announce(type) PROVE PageTypeOK'
  BY <1>3 DEF Announce
<1>4. CASE Mount
  BY <1>4 DEF Mount, Ask, Open
<1>5. CASE Unmount
  <2>1. sock' \in [Conns -> {"unused", "connecting", "open", "closing", "closed"}]
    BY <1>5 DEF Unmount
  <2>2. mine' \in [Conns -> BOOLEAN] /\ timer' \subseteq {"live", "dead"}
    BY <1>5 DEF Unmount
  <2>3. request' \in [Slots -> [at : {"free", "sent", "served"}, v : 0 .. Len(Script)]]
    BY <1>5 DEF Unmount
  <2> QED
    BY <1>5, <2>1, <2>2, <2>3 DEF Unmount
<1>6. ASSUME NEW owner \in {"live", "dead"}, Retry(owner) PROVE PageTypeOK'
  BY <1>6 DEF Retry, Open
<1>7. ASSUME NEW c \in Conns, HubStep(c) \/ Bye(c) \/ Ignored(c)
      PROVE  PageTypeOK'
  BY <1>7 DEF HubStep, Bye, Ignored
<1>14. ASSUME NEW c \in Conns, Lose(c) PROVE PageTypeOK'
  BY <1>14, OneMore DEF Lose
<1>8. ASSUME NEW c \in Conns, Connect(c) \/ Finish(c) PROVE PageTypeOK'
  BY <1>8 DEF Connect, Finish
<1>9. ASSUME NEW c \in Conns, Refused(c) \/ SockClosed(c) PROVE PageTypeOK'
  <2>1. breaks' \in 0 .. MaxBreaks
    BY <1>9, OneMore DEF Refused, SockClosed
  <2> QED
    BY <1>9, <2>1 DEF Refused, SockClosed, Gone, Rearm
<1>10. ASSUME NEW c \in Conns, OnMessage(c) PROVE PageTypeOK'
  <2>1. Head(send[c]) \in WsEvent
    BY <1>10, TailType DEF OnMessage, Write, HubTypeOK
  <2>2. shown' \in 0 .. Len(Script)
    BY <1>10, <2>1 DEF OnMessage, Ingest, WsEvent, Versions
  <2>3. request' \in [Slots -> [at : {"free", "sent", "served"}, v : 0 .. Len(Script)]]
    BY <1>10 DEF OnMessage, Ask
  <2> QED
    BY <1>10, <2>2, <2>3 DEF OnMessage
<1>11. ASSUME NEW i \in Slots, ListServed(i) \/ ListReply(i) \/ ListFails(i)
       PROVE  PageTypeOK'
  <2>1. request[i].v \in 0 .. Len(Script) /\ ver \in 0 .. Len(Script)
    OBVIOUS
  <2> DEFINE S == [at : {"free", "sent", "served"}, v : 0 .. Len(Script)]
  <2>3. Free \in S /\ [at |-> "served", v |-> ver] \in S
    BY <2>1, LastVersion
  <2>4. request' = [request EXCEPT ![i] = Free]
          \/ request' = [request EXCEPT ![i] = [at |-> "served", v |-> ver]]
    BY <1>11 DEF ListServed, ListReply, ListFails
  <2>2. request' \in [Slots -> S]
    <3> HIDE DEF S, Free
    <3>1. request \in [Slots -> S]
      BY DEF S
    <3> QED
      BY <2>3, <2>4, <3>1
  <2> QED
    BY <1>11, <2>1, <2>2 DEF ListServed, ListReply, ListFails
<1> QED
  BY <1>1, <1>2, <1>3, <1>4, <1>5, <1>6, <1>7, <1>8, <1>9, <1>10, <1>11,
     <1>12, <1>13, <1>14 DEF Next

LEMMA TypeStep == TypeOK /\ [Next]_vars => TypeOK'
BY StepIsHubStep, HubTypeStep, PageTypeStep DEF TypeOK

\* The specification of the whole implements the hub's.
THEOREM Implementation == Spec => HubSpec
<1>1. Init => HubInit
  BY Initially
<1>2. TypeOK /\ [Next]_vars => [HubNext]_hubvars
  BY StepIsHubStep
<1> QED
  BY <1>1, <1>2, Initially, TypeStep, PTL DEF Spec, HubSpec

\* Every value has its type.
THEOREM TypeCorrect == Spec => []TypeOK
BY Initially, TypeStep, PTL DEF Spec

\* Whatever the pages do, the hub does not panic (hub.go:48-66).
THEOREM Safety == Spec => []NoPanic
BY Implementation, HubSafety, PTL

-----------------------------------------------------------------------------
\* A step of the server alone, or one that leaves the sockets as they are.
SocketsSame == UNCHANGED <<mounted, sock, mine, timer>>

LEMMA SocketStep == ASSUME TypeOK, OneSocket, [Next]_vars PROVE OneSocket'
<1> USE DEF OneSocket, Watching, TypeOK, PageTypeOK
<1>1. ASSUME SocketsSame PROVE OneSocket'
  BY <1>1 DEF SocketsSame
<1>2. ASSUME \/ UNCHANGED vars \/ Change \/ Tick \/ Push \/ Fan
             \/ \E type \in {"added", "dropped"} : Announce(type)
             \/ \E c \in Conns : HubStep(c) \/ Lose(c) \/ Bye(c) \/ Ignored(c)
                                 \/ OnMessage(c)
             \/ \E i \in Slots : ListServed(i) \/ ListReply(i) \/ ListFails(i)
      PROVE SocketsSame
  BY <1>2 DEF SocketsSame, vars, pagevars, Change, Tick, Push, Fan, Announce,
     HubStep, Lose, Bye, Ignored, OnMessage, ListServed, ListReply, ListFails
<1>3. CASE Mount
  BY <1>3 DEF Mount, Open
<1>4. CASE Unmount
  BY <1>4 DEF Unmount
<1>5. ASSUME NEW owner \in {"live", "dead"}, Retry(owner) PROVE OneSocket'
  BY <1>5 DEF Retry, Open
<1>6. ASSUME NEW c \in Conns, Connect(c) PROVE OneSocket'
  BY <1>6 DEF Connect
<1>7. ASSUME NEW c \in Conns, Refused(c) PROVE OneSocket'
  BY <1>7 DEF Refused, Gone, Rearm
<1>8. ASSUME NEW c \in Conns, SockClosed(c) PROVE OneSocket'
  BY <1>8 DEF SockClosed, Gone, Rearm
<1>9. ASSUME NEW c \in Conns, Finish(c) PROVE OneSocket'
  BY <1>9 DEF Finish
<1> QED
  BY <1>1, <1>2, <1>3, <1>4, <1>5, <1>6, <1>7, <1>8, <1>9 DEF Next

\* A page on the screen has exactly one socket, or a timer that opens it; a
\* page that is gone has none and never connects again (api.ts:208-235).
THEOREM Sockets == Spec => []OneSocket
BY Initially, TypeStep, SocketStep, PTL DEF Spec

-----------------------------------------------------------------------------
\* The stats events of s carry versions up to n, or no newer ones than those
\* of t.
UpTo(s, n) == \A i \in DOMAIN s : s[i].type = "stats" => s[i].v <= n
Precedes(s, t) ==
  \A i \in DOMAIN s : \A j \in DOMAIN t :
    s[i].type = "stats" /\ t[j].type = "stats" => s[i].v <= t[j].v

\* What each of the queues holds, and what is about to be put in one, has its
\* place between what is older and what is newer.
OrderInv ==
  /\ loop <= ver
  /\ InSequence(out) /\ UpTo(out, ver) /\ (loop # 0 => UpTo(out, loop))
  /\ \A c \in Conns : InSequence(send[c])
  /\ \A c \in clients : /\ UpTo(send[c], ver)
                        /\ loop # 0 => UpTo(send[c], loop)
                        /\ Precedes(send[c], out)

\* Nothing comes before or after an empty queue.
LEMMA EmptyOrder ==
  ASSUME NEW t, NEW n
  PROVE  InSequence(<< >>) /\ UpTo(<< >>, n) /\ Precedes(<< >>, t)
BY DEF InSequence, UpTo, Precedes

\* The oldest event is taken out of s.
LEMMA TailOrder ==
  ASSUME NEW S, NEW s \in Seq(S), s # << >>
  PROVE  /\ InSequence(s) => InSequence(Tail(s))
         /\ \A n : UpTo(s, n) => UpTo(Tail(s), n)
         /\ \A r : Precedes(r, s) => Precedes(r, Tail(s))
         /\ \A t : Precedes(s, t) => Precedes(Tail(s), t)
<1>1. /\ Len(s) \in Nat /\ DOMAIN s = 1 .. Len(s) /\ DOMAIN Tail(s) = 1 .. Len(s) - 1
      /\ \A i \in 1 .. Len(s) - 1 : Tail(s)[i] = s[i + 1] /\ i + 1 \in 1 .. Len(s)
  OBVIOUS
<1>2. InSequence(s) => InSequence(Tail(s))
  <2>1. \A i, j \in 1 .. Len(s) - 1 : i < j => i + 1 < j + 1
    OBVIOUS
  <2> QED
    BY <1>1, <2>1 DEF InSequence
<1>3. \A n : UpTo(s, n) => UpTo(Tail(s), n)
  BY <1>1 DEF UpTo
<1>4. \A r : Precedes(r, s) => Precedes(r, Tail(s))
  BY <1>1 DEF Precedes
<1>5. \A t : Precedes(s, t) => Precedes(Tail(s), t)
  BY <1>1 DEF Precedes
<1> QED
  BY <1>2, <1>3, <1>4, <1>5

\* An event is put at the end of s.
LEMMA AppendOrder ==
  ASSUME NEW S, NEW s \in Seq(S), NEW m \in S
  PROVE  /\ InSequence(s) /\ (m.type = "stats" => UpTo(s, m.v))
              => InSequence(Append(s, m))
         /\ \A n : UpTo(s, n) /\ (m.type = "stats" => m.v <= n)
              => UpTo(Append(s, m), n)
         /\ \A r : Precedes(r, s) /\ (m.type = "stats" => UpTo(r, m.v))
              => Precedes(r, Append(s, m))
         /\ \A t : Precedes(s, t) /\ Precedes(<<m>>, t)
              => Precedes(Append(s, m), t)
<1>1. /\ Len(s) \in Nat /\ DOMAIN s = 1 .. Len(s) /\ DOMAIN Append(s, m) = 1 .. Len(s) + 1
      /\ \A i \in 1 .. Len(s) : Append(s, m)[i] = s[i]
      /\ Append(s, m)[Len(s) + 1] = m
  OBVIOUS
<1>2. \A i \in 1 .. Len(s) + 1 : i \in 1 .. Len(s) \/ i = Len(s) + 1
  BY <1>1
<1>3. InSequence(s) /\ (m.type = "stats" => UpTo(s, m.v)) => InSequence(Append(s, m))
  <2>1. \A i, j \in 1 .. Len(s) + 1 :
          i < j => i \in 1 .. Len(s) /\ (j \in 1 .. Len(s) \/ j = Len(s) + 1)
    BY <1>1
  <2> QED
    BY <1>1, <2>1 DEF InSequence, UpTo
<1>4. \A n : UpTo(s, n) /\ (m.type = "stats" => m.v <= n) => UpTo(Append(s, m), n)
  BY <1>1, <1>2 DEF UpTo
<1>5. \A r : Precedes(r, s) /\ (m.type = "stats" => UpTo(r, m.v))
         => Precedes(r, Append(s, m))
  BY <1>1, <1>2 DEF Precedes, UpTo
<1>6. \A t : Precedes(s, t) /\ Precedes(<<m>>, t) => Precedes(Append(s, m), t)
  <2>1. DOMAIN <<m>> = {1} /\ <<m>>[1] = m
    OBVIOUS
  <2> QED
    BY <1>1, <1>2, <2>1 DEF Precedes
<1> QED
  BY <1>3, <1>4, <1>5, <1>6

\* The first event of a queue in order is no newer than the rest of it.
LEMMA HeadOrder ==
  ASSUME NEW S, NEW s \in Seq(S), s # << >>
  PROVE  /\ InSequence(s) => Precedes(<<Head(s)>>, Tail(s))
         /\ \A r : Precedes(r, s) /\ Head(s).type = "stats" => UpTo(r, Head(s).v)
         /\ \A n : UpTo(s, n) /\ Head(s).type = "stats" => Head(s).v <= n
<1>1. /\ Len(s) \in Nat /\ DOMAIN s = 1 .. Len(s) /\ DOMAIN Tail(s) = 1 .. Len(s) - 1
      /\ \A i \in 1 .. Len(s) - 1 : Tail(s)[i] = s[i + 1] /\ i + 1 \in 1 .. Len(s) /\ 1 < i + 1
      /\ Head(s) = s[1] /\ 1 \in 1 .. Len(s)
  OBVIOUS
<1>2. DOMAIN <<Head(s)>> = {1} /\ <<Head(s)>>[1] = Head(s)
  OBVIOUS
<1>3. InSequence(s) => Precedes(<<Head(s)>>, Tail(s))
  BY <1>1, <1>2 DEF InSequence, Precedes
<1>4. \A r : Precedes(r, s) /\ Head(s).type = "stats" => UpTo(r, Head(s).v)
  BY <1>1 DEF Precedes, UpTo
<1>5. \A n : UpTo(s, n) /\ Head(s).type = "stats" => Head(s).v <= n
  BY <1>1 DEF UpTo
<1> QED
  BY <1>3, <1>4, <1>5

\* What is up to n is up to what is newer.
LEMMA UpToMore ==
  ASSUME NEW s \in Seq(Messages), NEW n \in Nat, NEW m \in Nat, n <= m, UpTo(s, n)
  PROVE  UpTo(s, m)
<1>1. \A i \in DOMAIN s : s[i] \in WsEvent
  BY EventsAssumption
<1>2. \A e \in WsEvent : e.v \in Nat
  BY EventsAssumption DEF WsEvent, Versions
<1> QED
  BY <1>1, <1>2 DEF UpTo

\* An event joins the queue of the hub, if there is room.
LEMMA BroadcastOrder ==
  ASSUME OrderInv, HubTypeOK, ver \in Nat, NEW m \in Messages, Broadcast(m),
         ver' = ver, loop' \in {loop, 0},
         m.type = "stats" => loop # 0 /\ m.v = loop /\ loop' = 0
  PROVE  OrderInv'
<1>1. out \in Seq(Messages) /\ (out' = Append(out, m) \/ out' = out)
  BY DEF Broadcast, HubTypeOK
<1>2. send' = send /\ clients' = clients
  BY DEF Broadcast
<1>3. loop' <= ver' /\ (loop' # 0 => loop' = loop /\ m.type # "stats")
  BY DEF OrderInv
<1>4. InSequence(out') /\ UpTo(out', ver') /\ (loop' # 0 => UpTo(out', loop'))
  <2>1. InSequence(out) /\ UpTo(out, ver) /\ (loop # 0 => UpTo(out, loop)) /\ loop <= ver
    BY DEF OrderInv
  <2>2. InSequence(out')
    BY <1>1, <2>1, AppendOrder
  <2>3. UpTo(out', ver)
    BY <1>1, <2>1, AppendOrder
  <2>4. loop' # 0 => UpTo(out', loop')
    BY <1>1, <1>3, <2>1, AppendOrder
  <2> QED
    BY <2>2, <2>3, <2>4
<1>5. ASSUME NEW c \in clients
      PROVE  /\ UpTo(send[c], ver') /\ (loop' # 0 => UpTo(send[c], loop'))
             /\ Precedes(send[c], out')
  <2>1. UpTo(send[c], ver) /\ (loop # 0 => UpTo(send[c], loop)) /\ Precedes(send[c], out)
    BY DEF OrderInv
  <2>2. Precedes(send[c], out')
    BY <1>1, <2>1, AppendOrder
  <2> QED
    BY <1>3, <2>1, <2>2
<1>6. \A c \in Conns : InSequence(send[c])
  BY DEF OrderInv
<1> HIDE DEF InSequence, UpTo, Precedes
<1> QED
  BY <1>2, <1>3, <1>4, <1>5, <1>6 DEF OrderInv, InSequence, UpTo, Precedes

\* Every client with room is given the oldest event of the hub.
LEMMA FanOutOrder ==
  ASSUME OrderInv, HubTypeOK, FanOut, UNCHANGED servervars
  PROVE  OrderInv'
<1> DEFINE m == Head(out)
           t == Tail(out)
<1>1. out \in Seq(Messages) /\ out # << >> /\ out' = t /\ clients' = clients
  BY DEF FanOut, HubTypeOK
<1>2. m \in Messages
  BY <1>1, TailType
<1>3. InSequence(out) /\ UpTo(out, ver) /\ (loop # 0 => UpTo(out, loop))
  BY DEF OrderInv
<1>4. InSequence(t) /\ UpTo(t, ver) /\ (loop # 0 => UpTo(t, loop))
  BY <1>1, <1>3, TailOrder
<1>5. /\ Precedes(<<m>>, t)
      /\ m.type = "stats" => m.v <= ver /\ (loop # 0 => m.v <= loop)
  BY <1>1, <1>3, HeadOrder
<1>6. \A c \in Conns : send[c] \in Seq(Messages)
  BY DEF HubTypeOK
<1>7. \A c \in Conns : \/ send'[c] = send[c]
                       \/ c \in clients /\ send'[c] = Append(send[c], m)
  BY DEF FanOut
<1>8. clients \subseteq Conns
  BY DEF HubTypeOK
<1>9. ASSUME NEW c \in clients
      PROVE  /\ UpTo(send[c], ver) /\ (loop # 0 => UpTo(send[c], loop))
             /\ Precedes(send[c], t)
             /\ m.type = "stats" => UpTo(send[c], m.v)
  <2>1. UpTo(send[c], ver) /\ (loop # 0 => UpTo(send[c], loop)) /\ Precedes(send[c], out)
    BY DEF OrderInv
  <2> QED
    BY <1>1, <2>1, TailOrder, HeadOrder
<1> HIDE DEF m, t
<1>10. ASSUME NEW c \in Conns PROVE InSequence(send'[c])
  <2>1. InSequence(send[c])
    BY DEF OrderInv
  <2>2. CASE c \in clients /\ send'[c] = Append(send[c], m)
    BY <1>2, <1>6, <1>9, <2>1, <2>2, AppendOrder
  <2> QED
    BY <1>7, <2>1, <2>2
<1>11. ASSUME NEW c \in clients
       PROVE  /\ UpTo(send'[c], ver) /\ (loop # 0 => UpTo(send'[c], loop))
              /\ Precedes(send'[c], t)
  <2>1. CASE send'[c] = Append(send[c], m)
    <3>1. UpTo(Append(send[c], m), ver)
      BY <1>2, <1>5, <1>6, <1>8, <1>9, AppendOrder
    <3>2. loop # 0 => UpTo(Append(send[c], m), loop)
      BY <1>2, <1>5, <1>6, <1>8, <1>9, AppendOrder
    <3>3. Precedes(Append(send[c], m), t)
      BY <1>2, <1>5, <1>6, <1>8, <1>9, AppendOrder
    <3> QED
      BY <2>1, <3>1, <3>2, <3>3
  <2> QED
    BY <1>7, <1>8, <1>9, <2>1
<1>12. ver' = ver /\ loop' = loop /\ loop <= ver
  BY DEF servervars, OrderInv
<1> QED
  BY <1>1, <1>4, <1>10, <1>11, <1>12 DEF OrderInv, InSequence, UpTo, Precedes

\* Clients come with an empty channel, events are taken out of it in their
\* order, and whatever leaves the map is no longer the hub's.
LEMMA ConnectionOrder ==
  ASSUME OrderInv, HubInv, UNCHANGED servervars, NEW c \in Conns,
         \/ Accept(c) \/ Register(c) \/ Hangup(c) \/ ReadFails(c) \/ Unregister(c)
         \/ Write(c) \/ WriteFails(c) \/ WriterEnds(c) \/ Collect(c)
  PROVE  OrderInv'
<1>1. out' = out /\ ver' = ver /\ loop' = loop
  BY DEF servervars, Accept, Register, Hangup, ReadFails, Unregister, Write,
     WriteFails, WriterEnds, Collect
<1>2. \A d \in Conns : send[d] \in Seq(Messages) /\ InSequence(send[d])
  BY DEF OrderInv, HubInv, HubTypeOK
<1>3. \A d \in Conns : \/ send'[d] = send[d] \/ send'[d] = << >>
                       \/ send[d] # << >> /\ send'[d] = Tail(send[d])
  BY DEF Accept, Register, Hangup, ReadFails, Unregister, Write, WriteFails,
     WriterEnds, Collect, HubInv, HubTypeOK
<1>4. clients' \subseteq Conns
        /\ \A d \in clients' : d \in clients \/ send'[d] = << >>
  BY DEF Accept, Register, Hangup, ReadFails, Unregister, Write, WriteFails,
     WriterEnds, Collect, HubInv, HubTypeOK, ClientLife
<1>5. ASSUME NEW d \in Conns PROVE InSequence(send'[d])
  BY <1>2, <1>3, EmptyOrder, TailOrder
<1>6. ASSUME NEW d \in clients'
      PROVE  /\ UpTo(send'[d], ver) /\ (loop # 0 => UpTo(send'[d], loop))
             /\ Precedes(send'[d], out)
  <2>1. CASE send'[d] = << >>
    BY <2>1, EmptyOrder
  <2>2. CASE send'[d] # << >>
    <3>1. d \in Conns /\ d \in clients
      BY <1>4, <2>2
    <3>2. UpTo(send[d], ver) /\ (loop # 0 => UpTo(send[d], loop)) /\ Precedes(send[d], out)
      BY <3>1 DEF OrderInv
    <3>3. CASE send'[d] = send[d]
      BY <3>2, <3>3
    <3>4. CASE send[d] # << >> /\ send'[d] = Tail(send[d])
      BY <1>2, <3>1, <3>2, <3>4, TailOrder
    <3> QED
      BY <1>3, <2>2, <3>1, <3>3, <3>4
  <2> QED
    BY <2>1, <2>2
<1> QED
  BY <1>1, <1>5, <1>6 DEF OrderInv, InSequence, UpTo, Precedes

\* The list moves on, and broadcastLoop reads it.
LEMMA ListOrder ==
  ASSUME OrderInv, HubTypeOK, ver \in Nat, UNCHANGED hubvars,
         \/ ver' = ver + 1 /\ loop' = loop
         \/ ver' = ver /\ loop' \in {loop, ver},
         loop \in Nat
  PROVE  OrderInv'
<1>1. out \in Seq(Messages) /\ clients \subseteq Conns
        /\ \A c \in Conns : send[c] \in Seq(Messages)
  BY DEF HubTypeOK
<1>2. out' = out /\ clients' = clients /\ send' = send
  BY DEF hubvars
<1>3. loop' <= ver' /\ ver' \in Nat /\ ver <= ver' /\ loop' \in {loop, ver}
  BY DEF OrderInv
<1>4. UpTo(out, ver')
  BY <1>1, <1>3, UpToMore DEF OrderInv
<1>5. \A c \in clients : UpTo(send[c], ver')
  BY <1>1, <1>3, UpToMore DEF OrderInv
<1> QED
  BY <1>2, <1>3, <1>4, <1>5 DEF OrderInv, InSequence, UpTo, Precedes

\* All other steps leave the queues as they are.
LEMMA OrderStep == HubInv /\ TypeOK /\ OrderInv /\ [Next]_vars => OrderInv'
<1> SUFFICES ASSUME HubInv, TypeOK, OrderInv, [Next]_vars PROVE OrderInv'
  OBVIOUS
<1>1. ver \in Nat /\ loop \in Nat /\ HubTypeOK
  BY LastVersion DEF TypeOK, PageTypeOK, Versions
<1>2. CASE UNCHANGED <<hubvars, servervars>>
  BY <1>1, <1>2, ListOrder DEF servervars
<1>3. CASE Change \/ Tick
  BY <1>1, <1>3, ListOrder DEF Change, Tick
<1>4. ASSUME NEW type \in {"added", "dropped"}, Announce(type) PROVE OrderInv'
  BY <1>1, <1>4, AnnouncedIsMessage, BroadcastOrder DEF Announce, servervars
<1>5. CASE Push
  <2>1. [type |-> "stats", v |-> loop] \in Messages
    BY <1>5, EventsAssumption DEF Push, WsEvent, TypeOK, PageTypeOK, Versions
  <2> QED
    BY <1>1, <1>5, <2>1, BroadcastOrder DEF Push
<1>6. CASE Fan
  BY <1>1, <1>6, FanOutOrder DEF Fan
<1>7. ASSUME NEW c \in Conns,
             HubStep(c) \/ Lose(c) \/ Connect(c) \/ Bye(c) \/ Finish(c)
               \/ OnMessage(c) \/ Ignored(c)
      PROVE  OrderInv'
  BY <1>7, ConnectionOrder
  DEF HubStep, Lose, Connect, Bye, Finish, OnMessage, Ignored
<1>8. ASSUME \/ UNCHANGED vars \/ Mount \/ Unmount
             \/ \E owner \in {"live", "dead"} : Retry(owner)
             \/ \E c \in Conns : Refused(c) \/ SockClosed(c)
             \/ \E i \in Slots : ListServed(i) \/ ListReply(i) \/ ListFails(i)
      PROVE  UNCHANGED <<hubvars, servervars>>
  BY <1>8 DEF vars, Mount, Unmount, Retry, Refused, SockClosed, ListServed,
     ListReply, ListFails
<1> QED
  BY <1>2, <1>3, <1>4, <1>5, <1>6, <1>7, <1>8 DEF Next

\* Two queues in order, the second behind the first.
LEMMA ConcatOrder ==
  ASSUME NEW S, NEW s \in Seq(S), NEW t \in Seq(S),
         InSequence(s), InSequence(t), Precedes(s, t)
  PROVE  InSequence(s \o t)
<1> DEFINE u == s \o t
<1>1. /\ Len(s) \in Nat /\ DOMAIN s = 1 .. Len(s) /\ DOMAIN t = 1 .. Len(t)
      /\ Len(t) \in Nat /\ DOMAIN u = 1 .. Len(s) + Len(t)
  OBVIOUS
<1>2. ASSUME NEW i \in 1 .. Len(s) + Len(t)
      PROVE  \/ i \in 1 .. Len(s) /\ u[i] = s[i]
             \/ i > Len(s) /\ i - Len(s) \in 1 .. Len(t) /\ u[i] = t[i - Len(s)]
  OBVIOUS
<1> HIDE DEF u
<1>3. ASSUME NEW i \in 1 .. Len(s) + Len(t), NEW j \in 1 .. Len(s) + Len(t), i < j,
             u[i].type = "stats", u[j].type = "stats"
      PROVE  u[i].v <= u[j].v
  <2>1. CASE i \in 1 .. Len(s) /\ u[i] = s[i] /\ j \in 1 .. Len(s) /\ u[j] = s[j]
    BY <1>1, <1>3, <2>1 DEF InSequence
  <2>2. CASE i \in 1 .. Len(s) /\ u[i] = s[i] /\ j > Len(s)
               /\ j - Len(s) \in 1 .. Len(t) /\ u[j] = t[j - Len(s)]
    BY <1>1, <1>3, <2>2 DEF Precedes
  <2>3. CASE /\ i > Len(s) /\ i - Len(s) \in 1 .. Len(t) /\ u[i] = t[i - Len(s)]
             /\ j > Len(s) /\ j - Len(s) \in 1 .. Len(t) /\ u[j] = t[j - Len(s)]
    <3>1. i - Len(s) < j - Len(s)
      BY <1>1, <1>3
    <3> QED
      BY <1>1, <1>3, <2>3, <3>1 DEF InSequence
  <2>4. ~(i > Len(s) /\ j \in 1 .. Len(s))
    BY <1>1, <1>3
  <2> QED
    BY <1>2, <2>1, <2>2, <2>3, <2>4
<1>4. InSequence(u)
  BY <1>1, <1>3 DEF InSequence
<1> QED
  BY <1>4 DEF u

LEMMA PrecedesConcat ==
  ASSUME NEW S, NEW r \in Seq(S), NEW s \in Seq(S), NEW t,
         Precedes(r, t), Precedes(s, t)
  PROVE  Precedes(r \o s, t)
<1>1. \A i \in DOMAIN (r \o s) :
        \/ i \in DOMAIN r /\ (r \o s)[i] = r[i]
        \/ i - Len(r) \in DOMAIN s /\ (r \o s)[i] = s[i - Len(r)]
  OBVIOUS
<1> QED
  BY <1>1 DEF Precedes

LEMMA OrderedPending == ASSUME TypeOK, OrderInv PROVE InOrder
<1> SUFFICES ASSUME NEW c \in Conns PROVE InSequence(Pending(c))
  BY DEF InOrder
<1>1. out \in Seq(Messages) /\ send[c] \in Seq(Messages)
  BY DEF TypeOK, HubTypeOK
<1>2. InSequence(send[c]) /\ InSequence(out)
  BY DEF OrderInv
<1>3. CASE c \notin clients
  BY <1>2, <1>3 DEF Pending
<1>4. CASE c \in clients
  <2>1. Precedes(send[c], out)
    BY <1>4 DEF OrderInv
  <2>2. InSequence(send[c] \o out)
    BY <1>1, <1>2, <2>1, ConcatOrder
  <2>3. send[c] \o out \in Seq(Messages)
    BY <1>1
  <2>4. Held \in Seq(Messages) /\ InSequence(Held)
    <3>1. loop # 0 => [type |-> "stats", v |-> loop] \in Messages
      BY EventsAssumption DEF WsEvent, TypeOK, PageTypeOK, Versions
    <3>2. Held \in Seq(Messages)
      BY <3>1 DEF Held
    <3>3. \A i, j \in DOMAIN Held : ~(i < j)
      BY DEF Held
    <3> QED
      BY <3>2, <3>3 DEF InSequence
  <2>5. Precedes(send[c], Held) /\ Precedes(out, Held)
    <3>1. CASE loop = 0
      BY <3>1 DEF Held, Precedes
    <3>2. CASE loop # 0
      <4>1. UpTo(send[c], loop) /\ UpTo(out, loop)
        BY <1>4, <3>2 DEF OrderInv
      <4>2. DOMAIN Held = {1} /\ Held[1].v = loop
        BY <3>2 DEF Held
      <4> QED
        BY <4>1, <4>2 DEF Precedes, UpTo
    <3> QED
      BY <3>1, <3>2
  <2>6. Precedes(send[c] \o out, Held)
    BY <1>1, <2>5, PrecedesConcat
  <2>7. InSequence((send[c] \o out) \o Held)
    BY <2>2, <2>3, <2>4, <2>6, ConcatOrder
  <2> QED
    BY <1>4, <2>7 DEF Pending
<1> QED
  BY <1>3, <1>4

LEMMA OrderInitially == Init => OrderInv
<1> SUFFICES ASSUME Init PROVE OrderInv
  OBVIOUS
<1>1. out = << >> /\ clients = {} /\ \A c \in Conns : send[c] = << >>
  BY DEF Init, HubInit
<1>2. loop <= ver
  BY DEF Init
<1> QED
  BY <1>1, <1>2, EmptyOrder DEF Init, OrderInv

\* No connection ever carries an older list behind a newer one, whatever is
\* dropped for want of room, and whoever comes and goes (hub.go:59-66,
\* server.go:338-347).
THEOREM Ordering == Spec => []InOrder
<1>1. Spec => []HubInv
  BY Implementation, HubSafety, PTL
<1>2. Spec => []OrderInv
  BY <1>1, TypeCorrect, OrderInitially, OrderStep, PTL DEF Spec
<1> QED
  BY <1>2, TypeCorrect, OrderedPending, PTL
=============================================================================
