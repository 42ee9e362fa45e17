----------------------- MODULE WebSocketsServerProofs -----------------------
(***************************************************************************)
(* The WebSocket server, for any set of connections and any number of      *)
(* client numbers.  Its invariant has a part for each property: what       *)
(* close() has undone (QuietInv), the message each thread is putting       *)
(* together (MessageInv), and who is under which number and what the       *)
(* firmware has last heard of it (FewAlive, AlternateInv).                 *)
(***************************************************************************)
EXTENDS WebSocketsServer, FiniteSetTheorems, SequenceTheorems,
        WellFoundedInduction, TLAPS

\* Every step of the server.
WsNext ==
  \/ WsConnect \/ WsAcceptFails
  \/ \E p \in WsPeers : ThreadRuns(p) \/ PeerActs(p) \/ PeerSends(p)
  \/ WsBegin \/ WsLoop \/ CloseFlag \/ Closing \/ Orphan

WsSpec == WsInit /\ [][WsNext]_wsVars

\* An event of the queue.
WsEvents ==
  [num : Nums, type : EventTypes, peer : WsPeers, frames : Seq(Nat),
   sent : Seq(Frames)]

\* The type invariant in the parts that the actions change, with the types of
\* messages and events, which it leaves open.
ServerTyped ==
  /\ wsActive \in BOOLEAN /\ wsListening \in BOOLEAN
  /\ acceptor \in {"none", "accept", "exited"} /\ cut \subseteq WsPeers
  /\ wsCaller \in {"off", "loop", "orphan"} \cup InClose
ClientsTyped ==
  /\ at \in [WsPeers -> {"away", "gone"} \cup Alive]
  /\ num \in [WsPeers -> Nums]
  /\ clients \in [Nums -> WsPeers \cup {NoPeer}] /\ nextClient \in Nums
MessageTyped ==
  wire \in [WsPeers -> Seq(Frames)] /\ message \in [WsPeers -> Seq(Nat)]
QueueTyped ==
  /\ pending \in Seq(WsEvents)
  /\ told \in [Nums -> [type : EventTypes, peer : WsPeers \cup {NoPeer}]]
WsTyped == ServerTyped /\ ClientsTyped /\ MessageTyped /\ QueueTyped

\* Every set of numbers with an element has a least one.
LEMMA LeastExists ==
  ASSUME NEW T \in SUBSET Nat, T # {} PROVE \E n \in T : \A m \in T : n <= m
<1>1. PICK R : R = OpToRel(<, Nat)
  OBVIOUS
<1>2. IsWellFoundedOn(R, Nat)
  BY <1>1, NatLessThanWellFounded
<1>3. PICK n \in T : \A m \in T : ~(<<m, n>> \in R)
  BY <1>2, WFMin
<1>4. \A m \in T : m < n => <<m, n>> \in R
  BY <1>1 DEF OpToRel
<1>5. ASSUME NEW m \in T PROVE n <= m
  <2>1. ~(m < n)
    BY <1>3, <1>4, Zenon
  <2>2. m \in Nat /\ n \in Nat
    OBVIOUS
  <2> QED BY <2>1, <2>2
<1> QED BY <1>5

\* A number modulo the size of the space is a client number.
LEMMA Wraps ==
  /\ \A n \in Nat : Wrap(n) \in Nums
  /\ \A n \in Nums : Wrap(n) = n /\ Wrap(n + WsNums) = n
BY WsAssumption DEF Wrap, Nums

\* The number that is found is one.
LEMMA FreeNumTyped == ASSUME nextClient \in Nums PROVE FreeNum \in Nums
<1> DEFINE free == {i \in 0..(WsNums - 2) : clients[Wrap(nextClient + i)] = NoPeer}
           step == IF free = {} THEN WsNums - 1
                   ELSE CHOOSE i \in free : \A j \in free : i <= j
<1>1. CASE free = {}
  BY <1>1, Wraps, WsAssumption DEF FreeNum, Nums
<1>2. CASE free # {}
  <2>1. free \in SUBSET Nat
    BY WsAssumption
  <2>2. \E i \in free : \A j \in free : i <= j
    BY <1>2, <2>1, LeastExists
  <2>3. (CHOOSE i \in free : \A j \in free : i <= j) \in Nat
    BY <2>1, <2>2
  <2>4. FreeNum = Wrap(nextClient + (CHOOSE i \in free : \A j \in free : i <= j))
    BY <1>2 DEF FreeNum
  <2> QED BY <2>3, <2>4, Wraps DEF Nums
<1> QED BY <1>1, <1>2

\* Types at the start.
LEMMA WsStartTyped == ASSUME WsInit PROVE WsTyped
<1>1. ServerTyped
  BY DEF WsInit, ServerTyped
<1>2. ClientsTyped
  BY WsAssumption DEF WsInit, ClientsTyped, Nums
<1>3. MessageTyped
  BY DEF WsInit, MessageTyped
<1>4. QueueTyped
  BY DEF WsInit, QueueTyped, NothingTold, EventTypes
<1> QED BY <1>1, <1>2, <1>3, <1>4 DEF WsTyped

\* What a thread queues is an event, at the end of the queue.
LEMMA EventTyped ==
  ASSUME WsTyped, NEW p \in WsPeers, NEW t \in EventTypes, NEW f \in Seq(Nat),
         NEW s \in Seq(Frames), PushEvent(p, t, f, s)
  PROVE  /\ pending' \in Seq(WsEvents) /\ Len(pending') = Len(pending) + 1
         /\ \A i \in 1..Len(pending) : pending'[i] = pending[i]
         /\ pending'[Len(pending) + 1] =
              [num |-> num[p], type |-> t, peer |-> p, frames |-> f, sent |-> s]
<1> DEFINE e == [num |-> num[p], type |-> t, peer |-> p, frames |-> f, sent |-> s]
<1>1. e \in WsEvents
  BY DEF WsTyped, QueueTyped, ClientsTyped, WsEvents
<1>2. pending' = Append(pending, e) /\ pending \in Seq(WsEvents)
  BY DEF WsTyped, QueueTyped, PushEvent
<1>3. \A q \in Seq(WsEvents) : \A x \in WsEvents :
        /\ Append(q, x) \in Seq(WsEvents) /\ Len(Append(q, x)) = Len(q) + 1
        /\ \A i \in 1..Len(q) : Append(q, x)[i] = q[i]
        /\ Append(q, x)[Len(q) + 1] = x
  OBVIOUS
<1> HIDE DEF e
<1>4. /\ pending' \in Seq(WsEvents) /\ Len(pending') = Len(pending) + 1
      /\ \A i \in 1..Len(pending) : pending'[i] = pending[i]
      /\ pending'[Len(pending) + 1] = e
  BY <1>1, <1>2, <1>3
<1> QED BY <1>4 DEF e

\* The last of some places in a queue, and that there is one.
LastOf(S) == CHOOSE i \in S : \A j \in S : j <= i

LEMMA LastExists ==
  ASSUME NEW n \in Nat, NEW S \in SUBSET (1..n), S # {}
  PROVE  LastOf(S) \in S /\ \A j \in S : j <= LastOf(S)
<1> DEFINE mirror == {n - i : i \in S}
<1>1. mirror # {} /\ mirror \in SUBSET Nat
  <2>1. \A i \in S : n - i \in Nat
    OBVIOUS
  <2> QED BY <2>1
<1>2. PICK k \in mirror : \A m \in mirror : k <= m
  BY <1>1, LeastExists
<1>3. PICK i \in S : k = n - i
  BY <1>2
<1>4. \A j \in S : j <= i
  <2> SUFFICES ASSUME NEW j \in S PROVE j <= i
    OBVIOUS
  <2>1. k <= n - j
    BY <1>2
  <2> QED BY <1>3, <2>1
<1> QED BY <1>3, <1>4 DEF LastOf

\* The places in a queue of the events for a number, and the last of what the
\* callback is told of it.
MineIn(q, n) == {i \in 1..Len(q) : q[i].num = n}
ToldBy(q, last, n) ==
  IF MineIn(q, n) = {} THEN last[n]
  ELSE [type |-> q[LastOf(MineIn(q, n))].type,
        peer |-> q[LastOf(MineIn(q, n))].peer]

\* A number with events queued has a last one.
LEMMA MineHasLast ==
  ASSUME NEW q \in Seq(WsEvents), NEW n, MineIn(q, n) # {}
  PROVE  /\ LastOf(MineIn(q, n)) \in MineIn(q, n)
         /\ \A j \in MineIn(q, n) : j <= LastOf(MineIn(q, n))
<1>1. MineIn(q, n) \in SUBSET (1..Len(q)) /\ Len(q) \in Nat
  BY DEF MineIn
<1> QED BY <1>1, LastExists

\* It is the LastTold of the server.
LEMMA LastToldIs == \A n : LastTold(n) = ToldBy(pending, told, n)
BY DEF MineIn, LastOf, ToldBy, LastTold

\* Its type.
LEMMA ToldByTyped ==
  ASSUME WsTyped, NEW n \in Nums
  PROVE  ToldBy(pending, told, n)
           \in [type : EventTypes, peer : WsPeers \cup {NoPeer}]
<1>0. pending \in Seq(WsEvents)
  BY DEF WsTyped, QueueTyped
<1>1. CASE MineIn(pending, n) = {}
  BY <1>1 DEF ToldBy, WsTyped, QueueTyped
<1>2. CASE MineIn(pending, n) # {}
  <2> DEFINE e == pending[LastOf(MineIn(pending, n))]
  <2>1. e \in WsEvents
    <3>1. LastOf(MineIn(pending, n)) \in 1..Len(pending)
      BY <1>0, <1>2, MineHasLast DEF MineIn
    <3> HIDE DEF WsEvents
    <3> QED BY <1>0, <3>1
  <2>2. ToldBy(pending, told, n) = [type |-> e.type, peer |-> e.peer]
    BY <1>2 DEF ToldBy
  <2> QED BY <2>1, <2>2 DEF WsEvents
<1> QED BY <1>1, <1>2

\* With one event more, that is the last its number was told.
LEMMA ToldMore ==
  ASSUME NEW q \in Seq(WsEvents), NEW r \in Seq(WsEvents), NEW last, NEW n,
         Len(r) = Len(q) + 1, \A i \in 1..Len(q) : r[i] = q[i]
  PROVE  ToldBy(r, last, n) =
           IF r[Len(r)].num = n
           THEN [type |-> r[Len(r)].type, peer |-> r[Len(r)].peer]
           ELSE ToldBy(q, last, n)
<1>1. Len(q) \in Nat /\ Len(r) \in 1..Len(r)
  OBVIOUS
<1>2. CASE r[Len(r)].num = n
  <2>1. Len(r) \in MineIn(r, n)
    BY <1>1, <1>2 DEF MineIn
  <2>2. LastOf(MineIn(r, n)) \in 1..Len(r) /\ Len(r) <= LastOf(MineIn(r, n))
    BY <2>1, MineHasLast DEF MineIn
  <2>3. LastOf(MineIn(r, n)) = Len(r)
    BY <1>1, <2>2
  <2> QED BY <1>2, <2>1, <2>3 DEF ToldBy
<1>3. CASE r[Len(r)].num # n
  <2>1. MineIn(r, n) = MineIn(q, n)
    BY <1>1, <1>3 DEF MineIn
  <2>2. CASE MineIn(q, n) = {}
    BY <1>3, <2>1, <2>2 DEF ToldBy
  <2>3. CASE MineIn(q, n) # {}
    <3>1. LastOf(MineIn(q, n)) \in 1..Len(q)
      BY <2>3, MineHasLast DEF MineIn
    <3>2. r[LastOf(MineIn(q, n))] = q[LastOf(MineIn(q, n))]
      BY <3>1
    <3> QED BY <1>3, <2>1, <2>3, <3>2 DEF ToldBy
  <2> QED BY <2>2, <2>3
<1> QED BY <1>2, <1>3

\* The queue goes on where each number's last event left it.
Before(q, i) == {j \in 1..(i - 1) : q[j].num = q[i].num}
Alternates(q, last) ==
  \A i \in 1..Len(q) :
    Follows(q[i], IF Before(q, i) = {} THEN last[q[i].num]
                  ELSE q[LastOf(Before(q, i))])

\* It is the property.
LEMMA AlternatesIs ==
  EventsAlternate <=> (wsCaller = "loop" => Alternates(pending, told))
BY DEF EventsAlternate, Alternates, Before, LastOf

\* One event more that follows what its number was told last.
LEMMA AlternatesMore ==
  ASSUME NEW q \in Seq(WsEvents), NEW r \in Seq(WsEvents), NEW last,
         Len(r) = Len(q) + 1, \A i \in 1..Len(q) : r[i] = q[i],
         Alternates(q, last),
         Follows(r[Len(r)], ToldBy(q, last, r[Len(r)].num))
  PROVE  Alternates(r, last)
<1>0. Len(q) \in Nat
  OBVIOUS
<1> SUFFICES ASSUME NEW i \in 1..Len(r)
             PROVE  Follows(r[i], IF Before(r, i) = {} THEN last[r[i].num]
                                  ELSE r[LastOf(Before(r, i))])
  BY DEF Alternates
<1>1. CASE i \in 1..Len(q)
  <2>1. r[i] = q[i] /\ Before(r, i) = Before(q, i)
    BY <1>0, <1>1 DEF Before
  <2>2. CASE Before(q, i) = {}
    BY <1>1, <2>1, <2>2 DEF Alternates
  <2>3. CASE Before(q, i) # {}
    <3>1. Before(q, i) \in SUBSET (1..(i - 1)) /\ i - 1 \in Nat
      BY <1>1 DEF Before
    <3>2. LastOf(Before(q, i)) \in 1..(i - 1)
      BY <2>3, <3>1, LastExists
    <3>3. r[LastOf(Before(q, i))] = q[LastOf(Before(q, i))]
      BY <1>0, <1>1, <3>2
    <3> QED BY <1>1, <2>1, <2>3, <3>3 DEF Alternates
  <2> QED BY <2>2, <2>3
<1>2. CASE i = Len(r)
  <2>1. Before(r, i) = MineIn(q, r[i].num)
    BY <1>0, <1>2 DEF Before, MineIn
  <2>2. CASE MineIn(q, r[i].num) = {}
    BY <1>2, <2>1, <2>2 DEF ToldBy
  <2>3. CASE MineIn(q, r[i].num) # {}
    <3>1. LastOf(MineIn(q, r[i].num)) \in 1..Len(q)
      BY <2>3, MineHasLast DEF MineIn
    <3>2. r[LastOf(MineIn(q, r[i].num))] = q[LastOf(MineIn(q, r[i].num))]
      BY <3>1
    <3>3. Follows(r[i], [type |-> q[LastOf(MineIn(q, r[i].num))].type,
                         peer |-> q[LastOf(MineIn(q, r[i].num))].peer])
      BY <1>2, <2>3 DEF ToldBy
    <3> QED BY <2>1, <2>3, <3>2, <3>3 DEF Follows
  <2> QED BY <2>2, <2>3
<1> QED BY <1>0, <1>1, <1>2

\* A thread's step, in the parts it may change.
LEMMA ThreadTyped ==
  ASSUME WsTyped, NEW p \in WsPeers, ThreadRuns(p) \/ PeerActs(p) \/ PeerSends(p)
  PROVE  WsTyped'
<1>0. ServerTyped /\ ClientsTyped /\ MessageTyped /\ QueueTyped
  BY DEF WsTyped
<1>k. /\ UNCHANGED <<num, clients, nextClient>> /\ ClientsTyped
           /\ (\E to \in {"away", "gone"} \cup Alive : Goes(p, to)) => ClientsTyped'
      /\ UNCHANGED <<wire, message>> => MessageTyped'
      /\ UNCHANGED <<pending, told>> => QueueTyped'
      /\ FirmwareSame /\ UNCHANGED acceptor => ServerTyped'
  BY <1>0
      DEF ServerTyped, ClientsTyped, MessageTyped, QueueTyped, FirmwareSame,
          Goes
<1>m. ASSUME NEW from \in Alive, NEW to \in {"away", "gone"} \cup Alive, Moves(p, from, to)
      PROVE  ServerTyped' /\ told' = told /\ Goes(p, to)
  BY <1>0, <1>m DEF Moves, FirmwareSame, ServerTyped
<1>r. NextRead \in Alive /\ {"reading", "leaving", "joined", "removing", "shaking"} \subseteq Alive
  BY DEF NextRead, Alive
<1>e. ASSUME NEW t \in EventTypes, NEW f \in Seq(Nat), NEW s \in Seq(Frames),
             PushEvent(p, t, f, s), told' = told
      PROVE  QueueTyped'
  BY <1>0, <1>e, EventTyped DEF QueueTyped, EventTypes, Nums, WsEvents
<1>1. CASE WsAccept(p)
  <2>1. ServerTyped' /\ told' = told
    BY <1>0, <1>1 DEF WsAccept, AcceptorGoesOn, ServerTyped, FirmwareSame
  <2> QED BY <1>0, <1>1, <1>k, <1>r, <2>1 DEF WsAccept, AcceptorGoesOn, WsTyped
<1>2. CASE HandshakeFails(p) \/ ReadFails(p)
  <2>1. UNCHANGED <<num, clients, nextClient, wire, message, pending>>
    BY <1>2 DEF HandshakeFails, ReadFails
  <2>2. PICK from \in Alive, to \in {"gone"} \cup Alive : Moves(p, from, to)
    BY <1>2, <1>r DEF HandshakeFails, ReadFails
  <2> QED BY <1>0, <1>k, <1>m, <2>1, <2>2 DEF WsTyped
<1>3. CASE AddClient(p)
  <2>1. Moves(p, "shaking", "joined") /\ UNCHANGED <<wire, message, pending>>
        /\ num' = [num EXCEPT ![p] = FreeNum]
        /\ clients' = [clients EXCEPT ![FreeNum] = p]
        /\ nextClient' = Wrap(FreeNum + 1)
    BY <1>3 DEF AddClient
  <2>2. FreeNum \in Nums /\ nextClient' \in Nums
    BY <1>0, <2>1, FreeNumTyped, Wraps DEF ClientsTyped, Nums
  <2>3. at' \in [WsPeers -> {"away", "gone"} \cup Alive]
    BY <1>0, <2>1 DEF Moves, Goes, ClientsTyped, Alive
  <2>4. ClientsTyped'
    BY <1>0, <2>1, <2>2, <2>3 DEF ClientsTyped, Nums
  <2> QED BY <1>k, <1>m, <1>r, <2>1, <2>4 DEF WsTyped
<1>4. CASE PushConnected(p) \/ PushDisconnected(p)
  <2>1. UNCHANGED <<num, clients, nextClient, wire, message>>
    BY <1>4 DEF PushConnected, PushDisconnected
  <2>2. PICK from \in Alive, to \in Alive : Moves(p, from, to)
    BY <1>4, <1>r DEF PushConnected, PushDisconnected
  <2>3. PICK t \in EventTypes : PushEvent(p, t, <<>>, <<>>)
    BY <1>4 DEF PushConnected, PushDisconnected, EventTypes
  <2>4. <<>> \in Seq(Nat) /\ <<>> \in Seq(Frames)
    OBVIOUS
  <2>5. ServerTyped' /\ told' = told /\ Goes(p, to)
    BY <1>m, <2>2
  <2>6. QueueTyped'
    BY <1>e, <2>3, <2>4, <2>5
  <2> QED BY <1>0, <1>k, <2>1, <2>5, <2>6 DEF WsTyped
<1>5. CASE RemoveClient(p)
  <2>1. Moves(p, "removing", "gone")
        /\ clients' = [clients EXCEPT ![num[p]] = NoPeer]
        /\ UNCHANGED <<num, nextClient, wire, message, pending>>
    BY <1>5 DEF RemoveClient
  <2>2. at' \in [WsPeers -> {"away", "gone"} \cup Alive]
    BY <1>0, <2>1 DEF Moves, Goes, ClientsTyped
  <2>3. ClientsTyped'
    BY <1>0, <2>1, <2>2 DEF ClientsTyped, Nums
  <2> QED BY <1>k, <1>m, <1>r, <2>1, <2>3 DEF WsTyped
<1>6. ASSUME NEW frame \in Frames, Sends(p, frame),
             UNCHANGED pending \/ message' = message,
             message' \in [WsPeers -> Seq(Nat)],
             NEW to \in Alive, Moves(p, "reading", to), pending' = pending
      PROVE  WsTyped'
  <2>1. UNCHANGED <<num, clients, nextClient>>
        /\ wire' = [wire EXCEPT ![p] = Append(@, frame)]
    BY <1>6 DEF Sends
  <2>2. wire[p] \in Seq(Frames)
    BY <1>0 DEF MessageTyped
  <2>3. Append(wire[p], frame) \in Seq(Frames)
    BY <2>2
  <2>4. MessageTyped'
    BY <1>0, <1>6, <2>1, <2>3 DEF MessageTyped
  <2>5. ServerTyped' /\ told' = told /\ Goes(p, to)
    BY <1>6, <1>m, <1>r
  <2> QED BY <1>0, <1>6, <1>k, <2>1, <2>4, <2>5 DEF WsTyped
<1>g. Grown(p) \in Seq(Nat)
  <2>1. message[p] \in Seq(Nat) /\ Len(wire[p]) + 1 \in Nat
    BY <1>0 DEF MessageTyped
  <2> QED BY <2>1 DEF Grown
<1>7. CASE ReadPing(p)
  <2>1. "ping" \in Frames
    BY DEF Frames
  <2> QED BY <1>0, <1>7, <1>6, <1>r, <2>1 DEF ReadPing, MessageTyped
<1>8. ASSUME NEW frame \in Frames, ReadPart(p, frame) PROVE WsTyped'
  <2>1. message' \in [WsPeers -> Seq(Nat)]
    BY <1>0, <1>8, <1>g DEF ReadPart, MessageTyped
  <2> QED BY <1>8, <1>6, <1>r, <2>1 DEF ReadPart
<1>9. ASSUME NEW frame \in Frames, ReadBreaks(p, frame) PROVE WsTyped'
  BY <1>0, <1>9, <1>6, <1>r DEF ReadBreaks, MessageTyped
<1>10. ASSUME NEW frame \in Frames, ReadLast(p, frame) PROVE WsTyped'
  <2>1. Moves(p, "reading", NextRead) /\ UNCHANGED <<num, clients, nextClient>>
        /\ PushEvent(p, "MESSAGE", Grown(p), Append(wire[p], frame))
        /\ message' = [message EXCEPT ![p] = <<>>]
        /\ wire' = [wire EXCEPT ![p] = <<>>]
    BY <1>10 DEF ReadLast
  <2>2. wire[p] \in Seq(Frames)
    BY <1>0 DEF MessageTyped
  <2>3. Append(wire[p], frame) \in Seq(Frames)
    BY <2>2
  <2>4. ServerTyped' /\ told' = told /\ Goes(p, NextRead)
    BY <1>m, <1>r, <2>1
  <2>5. QueueTyped'
    BY <1>e, <1>g, <2>1, <2>3, <2>4 DEF EventTypes
  <2>6. MessageTyped'
    BY <1>0, <2>1 DEF MessageTyped
  <2> QED BY <1>0, <1>k, <1>r, <2>1, <2>4, <2>5, <2>6 DEF WsTyped
<1> QED BY <1>1, <1>2, <1>3, <1>4, <1>5, <1>7, <1>8, <1>9, <1>10
        DEF ThreadRuns, PeerActs, PeerSends

\* Every step keeps the types.
LEMMA WsTypeStep == ASSUME WsTyped, [WsNext]_wsVars PROVE WsTyped'
<1>0. ServerTyped /\ ClientsTyped /\ MessageTyped /\ QueueTyped
  BY DEF WsTyped
<1>k. /\ UNCHANGED <<at, num, clients, nextClient>> => ClientsTyped'
      /\ UNCHANGED <<wire, message>> => MessageTyped'
      /\ UNCHANGED <<pending, told>> => QueueTyped'
      /\ UNCHANGED <<wsActive, wsListening, acceptor, cut, wsCaller>> => ServerTyped'
  BY <1>0 DEF ServerTyped, ClientsTyped, MessageTyped, QueueTyped
<1>1. CASE WsConnect
  <2>1. at' \in [WsPeers -> {"away", "gone"} \cup Alive]
    BY <1>0, <1>1 DEF WsConnect, Goes, ClientsTyped, Alive
  <2>2. ClientsTyped'
    BY <1>0, <1>1, <2>1 DEF WsConnect, ClientsTyped
  <2> QED BY <1>1, <1>k, <2>2 DEF WsConnect, FirmwareSame, WsTyped
<1>2. CASE WsAcceptFails
  <2>1. ServerTyped'
    BY <1>0, <1>2 DEF WsAcceptFails, AcceptorGoesOn, FirmwareSame, ServerTyped
  <2> QED BY <1>2, <1>k, <2>1
      DEF WsAcceptFails, AcceptorGoesOn, FirmwareSame, WsTyped
<1>3. ASSUME NEW p \in WsPeers, ThreadRuns(p) \/ PeerActs(p) \/ PeerSends(p)
      PROVE  WsTyped'
  BY <1>3, ThreadTyped
<1>4. CASE WsBegin
  <2>1. ServerTyped'
    BY <1>0, <1>4 DEF WsBegin, CallerGoes, ServerTyped
  <2>2. QueueTyped'
    BY <1>0, <1>4 DEF WsBegin, QueueTyped, NothingTold, EventTypes
  <2>3. ClientsTyped'
    BY <1>0, <1>4, WsAssumption DEF WsBegin, CallerGoes, ClientsTyped, Nums
  <2> QED BY <1>4, <1>k, <2>1, <2>2, <2>3 DEF WsBegin, CallerGoes, WsTyped
<1>5. CASE WsLoop
  <2>1. told' = [n \in Nums |-> LastTold(n)] /\ pending' = <<>>
    BY <1>5 DEF WsLoop
  <2>2. told' \in [Nums -> [type : EventTypes, peer : WsPeers \cup {NoPeer}]]
    BY <2>1, ToldByTyped, LastToldIs
  <2>3. QueueTyped'
    BY <2>1, <2>2 DEF QueueTyped, EventTypes, Nums, WsEvents
  <2> QED BY <1>5, <1>k, <2>3 DEF WsLoop, CallerGoes, WsTyped
<1>6. CASE CloseFlag \/ Orphan \/ CloseShut \/ CloseJoinAccept
  <2>1. ServerTyped'
    BY <1>0, <1>6
        DEF CloseFlag, Orphan, CloseShut, CloseJoinAccept, CallerGoes,
       ServerTyped, InClose, ClientsTyped
  <2> QED BY <1>6, <1>k, <2>1
          DEF CloseFlag, Orphan, CloseShut, CloseJoinAccept, CallerGoes, WsTyped
<1>7. CASE CloseUnlisten
  <2>1. ServerTyped'
    BY <1>0, <1>7 DEF CloseUnlisten, CallerGoes, ServerTyped, InClose
  <2>2. ClientsTyped'
    BY <1>0, <1>7 DEF CloseUnlisten, CallerGoes, ClientsTyped
  <2> QED BY <1>7, <1>k, <2>1, <2>2 DEF CloseUnlisten, CallerGoes, WsTyped
<1>8. CASE CloseClear
  <2>1. ServerTyped'
    BY <1>0, <1>8 DEF CloseClear, CallerGoes, ServerTyped, InClose
  <2>2. ClientsTyped'
    BY <1>0, <1>8 DEF CloseClear, CallerGoes, ClientsTyped
  <2> QED BY <1>8, <1>k, <2>1, <2>2 DEF CloseClear, CallerGoes, WsTyped
<1>9. CASE CloseJoinClients
  <2>1. ServerTyped'
    BY <1>0, <1>9 DEF CloseJoinClients, CallerGoes, ServerTyped, InClose
  <2>2. QueueTyped'
    BY <1>0, <1>9 DEF CloseJoinClients, QueueTyped
  <2> QED BY <1>9, <1>k, <2>1, <2>2 DEF CloseJoinClients, CallerGoes, WsTyped
<1>10. CASE UNCHANGED wsVars
  BY <1>10, <1>k DEF wsVars, WsTyped
<1> QED BY <1>1, <1>2, <1>3, <1>4, <1>5, <1>6, <1>7, <1>8, <1>9, <1>10
        DEF WsNext, Closing

\* Its thread has a number: the connection is a client.
HasNum == {"joined", "reading", "leaving", "removing"}

\* What close() has undone so far stays undone, and nobody but a client is
\* among the clients, each under its own number.
QuietInv ==
  /\ wsCaller \in {"shut", "clear", "joinAccept", "joinClients", "off"} =>
       ~wsListening
  /\ ~wsListening => \A p \in WsPeers : at[p] # "knocking"
  /\ wsCaller = "joinClients" => acceptor = "exited"
  /\ wsCaller = "off" =>
       /\ acceptor \in {"none", "exited"} /\ pending = <<>>
       /\ \A p \in WsPeers : at[p] \in {"away", "gone"}
  /\ \A n \in Nums : clients[n] # NoPeer =>
       at[clients[n]] \in HasNum /\ num[clients[n]] = n

\* So close() leaves nothing behind.
LEMMA QuietImplies == WsTyped /\ QuietInv => ClosedIsQuiet
BY DEF WsTyped, ClientsTyped, QuietInv, ClosedIsQuiet, HasNum

\* A server that was never begun is quiet.
LEMMA QuietStart == WsInit => QuietInv
BY DEF WsInit, QuietInv

\* A step of a connection's thread, seen from close(): the thread goes from one
\* place to another, and a number is taken or given back on the way.
ThreadMoves(p) ==
  /\ FirmwareSame /\ acceptor' \in {acceptor, "exited"}
  /\ at[p] \in Alive
  /\ at' = [at EXCEPT ![p] = at'[p]] /\ at'[p] # "knocking"
  /\ at[p] \in HasNum \/ (at[p] = "shaking" /\ at'[p] \in {"joined", "gone"})
     \/ (at[p] = "knocking" /\ wsListening)
  /\ at[p] \notin HasNum /\ at'[p] \notin HasNum =>
       UNCHANGED <<num, clients, nextClient, pending>>
  /\ at[p] \in HasNum /\ at'[p] \in HasNum =>
       UNCHANGED <<num, clients, nextClient>>
  /\ at[p] \notin HasNum /\ at'[p] \in HasNum =>
       /\ AddClient(p) /\ pending' = pending
  /\ at[p] \in HasNum /\ at'[p] \notin HasNum => RemoveClient(p)

\* Every step of a thread is such a move.
LEMMA ThreadStepMoves ==
  ASSUME WsTyped, NEW p \in WsPeers, ThreadRuns(p) \/ PeerActs(p) \/ PeerSends(p)
  PROVE  ThreadMoves(p)
<1>0. at \in [WsPeers -> {"away", "gone"} \cup Alive]
  BY DEF WsTyped, ClientsTyped
<1>m. ASSUME NEW from, NEW to, Moves(p, from, to)
      PROVE  /\ FirmwareSame /\ acceptor' = acceptor
             /\ at[p] = from /\ at'[p] = to /\ at' = [at EXCEPT ![p] = at'[p]]
  BY <1>0, <1>m DEF Moves, Goes
<1>r. NextRead \in {"reading", "leaving"}
  BY DEF NextRead
<1>1. CASE WsAccept(p)
  BY <1>0, <1>1
      DEF WsAccept, AcceptorGoesOn, Goes, FirmwareSame, ThreadMoves, HasNum,
          Alive
<1>2. CASE HandshakeFails(p)
  <2>1. Moves(p, "shaking", "gone")
        /\ UNCHANGED <<num, clients, nextClient, pending>>
    BY <1>2 DEF HandshakeFails
  <2> QED BY <1>m, <2>1 DEF ThreadMoves, HasNum, Alive
<1>3. CASE AddClient(p)
  <2>1. Moves(p, "shaking", "joined") /\ pending' = pending
    BY <1>3 DEF AddClient
  <2> QED BY <1>3, <1>m, <2>1 DEF ThreadMoves, HasNum, Alive
<1>4. CASE RemoveClient(p)
  <2>1. Moves(p, "removing", "gone")
    BY <1>4 DEF RemoveClient
  <2> QED BY <1>4, <1>m, <2>1 DEF ThreadMoves, HasNum, Alive
<1>5. CASE PushConnected(p) \/ PushDisconnected(p) \/ ReadFails(p) \/ PeerSends(p)
  <2>1. UNCHANGED <<num, clients, nextClient>>
    BY <1>5
        DEF PushConnected, PushDisconnected, ReadFails, PeerSends, ReadPing,
       ReadPart, ReadLast, ReadBreaks, Sends
  <2>2. PICK from \in HasNum, to \in HasNum : Moves(p, from, to)
    <3>1. {"reading", "leaving", "joined", "removing"} \subseteq HasNum
      BY DEF HasNum
    <3> QED BY <1>5, <1>r, <3>1
            DEF PushConnected, PushDisconnected, ReadFails, PeerSends, ReadPing,
                ReadPart, ReadLast, ReadBreaks
  <2> QED BY <1>m, <2>1, <2>2 DEF ThreadMoves, HasNum, Alive
<1> QED BY <1>1, <1>2, <1>3, <1>4, <1>5 DEF ThreadRuns, PeerActs

\* A thread's step undoes nothing of close(),
LEMMA QuietThread ==
  ASSUME WsTyped, QuietInv, NEW p \in WsPeers, ThreadMoves(p)
  PROVE  QuietInv'
<1>0. ClientsTyped
  BY DEF WsTyped
<1>1. UNCHANGED <<wsListening, wsCaller>> /\ acceptor' \in {acceptor, "exited"}
  BY DEF ThreadMoves, FirmwareSame
<1>2. /\ \A q \in WsPeers : q # p => at'[q] = at[q]
      /\ at[p] \in Alive /\ at'[p] # "knocking"
  BY <1>0 DEF ThreadMoves, ClientsTyped
<1>3. wsCaller # "off"
  BY <1>2 DEF QuietInv, Alive
<1>4. \A n \in Nums : clients'[n] # NoPeer =>
        at'[clients'[n]] \in HasNum /\ num'[clients'[n]] = n
  <2>1. CASE UNCHANGED <<num, clients>> /\ (at[p] \in HasNum <=> at'[p] \in HasNum)
    BY <1>0, <1>2, <2>1 DEF QuietInv, ClientsTyped
  <2>2. CASE AddClient(p) /\ at'[p] \in HasNum
    <3>1. FreeNum \in Nums
      BY <1>0, FreeNumTyped DEF ClientsTyped
    <3>2. at[p] = "shaking" /\ num' = [num EXCEPT ![p] = FreeNum]
          /\ clients' = [clients EXCEPT ![FreeNum] = p]
      BY <2>2 DEF AddClient, Moves
    <3>3. \A n \in Nums : clients[n] # p
      BY <3>2, PeerAssumption DEF QuietInv, HasNum
    <3> QED BY <1>0, <1>2, <2>2, <3>1, <3>2, <3>3 DEF QuietInv, ClientsTyped
  <2>3. CASE RemoveClient(p)
    <3>1. num' = num /\ clients' = [clients EXCEPT ![num[p]] = NoPeer]
      BY <2>3 DEF RemoveClient
    <3>2. \A n \in Nums : clients'[n] # NoPeer => clients'[n] = clients[n] /\ n # num[p]
      BY <1>0, <3>1 DEF ClientsTyped
    <3> QED BY <1>0, <1>2, <3>1, <3>2 DEF QuietInv, ClientsTyped
  <2> QED BY <2>1, <2>2, <2>3 DEF ThreadMoves
<1> QED BY <1>1, <1>2, <1>3, <1>4 DEF QuietInv

\* nor does any other.
LEMMA QuietStep == ASSUME WsTyped, QuietInv, [WsNext]_wsVars PROVE QuietInv'
<1>0. ClientsTyped /\ ServerTyped
  BY DEF WsTyped
<1>c. UNCHANGED <<at, num, clients>> =>
        (\A n \in Nums : clients'[n] # NoPeer =>
           at'[clients'[n]] \in HasNum /\ num'[clients'[n]] = n)
  BY DEF QuietInv
<1>1. CASE WsConnect
  <2>1. PICK p \in WsPeers : at[p] = "away" /\ Goes(p, "knocking")
    BY <1>1 DEF WsConnect
  <2>2. wsListening /\ wsListening' /\ wsCaller' = wsCaller
        /\ UNCHANGED <<acceptor, num, clients>>
    BY <1>1 DEF WsConnect, FirmwareSame
  <2>3. \A n \in Nums : clients[n] # NoPeer => clients[n] \in WsPeers /\ clients[n] # p
    BY <1>0, <2>1 DEF QuietInv, HasNum, ClientsTyped
  <2>4. \A q \in WsPeers : q # p => at'[q] = at[q]
    BY <1>0, <2>1 DEF Goes, ClientsTyped
  <2> QED BY <2>2, <2>3, <2>4 DEF QuietInv
<1>2. CASE WsAcceptFails
  BY <1>2, <1>c DEF WsAcceptFails, AcceptorGoesOn, FirmwareSame, QuietInv
<1>3. ASSUME NEW p \in WsPeers, ThreadRuns(p) \/ PeerActs(p) \/ PeerSends(p)
      PROVE  QuietInv'
  BY <1>3, ThreadStepMoves, QuietThread
<1>4. CASE WsBegin
  BY <1>4, <1>c DEF WsBegin, CallerGoes, QuietInv
<1>5. CASE WsLoop \/ CloseFlag \/ Orphan \/ CloseShut \/ CloseJoinAccept
  BY <1>5, <1>c
      DEF WsLoop, CloseFlag, Orphan, CloseShut, CloseJoinAccept, CallerGoes,
     QuietInv
<1>6. CASE CloseUnlisten
  <2>1. /\ \A p \in WsPeers : at'[p] # "knocking"
        /\ \A p \in WsPeers : at[p] \in HasNum => at'[p] = at[p]
    BY <1>6 DEF CloseUnlisten, HasNum
  <2>2. UNCHANGED <<num, clients>> /\ wsCaller' = "shut" /\ ~wsListening'
    BY <1>6 DEF CloseUnlisten, CallerGoes
  <2>3. \A n \in Nums : clients[n] # NoPeer => clients[n] \in WsPeers
    BY <1>0 DEF ClientsTyped
  <2> QED BY <2>1, <2>2, <2>3 DEF QuietInv
<1>7. CASE CloseClear
  BY <1>7 DEF CloseClear, CallerGoes, QuietInv
<1>8. CASE CloseJoinClients
  BY <1>8, <1>c DEF CloseJoinClients, CallerGoes, QuietInv
<1>9. CASE UNCHANGED wsVars
  BY <1>9 DEF wsVars, QuietInv
<1> QED BY <1>1, <1>2, <1>3, <1>4, <1>5, <1>6, <1>7, <1>8, <1>9
        DEF WsNext, Closing

\* The message so far, of a peer that may go on sending: it starts with a data
\* frame, has no end yet, and is all that was sent but the control frames.
Part(m, sent) ==
  /\ m # <<>> => Begins(sent[m[1]])
  /\ \A i \in 2..Len(m) : Continues(sent[m[i]]) /\ m[i - 1] < m[i]
  /\ \A i \in 1..Len(m) : ~Ends(sent[m[i]])
  /\ \A place \in 1..Len(sent) :
       sent[place] = "ping" \/ \E i \in 1..Len(m) : m[i] = place

InWire(m, sent) == \A i \in 1..Len(m) : m[i] \in 1..Len(sent)

Sending == {"away", "knocking", "shaking", "joined", "reading"}

MessageInv ==
  /\ \A p \in WsPeers : InWire(message[p], wire[p])
  /\ \A p \in WsPeers : at[p] \in Sending => Part(message[p], wire[p])
  /\ MessagesWhole

\* What a frame does to the message: a ping nothing, a part that fits prolongs
\* it, a last part makes it whole.
LEMMA FrameRead ==
  ASSUME NEW sent \in Seq(Frames), NEW m \in Seq(Nat), InWire(m, sent),
         NEW frame \in Frames
  PROVE  LET s == Append(sent, frame)
             g == Append(m, Len(sent) + 1)
         IN  /\ s \in Seq(Frames) /\ InWire(m, s) /\ InWire(g, s)
             /\ Part(m, sent) /\ frame = "ping" => Part(m, s)
             /\ Part(m, sent) /\ (Begins(frame) <=> m = <<>>)
                  /\ (Begins(frame) \/ Continues(frame)) =>
                  IF Ends(frame) THEN IsWholeMessage(g, s) ELSE Part(g, s)
<1> DEFINE s == Append(sent, frame)
           g == Append(m, Len(sent) + 1)
<1>1. /\ s \in Seq(Frames) /\ Len(s) = Len(sent) + 1 /\ s[Len(s)] = frame
      /\ \A i \in 1..Len(sent) : s[i] = sent[i]
  BY AppendProperties
<1>2. Len(sent) \in Nat /\ Len(m) \in Nat /\ Len(sent) + 1 \in Nat
  OBVIOUS
<1>3. /\ g \in Seq(Nat) /\ Len(g) = Len(m) + 1 /\ g[Len(g)] = Len(sent) + 1
      /\ g # <<>> /\ \A i \in 1..Len(m) : g[i] = m[i]
  BY <1>2, AppendProperties
<1>4. (m = <<>>) <=> (Len(m) = 0)
  OBVIOUS
<1> HIDE DEF s, g
<1>5. InWire(m, s)
  BY <1>1, <1>2 DEF InWire
<1>6. InWire(g, s)
  <2>1. \A i \in 1..Len(m) : g[i] \in 1..Len(s)
    BY <1>3, <1>5 DEF InWire
  <2>2. g[Len(g)] \in 1..Len(s)
    BY <1>1, <1>2, <1>3
  <2> QED BY <1>2, <1>3, <2>1, <2>2 DEF InWire
<1>7. \A i \in 1..Len(m) : s[m[i]] = sent[m[i]] /\ m[i] \in 1..Len(sent)
  BY <1>1 DEF InWire
<1>8. ASSUME Part(m, sent), frame = "ping" PROVE Part(m, s)
  <2>1. m # <<>> => Begins(s[m[1]])
    <3>1. m # <<>> => 1 \in 1..Len(m)
      BY <1>2, <1>4
    <3> QED BY <3>1, <1>7, <1>8 DEF Part
  <2>2. \A i \in 2..Len(m) : Continues(s[m[i]]) /\ m[i - 1] < m[i]
    BY <1>7, <1>8 DEF Part
  <2>3. \A i \in 1..Len(m) : ~Ends(s[m[i]])
    BY <1>7, <1>8 DEF Part
  <2>4. \A place \in 1..Len(s) : s[place] = "ping" \/ \E i \in 1..Len(m) : m[i] = place
    BY <1>1, <1>2, <1>8 DEF Part
  <2> QED BY <2>1, <2>2, <2>3, <2>4 DEF Part
<1>9. ASSUME Part(m, sent), Begins(frame) <=> m = <<>>, Begins(frame) \/ Continues(frame)
      PROVE  IF Ends(frame) THEN IsWholeMessage(g, s) ELSE Part(g, s)
  <2>1. Begins(s[g[1]])
    <3>1. CASE m = <<>>
      BY <3>1, <1>1, <1>2, <1>3, <1>4, <1>9
    <3>2. CASE m # <<>>
      <4>1. 1 \in 1..Len(m)
        BY <3>2, <1>2, <1>4
      <4> QED BY <3>2, <4>1, <1>3, <1>7, <1>9 DEF Part
    <3> QED BY <3>1, <3>2
  <2>2. \A i \in 2..Len(g) : Continues(s[g[i]]) /\ g[i - 1] < g[i]
    <3> SUFFICES ASSUME NEW i \in 2..Len(g)
                 PROVE  Continues(s[g[i]]) /\ g[i - 1] < g[i]
      OBVIOUS
    <3>1. CASE i \in 2..Len(m)
      <4>1. i \in 1..Len(m) /\ i - 1 \in 1..Len(m)
        BY <3>1, <1>2
      <4> QED BY <3>1, <4>1, <1>3, <1>7, <1>9 DEF Part
    <3>2. CASE i = Len(g)
      <4>1. Len(m) \in 1..Len(m) /\ i - 1 = Len(m) /\ m # <<>>
        BY <3>2, <1>2, <1>3, <1>4
      <4>2. g[i - 1] \in 1..Len(sent) /\ g[i] = Len(sent) + 1
        BY <3>2, <4>1, <1>3, <1>7
      <4>3. s[g[i]] = frame
        BY <4>2, <1>1
      <4> QED BY <4>1, <4>2, <4>3, <1>2, <1>9
    <3> QED BY <3>1, <3>2, <1>2, <1>3
  <2>3. \A i \in 1..Len(m) : ~Ends(s[g[i]])
    BY <1>3, <1>7, <1>9 DEF Part
  <2>4. \A place \in 1..Len(s) : s[place] = "ping" \/ \E i \in 1..Len(g) : g[i] = place
    <3> SUFFICES ASSUME NEW place \in 1..Len(s)
                 PROVE  s[place] = "ping" \/ \E i \in 1..Len(g) : g[i] = place
      OBVIOUS
    <3>1. CASE place \in 1..Len(sent)
      <4>1. CASE sent[place] = "ping"
        BY <3>1, <4>1, <1>1
      <4>2. ASSUME NEW i \in 1..Len(m), m[i] = place
            PROVE  i \in 1..Len(g) /\ g[i] = place
        BY <4>2, <1>2, <1>3
      <4> QED BY <3>1, <4>1, <4>2, <1>9 DEF Part
    <3>2. CASE place = Len(sent) + 1
      <4>1. Len(g) \in 1..Len(g)
        BY <1>2, <1>3
      <4> QED BY <3>2, <4>1, <1>3
    <3> QED BY <3>1, <3>2, <1>1, <1>2
  <2>5. Len(g) - 1 = Len(m)
    BY <1>2, <1>3
  <2>6. s[g[Len(g)]] = frame
    BY <1>1, <1>3
  <2>7. CASE Ends(frame)
    BY <2>1, <2>2, <2>3, <2>4, <2>5, <2>6, <2>7 DEF IsWholeMessage
  <2>8. CASE ~Ends(frame)
    <3>1. \A i \in 1..Len(g) : ~Ends(s[g[i]])
      BY <2>3, <2>6, <2>8, <1>2, <1>3
    <3> QED BY <2>1, <2>2, <2>4, <2>8, <3>1 DEF Part
  <2> QED BY <2>7, <2>8
<1> QED BY <1>1, <1>5, <1>6, <1>8, <1>9 DEF s, g

\* Nothing was sent yet.
LEMMA MessageStart == ASSUME WsInit PROVE MessageInv
BY DEF WsInit, MessageInv, InWire, Part, MessagesWhole

\* An event that is no message, or a whole one, joins the queue.
LEMMA EventWhole ==
  ASSUME WsTyped, MessagesWhole, NEW p \in WsPeers, NEW t \in EventTypes,
         NEW f \in Seq(Nat), NEW s \in Seq(Frames), PushEvent(p, t, f, s),
         t = "MESSAGE" => IsWholeMessage(f, s)
  PROVE  MessagesWhole'
<1> DEFINE e == [num |-> num[p], type |-> t, peer |-> p, frames |-> f, sent |-> s]
<1>1. /\ Len(pending') = Len(pending) + 1 /\ Len(pending) \in Nat
      /\ \A i \in 1..Len(pending) : pending'[i] = pending[i]
      /\ pending'[Len(pending) + 1] = e
  BY EventTyped DEF WsTyped, QueueTyped
<1>2. SUFFICES ASSUME NEW i \in 1..Len(pending'), pending'[i].type = "MESSAGE"
               PROVE  IsWholeMessage(pending'[i].frames, pending'[i].sent)
  BY DEF MessagesWhole, IsWholeMessage
<1>3. CASE i \in 1..Len(pending)
  BY <1>1, <1>2, <1>3 DEF MessagesWhole
<1>4. CASE i = Len(pending) + 1
  <2>1. e.type = t /\ e.frames = f /\ e.sent = s
    OBVIOUS
  <2> QED BY <1>1, <1>2, <1>4, <2>1
<1> QED BY <1>1, <1>3, <1>4

\* A thread reads its own peer's frames only.
LEMMA MessageThread ==
  ASSUME WsTyped, MessageInv, NEW p \in WsPeers,
         ThreadRuns(p) \/ PeerActs(p) \/ PeerSends(p)
  PROVE  MessageInv'
<1>0. ClientsTyped /\ MessageTyped /\ QueueTyped
  BY DEF WsTyped
<1>t. message[p] \in Seq(Nat) /\ wire[p] \in Seq(Frames)
  BY <1>0 DEF MessageTyped
<1>m. ASSUME NEW from, NEW to, Moves(p, from, to)
     
            PROVE  at[p] = from /\ at'[p] = to /\ \A q \in WsPeers : q # p => at'[q] = at[q]
  BY <1>0, <1>m DEF Moves, Goes, ClientsTyped
<1>1. ASSUME UNCHANGED <<wire, message>>, MessagesWhole',
             NEW from, NEW to, Moves(p, from, to), to \in Sending => from \in Sending
      PROVE  MessageInv'
  BY <1>1, <1>m DEF MessageInv
<1>2. CASE WsAccept(p)
  <2>1. UNCHANGED <<wire, message, pending>> /\ at[p] \in Sending
        /\ \A q \in WsPeers : q # p => at'[q] = at[q]
    BY <1>0, <1>2 DEF WsAccept, AcceptorGoesOn, Goes, ClientsTyped, Sending
  <2> QED BY <2>1 DEF MessageInv, MessagesWhole
<1>3. CASE HandshakeFails(p) \/ ReadFails(p) \/ AddClient(p) \/ RemoveClient(p)
  <2>1. UNCHANGED <<wire, message, pending>>
    BY <1>3 DEF HandshakeFails, ReadFails, AddClient, RemoveClient
  <2>2. MessagesWhole'
    BY <2>1 DEF MessageInv, MessagesWhole
  <2>3. PICK from, to : Moves(p, from, to) /\ (to \in Sending => from \in Sending)
    BY <1>3 DEF HandshakeFails, ReadFails, AddClient, RemoveClient, Sending
  <2> QED BY <1>1, <2>1, <2>2, <2>3
<1>4. CASE PushConnected(p) \/ PushDisconnected(p)
  <2>1. UNCHANGED <<wire, message>>
    BY <1>4 DEF PushConnected, PushDisconnected
  <2>2. PICK from, to : Moves(p, from, to) /\ (to \in Sending => from \in Sending)
    BY <1>4 DEF PushConnected, PushDisconnected, Sending
  <2>3. PICK t \in {"CONNECTED", "DISCONNECTED"} : PushEvent(p, t, <<>>, <<>>)
    BY <1>4 DEF PushConnected, PushDisconnected
  <2>4. t \in EventTypes /\ t # "MESSAGE"
    BY DEF EventTypes
  <2>5. <<>> \in Seq(Nat) /\ <<>> \in Seq(Frames)
    OBVIOUS
  <2>6. MessagesWhole'
    BY <2>3, <2>4, <2>5, EventWhole DEF MessageInv
  <2> QED BY <1>1, <2>1, <2>2, <2>6
<1>5. ASSUME NEW frame \in Frames, NEW to, Moves(p, "reading", to),
             wire' = [wire EXCEPT ![p] = Append(@, frame)], pending' = pending,
             message' = [message EXCEPT ![p] = message'[p]],
             InWire(message'[p], Append(wire[p], frame)),
             to \in Sending => Part(message'[p], Append(wire[p], frame))
      PROVE  MessageInv'
  <2>1. /\ wire'[p] = Append(wire[p], frame)
        /\ \A q \in WsPeers : q # p => wire'[q] = wire[q] /\ message'[q] = message[q]
    BY <1>0, <1>5 DEF MessageTyped
  <2>2. MessagesWhole'
    BY <1>5 DEF MessageInv, MessagesWhole
  <2>3. \A q \in WsPeers : InWire(message'[q], wire'[q])
    BY <1>5, <2>1 DEF MessageInv
  <2>4. \A q \in WsPeers : at'[q] \in Sending => Part(message'[q], wire'[q])
    BY <1>5, <1>m, <2>1 DEF MessageInv
  <2> QED BY <2>2, <2>3, <2>4 DEF MessageInv
<1>6. ASSUME at[p] = "reading"
      PROVE  InWire(message[p], wire[p]) /\ Part(message[p], wire[p])
  BY <1>6 DEF MessageInv, Sending
<1>f. /\ \A f \in Frames : InWire(message[p], Append(wire[p], f))
      /\ \A f \in Frames : InWire(Grown(p), Append(wire[p], f))
  BY <1>t, FrameRead DEF MessageInv, Grown
<1>7. CASE ReadPing(p)
  <2>1. "ping" \in Frames /\ Moves(p, "reading", NextRead)
        /\ wire' = [wire EXCEPT ![p] = Append(@, "ping")]
        /\ UNCHANGED <<message, pending>>
    BY <1>7 DEF ReadPing, Sends, Frames
  <2>2. Part(message[p], Append(wire[p], "ping"))
    BY <1>6, <1>m, <1>t, <2>1, FrameRead
  <2>3. message' = [message EXCEPT ![p] = message'[p]]
    BY <1>0, <2>1 DEF MessageTyped
  <2> QED BY <1>5, <1>f, <2>1, <2>2, <2>3
<1>8. ASSUME NEW frame \in Frames, ReadPart(p, frame) PROVE MessageInv'
  <2>1. /\ Moves(p, "reading", NextRead)
        /\ wire' = [wire EXCEPT ![p] = Append(@, frame)]
        /\ message' = [message EXCEPT ![p] = Grown(p)] /\ pending' = pending
    BY <1>8 DEF ReadPart, Sends
  <2>2. ~Ends(frame) /\ (Begins(frame) <=> message[p] = <<>>)
        /\ (Begins(frame) \/ Continues(frame))
    BY <1>8 DEF ReadPart, Fits, Assembling, Begins, Continues
  <2>3. Part(Grown(p), Append(wire[p], frame))
    BY <1>6, <1>m, <1>t, <2>1, <2>2, FrameRead DEF Grown
  <2>4. message'[p] = Grown(p)
    BY <1>0, <2>1 DEF MessageTyped
  <2> QED BY <1>5, <1>f, <2>1, <2>3, <2>4
<1>9. ASSUME NEW frame \in Frames, ReadBreaks(p, frame) PROVE MessageInv'
  <2>1. /\ Moves(p, "reading", "leaving")
        /\ wire' = [wire EXCEPT ![p] = Append(@, frame)]
        /\ UNCHANGED <<message, pending>>
    BY <1>9 DEF ReadBreaks, Sends
  <2>2. message' = [message EXCEPT ![p] = message'[p]]
    BY <1>0, <2>1 DEF MessageTyped
  <2>3. "leaving" \notin Sending
    BY DEF Sending
  <2> QED BY <1>5, <1>f, <2>1, <2>2, <2>3
<1>10. ASSUME NEW frame \in Frames, ReadLast(p, frame) PROVE MessageInv'
  <2>1. /\ Moves(p, "reading", NextRead)
        /\ PushEvent(p, "MESSAGE", Grown(p), Append(wire[p], frame))
        /\ message' = [message EXCEPT ![p] = <<>>]
        /\ wire' = [wire EXCEPT ![p] = <<>>]
    BY <1>10 DEF ReadLast
  <2>2. Ends(frame) /\ (Begins(frame) <=> message[p] = <<>>)
        /\ (Begins(frame) \/ Continues(frame))
    BY <1>10 DEF ReadLast, Fits, Assembling, Begins, Continues
  <2>3. IsWholeMessage(Grown(p), Append(wire[p], frame))
    BY <1>6, <1>m, <1>t, <2>1, <2>2, FrameRead DEF Grown
  <2>4. Append(wire[p], frame) \in Seq(Frames) /\ Grown(p) \in Seq(Nat)
    <3>1. Len(wire[p]) + 1 \in Nat
      BY <1>t
    <3> QED BY <1>t, <3>1, AppendProperties DEF Grown
  <2>5. MessagesWhole'
    BY <2>1, <2>3, <2>4, EventWhole DEF MessageInv, EventTypes
  <2>6. /\ wire'[p] = <<>> /\ message'[p] = <<>>
        /\ \A q \in WsPeers : q # p => wire'[q] = wire[q] /\ message'[q] = message[q]
    BY <1>0, <2>1 DEF MessageTyped
  <2>7. InWire(<<>>, <<>>) /\ Part(<<>>, <<>>)
    BY DEF InWire, Part
  <2>8. \A q \in WsPeers : InWire(message'[q], wire'[q])
    BY <2>6, <2>7 DEF MessageInv
  <2>9. \A q \in WsPeers : at'[q] \in Sending => Part(message'[q], wire'[q])
    BY <1>m, <2>1, <2>6, <2>7 DEF MessageInv
  <2> QED BY <2>5, <2>8, <2>9 DEF MessageInv
<1> QED BY <1>2, <1>3, <1>4, <1>7, <1>8, <1>9, <1>10
        DEF ThreadRuns, PeerActs, PeerSends

\* Every step keeps the messages.
LEMMA MessageStep == ASSUME WsTyped, MessageInv, [WsNext]_wsVars
      PROVE MessageInv'
<1>0. ClientsTyped
  BY DEF WsTyped
<1>k. ASSUME UNCHANGED <<wire, message>>, pending' = pending \/ pending' = <<>>,
             \A p \in WsPeers : at'[p] \in Sending => at[p] \in Sending
      PROVE  MessageInv'
  BY <1>k DEF MessageInv, MessagesWhole
<1>1. CASE WsConnect
  <2>1. \A q \in WsPeers : at'[q] \in Sending => at[q] \in Sending
    BY <1>0, <1>1 DEF WsConnect, Goes, ClientsTyped, Sending
  <2> QED BY <1>1, <1>k, <2>1 DEF WsConnect
<1>2. ASSUME NEW p \in WsPeers, ThreadRuns(p) \/ PeerActs(p) \/ PeerSends(p)
      PROVE  MessageInv'
  BY <1>2, MessageThread
<1>3. CASE CloseUnlisten
  <2>1. \A q \in WsPeers : at'[q] \in Sending => at[q] \in Sending
    BY <1>3 DEF CloseUnlisten, Sending
  <2> QED BY <1>3, <1>k, <2>1 DEF CloseUnlisten, CallerGoes
<1>4. CASE WsAcceptFails \/ WsBegin \/ WsLoop \/ CloseFlag \/ Orphan \/ CloseShut
           \/ CloseClear \/ CloseJoinAccept \/ CloseJoinClients \/ UNCHANGED wsVars
  BY <1>4, <1>k DEF WsAcceptFails, AcceptorGoesOn, WsBegin, WsLoop, CloseFlag,
     Orphan, CloseShut, CloseClear, CloseJoinAccept, CloseJoinClients,
     CallerGoes, wsVars
<1> QED BY <1>1, <1>2, <1>3, <1>4 DEF WsNext, Closing

\* At most as many connections are alive as there are numbers.
AliveSet == {q \in WsPeers : at[q] \in Alive}
FewAlive == IsFiniteSet(AliveSet) /\ Cardinality(AliveSet) <= WsNums

\* While the firmware polls, every client is under its number; one the firmware
\* has been or will be told of is the last it has heard of under that number,
\* and of a number that nobody has been announced for, it has heard the end.
Polled ==
  /\ \A p \in WsPeers : at[p] \in HasNum => clients[num[p]] = p
  /\ \A p \in WsPeers : at[p] \in {"reading", "leaving"} =>
       /\ ToldBy(pending, told, num[p]).type # "DISCONNECTED"
       /\ ToldBy(pending, told, num[p]).peer = p
  /\ \A n \in Nums :
       clients[n] = NoPeer \/ at[clients[n]] \in {"joined", "removing"} =>
         ToldBy(pending, told, n).type = "DISCONNECTED"
  /\ Alternates(pending, told)
AlternateInv == wsCaller = "loop" => Polled

\* None is alive at the start.
LEMMA FewStart == ASSUME WsInit PROVE FewAlive
<1>1. AliveSet = {}
  BY DEF WsInit, AliveSet, Alive
<1> QED BY <1>1, FS_EmptySet, WsAssumption DEF FewAlive

\* The numbers modulo, once more: every number is reached from any other.
LEMMA Reached ==
  ASSUME NEW from \in Nums, NEW n \in Nums
  PROVE  \E i \in 0..(WsNums - 1) : Wrap(from + i) = n
<1>1. CASE from <= n
  <2>1. n - from \in 0..(WsNums - 1) /\ from + (n - from) = n
    BY <1>1, WsAssumption DEF Nums
  <2> QED BY <2>1, Wraps
<1>2. CASE n < from
  <2>1. n + WsNums - from \in 0..(WsNums - 1)
        /\ from + (n + WsNums - from) = n + WsNums
    BY <1>2, WsAssumption DEF Nums
  <2> QED BY <2>1, Wraps
<1> QED BY <1>1, <1>2 DEF Nums

\* With fewer clients than numbers, the number found is free.
LEMMA FreeNumIsFree ==
  ASSUME ClientsTyped, QuietInv, FewAlive, NEW p \in WsPeers, at[p] = "shaking"
  PROVE  clients[FreeNum] = NoPeer
<1>1. \E n \in Nums : clients[n] = NoPeer
  <2> SUFFICES ASSUME \A n \in Nums : clients[n] # NoPeer PROVE FALSE
    OBVIOUS
  <2> DEFINE others == AliveSet \ {p}
  <2>1. p \in AliveSet
    BY DEF AliveSet, Alive
  <2>2. IsFiniteSet(others) /\ Cardinality(others) = Cardinality(AliveSet) - 1
        /\ Cardinality(AliveSet) \in Nat
    BY <2>1, FS_RemoveElement, FS_CardinalityType DEF FewAlive
  <2>3. IsFiniteSet(Nums) /\ Cardinality(Nums) = WsNums
    <3>1. 0 \in Int /\ WsNums - 1 \in Int /\ ~(0 > WsNums - 1)
          /\ (WsNums - 1) - 0 + 1 = WsNums
      BY WsAssumption
    <3> QED BY <3>1, FS_Interval DEF Nums
  <2>4. clients \in [Nums -> others]
    <3>1. \A n \in Nums : clients[n] \in others
      BY DEF QuietInv, ClientsTyped, AliveSet, Alive, HasNum
    <3> QED BY <3>1 DEF ClientsTyped
  <2>5. Cardinality(others) < Cardinality(Nums)
    BY <2>2, <2>3, WsAssumption DEF FewAlive
  <2> HIDE DEF others
  <2>6. \E m, n \in Nums : m # n /\ clients[m] = clients[n]
    BY <2>2, <2>3, <2>4, <2>5, FS_PigeonHole
  <2> QED BY <2>6 DEF QuietInv
<1> DEFINE free == {i \in 0..(WsNums - 2) : clients[Wrap(nextClient + i)] = NoPeer}
<1>2. CASE free # {}
  <2>1. free \in SUBSET Nat
    BY WsAssumption
  <2>2. \E i \in free : \A j \in free : i <= j
    BY <1>2, <2>1, LeastExists
  <2>3. FreeNum = Wrap(nextClient + (CHOOSE i \in free : \A j \in free : i <= j))
    BY <1>2 DEF FreeNum
  <2>4. (CHOOSE i \in free : \A j \in free : i <= j) \in free
    BY <2>2
  <2> QED BY <2>3, <2>4
<1>3. CASE free = {}
  <2>1. PICK n \in Nums : clients[n] = NoPeer
    BY <1>1
  <2>2. PICK i \in 0..(WsNums - 1) : Wrap(nextClient + i) = n
    BY Reached DEF ClientsTyped
  <2>3. i \notin free
    BY <1>3
  <2>4. i = WsNums - 1
    BY <2>1, <2>2, <2>3, WsAssumption
  <2>5. FreeNum = Wrap(nextClient + (WsNums - 1))
    BY <1>3 DEF FreeNum
  <2> QED BY <2>1, <2>2, <2>4, <2>5
<1> QED BY <1>2, <1>3

\* A connection is made only while a number is left.
LEMMA FewStep == ASSUME WsTyped, FewAlive, [WsNext]_wsVars PROVE FewAlive'
<1>0. ClientsTyped
  BY DEF WsTyped
<1>1. ASSUME \A q \in WsPeers : at'[q] \in Alive => at[q] \in Alive
      PROVE FewAlive'
  <2>1. AliveSet' \in SUBSET AliveSet
    BY <1>1 DEF AliveSet
  <2>2. IsFiniteSet(AliveSet') /\ Cardinality(AliveSet') <= Cardinality(AliveSet)
    BY <2>1, FS_Subset DEF FewAlive
  <2>3. Cardinality(AliveSet') \in Nat /\ Cardinality(AliveSet) \in Nat
    BY <2>2, FS_CardinalityType DEF FewAlive
  <2> QED BY <2>2, <2>3, WsAssumption DEF FewAlive
<1>2. CASE WsConnect
  <2>1. PICK p \in WsPeers : at[p] = "away" /\ Goes(p, "knocking")
    BY <1>2 DEF WsConnect
  <2>2. AliveSet' = AliveSet \cup {p} /\ p \notin AliveSet
    BY <1>0, <2>1 DEF Goes, ClientsTyped, AliveSet, Alive
  <2>3. Cardinality(AliveSet) < WsNums /\ Cardinality(AliveSet) \in Nat
    BY <1>2, FS_CardinalityType DEF WsConnect, FewAlive, AliveSet
  <2>4. IsFiniteSet(AliveSet') /\ Cardinality(AliveSet') = Cardinality(AliveSet) + 1
    BY <2>2, FS_AddElement DEF FewAlive
  <2> QED BY <2>3, <2>4, WsAssumption DEF FewAlive
<1>3. ASSUME NEW p \in WsPeers, ThreadRuns(p) \/ PeerActs(p) \/ PeerSends(p)
      PROVE  FewAlive'
  <2>1. ThreadMoves(p)
    BY <1>3, ThreadStepMoves
  <2> QED BY <1>0, <1>1, <2>1 DEF ThreadMoves, ClientsTyped
<1>4. CASE CloseUnlisten
  BY <1>1, <1>4 DEF CloseUnlisten, Alive
<1>5. CASE WsAcceptFails \/ WsBegin \/ WsLoop \/ CloseFlag \/ Orphan \/ CloseShut
           \/ CloseClear \/ CloseJoinAccept \/ CloseJoinClients \/ UNCHANGED wsVars
  BY <1>5, <1>1
      DEF WsAcceptFails, WsBegin, WsLoop, CloseFlag, Orphan, CloseShut,
     CloseClear, CloseJoinAccept, CloseJoinClients, wsVars
<1> QED BY <1>2, <1>3, <1>4, <1>5 DEF WsNext, Closing

\* A thread queues an event: the number's next.
LEMMA PushPolled ==
  ASSUME WsTyped, QuietInv, Polled, NEW p \in WsPeers, NEW t \in EventTypes,
         NEW f \in Seq(Nat), NEW s \in Seq(Frames), PushEvent(p, t, f, s),
         UNCHANGED <<num, clients, told>>,
         at[p] \in HasNum, at'[p] \in {"reading", "leaving", "removing"},
         at'[p] = "removing" <=> t = "DISCONNECTED",
         \A q \in WsPeers : q # p => at'[q] = at[q],
         IF t = "CONNECTED" THEN at[p] = "joined"
         ELSE at[p] \in {"reading", "leaving"}
  PROVE  Polled'
<1> DEFINE e == [num |-> num[p], type |-> t, peer |-> p, frames |-> f, sent |-> s]
           tells(n) == ToldBy(pending, told, n)
<1>0. ClientsTyped /\ QueueTyped
  BY DEF WsTyped
<1>1. /\ pending \in Seq(WsEvents) /\ pending' \in Seq(WsEvents)
      /\ Len(pending') = Len(pending) + 1
      /\ \A i \in 1..Len(pending) : pending'[i] = pending[i]
      /\ pending'[Len(pending')] = e
  BY <1>0, EventTyped DEF QueueTyped
<1>2. e.num = num[p] /\ e.type = t /\ e.peer = p
  OBVIOUS
<1> HIDE DEF e
<1>3. \A n : ToldBy(pending', told', n) =
               IF n = num[p] THEN [type |-> t, peer |-> p] ELSE tells(n)
  BY <1>1, <1>2, ToldMore
<1>4. num[p] \in Nums /\ clients[num[p]] = p
  BY <1>0 DEF ClientsTyped, Polled
<1>5. Follows(e, tells(num[p]))
  <2>1. CASE t = "CONNECTED"
    BY <1>2, <1>4, <2>1 DEF Polled, Follows
  <2>2. CASE t # "CONNECTED"
    BY <1>2, <2>2 DEF Polled, Follows
  <2> QED BY <2>1, <2>2
<1>6. Alternates(pending', told')
  BY <1>1, <1>2, <1>5, AlternatesMore DEF Polled
<1>7. \A q \in WsPeers : at'[q] \in HasNum => clients'[num'[q]] = q
  BY <1>4 DEF Polled, HasNum
<1>8. ASSUME NEW q \in WsPeers, at'[q] \in {"reading", "leaving"}
      PROVE  /\ ToldBy(pending', told', num'[q]).type # "DISCONNECTED"
             /\ ToldBy(pending', told', num'[q]).peer = q
  <2>1. CASE q = p
    BY <1>3, <1>8, <2>1
  <2>2. CASE q # p
    <3>1. at[q] = at'[q] /\ num[q] # num[p]
      BY <1>4, <1>8, <2>2 DEF Polled, HasNum
    <3> QED BY <1>3, <1>8, <3>1 DEF Polled
  <2> QED BY <2>1, <2>2
<1>9. ASSUME NEW n \in Nums,
             clients'[n] = NoPeer \/ at'[clients'[n]] \in {"joined", "removing"}
      PROVE  ToldBy(pending', told', n).type = "DISCONNECTED"
  <2>1. CASE n = num[p]
    BY <1>3, <1>4, <1>9, <2>1, PeerAssumption
  <2>2. CASE n # num[p] /\ clients[n] = NoPeer
    BY <1>3, <2>2 DEF Polled
  <2>3. CASE n # num[p] /\ clients[n] # NoPeer
    <3>1. clients[n] \in WsPeers
      BY <1>0, <2>3 DEF ClientsTyped
    <3>2. CASE clients[n] = p
      BY <2>3, <3>2, PeerAssumption DEF QuietInv
    <3>3. CASE clients[n] # p
      BY <1>3, <1>9, <2>3, <3>1, <3>3 DEF Polled
    <3> QED BY <3>2, <3>3
  <2> QED BY <2>1, <2>2, <2>3
<1> QED BY <1>6, <1>7, <1>8, <1>9 DEF Polled

\* A thread's step keeps what the firmware is told in order:
LEMMA ThreadPolled ==
  ASSUME WsTyped, QuietInv, FewAlive, Polled, NEW p \in WsPeers,
         ThreadRuns(p) \/ PeerActs(p) \/ PeerSends(p)
  PROVE  Polled'
<1>0. ClientsTyped /\ MessageTyped
  BY DEF WsTyped
<1>t. told' = told /\ \A q \in WsPeers : q # p => at'[q] = at[q]
  <2>1. ThreadMoves(p)
    BY ThreadStepMoves
  <2> QED BY <1>0, <2>1 DEF ThreadMoves, FirmwareSame, ClientsTyped
<1>m. ASSUME NEW from, NEW to, Moves(p, from, to)
      PROVE at[p] = from /\ at'[p] = to
  BY <1>0, <1>m DEF Moves, Goes, ClientsTyped
<1>n. \A n \in Nums : clients[n] # NoPeer => clients[n] \in WsPeers
                      /\ at[clients[n]] \in HasNum /\ num[clients[n]] = n
  BY <1>0 DEF QuietInv, ClientsTyped
<1>1. ASSUME UNCHANGED <<num, clients, pending>>,
             \/ at[p] \notin HasNum /\ at'[p] \notin HasNum
             \/ at[p] = "reading" /\ at'[p] \in {"reading", "leaving"}
      PROVE  Polled'
  <2>1. \A q \in WsPeers : at'[q] \in HasNum => at[q] \in HasNum
    BY <1>1, <1>t DEF HasNum
  <2>2. \A q \in WsPeers : at'[q] \in {"reading", "leaving"} =>
                           at[q] \in {"reading", "leaving"}
    BY <1>1, <1>t DEF HasNum
  <2>3. \A q \in WsPeers : at'[q] \in {"joined", "removing"} =>
                           at[q] \in {"joined", "removing"}
    BY <1>1, <1>t DEF HasNum
  <2> QED BY <1>1, <1>n, <1>t, <2>1, <2>2, <2>3 DEF Polled
<1>2. CASE WsAccept(p)
  <2>1. UNCHANGED <<num, clients, pending>> /\ at[p] = "knocking" /\ at'[p] = "shaking"
    BY <1>0, <1>2 DEF WsAccept, AcceptorGoesOn, Goes, ClientsTyped
  <2> QED BY <1>1, <2>1 DEF HasNum
<1>3. CASE HandshakeFails(p)
  <2>1. UNCHANGED <<num, clients, pending>> /\ Moves(p, "shaking", "gone")
    BY <1>3 DEF HandshakeFails
  <2>2. at[p] = "shaking" /\ at'[p] = "gone"
    BY <1>m, <2>1
  <2> QED BY <1>1, <2>1, <2>2 DEF HasNum
<1>4. CASE ReadFails(p) \/ ReadPing(p)
           \/ \E frame \in Frames : ReadPart(p, frame) \/ ReadBreaks(p, frame)
  <2>1. UNCHANGED <<num, clients, pending>>
    BY <1>4 DEF ReadFails, ReadPing, ReadPart, ReadBreaks, Sends
  <2>2. PICK to \in {"reading", "leaving"} : Moves(p, "reading", to)
    BY <1>4 DEF ReadFails, ReadPing, ReadPart, ReadBreaks, NextRead
  <2> QED BY <1>1, <1>m, <2>1, <2>2
<1>5. CASE AddClient(p)
  <2>1. /\ Moves(p, "shaking", "joined") /\ pending' = pending
        /\ num' = [num EXCEPT ![p] = FreeNum]
        /\ clients' = [clients EXCEPT ![FreeNum] = p]
    BY <1>5 DEF AddClient
  <2>2. at[p] = "shaking" /\ at'[p] = "joined"
    BY <1>m, <2>1
  <2>3. FreeNum \in Nums /\ clients[FreeNum] = NoPeer
    BY <1>0, <2>2, FreeNumTyped, FreeNumIsFree DEF ClientsTyped
  <2>4. ToldBy(pending, told, FreeNum).type = "DISCONNECTED"
    BY <2>3 DEF Polled
  <2>5. /\ num'[p] = FreeNum /\ clients'[FreeNum] = p
        /\ \A q \in WsPeers : q # p => num'[q] = num[q]
        /\ \A n \in Nums : n # FreeNum => clients'[n] = clients[n]
    BY <1>0, <2>1, <2>3 DEF ClientsTyped
  <2> HIDE DEF Nums
  <2>6. \A q \in WsPeers : at'[q] \in HasNum => clients'[num'[q]] = q
    <3> SUFFICES ASSUME NEW q \in WsPeers, at'[q] \in HasNum
                 PROVE  clients'[num'[q]] = q
      OBVIOUS
    <3>1. CASE q = p
      BY <2>5, <3>1
    <3>2. CASE q # p
      <4>1. clients[num[q]] = q /\ num[q] \in Nums /\ q # NoPeer
        BY <1>0, <1>t, <3>2, PeerAssumption DEF Polled, ClientsTyped
      <4>2. num[q] # FreeNum
        BY <2>3, <4>1
      <4> QED BY <2>5, <3>2, <4>1, <4>2
    <3> QED BY <3>1, <3>2
  <2>7. \A q \in WsPeers : at'[q] \in {"reading", "leaving"} =>
          /\ ToldBy(pending', told', num'[q]).type # "DISCONNECTED"
          /\ ToldBy(pending', told', num'[q]).peer = q
    BY <1>t, <2>1, <2>2, <2>5 DEF Polled
  <2>8. ASSUME NEW n \in Nums,
               clients'[n] = NoPeer \/ at'[clients'[n]] \in {"joined", "removing"}
        PROVE  ToldBy(pending', told', n).type = "DISCONNECTED"
    <3>1. CASE n = FreeNum
      BY <1>t, <2>1, <2>4, <3>1
    <3>2. CASE n # FreeNum
      <4>1. clients'[n] = clients[n]
        BY <2>5, <3>2
      <4>2. clients[n] # NoPeer => clients[n] # p
        BY <1>n, <2>2 DEF HasNum
      <4> QED BY <1>n, <1>t, <2>1, <2>8, <4>1, <4>2 DEF Polled
    <3> QED BY <3>1, <3>2
  <2> QED BY <1>t, <2>1, <2>6, <2>7, <2>8 DEF Polled
<1>6. CASE RemoveClient(p)
  <2>1. /\ Moves(p, "removing", "gone") /\ UNCHANGED <<num, pending>>
        /\ clients' = [clients EXCEPT ![num[p]] = NoPeer]
    BY <1>6 DEF RemoveClient
  <2>2. at[p] = "removing" /\ at'[p] = "gone"
    BY <1>m, <2>1
  <2>3. num[p] \in Nums /\ clients[num[p]] = p
    BY <1>0, <2>2 DEF ClientsTyped, Polled, HasNum
  <2>4. clients'[num[p]] = NoPeer /\ \A n \in Nums : n # num[p] => clients'[n] = clients[n]
    BY <1>0, <2>1, <2>3 DEF ClientsTyped
  <2> HIDE DEF Nums
  <2>5. \A q \in WsPeers : at'[q] \in HasNum => clients'[num'[q]] = q
    <3> SUFFICES ASSUME NEW q \in WsPeers, at'[q] \in HasNum
                 PROVE  clients'[num'[q]] = q
      OBVIOUS
    <3>1. q # p
      BY <2>2 DEF HasNum
    <3>2. clients[num[q]] = q /\ num[q] \in Nums
      BY <1>0, <1>t, <3>1 DEF Polled, ClientsTyped
    <3> QED BY <2>1, <2>3, <2>4, <3>1, <3>2
  <2>6. \A q \in WsPeers : at'[q] \in {"reading", "leaving"} =>
          /\ ToldBy(pending', told', num'[q]).type # "DISCONNECTED"
          /\ ToldBy(pending', told', num'[q]).peer = q
    BY <1>t, <2>1, <2>2 DEF Polled
  <2>7. ASSUME NEW n \in Nums,
               clients'[n] = NoPeer \/ at'[clients'[n]] \in {"joined", "removing"}
        PROVE  ToldBy(pending', told', n).type = "DISCONNECTED"
    <3>1. CASE n = num[p]
      BY <1>t, <2>1, <2>2, <2>3, <3>1 DEF Polled
    <3>2. CASE n # num[p]
      <4>1. clients'[n] = clients[n]
        BY <2>4, <3>2
      <4>2. clients[n] # p
        BY <1>n, <3>2, PeerAssumption
      <4> QED BY <1>n, <1>t, <2>1, <2>7, <4>1, <4>2 DEF Polled
    <3> QED BY <3>1, <3>2
  <2> QED BY <1>t, <2>1, <2>5, <2>6, <2>7 DEF Polled
<1>7. CASE PushConnected(p) \/ PushDisconnected(p)
  <2>1. UNCHANGED <<num, clients>>
    BY <1>7 DEF PushConnected, PushDisconnected
  <2>2. <<>> \in Seq(Nat) /\ <<>> \in Seq(Frames)
    OBVIOUS
  <2>3. CASE PushConnected(p)
    <3>1. Moves(p, "joined", NextRead) /\ PushEvent(p, "CONNECTED", <<>>, <<>>)
      BY <2>3 DEF PushConnected
    <3>2. at[p] = "joined" /\ at'[p] \in {"reading", "leaving"}
      BY <1>m, <3>1 DEF NextRead
    <3>3. /\ "CONNECTED" \in EventTypes /\ at[p] \in HasNum
          /\ at'[p] \in {"reading", "leaving", "removing"}
          /\ at'[p] = "removing" <=> "CONNECTED" = "DISCONNECTED"
      BY <3>2 DEF HasNum, EventTypes
    <3> QED BY <1>t, <2>1, <2>2, <3>1, <3>2, <3>3, PushPolled
  <2>4. CASE PushDisconnected(p)
    <3>1. Moves(p, "leaving", "removing") /\ PushEvent(p, "DISCONNECTED", <<>>, <<>>)
      BY <2>4 DEF PushDisconnected
    <3>2. at[p] = "leaving" /\ at'[p] = "removing"
      BY <1>m, <3>1
    <3>3. /\ "DISCONNECTED" \in EventTypes /\ at[p] \in HasNum
          /\ at'[p] \in {"reading", "leaving", "removing"}
          /\ at[p] \in {"reading", "leaving"}
      BY <3>2 DEF HasNum, EventTypes
    <3> QED BY <1>t, <2>1, <2>2, <3>1, <3>2, <3>3, PushPolled
  <2> QED BY <1>7, <2>3, <2>4
<1>8. ASSUME NEW frame \in Frames, ReadLast(p, frame) PROVE Polled'
  <2>1. /\ Moves(p, "reading", NextRead) /\ UNCHANGED <<num, clients>>
        /\ PushEvent(p, "MESSAGE", Grown(p), Append(wire[p], frame))
    BY <1>8 DEF ReadLast
  <2>2. at[p] = "reading" /\ at'[p] \in {"reading", "leaving"}
    BY <1>m, <2>1 DEF NextRead
  <2>3. Append(wire[p], frame) \in Seq(Frames) /\ Grown(p) \in Seq(Nat)
    <3>1. message[p] \in Seq(Nat) /\ wire[p] \in Seq(Frames)
      BY <1>0 DEF MessageTyped
    <3>2. Len(wire[p]) + 1 \in Nat
      BY <3>1
    <3> QED BY <3>1, <3>2, AppendProperties DEF Grown
  <2> QED BY <1>t, <2>1, <2>2, <2>3, PushPolled DEF HasNum, EventTypes
<1> QED BY <1>2, <1>3, <1>4, <1>5, <1>6, <1>7, <1>8
        DEF ThreadRuns, PeerActs, PeerSends

\* a step that touches none of it does,
LEMMA PolledSame ==
  ASSUME UNCHANGED <<at, num, clients, pending, told>>, Polled PROVE Polled'
BY DEF Polled

\* and every step while the firmware polls, from begin() on.
LEMMA AlternateStep ==
  ASSUME WsTyped, QuietInv, FewAlive, AlternateInv, [WsNext]_wsVars
  PROVE  AlternateInv'
<1>0. ClientsTyped /\ QueueTyped
  BY DEF WsTyped
<1>1. CASE WsConnect
  <2>1. PICK p \in WsPeers : at[p] = "away" /\ Goes(p, "knocking")
    BY <1>1 DEF WsConnect
  <2>2. UNCHANGED <<num, clients, pending, told, wsCaller>>
    BY <1>1 DEF WsConnect, FirmwareSame
  <2>3. at'[p] = "knocking" /\ \A q \in WsPeers : q # p => at'[q] = at[q]
    BY <1>0, <2>1 DEF Goes, ClientsTyped
  <2>4. \A n \in Nums : clients[n] # NoPeer => clients[n] \in WsPeers
    BY <1>0 DEF ClientsTyped
  <2>5. Polled => Polled'
    BY <2>1, <2>2, <2>3, <2>4 DEF Polled, HasNum
  <2> QED BY <2>2, <2>5 DEF AlternateInv
<1>2. ASSUME NEW p \in WsPeers, ThreadRuns(p) \/ PeerActs(p) \/ PeerSends(p)
      PROVE  AlternateInv'
  <2>1. wsCaller' = wsCaller
    BY <1>2, ThreadStepMoves DEF ThreadMoves, FirmwareSame
  <2> QED BY <1>2, <2>1, ThreadPolled DEF AlternateInv
<1>3. CASE WsBegin
  <2>1. /\ wsCaller = "off" /\ told' = [n \in Nums |-> NothingTold]
        /\ UNCHANGED <<at, num, clients, pending>>
    BY <1>3 DEF WsBegin, CallerGoes
  <2>2. /\ \A p \in WsPeers : at[p] \in {"away", "gone"}
        /\ pending = <<>>
    BY <2>1 DEF QuietInv
  <2>3. \A n : ToldBy(pending', told', n) = told'[n]
    BY <2>1, <2>2 DEF ToldBy, MineIn
  <2>4. \A n \in Nums : told'[n].type = "DISCONNECTED"
    BY <2>1 DEF NothingTold
  <2>5. Alternates(pending', told')
    BY <2>1, <2>2 DEF Alternates
  <2> QED BY <2>1, <2>2, <2>3, <2>4, <2>5 DEF AlternateInv, Polled, HasNum
<1>4. CASE WsLoop
  <2>1. /\ wsCaller = "loop" /\ told' = [n \in Nums |-> LastTold(n)]
        /\ pending' = <<>> /\ UNCHANGED <<at, num, clients>>
    BY <1>4 DEF WsLoop, CallerGoes
  <2>2. \A n \in Nums : ToldBy(pending', told', n) = ToldBy(pending, told, n)
    BY <2>1, LastToldIs DEF ToldBy, MineIn
  <2>3. Alternates(pending', told')
    BY <2>1 DEF Alternates
  <2>4. \A p \in WsPeers : num[p] \in Nums
    BY <1>0 DEF ClientsTyped
  <2> QED BY <2>1, <2>2, <2>3, <2>4 DEF AlternateInv, Polled
<1>5. CASE CloseFlag \/ Orphan \/ Closing
  BY <1>5 DEF CloseFlag, Orphan, Closing, CloseUnlisten, CloseShut, CloseClear,
     CloseJoinAccept, CloseJoinClients, CallerGoes, AlternateInv
<1>6. CASE WsAcceptFails \/ UNCHANGED wsVars
  BY <1>6, PolledSame DEF WsAcceptFails, AcceptorGoesOn, FirmwareSame, wsVars,
     AlternateInv
<1> QED BY <1>1, <1>2, <1>3, <1>4, <1>5, <1>6 DEF WsNext

\* The inductive invariant of the WebSocket server.
WsInv ==
  WsTyped /\ QuietInv /\ MessageInv /\ FewAlive /\ AlternateInv

\* It holds at the start,
LEMMA WsInvStart == WsInit => WsInv
<1> SUFFICES ASSUME WsInit PROVE WsInv
  OBVIOUS
<1>1. AlternateInv
  BY DEF WsInit, AlternateInv
<1> QED BY <1>1, WsStartTyped, QuietStart, MessageStart, FewStart DEF WsInv

\* every step keeps it,
LEMMA WsInvStep == WsInv /\ [WsNext]_wsVars => WsInv'
BY WsTypeStep, QuietStep, MessageStep, FewStep, AlternateStep DEF WsInv

\* and it implies the types
LEMMA WsInvTyped == WsInv => WsTypeOK
<1> SUFFICES ASSUME WsInv PROVE WsTypeOK
  OBVIOUS
<1>1. ServerTyped /\ ClientsTyped /\ MessageTyped /\ QueueTyped
  BY DEF WsInv, WsTyped
<1>2. \A p \in WsPeers : message[p] \in Seq(1..Len(wire[p]))
  <2> SUFFICES ASSUME NEW p \in WsPeers
        PROVE message[p] \in Seq(1..Len(wire[p]))
    OBVIOUS
  <2>1. message[p] \in Seq(Nat)
    BY <1>1 DEF MessageTyped
  <2>2. \A i \in 1..Len(message[p]) : message[p][i] \in 1..Len(wire[p])
    BY DEF WsInv, MessageInv, InWire
  <2> QED BY <2>1, <2>2, IsASeq, LenProperties
<1>3. \A i \in 1..Len(pending) :
        pending[i].num \in Nums /\ pending[i].type \in EventTypes
  <2>1. pending \in Seq(WsEvents)
    BY <1>1 DEF QueueTyped
  <2>2. \A i \in 1..Len(pending) : pending[i] \in WsEvents
    BY <2>1, ElementOfSeq
  <2> QED BY <2>2 DEF WsEvents
<1> QED BY <1>1, <1>2, <1>3
        DEF WsTypeOK, ServerTyped, ClientsTyped, MessageTyped, QueueTyped

\* and the properties.
LEMMA WsInvImplies ==
  WsInv => WsTypeOK /\ EventsAlternate /\ MessagesWhole /\ ClosedIsQuiet
<1>1. WsInv => EventsAlternate
  BY AlternatesIs DEF WsInv, AlternateInv, Polled
<1>2. WsInv => MessagesWhole /\ ClosedIsQuiet
  BY QuietImplies DEF WsInv, MessageInv
<1> QED BY <1>1, <1>2, WsInvTyped

\* Types, for any connections and numbers: the search for a free number never
\* leaves the space of numbers.
THEOREM SocketsTyped == WsSpec => []WsTypeOK
<1>1. WsInv => WsTypeOK
  BY WsInvImplies
<1> QED BY <1>1, WsInvStart, WsInvStep, PTL DEF WsSpec

\* A number's events are lives, one after the other (EventsAlternate): the number
\* that addClient finds is free, since no more connections are alive than there
\* are numbers, and its last owner's end is queued before the number is given
\* back.
THEOREM NumbersLive == WsSpec => []EventsAlternate
<1>1. WsInv => EventsAlternate
  BY WsInvImplies
<1> QED BY <1>1, WsInvStart, WsInvStep, PTL DEF WsSpec

\* A MESSAGE event is one whole message (MessagesWhole), however long it is and
\* wherever the pings come.
THEOREM MessagesAreWhole == WsSpec => []MessagesWhole
<1>1. WsInv => MessagesWhole
  BY WsInvImplies
<1> QED BY <1>1, WsInvStart, WsInvStep, PTL DEF WsSpec

\* close() leaves nothing behind (ClosedIsQuiet): no connection is made once the
\* server does not listen, and one made before is waited for.
THEOREM CloseIsQuiet == WsSpec => []ClosedIsQuiet
<1>1. WsInv => ClosedIsQuiet
  BY WsInvImplies
<1> QED BY <1>1, WsInvStart, WsInvStep, PTL DEF WsSpec
-----------------------------------------------------------------------------
(* close() joins its threads on the firmware's thread, so it is over only  *)
(* if none of them waits for somebody else.                                *)

\* No client keeps it: the accept thread finds no socket to accept from, and
\* whoever still reads frames has been cut off.  A connection that still shakes
\* hands is no client and is not cut: its own limits end it, 5 s without a byte
\* or 32 kB without an end.
CloseIsNotKept ==
  wsCaller \in {"joinAccept", "joinClients"} =>
    /\ ~wsActive /\ ~wsListening
    /\ \A p \in WsPeers : at[p] = "reading" => p \in cut

\* Until clientFds() takes its snapshot every client is under its number; from
\* then on nobody begins to read, because the flag is down.
CutReaches ==
  /\ wsCaller \in InClose => ~wsActive
  /\ wsCaller \in {"loop", "unlisten", "shut"} =>
       \A p \in WsPeers : at[p] \in HasNum => clients[num[p]] = p
  /\ wsCaller \in {"clear", "joinAccept", "joinClients"} =>
       \A p \in WsPeers : at[p] = "reading" => p \in cut

\* The flag is asked before every frame.
LEMMA ReadsWhileActive ==
  ASSUME WsTyped, NEW p \in WsPeers, ThreadRuns(p) \/ PeerActs(p) \/ PeerSends(p)
  PROVE  at'[p] = "reading" => wsActive
<1>0. at \in [WsPeers -> {"away", "gone"} \cup Alive]
  BY DEF WsTyped, ClientsTyped
<1>m. ASSUME NEW from, NEW to, Moves(p, from, to) PROVE at'[p] = to
  BY <1>0, <1>m DEF Moves, Goes
<1>1. CASE WsAccept(p)
  BY <1>0, <1>1 DEF WsAccept, Goes
<1>2. CASE PushConnected(p) \/ PeerSends(p)
  <2>1. Moves(p, "joined", NextRead) \/ Moves(p, "reading", NextRead)
        \/ Moves(p, "reading", "leaving")
    BY <1>2 DEF PushConnected, PeerSends, ReadPing, ReadPart, ReadLast, ReadBreaks
  <2> QED BY <1>m, <2>1 DEF NextRead
<1>3. CASE HandshakeFails(p) \/ AddClient(p) \/ PushDisconnected(p) \/ ReadFails(p)
           \/ RemoveClient(p)
  <2>1. Moves(p, "shaking", "gone") \/ Moves(p, "shaking", "joined")
        \/ Moves(p, "leaving", "removing") \/ Moves(p, "reading", "leaving")
        \/ Moves(p, "removing", "gone")
    BY <1>3 DEF HandshakeFails, AddClient, PushDisconnected, ReadFails, RemoveClient
  <2> QED BY <1>m, <2>1
<1> QED BY <1>1, <1>2, <1>3 DEF ThreadRuns, PeerActs

\* A thread's step hides nobody from the snapshot, and begins no reading.
LEMMA CutReachesThread ==
  ASSUME WsInv, CutReaches, NEW p \in WsPeers,
         ThreadRuns(p) \/ PeerActs(p) \/ PeerSends(p)
  PROVE  CutReaches'
<1>0. ClientsTyped /\ WsTyped /\ QuietInv /\ FewAlive
  BY DEF WsInv, WsTyped
<1>1. ThreadMoves(p)
  BY <1>0, ThreadStepMoves
<1>2. UNCHANGED <<wsActive, wsCaller, cut>>
  BY <1>1 DEF ThreadMoves, FirmwareSame
<1>3. \A q \in WsPeers : q # p => at'[q] = at[q]
  BY <1>0, <1>1 DEF ThreadMoves, ClientsTyped
<1>4. wsCaller \in {"clear", "joinAccept", "joinClients"} =>
        \A q \in WsPeers : at'[q] = "reading" => q \in cut
  <2>1. wsCaller \in {"clear", "joinAccept", "joinClients"} => ~wsActive
    BY DEF CutReaches, InClose
  <2> QED BY <1>0, <1>3, <2>1, ReadsWhileActive DEF CutReaches
<1>5. ASSUME wsCaller \in {"loop", "unlisten", "shut"}
      PROVE  \A q \in WsPeers : at'[q] \in HasNum => clients'[num'[q]] = q
  <2>0. \A q \in WsPeers : at[q] \in HasNum => clients[num[q]] = q
    BY <1>5 DEF CutReaches
  <2>1. CASE UNCHANGED <<num, clients>> /\ (at[p] \in HasNum <=> at'[p] \in HasNum)
    BY <1>3, <2>0, <2>1
  <2>2. CASE AddClient(p)
    <3>1. FreeNum \in Nums /\ at[p] = "shaking"
          /\ num' = [num EXCEPT ![p] = FreeNum]
          /\ clients' = [clients EXCEPT ![FreeNum] = p]
      BY <1>0, <2>2, FreeNumTyped DEF AddClient, Moves, ClientsTyped
    <3>2. clients[FreeNum] = NoPeer
      BY <1>0, <3>1, FreeNumIsFree
    <3>3. \A q \in WsPeers : q # NoPeer
      BY PeerAssumption
    <3> QED BY <1>0, <1>3, <2>0, <3>1, <3>2, <3>3 DEF ClientsTyped
  <2>3. CASE RemoveClient(p) /\ at[p] \in HasNum /\ at'[p] \notin HasNum
    <3>1. num' = num /\ clients' = [clients EXCEPT ![num[p]] = NoPeer]
      BY <2>3 DEF RemoveClient
    <3>2. \A q \in WsPeers : q # p /\ at[q] \in HasNum => num[q] # num[p]
      BY <2>0, <2>3
    <3> QED BY <1>0, <1>3, <2>0, <2>3, <3>1, <3>2 DEF ClientsTyped
  <2> QED BY <1>1, <2>1, <2>2, <2>3 DEF ThreadMoves
<1> HIDE DEF CutReaches
<1>6. wsCaller \in InClose => ~wsActive
  BY DEF CutReaches
<1> QED BY <1>2, <1>4, <1>5, <1>6 DEF CutReaches

\* No step hides anybody.
LEMMA CutReachesStep ==
  ASSUME WsInv, CutReaches, [WsNext]_wsVars PROVE CutReaches'
<1>0. ClientsTyped /\ QuietInv
  BY DEF WsInv, WsTyped
<1> USE DEF CutReaches, InClose
<1>1. CASE WsConnect
  <2>1. UNCHANGED <<wsActive, wsCaller, cut, num, clients>>
    BY <1>1 DEF WsConnect, FirmwareSame
  <2>2. \A q \in WsPeers : at'[q] # at[q] => at'[q] = "knocking"
    BY <1>0, <1>1 DEF WsConnect, Goes, ClientsTyped
  <2> QED BY <2>1, <2>2 DEF HasNum
<1>2. ASSUME NEW p \in WsPeers, ThreadRuns(p) \/ PeerActs(p) \/ PeerSends(p)
      PROVE  CutReaches'
  <2> HIDE DEF CutReaches, InClose
  <2> QED BY <1>2, CutReachesThread
<1>3. CASE WsBegin
  <2>1. wsCaller = "off" /\ wsCaller' = "loop" /\ at' = at
    BY <1>3 DEF WsBegin, CallerGoes
  <2> QED BY <1>0, <2>1 DEF QuietInv, HasNum
<1>4. CASE WsAcceptFails \/ WsLoop \/ CloseFlag \/ Orphan \/ CloseJoinAccept
           \/ CloseJoinClients \/ UNCHANGED wsVars
  BY <1>4 DEF WsAcceptFails, AcceptorGoesOn, FirmwareSame, WsLoop, CloseFlag, Orphan,
     CloseJoinAccept, CloseJoinClients, CallerGoes, wsVars
<1>5. CASE CloseUnlisten
  <2>1. \A p \in WsPeers : at'[p] \in HasNum => at'[p] = at[p]
    BY <1>5 DEF CloseUnlisten, HasNum
  <2>2. wsCaller = "unlisten" /\ wsCaller' = "shut" /\ UNCHANGED <<num, clients, wsActive>>
    BY <1>5 DEF CloseUnlisten, CallerGoes
  <2> QED BY <2>1, <2>2
<1>6. CASE CloseShut
  <2>1. \A p \in WsPeers : at[p] = "reading" => p = clients[num[p]] /\ num[p] \in Nums
    BY <1>0, <1>6 DEF CloseShut, CallerGoes, HasNum, ClientsTyped
  <2>2. \A p \in WsPeers : at[p] = "reading" => p \in cut'
    BY <1>6, <2>1, PeerAssumption DEF CloseShut
  <2> QED BY <1>6, <2>2 DEF CloseShut, CallerGoes
<1>7. CASE CloseClear
  BY <1>7 DEF CloseClear, CallerGoes
<1> HIDE DEF CutReaches, InClose
<1> QED BY <1>1, <1>2, <1>3, <1>4, <1>5, <1>6, <1>7 DEF WsNext, Closing

\* No client keeps close() from coming back: of the threads it joins none waits
\* for a frame or for a connection (CloseIsNotKept).
THEOREM CloseComesBack == WsSpec => []CloseIsNotKept
<1>1. WsInit => CutReaches
  BY DEF WsInit, CutReaches, InClose
<1>2. WsInv /\ CutReaches => CloseIsNotKept
  BY DEF WsInv, QuietInv, CutReaches, CloseIsNotKept, InClose
<1>3. WsInv /\ CutReaches /\ [WsNext]_wsVars => CutReaches'
  BY CutReachesStep
<1> QED BY <1>1, <1>2, <1>3, WsInvStart, WsInvStep, PTL DEF WsSpec
=============================================================================
