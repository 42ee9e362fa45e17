-------------------------- MODULE WebSocketsServer --------------------------
(***************************************************************************)
(* The WebSocket server of a file transfer (src/src/WebSocketsServer.cpp). *)
(* One thread accepts; every connection has a thread of its own that shakes*)
(* hands, takes a client number, reads frames and queues events; loop(),   *)
(* on the firmware's thread, takes the queue and calls back.  close() ends *)
(* all of them.                                                            *)
(*                                                                         *)
(* A frame is its opcode and its FIN bit; a message is the list of the     *)
(* frames its payload was put together from, each named by its place in    *)
(* what the peer has sent since its last whole message.                    *)
(***************************************************************************)
EXTENDS Naturals, Sequences, FiniteSets, Peers

CONSTANT WsNums   \* size of the space of client numbers: 256, a uint8_t

ASSUME WsAssumption == WsNums \in Nat \ {0}

VARIABLES
  wsActive,     \* impl_->active
  wsListening,  \* impl_->fd >= 0
  acceptor,     \* where the accept thread is
  at,           \* where each connection's thread is
  cut,          \* connections shut down by close()
  num,          \* each thread's local `num`
  clients,      \* impl_->clients, by number
  nextClient,   \* impl_->nextClient
  wire,         \* frames each peer has sent since its last whole message
  message,      \* each thread's message so far: positions in wire
  pending,      \* impl_->pendingEvents
  told,         \* last event the callback had for each number
  wsCaller      \* where the firmware's thread is in the server

wsVars == <<wsActive, wsListening, acceptor, at, cut, num, clients, nextClient,
            wire, message, pending, told, wsCaller>>

Nums == 0..(WsNums - 1)
\* "More": FIN clear.  A ping stands for a pong too, "close" for a close and
\* for the reserved opcodes.
Frames == {"data", "dataMore", "cont", "contMore", "ping", "close"}
EventTypes == {"CONNECTED", "MESSAGE", "DISCONNECTED"}
Alive == {"knocking", "shaking", "joined", "reading", "leaving", "removing"}
InClose == {"unlisten", "shut", "clear", "joinAccept", "joinClients"}

\* The peer is not in the code's event: it is kept to say what follows what.
NothingTold == [type |-> "DISCONNECTED", peer |-> NoPeer]

WsTypeOK ==
  /\ wsActive \in BOOLEAN /\ wsListening \in BOOLEAN
  /\ acceptor \in {"none", "accept", "exited"}
  /\ at \in [WsPeers -> {"away", "gone"} \cup Alive] /\ cut \subseteq WsPeers
  /\ num \in [WsPeers -> Nums]
  /\ clients \in [Nums -> WsPeers \cup {NoPeer}] /\ nextClient \in Nums
  /\ wire \in [WsPeers -> Seq(Frames)]
  /\ \A p \in WsPeers : message[p] \in Seq(1..Len(wire[p]))
  /\ \A i \in 1..Len(pending) :
       pending[i].num \in Nums /\ pending[i].type \in EventTypes
  /\ told \in [Nums -> [type : EventTypes, peer : WsPeers \cup {NoPeer}]]
  /\ wsCaller \in {"off", "loop", "orphan"} \cup InClose

WsInit ==
  /\ wsActive = FALSE /\ wsListening = FALSE /\ acceptor = "none"
  /\ at = [p \in WsPeers |-> "away"] /\ cut = {}
  /\ num = [p \in WsPeers |-> 0]
  /\ clients = [n \in Nums |-> NoPeer] /\ nextClient = 0
  /\ wire = [p \in WsPeers |-> <<>>] /\ message = [p \in WsPeers |-> <<>>]
  /\ pending = <<>> /\ told = [n \in Nums |-> NothingTold]
  /\ wsCaller = "off"

-----------------------------------------------------------------------------
(* Peers and the accept thread.                                            *)

FirmwareSame == UNCHANGED <<wsActive, wsListening, cut, told, wsCaller>>

Goes(p, to) == at' = [at EXCEPT ![p] = to]

\* A connection gets the next free name.  At most WsNums are alive at a time,
\* 256 in the code.
WsConnect ==
  LET p == CHOOSE q \in WsPeers : at[q] = "away"
  IN  /\ wsListening /\ \E q \in WsPeers : at[q] = "away"
      /\ Cardinality({q \in WsPeers : at[q] \in Alive}) < WsNums
      /\ Goes(p, "knocking")
      /\ FirmwareSame
      /\ UNCHANGED <<acceptor, num, clients, nextClient, wire, message, pending>>

\* while (active) around accept(): tested again as soon as accept() returns
AcceptorGoesOn ==
  /\ acceptor = "accept"
  /\ acceptor' = IF wsActive THEN "accept" ELSE "exited"
  /\ FirmwareSame
  /\ UNCHANGED <<num, clients, nextClient, wire, message, pending>>

\* A connection, and a thread for it
WsAccept(p) ==
  /\ wsListening /\ at[p] = "knocking"
  /\ Goes(p, "shaking")
  /\ AcceptorGoesOn

WsAcceptFails ==
  /\ ~wsListening
  /\ AcceptorGoesOn
  /\ UNCHANGED at

-----------------------------------------------------------------------------
(* A connection's thread.                                                  *)

Moves(p, from, to) ==
  /\ at[p] = from /\ Goes(p, to)
  /\ FirmwareSame
  /\ UNCHANGED acceptor

\* 5 s without a byte, 32 kB without an end, no key, or the peer is gone.
HandshakeFails(p) ==
  /\ Moves(p, "shaking", "gone")
  /\ UNCHANGED <<num, clients, nextClient, wire, message, pending>>

\* Mutant: the counter is wider than a client number.
WrapNever(n) == n

Wrap(n) == n % WsNums

\* Mutant: the next number is taken for free.
FreeNumUnasked == nextClient

\* The first free number from nextClient on; the one the search does not look
\* at when all the others are taken.
FreeNum ==
  LET free == {i \in 0..(WsNums - 2) : clients[Wrap(nextClient + i)] = NoPeer}
  IN  Wrap(nextClient + IF free = {} THEN WsNums - 1
                        ELSE CHOOSE i \in free : \A j \in free : i <= j)

\* The handshake ends well and the connection becomes a client.
AddClient(p) ==
  /\ Moves(p, "shaking", "joined")
  /\ num' = [num EXCEPT ![p] = FreeNum]
  /\ clients' = [clients EXCEPT ![FreeNum] = p]
  /\ nextClient' = Wrap(FreeNum + 1)
  /\ UNCHANGED <<wire, message, pending>>

\* `peer` and `sent` are not in the code's event: they are there to say which
\* connection a number stood for and what a message was made from.
PushEvent(p, type, frames, sent) ==
  pending' = Append(pending, [num |-> num[p], type |-> type, peer |-> p,
                              frames |-> frames, sent |-> sent])

\* while (active && readWsFrame(...)), tested before every frame
NextRead == IF wsActive THEN "reading" ELSE "leaving"

PushConnected(p) ==
  /\ Moves(p, "joined", NextRead)
  /\ PushEvent(p, "CONNECTED", <<>>, <<>>)
  /\ UNCHANGED <<num, clients, nextClient, wire, message>>

\* recv: the peer is gone, silent for DATA_TIMEOUT_S, or cut off.
ReadFails(p) ==
  /\ Moves(p, "reading", "leaving")
  /\ UNCHANGED <<num, clients, nextClient, wire, message, pending>>

\* What a frame does to the message being put together.
Begins(frame) == frame \in {"data", "dataMore"}
Continues(frame) == frame \in {"cont", "contMore"}
Ends(frame) == frame \in {"data", "cont"}

\* inMessage
Assembling(p) == message[p] # <<>>

\* A data frame begins a message, a continuation goes on with one.
Fits(p, frame) ==
  \/ Begins(frame) /\ ~Assembling(p)
  \/ Continues(frame) /\ Assembling(p)

Sends(p, frame) ==
  /\ wire' = [wire EXCEPT ![p] = Append(@, frame)]
  /\ UNCHANGED <<num, clients, nextClient>>

\* With this frame the message so far
Grown(p) == Append(message[p], Len(wire[p]) + 1)

ReadPing(p) ==
  /\ Moves(p, "reading", NextRead) /\ Sends(p, "ping")
  /\ UNCHANGED <<message, pending>>

\* Mutant: every part begins the message anew.
ReadPartAfresh(p, frame) ==
  /\ Fits(p, frame) /\ ~Ends(frame)
  /\ Moves(p, "reading", NextRead) /\ Sends(p, frame)
  /\ message' = [message EXCEPT ![p] = <<Len(wire[p]) + 1>>]
  /\ UNCHANGED pending

ReadPart(p, frame) ==
  /\ Fits(p, frame) /\ ~Ends(frame)
  /\ Moves(p, "reading", NextRead) /\ Sends(p, frame)
  /\ message' = [message EXCEPT ![p] = Grown(p)]
  /\ UNCHANGED pending

ReadLast(p, frame) ==
  /\ Fits(p, frame) /\ Ends(frame)
  /\ Moves(p, "reading", NextRead)
  /\ PushEvent(p, "MESSAGE", Grown(p), Append(wire[p], frame))
  /\ message' = [message EXCEPT ![p] = <<>>]
  /\ wire' = [wire EXCEPT ![p] = <<>>]
  /\ UNCHANGED <<num, clients, nextClient>>

\* A close, a reserved opcode, a message inside another, nothing to continue.
ReadBreaks(p, frame) ==
  /\ frame # "ping" /\ ~Fits(p, frame)
  /\ Moves(p, "reading", "leaving") /\ Sends(p, frame)
  /\ UNCHANGED <<message, pending>>

PushDisconnected(p) ==
  /\ Moves(p, "leaving", "removing")
  /\ PushEvent(p, "DISCONNECTED", <<>>, <<>>)
  /\ UNCHANGED <<num, clients, nextClient, wire, message>>

\* removeClient and close
RemoveClient(p) ==
  /\ Moves(p, "removing", "gone")
  /\ clients' = [clients EXCEPT ![num[p]] = NoPeer]
  /\ UNCHANGED <<num, nextClient, wire, message, pending>>

-----------------------------------------------------------------------------
(* The firmware's thread.                                                  *)

CallerGoes(from, to) ==
  /\ wsCaller = from /\ wsCaller' = to
  /\ UNCHANGED <<num, wire, message>>

\* A new server: nothing is left of the last one.
WsBegin ==
  /\ CallerGoes("off", "loop")
  /\ wsActive' = TRUE /\ wsListening' = TRUE /\ acceptor' = "accept"
  /\ nextClient' = 0
  /\ told' = [n \in Nums |-> NothingTold]
  /\ UNCHANGED <<at, cut, clients, pending>>

\* The last of the queued events for a number, or what was told before.
LastTold(n) ==
  LET mine == {i \in 1..Len(pending) : pending[i].num = n}
  IN  IF mine = {} THEN told[n]
      ELSE LET e == pending[CHOOSE i \in mine : \A j \in mine : j <= i]
           IN  [type |-> e.type, peer |-> e.peer]

\* loop(): the queue is swapped out under its lock, and the callbacks, which
\* touch nothing of the server, run one by one.
WsLoop ==
  /\ pending # <<>>
  /\ CallerGoes("loop", "loop")
  /\ told' = [n \in Nums |-> LastTold(n)]
  /\ pending' = <<>>
  /\ UNCHANGED <<wsActive, wsListening, acceptor, at, cut, clients, nextClient>>

CloseFlag ==
  /\ CallerGoes("loop", "unlisten")
  /\ wsActive' = FALSE
  /\ UNCHANGED <<wsListening, acceptor, at, cut, clients, nextClient, pending,
                 told>>

CloseUnlisten ==
  /\ CallerGoes("unlisten", "shut")
  /\ wsListening' = FALSE
  /\ at' = [p \in WsPeers |-> IF at[p] = "knocking" THEN "gone" ELSE at[p]]
  /\ UNCHANGED <<wsActive, acceptor, cut, clients, nextClient, pending, told>>

\* shutdown() of every client of the snapshot clientFds() takes
CloseShut ==
  /\ CallerGoes("shut", "clear")
  /\ cut' = cut \cup ({clients[n] : n \in Nums} \ {NoPeer})
  /\ UNCHANGED <<wsActive, wsListening, acceptor, at, clients, nextClient,
                 pending, told>>

CloseClear ==
  /\ CallerGoes("clear", "joinAccept")
  /\ clients' = [n \in Nums |-> NoPeer]
  /\ UNCHANGED <<wsActive, wsListening, acceptor, at, cut, nextClient, pending,
                 told>>

CloseJoinAccept ==
  /\ acceptor = "exited"
  /\ CallerGoes("joinAccept", "joinClients")
  /\ UNCHANGED <<wsActive, wsListening, acceptor, at, cut, clients, nextClient,
                 pending, told>>

\* Mutant: the connections' threads are detached.
CloseDetachClients ==
  /\ CallerGoes("joinClients", "off")
  /\ pending' = <<>>
  /\ UNCHANGED <<wsActive, wsListening, acceptor, at, cut, clients, nextClient,
                 told>>

\* The threads there are at this point are joined and the queue is emptied.
CloseJoinClients ==
  /\ \A p \in WsPeers : at[p] \in {"away", "knocking", "gone"}
  /\ CallerGoes("joinClients", "off")
  /\ pending' = <<>>
  /\ UNCHANGED <<wsActive, wsListening, acceptor, at, cut, clients, nextClient,
                 told>>

\* The in-process reboot skips the destructor and no reset hook knows this
\* server: its threads and its port live on, and nobody polls it again.
Orphan ==
  /\ CallerGoes("loop", "orphan")
  /\ UNCHANGED <<wsActive, wsListening, acceptor, at, cut, clients, nextClient,
                 pending, told>>

Closing ==
  \/ CloseUnlisten \/ CloseShut \/ CloseClear
  \/ CloseJoinAccept \/ CloseJoinClients

-----------------------------------------------------------------------------
\* What a connection's thread does whatever the peer does.
ThreadRuns(p) ==
  \/ HandshakeFails(p) \/ PushConnected(p)
  \/ PushDisconnected(p) \/ RemoveClient(p)
  \/ p \in cut /\ ReadFails(p)

PeerActs(p) == WsAccept(p) \/ AddClient(p) \/ ReadFails(p)

PeerSends(p) ==
  \/ ReadPing(p)
  \/ \E frame \in Frames :
       ReadPart(p, frame) \/ ReadLast(p, frame) \/ ReadBreaks(p, frame)

-----------------------------------------------------------------------------
(* Properties.                                                             *)

\* What the firmware's callback is told of a client number is a sequence of
\* lives: connected, that connection's messages, disconnected.  A number goes
\* to another connection only after its last owner's end is in the queue.
\* Stated over what is told and queued, until close(): what is queued from
\* then on is thrown away.
Follows(e, last) ==
  IF e.type = "CONNECTED" THEN last.type = "DISCONNECTED"
  ELSE last.type # "DISCONNECTED" /\ last.peer = e.peer

EventsAlternate ==
  wsCaller = "loop" =>
    \A i \in 1..Len(pending) :
      LET before == {j \in 1..(i - 1) : pending[j].num = pending[i].num}
      IN  Follows(pending[i],
                  IF before = {} THEN told[pending[i].num]
                  ELSE pending[CHOOSE j \in before : \A k \in before : k <= j])

\* A MESSAGE event carries one message of RFC 6455, 5.4: it starts with a data
\* frame, ends with its only FIN, and every frame its peer has sent since the
\* message before is in it, in order, but the control frames.
IsWholeMessage(frames, sent) ==
  /\ Begins(sent[frames[1]]) /\ Ends(sent[frames[Len(frames)]])
  /\ \A i \in 2..Len(frames) :
       Continues(sent[frames[i]]) /\ frames[i - 1] < frames[i]
  /\ \A i \in 1..(Len(frames) - 1) : ~Ends(sent[frames[i]])
  /\ \A place \in 1..Len(sent) :
       sent[place] = "ping" \/ \E i \in 1..Len(frames) : frames[i] = place

MessagesWhole ==
  \A i \in 1..Len(pending) :
    pending[i].type = "MESSAGE" =>
      IsWholeMessage(pending[i].frames, pending[i].sent)

\* close() leaves nothing behind: no thread that could queue an event for a
\* server that is gone, no number taken, no event of the old server left.
ClosedIsQuiet ==
  wsCaller = "off" =>
    /\ acceptor \in {"none", "exited"} /\ pending = <<>>
    /\ \A p \in WsPeers : at[p] \in {"away", "gone"}
    /\ \A n \in Nums : clients[n] = NoPeer
=============================================================================
