----------------------------- MODULE WebServer -----------------------------
(***************************************************************************)
(* The HTTP server the firmware's file transfer links against              *)
(* (src/src/WebServer.cpp).  A worker thread accepts one connection at a   *)
(* time, reads the request, parks it and waits; handleClient(), called by  *)
(* the firmware's loop on the main thread, runs the handlers of the parked *)
(* request and signals.  stop() is called when the transfer is left and,   *)
(* from the reset hooks, by a reboot that a handler asked for.             *)
(*                                                                         *)
(* A body is BodyChunks pieces.  A peer may stop sending at any piece or   *)
(* go on sending slowly for ever: the receive timeout re-arms with every   *)
(* byte.                                                                   *)
(***************************************************************************)
EXTENDS Naturals, Peers

CONSTANTS
  BodyChunks,   \* pieces of a request body
  BeginsAgain   \* whether the firmware begins a server that it has stopped,
                \* instead of constructing one for each transfer, as
                \* docs/network-surface-hunt-2026-09-04.md:27 says it does
ASSUME BodyAssumption == BodyChunks \in Nat /\ BeginsAgain \in BOOLEAN

VARIABLES
  webActive,     \* impl_->active
  webListening,  \* impl_->fd >= 0
  worker,        \* where the accept worker is
  client,        \* its local `client`
  activeClient,  \* impl_->activeClient
  request,       \* currentClient and what kind of handler the route has
  received,      \* pieces of the body read so far
  dispatch,      \* dispatchPending, dispatchDone, dispatchAbandoned
  sock,          \* each connection's socket
  upload,        \* what its upload handler was told last; "left": it threw, or
                 \* restarted the device, between START and END
  caller,        \* where the main thread is in this server
  taken          \* stop()'s local `client`

requestVars == <<client, activeClient, request, received>>
webVars == <<webActive, webListening, worker, client, activeClient, request,
             received, dispatch, sock, upload, caller, taken>>

\* "plain": form and GET routes; "raw": a streamed PUT; "multipart": a form
\* upload, whose handler is called with the parsed parts, or with an abort.
Kinds == {"plain", "raw", "multipart"}
NoRequest == [peer |-> NoPeer, kind |-> "plain"]
NoDispatch == [pending |-> FALSE, done |-> FALSE, abandoned |-> FALSE]
Requests == [peer : HttpPeers \cup {NoPeer}, kind : Kinds]

WorkerPlaces == {"none", "accept", "publish", "recheck", "header",
                 "body", "park", "parked", "release", "close",
                 "served", "closeServed", "exited"}
StopPlaces == {"stop", "abandon", "unlisten", "exchange", "shut", "join"}
CallerPlaces == {"off", "loop", "handler"} \cup StopPlaces

WebTypeOK ==
  /\ webActive \in BOOLEAN /\ webListening \in BOOLEAN
  /\ worker \in WorkerPlaces
  /\ client \in HttpPeers \cup {NoPeer}
  /\ activeClient \in HttpPeers \cup {NoPeer}
  /\ request \in Requests
  /\ received \in 0..BodyChunks
  /\ dispatch \in [pending : BOOLEAN, done : BOOLEAN, abandoned : BOOLEAN]
  /\ sock \in [HttpPeers -> {"away", "knocking", "open", "cut", "closed"}]
  /\ upload \in [HttpPeers -> {"none", "started", "ended", "aborted", "left"}]
  /\ caller \in CallerPlaces
  /\ taken \in HttpPeers \cup {NoPeer}

WebInit ==
  /\ webActive = FALSE /\ webListening = FALSE
  /\ worker = "none" /\ client = NoPeer /\ activeClient = NoPeer
  /\ request = NoRequest /\ received = 0
  /\ dispatch = NoDispatch
  /\ sock = [p \in HttpPeers |-> "away"]
  /\ upload = [p \in HttpPeers |-> "none"]
  /\ caller = "off" /\ taken = NoPeer

-----------------------------------------------------------------------------
(* The peers. *)

\* A connection gets the next free name.
Connect ==
  LET p == CHOOSE q \in HttpPeers : sock[q] = "away"
  IN  /\ webListening /\ \E q \in HttpPeers : sock[q] = "away"
      /\ sock' = [sock EXCEPT ![p] = "knocking"]
      /\ UNCHANGED <<webActive, webListening, worker, requestVars, dispatch,
                     upload, caller, taken>>

-----------------------------------------------------------------------------
(* The accept worker. *)

WorkerGoes(to) ==
  /\ worker' = to
  /\ UNCHANGED <<webActive, webListening, caller, taken>>

\* while (active) around accept(): tested again before every accept()
NextAccept == IF webActive THEN "accept" ELSE "exited"

Accept(p) ==
  /\ worker = "accept" /\ webListening /\ sock[p] = "knocking"
  /\ sock' = [sock EXCEPT ![p] = "open"]
  /\ client' = p
  /\ WorkerGoes("publish")
  /\ UNCHANGED <<activeClient, request, received, dispatch, upload>>

\* accept() on the socket stop() shut down
AcceptFails ==
  /\ worker = "accept" /\ ~webListening
  /\ WorkerGoes(NextAccept)
  /\ UNCHANGED <<requestVars, dispatch, sock, upload>>

Publish ==
  /\ worker = "publish"
  /\ activeClient' = client
  /\ WorkerGoes("recheck")
  /\ UNCHANGED <<client, request, received, dispatch, sock, upload>>

\* Mutant: the flag is not asked again.
RecheckNever ==
  /\ worker = "recheck"
  /\ WorkerGoes("header")
  /\ UNCHANGED <<requestVars, dispatch, sock, upload>>

\* Asked again once the descriptor is published: stop() may have looked for
\* it between accept() and the store.
Recheck ==
  /\ worker = "recheck"
  /\ WorkerGoes(IF webActive THEN "header" ELSE "release")
  /\ UNCHANGED <<requestVars, dispatch, sock, upload>>

\* No whole header before the deadline, or the peer is gone or cut off; or a
\* request refused on its head: chunked, a bad length, a NUL in the path.
HeaderRefused ==
  /\ worker = "header"
  /\ WorkerGoes("release")
  /\ UNCHANGED <<requestVars, dispatch, sock, upload>>

\* A raw handler is told of the start before the first byte of the body.
StartOf(kind) == IF kind = "raw" THEN [upload EXCEPT ![client] = "started"]
                                 ELSE upload

HeaderRead(kind) ==
  /\ worker = "header"
  /\ request' = [peer |-> client, kind |-> kind]
  /\ received' = 0
  /\ upload' = StartOf(kind)
  /\ WorkerGoes("body")
  /\ UNCHANGED <<client, activeClient, dispatch, sock>>

\* More than MAX_BODY_SIZE announced: the raw handler sees a start and an
\* abort, and the body is not read.
BodyTooLarge(kind) ==
  /\ worker = "header"
  /\ request' = [peer |-> client, kind |-> kind]
  /\ upload' = IF kind = "raw" THEN [upload EXCEPT ![client] = "aborted"]
                               ELSE upload
  /\ WorkerGoes("release")
  /\ UNCHANGED <<client, activeClient, received, dispatch, sock>>

BodyChunk ==
  /\ worker = "body" /\ received < BodyChunks
  /\ received' = received + 1
  /\ UNCHANGED <<webActive, webListening, worker, client, activeClient,
                 request, dispatch, sock, upload, caller, taken>>

\* Mutant: the raw handler is not told.
BodyCutShortSilently ==
  /\ worker = "body" /\ received < BodyChunks
  /\ upload' = IF request.kind = "multipart"
               THEN [upload EXCEPT ![client] = "aborted"] ELSE upload
  /\ WorkerGoes("release")
  /\ UNCHANGED <<requestVars, dispatch, sock>>

\* The receive fails short of the announced length.  The handlers of a raw
\* and of a multipart upload are told here, by the worker.
BodyCutShort ==
  /\ worker = "body" /\ received < BodyChunks
  /\ upload' = IF request.kind \in {"raw", "multipart"}
               THEN [upload EXCEPT ![client] = "aborted"] ELSE upload
  /\ WorkerGoes("release")
  /\ UNCHANGED <<requestVars, dispatch, sock>>

BodyComplete ==
  /\ worker = "body" /\ received = BodyChunks
  /\ upload' = IF request.kind = "raw"
               THEN [upload EXCEPT ![client] = "ended"] ELSE upload
  /\ WorkerGoes("park")
  /\ UNCHANGED <<requestVars, dispatch, sock>>

\* Mutant: the last request's answer is taken for this one's.
ParkKeepingDone ==
  /\ worker = "park"
  /\ dispatch' = [dispatch EXCEPT !.pending = TRUE]
  /\ WorkerGoes("parked")
  /\ UNCHANGED <<requestVars, sock, upload>>

Park ==
  /\ worker = "park"
  /\ dispatch' = [dispatch EXCEPT !.pending = TRUE, !.done = FALSE]
  /\ WorkerGoes("parked")
  /\ UNCHANGED <<requestVars, sock, upload>>

Unpark ==
  /\ worker = "parked" /\ (dispatch.done \/ dispatch.abandoned)
  /\ WorkerGoes("served")
  /\ UNCHANGED <<requestVars, dispatch, sock, upload>>

\* activeClient = -1 first, so that a stop() that comes later does not shut
\* down a descriptor that is somebody else's by then.
Release(from, to) ==
  /\ worker = from
  /\ activeClient' = NoPeer
  /\ WorkerGoes(to)
  /\ UNCHANGED <<client, request, received, dispatch, sock, upload>>

CloseClient ==
  /\ sock' = [sock EXCEPT ![client] = "closed"]
  /\ WorkerGoes(NextAccept)
  /\ UNCHANGED <<client, activeClient, received, dispatch, upload>>

CloseRefused == worker = "close" /\ CloseClient /\ UNCHANGED request

\* resetRequest() after the close
CloseServed == worker = "closeServed" /\ CloseClient /\ request' = NoRequest

\* What the worker does whatever the peer does.
WorkerRuns ==
  \/ AcceptFails \/ Publish \/ Recheck \/ HeaderRefused
  \/ BodyComplete \/ Park \/ Unpark
  \/ Release("release", "close") \/ Release("served", "closeServed")
  \/ CloseRefused \/ CloseServed
  \/ client # NoPeer /\ sock[client] = "cut" /\ BodyCutShort

\* What it does when the peer sends, pauses for TRANSFER_TIMEOUT_S or leaves.
WorkerHears ==
  \/ \E p \in HttpPeers : Accept(p)
  \/ \E kind \in Kinds : HeaderRead(kind) \/ BodyTooLarge(kind)
  \/ BodyChunk \/ BodyCutShort

-----------------------------------------------------------------------------
(* The main thread, in the server.                                         *)

\* The server that begins: a new one, with its initializers, or the one that was
\* stopped, as stop() left it.  begin() touches none of this.
Server ==
  IF BeginsAgain THEN UNCHANGED <<activeClient, request, dispatch>>
  ELSE activeClient' = NoPeer /\ request' = NoRequest /\ dispatch' = NoDispatch

\* Mutant: the transfer begins the server that was stopped.
WebBeginStopped ==
  /\ caller = "off"
  /\ webActive' = TRUE /\ webListening' = TRUE
  /\ worker' = "accept" /\ client' = NoPeer /\ received' = 0
  /\ caller' = "loop"
  /\ UNCHANGED <<activeClient, request, dispatch, sock, upload, taken>>

WebBegin ==
  /\ caller = "off" /\ Server
  /\ webActive' = TRUE /\ webListening' = TRUE
  /\ worker' = "accept" /\ client' = NoPeer /\ received' = 0
  /\ caller' = "loop"
  /\ UNCHANGED <<sock, upload, taken>>

\* socket(), bind() or listen() fails: nobody listens, there is no worker, and
\* the firmware, which is not told, polls and stops the server all the same.
WebBeginFails ==
  /\ caller = "off" /\ Server
  /\ caller' = "loop"
  /\ UNCHANGED <<webActive, webListening, worker, client, received, sock,
                 upload, taken>>

MainGoes(to) ==
  /\ caller' = to
  /\ UNCHANGED <<worker, client, request, received>>

HandleClient ==
  /\ caller = "loop" /\ dispatch.pending
  /\ dispatch' = [dispatch EXCEPT !.pending = FALSE]
  /\ MainGoes("handler")
  /\ UNCHANGED <<webActive, webListening, activeClient, sock, upload, taken>>

\* The upload handler of a multipart form is called with START, the WRITEs and
\* END of a part with a file, one call after the other.  A body that does not
\* parse starts none; a further part takes the same two steps again.
UploadTold(from, to) ==
  /\ caller = "handler" /\ request.kind = "multipart"
  /\ upload[request.peer] = from
  /\ upload' = [upload EXCEPT ![request.peer] = to]
  /\ UNCHANGED <<webActive, webListening, worker, requestVars, dispatch, sock,
                 caller, taken>>

PartStarts == UploadTold("none", "started")
PartEnds == UploadTold("started", "ended")

\* The handler is between START and END ...
Midway == request.kind = "multipart" /\ upload[request.peer] = "started"

\* ... and what it leaves behind when it does not come back there.
LeftBehind ==
  [p \in HttpPeers |-> IF Midway /\ p = request.peer THEN "left" ELSE upload[p]]

\* The guard signals the worker, however the handler ends.
Signal ==
  /\ dispatch' = [dispatch EXCEPT !.done = TRUE]
  /\ MainGoes("loop")
  /\ UNCHANGED <<webActive, webListening, activeClient, sock, taken>>

HandlerReturns == caller = "handler" /\ ~Midway /\ UNCHANGED upload /\ Signal

HandlerThrows == caller = "handler" /\ upload' = LeftBehind /\ Signal

HandlerRuns == PartStarts \/ PartEnds \/ HandlerReturns \/ HandlerThrows

\* The transfer is left; or the handler calls ESP.restart(), the reset hooks
\* stop every live server, and the handler never returns.
Leave ==
  /\ caller \in {"loop", "handler"}
  /\ upload' = IF caller = "handler" THEN LeftBehind ELSE upload
  /\ MainGoes("stop")
  /\ UNCHANGED <<webActive, webListening, activeClient, dispatch, sock, taken>>

StopFlag ==
  /\ caller = "stop"
  /\ webActive' = FALSE
  /\ MainGoes("abandon")
  /\ UNCHANGED <<webListening, activeClient, dispatch, sock, upload, taken>>

StopAbandon ==
  /\ caller = "abandon"
  /\ dispatch' = [dispatch EXCEPT !.abandoned = TRUE]
  /\ MainGoes("unlisten")
  /\ UNCHANGED <<webActive, webListening, activeClient, sock, upload, taken>>

StopUnlisten ==
  /\ caller = "unlisten"
  /\ webListening' = FALSE
  /\ sock' = [p \in HttpPeers |->
                IF sock[p] = "knocking" THEN "closed" ELSE sock[p]]
  /\ MainGoes("exchange")
  /\ UNCHANGED <<webActive, activeClient, dispatch, upload, taken>>

StopExchange ==
  /\ caller = "exchange"
  /\ taken' = activeClient /\ activeClient' = NoPeer
  /\ MainGoes("shut")
  /\ UNCHANGED <<webActive, webListening, dispatch, sock, upload>>

\* A shutdown() of what the worker closed in between has no effect on it.
StopShut ==
  /\ caller = "shut"
  /\ sock' = [p \in HttpPeers |->
                IF p = taken /\ sock[p] = "open" THEN "cut" ELSE sock[p]]
  /\ taken' = NoPeer
  /\ MainGoes("join")
  /\ UNCHANGED <<webActive, webListening, activeClient, dispatch, upload>>

\* A server whose begin() failed has nobody to join.
StopJoin ==
  /\ caller = "join" /\ worker \in {"exited", "none"}
  /\ caller' = "off" /\ worker' = "none"
  /\ UNCHANGED <<webActive, webListening, requestVars, dispatch, sock, upload,
                 taken>>

Stopping == StopAbandon \/ StopUnlisten \/ StopExchange \/ StopShut \/ StopJoin

\* What the main thread does whatever the reader of the device asks.
MainServes == HandleClient \/ HandlerRuns

-----------------------------------------------------------------------------
WebNext ==
  \/ Connect
  \/ WorkerRuns \/ WorkerHears
  \/ WebBegin \/ WebBeginFails \/ MainServes \/ Leave \/ StopFlag \/ Stopping

WebSpec == WebInit /\ [][WebNext]_webVars

-----------------------------------------------------------------------------
(* Properties. *)

\* While the main thread runs a handler (dispatchParkedRequest), the worker
\* sits on the condition variable and touches nothing of the request: the
\* descriptor the answer is sent on is the one the request came in on and has
\* not been closed under it, and nobody can park another request over it.  It
\* takes a server that was never stopped: nothing takes the flag that stop()
\* raises down again, so a server begun anew would let go of every request.
DispatchOwnsRequest ==
  caller = "handler" =>
    /\ worker = "parked" /\ ~dispatch.done /\ ~dispatch.pending
    /\ request.peer = client
    /\ \E p \in HttpPeers : client = p /\ sock[p] = "open"

\* Whoever was told that an upload started is told how it ended before its
\* connection is closed, also when stop() cuts the peer in mid-body; and "end"
\* is said of a whole body only.  A handler that itself throws or restarts the
\* device between START and END has left its upload: nobody tells it more.  But
\* neither the worker nor a stop() ends one between two of its calls.
UploadsEnd ==
  /\ \A p \in HttpPeers : sock[p] = "closed" => upload[p] # "started"
  /\ \A p \in HttpPeers :
       /\ worker \in {"body", "park", "parked"} /\ client = p
       /\ upload[p] = "ended"
       => received = BodyChunks
=============================================================================
