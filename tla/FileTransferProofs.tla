------------------------- MODULE FileTransferProofs -------------------------
(***************************************************************************)
(* The parts of a file transfer.  First the HTTP server, for any set of    *)
(* connections and any length of body: the hand-off of a request to the    *)
(* main thread, and what an upload is told.  Then the books handed to the  *)
(* app, for any documents and any number of names: what their properties   *)
(* promise is kept by what is promised to the job in hand and to the       *)
(* request that waits.  A file that is being copied or written is its      *)
(* job's alone, a request for the card's copy finds it whole, and while    *)
(* the path of an imported drop is still kept there is such a request,     *)
(* which is taken first.  Last, these and the WebSocket server inside      *)
(* FileTransfer, every step of which is a step of each or leaves it alone. *)
(***************************************************************************)
EXTENDS FileTransfer, WebSocketsServerProofs, TLAPS

\* The worker has a connection from accept() to close().
Holding == {"publish", "recheck", "header", "body", "park", "parked",
            "release", "close", "served", "closeServed"}

\* The worker's connection is the only one that is open, and is cut off by
\* stop() alone, when no handler can be running.
OneOpen ==
  /\ worker \in Holding =>
       client \in HttpPeers /\ sock[client] \in {"open", "cut"}
  /\ \A p \in HttpPeers : sock[p] \in {"open", "cut"} =>
       worker \in Holding /\ client = p
  /\ \A p \in HttpPeers : sock[p] = "cut" => caller = "join"

\* A server that is off has no worker, nor has one whose begin() failed; a worker
\* ends only once stop() is on.
WorkerLife ==
  /\ caller = "off" => worker = "none"
  /\ worker = "exited" => ~webActive
  /\ caller \in {"loop", "handler", "stop"} /\ worker # "none" => webActive

\* Between the park and the signal the request is in one place, in a server that
\* was not stopped before.
HandOff ==
  /\ worker \in {"body", "park", "parked"} => request.peer = client
  /\ caller \in {"loop", "handler"} => ~dispatch.abandoned
  /\ caller = "loop" /\ dispatch.pending => worker = "parked" /\ ~dispatch.done
  /\ caller = "handler" =>
       worker = "parked" /\ ~dispatch.done /\ ~dispatch.pending

\* What an upload handler has been told, by where its connection is.
Told ==
  /\ \A p \in HttpPeers : sock[p] \in {"away", "knocking"} => upload[p] = "none"
  /\ \A p \in HttpPeers :
       client = p /\ worker \in {"publish", "recheck", "header"}
         => upload[p] = "none"
  /\ \A p \in HttpPeers :
       client = p /\ worker = "body" => upload[p] \in {"none", "started"}
  /\ \A p \in HttpPeers : upload[p] = "started" =>
       /\ client = p
       /\ worker = "body" \/ (caller = "handler" /\ request.kind = "multipart")
  /\ worker = "body" =>
       \A p \in HttpPeers : client = p /\ upload[p] = "started"
                              => request.kind = "raw"
  /\ worker \in {"park", "parked"} => received = BodyChunks

UploadWords == {"none", "started", "ended", "aborted", "left"}

\* The parts of WebTypeOK: where the threads are, on whose behalf, and the
\* tables.
PlaceTypes ==
  /\ webActive \in BOOLEAN /\ webListening \in BOOLEAN
  /\ worker \in WorkerPlaces /\ caller \in CallerPlaces
PeerTypes ==
  /\ client \in HttpPeers \cup {NoPeer}
  /\ activeClient \in HttpPeers \cup {NoPeer}
  /\ taken \in HttpPeers \cup {NoPeer}
  /\ request \in Requests /\ received \in 0..BodyChunks
TableTypes ==
  /\ dispatch \in [pending : BOOLEAN, done : BOOLEAN, abandoned : BOOLEAN]
  /\ sock \in [HttpPeers -> {"away", "knocking", "open", "cut", "closed"}]
  /\ upload \in [HttpPeers -> UploadWords]

\* The last two are of a server that the firmware does not begin again: such a
\* server lets go of every request (BeginsAgain).
WebInv ==
  WebTypeOK /\ OneOpen /\ WorkerLife /\ (~BeginsAgain => HandOff /\ Told)
-----------------------------------------------------------------------------
\* The server is off and nobody has connected.
LEMMA WebInitInv == ASSUME WebInit PROVE WebInv
<1> USE PeerAssumption, BodyAssumption DEF WebInit, NoDispatch
<1>1. WebTypeOK
  <2>1. PlaceTypes
    BY DEF PlaceTypes, WorkerPlaces, CallerPlaces
  <2>2. PeerTypes
    BY DEF PeerTypes, Requests, NoRequest, Kinds
  <2>3. TableTypes
    BY DEF TableTypes, UploadWords
  <2> QED BY <2>1, <2>2, <2>3 DEF PlaceTypes, PeerTypes, TableTypes, WebTypeOK, UploadWords
<1>2. OneOpen /\ WorkerLife /\ HandOff /\ Told
  BY DEF OneOpen, Holding, WorkerLife, HandOff, Told
<1> QED BY <1>1, <1>2 DEF WebInv

\* Every step keeps the types.
LEMMA TypeStep == ASSUME WebTypeOK, [WebNext]_webVars PROVE WebTypeOK'
<1> USE PeerAssumption, BodyAssumption DEF WebTypeOK, requestVars
<1>0. PlaceTypes' /\ PeerTypes' /\ TableTypes' => WebTypeOK'
  BY DEF PlaceTypes, PeerTypes, TableTypes, UploadWords
<1>1. ASSUME Connect PROVE WebTypeOK'
  BY <1>1 DEF Connect, WorkerPlaces, CallerPlaces, StopPlaces, Requests
<1>2. ASSUME AcceptFails PROVE WebTypeOK'
  BY <1>2 DEF AcceptFails, WorkerGoes, NextAccept, WorkerPlaces, CallerPlaces, StopPlaces, Requests
<1>3. ASSUME Publish PROVE WebTypeOK'
  BY <1>3 DEF Publish, WorkerGoes, WorkerPlaces, CallerPlaces, StopPlaces, Requests
<1>4. ASSUME Recheck PROVE WebTypeOK'
  BY <1>4 DEF Recheck, WorkerGoes, WorkerPlaces, CallerPlaces, StopPlaces, Requests
<1>5. ASSUME HeaderRefused PROVE WebTypeOK'
  BY <1>5 DEF HeaderRefused, WorkerGoes, WorkerPlaces, CallerPlaces, StopPlaces, Requests
<1>6. ASSUME BodyComplete PROVE WebTypeOK'
  <2>1. PlaceTypes'
    BY <1>6 DEF BodyComplete, WorkerGoes, PlaceTypes, WorkerPlaces, CallerPlaces, StopPlaces
  <2>2. PeerTypes'
    BY <1>6 DEF BodyComplete, WorkerGoes, PeerTypes, Requests
  <2>3. TableTypes'
    BY <1>6 DEF BodyComplete, WorkerGoes, TableTypes, UploadWords
  <2> QED BY <2>1, <2>2, <2>3 DEF PlaceTypes, PeerTypes, TableTypes, UploadWords
<1>7. ASSUME Park PROVE WebTypeOK'
  <2>1. PlaceTypes'
    BY <1>7 DEF Park, WorkerGoes, PlaceTypes, WorkerPlaces, CallerPlaces, StopPlaces
  <2>2. PeerTypes'
    BY <1>7 DEF Park, WorkerGoes, PeerTypes, Requests
  <2>3. TableTypes'
    BY <1>7 DEF Park, WorkerGoes, TableTypes, UploadWords
  <2> QED BY <2>1, <2>2, <2>3 DEF PlaceTypes, PeerTypes, TableTypes, UploadWords
<1>8. ASSUME Unpark PROVE WebTypeOK'
  BY <1>8 DEF Unpark, WorkerGoes, WorkerPlaces, CallerPlaces, StopPlaces, Requests
<1>9. ASSUME Release("release", "close") PROVE WebTypeOK'
  BY <1>9 DEF Release, WorkerGoes, WorkerPlaces, CallerPlaces, StopPlaces, Requests
<1>10. ASSUME Release("served", "closeServed") PROVE WebTypeOK'
  BY <1>10 DEF Release, WorkerGoes, WorkerPlaces, CallerPlaces, StopPlaces, Requests
<1>11. ASSUME CloseRefused PROVE WebTypeOK'
  <2>1. PlaceTypes'
    BY <1>11 DEF CloseRefused, CloseClient, WorkerGoes, NextAccept, PlaceTypes, WorkerPlaces, CallerPlaces, StopPlaces
  <2>2. PeerTypes'
    BY <1>11 DEF CloseRefused, CloseClient, WorkerGoes, NextAccept, PeerTypes, Requests
  <2>3. TableTypes'
    BY <1>11 DEF CloseRefused, CloseClient, WorkerGoes, NextAccept, TableTypes, UploadWords
  <2> QED BY <2>1, <2>2, <2>3 DEF PlaceTypes, PeerTypes, TableTypes, UploadWords
<1>12. ASSUME CloseServed PROVE WebTypeOK'
  <2>1. PlaceTypes'
    <3>1. worker' \in WorkerPlaces
      BY <1>12 DEF CloseServed, CloseClient, WorkerGoes, NextAccept, WorkerPlaces
    <3>2. UNCHANGED <<webActive, webListening, caller>>
      BY <1>12 DEF CloseServed, CloseClient, WorkerGoes
    <3> QED BY <3>1, <3>2 DEF PlaceTypes
  <2>2. PeerTypes'
    BY <1>12 DEF CloseServed, CloseClient, WorkerGoes, PeerTypes, Requests, NoRequest, Kinds
  <2>3. TableTypes'
    BY <1>12 DEF CloseServed, CloseClient, TableTypes, UploadWords
  <2> HIDE DEF WebTypeOK
  <2> QED BY <1>0, <2>1, <2>2, <2>3
<1>13. ASSUME BodyCutShort PROVE WebTypeOK'
  <2>1. PlaceTypes'
    BY <1>13 DEF BodyCutShort, WorkerGoes, PlaceTypes, WorkerPlaces, CallerPlaces, StopPlaces
  <2>2. PeerTypes'
    BY <1>13 DEF BodyCutShort, WorkerGoes, PeerTypes, Requests
  <2>3. TableTypes'
    BY <1>13 DEF BodyCutShort, WorkerGoes, TableTypes, UploadWords
  <2> QED BY <2>1, <2>2, <2>3 DEF PlaceTypes, PeerTypes, TableTypes, UploadWords
<1>14. ASSUME NEW p \in HttpPeers, Accept(p) PROVE WebTypeOK'
  BY <1>14 DEF Accept, WorkerGoes, WorkerPlaces, CallerPlaces, StopPlaces, Requests
<1>15. ASSUME NEW kind \in Kinds, HeaderRead(kind) PROVE WebTypeOK'
  <2>1. PlaceTypes'
    BY <1>15 DEF HeaderRead, WorkerGoes, StartOf, PlaceTypes, WorkerPlaces, CallerPlaces, StopPlaces
  <2>2. PeerTypes'
    BY <1>15 DEF HeaderRead, WorkerGoes, StartOf, PeerTypes, Requests
  <2>3. TableTypes'
    BY <1>15 DEF HeaderRead, WorkerGoes, StartOf, TableTypes, UploadWords
  <2> QED BY <2>1, <2>2, <2>3 DEF PlaceTypes, PeerTypes, TableTypes, UploadWords
<1>16. ASSUME NEW kind \in Kinds, BodyTooLarge(kind) PROVE WebTypeOK'
  <2>1. PlaceTypes'
    BY <1>16 DEF BodyTooLarge, WorkerGoes, PlaceTypes, WorkerPlaces, CallerPlaces, StopPlaces
  <2>2. PeerTypes'
    BY <1>16 DEF BodyTooLarge, WorkerGoes, PeerTypes, Requests
  <2>3. TableTypes'
    BY <1>16 DEF BodyTooLarge, WorkerGoes, TableTypes, UploadWords
  <2> QED BY <2>1, <2>2, <2>3 DEF PlaceTypes, PeerTypes, TableTypes, UploadWords
<1>17. ASSUME BodyChunk PROVE WebTypeOK'
  <2>1. received' \in 0..BodyChunks
    BY <1>17 DEF BodyChunk
  <2>2. PlaceTypes' /\ TableTypes'
    BY <1>17 DEF BodyChunk, PlaceTypes, TableTypes, UploadWords
  <2>3. /\ client' \in HttpPeers \cup {NoPeer} /\ taken' \in HttpPeers \cup {NoPeer}
        /\ activeClient' \in HttpPeers \cup {NoPeer} /\ request' \in Requests
    BY <1>17 DEF BodyChunk
  <2>4. PeerTypes'
    BY <2>1, <2>3 DEF PeerTypes
  <2> HIDE DEF WebTypeOK
  <2> QED BY <1>0, <2>2, <2>4
<1>18. ASSUME WebBegin PROVE WebTypeOK'
  <2>1. PlaceTypes'
    BY <1>18 DEF WebBegin, Server, NoDispatch, PlaceTypes, WorkerPlaces, CallerPlaces
  <2>2. PeerTypes'
    BY <1>18 DEF WebBegin, Server, NoDispatch, PeerTypes, Requests, NoRequest, Kinds
  <2>3. TableTypes'
    <3>1. dispatch' \in [pending : BOOLEAN, done : BOOLEAN, abandoned : BOOLEAN]
      <4>1. dispatch' = dispatch \/ dispatch' = NoDispatch
        BY <1>18 DEF WebBegin, Server
      <4>2. NoDispatch \in [pending : BOOLEAN, done : BOOLEAN, abandoned : BOOLEAN]
        BY DEF NoDispatch
      <4> QED BY <4>1, <4>2
    <3>2. UNCHANGED <<sock, upload>>
      BY <1>18 DEF WebBegin
    <3> QED BY <3>1, <3>2 DEF TableTypes, UploadWords
  <2> HIDE DEF WebTypeOK
  <2> QED BY <1>0, <2>1, <2>2, <2>3
<1>19. ASSUME HandleClient PROVE WebTypeOK'
  <2>1. PlaceTypes'
    BY <1>19 DEF HandleClient, MainGoes, PlaceTypes, WorkerPlaces, CallerPlaces, StopPlaces
  <2>2. PeerTypes'
    BY <1>19 DEF HandleClient, MainGoes, PeerTypes, Requests
  <2>3. TableTypes'
    BY <1>19 DEF HandleClient, MainGoes, TableTypes, UploadWords
  <2> QED BY <2>1, <2>2, <2>3 DEF PlaceTypes, PeerTypes, TableTypes, UploadWords
<1>20. ASSUME HandlerReturns PROVE WebTypeOK'
  <2>1. PlaceTypes'
    BY <1>20 DEF HandlerReturns, Signal, MainGoes, PlaceTypes, WorkerPlaces, CallerPlaces, StopPlaces
  <2>2. PeerTypes'
    BY <1>20 DEF HandlerReturns, Signal, MainGoes, PeerTypes, Requests
  <2>3. TableTypes'
    BY <1>20 DEF HandlerReturns, Signal, MainGoes, TableTypes, UploadWords
  <2> HIDE DEF WebTypeOK
  <2> QED BY <1>0, <2>1, <2>2, <2>3
<1>21. ASSUME Leave PROVE WebTypeOK'
  <2>1. PlaceTypes'
    BY <1>21 DEF Leave, LeftBehind, Midway, MainGoes, PlaceTypes, WorkerPlaces, CallerPlaces, StopPlaces
  <2>2. PeerTypes'
    BY <1>21 DEF Leave, LeftBehind, Midway, MainGoes, PeerTypes, Requests
  <2>3. TableTypes'
    BY <1>21 DEF Leave, LeftBehind, Midway, MainGoes, TableTypes, UploadWords
  <2> HIDE DEF WebTypeOK
  <2> QED BY <1>0, <2>1, <2>2, <2>3
<1>22. ASSUME StopFlag PROVE WebTypeOK'
  <2>1. PlaceTypes'
    BY <1>22 DEF StopFlag, MainGoes, PlaceTypes, WorkerPlaces, CallerPlaces, StopPlaces
  <2>2. PeerTypes'
    BY <1>22 DEF StopFlag, MainGoes, PeerTypes, Requests
  <2>3. TableTypes'
    BY <1>22 DEF StopFlag, MainGoes, TableTypes, UploadWords
  <2> QED BY <2>1, <2>2, <2>3 DEF PlaceTypes, PeerTypes, TableTypes, UploadWords
<1>23. ASSUME StopAbandon PROVE WebTypeOK'
  BY <1>23 DEF StopAbandon, MainGoes, WorkerPlaces, CallerPlaces, StopPlaces, Requests
<1>24. ASSUME StopUnlisten PROVE WebTypeOK'
  <2>1. PlaceTypes'
    BY <1>24 DEF StopUnlisten, MainGoes, PlaceTypes, WorkerPlaces, CallerPlaces, StopPlaces
  <2>2. PeerTypes'
    BY <1>24 DEF StopUnlisten, MainGoes, PeerTypes, Requests
  <2>3. TableTypes'
    BY <1>24 DEF StopUnlisten, MainGoes, TableTypes, UploadWords
  <2> QED BY <2>1, <2>2, <2>3 DEF PlaceTypes, PeerTypes, TableTypes, UploadWords
<1>25. ASSUME StopExchange PROVE WebTypeOK'
  BY <1>25 DEF StopExchange, MainGoes, WorkerPlaces, CallerPlaces, StopPlaces, Requests
<1>26. ASSUME StopShut PROVE WebTypeOK'
  BY <1>26 DEF StopShut, MainGoes, WorkerPlaces, CallerPlaces, StopPlaces, Requests
<1>27. ASSUME StopJoin PROVE WebTypeOK'
  BY <1>27 DEF StopJoin, WorkerPlaces, CallerPlaces, StopPlaces, Requests
<1>28. ASSUME UNCHANGED webVars PROVE WebTypeOK'
  BY <1>28 DEF webVars, WorkerPlaces, CallerPlaces, StopPlaces, Requests
<1>29. ASSUME HandlerThrows PROVE WebTypeOK'
  <2>1. PlaceTypes'
    BY <1>29 DEF HandlerThrows, LeftBehind, Midway, Signal, MainGoes, PlaceTypes, WorkerPlaces, CallerPlaces, StopPlaces
  <2>2. PeerTypes'
    BY <1>29 DEF HandlerThrows, LeftBehind, Midway, Signal, MainGoes, PeerTypes, Requests
  <2>3. TableTypes'
    BY <1>29 DEF HandlerThrows, LeftBehind, Midway, Signal, MainGoes, TableTypes, UploadWords
  <2> HIDE DEF WebTypeOK
  <2> QED BY <1>0, <2>1, <2>2, <2>3
<1>30. ASSUME PartStarts \/ PartEnds PROVE WebTypeOK'
  <2>1. PlaceTypes'
    BY <1>30 DEF PartStarts, PartEnds, UploadTold, PlaceTypes, WorkerPlaces, CallerPlaces, StopPlaces
  <2>2. PeerTypes'
    BY <1>30 DEF PartStarts, PartEnds, UploadTold, PeerTypes, Requests
  <2>3. TableTypes'
    BY <1>30 DEF PartStarts, PartEnds, UploadTold, TableTypes, UploadWords
  <2> HIDE DEF WebTypeOK
  <2> QED BY <1>0, <2>1, <2>2, <2>3
<1>31. ASSUME WebBeginFails PROVE WebTypeOK'
  <2>1. PlaceTypes'
    BY <1>31 DEF WebBeginFails, Server, NoDispatch, NoRequest, Kinds, PlaceTypes, WorkerPlaces, CallerPlaces, StopPlaces
  <2>2. PeerTypes'
    BY <1>31 DEF WebBeginFails, Server, NoDispatch, NoRequest, Kinds, PeerTypes, Requests
  <2>3. TableTypes'
    <3>1. dispatch' \in [pending : BOOLEAN, done : BOOLEAN, abandoned : BOOLEAN]
      <4>1. dispatch' = dispatch \/ dispatch' = NoDispatch
        BY <1>31 DEF WebBeginFails, Server
      <4>2. NoDispatch \in [pending : BOOLEAN, done : BOOLEAN, abandoned : BOOLEAN]
        BY DEF NoDispatch
      <4> QED BY <4>1, <4>2
    <3>2. UNCHANGED <<sock, upload>>
      BY <1>31 DEF WebBeginFails
    <3> QED BY <3>1, <3>2 DEF TableTypes, UploadWords
  <2> HIDE DEF WebTypeOK
  <2> QED BY <1>0, <2>1, <2>2, <2>3
<1> QED BY <1>1, <1>2, <1>3, <1>4, <1>5, <1>6, <1>7, <1>8, <1>9, <1>10, <1>11, <1>12, <1>13, <1>14, <1>15, <1>16, <1>17, <1>18, <1>19, <1>20, <1>21, <1>22, <1>23, <1>24, <1>25, <1>26, <1>27, <1>28, <1>29, <1>30, <1>31
       DEF WebNext, WorkerRuns, WorkerHears, MainServes, HandlerRuns, Stopping

\* The one open connection stays the worker's.
LEMMA OpenStep == ASSUME WebInv, [WebNext]_webVars PROVE OneOpen'
<1> USE PeerAssumption, BodyAssumption DEF WebTypeOK, OneOpen, Holding, WorkerLife, WebInv, requestVars
<1>1. ASSUME Connect PROVE OneOpen'
  BY <1>1 DEF Connect
<1>2. ASSUME AcceptFails PROVE OneOpen'
  BY <1>2 DEF AcceptFails, WorkerGoes, NextAccept
<1>3. ASSUME Publish PROVE OneOpen'
  BY <1>3 DEF Publish, WorkerGoes
<1>4. ASSUME Recheck PROVE OneOpen'
  BY <1>4 DEF Recheck, WorkerGoes
<1>5. ASSUME HeaderRefused PROVE OneOpen'
  BY <1>5 DEF HeaderRefused, WorkerGoes
<1>6. ASSUME BodyComplete PROVE OneOpen'
  BY <1>6 DEF BodyComplete, WorkerGoes
<1>7. ASSUME Park PROVE OneOpen'
  BY <1>7 DEF Park, WorkerGoes
<1>8. ASSUME Unpark PROVE OneOpen'
  BY <1>8 DEF Unpark, WorkerGoes
<1>9. ASSUME Release("release", "close") PROVE OneOpen'
  BY <1>9 DEF Release, WorkerGoes
<1>10. ASSUME Release("served", "closeServed") PROVE OneOpen'
  BY <1>10 DEF Release, WorkerGoes
<1>11. ASSUME CloseRefused PROVE OneOpen'
  BY <1>11 DEF CloseRefused, CloseClient, WorkerGoes, NextAccept
<1>12. ASSUME CloseServed PROVE OneOpen'
  BY <1>12 DEF CloseServed, CloseClient, WorkerGoes, NextAccept, NoRequest
<1>13. ASSUME BodyCutShort PROVE OneOpen'
  BY <1>13 DEF BodyCutShort, WorkerGoes
<1>14. ASSUME NEW p \in HttpPeers, Accept(p) PROVE OneOpen'
  BY <1>14 DEF Accept, WorkerGoes
<1>15. ASSUME NEW kind \in Kinds, HeaderRead(kind) PROVE OneOpen'
  BY <1>15 DEF HeaderRead, WorkerGoes, StartOf
<1>16. ASSUME NEW kind \in Kinds, BodyTooLarge(kind) PROVE OneOpen'
  BY <1>16 DEF BodyTooLarge, WorkerGoes
<1>17. ASSUME BodyChunk PROVE OneOpen'
  BY <1>17 DEF BodyChunk
<1>18. ASSUME WebBegin PROVE OneOpen'
  BY <1>18 DEF WebBegin, Server, NoDispatch, NoRequest
<1>19. ASSUME HandleClient PROVE OneOpen'
  BY <1>19 DEF HandleClient, MainGoes
<1>20. ASSUME HandlerReturns PROVE OneOpen'
  BY <1>20 DEF HandlerReturns, Signal, MainGoes
<1>21. ASSUME Leave PROVE OneOpen'
  BY <1>21 DEF Leave, LeftBehind, MainGoes
<1>22. ASSUME StopFlag PROVE OneOpen'
  BY <1>22 DEF StopFlag, MainGoes
<1>23. ASSUME StopAbandon PROVE OneOpen'
  BY <1>23 DEF StopAbandon, MainGoes
<1>24. ASSUME StopUnlisten PROVE OneOpen'
  BY <1>24 DEF StopUnlisten, MainGoes
<1>25. ASSUME StopExchange PROVE OneOpen'
  BY <1>25 DEF StopExchange, MainGoes
<1>26. ASSUME StopShut PROVE OneOpen'
  BY <1>26 DEF StopShut, MainGoes
<1>27. ASSUME StopJoin PROVE OneOpen'
  BY <1>27 DEF StopJoin
<1>28. ASSUME UNCHANGED webVars PROVE OneOpen'
  BY <1>28 DEF webVars
<1>29. ASSUME HandlerThrows PROVE OneOpen'
  BY <1>29 DEF HandlerThrows, LeftBehind, Midway, Signal, MainGoes
<1>30. ASSUME PartStarts \/ PartEnds PROVE OneOpen'
  BY <1>30 DEF PartStarts, PartEnds, UploadTold
<1>31. ASSUME WebBeginFails PROVE OneOpen'
  BY <1>31 DEF WebBeginFails, Server, NoDispatch, NoRequest
<1> QED BY <1>1, <1>2, <1>3, <1>4, <1>5, <1>6, <1>7, <1>8, <1>9, <1>10, <1>11, <1>12, <1>13, <1>14, <1>15, <1>16, <1>17, <1>18, <1>19, <1>20, <1>21, <1>22, <1>23, <1>24, <1>25, <1>26, <1>27, <1>28, <1>29, <1>30, <1>31
       DEF WebNext, WorkerRuns, WorkerHears, MainServes, HandlerRuns, Stopping

\* The worker and the server live and end together.
LEMMA LifeStep == ASSUME WebInv, [WebNext]_webVars PROVE WorkerLife'
<1> USE PeerAssumption, BodyAssumption DEF WorkerLife, WebInv, requestVars
<1>1. ASSUME Connect PROVE WorkerLife'
  BY <1>1 DEF Connect
<1>2. ASSUME AcceptFails PROVE WorkerLife'
  BY <1>2 DEF AcceptFails, WorkerGoes, NextAccept
<1>3. ASSUME Publish PROVE WorkerLife'
  BY <1>3 DEF Publish, WorkerGoes
<1>4. ASSUME Recheck PROVE WorkerLife'
  BY <1>4 DEF Recheck, WorkerGoes
<1>5. ASSUME HeaderRefused PROVE WorkerLife'
  BY <1>5 DEF HeaderRefused, WorkerGoes
<1>6. ASSUME BodyComplete PROVE WorkerLife'
  BY <1>6 DEF BodyComplete, WorkerGoes
<1>7. ASSUME Park PROVE WorkerLife'
  BY <1>7 DEF Park, WorkerGoes
<1>8. ASSUME Unpark PROVE WorkerLife'
  BY <1>8 DEF Unpark, WorkerGoes
<1>9. ASSUME Release("release", "close") PROVE WorkerLife'
  BY <1>9 DEF Release, WorkerGoes
<1>10. ASSUME Release("served", "closeServed") PROVE WorkerLife'
  BY <1>10 DEF Release, WorkerGoes
<1>11. ASSUME CloseRefused PROVE WorkerLife'
  BY <1>11 DEF CloseRefused, CloseClient, WorkerGoes, NextAccept
<1>12. ASSUME CloseServed PROVE WorkerLife'
  BY <1>12 DEF CloseServed, CloseClient, WorkerGoes, NextAccept, NoRequest
<1>13. ASSUME BodyCutShort PROVE WorkerLife'
  BY <1>13 DEF BodyCutShort, WorkerGoes
<1>14. ASSUME NEW p \in HttpPeers, Accept(p) PROVE WorkerLife'
  BY <1>14 DEF Accept, WorkerGoes
<1>15. ASSUME NEW kind \in Kinds, HeaderRead(kind) PROVE WorkerLife'
  BY <1>15 DEF HeaderRead, WorkerGoes, StartOf
<1>16. ASSUME NEW kind \in Kinds, BodyTooLarge(kind) PROVE WorkerLife'
  BY <1>16 DEF BodyTooLarge, WorkerGoes
<1>17. ASSUME BodyChunk PROVE WorkerLife'
  BY <1>17 DEF BodyChunk
<1>18. ASSUME WebBegin PROVE WorkerLife'
  BY <1>18 DEF WebBegin, Server, NoDispatch, NoRequest
<1>19. ASSUME HandleClient PROVE WorkerLife'
  BY <1>19 DEF HandleClient, MainGoes
<1>20. ASSUME HandlerReturns PROVE WorkerLife'
  BY <1>20 DEF HandlerReturns, Signal, MainGoes
<1>21. ASSUME Leave PROVE WorkerLife'
  BY <1>21 DEF Leave, LeftBehind, MainGoes
<1>22. ASSUME StopFlag PROVE WorkerLife'
  BY <1>22 DEF StopFlag, MainGoes
<1>23. ASSUME StopAbandon PROVE WorkerLife'
  BY <1>23 DEF StopAbandon, MainGoes
<1>24. ASSUME StopUnlisten PROVE WorkerLife'
  BY <1>24 DEF StopUnlisten, MainGoes
<1>25. ASSUME StopExchange PROVE WorkerLife'
  BY <1>25 DEF StopExchange, MainGoes
<1>26. ASSUME StopShut PROVE WorkerLife'
  BY <1>26 DEF StopShut, MainGoes
<1>27. ASSUME StopJoin PROVE WorkerLife'
  BY <1>27 DEF StopJoin
<1>28. ASSUME UNCHANGED webVars PROVE WorkerLife'
  BY <1>28 DEF webVars
<1>29. ASSUME HandlerThrows PROVE WorkerLife'
  BY <1>29 DEF HandlerThrows, LeftBehind, Midway, Signal, MainGoes
<1>30. ASSUME PartStarts \/ PartEnds PROVE WorkerLife'
  BY <1>30 DEF PartStarts, PartEnds, UploadTold
<1>31. ASSUME WebBeginFails PROVE WorkerLife'
  BY <1>31 DEF WebBeginFails, Server, NoDispatch, NoRequest
<1> QED BY <1>1, <1>2, <1>3, <1>4, <1>5, <1>6, <1>7, <1>8, <1>9, <1>10, <1>11, <1>12, <1>13, <1>14, <1>15, <1>16, <1>17, <1>18, <1>19, <1>20, <1>21, <1>22, <1>23, <1>24, <1>25, <1>26, <1>27, <1>28, <1>29, <1>30, <1>31
       DEF WebNext, WorkerRuns, WorkerHears, MainServes, HandlerRuns, Stopping

\* A parked request stays in one place.
LEMMA HandOffStep == ASSUME WebInv, ~BeginsAgain, [WebNext]_webVars PROVE HandOff'
<1>0. HandOff /\ OneOpen /\ WorkerLife /\ WebTypeOK
  BY DEF WebInv
<1> USE <1>0, PeerAssumption, BodyAssumption DEF HandOff, requestVars
<1>1. ASSUME Connect PROVE HandOff'
  BY <1>1 DEF Connect
<1>2. ASSUME AcceptFails PROVE HandOff'
  BY <1>2 DEF AcceptFails, WorkerGoes, NextAccept
<1>3. ASSUME Publish PROVE HandOff'
  BY <1>3 DEF Publish, WorkerGoes
<1>4. ASSUME Recheck PROVE HandOff'
  BY <1>4 DEF Recheck, WorkerGoes
<1>5. ASSUME HeaderRefused PROVE HandOff'
  BY <1>5 DEF HeaderRefused, WorkerGoes
<1>6. ASSUME BodyComplete PROVE HandOff'
  BY <1>6 DEF BodyComplete, WorkerGoes
<1>7. ASSUME Park PROVE HandOff'
  BY <1>7 DEF Park, WorkerGoes
<1>8. ASSUME Unpark PROVE HandOff'
  BY <1>8 DEF Unpark, WorkerGoes
<1>9. ASSUME Release("release", "close") PROVE HandOff'
  BY <1>9 DEF Release, WorkerGoes
<1>10. ASSUME Release("served", "closeServed") PROVE HandOff'
  BY <1>10 DEF Release, WorkerGoes
<1>11. ASSUME CloseRefused PROVE HandOff'
  BY <1>11 DEF CloseRefused, CloseClient, WorkerGoes, NextAccept
<1>12. ASSUME CloseServed PROVE HandOff'
  BY <1>12 DEF CloseServed, CloseClient, WorkerGoes, NextAccept, NoRequest
<1>13. ASSUME BodyCutShort PROVE HandOff'
  BY <1>13 DEF BodyCutShort, WorkerGoes
<1>14. ASSUME NEW p \in HttpPeers, Accept(p) PROVE HandOff'
  BY <1>14 DEF Accept, WorkerGoes
<1>15. ASSUME NEW kind \in Kinds, HeaderRead(kind) PROVE HandOff'
  BY <1>15 DEF HeaderRead, WorkerGoes, StartOf
<1>16. ASSUME NEW kind \in Kinds, BodyTooLarge(kind) PROVE HandOff'
  BY <1>16 DEF BodyTooLarge, WorkerGoes
<1>17. ASSUME BodyChunk PROVE HandOff'
  BY <1>17 DEF BodyChunk
<1>18. ASSUME WebBegin PROVE HandOff'
  BY <1>18 DEF WebBegin, Server, NoDispatch, NoRequest
<1>19. ASSUME HandleClient PROVE HandOff'
  BY <1>19 DEF HandleClient, MainGoes
<1>20. ASSUME HandlerReturns PROVE HandOff'
  BY <1>20 DEF HandlerReturns, Signal, MainGoes
<1>21. ASSUME Leave PROVE HandOff'
  BY <1>21 DEF Leave, LeftBehind, MainGoes
<1>22. ASSUME StopFlag PROVE HandOff'
  BY <1>22 DEF StopFlag, MainGoes
<1>23. ASSUME StopAbandon PROVE HandOff'
  BY <1>23 DEF StopAbandon, MainGoes
<1>24. ASSUME StopUnlisten PROVE HandOff'
  BY <1>24 DEF StopUnlisten, MainGoes
<1>25. ASSUME StopExchange PROVE HandOff'
  BY <1>25 DEF StopExchange, MainGoes
<1>26. ASSUME StopShut PROVE HandOff'
  BY <1>26 DEF StopShut, MainGoes
<1>27. ASSUME StopJoin PROVE HandOff'
  BY <1>27 DEF StopJoin
<1>28. ASSUME UNCHANGED webVars PROVE HandOff'
  BY <1>28 DEF webVars
<1>29. ASSUME HandlerThrows PROVE HandOff'
  BY <1>29 DEF HandlerThrows, LeftBehind, Midway, Signal, MainGoes
<1>30. ASSUME PartStarts \/ PartEnds PROVE HandOff'
  BY <1>30 DEF PartStarts, PartEnds, UploadTold
<1>31. ASSUME WebBeginFails PROVE HandOff'
  <2>1. worker = "none" /\ worker' = worker
    BY <1>31 DEF WebBeginFails, WorkerLife
  <2>2. dispatch' = NoDispatch /\ caller' = "loop"
    BY <1>31 DEF WebBeginFails, Server
  <2> QED BY <2>1, <2>2 DEF NoDispatch
<1> QED BY <1>1, <1>2, <1>3, <1>4, <1>5, <1>6, <1>7, <1>8, <1>9, <1>10, <1>11, <1>12, <1>13, <1>14, <1>15, <1>16, <1>17, <1>18, <1>19, <1>20, <1>21, <1>22, <1>23, <1>24, <1>25, <1>26, <1>27, <1>28, <1>29, <1>30, <1>31
       DEF WebNext, WorkerRuns, WorkerHears, MainServes, HandlerRuns, Stopping

\* Upload handlers are told of starts and ends in step with the worker.
LEMMA ToldStep == ASSUME WebInv, ~BeginsAgain, [WebNext]_webVars PROVE Told'
<1>0. HandOff /\ Told /\ OneOpen /\ WorkerLife /\ WebTypeOK
  BY DEF WebInv
<1> USE <1>0, PeerAssumption, BodyAssumption DEF Told, requestVars
<1>1. ASSUME Connect PROVE Told'
  BY <1>1 DEF Connect
<1>2. ASSUME AcceptFails PROVE Told'
  BY <1>2 DEF AcceptFails, WorkerGoes, NextAccept
<1>3. ASSUME Publish PROVE Told'
  BY <1>3 DEF Publish, WorkerGoes
<1>4. ASSUME Recheck PROVE Told'
  BY <1>4 DEF Recheck, WorkerGoes
<1>5. ASSUME HeaderRefused PROVE Told'
  BY <1>5 DEF HeaderRefused, WorkerGoes
<1>6. ASSUME BodyComplete PROVE Told'
  <2>1. upload \in [HttpPeers -> UploadWords]
    BY DEF WebTypeOK, UploadWords
  <2>2. worker \in Holding => client \in HttpPeers /\ sock[client] \in {"open", "cut"}
    BY DEF OneOpen
  <2> QED BY <1>6, <2>1, <2>2 DEF BodyComplete, WorkerGoes, HandOff, Holding
<1>7. ASSUME Park PROVE Told'
  BY <1>7 DEF Park, WorkerGoes
<1>8. ASSUME Unpark PROVE Told'
  BY <1>8 DEF Unpark, WorkerGoes
<1>9. ASSUME Release("release", "close") PROVE Told'
  BY <1>9 DEF Release, WorkerGoes
<1>10. ASSUME Release("served", "closeServed") PROVE Told'
  BY <1>10 DEF Release, WorkerGoes
<1>11. ASSUME CloseRefused PROVE Told'
  BY <1>11 DEF CloseRefused, CloseClient, WorkerGoes, NextAccept
<1>12. ASSUME CloseServed PROVE Told'
  <2>1. \A p \in HttpPeers : upload[p] # "started"
    BY <1>12 DEF CloseServed, HandOff
  <2>2. /\ worker' \in {"accept", "exited"} /\ client' = client /\ upload' = upload
        /\ \A p \in HttpPeers : sock'[p] = sock[p] \/ sock'[p] = "closed"
    BY <1>12 DEF CloseServed, CloseClient, WorkerGoes, NextAccept, WebTypeOK
  <2> QED BY <2>1, <2>2
<1>13. ASSUME BodyCutShort PROVE Told'
  <2>1. upload \in [HttpPeers -> UploadWords]
    BY DEF WebTypeOK, UploadWords
  <2>2. worker \in Holding => client \in HttpPeers /\ sock[client] \in {"open", "cut"}
    BY DEF OneOpen
  <2> QED BY <1>13, <2>1, <2>2 DEF BodyCutShort, WorkerGoes, HandOff, Holding
<1>14. ASSUME NEW p \in HttpPeers, Accept(p) PROVE Told'
  <2>1. \A q \in HttpPeers : upload[q] # "started"
    BY <1>14 DEF Accept, HandOff
  <2>2. /\ worker' = "publish" /\ client' = p /\ upload' = upload
        /\ \A q \in HttpPeers : sock'[q] = sock[q] \/ sock'[q] = "open"
    BY <1>14 DEF Accept, WorkerGoes, WebTypeOK
  <2>3. upload[p] = "none"
    BY <1>14 DEF Accept
  <2> QED BY <2>1, <2>2, <2>3
<1>15. ASSUME NEW kind \in Kinds, HeaderRead(kind) PROVE Told'
  <2>1. upload \in [HttpPeers -> UploadWords]
    BY DEF WebTypeOK, UploadWords
  <2>2. worker \in Holding => client \in HttpPeers /\ sock[client] \in {"open", "cut"}
    BY DEF OneOpen
  <2> QED BY <1>15, <2>1, <2>2 DEF HeaderRead, WorkerGoes, StartOf, Holding
<1>16. ASSUME NEW kind \in Kinds, BodyTooLarge(kind) PROVE Told'
  <2>1. upload \in [HttpPeers -> UploadWords]
    BY DEF WebTypeOK, UploadWords
  <2>2. worker \in Holding => client \in HttpPeers /\ sock[client] \in {"open", "cut"}
    BY DEF OneOpen
  <2> QED BY <1>16, <2>1, <2>2 DEF BodyTooLarge, WorkerGoes, Holding
<1>17. ASSUME BodyChunk PROVE Told'
  BY <1>17 DEF BodyChunk
<1>18. ASSUME WebBegin PROVE Told'
  <2>1. upload \in [HttpPeers -> UploadWords]
    BY DEF WebTypeOK, UploadWords
  <2>2. worker \in Holding => client \in HttpPeers /\ sock[client] \in {"open", "cut"}
    BY DEF OneOpen
  <2> QED BY <1>18, <2>1, <2>2 DEF WebBegin, Server, NoDispatch, NoRequest, OneOpen, Holding, WorkerLife
<1>19. ASSUME HandleClient PROVE Told'
  BY <1>19 DEF HandleClient, MainGoes
<1>20. ASSUME HandlerReturns PROVE Told'
  <2>1. upload \in [HttpPeers -> UploadWords]
    BY DEF WebTypeOK, UploadWords
  <2>2. worker \in Holding => client \in HttpPeers /\ sock[client] \in {"open", "cut"}
    BY DEF OneOpen
  <2>3. worker = "parked" /\ request.peer = client
    BY <1>20 DEF HandlerReturns, HandOff
  <2>4. \A p \in HttpPeers : upload[p] # "started"
    BY <1>20, <2>3 DEF HandlerReturns, Midway
  <2>5. UNCHANGED <<worker, client, request, received, sock, upload>>
    BY <1>20 DEF HandlerReturns, Signal, MainGoes
  <2> QED BY <2>3, <2>4, <2>5
<1>21. ASSUME Leave PROVE Told'
  <2>1. upload \in [HttpPeers -> UploadWords]
    BY DEF WebTypeOK, UploadWords
  <2>2. worker \in Holding => client \in HttpPeers /\ sock[client] \in {"open", "cut"}
    BY DEF OneOpen
  <2> QED BY <1>21, <2>1, <2>2 DEF Leave, LeftBehind, Midway, MainGoes, HandOff, OneOpen, Holding
<1>22. ASSUME StopFlag PROVE Told'
  BY <1>22 DEF StopFlag, MainGoes
<1>23. ASSUME StopAbandon PROVE Told'
  BY <1>23 DEF StopAbandon, MainGoes
<1>24. ASSUME StopUnlisten PROVE Told'
  BY <1>24 DEF StopUnlisten, MainGoes
<1>25. ASSUME StopExchange PROVE Told'
  BY <1>25 DEF StopExchange, MainGoes
<1>26. ASSUME StopShut PROVE Told'
  BY <1>26 DEF StopShut, MainGoes
<1>27. ASSUME StopJoin PROVE Told'
  BY <1>27 DEF StopJoin
<1>28. ASSUME UNCHANGED webVars PROVE Told'
  BY <1>28 DEF webVars
<1>29. ASSUME HandlerThrows PROVE Told'
  <2>1. upload \in [HttpPeers -> UploadWords]
    BY DEF WebTypeOK, UploadWords
  <2>2. worker \in Holding => client \in HttpPeers /\ sock[client] \in {"open", "cut"}
    BY DEF OneOpen
  <2> QED BY <1>29, <2>1, <2>2 DEF HandlerThrows, LeftBehind, Midway, Signal, MainGoes, HandOff, OneOpen, Holding
<1>30. ASSUME PartStarts \/ PartEnds PROVE Told'
  <2>1. upload \in [HttpPeers -> UploadWords]
    BY DEF WebTypeOK, UploadWords
  <2>2. worker \in Holding => client \in HttpPeers /\ sock[client] \in {"open", "cut"}
    BY DEF OneOpen
  <2> QED BY <1>30, <2>1, <2>2 DEF PartStarts, PartEnds, UploadTold, HandOff, OneOpen, Holding
<1>31. ASSUME WebBeginFails PROVE Told'
  <2>1. upload \in [HttpPeers -> UploadWords]
    BY DEF WebTypeOK, UploadWords
  <2>2. worker \in Holding => client \in HttpPeers /\ sock[client] \in {"open", "cut"}
    BY DEF OneOpen
  <2>3. worker = "none" /\ UNCHANGED <<worker, client, sock, upload>>
    BY <1>31 DEF WebBeginFails, WorkerLife
  <2>4. \A p \in HttpPeers : upload[p] # "started"
    BY <1>31, <2>3 DEF WebBeginFails
  <2> QED BY <2>3, <2>4
<1> QED BY <1>1, <1>2, <1>3, <1>4, <1>5, <1>6, <1>7, <1>8, <1>9, <1>10, <1>11, <1>12, <1>13, <1>14, <1>15, <1>16, <1>17, <1>18, <1>19, <1>20, <1>21, <1>22, <1>23, <1>24, <1>25, <1>26, <1>27, <1>28, <1>29, <1>30, <1>31
       DEF WebNext, WorkerRuns, WorkerHears, MainServes, HandlerRuns, Stopping

-----------------------------------------------------------------------------
\* One step, whatever it is, keeps the whole invariant.
LEMMA WebInvStep == ASSUME WebInv, [WebNext]_webVars PROVE WebInv'
<1>1. WebTypeOK' /\ OneOpen' /\ WorkerLife'
  BY TypeStep, OpenStep, LifeStep DEF WebInv
<1>2. ~BeginsAgain => HandOff' /\ Told'
  BY HandOffStep, ToldStep
<1> QED BY <1>1, <1>2 DEF WebInv

\* What the invariant says of a running handler and of uploads.
LEMMA WebInvImplies ==
  ASSUME WebInv, ~BeginsAgain PROVE DispatchOwnsRequest /\ UploadsEnd
<1>1. DispatchOwnsRequest
  <2> SUFFICES ASSUME caller = "handler" PROVE DispatchOwnsRequest
    BY DEF DispatchOwnsRequest
  <2>1. worker = "parked" /\ ~dispatch.done /\ ~dispatch.pending
    BY DEF WebInv, HandOff
  <2>2. client \in HttpPeers /\ sock[client] = "open"
    BY <2>1 DEF WebInv, OneOpen, Holding
  <2> QED BY <2>1, <2>2 DEF WebInv, HandOff, DispatchOwnsRequest
<1>2. UploadsEnd
  <2>1. ASSUME NEW p \in HttpPeers, sock[p] = "closed" PROVE upload[p] # "started"
    BY <1>1, <2>1 DEF WebInv, OneOpen, Told, Holding, DispatchOwnsRequest
  <2>2. ASSUME NEW p \in HttpPeers, worker \in {"body", "park", "parked"},
               client = p, upload[p] = "ended"
        PROVE  received = BodyChunks
    BY <2>2 DEF WebInv, Told
  <2> QED BY <2>1, <2>2 DEF UploadsEnd
<1> QED BY <1>1, <1>2

-----------------------------------------------------------------------------
(* stop() joins the worker on the main thread, from within a handler or    *)
(* outside: it is over only if the worker waits for nobody else by then.   *)

\* The worker at the join: accept() fails, a receive fails, the wait for the
\* main thread is given up.
StopIsNotKept ==
  caller = "join" =>
    /\ ~webActive /\ ~webListening
    /\ dispatch.abandoned
    /\ worker \in {"header", "body"} => sock[client] = "cut"

\* A worker past its recheck has published its connection while the flag was up,
\* so stop() finds it, holds it and cuts it.
PastRecheck == {"header", "body", "park", "parked"}
StopReaches ==
  /\ caller \in StopPlaces \ {"stop"} => ~webActive
  /\ caller \in {"unlisten", "exchange", "shut", "join"} => dispatch.abandoned
  /\ caller \in {"exchange", "shut", "join"} => ~webListening
  /\ worker = "recheck" /\ caller \notin {"shut", "join"} => activeClient = client
  /\ worker \in PastRecheck =>
       /\ caller = "shut" => taken = client
       /\ caller = "join" => sock[client] = "cut"
       /\ caller \notin {"shut", "join"} => activeClient = client

\* Every step keeps stop()'s hold on the connection.
LEMMA StopReachesStep ==
  ASSUME WebInv, StopReaches, [WebNext]_webVars PROVE StopReaches'
<1> USE PeerAssumption DEF WebInv, WebTypeOK, OneOpen, Holding, WorkerLife, requestVars,
        StopReaches, PastRecheck, StopPlaces
<1>1. ASSUME Connect PROVE StopReaches'
  BY <1>1 DEF Connect
<1>2. ASSUME AcceptFails PROVE StopReaches'
  BY <1>2 DEF AcceptFails, WorkerGoes, NextAccept
<1>3. ASSUME Publish PROVE StopReaches'
  BY <1>3 DEF Publish, WorkerGoes
<1>4. ASSUME Recheck PROVE StopReaches'
  BY <1>4 DEF Recheck, WorkerGoes
<1>5. ASSUME HeaderRefused PROVE StopReaches'
  BY <1>5 DEF HeaderRefused, WorkerGoes
<1>6. ASSUME BodyComplete PROVE StopReaches'
  BY <1>6 DEF BodyComplete, WorkerGoes
<1>7. ASSUME Park PROVE StopReaches'
  BY <1>7 DEF Park, WorkerGoes
<1>8. ASSUME Unpark PROVE StopReaches'
  BY <1>8 DEF Unpark, WorkerGoes
<1>9. ASSUME Release("release", "close") PROVE StopReaches'
  BY <1>9 DEF Release, WorkerGoes
<1>10. ASSUME Release("served", "closeServed") PROVE StopReaches'
  BY <1>10 DEF Release, WorkerGoes
<1>11. ASSUME CloseRefused PROVE StopReaches'
  BY <1>11 DEF CloseRefused, CloseClient, WorkerGoes, NextAccept
<1>12. ASSUME CloseServed PROVE StopReaches'
  BY <1>12 DEF CloseServed, CloseClient, WorkerGoes, NextAccept
<1>13. ASSUME BodyCutShort PROVE StopReaches'
  BY <1>13 DEF BodyCutShort, WorkerGoes
<1>14. ASSUME NEW p \in HttpPeers, Accept(p) PROVE StopReaches'
  BY <1>14 DEF Accept, WorkerGoes
<1>15. ASSUME NEW kind \in Kinds, HeaderRead(kind) PROVE StopReaches'
  BY <1>15 DEF HeaderRead, WorkerGoes
<1>16. ASSUME NEW kind \in Kinds, BodyTooLarge(kind) PROVE StopReaches'
  BY <1>16 DEF BodyTooLarge, WorkerGoes
<1>17. ASSUME BodyChunk PROVE StopReaches'
  BY <1>17 DEF BodyChunk
<1>18. ASSUME WebBegin PROVE StopReaches'
  BY <1>18 DEF WebBegin, Server, NoDispatch
<1>19. ASSUME HandleClient PROVE StopReaches'
  BY <1>19 DEF HandleClient, MainGoes
<1>20. ASSUME HandlerReturns PROVE StopReaches'
  BY <1>20 DEF HandlerReturns, Signal, MainGoes
<1>21. ASSUME Leave PROVE StopReaches'
  BY <1>21 DEF Leave, LeftBehind, MainGoes
<1>22. ASSUME StopFlag PROVE StopReaches'
  BY <1>22 DEF StopFlag, MainGoes
<1>23. ASSUME StopAbandon PROVE StopReaches'
  BY <1>23 DEF StopAbandon, MainGoes
<1>24. ASSUME StopUnlisten PROVE StopReaches'
  BY <1>24 DEF StopUnlisten, MainGoes
<1>25. ASSUME StopExchange PROVE StopReaches'
  BY <1>25 DEF StopExchange, MainGoes
<1>26. ASSUME StopShut PROVE StopReaches'
  BY <1>26 DEF StopShut, MainGoes
<1>27. ASSUME StopJoin PROVE StopReaches'
  BY <1>27 DEF StopJoin
<1>28. ASSUME UNCHANGED webVars PROVE StopReaches'
  BY <1>28 DEF webVars
<1>29. ASSUME HandlerThrows PROVE StopReaches'
  BY <1>29 DEF HandlerThrows, LeftBehind, Midway, Signal, MainGoes
<1>30. ASSUME PartStarts \/ PartEnds PROVE StopReaches'
  BY <1>30 DEF PartStarts, PartEnds, UploadTold
<1>31. ASSUME WebBeginFails PROVE StopReaches'
  BY <1>31 DEF WebBeginFails, Server, NoDispatch, NoRequest
<1> HIDE DEF WebInv, WebTypeOK, OneOpen, Holding, WorkerLife, StopReaches
<1> QED BY <1>1, <1>2, <1>3, <1>4, <1>5, <1>6, <1>7, <1>8, <1>9, <1>10, <1>11, <1>12,
           <1>13, <1>14, <1>15, <1>16, <1>17, <1>18, <1>19, <1>20, <1>21, <1>22, <1>23,
           <1>24, <1>25, <1>26, <1>27, <1>28, <1>29, <1>30, <1>31
       DEF WebNext, WorkerRuns, WorkerHears, MainServes, HandlerRuns, Stopping

\* So the join waits for the worker alone.
LEMMA StopReachesImplies == ASSUME StopReaches PROVE StopIsNotKept
BY DEF StopReaches, StopIsNotKept, StopPlaces, PastRecheck

-----------------------------------------------------------------------------
(* The books.                                                              *)

\* Every step of the import and of the request: FileTransfer says when the
\* main thread takes which.
DocNext ==
  \/ \E d \in Docs, from \in {"outside", "inbox", "card"} :
       \E arrives \in BOOLEAN : Drop(d, from, arrives)
  \/ SweepBegins \/ FirmwareOpens
  \/ ImportRuns \/ OpenRuns \/ PumpRuns
  \/ Relaunch \/ Killed

DocSpec == DocInit /\ [][DocNext]_docVars

\* The file the job is at work on: cut short while it is copied or written,
\* whole from there on.
JobInv ==
  /\ docAt = "copy" => books[job.name] = Truncated(job.path.doc)
  /\ docAt \in {"unlink", "request"} => books[job.name] = File(job.path.doc)
  /\ docAt = "write" => books[job.name] = Truncated(job.file.doc)
  /\ OpensWhatWasGiven

\* The copy a request is for is there and whole.  The path of an imported drop
\* does not wait without such a request: they are taken together.
RequestInv ==
  /\ card # NoCard => card.name \in Names /\ books[card.name] = File(card.doc)
  /\ raw.imported => card # NoCard

DocInv == DocTypeOK /\ JobInv /\ RequestInv

\* The type invariant, in the parts that the actions change.
Files == [doc : Docs \cup {NoDoc}, whole : BOOLEAN]
Paths == [doc : Docs \cup {NoDoc}, from : {"outside", "inbox", "card"},
          name : Names, imported : BOOLEAN]
Jobs == [path : Paths, file : Files, name : Names, drop : BOOLEAN,
         back : Waiting]
Places == Waiting \cup {"import", "copy", "unlink", "request", "unhandled",
                       "write", "staged"}

CardTypes ==
  /\ books \in [Names -> Files] /\ inbox \subseteq Docs
RequestTypes ==
  /\ raw \in Paths /\ card \in [name : {0} \cup Names, doc : Docs \cup {NoDoc}]
  /\ stagedLaunch \in BOOLEAN /\ openPath \in {0} \cup Names
JobTypes == docAt \in Places /\ job \in Jobs
SweepTypes == sweeping \subseteq Docs /\ swept \in BOOLEAN

\* The parts are the type invariant.
LEMMA DocTypesAre ==
  DocTypeOK <=> CardTypes /\ RequestTypes /\ JobTypes /\ SweepTypes
BY
    DEF DocTypeOK, CardTypes, RequestTypes, JobTypes, SweepTypes, Files,
        Paths, Jobs, Places

\* What the values a step may assign are, and are not.
LEMMA Values ==
  /\ NoFile \in Files /\ NoPath \in Paths /\ NoJob \in Jobs
  /\ NoCard \in [name : {0} \cup Names, doc : Docs \cup {NoDoc}]
  /\ ~NoPath.imported
  /\ \A d \in Docs \cup {NoDoc} : File(d) \in Files /\ Truncated(d) \in Files
  /\ \A d, e : File(d) # Truncated(e)
BY DocAssumption
    DEF NoFile, NoPath, NoJob, NoCard, File, Truncated, Files, Paths, Jobs,
        Names, Waiting

\* A name the import takes is free, or has the document already.
LEMMA TargetFits ==
  ASSUME NEW d, Target(d) # 0
  PROVE  Target(d) \in Names /\ books[Target(d)] \in {NoFile, File(d)}
<1> DEFINE fits == {n \in Names : books[n] \in {NoFile, File(d)}}
<1>1. fits # {}
  BY DEF Target
<1>2. fits \in SUBSET Nat
  BY DocAssumption DEF Names
<1>3. \E n \in fits : \A m \in fits : n <= m
  BY <1>1, <1>2, LeastExists
<1>4. Target(d) = CHOOSE n \in fits : \A m \in fits : n <= m
  BY <1>1 DEF Target
<1>5. Target(d) \in fits
  BY <1>3, <1>4
<1> QED BY <1>5

\* A launch keeps every promise: nothing is in hand.
LEMMA DocStart == ASSUME DocInit PROVE DocInv
<1>1. CardTypes /\ SweepTypes
  BY Values DEF DocInit, CardTypes, SweepTypes, NoFile
<1>2. RequestTypes /\ JobTypes
  BY Values DEF DocInit, RequestTypes, JobTypes, Places, Waiting
<1>3. JobInv /\ RequestInv
  BY Values DEF DocInit, JobInv, RequestInv, OpensWhatWasGiven
<1> QED BY <1>1, <1>2, <1>3, DocTypesAre DEF DocInv

\* One step of the import or of the request keeps the types,
LEMMA DocTypeStep == ASSUME DocInv, [DocNext]_docVars PROVE DocTypeOK'
<1>0. CardTypes /\ RequestTypes /\ JobTypes /\ SweepTypes
  BY DocTypesAre DEF DocInv
<1>t. CardTypes' /\ RequestTypes' /\ JobTypes' /\ SweepTypes' => DocTypeOK'
  BY DocTypesAre, PTL
<1>k. /\ UNCHANGED <<books, inbox>> => CardTypes'
      /\ UNCHANGED <<raw, card, stagedLaunch, openPath>> => RequestTypes'
      /\ UNCHANGED <<docAt, job>> => JobTypes'
      /\ UNCHANGED <<sweeping, swept>> => SweepTypes'
  BY <1>0 DEF CardTypes, RequestTypes, JobTypes, SweepTypes
<1>1. ASSUME NEW d \in Docs, NEW from \in {"outside", "inbox", "card"},
             NEW arrives \in BOOLEAN, Drop(d, from, arrives)
      PROVE  DocTypeOK'
  <2>1. JobTypes'
    <3>1. PICK n \in Names :
            Imports([doc |-> d, from |-> from, name |-> n, imported |-> FALSE],
                    TRUE, docAt)
      BY <1>1 DEF Drop
    <3>2. docAt \in Waiting /\ 1 \in Names
      BY <1>1, DocAssumption DEF Drop, Waiting, Names
    <3> QED BY <3>1, <3>2, Values DEF Imports, JobTypes, Jobs, Paths, Places
  <2>2. CardTypes'
    BY <1>0, <1>1 DEF Drop, CardTypes
  <2> QED BY <1>1, <1>k, <1>t, <2>1, <2>2 DEF Drop
<1>2. CASE SweepBegins
  <2>1. JobTypes' /\ SweepTypes'
    BY <1>0, <1>2
        DEF SweepBegins, JobTypes, SweepTypes, CardTypes, Places, Waiting
  <2> QED BY <1>2, <1>k, <1>t, <2>1 DEF SweepBegins
<1>3. ASSUME NEW d \in Docs, SweepNext(d) PROVE DocTypeOK'
  <2>1. JobTypes'
    <3>1. 1 \in Names
      BY DocAssumption DEF Names
    <3> QED BY <1>3, <3>1, Values
        DEF SweepNext, Imports, JobTypes, Jobs, Paths, Places, Waiting
  <2>2. SweepTypes'
    BY <1>0, <1>3 DEF SweepNext, SweepTypes
  <2> QED BY <1>3, <1>k, <1>t, <2>1, <2>2 DEF SweepNext
<1>4. CASE SweepEnds
  <2>1. JobTypes'
    BY <1>0, <1>4 DEF SweepEnds, JobTypes, Places, Waiting
  <2> QED BY <1>4, <1>k, <1>t, <2>1 DEF SweepEnds
<1>5. CASE ImportDeclines
  <2>1. JobTypes'
    BY <1>0, <1>5 DEF ImportDeclines, DocGoes, JobTypes, Places
  <2> QED BY <1>5, <1>k, <1>t, <2>1 DEF ImportDeclines, DocGoes
<1>6. CASE ImportBegins
  <2> DEFINE n == Target(job.path.doc)
  <2>1. n \in Names
    BY <1>6, TargetFits DEF ImportBegins
  <2>2. job.path.doc \in Docs \cup {NoDoc}
    BY <1>0 DEF JobTypes, Jobs, Paths
  <2>3. JobTypes'
    BY <1>0, <1>6, <2>1 DEF ImportBegins, DocGoes, JobTypes, Jobs, Places
  <2>4. CardTypes'
    BY <1>0, <1>6, <2>1, <2>2, Values DEF ImportBegins, CardTypes
  <2> QED BY <1>6, <1>k, <1>t, <2>3, <2>4 DEF ImportBegins, DocGoes
<1>7. CASE CopyEnds \/ CopyFails
  <2>1. job.path.doc \in Docs \cup {NoDoc} /\ job.name \in Names
    BY <1>0 DEF JobTypes, Jobs, Paths
  <2>2. CardTypes'
    BY <1>0, <1>7, <2>1, Values DEF CopyEnds, CopyFails, CardTypes
  <2>3. JobTypes'
    BY <1>0, <1>7 DEF CopyEnds, CopyFails, DocGoes, JobTypes, Places
  <2> QED BY <1>7, <1>k, <1>t, <2>2, <2>3 DEF CopyEnds, CopyFails, DocGoes
<1>8. CASE Unlink
  <2>1. CardTypes' /\ JobTypes'
    BY <1>0, <1>8 DEF Unlink, DocGoes, CardTypes, JobTypes, Places
  <2> QED BY <1>8, <1>k, <1>t, <2>1 DEF Unlink, DocGoes
<1>9. CASE RequestOpen \/ Unhandled
  <2>1. JobTypes'
    BY <1>0, <1>9, Values DEF RequestOpen, Unhandled, JobTypes, Jobs, Places
  <2>2. raw' \in Paths
    BY <1>0, <1>9
        DEF RequestOpen, Unhandled, WatchKeeps, JobTypes, Jobs, Paths,
            RequestTypes
  <2>3. card' \in [name : {0} \cup Names, doc : Docs \cup {NoDoc}]
    <3>1. job.name \in Names /\ job.path.doc \in Docs \cup {NoDoc}
      BY <1>0 DEF JobTypes, Jobs, Paths
    <3>2. card \in [name : {0} \cup Names, doc : Docs \cup {NoDoc}]
      BY <1>0 DEF RequestTypes
    <3>3. CASE RequestOpen
      BY <3>1, <3>3 DEF RequestOpen
    <3>4. CASE Unhandled
      BY <3>2, <3>4 DEF Unhandled
    <3> QED BY <1>9, <3>3, <3>4
  <2>4. RequestTypes'
    BY <1>0, <1>9, <2>2, <2>3 DEF RequestOpen, Unhandled, RequestTypes
  <2> QED BY <1>9, <1>k, <1>t, <2>1, <2>4 DEF RequestOpen, Unhandled
<1>r. ASSUME NEW back \in {"capture", "loop"}, StagesRaw(back), inbox' = inbox
      PROVE  CardTypes' /\ JobTypes'
  <2>1. raw \in Paths /\ raw.name \in Names /\ raw.doc \in Docs \cup {NoDoc}
    BY <1>0 DEF RequestTypes, Paths
  <2>2. Contents(raw) \in Files /\ Contents(raw).doc \in Docs \cup {NoDoc}
    BY <1>0, <2>1, Values DEF Contents, CardTypes, Files
  <2>3. JobTypes'
    BY <1>r, <2>1, <2>2 DEF StagesRaw, JobTypes, Jobs, Places, Waiting
  <2>4. books' \in [Names -> Files]
    BY <1>0, <1>r, <2>1, <2>2, Values DEF StagesRaw, CardTypes
  <2>5. inbox' \subseteq Docs
    BY <1>0, <1>r DEF CardTypes
  <2>6. CardTypes'
    BY <2>4, <2>5 DEF CardTypes, Names, Files
  <2> QED BY <2>3, <2>6
<1>c. ASSUME NEW back \in {"capture", "loop"}, StagesCard(back), card' = NoCard,
             raw' = NoPath, stagedLaunch' \in BOOLEAN
      PROVE  RequestTypes' /\ JobTypes'
  <2>1. RequestTypes'
    BY <1>0, <1>c, Values DEF StagesCard, RequestTypes
  <2>2. File(card.doc) \in Files
    BY <1>0, Values DEF RequestTypes
  <2>3. JobTypes'
    BY <1>c, <2>2, Values DEF StagesCard, JobTypes, Jobs, Places, Waiting
  <2> QED BY <2>1, <2>3
<1>10. CASE CaptureCard
  <2>1. RequestTypes' /\ JobTypes'
    BY <1>10, <1>c DEF CaptureCard, TakeBoth
  <2> QED BY <1>10, <1>k, <1>t, <2>1 DEF CaptureCard
<1>11. CASE CaptureEnds
  <2>1. RequestTypes' /\ JobTypes'
    BY <1>0, <1>11, Values
        DEF CaptureEnds, RequestTypes, JobTypes, Places, Waiting
  <2> QED BY <1>11, <1>k, <1>t, <2>1 DEF CaptureEnds
<1>12. CASE CaptureRaw \/ PumpRaw
  <2>1. CardTypes' /\ JobTypes'
    BY <1>12, <1>r DEF CaptureRaw, PumpRaw
  <2>2. RequestTypes'
    BY <1>0, <1>12, Values DEF CaptureRaw, PumpRaw, RequestTypes
  <2> QED BY <1>12, <1>k, <1>t, <2>1, <2>2 DEF CaptureRaw, PumpRaw
<1>13. CASE PumpReplay \/ PumpFails
  <2>1. RequestTypes'
    BY <1>0, <1>13, Values DEF PumpReplay, PumpFails, TakeBoth, RequestTypes
  <2> QED BY <1>13, <1>k, <1>t, <2>1 DEF PumpReplay, PumpFails
<1>14. CASE PumpCard
  <2>1. RequestTypes' /\ JobTypes'
    BY <1>14, <1>c DEF PumpCard, TakeBoth
  <2> QED BY <1>14, <1>k, <1>t, <2>1 DEF PumpCard
<1>15. CASE WriteEnds
  <2>1. CardTypes'
    BY <1>0, <1>15 DEF WriteEnds, CardTypes, JobTypes, Jobs
  <2>2. RequestTypes' /\ JobTypes'
    BY <1>0, <1>15 DEF WriteEnds, RequestTypes, JobTypes, Jobs, Places
  <2> QED BY <1>15, <1>k, <1>t, <2>1, <2>2 DEF WriteEnds
<1>16. CASE WriteFails \/ LaunchOpens \/ Relaunch
  <2>1. JobTypes'
    BY <1>16, Values
        DEF WriteFails, LaunchOpens, Relaunch, JobTypes, Places, Waiting
  <2> QED BY <1>16, <1>k, <1>t, <2>1 DEF WriteFails, LaunchOpens, Relaunch
<1>17. CASE FirmwareOpens
  <2>1. RequestTypes'
    BY <1>0, <1>17 DEF FirmwareOpens, RequestTypes
  <2> QED BY <1>17, <1>k, <1>t, <2>1 DEF FirmwareOpens
<1>18. CASE Killed
  <2>1. RequestTypes' /\ JobTypes' /\ SweepTypes'
    BY <1>0, <1>18, Values
        DEF Killed, RequestTypes, JobTypes, SweepTypes, Places, Waiting
  <2> QED BY <1>18, <1>k, <1>t, <2>1 DEF Killed
<1>19. CASE UNCHANGED docVars
  BY <1>19, <1>k, <1>t DEF docVars
<1> QED BY <1>1, <1>2, <1>3, <1>4, <1>5, <1>6, <1>7, <1>8, <1>9, <1>10,
           <1>11, <1>12,
           <1>13, <1>14, <1>15, <1>16, <1>17, <1>18, <1>19
        DEF DocNext, ImportRuns, OpenRuns, PumpRuns

\* No file has the name 0, which says that there is none.
LEMMA NameZero == 0 \notin Names
BY DocAssumption DEF Names

\* and what was promised to the job and to the requests.
LEMMA DocPromiseStep ==
  ASSUME DocInv, [DocNext]_docVars PROVE JobInv' /\ RequestInv'
<1>0. CardTypes /\ RequestTypes /\ JobTypes /\ SweepTypes
  BY DocTypesAre DEF DocInv
<1>i. JobInv /\ RequestInv
  BY DEF DocInv
<1>j. /\ job.name \in Names /\ job.path \in Paths /\ job.file \in Files
      /\ job.path.doc \in Docs \cup {NoDoc}
  BY <1>0 DEF JobTypes, Jobs, Paths
<1>b. DOMAIN books = Names /\ books = [n \in Names |-> books[n]]
  BY <1>0 DEF CardTypes
<1>q. UNCHANGED <<books, raw, card>> => RequestInv'
  BY <1>i DEF RequestInv
<1>w. docAt' \in {"capture", "loop", "sweep", "import", "unhandled"} => JobInv'
  BY DEF JobInv, OpensWhatWasGiven
<1>1. ASSUME NEW d \in Docs, NEW from \in {"outside", "inbox", "card"},
             NEW arrives \in BOOLEAN, Drop(d, from, arrives)
      PROVE  JobInv' /\ RequestInv'
  BY <1>1, <1>q, <1>w DEF Drop, Imports
<1>2. CASE SweepBegins \/ SweepEnds \/ FirmwareOpens
  BY <1>2, <1>q, <1>w DEF SweepBegins, SweepEnds, FirmwareOpens
<1>3. ASSUME NEW d \in Docs, SweepNext(d) PROVE JobInv' /\ RequestInv'
  BY <1>3, <1>q, <1>w DEF SweepNext, Imports
<1>4. CASE ImportDeclines
  BY <1>4, <1>q, <1>w DEF ImportDeclines, DocGoes
<1>5. CASE ImportBegins
  <2> DEFINE d == job.path.doc
             n == Target(d)
  <2>1. n \in Names /\ books[n] \in {NoFile, File(d)}
    BY <1>5, TargetFits DEF ImportBegins
  <2>2. CASE books[n] = File(d)
    <3>1. books' = books /\ docAt' = "unlink" /\ job' = [job EXCEPT !.name = n]
          /\ UNCHANGED <<raw, card>>
      BY <1>5, <2>2 DEF ImportBegins, DocGoes
    <3>2. job'.name = n /\ job'.path = job.path
      BY <1>0, <3>1 DEF JobTypes, Jobs
    <3>3. JobInv'
      BY <2>2, <3>1, <3>2 DEF JobInv, OpensWhatWasGiven
    <3> QED BY <1>q, <3>1, <3>3
  <2>3. CASE books[n] # File(d)
    <3>1. books' = [books EXCEPT ![n] = Truncated(d)] /\ docAt' = "copy"
          /\ job' = [job EXCEPT !.name = n] /\ UNCHANGED <<raw, card>>
      BY <1>5, <2>3 DEF ImportBegins, DocGoes
    <3>2. job'.name = n /\ job'.path = job.path
      BY <1>0, <3>1 DEF JobTypes, Jobs
    <3>3. books'[n] = Truncated(d)
      BY <2>1, <3>1, <1>b
    <3>4. JobInv'
      BY <3>1, <3>2, <3>3 DEF JobInv, OpensWhatWasGiven
    <3>5. card # NoCard => card.name # n
      BY <1>i, <2>1, <2>3, Values DEF RequestInv, NoFile
    <3>6. RequestInv'
      BY <1>i, <1>b, <3>1, <3>5 DEF RequestInv
    <3> QED BY <3>4, <3>6
  <2> QED BY <2>2, <2>3
<1>6. CASE CopyEnds \/ CopyFails
  <2>1. docAt = "copy" /\ books[job.name] = Truncated(job.path.doc)
    BY <1>6, <1>i DEF CopyEnds, CopyFails, JobInv
  <2>2. card # NoCard => card.name # job.name
    BY <1>i, <2>1, Values DEF RequestInv
  <2>3. UNCHANGED <<raw, card, job>>
        /\ \A n \in Names : n # job.name => books'[n] = books[n]
    BY <1>6, <1>b DEF CopyEnds, CopyFails, DocGoes
  <2>4. RequestInv'
    BY <1>i, <2>2, <2>3 DEF RequestInv
  <2>5. CASE CopyEnds
    <3>1. docAt' = "unlink" /\ books'[job.name] = File(job.path.doc)
      BY <2>5, <1>b, <1>j DEF CopyEnds, DocGoes
    <3>2. JobInv'
      BY <2>3, <3>1 DEF JobInv, OpensWhatWasGiven
    <3> QED BY <2>4, <3>2
  <2>6. CASE CopyFails
    BY <2>6, <2>4, <1>w DEF CopyFails, DocGoes
  <2> QED BY <1>6, <2>5, <2>6
<1>7. CASE Unlink
  <2>1. JobInv'
    BY <1>7, <1>i DEF Unlink, DocGoes, JobInv, OpensWhatWasGiven
  <2> QED BY <1>7, <1>q, <2>1 DEF Unlink, DocGoes
<1>8. CASE RequestOpen
  <2>1. docAt' \in Waiting
    BY <1>0, <1>8 DEF RequestOpen, JobTypes, Jobs
  <2>2. books[job.name] = File(job.path.doc)
    BY <1>8, <1>i DEF RequestOpen, JobInv
  <2>3. card'.name = job.name /\ card'.doc = job.path.doc /\ books' = books
    BY <1>8 DEF RequestOpen
  <2>4. card' # NoCard
    BY <2>3, <1>j, NameZero DEF NoCard
  <2>5. RequestInv'
    BY <2>2, <2>3, <2>4, <1>j DEF RequestInv
  <2> QED BY <2>1, <2>5, <1>w DEF Waiting
<1>9. CASE Unhandled
  <2>1. docAt' \in Waiting
    BY <1>0, <1>9 DEF Unhandled, JobTypes, Jobs
  <2>2. raw'.imported => raw' = raw
    BY <1>9, <1>j DEF Unhandled, WatchKeeps, Paths
  <2>3. RequestInv'
    BY <1>9, <1>i, <2>2 DEF Unhandled, RequestInv
  <2> QED BY <2>1, <2>3, <1>w DEF Waiting
<1>10. CASE CaptureCard \/ PumpCard
  <2>1. PICK back \in {"capture", "loop"} : StagesCard(back)
    BY <1>10 DEF CaptureCard, PumpCard
  <2>2. card # NoCard /\ TakeBoth /\ UNCHANGED books
    BY <1>10 DEF CaptureCard, PumpCard
  <2>3. /\ docAt' = "staged" /\ openPath' = card.name
        /\ job'.file = File(card.doc)
    BY <2>1 DEF StagesCard, NoJob
  <2>4. JobInv'
    BY <1>i, <2>2, <2>3 DEF JobInv, OpensWhatWasGiven, RequestInv
  <2>5. RequestInv'
    BY <2>2, Values DEF TakeBoth, RequestInv
  <2> QED BY <2>4, <2>5
<1>11. CASE CaptureEnds \/ PumpFails
  <2>1. RequestInv'
    BY <1>11, <1>i, Values DEF CaptureEnds, PumpFails, RequestInv
  <2> QED BY <1>11, <2>1, <1>w DEF CaptureEnds, PumpFails
<1>12. CASE CaptureRaw \/ PumpRaw
  <2>1. PICK back \in {"capture", "loop"} : StagesRaw(back)
    BY <1>12 DEF CaptureRaw, PumpRaw
  <2>2. card = NoCard /\ card' = card /\ raw' = NoPath
    BY <1>12 DEF CaptureRaw, PumpRaw
  <2>3. raw.name \in Names
    BY <1>0 DEF RequestTypes, Paths
  <2>4. /\ docAt' = "write"
        /\ job'.name = raw.name /\ job'.file = Contents(raw)
        /\ books' = [books EXCEPT ![raw.name] = Truncated(Contents(raw).doc)]
    BY <2>1 DEF StagesRaw
  <2>5. books'[job'.name] = Truncated(job'.file.doc)
    BY <2>3, <2>4, <1>b
  <2>6. JobInv'
    BY <2>4, <2>5 DEF JobInv, OpensWhatWasGiven
  <2>7. RequestInv'
    BY <2>2, Values DEF RequestInv
  <2> QED BY <2>6, <2>7
<1>13. CASE PumpReplay
  <2>1. RequestInv'
    BY <1>13, Values DEF PumpReplay, TakeBoth, RequestInv
  <2> QED BY <1>13, <2>1, <1>w DEF PumpReplay
<1>14. CASE WriteEnds
  <2>1. card # NoCard => card.name # job.name
    BY <1>14, <1>i, Values DEF WriteEnds, JobInv, RequestInv
  <2>2. /\ UNCHANGED <<raw, card, job>>
        /\ openPath' = job.name /\ docAt' = "staged"
        /\ books' = [books EXCEPT ![job.name] = job.file]
    BY <1>14 DEF WriteEnds
  <2>3. books'[job.name] = job.file
    BY <2>2, <1>b, <1>j
  <2>4. JobInv'
    BY <2>2, <2>3 DEF JobInv, OpensWhatWasGiven
  <2>5. RequestInv'
    BY <1>i, <1>b, <2>1, <2>2 DEF RequestInv
  <2> QED BY <2>4, <2>5
<1>15. CASE WriteFails \/ LaunchOpens \/ Relaunch
  BY <1>15, <1>q, <1>w DEF WriteFails, LaunchOpens, Relaunch
<1>16. CASE Killed
  <2>1. RequestInv'
    BY <1>16, Values DEF Killed, RequestInv
  <2> QED BY <1>16, <2>1, <1>w DEF Killed
<1>17. CASE UNCHANGED docVars
  BY <1>17, <1>i DEF docVars, JobInv, OpensWhatWasGiven, RequestInv
<1> QED BY <1>1, <1>2, <1>3, <1>4, <1>5, <1>6, <1>7, <1>8, <1>9, <1>10,
           <1>11, <1>12,
           <1>13, <1>14, <1>15, <1>16, <1>17
        DEF DocNext, ImportRuns, OpenRuns, PumpRuns

\* So every step keeps the invariant.
LEMMA DocInvStep == ASSUME DocInv, [DocNext]_docVars PROVE DocInv'
BY DocTypeStep, DocPromiseStep DEF DocInv

\* A document lost is one the firmware was told to write over.
LEMMA HeldStep ==
  ASSUME DocInv, [DocNext]_docVars, NEW d \in Docs, Held(d), ~Held(d)'
  PROVE  docAt' = "write" /\ ~job'.path.imported
<1>0. CardTypes /\ RequestTypes /\ JobTypes /\ JobInv /\ RequestInv
  BY DocTypesAre DEF DocInv
<1>j. job.name \in Names /\ job.path.doc \in Docs \cup {NoDoc}
  BY <1>0 DEF JobTypes, Jobs, Paths
<1>b. books = [n \in Names |-> books[n]]
  BY <1>0 DEF CardTypes
<1>k. ASSUME inbox \subseteq inbox',
             \A n \in Names : books[n] = File(d) => books'[n] = File(d)
      PROVE  FALSE
  BY <1>k DEF Held
<1>1. ASSUME NEW e \in Docs, NEW from \in {"outside", "inbox", "card"},
             NEW arrives \in BOOLEAN, Drop(e, from, arrives)
      PROVE  FALSE
  BY <1>1, <1>k DEF Drop
<1>2. CASE UNCHANGED <<books, inbox>>
  BY <1>2, <1>k
<1>3. ASSUME NEW e \in Docs, SweepNext(e) PROVE FALSE
  BY <1>3, <1>k DEF SweepNext
<1>4. CASE ImportBegins
  <2>1. Target(job.path.doc) \in Names
        /\ books[Target(job.path.doc)] \in {NoFile, File(job.path.doc)}
    BY <1>4, TargetFits DEF ImportBegins
  <2>2. CASE books[Target(job.path.doc)] = File(job.path.doc)
    BY <1>4, <2>2, <1>k DEF ImportBegins
  <2>3. CASE books[Target(job.path.doc)] = NoFile
    <3>1. books[Target(job.path.doc)] # File(d)
      BY <2>3, Values DEF NoFile
    <3>2. \A n \in Names : n # Target(job.path.doc) => books'[n] = books[n]
      BY <1>4, <1>b DEF ImportBegins
    <3> QED BY <1>4, <3>1, <3>2, <1>k DEF ImportBegins
  <2> QED BY <2>1, <2>2, <2>3
<1>5. CASE CopyEnds \/ CopyFails
  <2>1. books[job.name] # File(d)
    BY <1>0, <1>5, Values DEF JobInv, CopyEnds, CopyFails
  <2>2. \A n \in Names : n # job.name => books'[n] = books[n]
    BY <1>5, <1>b DEF CopyEnds, CopyFails
  <2> QED BY <1>5, <2>1, <2>2, <1>k DEF CopyEnds, CopyFails
<1>6. CASE Unlink
  <2>1. books[job.name] = File(job.path.doc) /\ books' = books
    BY <1>0, <1>6 DEF Unlink, JobInv
  <2>2. d \in inbox => d = job.path.doc \/ d \in inbox'
    BY <1>6 DEF Unlink
  <2> QED BY <2>1, <2>2, <1>j DEF Held
<1>7. CASE CaptureRaw \/ PumpRaw
  <2>1. ~raw.imported
    BY <1>0, <1>7 DEF RequestInv, CaptureRaw, PumpRaw
  <2>2. PICK back \in {"capture", "loop"} : StagesRaw(back)
    BY <1>7 DEF CaptureRaw, PumpRaw
  <2> QED BY <2>1, <2>2 DEF StagesRaw
<1>8. CASE WriteEnds
  <2>1. books[job.name] # File(d)
    BY <1>0, <1>8, Values DEF JobInv, WriteEnds
  <2>2. \A n \in Names : n # job.name => books'[n] = books[n]
    BY <1>8, <1>b DEF WriteEnds
  <2> QED BY <1>8, <2>1, <2>2, <1>k DEF WriteEnds
<1>9. CASE SweepBegins \/ SweepEnds \/ FirmwareOpens \/ ImportDeclines
           \/ RequestOpen \/ Unhandled \/ CaptureCard \/ PumpCard
           \/ CaptureEnds \/ PumpFails \/ PumpReplay \/ WriteFails
           \/ LaunchOpens \/ Relaunch \/ Killed \/ UNCHANGED docVars
  BY <1>9, <1>2
      DEF SweepBegins, SweepEnds, FirmwareOpens, ImportDeclines, RequestOpen,
     Unhandled, CaptureCard, PumpCard, CaptureEnds, PumpFails, PumpReplay,
     WriteFails, LaunchOpens, Relaunch, Killed, docVars
<1> QED BY <1>1, <1>3, <1>4, <1>5, <1>6, <1>7, <1>8, <1>9
        DEF DocNext, ImportRuns, OpenRuns, PumpRuns

\* Types, for any documents and names: the next attempt at a name never runs
\* past the last one.
THEOREM DocumentsTyped == DocSpec => []DocTypeOK
<1>1. DocInit => DocInv
  BY DocStart
<1>2. DocInv /\ [DocNext]_docVars => DocInv'
  BY DocInvStep
<1>3. DocInv => DocTypeOK
  BY DEF DocInv
<1> QED BY <1>1, <1>2, <1>3, PTL DEF DocSpec

\* What the next setup() opens is what was handed over, whole
\* (OpensWhatWasGiven): whatever was imported, written or killed before.
THEOREM OpensTheGiven == DocSpec => []OpensWhatWasGiven
<1>1. DocInit => DocInv
  BY DocStart
<1>2. DocInv /\ [DocNext]_docVars => DocInv'
  BY DocInvStep
<1>3. DocInv => OpensWhatWasGiven
  BY DEF DocInv, JobInv
<1> QED BY <1>1, <1>2, <1>3, PTL DEF DocSpec

\* A document that was given to keep is kept (HeldIsKept): no import loses it,
\* and stageDocument() does not write over it after an import.
THEOREM HeldStaysHeld == DocSpec => HeldIsKept
<1> DEFINE Loss == \A d \in Docs :
       Held(d) /\ ~Held(d)' => docAt' = "write" /\ ~job'.path.imported
<1>1. DocInit => DocInv
  BY DocStart
<1>2. DocInv /\ [DocNext]_docVars => DocInv'
  BY DocInvStep
<1>3. DocInv /\ [DocNext]_docVars => [Loss]_docVars
  BY HeldStep
<1> QED BY <1>1, <1>2, <1>3, PTL DEF DocSpec, HeldIsKept

-----------------------------------------------------------------------------
(* The parts inside the whole.                                             *)

\* Every step of a file transfer is a step of its HTTP server, or leaves the
\* server as it is.
LEMMA TransferStep == ASSUME [Next]_vars PROVE [WebNext]_webVars
<1>1. ASSUME BeginTransfer PROVE WebNext
  BY <1>1 DEF BeginTransfer, WebNext
<1>2. ASSUME LeaveTransfer PROVE WebNext
  BY <1>2 DEF LeaveTransfer, WebNext
<1>3. ASSUME StopTransfer PROVE WebNext
  BY <1>3 DEF StopTransfer, WebNext
<1>4. ASSUME BeginSockets \/ CloseSockets \/ WsAcceptor \/ WsPeersAct \/ WsMain
             \/ (\E p \in WsPeers : WsThread(p)) \/ MainPass
             \/ DocHost \/ DocMain \/ Kill
      PROVE  UNCHANGED webVars
  BY <1>4 DEF BeginSockets, CloseSockets, WsAcceptor, WsPeersAct, WsMain,
              WsThread, MainPass, DocHost, DocMain, Kill, ServersSame, WebSame
<1>5. ASSUME RebootAll PROVE [WebNext]_webVars
  BY <1>5 DEF RebootAll, WebSame, WebNext
<1>6. ASSUME WebThread PROVE WebNext
  BY <1>6 DEF WebThread, WebNext
<1>7. ASSUME WebPeers PROVE WebNext
  BY <1>7 DEF WebPeers, WebNext
<1>8. ASSUME WebMain PROVE WebNext
  BY <1>8 DEF WebMain, WebNext, MainServes, HandlerRuns
<1>9. ASSUME Host \/ HostSleeps PROVE [WebNext]_webVars
  BY <1>9 DEF Host, HostSleeps, ServersSame, WebSame
<1>10. ASSUME UNCHANGED vars PROVE UNCHANGED webVars
  BY <1>10 DEF vars
<1> QED
  BY <1>1, <1>2, <1>3, <1>4, <1>5, <1>6, <1>7, <1>8, <1>9, <1>10
     DEF Next, Step, RebootStep, RestartInHandler, DocRelaunch, HostReboots

\* So it is to the WebSocket server,
LEMMA TransferWsStep == ASSUME [Next]_vars PROVE [WsNext]_wsVars
<1>1. CASE BeginSockets \/ CloseSockets \/ WsAcceptor \/ WsPeersAct \/ WsMain
           \/ (\E p \in WsPeers : WsThread(p))
  BY <1>1 DEF BeginSockets, CloseSockets, WsAcceptor, WsPeersAct, WsMain,
              WsThread, WsNext
<1>2. CASE RebootAll
  BY <1>2 DEF RebootAll, WsSame, WsNext
<1>3. CASE WsSame \/ ServersSame \/ UNCHANGED vars
  BY <1>3 DEF WsSame, ServersSame, vars
<1>4. CASE BeginTransfer \/ LeaveTransfer \/ StopTransfer \/ WebThread \/ WebPeers
           \/ WebMain \/ DocHost \/ DocMain \/ MainPass \/ HostSleeps \/ Kill
  BY <1>3, <1>4 DEF BeginTransfer, LeaveTransfer, StopTransfer, WebThread,
     WebPeers, WebMain, DocHost, DocMain, MainPass, HostSleeps, Kill
<1>5. CASE Host
  BY <1>3, <1>5 DEF Host
<1> QED BY <1>1, <1>2, <1>3, <1>4, <1>5
        DEF Next, Step, RebootStep, RestartInHandler, DocRelaunch, HostReboots

\* and to the books: the main thread takes one of their steps, the app is
\* killed or restarts, or nothing happens to them.
LEMMA TransferDocStep == ASSUME [Next]_vars PROVE [DocNext]_docVars
<1>1. CASE DocHost
  BY <1>1 DEF DocHost, DocNext
<1>2. CASE DocMain
  BY <1>2 DEF DocMain, DocNext
<1>3. CASE DocRelaunch \/ Kill
  BY <1>3 DEF DocRelaunch, Kill, DocNext
<1>4. CASE DocSame \/ UNCHANGED vars
  BY <1>4 DEF DocSame, vars
<1>5. CASE BeginTransfer \/ LeaveTransfer \/ StopTransfer
           \/ BeginSockets \/ CloseSockets \/ WebThread \/ WebPeers \/ WebMain
           \/ WsAcceptor \/ (\E p \in WsPeers : WsThread(p)) \/ WsPeersAct
           \/ WsMain \/ Host \/ MainPass
  BY <1>4, <1>5 DEF BeginTransfer, LeaveTransfer, StopTransfer, BeginSockets,
     CloseSockets, WebThread, WebPeers, WebMain, WsAcceptor, WsThread,
     WsPeersAct, WsMain, Host, MainPass
<1>6. CASE HostSleeps \/ RestartInHandler \/ HostReboots
  BY <1>4, <1>6 DEF HostSleeps, RestartInHandler, HostReboots
<1> QED BY <1>1, <1>2, <1>3, <1>4, <1>5, <1>6 DEF Next, Step, RebootStep

\* To the idle timer: one of its own steps, a step of begin() or stop(), or none.
AwakeNext ==
  \/ \E b \in BOOLEAN : Request(b) \/ SetForeground(b) \/ SetKeepAwake(b)
  \/ PreferenceFlips \/ HopLands \/ PassRuns \/ FallAsleep \/ Reboot

LEMMA TransferAwakeStep == ASSUME [Next]_vars PROVE [AwakeNext]_awakeVars
<1>1. CASE BeginTransfer \/ StopTransfer
  BY <1>1 DEF BeginTransfer, StopTransfer, AwakeSame, AwakeNext
<1>2. CASE RestartInHandler \/ DocRelaunch \/ HostReboots
  BY <1>2 DEF RestartInHandler, DocRelaunch, HostReboots, RebootAll, AwakeNext
<1>3. CASE MainPass \/ HostSleeps
  BY <1>3 DEF MainPass, HostSleeps, AwakeNext
<1>4. CASE Host
  BY <1>4 DEF Host, AwakeNext
<1>5. CASE AwakeSame \/ UNCHANGED vars
  BY <1>5 DEF AwakeSame, vars
<1>6. CASE LeaveTransfer \/ BeginSockets \/ CloseSockets \/ WebThread \/ WebPeers
           \/ WebMain \/ WsAcceptor \/ (\E p \in WsPeers : WsThread(p))
           \/ WsPeersAct \/ WsMain \/ DocHost \/ DocMain \/ Kill
  BY <1>5, <1>6 DEF LeaveTransfer, BeginSockets, CloseSockets, WebThread, WebPeers,
     WebMain, WsAcceptor, WsThread, WsPeersAct, WsMain, DocHost, DocMain, Kill
<1> QED BY <1>1, <1>2, <1>3, <1>4, <1>5, <1>6 DEF Next, Step, RebootStep

LEMMA AwakeTypesHold == ASSUME AwakeTypeOK, [AwakeNext]_awakeVars PROVE AwakeTypeOK'
<1> USE DEF AwakeTypeOK
<1>0. OnOff(preference) \in {"on", "off"} /\ Effective \in BOOLEAN
  BY DEF OnOff, Effective
<1>1. /\ LeaseStep.lease \in [held : BOOLEAN, previous : BOOLEAN]
      /\ LeaseStep.reapply \in BOOLEAN /\ LeaseStep.idleDisabled \in BOOLEAN
  BY <1>0 DEF LeaseStep
<1>2. ASSUME NEW again \in BOOLEAN, NEW idle \in BOOLEAN, PreferenceStep(again, idle)
      PROVE  reapply' \in BOOLEAN /\ applied' \in {"on", "off"} /\ idleDisabled' \in BOOLEAN
  BY <1>0, <1>2 DEF PreferenceStep
<1>3. CASE \E b \in BOOLEAN : Request(b) \/ SetForeground(b) \/ SetKeepAwake(b)
  BY <1>3 DEF Request, SetForeground, SetKeepAwake
<1>4. CASE PreferenceFlips \/ FallAsleep
  BY <1>4 DEF PreferenceFlips, FallAsleep
<1>5. CASE HopLands
  <2>1. Head(hops) \in BOOLEAN /\ Tail(hops) \in Seq(BOOLEAN)
    BY <1>5 DEF HopLands
  <2> QED BY <1>5, <2>1 DEF HopLands
<1>6. CASE MainLoopPass
  BY <1>1, <1>2, <1>6 DEF MainLoopPass
<1>7. CASE SleepPass
  BY <1>1, <1>7 DEF SleepPass
<1>8. CASE Reboot
  BY <1>2, <1>8 DEF Reboot
<1>9. CASE UNCHANGED awakeVars
  BY <1>9 DEF awakeVars
<1> QED BY <1>3, <1>4, <1>5, <1>6, <1>7, <1>8, <1>9 DEF AwakeNext, PassRuns

LEMMA AwakeTypesStart == ASSUME AwakeInit PROVE AwakeTypeOK
<1>1. hops = <<>> /\ <<>> \in Seq(BOOLEAN)
  BY DEF AwakeInit
<1>2. preference \in BOOLEAN /\ applied = OnOff(preference) /\ idleDisabled = preference
  BY DEF AwakeInit
<1>3. applied \in {"on", "off"} /\ idleDisabled \in BOOLEAN
  BY <1>2 DEF OnOff
<1>4. lease = [held |-> FALSE, previous |-> FALSE]
  BY DEF AwakeInit
<1>5. lease \in [held : BOOLEAN, previous : BOOLEAN]
  BY <1>4
<1>6. /\ wanted \in BOOLEAN /\ foreground \in BOOLEAN /\ reapply \in BOOLEAN
      /\ asleep \in BOOLEAN
  BY DEF AwakeInit
<1> QED BY <1>1, <1>2, <1>3, <1>5, <1>6 DEF AwakeTypeOK

\* The types of the four parts, with what makes them inductive.
TransferInv == WebInv /\ WsInv /\ AwakeTypeOK /\ DocInv

LEMMA TransferInvStart == Init => TransferInv
BY WebInitInv, WsInvStart, AwakeTypesStart, DocStart DEF Init, TransferInv

LEMMA TransferInvStep == ASSUME TransferInv, [Next]_vars PROVE TransferInv'
BY TransferStep, WebInvStep, TransferWsStep, WsInvStep, TransferAwakeStep,
   AwakeTypesHold, TransferDocStep, DocInvStep DEF TransferInv

LEMMA TransferInvTyped == TransferInv => TypeOK
BY WsInvTyped DEF TransferInv, WebInv, DocInv, TypeOK

\* Types, of all that a file transfer and the books consist of.
THEOREM TransferTyped == Spec => []TypeOK
BY TransferInvStart, TransferInvStep, TransferInvTyped, PTL DEF Spec

\* The server's invariant holds in every file transfer.
THEOREM TransferKeepsWebInv == Spec => []WebInv
<1>1. Init => WebInv
  BY WebInitInv DEF Init
<1>2. WebInv /\ [Next]_vars => WebInv'
  BY TransferStep, WebInvStep
<1> QED BY <1>1, <1>2, PTL DEF Spec

\* No handler ever runs beside the worker, or on a request whose connection is
\* gone (DispatchOwnsRequest): whenever the main thread dispatches, stops,
\* restarts from within a handler or begins with a new server.  With a server
\* that was stopped before it is false: dispatchAbandoned stays up.
THEOREM HandlerOwnsItsRequest ==
  ASSUME ~BeginsAgain PROVE Spec => []DispatchOwnsRequest
<1>1. WebInv => DispatchOwnsRequest
  BY WebInvImplies
<1> QED BY <1>1, TransferKeepsWebInv, PTL

\* Every upload that was announced is ended or aborted before its connection
\* goes, unless the very handler it was announced to threw or restarted the
\* device in between, and "end" means all of the body (UploadsEnd).
THEOREM EveryUploadEnds ==
  ASSUME ~BeginsAgain PROVE Spec => []UploadsEnd
<1>1. WebInv => UploadsEnd
  BY WebInvImplies
<1> QED BY <1>1, TransferKeepsWebInv, PTL

\* Neither stop() nor close() is kept from coming back: when the main thread
\* joins a server's threads none of them waits for a peer, for a connection or
\* for the main thread itself (StopIsNotKept, CloseIsNotKept).  What liveness
\* MainComesBack leaves to the scheduler is that they run.
THEOREM JoinsAreNotKept == Spec => [](StopIsNotKept /\ CloseIsNotKept)
<1>1. Init => WebInv /\ StopReaches /\ WsInit
  BY WebInitInv DEF Init, WebInit, StopReaches, StopPlaces, PastRecheck
<1>2. WebInv /\ StopReaches /\ [Next]_vars => WebInv' /\ StopReaches'
  BY TransferStep, WebInvStep, StopReachesStep
<1>3. StopReaches => StopIsNotKept
  BY StopReachesImplies
<1>4. Spec => WsSpec
  BY <1>1, TransferWsStep, PTL DEF Spec, WsSpec
<1> QED BY <1>1, <1>2, <1>3, <1>4, CloseComesBack, PTL DEF Spec

-----------------------------------------------------------------------------
(* What OwnerGetsItBack rests on.  The lease and the preference share one  *)
(* timer, and only the lease keeps what it found there: when it has let go *)
(* and nothing waits to be applied again, the timer shows the preference   *)
(* applied last.                                                           *)

TimerIsAccounted ==
  /\ hops = <<>>
  /\ ~lease.held /\ ~reapply => (idleDisabled <=> applied = "on")

NoTransfer == caller = "off"

\* While no transfer begins or stops, no hop is sent.
LEMMA NoHopIsSent ==
  ASSUME [Next]_vars, NoTransfer, NoTransfer', AwakeTypeOK, TimerIsAccounted
  PROVE  TimerIsAccounted'
<1> USE DEF AwakeTypeOK, TimerIsAccounted, NoTransfer
<1>1. CASE BeginTransfer \/ StopTransfer
  BY <1>1 DEF BeginTransfer, WebBegin, WebBeginFails, StopTransfer, StopFlag
<1>2. ASSUME Reboot
      PROVE  TimerIsAccounted'
  BY <1>2 DEF Reboot, PreferenceStep, OnOff
<1>3. CASE RebootStep
  BY <1>2, <1>3 DEF RebootStep, RestartInHandler, DocRelaunch, HostReboots, RebootAll
<1>4. CASE MainPass
  <2>1. CASE HopLands
    BY <2>1 DEF HopLands
  <2>2. CASE MainLoopPass
    BY <2>2 DEF MainLoopPass, LeaseStep, PreferenceStep, OnOff, Effective
  <2>3. CASE SleepPass
    BY <2>3 DEF SleepPass, LeaseStep, Effective
  <2> QED BY <1>4, <2>1, <2>2, <2>3 DEF MainPass, PassRuns
<1>5. CASE Host
  BY <1>5 DEF Host, Request, SetForeground, PreferenceFlips
<1>6. CASE HostSleeps
  BY <1>6 DEF HostSleeps, FallAsleep
<1>7. CASE AwakeSame \/ UNCHANGED vars
  BY <1>7 DEF AwakeSame, awakeVars, vars
<1>8. CASE LeaveTransfer \/ BeginSockets \/ CloseSockets \/ WebThread \/ WebPeers
           \/ WebMain \/ WsAcceptor \/ (\E p \in WsPeers : WsThread(p))
           \/ WsPeersAct \/ WsMain \/ DocHost \/ DocMain \/ Kill
  BY <1>7, <1>8 DEF LeaveTransfer, BeginSockets, CloseSockets, WebThread, WebPeers,
     WebMain, WsAcceptor, WsThread, WsPeersAct, WsMain, DocHost, DocMain, Kill
<1> QED BY <1>1, <1>3, <1>4, <1>5, <1>6, <1>7, <1>8 DEF Next, Step

LEMMA PassSettles ==
  ASSUME AwakeTypeOK, TimerIsAccounted, MainLoopPass, ~Effective
  PROVE  idleDisabled' = preference
<1>1. CASE applied = OnOff(preference) /\ ~lease.held /\ ~reapply
  BY <1>1 DEF AwakeTypeOK, TimerIsAccounted, MainLoopPass, PreferenceStep,
     LeaseStep, OnOff, Effective
<1>2. CASE ~(applied = OnOff(preference) /\ ~lease.held /\ ~reapply)
  BY <1>2 DEF AwakeTypeOK, MainLoopPass, PreferenceStep, LeaseStep, Effective
<1> QED BY <1>1, <1>2

\* Once the update run's lease may go, one pass of the main loop gives the idle
\* timer back: it ends as the owner wants it now, whatever presses, flips,
\* sleeps, reboots and earlier leases came before.  Without file transfers, as
\* in OwnerGetsItBack: to that the scheduler adds that a pass is made.
THEOREM OnePassGivesItBack ==
  Spec /\ []NoTransfer
    => [][MainLoopPass /\ ~Effective => idleDisabled' = preference]_vars
<1>1. Init => TransferInv /\ TimerIsAccounted
  <2> SUFFICES ASSUME Init PROVE TimerIsAccounted
    BY TransferInvStart
  <2>1. AwakeInit /\ AwakeTypeOK
    BY AwakeTypesStart DEF Init
  <2> QED BY <2>1 DEF AwakeInit, TimerIsAccounted, AwakeTypeOK, OnOff
<1>2. TransferInv /\ TimerIsAccounted /\ [Next]_vars /\ NoTransfer /\ NoTransfer'
        => TransferInv' /\ TimerIsAccounted'
  BY TransferInvStep, NoHopIsSent DEF TransferInv
<1>3. TransferInv /\ TimerIsAccounted
        => [MainLoopPass /\ ~Effective => idleDisabled' = preference]_vars
  BY PassSettles DEF TransferInv
<1> QED BY <1>1, <1>2, <1>3, PTL DEF Spec
-----------------------------------------------------------------------------
(* What UpdateStaysAwake rests on.  Only the sleep loop leaves the flag for *)
(* the preference up: a boot takes it down.                                 *)

AppliedAwake == reapply => asleep

LEMMA AppliedAwakeStep ==
  ASSUME AppliedAwake, [Next]_vars
  PROVE  AppliedAwake'
<1> USE DEF AppliedAwake
<1>1. CASE BeginTransfer \/ StopTransfer
  BY <1>1 DEF BeginTransfer, StopTransfer, SetKeepAwake, AwakeSame, awakeVars
<1>2. CASE RebootStep
  <2>1. Reboot
    BY <1>2 DEF RebootStep, RestartInHandler, DocRelaunch, HostReboots, RebootAll
  <2> QED BY <2>1 DEF Reboot, PreferenceStep
<1>3. CASE MainPass
  <2>1. CASE HopLands
    BY <2>1 DEF HopLands
  <2>2. CASE MainLoopPass
    BY <2>2 DEF MainLoopPass, PreferenceStep
  <2>3. CASE SleepPass
    BY <2>3 DEF SleepPass
  <2> QED BY <1>3, <2>1, <2>2, <2>3 DEF MainPass, PassRuns
<1>4. CASE Host \/ HostSleeps
  BY <1>4 DEF Host, HostSleeps, Request, SetForeground, PreferenceFlips, FallAsleep
<1>5. CASE AwakeSame \/ UNCHANGED vars
  BY <1>5 DEF AwakeSame, awakeVars, vars
<1>6. CASE LeaveTransfer \/ BeginSockets \/ CloseSockets \/ WebThread \/ WebPeers
           \/ WebMain \/ WsAcceptor \/ (\E p \in WsPeers : WsThread(p))
           \/ WsPeersAct \/ WsMain \/ DocHost \/ DocMain \/ Kill
  BY <1>5, <1>6 DEF LeaveTransfer, BeginSockets, CloseSockets, WebThread, WebPeers,
     WebMain, WsAcceptor, WsThread, WsPeersAct, WsMain, DocHost, DocMain, Kill
<1> QED BY <1>1, <1>2, <1>3, <1>4, <1>5, <1>6 DEF Next, Step

\* The one pass that leaves the timer to the phone while an update works.
Lapse == PassRuns /\ Effective /\ ~idleDisabled'

\* While an update works in the foreground, every pass leaves the idle timer
\* held, whatever a hop, a flip, a sleep or a reboot did to it before, but the
\* one that applies a preference just turned off.  That one keeps the lease, so
\* until the preference changes again there is no second.  UpdateStaysAwake adds
\* that passes are made.
THEOREM PassesHold ==
  Spec => [][Lapse => /\ ~asleep /\ applied = "on" /\ ~preference
                      /\ applied' = "off" /\ lease'.held]_vars
<1>1. Init => AwakeTypeOK /\ AppliedAwake
  BY AwakeTypesStart DEF Init, AwakeInit, AppliedAwake
<1>2. ASSUME AwakeTypeOK, AppliedAwake, Lapse
      PROVE  /\ ~asleep /\ applied = "on" /\ ~preference
             /\ applied' = "off" /\ lease'.held
  <2>1. ~SleepPass
    BY <1>2 DEF Lapse, SleepPass, LeaseStep
  <2>2. MainLoopPass
    BY <1>2, <2>1 DEF Lapse, PassRuns
  <2>3. LeaseStep.idleDisabled /\ ~LeaseStep.reapply /\ LeaseStep.lease.held
    BY <1>2, <2>2 DEF Lapse, LeaseStep, MainLoopPass, AppliedAwake, AwakeTypeOK
  <2> QED BY <1>2, <2>2, <2>3 DEF MainLoopPass, PreferenceStep, Lapse, AwakeTypeOK, OnOff
<1>3. AwakeTypeOK /\ AppliedAwake
        => [Lapse => /\ ~asleep /\ applied = "on" /\ ~preference
                     /\ applied' = "off" /\ lease'.held]_vars
  BY <1>2
<1>4. Spec => []AwakeTypeOK
  BY TransferTyped, PTL DEF TypeOK
<1> QED BY <1>1, <1>3, <1>4, AppliedAwakeStep, PTL DEF Spec
=============================================================================
