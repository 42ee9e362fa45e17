------------------------------- MODULE Peers -------------------------------
(***************************************************************************)
(* The connections other machines make to the two servers of a file        *)
(* transfer: src/src/WebServer.cpp (HTTP) and                              *)
(* src/src/WebSocketsServer.cpp.  A connection is a socket from accept()   *)
(* to close(); it is named by the peer that made it and is made once.      *)
(***************************************************************************)
CONSTANTS
  HttpPeers,   \* connections made to the HTTP port
  WsPeers,     \* connections made to the WebSocket port
  NoPeer       \* -1, where the code keeps a descriptor

ASSUME PeerAssumption == NoPeer \notin HttpPeers \cup WsPeers
=============================================================================
