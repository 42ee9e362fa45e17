---------------------------- MODULE FileTransfer ----------------------------
(***************************************************************************)
(* How files get onto the device while it runs: the HTTP server, the       *)
(* WebSocket server, the books handed over by the phone, and the idle      *)
(* timer all of this writes, run by one main thread.  The firmware's loop  *)
(* (not under src/) begins and leaves the servers, polls both, opens books *)
(* and starts and stops update runs.                                       *)
(*                                                                         *)
(* The servers' own threads run at any time; what runs on the main thread  *)
(* takes turns: a route handler, a callback, stop(), close(), an import    *)
(* and a pass over the idle timer are never inside one another, save for a *)
(* handler that restarts, which stops the HTTP server from within.  A      *)
(* handed-over book restarts too, in the middle of a transfer if need be.  *)
(***************************************************************************)
EXTENDS WebServer, WebSocketsServer, KeepAwake, DocumentOpen

CONSTANT Budgets   \* bound: how often the outside may act in one behaviour
ASSUME BudgetAssumption ==
  Budgets \subseteq [web : Nat, http : Nat, ws : Nat, sockets : Nat,
               frames : Nat, host : Nat, docs : Nat, kills : Nat,
               hands : Nat]

VARIABLE budget    \* what is left of it

vars == <<webVars, wsVars, awakeVars, docVars, budget>>

TypeOK == WebTypeOK /\ WsTypeOK /\ AwakeTypeOK /\ DocTypeOK

Init ==
  /\ WebInit /\ WsInit /\ AwakeInit /\ DocInit
  /\ budget \in Budgets
  /\ budget.host = 0 => ~preference      \* which plays no part then
  /\ docAt = "capture" =>              \* the launch of the app is explored
       budget.docs > 0 /\ budget.web = 0 \* with documents, without transfers

Spend(what) ==
  /\ budget[what] > 0
  /\ budget' = [budget EXCEPT ![what] = @ - 1]

WebSame == UNCHANGED webVars
WsSame == UNCHANGED wsVars
AwakeSame == UNCHANGED awakeVars
DocSame == UNCHANGED docVars
ServersSame == WebSame /\ WsSame

\* The main thread is in no server's call and in no import: it may poll its
\* events, which it does asleep as well, and awake it runs loop().
MainIsFree ==
  caller \in {"off", "loop"} /\ wsCaller \notin InClose /\ docAt = "loop"
MainInLoop == MainIsFree /\ ~asleep

-----------------------------------------------------------------------------
(* Beginning and leaving.                                                  *)

\* A begin() that succeeds asks for the idle timer; stop() gives it back right
\* after its flag, asked for or not.
BeginTransfer ==
  /\ MainInLoop /\ Spend("web")
  /\ \/ WebBegin /\ SetKeepAwake(TRUE)
     \/ WebBeginFails /\ AwakeSame
  /\ WsSame /\ DocSame

LeaveTransfer ==
  /\ MainInLoop /\ Leave
  /\ WsSame /\ AwakeSame /\ DocSame /\ UNCHANGED budget

StopTransfer ==
  /\ StopFlag /\ SetKeepAwake(FALSE)
  /\ WsSame /\ DocSame /\ UNCHANGED budget

BeginSockets ==
  /\ MainInLoop /\ Spend("ws")
  /\ WsBegin /\ WebSame /\ AwakeSame /\ DocSame

CloseSockets ==
  /\ MainInLoop /\ CloseFlag
  /\ WebSame /\ AwakeSame /\ DocSame /\ UNCHANGED budget

\* The reset hooks of a reboot: the HTTP server is stopped, also from within
\* its own handler, and the update run's request is withdrawn.
RebootAll ==
  /\ wsCaller \notin InClose
  /\ Reboot
  /\ IF caller = "off" THEN WebSame ELSE Leave
  /\ IF wsCaller = "loop" THEN Orphan ELSE WsSame

RestartInHandler ==
  caller = "handler" /\ RebootAll /\ DocSame /\ UNCHANGED budget

-----------------------------------------------------------------------------
(* The HTTP server.                                                        *)

WebThread ==
  WorkerRuns /\ WsSame /\ AwakeSame /\ DocSame /\ UNCHANGED budget

WebPeers ==
  /\ \/ WorkerHears /\ UNCHANGED budget
     \/ Spend("http") /\ Connect
  /\ WsSame /\ AwakeSame /\ DocSame

WebMain ==
  /\ \/ MainInLoop /\ HandleClient
     \/ HandlerRuns
     \/ Stopping
  /\ WsSame /\ AwakeSame /\ DocSame /\ UNCHANGED budget

-----------------------------------------------------------------------------
(* The WebSocket server.                                                   *)

WsThread(p) ==
  ThreadRuns(p) /\ WebSame /\ AwakeSame /\ DocSame /\ UNCHANGED budget

WsAcceptor ==
  WsAcceptFails /\ WebSame /\ AwakeSame /\ DocSame /\ UNCHANGED budget

WsPeersAct ==
  /\ \/ WsConnect /\ Spend("sockets")
     \/ UNCHANGED budget /\ \E p \in WsPeers : PeerActs(p)
     \/ Spend("frames") /\ \E p \in WsPeers : PeerSends(p)
  /\ WebSame /\ AwakeSame /\ DocSame

WsMain ==
  /\ (MainInLoop /\ WsLoop) \/ Closing
  /\ WebSame /\ AwakeSame /\ DocSame /\ UNCHANGED budget

-----------------------------------------------------------------------------
(* Documents.                                                              *)

\* Drop events and the main queue are served where events are polled.
DocHost ==
  /\ \/ /\ MainIsFree \/ docAt = "capture"
        /\ Spend("docs")
        /\ \E d \in Docs, from \in {"outside", "inbox", "card"} :
             \E arrives \in BOOLEAN : Drop(d, from, arrives)
     \/ MainIsFree /\ SweepBegins /\ UNCHANGED budget
     \/ MainInLoop /\ FirmwareOpens /\ UNCHANGED budget
  /\ ServersSame /\ AwakeSame

DocMain ==
  /\ ImportRuns \/ OpenRuns \/ (MainInLoop /\ PumpRuns)
  /\ ServersSame /\ AwakeSame /\ UNCHANGED budget

DocRelaunch == Relaunch /\ RebootAll /\ UNCHANGED budget

\* Nothing of the servers or of the idle timer outlives the process.
OnlyDocuments ==
  /\ caller = "off" /\ wsCaller = "off" /\ hops = <<>>
  /\ ~asleep /\ ~wanted /\ ~lease.held /\ idleDisabled = preference

Kill ==
  /\ OnlyDocuments /\ Spend("kills")
  /\ Killed /\ ServersSame /\ AwakeSame

-----------------------------------------------------------------------------
(* The host and the pass.                                                  *)

Host ==
  /\ Spend("host")
  /\ \/ MainInLoop /\ (\E w \in BOOLEAN : Request(w)) /\ ServersSame
     \/ (PreferenceFlips \/ \E f \in BOOLEAN : SetForeground(f))
           /\ ServersSame
  /\ DocSame

\* startDeepSleep, by a press or by inactivity.
HostSleeps ==
  /\ MainInLoop /\ (Spend("host") \/ Spend("hands"))
  /\ FallAsleep /\ ServersSame /\ DocSame

\* The owner or the firmware restarts the device, asleep or awake.
HostReboots ==
  /\ MainIsFree /\ (Spend("host") \/ Spend("hands"))
  /\ RebootAll /\ DocSame

MainPass ==
  /\ MainIsFree
  /\ HopLands \/ PassRuns
  /\ ServersSame /\ DocSame /\ UNCHANGED budget

\* Every way to the in-process reboot.
RebootStep == RestartInHandler \/ DocRelaunch \/ HostReboots

Step ==
  \/ BeginTransfer \/ LeaveTransfer \/ StopTransfer
  \/ BeginSockets \/ CloseSockets
  \/ WebThread \/ WebPeers \/ WebMain
  \/ WsAcceptor \/ (\E p \in WsPeers : WsThread(p)) \/ WsPeersAct \/ WsMain
  \/ DocHost \/ DocMain \/ Host \/ MainPass

Next == Step \/ HostSleeps \/ RebootStep \/ Kill

Spec == Init /\ [][Next]_vars

-----------------------------------------------------------------------------
(* Some server thread that can go on without its peer does, and so does    *)
(* the main thread: less than the scheduler gives every one of them.       *)

ServerThreads == WebThread \/ WsAcceptor \/ \E p \in WsPeers : WsThread(p)
MainThread ==
  WebMain \/ StopTransfer \/ WsMain \/ DocMain \/ DocRelaunch \/ MainPass

Fairness == WF_vars(ServerThreads) /\ WF_vars(MainThread)

FairSpec == Spec /\ Fairness

-----------------------------------------------------------------------------
(* Properties of the composition; the others are their components'.        *)

\* The main thread comes back from whatever it enters: a route handler, an
\* import, stop() or close(), also with a peer that dribbles for ever and when
\* a book that was handed over restarts the device.  Back, and everything else
\* on the screen, waits for it.
MainComesBack == []<>MainIsFree

\* An update run that goes on in the foreground ends up with the idle timer
\* held for good, whatever preference changes, transfers ending or reboots
\* came in between: the lease is taken, and asserted again when it is lost.
UpdateStaysAwake == <>[]Effective => <>[]idleDisabled

\* Once nothing holds it, an awake device's idle timer is what the owner wants
\* now, not what it was when an update run began: the lease's end makes the
\* preference apply again.  Without file transfers, whose stop() leaves the
\* timer enabled until the preference changes.
OwnerGetsItBack ==
  <>[](~Effective /\ ~asleep) /\ [](caller = "off")
    => <>[](idleDisabled = preference)
=============================================================================
