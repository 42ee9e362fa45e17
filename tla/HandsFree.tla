------------------------------ MODULE HandsFree ------------------------------
(***************************************************************************)
(* Reading without hands: read aloud, speed read and the volume rocker on  *)
(* one page channel, one queue of taps and one audio session, driven by    *)
(* the main loop; the firmware's reader (PageChannel) turns the pages they *)
(* ask for and publishes what they read.                                   *)
(*                                                                         *)
(* A frame of the main loop is the firmware's loop(), the harness's        *)
(* perFrame (the settings, read aloud, the rocker) and the presenter's     *)
(* pass (speed read).  Each is a step; the presenter also runs inside long *)
(* calls of the firmware.                                                  *)
(***************************************************************************)
EXTENDS VolumeRocker, SpeedRead

VARIABLE wish    \* the owner's settings: what is to be on

handsVars == <<reader, channel, aloud, speed, rocker, wish>>

Settings == [aloud : BOOLEAN, speed : BOOLEAN, rocker : BOOLEAN]

HandsTypeOK ==
  /\ ReaderTypeOK /\ AloudTypeOK /\ SpeedTypeOK /\ RockerTypeOK
  /\ wish \in Settings

HandsInit ==
  /\ ReaderInit /\ AloudInit /\ SpeedInit /\ RockerInit
  /\ wish \in Settings

AloudSame == UNCHANGED <<aloud, rocker>>
OwnerSame == UNCHANGED wish

-----------------------------------------------------------------------------
(* The main loop.                                                          *)

\* Taps queued for one update() are one press: both are of the same button.
FirmwareTurns ==
  /\ aloud.tap \/ speed.tap
  /\ reader' = TurnedForward
  /\ aloud' = [aloud EXCEPT !.tap = FALSE]
  /\ speed' = [speed EXCEPT !.tap = FALSE]
  /\ UNCHANGED <<channel, rocker>> /\ OwnerSame

\* pollSpeedRead: who turns the pages, then the mode.  A mode turned on is
\* shown the channel's page again and has the firmware draw its own.
SpeedPolls ==
  /\ <<speed.defers, speed.on>> # <<wish.aloud, wish.speed>>
  /\ speed' = [SpeedSwitched(wish.speed) EXCEPT !.defers = wish.aloud]
  /\ IF wish.speed /\ ~speed.on
     THEN channel' = PeekedAnew /\ reader' = Opened(reader.at)
     ELSE UNCHANGED <<channel, reader>>
  /\ AloudSame /\ OwnerSame

\* Read aloud comes after that poll: its setting has been passed on by then.
AloudRuns ==
  /\ speed.defers = wish.aloud
  /\ \/ AloudFrame(wish.aloud)
     \/ AwaitTimesOut /\ UNCHANGED channel
  /\ UNCHANGED <<reader, speed, rocker>> /\ OwnerSame

RockerRuns ==
  /\ \/ SessionIsReleased
     \/ wish.rocker /\ Arm
     \/ ~wish.rocker /\ Disarm
  /\ UNCHANGED <<reader, channel, speed>> /\ OwnerSame

\* No presenter's pass comes between the two polls of one perFrame.
SpeedRuns ==
  /\ aloud.on => speed.defers
  /\ SpeedStep
  /\ UNCHANGED reader /\ AloudSame /\ OwnerSame

\* The harness's perFrame.
HarnessRuns == SpeedPolls \/ AloudRuns \/ RockerRuns

HandsMain == FirmwareTurns \/ HarnessRuns \/ SpeedRuns

-----------------------------------------------------------------------------
(* Other threads.                                                          *)

RenderTask == Render /\ UNCHANGED speed /\ AloudSame /\ OwnerSame

Engine ==
  EngineFinishes /\ UNCHANGED <<reader, channel, speed, rocker>> /\ OwnerSame

-----------------------------------------------------------------------------
(* The owner and the phone.                                                *)

OwnerReads ==
  /\ (\E page \in Pages : OwnerOpens(page)) \/ OwnerLeaves
  /\ UNCHANGED <<speed, wish>> /\ AloudSame

OwnerTouches ==
  \/ /\ WordTapped \/ RateChanges
     /\ UNCHANGED <<reader, channel, speed, rocker, wish>>
  \/ SpeedPoked /\ UNCHANGED <<reader, channel, wish>> /\ AloudSame

\* Heard asleep as well: the sleep loop polls its events.
MagicTouch == MagicTap /\ UNCHANGED <<reader, channel, speed, rocker, wish>>

\* In Settings, which is another app.
OwnerWishes ==
  /\ \E which \in {"aloud", "speed", "rocker"} :
       wish' = [wish EXCEPT ![which] = ~@]
  /\ UNCHANGED <<reader, channel, speed>> /\ AloudSame

PhoneInterrupts ==
  PhoneCancels /\ UNCHANGED <<reader, channel, speed, rocker, wish>>

\* A touch is served by the main thread; the others come at any time.
HandsOwner == OwnerReads \/ OwnerTouches
HandsOutside == OwnerWishes \/ PhoneInterrupts

-----------------------------------------------------------------------------
\* What a reboot does here: the channel and the queued taps go, read aloud is
\* stopped and its core forced off.  Speed read and the rocker have no hook.
HandsReboot ==
  /\ ReaderReboots
  /\ AloudReboots
  /\ speed' = [speed EXCEPT !.tap = FALSE]
  /\ UNCHANGED rocker /\ OwnerSame

\* Going to sleep drops the queued taps.  Nothing stops the voice.
HandsSleep ==
  /\ aloud' = [aloud EXCEPT !.tap = FALSE]
  /\ speed' = [speed EXCEPT !.tap = FALSE]
  /\ UNCHANGED <<reader, channel, rocker>> /\ OwnerSame

\* A new process; the settings are the phone's.
HandsRelaunch ==
  /\ ReaderRelaunches
  /\ aloud' = SilentAloud /\ speed' = IdleSpeed /\ rocker' = Disarmed
  /\ OwnerSame

HandsNext ==
  HandsMain \/ RenderTask \/ Engine \/ HandsOwner \/ MagicTouch
  \/ HandsOutside \/ HandsSleep \/ HandsReboot \/ HandsRelaunch

HandsSpec == HandsInit /\ [][HandsNext]_handsVars

-----------------------------------------------------------------------------
(* Properties.                                                             *)

\* The engine says one thing at a time, and only while the core takes itself
\* to be speaking or paused; it is held exactly when the core is paused.
OneVoice ==
  /\ Len(aloud.voice) <= 1
  /\ aloud.voice # <<>> =>
       Live(aloud) /\ aloud.paused = (aloud.state = "Paused")

\* What it says is cut from the page the adapter holds, the one its highlight
\* is painted on and assistive tech is shown; of a page the core had missed
\* (it takes none while it is off) no more is said than that.
VoiceReadsItsPage ==
  \A i \in 1..Len(aloud.voice) :
    aloud.voice[i].known => aloud.voice[i].page = aloud.page

\* It is heard with the ring switch on silent and the screen locked: while
\* read aloud holds the session nobody has changed its category (that the phone
\* takes the one it is given is EnsureSession's assumption).
VoiceIsHeard == aloud.held => aloud.category = "Playback"

\* Speech keeps to the reader, through turns by hand, taps, reboots, changes
\* of settings, and a rocker that borrows the session.
SpeechFollows == OneVoice /\ VoiceReadsItsPage /\ VoiceIsHeard

\* A page is turned by itself only when it is done with.  Read aloud turns it
\* after it was spoken to its end, never for an utterance that was stopped,
\* canceled or is of a page before; or because there are no words on it, and
\* that only MaxSkips times until there are some.  Speed read turns it once,
\* however often it is drawn again, and leaves it to read aloud.
TurnsAreEarned ==
  [][/\ aloud'.tap /\ ~aloud.tap =>
          aloud'.heardOut \/ (aloud'.page = Cleared /\ aloud'.blanks <= MaxSkips)
     /\ speed'.tap /\ ~speed.tap => speed'.asks = 1 /\ ~aloud.on]_handsVars

=============================================================================
