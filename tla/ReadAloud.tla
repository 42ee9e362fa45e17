------------------------------ MODULE ReadAloud ------------------------------
(***************************************************************************)
(* Read aloud: the decisions (src/ios/ReadAloudCore.cpp) and the adapter   *)
(* that speaks (src/ios/CrossPointReadAloud.mm).  A page that arrives is   *)
(* spoken; at its end the page is turned by a press; the page that follows *)
(* is spoken in its turn.  Pages, taps and settings come on the main       *)
(* thread, one perFrame or one call at a time.  The speech engine          *)
(* (AVSpeechSynthesizer, external) calls back on a thread of its own, so   *)
(* what it says is queued and may be about an utterance long stopped.      *)
(*                                                                         *)
(* Words are left out: which word is lit decides what a tap on one does,   *)
(* and is chosen freely.  `aloud` is what the code keeps in its statics,   *)
(* the engine's queue and the audio session; the operators are its         *)
(* functions, from a state to the one they leave.                          *)
(***************************************************************************)
EXTENDS PageChannel

CONSTANT MaxSkips   \* kMaxConsecutiveSkips
ASSUME SkipsAssumption == MaxSkips \in Nat

VARIABLE aloud

CoreStates == {"Off", "Speaking", "Paused", "AwaitingNextPage"}

\* An utterance: the page it was cut from, whether that was the page the core
\* took its offset from, and whether its serial is still the current one.
Utterances == [page : Pages, known : BOOLEAN, current : BOOLEAN]
EngineEvents == [kind : {"finished", "canceled"}, current : BOOLEAN]

AloudStates ==
  [on : BOOLEAN,                       \* enabled_
   state : CoreStates,                 \* state_
   text : {Cleared} \cup Pages,        \* pageText_, rects_, textBytes_
   skips : 0..MaxSkips,                \* skippedTextless_
   page : {Cleared} \cup Pages,        \* g_pageUtf8, g_rects
   awaiting : BOOLEAN,                 \* g_awaitTicks > 0
   held : BOOLEAN,                     \* g_sessionActive
   category : {"Default", "Playback", "Ambient"},  \* AVAudioSession's
   voice : Seq(Utterances),            \* what the engine has to say
   paused : BOOLEAN,                   \* isPaused
   events : Seq(EngineEvents),         \* g_events, and those to come
   tap : BOOLEAN,                      \* its queued page-forward tap
   heardOut : BOOLEAN,                 \* history: page spoken to its end
   blanks : 0..(MaxSkips + 1)]         \* history: turns since words

AloudTypeOK == aloud \in AloudStates

SilentAloud ==
  [on |-> FALSE, state |-> "Off", text |-> Cleared, skips |-> 0,
   page |-> Cleared, awaiting |-> FALSE, held |-> FALSE,
   category |-> "Default", voice |-> <<>>, paused |-> FALSE,
   events |-> <<>>, tap |-> FALSE, heardOut |-> FALSE, blanks |-> 0]

AloudInit == aloud = SilentAloud

-----------------------------------------------------------------------------
(* The engine and its audio session.                                       *)

\* What the phone decides, where it has a say: a stop may leave the paused flag
\* standing, the session may not activate, and an offset that was a word of
\* another page may be beyond this one or inside a character.
Lucks == [sticks : {FALSE, aloud.paused}, refused : {FALSE, ~aloud.held},
          offset : IF aloud.text = aloud.page THEN {"fits"}
                   ELSE {"fits", "beyond", "broken"}]

Live(a) == a.state \in {"Speaking", "Paused"}

\* A new serial: nothing said before is current any more.
Outdated(s) == [i \in 1..Len(s) |-> [s[i] EXCEPT !.current = FALSE]]
NewSerial(a) ==
  [a EXCEPT !.voice = Outdated(@), !.events = Outdated(@)]

\* stopSpeakingAtBoundary: everything that was to be said is canceled, and
\* the delegate will hear of it.
StopVoice(a, luck) ==
  [a EXCEPT !.voice = <<>>,
            !.paused = @ /\ luck.sticks,
            !.events = @ \o [i \in 1..Len(a.voice) |->
                [kind |-> "canceled", current |-> a.voice[i].current]]]

StopIfLive(a, luck) == IF Live(a) THEN StopVoice(a, luck) ELSE a

\* ensureAudioSession: the category is asserted at every activation, because
\* the volume rocker borrows the session in between.  That the phone takes it is
\* assumed: a refusal is logged, and the session activated under the old one.
EnsureSession(a, luck) ==
  IF a.held THEN a
  ELSE [a EXCEPT !.category = "Playback", !.held = ~luck.refused]

\* startUtterance
Start(a, luck) ==
  LET ready == NewSerial([EnsureSession(a, luck) EXCEPT !.paused = FALSE])
      said == [page |-> a.page, known |-> a.text = a.page, current |-> TRUE]
      strange == a.text # a.page
  IN  IF a.page = Cleared \/ (strange /\ luck.offset = "beyond") THEN a
      ELSE IF strange /\ luck.offset = "broken" THEN ready
      ELSE [ready EXCEPT !.voice = Append(@, said), !.heardOut = FALSE]

\* TurnPageForward
QueueTurn(a) ==
  [a EXCEPT !.tap = TRUE, !.awaiting = TRUE,
            !.blanks = IF a.heardOut \/ a.blanks > MaxSkips THEN @ ELSE @ + 1]

-----------------------------------------------------------------------------
(* The core, each decision with the actions the adapter applies for it.    *)

SetEnabled(a, on, luck) ==
  IF on \/ ~a.on THEN [a EXCEPT !.on = on]
  ELSE [StopIfLive(a, luck) EXCEPT !.on = FALSE, !.state = "Off"]

\* A page without words is walked past; the bound latches.
BlankArrived(a) ==
  LET blank == [a EXCEPT !.text = Cleared, !.heardOut = FALSE]
  IN  IF a.skips < MaxSkips
      THEN QueueTurn([blank EXCEPT !.skips = @ + 1,
                                   !.state = "AwaitingNextPage"])
      ELSE [blank EXCEPT !.state = "Off"]

ReaderExited(a) ==
  [a EXCEPT !.text = Cleared, !.skips = 0, !.state = "Off",
            !.heardOut = FALSE, !.blanks = 0]

WordsArrived(a, page, luck) ==
  Start([a EXCEPT !.text = page, !.skips = 0, !.state = "Speaking",
                  !.heardOut = FALSE, !.blanks = 0], luck)

\* pageArrived: the page being spoken, drawn again, changes nothing.
CoreTakes(a, page, luck) ==
  IF ~a.on \/ (Live(a) /\ HasWords(page) /\ page = a.text) THEN a
  ELSE LET quiet == StopIfLive(a, luck)
       IN  IF page = Cleared THEN ReaderExited(quiet)
           ELSE IF HasWords(page) THEN WordsArrived(quiet, page, luck)
           ELSE BlankArrived(quiet)

\* Mutant: the awaited page's countdown is stopped after the core has spoken.
PageArrivedLate(a, page, luck) ==
  [CoreTakes([a EXCEPT !.page = TextOf(page)], page, luck)
     EXCEPT !.awaiting = FALSE]

\* The drain of perFrame: the adapter's copies first, then the core.
PageArrived(a, page, luck) ==
  CoreTakes([a EXCEPT !.page = TextOf(page), !.awaiting = FALSE], page, luck)

UtteranceFinished(a) ==
  IF a.state # "Speaking" THEN a
  ELSE QueueTurn([a EXCEPT !.state = "AwaitingNextPage"])

UtteranceCanceled(a) ==
  IF Live(a) THEN [a EXCEPT !.state = "Off"] ELSE a

PageTimeout(a) ==
  IF a.state = "AwaitingNextPage" THEN [a EXCEPT !.state = "Off"] ELSE a

BeginAt(a, luck) == Start([a EXCEPT !.state = "Speaking"], luck)

Paused(a) ==
  [a EXCEPT !.state = "Paused", !.paused = @ \/ a.voice # <<>>]

Resumed(a) == [a EXCEPT !.state = "Speaking", !.paused = FALSE]

\* toggleSpeech: from Off it starts where it stopped, if it has a page.
ToggleSpeech(a, luck) ==
  CASE ~a.on -> a
    [] a.on /\ a.state = "Speaking" -> Paused(a)
    [] a.on /\ a.state = "Paused" -> Resumed(a)
    [] a.on /\ a.state = "Off" /\ a.text # Cleared -> BeginAt(a, luck)
    [] OTHER -> a

\* tapAtLogical on some word: the one being spoken, or another.
TapWord(a, lit, luck) ==
  IF ~a.on \/ a.text = Cleared \/ a.state = "AwaitingNextPage" THEN a
  ELSE IF Live(a) /\ lit THEN [StopVoice(a, luck) EXCEPT !.state = "Off"]
  ELSE BeginAt(StopIfLive(a, luck), luck)

\* restartAtCurrentWord
Restart(a, luck) ==
  IF a.on /\ a.state = "Speaking" THEN BeginAt(StopVoice(a, luck), luck)
  ELSE a

-----------------------------------------------------------------------------
(* What the main thread does.                                              *)

\* Mutant: an event is taken whatever utterance it is about.
HandledAny(a, event) ==
  IF event.kind = "finished" THEN UtteranceFinished(a)
  ELSE UtteranceCanceled(a)

\* The serial filter: an event of a dead utterance is dropped.
Handled(a, event) ==
  IF ~event.current THEN a
  ELSE IF event.kind = "finished" THEN UtteranceFinished(a)
  ELSE UtteranceCanceled(a)

NextHandled(a) ==
  [Handled(a, Head(a.events)) EXCEPT !.events = Tail(a.events)]

\* perFrame: the setting, the page, then what the engine has said so far.  One
\* event at most: a frame that handles two is two frames, with no page between.
\* Its two timeouts are actions of their own for the same reason.
AloudFrame(want) ==
  LET Read(luck) ==
        LET set == SetEnabled(aloud, want, luck)
        IN  IF channel.fresh THEN PageArrived(set, channel.page, luck) ELSE set
      read == {Read(luck) : luck \in Lucks}
  IN  /\ want # aloud.on \/ channel.fresh \/ aloud.events # <<>>
      /\ aloud' \in read \cup {NextHandled(a) : a \in {r \in read : r.events # <<>>}}
      /\ channel' = Consumed

\* No page came for 5 s: the end of the book.
AwaitTimesOut ==
  /\ aloud.awaiting
  /\ aloud' = PageTimeout([aloud EXCEPT !.awaiting = FALSE])

MagicTap == aloud' \in {ToggleSpeech(aloud, luck) : luck \in Lucks}
WordTapped ==
  aloud' \in {TapWord(aloud, lit, luck) : lit \in BOOLEAN, luck \in Lucks}
RateChanges == aloud' \in {Restart(aloud, luck) : luck \in Lucks}

\* Mutant: the engine goes on with what it was saying.
AloudRebootedSpeaking(luck) ==
  [NewSerial([aloud EXCEPT !.on = FALSE, !.state = "Off"])
     EXCEPT !.page = Cleared, !.awaiting = FALSE, !.tap = FALSE]

\* resetForReboot: the engine stops whatever the core thinks, the core is
\* forced off, and what the engine has yet to say is about a dead serial.  The
\* core keeps the page it had.
AloudRebooted(luck) ==
  [NewSerial(SetEnabled(StopVoice(aloud, luck), FALSE, luck))
     EXCEPT !.page = Cleared, !.awaiting = FALSE, !.tap = FALSE]

AloudReboots == aloud' \in {AloudRebooted(luck) : luck \in Lucks}

-----------------------------------------------------------------------------
(* What the engine does.                                                   *)

EngineSays(kind) ==
  [aloud EXCEPT !.voice = Tail(@),
                !.events = Append(@, [kind |-> kind,
                                      current |-> Head(aloud.voice).current])]

EngineFinishes ==
  /\ aloud.voice # <<>> /\ ~aloud.paused
  /\ aloud' = [EngineSays("finished") EXCEPT
                 !.heardOut = @ \/ Head(aloud.voice).current]

\* A call, or another app that takes the audio session.
PhoneCancels ==
  /\ aloud.voice # <<>>
  /\ aloud' = EngineSays("canceled")
=============================================================================
