------------------------------ MODULE ButtonInput ------------------------------
(***************************************************************************)
(* The buttons of HalGPIO (src/HalGPIO.cpp): edges, held levels and press  *)
(* times fed from the keyboard, the on-screen pad and queued taps; the     *)
(* keyboard routing of an open text field; deep sleep and what wakes it.   *)
(* All of it runs on the main thread: main's frame (simulator_main.cpp),   *)
(* the firmware's loop() inside it, and the host callbacks SDL makes while *)
(* it pumps.  The reboot is the in-process one of the iOS build.           *)
(*                                                                         *)
(* Ticks are abstracted to what a hold computed from them is worth: a      *)
(* press time is none, that of the press still going on, or that of one    *)
(* already over.  Touch and the Home key keep no state in common with this *)
(* one but the frame, and are left out, as is the wording of typed text.   *)
(***************************************************************************)
EXTENDS Integers, Sequences

CONSTANTS
  Buttons, Power, Confirm,  \* buttons with a key; two of them special
  Arrows,                   \* the buttons whose key survives an open field
  SleepKey,                 \* the S shortcut
  Keys,                     \* the keys the host's keyboard has
  PadButtons, TapButtons,   \* what the pad shows, what taps are queued of
  FieldShapes,              \* the text fields the firmware opens
  Repolls,                  \* whether an activity calls update() itself
  MaxEvents, MaxTaps        \* bounds: queued key events, taps in flight per button

ASSUME ButtonInputAssumption ==
  /\ {Power, Confirm} \subseteq Buttons /\ Power # Confirm
  /\ Arrows \subseteq Buttons \ {Power, Confirm}
  /\ SleepKey \notin Buttons
  /\ Keys \subseteq Buttons \cup {SleepKey}
  /\ PadButtons \subseteq Buttons /\ TapButtons \subseteq Buttons
  /\ FieldShapes \subseteq {"Single", "Multi"}
  /\ Repolls \in BOOLEAN
  /\ MaxEvents \in Nat /\ MaxTaps \in Nat

VARIABLES
  phase,         \* where the main thread is
  queue,         \* key events not yet polled
  held, pads,    \* keys and pad buttons with a finger on them
  keyState,      \* SDL_GetKeyboardState
  pressedThisFrame, releasedThisFrame, syntheticButtonDown,  \* sets of buttons
  buttonPressTime, lastReleasedSpan,
  queuedTaps, firedTaps,     \* pendingButtonTaps before and after downSent
  syntheticWakeEdge, firmwareAsleep, hostForegroundLatch, hostResumeThisFrame,
  simulatorSleepRequested, quitRequested,
  textEntryActive, textEntryLines, enterClaimedByButton,
  typed,         \* whether typedTextBuffer holds anything
  (* history *)
  called,        \* how someone asked the sleeping device to wake
  returned,      \* the app came back and the firmware does not know yet
  shortcut,      \* the S shortcut holds POWER
  asked,         \* buttons and S pressed by someone since this boot
  route, moved   \* where Return's DOWN went; whether a field edge or a boot came since

buttonVars == <<pressedThisFrame, releasedThisFrame, syntheticButtonDown,
                buttonPressTime, lastReleasedSpan>>
tapVars == <<queuedTaps, firedTaps>>
hostVars == <<queue, held, pads>>
lifeVars == <<firmwareAsleep, quitRequested>>
wakeVars == <<syntheticWakeEdge, called>>
resumeVars == <<hostForegroundLatch, hostResumeThisFrame, returned>>
shortcutVars == <<simulatorSleepRequested, shortcut>>
fieldVars == <<textEntryActive, textEntryLines, enterClaimedByButton>>
routeVars == <<route, moved>>
vars == <<phase, hostVars, keyState, buttonVars, tapVars, lifeVars, wakeVars,
          resumeVars, shortcutVars, fieldVars, typed, asked, routeVars>>

Polling == phase \in {"poll", "repoll"}
InLoop == Polling \/ phase \in {"check", "loop"}
Asleep == phase \in {"asleep", "sleepPoll"}
Pumping == Polling \/ phase = "sleepPoll"

Init ==
  /\ phase = "top"
  /\ queue = <<>> /\ held = {} /\ pads = {} /\ keyState = {}
  /\ pressedThisFrame = {} /\ releasedThisFrame = {} /\ syntheticButtonDown = {}
  /\ buttonPressTime = [b \in Buttons |-> "none"] /\ lastReleasedSpan = "none"
  /\ queuedTaps = [b \in Buttons |-> 0] /\ firedTaps = [b \in Buttons |-> 0]
  /\ syntheticWakeEdge = FALSE /\ firmwareAsleep = FALSE
  /\ hostForegroundLatch = FALSE /\ hostResumeThisFrame = FALSE
  /\ simulatorSleepRequested = FALSE /\ quitRequested = FALSE
  /\ textEntryActive = FALSE /\ textEntryLines = "Single"
  /\ enterClaimedByButton = FALSE /\ typed = FALSE
  /\ called = {} /\ returned = FALSE /\ shortcut = FALSE
  /\ asked = {} /\ route = "none" /\ moved = FALSE
-----------------------------------------------------------------------------
(* What the button entry points do to the button state. *)

PressTimes(downs, ups) ==
  [b \in Buttons |-> IF b \in downs THEN "held"
                     ELSE IF b \in ups THEN "none" ELSE buttonPressTime[b]]

\* The span a release computes from its press time, if it has one.
SpanAfter(ups) ==
  LET timed == {buttonPressTime[b] : b \in ups} \ {"none"}
  IN  IF timed = {} THEN lastReleasedSpan
      ELSE IF "over" \in timed THEN "bogus" ELSE "hold"

\* injectButtonUp of ups, then injectButtonDown of downs.
Inject(downs, ups) ==
  /\ pressedThisFrame' = pressedThisFrame \cup downs
  /\ releasedThisFrame' = releasedThisFrame \cup ups
  /\ syntheticButtonDown' = (syntheticButtonDown \ ups) \cup downs
  /\ buttonPressTime' = PressTimes(downs, ups)
  /\ lastReleasedSpan' = SpanAfter(ups)
  /\ syntheticWakeEdge' = (syntheticWakeEdge \/ downs # {})

\* A key's edges, polled in update().
KeyEdge(downs, ups) ==
  /\ pressedThisFrame' = pressedThisFrame \cup downs
  /\ releasedThisFrame' = releasedThisFrame \cup ups
  /\ buttonPressTime' = PressTimes(downs, ups)
  /\ lastReleasedSpan' = SpanAfter(ups)
  /\ UNCHANGED syntheticButtonDown

ClearButtonState ==
  /\ pressedThisFrame' = {} /\ releasedThisFrame' = {} /\ syntheticButtonDown' = {}
  /\ buttonPressTime' = [b \in Buttons |-> "none"]
  /\ typed' = FALSE
  /\ shortcut' = FALSE

NoTaps == queuedTaps' = [b \in Buttons |-> 0] /\ firedTaps' = [b \in Buttons |-> 0]

\* No press of ups is the S shortcut's any more.
ShortcutAfter(ups) == shortcut /\ Power \notin ups
-----------------------------------------------------------------------------
(* The host: fingers, keys, the app's life.  Key events are queued; pad and  *)
(* glass reach HalGPIO from SDL's event watches, while the thread pumps.     *)

Call(how) == IF Asleep THEN {how} ELSE {}
Event(k, d, m) == [key |-> k, down |-> d, mod |-> m]

KeyDown(k, m) ==
  /\ k \in Keys \ held /\ Len(queue) < MaxEvents
  /\ m => k = Confirm
  /\ held' = held \cup {k}
  /\ queue' = Append(queue, Event(k, TRUE, m))
  /\ asked' = asked \cup {k}
  /\ called' = called \cup IF k \in Buttons THEN Call("press") ELSE {}
  /\ UNCHANGED <<phase, pads, keyState, buttonVars, tapVars, lifeVars,
                 syntheticWakeEdge, resumeVars, shortcutVars, fieldVars, typed,
                 routeVars>>

KeyUp(k) ==
  /\ k \in held /\ Len(queue) < MaxEvents
  /\ held' = held \ {k}
  /\ queue' = Append(queue, Event(k, FALSE, FALSE))
  /\ UNCHANGED <<phase, pads, keyState, buttonVars, tapVars, lifeVars, wakeVars,
                 resumeVars, shortcutVars, fieldVars, typed, asked, routeVars>>

PadDown(b) ==
  /\ Pumping /\ b \in PadButtons \ pads
  /\ pads' = pads \cup {b}
  /\ Inject({b}, {})
  /\ asked' = asked \cup {b}
  /\ called' = called \cup Call("press")
  /\ UNCHANGED <<phase, queue, held, keyState, tapVars, lifeVars, resumeVars,
                 shortcutVars, fieldVars, typed, routeVars>>

PadUp(b) ==
  /\ Pumping /\ b \in pads
  /\ pads' = pads \ {b}
  /\ Inject({}, {b})
  /\ shortcut' = ShortcutAfter({b})
  /\ UNCHANGED <<phase, queue, held, keyState, tapVars, lifeVars, called,
                 resumeVars, simulatorSleepRequested, fieldVars, typed, asked,
                 routeVars>>

\* A bound gesture, an accessibility tap or a finger on the sleeping glass: from
\* a watch, or from the harness's hook at the end of a frame.
QueueTap(b) ==
  /\ Pumping \/ phase = "top"
  /\ b \in TapButtons /\ queuedTaps[b] + firedTaps[b] < MaxTaps
  /\ firmwareAsleep => b = Power
  /\ queuedTaps' = [queuedTaps EXCEPT ![b] = @ + 1]
  /\ asked' = asked \cup {b}
  /\ called' = called \cup Call("tap")
  /\ UNCHANGED <<phase, hostVars, keyState, buttonVars, firedTaps, lifeVars,
                 syntheticWakeEdge, resumeVars, shortcutVars, fieldVars, typed,
                 routeVars>>

\* Mutant: the taps dropped with no release.
ResignActiveDropping ==
  /\ Pumping
  /\ NoTaps
  /\ Inject({}, pads)
  /\ pads' = {}
  /\ shortcut' = ShortcutAfter(pads)
  /\ called' = called \ {"tap"}
  /\ UNCHANGED <<phase, queue, held, keyState, lifeVars, resumeVars,
                 simulatorSleepRequested, fieldVars, typed, asked, routeVars>>

\* The app is put away: clearPendingButtonTaps, then the pad lets go.  A wake
\* that was only queued goes with it; coming back is another.
ResignActive ==
  /\ Pumping
  /\ LET fired == {b \in Buttons : firedTaps[b] > 0}
     IN  /\ Inject({}, fired \cup pads)
         /\ shortcut' = ShortcutAfter(fired \cup pads)
  /\ NoTaps
  /\ pads' = {}
  /\ called' = called \ {"tap"}
  /\ UNCHANGED <<phase, queue, held, keyState, lifeVars, resumeVars,
                 simulatorSleepRequested, fieldVars, typed, asked, routeVars>>

\* lifecycleWatch: the app came back.
Foreground ==
  /\ ~hostForegroundLatch
  /\ hostForegroundLatch' = TRUE /\ returned' = TRUE
  /\ called' = called \cup Call("return")
  /\ UNCHANGED <<phase, hostVars, keyState, buttonVars, tapVars, lifeVars,
                 syntheticWakeEdge, hostResumeThisFrame, shortcutVars, fieldVars,
                 typed, asked, routeVars>>

Quit ==
  /\ Pumping
  /\ quitRequested' = TRUE
  /\ phase' = IF Asleep THEN "loop" ELSE phase
  /\ UNCHANGED <<hostVars, keyState, buttonVars, tapVars, firmwareAsleep, wakeVars,
                 resumeVars, shortcutVars, fieldVars, typed, asked, routeVars>>
-----------------------------------------------------------------------------
(* A frame: beginFrame, the firmware's loop() with its update()s, the hooks. *)

BeginFrame ==
  /\ phase = "top" /\ ~quitRequested
  /\ phase' = "begun"
  /\ pressedThisFrame' = {} /\ releasedThisFrame' = {}
  /\ hostResumeThisFrame' = FALSE
  /\ UNCHANGED <<hostVars, keyState, syntheticButtonDown, buttonPressTime,
                 lastReleasedSpan, tapVars, lifeVars, wakeVars,
                 hostForegroundLatch, returned, shortcutVars, fieldVars, typed,
                 asked, routeVars>>

\* Mutant: a fired tap stays to be fired again.
FireTapsForEver(due) ==
  /\ \A b \in Buttons : due[b] <= firedTaps[b]
  /\ LET ups == {b \in Buttons : due[b] > 0}
         downs == {b \in Buttons : queuedTaps[b] > 0}
     IN  /\ Inject(downs, ups)
         /\ shortcut' = ShortcutAfter(ups)
  /\ firedTaps' = [b \in Buttons |-> firedTaps[b] - due[b] + queuedTaps[b]]
  /\ UNCHANGED queuedTaps

\* Taps whose hold is over, as many as due says of each button, are released;
\* those not yet fired are pressed.
FireTaps(due) ==
  /\ \A b \in Buttons : due[b] <= firedTaps[b]
  /\ LET ups == {b \in Buttons : due[b] > 0}
         downs == {b \in Buttons : queuedTaps[b] > 0}
     IN  /\ Inject(downs, ups)
         /\ shortcut' = ShortcutAfter(ups)
  /\ firedTaps' = [b \in Buttons |-> firedTaps[b] - due[b] + queuedTaps[b]]
  /\ queuedTaps' = [b \in Buttons |-> 0]

UpdateBegins ==
  \/ phase = "begun" /\ phase' = "poll"
  \/ phase = "loop" /\ Repolls /\ phase' = "repoll"

\* Mutant: update() starts from clear edges.
BeginUpdateClearing(due) ==
  /\ UpdateBegins
  /\ hostResumeThisFrame' = (hostResumeThisFrame \/ hostForegroundLatch)
  /\ hostForegroundLatch' = FALSE
  /\ pressedThisFrame' = {} /\ releasedThisFrame' = {}
  /\ UNCHANGED <<hostVars, keyState, syntheticButtonDown, buttonPressTime,
                 lastReleasedSpan, tapVars, lifeVars, wakeVars, returned,
                 shortcutVars, fieldVars, typed, asked, routeVars>>

BeginUpdate(due) ==
  /\ UpdateBegins
  /\ hostResumeThisFrame' = (hostResumeThisFrame \/ hostForegroundLatch)
  /\ hostForegroundLatch' = FALSE
  /\ FireTaps(due)
  /\ UNCHANGED <<hostVars, keyState, lifeVars, called, returned,
                 simulatorSleepRequested, fieldVars, typed, asked, routeVars>>

\* SDL's queue is empty: every key it was told of is in its keyboard state.
PollEnds ==
  /\ Polling /\ queue = <<>>
  /\ phase' = IF phase = "poll" THEN "check" ELSE "loop"
  /\ keyState' = held \cap Buttons
  /\ UNCHANGED <<hostVars, buttonVars, tapVars, lifeVars, wakeVars, resumeVars,
                 shortcutVars, fieldVars, typed, asked, routeVars>>
-----------------------------------------------------------------------------
(* update()'s poll loop, event by event. *)

\* textentry::enterOwner.
enterOwner(lines, mod) == IF (lines = "Multi") = mod THEN "button" ELSE "text"

\* scancodeSurvivesTextEntry, for a key other than Return.
Swallowed(e) == textEntryActive /\ e.key # Confirm /\ e.key \notin Arrows

\* Mutant: Return's UP asked afresh, by a modifier that may be gone.
ClaimsEnterAfresh(e) == enterOwner(textEntryLines, e.mod) = "button"

\* Return's latch, decided at the DOWN.
ClaimsEnter(e) ==
  IF e.down THEN enterOwner(textEntryLines, e.mod) = "button"
  ELSE enterClaimedByButton

EnterIsText(e) == textEntryActive /\ e.key = Confirm /\ ~ClaimsEnter(e)

Poll(e) ==
  /\ Polling /\ queue # <<>> /\ e = Head(queue)
  /\ queue' = Tail(queue)
  /\ UNCHANGED <<phase, held, pads, keyState, tapVars, lifeVars, called,
                 resumeVars, asked>>

\* A hold nobody clears the press time of is over all the same.
HoldEnds(e) ==
  /\ buttonPressTime' =
       [b \in Buttons |-> IF b = e.key /\ ~e.down /\ b \notin syntheticButtonDown
                             /\ buttonPressTime[b] = "held"
                          THEN "over" ELSE buttonPressTime[b]]
  /\ UNCHANGED <<pressedThisFrame, releasedThisFrame, syntheticButtonDown,
                 lastReleasedSpan, syntheticWakeEdge, shortcutVars>>

RouteOf(e, to) ==
  IF e.key = Confirm THEN /\ route' = IF e.down THEN to ELSE "none"
                          /\ moved' = FALSE
  ELSE UNCHANGED routeVars

\* A key that is text: its character arrives as an event of its own, taken here
\* with it.
PollText(e) ==
  /\ Poll(e)
  /\ Swallowed(e) \/ EnterIsText(e)
  /\ typed' = (typed \/ e.down)
  /\ enterClaimedByButton' =
       IF e.key = Confirm THEN FALSE ELSE enterClaimedByButton
  /\ HoldEnds(e)
  /\ RouteOf(e, "text")
  /\ UNCHANGED <<textEntryActive, textEntryLines>>

PollButton(e) ==
  /\ Poll(e)
  /\ e.key \in Buttons /\ ~Swallowed(e) /\ ~EnterIsText(e)
  /\ IF e.down THEN KeyEdge({e.key}, {}) ELSE KeyEdge({}, {e.key})
  /\ enterClaimedByButton' = IF textEntryActive /\ e.key = Confirm
                             THEN e.down ELSE enterClaimedByButton
  /\ RouteOf(e, "button")
  /\ UNCHANGED <<syntheticWakeEdge, shortcutVars, textEntryActive,
                 textEntryLines, typed>>

\* requestSimulatorSleep: POWER goes down, and nothing lets it up.
PollSleepKey(e) ==
  /\ Poll(e)
  /\ e.key = SleepKey /\ ~Swallowed(e)
  /\ IF e.down
     THEN /\ Inject({Power}, {})
          /\ simulatorSleepRequested' = TRUE /\ shortcut' = TRUE
     ELSE UNCHANGED <<buttonVars, syntheticWakeEdge, shortcutVars>>
  /\ UNCHANGED <<fieldVars, typed, routeVars>>
-----------------------------------------------------------------------------
(* What the firmware does in loop(). *)

\* The inactivity check: the line that learns of activity, then the timeout.
Check ==
  /\ phase = "check"
  /\ phase' = "loop"
  /\ returned' = (returned /\ ~hostResumeThisFrame)
  /\ UNCHANGED <<hostVars, keyState, buttonVars, tapVars, lifeVars, wakeVars,
                 hostForegroundLatch, hostResumeThisFrame, shortcutVars,
                 fieldVars, typed, asked, routeVars>>

\* Mutants: a field closed with its tail still queued; with Return's latch kept.
SetTextEntryKeepingTail(on, shape) ==
  /\ phase = "loop" /\ on # textEntryActive
  /\ textEntryActive' = on
  /\ textEntryLines' = IF on THEN shape ELSE "Single"
  /\ enterClaimedByButton' = FALSE
  /\ moved' = TRUE
  /\ UNCHANGED <<phase, hostVars, keyState, buttonVars, tapVars, lifeVars,
                 wakeVars, resumeVars, shortcutVars, typed, asked, route>>
SetTextEntryKeepingLatch(on, shape) ==
  /\ phase = "loop" /\ on # textEntryActive
  /\ textEntryActive' = on
  /\ textEntryLines' = IF on THEN shape ELSE "Single"
  /\ typed' = FALSE /\ moved' = TRUE
  /\ UNCHANGED <<phase, hostVars, keyState, buttonVars, tapVars, lifeVars,
                 wakeVars, resumeVars, shortcutVars, enterClaimedByButton, asked,
                 route>>

\* setTextEntryActive.  On a field already open it only reshapes it.
SetTextEntry(on, shape) ==
  /\ phase = "loop"
  /\ textEntryActive' = on
  /\ textEntryLines' = IF on THEN shape ELSE "Single"
  /\ IF on = textEntryActive THEN UNCHANGED <<enterClaimedByButton, typed, moved>>
     ELSE enterClaimedByButton' = FALSE /\ typed' = FALSE /\ moved' = TRUE
  /\ UNCHANGED <<phase, hostVars, keyState, buttonVars, tapVars, lifeVars,
                 wakeVars, resumeVars, shortcutVars, asked, route>>

ConsumeTypedText ==
  /\ phase = "loop" /\ typed
  /\ typed' = FALSE
  /\ UNCHANGED <<phase, hostVars, keyState, buttonVars, tapVars, lifeVars,
                 wakeVars, resumeVars, shortcutVars, fieldVars, asked, routeVars>>

ConsumeSleepRequest ==
  /\ phase = "loop" /\ simulatorSleepRequested
  /\ simulatorSleepRequested' = FALSE
  /\ UNCHANGED <<phase, hostVars, keyState, buttonVars, tapVars, lifeVars,
                 wakeVars, resumeVars, shortcut, fieldVars, typed, asked,
                 routeVars>>

Leave ==
  /\ phase = "loop" /\ phase' = "top"
  /\ UNCHANGED <<hostVars, keyState, buttonVars, tapVars, lifeVars, wakeVars,
                 resumeVars, shortcutVars, fieldVars, typed, asked, routeVars>>

Finish ==
  /\ phase = "top" /\ quitRequested /\ phase' = "over"
  /\ UNCHANGED <<hostVars, keyState, buttonVars, tapVars, lifeVars, wakeVars,
                 resumeVars, shortcutVars, fieldVars, typed, asked, routeVars>>
-----------------------------------------------------------------------------
(* startDeepSleep's entry. *)

MaySleep ==
  \/ phase = "check" /\ pressedThisFrame = {} /\ ~hostResumeThisFrame
  \/ phase = "loop"

FallAsleep ==
  /\ MaySleep
  /\ phase' = "asleep" /\ firmwareAsleep' = TRUE
  /\ ClearButtonState
  /\ UNCHANGED <<hostVars, keyState, lastReleasedSpan, quitRequested, called,
                 hostResumeThisFrame, returned, simulatorSleepRequested,
                 fieldVars, asked, routeVars>>

\* Mutant: the edge of the press that slept us is kept.
StartDeepSleepKeepingEdge ==
  /\ FallAsleep
  /\ NoTaps
  /\ UNCHANGED <<syntheticWakeEdge, hostForegroundLatch>>

StartDeepSleep ==
  /\ FallAsleep
  /\ NoTaps /\ syntheticWakeEdge' = FALSE
  /\ UNCHANGED hostForegroundLatch
-----------------------------------------------------------------------------
(* The reboot: this file's registrar.  q is what stays in SDL's queue. *)

PressedIn(q) == {q[i].key : i \in {j \in DOMAIN q : q[j].down}}

Restart(q) ==
  /\ phase' = "top"
  /\ queue' = q
  /\ textEntryActive' = FALSE /\ textEntryLines' = "Single"
  /\ enterClaimedByButton' = FALSE
  /\ ClearButtonState
  /\ lastReleasedSpan' = "none"
  /\ syntheticWakeEdge' = FALSE /\ firmwareAsleep' = FALSE
  /\ called' = {} /\ returned' = FALSE /\ asked' = PressedIn(q)
  /\ route' = "none" /\ moved' = TRUE
  /\ UNCHANGED <<held, pads, quitRequested, hostResumeThisFrame,
                 simulatorSleepRequested>>

\* Mutant: the taps of the boot before fire in this one.
RebootKeepingTaps(q) == Restart(q) /\ UNCHANGED tapVars

Reboot(q) == Restart(q) /\ NoTaps

\* rebootAsFirmwareRestart from loop(), rebootForDocumentOpen after it.
RebootAwake ==
  /\ phase \in {"loop", "top"} /\ ~quitRequested
  /\ Reboot(queue)
  /\ UNCHANGED <<keyState, hostForegroundLatch>>
-----------------------------------------------------------------------------
(* startDeepSleep's loop, once around: what wakes, then SDL's queue. *)

TapWaits == \E b \in Buttons : queuedTaps[b] + firedTaps[b] > 0

WakeByForeground ==
  /\ phase = "asleep" /\ hostForegroundLatch
  /\ hostForegroundLatch' = FALSE
  /\ Reboot(queue)
  /\ UNCHANGED keyState

\* Mutant: the level, not the edge.
EdgeByLevel == syntheticButtonDown # {} \/ TapWaits

\* A waiting tap is turned into an edge.
EdgeWaits == syntheticWakeEdge \/ TapWaits

WakeByEdge ==
  /\ phase = "asleep" /\ ~hostForegroundLatch /\ ~quitRequested
  /\ EdgeWaits
  /\ Reboot(queue)
  /\ UNCHANGED <<keyState, hostForegroundLatch>>

SleepReturns ==
  /\ phase = "asleep" /\ ~hostForegroundLatch /\ quitRequested
  /\ phase' = "loop"
  /\ NoTaps /\ syntheticWakeEdge' = EdgeWaits
  /\ UNCHANGED <<hostVars, keyState, buttonVars, lifeVars, called, resumeVars,
                 shortcutVars, fieldVars, typed, asked, routeVars>>

SleepOn ==
  /\ phase = "asleep" /\ ~hostForegroundLatch /\ ~quitRequested /\ ~EdgeWaits
  /\ phase' = "sleepPoll"
  /\ UNCHANGED <<hostVars, keyState, buttonVars, tapVars, lifeVars, wakeVars,
                 resumeVars, shortcutVars, fieldVars, typed, asked, routeVars>>

\* A button's key wakes, with the rest of the queue left for the next boot.
WakeByKey ==
  /\ phase = "sleepPoll" /\ queue # <<>>
  /\ Head(queue).down /\ Head(queue).key \in Buttons
  /\ Reboot(Tail(queue))
  /\ keyState' = held \cap Buttons
  /\ UNCHANGED hostForegroundLatch

SleepThrough ==
  /\ phase = "sleepPoll" /\ queue # <<>>
  /\ ~(Head(queue).down /\ Head(queue).key \in Buttons)
  /\ queue' = Tail(queue)
  /\ UNCHANGED <<phase, held, pads, keyState, buttonVars, tapVars, lifeVars,
                 wakeVars, resumeVars, shortcutVars, fieldVars, typed, asked,
                 routeVars>>

SleepPollEnds ==
  /\ phase = "sleepPoll" /\ queue = <<>>
  /\ phase' = "asleep"
  /\ keyState' = held \cap Buttons
  /\ UNCHANGED <<hostVars, buttonVars, tapVars, lifeVars, wakeVars, resumeVars,
                 shortcutVars, fieldVars, typed, asked, routeVars>>
-----------------------------------------------------------------------------
Dues == [Buttons -> 0..MaxTaps]
Events == {Event(k, d, m) : k \in Buttons \cup {SleepKey}, d, m \in BOOLEAN}

HostNext ==
  \/ \E k \in Keys : (\E m \in BOOLEAN : KeyDown(k, m)) \/ KeyUp(k)
  \/ \E b \in PadButtons : PadDown(b) \/ PadUp(b)
  \/ \E b \in TapButtons : QueueTap(b)
  \/ ResignActive \/ Foreground \/ Quit

FrameNext ==
  \/ BeginFrame \/ (\E due \in Dues : BeginUpdate(due)) \/ PollEnds
  \/ \E e \in Events : PollText(e) \/ PollButton(e) \/ PollSleepKey(e)
  \/ Check \/ Leave \/ Finish

FirmwareNext ==
  \/ \E shape \in FieldShapes, on \in BOOLEAN : SetTextEntry(on, shape)
  \/ ConsumeTypedText \/ ConsumeSleepRequest
  \/ StartDeepSleep \/ RebootAwake

SleepNext ==
  \/ WakeByForeground \/ WakeByEdge \/ SleepReturns \/ SleepOn
  \/ WakeByKey \/ SleepThrough \/ SleepPollEnds

Next == HostNext \/ FrameNext \/ FirmwareNext \/ SleepNext

Spec == Init /\ [][Next]_vars

\* The main thread goes round, in a frame and asleep; nobody types or taps so
\* fast that a poll loop never sees an empty queue.  A tap's hold ends.
FairSpec ==
  /\ Spec
  /\ WF_vars(FrameNext) /\ WF_vars(SleepNext) /\ WF_vars(Leave)
  /\ SF_vars(PollEnds) /\ SF_vars(SleepPollEnds)
-----------------------------------------------------------------------------
TypeOK ==
  /\ phase \in {"top", "begun", "poll", "check", "loop", "repoll", "asleep",
                "sleepPoll", "over"}
  /\ queue \in Seq(Events) /\ Len(queue) <= MaxEvents
  /\ held \subseteq Keys /\ pads \subseteq PadButtons /\ keyState \subseteq Buttons
  /\ pressedThisFrame \subseteq Buttons /\ releasedThisFrame \subseteq Buttons
  /\ syntheticButtonDown \subseteq Buttons
  /\ buttonPressTime \in [Buttons -> {"none", "held", "over"}]
  /\ lastReleasedSpan \in {"none", "hold", "bogus"}
  /\ queuedTaps \in [Buttons -> 0..MaxTaps] /\ firedTaps \in [Buttons -> 0..MaxTaps]
  /\ syntheticWakeEdge \in BOOLEAN /\ firmwareAsleep \in BOOLEAN
  /\ hostForegroundLatch \in BOOLEAN /\ hostResumeThisFrame \in BOOLEAN
  /\ simulatorSleepRequested \in BOOLEAN /\ quitRequested \in BOOLEAN
  /\ textEntryActive \in BOOLEAN /\ textEntryLines \in {"Single", "Multi"}
  /\ enterClaimedByButton \in BOOLEAN /\ typed \in BOOLEAN
  /\ called \subseteq {"press", "tap", "return"}
  /\ returned \in BOOLEAN /\ shortcut \in BOOLEAN
  /\ asked \subseteq Buttons \cup {SleepKey}
  /\ route \in {"none", "button", "text"} /\ moved \in BOOLEAN

\* keyboardOwnsButtonWhileTyping, isPressed.
KeyboardOwns(b) ==
  ~textEntryActive \/ b \in Arrows \/ (b = Confirm /\ enterClaimedByButton)
IsPressed(b) == (KeyboardOwns(b) /\ b \in keyState) \/ b \in syntheticButtonDown

\* What puts the device to sleep does not wake it: an edge or a tap that waits
\* in the sleep loop was made after sleep began (HalGPIO.cpp, startDeepSleep:
\* the edge and the queue are consumed at the entry), so a reboot out of sleep
\* has a call of its own, or a key or a return the firmware never saw.
WakesAreCalledFor ==
  /\ Asleep /\ EdgeWaits => called # {}
  /\ firmwareAsleep => Asleep \/ quitRequested

\* A synthetic level has somebody left to end it: a finger on the pad, a fired
\* tap, or sleep entry for the S shortcut.  Nothing stays held for ever.
LevelsHaveAHand ==
  \A b \in syntheticButtonDown :
    b \in pads \/ firedTaps[b] > 0 \/ (b = Power /\ shortcut)

\* No phantom press: a press edge, a held pad button, a tap in flight are of
\* this boot, or of a key event still unread when it began.
PressesAreAsked ==
  /\ pressedThisFrame \cup syntheticButtonDown \subseteq asked \cup
       (IF SleepKey \in asked THEN {Power} ELSE {})
  /\ \A b \in Buttons : queuedTaps[b] + firedTaps[b] > 0 => b \in asked

\* An edge set for the firmware is set while an update() runs and stays until
\* the frame, or the boot, is over: each of a frame's many update()s lets the
\* firmware read every press before it.
PressesReachTheFirmware ==
  [][/\ pressedThisFrame' \subseteq pressedThisFrame \/ Pumping \/ Polling'
     /\ InLoop /\ InLoop' => pressedThisFrame \subseteq pressedThisFrame']_vars

\* What is typed goes to the field it was typed in: nothing waits for a field
\* that is closed, nor stays for the next one.
TextStaysInItsField == typed => textEntryActive

\* Return is the button's only from its DOWN to its UP, in one open field, so a
\* level read never reports a Confirm that is up.
ClaimIsHeld ==
  enterClaimedByButton => textEntryActive /\ route = "button"

\* Return's UP is polled, the first release of it in the frame.
ReturnComesUp ==
  /\ Polling /\ queue # <<>> /\ Head(queue) = Event(Confirm, FALSE, FALSE)
  /\ queue' = Tail(queue) /\ Confirm \notin releasedThisFrame

\* While the field stays as it is, Return's UP goes where its DOWN went, whatever
\* becomes of the modifier in between.
ReturnKeepsItsRoute ==
  [][ReturnComesUp /\ ~moved =>
       (route = "button" <=> Confirm \in releasedThisFrame')]_vars

\* Everything asked of a sleeping device wakes it: a press however short, a tap
\* nobody drops, a return of the app.
CallsWake == called # {} ~> called = {} \/ quitRequested
-----------------------------------------------------------------------------
(* What the comments say, and the code does not do. *)

\* HalGPIO.cpp:1220-1223: "a stale timestamp let a release-then-much-later level
\* read report a hold of however long ago the press was."
HoldsAreCurrent ==
  \A b \in Buttons : IsPressed(b) => buttonPressTime[b] # "over"

\* HalGPIO.cpp:1102-1103: a return is latched "so the same loop() that would
\* have slept sees activity instead".
ReturnIsSeen ==
  phase = "check" /\ returned => hostResumeThisFrame \/ hostForegroundLatch
===============================================================================
