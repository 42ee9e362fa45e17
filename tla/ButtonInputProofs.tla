--------------------------- MODULE ButtonInputProofs ---------------------------
(***************************************************************************)
(* That no press is lost, made up or left held, for any set of buttons and *)
(* keys, any length of SDL's queue and any number of taps in flight.       *)
(***************************************************************************)
EXTENDS ButtonInput, SequenceTheorems, TLAPS

\* No more taps of a button in flight than the bound.
TapsFit == \A b \in Buttons : queuedTaps[b] + firedTaps[b] <= MaxTaps

\* The button state by itself.
ButtonsTyped ==
  /\ pressedThisFrame \subseteq Buttons /\ releasedThisFrame \subseteq Buttons
  /\ syntheticButtonDown \subseteq Buttons
  /\ buttonPressTime \in [Buttons -> {"none", "held", "over"}]
  /\ lastReleasedSpan \in {"none", "hold", "bogus"}

(* TypeOK by groups of variables, so that a step names only what it writes. *)
Phases == {"top", "begun", "poll", "check", "loop", "repoll", "asleep",
           "sleepPoll", "over"}
QueueTyped == queue \in Seq(Events) /\ Len(queue) <= MaxEvents
HandsTyped == held \subseteq Keys /\ pads \subseteq PadButtons
TapsTyped ==
  /\ queuedTaps \in [Buttons -> 0..MaxTaps] /\ firedTaps \in [Buttons -> 0..MaxTaps]
  /\ TapsFit
LifeTyped == firmwareAsleep \in BOOLEAN /\ quitRequested \in BOOLEAN
EdgeTyped == syntheticWakeEdge \in BOOLEAN
CalledTyped == called \subseteq {"press", "tap", "return"}
ResumeTyped ==
  /\ hostForegroundLatch \in BOOLEAN /\ hostResumeThisFrame \in BOOLEAN
  /\ returned \in BOOLEAN
RequestTyped == simulatorSleepRequested \in BOOLEAN
ShortcutTyped == shortcut \in BOOLEAN
FieldTyped ==
  /\ textEntryActive \in BOOLEAN /\ textEntryLines \in {"Single", "Multi"}
  /\ enterClaimedByButton \in BOOLEAN
AskedTyped == asked \subseteq Buttons \cup {SleepKey}
RouteTyped == route \in {"none", "button", "text"} /\ moved \in BOOLEAN

Typed ==
  /\ phase \in Phases /\ QueueTyped /\ HandsTyped /\ keyState \subseteq Buttons
  /\ ButtonsTyped /\ TapsTyped /\ LifeTyped /\ EdgeTyped /\ CalledTyped
  /\ ResumeTyped /\ RequestTyped /\ ShortcutTyped /\ FieldTyped
  /\ typed \in BOOLEAN /\ AskedTyped /\ RouteTyped
-----------------------------------------------------------------------------
LEMMA TypedIsTypeOK == Typed <=> TypeOK /\ TapsFit
BY DEF Typed, TypeOK, Phases, QueueTyped, HandsTyped, TapsTyped, LifeTyped, EdgeTyped,
   CalledTyped, ResumeTyped, RequestTyped, ShortcutTyped, FieldTyped, AskedTyped,
   RouteTyped, ButtonsTyped

\* A group whose variables a step leaves alone keeps its type.
LEMMA KeptTypes ==
  ASSUME Typed
  PROVE  /\ phase' = phase => phase' \in Phases
         /\ queue' = queue => QueueTyped'
         /\ (held' = held /\ pads' = pads) => HandsTyped'
         /\ keyState' = keyState => (keyState \subseteq Buttons)'
         /\ UNCHANGED buttonVars => ButtonsTyped'
         /\ UNCHANGED tapVars => TapsTyped'
         /\ UNCHANGED lifeVars => LifeTyped'
         /\ syntheticWakeEdge' = syntheticWakeEdge => EdgeTyped'
         /\ called' = called => CalledTyped'
         /\ UNCHANGED resumeVars => ResumeTyped'
         /\ simulatorSleepRequested' = simulatorSleepRequested => RequestTyped'
         /\ shortcut' = shortcut => ShortcutTyped'
         /\ UNCHANGED fieldVars => FieldTyped'
         /\ typed' = typed => (typed \in BOOLEAN)'
         /\ asked' = asked => AskedTyped'
         /\ UNCHANGED routeVars => RouteTyped'
<1> USE DEF Typed
<1>1. (phase' = phase => phase' \in Phases) /\ (queue' = queue => QueueTyped')
  BY DEF QueueTyped
<1>2. /\ (held' = held /\ pads' = pads) => HandsTyped'
      /\ keyState' = keyState => (keyState \subseteq Buttons)'
  BY DEF HandsTyped
<1>3. UNCHANGED buttonVars => ButtonsTyped'
  BY DEF buttonVars, ButtonsTyped
<1>4. UNCHANGED tapVars => TapsTyped'
  BY DEF tapVars, TapsTyped, TapsFit
<1>5. /\ UNCHANGED lifeVars => LifeTyped'
      /\ syntheticWakeEdge' = syntheticWakeEdge => EdgeTyped'
      /\ called' = called => CalledTyped'
      /\ UNCHANGED resumeVars => ResumeTyped'
  BY DEF lifeVars, LifeTyped, EdgeTyped, CalledTyped, resumeVars, ResumeTyped
<1>6. /\ simulatorSleepRequested' = simulatorSleepRequested => RequestTyped'
      /\ shortcut' = shortcut => ShortcutTyped'
      /\ UNCHANGED fieldVars => FieldTyped'
  BY DEF RequestTyped, ShortcutTyped, fieldVars, FieldTyped
<1>7. /\ typed' = typed => (typed \in BOOLEAN)'
      /\ asked' = asked => AskedTyped'
      /\ UNCHANGED routeVars => RouteTyped'
  BY DEF AskedTyped, routeVars, RouteTyped
<1> QED BY <1>1, <1>2, <1>3, <1>4, <1>5, <1>6, <1>7

LEMMA InjectTyped ==
  ASSUME ButtonsTyped, EdgeTyped,
         NEW downs \in SUBSET Buttons, NEW ups \in SUBSET Buttons,
         Inject(downs, ups)
  PROVE  ButtonsTyped' /\ EdgeTyped'
BY DEF ButtonsTyped, EdgeTyped, Inject, PressTimes, SpanAfter

LEMMA KeyEdgeTyped ==
  ASSUME ButtonsTyped, NEW downs \in SUBSET Buttons, NEW ups \in SUBSET Buttons,
         KeyEdge(downs, ups)
  PROVE  ButtonsTyped'
BY DEF ButtonsTyped, KeyEdge, PressTimes, SpanAfter

LEMMA ClearedTyped ==
  ASSUME ClearButtonState, UNCHANGED lastReleasedSpan \/ lastReleasedSpan' = "none",
         ButtonsTyped
  PROVE  ButtonsTyped' /\ (typed \in BOOLEAN)' /\ ShortcutTyped'
BY DEF ButtonsTyped, ClearButtonState, ShortcutTyped

\* Taps that are fired are as many as they were, less those released.
LEMMA FireTapsTyped ==
  ASSUME Typed, NEW due \in Dues, FireTaps(due)
  PROVE  ButtonsTyped' /\ EdgeTyped' /\ TapsTyped' /\ ShortcutTyped'
<1> DEFINE ups == {b \in Buttons : due[b] > 0}
           downs == {b \in Buttons : queuedTaps[b] > 0}
<1>1. Inject(downs, ups) /\ shortcut' = ShortcutAfter(ups)
  BY DEF FireTaps
<1>2. ButtonsTyped' /\ EdgeTyped'
  BY <1>1, InjectTyped DEF Typed
<1>3. MaxTaps \in Nat
  BY ButtonInputAssumption
<1>4. ShortcutTyped'
  BY <1>1 DEF ShortcutAfter, ShortcutTyped, Typed
<1>5. /\ queuedTaps' = [b \in Buttons |-> 0]
      /\ firedTaps' = [b \in Buttons |-> firedTaps[b] - due[b] + queuedTaps[b]]
      /\ \A b \in Buttons : due[b] <= firedTaps[b]
  BY DEF FireTaps
<1>6. \A b \in Buttons : firedTaps[b] - due[b] + queuedTaps[b] \in 0..MaxTaps
  BY <1>3, <1>5 DEF Typed, TapsTyped, TapsFit, Dues
<1>7. TapsTyped'
  BY <1>3, <1>5, <1>6 DEF TapsTyped, TapsFit
<1> QED BY <1>2, <1>4, <1>7

LEMMA NoTapsTyped == NoTaps => TapsTyped'
BY ButtonInputAssumption DEF NoTaps, TapsTyped, TapsFit

\* What is left of SDL's queue, and what is added to it.
LEMMA TailTyped ==
  ASSUME QueueTyped, queue # <<>>, queue' = Tail(queue)
  PROVE  QueueTyped'
BY ButtonInputAssumption DEF QueueTyped

LEMMA AppendTyped ==
  ASSUME QueueTyped, Len(queue) < MaxEvents, NEW e \in Events, queue' = Append(queue, e)
  PROVE  QueueTyped'
BY ButtonInputAssumption DEF QueueTyped

LEMMA EventTyped ==
  ASSUME NEW k \in Buttons \cup {SleepKey}, NEW d \in BOOLEAN, NEW m \in BOOLEAN
  PROVE  Event(k, d, m) \in Events
BY DEF Events
-----------------------------------------------------------------------------
(* Types, by group of actions. *)

LEMMA HostTyped ==
  ASSUME Typed, HostNext
  PROVE  Typed'
<1>0. Keys \subseteq Buttons \cup {SleepKey}
  BY ButtonInputAssumption
<1>1. ASSUME NEW k \in Keys, NEW m \in BOOLEAN, KeyDown(k, m) PROVE Typed'
  <2>1. QueueTyped'
    BY <1>0, <1>1, EventTyped, AppendTyped DEF KeyDown, Typed
  <2>2. HandsTyped' /\ AskedTyped' /\ CalledTyped'
    BY <1>0, <1>1 DEF KeyDown, Typed, HandsTyped, AskedTyped, CalledTyped, Call
  <2> QED BY <1>1, <2>1, <2>2, KeptTypes DEF KeyDown, Typed, shortcutVars
<1>2. ASSUME NEW k \in Keys, KeyUp(k) PROVE Typed'
  <2>1. QueueTyped'
    BY <1>0, <1>2, EventTyped, AppendTyped DEF KeyUp, Typed
  <2>2. HandsTyped'
    BY <1>2 DEF KeyUp, Typed, HandsTyped
  <2> QED BY <1>2, <2>1, <2>2, KeptTypes DEF KeyUp, Typed, shortcutVars, wakeVars
<1>3. ASSUME NEW b \in PadButtons, PadDown(b) PROVE Typed'
  <2>1. ButtonsTyped' /\ EdgeTyped'
    BY <1>3, InjectTyped, ButtonInputAssumption DEF PadDown, Typed
  <2>2. HandsTyped' /\ AskedTyped' /\ CalledTyped'
    BY <1>3, ButtonInputAssumption
    DEF PadDown, Typed, HandsTyped, AskedTyped, CalledTyped, Call
  <2> QED BY <1>3, <2>1, <2>2, KeptTypes DEF PadDown, Typed, shortcutVars
<1>4. ASSUME NEW b \in PadButtons, PadUp(b) PROVE Typed'
  <2>1. ButtonsTyped' /\ EdgeTyped'
    BY <1>4, InjectTyped, ButtonInputAssumption DEF PadUp, Typed
  <2>2. HandsTyped' /\ ShortcutTyped'
    BY <1>4 DEF PadUp, Typed, HandsTyped, ShortcutTyped, ShortcutAfter
  <2> QED BY <1>4, <2>1, <2>2, KeptTypes DEF PadUp, Typed
<1>5. ASSUME NEW b \in TapButtons, QueueTap(b) PROVE Typed'
  <2>1. TapsTyped'
    BY <1>5, ButtonInputAssumption DEF QueueTap, Typed, TapsTyped, TapsFit
  <2>2. AskedTyped' /\ CalledTyped'
    BY <1>5, ButtonInputAssumption DEF QueueTap, Typed, AskedTyped, CalledTyped, Call
  <2> QED BY <1>5, <2>1, <2>2, KeptTypes DEF QueueTap, Typed, hostVars, shortcutVars
<1>6. CASE ResignActive
  <2>1. ButtonsTyped' /\ EdgeTyped'
    <3> DEFINE ups == {b \in Buttons : firedTaps[b] > 0} \cup pads
    <3>1. ups \in SUBSET Buttons /\ Inject({}, ups)
      BY <1>6, ButtonInputAssumption DEF ResignActive, Typed, HandsTyped
    <3> QED BY <3>1, InjectTyped DEF Typed
  <2>2. HandsTyped' /\ ShortcutTyped' /\ CalledTyped'
    BY <1>6 DEF ResignActive, Typed, HandsTyped, ShortcutTyped, CalledTyped, ShortcutAfter
  <2> QED BY <1>6, <2>1, <2>2, NoTapsTyped, KeptTypes DEF ResignActive, Typed
<1>7. CASE Foreground
  <2>1. ResumeTyped' /\ CalledTyped'
    BY <1>7 DEF Foreground, Typed, ResumeTyped, CalledTyped, Call
  <2> QED BY <1>7, <2>1, KeptTypes DEF Foreground, Typed, hostVars, shortcutVars
<1>8. CASE Quit
  <2>1. LifeTyped' /\ phase' \in Phases
    BY <1>8 DEF Quit, Typed, LifeTyped, Phases
  <2> QED BY <1>8, <2>1, KeptTypes DEF Quit, Typed, hostVars, shortcutVars, wakeVars
<1> QED BY <1>1, <1>2, <1>3, <1>4, <1>5, <1>6, <1>7, <1>8 DEF HostNext

\* An event of the queue, and the queue without it.
LEMMA PollTyped ==
  ASSUME Typed, NEW e \in Events, Poll(e)
  PROVE  /\ e.key \in Buttons \cup {SleepKey} /\ e.down \in BOOLEAN
         /\ phase' \in Phases /\ QueueTyped' /\ HandsTyped'
         /\ (keyState \subseteq Buttons)' /\ TapsTyped' /\ LifeTyped'
         /\ CalledTyped' /\ ResumeTyped' /\ AskedTyped'
<1>1. e.key \in Buttons \cup {SleepKey} /\ e.down \in BOOLEAN
  BY DEF Events, Event
<1>2. QueueTyped'
  BY TailTyped DEF Poll, Typed
<1> QED BY <1>1, <1>2, KeptTypes DEF Poll

LEMMA FrameTyped ==
  ASSUME Typed, FrameNext
  PROVE  Typed'
<1>1. CASE BeginFrame
  <2>1. ButtonsTyped' /\ ResumeTyped' /\ phase' \in Phases
    BY <1>1 DEF BeginFrame, Typed, ButtonsTyped, ResumeTyped, Phases
  <2> QED BY <1>1, <2>1, KeptTypes DEF BeginFrame, Typed, hostVars, wakeVars, shortcutVars
<1>2. ASSUME NEW due \in Dues, BeginUpdate(due) PROVE Typed'
  <2>1. ButtonsTyped' /\ EdgeTyped' /\ TapsTyped' /\ ShortcutTyped'
    BY <1>2, FireTapsTyped DEF BeginUpdate
  <2>2. ResumeTyped' /\ phase' \in Phases
    BY <1>2 DEF BeginUpdate, UpdateBegins, Typed, ResumeTyped, Phases
  <2> QED BY <1>2, <2>1, <2>2, KeptTypes DEF BeginUpdate, Typed, hostVars
<1>3. CASE PollEnds
  <2>1. (keyState \subseteq Buttons)' /\ phase' \in Phases
    BY <1>3 DEF PollEnds, Phases
  <2> QED BY <1>3, <2>1, KeptTypes DEF PollEnds, Typed, hostVars, wakeVars, shortcutVars
<1>5. ASSUME NEW e \in Events, PollText(e) PROVE Typed'
  <2>1. Poll(e) /\ HoldEnds(e) /\ RouteOf(e, "text")
    BY <1>5 DEF PollText
  <2>2. ButtonsTyped'
    BY <2>1 DEF HoldEnds, Typed, ButtonsTyped
  <2>3. EdgeTyped' /\ RequestTyped' /\ ShortcutTyped'
    BY <2>1, KeptTypes DEF HoldEnds, shortcutVars
  <2>4. RouteTyped'
    BY <2>1 DEF RouteOf, Typed, RouteTyped, routeVars
  <2>5. FieldTyped' /\ (typed \in BOOLEAN)'
    BY <1>5, <2>1, PollTyped DEF PollText, Typed, FieldTyped
  <2> QED BY <2>1, <2>2, <2>3, <2>4, <2>5, PollTyped DEF Typed
<1>6. ASSUME NEW e \in Events, PollButton(e) PROVE Typed'
  <2>1. Poll(e) /\ RouteOf(e, "button") /\ e.key \in Buttons
    BY <1>6 DEF PollButton
  <2>2. ButtonsTyped'
    BY <1>6, <2>1, KeyEdgeTyped DEF PollButton, Typed
  <2>3. EdgeTyped' /\ RequestTyped' /\ ShortcutTyped' /\ (typed \in BOOLEAN)'
    BY <1>6, KeptTypes DEF PollButton, shortcutVars
  <2>4. RouteTyped'
    BY <2>1 DEF RouteOf, Typed, RouteTyped, routeVars
  <2>5. FieldTyped'
    BY <1>6, <2>1, PollTyped DEF PollButton, Typed, FieldTyped
  <2> QED BY <2>1, <2>2, <2>3, <2>4, <2>5, PollTyped DEF Typed
<1>7. ASSUME NEW e \in Events, PollSleepKey(e) PROVE Typed'
  <2>1. Poll(e)
    BY <1>7 DEF PollSleepKey
  <2>2. ButtonsTyped' /\ EdgeTyped' /\ RequestTyped' /\ ShortcutTyped'
    <3>1. CASE e.down
      BY <1>7, <3>1, InjectTyped, ButtonInputAssumption
      DEF PollSleepKey, Typed, RequestTyped, ShortcutTyped
    <3>2. CASE ~e.down
      BY <1>7, <3>2, KeptTypes DEF PollSleepKey, shortcutVars
    <3> QED BY <3>1, <3>2
  <2>3. FieldTyped' /\ (typed \in BOOLEAN)' /\ RouteTyped'
    BY <1>7, KeptTypes DEF PollSleepKey
  <2> QED BY <2>1, <2>2, <2>3, PollTyped DEF Typed
<1>8. CASE Check
  <2>1. ResumeTyped' /\ phase' \in Phases
    BY <1>8 DEF Check, Typed, ResumeTyped, Phases
  <2> QED BY <1>8, <2>1, KeptTypes DEF Check, Typed, hostVars, wakeVars, shortcutVars
<1>9. CASE Leave \/ Finish
  <2>1. phase' \in Phases
    BY <1>9 DEF Leave, Finish, Phases
  <2> QED BY <1>9, <2>1, KeptTypes DEF Leave, Finish, Typed, hostVars, wakeVars, shortcutVars
<1> QED BY <1>1, <1>2, <1>3, <1>5, <1>6, <1>7, <1>8, <1>9 DEF FrameNext

LEMMA RebootTyped ==
  ASSUME Typed, NEW q \in Seq(Events), Len(q) <= MaxEvents, Reboot(q),
         (keyState \subseteq Buttons)', hostForegroundLatch' \in BOOLEAN
  PROVE  Typed'
<1>1. ButtonsTyped' /\ (typed \in BOOLEAN)' /\ ShortcutTyped'
  BY ClearedTyped DEF Typed, Reboot, Restart
<1>2. QueueTyped' /\ phase' \in Phases
  BY DEF Reboot, Restart, QueueTyped, Phases
<1>3. AskedTyped'
  BY DEF Reboot, Restart, AskedTyped, PressedIn, Events, Event
<1>4. FieldTyped' /\ RouteTyped' /\ CalledTyped' /\ EdgeTyped'
  BY DEF Reboot, Restart, FieldTyped, RouteTyped, CalledTyped, EdgeTyped
<1>5. LifeTyped' /\ ResumeTyped'
  BY DEF Reboot, Restart, Typed, LifeTyped, ResumeTyped
<1>6. HandsTyped' /\ RequestTyped' /\ TapsTyped'
  BY KeptTypes, NoTapsTyped DEF Reboot, Restart
<1> QED BY <1>1, <1>2, <1>3, <1>4, <1>5, <1>6 DEF Typed

LEMMA FirmwareTyped ==
  ASSUME Typed, FirmwareNext
  PROVE  Typed'
<1>1. ASSUME NEW shape \in FieldShapes, NEW on \in BOOLEAN, SetTextEntry(on, shape)
      PROVE  Typed'
  <2>1. FieldTyped' /\ (typed \in BOOLEAN)' /\ RouteTyped'
    BY <1>1, ButtonInputAssumption DEF SetTextEntry, Typed, FieldTyped, RouteTyped
  <2> QED BY <1>1, <2>1, KeptTypes DEF SetTextEntry, Typed, hostVars, wakeVars, shortcutVars
<1>2. CASE ConsumeTypedText
  BY <1>2, KeptTypes DEF ConsumeTypedText, Typed, hostVars, wakeVars, shortcutVars
<1>3. CASE ConsumeSleepRequest
  <2>1. RequestTyped'
    BY <1>3 DEF ConsumeSleepRequest, RequestTyped
  <2> QED BY <1>3, <2>1, KeptTypes DEF ConsumeSleepRequest, Typed, hostVars, wakeVars
<1>4. CASE StartDeepSleep
  <2>1. ButtonsTyped' /\ (typed \in BOOLEAN)' /\ ShortcutTyped'
    BY <1>4, ClearedTyped DEF Typed, StartDeepSleep, FallAsleep
  <2>2. phase' \in Phases /\ LifeTyped' /\ EdgeTyped' /\ ResumeTyped'
    BY <1>4 DEF StartDeepSleep, FallAsleep, Typed, Phases, LifeTyped, EdgeTyped, ResumeTyped
  <2> QED BY <1>4, <2>1, <2>2, NoTapsTyped, KeptTypes
          DEF StartDeepSleep, FallAsleep, Typed, hostVars
<1>5. CASE RebootAwake
  BY <1>5, RebootTyped DEF RebootAwake, Typed, QueueTyped, ResumeTyped
<1> QED BY <1>1, <1>2, <1>3, <1>4, <1>5 DEF FirmwareNext

LEMMA SleepTyped ==
  ASSUME Typed, SleepNext
  PROVE  Typed'
<1>q. queue # <<>> => Tail(queue) \in Seq(Events) /\ Len(Tail(queue)) <= MaxEvents
  BY ButtonInputAssumption DEF Typed, QueueTyped
<1>1. CASE WakeByForeground \/ WakeByEdge
  BY <1>1, RebootTyped DEF WakeByForeground, WakeByEdge, Typed, QueueTyped, ResumeTyped
<1>2. CASE WakeByKey
  <2>1. (keyState \subseteq Buttons)' /\ hostForegroundLatch' \in BOOLEAN
        /\ queue # <<>> /\ Reboot(Tail(queue))
    BY <1>2 DEF WakeByKey, Typed, ResumeTyped
  <2> QED BY <1>q, <2>1, RebootTyped
<1>3. CASE SleepReturns
  <2>1. EdgeTyped' /\ phase' \in Phases
    BY <1>3 DEF SleepReturns, EdgeWaits, TapWaits, Typed, EdgeTyped, Phases
  <2> QED BY <1>3, <2>1, NoTapsTyped, KeptTypes
          DEF SleepReturns, Typed, hostVars, shortcutVars
<1>4. CASE SleepOn
  <2>1. phase' \in Phases
    BY <1>4 DEF SleepOn, Phases
  <2> QED BY <1>4, <2>1, KeptTypes DEF SleepOn, Typed, hostVars, wakeVars, shortcutVars
<1>5. CASE SleepPollEnds
  <2>1. phase' \in Phases /\ (keyState \subseteq Buttons)'
    BY <1>5 DEF SleepPollEnds, Phases
  <2> QED BY <1>5, <2>1, KeptTypes DEF SleepPollEnds, Typed, hostVars, wakeVars, shortcutVars
<1>6. CASE SleepThrough
  <2>1. QueueTyped'
    BY <1>6, TailTyped DEF SleepThrough, Typed
  <2> QED BY <1>6, <2>1, KeptTypes DEF SleepThrough, Typed, wakeVars, shortcutVars
<1> QED BY <1>1, <1>2, <1>3, <1>4, <1>5, <1>6 DEF SleepNext

LEMMA StepTyped ==
  ASSUME Typed, [Next]_vars
  PROVE  Typed'
<1>1. CASE UNCHANGED vars
  BY <1>1, KeptTypes DEF Typed, vars, hostVars, wakeVars, shortcutVars
<1> QED BY <1>1, HostTyped, FrameTyped, FirmwareTyped, SleepTyped DEF Next

LEMMA InitTyped == Init => Typed
<1> SUFFICES ASSUME Init PROVE Typed
  OBVIOUS
<1> USE ButtonInputAssumption DEF Init
<1>1. phase \in Phases /\ QueueTyped /\ HandsTyped /\ keyState \subseteq Buttons
  BY DEF Phases, QueueTyped, HandsTyped
<1>2. ButtonsTyped
  BY DEF ButtonsTyped
<1>3. TapsTyped
  BY DEF TapsTyped, TapsFit
<1>4. LifeTyped /\ EdgeTyped /\ CalledTyped /\ ResumeTyped /\ RequestTyped
  BY DEF LifeTyped, EdgeTyped, CalledTyped, ResumeTyped, RequestTyped
<1>5. ShortcutTyped /\ FieldTyped /\ typed \in BOOLEAN /\ AskedTyped /\ RouteTyped
  BY DEF ShortcutTyped, FieldTyped, AskedTyped, RouteTyped
<1> QED BY <1>1, <1>2, <1>3, <1>4, <1>5 DEF Typed

LEMMA AlwaysTyped == Spec => []Typed
BY InitTyped, StepTyped, PTL DEF Spec

\* Every variable keeps its type, and no queue or tap count passes its bound.
THEOREM TypeCorrect == Spec => []TypeOK
BY AlwaysTyped, TypedIsTypeOK, PTL
-----------------------------------------------------------------------------
(* The open field: what was typed for it, and Return's latch. *)

FieldInv == TextStaysInItsField /\ ClaimIsHeld

LEMMA StepKeepsField ==
  ASSUME Typed, FieldInv, [Next]_vars
  PROVE  FieldInv'
<1> USE DEF FieldInv, TextStaysInItsField, ClaimIsHeld
<1>1. ASSUME UNCHANGED <<typed, fieldVars, routeVars>> PROVE FieldInv'
  BY <1>1 DEF fieldVars, routeVars
<1>2. CASE HostNext
  BY <1>1, <1>2 DEF HostNext, KeyDown, KeyUp, PadDown, PadUp, QueueTap, ResignActive,
     Foreground, Quit
<1>3. ASSUME NEW e \in Events, PollText(e) PROVE FieldInv'
  <2>1. textEntryActive /\ textEntryActive' = textEntryActive
    BY <1>3 DEF PollText, Swallowed, EnterIsText
  <2>2. enterClaimedByButton' => enterClaimedByButton /\ route' = route
    BY <1>3 DEF PollText, RouteOf, routeVars
  <2> QED BY <2>1, <2>2
<1>4. ASSUME NEW e \in Events, PollButton(e) PROVE FieldInv'
  <2>1. UNCHANGED <<typed, textEntryActive>>
    BY <1>4 DEF PollButton
  <2>2. e.key = Confirm /\ e.down => route' = "button"
    BY <1>4 DEF PollButton, RouteOf
  <2>3. e.key # Confirm => UNCHANGED <<enterClaimedByButton, route>>
    BY <1>4 DEF PollButton, RouteOf, routeVars
  <2>4. e.key = Confirm => enterClaimedByButton' =
                             (IF textEntryActive THEN e.down ELSE enterClaimedByButton)
    BY <1>4 DEF PollButton
  <2> QED BY <2>1, <2>2, <2>3, <2>4
<1>5. ASSUME NEW e \in Events, PollSleepKey(e) PROVE FieldInv'
  BY <1>1, <1>5 DEF PollSleepKey
<1>6. CASE BeginFrame \/ PollEnds \/ Check \/ Leave \/ Finish
  BY <1>1, <1>6 DEF BeginFrame, PollEnds, Check, Leave, Finish
<1>7. ASSUME NEW due \in Dues, BeginUpdate(due) PROVE FieldInv'
  BY <1>1, <1>7 DEF BeginUpdate
<1>8. ASSUME NEW shape \in FieldShapes, NEW on \in BOOLEAN, SetTextEntry(on, shape)
      PROVE  FieldInv'
  BY <1>8 DEF SetTextEntry, Typed, FieldTyped
<1>9. CASE ConsumeTypedText \/ ConsumeSleepRequest
  BY <1>9 DEF ConsumeTypedText, ConsumeSleepRequest, fieldVars, routeVars
<1>10. CASE StartDeepSleep
  BY <1>10 DEF StartDeepSleep, FallAsleep, ClearButtonState, fieldVars, routeVars
<1>11. ASSUME NEW q, Reboot(q) PROVE FieldInv'
  BY <1>11 DEF Reboot, Restart, ClearButtonState
<1>12. CASE RebootAwake \/ WakeByForeground \/ WakeByEdge \/ WakeByKey
  BY <1>11, <1>12 DEF RebootAwake, WakeByForeground, WakeByEdge, WakeByKey
<1>13. CASE SleepReturns \/ SleepOn \/ SleepThrough \/ SleepPollEnds
  BY <1>1, <1>13 DEF SleepReturns, SleepOn, SleepThrough, SleepPollEnds
<1>14. CASE UNCHANGED vars
  BY <1>1, <1>14 DEF vars
<1> QED BY <1>2, <1>3, <1>4, <1>5, <1>6, <1>7, <1>8, <1>9, <1>10, <1>12, <1>13, <1>14
        DEF Next, FrameNext, FirmwareNext, SleepNext

LEMMA FieldAlways == Spec => []FieldInv
<1>1. Init => FieldInv
  BY DEF Init, FieldInv, TextStaysInItsField, ClaimIsHeld
<1> QED BY <1>1, AlwaysTyped, StepKeepsField, PTL DEF Spec

\* No text waits for a field that is closed.
THEOREM TextKeepsToItsField == Spec => []TextStaysInItsField
BY FieldAlways, PTL DEF FieldInv

\* Return is a button's only between its DOWN and its UP, in one open field.
THEOREM ClaimsAreHeld == Spec => []ClaimIsHeld
BY FieldAlways, PTL DEF FieldInv
-----------------------------------------------------------------------------
(* Levels: who holds a button, and who will let it go. *)

\* Nothing fires a tap of a sleeping device, so none is in flight in the loop.
SleepIsCalm == Asleep => \A b \in Buttons : firedTaps[b] = 0

LevelInv == LevelsHaveAHand /\ SleepIsCalm

LEMMA StepKeepsLevels ==
  ASSUME Typed, LevelInv, [Next]_vars
  PROVE  LevelInv'
<1> USE DEF LevelInv, LevelsHaveAHand, SleepIsCalm
<1>t. syntheticButtonDown \subseteq Buttons /\ pads \subseteq Buttons /\ Power \in Buttons
  BY ButtonInputAssumption DEF Typed, ButtonsTyped, HandsTyped
<1>1. ASSUME UNCHANGED <<syntheticButtonDown, pads, firedTaps, shortcut>>,
             Asleep' => Asleep
      PROVE  LevelInv'
  BY <1>1
<1>2. ASSUME NEW k \in Keys, (\E m \in BOOLEAN : KeyDown(k, m)) \/ KeyUp(k)
      PROVE  LevelInv'
  BY <1>1, <1>2 DEF KeyDown, KeyUp, buttonVars, tapVars, shortcutVars, Asleep
<1>3. ASSUME NEW b \in PadButtons, PadDown(b) PROVE LevelInv'
  BY <1>3 DEF PadDown, Inject, tapVars, shortcutVars, Asleep
<1>4. ASSUME NEW b \in PadButtons, PadUp(b) PROVE LevelInv'
  BY <1>4 DEF PadUp, Inject, ShortcutAfter, tapVars, Asleep
<1>5. CASE (\E b \in TapButtons : QueueTap(b)) \/ Foreground
  BY <1>1, <1>5 DEF QueueTap, Foreground, hostVars, buttonVars, tapVars, shortcutVars, Asleep
<1>6. CASE ResignActive
  <2>1. firedTaps' = [b \in Buttons |-> 0] /\ pads' = {} /\ Asleep' = Asleep
    BY <1>6 DEF ResignActive, NoTaps, Asleep
  <2>2. ASSUME NEW b \in syntheticButtonDown' PROVE b = Power /\ shortcut'
    <3>1. b \in syntheticButtonDown /\ b \notin pads /\ ~(firedTaps[b] > 0)
      BY <1>6, <1>t, <2>2 DEF ResignActive, Inject
    <3>2. b = Power /\ shortcut
      BY <3>1
    <3> QED BY <1>6, <3>1, <3>2 DEF ResignActive, ShortcutAfter
  <2> QED BY <2>1, <2>2
<1>7. CASE Quit
  BY <1>1, <1>7 DEF Quit, hostVars, buttonVars, tapVars, shortcutVars, Asleep
<1>8. CASE BeginFrame \/ PollEnds \/ Check \/ Leave \/ Finish
  BY <1>1, <1>8 DEF BeginFrame, PollEnds, Check, Leave, Finish, hostVars, buttonVars,
     tapVars, shortcutVars, Asleep
<1>9. ASSUME NEW due \in Dues, BeginUpdate(due) PROVE LevelInv'
  <2>1. pads' = pads /\ ~Asleep' /\ FireTaps(due)
    BY <1>9 DEF BeginUpdate, UpdateBegins, hostVars, Asleep
  <2>2. ASSUME NEW b \in syntheticButtonDown'
        PROVE  b \in pads' \/ firedTaps'[b] > 0 \/ (b = Power /\ shortcut')
    <3>1. /\ b \in Buttons
          /\ queuedTaps[b] > 0 \/ (b \in syntheticButtonDown /\ ~(due[b] > 0))
      BY <1>t, <2>1, <2>2 DEF FireTaps, Inject
    <3>2. /\ firedTaps'[b] = firedTaps[b] - due[b] + queuedTaps[b]
          /\ firedTaps[b] \in Nat /\ queuedTaps[b] \in Nat /\ due[b] \in Nat
          /\ due[b] <= firedTaps[b]
      BY <2>1, <3>1, ButtonInputAssumption DEF FireTaps, Typed, TapsTyped, Dues
    <3>3. CASE queuedTaps[b] > 0
      BY <3>2, <3>3
    <3>4. CASE b \in syntheticButtonDown /\ ~(due[b] > 0)
      <4>1. b \in pads \/ firedTaps[b] > 0 \/ (b = Power /\ shortcut)
        BY <3>4
      <4>2. firedTaps[b] > 0 => firedTaps'[b] > 0
        BY <3>2, <3>4
      <4>3. b = Power /\ shortcut => shortcut'
        BY <2>1, <3>4 DEF FireTaps, ShortcutAfter
      <4> QED BY <2>1, <4>1, <4>2, <4>3
    <3> QED BY <3>1, <3>3, <3>4
  <2> QED BY <2>1, <2>2
<1>10. ASSUME NEW e \in Events, PollText(e) \/ PollButton(e) PROVE LevelInv'
  BY <1>1, <1>10 DEF PollText, PollButton, Poll, HoldEnds, KeyEdge, tapVars,
     shortcutVars, Asleep
<1>11. ASSUME NEW e \in Events, PollSleepKey(e) PROVE LevelInv'
  <2>1. UNCHANGED <<pads, firedTaps>> /\ Asleep' = Asleep
    BY <1>11 DEF PollSleepKey, Poll, tapVars, Asleep
  <2>2. CASE e.down
    BY <1>11, <2>1, <2>2 DEF PollSleepKey, Inject
  <2>3. CASE ~e.down
    BY <1>11, <2>1, <2>3 DEF PollSleepKey, buttonVars, shortcutVars
  <2> QED BY <2>2, <2>3
<1>12. ASSUME NEW shape \in FieldShapes, NEW on \in BOOLEAN, SetTextEntry(on, shape)
       PROVE  LevelInv'
  BY <1>1, <1>12 DEF SetTextEntry, hostVars, buttonVars, tapVars, shortcutVars, Asleep
<1>13. CASE ConsumeTypedText \/ ConsumeSleepRequest
  BY <1>1, <1>13 DEF ConsumeTypedText, ConsumeSleepRequest, hostVars, buttonVars,
     tapVars, shortcutVars, Asleep
<1>14. CASE StartDeepSleep
  BY <1>14 DEF StartDeepSleep, FallAsleep, NoTaps, ClearButtonState
<1>15. ASSUME NEW q, Reboot(q) PROVE LevelInv'
  BY <1>15 DEF Reboot, Restart, NoTaps, ClearButtonState
<1>16. CASE RebootAwake \/ WakeByForeground \/ WakeByEdge \/ WakeByKey
  BY <1>15, <1>16 DEF RebootAwake, WakeByForeground, WakeByEdge, WakeByKey
<1>17. CASE SleepReturns
  <2>1. /\ UNCHANGED <<syntheticButtonDown, pads, shortcut>> /\ Asleep /\ ~Asleep'
        /\ firedTaps' = [b \in Buttons |-> 0]
    BY <1>17 DEF SleepReturns, NoTaps, hostVars, buttonVars, shortcutVars, Asleep
  <2>2. \A b \in syntheticButtonDown : firedTaps[b] = 0
    BY <1>t, <2>1
  <2> QED BY <2>1, <2>2
<1>18. CASE SleepOn \/ SleepThrough \/ SleepPollEnds
  BY <1>1, <1>18 DEF SleepOn, SleepThrough, SleepPollEnds, hostVars, buttonVars,
     tapVars, shortcutVars, Asleep
<1>19. CASE UNCHANGED vars
  BY <1>1, <1>19 DEF vars, hostVars, buttonVars, tapVars, shortcutVars, Asleep
<1> QED BY <1>2, <1>3, <1>4, <1>5, <1>6, <1>7, <1>8, <1>9, <1>10, <1>11, <1>12, <1>13,
           <1>14, <1>16, <1>17, <1>18, <1>19
        DEF Next, HostNext, FrameNext, FirmwareNext, SleepNext

\* Nothing stays held for ever: every level has somebody left to end it.
THEOREM EveryLevelHasAHand == Spec => []LevelsHaveAHand
<1>1. Init => LevelInv
  BY DEF Init, LevelInv, LevelsHaveAHand, SleepIsCalm, Asleep
<1> QED BY <1>1, AlwaysTyped, StepKeepsLevels, PTL DEF Spec, LevelInv
-----------------------------------------------------------------------------
(* Presses: who asked for each. *)

\* What the queue still holds was pressed in this boot, or was in it when the
\* boot began.
AskedInv == PressesAreAsked /\ PressedIn(queue) \subseteq asked

LEMMA PressedInAppend ==
  ASSUME NEW q \in Seq(Events), NEW e \in Events
  PROVE  PressedIn(Append(q, e)) \subseteq
           PressedIn(q) \cup (IF e.down THEN {e.key} ELSE {})
<1> SUFFICES ASSUME NEW i \in DOMAIN Append(q, e), Append(q, e)[i].down
             PROVE  Append(q, e)[i].key \in
                      PressedIn(q) \cup (IF e.down THEN {e.key} ELSE {})
  BY DEF PressedIn
<1>1. CASE i = Len(q) + 1
  BY <1>1
<1>2. CASE i \in 1..Len(q)
  <2>1. i \in DOMAIN q /\ Append(q, e)[i] = q[i]
    BY <1>2
  <2> QED BY <2>1 DEF PressedIn
<1> QED BY <1>1, <1>2

LEMMA PressedInTail ==
  ASSUME NEW q \in Seq(Events), q # <<>>
  PROVE  /\ PressedIn(Tail(q)) \subseteq PressedIn(q)
         /\ Head(q).down => Head(q).key \in PressedIn(q)
<1>1. ASSUME NEW i \in DOMAIN Tail(q), Tail(q)[i].down
      PROVE  Tail(q)[i].key \in PressedIn(q)
  <2>1. i + 1 \in DOMAIN q /\ Tail(q)[i] = q[i + 1]
    OBVIOUS
  <2> QED BY <1>1, <2>1 DEF PressedIn
<1>2. 1 \in DOMAIN q /\ Head(q) = q[1]
  OBVIOUS
<1>3. Head(q).down => Head(q).key \in PressedIn(q)
  BY <1>2 DEF PressedIn
<1>4. PressedIn(Tail(q)) \subseteq PressedIn(q)
  BY <1>1 DEF PressedIn
<1> QED BY <1>3, <1>4

\* Nothing new pressed, nobody forgotten.
LEMMA NothingPressed ==
  ASSUME AskedInv,
         pressedThisFrame' \subseteq pressedThisFrame,
         syntheticButtonDown' \subseteq syntheticButtonDown,
         UNCHANGED tapVars \/ NoTaps,
         PressedIn(queue') \subseteq PressedIn(queue), asked \subseteq asked'
  PROVE  AskedInv'
<1>1. CASE UNCHANGED tapVars
  BY <1>1 DEF AskedInv, PressesAreAsked, tapVars
<1>2. CASE NoTaps
  BY <1>2 DEF AskedInv, PressesAreAsked, NoTaps
<1> QED BY <1>1, <1>2

LEMMA StepKeepsAsked ==
  ASSUME Typed, AskedInv, [Next]_vars
  PROVE  AskedInv'
<1>q. queue \in Seq(Events)
  BY DEF Typed, QueueTyped
<1>1. ASSUME NEW k \in Keys, NEW m \in BOOLEAN, KeyDown(k, m) PROVE AskedInv'
  <2>1. Event(k, TRUE, m) \in Events
    BY EventTyped, ButtonInputAssumption
  <2>2. PressedIn(queue') \subseteq PressedIn(queue) \cup {k}
    BY <1>1, <1>q, <2>1, PressedInAppend DEF KeyDown, Event
  <2> QED BY <1>1, <2>2 DEF KeyDown, AskedInv, PressesAreAsked, buttonVars, tapVars
<1>2. ASSUME NEW k \in Keys, KeyUp(k) PROVE AskedInv'
  <2>1. Event(k, FALSE, FALSE) \in Events
    BY EventTyped, ButtonInputAssumption
  <2>2. PressedIn(queue') \subseteq PressedIn(queue)
    BY <1>2, <1>q, <2>1, PressedInAppend DEF KeyUp, Event
  <2> QED BY <1>2, <2>2, NothingPressed DEF KeyUp, buttonVars
<1>3. ASSUME NEW b \in PadButtons, PadDown(b) PROVE AskedInv'
  BY <1>3 DEF PadDown, Inject, AskedInv, PressesAreAsked, tapVars
<1>4. CASE (\E b \in PadButtons : PadUp(b)) \/ ResignActive
  BY <1>4, NothingPressed DEF PadUp, ResignActive, Inject
<1>5. ASSUME NEW b \in TapButtons, QueueTap(b) PROVE AskedInv'
  <2>1. \A c \in Buttons : c # b => queuedTaps'[c] = queuedTaps[c]
    BY <1>5 DEF QueueTap, Typed, TapsTyped
  <2> QED BY <1>5, <2>1 DEF QueueTap, AskedInv, PressesAreAsked, buttonVars, hostVars
<1>6. CASE Foreground \/ Quit
  BY <1>6, NothingPressed DEF Foreground, Quit, hostVars, buttonVars
<1>7. CASE BeginFrame \/ PollEnds \/ Check \/ Leave \/ Finish
  BY <1>7, NothingPressed DEF BeginFrame, PollEnds, Check, Leave, Finish, hostVars, buttonVars
<1>8. ASSUME NEW due \in Dues, BeginUpdate(due) PROVE AskedInv'
  <2>1. FireTaps(due) /\ UNCHANGED <<queue, asked>>
    BY <1>8 DEF BeginUpdate, hostVars
  <2>2. \A b \in Buttons : queuedTaps[b] \in Nat /\ firedTaps[b] \in Nat /\ due[b] \in Nat
    BY ButtonInputAssumption DEF Typed, TapsTyped, Dues
  <2>3. \A b \in Buttons : queuedTaps[b] > 0 => b \in asked
    BY <2>2 DEF AskedInv, PressesAreAsked
  <2>4. pressedThisFrame' \cup syntheticButtonDown' \subseteq
          pressedThisFrame \cup syntheticButtonDown \cup {b \in Buttons : queuedTaps[b] > 0}
    BY <2>1 DEF FireTaps, Inject
  <2>5. \A b \in Buttons : queuedTaps'[b] + firedTaps'[b] > 0 =>
                             queuedTaps[b] + firedTaps[b] > 0
    BY <2>1, <2>2 DEF FireTaps
  <2> QED BY <2>1, <2>3, <2>4, <2>5 DEF AskedInv, PressesAreAsked
<1>9. ASSUME NEW e \in Events, Poll(e)
      PROVE  /\ PressedIn(queue') \subseteq PressedIn(queue) /\ asked' = asked
             /\ UNCHANGED tapVars /\ (e.down => e.key \in asked)
  BY <1>9, <1>q, PressedInTail DEF Poll, AskedInv
<1>10. ASSUME NEW e \in Events, PollText(e) PROVE AskedInv'
  BY <1>9, <1>10, NothingPressed DEF PollText, HoldEnds
<1>11. ASSUME NEW e \in Events, PollButton(e) PROVE AskedInv'
  <2>1. Poll(e) /\ UNCHANGED syntheticButtonDown
        /\ pressedThisFrame' \subseteq pressedThisFrame \cup (IF e.down THEN {e.key} ELSE {})
    BY <1>11 DEF PollButton, KeyEdge
  <2> QED BY <1>9, <2>1 DEF AskedInv, PressesAreAsked, tapVars
<1>12. ASSUME NEW e \in Events, PollSleepKey(e) PROVE AskedInv'
  <2>1. CASE e.down
    <3>1. SleepKey \in asked
      BY <1>9, <1>12, <2>1 DEF PollSleepKey
    <3> QED BY <1>9, <1>12, <2>1, <3>1
            DEF PollSleepKey, Inject, AskedInv, PressesAreAsked, tapVars
  <2>2. CASE ~e.down
    BY <1>9, <1>12, <2>2, NothingPressed DEF PollSleepKey, buttonVars
  <2> QED BY <2>1, <2>2
<1>13. ASSUME NEW shape \in FieldShapes, NEW on \in BOOLEAN, SetTextEntry(on, shape)
       PROVE  AskedInv'
  BY <1>13, NothingPressed DEF SetTextEntry, hostVars, buttonVars
<1>14. CASE ConsumeTypedText \/ ConsumeSleepRequest
  BY <1>14, NothingPressed DEF ConsumeTypedText, ConsumeSleepRequest, hostVars, buttonVars
<1>15. CASE StartDeepSleep
  BY <1>15, NothingPressed DEF StartDeepSleep, FallAsleep, ClearButtonState, hostVars
<1>16. ASSUME NEW q, Reboot(q) PROVE AskedInv'
  BY <1>16 DEF Reboot, Restart, NoTaps, ClearButtonState, AskedInv, PressesAreAsked
<1>17. CASE RebootAwake \/ WakeByForeground \/ WakeByEdge \/ WakeByKey
  BY <1>16, <1>17 DEF RebootAwake, WakeByForeground, WakeByEdge, WakeByKey
<1>18. CASE SleepReturns \/ SleepOn \/ SleepPollEnds
  BY <1>18, NothingPressed DEF SleepReturns, SleepOn, SleepPollEnds, hostVars, buttonVars
<1>19. CASE SleepThrough
  BY <1>19, <1>q, PressedInTail, NothingPressed DEF SleepThrough, buttonVars
<1>20. CASE UNCHANGED vars
  BY <1>20, NothingPressed DEF vars, hostVars, buttonVars
<1> QED BY <1>1, <1>2, <1>3, <1>4, <1>5, <1>6, <1>7, <1>8, <1>10, <1>11, <1>12, <1>13,
           <1>14, <1>15, <1>17, <1>18, <1>19, <1>20
        DEF Next, HostNext, FrameNext, FirmwareNext, SleepNext

\* No phantom press, in this boot or out of the one before.
THEOREM EveryPressIsAsked == Spec => []PressesAreAsked
<1>1. Init => AskedInv
  BY DEF Init, AskedInv, PressesAreAsked, PressedIn
<1> QED BY <1>1, AlwaysTyped, StepKeepsAsked, PTL DEF Spec, AskedInv
-----------------------------------------------------------------------------
(* Sleep: what wakes the device was a call to it. *)

\* In the sleep loop an edge was pressed by somebody and a tap queued by somebody.
CallInv ==
  /\ Asleep /\ syntheticWakeEdge => "press" \in called
  /\ Asleep => \A b \in Buttons : queuedTaps[b] > 0 => "tap" \in called
  /\ firmwareAsleep => Asleep \/ quitRequested

LEMMA StepKeepsCalls ==
  ASSUME Typed, LevelInv, CallInv, [Next]_vars
  PROVE  CallInv'
<1> USE DEF CallInv
<1>1. ASSUME UNCHANGED <<syntheticWakeEdge, queuedTaps, firmwareAsleep, quitRequested>>,
             called \subseteq called', Asleep' = Asleep
      PROVE  CallInv'
  BY <1>1
<1>2. ASSUME NEW k \in Keys, (\E m \in BOOLEAN : KeyDown(k, m)) \/ KeyUp(k)
      PROVE  CallInv'
  BY <1>1, <1>2 DEF KeyDown, KeyUp, Call, tapVars, lifeVars, wakeVars, Asleep
<1>3. ASSUME NEW b \in PadButtons, PadDown(b) PROVE CallInv'
  BY <1>3 DEF PadDown, Call, tapVars, lifeVars, Asleep
<1>4. ASSUME NEW b \in PadButtons, PadUp(b) PROVE CallInv'
  <2>1. syntheticWakeEdge' = syntheticWakeEdge
    BY <1>4 DEF PadUp, Inject, Typed, EdgeTyped
  <2> QED BY <1>1, <1>4, <2>1 DEF PadUp, tapVars, lifeVars, Asleep
<1>5. ASSUME NEW b \in TapButtons, QueueTap(b) PROVE CallInv'
  BY <1>5 DEF QueueTap, Call, lifeVars, Asleep
<1>6. CASE ResignActive
  <2>1. syntheticWakeEdge' = syntheticWakeEdge
    BY <1>6 DEF ResignActive, Inject, Typed, EdgeTyped
  <2> QED BY <1>6, <2>1 DEF ResignActive, NoTaps, lifeVars, Asleep
<1>7. CASE Foreground
  BY <1>1, <1>7 DEF Foreground, tapVars, lifeVars, Asleep
<1>8. CASE Quit
  BY <1>8 DEF Quit, Pumping, Polling, tapVars, wakeVars, Asleep
<1>9. CASE BeginFrame \/ PollEnds \/ Check \/ Leave \/ Finish
  BY <1>1, <1>9 DEF BeginFrame, PollEnds, Polling, Check, Leave, Finish, tapVars,
     lifeVars, wakeVars, Asleep
<1>10. ASSUME NEW due \in Dues, BeginUpdate(due) PROVE CallInv'
  BY <1>10 DEF BeginUpdate, UpdateBegins, lifeVars, Asleep
<1>11. ASSUME NEW e \in Events, PollText(e) \/ PollButton(e) \/ PollSleepKey(e)
       PROVE  CallInv'
  <2>1. Poll(e)
    BY <1>11 DEF PollText, PollButton, PollSleepKey
  <2> QED BY <2>1 DEF Poll, Polling, lifeVars, Asleep
<1>12. ASSUME NEW shape \in FieldShapes, NEW on \in BOOLEAN, SetTextEntry(on, shape)
       PROVE  CallInv'
  BY <1>1, <1>12 DEF SetTextEntry, tapVars, lifeVars, wakeVars, Asleep
<1>13. CASE ConsumeTypedText \/ ConsumeSleepRequest
  BY <1>1, <1>13 DEF ConsumeTypedText, ConsumeSleepRequest, tapVars, lifeVars, wakeVars,
     Asleep
<1>14. CASE StartDeepSleep
  BY <1>14 DEF StartDeepSleep, FallAsleep, NoTaps, Asleep
<1>15. ASSUME NEW q, Reboot(q) PROVE CallInv'
  BY <1>15 DEF Reboot, Restart, Asleep
<1>16. CASE RebootAwake \/ WakeByForeground \/ WakeByEdge \/ WakeByKey
  BY <1>15, <1>16 DEF RebootAwake, WakeByForeground, WakeByEdge, WakeByKey
<1>17. CASE SleepReturns
  BY <1>17 DEF SleepReturns, lifeVars, Asleep
<1>18. CASE SleepOn \/ SleepThrough \/ SleepPollEnds
  BY <1>1, <1>18 DEF SleepOn, SleepThrough, SleepPollEnds, tapVars, lifeVars, wakeVars, Asleep
<1>19. CASE UNCHANGED vars
  BY <1>1, <1>19 DEF vars, tapVars, lifeVars, wakeVars, Asleep
<1> QED BY <1>2, <1>3, <1>4, <1>5, <1>6, <1>7, <1>8, <1>9, <1>10, <1>11, <1>12, <1>13,
           <1>14, <1>16, <1>17, <1>18, <1>19
        DEF Next, HostNext, FrameNext, FirmwareNext, SleepNext

\* What puts the device to sleep does not wake it.
THEOREM EveryWakeIsCalledFor == Spec => []WakesAreCalledFor
<1>1. Init => LevelInv /\ CallInv
  BY DEF Init, LevelInv, LevelsHaveAHand, SleepIsCalm, CallInv, Asleep
<1>2. Typed /\ LevelInv /\ CallInv => WakesAreCalledFor
  <2> SUFFICES ASSUME Typed, LevelInv, CallInv PROVE WakesAreCalledFor
    OBVIOUS
  <2>1. ASSUME Asleep, TapWaits PROVE "tap" \in called
    <3>1. PICK b \in Buttons : queuedTaps[b] + firedTaps[b] > 0
      BY <2>1 DEF TapWaits
    <3>2. firedTaps[b] = 0 /\ queuedTaps[b] \in Nat
      BY <2>1, ButtonInputAssumption DEF Typed, TapsTyped, LevelInv, SleepIsCalm
    <3> QED BY <2>1, <3>1, <3>2 DEF CallInv
  <2> QED BY <2>1 DEF CallInv, WakesAreCalledFor, EdgeWaits
<1> QED BY <1>1, <1>2, AlwaysTyped, StepKeepsLevels, StepKeepsCalls, PTL DEF Spec
-----------------------------------------------------------------------------
(* Edges: set while update() runs, cleared between frames. *)

\* Every one of a frame's update()s leaves the presses before it to be read.
THEOREM EveryPressReaches == Spec => PressesReachTheFirmware
<1> DEFINE Reaches == /\ pressedThisFrame' \subseteq pressedThisFrame \/ Pumping \/ Polling'
                      /\ InLoop /\ InLoop' => pressedThisFrame \subseteq pressedThisFrame'
<1>1. ASSUME [Next]_vars PROVE Reaches
  <2>1. CASE pressedThisFrame' = pressedThisFrame
    BY <2>1
  <2>2. CASE \E k \in Keys : (\E m \in BOOLEAN : KeyDown(k, m)) \/ KeyUp(k)
    BY <2>1, <2>2 DEF KeyDown, KeyUp, buttonVars
  <2>3. CASE (\E b \in PadButtons : PadDown(b) \/ PadUp(b)) \/ ResignActive
    BY <2>3 DEF PadDown, PadUp, ResignActive, Inject
  <2>4. CASE (\E b \in TapButtons : QueueTap(b)) \/ Foreground \/ Quit
    BY <2>1, <2>4 DEF QueueTap, Foreground, Quit, buttonVars
  <2>5. CASE BeginFrame
    BY <2>5 DEF BeginFrame, InLoop, Polling
  <2>6. CASE \E due \in Dues : BeginUpdate(due)
    BY <2>6 DEF BeginUpdate, UpdateBegins, FireTaps, Inject, Polling
  <2>7. CASE PollEnds \/ Check \/ Leave \/ Finish
    BY <2>1, <2>7 DEF PollEnds, Check, Leave, Finish, buttonVars
  <2>8. CASE \E e \in Events : PollText(e) \/ PollButton(e) \/ PollSleepKey(e)
    BY <2>8 DEF PollText, PollButton, PollSleepKey, Poll, Pumping, HoldEnds, KeyEdge,
       Inject, buttonVars
  <2>9. CASE FirmwareNext \/ SleepNext
    <3>1. ASSUME NEW q, Reboot(q) PROVE Reaches
      BY <3>1 DEF Reboot, Restart, ClearButtonState, InLoop, Polling
    <3>2. CASE RebootAwake \/ WakeByForeground \/ WakeByEdge \/ WakeByKey
      BY <3>1, <3>2 DEF RebootAwake, WakeByForeground, WakeByEdge, WakeByKey
    <3>3. CASE StartDeepSleep
      BY <3>3 DEF StartDeepSleep, FallAsleep, ClearButtonState, InLoop, Polling
    <3>4. CASE \E shape \in FieldShapes, on \in BOOLEAN : SetTextEntry(on, shape)
      BY <2>1, <3>4 DEF SetTextEntry, buttonVars
    <3>5. CASE ConsumeTypedText \/ ConsumeSleepRequest
      BY <2>1, <3>5 DEF ConsumeTypedText, ConsumeSleepRequest, buttonVars
    <3>6. CASE SleepReturns \/ SleepOn \/ SleepThrough \/ SleepPollEnds
      BY <2>1, <3>6 DEF SleepReturns, SleepOn, SleepThrough, SleepPollEnds, buttonVars
    <3> QED BY <2>9, <3>2, <3>3, <3>4, <3>5, <3>6 DEF FirmwareNext, SleepNext
  <2>10. CASE UNCHANGED vars
    BY <2>1, <2>10 DEF vars, buttonVars
  <2> QED BY <1>1, <2>2, <2>3, <2>4, <2>5, <2>6, <2>7, <2>8, <2>9, <2>10
          DEF Next, HostNext, FrameNext
<1> QED BY <1>1, PTL DEF Spec, PressesReachTheFirmware
-----------------------------------------------------------------------------
(* Return: its UP goes where its DOWN went. *)

\* f says where Return is before the events of the queue, after each, and so
\* after the last: where the finger is.  Its events take turns.
Tracks(f, q) ==
  /\ f \in [0..Len(q) -> {"up", "down"}]
  /\ f[Len(q)] = IF Confirm \in held THEN "down" ELSE "up"
  /\ \A i \in 1..Len(q) :
       f[i] = IF q[i].key # Confirm THEN f[i - 1]
              ELSE IF q[i].down THEN "down" ELSE "up"
  /\ \A i \in 1..Len(q) : q[i].key = Confirm => f[i - 1] # f[i]

\* While Return is down as far as it was polled, its route is known, and is the
\* one its UP will find.
RouteKnown(f) ==
  ~moved /\ f[0] = "down" =>
    /\ route # "none"
    /\ route = "button" <=> ~textEntryActive \/ enterClaimedByButton

ReturnInv == \E f : Tracks(f, queue) /\ RouteKnown(f)

\* An event that is queued is tracked by one more place,
LEMMA TracksAppended ==
  ASSUME NEW k \in Buttons \cup {SleepKey}, NEW d \in BOOLEAN, NEW m \in BOOLEAN,
         Typed, NEW f, Tracks(f, queue), queue' = Append(queue, Event(k, d, m)),
         d <=> k \notin held, held' = IF d THEN held \cup {k} ELSE held \ {k}
  PROVE  \E g : (Tracks(g, queue))' /\ g[0] = f[0]
<1> DEFINE n == Len(queue)
           at(x) == IF k # Confirm THEN x ELSE IF d THEN "down" ELSE "up"
<1>2. queue \in Seq(Events) /\ n \in Nat
  BY DEF Typed, QueueTyped
<1>g. PICK g : g = [i \in 0..(n + 1) |-> IF i = n + 1 THEN at(f[n]) ELSE f[i]]
  OBVIOUS
<1>3. /\ Len(queue') = n + 1 /\ queue'[n + 1] = Event(k, d, m)
      /\ \A i \in 1..n : queue'[i] = queue[i]
  BY <1>2
<1>4. f[n] \in {"up", "down"} /\ g \in [0..(n + 1) -> {"up", "down"}]
  BY <1>2, <1>g DEF Tracks
<1>5. /\ g[n + 1] = at(f[n]) /\ \A i \in 0..n : g[i] = f[i]
  BY <1>2, <1>g
<1>6. g[n + 1] = IF Confirm \in held' THEN "down" ELSE "up"
  BY <1>5 DEF Tracks
<1>7. k = Confirm => f[n] # at(f[n])
  BY DEF Tracks
<1>8. Event(k, d, m).key = k /\ Event(k, d, m).down = d
  BY DEF Event
<1>9. /\ \A i \in 1..(n + 1) :
           g[i] = IF queue'[i].key # Confirm THEN g[i - 1]
                  ELSE IF queue'[i].down THEN "down" ELSE "up"
      /\ \A i \in 1..(n + 1) : queue'[i].key = Confirm => g[i - 1] # g[i]
  <2> SUFFICES ASSUME NEW i \in 1..(n + 1)
               PROVE  /\ g[i] = IF queue'[i].key # Confirm THEN g[i - 1]
                                ELSE IF queue'[i].down THEN "down" ELSE "up"
                      /\ queue'[i].key = Confirm => g[i - 1] # g[i]
    OBVIOUS
  <2>1. CASE i = n + 1
    <3>1. g[i - 1] = f[n] /\ g[i] = at(f[n]) /\ queue'[i] = Event(k, d, m)
      BY <1>2, <1>3, <1>5, <2>1
    <3> QED BY <1>7, <1>8, <3>1
  <2>2. CASE i \in 1..n
    <3>1. g[i - 1] = f[i - 1] /\ g[i] = f[i] /\ queue'[i] = queue[i]
      BY <1>2, <1>3, <1>5, <2>2
    <3> QED BY <2>2, <3>1 DEF Tracks
  <2> QED BY <1>2, <2>1, <2>2
<1>10. (Tracks(g, queue))'
  BY <1>3, <1>4, <1>6, <1>9 DEF Tracks
<1>11. g[0] = f[0]
  BY <1>2, <1>5
<1> QED BY <1>10, <1>11

LEMMA KeyTracked ==
  ASSUME Typed, NEW f, Tracks(f, queue), NEW k \in Keys,
         (\E m \in BOOLEAN : KeyDown(k, m)) \/ KeyUp(k)
  PROVE  \E g : (Tracks(g, queue))' /\ g[0] = f[0]
<1>1. k \in Buttons \cup {SleepKey}
  BY ButtonInputAssumption
<1>2. ASSUME NEW m \in BOOLEAN, KeyDown(k, m)
      PROVE  \E g : (Tracks(g, queue))' /\ g[0] = f[0]
  BY <1>1, <1>2, TracksAppended DEF KeyDown
<1>3. CASE KeyUp(k)
  BY <1>1, <1>3, TracksAppended DEF KeyUp
<1> QED BY <1>2, <1>3

\* and one that is taken off by one less.
Rest(f, q) == [i \in 0..(Len(q) - 1) |-> f[i + 1]]

LEMMA TracksTail ==
  ASSUME NEW q \in Seq(Events), q # <<>>, NEW f, Tracks(f, q)
  PROVE  /\ Tracks(Rest(f, q), Tail(q))
         /\ Rest(f, q)[0] = IF Head(q).key # Confirm THEN f[0]
                            ELSE IF Head(q).down THEN "down" ELSE "up"
         /\ Head(q).key = Confirm => f[0] # Rest(f, q)[0]
<1> DEFINE n == Len(q)
           g == Rest(f, q)
<1>1. n \in Nat /\ n > 0 /\ Len(Tail(q)) = n - 1
      /\ \A i \in 1..(n - 1) : Tail(q)[i] = q[i + 1]
  OBVIOUS
<1>2. g \in [0..(n - 1) -> {"up", "down"}] /\ g[n - 1] = f[n]
  BY <1>1 DEF Tracks, Rest
<1>3. \A i \in 0..(n - 1) : g[i] = f[i + 1]
  BY DEF Rest
<1> HIDE DEF g
<1>4. ASSUME NEW i \in 1..(n - 1)
      PROVE  /\ g[i] = IF Tail(q)[i].key # Confirm THEN g[i - 1]
                       ELSE IF Tail(q)[i].down THEN "down" ELSE "up"
             /\ Tail(q)[i].key = Confirm => g[i - 1] # g[i]
  <2>1. g[i] = f[i + 1] /\ g[i - 1] = f[i] /\ Tail(q)[i] = q[i + 1]
    BY <1>1, <1>3
  <2>2. i + 1 \in 1..n /\ (i + 1) - 1 = i
    BY <1>1
  <2> QED BY <2>1, <2>2 DEF Tracks
<1>5. Tracks(g, Tail(q))
  BY <1>1, <1>2, <1>4 DEF Tracks
<1>6. g[0] = f[1] /\ Head(q) = q[1] /\ 1 \in 1..n /\ 1 - 1 = 0
  BY <1>1, <1>3
<1>7. g[0] = (IF Head(q).key # Confirm THEN f[0]
              ELSE IF Head(q).down THEN "down" ELSE "up")
      /\ (Head(q).key = Confirm => f[0] # g[0])
  <2>1. /\ f[1] = IF q[1].key # Confirm THEN f[1 - 1]
                  ELSE IF q[1].down THEN "down" ELSE "up"
        /\ q[1].key = Confirm => f[1 - 1] # f[1]
    BY <1>6 DEF Tracks
  <2> QED BY <1>6, <2>1
<1> QED BY <1>5, <1>7 DEF g

\* What Return's events leave alone, and what a reboot forgets.
LEMMA ReturnLeftAlone ==
  ASSUME Typed, ReturnInv, UNCHANGED held,
         queue' = queue \/ (queue # <<>> /\ queue' = Tail(queue) /\
                            (moved' \/ Head(queue).key # Confirm \/ ~Head(queue).down)),
         moved' \/ UNCHANGED <<moved, route, textEntryActive, enterClaimedByButton>>
  PROVE  ReturnInv'
<1>1. PICK f : Tracks(f, queue) /\ RouteKnown(f)
  BY DEF ReturnInv
<1>2. CASE queue' = queue
  <2>1. (Tracks(f, queue))'
    BY <1>1, <1>2 DEF Tracks
  <2>2. (RouteKnown(f))'
    BY <1>1 DEF RouteKnown
  <2> QED BY <2>1, <2>2 DEF ReturnInv
<1>3. CASE queue' # queue
  <2>0. queue \in Seq(Events) /\ queue # <<>> /\ queue' = Tail(queue)
    BY <1>3 DEF Typed, QueueTyped
  <2>p. PICK g : g = Rest(f, queue)
    OBVIOUS
  <2>1. /\ Tracks(g, Tail(queue))
        /\ g[0] = IF Head(queue).key # Confirm THEN f[0]
                  ELSE IF Head(queue).down THEN "down" ELSE "up"
    BY <1>1, <2>0, <2>p, TracksTail
  <2>2. (Tracks(g, queue))'
    BY <1>3, <2>1 DEF Tracks
  <2>3. (RouteKnown(g))'
    BY <1>1, <1>3, <2>1 DEF RouteKnown
  <2> QED BY <2>2, <2>3 DEF ReturnInv
<1> QED BY <1>2, <1>3

LEMMA StepKeepsReturn ==
  ASSUME Typed, ReturnInv, [Next]_vars
  PROVE  ReturnInv'
<1>1. ASSUME UNCHANGED <<queue, held, fieldVars, routeVars>> PROVE ReturnInv'
  BY <1>1, ReturnLeftAlone DEF fieldVars, routeVars
<1>k. ASSUME NEW k \in Keys, (\E m \in BOOLEAN : KeyDown(k, m)) \/ KeyUp(k)
      PROVE  ReturnInv'
  <2>1. PICK f : Tracks(f, queue) /\ RouteKnown(f)
    BY DEF ReturnInv
  <2>2. PICK g : (Tracks(g, queue))' /\ g[0] = f[0]
    BY <1>k, <2>1, KeyTracked
  <2>3. (RouteKnown(g))'
    BY <1>k, <2>1, <2>2 DEF RouteKnown, KeyDown, KeyUp, fieldVars, routeVars
  <2> QED BY <2>2, <2>3 DEF ReturnInv
<1>4. CASE \/ \E b \in PadButtons : PadDown(b) \/ PadUp(b)
           \/ \E b \in TapButtons : QueueTap(b)
           \/ ResignActive \/ Foreground \/ Quit
  BY <1>1, <1>4 DEF PadDown, PadUp, QueueTap, ResignActive, Foreground, Quit, hostVars
<1>5. CASE BeginFrame \/ PollEnds \/ Check \/ Leave \/ Finish
  BY <1>1, <1>5 DEF BeginFrame, PollEnds, Check, Leave, Finish, hostVars
<1>6. ASSUME NEW due \in Dues, BeginUpdate(due) PROVE ReturnInv'
  BY <1>1, <1>6 DEF BeginUpdate, hostVars
<1>7. ASSUME NEW e \in Events, Poll(e)
      PROVE  queue # <<>> /\ e = Head(queue) /\ queue' = Tail(queue) /\ held' = held
  BY <1>7 DEF Poll
<1>8. ASSUME NEW e \in Events, PollText(e) \/ PollButton(e), e.key = Confirm
      PROVE  ReturnInv'
  <2>0. queue \in Seq(Events) /\ queue # <<>> /\ e = Head(queue)
        /\ queue' = Tail(queue) /\ held' = held
    BY <1>7, <1>8 DEF PollText, PollButton, Typed, QueueTyped
  <2>1. PICK f : Tracks(f, queue) /\ RouteKnown(f)
    BY DEF ReturnInv
  <2>2. PICK g : g = Rest(f, queue)
    OBVIOUS
  <2>3. Tracks(g, Tail(queue)) /\ g[0] = IF e.down THEN "down" ELSE "up"
    BY <1>8, <2>0, <2>1, <2>2, TracksTail
  <2>4. (Tracks(g, queue))'
    BY <2>0, <2>3 DEF Tracks
  <2>5. e.down => /\ route' # "none"
                  /\ route' = "button" <=> ~textEntryActive' \/ enterClaimedByButton'
    <3>1. CASE PollText(e)
      BY <1>8, <3>1 DEF PollText, RouteOf, Swallowed, EnterIsText
    <3>2. CASE PollButton(e)
      BY <1>8, <3>2 DEF PollButton, RouteOf
    <3> QED BY <1>8, <3>1, <3>2
  <2>6. (RouteKnown(g))'
    BY <2>3, <2>5 DEF RouteKnown
  <2> QED BY <2>4, <2>6 DEF ReturnInv
<1>9. ASSUME NEW e \in Events, PollText(e) \/ PollButton(e) \/ PollSleepKey(e),
             e.key # Confirm
      PROVE  ReturnInv'
  <2>1. UNCHANGED <<moved, route, textEntryActive, enterClaimedByButton>>
    BY <1>9 DEF PollText, PollButton, PollSleepKey, RouteOf, routeVars, fieldVars
  <2>2. Poll(e)
    BY <1>9 DEF PollText, PollButton, PollSleepKey
  <2> QED BY <1>7, <1>9, <2>1, <2>2, ReturnLeftAlone
<1>10. ASSUME NEW e \in Events, PollSleepKey(e) PROVE e.key # Confirm
  BY <1>10, ButtonInputAssumption DEF PollSleepKey
<1>11. ASSUME NEW shape \in FieldShapes, NEW on \in BOOLEAN, SetTextEntry(on, shape)
       PROVE  ReturnInv'
  <2>1. moved' \/ UNCHANGED <<moved, route, textEntryActive, enterClaimedByButton>>
    BY <1>11 DEF SetTextEntry
  <2> QED BY <1>11, <2>1, ReturnLeftAlone DEF SetTextEntry, hostVars
<1>12. CASE ConsumeTypedText \/ ConsumeSleepRequest \/ StartDeepSleep
  BY <1>1, <1>12 DEF ConsumeTypedText, ConsumeSleepRequest, StartDeepSleep, FallAsleep, hostVars
<1>13. CASE RebootAwake \/ WakeByForeground \/ WakeByEdge
  BY <1>13, ReturnLeftAlone DEF RebootAwake, WakeByForeground, WakeByEdge, Reboot, Restart
<1>14. CASE WakeByKey
  BY <1>14, ReturnLeftAlone DEF WakeByKey, Reboot, Restart
<1>15. CASE SleepReturns \/ SleepOn \/ SleepPollEnds
  BY <1>1, <1>15 DEF SleepReturns, SleepOn, SleepPollEnds, hostVars
<1>16. CASE SleepThrough
  <2>1. Head(queue).key # Confirm \/ ~Head(queue).down
    BY <1>16, ButtonInputAssumption DEF SleepThrough
  <2> QED BY <1>16, <2>1, ReturnLeftAlone DEF SleepThrough, fieldVars, routeVars
<1>17. CASE UNCHANGED vars
  BY <1>1, <1>17 DEF vars, hostVars
<1> QED BY <1>k, <1>4, <1>5, <1>6, <1>8, <1>9, <1>10, <1>11, <1>12, <1>13, <1>14,
           <1>15, <1>16, <1>17
        DEF Next, HostNext, FrameNext, FirmwareNext, SleepNext

\* Where the UP of Return is polled is decided by the route its DOWN took.
LEMMA ReturnGoesItsWay ==
  ASSUME Typed, ReturnInv, [Next]_vars, ReturnComesUp, ~moved
  PROVE  route = "button" <=> Confirm \in releasedThisFrame'
<1>1. /\ Polling /\ queue # <<>> /\ Head(queue) = Event(Confirm, FALSE, FALSE)
      /\ queue' = Tail(queue) /\ Confirm \notin releasedThisFrame
      /\ queue \in Seq(Events)
  BY DEF ReturnComesUp, Typed, QueueTyped
<1>2. Head(queue).key = Confirm /\ ~Head(queue).down
  BY <1>1 DEF Event
<1>3. route = "button" <=> ~textEntryActive \/ enterClaimedByButton
  <2>1. PICK f : Tracks(f, queue) /\ RouteKnown(f)
    BY DEF ReturnInv
  <2>2. Rest(f, queue)[0] = "up" /\ f[0] # Rest(f, queue)[0]
    BY <1>1, <1>2, <2>1, TracksTail
  <2>3. 0 \in 0..Len(queue)
    BY <1>1
  <2>4. f[0] = "down"
    BY <2>1, <2>2, <2>3 DEF Tracks
  <2> QED BY <2>1, <2>4 DEF RouteKnown
<1>4. Len(queue') = Len(queue) - 1 /\ Len(queue) \in Nat /\ queue' # queue
  BY <1>1
<1>5. ASSUME NEW e \in Events, PollText(e) \/ PollButton(e)
      PROVE  route = "button" <=> Confirm \in releasedThisFrame'
  <2>1. e.key = Confirm /\ ~e.down
    BY <1>2, <1>5 DEF PollText, PollButton, Poll
  <2>2. CASE PollText(e)
    <3>1. textEntryActive /\ ~enterClaimedByButton
      BY <2>1, <2>2 DEF PollText, Swallowed, EnterIsText, ClaimsEnter
    <3> QED BY <1>1, <1>3, <2>2, <3>1 DEF PollText, HoldEnds
  <2>3. CASE PollButton(e)
    <3>1. ~textEntryActive \/ enterClaimedByButton
      BY <2>1, <2>3 DEF PollButton, EnterIsText, ClaimsEnter
    <3> QED BY <1>3, <2>1, <2>3, <3>1 DEF PollButton, KeyEdge
  <2> QED BY <1>5, <2>2, <2>3
<1>6. ASSUME NEW e \in Events, PollSleepKey(e) PROVE FALSE
  BY <1>2, <1>6, ButtonInputAssumption DEF PollSleepKey, Poll
<1>7. ASSUME NEW e \in Events, queue' = Append(queue, e) PROVE FALSE
  <2>0. queue \in Seq(Events)
    BY <1>1
  <2>1. Len(Append(queue, e)) = Len(queue) + 1
    BY <2>0
  <2> QED BY <1>4, <1>7, <2>1
<1>8. ASSUME NEW k \in Keys, (\E m \in BOOLEAN : KeyDown(k, m)) \/ KeyUp(k) PROVE FALSE
  <2>0. k \in Buttons \cup {SleepKey}
    BY ButtonInputAssumption
  <2>1. ASSUME NEW m \in BOOLEAN, KeyDown(k, m) PROVE FALSE
    <3>1. Event(k, TRUE, m) \in Events
      BY <2>0, EventTyped
    <3> QED BY <1>7, <2>1, <3>1 DEF KeyDown
  <2>2. CASE KeyUp(k)
    <3>1. Event(k, FALSE, FALSE) \in Events
      BY <2>0, EventTyped
    <3> QED BY <1>7, <2>2, <3>1 DEF KeyUp
  <2> QED BY <1>8, <2>1, <2>2
<1>9. ~(\E b \in PadButtons : PadDown(b) \/ PadUp(b)) /\ ~ResignActive /\ ~Foreground /\ ~Quit
      /\ ~(\E b \in TapButtons : QueueTap(b))
  BY <1>4 DEF PadDown, PadUp, QueueTap, ResignActive, Foreground, Quit, hostVars
<1>10. ~BeginFrame /\ ~PollEnds /\ ~Check /\ ~Leave /\ ~Finish
       /\ ~(\E due \in Dues : BeginUpdate(due))
  BY <1>4 DEF BeginFrame, BeginUpdate, PollEnds, Check, Leave, Finish, hostVars
<1>11. ~FirmwareNext
  <2>1. ~(\E shape \in FieldShapes, on \in BOOLEAN : SetTextEntry(on, shape))
    BY <1>4 DEF SetTextEntry, hostVars
  <2>2. ~ConsumeTypedText /\ ~ConsumeSleepRequest /\ ~StartDeepSleep
    BY <1>4 DEF ConsumeTypedText, ConsumeSleepRequest, StartDeepSleep, FallAsleep, hostVars
  <2>3. ~RebootAwake
    BY <1>1 DEF RebootAwake, Polling
  <2> QED BY <2>1, <2>2, <2>3 DEF FirmwareNext
<1>12. ~SleepNext
  BY <1>1 DEF SleepNext, WakeByForeground, WakeByEdge, SleepReturns, SleepOn, WakeByKey,
     SleepThrough, SleepPollEnds, Polling
<1>13. ~(UNCHANGED vars)
  BY <1>4 DEF vars, hostVars
<1> QED BY <1>5, <1>6, <1>8, <1>9, <1>10, <1>11, <1>12, <1>13 DEF Next, HostNext, FrameNext

\* Return's UP goes where its DOWN went, whatever becomes of the modifier.
THEOREM ReturnStaysOnItsRoute == Spec => ReturnKeepsItsRoute
<1>1. Init => ReturnInv
  <2> SUFFICES ASSUME Init PROVE ReturnInv
    OBVIOUS
  <2> DEFINE f == [i \in 0..0 |-> "up"]
  <2>1. Tracks(f, queue) /\ RouteKnown(f)
    BY DEF Init, Tracks, RouteKnown
  <2> QED BY <2>1 DEF ReturnInv
<1>2. Typed /\ ReturnInv /\ [Next]_vars =>
        (ReturnComesUp /\ ~moved => (route = "button" <=> Confirm \in releasedThisFrame'))
  BY ReturnGoesItsWay
<1> QED BY <1>1, <1>2, AlwaysTyped, StepKeepsReturn, PTL DEF Spec, ReturnKeepsItsRoute
-----------------------------------------------------------------------------
(* A call to the sleeping device waits until it is answered: what CallsWake   *)
(* rests on.                                                                  *)

\* Every way someone called the sleeping device still stands before one of the
\* three things startDeepSleep's loop looks at: an edge or a key's DOWN left in
\* SDL's queue for a press, a tap in flight, the latch of a return.
CallsAreKept ==
  Asleep /\ ~quitRequested =>
    /\ "press" \in called => syntheticWakeEdge \/ PressedIn(queue) \cap Buttons # {}
    /\ "tap" \in called => TapWaits
    /\ "return" \in called => hostForegroundLatch

\* Awake, nobody has called.
KeptInv == CallsAreKept /\ (~Asleep /\ ~quitRequested => called = {})

\* The end of a queue that grew, and all but the front of one that was read,
\* are still in it.
LEMMA StillPressed ==
  ASSUME NEW q \in Seq(Events), NEW e \in Events
  PROVE  /\ PressedIn(q) \cup (IF e.down THEN {e.key} ELSE {}) \subseteq
              PressedIn(Append(q, e))
         /\ q # <<>> => PressedIn(q) \subseteq PressedIn(Tail(q)) \cup
              (IF Head(q).down THEN {Head(q).key} ELSE {})
<1>1. ASSUME NEW i \in DOMAIN q, q[i].down
      PROVE  q[i].key \in PressedIn(Append(q, e))
  <2>1. i \in DOMAIN Append(q, e) /\ Append(q, e)[i] = q[i]
    OBVIOUS
  <2> QED BY <1>1, <2>1 DEF PressedIn
<1>2. e.down => e.key \in PressedIn(Append(q, e))
  <2>1. Len(q) + 1 \in DOMAIN Append(q, e) /\ Append(q, e)[Len(q) + 1] = e
    OBVIOUS
  <2> QED BY <2>1 DEF PressedIn
<1>3. ASSUME q # <<>>, NEW i \in DOMAIN q, q[i].down
      PROVE  q[i].key \in PressedIn(Tail(q)) \cup
               (IF Head(q).down THEN {Head(q).key} ELSE {})
  <2>1. CASE i = 1
    BY <1>3, <2>1
  <2>2. CASE i # 1
    <3>1. i - 1 \in DOMAIN Tail(q) /\ Tail(q)[i - 1] = q[i]
      BY <1>3, <2>2
    <3> QED BY <1>3, <3>1 DEF PressedIn
  <2> QED BY <2>1, <2>2
<1> QED BY <1>1, <1>2, <1>3 DEF PressedIn

LEMMA StepKeepsKept ==
  ASSUME Typed, KeptInv, [Next]_vars
  PROVE  KeptInv'
<1> USE DEF KeptInv, CallsAreKept
<1>q. queue \in Seq(Events)
  BY DEF Typed, QueueTyped
<1>1. ASSUME UNCHANGED <<phase, hostForegroundLatch, quitRequested, called, tapVars>>,
             PressedIn(queue) \cap Buttons \subseteq PressedIn(queue'),
             syntheticWakeEdge => syntheticWakeEdge'
      PROVE  KeptInv'
  BY <1>1 DEF TapWaits, Asleep, tapVars
<1>2. ASSUME NEW k \in Keys, NEW m \in BOOLEAN, KeyDown(k, m) PROVE KeptInv'
  <2>1. Event(k, TRUE, m) \in Events
    BY EventTyped, ButtonInputAssumption
  <2>2. PressedIn(queue) \cup {k} \subseteq PressedIn(queue')
    BY <1>2, <1>q, <2>1, StillPressed DEF KeyDown, Event
  <2>3. CASE k \notin Buttons
    BY <1>1, <1>2, <2>2, <2>3 DEF KeyDown, lifeVars, resumeVars
  <2>4. CASE k \in Buttons
    BY <1>2, <2>2, <2>4 DEF KeyDown, lifeVars, resumeVars, Call, Asleep, TapWaits, tapVars
  <2> QED BY <2>3, <2>4
<1>3. ASSUME NEW k \in Keys, KeyUp(k) PROVE KeptInv'
  <2>1. Event(k, FALSE, FALSE) \in Events
    BY EventTyped, ButtonInputAssumption
  <2>2. PressedIn(queue) \subseteq PressedIn(queue')
    BY <1>3, <1>q, <2>1, StillPressed DEF KeyUp, Event
  <2> QED BY <1>1, <1>3, <2>2 DEF KeyUp, lifeVars, resumeVars, wakeVars
<1>4. ASSUME NEW b \in PadButtons, PadDown(b) PROVE KeptInv'
  BY <1>4 DEF PadDown, Inject, Call, Asleep, TapWaits, tapVars, lifeVars, resumeVars
<1>5. ASSUME NEW b \in PadButtons, PadUp(b) PROVE KeptInv'
  BY <1>1, <1>5 DEF PadUp, Inject, lifeVars, resumeVars
<1>6. ASSUME NEW b \in TapButtons, QueueTap(b) PROVE KeptInv'
  <2>1. b \in Buttons
    BY ButtonInputAssumption
  <2>2. TapWaits'
    <3>1. queuedTaps'[b] + firedTaps'[b] > 0
      BY <1>6, <2>1 DEF QueueTap, Typed, TapsTyped
    <3> QED BY <2>1, <3>1 DEF TapWaits
  <2> QED BY <1>6, <2>2 DEF QueueTap, Call, Asleep, hostVars, lifeVars, resumeVars
<1>7. CASE ResignActive
  BY <1>7 DEF ResignActive, Inject, Asleep, lifeVars, resumeVars
<1>8. CASE Foreground
  BY <1>8 DEF Foreground, Call, Asleep, TapWaits, tapVars, hostVars, lifeVars
<1>9. CASE Quit
  BY <1>9 DEF Quit
<1>10. CASE BeginFrame \/ PollEnds \/ Check \/ Leave \/ Finish
  BY <1>10 DEF BeginFrame, PollEnds, Polling, Check, Leave, Finish, Asleep,
     lifeVars, wakeVars
<1>11. ASSUME NEW due \in Dues, BeginUpdate(due) PROVE KeptInv'
  BY <1>11 DEF BeginUpdate, UpdateBegins, Asleep, lifeVars
<1>12. ASSUME NEW e \in Events, PollText(e) \/ PollButton(e) \/ PollSleepKey(e)
       PROVE  KeptInv'
  <2>1. Poll(e)
    BY <1>12 DEF PollText, PollButton, PollSleepKey
  <2> QED BY <2>1 DEF Poll, Polling, Asleep, lifeVars
<1>13. ASSUME NEW shape \in FieldShapes, NEW on \in BOOLEAN, SetTextEntry(on, shape)
       PROVE  KeptInv'
  BY <1>13 DEF SetTextEntry, Asleep, lifeVars, wakeVars
<1>14. CASE ConsumeTypedText \/ ConsumeSleepRequest
  BY <1>14 DEF ConsumeTypedText, ConsumeSleepRequest, Asleep, lifeVars, wakeVars
<1>15. CASE StartDeepSleep
  BY <1>15 DEF StartDeepSleep, FallAsleep, MaySleep, Asleep
<1>16. ASSUME NEW q, Reboot(q) PROVE KeptInv'
  BY <1>16 DEF Reboot, Restart, Asleep
<1>17. CASE RebootAwake \/ WakeByForeground \/ WakeByEdge \/ WakeByKey
  BY <1>16, <1>17 DEF RebootAwake, WakeByForeground, WakeByEdge, WakeByKey
<1>18. CASE SleepReturns
  BY <1>18 DEF SleepReturns, lifeVars
<1>19. CASE SleepOn \/ SleepPollEnds
  BY <1>19 DEF SleepOn, SleepPollEnds, Asleep, TapWaits, tapVars, hostVars, lifeVars,
     wakeVars, resumeVars
<1>20. CASE SleepThrough
  <2>1. Head(queue) \in Events /\ Head(queue).down \in BOOLEAN
    BY <1>20, <1>q DEF SleepThrough, Events, Event
  <2>2. PressedIn(queue) \cap Buttons \subseteq PressedIn(queue')
    BY <1>20, <1>q, <2>1, StillPressed DEF SleepThrough
  <2> QED BY <1>1, <1>20, <2>2 DEF SleepThrough, lifeVars, wakeVars, resumeVars
<1>21. CASE UNCHANGED vars
  BY <1>1, <1>21 DEF vars, hostVars, lifeVars, wakeVars, resumeVars
<1> QED BY <1>2, <1>3, <1>4, <1>5, <1>6, <1>7, <1>8, <1>9, <1>10, <1>11, <1>12, <1>13,
           <1>14, <1>15, <1>17, <1>18, <1>19, <1>20, <1>21
        DEF Next, HostNext, FrameNext, FirmwareNext, SleepNext

\* Nothing asked of a sleeping device is forgotten before it was answered,
\* however the calls, the releases and the polls of the queue interleave.
THEOREM EveryCallIsKept == Spec => []CallsAreKept
<1>1. Init => KeptInv
  BY DEF Init, KeptInv, CallsAreKept, Asleep
<1>2. KeptInv => CallsAreKept
  BY DEF KeptInv
<1> QED BY <1>1, <1>2, AlwaysTyped, StepKeepsKept, PTL DEF Spec
-----------------------------------------------------------------------------
(* How far the divergence of ReturnIsSeen goes.                               *)

\* A return the firmware does not know of is latched, or is in this frame's
\* flag on its way to the inactivity check.
SeenInv ==
  /\ phase # "repoll"
  /\ returned => hostForegroundLatch \/ (phase \in {"poll", "check"} /\ hostResumeThisFrame)

LEMMA StepKeepsSeen ==
  ASSUME ~Repolls, Typed, SeenInv, [Next]_vars
  PROVE  SeenInv'
<1> USE DEF SeenInv
<1>t. ResumeTyped
  BY DEF Typed
<1>0. ASSUME UNCHANGED resumeVars, phase' = phase PROVE SeenInv'
  BY <1>0 DEF resumeVars
<1>1. CASE HostNext
  <2>1. CASE \E k \in Keys : (\E m \in BOOLEAN : KeyDown(k, m)) \/ KeyUp(k)
    BY <1>0, <2>1 DEF KeyDown, KeyUp
  <2>2. CASE (\E b \in PadButtons : PadDown(b) \/ PadUp(b)) \/ ResignActive
    BY <1>0, <2>2 DEF PadDown, PadUp, ResignActive
  <2>3. CASE \E b \in TapButtons : QueueTap(b)
    BY <1>0, <2>3 DEF QueueTap
  <2>4. CASE Foreground
    BY <2>4 DEF Foreground
  <2>5. CASE Quit
    BY <2>5 DEF Quit, Pumping, Polling, Asleep, resumeVars
  <2> QED BY <1>1, <2>1, <2>2, <2>3, <2>4, <2>5 DEF HostNext
<1>2. CASE BeginFrame \/ Check \/ Leave \/ Finish
  <2>1. CASE BeginFrame
    BY <2>1 DEF BeginFrame
  <2>2. CASE Check
    BY <1>t, <2>2 DEF Check, ResumeTyped
  <2>3. CASE Leave \/ Finish
    BY <2>3 DEF Leave, Finish, resumeVars
  <2> QED BY <1>2, <2>1, <2>2, <2>3
<1>3. ASSUME NEW due \in Dues, BeginUpdate(due) PROVE SeenInv'
  BY <1>3, <1>t DEF BeginUpdate, UpdateBegins, ResumeTyped
<1>4. CASE PollEnds
  BY <1>4 DEF PollEnds, Polling, resumeVars
<1>5. ASSUME NEW e \in Events, PollText(e) \/ PollButton(e) \/ PollSleepKey(e)
      PROVE  SeenInv'
  <2>1. Poll(e)
    BY <1>5 DEF PollText, PollButton, PollSleepKey
  <2> QED BY <2>1 DEF Poll, resumeVars
<1>6. ASSUME NEW shape \in FieldShapes, NEW on \in BOOLEAN, SetTextEntry(on, shape)
      PROVE  SeenInv'
  BY <1>6 DEF SetTextEntry, resumeVars
<1>7. CASE ConsumeTypedText \/ ConsumeSleepRequest
  BY <1>7 DEF ConsumeTypedText, ConsumeSleepRequest, resumeVars
<1>8. CASE StartDeepSleep
  BY <1>8 DEF StartDeepSleep, FallAsleep, MaySleep
<1>9. ASSUME NEW q, Reboot(q) PROVE SeenInv'
  BY <1>9 DEF Reboot, Restart
<1>10. CASE RebootAwake \/ WakeByForeground \/ WakeByEdge \/ WakeByKey
  BY <1>9, <1>10 DEF RebootAwake, WakeByForeground, WakeByEdge, WakeByKey
<1>11. CASE SleepReturns \/ SleepOn \/ SleepPollEnds \/ SleepThrough
  BY <1>11 DEF SleepReturns, SleepOn, SleepPollEnds, SleepThrough, resumeVars
<1>12. CASE UNCHANGED vars
  BY <1>12 DEF vars, resumeVars
<1> QED BY <1>1, <1>2, <1>3, <1>4, <1>5, <1>6, <1>7, <1>8, <1>10, <1>11, <1>12
        DEF Next, FrameNext, FirmwareNext, SleepNext

\* As long as no activity calls update() itself, the loop() that would have
\* slept does see the return (HalGPIO.cpp:1102-1103): the re-polling is the
\* whole reason the comment fails.
THEOREM ReturnsAreSeen ==
  ASSUME ~Repolls
  PROVE  Spec => []ReturnIsSeen
<1>1. Init => SeenInv
  BY DEF Init, SeenInv
<1>2. SeenInv => ReturnIsSeen
  BY DEF SeenInv, ReturnIsSeen
<1>3. Typed /\ SeenInv /\ [Next]_vars => SeenInv'
  BY StepKeepsSeen
<1> QED BY <1>1, <1>2, <1>3, AlwaysTyped, PTL DEF Spec
-----------------------------------------------------------------------------
(* How far the divergence of HoldsAreCurrent goes.                            *)

\* A field opens over no button whose key is being held with its press timed:
\* what the key's UP would then be is text, and the press time stays behind.
OpensOverNoHold ==
  ~textEntryActive /\ textEntryActive' =>
    \A b \in Buttons \ Arrows : buttonPressTime[b] = "held" => b \in syntheticButtonDown

\* A press timed from a key, not from the pad or a tap.
TimedByKey(b) == buttonPressTime[b] = "held" /\ b \notin syntheticButtonDown

\* In an open field the only such press is of a Return that was taken as the
\* button and has not come up as far as it was polled; asleep there is none.
TimesKept(f) ==
  /\ \A b \in Buttons : buttonPressTime[b] # "over"
  /\ Asleep => \A b \in Buttons : ~TimedByKey(b)
  /\ textEntryActive => \A b \in Buttons \ Arrows :
       TimedByKey(b) => b = Confirm /\ enterClaimedByButton /\ f[0] = "down"

TimesInv == \E f : Tracks(f, queue) /\ TimesKept(f)

\* What is pressed by hand is timed by hand, and its release ends the time.
LEMMA InjectTimes ==
  ASSUME Typed, NEW downs \in SUBSET Buttons, NEW ups \in SUBSET Buttons,
         Inject(downs, ups), NEW b \in Buttons
  PROVE  /\ buttonPressTime'[b] = "over" => buttonPressTime[b] = "over"
         /\ (TimedByKey(b))' => TimedByKey(b)
BY DEF Typed, ButtonsTyped, Inject, PressTimes, TimedByKey

\* A step that makes no press of a key's, and leaves the queue as it was.
LEMMA TimesLeftAlone ==
  ASSUME Typed, NEW f, Tracks(f, queue), TimesKept(f),
         UNCHANGED <<queue, held, textEntryActive, enterClaimedByButton>>,
         Asleep' => Asleep,
         \A b \in Buttons : /\ buttonPressTime'[b] = "over" => buttonPressTime[b] = "over"
                            /\ (TimedByKey(b))' => TimedByKey(b)
  PROVE  TimesInv'
<1>1. (Tracks(f, queue))'
  BY DEF Tracks
<1>2. (TimesKept(f))'
  BY DEF TimesKept
<1> QED BY <1>1, <1>2 DEF TimesInv

\* A boot, and sleep entry, forget every press.
LEMMA ClearedTimes ==
  ASSUME ClearButtonState, NEW f, NEW q, (Tracks(f, q))', queue' = q
  PROVE  TimesInv'
<1>1. \A b \in Buttons : buttonPressTime'[b] = "none"
  BY DEF ClearButtonState
<1>2. (TimesKept(f))'
  BY <1>1 DEF TimesKept, TimedByKey
<1> QED BY <1>2 DEF TimesInv

\* Update()'s poll of a key: only the UP of a key that is text leaves a time
\* behind, and no such key has one.
LEMMA PollKeepsTimes ==
  ASSUME Typed, TimesInv, NEW e \in Events, PollText(e) \/ PollButton(e) \/ PollSleepKey(e)
  PROVE  TimesInv'
<1>1. PICK f : Tracks(f, queue) /\ TimesKept(f)
  BY DEF TimesInv
<1>2. /\ Polling /\ queue # <<>> /\ e = Head(queue) /\ queue' = Tail(queue)
      /\ UNCHANGED <<phase, held, textEntryActive>> /\ queue \in Seq(Events)
  BY DEF PollText, PollButton, PollSleepKey, Poll, fieldVars, Typed, QueueTyped
<1>3. PICK g : g = Rest(f, queue)
  OBVIOUS
<1>4. /\ Tracks(g, Tail(queue))
      /\ g[0] = IF e.key # Confirm THEN f[0] ELSE IF e.down THEN "down" ELSE "up"
      /\ e.key = Confirm => f[0] # g[0]
  BY <1>1, <1>2, <1>3, TracksTail
<1>5. (Tracks(g, queue))'
  BY <1>2, <1>4 DEF Tracks
<1>6. ~Asleep'
  BY <1>2 DEF Polling, Asleep
<1>b. Confirm \in Buttons \ Arrows /\ Power \in Buttons /\ e.down \in BOOLEAN
      /\ ButtonsTyped /\ FieldTyped
  BY ButtonInputAssumption DEF Events, Event, Typed
<1>7. CASE PollText(e)
  <2>1. HoldEnds(e) /\ textEntryActive /\ (Swallowed(e) \/ EnterIsText(e))
    BY <1>7 DEF PollText, Swallowed, EnterIsText
  <2>2. ASSUME NEW b \in Buttons, b = e.key, TimedByKey(b) PROVE FALSE
    <3>1. b \notin Arrows
      BY <1>b, <2>1, <2>2 DEF Swallowed, EnterIsText
    <3>2. b = Confirm /\ enterClaimedByButton /\ f[0] = "down"
      BY <1>1, <2>1, <2>2, <3>1 DEF TimesKept
    <3>3. EnterIsText(e) /\ ~e.down
      BY <1>4, <2>1, <2>2, <3>2 DEF Swallowed
    <3> QED BY <3>2, <3>3 DEF EnterIsText, ClaimsEnter
  <2>3. buttonPressTime' = buttonPressTime
    <3>1. \A b \in Buttons :
            ~(b = e.key /\ ~e.down /\ b \notin syntheticButtonDown /\ buttonPressTime[b] = "held")
      BY <2>2 DEF TimedByKey
    <3> QED BY <1>b, <2>1, <3>1 DEF HoldEnds, ButtonsTyped
  <2>4. syntheticButtonDown' = syntheticButtonDown
    BY <2>1 DEF HoldEnds
  <2>5. e.key = Confirm => \A b \in Buttons \ Arrows : ~TimedByKey(b)
    BY <1>1, <1>b, <2>1, <2>2 DEF TimesKept
  <2>6. e.key # Confirm => UNCHANGED enterClaimedByButton /\ g[0] = f[0]
    BY <1>4, <1>7 DEF PollText
  <2>7. (TimesKept(g))'
    BY <1>1, <1>2, <1>6, <2>1, <2>3, <2>4, <2>5, <2>6 DEF TimesKept, TimedByKey
  <2> QED BY <1>5, <2>7 DEF TimesInv
<1>8. CASE PollButton(e)
  <2>1. e.key \in Buttons /\ ~Swallowed(e) /\ syntheticButtonDown' = syntheticButtonDown
        /\ buttonPressTime' = [b \in Buttons |-> IF b = e.key
                                                 THEN IF e.down THEN "held" ELSE "none"
                                                 ELSE buttonPressTime[b]]
    BY <1>8, <1>b DEF PollButton, KeyEdge, PressTimes
  <2>2. enterClaimedByButton' = IF textEntryActive /\ e.key = Confirm
                                THEN e.down ELSE enterClaimedByButton
    BY <1>8 DEF PollButton
  <2>3. \A b \in Buttons : buttonPressTime'[b] # "over"
    BY <1>1, <2>1 DEF TimesKept
  <2>4. ASSUME textEntryActive, NEW b \in Buttons \ Arrows, (TimedByKey(b))'
        PROVE  b = Confirm /\ enterClaimedByButton' /\ g[0] = "down"
    <3>1. CASE b = e.key
      <4>1. b = Confirm /\ e.down
        BY <2>1, <2>4, <3>1 DEF Swallowed, TimedByKey
      <4> QED BY <1>4, <2>2, <2>4, <3>1, <4>1
    <3>2. CASE b # e.key
      <4>1. TimedByKey(b)
        BY <2>1, <2>4, <3>2 DEF TimedByKey
      <4>2. b = Confirm /\ enterClaimedByButton /\ f[0] = "down"
        BY <1>1, <2>4, <4>1 DEF TimesKept
      <4> QED BY <1>4, <2>2, <3>2, <4>2
    <3> QED BY <3>1, <3>2
  <2>5. (TimesKept(g))'
    BY <1>2, <1>6, <2>3, <2>4 DEF TimesKept
  <2> QED BY <1>5, <2>5 DEF TimesInv
<1>9. CASE PollSleepKey(e)
  <2>1. e.key # Confirm /\ UNCHANGED enterClaimedByButton
    BY <1>9, ButtonInputAssumption DEF PollSleepKey, fieldVars
  <2>2. ASSUME NEW b \in Buttons
        PROVE  /\ buttonPressTime'[b] = "over" => buttonPressTime[b] = "over"
               /\ (TimedByKey(b))' => TimedByKey(b)
    <3>1. CASE Inject({Power}, {})
      BY <1>b, <3>1, InjectTimes
    <3>2. CASE UNCHANGED buttonVars
      BY <3>2 DEF buttonVars, TimedByKey
    <3> QED BY <1>9, <3>1, <3>2 DEF PollSleepKey
  <2>3. (TimesKept(g))'
    BY <1>1, <1>2, <1>4, <1>6, <2>1, <2>2 DEF TimesKept
  <2> QED BY <1>5, <2>3 DEF TimesInv
<1> QED BY <1>7, <1>8, <1>9

LEMMA StepKeepsTimes ==
  ASSUME Typed, TimesInv, [Next]_vars, OpensOverNoHold
  PROVE  TimesInv'
<1>f. PICK f : Tracks(f, queue) /\ TimesKept(f)
  BY DEF TimesInv
<1>q. queue \in Seq(Events)
  BY DEF Typed, QueueTyped
<1>1. ASSUME UNCHANGED <<queue, held, buttonPressTime, syntheticButtonDown,
                         textEntryActive, enterClaimedByButton>>, Asleep' => Asleep
      PROVE  TimesInv'
  BY <1>f, <1>1, TimesLeftAlone DEF TimedByKey
<1>2. ASSUME NEW downs \in SUBSET Buttons, NEW ups \in SUBSET Buttons, Inject(downs, ups),
             UNCHANGED <<queue, held, fieldVars>>, Asleep' => Asleep
      PROVE  TimesInv'
  BY <1>f, <1>2, InjectTimes, TimesLeftAlone DEF fieldVars
<1>3. ASSUME NEW k \in Keys, (\E m \in BOOLEAN : KeyDown(k, m)) \/ KeyUp(k)
      PROVE  TimesInv'
  <2>1. PICK g : (Tracks(g, queue))' /\ g[0] = f[0]
    BY <1>3, <1>f, KeyTracked
  <2>2. UNCHANGED <<phase, buttonPressTime, syntheticButtonDown, fieldVars>>
    BY <1>3 DEF KeyDown, KeyUp, buttonVars
  <2>3. (TimesKept(g))'
    BY <1>f, <2>1, <2>2 DEF TimesKept, TimedByKey, Asleep, fieldVars
  <2> QED BY <2>1, <2>3 DEF TimesInv
<1>4. ASSUME NEW b \in PadButtons, PadDown(b) \/ PadUp(b) PROVE TimesInv'
  <2>1. b \in Buttons
    BY ButtonInputAssumption
  <2>2. Inject({b}, {}) \/ Inject({}, {b})
    BY <1>4 DEF PadDown, PadUp
  <2>3. UNCHANGED <<phase, queue, held, fieldVars>>
    BY <1>4 DEF PadDown, PadUp
  <2> QED BY <1>2, <2>1, <2>2, <2>3 DEF Asleep
<1>5. CASE ResignActive
  <2> DEFINE ups == {b \in Buttons : firedTaps[b] > 0} \cup pads
  <2>1. ups \in SUBSET Buttons
    BY ButtonInputAssumption DEF Typed, HandsTyped
  <2>2. Inject({}, ups) /\ UNCHANGED <<phase, queue, held, fieldVars>>
    BY <1>5 DEF ResignActive
  <2> QED BY <1>2, <2>1, <2>2 DEF Asleep
<1>6. CASE (\E b \in TapButtons : QueueTap(b)) \/ Foreground \/ Quit
  BY <1>1, <1>6 DEF QueueTap, Foreground, Quit, hostVars, buttonVars, fieldVars, Asleep
<1>7. CASE BeginFrame \/ PollEnds \/ Check \/ Leave \/ Finish
  BY <1>1, <1>7 DEF BeginFrame, PollEnds, Polling, Check, Leave, Finish, hostVars,
     buttonVars, fieldVars, Asleep
<1>8. ASSUME NEW due \in Dues, BeginUpdate(due) PROVE TimesInv'
  <2> DEFINE ups == {b \in Buttons : due[b] > 0}
             downs == {b \in Buttons : queuedTaps[b] > 0}
  <2>1. Inject(downs, ups)
    BY <1>8 DEF BeginUpdate, FireTaps
  <2>2. UNCHANGED <<queue, held, fieldVars>> /\ ~Asleep'
    BY <1>8 DEF BeginUpdate, UpdateBegins, hostVars, Asleep
  <2> HIDE DEF ups, downs
  <2>3. downs \in SUBSET Buttons /\ ups \in SUBSET Buttons
    BY DEF ups, downs
  <2> QED BY <1>2, <2>1, <2>2, <2>3
<1>9. ASSUME NEW e \in Events, PollText(e) \/ PollButton(e) \/ PollSleepKey(e)
      PROVE  TimesInv'
  BY <1>9, PollKeepsTimes
<1>10. ASSUME NEW shape \in FieldShapes, NEW on \in BOOLEAN, SetTextEntry(on, shape)
       PROVE  TimesInv'
  <2>1. UNCHANGED <<queue, held, buttonPressTime, syntheticButtonDown>> /\ ~Asleep'
        /\ textEntryActive' = on
    BY <1>10 DEF SetTextEntry, hostVars, buttonVars, Asleep
  <2>2. CASE on = textEntryActive
    BY <1>1, <1>10, <2>1, <2>2 DEF SetTextEntry
  <2>3. CASE on # textEntryActive
    <3>1. on => \A b \in Buttons \ Arrows : ~TimedByKey(b)
      BY <2>1, <2>3 DEF OpensOverNoHold, TimedByKey, Typed, FieldTyped
    <3>2. (TimesKept(f))'
      BY <1>f, <2>1, <3>1 DEF TimesKept, TimedByKey
    <3>3. (Tracks(f, queue))'
      BY <1>f, <2>1 DEF Tracks
    <3> QED BY <3>2, <3>3 DEF TimesInv
  <2> QED BY <2>2, <2>3
<1>11. CASE ConsumeTypedText \/ ConsumeSleepRequest
  BY <1>1, <1>11 DEF ConsumeTypedText, ConsumeSleepRequest, hostVars, buttonVars,
     fieldVars, Asleep
<1>12. CASE StartDeepSleep \/ RebootAwake \/ WakeByForeground \/ WakeByEdge
  <2>1. ClearButtonState /\ UNCHANGED <<queue, held>>
    BY <1>12 DEF StartDeepSleep, FallAsleep, RebootAwake, WakeByForeground, WakeByEdge,
       Reboot, Restart, hostVars
  <2>2. (Tracks(f, queue))'
    BY <1>f, <2>1 DEF Tracks
  <2> QED BY <2>1, <2>2, ClearedTimes
<1>13. CASE WakeByKey
  <2>1. ClearButtonState /\ queue # <<>> /\ queue' = Tail(queue) /\ held' = held
    BY <1>13 DEF WakeByKey, Reboot, Restart
  <2>2. PICK g : g = Rest(f, queue)
    OBVIOUS
  <2>3. Tracks(g, Tail(queue))
    BY <1>f, <1>q, <2>1, <2>2, TracksTail
  <2>4. (Tracks(g, queue))'
    BY <2>1, <2>3 DEF Tracks
  <2> QED BY <2>1, <2>4, ClearedTimes
<1>14. CASE SleepReturns \/ SleepOn \/ SleepPollEnds
  BY <1>1, <1>14 DEF SleepReturns, SleepOn, SleepPollEnds, hostVars, buttonVars,
     fieldVars, Asleep
<1>15. CASE SleepThrough
  <2>1. Asleep /\ queue # <<>> /\ queue' = Tail(queue)
        /\ UNCHANGED <<phase, held, buttonPressTime, syntheticButtonDown, textEntryActive>>
    BY <1>15 DEF SleepThrough, buttonVars, fieldVars, Asleep
  <2>2. PICK g : g = Rest(f, queue)
    OBVIOUS
  <2>3. Tracks(g, Tail(queue))
    BY <1>f, <1>q, <2>1, <2>2, TracksTail
  <2>4. (Tracks(g, queue))'
    BY <2>1, <2>3 DEF Tracks
  <2>5. (TimesKept(g))'
    BY <1>f, <2>1 DEF TimesKept, TimedByKey, Asleep
  <2> QED BY <2>4, <2>5 DEF TimesInv
<1>16. CASE UNCHANGED vars
  BY <1>1, <1>16 DEF vars, hostVars, buttonVars, fieldVars, Asleep
<1> QED BY <1>3, <1>4, <1>5, <1>6, <1>7, <1>8, <1>9, <1>10, <1>11, <1>12, <1>13, <1>14,
           <1>15, <1>16
        DEF Next, HostNext, FrameNext, FirmwareNext, SleepNext

\* As long as no field opens while the key of a button that it will take for
\* text is held, no level read reports a hold of a press already over
\* (HalGPIO.cpp:1220-1223): a DOWN taken as the button and its UP taken as text
\* is the whole reason the comment fails.
THEOREM HoldsNeedAField == Spec /\ [][OpensOverNoHold]_vars => []HoldsAreCurrent
<1>1. Init => TimesInv
  <2> SUFFICES ASSUME Init PROVE TimesInv
    OBVIOUS
  <2> DEFINE f == [i \in 0..0 |-> "up"]
  <2>1. Tracks(f, queue) /\ TimesKept(f)
    BY DEF Init, Tracks, TimesKept, TimedByKey, Asleep
  <2> QED BY <2>1 DEF TimesInv
<1>2. TimesInv => HoldsAreCurrent
  BY DEF TimesInv, TimesKept, HoldsAreCurrent
<1>3. Typed /\ TimesInv /\ [Next]_vars /\ [OpensOverNoHold]_vars => TimesInv'
  <2> SUFFICES ASSUME Typed, TimesInv, [Next]_vars, [OpensOverNoHold]_vars PROVE TimesInv'
    OBVIOUS
  <2>1. CASE UNCHANGED vars
    <3>1. OpensOverNoHold
      BY <2>1 DEF OpensOverNoHold, vars, fieldVars
    <3> QED BY <3>1, StepKeepsTimes
  <2> QED BY <2>1, StepKeepsTimes
<1> QED BY <1>1, <1>2, <1>3, AlwaysTyped, PTL DEF Spec
===============================================================================
