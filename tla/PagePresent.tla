---------------------------- MODULE PagePresent ----------------------------
(***************************************************************************)
(* How a picture travels from the firmware's render task to the glass:     *)
(* src/HalDisplay.cpp (the two pixel writers, the coalescing hold, the     *)
(* reconvert of a polarity flip, presentIfNeeded), the staged insets of    *)
(* src/ReaderInsetsChannel.h and the placement poll of the iOS harness.    *)
(*                                                                         *)
(* Three threads: the render task draws, the main thread presents, and a   *)
(* flip or a request for a present may come from anywhere.  pixelBufMutex  *)
(* is the only lock; the hold, the flags and the insets are atomics that   *)
(* are also read outside it, so a writer's critical section is two steps.  *)
(*                                                                         *)
(* A picture is the number of the drawing it belongs to and what it shows; *)
(* insets are the number of the page that published them.  Time is only    *)
(* whether a hold's deadline has passed.  Left out: the deliberate flash   *)
(* (presentFlashWanted, off by default), the e-ink waveform, the lent      *)
(* frame buffer, a due screenshot, and the sleep veto.                     *)
(***************************************************************************)
EXTENDS Integers, FiniteSets

CONSTANTS MaxDraws,  \* bound: pictures the firmware draws
          MaxFlips,  \* bound: polarity flips
          MaxAsks,   \* bound: presents asked for by something else
          MaxAway    \* bound: times the app is put away

ASSUME BoundsAssumption ==
  /\ MaxDraws \in Nat
  /\ MaxFlips \in Nat
  /\ MaxAsks \in Nat
  /\ MaxAway \in Nat

VARIABLES
  rpc,       \* where the render task is in its drawing
  draw,      \* the number of the drawing it is making
  what,      \* what it is putting in the frame buffer
  staged,    \* StagedReaderInsets: staged_ (0: never published)
  waiting,   \*   pending_
  armed,     \*   armed_
  live,      \*   live_
  kind,      \* sheetIsReaderPageValue: the last announced screen is a book page
  base,      \* grayscalePreviewState.bwBase, when bwBaseValid
  planes,    \*   the grayscale planes that are valid
  lock,      \* pixelBufMutex
  writing,   \* the picture the holder of the lock is writing
  pixels,    \* pixelBuf
  stamp,     \* pixelBufIsBookPage
  seq,       \* pixelBufSeq
  hold,      \* presentHoldUntil: none, ahead or due
  ran,       \* the hold the last pixel write armed has had its time
  pending,   \* pendingPresent
  flipped,   \* pendingReconvert
  inv,       \* HalDisplay::inverted
  fpc,       \* a setInverted between its two stores
  mpc,       \* where the main thread is
  recomposes,\* the reconvert chose composeGrayscalePreview
  counted,   \* the reading goal's tick saw a book page
  reseq,     \* reconvertSeq
  shown,     \* presentedSeq
  placed,    \* the insets the panel is laid out for
  frame,     \* the frame this present has uploaded
  glass,     \* the last frame presented
  bg,        \* g_backgrounded
  asks, flips, aways

renderVars == <<rpc, draw, what, staged, waiting, armed, live, kind, base, planes>>
pixelVars == <<lock, writing, pixels, stamp, seq>>
mainVars == <<mpc, recomposes, counted, reseq, shown, placed, frame, glass>>
countVars == <<asks, flips, aways>>
vars == <<renderVars, pixelVars, hold, ran, pending, flipped, inv, fpc,
          mainVars, bg, countVars>>

Kinds == {"page", "screen", "popup"}
Passes == {"bits", "part", "gray"}
Draws == 0 .. MaxDraws

NoPicture == [draw |-> 0, what |-> "screen"]
Blank == [draw |-> 0, what |-> "screen", pass |-> "bits", inv |-> FALSE]
NoFrame == [pic |-> Blank, seq |-> 0, place |-> 0, sweeps |-> FALSE, decay |-> FALSE]

Init ==
  /\ rpc = "idle" /\ draw = 0 /\ what = "screen"
  /\ staged = 0 /\ waiting = FALSE /\ armed = FALSE /\ live = 0
  /\ kind = FALSE
  /\ base = NoPicture /\ planes = {}
  /\ lock = "free" /\ writing = Blank /\ pixels = Blank /\ stamp = FALSE /\ seq = 0
  /\ hold = "none" /\ ran = TRUE
  /\ pending = FALSE /\ flipped = FALSE
  /\ inv \in BOOLEAN
  /\ fpc = "idle"
  /\ mpc = "loop" /\ recomposes = FALSE /\ counted = FALSE /\ reseq = 0 /\ shown = 0
  /\ placed = 0 /\ frame = NoFrame /\ glass = NoFrame
  /\ bg = FALSE
  /\ asks = 0 /\ flips = 0 /\ aways = 0

-----------------------------------------------------------------------------
(* THE RENDER TASK.  The firmware draws a page as its insets, perhaps a    *)
(* popup over the page before it, its identity, the 1-bit pass, perhaps    *)
(* the two gray planes and the compose; a screen as its identity and its   *)
(* 1-bit pass, perhaps with planes as well.                                *)

\* HalGPIO::publishReaderTextInsets, at the top of a reader's render
PublishInsets ==
  /\ rpc = "idle" /\ draw < MaxDraws
  /\ draw' = draw + 1
  /\ staged' = draw + 1 /\ waiting' = TRUE /\ armed' = FALSE
  /\ rpc' = "built"
  /\ UNCHANGED <<what, live, kind, base, planes, pixelVars, hold, ran, pending,
                 flipped, inv, fpc, mainVars, bg, countVars>>

\* HalGPIO::publishReaderPageIdentity, once the page is the one being drawn
PublishPage ==
  /\ rpc \in {"built", "announce"}
  /\ armed' = TRUE /\ kind' = TRUE /\ what' = "page"
  /\ rpc' = "snapshot"
  /\ UNCHANGED <<draw, staged, waiting, live, base, planes, pixelVars, hold, ran,
                 pending, flipped, inv, fpc, mainVars, bg, countVars>>

\* a popup over the page on the glass, while the new page is built
DrawPopup ==
  /\ rpc = "built"
  /\ what' = "popup"
  /\ rpc' = "snapshot"
  /\ UNCHANGED <<draw, staged, waiting, armed, live, kind, base, planes, pixelVars,
                 hold, ran, pending, flipped, inv, fpc, mainVars, bg, countVars>>

\* HalGPIO::publishScreenIdentity, on entry to a screen that is not a reader
PublishScreen ==
  /\ rpc = "idle" /\ draw < MaxDraws
  /\ draw' = draw + 1
  /\ kind' = FALSE /\ what' = "screen"
  /\ rpc' = "snapshot"
  /\ UNCHANGED <<staged, waiting, armed, live, base, planes, pixelVars, hold, ran,
                 pending, flipped, inv, fpc, mainVars, bg, countVars>>

\* snapshotBwBase: the cached base becomes this picture, outside the lock
SnapshotBase == base' = [draw |-> draw, what |-> what] /\ planes' = {}

\* Mutant: the base snapshotted by the clean-up only, after the picture was written
SnapshotLater ==
  /\ rpc = "snapshot"
  /\ base' = IF base = NoPicture THEN [draw |-> draw, what |-> what] ELSE base
  /\ planes' = {}
  /\ rpc' = "base"
  /\ UNCHANGED <<draw, what, staged, waiting, armed, live, kind, pixelVars, hold, ran,
                 pending, flipped, inv, fpc, mainVars, bg, countVars>>

\* refreshDisplay, up to its call of renderBwPixels
Snapshot ==
  /\ rpc = "snapshot"
  /\ SnapshotBase
  /\ rpc' = "base"
  /\ UNCHANGED <<draw, what, staged, waiting, armed, live, kind, pixelVars, hold, ran,
                 pending, flipped, inv, fpc, mainVars, bg, countVars>>

\* Mutant: the head of the writers without the arm of the page's identity
CommitUnarmed ==
  IF waiting
  THEN waiting' = FALSE /\ live' = staged
  ELSE UNCHANGED <<waiting, live>>

\* StagedReaderInsets::commit, by a writer of a new picture
Commit ==
  IF armed /\ waiting
  THEN waiting' = FALSE /\ live' = staged
  ELSE UNCHANGED <<waiting, live>>

\* the head of either writer: number, stamp, insets, palette, under the lock
WriteNew(pic, pass) ==
  /\ lock = "free" /\ lock' = "render"
  /\ seq' = seq + 1
  /\ stamp' = kind
  /\ Commit
  /\ writing' = [draw |-> pic.draw, what |-> pic.what, pass |-> pass, inv |-> inv]

\* the tail: the pixels are written, the present is asked for, the lock goes
Written ==
  /\ pixels' = writing
  /\ pending' = TRUE
  /\ lock' = "free"

ArmHold == hold' = "ahead" /\ ran' = FALSE
ReleaseHold == hold' = "none" /\ UNCHANGED ran

\* renderBwPixels, from the render task
WriteBase ==
  /\ rpc = "base"
  /\ WriteNew([draw |-> draw, what |-> what], "bits")
  /\ rpc' = "baseWrite"
  /\ UNCHANGED <<draw, what, staged, armed, kind, base, planes, pixels, hold, ran,
                 pending, flipped, inv, fpc, mainVars, bg, countVars>>

BaseWritten ==
  /\ rpc = "baseWrite"
  /\ Written
  /\ ArmHold
  /\ IF what = "popup" THEN rpc' = "announce" ELSE rpc' \in {"planes", "idle"}
  /\ UNCHANGED <<draw, what, staged, waiting, armed, live, kind, base, planes,
                 writing, stamp, seq, flipped, inv, fpc, mainVars, bg, countVars>>

\* writeGrayscalePlaneStrip: only a hold that is set is extended ...
SeesHold ==
  /\ rpc = "planes"
  /\ rpc' = IF hold # "none" THEN "extend" ELSE "strip"
  /\ UNCHANGED <<draw, what, staged, waiting, armed, live, kind, base, planes, pixelVars,
                 hold, ran, pending, flipped, inv, fpc, mainVars, bg, countVars>>

\* ... by a store of its own.  A hold that came due in between has had its time.
ExtendHold ==
  /\ rpc = "extend"
  /\ hold' = "ahead"
  /\ rpc' = "strip"
  /\ UNCHANGED <<draw, what, staged, waiting, armed, live, kind, base, planes, pixelVars,
                 ran, pending, flipped, inv, fpc, mainVars, bg, countVars>>

\* ... and then the rows: the low plane of the page, then the high one
WritePlane ==
  /\ rpc = "strip"
  /\ IF "lsb" \in planes
     THEN planes' = planes \union {"msb"} /\ rpc' = "compose"
     ELSE planes' = planes \union {"lsb"} /\ rpc' = "planes"
  /\ UNCHANGED <<draw, what, staged, waiting, armed, live, kind, base, pixelVars,
                 hold, ran, pending, flipped, inv, fpc, mainVars, bg, countVars>>

\* what the compose makes of the planes it finds
Composed == IF planes = {} THEN "bits" ELSE IF Cardinality(planes) = 2 THEN "gray" ELSE "part"

\* composeGrayscalePreview, from the render task (its base is valid by then)
WriteCompose ==
  /\ rpc = "compose"
  /\ WriteNew(base, Composed)
  /\ rpc' = "composeWrite"
  /\ UNCHANGED <<draw, what, staged, armed, kind, base, planes, pixels, hold, ran,
                 pending, flipped, inv, fpc, mainVars, bg, countVars>>

ComposeWritten ==
  /\ rpc = "composeWrite"
  /\ Written
  /\ ReleaseHold
  /\ rpc' = "cleanup"
  /\ UNCHANGED <<draw, what, staged, waiting, armed, live, kind, base, planes,
                 writing, stamp, seq, flipped, inv, fpc, mainVars, bg, countVars>>

\* cleanupGrayscaleBuffers, with the frame buffer's 1-bit picture
Cleanup ==
  /\ rpc = "cleanup"
  /\ SnapshotBase
  /\ rpc' = "idle"
  /\ UNCHANGED <<draw, what, staged, waiting, armed, live, kind, pixelVars, hold, ran,
                 pending, flipped, inv, fpc, mainVars, bg, countVars>>

Render == \/ PublishInsets \/ PublishPage \/ DrawPopup \/ PublishScreen \/ Snapshot
          \/ WriteBase \/ BaseWritten \/ SeesHold \/ ExtendHold \/ WritePlane
          \/ WriteCompose \/ ComposeWritten \/ Cleanup

-----------------------------------------------------------------------------
(* FLIPS, REQUESTS, TIME AND THE APP'S STATE                               *)

\* HalDisplay::setInverted stores the polarity, then raises the reconvert
SetInverted ==
  /\ fpc = "idle" /\ flips < MaxFlips
  /\ inv' = ~inv
  /\ fpc' = "raise"
  /\ flips' = flips + 1
  /\ UNCHANGED <<renderVars, pixelVars, hold, ran, pending, flipped, mainVars, bg,
                 asks, aways>>

RaiseReconvert ==
  /\ fpc = "raise"
  /\ flipped' = TRUE
  /\ fpc' = "idle"
  /\ UNCHANGED <<renderVars, pixelVars, hold, ran, pending, inv, mainVars, bg, countVars>>

\* SimulatorOverlay::requestPresent: the pad, a dial, a turned page, a sweep
RequestPresent ==
  /\ asks < MaxAsks
  /\ asks' = asks + 1
  /\ pending' = TRUE
  /\ UNCHANGED <<renderVars, pixelVars, hold, ran, flipped, inv, fpc, mainVars, bg,
                 flips, aways>>

\* the clock reaches presentHoldUntil
HoldComesDue ==
  /\ hold = "ahead"
  /\ hold' = "due" /\ ran' = TRUE
  /\ UNCHANGED <<renderVars, pixelVars, pending, flipped, inv, fpc, mainVars, bg, countVars>>

\* HalDisplay::setBackgrounded, both edges
PutAway ==
  /\ mpc = "loop" /\ ~bg /\ aways < MaxAway
  /\ bg' = TRUE
  /\ aways' = aways + 1
  /\ UNCHANGED <<renderVars, pixelVars, hold, ran, pending, flipped, inv, fpc, mainVars,
                 asks, flips>>

ComeBack ==
  /\ mpc = "loop" /\ bg
  /\ bg' = FALSE
  /\ pending' = TRUE
  /\ UNCHANGED <<renderVars, pixelVars, hold, ran, flipped, inv, fpc, mainVars, countVars>>

-----------------------------------------------------------------------------
(* THE MAIN THREAD                                                         *)

\* Mutant: the harness re-places the panel and asks for no present
PollInsetsSilently ==
  /\ mpc = "loop"
  /\ live # 0 /\ live # placed
  /\ placed' = live
  /\ UNCHANGED <<renderVars, pixelVars, hold, ran, pending, flipped, inv, fpc, mpc,
                 recomposes, counted, reseq, shown, frame, glass, bg, countVars>>

\* pollReaderInsets: the harness re-places the panel for insets that moved
PollInsets ==
  /\ mpc = "loop"
  /\ live # 0 /\ live # placed
  /\ placed' = live
  /\ pending' = TRUE
  /\ UNCHANGED <<renderVars, pixelVars, hold, ran, flipped, inv, fpc, mpc, recomposes,
                 counted, reseq, shown, frame, glass, bg, countVars>>

\* Mutant: the reconvert left to a present the hold lets through, the flag taken
\* down all the same
TakeFlipUnheld ==
  /\ flipped' = FALSE
  /\ IF flipped /\ base # NoPicture /\ hold # "ahead"
     THEN mpc' = "reconvert" /\ recomposes' = (planes # {})
     ELSE mpc' = "gate" /\ UNCHANGED recomposes

\* presentIfNeeded: the flag of a flip is taken down before its work is done
TakeFlip ==
  /\ flipped' = FALSE
  /\ IF flipped /\ base # NoPicture
     THEN mpc' = "reconvert" /\ recomposes' = (planes # {})
     ELSE mpc' = "gate" /\ UNCHANGED recomposes

BeginPresent ==
  /\ mpc = "loop" /\ ~bg
  /\ TakeFlip
  /\ UNCHANGED <<renderVars, pixelVars, hold, ran, pending, inv, fpc, counted, reseq,
                 shown, placed, frame, glass, bg, countVars>>

\* reconvertLastFrame: either writer from the main thread, neither stamping
\* nor committing
Reconvert ==
  /\ mpc = "reconvert"
  /\ lock = "free" /\ lock' = "main"
  /\ seq' = seq + 1
  /\ writing' = [draw |-> base.draw, what |-> base.what,
                 pass |-> IF recomposes THEN Composed ELSE "bits", inv |-> inv]
  /\ mpc' = "rewrite"
  /\ UNCHANGED <<renderVars, pixels, stamp, hold, ran, pending, flipped, inv, fpc,
                 recomposes, counted, reseq, shown, placed, frame, glass, bg, countVars>>

\* Mutant: the reconvert asks for no present of its own
ReconvertedSilently ==
  /\ mpc = "rewrite"
  /\ pixels' = writing /\ lock' = "free"
  /\ IF recomposes THEN ReleaseHold ELSE ArmHold
  /\ reseq' = seq /\ recomposes' = FALSE
  /\ mpc' = "gate"
  /\ UNCHANGED <<renderVars, writing, stamp, seq, pending, flipped, inv, fpc, counted,
                 shown, placed, frame, glass, bg, countVars>>

Reconverted ==
  /\ mpc = "rewrite"
  /\ Written
  /\ IF recomposes THEN ReleaseHold ELSE ArmHold
  /\ reseq' = seq /\ recomposes' = FALSE
  /\ mpc' = "gate"
  /\ UNCHANGED <<renderVars, writing, stamp, seq, flipped, inv, fpc, counted, shown,
                 placed, frame, glass, bg, countVars>>

\* the coalescing hold, asked without the lock; a frame it holds stays owed
AskHold ==
  /\ mpc = "gate"
  /\ \/ hold = "ahead" /\ mpc' = "loop"
     \/ hold = "due" /\ mpc' = "clear"
     \/ hold = "none" /\ mpc' = "take"
  /\ UNCHANGED <<renderVars, pixelVars, hold, ran, pending, flipped, inv, fpc, recomposes,
                 counted, reseq, shown, placed, frame, glass, bg, countVars>>

\* a deadline that had passed is taken off by a store of its own
ClearHold ==
  /\ mpc = "clear"
  /\ ReleaseHold
  /\ mpc' = "take"
  /\ UNCHANGED <<renderVars, pixelVars, pending, flipped, inv, fpc, recomposes, counted,
                 reseq, shown, placed, frame, glass, bg, countVars>>

\* the reading goal's tick answers for the announced screen, then a frame that
\* is owed is taken on
TakePending ==
  /\ mpc = "take"
  /\ pending' = FALSE
  /\ mpc' = IF pending THEN "upload" ELSE "loop"
  /\ counted' = (pending /\ kind)
  /\ UNCHANGED <<renderVars, pixelVars, hold, ran, flipped, inv, fpc, recomposes, reseq,
                 shown, placed, frame, glass, bg, countVars>>

\* Mutant: a declined present forgets that its frame is still owed
DeclineForgetting ==
  /\ mpc = "upload" /\ lock = "free" /\ hold = "ahead"
  /\ counted' = FALSE
  /\ mpc' = "loop"
  /\ UNCHANGED <<renderVars, pixelVars, hold, ran, pending, flipped, inv, fpc, recomposes,
                 reseq, shown, placed, frame, glass, bg, countVars>>

\* ... the hold asked again now that the picture is ours
Decline ==
  /\ mpc = "upload" /\ lock = "free" /\ hold = "ahead"
  /\ pending' = TRUE /\ counted' = FALSE
  /\ mpc' = "loop"
  /\ UNCHANGED <<renderVars, pixelVars, hold, ran, flipped, inv, fpc, recomposes,
                 reseq, shown, placed, frame, glass, bg, countVars>>

\* whether the beam sweeps the picture in: new content that is no reconvert
ArmsBeam == shown # 0 /\ seq # shown /\ seq # reseq

Uploads == mpc = "upload" /\ lock = "free" /\ hold # "ahead"

Upload ==
  /\ Uploads
  /\ frame' = [pic |-> pixels, seq |-> seq, place |-> placed, sweeps |-> ArmsBeam,
               decay |-> FALSE]
  /\ shown' = seq
  /\ mpc' = "draw"
  /\ UNCHANGED <<renderVars, pixelVars, hold, ran, pending, flipped, inv, fpc, recomposes,
                 counted, reseq, placed, glass, bg, countVars>>

\* the rest of the present: the decay asks the stamp under a lock of its own
Draw ==
  /\ mpc = "draw" /\ lock = "free"
  /\ glass' = [frame EXCEPT !.decay = counted /\ stamp]
  /\ frame' = NoFrame /\ counted' = FALSE
  /\ mpc' = "loop"
  /\ UNCHANGED <<renderVars, pixelVars, hold, ran, pending, flipped, inv, fpc, recomposes,
                 reseq, shown, placed, bg, countVars>>

PresentIfNeeded == \/ BeginPresent \/ Reconvert \/ Reconverted \/ AskHold \/ ClearHold
                   \/ TakePending \/ Decline \/ Upload \/ Draw

Next == \/ Render \/ SetInverted \/ RaiseReconvert \/ RequestPresent \/ HoldComesDue
        \/ PutAway \/ ComeBack \/ PollInsets \/ PresentIfNeeded

Spec == Init /\ [][Next]_vars

\* The main loop keeps running, a thread inside pixelBufMutex leaves it, the
\* clock runs, the app comes back, and every pass of the loop polls the insets
\* once (a poll and a present alternate, so the poll is never put off for ever).
Fairness ==
  /\ WF_vars(PresentIfNeeded)
  /\ WF_vars(BaseWritten)
  /\ WF_vars(ComposeWritten)
  /\ WF_vars(HoldComesDue)
  /\ WF_vars(RaiseReconvert)
  /\ WF_vars(ComeBack)
  /\ SF_vars(PollInsets)

FairSpec == Spec /\ Fairness

-----------------------------------------------------------------------------
(* PROPERTIES                                                              *)

Pictures == [draw : Draws, what : Kinds]
Written_ == [draw : Draws, what : Kinds, pass : Passes, inv : BOOLEAN]
Frames == [pic : Written_, seq : Nat, place : Draws, sweeps : BOOLEAN, decay : BOOLEAN]

\* Every variable has its type, and the lock is held exactly by the thread
\* that is between the two halves of a writer.
TypeOK ==
  /\ rpc \in {"idle", "built", "announce", "snapshot", "base", "baseWrite", "planes",
              "extend", "strip", "compose", "composeWrite", "cleanup"}
  /\ draw \in Draws /\ what \in Kinds
  /\ staged \in Draws /\ waiting \in BOOLEAN /\ armed \in BOOLEAN /\ live \in Draws
  /\ kind \in BOOLEAN
  /\ base \in Pictures /\ planes \subseteq {"lsb", "msb"}
  /\ lock \in {"free", "render", "main"}
  /\ writing \in Written_ /\ pixels \in Written_ /\ stamp \in BOOLEAN /\ seq \in Nat
  /\ hold \in {"none", "ahead", "due"} /\ ran \in BOOLEAN
  /\ pending \in BOOLEAN /\ flipped \in BOOLEAN /\ inv \in BOOLEAN
  /\ fpc \in {"idle", "raise"}
  /\ mpc \in {"loop", "reconvert", "rewrite", "gate", "clear", "take", "upload",
              "draw"}
  /\ recomposes \in BOOLEAN /\ counted \in BOOLEAN /\ reseq \in Nat /\ shown \in Nat
  /\ placed \in Draws /\ frame \in Frames /\ glass \in Frames
  /\ bg \in BOOLEAN
  /\ asks \in 0 .. MaxAsks /\ flips \in 0 .. MaxFlips /\ aways \in 0 .. MaxAway
  /\ (lock = "render") <=> (rpc \in {"baseWrite", "composeWrite"})
  /\ (lock = "main") <=> (mpc = "rewrite")

\* The page on the glass is never laid out by the insets of a page that is not
\* on it yet: not while the new page is being built, not under a popup drawn
\* meanwhile, and not by a reconvert (ReaderInsetsChannel.h:100-132).
PlacedBehind(f) ==
  /\ f.place <= f.pic.draw
  /\ f.pic.what = "popup" => f.place < f.pic.draw
PlacementFollowsPage == PlacedBehind(glass)

\* A flip is never lost between its threads: pixels in the old polarity have a
\* reconvert on its way, or a writer that already took the new polarity
\* (HalDisplay.cpp:2451-2458, 3370-3374).
FlipIsQueued ==
  pixels.draw # 0 /\ pixels.inv # inv =>
    \/ fpc = "raise" \/ flipped \/ mpc = "reconvert"
    \/ lock # "free" /\ writing.inv = inv

\* The order of pictures: a popup belongs to the page that follows it.
Age(pic) == 2 * pic.draw + (IF pic.what = "popup" THEN 0 ELSE 1)

\* No present, and no reconvert racing the render task, brings an older picture
\* back over a newer one (reconvertLastFrame reads the cached base unlocked).
NoOldPictureComesBack == [][Age(glass'.pic) >= Age(glass.pic)]_vars

\* A written frame is never lost: held, declined under the lock, or owed across
\* the background, the last one written is the one the glass ends up with
\* (HalDisplay.cpp:871-876).  Draws are bounded and no draw is fair, so every
\* point where the render task may stop is such an end.
FramesLand == <>[](glass.seq = seq)

\* A polarity that is set and stays reaches the glass without a new page.
FlipsLand == <>[](pixels.draw = 0 \/ glass.pic.inv = inv)

\* Committed insets end up on the glass even when the firmware draws no more.
PlacementLands == <>[](glass.place = live)

\* HalDisplay.cpp:871-873 and 3586-3595 say the 1-bit pass of a page is never
\* presented inside the hold that its own write armed: one that is taken to the
\* glass has had that hold's time (874-876), extended or not.  But clearing a
\* deadline that had passed is a load and a store, and a hold armed between the
\* two by the next 1-bit pass is wiped.
FlashOnlyAfterDeadline ==
  Uploads /\ pixels.pass = "bits" /\ pixels.what = "page" => ran
=============================================================================
