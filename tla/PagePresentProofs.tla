------------------------- MODULE PagePresentProofs -------------------------
(***************************************************************************)
(* PagePresent for any number of drawings, flips, requests and trips to    *)
(* the background.  The inductive invariant orders everything by drawing:  *)
(* the insets, the cached base, the pixels and the glass trail the render  *)
(* task in that order, and a popup counts as older than the page it is     *)
(* drawn before.  The proofs are one lemma per part of it.                 *)
(***************************************************************************)
EXTENDS PagePresent, TLAPS

\* The insets in force are committed, then placed, in the order published.
InsetsOrder == live <= staged /\ staged <= draw /\ placed <= live

\* From the publish of a page's insets to its identity nothing may commit them.
Building == rpc = "built" \/ (what = "popup" /\ rpc \in {"snapshot", "base", "baseWrite", "announce"})
PopupFree ==
  /\ rpc # "idle" => draw >= 1
  /\ Building => ~armed /\ live < draw
  /\ rpc \in {"planes", "extend", "strip", "compose", "composeWrite", "cleanup"} => what # "popup"
  /\ rpc = "announce" => what = "popup"

\* The cached base against the drawing in hand and the insets in force.
BaseIsDrawn ==
  /\ live <= base.draw /\ base.draw <= draw
  /\ base.what = "popup" => live < base.draw
  /\ rpc \in {"base", "baseWrite", "planes", "extend", "strip", "compose", "composeWrite",
              "cleanup", "announce"} => base.draw = draw /\ base.what = what
  /\ rpc = "built" => base.draw < draw
  /\ rpc = "snapshot" => \/ base.draw < draw
                         \/ base.draw = draw /\ base.what = "popup" /\ what = "page"

\* Insets n may be in force over this picture.
Behind(n, pic) == n <= pic.draw /\ (pic.what = "popup" => n < pic.draw)
GlassBehind ==
  /\ lock = "free" => Behind(live, pixels)
  /\ lock # "free" => Behind(live, writing)
  /\ PlacedBehind(frame)
  /\ PlacementFollowsPage

\* The base is the newest picture, then the one being written, the pixels, the
\* uploaded frame and the glass.
Ages ==
  /\ Age(pixels) <= Age(base)
  /\ lock # "free" => Age(pixels) <= Age(writing) /\ Age(writing) <= Age(base)
  /\ Age(glass.pic) <= Age(pixels)
  /\ mpc = "draw" => Age(glass.pic) <= Age(frame.pic) /\ Age(frame.pic) <= Age(pixels)

\* A writer that took the old polarity has a reconvert coming after it.
FlipOnItsWay ==
  /\ FlipIsQueued
  /\ lock = "render" /\ writing.inv # inv => fpc = "raise" \/ flipped \/ mpc = "reconvert"
  /\ lock = "main" /\ writing.inv # inv => fpc = "raise" \/ flipped
BaseIsThere ==
  /\ base.draw = 0 => base = NoPicture
  /\ pixels.draw # 0 \/ lock # "free" \/ mpc = "reconvert" => base.draw >= 1

IInv == /\ TypeOK /\ InsetsOrder /\ PopupFree /\ BaseIsDrawn /\ GlassBehind
        /\ Ages /\ FlipOnItsWay /\ BaseIsThere
-----------------------------------------------------------------------------
\* The type invariant in four parts, so that a step is looked at one at a time.
RenderTypes ==
  /\ rpc \in {"idle", "built", "announce", "snapshot", "base", "baseWrite", "planes",
              "extend", "strip", "compose", "composeWrite", "cleanup"}
  /\ draw \in Draws /\ what \in Kinds
  /\ staged \in Draws /\ waiting \in BOOLEAN /\ armed \in BOOLEAN /\ live \in Draws
  /\ kind \in BOOLEAN
  /\ base \in Pictures /\ planes \subseteq {"lsb", "msb"}
PixelTypes ==
  /\ writing \in Written_ /\ pixels \in Written_ /\ stamp \in BOOLEAN /\ seq \in Nat
  /\ hold \in {"none", "ahead", "due"} /\ ran \in BOOLEAN
  /\ pending \in BOOLEAN /\ flipped \in BOOLEAN /\ inv \in BOOLEAN
  /\ fpc \in {"idle", "raise"} /\ bg \in BOOLEAN
  /\ asks \in 0 .. MaxAsks /\ flips \in 0 .. MaxFlips /\ aways \in 0 .. MaxAway
MainTypes ==
  /\ mpc \in {"loop", "reconvert", "rewrite", "gate", "clear", "take", "upload",
              "draw"}
  /\ recomposes \in BOOLEAN /\ counted \in BOOLEAN /\ reseq \in Nat /\ shown \in Nat
  /\ placed \in Draws /\ frame \in Frames /\ glass \in Frames
LockIsHeld ==
  /\ lock \in {"free", "render", "main"}
  /\ (lock = "render") <=> (rpc \in {"baseWrite", "composeWrite"})
  /\ (lock = "main") <=> (mpc = "rewrite")

\* TypeOK is its four parts, before and after a step.
LEMMA TypeParts ==
  /\ TypeOK <=> RenderTypes /\ PixelTypes /\ MainTypes /\ LockIsHeld
  /\ RenderTypes' /\ PixelTypes' /\ MainTypes' /\ LockIsHeld' => TypeOK'
BY DEF TypeOK, RenderTypes, PixelTypes, MainTypes, LockIsHeld

\* Nothing is drawn at the start.
LEMMA InitInv == ASSUME Init PROVE IInv
<1>1. TypeOK
  <2>1. 0 \in Draws /\ "screen" \in Kinds /\ "bits" \in Passes
    BY BoundsAssumption DEF Draws, Kinds, Passes
  <2>2. NoPicture \in Pictures /\ Blank \in Written_
    BY <2>1 DEF NoPicture, Blank, Pictures, Written_
  <2>3. NoFrame \in Frames
    BY <2>1, <2>2 DEF NoFrame, Frames
  <2>4. RenderTypes
    BY <2>1, <2>2 DEF Init, RenderTypes
  <2>5. 0 \in 0 .. MaxAsks /\ 0 \in 0 .. MaxFlips /\ 0 \in 0 .. MaxAway
    BY BoundsAssumption
  <2>6. PixelTypes
    BY <2>2, <2>5 DEF Init, PixelTypes
  <2>7. MainTypes
    BY <2>1, <2>3 DEF Init, MainTypes
  <2>8. LockIsHeld
    BY DEF Init, LockIsHeld
  <2> QED BY <2>4, <2>6, <2>7, <2>8, TypeParts
<1> USE BoundsAssumption DEF Init, NoPicture, Blank, NoFrame
<1>2. InsetsOrder /\ PopupFree /\ BaseIsDrawn
  BY DEF InsetsOrder, PopupFree, Building, BaseIsDrawn
<1>3. GlassBehind
  BY DEF GlassBehind, Behind, PlacedBehind, PlacementFollowsPage
<1>4. Ages
  BY DEF Ages, Age
<1>5. FlipOnItsWay /\ BaseIsThere
  BY DEF FlipOnItsWay, FlipIsQueued, BaseIsThere
<1> QED BY <1>1, <1>2, <1>3, <1>4, <1>5 DEF IInv

\* What the writers put together is a picture.
LEMMA WritingIsTyped ==
  ASSUME RenderTypes, PixelTypes, WriteBase \/ WriteCompose \/ Reconvert
  PROVE writing' \in Written_
<1> USE DEF RenderTypes, PixelTypes, Pictures
<1>1. Composed \in Passes
  BY DEF Composed, Passes
<1>2. "bits" \in Passes
  BY DEF Passes
<1>3. CASE WriteBase
  BY <1>2, <1>3 DEF WriteBase, WriteNew, Written_
<1>4. CASE WriteCompose
  BY <1>1, <1>4 DEF WriteCompose, WriteNew, Written_
<1>5. CASE Reconvert
  BY <1>1, <1>2, <1>5 DEF Reconvert, Written_
<1> QED BY <1>3, <1>4, <1>5

\* Who changes what: the render task its own variables, the main thread its.
LEMMA WhoMoves == ASSUME [Next]_vars
                 PROVE /\ Render \/ UNCHANGED renderVars
                       /\ PollInsets \/ PresentIfNeeded \/ UNCHANGED mainVars
<1> USE DEF renderVars, mainVars
<1>1. CASE Render
  BY <1>1 DEF Render, PublishInsets, PublishPage, DrawPopup, PublishScreen, Snapshot,
     WriteBase, BaseWritten, SeesHold, ExtendHold, WritePlane, WriteCompose, ComposeWritten,
     Cleanup
<1>2. CASE SetInverted \/ RaiseReconvert \/ RequestPresent \/ HoldComesDue \/ PutAway \/ ComeBack
  BY <1>2 DEF SetInverted, RaiseReconvert, RequestPresent, HoldComesDue, PutAway, ComeBack
<1>3. CASE PollInsets
  BY <1>3 DEF PollInsets
<1>4. CASE PresentIfNeeded
  BY <1>4 DEF PresentIfNeeded, BeginPresent, Reconvert, Reconverted, AskHold, ClearHold,
     TakePending, Decline, Upload, Draw
<1>5. CASE UNCHANGED vars
  BY <1>5 DEF vars
<1> QED BY <1>1, <1>2, <1>3, <1>4, <1>5 DEF Next

\* The render task's variables keep their types.
LEMMA RenderTypesStep == ASSUME RenderTypes, [Next]_vars PROVE RenderTypes'
<1> USE BoundsAssumption DEF RenderTypes
<1>1. CASE PublishInsets \/ PublishScreen
  <2>1. draw' = draw + 1 /\ draw' \in Draws
    BY <1>1 DEF PublishInsets, PublishScreen, Draws
  <2>2. CASE PublishInsets
    BY <2>1, <2>2 DEF PublishInsets
  <2>3. CASE PublishScreen
    BY <2>1, <2>3 DEF PublishScreen, Kinds
  <2> QED BY <1>1, <2>2, <2>3
<1>2. CASE PublishPage \/ DrawPopup
  BY <1>2 DEF PublishPage, DrawPopup, Kinds
<1>3. CASE Snapshot \/ Cleanup
  BY <1>3 DEF Snapshot, Cleanup, SnapshotBase, Pictures
<1>4. CASE WriteBase \/ WriteCompose
  BY <1>4 DEF WriteBase, WriteCompose, WriteNew, Commit
<1>5. CASE BaseWritten \/ ComposeWritten
  BY <1>5 DEF BaseWritten, ComposeWritten
<1>6. CASE SeesHold \/ ExtendHold \/ WritePlane
  BY <1>6 DEF SeesHold, ExtendHold, WritePlane
<1>7. CASE UNCHANGED renderVars
  BY <1>7 DEF renderVars
<1> QED BY <1>1, <1>2, <1>3, <1>4, <1>5, <1>6, <1>7, WhoMoves DEF Render

\* The pixels, the flags and the counters keep their types.
LEMMA PixelTypesStep == ASSUME RenderTypes, PixelTypes, [Next]_vars PROVE PixelTypes'
<1> USE BoundsAssumption DEF PixelTypes, pixelVars, countVars
<1>1. CASE PublishInsets \/ PublishPage \/ DrawPopup \/ PublishScreen \/ Snapshot
  BY <1>1 DEF PublishInsets, PublishPage, DrawPopup, PublishScreen, Snapshot
<1>2. CASE WriteBase \/ WriteCompose
  BY <1>2, WritingIsTyped DEF WriteBase, WriteCompose, WriteNew, RenderTypes
<1>3. CASE BaseWritten \/ ComposeWritten
  BY <1>3 DEF BaseWritten, ComposeWritten, Written, ArmHold, ReleaseHold
<1>4. CASE SeesHold \/ ExtendHold \/ WritePlane \/ Cleanup
  BY <1>4 DEF SeesHold, ExtendHold, WritePlane, Cleanup
<1>5. CASE SetInverted
  <2>1. inv' \in BOOLEAN
    BY <1>5, Zenon DEF SetInverted
  <2> QED BY <1>5, <2>1 DEF SetInverted
<1>6. CASE RaiseReconvert
  BY <1>6 DEF RaiseReconvert
<1>7. CASE HoldComesDue \/ ComeBack \/ PollInsets
  BY <1>7 DEF HoldComesDue, ComeBack, PollInsets
<1>8. CASE RequestPresent
  BY <1>8 DEF RequestPresent
<1>9. CASE PutAway
  BY <1>9 DEF PutAway
<1>10. CASE BeginPresent \/ AskHold \/ ClearHold \/ TakePending
  BY <1>10 DEF BeginPresent, TakeFlip, AskHold, ClearHold, ReleaseHold, TakePending
<1>11. CASE Reconvert
  BY <1>11, WritingIsTyped DEF Reconvert
<1>12. CASE Reconverted
  BY <1>12 DEF Reconverted, Written, ReleaseHold, ArmHold
<1>13. CASE Decline \/ Upload \/ Draw
  BY <1>13 DEF Decline, Upload, Draw
<1>14. CASE UNCHANGED vars
  BY <1>14 DEF vars
<1> HIDE DEF PixelTypes
<1> QED BY <1>1, <1>2, <1>3, <1>4, <1>5, <1>6, <1>7, <1>8, <1>9, <1>10,
           <1>11, <1>12, <1>13, <1>14
        DEF Next, Render, PresentIfNeeded

\* The main thread's variables keep their types.
LEMMA MainTypesStep ==
  ASSUME RenderTypes, PixelTypes, MainTypes, [Next]_vars PROVE MainTypes'
<1> USE DEF MainTypes
<1>1. CASE PollInsets
  BY <1>1 DEF PollInsets, RenderTypes
<1>2. CASE BeginPresent \/ Reconvert \/ AskHold \/ ClearHold \/ Decline
  BY <1>2 DEF BeginPresent, TakeFlip, Reconvert, AskHold, ClearHold, Decline
<1>3. CASE Reconverted
  BY <1>3 DEF Reconverted, PixelTypes
<1>4. CASE TakePending
  <2>1. counted' \in BOOLEAN
    BY <1>4, Zenon DEF TakePending
  <2> QED BY <1>4, <2>1 DEF TakePending
<1>5. CASE Upload
  <2>1. ArmsBeam \in BOOLEAN
    BY DEF ArmsBeam
  <2>2. frame' \in Frames
    BY <1>5, <2>1 DEF Upload, Frames, PixelTypes
  <2> QED BY <1>5, <2>2 DEF Upload, PixelTypes
<1>6. CASE Draw
  <2>1. (counted /\ stamp) \in BOOLEAN
    OBVIOUS
  <2>2. glass' \in Frames
    BY <1>6, <2>1 DEF Draw, Frames
  <2>3. frame' \in Frames
    BY <1>6, BoundsAssumption DEF Draw, Frames, NoFrame, Blank, Written_, Draws, Kinds, Passes
  <2> QED BY <1>6, <2>2, <2>3 DEF Draw
<1>7. CASE UNCHANGED mainVars
  BY <1>7 DEF mainVars
<1> HIDE DEF MainTypes
<1> QED BY <1>1, <1>2, <1>3, <1>4, <1>5, <1>6, <1>7, WhoMoves DEF PresentIfNeeded

\* The lock is held exactly between the halves of a writer.
LEMMA LockStep == ASSUME LockIsHeld, [Next]_vars PROVE LockIsHeld'
<1> USE DEF LockIsHeld, pixelVars, mainVars, renderVars
<1>1. CASE PublishInsets \/ PublishPage \/ DrawPopup \/ PublishScreen \/ Snapshot
  BY <1>1 DEF PublishInsets, PublishPage, DrawPopup, PublishScreen, Snapshot
<1>2. CASE WriteBase \/ WriteCompose
  BY <1>2 DEF WriteBase, WriteCompose, WriteNew
<1>3. CASE BaseWritten \/ ComposeWritten
  BY <1>3 DEF BaseWritten, ComposeWritten, Written
<1>4. CASE SeesHold \/ ExtendHold \/ WritePlane \/ Cleanup
  BY <1>4 DEF SeesHold, ExtendHold, WritePlane, Cleanup
<1>5. CASE SetInverted \/ RaiseReconvert \/ RequestPresent \/ HoldComesDue \/ PutAway
           \/ ComeBack \/ PollInsets
  BY <1>5 DEF SetInverted, RaiseReconvert, RequestPresent, HoldComesDue, PutAway, ComeBack,
     PollInsets
<1>6. CASE BeginPresent \/ AskHold \/ ClearHold \/ TakePending
  BY <1>6 DEF BeginPresent, TakeFlip, AskHold, ClearHold, TakePending
<1>7. CASE Reconvert \/ Reconverted
  BY <1>7 DEF Reconvert, Reconverted, Written
<1>8. CASE Decline \/ Upload \/ Draw
  BY <1>8 DEF Decline, Upload, Uploads, Draw
<1>9. CASE UNCHANGED vars
  BY <1>9 DEF vars
<1> HIDE DEF LockIsHeld
<1> QED BY <1>1, <1>2, <1>3, <1>4, <1>5, <1>6, <1>7, <1>8, <1>9
        DEF Next, Render, PresentIfNeeded

\* Every step keeps the types, and the lock with its holder.
LEMMA TypeStep == ASSUME TypeOK, [Next]_vars PROVE TypeOK'
BY TypeParts, RenderTypesStep, PixelTypesStep, MainTypesStep, LockStep
-----------------------------------------------------------------------------
\* The numbers the order is about.
Numbers ==
  /\ draw \in Nat /\ staged \in Nat /\ live \in Nat /\ placed \in Nat
  /\ base.draw \in Nat /\ writing.draw \in Nat /\ pixels.draw \in Nat
  /\ frame.pic.draw \in Nat /\ frame.place \in Nat
  /\ glass.pic.draw \in Nat /\ glass.place \in Nat

\* TypeOK gives the numbers.
LEMMA NumbersAre == ASSUME TypeOK PROVE Numbers
BY BoundsAssumption
   DEF TypeOK, Numbers, Draws, Pictures, Written_, Frames

\* What Commit may do, and what the two writers do to the insets.
LEMMA CommitDoes ==
  ASSUME WriteBase \/ WriteCompose
  PROVE \/ live' = live
        \/ armed /\ live' = staged
BY DEF WriteBase, WriteCompose, WriteNew, Commit

\* Only the render task's writers commit, only the main thread places.
LEMMA InsetsMove ==
  ASSUME [Next]_vars
  PROVE /\ WriteBase \/ WriteCompose \/ live' = live
        /\ PollInsets \/ placed' = placed
        /\ PublishInsets \/ PublishScreen \/ (draw' = draw /\ staged' = staged)
<1> USE DEF renderVars, mainVars
<1>1. CASE Render
  BY <1>1 DEF Render, PublishInsets, PublishPage, DrawPopup, PublishScreen, Snapshot,
     WriteBase, BaseWritten, SeesHold, ExtendHold, WritePlane, WriteCompose, ComposeWritten,
     Cleanup
<1>2. CASE UNCHANGED renderVars
  <2>1. live' = live /\ draw' = draw /\ staged' = staged
    BY <1>2
  <2>2. CASE PollInsets
    BY <2>1, <2>2
  <2>3. CASE PresentIfNeeded
    BY <2>1, <2>3 DEF PresentIfNeeded, BeginPresent, Reconvert, Reconverted, AskHold,
       ClearHold, TakePending, Decline, Upload, Draw
  <2>4. CASE UNCHANGED mainVars
    BY <2>1, <2>4
  <2> QED BY <2>2, <2>3, <2>4, WhoMoves
<1> QED BY <1>1, <1>2, WhoMoves

\* Insets are published, committed and placed in order.
LEMMA InsetsOrderStep ==
  ASSUME TypeOK, InsetsOrder, [Next]_vars PROVE InsetsOrder'
<1> USE NumbersAre DEF InsetsOrder, Numbers
<1>1. CASE PublishInsets \/ PublishScreen
  BY <1>1 DEF PublishInsets, PublishScreen, mainVars
<1>2. CASE WriteBase \/ WriteCompose
  <2>1. placed' = placed /\ draw' = draw /\ staged' = staged
    BY <1>2 DEF WriteBase, WriteCompose, mainVars
  <2> QED BY <1>2, <2>1, CommitDoes
<1>3. CASE PollInsets
  BY <1>3 DEF PollInsets, renderVars
<1>4. CASE live' = live /\ placed' = placed /\ draw' = draw /\ staged' = staged
  BY <1>4
<1> QED BY <1>1, <1>2, <1>3, <1>4, InsetsMove DEF PublishInsets, PublishScreen, WriteBase,
           WriteCompose, PollInsets, renderVars, mainVars

\* While a page is being built its insets are not armed.
LEMMA PopupFreeStep ==
  ASSUME TypeOK, InsetsOrder, PopupFree, [Next]_vars PROVE PopupFree'
<1> USE NumbersAre DEF PopupFree, Building, InsetsOrder, Numbers
<1>1. CASE PublishInsets
  BY <1>1 DEF PublishInsets
<1>2. CASE PublishPage \/ DrawPopup \/ PublishScreen
  BY <1>2 DEF PublishPage, DrawPopup, PublishScreen
<1>3. CASE Snapshot \/ SeesHold \/ ExtendHold \/ WritePlane \/ Cleanup
  BY <1>3 DEF Snapshot, SeesHold, ExtendHold, WritePlane, Cleanup
<1>4. CASE WriteBase \/ WriteCompose
  BY <1>4, CommitDoes DEF WriteBase, WriteCompose
<1>5. CASE BaseWritten \/ ComposeWritten
  BY <1>5 DEF BaseWritten, ComposeWritten
<1>6. CASE UNCHANGED renderVars
  BY <1>6 DEF renderVars
<1> QED BY <1>1, <1>2, <1>3, <1>4, <1>5, <1>6, WhoMoves DEF Render

\* The cached base is this drawing from the snapshot on, and trails it before.
LEMMA BaseIsDrawnStep ==
  ASSUME TypeOK, InsetsOrder, PopupFree, BaseIsDrawn, [Next]_vars PROVE BaseIsDrawn'
<1> USE NumbersAre DEF PopupFree, Building, InsetsOrder, BaseIsDrawn, Numbers
<1>1. CASE PublishInsets
  BY <1>1 DEF PublishInsets
<1>2. CASE PublishPage \/ DrawPopup \/ PublishScreen
  BY <1>2 DEF PublishPage, DrawPopup, PublishScreen
<1>3. CASE Snapshot \/ Cleanup
  BY <1>3 DEF Snapshot, SnapshotBase, Cleanup
<1>4. CASE SeesHold \/ ExtendHold \/ WritePlane
  BY <1>4 DEF SeesHold, ExtendHold, WritePlane
<1>5. CASE WriteBase \/ WriteCompose
  BY <1>5, CommitDoes DEF WriteBase, WriteCompose
<1>6. CASE BaseWritten \/ ComposeWritten
  BY <1>6 DEF BaseWritten, ComposeWritten
<1>7. CASE UNCHANGED renderVars
  BY <1>7 DEF renderVars
<1> QED BY <1>1, <1>2, <1>3, <1>4, <1>5, <1>6, <1>7, WhoMoves DEF Render

\* The steps that touch the pixels, the writer's picture, the frame or the glass.
LEMMA PictureMoves ==
  ASSUME [Next]_vars
  PROVE \/ WriteBase \/ WriteCompose \/ BaseWritten \/ ComposeWritten \/ Reconverted
        \/ Reconvert \/ Upload \/ Draw
        \/ UNCHANGED <<lock, pixels, writing, frame, glass, live>>
<1> USE DEF renderVars, pixelVars, mainVars
<1>1. CASE PublishInsets \/ PublishPage \/ DrawPopup \/ PublishScreen \/ Snapshot
  BY <1>1 DEF PublishInsets, PublishPage, DrawPopup, PublishScreen, Snapshot
<1>2. CASE SeesHold \/ ExtendHold \/ WritePlane \/ Cleanup
  BY <1>2 DEF SeesHold, ExtendHold, WritePlane, Cleanup
<1>3. CASE SetInverted \/ RaiseReconvert \/ RequestPresent \/ HoldComesDue \/ PutAway
           \/ ComeBack \/ PollInsets
  BY <1>3 DEF SetInverted, RaiseReconvert, RequestPresent, HoldComesDue, PutAway, ComeBack,
     PollInsets
<1>4. CASE BeginPresent \/ AskHold \/ ClearHold \/ TakePending \/ Decline
  BY <1>4 DEF BeginPresent, TakeFlip, AskHold, ClearHold, TakePending, Decline
<1>5. CASE UNCHANGED vars
  BY <1>5 DEF vars
<1> QED BY <1>1, <1>2, <1>3, <1>4, <1>5 DEF Next, Render, PresentIfNeeded

\* No picture is placed ahead of itself: the pixels under the lock's holder and
\* the frame are the ones the insets in force were committed with or before.
LEMMA GlassBehindStep ==
  ASSUME TypeOK, InsetsOrder, PopupFree, BaseIsDrawn, GlassBehind, [Next]_vars
  PROVE GlassBehind'
<1> USE NumbersAre DEF GlassBehind, PlacementFollowsPage, Numbers
<1>1. CASE WriteBase \/ WriteCompose
  <2>1. lock = "free" /\ lock' = "render" /\ UNCHANGED <<frame, glass>>
    BY <1>1 DEF WriteBase, WriteCompose, WriteNew, mainVars
  <2>3. writing'.draw = base.draw /\ writing'.what = base.what
    BY <1>1 DEF WriteBase, WriteCompose, WriteNew, BaseIsDrawn
  <2>4. base.what = "popup" => ~armed
    BY <1>1 DEF WriteBase, WriteCompose, BaseIsDrawn, PopupFree, Building
  <2>5. staged <= base.draw
    BY <1>1 DEF WriteBase, WriteCompose, BaseIsDrawn, InsetsOrder
  <2>6. Behind(live', writing')
    BY <1>1, <2>3, <2>4, <2>5, CommitDoes DEF Behind, BaseIsDrawn
  <2> QED BY <2>1, <2>6, TypeStep, NumbersAre DEF PlacedBehind
<1>2. CASE BaseWritten \/ ComposeWritten \/ Reconverted
  <2>1. lock # "free" /\ lock' = "free" /\ pixels' = writing /\ live' = live
    BY <1>2 DEF BaseWritten, ComposeWritten, Reconverted, Written, renderVars, TypeOK
  <2>2. UNCHANGED <<frame, glass>>
    BY <1>2 DEF BaseWritten, ComposeWritten, Reconverted, mainVars
  <2> QED BY <2>1, <2>2 DEF PlacedBehind, Behind
<1>3. CASE Reconvert
  <2>1. lock' = "main" /\ live' = live /\ UNCHANGED <<frame, glass>>
    BY <1>3 DEF Reconvert, renderVars
  <2>2. writing'.draw = base.draw /\ writing'.what = base.what
    BY <1>3 DEF Reconvert
  <2> QED BY <2>1, <2>2 DEF PlacedBehind, Behind, BaseIsDrawn
<1>4. CASE Upload
  <2>1. /\ lock = "free" /\ UNCHANGED <<lock, pixels, live, glass>>
        /\ frame'.pic = pixels /\ frame'.place = placed
    BY <1>4 DEF Upload, Uploads, renderVars, pixelVars
  <2> QED BY <2>1 DEF PlacedBehind, Behind, InsetsOrder
<1>5. CASE Draw
  <2>1. /\ UNCHANGED <<lock, pixels, writing, live>> /\ frame' = NoFrame
        /\ glass'.pic = frame.pic /\ glass'.place = frame.place
    BY <1>5 DEF Draw, renderVars, pixelVars, TypeOK, Frames
  <2> QED BY <2>1 DEF PlacedBehind, Behind, NoFrame, Blank
<1>6. CASE UNCHANGED <<lock, pixels, writing, frame, glass, live>>
  BY <1>6 DEF PlacedBehind, Behind
<1>7. \/ WriteBase \/ WriteCompose \/ BaseWritten \/ ComposeWritten \/ Reconverted
      \/ Reconvert \/ Upload \/ Draw
      \/ UNCHANGED <<lock, pixels, writing, frame, glass, live>>
  BY PictureMoves
<1> HIDE DEF GlassBehind
<1> QED BY <1>1, <1>2, <1>3, <1>4, <1>5, <1>6, <1>7

\* Ages are numbers.
LEMMA AgeIsNat == ASSUME TypeOK
                  PROVE /\ Age(base) \in Nat /\ Age(writing) \in Nat /\ Age(pixels) \in Nat
                        /\ Age(frame.pic) \in Nat /\ Age(glass.pic) \in Nat
BY NumbersAre DEF Age, Numbers

\* A picture put together from the base is as old as the base.
LEMMA AgeIsCopied ==
  ASSUME NEW p, NEW q, p.draw = q.draw, p.what = q.what PROVE Age(p) = Age(q)
BY DEF Age

\* The base only gets newer.
LEMMA BaseAges ==
  ASSUME TypeOK, PopupFree, BaseIsDrawn, [Next]_vars
  PROVE /\ Age(base) <= Age(base')
        /\ Snapshot \/ Cleanup \/ base' = base
<1> USE NumbersAre DEF BaseIsDrawn, Numbers
<1>1. CASE Snapshot
  BY <1>1 DEF Snapshot, SnapshotBase, Age
<1>2. CASE Cleanup
  BY <1>2 DEF Cleanup, SnapshotBase, Age
<1>3. CASE base' = base
  BY <1>3, AgeIsNat
<1>4. Snapshot \/ Cleanup \/ base' = base
  BY WhoMoves DEF Render, PublishInsets, PublishPage, DrawPopup, PublishScreen, WriteBase,
     BaseWritten, SeesHold, ExtendHold, WritePlane, WriteCompose, ComposeWritten, renderVars
<1> QED BY <1>1, <1>2, <1>3, <1>4

\* From the base to the glass pictures get older, never newer.
LEMMA AgesStep ==
  ASSUME TypeOK, PopupFree, BaseIsDrawn, Ages, [Next]_vars PROVE Ages'
<1> USE AgeIsNat, BaseAges DEF Ages
<1>0. Age(base') \in Nat
  <2>1. base'.draw \in Nat
    BY TypeStep, BoundsAssumption DEF TypeOK, Pictures, Draws
  <2> QED BY <2>1 DEF Age
<1>1. CASE WriteBase \/ WriteCompose
  <2>1. /\ writing'.draw = base.draw /\ writing'.what = base.what /\ base' = base
        /\ lock = "free" /\ UNCHANGED <<pixels, frame, glass, mpc>>
    BY <1>1 DEF WriteBase, WriteCompose, WriteNew, BaseIsDrawn, mainVars
  <2>2. Age(writing') = Age(base)
    BY <2>1, AgeIsCopied
  <2> QED BY <2>1, <2>2
<1>2. CASE BaseWritten \/ ComposeWritten \/ Reconverted
  <2>1. /\ lock # "free" /\ lock' = "free" /\ pixels' = writing
        /\ UNCHANGED <<frame, glass>> /\ (mpc' = mpc \/ mpc' = "gate")
    BY <1>2 DEF BaseWritten, ComposeWritten, Reconverted, Written, mainVars, TypeOK
  <2> QED BY <1>0, <2>1
<1>3. CASE Reconvert
  <2>1. /\ writing'.draw = base.draw /\ writing'.what = base.what /\ base' = base
        /\ mpc' = "rewrite" /\ UNCHANGED <<pixels, frame, glass>>
    BY <1>3 DEF Reconvert, renderVars
  <2>2. Age(writing') = Age(base)
    BY <2>1, AgeIsCopied
  <2> QED BY <2>1, <2>2
<1>4. CASE Upload
  <2>1. /\ lock = "free" /\ UNCHANGED <<lock, pixels, writing, glass, base>>
        /\ frame'.pic = pixels
    BY <1>4 DEF Upload, Uploads, renderVars, pixelVars
  <2> QED BY <2>1
<1>5. CASE Draw
  <2>1. /\ UNCHANGED <<lock, pixels, writing, base>> /\ mpc' = "loop"
        /\ glass'.pic = frame.pic /\ mpc = "draw"
    BY <1>5 DEF Draw, renderVars, pixelVars, TypeOK, Frames
  <2> QED BY <2>1
<1>6. CASE UNCHANGED <<lock, pixels, writing, frame, glass, live>> /\ ~Upload
  <2>1. mpc' # "draw" \/ mpc' = mpc
    BY WhoMoves, <1>6 DEF PollInsets, PresentIfNeeded, BeginPresent, TakeFlip, Reconvert,
       Reconverted, AskHold, ClearHold, TakePending, Decline, Draw, mainVars
  <2> QED BY <1>0, <1>6, <2>1
<1> HIDE DEF Ages
<1> QED BY <1>1, <1>2, <1>3, <1>4, <1>5, <1>6, PictureMoves

\* Once anything is drawn there is a base to reconvert from.
LEMMA BaseIsThereStep ==
  ASSUME TypeOK, PopupFree, BaseIsDrawn, BaseIsThere, [Next]_vars PROVE BaseIsThere'
<1> USE NumbersAre DEF BaseIsThere, Numbers
<1>1. base' = base \/ (base'.draw >= 1 /\ base' = [draw |-> draw, what |-> what])
  BY BaseAges DEF Snapshot, Cleanup, SnapshotBase, PopupFree
<1>2. CASE WriteBase \/ WriteCompose \/ Reconvert
  <2>1. base' = base /\ base.draw >= 1
    BY <1>2 DEF WriteBase, WriteCompose, Reconvert, BaseIsDrawn, PopupFree, renderVars
  <2> QED BY <2>1
<1>3. CASE BaseWritten \/ ComposeWritten \/ Reconverted
  <2>1. base' = base /\ base.draw >= 1
    BY <1>3 DEF BaseWritten, ComposeWritten, Reconverted, renderVars, TypeOK
  <2> QED BY <2>1
<1>4. CASE BeginPresent
  BY <1>4 DEF BeginPresent, TakeFlip, renderVars, pixelVars, TypeOK, Pictures, NoPicture
<1>5. CASE UNCHANGED <<lock, pixels>> /\ (mpc' = mpc \/ mpc' # "reconvert")
  BY <1>1, <1>5
<1>6. \/ WriteBase \/ WriteCompose \/ Reconvert \/ BaseWritten \/ ComposeWritten
      \/ Reconverted \/ BeginPresent
      \/ UNCHANGED <<lock, pixels>> /\ (mpc' = mpc \/ mpc' # "reconvert")
  <2>1. \/ BeginPresent \/ Reconvert \/ mpc' = mpc \/ mpc' # "reconvert"
    BY WhoMoves DEF PollInsets, PresentIfNeeded, Reconverted, AskHold, ClearHold,
       TakePending, Decline, Upload, Draw, mainVars
  <2>2. CASE Upload \/ Draw
    BY <2>2 DEF Upload, Draw, pixelVars
  <2> QED BY <2>1, <2>2, PictureMoves
<1> HIDE DEF BaseIsThere
<1> QED BY <1>2, <1>3, <1>4, <1>5, <1>6

\* A flip always has a reconvert or a writer with the new polarity behind it.
LEMMA FlipOnItsWayStep ==
  ASSUME TypeOK, BaseIsThere, FlipOnItsWay, [Next]_vars PROVE FlipOnItsWay'
<1> USE DEF FlipOnItsWay, FlipIsQueued
<1>1. CASE WriteBase \/ WriteCompose
  <2>1. /\ lock = "free" /\ lock' = "render" /\ writing'.inv = inv
        /\ UNCHANGED <<pixels, inv, fpc, flipped, mpc>>
    BY <1>1 DEF WriteBase, WriteCompose, WriteNew, mainVars
  <2> QED BY <2>1
<1>2. CASE BaseWritten \/ ComposeWritten
  <2>1. /\ lock = "render" /\ lock' = "free" /\ pixels' = writing
        /\ UNCHANGED <<inv, fpc, flipped, mpc>>
    BY <1>2 DEF BaseWritten, ComposeWritten, Written, mainVars, TypeOK
  <2> QED BY <2>1
<1>3. CASE Reconvert
  <2>1. lock' = "main" /\ writing'.inv = inv /\ UNCHANGED <<inv, fpc, flipped>>
    BY <1>3 DEF Reconvert
  <2> QED BY <2>1
<1>4. CASE Reconverted
  <2>1. /\ lock = "main" /\ lock' = "free" /\ pixels' = writing
        /\ UNCHANGED <<inv, fpc, flipped>>
    BY <1>4 DEF Reconverted, Written, TypeOK
  <2> QED BY <2>1
<1>5. CASE SetInverted
  <2>1. fpc' = "raise"
    BY <1>5 DEF SetInverted
  <2> QED BY <2>1
<1>6. CASE RaiseReconvert
  <2>1. flipped' = TRUE
    BY <1>6 DEF RaiseReconvert
  <2> QED BY <2>1
<1>7. CASE BeginPresent
  <2>1. /\ mpc # "rewrite"
        /\ UNCHANGED <<lock, pixels, writing, inv, fpc>>
        /\ flipped /\ base # NoPicture => mpc' = "reconvert"
        /\ mpc # "reconvert"
    BY <1>7 DEF BeginPresent, TakeFlip, pixelVars
  <2>2. base = NoPicture => pixels.draw = 0 /\ lock = "free"
    BY DEF BaseIsThere, NoPicture
  <2>3. lock # "main"
    BY <2>1 DEF TypeOK
  <2> QED BY <2>1, <2>2, <2>3
<1>8. CASE /\ UNCHANGED <<lock, pixels, writing, inv, fpc, flipped>>
           /\ mpc' = mpc \/ mpc # "reconvert"
  BY <1>8
<1>9. \/ WriteBase \/ WriteCompose \/ BaseWritten \/ ComposeWritten \/ Reconvert
      \/ Reconverted \/ SetInverted \/ RaiseReconvert \/ BeginPresent
      \/ /\ UNCHANGED <<lock, pixels, writing, inv, fpc, flipped>>
         /\ mpc' = mpc \/ mpc # "reconvert"
  <2> USE DEF pixelVars, mainVars
  <2>1. CASE PublishInsets \/ PublishPage \/ DrawPopup \/ PublishScreen \/ Snapshot
    BY <2>1 DEF PublishInsets, PublishPage, DrawPopup, PublishScreen, Snapshot
  <2>2. CASE SeesHold \/ ExtendHold \/ WritePlane \/ Cleanup
    BY <2>2 DEF SeesHold, ExtendHold, WritePlane, Cleanup
  <2>3. CASE RequestPresent \/ HoldComesDue \/ PutAway \/ ComeBack \/ PollInsets
    BY <2>3 DEF RequestPresent, HoldComesDue, PutAway, ComeBack, PollInsets
  <2>4. CASE AskHold \/ ClearHold \/ TakePending
    BY <2>4 DEF AskHold, ClearHold, TakePending
  <2>5. CASE Decline \/ Upload \/ Draw
    BY <2>5 DEF Decline, Upload, Uploads, Draw
  <2>6. CASE UNCHANGED vars
    BY <2>6 DEF vars
  <2> QED BY <2>1, <2>2, <2>3, <2>4, <2>5, <2>6 DEF Next, Render, PresentIfNeeded
<1> HIDE DEF FlipOnItsWay, FlipIsQueued
<1> QED BY <1>1, <1>2, <1>3, <1>4, <1>5, <1>6, <1>7, <1>8, <1>9
-----------------------------------------------------------------------------
\* Every reachable state satisfies the inductive invariant, for any bounds.
THEOREM Invariant == Spec => []IInv
<1>1. ASSUME IInv, [Next]_vars PROVE IInv'
  BY <1>1, TypeStep, InsetsOrderStep, PopupFreeStep, BaseIsDrawnStep, GlassBehindStep,
     AgesStep, FlipOnItsWayStep, BaseIsThereStep DEF IInv
<1> QED BY <1>1, InitInv, PTL DEF Spec

\* Types, and pixelBufMutex held exactly between the halves of a writer.
THEOREM TypeCorrect == Spec => []TypeOK
BY Invariant, PTL DEF IInv

\* The glass is never laid out by the insets of a page still being built, for
\* any number of pages, popups, screens and reconverts.
THEOREM GlassTrailsItsPage == Spec => []PlacementFollowsPage
BY Invariant, PTL DEF IInv, GlassBehind

\* No flip is lost between setInverted, the main loop and the two writers.
THEOREM FlipsAreQueued == Spec => []FlipIsQueued
BY Invariant, PTL DEF IInv, FlipOnItsWay

\* The glass never goes back to an older picture.
THEOREM GlassOnlyMovesOn == Spec => NoOldPictureComesBack
<1>1. ASSUME IInv, [Next]_vars PROVE [Age(glass'.pic) >= Age(glass.pic)]_vars
  <2>1. Age(glass.pic) \in Nat
    BY <1>1, AgeIsNat DEF IInv
  <2>2. CASE Draw
    <3>1. glass'.pic = frame.pic /\ mpc = "draw"
      BY <1>1, <2>2 DEF Draw, IInv, TypeOK, Frames
    <3> QED BY <1>1, <2>1, <3>1, AgeIsNat DEF IInv, Ages
  <2>3. CASE glass' = glass
    BY <2>1, <2>3
  <2>4. Draw \/ glass' = glass
    BY <1>1, WhoMoves DEF PollInsets, PresentIfNeeded, BeginPresent, Reconvert, Reconverted,
       AskHold, ClearHold, TakePending, Decline, Upload, mainVars
  <2> QED BY <2>2, <2>3, <2>4
<1> QED BY <1>1, Invariant, PTL DEF Spec, NoOldPictureComesBack
-----------------------------------------------------------------------------
(* What FramesLand, FlipsLand and PlacementLands promise of the end, as a  *)
(* fact about every state: whatever the glass lacks, somebody still has it *)
(* to do.                                                                  *)

\* A frame of the last picture written, as the panel is laid out now.
Current(f) == f.pic = pixels /\ f.seq = seq /\ f.place = placed

\* With no present owed and no writer inside the lock the frame on its way, or
\* else the glass, is that frame.
NothingIsForgotten ==
  lock = "free" /\ ~pending /\ mpc # "upload" =>
    IF mpc = "draw" THEN Current(frame) ELSE Current(glass)

\* No flag is up and no thread is at work: the loop could turn for ever like
\* this, whatever its holds and deadlines do.
AtRest ==
  /\ mpc = "loop" /\ lock = "free" /\ ~pending
  /\ ~flipped /\ fpc = "idle"
  /\ live = 0 \/ live = placed

\* At rest the glass shows the last picture written, in the polarity that is
\* set and by the insets in force.
GlassIsCurrent ==
  AtRest => /\ glass.pic = pixels /\ glass.seq = seq
            /\ glass.place = live
            /\ pixels.draw # 0 => glass.pic.inv = inv

\* Who may take a present off the books, and who makes what the glass has old.
LEMMA OwedMoves ==
  ASSUME [Next]_vars
  PROVE \/ WriteBase \/ WriteCompose \/ BaseWritten \/ ComposeWritten
        \/ RequestPresent \/ ComeBack \/ PollInsets
        \/ Reconvert \/ Reconverted \/ TakePending \/ Decline \/ Upload \/ Draw
        \/ /\ UNCHANGED <<lock, pending, pixels, seq, placed, frame, glass>>
           /\ mpc' = mpc \/ {mpc, mpc'} \cap {"upload", "draw"} = {}
<1> USE DEF renderVars, pixelVars, mainVars
<1>1. CASE PublishInsets \/ PublishPage \/ DrawPopup \/ PublishScreen \/ Snapshot
  BY <1>1 DEF PublishInsets, PublishPage, DrawPopup, PublishScreen, Snapshot
<1>2. CASE SeesHold \/ ExtendHold \/ WritePlane \/ Cleanup
  BY <1>2 DEF SeesHold, ExtendHold, WritePlane, Cleanup
<1>3. CASE SetInverted \/ RaiseReconvert \/ HoldComesDue \/ PutAway
  BY <1>3 DEF SetInverted, RaiseReconvert, HoldComesDue, PutAway
<1>4. CASE BeginPresent \/ AskHold \/ ClearHold
  BY <1>4 DEF BeginPresent, TakeFlip, AskHold, ClearHold
<1>5. CASE UNCHANGED vars
  BY <1>5 DEF vars
<1> QED BY <1>1, <1>2, <1>3, <1>4, <1>5 DEF Next, Render, PresentIfNeeded

\* Every step that leaves the glass behind leaves a present owed.
LEMMA NothingIsForgottenStep ==
  ASSUME TypeOK, NothingIsForgotten, [Next]_vars PROVE NothingIsForgotten'
<1> USE DEF NothingIsForgotten, Current
<1>1. CASE WriteBase \/ WriteCompose \/ Reconvert
  <2>1. lock' # "free"
    BY <1>1 DEF WriteBase, WriteCompose, WriteNew, Reconvert
  <2> QED BY <2>1
<1>2. CASE BaseWritten \/ ComposeWritten \/ Reconverted
  <2>1. pending' = TRUE
    BY <1>2 DEF BaseWritten, ComposeWritten, Reconverted, Written
  <2> QED BY <2>1
<1>3. CASE RequestPresent \/ ComeBack \/ PollInsets \/ Decline
  <2>1. pending' = TRUE
    BY <1>3 DEF RequestPresent, ComeBack, PollInsets, Decline
  <2> QED BY <2>1
<1>4. CASE TakePending
  <2>1. /\ mpc = "take" /\ mpc' = (IF pending THEN "upload" ELSE "loop")
        /\ UNCHANGED <<lock, pixels, seq, placed, glass>>
    BY <1>4 DEF TakePending, pixelVars
  <2> QED BY <2>1
<1>5. CASE Upload
  <2>1. /\ mpc' = "draw" /\ UNCHANGED <<pixels, seq, placed>>
        /\ frame'.pic = pixels /\ frame'.seq = seq /\ frame'.place = placed
    BY <1>5 DEF Upload, pixelVars
  <2> QED BY <2>1
<1>6. CASE Draw
  <2>1. /\ mpc = "draw" /\ mpc' = "loop" /\ UNCHANGED <<lock, pending, pixels, seq, placed>>
    BY <1>6 DEF Draw, pixelVars
  <2>2. glass'.pic = frame.pic /\ glass'.seq = frame.seq /\ glass'.place = frame.place
    BY <1>6 DEF Draw, TypeOK, Frames
  <2> QED BY <2>1, <2>2
<1>7. CASE /\ UNCHANGED <<lock, pending, pixels, seq, placed, frame, glass>>
           /\ mpc' = mpc \/ {mpc, mpc'} \cap {"upload", "draw"} = {}
  BY <1>7
<1> HIDE DEF NothingIsForgotten, Current
<1> QED BY <1>1, <1>2, <1>3, <1>4, <1>5, <1>6, <1>7, OwedMoves

\* A written frame, a flip and committed insets reach the glass unless somebody
\* still has them to do: the glass at rest is the one asked for.
THEOREM GlassAtRestIsCurrent == Spec => []GlassIsCurrent
<1>1. Init => NothingIsForgotten
  BY DEF Init, NothingIsForgotten, Current, NoFrame
<1>2. Spec => []NothingIsForgotten
  <2>1. ASSUME IInv, NothingIsForgotten, [Next]_vars PROVE NothingIsForgotten'
    BY <2>1, NothingIsForgottenStep DEF IInv
  <2> QED BY <1>1, <2>1, Invariant, PTL DEF Spec
<1>3. ASSUME IInv, NothingIsForgotten PROVE GlassIsCurrent
  <2> SUFFICES ASSUME AtRest PROVE GlassIsCurrent
    BY DEF GlassIsCurrent
  <2>1. Current(glass)
    BY <1>3 DEF AtRest, NothingIsForgotten
  <2>2. placed = live
    BY <1>3, NumbersAre DEF AtRest, IInv, InsetsOrder, Numbers
  <2>3. pixels.draw # 0 => pixels.inv = inv
    BY <1>3 DEF AtRest, IInv, FlipOnItsWay, FlipIsQueued
  <2> QED BY <2>1, <2>2, <2>3 DEF GlassIsCurrent, Current
<1> QED BY <1>2, <1>3, Invariant, PTL
-----------------------------------------------------------------------------
(* FlashOnlyAfterDeadline is false of the code (the run page_flash), in    *)
(* two ways and no third.                                                  *)

\* A deadline is cleared while it is still the one that was read.
ClearsWhatItRead == ClearHold => hold = "due"

\* A reconvert that chose to compose still finds planes to compose.
ComposesWhatItSaw == Reconvert /\ recomposes => planes # {}

\* The 1-bit pass of a page waits out the hold that was armed with it; a compose
\* that takes the hold off leaves no 1-bit pass behind.
BitsAreHeld ==
  /\ hold = "due" => ran
  /\ pixels.pass = "bits" /\ pixels.what = "page" /\ ~ran => hold = "ahead"
  /\ rpc = "compose" => planes # {}
  /\ rpc = "composeWrite" => writing.pass # "bits"
  /\ mpc = "rewrite" /\ recomposes => writing.pass # "bits"

\* Of planes something is composed.
LEMMA ComposedIsNotBits == ASSUME planes # {} PROVE Composed # "bits"
BY DEF Composed

\* The two races apart, a 1-bit pass stays under its hold.
LEMMA BitsAreHeldStep ==
  ASSUME TypeOK, BitsAreHeld, [Next]_vars, ClearsWhatItRead, ComposesWhatItSaw
  PROVE BitsAreHeld'
<1> USE DEF BitsAreHeld, renderVars, pixelVars, mainVars
<1>1. CASE \/ PublishInsets \/ PublishPage \/ DrawPopup \/ PublishScreen \/ Snapshot
           \/ SeesHold \/ WritePlane \/ Cleanup
  BY <1>1 DEF PublishInsets, PublishPage, DrawPopup, PublishScreen, Snapshot, SeesHold,
     WritePlane, Cleanup
<1>2. CASE ExtendHold
  BY <1>2 DEF ExtendHold
<1>3. CASE WriteBase
  BY <1>3 DEF WriteBase, WriteNew, TypeOK
<1>4. CASE WriteCompose
  <2>1. writing'.pass # "bits"
    BY <1>4, ComposedIsNotBits DEF WriteCompose, WriteNew
  <2> QED BY <1>4, <2>1 DEF WriteCompose, WriteNew, TypeOK
<1>5. CASE BaseWritten
  BY <1>5 DEF BaseWritten, Written, ArmHold, TypeOK
<1>6. CASE ComposeWritten
  BY <1>6 DEF ComposeWritten, Written, ReleaseHold, TypeOK
<1>7. CASE SetInverted \/ RaiseReconvert \/ RequestPresent \/ PutAway \/ ComeBack \/ PollInsets
  BY <1>7 DEF SetInverted, RaiseReconvert, RequestPresent, PutAway, ComeBack, PollInsets
<1>8. CASE HoldComesDue
  BY <1>8 DEF HoldComesDue
<1>9. CASE BeginPresent \/ AskHold \/ TakePending \/ Decline \/ Upload \/ Draw
  BY <1>9 DEF BeginPresent, TakeFlip, AskHold, TakePending, Decline, Upload, Draw
<1>10. CASE ClearHold
  BY <1>10 DEF ClearHold, ReleaseHold, ClearsWhatItRead
<1>11. CASE Reconvert
  <2>1. recomposes => writing'.pass # "bits"
    BY <1>11, ComposedIsNotBits DEF Reconvert, ComposesWhatItSaw
  <2> QED BY <1>11, <2>1 DEF Reconvert, TypeOK
<1>12. CASE Reconverted
  BY <1>12 DEF Reconverted, Written, ArmHold, ReleaseHold, TypeOK
<1>13. CASE UNCHANGED vars
  BY <1>13 DEF vars
<1> HIDE DEF BitsAreHeld
<1> QED BY <1>1, <1>2, <1>3, <1>4, <1>5, <1>6, <1>7, <1>8, <1>9, <1>10, <1>11, <1>12, <1>13
        DEF Next, Render, PresentIfNeeded

\* A page's 1-bit pass is taken to the glass inside its hold only by one of two
\* races: the store that clears a deadline wipes a newer one, or the planes go
\* between a reconvert's choice to compose and the compose.
THEOREM FlashNeedsARace ==
  Spec /\ [][ClearsWhatItRead /\ ComposesWhatItSaw]_vars => []FlashOnlyAfterDeadline
<1>1. Init => BitsAreHeld
  BY DEF Init, BitsAreHeld, Blank
<1>2. ASSUME TypeOK, BitsAreHeld, [Next]_vars, [ClearsWhatItRead /\ ComposesWhatItSaw]_vars
      PROVE BitsAreHeld'
  <2>1. CASE UNCHANGED vars
    BY <1>2, <2>1 DEF BitsAreHeld, vars, renderVars, pixelVars, mainVars
  <2>2. CASE ClearsWhatItRead /\ ComposesWhatItSaw
    BY <1>2, <2>2, BitsAreHeldStep
  <2> QED BY <1>2, <2>1, <2>2
<1>3. BitsAreHeld => FlashOnlyAfterDeadline
  BY DEF BitsAreHeld, FlashOnlyAfterDeadline, Uploads
<1> QED BY <1>1, <1>2, <1>3, TypeCorrect, PTL DEF Spec
=============================================================================
