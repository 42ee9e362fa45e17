------------------------------ MODULE SpeedRead ------------------------------
(***************************************************************************)
(* Speed read: the page's words flashed one at a time at a fixed spot      *)
(* (Reader of src/src/SpeedRead.h, the host's half in                      *)
(* src/src/SurfaceSpeedRead.h).  It peeks at the channel read aloud drains,*)
(* steps once in every pass of the presenter, and at the end of a page     *)
(* asks for the next one, unless read aloud turns the pages.               *)
(*                                                                         *)
(* When a word, a page's settling or an answer is due is left to chance:   *)
(* a page may end in any step.  Words and drawing are left out.            *)
(***************************************************************************)
EXTENDS PageChannel

VARIABLE speed

SpeedTypeOK ==
  speed \in [on : BOOLEAN,                      \* enabled
             defers : BOOLEAN,                  \* readAloudTurns
             pending : {Nothing} \cup Pages,    \* hasPending, pending
             page : {Nothing} \cup Pages,       \* hasPage_, curUtf8, curRects
             awaiting : BOOLEAN,                \* awaitingTurn_
             finished : BOOLEAN,                \* finished_
             paused : BOOLEAN,                  \* paused_
             poked : BOOLEAN,                   \* tapToggle
             tap : BOOLEAN,                     \* its queued page-forward tap
             asks : 0..2]   \* history: turns asked for since it took its page

IdleSpeed ==
  [on |-> FALSE, defers |-> FALSE, pending |-> Nothing, page |-> Nothing,
   awaiting |-> FALSE, finished |-> FALSE, paused |-> FALSE, poked |-> FALSE,
   tap |-> FALSE, asks |-> 0]

SpeedInit == speed = IdleSpeed

-----------------------------------------------------------------------------
\* Reader::clear, and the host's copies with it
Emptied(s) ==
  [s EXCEPT !.pending = Nothing, !.page = Nothing, !.awaiting = FALSE,
            !.finished = FALSE, !.asks = 0]

\* setEnabled: whoever turns it on is given the page the channel holds.
SpeedSwitched(on) ==
  IF on = speed.on THEN speed
  ELSE IF on THEN [speed EXCEPT !.on = TRUE]
  ELSE [Emptied(speed) EXCEPT !.on = FALSE]

\* The page the channel has for this peeker, if any.
PeekedAt(s) ==
  IF ~channel.unseen THEN s
  ELSE IF channel.page = Cleared THEN Emptied(s)
  ELSE [s EXCEPT !.pending = channel.page]

\* Is it the page already up: its text and its geometry.  A page drawn again keeps
\* both; one that is laid out anew is another page of the book, like one with
\* other words.
SamePage(s) == s.page # Nothing /\ TextOf(s.pending) = TextOf(s.page)

\* pageArrived: of the same page only the geometry is taken.
Taken(s) ==
  IF SamePage(s) THEN [s EXCEPT !.pending = Nothing]
  ELSE [s EXCEPT !.pending = Nothing, !.page = s.pending, !.awaiting = FALSE,
                 !.finished = FALSE, !.asks = 0]

\* The pending page is taken at once if it is the one that is up, otherwise
\* when its picture has settled.
Settled(s, painted) ==
  IF s.pending # Nothing /\ (SamePage(s) \/ painted) THEN Taken(s) ELSE s

\* togglePause: resuming after the end starts over.
Poked(s) ==
  IF ~s.poked THEN s
  ELSE LET over == s.paused /\ s.finished
       IN  [s EXCEPT !.poked = FALSE, !.paused = ~@,
                     !.finished = @ /\ ~over,
                     !.awaiting = @ /\ ~over,
                     !.asks = IF over THEN 0 ELSE @]

Stepping(s) == s.page # Nothing /\ ~s.paused /\ ~s.finished

\* The last word, or a page without words, has had its time.
Asked(s) ==
  [s EXCEPT !.awaiting = TRUE, !.tap = @ \/ ~s.defers,
            !.asks = IF @ = 2 THEN 2 ELSE @ + 1]

\* Reader::step, with something due
Stepped(s) ==
  IF ~Stepping(s) THEN s
  ELSE IF s.awaiting THEN [s EXCEPT !.finished = TRUE]
  ELSE Asked(s)

\* step(): the channel, the pending page, the tap, the clock.  The page may have
\* settled, and the clock may have run out on a page that is in view.
SpeedStep ==
  LET Taking(painted) == Poked(Settled(PeekedAt(speed), painted))
      taking == {Taking(painted) : painted \in BOOLEAN}
  IN  /\ speed.on
      /\ speed' \in taking \cup {Stepped(s) : s \in taking}
      /\ channel' = Peeked

\* A tap on the glass while a word is up.
SpeedPoked ==
  /\ speed.on /\ HasWords(speed.page)
  /\ speed' = [speed EXCEPT !.poked = TRUE]
=============================================================================
