----------------------------- MODULE PageChannel -----------------------------
(***************************************************************************)
(* The text of the page on its way from the firmware's reader to those who *)
(* read it out or flash it by: one slot that is published to, drained by   *)
(* one consumer and peeked at by another (src/src/ReadAloudChannel.h).     *)
(*                                                                         *)
(* The reader is the firmware's, not under src/: its loop turns pages on   *)
(* the main thread, its render task publishes the page it was last asked   *)
(* to draw.  A page is its place in the book; what matters of its text is  *)
(* whether there is any, and that no two pages have the same.              *)
(***************************************************************************)
EXTENDS Integers, Sequences

CONSTANT Book   \* for each page, whether there are words on it
ASSUME BookAssumption == Book \in Seq(BOOLEAN)

VARIABLES
  reader,    \* where the book is open, and the page yet to be published
  channel    \* page_: the page, hasNew_, and whether the peeker has seen it

Pages == 1..Len(Book)
HasWords(page) == page \in Pages /\ Book[page]

Cleared == 0    \* publish(nullptr): the reader was left
Nothing == -1   \* generation 0: nothing published since the boot
Closed == 0     \* reader.at outside of the book

\* What two pages are compared by: every page without words has the same text.
TextOf(page) == IF HasWords(page) THEN page ELSE Cleared

ReaderTypeOK ==
  /\ reader \in [at : 0..(Len(Book) + 1), owed : 0..Len(Book)]
  /\ channel \in [page : {Nothing, Cleared} \cup Pages,
                  fresh : BOOLEAN, unseen : BOOLEAN]

\* At Home, or in a book whose first page is being drawn.
ReadersAtLaunch == {[at |-> n, owed |-> n] : n \in {Closed} \cup (Pages \cap {1})}
EmptyChannel == [page |-> Nothing, fresh |-> FALSE, unseen |-> FALSE]

ReaderInit == reader \in ReadersAtLaunch /\ channel = EmptyChannel

-----------------------------------------------------------------------------
(* The channel. *)

Published(page) == [page |-> page, fresh |-> TRUE, unseen |-> TRUE]
Consumed == [channel EXCEPT !.fresh = FALSE]
Peeked == [channel EXCEPT !.unseen = FALSE]
\* A peeker whose cursor went back to 0 is given what the channel holds.
PeekedAnew == [channel EXCEPT !.unseen = channel.page # Nothing]

-----------------------------------------------------------------------------
(* The reader. *)

\* A page of the book is drawn; the screen behind the last publishes nothing.
Opened(page) ==
  [at |-> page, owed |-> IF page \in Pages THEN page ELSE Closed]

\* A page-forward press in the firmware's loop.
TurnedForward ==
  IF reader.at \in Pages THEN Opened(reader.at + 1) ELSE reader

\* The owner turns back, opens a book or jumps in it; or something that moves
\* nothing makes the reader draw its page once more.
OwnerOpens(page) ==
  /\ reader' = Opened(page)
  /\ UNCHANGED channel

OwnerLeaves ==
  /\ reader.at # Closed
  /\ reader' = [at |-> Closed, owed |-> Closed]
  /\ channel' = Published(Cleared)

\* The render task captures and publishes.
Render ==
  /\ reader.owed # Closed
  /\ channel' = Published(reader.owed)
  /\ reader' = [reader EXCEPT !.owed = Closed]

\* The reset hook, and the new boot: Home or the book again.  The render task
\* is not stopped: what it was drawing may still be published.
ReaderReboots ==
  /\ channel' = EmptyChannel
  /\ reader' \in {[at |-> Closed, owed |-> Closed],
                  [at |-> Closed, owed |-> reader.owed], Opened(reader.at)}

\* A new process.
ReaderRelaunches == reader' \in ReadersAtLaunch /\ channel' = EmptyChannel
=============================================================================
