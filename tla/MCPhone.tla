------------------------------ MODULE MCPhone ------------------------------
(***************************************************************************)
(* A small instance of Phone.  The outside acts a few times in a           *)
(* behaviour, on one part of the system or on several.                     *)
(***************************************************************************)
EXTENDS Phone

Outside(web, http, ws, sockets, frames, host, docs, kills, hands) ==
  [web |-> web, http |-> http, ws |-> ws, sockets |-> sockets,
   frames |-> frames, host |-> host, docs |-> docs, kills |-> kills,
   hands |-> hands]

MCBudgets ==
  {Outside(2, 2, 0, 0, 0, 0, 0, 0, 0), Outside(0, 0, 1, 3, 0, 0, 0, 0, 0),
   Outside(0, 0, 1, 1, 3, 0, 0, 0, 0),
   Outside(1, 1, 0, 0, 0, 1, 0, 0, 0), Outside(1, 0, 0, 0, 0, 2, 0, 0, 0),
   Outside(0, 0, 0, 0, 0, 4, 0, 0, 0),
   Outside(1, 1, 1, 0, 0, 0, 0, 0, 0), Outside(1, 0, 1, 1, 0, 0, 0, 0, 0),
   Outside(1, 1, 0, 0, 0, 0, 1, 0, 0),
   Outside(0, 0, 0, 0, 0, 0, 2, 1, 0),
   Outside(0, 0, 0, 0, 0, 0, 0, 0, 1), Outside(0, 0, 0, 0, 0, 0, 0, 0, 2)}

\* A page of words, and a blank one to the end of the book.
MCBook == <<TRUE, FALSE>>

Wish(a, s, r) == [aloud |-> a, speed |-> s, rocker |-> r]

\* One move of the hands: whatever is on.  Two: read aloud alone.
MCWishes ==
  <<{Wish(FALSE, TRUE, FALSE), Wish(TRUE, FALSE, TRUE)},
    {Wish(TRUE, FALSE, FALSE)}>>
=============================================================================
