------------------------------- MODULE BytePipe -------------------------------
(***************************************************************************)
(* What sim_http_fetch::Stream promises its reader (src/SimHttpStream.h):  *)
(* the bytes of one response, each once and in order, then exactly one of  *)
(* a clean end or an error, whichever way the transfer is cut into chunks, *)
(* however the two threads interleave, and without saying how the bytes    *)
(* are held in between.                                                    *)
(***************************************************************************)
EXTENDS Integers, Sequences

VARIABLES
  sent,       \* how many body bytes the transport has handed over
  delivered,  \* the bytes the reader was given; byte k of the body is k
  ended,      \* "no", "clean" or "failed": how the transfer ended
  closed,     \* the reader gave the transfer up
  told        \* what the last read answered

pvars == <<sent, delivered, ended, closed, told>>

NextBytes(n) == [i \in 1..n |-> Len(delivered) + i]

Init ==
  /\ sent = 0
  /\ delivered = <<>>
  /\ ended = "no"
  /\ closed = FALSE
  /\ told = "nothing"

\* Bytes come in and the transfer may end with them.  Nothing follows an end,
\* and nothing but the end follows the reader's giving up.
Arrive ==
  /\ ended = "no"
  /\ sent' \in Nat
  /\ sent' >= sent
  /\ sent' > sent => ~closed
  /\ ended' \in {"no", "clean", "failed"}
  /\ UNCHANGED <<delivered, closed, told>>

Deliver ==
  \E n \in 1..(sent - Len(delivered)) :
    /\ delivered' = delivered \o NextBytes(n)
    /\ told' = "data"
    /\ UNCHANGED <<sent, ended, closed>>

\* An end or an error is told only when there is no byte left to hand over.
TellEnd ==
  /\ ended = "clean"
  /\ Len(delivered) = sent
  /\ told' = "end"
  /\ UNCHANGED <<sent, delivered, ended, closed>>

TellError ==
  /\ ended = "failed" \/ closed
  /\ Len(delivered) = sent
  /\ told' = "error"
  /\ UNCHANGED <<sent, delivered, ended, closed>>

Close ==
  /\ closed' = TRUE
  /\ UNCHANGED <<sent, delivered, ended, told>>

Next == Arrive \/ Deliver \/ TellEnd \/ TellError \/ Close

Spec == Init /\ [][Next]_pvars
===============================================================================
