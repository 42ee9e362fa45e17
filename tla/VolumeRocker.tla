---------------------------- MODULE VolumeRocker ----------------------------
(***************************************************************************)
(* The volume keys as gestures (src/ios/CrossPointVolumeButtons.mm).  To   *)
(* hear of a press the app must have an audio session; it borrows the one  *)
(* read aloud speaks through, under a category that plays nothing, and     *)
(* gives way to read aloud.  What a press does is left out.                *)
(***************************************************************************)
EXTENDS ReadAloud

VARIABLE rocker   \* g_armed, and g_sessionTaken

RockerTypeOK == rocker \in [armed : BOOLEAN, taken : BOOLEAN]
Disarmed == [armed |-> FALSE, taken |-> FALSE]
RockerInit == rocker = Disarmed

\* takeAudioSession
Borrow(a, refused) ==
  /\ aloud' = IF a.held THEN a ELSE [a EXCEPT !.category = "Ambient"]
  /\ rocker' = [armed |-> TRUE,
                taken |-> rocker.taken \/ (~a.held /\ ~refused)]

Arm ==
  /\ ~rocker.armed
  /\ \E refused \in BOOLEAN : Borrow(aloud, refused)

\* disarm(): releasing the session leaves its category as it is.
Disarm ==
  /\ rocker.armed
  /\ rocker' = Disarmed
  /\ UNCHANGED aloud

\* releaseAudioSessionWhenIdle: read aloud has been off for a while and hands
\* the session back; the rocker takes it over.  A busy session is tried again.
SessionIsReleased ==
  /\ aloud.held /\ aloud.state = "Off"
  /\ LET free == [aloud EXCEPT !.held = FALSE]
     IN  IF rocker.armed THEN \E refused \in BOOLEAN : Borrow(free, refused)
         ELSE aloud' = free /\ UNCHANGED rocker
=============================================================================
