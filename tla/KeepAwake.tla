----------------------------- MODULE KeepAwake -----------------------------
(***************************************************************************)
(* Who holds the phone's idle timer: the lease of an update run            *)
(* (src/src/SimKeepAwake.h), applied by one pass of the main loop, the     *)
(* owner's preference (applyKeepScreenAwake of src/src/simulator_main.cpp) *)
(* and the hops of setKeepAwake (src/src/SimHostScreen.h), which a file    *)
(* transfer sends to the main queue.  All of them run on the main thread.  *)
(*                                                                         *)
(* SDL's screen saver calls write the same idle timer                      *)
(* (SimKeepAwake.h:56-59).  The lease and the applied preference are       *)
(* statics: the in-process reboot does not clear them.                     *)
(***************************************************************************)
EXTENDS Naturals, Sequences

VARIABLES
  wanted,        \* g_wanted: an update run is working
  foreground,    \* g_foreground
  lease,         \* applyOnMainThread's lease: held, previous
  reapply,       \* g_reapplyPreference
  applied,       \* applyKeepScreenAwake's applied, 1 and 0
  preference,    \* what the owner wants, cable and battery considered
  idleDisabled,  \* UIApplication.idleTimerDisabled
  hops,          \* setKeepAwake calls the main queue still holds
  asleep         \* the main thread is in the deep-sleep loop

awakeVars == <<wanted, foreground, lease, reapply, applied, preference,
               idleDisabled, hops, asleep>>

OnOff(b) == IF b THEN "on" ELSE "off"

AwakeTypeOK ==
  /\ wanted \in BOOLEAN /\ foreground \in BOOLEAN
  /\ lease \in [held : BOOLEAN, previous : BOOLEAN]
  /\ reapply \in BOOLEAN /\ applied \in {"on", "off"}
  /\ preference \in BOOLEAN /\ idleDisabled \in BOOLEAN
  /\ hops \in Seq(BOOLEAN)
  /\ asleep \in BOOLEAN

\* main() has applied the preference before the first loop().
AwakeInit ==
  /\ wanted = FALSE /\ foreground = TRUE
  /\ lease = [held |-> FALSE, previous |-> FALSE]
  /\ reapply = FALSE
  /\ preference \in BOOLEAN
  /\ applied = OnOff(preference) /\ idleDisabled = preference
  /\ hops = <<>> /\ asleep = FALSE

-----------------------------------------------------------------------------
(* Outside the pass.                                                       *)

\* An update activity starts to work, or stops for whatever reason.
Request(w) ==
  /\ ~asleep /\ wanted # w
  /\ wanted' = w
  /\ UNCHANGED <<foreground, lease, reapply, applied, preference,
                 idleDisabled, hops, asleep>>

SetForeground(f) ==
  /\ foreground # f
  /\ foreground' = f
  /\ UNCHANGED <<wanted, lease, reapply, applied, preference,
                 idleDisabled, hops, asleep>>

\* The cable comes out, the charger comes in, or the owner changes the setting.
PreferenceFlips ==
  /\ preference' = ~preference
  /\ UNCHANGED <<wanted, foreground, lease, reapply, applied,
                 idleDisabled, hops, asleep>>

SetKeepAwake(keep) ==
  /\ hops' = Append(hops, keep)
  /\ UNCHANGED <<wanted, foreground, lease, reapply, applied, preference,
                 idleDisabled, asleep>>

\* The main queue is served where the main thread polls its events.
HopLands ==
  /\ hops # <<>>
  /\ idleDisabled' = Head(hops) /\ hops' = Tail(hops)
  /\ UNCHANGED <<wanted, foreground, lease, reapply, applied, preference,
                 asleep>>

-----------------------------------------------------------------------------
(* The pass.  What it reads changes on its own thread or is read once, so  *)
(* the lease and the preference make one step.                             *)

Effective == wanted /\ foreground

\* Mutant: a lease that is held is not asserted again.
LeaseStepOnce ==
  [lease |-> IF Effective /\ ~lease.held
             THEN [held |-> TRUE, previous |-> idleDisabled]
             ELSE [lease EXCEPT !.held = Effective],
   reapply |-> reapply \/ (~Effective /\ lease.held),
   idleDisabled |-> IF Effective = lease.held THEN idleDisabled
                    ELSE Effective \/ lease.previous]

\* Mutant: the preference is not asked to apply again.
LeaseStepForgetting ==
  [lease |-> IF Effective /\ ~lease.held
             THEN [held |-> TRUE, previous |-> idleDisabled]
             ELSE [lease EXCEPT !.held = Effective],
   reapply |-> reapply,
   idleDisabled |-> Effective \/ (IF lease.held THEN lease.previous
                                                ELSE idleDisabled)]

\* Lease::step, and what the host does for its answer: the lease, the flag it
\* raises for the preference, and the idle timer, after one call.
LeaseStep ==
  [lease |-> IF Effective /\ ~lease.held
             THEN [held |-> TRUE, previous |-> idleDisabled]
             ELSE [lease EXCEPT !.held = Effective],
   reapply |-> reapply \/ (~Effective /\ lease.held),
   idleDisabled |-> Effective \/ (IF lease.held THEN lease.previous
                                                ELSE idleDisabled)]

\* applyKeepScreenAwake, on the flag and the idle timer it finds: it writes
\* only when the preference is not the one it applied last.
PreferenceStep(again, idle) ==
  /\ reapply' = FALSE
  /\ applied' = OnOff(preference)
  /\ idleDisabled' = IF applied = OnOff(preference) /\ ~again
                     THEN idle ELSE preference

MainLoopPass ==
  /\ ~asleep
  /\ LET after == LeaseStep
     IN  /\ lease' = after.lease
         /\ PreferenceStep(after.reapply, after.idleDisabled)
  /\ UNCHANGED <<wanted, foreground, preference, hops, asleep>>

\* startDeepSleep leaves the main loop for its own, which applies the lease
\* but not the preference, until a wake reboots.
FallAsleep ==
  /\ ~asleep /\ asleep' = TRUE
  /\ UNCHANGED <<wanted, foreground, lease, reapply, applied, preference,
                 idleDisabled, hops>>

SleepPass ==
  /\ asleep
  /\ LET after == LeaseStep
     IN  /\ lease' = after.lease /\ reapply' = after.reapply
         /\ idleDisabled' = after.idleDisabled
  /\ UNCHANGED <<wanted, foreground, applied, preference, hops, asleep>>

\* The reset hooks withdraw the request; setup() runs, then the preference.
Reboot ==
  /\ asleep' = FALSE /\ wanted' = FALSE
  /\ PreferenceStep(reapply, idleDisabled)
  /\ UNCHANGED <<foreground, lease, preference, hops>>

PassRuns == MainLoopPass \/ SleepPass
=============================================================================
