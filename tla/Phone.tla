-------------------------------- MODULE Phone --------------------------------
(***************************************************************************)
(* The iOS app: file transfers, handed-over books and the idle timer       *)
(* (FileTransfer) and reading without hands (HandsFree) on one main thread.*)
(* While a route handler, an import or a stop() has the main thread,       *)
(* nothing of HandsFree that runs there runs; while the device sleeps the  *)
(* frame of the harness is not run at all, and a magic tap is still heard; *)
(* the engine, the render task and the phone go on.  Every reboot is a     *)
(* reboot of both.                                                         *)
(***************************************************************************)
EXTENDS FileTransfer, HandsFree

CONSTANT Wishes   \* bound: the settings that n moves of the hands start with
ASSUME WishAssumption ==
  \A b \in Budgets : b.hands > 0 => Wishes[b.hands] \subseteq Settings

phoneVars == <<vars, handsVars>>

PhoneTypeOK == TypeOK /\ HandsTypeOK

\* Without a move of the hands, HandsFree is at rest: Home, nothing wished.
PhoneInit ==
  /\ Init /\ HandsInit
  /\ IF budget.hands > 0 THEN wish \in Wishes[budget.hands]
     ELSE wish = [aloud |-> FALSE, speed |-> FALSE, rocker |-> FALSE]
          /\ reader.at = Closed

TransferSame == UNCHANGED vars
TransferSpends ==
  Spend("hands") /\ ServersSame /\ AwakeSame /\ DocSame

\* The frame of the main loop: not asleep, and not inside a call.
HandsFrame == MainInLoop /\ HandsMain

PhoneNext ==
  \/ Step /\ UNCHANGED handsVars
  \/ HostSleeps /\ HandsSleep
  \/ RebootStep /\ HandsReboot
  \/ Kill /\ HandsRelaunch /\ (budget.hands = 0 => reader'.at = Closed)
  \/ (HandsFrame \/ RenderTask \/ Engine) /\ TransferSame
  \/ /\ (MainInLoop /\ HandsOwner) \/ (MainIsFree /\ MagicTouch) \/ HandsOutside
     /\ TransferSpends

PhoneSpec == PhoneInit /\ [][PhoneNext]_phoneVars

PhoneFair == PhoneSpec /\ Fairness /\ WF_handsVars(MainInLoop /\ HarnessRuns)

-----------------------------------------------------------------------------
\* Once nothing is being read, the phone's audio is given back to whoever was
\* playing: no page that never comes, no end of the book and no busy session
\* keeps it.  A device that falls asleep first is left out: releaseSession is
\* done by the frames.
AudioIsGivenBack ==
  <>[](~Live(aloud) /\ ~asleep) => <>[](~aloud.held)
=============================================================================
