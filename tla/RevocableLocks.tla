---------------------------- MODULE RevocableLocks ----------------------------
(***************************************************************************)
(* What the mutexes of the FreeRTOS shim promise across a reboot, seen     *)
(* from who is inside of which: one thread at a time, but for the strays,  *)
(* the threads that were inside when a reboot released the mutex and whose *)
(* stacks live on.                                                         *)
(***************************************************************************)
CONSTANTS Threads, Mutexes

VARIABLES
  within,  \* within[m]: the threads inside of m
  strays   \* strays[m]: those of them under whom m was released
rvars == <<within, strays>>

Init ==
  /\ within = [m \in Mutexes |-> {}]
  /\ strays = [m \in Mutexes |-> {}]

\* Only strays can be met inside.
Enter(t, m) ==
  /\ within[m] \subseteq strays[m] /\ t \notin within[m]
  /\ within' = [within EXCEPT ![m] = @ \cup {t}]
  /\ UNCHANGED strays

Leave(t, m) ==
  /\ t \in within[m]
  /\ within' = [within EXCEPT ![m] = @ \ {t}]
  /\ strays' = [strays EXCEPT ![m] = @ \ {t}]

Revoke(m) ==
  /\ strays' = [strays EXCEPT ![m] = within[m]]
  /\ UNCHANGED within

\* A thread's stack is thrown away, whatever it was inside of being revoked.
Vanish(t) ==
  /\ \A m \in Mutexes : t \in within[m] => t \in strays[m]
  /\ within' = [m \in Mutexes |-> within[m] \ {t}]
  /\ strays' = [m \in Mutexes |-> strays[m] \ {t}]

Next ==
  \/ \E t \in Threads, m \in Mutexes : Enter(t, m) \/ Leave(t, m)
  \/ \E m \in Mutexes : Revoke(m)
  \/ \E t \in Threads : Vanish(t)

Spec == Init /\ [][Next]_rvars
===============================================================================
