-------------------------------- MODULE SimRtos --------------------------------
(***************************************************************************)
(* The FreeRTOS shim: recursive mutexes (src/freertos/semphr.h), tasks and *)
(* their notifications (src/freertos/task.h), and the in-process reboot    *)
(* that re-enters setup() by longjmp while every other thread runs on      *)
(* (src/SimulatorLifecycle.cpp, src/simulator_main.cpp).                   *)
(*                                                                         *)
(* Each critical section of a mutex's own lock is one action.  The         *)
(* condition variables are explicit: a thread whose predicate is false is  *)
(* in "asleep" until a notify takes it out.  What the firmware does with   *)
(* the shim is left open, but that it gives what it took (RenderLock is    *)
(* RAII): inside[t][m] counts the takes thread t's program is inside of.   *)
(***************************************************************************)
EXTENDS Integers, FiniteSets

CONSTANTS
  Main,            \* the thread main() and the firmware's loop run on
  Workers,         \* the threads xTaskCreate may start, each at most once
  Hosts,           \* host threads xTaskCreate did not start; they share Main's handle
  Names,           \* task names
  Mutexes,         \* every mutex created, none of them ever destroyed
  Nobody,
  DeletesRunning,  \* whether the firmware deletes tasks that still run
  MaxNest,         \* bound: how deep a thread nests takes of one mutex
  MaxNotes         \* bound: notifications pending on one task

Threads == {Main} \cup Workers \cup Hosts
Handles == {Main} \cup Workers

ASSUME SimRtosAssumption ==
  /\ Main \notin Workers \cup Hosts /\ Workers \cap Hosts = {}
  /\ Nobody \notin Threads \cup Mutexes
  /\ Threads \cap Mutexes = {}
  /\ DeletesRunning \in BOOLEAN
  /\ MaxNest \in Nat \ {0} /\ MaxNotes \in Nat \ {0}

VARIABLES
  owner, holder, holdCount,  \* SimMutex: owner token, reported holder, count
  inside,                    \* takes each thread's stack is inside of
  stale,                     \* history: takes a reboot released under a live stack
  pc, target,                \* where each thread is, and on which mutex
  asleep,                    \* threads waiting on a condition variable
  registry,                  \* simTaskRegistry: name -> handle
  taskName, freed,           \* a handle's name; handles deleted
  notifyCount,
  toRelease                  \* what forceReleaseAllForReboot has yet to release

lockVars == <<owner, holder, holdCount>>
taskVars == <<registry, taskName, freed>>
vars == <<lockVars, inside, stale, pc, target, asleep, taskVars, notifyCount,
          toRelease>>

Handle(t) == IF t \in Hosts THEN Main ELSE t  \* xTaskGetCurrentTaskHandle
-----------------------------------------------------------------------------
Init ==
  /\ owner = [m \in Mutexes |-> Nobody] /\ holder = [m \in Mutexes |-> Nobody]
  /\ holdCount = [m \in Mutexes |-> 0]
  /\ inside = [t \in Threads |-> [m \in Mutexes |-> 0]]
  /\ stale = {}
  /\ pc = [t \in Threads |-> IF t \in Workers THEN "unborn" ELSE "run"]
  /\ target = [t \in Threads |-> Nobody]
  /\ asleep = {}
  /\ registry = [n \in Names |-> Nobody]
  /\ taskName = [w \in Workers |-> Nobody]
  /\ freed = {}
  /\ notifyCount = [h \in Handles |-> 0]
  /\ toRelease = {}

Waiting(t, m) == pc[t] = "taking" /\ target[t] = m

\* cv.notify_all on a mutex.
AwakenedBy(m) == {t \in asleep : Waiting(t, m)}

\* The thread is about to look at the mutex's predicate, for the first time or
\* woken.
Tries(t, m) ==
  /\ pc[t] = "run" \/ (Waiting(t, m) /\ t \notin asleep)
  /\ inside[t][m] < MaxNest
-----------------------------------------------------------------------------
(* xSemaphoreTake, xSemaphoreGive. *)

\* Mutant: the lock keyed on the task handle, which host threads share with
\* main.
ReadyByHandle(t, m) == holdCount[m] = 0 \/ holder[m] = Handle(t)

Ready(t, m) == holdCount[m] = 0 \/ owner[m] = t

Take(t, m) ==
  /\ Tries(t, m) /\ Ready(t, m)
  /\ owner' = [owner EXCEPT ![m] = t]
  /\ holder' = [holder EXCEPT ![m] = Handle(t)]
  /\ holdCount' = [holdCount EXCEPT ![m] = @ + 1]
  /\ inside' = [inside EXCEPT ![t][m] = @ + 1]
  /\ pc' = [pc EXCEPT ![t] = "run"]
  /\ target' = [target EXCEPT ![t] = Nobody]
  /\ UNCHANGED <<stale, asleep, taskVars, notifyCount, toRelease>>

Park(t, m) ==
  /\ Tries(t, m) /\ ~Ready(t, m)
  /\ pc' = [pc EXCEPT ![t] = "taking"]
  /\ target' = [target EXCEPT ![t] = m]
  /\ asleep' = asleep \cup {t}
  /\ UNCHANGED <<lockVars, inside, stale, taskVars, notifyCount, toRelease>>

\* The thread's own record of a give.
Leave(t, m) ==
  /\ inside' = [inside EXCEPT ![t][m] = @ - 1]
  /\ stale' = IF inside[t][m] = 1 THEN stale \ {<<t, m>>} ELSE stale

\* Mutant: a give that trusts its caller.
GiveUnchecked(t, m) ==
  /\ pc[t] = "run" /\ inside[t][m] > 0
  /\ Leave(t, m)
  /\ holdCount' = [holdCount EXCEPT ![m] = @ - 1]
  /\ IF holdCount[m] = 1
     THEN /\ owner' = [owner EXCEPT ![m] = Nobody]
          /\ holder' = [holder EXCEPT ![m] = Nobody]
          /\ asleep' = asleep \ AwakenedBy(m)
     ELSE UNCHANGED <<owner, holder, asleep>>
  /\ UNCHANGED <<pc, target, taskVars, notifyCount, toRelease>>

\* A give from a thread that does not hold the mutex changes nothing in it.
Give(t, m) ==
  /\ pc[t] = "run" /\ inside[t][m] > 0
  /\ Leave(t, m)
  /\ IF holdCount[m] = 0 \/ owner[m] # t
     THEN UNCHANGED <<lockVars, asleep>>
     ELSE /\ holdCount' = [holdCount EXCEPT ![m] = @ - 1]
          /\ IF holdCount[m] = 1
             THEN /\ owner' = [owner EXCEPT ![m] = Nobody]
                  /\ holder' = [holder EXCEPT ![m] = Nobody]
                  /\ asleep' = asleep \ AwakenedBy(m)
             ELSE UNCHANGED <<owner, holder, asleep>>
  /\ UNCHANGED <<pc, target, taskVars, notifyCount, toRelease>>
-----------------------------------------------------------------------------
(* xTaskCreate, vTaskDelete.  The registry has no lock: only Main calls these. *)

\* Mutant: no dedupe by name.
CreateAlways(n, w) ==
  /\ pc[Main] = "run" /\ pc[w] = "unborn"
  /\ registry' = [registry EXCEPT ![n] = w]
  /\ taskName' = [taskName EXCEPT ![w] = n]
  /\ pc' = [pc EXCEPT ![w] = "run"]
  /\ UNCHANGED <<lockVars, inside, stale, target, asleep, freed, notifyCount,
                 toRelease>>

\* A name with an entry gets that entry's handle back and nothing is started.
Create(n, w) ==
  /\ pc[Main] = "run" /\ pc[w] = "unborn"
  /\ registry[n] = Nobody
  /\ registry' = [registry EXCEPT ![n] = w]
  /\ taskName' = [taskName EXCEPT ![w] = n]
  /\ pc' = [pc EXCEPT ![w] = "run"]
  /\ UNCHANGED <<lockVars, inside, stale, target, asleep, freed, notifyCount,
                 toRelease>>

\* The task's function returns (vTaskDelete(NULL) before it does nothing); its
\* locks were RAII.  Nobody tells the registry.
TaskReturns(w) ==
  /\ pc[w] = "run"
  /\ \A m \in Mutexes : inside[w][m] = 0
  /\ pc' = [pc EXCEPT ![w] = "over"]
  /\ UNCHANGED <<lockVars, inside, stale, target, asleep, taskVars, notifyCount,
                 toRelease>>

\* The thread is detached, not stopped: one that still runs runs on.
Delete(w) ==
  /\ pc[Main] = "run"
  /\ pc[w] # "unborn" /\ w \notin freed
  /\ DeletesRunning \/ pc[w] = "over"
  /\ registry' = [n \in Names |-> IF registry[n] = w THEN Nobody ELSE registry[n]]
  /\ freed' = freed \cup {w}
  /\ UNCHANGED <<lockVars, inside, stale, pc, target, asleep, taskName,
                 notifyCount, toRelease>>
-----------------------------------------------------------------------------
(* xTaskNotify, ulTaskNotifyTake. *)

\* Mutant: the count goes up and the waiter sleeps on.
NotifySilently(t, h) ==
  /\ pc[t] = "run" /\ h \notin freed /\ (h = Main \/ pc[h] # "unborn")
  /\ notifyCount[h] < MaxNotes
  /\ notifyCount' = [notifyCount EXCEPT ![h] = @ + 1]
  /\ UNCHANGED <<lockVars, inside, stale, pc, target, asleep, taskVars, toRelease>>

\* The signal follows the unlock; nothing tells that apart from its being inside.
Notify(t, h) ==
  /\ pc[t] = "run" /\ h \notin freed /\ (h = Main \/ pc[h] # "unborn")
  /\ notifyCount[h] < MaxNotes
  /\ notifyCount' = [notifyCount EXCEPT ![h] = @ + 1]
  /\ asleep' = IF pc[h] = "noteWait" THEN asleep \ {h} ELSE asleep
  /\ UNCHANGED <<lockVars, inside, stale, pc, target, taskVars, toRelease>>

\* A thread waits on its own handle; one whose handle was freed must not.
TriesNote(h) ==
  h \notin freed /\ (pc[h] = "run" \/ (pc[h] = "noteWait" /\ h \notin asleep))

NoteTake(h) ==
  /\ TriesNote(h) /\ notifyCount[h] > 0
  /\ notifyCount' = [notifyCount EXCEPT ![h] = @ - 1]
  /\ pc' = [pc EXCEPT ![h] = "run"]
  /\ UNCHANGED <<lockVars, inside, stale, target, asleep, taskVars, toRelease>>

NotePark(h) ==
  /\ TriesNote(h) /\ notifyCount[h] = 0
  /\ pc' = [pc EXCEPT ![h] = "noteWait"]
  /\ asleep' = asleep \cup {h}
  /\ UNCHANGED <<lockVars, inside, stale, target, taskVars, notifyCount, toRelease>>
-----------------------------------------------------------------------------
(* The in-process reboot, from wherever Main's stack is. *)

BeginReboot ==
  /\ pc[Main] = "run"
  /\ pc' = [pc EXCEPT ![Main] = "rebooting"]
  /\ toRelease' = Mutexes
  /\ UNCHANGED <<lockVars, inside, stale, target, asleep, taskVars, notifyCount>>

\* Mutants: the locks kept; the waiters left asleep.
ReleaseNothing(m) ==
  /\ m \in toRelease
  /\ toRelease' = toRelease \ {m}
  /\ UNCHANGED <<lockVars, inside, stale, pc, target, asleep, taskVars, notifyCount>>
ReleaseSilently(m) ==
  /\ m \in toRelease
  /\ toRelease' = toRelease \ {m}
  /\ owner' = [owner EXCEPT ![m] = Nobody]
  /\ holder' = [holder EXCEPT ![m] = Nobody]
  /\ holdCount' = [holdCount EXCEPT ![m] = 0]
  /\ stale' = stale \cup {<<t, m>> : t \in {u \in Threads : inside[u][m] > 0}}
  /\ UNCHANGED <<inside, pc, target, asleep, taskVars, notifyCount>>

\* forceReleaseAllForReboot, mutex by mutex, each under its own lock.
Release(m) ==
  /\ m \in toRelease
  /\ toRelease' = toRelease \ {m}
  /\ owner' = [owner EXCEPT ![m] = Nobody]
  /\ holder' = [holder EXCEPT ![m] = Nobody]
  /\ holdCount' = [holdCount EXCEPT ![m] = 0]
  /\ asleep' = asleep \ AwakenedBy(m)
  /\ stale' = stale \cup {<<t, m>> : t \in {u \in Threads : inside[u][m] > 0}}
  /\ UNCHANGED <<inside, pc, target, taskVars, notifyCount>>

\* longjmp: Main's stack is gone, without its destructors; setup() runs again.
Jump ==
  /\ pc[Main] = "rebooting" /\ toRelease = {}
  /\ inside' = [inside EXCEPT ![Main] = [m \in Mutexes |-> 0]]
  /\ stale' = {s \in stale : s[1] # Main}
  /\ pc' = [pc EXCEPT ![Main] = "run"]
  /\ UNCHANGED <<lockVars, target, asleep, taskVars, notifyCount, toRelease>>
-----------------------------------------------------------------------------
Reboots == BeginReboot \/ (\E m \in Mutexes : Release(m)) \/ Jump

Next ==
  \/ \E t \in Threads, m \in Mutexes : Take(t, m) \/ Park(t, m) \/ Give(t, m)
  \/ \E n \in Names, w \in Workers : Create(n, w)
  \/ \E w \in Workers : TaskReturns(w) \/ Delete(w)
  \/ \E t \in Threads, h \in Handles : Notify(t, h)
  \/ \E h \in Handles : NoteTake(h) \/ NotePark(h)
  \/ Reboots

Spec == Init /\ [][Next]_vars

\* A thread inside a shim call is scheduled, and a reboot under way goes on.
\* Nothing is assumed of the firmware, nor of who wins a contended lock.
FairSpec ==
  /\ Spec
  /\ \A t \in Threads, m \in Mutexes : WF_vars(Waiting(t, m) /\ (Take(t, m) \/ Park(t, m)))
  /\ \A h \in Handles : WF_vars(pc[h] = "noteWait" /\ (NoteTake(h) \/ NotePark(h)))
  /\ WF_vars((\E m \in Mutexes : Release(m)) \/ Jump)
-----------------------------------------------------------------------------
TypeOK ==
  /\ owner \in [Mutexes -> Threads \cup {Nobody}]
  /\ holder \in [Mutexes -> Handles \cup {Nobody}]
  /\ holdCount \in [Mutexes -> Nat]
  /\ inside \in [Threads -> [Mutexes -> 0..MaxNest]]
  /\ stale \subseteq Threads \X Mutexes
  /\ pc \in [Threads -> {"unborn", "run", "taking", "noteWait", "rebooting", "over"}]
  /\ target \in [Threads -> Mutexes \cup {Nobody}]
  /\ asleep \subseteq Threads
  /\ registry \in [Names -> Workers \cup {Nobody}]
  /\ taskName \in [Workers -> Names \cup {Nobody}]
  /\ freed \subseteq Workers
  /\ notifyCount \in [Handles -> 0..MaxNotes]
  /\ toRelease \subseteq Mutexes

\* A taken mutex has a holder whose stack really is inside of it, as often as
\* the count says: no reboot leaves a lock with an owner that is gone, and the
\* handle reported is the owner's.
HolderIsInside ==
  \A m \in Mutexes :
    IF holdCount[m] = 0 THEN owner[m] = Nobody /\ holder[m] = Nobody
    ELSE /\ owner[m] \in Threads
         /\ holder[m] = Handle(owner[m])
         /\ holdCount[m] <= inside[owner[m]][m]

\* A thread inside a mutex that no reboot released under it holds that mutex at
\* exactly its own depth, whatever threads with a stale take give meanwhile.
\* So two threads are never both in it but for a stale one.
CountIsDepth ==
  \A t \in Threads, m \in Mutexes :
    inside[t][m] > 0 /\ <<t, m>> \notin stale =>
      owner[m] = t /\ holdCount[m] = inside[t][m]

\* No lost wakeup: who sleeps has nothing to do, across gives, notifications and
\* the reboot's releases.
NoLostWakeup ==
  \A t \in asleep :
    \/ pc[t] = "taking" /\ ~Ready(t, target[t])
    \/ pc[t] = "noteWait" /\ (t \notin freed => notifyCount[t] = 0)

Live(w) == pc[w] \notin {"unborn", "over"}

\* However often setup() runs again, one thread per task name: "two threads
\* writing one framebuffer" (task.h:25-32) cannot be, as long as the firmware
\* deletes no task that still runs, for that one runs on.
OneThreadPerName ==
  \A v, w \in Workers : Live(v) /\ Live(w) /\ taskName[v] = taskName[w] => v = w

\* xTaskCreate never hands back a handle that was deleted.
NoFreedHandle == \A n \in Names : registry[n] \notin freed

\* Only its owner's own give, or the reboot, ever lowers a mutex's count: the
\* late give of a holder the reboot released does not free another's lock.
OnlyOwnersGive ==
  [][\A m \in Mutexes : holdCount'[m] < holdCount[m] =>
       \/ m \in toRelease /\ m \notin toRelease'
       \/ owner[m] \in Threads /\ inside'[owner[m]][m] < inside[owner[m]][m]]_vars

\* Nobody waits for ever on a lock that nobody holds: after a reboot the render
\* task gets its next frame.
FreeLocksAreTaken ==
  \A t \in Threads, m \in Mutexes : []<>~(Waiting(t, m) /\ holdCount[m] = 0)

\* A task that was notified runs, unless it is deleted first.
NotifiedTasksRun ==
  \A h \in Handles :
    pc[h] = "noteWait" /\ notifyCount[h] > 0 /\ h \notin freed
      ~> pc[h] = "run" \/ h \in freed
-----------------------------------------------------------------------------
(* What the comments say, and the code does not do. *)

\* The one stack the reboot is about to abandon.
Abandoned(t) == t = Main /\ pc[Main] = "rebooting"

\* semphr.h:64-66 (and SimulatorLifecycle.cpp:113-114): the reboot releases the
\* locks of threads that "are about to be abandoned along with their stacks", so
\* among the other stacks the lock goes on excluding.  But only Main's stack is
\* abandoned: a render task in the middle of a frame stays in, and Main comes in
\* beside it after the jump.
MutualExclusion ==
  \A t, u \in Threads, m \in Mutexes :
    ~Abandoned(t) /\ ~Abandoned(u) /\ inside[t][m] > 0 /\ inside[u][m] > 0
      => t = u
===============================================================================
