----------------------------- MODULE SimRtosProofs -----------------------------
(***************************************************************************)
(* SimRtos for any number of threads, mutexes and task names, and any      *)
(* depth of nesting: the inductive invariant has three independent parts   *)
(* (the locks, the sleepers, the task registry), each kept by every step.  *)
(***************************************************************************)
EXTENDS SimRtos, TLAPS

\* A reboot under way has taken from Main every mutex it has already released.
MainLetsGo ==
  /\ toRelease # {} => pc[Main] = "rebooting"
  /\ pc[Main] = "rebooting" => \A m \in Mutexes \ toRelease : owner[m] # Main
Locks == HolderIsInside /\ CountIsDepth /\ MainLetsGo

\* Where a thread waits, its target says on what.
Places ==
  /\ \A t \in Threads : pc[t] = "taking" => target[t] \in Mutexes
  /\ \A t \in Threads : pc[t] = "noteWait" => t \in Handles
Sleepers == NoLostWakeup /\ Places

\* Every thread that was started is the one registered under its name, unless
\* its handle was deleted; and then it had ended.
Registered ==
  /\ \A n \in Names : registry[n] # Nobody =>
       taskName[registry[n]] = n /\ pc[registry[n]] # "unborn" /\ registry[n] \notin freed
  /\ \A w \in Workers : pc[w] # "unborn" /\ w \notin freed =>
       taskName[w] \in Names /\ registry[taskName[w]] = w
  /\ \A w \in freed : pc[w] # "unborn" /\ (~DeletesRunning => pc[w] = "over")
  /\ \A w \in Workers : pc[w] # "unborn" => taskName[w] \in Names

IInv == TypeOK /\ Locks /\ Sleepers /\ Registered
-----------------------------------------------------------------------------
\* The initial state has no lock taken, nobody asleep and no task.
LEMMA InitInv == ASSUME Init PROVE IInv
<1> USE SimRtosAssumption DEF Init, Threads, Handles
<1>1. TypeOK
  BY DEF TypeOK
<1>2. Locks
  BY DEF Locks, HolderIsInside, CountIsDepth, MainLetsGo
<1>3. Sleepers
  BY DEF Sleepers, NoLostWakeup, Places
<1>4. Registered
  BY DEF Registered
<1> QED BY <1>1, <1>2, <1>3, <1>4 DEF IInv

\* Every step keeps the types.
LEMMA TypeStep == ASSUME TypeOK, [Next]_vars PROVE TypeOK'
<1> USE SimRtosAssumption DEF TypeOK, Threads, Handles, lockVars, taskVars
<1>1. ASSUME NEW t \in Threads, NEW m \in Mutexes, Take(t, m) PROVE TypeOK'
  BY <1>1 DEF Take, Handle, Tries
<1>2. ASSUME NEW t \in Threads, NEW m \in Mutexes, Park(t, m) PROVE TypeOK'
  BY <1>2 DEF Park
<1>3. ASSUME NEW t \in Threads, NEW m \in Mutexes, Give(t, m) PROVE TypeOK'
  <2>1. inside' \in [Threads -> [Mutexes -> 0..MaxNest]]
    <3>1. inside[t][m] \in 0..MaxNest /\ inside[t][m] > 0
      BY <1>3 DEF Give
    <3>2. inside[t][m] - 1 \in 0..MaxNest
      BY <3>1
    <3> QED BY <1>3, <3>2 DEF Give, Leave
  <2>2. holdCount' \in [Mutexes -> Nat]
    <3>1. holdCount[m] # 0 => holdCount[m] - 1 \in Nat
      OBVIOUS
    <3>2. \/ holdCount' = holdCount
          \/ holdCount[m] # 0 /\ holdCount' = [holdCount EXCEPT ![m] = @ - 1]
      BY <1>3 DEF Give
    <3> QED BY <3>1, <3>2
  <2>3. stale' \subseteq stale /\ asleep' \subseteq asleep
    <3>1. stale' \subseteq stale
      BY <1>3 DEF Give, Leave
    <3>2. asleep' = asleep \/ asleep' = asleep \ AwakenedBy(m)
      BY <1>3, Zenon DEF Give
    <3> QED BY <3>1, <3>2
  <2>4. owner' \in [Mutexes -> Threads \cup {Nobody}] /\ holder' \in [Mutexes -> Handles \cup {Nobody}]
    <3>1. \/ UNCHANGED <<owner, holder>>
          \/ owner' = [owner EXCEPT ![m] = Nobody] /\ holder' = [holder EXCEPT ![m] = Nobody]
      BY <1>3 DEF Give
    <3> QED BY <3>1
  <2>5. UNCHANGED <<pc, target, taskVars, notifyCount, toRelease>>
    BY <1>3 DEF Give
  <2> HIDE DEF Threads, Handles
  <2> QED BY <2>1, <2>2, <2>3, <2>4, <2>5
<1>4. ASSUME NEW n \in Names, NEW w \in Workers, Create(n, w) PROVE TypeOK'
  BY <1>4 DEF Create
<1>5. ASSUME NEW w \in Workers, TaskReturns(w) \/ Delete(w) PROVE TypeOK'
  BY <1>5 DEF TaskReturns, Delete
<1>6. ASSUME NEW t \in Threads, NEW h \in Handles, Notify(t, h) PROVE TypeOK'
  BY <1>6 DEF Notify
<1>7. ASSUME NEW h \in Handles, NoteTake(h) \/ NotePark(h) PROVE TypeOK'
  <2>1. notifyCount[h] > 0 => notifyCount[h] - 1 \in 0..MaxNotes
    OBVIOUS
  <2>2. CASE NoteTake(h)
    BY <2>1, <2>2 DEF NoteTake
  <2>3. CASE NotePark(h)
    BY <2>3 DEF NotePark
  <2> QED BY <1>7, <2>2, <2>3
<1>8. CASE BeginReboot \/ Jump
  BY <1>8 DEF BeginReboot, Jump
<1>9. ASSUME NEW m \in Mutexes, Release(m) PROVE TypeOK'
  BY <1>9 DEF Release, AwakenedBy
<1>10. CASE UNCHANGED vars
  BY <1>10 DEF vars
<1> HIDE DEF TypeOK, Threads, Handles, lockVars, taskVars
<1> QED BY <1>1, <1>2, <1>3, <1>4, <1>5, <1>6, <1>7, <1>8, <1>9, <1>10 DEF Next, Reboots

\* What each step does to the locks, when it touches them.
LEMMA TakeKeepsLocks ==
  ASSUME TypeOK, Locks, NEW t \in Threads, NEW m \in Mutexes, Take(t, m)
  PROVE Locks'
<1> USE SimRtosAssumption DEF TypeOK, Locks
<1>1. /\ owner' = [owner EXCEPT ![m] = t] /\ holder' = [holder EXCEPT ![m] = Handle(t)]
      /\ holdCount' = [holdCount EXCEPT ![m] = @ + 1]
      /\ inside' = [inside EXCEPT ![t][m] = @ + 1]
      /\ UNCHANGED <<stale, toRelease>>
  BY DEF Take
<1>2. holdCount[m] \in Nat /\ \A u \in Threads : inside[u][m] \in Nat
  OBVIOUS
<1>3. holdCount[m] = 0 \/ owner[m] = t
  BY DEF Take, Ready
<1>4. HolderIsInside'
  <2>1. holdCount[m] <= inside[t][m]
    BY <1>2, <1>3 DEF HolderIsInside
  <2>2. ASSUME NEW k \in Mutexes, k # m
        PROVE (IF holdCount[k] = 0 THEN owner[k] = Nobody /\ holder[k] = Nobody
               ELSE /\ owner[k] \in Threads /\ holder[k] = Handle(owner[k])
                    /\ holdCount[k] <= inside[owner[k]][k])'
    BY <1>1, <2>2 DEF HolderIsInside
  <2>3. /\ holdCount'[m] # 0 /\ owner'[m] = t /\ holder'[m] = Handle(t)
        /\ holdCount'[m] <= inside'[t][m]
    BY <1>1, <1>2, <2>1
  <2> QED BY <2>2, <2>3 DEF HolderIsInside
<1>5. CountIsDepth'
  <2> SUFFICES ASSUME NEW u \in Threads, NEW k \in Mutexes,
                      inside'[u][k] > 0, <<u, k>> \notin stale
               PROVE owner'[k] = u /\ holdCount'[k] = inside'[u][k]
    BY <1>1 DEF CountIsDepth
  <2>1. CASE k # m
    BY <1>1, <2>1 DEF CountIsDepth
  <2>2. CASE k = m /\ u # t
    BY <1>1, <1>2, <1>3, <2>2 DEF CountIsDepth
  <2>3. CASE k = m /\ u = t
    <3>1. holdCount[m] = inside[t][m]
      BY <1>2, <1>3, <2>3 DEF CountIsDepth, HolderIsInside
    <3> QED BY <1>1, <1>2, <2>3, <3>1
  <2> QED BY <2>1, <2>2, <2>3
<1>6. MainLetsGo'
  <2>1. pc' = [pc EXCEPT ![t] = "run"] /\ (pc[t] = "run" \/ pc[t] = "taking")
    BY DEF Take, Tries, Waiting
  <2> QED BY <1>1, <2>1 DEF MainLetsGo, Threads
<1> QED BY <1>4, <1>5, <1>6

LEMMA GiveKeepsLocks ==
  ASSUME TypeOK, Locks, NEW t \in Threads, NEW m \in Mutexes, Give(t, m)
  PROVE Locks'
<1> USE SimRtosAssumption DEF TypeOK, Locks
<1>1. /\ pc[t] = "run" /\ inside[t][m] > 0
      /\ inside' = [inside EXCEPT ![t][m] = @ - 1]
      /\ UNCHANGED <<pc, toRelease>>
  BY DEF Give, Leave
<1>2. holdCount[m] \in Nat /\ \A u \in Threads : inside[u][m] \in Nat
  OBVIOUS
<1>3. \A s : s \in stale => s \in stale' \/ (s = <<t, m>> /\ inside[t][m] = 1)
  BY DEF Give, Leave
<1>4. MainLetsGo'
  <2>1. \A k \in Mutexes : owner'[k] = owner[k] \/ owner'[k] = Nobody
    BY DEF Give, lockVars
  <2> QED BY <1>1, <2>1 DEF MainLetsGo, Threads
<1>5. CASE holdCount[m] = 0 \/ owner[m] # t
  <2>1. UNCHANGED lockVars
    BY <1>5 DEF Give
  <2>2. HolderIsInside'
    BY <1>1, <1>5, <2>1 DEF HolderIsInside, lockVars
  <2>3. CountIsDepth'
    <3> SUFFICES ASSUME NEW u \in Threads, NEW k \in Mutexes,
                        inside'[u][k] > 0, <<u, k>> \notin stale'
                 PROVE owner[k] = u /\ holdCount[k] = inside'[u][k]
      BY <2>1 DEF CountIsDepth, lockVars
    <3>1. CASE u = t /\ k = m
      <4>1. inside[t][m] # 1 /\ <<t, m>> \notin stale
        BY <1>1, <1>2, <1>3, <3>1
      <4> QED BY <1>1, <1>2, <1>5, <4>1, <3>1 DEF CountIsDepth
    <3>2. CASE u # t \/ k # m
      <4>1. inside'[u][k] = inside[u][k]
        BY <1>1, <3>2
      <4>2. <<u, k>> \notin stale
        BY <1>3, <3>2
      <4> QED BY <4>1, <4>2 DEF CountIsDepth
    <3> QED BY <3>1, <3>2
  <2> QED BY <1>4, <2>2, <2>3
<1>6. CASE holdCount[m] # 0 /\ owner[m] = t
  <2>1. /\ holdCount' = [holdCount EXCEPT ![m] = @ - 1]
        /\ IF holdCount[m] = 1
           THEN owner' = [owner EXCEPT ![m] = Nobody] /\ holder' = [holder EXCEPT ![m] = Nobody]
           ELSE UNCHANGED <<owner, holder>>
    BY <1>6 DEF Give
  <2>2. holdCount[m] <= inside[t][m]
    BY <1>6 DEF HolderIsInside
  <2>3. HolderIsInside'
    <3>1. ASSUME NEW k \in Mutexes, k # m
          PROVE (IF holdCount[k] = 0 THEN owner[k] = Nobody /\ holder[k] = Nobody
                 ELSE /\ owner[k] \in Threads /\ holder[k] = Handle(owner[k])
                      /\ holdCount[k] <= inside[owner[k]][k])'
      BY <1>1, <2>1, <3>1 DEF HolderIsInside
    <3>2. CASE holdCount[m] = 1
      <4>1. holdCount'[m] = 0 /\ owner'[m] = Nobody /\ holder'[m] = Nobody
        BY <2>1, <3>2
      <4> QED BY <3>1, <4>1 DEF HolderIsInside
    <3>3. CASE holdCount[m] # 1
      <4>1. /\ holdCount'[m] # 0 /\ owner'[m] = t /\ holder'[m] = Handle(t)
            /\ holdCount'[m] <= inside'[t][m]
        BY <1>1, <1>2, <1>6, <2>1, <2>2, <3>3 DEF HolderIsInside
      <4> QED BY <3>1, <4>1 DEF HolderIsInside
    <3> QED BY <3>2, <3>3
  <2>4. CountIsDepth'
    <3> SUFFICES ASSUME NEW u \in Threads, NEW k \in Mutexes,
                        inside'[u][k] > 0, <<u, k>> \notin stale'
                 PROVE owner'[k] = u /\ holdCount'[k] = inside'[u][k]
      BY DEF CountIsDepth
    <3>1. CASE k # m
      BY <1>1, <1>3, <2>1, <3>1 DEF CountIsDepth
    <3>2. CASE k = m /\ u # t
      <4>1. inside[u][m] > 0 /\ <<u, m>> \notin stale
        BY <1>1, <1>3, <3>2
      <4> QED BY <1>6, <4>1, <3>2 DEF CountIsDepth
    <3>3. CASE k = m /\ u = t
      <4>1. inside[t][m] # 1 /\ <<t, m>> \notin stale
        BY <1>1, <1>2, <1>3, <3>3
      <4>2. holdCount[m] = inside[t][m]
        BY <1>1, <4>1 DEF CountIsDepth
      <4> QED BY <1>1, <1>2, <1>6, <2>1, <3>3, <4>1, <4>2
    <3> QED BY <3>1, <3>2, <3>3
  <2> QED BY <1>4, <2>3, <2>4
<1> QED BY <1>5, <1>6

LEMMA ReleaseKeepsLocks ==
  ASSUME TypeOK, Locks, NEW m \in Mutexes, Release(m)
  PROVE Locks'
<1> USE SimRtosAssumption DEF TypeOK, Locks
<1>1. /\ m \in toRelease /\ toRelease' = toRelease \ {m}
      /\ owner' = [owner EXCEPT ![m] = Nobody] /\ holder' = [holder EXCEPT ![m] = Nobody]
      /\ holdCount' = [holdCount EXCEPT ![m] = 0]
      /\ UNCHANGED <<inside, pc>>
  BY DEF Release
<1>2. \A s \in stale : s \in stale'
  BY DEF Release
<1>3. \A u \in Threads : inside[u][m] > 0 => <<u, m>> \in stale'
  BY DEF Release
<1>4. HolderIsInside'
  <2>1. ASSUME NEW k \in Mutexes, k # m
        PROVE (IF holdCount[k] = 0 THEN owner[k] = Nobody /\ holder[k] = Nobody
               ELSE /\ owner[k] \in Threads /\ holder[k] = Handle(owner[k])
                    /\ holdCount[k] <= inside[owner[k]][k])'
    BY <1>1, <2>1 DEF HolderIsInside
  <2>2. holdCount'[m] = 0 /\ owner'[m] = Nobody /\ holder'[m] = Nobody
    BY <1>1
  <2> QED BY <2>1, <2>2 DEF HolderIsInside
<1>5. CountIsDepth'
  BY <1>1, <1>2, <1>3 DEF CountIsDepth
<1>6. MainLetsGo'
  BY <1>1 DEF MainLetsGo, Threads
<1> QED BY <1>4, <1>5, <1>6

LEMMA JumpKeepsLocks ==
  ASSUME TypeOK, Locks, Jump
  PROVE Locks'
<1> USE SimRtosAssumption DEF TypeOK, Locks
<1>1. /\ toRelease = {} /\ pc[Main] = "rebooting" /\ pc' = [pc EXCEPT ![Main] = "run"]
      /\ inside' = [inside EXCEPT ![Main] = [m \in Mutexes |-> 0]]
      /\ stale' = {s \in stale : s[1] # Main}
      /\ UNCHANGED <<owner, holder, holdCount, toRelease>>
  BY DEF Jump, lockVars
<1>2. \A m \in Mutexes : owner[m] # Main
  BY <1>1 DEF MainLetsGo
<1>3. /\ \A m \in Mutexes : inside'[Main][m] = 0
      /\ \A t \in Threads \ {Main} : inside'[t] = inside[t]
  BY <1>1 DEF Threads
<1>4. HolderIsInside'
  BY <1>1, <1>2, <1>3 DEF HolderIsInside
<1>5. CountIsDepth'
  <2> SUFFICES ASSUME NEW u \in Threads, NEW k \in Mutexes,
                      inside'[u][k] > 0, <<u, k>> \notin stale'
               PROVE owner[k] = u /\ holdCount[k] = inside'[u][k]
    BY <1>1 DEF CountIsDepth
  <2>1. u # Main
    BY <1>3
  <2>2. <<u, k>> \notin stale
    BY <1>1, <2>1
  <2> QED BY <1>3, <2>1, <2>2 DEF CountIsDepth
<1>6. MainLetsGo'
  BY <1>1 DEF MainLetsGo, Threads
<1> QED BY <1>4, <1>5, <1>6

\* The other steps leave the locks and the threads' takes alone.
LEMMA LocksStep == ASSUME TypeOK, Locks, [Next]_vars PROVE Locks'
<1> USE SimRtosAssumption
<1>1. ASSUME UNCHANGED <<lockVars, inside, stale, toRelease>>,
             pc'[Main] = "rebooting" <=> pc[Main] = "rebooting"
      PROVE Locks'
  BY <1>1 DEF Locks, HolderIsInside, CountIsDepth, MainLetsGo, lockVars
<1>2. ASSUME NEW t \in Threads, NEW m \in Mutexes, Park(t, m) PROVE Locks'
  BY <1>1, <1>2 DEF Park, Tries, Waiting, TypeOK, Threads
<1>3. ASSUME NEW n \in Names, NEW w \in Workers, Create(n, w) PROVE Locks'
  BY <1>1, <1>3 DEF Create, TypeOK, Threads
<1>4. ASSUME NEW w \in Workers, TaskReturns(w) \/ Delete(w) PROVE Locks'
  BY <1>1, <1>4 DEF TaskReturns, Delete, TypeOK, Threads
<1>5. ASSUME NEW t \in Threads, NEW h \in Handles, Notify(t, h) PROVE Locks'
  BY <1>1, <1>5 DEF Notify
<1>6. ASSUME NEW h \in Handles, NoteTake(h) \/ NotePark(h) PROVE Locks'
  BY <1>1, <1>6 DEF NoteTake, NotePark, TriesNote, TypeOK, Threads, Handles
<1>7. CASE BeginReboot
  <2>1. toRelease' = Mutexes /\ pc'[Main] = "rebooting" /\ UNCHANGED <<lockVars, inside, stale>>
    BY <1>7 DEF BeginReboot, TypeOK, Threads
  <2> QED BY <2>1 DEF Locks, HolderIsInside, CountIsDepth, MainLetsGo, lockVars
<1>8. CASE UNCHANGED vars
  BY <1>1, <1>8 DEF vars
<1> QED BY <1>2, <1>3, <1>4, <1>5, <1>6, <1>7, <1>8, TakeKeepsLocks, GiveKeepsLocks,
           ReleaseKeepsLocks, JumpKeepsLocks DEF Next, Reboots

\* Whoever a step could give a reason to wake is woken by it.
LEMMA SleepersStep == ASSUME TypeOK, Sleepers, [Next]_vars PROVE Sleepers'
<1> USE SimRtosAssumption DEF Sleepers, TypeOK
<1>1. ASSUME NEW t \in Threads, NEW m \in Mutexes, Take(t, m) PROVE Sleepers'
  <2>1. /\ pc' = [pc EXCEPT ![t] = "run"] /\ target' = [target EXCEPT ![t] = Nobody]
        /\ owner' = [owner EXCEPT ![m] = t] /\ holdCount' = [holdCount EXCEPT ![m] = @ + 1]
        /\ UNCHANGED <<asleep, freed, notifyCount>>
    BY <1>1 DEF Take, taskVars
  <2>2. t \notin asleep
    BY <1>1 DEF Take, Tries, NoLostWakeup
  <2>3. Places'
    BY <2>1 DEF Places
  <2>4. NoLostWakeup'
    <3> SUFFICES ASSUME NEW u \in asleep
                 PROVE (\/ pc[u] = "taking" /\ ~Ready(u, target[u])
                        \/ pc[u] = "noteWait" /\ (u \notin freed => notifyCount[u] = 0))'
      BY <2>1 DEF NoLostWakeup
    <3>1. pc'[u] = pc[u] /\ target'[u] = target[u] /\ u # t
      BY <2>1, <2>2
    <3>2. CASE pc[u] = "taking" /\ ~Ready(u, target[u])
      <4>1. target[u] \in Mutexes
        BY <3>2 DEF Places
      <4> QED BY <2>1, <3>1, <3>2, <4>1 DEF Ready
    <3> QED BY <2>1, <3>1, <3>2 DEF NoLostWakeup
  <2> QED BY <2>3, <2>4
<1>2. ASSUME NEW t \in Threads, NEW m \in Mutexes, Park(t, m) PROVE Sleepers'
  <2>1. /\ pc' = [pc EXCEPT ![t] = "taking"] /\ target' = [target EXCEPT ![t] = m]
        /\ asleep' = asleep \cup {t} /\ ~Ready(t, m)
        /\ UNCHANGED <<owner, holdCount, freed, notifyCount>>
    BY <1>2 DEF Park, taskVars, lockVars
  <2>2. Places'
    BY <2>1 DEF Places
  <2>3. NoLostWakeup'
    BY <2>1 DEF NoLostWakeup, Ready
  <2> QED BY <2>2, <2>3
<1>3. ASSUME NEW t \in Threads, NEW m \in Mutexes, Give(t, m) PROVE Sleepers'
  <2>1. UNCHANGED <<pc, target, freed, notifyCount>>
    BY <1>3 DEF Give, taskVars
  <2>2. Places'
    BY <2>1 DEF Places
  <2>3. ASSUME asleep' = asleep \ AwakenedBy(m),
               \A k \in Mutexes \ {m} : owner'[k] = owner[k] /\ holdCount'[k] = holdCount[k]
        PROVE NoLostWakeup'
    BY <2>1, <2>3 DEF NoLostWakeup, AwakenedBy, Waiting, Ready, Places
  <2>4. ASSUME asleep' = asleep, owner' = owner,
               \A k \in Mutexes : holdCount[k] # 0 => holdCount'[k] # 0
        PROVE NoLostWakeup'
    BY <2>1, <2>4 DEF NoLostWakeup, Ready, Places
  <2>5. CASE holdCount[m] = 0 \/ owner[m] # t
    BY <1>3, <2>2, <2>4, <2>5 DEF Give, lockVars
  <2>6. CASE owner[m] = t /\ holdCount[m] = 1
    BY <1>3, <2>2, <2>3, <2>6 DEF Give
  <2>7. CASE owner[m] = t /\ holdCount[m] \notin {0, 1}
    <3>1. /\ owner' = owner /\ asleep' = asleep
          /\ holdCount' = [holdCount EXCEPT ![m] = @ - 1]
      BY <1>3, <2>7 DEF Give
    <3>2. \A k \in Mutexes : holdCount[k] # 0 => holdCount'[k] # 0
      BY <2>7, <3>1
    <3> QED BY <2>2, <2>4, <3>1, <3>2
  <2> QED BY <2>5, <2>6, <2>7
<1>4. ASSUME NEW n \in Names, NEW w \in Workers, Create(n, w) PROVE Sleepers'
  <2>1. /\ pc[w] = "unborn" /\ pc' = [pc EXCEPT ![w] = "run"]
        /\ UNCHANGED <<owner, holdCount, target, asleep, freed, notifyCount>>
    BY <1>4 DEF Create, lockVars
  <2>2. w \notin asleep
    BY <2>1 DEF NoLostWakeup
  <2> QED BY <2>1, <2>2 DEF NoLostWakeup, Ready, Places
<1>5. ASSUME NEW w \in Workers, TaskReturns(w) PROVE Sleepers'
  <2>1. /\ pc[w] = "run" /\ pc' = [pc EXCEPT ![w] = "over"]
        /\ UNCHANGED <<owner, holdCount, target, asleep, freed, notifyCount>>
    BY <1>5 DEF TaskReturns, lockVars, taskVars
  <2>2. w \notin asleep
    BY <2>1 DEF NoLostWakeup
  <2> QED BY <2>1, <2>2 DEF NoLostWakeup, Ready, Places
<1>6. ASSUME NEW w \in Workers, Delete(w) PROVE Sleepers'
  BY <1>6 DEF Delete, NoLostWakeup, Ready, Places, lockVars
<1>7. ASSUME NEW t \in Threads, NEW h \in Handles, Notify(t, h) PROVE Sleepers'
  <2>1. /\ notifyCount' = [notifyCount EXCEPT ![h] = @ + 1]
        /\ asleep' = (IF pc[h] = "noteWait" THEN asleep \ {h} ELSE asleep)
        /\ UNCHANGED <<owner, holdCount, pc, target, freed>>
    BY <1>7 DEF Notify, lockVars, taskVars
  <2> QED BY <2>1 DEF NoLostWakeup, Ready, Places
<1>8. ASSUME NEW h \in Handles, NoteTake(h) PROVE Sleepers'
  <2>1. /\ pc[h] = "run" \/ (pc[h] = "noteWait" /\ h \notin asleep)
        /\ notifyCount' = [notifyCount EXCEPT ![h] = @ - 1]
        /\ pc' = [pc EXCEPT ![h] = "run"]
        /\ UNCHANGED <<owner, holdCount, target, asleep, freed>>
    BY <1>8 DEF NoteTake, TriesNote, lockVars, taskVars
  <2>2. h \notin asleep
    BY <2>1 DEF NoLostWakeup
  <2>3. h \in Threads
    BY DEF Handles, Threads
  <2>4. \A u \in asleep : pc'[u] = pc[u] /\ (pc[u] = "noteWait" => notifyCount'[u] = notifyCount[u])
    BY <2>1, <2>2, <2>3 DEF Places
  <2>5. Places'
    BY <2>1, <2>3 DEF Places
  <2> QED BY <2>1, <2>4, <2>5 DEF NoLostWakeup, Ready
<1>9. ASSUME NEW h \in Handles, NotePark(h) PROVE Sleepers'
  <2>1. /\ notifyCount[h] = 0 /\ h \in Threads
        /\ pc' = [pc EXCEPT ![h] = "noteWait"] /\ asleep' = asleep \cup {h}
        /\ UNCHANGED <<owner, holdCount, target, freed, notifyCount>>
    BY <1>9 DEF NotePark, lockVars, taskVars, Handles, Threads
  <2> QED BY <2>1 DEF NoLostWakeup, Ready, Places
<1>10. CASE BeginReboot \/ Jump
  <2>1. /\ pc[Main] = "run" \/ pc[Main] = "rebooting"
        /\ \E p \in {"run", "rebooting"} : pc' = [pc EXCEPT ![Main] = p]
        /\ UNCHANGED <<owner, holdCount, target, asleep, freed, notifyCount>>
    BY <1>10 DEF BeginReboot, Jump, lockVars, taskVars
  <2>2. Main \notin asleep
    BY <2>1 DEF NoLostWakeup
  <2> QED BY <2>1, <2>2 DEF NoLostWakeup, Ready, Places
<1>11. ASSUME NEW m \in Mutexes, Release(m) PROVE Sleepers'
  <2>1. /\ owner' = [owner EXCEPT ![m] = Nobody] /\ holdCount' = [holdCount EXCEPT ![m] = 0]
        /\ asleep' = asleep \ AwakenedBy(m)
        /\ UNCHANGED <<pc, target, freed, notifyCount>>
    BY <1>11 DEF Release, taskVars
  <2> QED BY <2>1 DEF NoLostWakeup, AwakenedBy, Waiting, Ready, Places
<1>12. CASE UNCHANGED vars
  BY <1>12 DEF vars, lockVars, taskVars, NoLostWakeup, Ready, Places
<1> HIDE DEF Sleepers, TypeOK
<1> QED BY <1>1, <1>2, <1>3, <1>4, <1>5, <1>6, <1>7, <1>8, <1>9, <1>10, <1>11, <1>12
        DEF Next, Reboots

\* The registry's entries and the threads started are the same, step by step.
LEMMA RegisteredStep == ASSUME TypeOK, Registered, [Next]_vars PROVE Registered'
<1> USE SimRtosAssumption DEF TypeOK, Threads, Handles
<1>1. ASSUME UNCHANGED taskVars,
             \A w \in Workers : (pc'[w] = "unborn" <=> pc[w] = "unborn"),
             \A w \in Workers : (pc[w] = "over" => pc'[w] = "over")
      PROVE Registered'
  <2>1. \A n \in Names : registry[n] # Nobody => registry[n] \in Workers
    OBVIOUS
  <2>2. UNCHANGED <<registry, taskName, freed>>
    BY <1>1 DEF taskVars
  <2>3. /\ \A n \in Names : registry'[n] # Nobody =>
             taskName'[registry'[n]] = n /\ pc'[registry'[n]] # "unborn" /\ registry'[n] \notin freed'
        /\ \A w \in Workers : pc'[w] # "unborn" => taskName'[w] \in Names
    BY <1>1, <2>1, <2>2 DEF Registered
  <2>4. \A w \in Workers : pc'[w] # "unborn" /\ w \notin freed' =>
          taskName'[w] \in Names /\ registry'[taskName'[w]] = w
    BY <1>1, <2>2 DEF Registered
  <2>5. \A w \in freed' : pc'[w] # "unborn" /\ (~DeletesRunning => pc'[w] = "over")
    BY <1>1, <2>2 DEF Registered
  <2> QED BY <2>3, <2>4, <2>5 DEF Registered
<1>2. ASSUME NEW t \in Threads, NEW m \in Mutexes, Take(t, m) \/ Park(t, m) \/ Give(t, m)
      PROVE Registered'
  BY <1>1, <1>2 DEF Take, Park, Give, Tries, Waiting
<1>3. ASSUME NEW n \in Names, NEW w \in Workers, Create(n, w) PROVE Registered'
  <2>1. /\ registry[n] = Nobody /\ pc[w] = "unborn"
        /\ registry' = [registry EXCEPT ![n] = w] /\ taskName' = [taskName EXCEPT ![w] = n]
        /\ pc' = [pc EXCEPT ![w] = "run"] /\ freed' = freed
    BY <1>3 DEF Create
  <2>2. \A v \in freed : v \in Workers
    OBVIOUS
  <2>3. ASSUME NEW v \in freed PROVE pc'[v] # "unborn" /\ (~DeletesRunning => pc'[v] = "over")
    BY <2>1, <2>2, <2>3 DEF Registered
  <2>4. ASSUME NEW k \in Names, registry'[k] # Nobody
        PROVE /\ taskName'[registry'[k]] = k /\ pc'[registry'[k]] # "unborn"
              /\ registry'[k] \notin freed
    <3>1. w \notin freed
      BY <2>1, Registered DEF Registered
    <3>2. CASE k = n
      BY <2>1, <3>1, <3>2
    <3>3. CASE k # n
      BY <2>1, <2>4, <3>3 DEF Registered
    <3> QED BY <3>2, <3>3
  <2>5. ASSUME NEW v \in Workers, pc'[v] # "unborn"
        PROVE taskName'[v] \in Names /\ (v \notin freed => registry'[taskName'[v]] = v)
    BY <2>1, <2>5 DEF Registered
  <2> QED BY <2>1, <2>3, <2>4, <2>5 DEF Registered
<1>4. ASSUME NEW w \in Workers, TaskReturns(w) PROVE Registered'
  BY <1>1, <1>4 DEF TaskReturns
<1>5. ASSUME NEW w \in Workers, Delete(w) PROVE Registered'
  BY <1>5 DEF Delete, Registered
<1>6. ASSUME NEW t \in Threads, NEW h \in Handles, Notify(t, h) PROVE Registered'
  BY <1>1, <1>6 DEF Notify
<1>7. ASSUME NEW h \in Handles, NoteTake(h) \/ NotePark(h) PROVE Registered'
  BY <1>1, <1>7 DEF NoteTake, NotePark, TriesNote
<1>8. CASE BeginReboot \/ Jump
  BY <1>1, <1>8 DEF BeginReboot, Jump
<1>9. ASSUME NEW m \in Mutexes, Release(m) PROVE Registered'
  BY <1>1, <1>9 DEF Release
<1>10. CASE UNCHANGED vars
  BY <1>1, <1>10 DEF vars
<1> HIDE DEF TypeOK, Threads, Handles
<1> QED BY <1>2, <1>3, <1>4, <1>5, <1>6, <1>7, <1>8, <1>9, <1>10 DEF Next, Reboots
-----------------------------------------------------------------------------
\* Every reachable state satisfies the inductive invariant, for any threads,
\* mutexes, names and bounds.
THEOREM Invariant == Spec => []IInv
<1>1. ASSUME IInv, [Next]_vars PROVE IInv'
  BY <1>1, TypeStep, LocksStep, SleepersStep, RegisteredStep DEF IInv
<1> QED BY <1>1, InitInv, PTL DEF Spec

\* Types, for every instance.
THEOREM TypeCorrect == Spec => []TypeOK
BY Invariant, PTL DEF IInv

\* A taken mutex always has a holder still inside of it, reboots included
\* (forceReleaseAllForReboot before the longjmp).
THEOREM HoldersAreInside == Spec => []HolderIsInside
BY Invariant, PTL DEF IInv, Locks

\* A take no reboot released is held at its own depth: mutual exclusion but
\* for stale takes.
THEOREM CountsAreDepths == Spec => []CountIsDepth
BY Invariant, PTL DEF IInv, Locks

\* No thread sleeps on a mutex or notification it could have.
THEOREM Wakeups == Spec => []NoLostWakeup
BY Invariant, PTL DEF IInv, Sleepers

\* The registry holds no deleted handle (vTaskDelete drops the entry first).
THEOREM HandlesAreGood == Spec => []NoFreedHandle
<1>1. IInv => NoFreedHandle
  <2> SUFFICES ASSUME IInv, NEW n \in Names PROVE registry[n] \notin freed
    BY DEF NoFreedHandle
  <2> QED BY SimRtosAssumption DEF IInv, TypeOK, Registered, Threads
<1> QED BY <1>1, Invariant, PTL

\* One live thread per task name, however often setup() runs again, as long as
\* no task is deleted while it runs.
THEOREM OneThread == ASSUME ~DeletesRunning PROVE Spec => []OneThreadPerName
<1>1. IInv => OneThreadPerName
  BY DEF IInv, Registered, OneThreadPerName, Live
<1> QED BY <1>1, Invariant, PTL

\* A mutex's count goes down only by its owner's give or a reboot: a stale give
\* never frees another thread's lock.
THEOREM GivesAreTheOwners == Spec => OnlyOwnersGive
<1>1. ASSUME IInv, [Next]_vars, NEW k \in Mutexes, holdCount'[k] < holdCount[k]
      PROVE \/ k \in toRelease /\ k \notin toRelease'
            \/ owner[k] \in Threads /\ inside'[owner[k]][k] < inside[owner[k]][k]
  <2> USE <1>1, SimRtosAssumption DEF IInv, TypeOK
  <2>0. holdCount[k] \in Nat
    OBVIOUS
  <2>1. CASE holdCount' = holdCount
    BY <2>0, <2>1
  <2>2. ASSUME NEW t \in Threads, NEW m \in Mutexes, Take(t, m) PROVE FALSE
    BY <2>0, <2>2 DEF Take
  <2>3. ASSUME NEW t \in Threads, NEW m \in Mutexes, Give(t, m)
        PROVE owner[k] \in Threads /\ inside'[owner[k]][k] < inside[owner[k]][k]
    <3>1. k = m /\ owner[m] = t /\ inside' = [inside EXCEPT ![t][m] = @ - 1]
      BY <2>0, <2>3 DEF Give, Leave, lockVars
    <3> QED BY <3>1
  <2>4. ASSUME NEW m \in Mutexes, Release(m) PROVE k \in toRelease /\ k \notin toRelease'
    BY <2>0, <2>4 DEF Release
  <2>5. \/ holdCount' = holdCount
        \/ \E t \in Threads, m \in Mutexes : Take(t, m) \/ Give(t, m)
        \/ \E m \in Mutexes : Release(m)
    BY DEF Next, Reboots, vars, lockVars, Park, Create, TaskReturns, Delete, Notify,
           NoteTake, NotePark, BeginReboot, Jump
  <2> HIDE DEF IInv, TypeOK
  <2> QED BY <2>1, <2>2, <2>3, <2>4, <2>5
<1>2. ASSUME IInv, [Next]_vars
      PROVE [\A m \in Mutexes : holdCount'[m] < holdCount[m] =>
               \/ m \in toRelease /\ m \notin toRelease'
               \/ owner[m] \in Threads /\ inside'[owner[m]][m] < inside[owner[m]][m]]_vars
  BY <1>1, <1>2
<1> QED BY <1>2, Invariant, PTL DEF Spec, OnlyOwnersGive
-----------------------------------------------------------------------------
(* The mutexes are locks that a reboot can revoke (RevocableLocks).          *)

\* Who is inside of a mutex, and who of them is so with a stale take.
Within(m) == {t \in Threads : inside[t][m] > 0}
Strays(m) == {t \in Threads : <<t, m>> \in stale}

Promise == INSTANCE RevocableLocks WITH
  within <- [m \in Mutexes |-> Within(m)],
  strays <- [m \in Mutexes |-> Strays(m)]

\* A stale take is still one its thread is inside of.
StaleIsInside == \A t \in Threads, m \in Mutexes : <<t, m>> \in stale => inside[t][m] > 0

LEMMA StaleStep == ASSUME TypeOK, StaleIsInside, [Next]_vars PROVE StaleIsInside'
<1> USE DEF StaleIsInside
<1>1. CASE UNCHANGED <<inside, stale>>
  BY <1>1
<1>2. ASSUME NEW t \in Threads, NEW m \in Mutexes, Take(t, m) PROVE StaleIsInside'
  BY <1>2 DEF Take, TypeOK
<1>3. ASSUME NEW t \in Threads, NEW m \in Mutexes, Give(t, m) PROVE StaleIsInside'
  <2>1. /\ inside[t][m] \in Nat /\ inside[t][m] > 0
        /\ inside' = [inside EXCEPT ![t][m] = @ - 1]
        /\ stale' = IF inside[t][m] = 1 THEN stale \ {<<t, m>>} ELSE stale
    BY <1>3 DEF Give, Leave, TypeOK
  <2> SUFFICES ASSUME NEW u \in Threads, NEW k \in Mutexes, <<u, k>> \in stale'
               PROVE inside'[u][k] > 0
    OBVIOUS
  <2>2. CASE u = t /\ k = m
    <3>1. inside[t][m] # 1 /\ inside'[t][m] = inside[t][m] - 1
      BY <2>1, <2>2 DEF TypeOK
    <3> QED BY <2>1, <2>2, <3>1
  <2>3. CASE u # t \/ k # m
    BY <2>1, <2>3 DEF TypeOK
  <2> QED BY <2>2, <2>3
<1>4. ASSUME NEW m \in Mutexes, Release(m) PROVE StaleIsInside'
  BY <1>4 DEF Release
<1>5. CASE Jump
  BY <1>5 DEF Jump, TypeOK
<1>6. \/ UNCHANGED <<inside, stale>>
      \/ \E t \in Threads, m \in Mutexes : Take(t, m) \/ Give(t, m)
      \/ \E m \in Mutexes : Release(m)
      \/ Jump
  BY DEF Next, Reboots, vars, Park, Create, TaskReturns, Delete, Notify, NoteTake,
     NotePark, BeginReboot
<1> QED BY <1>1, <1>2, <1>3, <1>4, <1>5, <1>6

\* A take is an entry where only strays are, or goes deeper.
LEMMA TakeEnters ==
  ASSUME IInv, NEW t \in Threads, NEW m \in Mutexes, Take(t, m)
  PROVE  Promise!Enter(t, m) \/ UNCHANGED Promise!rvars
<1> USE DEF IInv
<1>1. /\ inside' = [inside EXCEPT ![t][m] = @ + 1] /\ UNCHANGED stale /\ Ready(t, m)
  BY DEF Take
<1>2. inside \in [Threads -> [Mutexes -> Nat]]
  BY DEF TypeOK
<1>3. \A k \in Mutexes : Strays(k)' = Strays(k)
  BY <1>1 DEF Strays
<1>4. \A k \in Mutexes : Within(k)' = IF k = m THEN Within(k) \cup {t} ELSE Within(k)
  BY <1>1, <1>2 DEF Within
<1>5. CASE inside[t][m] > 0
  <2>1. t \in Within(m)
    BY <1>5 DEF Within
  <2>2. \A k \in Mutexes : Within(k)' = Within(k) /\ Strays(k)' = Strays(k)
    BY <1>3, <1>4, <2>1
  <2> HIDE DEF IInv
  <2> QED BY <2>2 DEF Promise!rvars
<1>6. CASE ~(inside[t][m] > 0)
  <2>1. t \notin Within(m)
    BY <1>6 DEF Within
  <2>2. Within(m) \subseteq Strays(m)
    <3> SUFFICES ASSUME NEW u \in Threads, inside[u][m] > 0, <<u, m>> \notin stale
                 PROVE  FALSE
      BY DEF Within, Strays
    <3>1. owner[m] = u /\ holdCount[m] = inside[u][m]
      BY DEF Locks, CountIsDepth
    <3> QED BY <1>1, <1>2, <1>6, <3>1 DEF Ready
  <2>3. /\ [k \in Mutexes |-> Within(k)'] =
             [[k \in Mutexes |-> Within(k)] EXCEPT ![m] = @ \cup {t}]
        /\ [k \in Mutexes |-> Strays(k)'] = [k \in Mutexes |-> Strays(k)]
    BY <1>3, <1>4
  <2> HIDE DEF IInv
  <2> QED BY <2>1, <2>2, <2>3 DEF Promise!Enter
<1> QED BY <1>5, <1>6

\* A give leaves the mutex, or one level of it.
LEMMA GiveLeaves ==
  ASSUME IInv, StaleIsInside, NEW t \in Threads, NEW m \in Mutexes, Give(t, m)
  PROVE  Promise!Leave(t, m) \/ UNCHANGED Promise!rvars
<1>1. /\ inside' = [inside EXCEPT ![t][m] = @ - 1] /\ inside[t][m] > 0
      /\ stale' = IF inside[t][m] = 1 THEN stale \ {<<t, m>>} ELSE stale
  BY DEF Give, Leave
<1>2. inside \in [Threads -> [Mutexes -> Nat]]
  BY DEF IInv, TypeOK
<1>3. CASE inside[t][m] = 1
  <2>1. inside'[t][m] = 0
    BY <1>1, <1>2, <1>3
  <2>2. \A k \in Mutexes :
          /\ Within(k)' = IF k = m THEN Within(k) \ {t} ELSE Within(k)
          /\ Strays(k)' = IF k = m THEN Strays(k) \ {t} ELSE Strays(k)
    BY <1>1, <1>2, <1>3, <2>1 DEF Within, Strays
  <2>3. t \in Within(m)
    BY <1>1 DEF Within
  <2>4. /\ [k \in Mutexes |-> Within(k)'] =
             [[k \in Mutexes |-> Within(k)] EXCEPT ![m] = @ \ {t}]
        /\ [k \in Mutexes |-> Strays(k)'] =
             [[k \in Mutexes |-> Strays(k)] EXCEPT ![m] = @ \ {t}]
    BY <2>2
  <2> QED BY <2>3, <2>4 DEF Promise!Leave
<1>4. CASE inside[t][m] # 1
  <2>1. inside[t][m] \in Nat /\ inside'[t][m] = inside[t][m] - 1
    BY <1>1, <1>2
  <2>2. inside'[t][m] > 0
    BY <1>1, <1>4, <2>1
  <2>3. \A k \in Mutexes : Within(k)' = Within(k) /\ Strays(k)' = Strays(k)
    BY <1>1, <1>2, <1>4, <2>2 DEF Within, Strays
  <2> QED BY <2>3 DEF Promise!rvars
<1> QED BY <1>3, <1>4

\* A release makes a stray of everybody inside.
LEMMA ReleaseRevokes ==
  ASSUME StaleIsInside, NEW m \in Mutexes, Release(m)
  PROVE  Promise!Revoke(m)
<1>1. UNCHANGED inside /\ stale' = stale \cup {<<t, m>> : t \in {u \in Threads : inside[u][m] > 0}}
  BY DEF Release
<1>2. \A k \in Mutexes :
        /\ Within(k)' = Within(k)
        /\ Strays(k)' = IF k = m THEN Within(m) ELSE Strays(k)
  BY <1>1 DEF Within, Strays, StaleIsInside
<1>3. /\ [k \in Mutexes |-> Within(k)'] = [k \in Mutexes |-> Within(k)]
      /\ [k \in Mutexes |-> Strays(k)'] =
           [[k \in Mutexes |-> Strays(k)] EXCEPT ![m] = [k \in Mutexes |-> Within(k)][m]]
  BY <1>2
<1> QED BY <1>3 DEF Promise!Revoke

\* The jump throws away the stack of a Main that is a stray wherever it is in.
LEMMA JumpVanishes ==
  ASSUME IInv, Jump
  PROVE  Promise!Vanish(Main)
<1> USE DEF IInv
<1>1. /\ toRelease = {} /\ pc[Main] = "rebooting"
      /\ inside' = [inside EXCEPT ![Main] = [m \in Mutexes |-> 0]]
      /\ stale' = {s \in stale : s[1] # Main}
  BY DEF Jump
<1>2. \A m \in Mutexes : inside[Main][m] > 0 => <<Main, m>> \in stale
  BY <1>1 DEF Locks, MainLetsGo, CountIsDepth, Threads
<1>3. inside \in [Threads -> [Mutexes -> Nat]] /\ Main \in Threads
  BY DEF TypeOK, Threads
<1>4. \A m \in Mutexes : Within(m)' = Within(m) \ {Main} /\ Strays(m)' = Strays(m) \ {Main}
  BY <1>1, <1>3 DEF Within, Strays
<1>5. \A m \in Mutexes : Main \in Within(m) => Main \in Strays(m)
  BY <1>2, <1>3 DEF Within, Strays
<1> HIDE DEF IInv
<1> QED BY <1>4, <1>5 DEF Promise!Vanish

\* For any threads, mutexes, depth of nesting and moments of rebooting, a mutex
\* lets its next taker in only beside strays: the comment's mutual exclusion
\* (semphr.h:64-66) fails by the threads that outlive a reboot and by nothing else.
THEOREM LocksAreRevocable == Spec => Promise!Spec
<1>1. Init => Promise!Init /\ StaleIsInside
  <2> SUFFICES ASSUME Init PROVE Promise!Init /\ StaleIsInside
    OBVIOUS
  <2>1. \A m \in Mutexes : Within(m) = {} /\ Strays(m) = {}
    BY DEF Init, Within, Strays
  <2> QED BY <2>1 DEF Init, Promise!Init, StaleIsInside
<1>2. IInv /\ StaleIsInside /\ [Next]_vars => [Promise!Next]_(Promise!rvars)
  <2> SUFFICES ASSUME IInv, StaleIsInside, [Next]_vars
               PROVE  Promise!Next \/ UNCHANGED Promise!rvars
    OBVIOUS
  <2>1. CASE UNCHANGED <<inside, stale>>
    <3>1. \A m \in Mutexes : Within(m)' = Within(m) /\ Strays(m)' = Strays(m)
      BY <2>1 DEF Within, Strays
    <3> QED BY <3>1 DEF Promise!rvars
  <2>2. ASSUME NEW t \in Threads, NEW m \in Mutexes, Take(t, m)
        PROVE  Promise!Next \/ UNCHANGED Promise!rvars
    BY <2>2, TakeEnters DEF Promise!Next
  <2>3. ASSUME NEW t \in Threads, NEW m \in Mutexes, Give(t, m)
        PROVE  Promise!Next \/ UNCHANGED Promise!rvars
    BY <2>3, GiveLeaves DEF Promise!Next
  <2>4. ASSUME NEW m \in Mutexes, Release(m) PROVE Promise!Next
    BY <2>4, ReleaseRevokes DEF Promise!Next
  <2>5. CASE Jump
    BY <2>5, JumpVanishes DEF Promise!Next, Threads
  <2>6. \/ UNCHANGED <<inside, stale>>
        \/ \E t \in Threads, m \in Mutexes : Take(t, m) \/ Give(t, m)
        \/ \E m \in Mutexes : Release(m)
        \/ Jump
    BY DEF Next, Reboots, vars, Park, Create, TaskReturns, Delete, Notify, NoteTake,
       NotePark, BeginReboot
  <2> QED BY <2>1, <2>2, <2>3, <2>4, <2>5, <2>6
<1>3. IInv /\ StaleIsInside /\ [Next]_vars => StaleIsInside'
  BY StaleStep DEF IInv
<1> QED BY <1>1, <1>2, <1>3, Invariant, PTL DEF Spec, Promise!Spec
===============================================================================
