------------------------ MODULE RunAfterTime_proofs ------------------------
(***************************************************************************)
(* Proofs about Process, for every set of threads that may call stop(),    *)
(* and about RunAfterTime: it is a Process, and its callback is called     *)
(* once at most, not early, and not after stop().                          *)
(***************************************************************************)
EXTENDS RunAfterTime, TLAPS

Past == {"finnotify", "inactive", "ended"}
Destroyed == {"dtor", "dtornotify", "join", "gone"}

\* What the owner's place says about the object.
Lifetime ==
  /\ pc[Owner] = "base" => class = "process" /\ ~started
  /\ pc[Owner] = "ctor" => class = "derived" /\ ~started
  /\ pc[Owner] \in {"startnotify", "using"} \cup StopLabels => class = "derived" /\ started
  /\ pc[Owner] \in Destroyed => class = "process" /\ (started => pc[Thread] \in Past)
  /\ ~started /\ terminating => pc[Owner] \in Destroyed

\* How far the thread can be.
Progress ==
  /\ stopped <=> pc[Thread] \in Past
  /\ active \/ pc[Thread] = "ended"
  /\ \/ pc[Thread] \in {"new", "startlock", "starttest", "startwait", "startsleep"}
     \/ started
     \/ pc[Thread] \in {"check", "finish"} \cup Past /\ terminating

\* Other threads call stop() on a complete object only, and a stop() that
\* has returned saw the thread past its work.
Callers ==
  /\ \A t \in Others : pc[t] # "idle" => started
  /\ \A t \in Others : pc[t] \notin {"idle", "stopreturned"} => pc[Owner] = "using"
  /\ \A t \in Stopping : pc[t] = "stopreturned" => pc[Thread] \in Past

\* Who won the exchange of _terminating and has not called processstop() yet.
Winners ==
  /\ ~terminating => stops = 0 /\ \A t \in Stopping : pc[t] \notin {"stopnotify", "processstop"}
  /\ \A t \in Stopping : pc[t] \in {"stopnotify", "processstop"} => stops = 0
  /\ \A t, u \in Stopping :
       {pc[t], pc[u]} \subseteq {"stopnotify", "processstop"} => t = u
  /\ stops <= 1

\* The inductive invariant.
IInv == TypeOK /\ Lifetime /\ Progress /\ Callers /\ Winners

\* Init establishes it.
LEMMA InitIInv == Init => IInv
<1> SUFFICES ASSUME Init PROVE IInv
  OBVIOUS
<1>1. /\ pc = [t \in Threads |-> IF t = Owner THEN "base" ELSE IF t = Thread THEN "new" ELSE "idle"]
      /\ pc[Owner] = "base" /\ pc[Thread] = "new" /\ \A t \in Others : pc[t] = "idle"
  BY ThreadAssumption DEF Init, Threads
<1>2. Flags
  BY DEF Init, Flags
<1>3. Places
  BY <1>1 DEF Places, OwnerLabels, ThreadLabels, Labels
<1>4. Locked
  BY <1>1, ThreadAssumption DEF Init, Locked, Threads
<1>5. Lifetime /\ Progress /\ Callers /\ Winners
  BY <1>1 DEF Init, Lifetime, Progress, Callers, Winners, Stopping, Past, Destroyed, StopLabels
<1>6. QED
  BY <1>2, <1>3, <1>4, <1>5 DEF IInv, TypeOK

\* The steps between the start and the end of the service change nothing but
\* the place of the thread.
Working == {"atstart", "loop", "service", "blocked", "error", "finish"}

LEMMA ThreadMoves ==
  ASSUME IInv, NEW a \in Working \ {"finish"}, NEW b \in Working,
         pc[Thread] = a, Goto(Thread, b), UNCHANGED <<flags, mtx, rest>>
  PROVE  IInv'
<1> USE ThreadAssumption DEF Threads, Working
<1>1. /\ pc' = [pc EXCEPT ![Thread] = b] /\ pc[Thread] = a
      /\ UNCHANGED <<started, termself, terminating, stopped, active, mtx, class, released, stops>>
  BY DEF Goto, flags, rest
<1>2. pc'[Thread] = b /\ \A t \in Stopping : pc'[t] = pc[t]
  BY <1>1 DEF IInv, TypeOK, Places, Stopping
<1>3. Flags'
  BY <1>1 DEF IInv, TypeOK, Flags
<1>4. Places'
  BY <1>1 DEF IInv, TypeOK, Places, ThreadLabels, Labels
<1>5. Locked'
  BY <1>1 DEF IInv, TypeOK, Places, Locked
<1>6. Progress'
  BY <1>1, <1>2 DEF IInv, Progress, Past
<1>7. Lifetime'
  BY <1>1, <1>2 DEF IInv, Lifetime, Past, Stopping
<1>8. Callers'
  BY <1>1, <1>2 DEF IInv, Callers, Past, Stopping
<1>9. Winners'
  BY <1>1, <1>2 DEF IInv, Winners
<1>10. QED
  BY <1>3, <1>4, <1>5, <1>6, <1>7, <1>8, <1>9 DEF IInv, TypeOK

\* wait_for_start() takes the mutex.
LEMMA LockStartKeeps ==
  ASSUME IInv, LockStart
  PROVE  IInv'
<1> USE ThreadAssumption DEF Threads, Stopping
<1>1. /\ pc[Thread] = "startlock" /\ pc' = [pc EXCEPT ![Thread] = "starttest"]
      /\ mtx = NoThread /\ mtx' = Thread
      /\ UNCHANGED <<started, termself, terminating, stopped, active, class, released, stops>>
  BY DEF LockStart, Goto, flags, rest
<1>2. Flags'
  BY <1>1 DEF IInv, TypeOK, Flags
<1>3. Places'
  BY <1>1 DEF IInv, TypeOK, Places, StopLabels, ThreadLabels, OwnerLabels, Labels
<1>4. Locked'
  BY <1>1 DEF IInv, TypeOK, Places, Locked
<1>5. Lifetime'
  BY <1>1 DEF IInv, TypeOK, Places, Lifetime, Callers, Destroyed, StopLabels, Past
<1>6. Progress'
  BY <1>1 DEF IInv, TypeOK, Places, Progress, Past
<1>7. Callers'
  BY <1>1 DEF IInv, TypeOK, Places, Lifetime, Callers, Progress, StopLabels, Past
<1>8. Winners'
  BY <1>1 DEF IInv, TypeOK, Flags, Places, Winners
<1>9. QED
  BY <1>2, <1>3, <1>4, <1>5, <1>6, <1>7, <1>8 DEF IInv, TypeOK

\* stop() wins or loses the exchange of _terminating.
LEMMA ExchangeKeeps ==
  ASSUME IInv, NEW t \in Threads, Exchange(t)
  PROVE  IInv'
<1> USE ThreadAssumption DEF Threads, Stopping
<1>1. /\ t \in Stopping /\ pc[t] = "stop" /\ terminating' = TRUE
      /\ pc' = [pc EXCEPT ![t] = IF terminating THEN "stoplock" ELSE "stopnotify"]
      /\ UNCHANGED <<started, termself, stopped, active, mtx, class, released, stops>>
  BY DEF Exchange, Goto, rest
<1>2. Flags'
  BY <1>1 DEF IInv, TypeOK, Flags
<1>3. Places'
  BY <1>1 DEF IInv, TypeOK, Places, StopLabels, ThreadLabels, OwnerLabels, Labels
<1>4. Locked'
  BY <1>1 DEF IInv, TypeOK, Places, Locked
<1>5. Lifetime'
  BY <1>1 DEF IInv, TypeOK, Places, Lifetime, Callers, Destroyed, StopLabels, Past
<1>6. Progress'
  BY <1>1 DEF IInv, TypeOK, Places, Progress, Past
<1>7. Callers'
  BY <1>1 DEF IInv, TypeOK, Places, Lifetime, Callers, Progress, StopLabels, Past
<1>8. Winners'
  BY <1>1 DEF IInv, TypeOK, Flags, Places, Winners
<1>9. QED
  BY <1>2, <1>3, <1>4, <1>5, <1>6, <1>7, <1>8 DEF IInv, TypeOK

\* The winner runs processstop().
LEMMA ProcessStopKeeps ==
  ASSUME IInv, NEW t \in Threads, ProcessStop(t)
  PROVE  IInv'
<1> USE ThreadAssumption DEF Threads, Stopping
<1>1. /\ t \in Stopping /\ pc[t] = "processstop"
      /\ pc' = [pc EXCEPT ![t] = "stoplock"]
      /\ released' = TRUE /\ stops' = stops + 1
      /\ UNCHANGED <<started, termself, terminating, stopped, active, mtx, class>>
  BY DEF ProcessStop, Goto, flags
<1>2. Flags'
  BY <1>1 DEF IInv, TypeOK, Flags
<1>3. Places'
  BY <1>1 DEF IInv, TypeOK, Places, StopLabels, ThreadLabels, OwnerLabels, Labels
<1>4. Locked'
  BY <1>1 DEF IInv, TypeOK, Places, Locked
<1>5. Lifetime'
  BY <1>1 DEF IInv, TypeOK, Places, Lifetime, Callers, Destroyed, StopLabels, Past
<1>6. Progress'
  BY <1>1 DEF IInv, TypeOK, Places, Progress, Past
<1>7. Callers'
  BY <1>1 DEF IInv, TypeOK, Places, Lifetime, Callers, Progress, StopLabels, Past
<1>8. Winners'
  BY <1>1 DEF IInv, TypeOK, Flags, Places, Winners
<1>9. QED
  BY <1>2, <1>3, <1>4, <1>5, <1>6, <1>7, <1>8 DEF IInv, TypeOK

\* wait_for_stop() takes the mutex.
LEMMA LockStopKeeps ==
  ASSUME IInv, NEW t \in Threads, LockStop(t)
  PROVE  IInv'
<1> USE ThreadAssumption DEF Threads, Stopping
<1>1. /\ t \in Stopping /\ pc[t] = "stoplock"
      /\ pc' = [pc EXCEPT ![t] = "stoptest"]
      /\ mtx = NoThread /\ mtx' = t
      /\ UNCHANGED <<started, termself, terminating, stopped, active, class, released, stops>>
  BY DEF LockStop, Goto, flags, rest
<1>2. Flags'
  BY <1>1 DEF IInv, TypeOK, Flags
<1>3. Places'
  BY <1>1 DEF IInv, TypeOK, Places, StopLabels, ThreadLabels, OwnerLabels, Labels
<1>4. Locked'
  BY <1>1 DEF IInv, TypeOK, Places, Locked
<1>5. Lifetime'
  BY <1>1 DEF IInv, TypeOK, Places, Lifetime, Callers, Destroyed, StopLabels, Past
<1>6. Progress'
  BY <1>1 DEF IInv, TypeOK, Places, Progress, Past
<1>7. Callers'
  BY <1>1 DEF IInv, TypeOK, Places, Lifetime, Callers, Progress, StopLabels, Past
<1>8. Winners'
  BY <1>1 DEF IInv, TypeOK, Flags, Places, Winners
<1>9. QED
  BY <1>2, <1>3, <1>4, <1>5, <1>6, <1>7, <1>8 DEF IInv, TypeOK

\* wait_for_stop() goes to sleep and gives the mutex back.
LEMMA WaitStopKeeps ==
  ASSUME IInv, NEW t \in Threads, WaitStop(t)
  PROVE  IInv'
<1> USE ThreadAssumption DEF Threads, Stopping
<1>1. /\ t \in Stopping /\ pc[t] = "stopwait"
      /\ pc' = [pc EXCEPT ![t] = "stopsleep"] /\ mtx' = NoThread
      /\ UNCHANGED <<started, termself, terminating, stopped, active, class, released, stops>>
  BY DEF WaitStop, Goto, flags, rest
<1>2. Flags'
  BY <1>1 DEF IInv, TypeOK, Flags
<1>3. Places'
  BY <1>1 DEF IInv, TypeOK, Places, StopLabels, ThreadLabels, OwnerLabels, Labels
<1>4. Locked'
  BY <1>1 DEF IInv, TypeOK, Places, Locked
<1>5. Lifetime'
  BY <1>1 DEF IInv, TypeOK, Places, Lifetime, Callers, Destroyed, StopLabels, Past
<1>6. Progress'
  BY <1>1 DEF IInv, TypeOK, Places, Progress, Past
<1>7. Callers'
  BY <1>1 DEF IInv, TypeOK, Places, Lifetime, Callers, Progress, StopLabels, Past
<1>8. Winners'
  BY <1>1 DEF IInv, TypeOK, Flags, Places, Winners
<1>9. QED
  BY <1>2, <1>3, <1>4, <1>5, <1>6, <1>7, <1>8 DEF IInv, TypeOK

\* stop() notifies _startcond: nobody but the thread sleeps on it.
LEMMA StopNotifyKeeps ==
  ASSUME IInv, NEW t \in Threads, StopNotify(t)
  PROVE  IInv'
<1> USE ThreadAssumption DEF Threads, Stopping
<1>1. /\ t \in Stopping /\ pc[t] = "stopnotify"
      /\ pc' = [x \in Threads |-> IF x = t THEN "processstop"
                                  ELSE IF x \in Threads /\ pc[x] = "startsleep" THEN "startlock"
                                  ELSE pc[x]]
      /\ UNCHANGED <<started, termself, terminating, stopped, active, mtx, class, released, stops>>
  BY DEF StopNotify, Notify, StartSleepers, flags, rest
<1>2. Flags'
  BY <1>1 DEF IInv, TypeOK, Flags
<1>3. Places'
  BY <1>1 DEF IInv, TypeOK, Places, StopLabels, ThreadLabels, OwnerLabels, Labels
<1>4. Locked'
  BY <1>1 DEF IInv, TypeOK, Places, Locked
<1>5. Lifetime'
  BY <1>1 DEF IInv, TypeOK, Places, Lifetime, Callers, Destroyed, StopLabels, Past
<1>6. Progress'
  BY <1>1 DEF IInv, TypeOK, Places, Progress, Past
<1>7. Callers'
  BY <1>1 DEF IInv, TypeOK, Places, Lifetime, Callers, Progress, StopLabels, Past
<1>8. Winners'
  BY <1>1 DEF IInv, TypeOK, Flags, Places, Winners
<1>9. QED
  BY <1>2, <1>3, <1>4, <1>5, <1>6, <1>7, <1>8 DEF IInv, TypeOK

\* A wait that returns by itself takes the mutex again.
LEMMA SpuriousWakeupKeeps ==
  ASSUME IInv, NEW t \in Threads, SpuriousWakeup(t)
  PROVE  IInv'
<1> USE ThreadAssumption DEF Threads, Stopping
<1>1. /\ pc[t] \in {"startsleep", "stopsleep"}
      /\ pc' = [pc EXCEPT ![t] = IF pc[t] = "startsleep" THEN "startlock" ELSE "stoplock"]
      /\ UNCHANGED <<started, termself, terminating, stopped, active, mtx, class, released, stops>>
  BY DEF SpuriousWakeup, Goto, flags, rest
<1>2. Flags'
  BY <1>1 DEF IInv, TypeOK, Flags
<1>3. Places'
  BY <1>1 DEF IInv, TypeOK, Places, StopLabels, ThreadLabels, OwnerLabels, Labels
<1>4. Locked'
  BY <1>1 DEF IInv, TypeOK, Places, Locked
<1>5. Lifetime'
  BY <1>1 DEF IInv, TypeOK, Places, Lifetime, Callers, Destroyed, StopLabels, Past
<1>6. Progress'
  BY <1>1 DEF IInv, TypeOK, Places, Progress, Past
<1>7. Callers'
  BY <1>1 DEF IInv, TypeOK, Places, Lifetime, Callers, Progress, StopLabels, Past
<1>8. Winners'
  BY <1>1 DEF IInv, TypeOK, Flags, Places, Winners
<1>9. QED
  BY <1>2, <1>3, <1>4, <1>5, <1>6, <1>7, <1>8 DEF IInv, TypeOK

\* operator()() begins; the flag it sets is set already.
LEMMA ThreadBeginsKeeps ==
  ASSUME IInv, ThreadBegins
  PROVE  IInv'
<1> USE ThreadAssumption DEF Threads, Stopping
<1>1. /\ pc[Thread] = "new" /\ pc' = [pc EXCEPT ![Thread] = "startlock"] /\ active' = TRUE
      /\ UNCHANGED <<started, termself, terminating, stopped, mtx, class, released, stops>>
  BY DEF ThreadBegins, Goto, rest
<1>2. Flags'
  BY <1>1 DEF IInv, TypeOK, Flags
<1>3. Places'
  BY <1>1 DEF IInv, TypeOK, Places, StopLabels, ThreadLabels, OwnerLabels, Labels
<1>4. Locked'
  BY <1>1 DEF IInv, TypeOK, Places, Locked
<1>5. Lifetime'
  BY <1>1 DEF IInv, TypeOK, Places, Lifetime, Callers, Destroyed, StopLabels, Past
<1>6. Progress'
  BY <1>1 DEF IInv, TypeOK, Places, Progress, Past
<1>7. Callers'
  BY <1>1 DEF IInv, TypeOK, Places, Lifetime, Callers, Progress, StopLabels, Past
<1>8. Winners'
  BY <1>1 DEF IInv, TypeOK, Flags, Places, Winners
<1>9. QED
  BY <1>2, <1>3, <1>4, <1>5, <1>6, <1>7, <1>8 DEF IInv, TypeOK

\* stopped() sets the flag.
LEMMA SetStoppedKeeps ==
  ASSUME IInv, SetStopped
  PROVE  IInv'
<1> USE ThreadAssumption DEF Threads, Stopping
<1>1. /\ pc[Thread] = "finish" /\ pc' = [pc EXCEPT ![Thread] = "finnotify"]
      /\ stopped' = TRUE
      /\ UNCHANGED <<started, termself, terminating, active, mtx, class, released, stops>>
  BY DEF SetStopped, Atomically, Goto, rest
<1>2. Flags'
  BY <1>1 DEF IInv, TypeOK, Flags
<1>3. Places'
  BY <1>1 DEF IInv, TypeOK, Places, StopLabels, ThreadLabels, OwnerLabels, Labels
<1>4. Locked'
  BY <1>1 DEF IInv, TypeOK, Places, Locked
<1>5. Lifetime'
  BY <1>1 DEF IInv, TypeOK, Places, Lifetime, Callers, Destroyed, StopLabels, Past
<1>6. Progress'
  BY <1>1 DEF IInv, TypeOK, Places, Progress, Past
<1>7. Callers'
  BY <1>1 DEF IInv, TypeOK, Places, Lifetime, Callers, Progress, StopLabels, Past
<1>8. Winners'
  BY <1>1 DEF IInv, TypeOK, Flags, Places, Winners
<1>9. QED
  BY <1>2, <1>3, <1>4, <1>5, <1>6, <1>7, <1>8 DEF IInv, TypeOK

\* stopped() wakes those in wait_for_stop().
LEMMA NotifyStoppedKeeps ==
  ASSUME IInv, NotifyStopped
  PROVE  IInv'
<1> USE ThreadAssumption DEF Threads, Stopping
<1>1. /\ pc[Thread] = "finnotify"
      /\ pc' = [x \in Threads |-> IF x = Thread THEN "inactive"
                                  ELSE IF x \in Threads /\ pc[x] = "stopsleep" THEN "stoplock"
                                  ELSE pc[x]]
      /\ UNCHANGED <<started, termself, terminating, stopped, active, mtx, class, released, stops>>
  BY DEF NotifyStopped, Notify, StopSleepers, flags, rest
<1>2. Flags'
  BY <1>1 DEF IInv, TypeOK, Flags
<1>3. Places'
  BY <1>1 DEF IInv, TypeOK, Places, StopLabels, ThreadLabels, OwnerLabels, Labels
<1>4. Locked'
  BY <1>1 DEF IInv, TypeOK, Places, Locked
<1>5. Lifetime'
  BY <1>1 DEF IInv, TypeOK, Places, Lifetime, Callers, Destroyed, StopLabels, Past
<1>6. Progress'
  BY <1>1 DEF IInv, TypeOK, Places, Progress, Past
<1>7. Callers'
  BY <1>1 DEF IInv, TypeOK, Places, Lifetime, Callers, Progress, StopLabels, Past
<1>8. Winners'
  BY <1>1 DEF IInv, TypeOK, Flags, Places, Winners
<1>9. QED
  BY <1>2, <1>3, <1>4, <1>5, <1>6, <1>7, <1>8 DEF IInv, TypeOK

\* The thread leaves operator()().
LEMMA ClearActiveKeeps ==
  ASSUME IInv, ClearActive
  PROVE  IInv'
<1> USE ThreadAssumption DEF Threads, Stopping
<1>1. /\ pc[Thread] = "inactive" /\ pc' = [pc EXCEPT ![Thread] = "ended"] /\ active' = FALSE
      /\ UNCHANGED <<started, termself, terminating, stopped, mtx, class, released, stops>>
  BY DEF ClearActive, Goto, rest
<1>2. Flags'
  BY <1>1 DEF IInv, TypeOK, Flags
<1>3. Places'
  BY <1>1 DEF IInv, TypeOK, Places, StopLabels, ThreadLabels, OwnerLabels, Labels
<1>4. Locked'
  BY <1>1 DEF IInv, TypeOK, Places, Locked
<1>5. Lifetime'
  BY <1>1 DEF IInv, TypeOK, Places, Lifetime, Callers, Destroyed, StopLabels, Past
<1>6. Progress'
  BY <1>1 DEF IInv, TypeOK, Places, Progress, Past
<1>7. Callers'
  BY <1>1 DEF IInv, TypeOK, Places, Lifetime, Callers, Progress, StopLabels, Past
<1>8. Winners'
  BY <1>1 DEF IInv, TypeOK, Flags, Places, Winners
<1>9. QED
  BY <1>2, <1>3, <1>4, <1>5, <1>6, <1>7, <1>8 DEF IInv, TypeOK

\* Every step keeps it: one case per action.
LEMMA NextIInv == IInv /\ [Next]_vars => IInv'
<1> SUFFICES ASSUME IInv, [Next]_vars PROVE IInv'
  OBVIOUS
<1>1. CASE AtServiceStart
  BY <1>1, ThreadMoves DEF AtServiceStart, Working
<1>2. CASE TestLoop
  BY <1>2, ThreadMoves DEF TestLoop, Working
<1>3. CASE HandleError
  BY <1>3, ThreadMoves DEF HandleError, Working
<1>4. CASE ServiceReturns
  BY <1>4, ThreadMoves DEF ServiceReturns, Working
<1>5. CASE ServiceThrows
  BY <1>5, ThreadMoves DEF ServiceThrows, Working
<1>6. CASE ServiceBlocks
  BY <1>6, ThreadMoves DEF ServiceBlocks, Working
<1>7. CASE ServiceReleased
  BY <1>7, ThreadMoves DEF ServiceReleased, Working
<1>8. CASE ServiceResumes
  BY <1>8, ThreadMoves DEF ServiceResumes, Working
<1>9. CASE LockStart
  BY <1>9, LockStartKeeps
<1>10. CASE ThreadBegins
  BY <1>10, ThreadBeginsKeeps
<1>11. CASE SetStopped
  BY <1>11, SetStoppedKeeps
<1>12. CASE NotifyStopped
  BY <1>12, NotifyStoppedKeeps
<1>13. CASE ClearActive
  BY <1>13, ClearActiveKeeps
<1>14. ASSUME NEW t \in Threads, Exchange(t) PROVE IInv'
  BY <1>14, ExchangeKeeps
<1>15. ASSUME NEW t \in Threads, ProcessStop(t) PROVE IInv'
  BY <1>15, ProcessStopKeeps
<1>16. ASSUME NEW t \in Threads, LockStop(t) PROVE IInv'
  BY <1>16, LockStopKeeps
<1>17. ASSUME NEW t \in Threads, WaitStop(t) PROVE IInv'
  BY <1>17, WaitStopKeeps
<1>18. ASSUME NEW t \in Threads, StopNotify(t) PROVE IInv'
  BY <1>18, StopNotifyKeeps
<1>19. ASSUME NEW t \in Threads, SpuriousWakeup(t) PROVE IInv'
  BY <1>19, SpuriousWakeupKeeps
<1> USE ThreadAssumption
<1> USE DEF IInv, TypeOK, Flags, Places, Locked, Lifetime, Progress, Callers, Winners,
            Past, Destroyed, Threads, Stopping, OwnerLabels, ThreadLabels, StopLabels, Labels,
            Goto, Atomically, Notify, flags, rest
<1>20. CASE UNCHANGED vars
  BY <1>20 DEF vars
<1>21. CASE BaseConstructed
  BY <1>21 DEF BaseConstructed
<1>22. CASE Start
  BY <1>22 DEF Start
<1>23. CASE StartNotify
  BY <1>23 DEF StartNotify, StartSleepers
<1>24. CASE ConstructorThrows
  BY <1>24 DEF ConstructorThrows
<1>25. CASE TestStart
  BY <1>25 DEF TestStart
<1>26. CASE WaitStart
  BY <1>26 DEF WaitStart
<1>27. CASE CheckStart
  BY <1>27 DEF CheckStart
<1>28. CASE TerminateService
  BY <1>28 DEF TerminateService
<1>29. CASE Destroy
  BY <1>29 DEF Destroy
<1>30. CASE EnterBaseDestructor
  BY <1>30 DEF EnterBaseDestructor
<1>31. CASE DestructorTerminates
  BY <1>31 DEF DestructorTerminates
<1>32. CASE DestructorNotify
  BY <1>32 DEF DestructorNotify, StartSleepers
<1>33. CASE Join
  BY <1>33 DEF Join
<1>34. ASSUME NEW t \in Threads, CallStop(t) PROVE IInv'
  BY <1>34 DEF CallStop
<1>35. ASSUME NEW t \in Threads, TestStop(t) PROVE IInv'
  BY <1>35 DEF TestStop
<1> HIDE DEF IInv, TypeOK, Flags, Places, Locked, Lifetime, Progress, Callers, Winners,
            Past, Destroyed, Threads, Stopping, OwnerLabels, ThreadLabels, StopLabels, Labels,
            Goto, Atomically, Notify, flags, rest
<1>36. QED
  BY <1>1, <1>2, <1>3, <1>4, <1>5, <1>6, <1>7, <1>8, <1>9, <1>10, <1>11, <1>12, <1>13,
     <1>14, <1>15, <1>16, <1>17, <1>18, <1>19, <1>20, <1>21, <1>22, <1>23, <1>24, <1>25,
     <1>26, <1>27, <1>28, <1>29, <1>30, <1>31, <1>32, <1>33, <1>34, <1>35
  DEF Next, Frame, Runs, Serves, InLifetime, InStop

\* For any number of threads that call stop(), every field keeps its type
\* and every virtual call finds the derived class alive and constructed.
THEOREM Invariance == Spec => [](TypeOK /\ VirtualSafe)
<1>1. IInv => TypeOK /\ VirtualSafe
  BY ThreadAssumption
  DEF IInv, TypeOK, Flags, Places, Lifetime, Progress, Callers, VirtualSafe, Past, Destroyed, Stopping,
      OwnerLabels, StopLabels, ThreadLabels
<1>2. QED
  BY <1>1, InitIInv, NextIInv, PTL DEF Spec
\* After any stop() has returned, to whichever caller, the thread is past its
\* last virtual call.
THEOREM StopIsQuiet == Spec => []StopMeansQuiet
<1>1. IInv => StopMeansQuiet
  BY DEF IInv, Callers, Progress, StopMeansQuiet, Past
<1>2. QED
  BY <1>1, InitIInv, NextIInv, PTL DEF Spec

\* However many threads call stop() at once, one of them runs processstop().
THEOREM StopRunsOnce == Spec => []OneProcessStop
<1>1. IInv => OneProcessStop
  BY DEF IInv, Winners, OneProcessStop
<1>2. QED
  BY <1>1, InitIInv, NextIInv, PTL DEF Spec
-----------------------------------------------------------------------------
\* Every step is a step of Process or leaves its variables alone.
LEMMA StepIsProcessStep == [RNext]_rvars => [Next]_vars
<1> SUFFICES ASSUME [RNext]_rvars PROVE [Next]_vars
  OBVIOUS
<1>1. CASE UNCHANGED rvars
  BY <1>1 DEF rvars
<1>2. CASE Around(Frame)
  BY <1>2 DEF Around, Next
<1>3. CASE Service
  BY <1>3 DEF Service, TestTerminating, ReadClock, WaitFor, WaitTimesOut, TestStopped, Callback,
              End, Stay, Next, Serves
<1>4. CASE WaitReturns \/ TimePasses
  BY <1>4 DEF WaitReturns, TimePasses, Stay
<1>5. QED
  BY <1>1, <1>2, <1>3, <1>4 DEF RNext

\* runaftertime is a process: its service() and its processstop() do nothing
\* that Process does not allow a derived class.
THEOREM Refinement == PromptSpec => IsProcess
<1>1. RInit => Init
  BY DEF RInit
<1>2. QED
  BY <1>1, StepIsProcessStep, PTL DEF PromptSpec, IsProcess, Spec

BeforeLoop == {"new", "startlock", "starttest", "startwait", "startsleep", "check", "atstart"}

\* How service() stands to the thread, the clock and the callback.
Once ==
  /\ RTypeOK
  /\ pc[Thread] # "service" => svc = "loop"
  /\ svc = "after" => due \/ terminating
  /\ svc = "callback" \/ fired > 0 => due
  /\ termself => terminating
  /\ pc[Thread] = "service" => fired = 0 \/ svc = "end"
  /\ pc[Thread] = "service" /\ termself => svc = "end"
  /\ pc[Thread] = "loop" => fired = 0 \/ terminating
  /\ pc[Thread] \in BeforeLoop => fired = 0 /\ ~termself

\* What Process does around service(): it never takes a flag back, and takes
\* the thread into service() from the loop only, when nobody has stopped it.
LEMMA FrameMoves ==
  ASSUME IInv, Frame
  PROVE  /\ terminating => terminating'
         /\ termself' = termself
         /\ \/ pc'[Thread] = pc[Thread]
            \/ pc[Thread] \in BeforeLoop /\ pc'[Thread] \in BeforeLoop \cup {"loop", "error", "finish"}
            \/ pc[Thread] = "loop" /\ ~terminating /\ pc'[Thread] = "service"
            \/ pc[Thread] \notin BeforeLoop \cup {"service"}
               /\ pc'[Thread] \in {"error", "finish"} \cup Past
<1> DEFINE P == /\ terminating => terminating'
                /\ termself' = termself
                /\ \/ pc'[Thread] = pc[Thread]
                   \/ pc[Thread] \in BeforeLoop /\ pc'[Thread] \in BeforeLoop \cup {"loop", "error", "finish"}
                   \/ pc[Thread] = "loop" /\ ~terminating /\ pc'[Thread] = "service"
                   \/ pc[Thread] \notin BeforeLoop \cup {"service"}
                      /\ pc'[Thread] \in {"error", "finish"} \cup Past
<1> SUFFICES P
  OBVIOUS
<1> USE ThreadAssumption
<1> USE DEF Goto, Atomically, Notify, flags, rest, BeforeLoop, Past, Threads, Stopping
<1>0. pc \in [Threads -> Labels] /\ Thread \in Threads
  BY DEF IInv, TypeOK, Places
<1>1. CASE Runs
  <2>1. CASE ThreadBegins \/ LockStart \/ TestStart \/ WaitStart \/ CheckStart
    BY <1>0, <2>1 DEF ThreadBegins, LockStart, TestStart, WaitStart, CheckStart
  <2>2. CASE AtServiceStart \/ TestLoop \/ HandleError
    BY <1>0, <2>2 DEF AtServiceStart, TestLoop, HandleError
  <2>3. CASE SetStopped \/ NotifyStopped \/ ClearActive
    BY <1>0, <2>3 DEF SetStopped, NotifyStopped, ClearActive
  <2>4. QED
    BY <1>1, <2>1, <2>2, <2>3 DEF Runs
<1>2. CASE InLifetime \/ ConstructorThrows \/ Destroy
  <2>1. CASE BaseConstructed \/ Start \/ StartNotify \/ ConstructorThrows
    BY <1>0, <2>1 DEF BaseConstructed, Start, StartNotify, StartSleepers, ConstructorThrows
  <2>2. CASE Destroy \/ EnterBaseDestructor \/ Join
    BY <1>0, <2>2 DEF Destroy, EnterBaseDestructor, Join
  <2>3. CASE DestructorTerminates
    BY <1>0, <2>3 DEF DestructorTerminates
  <2>4. CASE DestructorNotify
    BY <1>0, <2>4 DEF DestructorNotify, StartSleepers
  <2>5. QED
    BY <1>2, <2>1, <2>2, <2>3, <2>4 DEF InLifetime
<1>3. ASSUME NEW t \in Threads, CallStop(t) \/ InStop(t) PROVE P
  <2>1. CASE CallStop(t) \/ Exchange(t) \/ ProcessStop(t)
    BY <1>0, <2>1 DEF CallStop, Exchange, ProcessStop
  <2>2. CASE StopNotify(t)
    BY <1>0, <2>2 DEF StopNotify, StartSleepers
  <2>3. CASE LockStop(t) \/ TestStop(t) \/ WaitStop(t)
    BY <1>0, <2>3 DEF LockStop, TestStop, WaitStop
  <2>4. QED
    BY <1>3, <2>1, <2>2, <2>3 DEF InStop
<1>4. ASSUME NEW t \in Threads, SpuriousWakeup(t) PROVE P
  <2>1. IInv /\ pc[t] = "stopsleep" => t # Thread
    BY DEF IInv, TypeOK, Places, ThreadLabels
  <2>2. QED
    BY <1>0, <1>4, <2>1 DEF SpuriousWakeup
<1>5. QED
  BY <1>1, <1>2, <1>3, <1>4 DEF Frame

\* Every step keeps Once.
LEMMA OnceStep == IInv /\ Once /\ [RNext]_rvars => Once'
<1> SUFFICES ASSUME IInv, Once, [RNext]_rvars PROVE Once'
  OBVIOUS
<1>1. CASE UNCHANGED rvars
  BY <1>1 DEF rvars, vars, local, Once, RTypeOK
<1>2. CASE Around(Frame)
  <2>1. /\ due' = due /\ fired' = fired
        /\ svc' = svc \/ (At("sleep") /\ svc' = "loop")
        /\ pc[Thread] = "atstart" => pc'[Thread] # "error"
    BY <1>2 DEF Around
  <2>2. RTypeOK'
    BY <2>1 DEF Once, RTypeOK
  <2>3. QED
    BY <1>2, <2>1, <2>2, FrameMoves DEF Around, At, Once, RTypeOK, BeforeLoop, Past
<1>3. CASE TestTerminating \/ ReadClock \/ WaitFor \/ WaitTimesOut \/ TestStopped
  BY <1>3 DEF TestTerminating, ReadClock, WaitFor, WaitTimesOut, TestStopped,
              At, Stay, vars, flags, rest, Once, RTypeOK, BeforeLoop
<1>4. CASE Callback
  <2>1. /\ At("callback") /\ fired' = fired + 1 /\ due' = due
        /\ terminating' = terminating /\ termself' = termself
        /\ \/ svc' = "end" /\ pc' = pc
           \/ svc' = "loop" /\ pc'[Thread] = "error"
    BY <1>4 DEF Callback, Stay, vars, ServiceThrows, Goto, flags, IInv, TypeOK, Places, Threads
  <2>2. QED
    BY <2>1 DEF At, Once, RTypeOK, BeforeLoop
<1>5. CASE End
  <2>1. /\ At("end") /\ fired' = fired /\ due' = due
        /\ \/ svc' = svc /\ pc' = pc /\ terminating' = TRUE /\ termself' = TRUE
           \/ /\ termself /\ svc' = "loop" /\ pc'[Thread] = "loop"
              /\ terminating' = terminating /\ termself' = termself
    BY <1>5 DEF End, TerminateService, ServiceReturns, Goto, flags, IInv, TypeOK, Places, Threads
  <2>2. QED
    BY <2>1 DEF At, Once, RTypeOK, BeforeLoop
<1>6. CASE WaitReturns
  BY <1>6 DEF WaitReturns, At, Stay, vars, flags, rest, Once, RTypeOK, BeforeLoop
<1>7. CASE TimePasses
  BY <1>7 DEF TimePasses, Stay, vars, flags, rest, Once, RTypeOK, BeforeLoop
<1>8. QED
  BY <1>1, <1>2, <1>3, <1>4, <1>5, <1>6, <1>7 DEF RNext, Service

\* Once holds when the object is constructed.
LEMMA OnceAtFirst == RInit => Init /\ Once
<1> SUFFICES ASSUME RInit PROVE Init /\ Once
  OBVIOUS
<1>1. Init /\ due = FALSE /\ svc = "loop" /\ fired = 0 /\ termself = FALSE
  BY DEF RInit, Init
<1>2. pc[Thread] = "new"
  BY ThreadAssumption, <1>1 DEF Init, Threads
<1>3. RTypeOK
  <2>1. due \in BOOLEAN
    BY <1>1
  <2>2. svc \in {"loop", "clock", "wait", "sleep", "after", "callback", "end"}
    BY <1>1
  <2>3. fired \in 0..1
    BY <1>1
  <2>4. QED
    BY <2>1, <2>2, <2>3 DEF RTypeOK
<1>4. QED
  BY <1>1, <1>2, <1>3 DEF Once, BeforeLoop

\* The callback is called at most once (`fired` stays in 0..1), whatever
\* terminating, stopping and spurious wakeups do to the wait before it.
THEOREM CalledOnce == PromptSpec => []RTypeOK
<1>1. Once => RTypeOK
  BY DEF Once
<1>2. QED
  BY <1>1, OnceAtFirst, InitIInv, NextIInv, StepIsProcessStep, OnceStep, PTL DEF PromptSpec

\* The callback is never called before its time.
THEOREM NotEarly == PromptSpec => []NeverEarly
<1>1. Once => NeverEarly
  BY DEF Once, NeverEarly, At
<1>2. QED
  BY <1>1, OnceAtFirst, InitIInv, NextIInv, StepIsProcessStep, OnceStep, PTL DEF PromptSpec

\* No callback begins or runs once any stop() has returned.
THEOREM QuietAfterStop == PromptSpec => NotAfterStop
<1>1. IInv /\ [RNext]_rvars
        => [(\E t \in Stopping : pc[t] = "stopreturned") => fired' = fired]_rvars
  <2> SUFFICES ASSUME IInv, RNext, \E t \in Stopping : pc[t] = "stopreturned"
               PROVE  fired' = fired
    OBVIOUS
  <2>1. pc[Thread] # "service"
    BY DEF IInv, Callers, Past
  <2>2. QED
    BY <2>1 DEF RNext, Around, Service, TestTerminating, ReadClock, WaitFor, WaitTimesOut,
                TestStopped, Callback, End, WaitReturns, TimePasses, At
<1>2. RInit => Init
  BY DEF RInit
<1>3. QED
  BY <1>1, <1>2, InitIInv, NextIInv, StepIsProcessStep, PTL DEF PromptSpec, NotAfterStop
=============================================================================
