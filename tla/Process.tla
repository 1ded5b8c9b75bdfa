------------------------------ MODULE Process ------------------------------
(***************************************************************************)
(* util/process.h: an object that owns a thread.  The base constructor     *)
(* starts the thread, which must not touch the derived class before its    *)
(* constructor called start(); the derived destructor calls stop(), which  *)
(* asks the thread to end and waits for it; ~process joins it.             *)
(*                                                                         *)
(* The derived class is any class that keeps the contract of the comments  *)
(* in process.h: it calls start() at the end of its constructor unless     *)
(* that constructor throws before, it calls stop() in its destructor, and  *)
(* its processstop() gets a service() that waits for something out of it.  *)
(* The caller's part of the contract: stop() is called by other threads    *)
(* only on a complete object, and its destruction starts after they        *)
(* returned.  Volatile and plain flags are read and written one at a time. *)
(***************************************************************************)
EXTENDS Integers, FiniteSets

CONSTANTS
  Owner,    \* the thread that constructs and destroys the object
  Thread,   \* the thread of _thread
  Others,   \* further threads that call stop()
  NoThread

Stopping == {Owner} \cup Others
Threads == {Owner, Thread} \cup Others

ASSUME ThreadAssumption ==
  /\ Owner # Thread /\ Owner \notin Others /\ Thread \notin Others
  /\ NoThread \notin Threads

VARIABLES
  started, termself, terminating, stopped, active,  \* _started ... _active
  mtx,        \* who holds _processmtx
  class,      \* the class whose virtual functions a call on the object reaches
  released,   \* processstop() was called: nothing in service() waits any more
  stops,      \* how often processstop() was called
  pc

flags == <<started, termself, terminating, stopped, active>>
rest == <<class, released, stops>>
vars == <<started, termself, terminating, stopped, active, mtx, class, released, stops, pc>>

Init ==
  /\ started = FALSE /\ termself = FALSE /\ terminating = FALSE
  /\ stopped = FALSE /\ active = TRUE
  /\ mtx = NoThread /\ class = "process"
  /\ released = FALSE /\ stops = 0
  /\ pc = [t \in Threads |-> IF t = Owner THEN "base" ELSE IF t = Thread THEN "new" ELSE "idle"]

Goto(t, l) == pc' = [pc EXCEPT ![t] = l]

\* A critical section without a wait in it, as one step.
Atomically == mtx = NoThread /\ mtx' = mtx

\* notify on a condition variable by t, which goes on at l; those that sleep
\* on it return from wait() by taking the mutex again, at `relock`.
Notify(t, sleepers, relock, l) ==
  pc' = [x \in Threads |-> IF x = t THEN l ELSE IF x \in sleepers THEN relock ELSE pc[x]]

StartSleepers == {t \in Threads : pc[t] = "startsleep"}
StopSleepers == {t \in Threads : pc[t] = "stopsleep"}
-----------------------------------------------------------------------------
(* Construction: process(), the derived constructor, start(). *)

BaseConstructed ==
  /\ pc[Owner] = "base"
  /\ class' = "derived" /\ Goto(Owner, "ctor")
  /\ UNCHANGED <<flags, mtx, released, stops>>

Start ==
  /\ pc[Owner] = "ctor" /\ Atomically
  /\ started' = TRUE
  /\ Goto(Owner, "startnotify")
  /\ UNCHANGED <<termself, terminating, stopped, active, rest>>

StartNotify ==
  /\ pc[Owner] = "startnotify"
  /\ Notify(Owner, StartSleepers, "startlock", "using")
  /\ UNCHANGED <<flags, mtx, rest>>

\* an exception in the derived constructor, before start(): the base part
\* is destroyed by ~process
ConstructorThrows ==
  /\ pc[Owner] = "ctor"
  /\ class' = "process" /\ Goto(Owner, "dtor")
  /\ UNCHANGED <<flags, mtx, released, stops>>
-----------------------------------------------------------------------------
(* operator()(), the thread. *)

ThreadBegins ==
  /\ pc[Thread] = "new"
  /\ active' = TRUE /\ Goto(Thread, "startlock")
  /\ UNCHANGED <<started, termself, terminating, stopped, mtx, rest>>

\* wait_for_start(): the test and the wait are two steps, both under the
\* mutex, because ~process and stop() change _terminating without it
LockStart ==
  /\ pc[Thread] = "startlock" /\ mtx = NoThread
  /\ mtx' = Thread /\ Goto(Thread, "starttest")
  /\ UNCHANGED <<flags, rest>>

TestStart ==
  /\ pc[Thread] = "starttest"
  /\ IF started \/ stopped \/ terminating
     THEN mtx' = NoThread /\ Goto(Thread, "check")
     ELSE mtx' = mtx /\ Goto(Thread, "startwait")
  /\ UNCHANGED <<flags, rest>>

WaitStart ==
  /\ pc[Thread] = "startwait"
  /\ mtx' = NoThread /\ Goto(Thread, "startsleep")
  /\ UNCHANGED <<flags, rest>>

\* mutant: goes on although the object is being destroyed
CheckStartIgnored ==
  /\ pc[Thread] = "check"
  /\ Goto(Thread, "atstart")
  /\ UNCHANGED <<flags, mtx, rest>>
CheckStart ==
  /\ pc[Thread] = "check"
  /\ Goto(Thread, IF terminating \/ stopped THEN "finish" ELSE "atstart")
  /\ UNCHANGED <<flags, mtx, rest>>

AtServiceStart ==
  /\ pc[Thread] = "atstart"
  /\ \E l \in {"loop", "error"} : Goto(Thread, l)
  /\ UNCHANGED <<flags, mtx, rest>>

\* mutant: `while (!_stopped)`
TestLoopStopped ==
  /\ pc[Thread] = "loop"
  /\ Goto(Thread, IF stopped THEN "finish" ELSE "service")
  /\ UNCHANGED <<flags, mtx, rest>>
TestLoop ==
  /\ pc[Thread] = "loop"
  /\ Goto(Thread, IF terminating \/ stopped THEN "finish" ELSE "service")
  /\ UNCHANGED <<flags, mtx, rest>>

\* handle_error(), which may throw again: both ways lead behind the try
HandleError ==
  /\ pc[Thread] = "error"
  /\ Goto(Thread, "finish")
  /\ UNCHANGED <<flags, mtx, rest>>

SetStopped ==
  /\ pc[Thread] = "finish" /\ Atomically
  /\ stopped' = TRUE
  /\ Goto(Thread, "finnotify")
  /\ UNCHANGED <<started, termself, terminating, active, rest>>

\* mutant: leaves the sleepers in wait_for_stop() where they are
NotifyStoppedNobody ==
  /\ pc[Thread] = "finnotify"
  /\ Notify(Thread, {}, "stoplock", "inactive")
  /\ UNCHANGED <<flags, mtx, rest>>
NotifyStopped ==
  /\ pc[Thread] = "finnotify"
  /\ Notify(Thread, StopSleepers, "stoplock", "inactive")
  /\ UNCHANGED <<flags, mtx, rest>>

ClearActive ==
  /\ pc[Thread] = "inactive"
  /\ active' = FALSE /\ Goto(Thread, "ended")
  /\ UNCHANGED <<started, termself, terminating, stopped, mtx, rest>>
-----------------------------------------------------------------------------
(* service(), one call of the derived class. *)

ServiceReturns ==
  /\ pc[Thread] = "service"
  /\ Goto(Thread, "loop")
  /\ UNCHANGED <<flags, mtx, rest>>

ServiceThrows ==
  /\ pc[Thread] = "service"
  /\ Goto(Thread, "error")
  /\ UNCHANGED <<flags, mtx, rest>>

TerminateService ==
  /\ pc[Thread] = "service" /\ ~termself
  /\ termself' = TRUE /\ terminating' = TRUE
  /\ UNCHANGED <<started, stopped, active, mtx, rest, pc>>

\* waiting for something processstop() ends; not after terminateservice()
ServiceBlocks ==
  /\ pc[Thread] = "service" /\ ~released /\ ~termself
  /\ Goto(Thread, "blocked")
  /\ UNCHANGED <<flags, mtx, rest>>

ServiceReleased ==
  /\ pc[Thread] = "blocked" /\ released
  /\ Goto(Thread, "service")
  /\ UNCHANGED <<flags, mtx, rest>>

\* what it waits for may also arrive by itself
ServiceResumes ==
  /\ pc[Thread] = "blocked" /\ ~released
  /\ Goto(Thread, "service")
  /\ UNCHANGED <<flags, mtx, rest>>
-----------------------------------------------------------------------------
(* stop(), called by t. *)

\* another thread calls it while the object is in use
CallStop(t) ==
  /\ t \in Others /\ pc[t] = "idle" /\ pc[Owner] = "using"
  /\ Goto(t, "stop")
  /\ UNCHANGED <<flags, mtx, rest>>

\* the derived destructor calls it
Destroy ==
  /\ pc[Owner] = "using"
  /\ \A t \in Others : pc[t] \in {"idle", "stopreturned"}
  /\ Goto(Owner, "stop")
  /\ UNCHANGED <<flags, mtx, rest>>

\* mutant: tests the flag and does not set it
ExchangeTests(t) ==
  /\ t \in Stopping /\ pc[t] = "stop"
  /\ Goto(t, IF terminating THEN "stoplock" ELSE "stopnotify")
  /\ UNCHANGED <<flags, mtx, rest>>
\* atomic_readwrite(&_terminating, true)
Exchange(t) ==
  /\ t \in Stopping /\ pc[t] = "stop"
  /\ terminating' = TRUE
  /\ Goto(t, IF terminating THEN "stoplock" ELSE "stopnotify")
  /\ UNCHANGED <<started, termself, stopped, active, mtx, rest>>

StopNotify(t) ==
  /\ t \in Stopping /\ pc[t] = "stopnotify"
  /\ Notify(t, StartSleepers, "startlock", "processstop")
  /\ UNCHANGED <<flags, mtx, rest>>

ProcessStop(t) ==
  /\ t \in Stopping /\ pc[t] = "processstop"
  /\ released' = TRUE /\ stops' = stops + 1
  /\ Goto(t, "stoplock")
  /\ UNCHANGED <<flags, mtx, class>>

\* wait_for_stop()
LockStop(t) ==
  /\ t \in Stopping /\ pc[t] = "stoplock" /\ mtx = NoThread
  /\ mtx' = t /\ Goto(t, "stoptest")
  /\ UNCHANGED <<flags, rest>>

\* mutant: does not wait for the thread
TestStopNoWait(t) ==
  /\ t \in Stopping /\ pc[t] = "stoptest"
  /\ mtx' = NoThread /\ Goto(t, "stopreturned")
  /\ UNCHANGED <<flags, rest>>
TestStop(t) ==
  /\ t \in Stopping /\ pc[t] = "stoptest"
  /\ IF started /\ active /\ ~stopped
     THEN mtx' = mtx /\ Goto(t, "stopwait")
     ELSE mtx' = NoThread /\ Goto(t, "stopreturned")
  /\ UNCHANGED <<flags, rest>>

WaitStop(t) ==
  /\ t \in Stopping /\ pc[t] = "stopwait"
  /\ mtx' = NoThread /\ Goto(t, "stopsleep")
  /\ UNCHANGED <<flags, rest>>
-----------------------------------------------------------------------------
(* ~process() *)

EnterBaseDestructor ==
  /\ pc[Owner] = "stopreturned"
  /\ class' = "process" /\ Goto(Owner, "dtor")
  /\ UNCHANGED <<flags, mtx, released, stops>>

\* `if (!_started) _terminating= true`, without the mutex
DestructorTerminates ==
  /\ pc[Owner] = "dtor"
  /\ terminating' = (terminating \/ ~started)
  /\ Goto(Owner, IF started THEN "join" ELSE "dtornotify")
  /\ UNCHANGED <<started, termself, stopped, active, mtx, rest>>

DestructorNotify ==
  /\ pc[Owner] = "dtornotify"
  /\ Notify(Owner, StartSleepers, "startlock", "join")
  /\ UNCHANGED <<flags, mtx, rest>>

Join ==
  /\ pc[Owner] = "join" /\ pc[Thread] = "ended"
  /\ Goto(Owner, "gone")
  /\ UNCHANGED <<flags, mtx, rest>>
-----------------------------------------------------------------------------
SpuriousWakeup(t) ==
  /\ pc[t] \in {"startsleep", "stopsleep"}
  /\ Goto(t, IF pc[t] = "startsleep" THEN "startlock" ELSE "stoplock")
  /\ UNCHANGED <<flags, mtx, rest>>

\* the thread outside service(), and the service a derived class gives it
Runs ==
  \/ ThreadBegins \/ LockStart \/ TestStart \/ WaitStart \/ CheckStart \/ AtServiceStart
  \/ TestLoop \/ HandleError \/ SetStopped \/ NotifyStopped \/ ClearActive
Serves ==
  \/ ServiceReturns \/ ServiceThrows \/ TerminateService \/ ServiceBlocks \/ ServiceReleased

\* what a caller does once it is inside a call of the class
InStop(t) ==
  Exchange(t) \/ StopNotify(t) \/ ProcessStop(t) \/ LockStop(t) \/ TestStop(t) \/ WaitStop(t)
InLifetime ==
  \/ BaseConstructed \/ Start \/ StartNotify
  \/ EnterBaseDestructor \/ DestructorTerminates \/ DestructorNotify \/ Join

\* everything but the service
Frame ==
  \/ Runs \/ InLifetime \/ ConstructorThrows \/ Destroy
  \/ \E t \in Threads : CallStop(t) \/ InStop(t) \/ SpuriousWakeup(t)

Next == Frame \/ Serves \/ ServiceResumes

Spec == Init /\ [][Next]_vars

\* Every thread inside the library is scheduled, and a mutex that is free
\* again and again is got at last: strong fairness, as a waiter that wakes up
\* spuriously may take the mutex any number of times.  A service that is not
\* blocked comes to its end.  Nobody has to call or to destroy.
Fairness ==
  /\ SF_vars(Runs) /\ SF_vars(InLifetime)
  /\ \A t \in Stopping : SF_vars(InStop(t))
FairSpec == Spec /\ Fairness /\ WF_vars(Serves)
-----------------------------------------------------------------------------
(* Properties. *)

ThreadLabels == {"new", "startlock", "starttest", "startwait", "startsleep", "check", "atstart",
                 "loop", "service", "blocked", "error", "finish", "finnotify", "inactive", "ended"}
StopLabels == {"stop", "stopnotify", "processstop", "stoplock", "stoptest", "stopwait",
               "stopsleep", "stopreturned"}
OwnerLabels == {"base", "ctor", "startnotify", "using", "dtor", "dtornotify", "join", "gone"}

Labels == ThreadLabels \cup StopLabels \cup OwnerLabels \cup {"idle"}

\* The fields have their types, every thread is where it can be, and exactly
\* the holder of _processmtx is between lock and unlock.
Flags ==
  /\ started \in BOOLEAN /\ termself \in BOOLEAN /\ terminating \in BOOLEAN
  /\ stopped \in BOOLEAN /\ active \in BOOLEAN /\ released \in BOOLEAN
  /\ class \in {"process", "derived"} /\ stops \in Nat
Places ==
  /\ pc \in [Threads -> Labels]
  /\ pc[Owner] \in OwnerLabels \cup StopLabels
  /\ pc[Thread] \in ThreadLabels
  /\ \A t \in Others : pc[t] \in StopLabels \cup {"idle"}
Locked ==
  /\ mtx \in Threads \cup {NoThread}
  /\ \A t \in Threads :
       pc[t] \in {"starttest", "startwait", "stoptest", "stopwait"} <=> mtx = t
TypeOK == Flags /\ Places /\ Locked

\* "you cannot use virtual methods until after wait_for_start()", and none
\* after the derived part is gone: every virtual call, of the thread and of
\* stop(), finds the derived class there and constructed up to start().
VirtualSafe ==
  /\ pc[Thread] \in {"atstart", "service", "blocked", "error"}
       => class = "derived" /\ started
  /\ \A t \in Stopping : pc[t] = "processstop" => class = "derived" /\ started

\* Once any stop() has returned, the thread is past its last virtual call,
\* for good: the caller may release what service() and handle_error() use.
StopMeansQuiet ==
  (\E t \in Stopping : pc[t] = "stopreturned")
    => stopped /\ pc[Thread] \in {"finnotify", "inactive", "ended"}

\* Several threads may call stop() at once; only one runs processstop().
OneProcessStop == stops <= 1

\* Every call of stop() returns, also when service() was waiting, threw, or
\* ended by itself at the same moment.
StopReturns ==
  \A t \in Stopping : pc[t] = "stop" ~> pc[t] \notin StopLabels \ {"stopreturned"}

\* The destruction of an object whose constructor called start() completes:
\* the thread is told, ends, is waited for and joined.
DestructorCompletes == pc[Owner] = "stop" ~> pc[Owner] = "gone"

\* "solve problem with exception in childclass constructor -> start() is not
\* called, and operator() waits for that": that destructor completes, too.
FailedConstructionCompletes == pc[Owner] = "dtor" /\ ~started ~> pc[Owner] = "gone"
=============================================================================
