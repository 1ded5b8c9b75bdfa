------------------------------ MODULE QueueBuf ------------------------------
(***************************************************************************)
(* util/queuebuf.h: the bounded queue that every socket and process of the *)
(* library uses to pass data between threads.  One mutex, two condition    *)
(* variables, notify_one after every operation, and stop(), which is meant *)
(* to turn every blocked thread out with an exception.                     *)
(*                                                                         *)
(* What the queue holds is the subject of CircularBuffer; here only how    *)
(* much it holds decides who waits.  A thread that waits on a condition    *)
(* variable has pc "waiting": readers wait on _condrd, writers on _condwr. *)
(***************************************************************************)
EXTENDS Integers, FiniteSets

CONSTANTS
  Readers, Writers, Stoppers,  \* threads that read, that write, that stop
  Owner,        \* the stopper that drains the queue with readbuf() at last
  NoThread,
  Cap,          \* _buf.maxsize()
  ReadRequests, \* the calls of the readers: records [lo, hi]
  WriteSizes    \* the sizes the writers ask for

Threads == Readers \cup Writers \cup Stoppers

ASSUME ThreadAssumption ==
  /\ Readers \cap Writers = {} /\ Readers \cap Stoppers = {} /\ Writers \cap Stoppers = {}
  /\ NoThread \notin Threads
ASSUME SizeAssumption ==
  /\ Cap \in Nat \ {0}
  /\ ReadRequests \subseteq [lo : Nat, hi : Nat]
  /\ \A q \in ReadRequests : q.lo <= q.hi
  /\ WriteSizes \subseteq Nat

VARIABLES
  used,     \* _buf.usedsize()
  stopped,  \* _stopped
  mtx,      \* who holds _mtx
  pc,       \* where each thread is
  req       \* the arguments of its current call

vars == <<used, stopped, mtx, pc, req>>

NoRequest == [lo |-> 0, hi |-> 0]

Init ==
  /\ used = 0 /\ stopped = FALSE /\ mtx = NoThread
  /\ pc = [t \in Threads |-> "idle"]
  /\ req = [t \in Threads |-> NoRequest]

Goto(t, l) == pc' = [pc EXCEPT ![t] = l]
-----------------------------------------------------------------------------
(* read() is the request [1, 1], read(p, n) is [n, n], and                 *)
(* read(p, min, max) is [min, max]; write(T) is a write of size 1.         *)

CallRead(t) ==
  /\ t \in Readers /\ pc[t] = "idle"
  /\ \E q \in ReadRequests : req' = [req EXCEPT ![t] = q]
  /\ Goto(t, "lock")
  /\ UNCHANGED <<used, stopped, mtx>>

CallWrite(t) ==
  /\ t \in Writers /\ pc[t] = "idle"
  /\ \E n \in WriteSizes : req' = [req EXCEPT ![t] = [lo |-> n, hi |-> n]]
  /\ Goto(t, "lock")
  /\ UNCHANGED <<used, stopped, mtx>>

\* the constructor of unique_lock, and the re-acquisition inside wait()
Lock(t) ==
  /\ t \in Readers \cup Writers /\ pc[t] = "lock"
  /\ mtx = NoThread
  /\ mtx' = t
  /\ Goto(t, "test")
  /\ UNCHANGED <<used, stopped, req>>

\* The wait predicates: usedsize()<size for a reader, freesize()<size for a
\* writer.
Insufficient(t) == IF t \in Readers THEN used < req[t].lo ELSE Cap - used < req[t].lo

\* write(p, size) throws at once when the buffer could never hold `size`;
\* read(p, size) has no such test.  An exception ends the calling thread,
\* as it does in process::operator().
TooLarge(t) == t \in Writers /\ Cap < req[t].lo

RefuseLarge(t) ==
  /\ pc[t] = "test" /\ TooLarge(t)
  /\ mtx' = NoThread
  /\ Goto(t, "failed")
  /\ UNCHANGED <<used, stopped, req>>

Wait(t) ==
  /\ pc[t] = "test" /\ ~TooLarge(t)
  /\ ~stopped /\ Insufficient(t)
  /\ mtx' = NoThread
  /\ Goto(t, "waiting")
  /\ UNCHANGED <<used, stopped, req>>

\* `if (_stopped) throw queueerror("stopped")`; the thread ends
ThrowStoppedNever(t) == FALSE /\ UNCHANGED vars  \* mutant: forgets the test after the loop
ThrowStopped(t) ==
  /\ pc[t] = "test" /\ ~TooLarge(t)
  /\ stopped
  /\ mtx' = NoThread
  /\ Goto(t, "failed")
  /\ UNCHANGED <<used, stopped, req>>

StartCopy(t) ==
  /\ pc[t] = "test" /\ ~TooLarge(t)
  /\ ~stopped /\ ~Insufficient(t)
  /\ Goto(t, "copy")
  /\ UNCHANGED <<used, stopped, mtx, req>>

\* _buf.read / _buf.write, then lock.unlock()
TakenAll(t) == req[t].hi  \* mutant: reads `maxsize` instead of the minimum
Taken(t) == IF req[t].hi < used THEN req[t].hi ELSE used

ReadData(t) ==
  /\ t \in Readers /\ pc[t] = "copy"
  /\ used' = used - Taken(t)
  /\ mtx' = NoThread
  /\ Goto(t, "notify")
  /\ UNCHANGED <<stopped, req>>

WriteData(t) ==
  /\ t \in Writers /\ pc[t] = "copy"
  /\ used' = used + req[t].lo
  /\ mtx' = NoThread
  /\ Goto(t, "notify")
  /\ UNCHANGED <<stopped, req>>

\* `cond.notify_one()` by thread t, which goes on at l: one of the waiting
\* threads, if any, leaves wait() and has to get the mutex back.
NotifyOne(t, waiters, l) ==
  LET asleep == {x \in waiters : pc[x] = "waiting"} IN
  \/ asleep = {} /\ Goto(t, l)
  \/ \E x \in asleep : pc' = [pc EXCEPT ![x] = "lock", ![t] = l]

\* mutant: a writer notifies the other writers
NotifyOwnSide(t) ==
  /\ pc[t] = "notify"
  /\ NotifyOne(t, Writers, "idle")
  /\ UNCHANGED <<used, stopped, mtx, req>>
\* mutant: a reader notifies the other readers
NotifyReaders(t) ==
  /\ pc[t] = "notify"
  /\ NotifyOne(t, Readers, "idle")
  /\ UNCHANGED <<used, stopped, mtx, req>>

Notify(t) ==
  /\ pc[t] = "notify"
  /\ NotifyOne(t, IF t \in Readers THEN Writers ELSE Readers, "idle")
  /\ UNCHANGED <<used, stopped, mtx, req>>

\* wait() may return without a notification
SpuriousWakeup(t) ==
  /\ pc[t] = "waiting"
  /\ Goto(t, "lock")
  /\ UNCHANGED <<used, stopped, mtx, req>>
-----------------------------------------------------------------------------
(* stop() and readbuf() *)

\* `if (_stopped) return;` without the lock
StopCheck(s) ==
  /\ s \in Stoppers /\ pc[s] = "idle"
  /\ Goto(s, IF stopped THEN "returned" ELSE "stoplock")
  /\ UNCHANGED <<used, stopped, mtx, req>>

\* mutant: sets the flag without waiting for the mutex
StopLockIgnored(s) ==
  /\ pc[s] = "stoplock"
  /\ mtx' = s
  /\ Goto(s, "stopset")
  /\ UNCHANGED <<used, stopped, req>>
StopLock(s) ==
  /\ pc[s] = "stoplock"
  /\ mtx = NoThread
  /\ mtx' = s
  /\ Goto(s, "stopset")
  /\ UNCHANGED <<used, stopped, req>>

StopSet(s) ==
  /\ pc[s] = "stopset"
  /\ stopped' = TRUE
  /\ mtx' = NoThread
  /\ Goto(s, "notifyrd")
  /\ UNCHANGED <<used, req>>

\* mutant: wakes the readers only
StopSkipsWriters(s) ==
  /\ pc[s] = "notifyrd"
  /\ NotifyOne(s, Readers, "returned")
  /\ UNCHANGED <<used, stopped, mtx, req>>
StopNotifyRd(s) ==
  /\ pc[s] = "notifyrd"
  /\ NotifyOne(s, Readers, "notifywr")
  /\ UNCHANGED <<used, stopped, mtx, req>>

StopNotifyWr(s) ==
  /\ pc[s] = "notifywr"
  /\ NotifyOne(s, Writers, "returned")
  /\ UNCHANGED <<used, stopped, mtx, req>>

\* "for reading the queue contents after it was stopped", without the lock
ReadBuf(s) ==
  /\ s = Owner /\ pc[s] = "returned"
  /\ used' = 0
  /\ Goto(s, "drained")
  /\ UNCHANGED <<stopped, mtx, req>>
-----------------------------------------------------------------------------
\* What a thread does by itself once it is in a call.
Step(t) ==
  \/ Lock(t) \/ RefuseLarge(t) \/ Wait(t) \/ ThrowStopped(t) \/ StartCopy(t)
  \/ ReadData(t) \/ WriteData(t) \/ Notify(t)
  \/ StopLock(t) \/ StopSet(t) \/ StopNotifyRd(t) \/ StopNotifyWr(t)

Next ==
  \E t \in Threads :
    \/ CallRead(t) \/ CallWrite(t) \/ StopCheck(t) \/ ReadBuf(t)
    \/ Step(t) \/ SpuriousWakeup(t)

Spec == Init /\ [][Next]_vars

\* Every thread inside a call is scheduled; the mutex is not assumed fair.
\* Nobody has to call, and nothing relies on spurious wakeups.
FairSpec == Spec /\ \A t \in Threads : WF_vars(Step(t))
-----------------------------------------------------------------------------
(* Properties. *)

Labels == {"idle", "lock", "test", "waiting", "copy", "notify", "failed", "stoplock",
           "stopset", "notifyrd", "notifywr", "returned", "drained"}

\* The fill level stays within the buffer: no read or write inside _buf
\* throws, whatever the sizes asked for.
TypeOK ==
  /\ used \in 0..Cap /\ stopped \in BOOLEAN
  /\ mtx \in Threads \cup {NoThread}
  /\ pc \in [Threads -> Labels]
  /\ req \in [Threads -> [lo : Nat, hi : Nat]]

\* A thread about to take the lock or holding it: it will look at the queue.
Awake(t) == pc[t] \in {"lock", "test", "copy"}

\* While a reader sleeps although what it asked for is there, another
\* thread is on its way to wake it or to take that data.
DataNotAbandoned ==
  \A r \in Readers :
    ~stopped /\ pc[r] = "waiting" /\ used >= req[r].lo =>
      (\E w \in Writers : pc[w] = "notify") \/ (\E x \in Readers : Awake(x))

\* The same for a writer that sleeps although there is room.
SpaceNotAbandoned ==
  \A w \in Writers :
    ~stopped /\ pc[w] = "waiting" /\ Cap - used >= req[w].lo =>
      (\E r \in Readers : pc[r] = "notify") \/ (\E x \in Writers : Awake(x))

\* After stop() nobody is left asleep once the notifications are sent.
StopWakesAll ==
  /\ stopped /\ (\E r \in Readers : pc[r] = "waiting")
       => \E s \in Stoppers : pc[s] = "notifyrd"
  /\ stopped /\ (\E w \in Writers : pc[w] = "waiting")
       => \E s \in Stoppers : pc[s] \in {"notifyrd", "notifywr"}

\* From the moment stop() has set the flag no thread is inside the buffer,
\* so readbuf(), which takes no lock, has the buffer for itself.
QuietAfterStop == stopped => \A t \in Threads : pc[t] # "copy"

\* Once the queue is stopped every call that is in progress comes to an end.
StopReleases ==
  \A t \in Readers \cup Writers :
    stopped /\ pc[t] \notin {"idle", "failed"} ~> pc[t] \in {"idle", "failed"}
=============================================================================
