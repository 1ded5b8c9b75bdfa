-------------------------- MODULE QueueBuf_proofs --------------------------
(***************************************************************************)
(* Proofs about QueueBuf, for every capacity, every set of requests and    *)
(* every number of threads where the statement does not say otherwise.     *)
(***************************************************************************)
EXTENDS QueueBuf, FiniteSetTheorems, TLAPS

\* Which program points belong to which kind of thread.
Roles ==
  \A t \in Threads :
    /\ t \in Readers \cup Writers
         => pc[t] \in {"idle", "lock", "test", "waiting", "copy", "notify", "failed"}
    /\ t \in Stoppers
         => pc[t] \in {"idle", "stoplock", "stopset", "notifyrd", "notifywr",
                       "returned", "drained"}

\* Exactly the holder of the mutex is between lock and unlock.
Mutex == \A t \in Threads : pc[t] \in {"test", "copy", "stopset"} <=> mtx = t

\* The tests of the wait loop still hold when the buffer is touched.
CopyGuard == \A t \in Threads : pc[t] = "copy" => ~stopped /\ ~Insufficient(t)

\* A stopper past the lock has set the flag.
FlagSet ==
  \A s \in Stoppers : pc[s] \in {"notifyrd", "notifywr", "returned", "drained"} => stopped

\* The inductive invariant for any number of threads.
IInv == TypeOK /\ Roles /\ Mutex /\ CopyGuard /\ FlagSet

\* Init establishes the invariant.
LEMMA InitIInv == Init => IInv
<1> SUFFICES ASSUME Init PROVE IInv
  OBVIOUS
<1>1. TypeOK
  <2>0. used \in 0..Cap
    BY SizeAssumption DEF Init
  <2>1. stopped \in BOOLEAN /\ mtx \in Threads \cup {NoThread}
    BY DEF Init
  <2>2. pc \in [Threads -> Labels]
    BY DEF Init, Labels
  <2>3. req \in [Threads -> [lo : Nat, hi : Nat]]
    BY DEF Init, NoRequest
  <2>4. QED
    BY <2>0, <2>1, <2>2, <2>3 DEF TypeOK
<1>2. Roles /\ Mutex /\ CopyGuard /\ FlagSet
  BY ThreadAssumption DEF Init, Roles, Mutex, CopyGuard, FlagSet, Threads
<1>3. QED
  BY <1>1, <1>2 DEF IInv

\* Every step keeps the invariant: one case per action.
LEMMA NextIInv == IInv /\ [Next]_vars => IInv'
<1> SUFFICES ASSUME IInv, [Next]_vars PROVE IInv'
  OBVIOUS
<1> USE ThreadAssumption, SizeAssumption
<1> USE DEF IInv, TypeOK, Roles, Mutex, CopyGuard, FlagSet, Labels, Threads, Goto, Insufficient
<1>1. CASE UNCHANGED vars
  BY <1>1 DEF vars
<1>2. ASSUME NEW t \in Threads, CallRead(t) PROVE IInv'
  BY <1>2 DEF CallRead
<1>3. ASSUME NEW t \in Threads, CallWrite(t) PROVE IInv'
  BY <1>3 DEF CallWrite
<1>4. ASSUME NEW t \in Threads, Lock(t) PROVE IInv'
  BY <1>4 DEF Lock
<1>5. ASSUME NEW t \in Threads, RefuseLarge(t) PROVE IInv'
  BY <1>5 DEF RefuseLarge, TooLarge
<1>6. ASSUME NEW t \in Threads, Wait(t) PROVE IInv'
  BY <1>6 DEF Wait
<1>7. ASSUME NEW t \in Threads, ThrowStopped(t) PROVE IInv'
  BY <1>7 DEF ThrowStopped
<1>8. ASSUME NEW t \in Threads, StartCopy(t) PROVE IInv'
  BY <1>8 DEF StartCopy
<1>9. ASSUME NEW t \in Threads, ReadData(t) PROVE IInv'
  BY <1>9 DEF ReadData, Taken
<1>10. ASSUME NEW t \in Threads, WriteData(t) PROVE IInv'
  BY <1>10 DEF WriteData
<1>11. ASSUME NEW t \in Threads, Notify(t) PROVE IInv'
  BY <1>11 DEF Notify, NotifyOne
<1>12. ASSUME NEW t \in Threads, SpuriousWakeup(t) PROVE IInv'
  BY <1>12 DEF SpuriousWakeup
<1>13. ASSUME NEW t \in Threads, StopCheck(t) PROVE IInv'
  BY <1>13 DEF StopCheck
<1>14. ASSUME NEW t \in Threads, StopLock(t) PROVE IInv'
  BY <1>14 DEF StopLock
<1>15. ASSUME NEW t \in Threads, StopSet(t) PROVE IInv'
  BY <1>15 DEF StopSet
<1>16. ASSUME NEW t \in Threads, StopNotifyRd(t) PROVE IInv'
  BY <1>16 DEF StopNotifyRd, NotifyOne
<1>17. ASSUME NEW t \in Threads, StopNotifyWr(t) PROVE IInv'
  BY <1>17 DEF StopNotifyWr, NotifyOne
<1>18. ASSUME NEW t \in Threads, ReadBuf(t) PROVE IInv'
  BY <1>18 DEF ReadBuf
<1>19. QED
  BY <1>1, <1>2, <1>3, <1>4, <1>5, <1>6, <1>7, <1>8, <1>9, <1>10, <1>11, <1>12, <1>13,
     <1>14, <1>15, <1>16, <1>17, <1>18
  DEF Next, Step

\* Whatever the number of threads and the sizes they ask for, the fill level
\* stays within the buffer, so no call of _buf inside queuebuf throws.
THEOREM FillLevelInRange == Spec => []TypeOK
<1>1. IInv => TypeOK
  BY DEF IInv
<1>2. QED
  BY <1>1, InitIInv, NextIInv, PTL DEF Spec

\* After stop() has set its flag no thread is inside the buffer, so readbuf()
\* has it for itself.
THEOREM Invariance == Spec => []QuietAfterStop
<1>1. IInv => QuietAfterStop
  BY DEF IInv, CopyGuard, QuietAfterStop
<1>2. QED
  BY <1>1, InitIInv, NextIInv, PTL DEF Spec

-----------------------------------------------------------------------------
(* stop().  It calls notify_one on each side, so the theorem is about one   *)
(* reader and one writer, "a one-to-one queue", and any number of threads   *)
(* that stop it.  With two readers it is false.                             *)

\* No step of the queue forgets a sleeper once the flag is set.
LEMMA StopStep ==
  ASSUME NEW r, NEW w, Readers = {r}, Writers = {w}
  PROVE  IInv /\ StopWakesAll /\ [Next]_vars => StopWakesAll'
<1> SUFFICES ASSUME IInv, StopWakesAll, [Next]_vars PROVE StopWakesAll'
  OBVIOUS
<1> USE ThreadAssumption, SizeAssumption
<1> USE DEF IInv, TypeOK, Roles, Mutex, CopyGuard, FlagSet, Threads, Goto, Insufficient,
            StopWakesAll
<1>1. CASE UNCHANGED vars
  BY <1>1 DEF vars
<1>2. ASSUME NEW t \in Threads, CallRead(t) \/ CallWrite(t) PROVE StopWakesAll'
  BY <1>2 DEF CallRead, CallWrite
<1>3. ASSUME NEW t \in Threads, Lock(t) \/ RefuseLarge(t) PROVE StopWakesAll'
  BY <1>3 DEF Lock, RefuseLarge, TooLarge
<1>4. ASSUME NEW t \in Threads, Wait(t) PROVE StopWakesAll'
  BY <1>4 DEF Wait
<1>5. ASSUME NEW t \in Threads, ThrowStopped(t) \/ StartCopy(t) PROVE StopWakesAll'
  BY <1>5 DEF ThrowStopped, StartCopy
<1>6. ASSUME NEW t \in Threads, ReadData(t) \/ WriteData(t) PROVE StopWakesAll'
  BY <1>6 DEF ReadData, WriteData
<1>7. ASSUME NEW t \in Threads, Notify(t) PROVE StopWakesAll'
  BY <1>7 DEF Notify, NotifyOne
<1>8. ASSUME NEW t \in Threads, SpuriousWakeup(t) PROVE StopWakesAll'
  BY <1>8 DEF SpuriousWakeup
<1>9. ASSUME NEW t \in Threads, StopCheck(t) \/ StopLock(t) \/ StopSet(t)
      PROVE StopWakesAll'
  BY <1>9 DEF StopCheck, StopLock, StopSet
<1>10. ASSUME NEW t \in Threads, StopNotifyRd(t) PROVE StopWakesAll'
  BY <1>10 DEF StopNotifyRd, NotifyOne
<1>11. ASSUME NEW t \in Threads, StopNotifyWr(t) PROVE StopWakesAll'
  BY <1>11 DEF StopNotifyWr, NotifyOne
<1>12. ASSUME NEW t \in Threads, ReadBuf(t) PROVE StopWakesAll'
  BY <1>12 DEF ReadBuf
<1>13. QED
  BY <1>1, <1>2, <1>3, <1>4, <1>5, <1>6, <1>7, <1>8, <1>9, <1>10, <1>11, <1>12 DEF Next, Step

\* With one reader and one writer, in every behaviour and for every request,
\* stop() has woken both when its last notification is out, whoever called it.
THEOREM OneToOne ==
  ASSUME NEW r, NEW w, Readers = {r}, Writers = {w}
  PROVE  Spec => []StopWakesAll
<1>1. Init => StopWakesAll
  BY DEF Init, StopWakesAll
<1>2. QED
  BY <1>1, InitIInv, NextIInv, StopStep, PTL DEF Spec

-----------------------------------------------------------------------------
(* Several threads on a side.  With one thread on a side that thread is the *)
(* only one a notification can wake.  With several, as many threads have to *)
(* be on their way as there are items (or places) left over, so the proof   *)
(* counts them; it needs calls that ask for one item each.  For larger      *)
(* requests notify_one is not enough: a write of two items wakes one of two *)
(* readers of one item.                                                     *)

\* One reader, any number of writers, blocks of any size: no step leaves the
\* reader asleep beside what it asked for.
LEMMA OneReaderStep ==
  ASSUME NEW r, Readers = {r}
  PROVE  IInv /\ DataNotAbandoned /\ [Next]_vars => DataNotAbandoned'
<1> SUFFICES ASSUME IInv, DataNotAbandoned, [Next]_vars PROVE DataNotAbandoned'
  OBVIOUS
<1> USE ThreadAssumption, SizeAssumption
<1> USE DEF IInv, TypeOK, Roles, Mutex, CopyGuard, FlagSet, Threads, Goto, Insufficient, Awake,
            DataNotAbandoned
<1>1. CASE UNCHANGED vars
  BY <1>1 DEF vars
<1>2. ASSUME NEW t \in Threads, CallRead(t) \/ CallWrite(t) PROVE DataNotAbandoned'
  BY <1>2 DEF CallRead, CallWrite
<1>3. ASSUME NEW t \in Threads, Lock(t) \/ RefuseLarge(t) PROVE DataNotAbandoned'
  BY <1>3 DEF Lock, RefuseLarge, TooLarge
<1>4. ASSUME NEW t \in Threads, Wait(t) PROVE DataNotAbandoned'
  BY <1>4 DEF Wait
<1>5. ASSUME NEW t \in Threads, ThrowStopped(t) \/ StartCopy(t) PROVE DataNotAbandoned'
  BY <1>5 DEF ThrowStopped, StartCopy
<1>6. ASSUME NEW t \in Threads, ReadData(t) PROVE DataNotAbandoned'
  BY <1>6 DEF ReadData, Taken
<1>7. ASSUME NEW t \in Threads, WriteData(t) PROVE DataNotAbandoned'
  BY <1>7 DEF WriteData
<1>8. ASSUME NEW t \in Threads, Notify(t) PROVE DataNotAbandoned'
  BY <1>8 DEF Notify, NotifyOne
<1>9. ASSUME NEW t \in Threads, SpuriousWakeup(t) PROVE DataNotAbandoned'
  BY <1>9 DEF SpuriousWakeup
<1>10. ASSUME NEW t \in Threads, StopCheck(t) \/ StopLock(t) \/ StopSet(t)
       PROVE DataNotAbandoned'
  BY <1>10 DEF StopCheck, StopLock, StopSet
<1>11. ASSUME NEW t \in Threads, StopNotifyRd(t) \/ StopNotifyWr(t) \/ ReadBuf(t)
       PROVE DataNotAbandoned'
  <2>1. stopped'
    BY <1>11 DEF StopNotifyRd, StopNotifyWr, NotifyOne, ReadBuf
  <2>2. QED
    BY <2>1
<1>12. QED
  BY <1>1, <1>2, <1>3, <1>4, <1>5, <1>6, <1>7, <1>8, <1>9, <1>10, <1>11 DEF Next, Step

\* One writer, any number of readers, blocks of any size: the same for room.
LEMMA OneWriterStep ==
  ASSUME NEW w, Writers = {w}
  PROVE  IInv /\ SpaceNotAbandoned /\ [Next]_vars => SpaceNotAbandoned'
<1> SUFFICES ASSUME IInv, SpaceNotAbandoned, [Next]_vars PROVE SpaceNotAbandoned'
  OBVIOUS
<1> USE ThreadAssumption, SizeAssumption
<1> USE DEF IInv, TypeOK, Roles, Mutex, CopyGuard, FlagSet, Threads, Goto, Insufficient, Awake,
            SpaceNotAbandoned
<1>1. CASE UNCHANGED vars
  BY <1>1 DEF vars
<1>2. ASSUME NEW t \in Threads, CallRead(t) \/ CallWrite(t) PROVE SpaceNotAbandoned'
  BY <1>2 DEF CallRead, CallWrite
<1>3. ASSUME NEW t \in Threads, Lock(t) \/ RefuseLarge(t) PROVE SpaceNotAbandoned'
  BY <1>3 DEF Lock, RefuseLarge, TooLarge
<1>4. ASSUME NEW t \in Threads, Wait(t) PROVE SpaceNotAbandoned'
  BY <1>4 DEF Wait
<1>5. ASSUME NEW t \in Threads, ThrowStopped(t) \/ StartCopy(t) PROVE SpaceNotAbandoned'
  BY <1>5 DEF ThrowStopped, StartCopy
<1>6. ASSUME NEW t \in Threads, ReadData(t) PROVE SpaceNotAbandoned'
  BY <1>6 DEF ReadData, Taken
<1>7. ASSUME NEW t \in Threads, WriteData(t) PROVE SpaceNotAbandoned'
  BY <1>7 DEF WriteData
<1>8. ASSUME NEW t \in Threads, Notify(t) PROVE SpaceNotAbandoned'
  BY <1>8 DEF Notify, NotifyOne
<1>9. ASSUME NEW t \in Threads, SpuriousWakeup(t) PROVE SpaceNotAbandoned'
  BY <1>9 DEF SpuriousWakeup
<1>10. ASSUME NEW t \in Threads, StopCheck(t) \/ StopLock(t) \/ StopSet(t)
       PROVE SpaceNotAbandoned'
  BY <1>10 DEF StopCheck, StopLock, StopSet
<1>11. ASSUME NEW t \in Threads, StopNotifyRd(t) \/ StopNotifyWr(t) \/ ReadBuf(t)
       PROVE SpaceNotAbandoned'
  <2>1. stopped'
    BY <1>11 DEF StopNotifyRd, StopNotifyWr, NotifyOne, ReadBuf
  <2>2. QED
    BY <2>1
<1>12. QED
  BY <1>1, <1>2, <1>3, <1>4, <1>5, <1>6, <1>7, <1>8, <1>9, <1>10, <1>11 DEF Next, Step

\* A single reader never sleeps beside data it asked for, however many
\* threads write and whatever the sizes, unless a thread is on its way.
THEOREM OneReader ==
  ASSUME NEW r, Readers = {r}
  PROVE  Spec => []DataNotAbandoned
<1>1. Init => DataNotAbandoned
  BY DEF Init, DataNotAbandoned, Threads
<1>2. QED
  BY <1>1, InitIInv, NextIInv, OneReaderStep, PTL DEF Spec

\* A single writer never sleeps beside room it asked for, however many
\* threads read and whatever the sizes, unless a thread is on its way.
THEOREM OneWriter ==
  ASSUME NEW w, Writers = {w}
  PROVE  Spec => []SpaceNotAbandoned
<1>1. Init => SpaceNotAbandoned
  BY DEF Init, SpaceNotAbandoned, Threads
<1>2. QED
  BY <1>1, InitIInv, NextIInv, OneWriterStep, PTL DEF Spec

-----------------------------------------------------------------------------
(* Any number of readers that ask for one item at a time.  As many threads  *)
(* are on their way as there are items left over while a reader sleeps:     *)
(* the counting is over these threads.                                      *)

\* Four facts about a count n that a set A covers, when A becomes B.
\* No member leaves and the count does not grow.
LEMMA CoverKept ==
  ASSUME NEW A, NEW B, IsFiniteSet(B), A \subseteq B,
         NEW m \in Nat, NEW n \in Nat, m <= n, n <= Cardinality(A)
  PROVE  m <= Cardinality(B)
<1>1. Cardinality(A) <= Cardinality(B) /\ IsFiniteSet(A)
  BY FS_Subset
<1>2. Cardinality(A) \in Nat /\ Cardinality(B) \in Nat
  BY <1>1, FS_CardinalityType
<1>3. QED
  BY <1>1, <1>2

\* A new member comes: the count may grow by one.
LEMMA CoverPlus ==
  ASSUME NEW A, NEW B, IsFiniteSet(B), A \subseteq B, NEW y \in B, y \notin A,
         NEW n \in Nat, n <= Cardinality(A)
  PROVE  n + 1 <= Cardinality(B)
<1>1. IsFiniteSet(A)
  BY FS_Subset
<1>2. Cardinality(A \cup {y}) = Cardinality(A) + 1
  BY <1>1, FS_AddElement
<1>3. Cardinality(A \cup {y}) <= Cardinality(B)
  BY FS_Subset
<1>4. Cardinality(A) \in Nat /\ Cardinality(B) \in Nat
  BY <1>1, FS_CardinalityType
<1>5. QED
  BY <1>2, <1>3, <1>4

\* A member leaves: the count has to fall.
LEMMA CoverMinus ==
  ASSUME NEW A, NEW B, NEW x, IsFiniteSet(A), IsFiniteSet(B), A \ {x} \subseteq B,
         NEW n \in Nat, n <= Cardinality(A)
  PROVE  n - 1 <= Cardinality(B)
<1>1. Cardinality(A \ {x}) >= Cardinality(A) - 1
  <2>1. Cardinality(A) \in Nat
    BY FS_CardinalityType
  <2>2. QED
    BY <2>1, FS_RemoveElement
<1>2. Cardinality(A \ {x}) <= Cardinality(B)
  BY FS_Subset
<1>3. Cardinality(A) \in Nat /\ Cardinality(B) \in Nat /\ Cardinality(A \ {x}) \in Nat
  BY FS_RemoveElement, FS_CardinalityType
<1>4. QED
  BY <1>1, <1>2, <1>3

\* One member leaves and another one comes.
LEMMA CoverExchange ==
  ASSUME NEW A, NEW B, NEW x, IsFiniteSet(A), IsFiniteSet(B), A \ {x} \subseteq B,
         NEW y \in B, y \notin A, NEW n \in Nat, n <= Cardinality(A)
  PROVE  n <= Cardinality(B)
<1>1. IsFiniteSet(A \ {x})
  BY FS_RemoveElement
<1>2. Cardinality((A \ {x}) \cup {y}) = Cardinality(A \ {x}) + 1
  BY <1>1, FS_AddElement
<1>3. n - 1 <= Cardinality((A \ {x})) /\ Cardinality(A \ {x}) \in Nat
  BY <1>1, CoverMinus, FS_CardinalityType
<1>4. IsFiniteSet((A \ {x}) \cup {y}) /\ (A \ {x}) \cup {y} \subseteq B
  BY <1>1, FS_AddElement
<1>5. Cardinality((A \ {x}) \cup {y}) <= Cardinality(B) /\ Cardinality(B) \in Nat
  BY <1>4, FS_Subset, FS_CardinalityType
<1>6. QED
  BY <1>2, <1>3, <1>5

\* Writers about to notify, and readers that will look at the queue.
ToData == {w \in Writers : pc[w] = "notify"} \cup {x \in Readers : Awake(x)}

\* While a reader sleeps each item in the queue has a thread on its way.
ItemsCovered ==
  ~stopped /\ (\E r \in Readers : pc[r] = "waiting") => used <= Cardinality(ToData)

\* What a reader waits for, and what a writer brings, is one item.
OneItemCalls ==
  /\ \A r \in Readers : pc[r] # "idle" => req[r].lo = 1 /\ req[r].hi >= 1
  /\ \A w \in Writers : req[w].lo <= 1

\* The calls stay what the constants say they are.
LEMMA OneItemStep ==
  ASSUME \A q \in ReadRequests : q.lo = 1, WriteSizes \subseteq {0, 1},
         IInv, OneItemCalls, [Next]_vars
  PROVE  OneItemCalls'
<1> USE ThreadAssumption, SizeAssumption
<1> USE DEF IInv, TypeOK, Roles, Threads, Goto, OneItemCalls
<1>1. CASE UNCHANGED vars
  BY <1>1 DEF vars
<1>2. ASSUME NEW t \in Threads, CallRead(t) PROVE OneItemCalls'
  BY <1>2 DEF CallRead
<1>3. ASSUME NEW t \in Threads, CallWrite(t) PROVE OneItemCalls'
  BY <1>3 DEF CallWrite
<1>4. ASSUME NEW t \in Threads, Step(t) PROVE OneItemCalls'
  BY <1>4 DEF Step, Lock, RefuseLarge, Wait, ThrowStopped, StartCopy, ReadData, WriteData,
              Notify, NotifyOne, StopLock, StopSet, StopNotifyRd, StopNotifyWr
<1>5. ASSUME NEW t \in Threads, StopCheck(t) \/ ReadBuf(t) \/ SpuriousWakeup(t)
      PROVE OneItemCalls'
  BY <1>5 DEF StopCheck, ReadBuf, SpuriousWakeup
<1>6. QED
  BY <1>1, <1>2, <1>3, <1>4, <1>5 DEF Next

\* No step leaves an item without a thread on its way to it.
LEMMA ItemsCoveredStep ==
  ASSUME IsFiniteSet(Readers), IsFiniteSet(Writers),
         IInv, OneItemCalls, ItemsCovered, [Next]_vars
  PROVE  ItemsCovered'
<1> USE ThreadAssumption, SizeAssumption
<1>0. used \in Nat /\ used' \in Nat /\ Cardinality(ToData') \in Nat
      /\ IsFiniteSet(ToData) /\ IsFiniteSet(ToData')
  <2>1. IsFiniteSet(Readers \cup Writers)
    BY FS_Union
  <2>2. ToData \subseteq Readers \cup Writers /\ ToData' \subseteq Readers \cup Writers
    BY DEF ToData
  <2>3. IsFiniteSet(ToData) /\ IsFiniteSet(ToData')
    BY <2>1, <2>2, FS_Subset
  <2>4. used \in Nat /\ used' \in Nat
    BY NextIInv DEF IInv, TypeOK
  <2>5. QED
    BY <2>3, <2>4, FS_CardinalityType
<1> DEFINE Asleep == \E r \in Readers : pc[r] = "waiting"
\* What most steps have in common: nobody leaves, nothing is added, no reader falls asleep.
<1>1. ASSUME ToData \subseteq ToData', used' <= used, stopped => stopped', Asleep' => Asleep
      PROVE  ItemsCovered'
  <2> SUFFICES ASSUME ~stopped', Asleep' PROVE used' <= Cardinality(ToData')
    BY DEF ItemsCovered
  <2>1. used <= Cardinality(ToData)
    BY <1>1 DEF ItemsCovered
  <2>2. QED
    BY <1>0, <1>1, <2>1, CoverKept
<1>2. ASSUME stopped' PROVE ItemsCovered'
  BY <1>2 DEF ItemsCovered
<1> USE DEF IInv, TypeOK, Roles, Mutex, CopyGuard, FlagSet, Threads, Goto, Insufficient, Awake
<1>3. CASE UNCHANGED vars
  <2>1. ToData \subseteq ToData' /\ used' <= used /\ (stopped => stopped') /\ (Asleep' => Asleep)
    BY <1>0, <1>3 DEF vars, ToData
  <2>2. QED
    BY <1>1, <2>1
<1>4. ASSUME NEW t \in Threads, CallRead(t) \/ CallWrite(t) \/ Lock(t) \/ StartCopy(t)
      PROVE  ItemsCovered'
  <2>1. ToData \subseteq ToData' /\ used' <= used /\ (stopped => stopped') /\ (Asleep' => Asleep)
    BY <1>0, <1>4 DEF CallRead, CallWrite, Lock, StartCopy, ToData
  <2>2. QED
    BY <1>1, <2>1
<1>5. ASSUME NEW t \in Threads, RefuseLarge(t) \/ SpuriousWakeup(t) \/ StopCheck(t) \/ StopLock(t)
      PROVE  ItemsCovered'
  <2>1. ToData \subseteq ToData' /\ used' <= used /\ (stopped => stopped') /\ (Asleep' => Asleep)
    BY <1>0, <1>5 DEF RefuseLarge, TooLarge, SpuriousWakeup, StopCheck, StopLock, ToData
  <2>2. QED
    BY <1>1, <2>1
<1>6. ASSUME NEW t \in Threads, Wait(t) PROVE ItemsCovered'
  <2>1. CASE t \in Readers
    <3>1. used' = 0
      BY <1>6, <2>1 DEF Wait, OneItemCalls
    <3>2. QED
      BY <1>0, <3>1 DEF ItemsCovered
  <2>2. CASE t \notin Readers
    <3>1. ToData \subseteq ToData' /\ used' <= used /\ (stopped => stopped') /\ (Asleep' => Asleep)
      BY <1>0, <1>6, <2>2 DEF Wait, ToData
    <3>2. QED
      BY <1>1, <3>1
  <2>3. QED
    BY <2>1, <2>2
<1>7. ASSUME NEW t \in Threads, ReadData(t) PROVE ItemsCovered'
  <2> SUFFICES ASSUME ~stopped', Asleep' PROVE used' <= Cardinality(ToData')
    BY DEF ItemsCovered
  <2>1. ToData \ {t} \subseteq ToData' /\ ~stopped /\ Asleep
    BY <1>7 DEF ReadData, ToData
  <2>2. used' <= used - 1
    BY <1>0, <1>7 DEF ReadData, Taken, OneItemCalls
  <2>3. used <= Cardinality(ToData)
    BY <2>1 DEF ItemsCovered
  <2>4. used - 1 <= Cardinality(ToData')
    BY <1>0, <2>1, <2>3, CoverMinus
  <2>5. QED
    BY <1>0, <2>2, <2>4
<1>8. ASSUME NEW t \in Threads, WriteData(t) PROVE ItemsCovered'
  <2> SUFFICES ASSUME ~stopped', Asleep' PROVE used' <= Cardinality(ToData')
    BY DEF ItemsCovered
  <2>1. ToData \subseteq ToData' /\ t \in ToData' /\ t \notin ToData /\ ~stopped /\ Asleep
    BY <1>8 DEF WriteData, ToData
  <2>2. used' <= used + 1
    BY <1>0, <1>8 DEF WriteData, OneItemCalls
  <2>3. used <= Cardinality(ToData)
    BY <2>1 DEF ItemsCovered
  <2>4. used + 1 <= Cardinality(ToData')
    BY <1>0, <2>1, <2>3, CoverPlus
  <2>5. QED
    BY <1>0, <2>2, <2>4
<1>9. ASSUME NEW t \in Threads, Notify(t) PROVE ItemsCovered'
  <2>1. CASE t \in Readers
    <3>1. ToData \subseteq ToData' /\ used' <= used /\ (stopped => stopped') /\ (Asleep' => Asleep)
      BY <1>0, <1>9, <2>1 DEF Notify, NotifyOne, ToData
    <3>2. QED
      BY <1>1, <3>1
  <2>2. CASE t \in Writers
    <3> SUFFICES ASSUME ~stopped', Asleep' PROVE used' <= Cardinality(ToData')
      BY DEF ItemsCovered
    <3>1. ~stopped /\ Asleep /\ used' = used
      BY <1>9, <2>2 DEF Notify, NotifyOne
    <3>2. PICK x \in Readers : pc[x] = "waiting" /\ pc' = [pc EXCEPT ![x] = "lock", ![t] = "idle"]
      BY <1>9, <2>2, <3>1 DEF Notify, NotifyOne
    <3>3. ToData \ {t} \subseteq ToData' /\ x \in ToData' /\ x \notin ToData
      BY <2>2, <3>2 DEF ToData
    <3>4. used <= Cardinality(ToData)
      BY <3>1 DEF ItemsCovered
    <3>5. QED
      BY <1>0, <3>1, <3>3, <3>4, CoverExchange
  <2>3. QED
    BY <1>9, <2>1, <2>2 DEF Notify
<1>10. ASSUME NEW t \in Threads, ThrowStopped(t) \/ StopSet(t) \/ StopNotifyRd(t)
              \/ StopNotifyWr(t) \/ ReadBuf(t)
       PROVE  ItemsCovered'
  <2>1. stopped'
    BY <1>10 DEF ThrowStopped, StopSet, StopNotifyRd, StopNotifyWr, NotifyOne, ReadBuf
  <2>2. QED
    BY <1>2, <2>1
<1>11. QED
  BY <1>3, <1>4, <1>5, <1>6, <1>7, <1>8, <1>9, <1>10 DEF Next, Step

\* Any number of readers that take items one by one (or as many as there are,
\* from one on) and any number of writers that add them one by one: no
\* notification is lost, although each operation notifies one thread only.
THEOREM ItemReaders ==
  ASSUME IsFiniteSet(Readers), IsFiniteSet(Writers),
         \A q \in ReadRequests : q.lo = 1, WriteSizes \subseteq {0, 1}
  PROVE  Spec => []DataNotAbandoned
<1> DEFINE J == IInv /\ OneItemCalls /\ ItemsCovered
<1>1. Init => J
  <2>1. Init => OneItemCalls /\ ItemsCovered
    BY ThreadAssumption DEF Init, OneItemCalls, ItemsCovered, Threads, NoRequest
  <2>2. QED
    BY <2>1, InitIInv
<1>2. J /\ [Next]_vars => J'
  BY NextIInv, OneItemStep, ItemsCoveredStep
<1>3. J => DataNotAbandoned
  <2> SUFFICES ASSUME J, NEW r \in Readers, ~stopped, pc[r] = "waiting", used >= req[r].lo
               PROVE  (\E w \in Writers : pc[w] = "notify") \/ (\E x \in Readers : Awake(x))
    BY DEF DataNotAbandoned
  <2>1. used >= 1 /\ used \in Nat
    BY DEF OneItemCalls, IInv, TypeOK, Threads
  <2>2. used <= Cardinality(ToData)
    BY DEF ItemsCovered
  <2>3. ToData # {}
    BY <2>1, <2>2, FS_EmptySet
  <2>4. QED
    BY <2>3 DEF ToData
<1>4. QED
  BY <1>1, <1>2, <1>3, PTL DEF Spec

\* The other side: readers about to notify, and writers that will look.
ToRoom == {r \in Readers : pc[r] = "notify"} \cup {x \in Writers : Awake(x)}

\* While a writer sleeps each free place has a thread on its way.
RoomCovered ==
  ~stopped /\ (\E w \in Writers : pc[w] = "waiting") => Cap - used <= Cardinality(ToRoom)

\* What a writer waits for, and what a reader frees, is one place.
OnePlaceCalls ==
  /\ \A r \in Readers : req[r].hi <= 1
  /\ \A w \in Writers : pc[w] # "idle" => req[w].lo = 1

\* The calls stay what the constants say they are.
LEMMA OnePlaceStep ==
  ASSUME \A q \in ReadRequests : q.hi <= 1, WriteSizes \subseteq {1},
         IInv, OnePlaceCalls, [Next]_vars
  PROVE  OnePlaceCalls'
<1> USE ThreadAssumption, SizeAssumption
<1> USE DEF IInv, TypeOK, Roles, Threads, Goto, OnePlaceCalls
<1>1. CASE UNCHANGED vars
  BY <1>1 DEF vars
<1>2. ASSUME NEW t \in Threads, CallRead(t) PROVE OnePlaceCalls'
  BY <1>2 DEF CallRead
<1>3. ASSUME NEW t \in Threads, CallWrite(t) PROVE OnePlaceCalls'
  BY <1>3 DEF CallWrite
<1>4. ASSUME NEW t \in Threads, Step(t) PROVE OnePlaceCalls'
  BY <1>4 DEF Step, Lock, RefuseLarge, Wait, ThrowStopped, StartCopy, ReadData, WriteData,
              Notify, NotifyOne, StopLock, StopSet, StopNotifyRd, StopNotifyWr
<1>5. ASSUME NEW t \in Threads, StopCheck(t) \/ ReadBuf(t) \/ SpuriousWakeup(t)
      PROVE OnePlaceCalls'
  BY <1>5 DEF StopCheck, ReadBuf, SpuriousWakeup
<1>6. QED
  BY <1>1, <1>2, <1>3, <1>4, <1>5 DEF Next

\* No step leaves a free place without a thread on its way to it.
LEMMA RoomCoveredStep ==
  ASSUME IsFiniteSet(Readers), IsFiniteSet(Writers),
         IInv, OnePlaceCalls, RoomCovered, [Next]_vars
  PROVE  RoomCovered'
<1> USE ThreadAssumption, SizeAssumption
<1>0. Cap - used \in Nat /\ Cap - used' \in Nat /\ Cardinality(ToRoom') \in Nat
      /\ IsFiniteSet(ToRoom) /\ IsFiniteSet(ToRoom')
  <2>1. IsFiniteSet(Readers \cup Writers)
    BY FS_Union
  <2>2. ToRoom \subseteq Readers \cup Writers /\ ToRoom' \subseteq Readers \cup Writers
    BY DEF ToRoom
  <2>3. IsFiniteSet(ToRoom) /\ IsFiniteSet(ToRoom')
    BY <2>1, <2>2, FS_Subset
  <2>4. Cap - used \in Nat /\ Cap - used' \in Nat
    BY NextIInv DEF IInv, TypeOK
  <2>5. QED
    BY <2>3, <2>4, FS_CardinalityType
<1> DEFINE Asleep == \E w \in Writers : pc[w] = "waiting"
\* What most steps have in common: nobody leaves, nothing is taken, no writer falls asleep.
<1>1. ASSUME ToRoom \subseteq ToRoom', used <= used', stopped => stopped', Asleep' => Asleep
      PROVE  RoomCovered'
  <2> SUFFICES ASSUME ~stopped', Asleep' PROVE Cap - used' <= Cardinality(ToRoom')
    BY DEF RoomCovered
  <2>1. Cap - used <= Cardinality(ToRoom)
    BY <1>1 DEF RoomCovered
  <2>2. Cap - used' <= Cap - used
    BY <1>1, NextIInv DEF IInv, TypeOK
  <2>3. QED
    BY <1>0, <2>1, <2>2, <1>1, CoverKept
<1>2. ASSUME stopped' PROVE RoomCovered'
  BY <1>2 DEF RoomCovered
<1> USE DEF IInv, TypeOK, Roles, Mutex, CopyGuard, FlagSet, Threads, Goto, Insufficient, Awake
<1>3. CASE UNCHANGED vars
  <2>1. ToRoom \subseteq ToRoom' /\ used <= used' /\ (stopped => stopped') /\ (Asleep' => Asleep)
    BY <1>0, <1>3 DEF vars, ToRoom
  <2>2. QED
    BY <1>1, <2>1
<1>4. ASSUME NEW t \in Threads, CallRead(t) \/ CallWrite(t) \/ Lock(t) \/ StartCopy(t)
      PROVE  RoomCovered'
  <2>1. ToRoom \subseteq ToRoom' /\ used <= used' /\ (stopped => stopped') /\ (Asleep' => Asleep)
    BY <1>0, <1>4 DEF CallRead, CallWrite, Lock, StartCopy, ToRoom
  <2>2. QED
    BY <1>1, <2>1
<1>5. ASSUME NEW t \in Threads, RefuseLarge(t) \/ SpuriousWakeup(t) \/ StopCheck(t) \/ StopLock(t)
      PROVE  RoomCovered'
  <2>1. ToRoom \subseteq ToRoom' /\ used <= used' /\ (stopped => stopped') /\ (Asleep' => Asleep)
    BY <1>0, <1>5 DEF RefuseLarge, TooLarge, OnePlaceCalls, SpuriousWakeup, StopCheck,
                    StopLock, ToRoom
  <2>2. QED
    BY <1>1, <2>1
<1>6. ASSUME NEW t \in Threads, Wait(t) PROVE RoomCovered'
  <2>1. CASE t \in Writers
    <3>1. Cap - used' = 0
      BY <1>0, <1>6, <2>1 DEF Wait, OnePlaceCalls
    <3>2. QED
      BY <1>0, <3>1 DEF RoomCovered
  <2>2. CASE t \notin Writers
    <3>1. ToRoom \subseteq ToRoom' /\ used <= used' /\ (stopped => stopped') /\ (Asleep' => Asleep)
      BY <1>0, <1>6, <2>2 DEF Wait, ToRoom
    <3>2. QED
      BY <1>1, <3>1
  <2>3. QED
    BY <2>1, <2>2
<1>7. ASSUME NEW t \in Threads, WriteData(t) PROVE RoomCovered'
  <2> SUFFICES ASSUME ~stopped', Asleep' PROVE Cap - used' <= Cardinality(ToRoom')
    BY DEF RoomCovered
  <2>1. ToRoom \ {t} \subseteq ToRoom' /\ ~stopped /\ Asleep
    BY <1>7 DEF WriteData, ToRoom
  <2>2. Cap - used' <= Cap - used - 1
    BY <1>0, <1>7 DEF WriteData, OnePlaceCalls
  <2>3. Cap - used <= Cardinality(ToRoom)
    BY <2>1 DEF RoomCovered
  <2>4. Cap - used - 1 <= Cardinality(ToRoom')
    BY <1>0, <2>1, <2>3, CoverMinus
  <2>5. QED
    BY <1>0, <2>2, <2>4
<1>8. ASSUME NEW t \in Threads, ReadData(t) PROVE RoomCovered'
  <2> SUFFICES ASSUME ~stopped', Asleep' PROVE Cap - used' <= Cardinality(ToRoom')
    BY DEF RoomCovered
  <2>1. ToRoom \subseteq ToRoom' /\ t \in ToRoom' /\ t \notin ToRoom /\ ~stopped /\ Asleep
    BY <1>8 DEF ReadData, ToRoom
  <2>2. Cap - used' <= Cap - used + 1
    BY <1>0, <1>8 DEF ReadData, Taken, OnePlaceCalls
  <2>3. Cap - used <= Cardinality(ToRoom)
    BY <2>1 DEF RoomCovered
  <2>4. Cap - used + 1 <= Cardinality(ToRoom')
    BY <1>0, <2>1, <2>3, CoverPlus
  <2>5. QED
    BY <1>0, <2>2, <2>4
<1>9. ASSUME NEW t \in Threads, Notify(t) PROVE RoomCovered'
  <2>1. CASE t \in Writers
    <3>1. ToRoom \subseteq ToRoom' /\ used <= used' /\ (stopped => stopped') /\ (Asleep' => Asleep)
      BY <1>0, <1>9, <2>1 DEF Notify, NotifyOne, ToRoom
    <3>2. QED
      BY <1>1, <3>1
  <2>2. CASE t \in Readers
    <3> SUFFICES ASSUME ~stopped', Asleep' PROVE Cap - used' <= Cardinality(ToRoom')
      BY DEF RoomCovered
    <3>1. ~stopped /\ Asleep /\ Cap - used' = Cap - used
      BY <1>9, <2>2 DEF Notify, NotifyOne
    <3>2. PICK x \in Writers : pc[x] = "waiting" /\ pc' = [pc EXCEPT ![x] = "lock", ![t] = "idle"]
      BY <1>9, <2>2, <3>1 DEF Notify, NotifyOne
    <3>3. ToRoom \ {t} \subseteq ToRoom' /\ x \in ToRoom' /\ x \notin ToRoom
      BY <2>2, <3>2 DEF ToRoom
    <3>4. Cap - used <= Cardinality(ToRoom)
      BY <3>1 DEF RoomCovered
    <3>5. QED
      BY <1>0, <3>1, <3>3, <3>4, CoverExchange
  <2>3. QED
    BY <1>9, <2>1, <2>2 DEF Notify
<1>10. ASSUME NEW t \in Threads, ThrowStopped(t) \/ StopSet(t) \/ StopNotifyRd(t)
              \/ StopNotifyWr(t) \/ ReadBuf(t)
       PROVE  RoomCovered'
  <2>1. stopped'
    BY <1>10 DEF ThrowStopped, StopSet, StopNotifyRd, StopNotifyWr, NotifyOne, ReadBuf
  <2>2. QED
    BY <1>2, <2>1
<1>11. QED
  BY <1>3, <1>4, <1>5, <1>6, <1>7, <1>8, <1>9, <1>10 DEF Next, Step

\* Any number of writers that add items one by one and any number of readers
\* that take at most one at a time: no notification about room is lost.
THEOREM ItemWriters ==
  ASSUME IsFiniteSet(Readers), IsFiniteSet(Writers),
         \A q \in ReadRequests : q.hi <= 1, WriteSizes \subseteq {1}
  PROVE  Spec => []SpaceNotAbandoned
<1> DEFINE J == IInv /\ OnePlaceCalls /\ RoomCovered
<1>1. Init => J
  <2>1. Init => OnePlaceCalls /\ RoomCovered
    BY ThreadAssumption DEF Init, OnePlaceCalls, RoomCovered, Threads, NoRequest
  <2>2. QED
    BY <2>1, InitIInv
<1>2. J /\ [Next]_vars => J'
  BY NextIInv, OnePlaceStep, RoomCoveredStep
<1>3. J => SpaceNotAbandoned
  <2> SUFFICES ASSUME J, NEW w \in Writers, ~stopped, pc[w] = "waiting", Cap - used >= req[w].lo
               PROVE  (\E r \in Readers : pc[r] = "notify") \/ (\E x \in Writers : Awake(x))
    BY DEF SpaceNotAbandoned
  <2>1. Cap - used >= 1 /\ used \in Nat
    BY DEF OnePlaceCalls, IInv, TypeOK, Threads
  <2>2. Cap - used <= Cardinality(ToRoom)
    BY DEF RoomCovered
  <2>3. ToRoom # {}
    BY <2>1, <2>2, SizeAssumption, FS_EmptySet
  <2>4. QED
    BY <2>3 DEF ToRoom
<1>4. QED
  BY <1>1, <1>2, <1>3, PTL DEF Spec

=============================================================================
