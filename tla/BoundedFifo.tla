---------------------------- MODULE BoundedFifo ----------------------------
(***************************************************************************)
(* What util/circularbuffer.h promises its users: a first-in first-out     *)
(* queue of at most Cap elements whose block operations are all or         *)
(* nothing.  A request that cannot be met as a whole is refused with an    *)
(* exception and leaves the queue as it was.                               *)
(***************************************************************************)
EXTENDS Naturals, Sequences

CONSTANTS
  Elem,       \* the values of the template argument T
  Cap,        \* capacity, the bufsize argument of the constructor
  MaxRequest  \* the largest number of elements a caller asks for

VARIABLES
  queue,      \* the elements written and not yet read, oldest first
  result      \* how the latest completed call ended, and what it moved

fifoVars == <<queue, result>>

Blocks == UNION {[1..n -> Elem] : n \in 0..MaxRequest}

Outcome(kind, block) == [outcome |-> kind, data |-> block]

FifoInit ==
  /\ queue = <<>>
  /\ result = Outcome("none", <<>>)

Write(block) ==
  /\ Len(queue) + Len(block) <= Cap
  /\ queue' = queue \o block
  /\ result' = Outcome("written", block)

Overflow(n) ==
  /\ Len(queue) + n > Cap
  /\ result' = Outcome("overflow", <<>>)
  /\ UNCHANGED queue

Read(n) ==
  /\ n <= Len(queue)
  /\ queue' = SubSeq(queue, n + 1, Len(queue))
  /\ result' = Outcome("read", SubSeq(queue, 1, n))

Underflow(n) ==
  /\ Len(queue) < n
  /\ result' = Outcome("underflow", <<>>)
  /\ UNCHANGED queue

FifoNext ==
  \/ \E block \in Blocks : Write(block)
  \/ \E n \in 0..MaxRequest : Overflow(n) \/ Read(n) \/ Underflow(n)

FifoSpec == FifoInit /\ [][FifoNext]_fifoVars
=============================================================================
