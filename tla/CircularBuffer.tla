--------------------------- MODULE CircularBuffer ---------------------------
(***************************************************************************)
(* util/circularbuffer.h: a ring of N cells with a read index, a write     *)
(* index and an element count, all three updated by hand in each           *)
(* operation.  Block reads and writes copy in chunks that end at the end   *)
(* of the ring; one action is one iteration of that loop, so the states    *)
(* between two chunks, which usedsize() of another thread can see, are     *)
(* states of the model.                                                    *)
(***************************************************************************)
EXTENDS Integers, Sequences

CONSTANTS
  Elem,        \* values of the template argument T
  Blank,       \* the value a fresh std::vector<T> holds
  N,           \* _buf.size()
  MaxRequest   \* the largest block a caller asks for

ASSUME NAssumption == N \in Nat \ {0}
ASSUME RequestAssumption == MaxRequest \in Nat \ {0}

VARIABLES
  size,     \* _size
  rdptr,    \* _rdptr
  wrptr,    \* _wrptr
  buf,      \* _buf
  op,       \* the block operation in progress
  block,    \* the caller's array: what is to be written, or what was read
  total,    \* the size argument of that operation
  copied,   \* its local variable of that name
  result    \* how the latest completed call ended, and what it moved

ringVars == <<size, rdptr, wrptr, buf>>
callVars == <<op, block, total, copied>>
vars == <<size, rdptr, wrptr, buf, op, block, total, copied, result>>

Cells == 0..(N - 1)
Blocks == UNION {[1..n -> Elem] : n \in 0..MaxRequest}
Outcome(kind, data) == [outcome |-> kind, data |-> data]
-----------------------------------------------------------------------------
usedsize == size
freesize == N - size

\* `ptr+= n; if (ptr==_buf.size()) ptr= 0;`
AdvanceNoWrap(ptr, n) == IF ptr + n > N THEN 0 ELSE ptr + n  \* mutant: tests past the end
Advance(ptr, n) == IF ptr + n = N THEN 0 ELSE ptr + n

\* `std::min(_buf.size()-ptr, size-copied)`
Chunk(ptr) == IF N - ptr < total - copied THEN N - ptr ELSE total - copied

Init ==
  /\ size = 0 /\ rdptr = 0 /\ wrptr = 0
  /\ buf = [k \in Cells |-> Blank]
  /\ op = "idle" /\ block = <<>> /\ total = 0 /\ copied = 0
  /\ result = Outcome("none", <<>>)
-----------------------------------------------------------------------------
(* The operations.  read() and write(T) finish in one step. *)

ReadOne ==
  /\ op = "idle"
  /\ usedsize >= 1
  /\ result' = Outcome("read", <<buf[rdptr]>>)
  /\ rdptr' = Advance(rdptr, 1)
  /\ size' = size - 1
  /\ UNCHANGED <<wrptr, buf, callVars>>

WriteOne(x) ==
  /\ op = "idle"
  /\ freesize >= 1
  /\ buf' = [buf EXCEPT ![wrptr] = x]
  /\ wrptr' = Advance(wrptr, 1)
  /\ size' = size + 1
  /\ result' = Outcome("written", <<x>>)
  /\ UNCHANGED <<rdptr, callVars>>

\* `throw buffererror("buffer underflow")` and "... overflow", before any
\* change.
Underflow(n) ==
  /\ op = "idle"
  /\ n > usedsize
  /\ result' = Outcome("underflow", <<>>)
  /\ UNCHANGED <<ringVars, callVars>>

Overflow(n) ==
  /\ op = "idle"
  /\ n > freesize
  /\ result' = Outcome("overflow", <<>>)
  /\ UNCHANGED <<ringVars, callVars>>

StartRead(n) ==
  /\ op = "idle"
  /\ n <= usedsize
  /\ op' = "read" /\ block' = <<>> /\ total' = n /\ copied' = 0
  /\ UNCHANGED <<ringVars, result>>

\* mutant: forgets `_size-=wanted`
ReadChunkKeepsSize ==
  /\ op = "read" /\ copied < total
  /\ LET wanted == Chunk(rdptr) IN
       /\ block' = block \o [i \in 1..wanted |-> buf[rdptr + i - 1]]
       /\ rdptr' = Advance(rdptr, wanted)
       /\ copied' = copied + wanted
  /\ UNCHANGED <<size, wrptr, buf, op, total, result>>

ReadChunk ==
  /\ op = "read" /\ copied < total
  /\ LET wanted == Chunk(rdptr) IN
       /\ block' = block \o [i \in 1..wanted |-> buf[rdptr + i - 1]]
       /\ rdptr' = Advance(rdptr, wanted)
       /\ size' = size - wanted
       /\ copied' = copied + wanted
  /\ UNCHANGED <<wrptr, buf, op, total, result>>

\* mutant: refuses only a block larger than the whole ring
StartWriteUnchecked(data) ==
  /\ op = "idle"
  /\ Len(data) <= N
  /\ op' = "write" /\ block' = data /\ total' = Len(data) /\ copied' = 0
  /\ UNCHANGED <<ringVars, result>>

StartWrite(data) ==
  /\ op = "idle"
  /\ Len(data) <= freesize
  /\ op' = "write" /\ block' = data /\ total' = Len(data) /\ copied' = 0
  /\ UNCHANGED <<ringVars, result>>

\* mutant: copies from the start of the caller's array in every chunk
WriteChunkRestarts ==
  /\ op = "write" /\ copied < total
  /\ LET wanted == Chunk(wrptr) IN
       /\ buf' = [k \in Cells |-> IF k \in wrptr..(wrptr + wanted - 1)
                                  THEN block[1 + k - wrptr] ELSE buf[k]]
       /\ wrptr' = Advance(wrptr, wanted)
       /\ size' = size + wanted
       /\ copied' = copied + wanted
  /\ UNCHANGED <<rdptr, op, block, total, result>>

WriteChunk ==
  /\ op = "write" /\ copied < total
  /\ LET wanted == Chunk(wrptr) IN
       /\ buf' = [k \in Cells |-> IF k \in wrptr..(wrptr + wanted - 1)
                                  THEN block[copied + 1 + k - wrptr] ELSE buf[k]]
       /\ wrptr' = Advance(wrptr, wanted)
       /\ size' = size + wanted
       /\ copied' = copied + wanted
  /\ UNCHANGED <<rdptr, op, block, total, result>>

\* the loop's exit, `copied==size`
EndRead ==
  /\ op = "read" /\ copied = total
  /\ result' = Outcome("read", block)
  /\ op' = "idle" /\ block' = <<>> /\ total' = 0 /\ copied' = 0
  /\ UNCHANGED ringVars

EndWrite ==
  /\ op = "write" /\ copied = total
  /\ result' = Outcome("written", block)
  /\ op' = "idle" /\ block' = <<>> /\ total' = 0 /\ copied' = 0
  /\ UNCHANGED ringVars

Next ==
  \/ ReadOne
  \/ \E x \in Elem : WriteOne(x)
  \/ \E n \in 0..MaxRequest : Underflow(n) \/ Overflow(n) \/ StartRead(n)
  \/ \E data \in Blocks : StartWrite(data)
  \/ ReadChunk \/ EndRead
  \/ WriteChunk \/ EndWrite

Spec == Init /\ [][Next]_vars
-----------------------------------------------------------------------------
(* Properties. *)

Values == Elem \cup {Blank}

RingType ==
  /\ size \in 0..N /\ rdptr \in Cells /\ wrptr \in Cells

CallType ==
  /\ op \in {"idle", "read", "write"}
  /\ total \in 0..MaxRequest /\ copied \in 0..total

BufType == buf \in [Cells -> Values]

ArrayType ==
  /\ block \in Seq(Values)
  /\ Len(block) = IF op = "write" THEN total ELSE copied

\* Every field keeps its range: the indexes never leave the ring, and the
\* copy loops never leave the caller's array.
TypeOK == RingType /\ CallType /\ BufType /\ ArrayType

\* The cell of the i-th unread element; Place(size + 1) is the next free one.
Place(i) == IF rdptr + i <= N THEN rdptr + i - 1 ELSE rdptr + i - 1 - N

\* The three hand-kept fields never disagree: the write index is _size
\* places after the read index, in every state, between two chunks too.
IndexesAgree == wrptr = Place(size + 1)

\* The copy loops of read and write run at most twice: a call that goes on
\* after its first chunk goes on at cell 0, and what is left fits before
\* the end of the ring.
AtMostTwoChunks ==
  /\ op = "read" /\ 0 < copied /\ copied < total => rdptr = 0
  /\ op = "write" /\ 0 < copied /\ copied < total => wrptr = 0
  /\ op = "read" => total - copied <= usedsize
  /\ op = "write" => total - copied <= freesize

\* A block write in progress has stored a prefix of the caller's array in the
\* last `copied` occupied cells, in order, also when it wrapped in between.
PrefixStored ==
  op = "write" => /\ block \in Blocks /\ copied <= size
                  /\ \A i \in 1..copied : buf[Place(size - copied + i)] = block[i]

\* No step overwrites an element that was written and not yet read.
Occupied == {Place(i) : i \in 1..size}
UnreadKept == [][\A k \in Occupied : buf'[k] = buf[k]]_vars

\* Refinement: between calls the queue is the occupied cells in ring order;
\* a block call takes effect when its loop ends.
Contents == [i \in 1..size |-> buf[Place(i)]]
AbstractQueue ==
  CASE op = "read"  -> block \o Contents
    [] op = "write" -> SubSeq(Contents, 1, size - copied)
    [] OTHER        -> Contents

Fifo == INSTANCE BoundedFifo WITH Cap <- N, queue <- AbstractQueue

\* Seen from outside, the ring is a first-in first-out queue of capacity N
\* with all-or-nothing block operations (BoundedFifo).
ImplementsFifo == Fifo!FifoSpec
=============================================================================
