----------------------- MODULE CircularBuffer_proofs -----------------------
(***************************************************************************)
(* Proofs about CircularBuffer, for every ring size, every element set and *)
(* every bound on the requests.                                            *)
(***************************************************************************)
EXTENDS CircularBuffer, SequenceTheorems, TLAPS

\* The inductive invariant: the types, the relation between the three
\* hand-kept fields, and where the copy loops can stand.
Shape == RingType /\ CallType /\ IndexesAgree /\ AtMostTwoChunks
IInv == Shape /\ BufType /\ ArrayType

\* A chunk is not empty, fits between the index and the end of the ring and
\* does not exceed what is left to copy (std::min in the two loops).
LEMMA ChunkBounds ==
  ASSUME CallType, NEW ptr \in Cells, copied < total
  PROVE  /\ Chunk(ptr) \in Nat \ {0}
         /\ Chunk(ptr) <= N - ptr
         /\ Chunk(ptr) <= total - copied
         /\ Chunk(ptr) = N - ptr \/ Chunk(ptr) = total - copied
  BY NAssumption, RequestAssumption DEF CallType, Cells, Chunk

\* Init establishes the invariant.
LEMMA InitIInv == Init => IInv
<1> SUFFICES ASSUME Init PROVE IInv
  OBVIOUS
<1>1. Shape
  BY NAssumption, RequestAssumption
  DEF Init, Shape, RingType, CallType, IndexesAgree, Place, AtMostTwoChunks, Cells,
      usedsize, freesize
<1>2. BufType
  BY DEF Init, BufType, Values
<1>3. ArrayType
  BY DEF Init, ArrayType
<1>4. QED
  BY <1>1, <1>2, <1>3 DEF IInv

\* The arithmetic of the fields, one case per operation of the class.
LEMMA NextShape == Shape /\ [Next]_vars => Shape'
<1> SUFFICES ASSUME Shape, [Next]_vars PROVE Shape'
  OBVIOUS
<1> USE NAssumption, RequestAssumption
<1> USE DEF Shape, RingType, CallType, IndexesAgree, Place, AtMostTwoChunks, Cells,
            usedsize, freesize
<1>1. CASE ReadOne
  BY <1>1 DEF ReadOne, Advance, callVars
<1>2. ASSUME NEW x \in Elem, WriteOne(x) PROVE Shape'
  BY <1>2 DEF WriteOne, Advance, callVars, Values
<1>3. ASSUME NEW n \in 0..MaxRequest, Underflow(n) \/ Overflow(n) PROVE Shape'
  BY <1>3 DEF Underflow, Overflow, callVars, ringVars
<1>4. ASSUME NEW n \in 0..MaxRequest, StartRead(n) PROVE Shape'
  BY <1>4 DEF StartRead, ringVars
<1>5. ASSUME NEW data \in Blocks, StartWrite(data) PROVE Shape'
  <2>1. Len(data) \in 0..MaxRequest
    BY DEF Blocks
  <2> DEFINE n == Len(data)
  <2>2. /\ n <= N - size /\ op' = "write" /\ total' = n /\ copied' = 0
        /\ UNCHANGED ringVars
    BY <1>5 DEF StartWrite
  <2> HIDE DEF n
  <2>3. n \in 0..MaxRequest
    BY <2>1 DEF n
  <2>4. QED
    BY <2>2, <2>3 DEF ringVars
<1>6. CASE ReadChunk
  <2> DEFINE w == Chunk(rdptr)
  <2>1. /\ w \in Nat \ {0} /\ w <= N - rdptr /\ w <= total - copied
        /\ w = N - rdptr \/ w = total - copied
    BY <1>6, ChunkBounds DEF ReadChunk
  <2>2. /\ rdptr' = Advance(rdptr, w) /\ size' = size - w /\ copied' = copied + w
        /\ UNCHANGED <<wrptr, buf, op, total>> /\ op = "read" /\ copied < total
    BY <1>6 DEF ReadChunk
  <2> HIDE DEF w
  <2>3. QED
    BY <2>1, <2>2 DEF Advance
<1>7. CASE EndRead
  BY <1>7 DEF EndRead, ringVars
<1>8. CASE WriteChunk
  <2> DEFINE w == Chunk(wrptr)
  <2>1. /\ w \in Nat \ {0} /\ w <= N - wrptr /\ w <= total - copied
        /\ w = N - wrptr \/ w = total - copied
    BY <1>8, ChunkBounds DEF WriteChunk
  <2>2. /\ wrptr' = Advance(wrptr, w) /\ size' = size + w /\ copied' = copied + w
        /\ UNCHANGED <<rdptr, op, block, total>> /\ op = "write" /\ copied < total
    BY <1>8 DEF WriteChunk
  <2> HIDE DEF w
  <2>3. QED
    BY <2>1, <2>2 DEF Advance
<1>9. CASE EndWrite
  BY <1>9 DEF EndWrite, ringVars
<1>10. CASE UNCHANGED vars
  BY <1>10 DEF vars
<1>11. QED
  BY <1>1, <1>2, <1>3, <1>4, <1>5, <1>6, <1>7, <1>8, <1>9, <1>10 DEF Next
\* What WriteChunk does to the cells: it fills the `wanted` cells from the
\* write index on, all of them free, and keeps the others.
LEMMA WriteChunkCells ==
  ASSUME Shape, WriteChunk
  PROVE  LET w == Chunk(wrptr) IN
         /\ w \in Nat \ {0} /\ w <= total - copied /\ w <= N - wrptr
         /\ w <= N - size
         /\ \A k \in Cells :
              buf'[k] = IF k \in wrptr..(wrptr + w - 1)
                        THEN block[copied + 1 + k - wrptr] ELSE buf[k]
         /\ \A i \in 1..size : Place(i) \in Cells \ (wrptr..(wrptr + w - 1))
<1> USE NAssumption, RequestAssumption
<1> DEFINE w == Chunk(wrptr)
<1>1. w \in Nat \ {0} /\ w <= total - copied /\ w <= N - wrptr
  BY ChunkBounds DEF Shape, RingType, WriteChunk
<1>2. w <= N - size
  BY <1>1 DEF Shape, RingType, CallType, AtMostTwoChunks, WriteChunk, freesize
<1>3. \A k \in Cells : buf'[k] = IF k \in wrptr..(wrptr + w - 1)
                                 THEN block[copied + 1 + k - wrptr] ELSE buf[k]
  BY DEF WriteChunk
<1> HIDE DEF w
<1>4. \A i \in 1..size : Place(i) \in Cells \ (wrptr..(wrptr + w - 1))
  BY <1>1, <1>2 DEF Shape, RingType, IndexesAgree, Place, Cells
<1>5. QED
  BY <1>1, <1>2, <1>3, <1>4 DEF w

\* The cells keep holding elements.
LEMMA NextBufType == IInv /\ [Next]_vars => BufType'
<1> SUFFICES ASSUME IInv, [Next]_vars PROVE BufType'
  OBVIOUS
<1>1. ASSUME NEW x \in Elem, WriteOne(x) PROVE BufType'
  BY <1>1 DEF WriteOne, IInv, BufType, Values
<1>2. CASE WriteChunk
  <2> DEFINE w == Chunk(wrptr)
  <2>1. /\ w \in Nat \ {0} /\ w <= total - copied
        /\ \A k \in Cells :
              buf'[k] = IF k \in wrptr..(wrptr + w - 1)
                        THEN block[copied + 1 + k - wrptr] ELSE buf[k]
    BY <1>2, WriteChunkCells DEF IInv
  <2>2. \A i \in 1..total : block[i] \in Values
    BY <1>2, ElementOfSeq DEF IInv, ArrayType, WriteChunk
  <2>3. ASSUME NEW k \in Cells PROVE buf'[k] \in Values
    <3>1. CASE k \in wrptr..(wrptr + w - 1)
      <4>1. copied + 1 + k - wrptr \in 1..total
        BY NAssumption, RequestAssumption, <2>1, <3>1
        DEF IInv, Shape, RingType, CallType, Cells
      <4>2. QED
        BY <2>1, <2>2, <3>1, <4>1
    <3>2. CASE k \notin wrptr..(wrptr + w - 1)
      BY <2>1, <3>2 DEF IInv, BufType
    <3>3. QED
      BY <3>1, <3>2
  <2>4. QED
    BY <1>2, <2>3 DEF WriteChunk, BufType
<1>3. CASE UNCHANGED buf
  BY <1>3 DEF IInv, BufType, Cells
<1>4. QED
  BY <1>1, <1>2, <1>3
  DEF Next, vars, ReadOne, Underflow, Overflow, StartRead, StartWrite, ReadChunk,
      EndRead, EndWrite, ringVars

\* The copy loops stay inside the caller's array.
LEMMA NextArrayType == IInv /\ [Next]_vars => ArrayType'
<1> SUFFICES ASSUME IInv, [Next]_vars PROVE ArrayType'
  OBVIOUS
<1>1. ASSUME NEW data \in Blocks, StartWrite(data) PROVE ArrayType'
  BY <1>1 DEF StartWrite, ArrayType, Blocks, Values
<1>2. ASSUME NEW n \in 0..MaxRequest, StartRead(n) PROVE ArrayType'
  BY <1>2 DEF StartRead, ArrayType
<1>3. CASE ReadChunk
  <2> DEFINE w == Chunk(rdptr)
             piece == [i \in 1..w |-> buf[rdptr + i - 1]]
  <2>1. w \in Nat /\ w <= N - rdptr
    BY <1>3, ChunkBounds DEF IInv, Shape, RingType, ReadChunk
  <2>2. \A i \in 1..w : buf[rdptr + i - 1] \in Values
    <3> HIDE DEF w
    <3> QED
      BY <2>1, NAssumption DEF IInv, Shape, RingType, BufType, Cells
  <2>3. piece \in Seq(Values) /\ Len(piece) = w
    <3> HIDE DEF w
    <3> QED
      BY <2>1, <2>2
  <2>4. /\ block' = block \o piece /\ copied' = copied + w /\ op' = op
        /\ op = "read"
    BY <1>3 DEF ReadChunk
  <2> HIDE DEF piece, w
  <2>5. block \in Seq(Values) /\ Len(block) = copied
    BY <2>4 DEF IInv, ArrayType
  <2>6. QED
    BY <2>3, <2>4, <2>5, ConcatProperties DEF ArrayType
<1>4. CASE EndRead \/ EndWrite
  <2>1. block' = <<>> /\ copied' = 0 /\ op' = "idle"
    BY <1>4 DEF EndRead, EndWrite
  <2>2. QED
    BY <2>1 DEF ArrayType
<1>5. UNCHANGED callVars => ArrayType'
  BY DEF callVars, IInv, ArrayType, Values
<1>7. ASSUME NEW x \in Elem, WriteOne(x) PROVE ArrayType'
  BY <1>5, <1>7 DEF WriteOne
<1>8. ASSUME NEW n \in 0..MaxRequest, Underflow(n) \/ Overflow(n) PROVE ArrayType'
  BY <1>5, <1>8 DEF Underflow, Overflow
<1>9. CASE ReadOne \/ UNCHANGED vars
  BY <1>5, <1>9 DEF ReadOne, vars, callVars
<1>6. CASE WriteChunk
  BY <1>6 DEF WriteChunk, IInv, ArrayType
<1>10. QED
  BY <1>1, <1>2, <1>3, <1>4, <1>6, <1>7, <1>8, <1>9 DEF Next

LEMMA NextIInv == IInv /\ [Next]_vars => IInv'
  BY NextShape, NextBufType, NextArrayType DEF IInv

\* The fields stay in their ranges in every reachable state: no index leaves
\* the ring, and the count never exceeds its size (circularbuffer).
THEOREM FieldsInRange == Spec => []TypeOK
<1>1. IInv => TypeOK
  BY DEF IInv, Shape, TypeOK
<1>2. QED
  BY <1>1, InitIInv, NextIInv, PTL DEF Spec

\* The fields agree with each other in every reachable state, and no copy
\* loop takes a third turn (circularbuffer::read, ::write).
THEOREM Invariance == Spec => [](IndexesAgree /\ AtMostTwoChunks)
<1>1. IInv => IndexesAgree /\ AtMostTwoChunks
  BY DEF IInv, Shape
<1>2. QED
  BY <1>1, InitIInv, NextIInv, PTL DEF Spec

\* No operation overwrites an element that was written and not yet read:
\* the guards on freesize() and the index arithmetic together protect it.
THEOREM UnreadIsKept == Spec => UnreadKept
<1>1. IInv /\ [Next]_vars => [\A k \in Occupied : buf'[k] = buf[k]]_vars
  <2> SUFFICES ASSUME IInv, Next, NEW i \in 1..size
               PROVE  buf'[Place(i)] = buf[Place(i)]
    BY DEF Occupied
  <2> USE NAssumption
  <2>1. ASSUME NEW x \in Elem, WriteOne(x) PROVE buf'[Place(i)] = buf[Place(i)]
    <3>1. Place(i) \in Cells /\ Place(i) # wrptr
      BY <2>1 DEF IInv, Shape, RingType, IndexesAgree, WriteOne, freesize, Place, Cells
    <3>2. QED
      BY <2>1, <3>1 DEF WriteOne, IInv, BufType
  <2>2. CASE WriteChunk
    BY <2>2, WriteChunkCells DEF IInv
  <2>3. CASE UNCHANGED buf
    BY <2>3
  <2>4. QED
    BY <2>1, <2>2, <2>3
    DEF Next, ReadOne, Underflow, Overflow, StartRead, StartWrite,
        ReadChunk, EndRead, EndWrite, ringVars
<1>2. QED
  BY <1>1, InitIInv, NextIInv, PTL DEF Spec, UnreadKept
-----------------------------------------------------------------------------
(* A block write leaves its array in the ring, in order. *)

LEMMA NextPrefix == IInv /\ PrefixStored /\ [Next]_vars => PrefixStored'
<1> SUFFICES ASSUME IInv, PrefixStored, [Next]_vars PROVE PrefixStored'
  OBVIOUS
<1> USE NAssumption, RequestAssumption
<1>1. ASSUME NEW data \in Blocks, StartWrite(data) PROVE PrefixStored'
  <2>1. copied' = 0 /\ block' = data /\ size' = size
    BY <1>1 DEF StartWrite, ringVars
  <2>2. QED
    BY <2>1 DEF PrefixStored, IInv, Shape, RingType, Blocks
<1>2. CASE WriteChunk
  <2> DEFINE w == Chunk(wrptr)
  <2>1. /\ w \in Nat \ {0} /\ w <= total - copied /\ w <= N - wrptr /\ w <= N - size
        /\ \A k \in Cells :
              buf'[k] = IF k \in wrptr..(wrptr + w - 1)
                        THEN block[copied + 1 + k - wrptr] ELSE buf[k]
        /\ \A i \in 1..size : Place(i) \in Cells \ (wrptr..(wrptr + w - 1))
    BY <1>2, WriteChunkCells DEF IInv
  <2>2. /\ size' = size + w /\ copied' = copied + w /\ rdptr' = rdptr
        /\ block' = block /\ op' = "write"
    BY <1>2 DEF WriteChunk
  <2>3. /\ block \in Blocks /\ copied <= size
        /\ \A i \in 1..copied : buf[Place(size - copied + i)] = block[i]
    BY <1>2 DEF WriteChunk, PrefixStored
  <2> HIDE DEF w
  <2>4. /\ w \in Nat /\ 0 < w /\ w <= N - wrptr /\ w <= N - size
        /\ size \in Nat /\ copied \in Nat /\ copied <= size
        /\ rdptr \in 0..(N - 1) /\ wrptr \in 0..(N - 1)
    BY <2>1, <2>3 DEF IInv, Shape, RingType, CallType, Cells
  <2>5. ASSUME NEW i \in 1..(copied + w)
        PROVE  buf'[Place(size - copied + i)'] = block[i]
    <3>1. Place(size - copied + i)' = Place(size - copied + i)
      BY <2>2, <2>4, <2>5 DEF Place
    <3>2. CASE i <= copied
      <4>1. size - copied + i \in 1..size
        BY <2>4, <2>5, <3>2
      <4>2. buf'[Place(size - copied + i)] = buf[Place(size - copied + i)]
        BY <2>1, <4>1
      <4>3. i \in 1..copied
        BY <2>4, <2>5, <3>2
      <4>4. QED
        BY <2>3, <3>1, <4>2, <4>3
    <3>3. CASE i > copied
      <4> DEFINE d == i - copied - 1
      <4>1. d \in 0..(w - 1) /\ i = copied + 1 + d /\ size - copied + i = size + 1 + d
        BY <2>4, <2>5, <3>3
      <4> HIDE DEF d
      <4>2. Place(size + 1 + d) = wrptr + d
        <5>1. wrptr = Place(size + 1)
          BY DEF IInv, Shape, IndexesAgree
        <5>2. QED
          BY <2>4, <4>1, <5>1 DEF Place
      <4>3. /\ wrptr + d \in Cells /\ wrptr + d \in wrptr..(wrptr + w - 1)
            /\ copied + 1 + (wrptr + d) - wrptr = copied + 1 + d
        BY <2>4, <4>1 DEF Cells
      <4>4. QED
        BY <2>1, <3>1, <4>1, <4>2, <4>3
    <3>4. QED
      BY <2>4, <2>5, <3>2, <3>3
  <2>6. size' - copied' = size - copied /\ copied' <= size'
    BY <2>2, <2>4
  <2>7. \A i \in 1..copied' : buf'[(Place(size - copied + i))'] = block'[i]
    <3>1. ASSUME NEW i \in 1..(copied + w)
          PROVE  buf'[(Place(size - copied + i))'] = block'[i]
      BY <2>2, <2>5, <3>1
    <3>2. QED
      BY <2>2, <3>1
  <2>8. QED
    BY <2>2, <2>3, <2>6, <2>7 DEF PrefixStored, Blocks
<1>3. CASE op' # "write"
  BY <1>3 DEF PrefixStored
<1>4. CASE UNCHANGED <<ringVars, callVars>>
  BY <1>4 DEF PrefixStored, ringVars, callVars, Place, Blocks
<1>5. ASSUME NEW x \in Elem, WriteOne(x) PROVE op' # "write"
  BY <1>5 DEF WriteOne, callVars
<1>6. ASSUME NEW n \in 0..MaxRequest, StartRead(n) PROVE op' # "write"
  BY <1>6 DEF StartRead
<1>7. ASSUME NEW n \in 0..MaxRequest, Underflow(n) \/ Overflow(n)
      PROVE  UNCHANGED <<ringVars, callVars>>
  BY <1>7 DEF Underflow, Overflow
<1>8. CASE ReadOne \/ ReadChunk \/ EndRead \/ EndWrite
  BY <1>3, <1>8 DEF ReadOne, ReadChunk, EndRead, EndWrite, callVars
<1>9. CASE UNCHANGED vars
  BY <1>4, <1>9 DEF vars, ringVars, callVars
<1>10. QED
  BY <1>1, <1>2, <1>3, <1>4, <1>5, <1>6, <1>7, <1>8, <1>9 DEF Next

\* A block write in progress has stored a prefix of the caller's array, in
\* order and unbroken by the wrap (circularbuffer::write(const T*, size_t)).
THEOREM PrefixIsStored == Spec => []PrefixStored
<1>1. Init => PrefixStored
  BY DEF Init, PrefixStored
<1>2. QED
  BY <1>1, InitIInv, NextIInv, NextPrefix, PTL DEF Spec
-----------------------------------------------------------------------------
(* The ring implements the abstract queue. *)

\* Contents is the sequence of the occupied cells.
ContentsFacts ==
  /\ Contents \in Seq(Values) /\ Len(Contents) = size /\ size \in Nat
  /\ \A i \in 1..size : Contents[i] = buf[Place(i)]

LEMMA ContentsFactsHold == IInv => ContentsFacts
<1> SUFFICES ASSUME IInv PROVE ContentsFacts
  OBVIOUS
<1>1. size \in Nat
  BY NAssumption DEF IInv, Shape, RingType
<1>2. \A i \in 1..size : buf[Place(i)] \in Values
  BY NAssumption DEF IInv, Shape, RingType, BufType, Place, Cells
<1>3. Contents \in Seq(Values) /\ Len(Contents) = size
  BY <1>1, <1>2 DEF Contents
<1>4. QED
  BY <1>1, <1>3 DEF Contents, ContentsFacts

LEMMA ContentsSeq ==
  IInv => /\ Contents \in Seq(Values) /\ Len(Contents) = size /\ size \in Nat
          /\ \A i \in 1..size : Contents[i] = buf[Place(i)]
  BY ContentsFactsHold DEF ContentsFacts

\* The same facts about the next state.
LEMMA ContentsSeqNext ==
  IInv' => /\ Contents' \in Seq(Values) /\ Len(Contents') = size' /\ size' \in Nat
           /\ \A i \in 1..size' : Contents'[i] = buf'[Place(i)']
<1>1. IInv' => ContentsFacts'
  BY ContentsFactsHold, PTL
<1>2. QED
  BY <1>1 DEF ContentsFacts, Values

\* The first n and the last Len - n elements of a sequence.
LEMMA SplitSeq ==
  ASSUME NEW S, NEW s \in Seq(S), NEW n \in 0..Len(s)
  PROVE  /\ SubSeq(s, 1, n) \in Seq(S) /\ Len(SubSeq(s, 1, n)) = n
         /\ \A i \in 1..n : SubSeq(s, 1, n)[i] = s[i]
         /\ SubSeq(s, n + 1, Len(s)) \in Seq(S)
         /\ Len(SubSeq(s, n + 1, Len(s))) = Len(s) - n
         /\ \A i \in 1..(Len(s) - n) : SubSeq(s, n + 1, Len(s))[i] = s[n + i]
<1>1. Len(s) \in Nat /\ n \in Nat /\ n <= Len(s) /\ \A i \in 1..Len(s) : s[i] \in S
  BY LenProperties, ElementOfSeq
<1>2. (\A i \in 1..n : s[i] \in S) /\ (\A i \in (n + 1)..Len(s) : s[i] \in S)
  BY <1>1
<1>3. /\ SubSeq(s, 1, n) \in Seq(S)
      /\ Len(SubSeq(s, 1, n)) = IF 1 <= n THEN n - 1 + 1 ELSE 0
      /\ \A i \in 1..(n - 1 + 1) : SubSeq(s, 1, n)[i] = s[1 + i - 1]
  BY <1>1, <1>2, SubSeqProperties
<1>4. /\ SubSeq(s, n + 1, Len(s)) \in Seq(S)
      /\ Len(SubSeq(s, n + 1, Len(s)))
           = IF n + 1 <= Len(s) THEN Len(s) - (n + 1) + 1 ELSE 0
      /\ \A i \in 1..(Len(s) - (n + 1) + 1) :
            SubSeq(s, n + 1, Len(s))[i] = s[(n + 1) + i - 1]
  BY <1>1, <1>2, SubSeqProperties
<1>5. /\ Len(SubSeq(s, 1, n)) = n
      /\ Len(SubSeq(s, n + 1, Len(s))) = Len(s) - n
  BY <1>1, <1>3, <1>4
<1>6. ASSUME NEW i \in 1..n PROVE SubSeq(s, 1, n)[i] = s[i]
  <2>1. i \in 1..(n - 1 + 1) /\ 1 + i - 1 = i
    BY <1>1, <1>6
  <2>2. QED
    BY <1>3, <2>1
<1>7. ASSUME NEW i \in 1..(Len(s) - n) PROVE SubSeq(s, n + 1, Len(s))[i] = s[n + i]
  <2>1. i \in 1..(Len(s) - (n + 1) + 1) /\ (n + 1) + i - 1 = n + i
    BY <1>1, <1>7
  <2>2. QED
    BY <1>4, <2>1
<1>8. QED
  BY <1>3, <1>4, <1>5, <1>6, <1>7

LEMMA InitMaps == Init => Fifo!FifoInit
<1> SUFFICES ASSUME Init PROVE AbstractQueue = <<>> /\ result = Fifo!Outcome("none", <<>>)
  BY DEF Fifo!FifoInit
<1>1. Contents = <<>>
  BY InitIInv, ContentsSeq, EmptySeq DEF Init
<1>2. QED
  BY <1>1 DEF Init, AbstractQueue, Outcome, Fifo!Outcome

\* read() takes the head of the queue.
LEMMA ReadOneMaps ==
  ASSUME IInv, IInv', ReadOne PROVE Fifo!Read(1)
<1> USE NAssumption, RequestAssumption
<1>1. AbstractQueue = Contents /\ AbstractQueue' = Contents'
  BY DEF ReadOne, AbstractQueue, callVars
<1>2. /\ size >= 1 /\ size' = size - 1 /\ rdptr' = Advance(rdptr, 1) /\ buf' = buf
      /\ rdptr \in 0..(N - 1) /\ size \in 0..N
  BY DEF ReadOne, usedsize, IInv, Shape, RingType, Cells
<1> DEFINE first == SubSeq(Contents, 1, 1)
           rest  == SubSeq(Contents, 1 + 1, Len(Contents))
<1>3. /\ first \in Seq(Values) /\ Len(first) = 1 /\ first[1] = Contents[1]
      /\ rest \in Seq(Values) /\ Len(rest) = size - 1
      /\ \A i \in 1..(size - 1) : rest[i] = Contents[1 + i]
  BY <1>2, ContentsSeq, SplitSeq
<1> HIDE DEF first, rest
<1>4. Contents[1] = buf[rdptr]
  <2>1. Place(1) = rdptr
    BY <1>2 DEF Place
  <2>2. QED
    BY <1>2, <2>1, ContentsSeq
<1>5. first = <<buf[rdptr]>>
  BY <1>3, <1>4
<1>6. ASSUME NEW i \in 1..(size - 1) PROVE Contents'[i] = rest[i]
  <2>1. Place(i)' = Place(1 + i)
    BY <1>2, <1>6 DEF Place, Advance
  <2>2. Contents[1 + i] = buf[Place(1 + i)]
    BY <1>2, <1>6, ContentsSeq
  <2>3. Contents'[i] = buf'[Place(i)']
    BY <1>2, <1>6, ContentsSeqNext
  <2>4. QED
    BY <1>2, <1>3, <1>6, <2>1, <2>2, <2>3
<1>7. Contents' = rest
  BY <1>2, <1>3, <1>6, ContentsSeqNext, SeqEqual
<1>8. result' = Fifo!Outcome("read", <<buf[rdptr]>>)
  BY DEF ReadOne, Outcome, Fifo!Outcome
<1>9. QED
  BY <1>1, <1>2, <1>5, <1>7, <1>8, ContentsSeq DEF Fifo!Read, first, rest

\* write(T) appends one element.
LEMMA WriteOneMaps ==
  ASSUME IInv, IInv', NEW x \in Elem, WriteOne(x) PROVE Fifo!Write(<<x>>)
<1> USE NAssumption, RequestAssumption
<1>1. AbstractQueue = Contents /\ AbstractQueue' = Contents'
  BY DEF WriteOne, AbstractQueue, callVars
<1>2. /\ size + 1 <= N /\ size' = size + 1 /\ rdptr' = rdptr /\ size \in Nat
      /\ rdptr \in 0..(N - 1) /\ wrptr \in Cells /\ wrptr = Place(size + 1)
      /\ \A k \in Cells : buf'[k] = IF k = wrptr THEN x ELSE buf[k]
  BY DEF WriteOne, freesize, IInv, Shape, RingType, BufType, IndexesAgree, Cells
<1> DEFINE longer == Contents \o <<x>>
<1>3. <<x>> \in Seq(Values) /\ Len(<<x>>) = 1 /\ <<x>>[1] = x
  BY DEF Values
<1>4. /\ longer \in Seq(Values) /\ Len(longer) = size + 1
      /\ \A i \in 1..(size + 1) :
           longer[i] = IF i <= size THEN Contents[i] ELSE <<x>>[i - size]
  BY <1>3, ContentsSeq, ConcatProperties
<1> HIDE DEF longer
<1>5. ASSUME NEW i \in 1..(size + 1) PROVE Contents'[i] = longer[i]
  <2>1. Place(i)' = Place(i) /\ Contents'[i] = buf'[Place(i)']
    BY <1>2, <1>5, ContentsSeqNext DEF Place
  <2>2. CASE i <= size
    <3>1. Place(i) \in Cells /\ Place(i) # wrptr
      BY <1>2, <1>5, <2>2 DEF Place, Cells
    <3>2. i \in 1..size
      BY <1>2, <1>5, <2>2
    <3>3. QED
      BY <1>2, <1>4, <1>5, <2>1, <2>2, <3>1, <3>2, ContentsSeq
  <2>3. CASE i = size + 1
    <3>1. longer[i] = x
      <4>1. ~(i <= size) /\ i - size = 1
        BY <1>2, <2>3
      <4>2. QED
        BY <1>3, <1>4, <1>5, <4>1
    <3>2. QED
      BY <1>2, <2>1, <2>3, <3>1
  <2>4. QED
    BY <1>2, <1>5, <2>2, <2>3
<1>6. Contents' = longer
  BY <1>2, <1>4, <1>5, ContentsSeqNext, SeqEqual
<1>7. result' = Fifo!Outcome("written", <<x>>)
  BY DEF WriteOne, Outcome, Fifo!Outcome
<1>8. QED
  BY <1>1, <1>2, <1>3, <1>6, <1>7, ContentsSeq DEF Fifo!Write, longer
\* A chunk of a block read moves elements from the ring to the caller's
\* array: the abstract queue does not change.
LEMMA ReadChunkStutters ==
  ASSUME IInv, IInv', ReadChunk PROVE AbstractQueue' = AbstractQueue
<1> USE NAssumption, RequestAssumption
<1> DEFINE w == Chunk(rdptr)
           piece == [i \in 1..w |-> buf[rdptr + i - 1]]
<1>1. w \in Nat \ {0} /\ w <= N - rdptr /\ w <= total - copied
  BY ChunkBounds DEF IInv, Shape, RingType, ReadChunk
<1>2. /\ rdptr' = Advance(rdptr, w) /\ size' = size - w /\ copied' = copied + w
      /\ buf' = buf /\ block' = block \o piece /\ op' = "read" /\ op = "read"
  BY DEF ReadChunk
<1>3. \A i \in 1..w : piece[i] = buf[rdptr + i - 1]
  OBVIOUS
<1> HIDE DEF w, piece
<1>4. /\ w \in Nat /\ 0 < w /\ w <= N - rdptr /\ w <= size
      /\ size \in 0..N /\ copied \in Nat /\ rdptr \in 0..(N - 1)
  BY <1>1, <1>2 DEF IInv, Shape, RingType, CallType, AtMostTwoChunks, usedsize, Cells
<1>5. \A i \in 1..w : Contents[i] = buf[rdptr + i - 1]
  <2>1. ASSUME NEW i \in 1..w PROVE Contents[i] = buf[rdptr + i - 1]
    <3>1. i \in 1..size /\ Place(i) = rdptr + i - 1
      BY <1>4, <2>1 DEF Place
    <3>2. QED
      BY <3>1, ContentsSeq
  <2>2. QED
    BY <2>1
<1> DEFINE left == SubSeq(Contents, 1, w)
           rest == SubSeq(Contents, w + 1, Len(Contents))
<1>6. /\ left \in Seq(Values) /\ Len(left) = w /\ \A i \in 1..w : left[i] = Contents[i]
      /\ rest \in Seq(Values) /\ Len(rest) = size - w
      /\ \A i \in 1..(size - w) : rest[i] = Contents[w + i]
      /\ Contents = left \o rest
  <2>1. Contents \in Seq(Values) /\ Len(Contents) = size /\ w \in 0..Len(Contents)
    BY <1>4, ContentsSeq
  <2>2. /\ left \in Seq(Values) /\ Len(left) = w /\ \A i \in 1..w : left[i] = Contents[i]
        /\ rest \in Seq(Values) /\ Len(rest) = size - w
        /\ \A i \in 1..(size - w) : rest[i] = Contents[w + i]
    BY <2>1, SplitSeq
  <2> HIDE DEF left, rest
  <2>3. /\ left \o rest \in Seq(Values) /\ Len(left \o rest) = size
        /\ \A i \in 1..size :
             (left \o rest)[i] = IF i <= w THEN left[i] ELSE rest[i - w]
    <3>1. Len(left) + Len(rest) = size
      BY <1>4, <2>2
    <3>2. /\ left \o rest \in Seq(Values)
          /\ Len(left \o rest) = Len(left) + Len(rest)
          /\ \A i \in 1..(Len(left) + Len(rest)) :
               (left \o rest)[i] = IF i <= Len(left) THEN left[i] ELSE rest[i - Len(left)]
      BY <2>2, ConcatProperties
    <3>3. QED
      BY <2>2, <3>1, <3>2
  <2>4. ASSUME NEW i \in 1..size PROVE Contents[i] = (left \o rest)[i]
    <3>1. CASE i <= w
      BY <1>4, <2>2, <2>3, <2>4, <3>1
    <3>2. CASE ~(i <= w)
      <4>1. i - w \in 1..(size - w) /\ w + (i - w) = i
        BY <1>4, <2>4, <3>2
      <4>2. QED
        BY <2>2, <2>3, <2>4, <3>2, <4>1
    <3>3. QED
      BY <3>1, <3>2
  <2>5. QED
    BY <2>1, <2>2, <2>3, <2>4, SeqEqual
<1>7. piece = left
  <2>1. piece \in Seq(Values) /\ Len(piece) = w
    <3>1. \A i \in 1..w : buf[rdptr + i - 1] \in Values
      <4>1. ASSUME NEW i \in 1..w PROVE buf[rdptr + i - 1] \in Values
        <5>1. left[i] \in Values
          BY <1>6, <4>1, ElementOfSeq
        <5>2. QED
          BY <1>5, <1>6, <4>1, <5>1
      <4>2. QED
        BY <4>1
    <3>2. QED
      BY <1>4, <3>1 DEF piece
  <2> HIDE DEF left
  <2>2. QED
    BY <1>3, <1>5, <1>6, <2>1, SeqEqual
<1> HIDE DEF left, rest
<1>8. Contents' = rest
  <2>1. ASSUME NEW i \in 1..(size - w) PROVE Contents'[i] = rest[i]
    <3>1. Place(i)' = Place(w + i) /\ w + i \in 1..size
      BY <1>2, <1>4, <2>1 DEF Place, Advance
    <3>2. Contents[w + i] = buf[Place(w + i)]
      BY <3>1, ContentsSeq
    <3>3. Contents'[i] = buf'[Place(i)']
      BY <1>2, <2>1, ContentsSeqNext
    <3>4. QED
      BY <1>2, <1>6, <2>1, <3>1, <3>2, <3>3
  <2>2. Contents' \in Seq(Values) /\ Len(Contents') = size - w
    BY <1>2, ContentsSeqNext
  <2>3. QED
    BY <1>6, <2>1, <2>2, SeqEqual
<1>9. (block \o left) \o rest = block \o (left \o rest)
  <2>1. block \in Seq(Values)
    BY DEF IInv, ArrayType
  <2>2. left \in Seq(Values) /\ rest \in Seq(Values)
    BY <1>6
  <2>3. QED
    BY <2>1, <2>2, ConcatAssociative
<1>10. AbstractQueue' = block' \o Contents' /\ AbstractQueue = block \o Contents
  BY <1>2 DEF AbstractQueue
<1>11. QED
  BY <1>2, <1>6, <1>7, <1>8, <1>9, <1>10
\* A chunk of a block write fills free cells only: what the queue held
\* before the call does not change.
LEMMA WriteChunkStutters ==
  ASSUME IInv, IInv', PrefixStored, WriteChunk PROVE AbstractQueue' = AbstractQueue
<1> USE NAssumption, RequestAssumption
<1> DEFINE w == Chunk(wrptr)
           old == SubSeq(Contents, 1, size - copied)
           new == SubSeq(Contents', 1, size' - copied')
<1>1. /\ w \in Nat \ {0} /\ w <= N - size
      /\ \A k \in Cells :
            buf'[k] = IF k \in wrptr..(wrptr + w - 1)
                      THEN block[copied + 1 + k - wrptr] ELSE buf[k]
      /\ \A i \in 1..size : Place(i) \in Cells \ (wrptr..(wrptr + w - 1))
  BY WriteChunkCells DEF IInv
<1>2. /\ size' = size + w /\ copied' = copied + w /\ rdptr' = rdptr
      /\ op' = "write" /\ op = "write"
  BY DEF WriteChunk
<1> HIDE DEF w
<1>3. /\ w \in Nat /\ w <= N - size /\ size \in Nat /\ copied \in Nat /\ copied <= size
      /\ size' - copied' = size - copied
  BY <1>1, <1>2 DEF IInv, Shape, RingType, CallType, PrefixStored
<1>4. /\ old \in Seq(Values) /\ Len(old) = size - copied
      /\ \A i \in 1..(size - copied) : old[i] = Contents[i]
  <2>1. Contents \in Seq(Values) /\ size - copied \in 0..Len(Contents)
    BY <1>3, ContentsSeq
  <2>2. QED
    BY <2>1, SplitSeq
<1>5. /\ new \in Seq(Values) /\ Len(new) = size - copied
      /\ \A i \in 1..(size - copied) : new[i] = Contents'[i]
  <2>1. Contents' \in Seq(Values) /\ size' - copied' \in 0..Len(Contents')
    BY <1>2, <1>3, ContentsSeqNext
  <2>2. QED
    BY <1>3, <2>1, SplitSeq
<1> HIDE DEF old, new
<1>6. ASSUME NEW i \in 1..(size - copied) PROVE new[i] = old[i]
  <2>1. i \in 1..size /\ i \in 1..size'
    BY <1>2, <1>3, <1>6
  <2>2. Place(i)' = Place(i)
    BY <1>2 DEF Place
  <2>3. buf'[Place(i)] = buf[Place(i)]
    BY <1>1, <2>1
  <2>4. Contents'[i] = buf'[Place(i)'] /\ Contents[i] = buf[Place(i)]
    BY <2>1, ContentsSeq, ContentsSeqNext
  <2>5. QED
    BY <1>4, <1>5, <1>6, <2>2, <2>3, <2>4
<1>7. new = old
  BY <1>4, <1>5, <1>6, SeqEqual
<1>8. AbstractQueue = old /\ AbstractQueue' = new
  BY <1>2 DEF AbstractQueue, old, new
<1>9. QED
  BY <1>7, <1>8

\* Entering a block call changes nothing yet.
LEMMA StartStutters ==
  ASSUME IInv, \/ \E n \in 0..MaxRequest : StartRead(n)
               \/ \E data \in Blocks : StartWrite(data)
  PROVE  AbstractQueue' = AbstractQueue
<1>1. /\ UNCHANGED ringVars /\ op = "idle" /\ copied' = 0
      /\ (op' = "read" /\ block' = <<>>) \/ op' = "write"
  BY DEF StartRead, StartWrite
<1>2. Contents' = Contents /\ size' = size
  BY <1>1 DEF ringVars, Contents, Place
<1>3. AbstractQueue = Contents
  BY <1>1 DEF AbstractQueue
<1>4. CASE op' = "read" /\ block' = <<>>
  <2>1. AbstractQueue' = <<>> \o Contents
    BY <1>2, <1>4 DEF AbstractQueue
  <2>2. QED
    BY <1>3, <2>1, ContentsSeq, ConcatEmptySeq
<1>5. CASE op' = "write"
  <2>1. AbstractQueue' = SubSeq(Contents, 1, size - 0)
    BY <1>1, <1>2, <1>5 DEF AbstractQueue
  <2>2. QED
    BY <1>3, <2>1, ContentsSeq, SubSeqFull
<1>6. QED
  BY <1>1, <1>4, <1>5

\* When its loop ends, a block read has taken the front of the queue.
LEMMA EndReadMaps ==
  ASSUME IInv, EndRead PROVE Fifo!Read(total)
<1>1. /\ op = "read" /\ copied = total /\ UNCHANGED ringVars /\ op' = "idle"
      /\ result' = Fifo!Outcome("read", block)
  BY DEF EndRead, Outcome, Fifo!Outcome
<1>2. Contents' = Contents
  BY <1>1 DEF ringVars, Contents, Place
<1>3. AbstractQueue = block \o Contents /\ AbstractQueue' = Contents
  BY <1>1, <1>2 DEF AbstractQueue
<1>4. /\ block \in Seq(Values) /\ Len(block) = total
      /\ Contents \in Seq(Values) /\ Len(Contents) = size /\ size \in Nat /\ total \in Nat
  BY <1>1, ContentsSeq, RequestAssumption DEF IInv, Shape, CallType, ArrayType
<1> DEFINE all == block \o Contents
           front == SubSeq(all, 1, total)
           back  == SubSeq(all, total + 1, Len(all))
<1>5. /\ all \in Seq(Values) /\ Len(all) = total + size
      /\ \A i \in 1..(total + size) :
           all[i] = IF i <= total THEN block[i] ELSE Contents[i - total]
  BY <1>4, ConcatProperties
<1> HIDE DEF all
<1>6. /\ front \in Seq(Values) /\ Len(front) = total
      /\ \A i \in 1..total : front[i] = all[i]
      /\ back \in Seq(Values) /\ Len(back) = size
      /\ \A i \in 1..size : back[i] = all[total + i]
  <2>1. total \in 0..Len(all) /\ Len(all) - total = size
    BY <1>4, <1>5
  <2>2. QED
    BY <1>5, <2>1, SplitSeq
<1> HIDE DEF front, back
<1>7. front = block
  <2>1. ASSUME NEW i \in 1..total PROVE front[i] = block[i]
    <3>1. i \in 1..(total + size) /\ i <= total
      BY <1>4, <2>1
    <3>2. QED
      BY <1>5, <1>6, <2>1, <3>1
  <2>2. QED
    BY <1>4, <1>6, <2>1, SeqEqual
<1>8. back = Contents
  <2>1. ASSUME NEW i \in 1..size PROVE back[i] = Contents[i]
    <3>1. /\ total + i \in 1..(total + size) /\ ~(total + i <= total)
          /\ (total + i) - total = i
      BY <1>4, <2>1
    <3>2. QED
      BY <1>5, <1>6, <2>1, <3>1
  <2>2. QED
    BY <1>4, <1>6, <2>1, SeqEqual
<1>9. total <= Len(all)
  BY <1>4, <1>5
<1>10. QED
  BY <1>1, <1>3, <1>7, <1>8, <1>9 DEF Fifo!Read, all, front, back

\* When its loop ends, a block write has appended the whole array.
LEMMA EndWriteMaps ==
  ASSUME IInv, PrefixStored, EndWrite PROVE Fifo!Write(block)
<1> USE NAssumption, RequestAssumption
<1>1. /\ op = "write" /\ copied = total /\ UNCHANGED ringVars /\ op' = "idle"
      /\ result' = Fifo!Outcome("written", block)
  BY DEF EndWrite, Outcome, Fifo!Outcome
<1>2. Contents' = Contents
  BY <1>1 DEF ringVars, Contents, Place
<1> DEFINE old == SubSeq(Contents, 1, size - total)
<1>3. AbstractQueue = old /\ AbstractQueue' = Contents
  BY <1>1, <1>2 DEF AbstractQueue
<1>4. /\ block \in Seq(Values) /\ Len(block) = total
      /\ Contents \in Seq(Values) /\ Len(Contents) = size
      /\ size \in Nat /\ total \in Nat /\ size <= N /\ total <= size
  <2>1. block \in Seq(Values) /\ Len(block) = total
    BY <1>1 DEF IInv, ArrayType
  <2>2. size \in Nat /\ total \in Nat /\ size <= N /\ total <= size
    BY <1>1 DEF IInv, Shape, RingType, CallType, PrefixStored
  <2>3. QED
    BY <2>1, <2>2, ContentsSeq
<1>5. /\ old \in Seq(Values) /\ Len(old) = size - total
      /\ \A i \in 1..(size - total) : old[i] = Contents[i]
  <2>1. size - total \in 0..Len(Contents)
    BY <1>4
  <2>2. QED
    BY <1>4, <2>1, SplitSeq
<1> HIDE DEF old
<1>6. ASSUME NEW i \in 1..total PROVE Contents[size - total + i] = block[i]
  <2>1. size - total + i \in 1..size
    BY <1>4, <1>6
  <2>2. buf[Place(size - total + i)] = block[i]
    BY <1>1, <1>6 DEF PrefixStored
  <2>3. QED
    BY <2>1, <2>2, ContentsSeq
<1>7. old \o block = Contents
  <2>1. /\ old \o block \in Seq(Values)
        /\ Len(old \o block) = Len(old) + Len(block)
        /\ \A i \in 1..(Len(old) + Len(block)) :
             (old \o block)[i] = IF i <= Len(old) THEN old[i] ELSE block[i - Len(old)]
    BY <1>4, <1>5, ConcatProperties
  <2>2. Len(old) + Len(block) = size
    BY <1>4, <1>5
  <2>3. ASSUME NEW i \in 1..size PROVE (old \o block)[i] = Contents[i]
    <3>1. CASE i <= size - total
      <4>1. i \in 1..(size - total)
        BY <1>4, <2>3, <3>1
      <4>2. QED
        BY <1>5, <2>1, <2>2, <2>3, <3>1, <4>1
    <3>2. CASE ~(i <= size - total)
      <4>1. /\ i - (size - total) \in 1..total
            /\ size - total + (i - (size - total)) = i
        BY <1>4, <2>3, <3>2
      <4>2. Contents[i] = block[i - (size - total)]
        BY <1>6, <4>1
      <4>3. QED
        BY <1>5, <2>1, <2>2, <2>3, <3>2, <4>2
    <3>3. QED
      BY <3>1, <3>2
  <2>4. QED
    BY <1>4, <2>1, <2>2, <2>3, SeqEqual
<1>8. Len(old) + Len(block) <= N
  BY <1>4, <1>5
<1>9. QED
  BY <1>1, <1>3, <1>7, <1>8 DEF Fifo!Write

\* A refused call leaves the queue alone.
LEMMA RefusalMaps ==
  ASSUME IInv, NEW n \in 0..MaxRequest
  PROVE  /\ Underflow(n) => Fifo!Underflow(n)
         /\ Overflow(n) => Fifo!Overflow(n)
<1> SUFFICES ASSUME Underflow(n) \/ Overflow(n)
             PROVE  /\ Underflow(n) => Fifo!Underflow(n)
                    /\ Overflow(n) => Fifo!Overflow(n)
  OBVIOUS
<1>1. UNCHANGED <<ringVars, callVars>> /\ op = "idle"
  BY DEF Underflow, Overflow
<1>2. AbstractQueue = Contents /\ AbstractQueue' = Contents
  BY <1>1 DEF ringVars, callVars, Contents, Place, AbstractQueue
<1>3. Len(Contents) = size /\ size \in Nat
  BY ContentsSeq
<1>4. n \in Nat
  BY RequestAssumption
<1>5. Underflow(n) => Fifo!Underflow(n)
  BY <1>2, <1>3, <1>4 DEF Underflow, Fifo!Underflow, Outcome, Fifo!Outcome, usedsize
<1>6. Overflow(n) => Fifo!Overflow(n)
  BY <1>2, <1>3, <1>4, NAssumption
  DEF Overflow, Fifo!Overflow, Outcome, Fifo!Outcome, freesize
<1>7. QED
  BY <1>5, <1>6

LEMMA NextMaps ==
  IInv /\ IInv' /\ PrefixStored /\ [Next]_vars => [Fifo!FifoNext]_(Fifo!fifoVars)
<1> SUFFICES ASSUME IInv, IInv', PrefixStored, [Next]_vars
             PROVE  Fifo!FifoNext \/ UNCHANGED Fifo!fifoVars
  OBVIOUS
<1>1. CASE ReadOne
  <2>1. 1 \in 0..MaxRequest
    BY RequestAssumption
  <2>2. QED
    BY <1>1, <2>1, ReadOneMaps DEF Fifo!FifoNext
<1>2. ASSUME NEW x \in Elem, WriteOne(x) PROVE Fifo!FifoNext
  <2>1. <<x>> \in Fifo!Blocks
    <3>1. <<x>> \in [1..1 -> Elem] /\ 1 \in 0..MaxRequest
      BY RequestAssumption
    <3>2. QED
      BY <3>1 DEF Fifo!Blocks
  <2>2. QED
    BY <1>2, <2>1, WriteOneMaps DEF Fifo!FifoNext
<1>3. ASSUME NEW n \in 0..MaxRequest, Underflow(n) \/ Overflow(n) PROVE Fifo!FifoNext
  BY <1>3, RefusalMaps DEF Fifo!FifoNext
<1>4. ASSUME NEW n \in 0..MaxRequest, StartRead(n) PROVE UNCHANGED Fifo!fifoVars
  BY <1>4, StartStutters DEF Fifo!fifoVars, StartRead
<1>5. ASSUME NEW data \in Blocks, StartWrite(data) PROVE UNCHANGED Fifo!fifoVars
  BY <1>5, StartStutters DEF Fifo!fifoVars, StartWrite
<1>6. CASE ReadChunk
  BY <1>6, ReadChunkStutters DEF Fifo!fifoVars, ReadChunk
<1>7. CASE EndRead
  <2>1. total \in 0..MaxRequest
    BY DEF IInv, Shape, CallType
  <2>2. QED
    BY <1>7, <2>1, EndReadMaps DEF Fifo!FifoNext
<1>8. CASE WriteChunk
  BY <1>8, WriteChunkStutters DEF Fifo!fifoVars, WriteChunk
<1>9. CASE EndWrite
  <2>1. block \in Fifo!Blocks
    BY <1>9 DEF EndWrite, PrefixStored, Blocks, Fifo!Blocks
  <2>2. QED
    BY <1>9, <2>1, EndWriteMaps DEF Fifo!FifoNext
<1>10. CASE UNCHANGED vars
  BY <1>10 DEF vars, Fifo!fifoVars, AbstractQueue, Contents, Place
<1>11. QED
  BY <1>1, <1>2, <1>3, <1>4, <1>5, <1>6, <1>7, <1>8, <1>9, <1>10 DEF Next

\* Seen from outside, circularbuffer is a bounded first-in first-out queue
\* whose block operations are all or nothing.
THEOREM Refinement == Spec => ImplementsFifo
<1>1. Init => PrefixStored
  BY DEF Init, PrefixStored
<1>2. QED
  BY <1>1, InitIInv, NextIInv, NextPrefix, InitMaps, NextMaps, PTL
  DEF Spec, ImplementsFifo, Fifo!FifoSpec
=============================================================================
