------------------------- MODULE SelectLoop_proofs -------------------------
(***************************************************************************)
(* Proofs about UngetQueue and SelectLoop, for buffers, queues and answers *)
(* of any size and any amount of data.  First the pushback queue: putting  *)
(* bytes back and taking them again neither loses nor reorders any.  The   *)
(* argument only cuts sequences in two (Cut) and drops the first part of   *)
(* a concatenation (Drop); no index into a sequence is needed.             *)
(***************************************************************************)
EXTENDS SelectLoop, UngetQueue, SequenceTheorems, FiniteSetTheorems, TLAPS

\* The ungetqueues there are: the index never leaves the buffer.
IsBuffer(u, S) ==
  /\ u = [buf |-> u.buf, ptr |-> u.ptr]
  /\ u.buf \in Seq(S) /\ u.ptr \in 0..Len(u.buf)

\* Without its first part, a concatenation is its second part.
LEMMA Drop ==
  ASSUME NEW S, NEW h \in Seq(S), NEW b \in Seq(S)
  PROVE  SubSeq(h \o b, Len(h) + 1, Len(h \o b)) = b
<1>1. Len(h \o b) = Len(h) + Len(b) /\ Len(h) \in Nat /\ Len(b) \in Nat
  BY ConcatProperties, LenProperties
<1>2. CASE Len(b) = 0
  <2>1. SubSeq(h \o b, Len(h) + 1, Len(h \o b)) = << >>
    BY <1>1, <1>2, SubSeqEmpty
  <2>2. b = << >>
    BY <1>2, EmptySeq
  <2> QED BY <2>1, <2>2
<1>3. CASE Len(b) > 0
  <2>1. /\ Len(h) + 1 \in Len(h) + 1..Len(h) + Len(b)
        /\ Len(h) + Len(b) \in Len(h) + 1..Len(h) + Len(b)
    BY <1>1, <1>3
  <2>2. SubSeq(h \o b, Len(h) + 1, Len(h) + Len(b))
        = SubSeq(b, Len(h) + 1 - Len(h), Len(h) + Len(b) - Len(h))
    BY <2>1, SubSeqOfConcat2
  <2>3. Len(h) + 1 - Len(h) = 1 /\ Len(h) + Len(b) - Len(h) = Len(b)
    BY <1>1
  <2> QED BY <1>1, <2>2, <2>3, SubSeqFull
<1> QED BY <1>1, <1>2, <1>3

\* h and b are s, cut after its first n elements.
IsCut(s, n, h, b) ==
  /\ s = h \o b /\ Len(h) = n
  /\ h = SubSeq(s, 1, n) /\ b = SubSeq(s, n + 1, Len(s))

\* A sequence can be cut anywhere.
LEMMA Cut ==
  ASSUME NEW S, NEW s \in Seq(S), NEW n \in 0..Len(s)
  PROVE  \E h \in Seq(S), b \in Seq(S) : IsCut(s, n, h, b)
<1>1. Len(s) \in Nat /\ \A i \in 1..Len(s) : s[i] \in S
  BY LenProperties, ElementOfSeq
<1>2. SubSeq(s, 1, n) \in Seq(S) /\ Len(SubSeq(s, 1, n)) = n
  <2>1. \A i \in 1..n : s[i] \in S
    BY <1>1
  <2>2. /\ SubSeq(s, 1, n) \in Seq(S)
        /\ Len(SubSeq(s, 1, n)) = IF 1 <= n THEN n - 1 + 1 ELSE 0
    BY <1>1, <2>1, SubSeqProperties
  <2> QED BY <2>2
<1>3. SubSeq(s, n + 1, Len(s)) \in Seq(S)
  <2>1. \A i \in n + 1..Len(s) : s[i] \in S
    BY <1>1
  <2>2. n + 1 \in Int /\ Len(s) \in Int
    BY <1>1
  <2> QED BY <2>1, <2>2, SubSeqProperties
<1>4. SubSeq(s, 1, n) \o SubSeq(s, n + 1, Len(s)) = s
  <2>1. 1 \in 1..Len(s) + 1 /\ n \in 1 - 1..Len(s) /\ Len(s) \in n..Len(s)
    BY <1>1
  <2>2. SubSeq(s, 1, n) \o SubSeq(s, n + 1, Len(s)) = SubSeq(s, 1, Len(s))
    BY <2>1, ConcatAdjacentSubSeq
  <2> QED BY <2>2, SubSeqFull
<1> QED BY <1>2, <1>3, <1>4 DEF IsCut

\* h, p and r may be grouped either way.
Regroups(h, p, r) == (h \o p) \o r = h \o (p \o r)

\* As any sequences may.
LEMMA Regroup ==
  ASSUME NEW S, NEW h \in Seq(S), NEW p \in Seq(S), NEW r \in Seq(S)
  PROVE  Regroups(h, p, r)
BY ConcatAssociative DEF Regroups

-----------------------------------------------------------------------------
\* A buffer is what has been read, g, and what is left, r.
LEMMA BufferIsCut ==
  ASSUME NEW S, NEW u, IsBuffer(u, S)
  PROVE  \E g \in Seq(S), r \in Seq(S) :
           u = [buf |-> g \o r, ptr |-> Len(g)] /\ Rest(u) = r /\ u.buf = g \o r
<1>1. PICK s \in Seq(S) : u.buf = s
  BY DEF IsBuffer
<1>2. PICK n \in 0..Len(s) : u.ptr = n
  BY <1>1 DEF IsBuffer
<1>3. PICK g \in Seq(S), r \in Seq(S) : IsCut(s, n, g, r)
  BY Cut
<1>4. u = [buf |-> s, ptr |-> n]
  BY <1>1, <1>2 DEF IsBuffer
<1>5. s = g \o r /\ Len(g) = n /\ r = SubSeq(s, n + 1, Len(s))
  BY <1>3 DEF IsCut
<1> QED BY <1>1, <1>2, <1>4, <1>5 DEF Rest

\* A buffer that holds g and then r, with the index after g, has r left.
LEMMA RestOfCut ==
  ASSUME NEW S, NEW g \in Seq(S), NEW r \in Seq(S), NEW v,
         v = [buf |-> g \o r, ptr |-> Len(g)]
  PROVE  IsBuffer(v, S) /\ Rest(v) = r
<1>1. v.buf = g \o r /\ v.ptr = Len(g)
  OBVIOUS
<1>2. g \o r \in Seq(S) /\ Len(g) \in 0..Len(g \o r)
  BY ConcatProperties, LenProperties
<1> QED BY <1>1, <1>2, Drop DEF IsBuffer, Rest

\* ungetbytes(): the bytes that are put back are read next, before everything
\* that would have been read, whether they fit before the index or the buffer
\* has to grow; and the index stays in the buffer.
THEOREM UngetComesFirst ==
  ASSUME NEW S, NEW u, NEW q \in Seq(S), NEW p \in Seq(S), IsBuffer(u, S)
  PROVE  /\ IsBuffer(Unget(u, p), S)
         /\ Content(Unget(u, p), q) = p \o Content(u, q)
<1>1. PICK g \in Seq(S), r \in Seq(S) :
        u = [buf |-> g \o r, ptr |-> Len(g)] /\ Rest(u) = r /\ u.buf = g \o r
  BY BufferIsCut
<1>2. u.ptr = Len(g) /\ Len(g) \in Nat /\ Len(p) \in Nat
  BY <1>1, LenProperties
<1>3. PICK x \in Seq(S) : x = p \o r
  BY ConcatProperties
<1>4. IsBuffer(Unget(u, p), S) /\ Rest(Unget(u, p)) = x
  <2>1. CASE Len(g) < Len(p)
    <3>1. PICK e \in Seq(S) : e = << >>
      BY EmptySeq
    <3>2. Len(e) = 0 /\ e \o x = x
      BY <3>1, EmptySeq, ConcatEmptySeq
    <3>3. Unget(u, p) = [buf |-> e \o x, ptr |-> Len(e)]
      BY <1>1, <1>2, <1>3, <2>1, <3>2 DEF Unget
    <3> QED BY <3>3, RestOfCut
  <2>2. CASE ~(Len(g) < Len(p))
    <3>1. PICK s \in Seq(S) : s = g \o r
      BY ConcatProperties
    <3>2. Len(g) - Len(p) \in 0..Len(s)
      <4>1. Len(s) = Len(g) + Len(r) /\ Len(r) \in Nat
        BY <3>1, ConcatProperties, LenProperties
      <4> QED BY <1>2, <2>2, <4>1
    <3>3. PICK h \in Seq(S), b \in Seq(S) : IsCut(s, Len(g) - Len(p), h, b)
      BY <3>2, Cut
    <3>4. (h \o p) \o r = h \o (p \o r)
      <4>1. Regroups(h, p, r)
        BY Regroup
      <4> QED BY <4>1 DEF Regroups
    <3>5. h = SubSeq(s, 1, Len(g) - Len(p)) /\ Len(h) = Len(g) - Len(p)
      BY <3>3 DEF IsCut
    <3>6. Unget(u, p) = [buf |-> h \o x, ptr |-> Len(h)]
      BY <1>1, <1>2, <1>3, <2>2, <3>1, <3>4, <3>5 DEF Unget
    <3> QED BY <3>6, RestOfCut
  <2> QED BY <2>1, <2>2
<1>5. (p \o r) \o q = p \o (r \o q)
  <2>1. Regroups(p, r, q)
    BY Regroup
  <2> QED BY <2>1 DEF Regroups
<1> QED BY <1>1, <1>3, <1>4, <1>5 DEF Content

\* readbytes(): what is left is the content without the bytes returned, be they
\* from the buffer, from the queue or from both.
THEOREM ReadTakesPrefix ==
  ASSUME NEW S, NEW u, NEW q \in Seq(S), IsBuffer(u, S), NEW n \in 0..Len(Content(u, q))
  PROVE  /\ IsBuffer(AfterRead(u, n), S)
         /\ Content(AfterRead(u, n), QueueAfterRead(u, q, n))
            = SubSeq(Content(u, q), n + 1, Len(Content(u, q)))
<1>1. PICK g \in Seq(S), r \in Seq(S) :
        u = [buf |-> g \o r, ptr |-> Len(g)] /\ Rest(u) = r /\ u.buf = g \o r
  BY BufferIsCut
<1>2. /\ Content(u, q) = r \o q /\ Len(r \o q) = Len(r) + Len(q)
      /\ Len(g) \in Nat /\ Len(r) \in Nat /\ Len(q) \in Nat
  BY <1>1, ConcatProperties, LenProperties DEF Content
<1>3. AfterRead(u, n) = [buf |-> g \o r, ptr |-> Len(g) + FromBuffer(u, n)]
  <2>1. PICK s \in Seq(S) : s = g \o r
    BY ConcatProperties
  <2>2. u = [buf |-> s, ptr |-> Len(g)]
    BY <1>1, <2>1
  <2>3. AfterRead(u, n) = [buf |-> s, ptr |-> Len(g) + FromBuffer(u, n)]
    BY <2>2 DEF AfterRead
  <2> QED BY <2>1, <2>3
<1>4. CASE n <= Len(r)
  <2>1. FromBuffer(u, n) = n /\ n - n + 1 = 1 /\ n \in 0..Len(r)
    BY <1>1, <1>2, <1>4 DEF FromBuffer
  <2>2. PICK h \in Seq(S), b \in Seq(S) : r = h \o b /\ Len(h) = n
    <3>1. \E h \in Seq(S), b \in Seq(S) : IsCut(r, n, h, b)
      BY <2>1, Cut
    <3> QED BY <3>1 DEF IsCut
  <2>3. PICK k \in Seq(S) : k = g \o h /\ Len(k) = Len(g) + n
    BY <2>2, ConcatProperties
  <2>4. AfterRead(u, n) = [buf |-> k \o b, ptr |-> Len(k)]
    <3>1. (g \o h) \o b = g \o (h \o b)
      <4>1. Regroups(g, h, b)
        BY Regroup
      <4> QED BY <4>1 DEF Regroups
    <3> QED BY <1>3, <2>1, <2>2, <2>3, <3>1
  <2>5. IsBuffer(AfterRead(u, n), S) /\ Rest(AfterRead(u, n)) = b
    BY <2>4, RestOfCut
  <2>6. QueueAfterRead(u, q, n) = q
    BY <2>1, SubSeqFull DEF QueueAfterRead
  <2>7. PICK x \in Seq(S) : x = b \o q
    BY ConcatProperties
  <2>8. Content(u, q) = h \o x
    <3>1. (h \o b) \o q = h \o (b \o q)
      <4>1. Regroups(h, b, q)
        BY Regroup
      <4> QED BY <4>1 DEF Regroups
    <3> QED BY <1>2, <2>2, <2>7, <3>1
  <2>9. SubSeq(Content(u, q), n + 1, Len(Content(u, q))) = x
    BY <2>2, <2>8, Drop
  <2> QED BY <2>5, <2>6, <2>7, <2>9 DEF Content
<1>5. CASE n > Len(r)
  <2>1. FromBuffer(u, n) = Len(r)
    BY <1>1, <1>2, <1>5 DEF FromBuffer
  <2>2. PICK m \in 0..Len(q) : m = n - Len(r) /\ Len(r) + m = n
    BY <1>2, <1>5
  <2>3. PICK h \in Seq(S), b \in Seq(S) :
          q = h \o b /\ Len(h) = m /\ b = SubSeq(q, m + 1, Len(q))
    <3>1. \E h \in Seq(S), b \in Seq(S) : IsCut(q, m, h, b)
      BY Cut
    <3> QED BY <3>1 DEF IsCut
  <2>4. PICK e \in Seq(S) : e = << >>
    BY EmptySeq
  <2>5. PICK k \in Seq(S) : k = g \o r /\ Len(k) = Len(g) + Len(r)
    BY ConcatProperties
  <2>6. k \o e = k /\ e \o b = b
    BY <2>4, ConcatEmptySeq
  <2>7. AfterRead(u, n) = [buf |-> k \o e, ptr |-> Len(k)]
    BY <1>3, <2>1, <2>5, <2>6
  <2>8. IsBuffer(AfterRead(u, n), S) /\ Rest(AfterRead(u, n)) = e
    BY <2>7, RestOfCut
  <2>9. QueueAfterRead(u, q, n) = b
    BY <2>1, <2>2, <2>3 DEF QueueAfterRead
  <2>10. PICK x \in Seq(S) : x = r \o h /\ Len(x) = Len(r) + Len(h)
    BY ConcatProperties
  <2>11. Content(u, q) = x \o b
    <3>1. (r \o h) \o b = r \o (h \o b)
      <4>1. Regroups(r, h, b)
        BY Regroup
      <4> QED BY <4>1 DEF Regroups
    <3> QED BY <1>2, <2>3, <2>10, <3>1
  <2>12. SubSeq(Content(u, q), n + 1, Len(Content(u, q))) = b
    <3>1. Len(x) = n
      BY <2>2, <2>3, <2>10
    <3> QED BY <2>11, <3>1, Drop
  <2> QED BY <2>6, <2>8, <2>9, <2>12 DEF Content
<1>6. n \in Nat
  BY <1>2
<1> QED BY <1>2, <1>4, <1>5, <1>6
-----------------------------------------------------------------------------
Bytes == Seq(Nat)
States == {"NEW", "CONNECTING", "ACCEPTING", "LISTENING", "CONNECTED", "DISCONNECTED", "FAILED"}
Started == {"CONNECTING", "CONNECTED"}
Over == {"CONNECTED", "DISCONNECTED", "FAILED"}

Top(d) == Len(d.kind)
Socks(d) == Top(d) >= 2 /\ d.kind[2] = "socks4"
Holds(d, i) == Content(d.unget[i], d.outq[i])
-----------------------------------------------------------------------------
(* Connections *)

IsRecord(d) ==
  DOMAIN d = {"kind", "st", "s", "late", "inq", "outq", "unget", "stopped", "thrown", "shut",
              "answer", "conn", "rx", "tx", "fin", "reset"}

\* A connection of one of the shapes, with the fields it has.
IsConn(d) ==
  /\ IsRecord(d) /\ d.kind \in Shapes
  /\ d.st \in [Elements(d) -> States]
  /\ d.s \in [Elements(d) -> BOOLEAN] /\ d.late \in [Elements(d) -> BOOLEAN]
  /\ d.stopped \in [Elements(d) -> BOOLEAN]
  /\ d.inq \in [Elements(d) -> Bytes] /\ d.outq \in [Elements(d) -> Bytes]
  /\ \A i \in Elements(d) : Len(d.inq[i]) <= Cap /\ Len(d.outq[i]) <= Cap
  /\ DOMAIN d.unget = Elements(d) /\ \A i \in Elements(d) : IsBuffer(d.unget[i], Nat)
  /\ d.thrown \in BOOLEAN /\ d.shut \in BOOLEAN /\ d.answer \in BOOLEAN
  /\ d.fin \in BOOLEAN /\ d.reset \in BOOLEAN /\ d.rx \in Bytes /\ d.tx \in Bytes

\* What the shapes have in common.
LEMMA ShapeFacts == ASSUME NEW d, d.kind \in Shapes
  PROVE /\ Len(d.kind) \in 1..3 /\ Elements(d) = 1..Len(d.kind)
        /\ d.kind[1] \in {"tcp", "accepted", "listen"}
        /\ \A i \in 2..Len(d.kind) : d.kind[i] \in {"socks4", "ssl", "sslin"}
        /\ \A i \in 1..Len(d.kind) : d.kind[i] = "socks4" => i = 2 /\ d.kind[1] = "tcp"
        /\ \A i \in 1..Len(d.kind) : d.kind[i] = "ssl" => i = Len(d.kind) /\ d.kind[1] = "tcp"
        /\ \A i \in 1..Len(d.kind) : d.kind[i] = "sslin" => i = 2 /\ Len(d.kind) = 2 /\ d.kind[1] = "accepted"
        /\ Len(d.kind) = 3 => d.kind[2] = "socks4" /\ d.kind[3] = "ssl"
        /\ d.kind[1] = "listen" => Len(d.kind) = 1
<1>1. CASE d.kind = <<"tcp">>
  <2>1. Len(d.kind) = 1 /\ DOMAIN d.kind = 1..1 /\ d.kind[1] = "tcp"
    BY <1>1
  <2>2. QED
    BY <2>1 DEF Elements
<1>2. CASE d.kind = <<"tcp", "socks4">>
  <2>1. Len(d.kind) = 2 /\ DOMAIN d.kind = 1..2 /\ d.kind[1] = "tcp" /\ d.kind[2] = "socks4"
    BY <1>2
  <2>2. QED
    BY <2>1 DEF Elements
<1>3. CASE d.kind = <<"tcp", "ssl">>
  <2>1. Len(d.kind) = 2 /\ DOMAIN d.kind = 1..2 /\ d.kind[1] = "tcp" /\ d.kind[2] = "ssl"
    BY <1>3
  <2>2. QED
    BY <2>1 DEF Elements
<1>4. CASE d.kind = <<"tcp", "socks4", "ssl">>
  <2>1. Len(d.kind) = 3 /\ DOMAIN d.kind = 1..3 /\ d.kind[1] = "tcp" /\ d.kind[2] = "socks4" /\ d.kind[3] = "ssl"
    BY <1>4
  <2>2. QED
    BY <2>1 DEF Elements
<1>5. CASE d.kind = <<"accepted">>
  <2>1. Len(d.kind) = 1 /\ DOMAIN d.kind = 1..1 /\ d.kind[1] = "accepted"
    BY <1>5
  <2>2. QED
    BY <2>1 DEF Elements
<1>6. CASE d.kind = <<"accepted", "sslin">>
  <2>1. Len(d.kind) = 2 /\ DOMAIN d.kind = 1..2 /\ d.kind[1] = "accepted" /\ d.kind[2] = "sslin"
    BY <1>6
  <2>2. QED
    BY <2>1 DEF Elements
<1>7. CASE d.kind = <<"listen">>
  <2>1. Len(d.kind) = 1 /\ DOMAIN d.kind = 1..1 /\ d.kind[1] = "listen"
    BY <1>7
  <2>2. QED
    BY <2>1 DEF Elements
<1> QED BY <1>1, <1>2, <1>3, <1>4, <1>5, <1>6, <1>7 DEF Shapes

-----------------------------------------------------------------------------
(* What the handlers are made of, field by field *)

SameRest(d, e) ==
  /\ e.kind = d.kind /\ e.answer = d.answer /\ e.stopped = d.stopped /\ e.fin = d.fin
  /\ e.reset = d.reset /\ e.s = d.s /\ e.late = d.late /\ e.conn = d.conn
SameIn(d, e) == e.rx = d.rx /\ e.inq = d.inq
SameOut(d, e) == e.tx = d.tx /\ e.outq = d.outq /\ e.unget = d.unget
Drops(d, e, i) == e.st = [d.st EXCEPT ![i] = "DISCONNECTED"] /\ e.thrown = d.thrown

\* ev_sockread(): ends the element, throws, or moves bytes to the queue.
SockRead(d, e, i) ==
  /\ SameRest(d, e) /\ SameOut(d, e)
  /\ \/ Drops(d, e, i) /\ SameIn(d, e) /\ e.shut = d.shut
     \/ /\ e.st = d.st /\ e.thrown /\ e.inq = d.inq
        /\ d.stopped[i] \/ e.rx = d.rx
     \/ /\ e.st = d.st /\ e.thrown = d.thrown /\ ~d.stopped[i] /\ ~d.reset
        /\ \E a \in Bytes :
             /\ d.rx = a \o e.rx /\ e.inq = [d.inq EXCEPT ![i] = @ \o a]
             /\ e.shut => a = <<>>

\* ev_sockwrite(): ends the element, has nothing to send, throws, or sends some
\* of what there is; a socket that is not an ssl one takes at least a byte.
SockWrite(d, e, i) ==
  /\ SameRest(d, e) /\ SameIn(d, e) /\ e.shut = d.shut
  /\ \/ Drops(d, e, i) /\ SameOut(d, e) /\ d.shut
     \/ e.st = d.st /\ e.thrown = d.thrown /\ SameOut(d, e) /\ Holds(d, i) = <<>>
     \/ e.st = d.st /\ e.thrown /\ SameOut(d, e) /\ d.stopped[i] /\ Holds(d, i) # <<>>
     \/ /\ e.st = d.st /\ e.tx = d.tx /\ Holds(d, i) # <<>>
        /\ \A j \in Elements(d) : j # i => Holds(e, j) = Holds(d, j)
        /\ e.thrown /\ Holds(e, i) = <<>> /\ (d.reset \/ ssl(d, i))
     \/ /\ e.st = d.st /\ e.thrown = d.thrown /\ ~d.reset /\ Holds(d, i) # <<>>
        /\ \A j \in Elements(d) : j # i => Holds(e, j) = Holds(d, j)
        /\ \E a \in Bytes :
             /\ e.tx = d.tx \o a /\ Holds(d, i) = a \o Holds(e, i)
             /\ ~ssl(d, i) => a # <<>>

\* An element changes its state.
LEMMA SetStateKeeps ==
  ASSUME NEW d, IsConn(d), NEW i \in Elements(d), NEW v \in States
  PROVE  LET e == SetState(d, i, v) IN
         /\ IsConn(e) /\ SameRest(d, e) /\ SameIn(d, e) /\ SameOut(d, e)
         /\ e.st = [d.st EXCEPT ![i] = v] /\ e.thrown = d.thrown /\ e.shut = d.shut
<1> DEFINE e == SetState(d, i, v)
<1>r. IsRecord(d)
  BY DEF IsConn
<1>1. IsRecord(e) /\ e.st = [d.st EXCEPT ![i] = v]
  BY <1>r DEF IsRecord, SetState
<1>2. SameRest(d, e) /\ SameIn(d, e) /\ SameOut(d, e) /\ e.thrown = d.thrown /\ e.shut = d.shut
  BY <1>r DEF IsRecord, SetState, SameRest, SameIn, SameOut
<1> HIDE DEF e
<1>3. IsConn(e)
  BY <1>1, <1>2 DEF IsConn, SameRest, SameIn, SameOut, Elements
<1>4. QED
  BY <1>1, <1>2, <1>3 DEF e

\* An exception changes nothing else.
LEMMA ThrowKeeps ==
  ASSUME NEW d, IsConn(d)
  PROVE  LET e == Throw(d) IN
         /\ IsConn(e) /\ SameRest(d, e) /\ SameIn(d, e) /\ SameOut(d, e)
         /\ e.st = d.st /\ e.thrown /\ e.shut = d.shut
<1> DEFINE e == Throw(d)
<1>r. IsRecord(d)
  BY DEF IsConn
<1>1. IsRecord(e) /\ e.st = d.st /\ e.thrown = TRUE /\ e.shut = d.shut
  BY <1>r DEF IsRecord, Throw
<1>2. SameRest(d, e) /\ SameIn(d, e) /\ SameOut(d, e)
  BY <1>r DEF IsRecord, Throw, SameRest, SameIn, SameOut
<1> HIDE DEF e
<1>3. IsConn(e)
  BY <1>1, <1>2 DEF IsConn, SameRest, SameIn, SameOut, Elements
<1>4. QED
  BY <1>1, <1>2, <1>3 DEF e

\* What read() of a socket returns: it throws, or offers part of what is there.
LEMMA SocketOffers ==
  ASSUME NEW d, IsConn(d), ~d.thrown, NEW i \in Elements(d), ~d.shut, freein(d, i) # 0,
         NEW q \in sockread(d, i)
  PROVE  \/ q = <<Throw(d), 0>>
         \/ /\ ~d.reset /\ q[2] \in 0..Len(d.rx) /\ q[2] <= freein(d, i)
            /\ \/ q[1] = d
               \/ q[1] = [d EXCEPT !.shut = d.fin /\ d.rx = <<>>]
<1> DEFINE f == freein(d, i)
           n == IF Len(d.rx) < f THEN Len(d.rx) ELSE f
<1>1. f \in Nat /\ Len(d.rx) \in Nat /\ n \in 0..Len(d.rx) /\ n <= f
  <2>1. f \in Nat
    BY SizeAssumption DEF IsConn, Elements, Bytes, freein
  <2>2. Len(d.rx) \in Nat
    BY DEF IsConn, Bytes
  <2> HIDE DEF f
  <2>3. QED
    BY <2>1, <2>2
<1> HIDE DEF f, n
<1>2. q \in IF ssl(d, i) THEN sslread(d, n) ELSE tcpread(d, n)
  BY DEF sockread, n, f
<1>3. CASE ssl(d, i)
  <2>1. q = <<Throw(d), 0>> \/ (~d.reset /\ \E k \in 0..n : q = <<d, k>>)
    BY <1>2, <1>3 DEF sslread
  <2>2. CASE ~d.reset /\ \E k \in 0..n : q = <<d, k>>
    BY <1>1, <2>2 DEF f
  <2>3. QED
    BY <2>1, <2>2
<1>4. CASE ~ssl(d, i)
  <2>1. q \in tcpread(d, n)
    BY <1>2, <1>4
  <2>2. CASE d.reset
    BY <2>1, <2>2 DEF tcpread
  <2>3. CASE ~d.reset
    <3>1. q = <<[d EXCEPT !.shut = d.fin /\ d.rx = <<>>], n>>
      BY <2>1, <2>3 DEF tcpread
    <3>2. q[1] = [d EXCEPT !.shut = d.fin /\ d.rx = <<>>] /\ q[2] = n
      BY <3>1
    <3>3. QED
      BY <1>1, <2>3, <3>2 DEF f
  <2>4. QED
    BY <2>2, <2>3
<1>5. QED
  BY <1>3, <1>4

\* The end of the stream is noted, and nothing else changes.
LEMMA ShutKeeps ==
  ASSUME NEW d, IsConn(d), NEW m, m = d \/ m = [d EXCEPT !.shut = d.fin /\ d.rx = <<>>], ~d.shut
  PROVE  /\ IsConn(m) /\ SameRest(d, m) /\ SameIn(d, m) /\ SameOut(d, m)
         /\ m.st = d.st /\ m.thrown = d.thrown /\ (m.shut => d.rx = <<>>)
<1>1. CASE m = d
  BY <1>1 DEF SameRest, SameIn, SameOut
<1>2. CASE m = [d EXCEPT !.shut = d.fin /\ d.rx = <<>>]
  <2>r. IsRecord(d)
    BY DEF IsConn
  <2>1. IsRecord(m) /\ m.st = d.st /\ m.thrown = d.thrown /\ m.shut = (d.fin /\ d.rx = <<>>)
    BY <1>2, <2>r DEF IsRecord
  <2>2. SameRest(d, m) /\ SameIn(d, m) /\ SameOut(d, m)
    BY <1>2, <2>r DEF IsRecord, SameRest, SameIn, SameOut
  <2>3. m.shut \in BOOLEAN
    BY <2>1
  <2>4. IsConn(m)
    BY <2>1, <2>2, <2>3 DEF IsConn, SameRest, SameIn, SameOut, Elements
  <2>5. QED
    BY <2>1, <2>2, <2>4
<1>3. QED
  BY <1>1, <1>2

\* The first n bytes that are there went to the queue.
Moved(d, e, i, n) ==
  \E a \in Bytes : d.rx = a \o e.rx /\ Len(a) = n /\ e.inq = [d.inq EXCEPT ![i] = @ \o a]

\* The bytes read go to the end of the queue, if that is not stopped.
LEMMA ReceivedKeeps ==
  ASSUME NEW d, IsConn(d), ~d.thrown, NEW i \in Elements(d), NEW n \in 0..Len(d.rx), n <= freein(d, i)
  PROVE  LET e == Received(d, i, n) IN
         /\ IsConn(e) /\ SameRest(d, e) /\ SameOut(d, e) /\ e.st = d.st /\ e.shut = d.shut
         /\ d.stopped[i] => e.thrown /\ e.inq = d.inq
         /\ ~d.stopped[i] => e.thrown = d.thrown /\ Moved(d, e, i, n)
<1> DEFINE rest == SubSeq(d.rx, n + 1, Len(d.rx))
           a == SubSeq(d.rx, 1, n)
           m == [d EXCEPT !.rx = rest]
           e == Received(d, i, n)
<1>1. a \in Bytes /\ rest \in Bytes /\ d.rx = a \o rest /\ Len(a) = n
  <2>1. PICK h \in Bytes, b \in Bytes : IsCut(d.rx, n, h, b)
    BY Cut DEF IsConn, Bytes
  <2>2. QED
    BY <2>1 DEF IsCut
<1>r. IsRecord(d) /\ d.thrown = FALSE
  BY DEF IsConn
<1>2. CASE d.stopped[i]
  <2>1. e = Throw(m)
    BY <1>2 DEF Received
  <2> HIDE DEF rest, a, e
  <2>2. IsRecord(m) /\ m.rx = rest /\ m.inq = d.inq /\ m.st = d.st /\ m.shut = d.shut /\ m.thrown = d.thrown
    BY <1>r DEF IsRecord
  <2>3. SameRest(d, m) /\ SameOut(d, m)
    BY <1>r DEF IsRecord, SameRest, SameOut
  <2> HIDE DEF m
  <2>4. IsConn(m)
    BY <1>1, <2>2, <2>3 DEF IsConn, SameRest, SameIn, SameOut, Elements
  <2>5. IsConn(e) /\ SameRest(m, e) /\ SameIn(m, e) /\ SameOut(m, e) /\ e.st = m.st /\ e.thrown /\ e.shut = m.shut
    BY <2>1, <2>4, ThrowKeeps
  <2>6. QED
    BY <1>2, <2>2, <2>3, <2>5 DEF SameRest, SameOut, SameIn, e
<1>3. CASE ~d.stopped[i]
  <2>1. e = [m EXCEPT !.inq[i] = @ \o a]
    BY <1>3 DEF Received
  <2> HIDE DEF rest, a, e
  <2>2. IsRecord(e) /\ e.rx = rest /\ e.inq = [d.inq EXCEPT ![i] = @ \o a] /\ e.st = d.st /\ e.shut = d.shut
    BY <1>r, <2>1 DEF IsRecord
  <2>3. SameRest(d, e) /\ SameOut(d, e) /\ e.thrown = d.thrown
    BY <1>r, <2>1 DEF IsRecord, SameRest, SameOut
  <2> HIDE DEF m
  <2>4. d.inq[i] \o a \in Bytes /\ Len(d.inq[i] \o a) <= Cap
    <3>1. d.inq[i] \in Bytes /\ Len(d.inq[i]) \in Nat /\ Len(d.inq[i]) + n <= Cap
      BY SizeAssumption DEF IsConn, freein, Bytes
    <3>2. QED
      BY <1>1, <3>1, ConcatProperties DEF Bytes
  <2>5. e.inq \in [Elements(d) -> Bytes] /\ \A j \in Elements(d) : Len(e.inq[j]) <= Cap
    BY <2>2, <2>4 DEF IsConn
  <2>6. IsConn(e)
    BY <1>1, <2>2, <2>3, <2>5 DEF IsConn, SameRest, SameOut, Elements
  <2>7. QED
    BY <1>1, <1>3, <2>2, <2>3, <2>6 DEF e, Moved
<1>4. QED
  BY <1>2, <1>3

\* ev_sockread() does nothing else.
LEMMA SockReadStep ==
  ASSUME NEW d, IsConn(d), ~d.thrown, NEW i \in Elements(d), NEW e \in ev_sockread(d, i)
  PROVE  IsConn(e) /\ SockRead(d, e, i)
<1>1. CASE d.shut \/ freein(d, i) = 0
  <2>1. e = SetState(d, i, "DISCONNECTED")
    BY <1>1 DEF ev_sockread
  <2>2. QED
    BY <2>1, SetStateKeeps DEF SockRead, Drops, States
<1>2. CASE ~(d.shut \/ freein(d, i) = 0)
  <2>1. PICK q \in sockread(d, i) : e = Received(q[1], i, q[2])
    BY <1>2 DEF ev_sockread
  <2>2. CASE q = <<Throw(d), 0>>
    <3>1. IsConn(Throw(d)) /\ Throw(d).thrown /\ q[1] = Throw(d)
      BY <2>2, ThrowKeeps
    <3>2. e = Throw(d)
      BY <2>1, <3>1 DEF Received
    <3>3. QED
      BY <3>2, ThrowKeeps DEF SockRead, SameIn
  <2>3. CASE q # <<Throw(d), 0>>
    <3> DEFINE m == q[1]
               n == q[2]
    <3>1. ~d.reset /\ n \in 0..Len(d.rx) /\ n <= freein(d, i)
          /\ (m = d \/ m = [d EXCEPT !.shut = d.fin /\ d.rx = <<>>])
      BY <1>2, <2>3, SocketOffers
    <3> HIDE DEF m, n
    <3>2. /\ IsConn(m) /\ SameRest(d, m) /\ SameIn(d, m) /\ SameOut(d, m)
          /\ m.st = d.st /\ m.thrown = d.thrown /\ (m.shut => d.rx = <<>>)
      BY <1>2, <3>1, ShutKeeps
    <3>3. i \in Elements(m) /\ n \in 0..Len(m.rx) /\ n <= freein(m, i) /\ ~m.thrown
      BY <3>1, <3>2 DEF SameRest, SameIn, Elements, freein
    <3>4. e = Received(m, i, n)
      BY <2>1 DEF m, n
    <3>5. /\ IsConn(e) /\ SameRest(m, e) /\ SameOut(m, e) /\ e.st = m.st /\ e.shut = m.shut
          /\ m.stopped[i] => e.thrown /\ e.inq = m.inq
          /\ ~m.stopped[i] => e.thrown = m.thrown /\ Moved(m, e, i, n)
      BY <3>2, <3>3, <3>4, ReceivedKeeps
    <3>6. SameRest(d, e) /\ SameOut(d, e) /\ e.st = d.st
      BY <3>2, <3>5 DEF SameRest, SameOut
    <3>7. CASE d.stopped[i]
      BY <3>2, <3>5, <3>6, <3>7 DEF SockRead, SameRest, SameIn
    <3>8. CASE ~d.stopped[i]
      <4>1. PICK a \in Bytes : m.rx = a \o e.rx /\ Len(a) = n /\ e.inq = [m.inq EXCEPT ![i] = @ \o a]
        BY <3>2, <3>5, <3>8 DEF SameRest, Moved
      <4>2. e.shut => a = <<>>
        <5>1. e.shut => n = 0
          BY <3>1, <3>2, <3>5
        <5>2. QED
          BY <4>1, <5>1, EmptySeq DEF Bytes
      <4>3. d.rx = a \o e.rx /\ e.inq = [d.inq EXCEPT ![i] = @ \o a] /\ e.thrown = d.thrown
        BY <3>2, <3>5, <3>8, <4>1 DEF SameIn, SameRest
      <4>4. QED
        BY <3>1, <3>5, <3>6, <3>8, <4>2, <4>3 DEF SockRead
    <3>9. QED
      BY <3>7, <3>8
  <2>4. QED
    BY <2>2, <2>3
<1>3. QED
  BY <1>1, <1>2

\* All that was queued is read.
LEMMA TakeAllKeeps ==
  ASSUME NEW d, IsConn(d), NEW i \in Elements(d)
  PROVE  LET m == TakeAll(d, i) IN
         /\ IsConn(m) /\ SameRest(d, m) /\ SameIn(d, m) /\ m.tx = d.tx
         /\ m.st = d.st /\ m.thrown = d.thrown /\ m.shut = d.shut
         /\ m.outq[i] = <<>> /\ Rest(m.unget[i]) = <<>>
         /\ \A j \in Elements(d) : j # i => m.outq[j] = d.outq[j] /\ m.unget[j] = d.unget[j]
<1> DEFINE u == d.unget[i]
           q == d.outq[i]
           n == usedout(d, i)
           v == AfterRead(u, n)
           p == QueueAfterRead(u, q, n)
           m == TakeAll(d, i)
<1>1. IsBuffer(u, Nat) /\ q \in Seq(Nat)
  BY DEF IsConn, Bytes
<1>2. /\ u = [buf |-> u.buf, ptr |-> u.ptr] /\ u.buf \in Seq(Nat) /\ u.ptr \in 0..Len(u.buf)
      /\ Len(u.buf) \in Nat /\ Len(q) \in Nat
  BY <1>1 DEF IsBuffer
<1>u. n = Len(Rest(u)) + Len(q)
  BY DEF usedout, usedsize
<1> HIDE DEF u, q, n
<1>3. Rest(u) \in Seq(Nat) /\ Len(Rest(u)) = Len(u.buf) - u.ptr
  <2>1. PICK h \in Seq(Nat), b \in Seq(Nat) : IsCut(u.buf, u.ptr, h, b)
    BY <1>2, Cut
  <2>2. Rest(u) = b /\ Len(h) = u.ptr /\ u.buf = h \o b
    BY <2>1 DEF IsCut, Rest
  <2>3. Len(h \o b) = Len(h) + Len(b) /\ Len(h) \in Nat /\ Len(b) \in Nat
    BY ConcatProperties
  <2>4. QED
    BY <2>2, <2>3
<1>4. n = Len(Rest(u)) + Len(q) /\ n \in Nat /\ Len(Rest(u)) \in Nat
  BY <1>2, <1>3, <1>u
<1>5. FromBuffer(u, n) = Len(Rest(u))
  BY <1>2, <1>4 DEF FromBuffer
<1>6. p = <<>>
  <2>1. p = SubSeq(q, Len(q) + 1, Len(q))
    BY <1>2, <1>4, <1>5 DEF QueueAfterRead
  <2>2. QED
    BY <1>1, <1>2, <2>1, SubSeqEmpty
<1>7. IsBuffer(v, Nat) /\ Rest(v) = <<>>
  <2>1. v = [buf |-> u.buf, ptr |-> Len(u.buf)]
    <3> DEFINE k == FromBuffer(u, n)
    <3>1. v = [u EXCEPT !.ptr = @ + k]
      BY DEF AfterRead
    <3>2. k = Len(u.buf) - u.ptr
      BY <1>3, <1>5
    <3> HIDE DEF k, v
    <3>3. v = [buf |-> u.buf, ptr |-> u.ptr + k]
      BY <1>2, <3>1
    <3>4. u.ptr + k = Len(u.buf)
      BY <1>2, <3>2
    <3>5. QED
      BY <3>3, <3>4
  <2>2. v.buf = u.buf /\ v.ptr = Len(u.buf)
    BY <2>1
  <2>3. IsBuffer(v, Nat)
    BY <1>2, <2>1, <2>2 DEF IsBuffer
  <2>4. Rest(v) = SubSeq(u.buf, Len(u.buf) + 1, Len(u.buf))
    BY <2>2 DEF Rest
  <2>5. QED
    BY <1>2, <2>3, <2>4, SubSeqEmpty
<1>r. IsRecord(d)
  BY DEF IsConn
<1>8. m = [d EXCEPT !.outq[i] = p, !.unget[i] = v]
  BY DEF TakeAll, n, u, q
<1> HIDE DEF v, p, m
<1>9. /\ IsRecord(m) /\ m.tx = d.tx /\ m.st = d.st /\ m.thrown = d.thrown /\ m.shut = d.shut
      /\ m.outq = [d.outq EXCEPT ![i] = p] /\ m.unget = [d.unget EXCEPT ![i] = v]
  BY <1>8, <1>r DEF IsRecord
<1>10. SameRest(d, m) /\ SameIn(d, m)
  BY <1>8, <1>r DEF IsRecord, SameRest, SameIn
<1>11. /\ m.outq \in [Elements(d) -> Bytes] /\ DOMAIN m.unget = Elements(d)
       /\ m.outq[i] = <<>> /\ m.unget[i] = v
       /\ \A j \in Elements(d) : j # i => m.outq[j] = d.outq[j] /\ m.unget[j] = d.unget[j]
  <2>1. p \in Bytes
    BY <1>6 DEF Bytes
  <2>2. QED
    BY <1>6, <1>9, <2>1 DEF IsConn
<1>12. \A j \in Elements(d) : IsBuffer(m.unget[j], Nat) /\ Len(m.outq[j]) <= Cap
  <2>1. Len(<<>>) <= Cap
    BY SizeAssumption
  <2>2. ASSUME NEW j \in Elements(d) PROVE IsBuffer(m.unget[j], Nat)
    BY <1>7, <1>11 DEF IsConn
  <2>3. ASSUME NEW j \in Elements(d) PROVE Len(m.outq[j]) <= Cap
    BY <1>11, <2>1 DEF IsConn
  <2>4. QED
    BY <2>2, <2>3
<1>13. IsConn(m)
  BY <1>9, <1>10, <1>11, <1>12 DEF IsConn, SameRest, SameIn, Elements
<1>14. QED
  BY <1>7, <1>9, <1>10, <1>11, <1>13 DEF m

\* n bytes went out, the others are still there.
Gone(d, e, i, n) ==
  /\ \A j \in Elements(d) : j # i => Holds(e, j) = Holds(d, j)
  /\ \E a \in Bytes : e.tx = d.tx \o a /\ Len(a) = n /\ Holds(d, i) = a \o Holds(e, i)

\* What a queue and the buffer before it hold.
LEMMA HoldsBytes ==
  ASSUME NEW d, IsConn(d), NEW i \in Elements(d)
  PROVE  /\ Holds(d, i) \in Bytes /\ usedout(d, i) = Len(Holds(d, i))
         /\ Rest(d.unget[i]) \in Bytes
<1> DEFINE u == d.unget[i]
           q == d.outq[i]
<1>1. IsBuffer(u, Nat) /\ q \in Seq(Nat)
  BY DEF IsConn, Bytes
<1> HIDE DEF u, q
<1>2. \E g \in Seq(Nat), r \in Seq(Nat) : u = [buf |-> g \o r, ptr |-> Len(g)] /\ Rest(u) = r /\ u.buf = g \o r
  BY <1>1, BufferIsCut
<1>3. PICK r \in Seq(Nat) : Rest(u) = r
  BY <1>2
<1>4. r \o q \in Seq(Nat) /\ Len(r \o q) = Len(r) + Len(q)
  BY <1>1, ConcatProperties
<1>5. QED
  BY <1>3, <1>4 DEF Holds, Content, usedout, usedsize, Bytes, u, q

\* What the socket did not take is put back.
LEMMA SendKeeps ==
  ASSUME NEW d, IsConn(d), NEW i \in Elements(d), NEW n \in 0..Len(Holds(d, i))
  PROVE  LET e == Send(d, i, n) IN
         /\ IsConn(e) /\ SameRest(d, e) /\ SameIn(d, e)
         /\ e.st = d.st /\ e.thrown = d.thrown /\ e.shut = d.shut /\ Gone(d, e, i, n)
<1> DEFINE h == Holds(d, i)
           data == BytesRead(d.unget[i], d.outq[i], usedout(d, i))
           m == TakeAll(d, i)
           e == Send(d, i, n)
           a == SubSeq(h, 1, n)
           b == SubSeq(h, n + 1, Len(h))
           w == m.unget[i]
           v == IF n < Len(h) THEN Unget(w, b) ELSE w
<1>1. h \in Bytes /\ usedout(d, i) = Len(h) /\ Len(h) \in Nat
  BY HoldsBytes DEF Bytes
<1>2. data = h
  <2>1. data = SubSeq(h, 1, Len(h))
    BY <1>1 DEF BytesRead, Holds
  <2>2. QED
    BY <1>1, <2>1, SubSeqFull DEF Bytes
<1>3. /\ IsConn(m) /\ SameRest(d, m) /\ SameIn(d, m) /\ m.tx = d.tx
      /\ m.st = d.st /\ m.thrown = d.thrown /\ m.shut = d.shut
      /\ m.outq[i] = <<>> /\ Rest(m.unget[i]) = <<>>
      /\ \A j \in Elements(d) : j # i => m.outq[j] = d.outq[j] /\ m.unget[j] = d.unget[j]
  BY TakeAllKeeps
<1>4. a \in Bytes /\ b \in Bytes /\ h = a \o b /\ Len(a) = n
  <2>1. PICK x \in Bytes, y \in Bytes : IsCut(h, n, x, y)
    BY <1>1, Cut DEF Bytes
  <2>2. QED
    BY <2>1 DEF IsCut
<1>5. e = [m EXCEPT !.tx = @ \o a, !.unget[i] = v]
  BY <1>2 DEF Send
<1>6. IsBuffer(w, Nat) /\ Content(w, <<>>) = <<>>
  BY <1>3 DEF IsConn, Content, SameRest, Elements
<1> HIDE DEF h, data, m, e, a, b
<1>7. IsBuffer(v, Nat) /\ Content(v, <<>>) = b
  <2>1. CASE n < Len(h)
    <3>1. v = Unget(w, b) /\ b \in Seq(Nat)
      BY <1>4, <2>1 DEF Bytes
    <3>2. IsBuffer(Unget(w, b), Nat) /\ Content(Unget(w, b), <<>>) = b \o Content(w, <<>>)
      <4>1. <<>> \in Seq(Nat)
        OBVIOUS
      <4>2. IsBuffer(w, Nat)
        BY <1>6
      <4> HIDE DEF w
      <4>3. QED
        BY <3>1, <4>1, <4>2, Zenon, UngetComesFirst
    <3>3. QED
      BY <1>4, <1>6, <3>1, <3>2, ConcatEmptySeq DEF Bytes
  <2>2. CASE ~(n < Len(h))
    <3>1. b = <<>>
      <4>1. n = Len(h)
        BY <1>1, <2>2 DEF h
      <4>2. b = SubSeq(h, Len(h) + 1, Len(h))
        BY <4>1 DEF b
      <4>3. QED
        BY <1>1, <4>2, SubSeqEmpty DEF Bytes
    <3>2. v = w
      BY <2>2
    <3>3. QED
      BY <1>6, <3>1, <3>2
  <2>3. QED
    BY <2>1, <2>2
<1>r. IsRecord(m)
  BY <1>3 DEF IsConn
<1> HIDE DEF v, w
<1>8. /\ IsRecord(e) /\ e.tx = m.tx \o a /\ e.st = m.st /\ e.thrown = m.thrown /\ e.shut = m.shut
      /\ e.outq = m.outq /\ e.unget = [m.unget EXCEPT ![i] = v]
  BY <1>5, <1>r DEF IsRecord
<1>9. SameRest(m, e) /\ SameIn(m, e)
  BY <1>5, <1>r DEF IsRecord, SameRest, SameIn
<1>10. DOMAIN m.unget = Elements(d)
  BY <1>3 DEF IsConn, SameRest, Elements
<1>11. /\ DOMAIN e.unget = Elements(d) /\ e.unget[i] = v
       /\ \A j \in Elements(d) : j # i => e.unget[j] = m.unget[j]
  BY <1>8, <1>10
<1>12. e.tx = d.tx \o a /\ e.tx \in Bytes
  <2>1. e.tx = d.tx \o a /\ d.tx \in Bytes
    BY <1>3, <1>8 DEF IsConn
  <2>2. QED
    BY <1>4, <2>1, ConcatProperties DEF Bytes
<1>13. IsConn(e)
  <2>1. \A j \in Elements(d) : IsBuffer(e.unget[j], Nat)
    BY <1>3, <1>7, <1>11 DEF IsConn, SameRest, Elements
  <2>2. QED
    BY <1>3, <1>8, <1>9, <1>11, <1>12, <2>1 DEF IsConn, SameRest, SameIn, Elements
<1>14. SameRest(d, e) /\ SameIn(d, e) /\ e.st = d.st /\ e.thrown = d.thrown /\ e.shut = d.shut
  BY <1>3, <1>8, <1>9 DEF SameRest, SameIn
<1>15. \A j \in Elements(d) : j # i => Holds(e, j) = Holds(d, j)
  BY <1>3, <1>8, <1>11 DEF Holds
<1>16. Holds(e, i) = b
  BY <1>3, <1>7, <1>8, <1>11 DEF Holds
<1>17. Gone(d, e, i, n)
  BY <1>4, <1>12, <1>15, <1>16 DEF Gone, h
<1>18. QED
  BY <1>13, <1>14, <1>17 DEF e

\* ev_sockwrite() does nothing else.
LEMMA SockWriteStep ==
  ASSUME NEW d, IsConn(d), ~d.thrown, NEW i \in Elements(d), NEW e \in ev_sockwrite(d, i)
  PROVE  IsConn(e) /\ SockWrite(d, e, i)
<1>1. Holds(d, i) \in Bytes /\ usedout(d, i) = Len(Holds(d, i)) /\ Len(Holds(d, i)) \in Nat
  BY HoldsBytes DEF Bytes
<1>2. CASE d.shut
  <2>1. e = SetState(d, i, "DISCONNECTED")
    BY <1>2 DEF ev_sockwrite
  <2>2. QED
    BY <1>2, <2>1, SetStateKeeps DEF SockWrite, Drops, States
<1>3. CASE ~d.shut /\ usedout(d, i) = 0
  <2>1. e = d
    BY <1>3 DEF ev_sockwrite
  <2>2. Holds(d, i) = <<>>
    BY <1>1, <1>3, EmptySeq DEF Bytes
  <2>3. QED
    BY <2>1, <2>2 DEF SockWrite, SameRest, SameIn, SameOut
<1>4. CASE ~d.shut /\ usedout(d, i) # 0
  <2>1. Holds(d, i) # <<>>
    BY <1>1, <1>4, EmptySeq DEF Bytes
  <2>2. CASE d.stopped[i] /\ d.outq[i] # <<>>
    <3>1. e = Throw(d)
      BY <1>4, <2>2 DEF ev_sockwrite
    <3>2. QED
      BY <2>1, <2>2, <3>1, ThrowKeeps DEF SockWrite
  <2>3. CASE ~(d.stopped[i] /\ d.outq[i] # <<>>)
    <3>1. PICK n \in sockwrite(d, i, usedout(d, i)) :
            e = IF n = -1 THEN Throw(TakeAll(d, i)) ELSE Send(d, i, n)
      BY <1>4, <2>3 DEF ev_sockwrite
    <3>2. \/ n = -1 /\ (d.reset \/ ssl(d, i))
          \/ n # -1 /\ n \in 0..Len(Holds(d, i)) /\ ~d.reset /\ (~ssl(d, i) => n > 0)
      BY <1>1, <3>1 DEF sockwrite, sslwrite, tcpwrite
    <3>3. CASE n = -1
      <4> DEFINE m == TakeAll(d, i)
      <4>1. /\ IsConn(m) /\ SameRest(d, m) /\ SameIn(d, m) /\ m.tx = d.tx
            /\ m.st = d.st /\ m.thrown = d.thrown /\ m.shut = d.shut
            /\ m.outq[i] = <<>> /\ Rest(m.unget[i]) = <<>>
            /\ \A j \in Elements(d) : j # i => m.outq[j] = d.outq[j] /\ m.unget[j] = d.unget[j]
        BY TakeAllKeeps
      <4> HIDE DEF m
      <4>2. e = Throw(m)
        BY <3>1, <3>3 DEF m
      <4>3. /\ IsConn(e) /\ SameRest(m, e) /\ SameIn(m, e) /\ SameOut(m, e)
            /\ e.st = m.st /\ e.thrown /\ e.shut = m.shut
        BY <4>1, <4>2, ThrowKeeps
      <4>4. SameRest(d, e) /\ SameIn(d, e) /\ e.st = d.st /\ e.shut = d.shut /\ e.tx = d.tx
        BY <4>1, <4>3 DEF SameRest, SameIn, SameOut
      <4>5. Holds(e, i) = <<>> /\ \A j \in Elements(d) : j # i => Holds(e, j) = Holds(d, j)
        <5>1. Content(m.unget[i], m.outq[i]) = <<>>
          BY <4>1 DEF Content
        <5>2. QED
          BY <4>1, <4>3, <5>1 DEF SameOut, Holds
      <4>6. QED
        BY <2>1, <3>2, <3>3, <4>3, <4>4, <4>5 DEF SockWrite
    <3>4. CASE n # -1
      <4>1. e = Send(d, i, n) /\ n \in 0..Len(Holds(d, i)) /\ ~d.reset /\ (~ssl(d, i) => n > 0)
        BY <3>1, <3>2, <3>4
      <4>2. /\ IsConn(e) /\ SameRest(d, e) /\ SameIn(d, e)
            /\ e.st = d.st /\ e.thrown = d.thrown /\ e.shut = d.shut /\ Gone(d, e, i, n)
        BY <4>1, SendKeeps
      <4>3. PICK a \in Bytes : e.tx = d.tx \o a /\ Len(a) = n /\ Holds(d, i) = a \o Holds(e, i)
        BY <4>2 DEF Gone
      <4>4. ~ssl(d, i) => a # <<>>
        BY <4>1, <4>3, EmptySeq DEF Bytes
      <4>5. \A j \in Elements(d) : j # i => Holds(e, j) = Holds(d, j)
        BY <4>2 DEF Gone
      <4>6. QED
        BY <2>1, <4>1, <4>2, <4>3, <4>4, <4>5 DEF SockWrite
    <3>5. QED
      BY <3>3, <3>4
  <2>4. QED
    BY <2>2, <2>3
<1>5. QED
  BY <1>2, <1>3, <1>4
-----------------------------------------------------------------------------
(* The inductive invariant of a connection d: w bytes written, n sent by the *)
(* peer, t taken by the user.                                               *)

\* The states an element can be in.
StatesOf(k) ==
  CASE k = "listen" -> {"NEW", "LISTENING", "DISCONNECTED", "FAILED"}
    [] k = "accepted" -> Over
    [] k = "sslin" -> {"ACCEPTING"} \cup Over
    [] OTHER -> {"NEW", "CONNECTING"} \cup Over
Phases(d) == \A i \in Elements(d) : d.st[i] \in StatesOf(d.kind[i])

\* An element is started when those below it are done.
Order(d) == d.kind[1] = "tcp" =>
  \A i, j \in Elements(d) : i < j /\ d.st[j] \in Started => d.st[i] \in Over

\* The TCP socket is given up by close(), of itself or of a socks4 element.
SocketsKept(d) == ~d.s[1] =>
  /\ d.stopped[1] /\ d.st[1] \in {"DISCONNECTED", "FAILED"}
  /\ Top(d) = 1 \/ (Top(d) = 2 /\ ~d.s[2])
Control(d) == Phases(d) /\ Order(d) /\ SocketsKept(d)

\* What there is to send, and what of it waits below the last element.
All(d, w) == (IF Socks(d) THEN << 0 >> ELSE <<>>) \o Numbers(1, w)
Below(d) == IF Top(d) = 3 THEN Holds(d, 2) ELSE <<>>
Begins(s, t) == \E r \in Bytes : t = s \o r
Due(d, w) == d.reset \/ d.tx \o (Below(d) \o Holds(d, Top(d))) = All(d, w)
Dead(d) ==
  /\ \A i \in Elements(d) : d.st[i] \in Over
  /\ d.st[Top(d)] # "CONNECTED"
  /\ (\E i \in Elements(d) : d.st[i] = "FAILED") \/ d.stopped[Top(d)]
Lower(d) ==
  /\ Top(d) > 1 => Holds(d, 1) = <<>>
  /\ Top(d) = 3 => Holds(d, 2) \in {<<>>, << 0 >>} /\ (d.st[3] \in Started => Holds(d, 2) = <<>>)
Asked(d) == Top(d) = 3 /\ d.st[2] \in Started => Holds(d, 2) = <<>>
OutInv(d, w) == Begins(d.tx, All(d, w)) /\ Lower(d) /\ Asked(d) /\ (Due(d, w) \/ Dead(d))

\* What has come: before the answer of the SOCKS server, after it, or the part
\* of it that expiresessions() finds.
Run(x, from) == x = Numbers(from, from + Len(x) - 1)
Answer(d, n, t) ==
  /\ t = <<>> /\ Run(d.inq[2], 1)
  /\ d.reset \/ d.stopped[2] \/ d.inq[2] \o d.rx = Numbers(1, n)
Quiet(d, n) == Top(d) = 3 =>
  /\ d.inq[3] = <<>> /\ d.st[3] \notin Started
  /\ d.st[1] \in {"NEW", "CONNECTING"} \/ d.st[2] = "CONNECTING" => d.stopped[3] \/ (d.st[3] = "NEW" /\ n <= AnsLen)
Early(d) == d.st[2] # "CONNECTED" /\ (d.st[1] \in {"NEW", "CONNECTING"} => d.inq[2] = <<>>)
Unheard(d, n, t) == Answer(d, n, t) /\ Len(d.inq[2]) < AnsLen /\ Quiet(d, n) /\ Early(d)
Heard(d, first, n, t) ==
  /\ first <= n + 1 /\ Run(t \o d.inq[Top(d)], first)
  /\ d.reset \/ d.stopped[Top(d)] \/ (t \o d.inq[Top(d)]) \o d.rx = Numbers(first, n)
SocksOver(d) == d.st[1] \in Over /\ d.st[2] \in Over
Partly(d, t) ==
  /\ Top(d) = 2 /\ d.stopped[2] /\ d.inq[2] = <<>> /\ d.st[2] # "CONNECTED"
  /\ Run(t, 1) /\ Len(t) < AnsLen
SocksIn(d, n, t) ==
  Unheard(d, n, t) \/ (SocksOver(d) /\ (Heard(d, AnsLen + 1, n, t) \/ Partly(d, t)))
InInv(d, n, t) ==
  d.kind[1] # "listen" => IF Socks(d) THEN SocksIn(d, n, t) ELSE Heard(d, 1, n, t)

Sound(d, w, n, t) == Control(d) /\ OutInv(d, w) /\ InInv(d, n, t)
-----------------------------------------------------------------------------
(* Elements that end *)

\* Elements end, and nothing else changes but that a queue may be stopped.
Downs(d, e) ==
  /\ e.kind = d.kind /\ e.reset = d.reset /\ SameIn(d, e) /\ SameOut(d, e)
  /\ \A i \in Elements(d) : d.stopped[i] => e.stopped[i]
  /\ \A i \in Elements(d) :
       \/ e.st[i] = d.st[i] \/ e.st[i] = "FAILED"
       \/ e.st[i] = "DISCONNECTED" /\ (d.st[i] # "FAILED" \/ e.stopped[Top(d)])
  /\ Top(d) = 3 /\ e.st[3] # d.st[3] =>
       \/ e.st[1] \notin {"NEW", "CONNECTING"} /\ e.st[2] # "CONNECTING"
       \/ d.st[3] \in Started \/ e.stopped[3]

\* The states stay what the kinds and the order of the elements allow.
LEMMA DownControl ==
  ASSUME NEW d, NEW e, IsConn(d), IsConn(e), Downs(d, e)
  PROVE  /\ Phases(d) => Phases(e)
         /\ Order(d) => Order(e)
         /\ e.s = d.s /\ SocketsKept(d) => SocketsKept(e)
<1>1. /\ e.kind = d.kind /\ Elements(e) = Elements(d) /\ Top(e) = Top(d)
      /\ Elements(d) = 1..Top(d) /\ Top(d) \in 1..3 /\ 1 \in Elements(d)
      /\ \A i \in Elements(d) : d.st[i] \in States /\ e.st[i] \in States
      /\ \A i \in Elements(d) : e.st[i] = d.st[i] \/ e.st[i] \in {"DISCONNECTED", "FAILED"}
      /\ \A i \in Elements(d) : d.stopped[i] => e.stopped[i]
  BY ShapeFacts DEF IsConn, Downs, Elements, Top
<1>2. ASSUME Phases(d) PROVE Phases(e)
  <2>1. \A k : {"DISCONNECTED", "FAILED"} \subseteq StatesOf(k)
    BY DEF StatesOf, Over
  <2>2. QED
    BY <1>1, <1>2, <2>1 DEF Phases
<1>3. ASSUME Order(d) PROVE Order(e)
  BY <1>1, <1>3 DEF Order, Started, Over
<1>4. ASSUME e.s = d.s, SocketsKept(d) PROVE SocketsKept(e)
  BY <1>1, <1>4 DEF SocketsKept
<1>5. QED
  BY <1>2, <1>3, <1>4

\* Nothing is sent.
LEMMA DownOut ==
  ASSUME NEW d, NEW e, IsConn(d), IsConn(e), Downs(d, e), NEW w
  PROVE  /\ OutInv(d, w) => OutInv(e, w)
         /\ Due(d, w) => Due(e, w)
<1>1. /\ e.kind = d.kind /\ Elements(e) = Elements(d) /\ Top(e) = Top(d)
      /\ Elements(d) = 1..Top(d) /\ Top(d) \in 1..3
      /\ \A i \in Elements(d) : d.st[i] \in States /\ e.st[i] \in States
      /\ e.tx = d.tx /\ e.reset = d.reset
  BY ShapeFacts DEF IsConn, Downs, Elements, Top, SameOut
<1>2. \A i : Holds(e, i) = Holds(d, i)
  BY DEF Downs, SameOut, Holds
<1>3. All(e, w) = All(d, w) /\ Below(e) = Below(d)
  BY <1>1, <1>2 DEF All, Socks, Below, Top
<1>4. Due(d, w) => Due(e, w)
  BY <1>1, <1>2, <1>3 DEF Due
<1>5. Dead(d) => Dead(e)
  BY <1>1 DEF Dead, Downs, Over
<1>6. Lower(d) => Lower(e)
  BY <1>1, <1>2 DEF Lower, Downs, Started
<1>7. Asked(d) => Asked(e)
  BY <1>1, <1>2 DEF Asked, Downs, Started
<1>8. QED
  BY <1>1, <1>3, <1>4, <1>5, <1>6, <1>7 DEF OutInv

\* Nothing is received.
LEMMA DownIn ==
  ASSUME NEW d, NEW e, IsConn(d), IsConn(e), Downs(d, e), NEW n, NEW t
  PROVE  InInv(d, n, t) => InInv(e, n, t)
<1>1. /\ e.kind = d.kind /\ Elements(e) = Elements(d) /\ Top(e) = Top(d)
      /\ Elements(d) = 1..Top(d) /\ Top(d) \in 1..3
      /\ e.inq = d.inq /\ e.rx = d.rx /\ e.reset = d.reset
      /\ \A i \in Elements(d) : d.stopped[i] => e.stopped[i]
  BY ShapeFacts DEF IsConn, Downs, Elements, Top, SameIn
<1>2. \A i \in Elements(d) : e.st[i] = d.st[i] \/ e.st[i] \in {"DISCONNECTED", "FAILED"}
  BY DEF Downs
<1>3. ASSUME NEW first, Heard(d, first, n, t) PROVE Heard(e, first, n, t)
  <2>1. Top(d) \in Elements(d) /\ e.inq[Top(e)] = d.inq[Top(d)]
    BY <1>1
  <2>2. d.stopped[Top(d)] => e.stopped[Top(e)]
    BY <1>1, <2>1
  <2>3. QED
    BY <1>1, <1>3, <2>1, <2>2 DEF Heard
<1>4. CASE d.kind[1] = "listen"
  BY <1>1, <1>4 DEF InInv
<1>5. CASE d.kind[1] # "listen" /\ ~Socks(d)
  BY <1>1, <1>3, <1>5 DEF InInv, Socks, Top
<1>6. CASE d.kind[1] # "listen" /\ Socks(d)
  <2>1. 2 \in Elements(d) /\ 1 \in Elements(d) /\ Socks(e)
    BY <1>1, <1>6 DEF Socks, Top
  <2>2. SocksOver(d) => SocksOver(e)
    BY <1>2, <2>1 DEF SocksOver, Over
  <2>3. Partly(d, t) => Partly(e, t)
    BY <1>1, <1>2, <2>1 DEF Partly
  <2>4. Answer(d, n, t) => Answer(e, n, t)
    BY <1>1, <2>1 DEF Answer
  <2>5. Early(d) => Early(e)
    BY <1>1, <1>2, <2>1 DEF Early
  <2>6. Quiet(d, n) => Quiet(e, n)
    BY <1>1, <1>2, <2>1 DEF Quiet, Started, Downs
  <2>7. SocksIn(d, n, t) => SocksIn(e, n, t)
    BY <1>1, <1>3, <2>2, <2>3, <2>4, <2>5, <2>6 DEF SocksIn, Unheard
  <2>8. QED
    BY <1>1, <1>6, <2>1, <2>7 DEF InInv
<1>7. QED
  BY <1>4, <1>5, <1>6
-----------------------------------------------------------------------------
(* Numbers in sequence *)

\* A run of numbers is a sequence of bytes of the expected length.
LEMMA NumbersSeq ==
  ASSUME NEW f \in Nat, NEW n \in Nat, f <= n + 1
  PROVE  /\ Numbers(f, n) \in Bytes /\ Len(Numbers(f, n)) = n + 1 - f
         /\ \A k \in 1..(n + 1 - f) : Numbers(f, n)[k] = f + k - 1
<1> DEFINE s == [k \in 1..(n - f + 1) |-> f + k - 1]
<1>1. s \in Seq(Nat) /\ Len(s) = n - f + 1 /\ \A k \in 1..(n - f + 1) : s[k] = f + k - 1
  <2>1. n - f + 1 \in Nat /\ \A k \in 1..(n - f + 1) : f + k - 1 \in Nat
    OBVIOUS
  <2>2. s \in [1..(n - f + 1) -> Nat]
    BY <2>1
  <2>3. QED
    BY <2>1, <2>2
<1>2. n - f + 1 = n + 1 - f
  OBVIOUS
<1>3. QED
  BY <1>1, <1>2 DEF Numbers, Bytes

\* The parts of a sequence of numbers, x and then y, are sequences of numbers.
Splits(x, y, f, n) ==
  /\ Run(x, f) /\ Len(x) <= n + 1 - f /\ Len(x) \in Nat
  /\ y = Numbers(f + Len(x), n)

\* What comes first in a run of numbers is one, and so is what follows it.
LEMMA NumbersSplit ==
  ASSUME NEW f \in Nat, NEW n \in Nat, f <= n + 1, NEW x \in Bytes, NEW y \in Bytes,
         x \o y = Numbers(f, n)
  PROVE  Splits(x, y, f, n)
<1> DEFINE s == Numbers(f, n)
           l == Len(x)
<1>1. /\ s \in Seq(Nat) /\ Len(s) = n + 1 - f
      /\ \A k \in 1..(n + 1 - f) : s[k] = f + k - 1
  BY NumbersSeq DEF Bytes
<1> HIDE DEF s
<1>2. /\ l \in Nat /\ Len(y) \in Nat /\ l + Len(y) = n + 1 - f
      /\ \A k \in 1..l : x[k] = s[k]
      /\ \A k \in 1..Len(y) : y[k] = s[l + k]
  <2>1. s = x \o y /\ x \in Seq(Nat) /\ y \in Seq(Nat) /\ Len(y) \in Nat /\ l \in Nat
    BY LenProperties DEF s, Bytes
  <2>2. /\ Len(s) = l + Len(y)
        /\ \A k \in 1..(l + Len(y)) : s[k] = IF k <= l THEN x[k] ELSE y[k - l]
    BY <2>1, ConcatProperties
  <2> HIDE DEF l
  <2>3. \A k \in 1..l : x[k] = s[k]
    BY <2>1, <2>2
  <2>4. ASSUME NEW k \in 1..Len(y) PROVE y[k] = s[l + k]
    <3> DEFINE g == l + k
    <3>1. g \in 1..(l + Len(y)) /\ ~(g <= l) /\ g - l = k
      BY <2>1
    <3> HIDE DEF g
    <3>2. s[g] = IF g <= l THEN x[g] ELSE y[g - l]
      BY <2>2, <3>1
    <3>3. s[g] = y[k]
      BY <3>1, <3>2
    <3>4. QED
      BY <3>3 DEF g
  <2>5. QED
    BY <1>1, <2>1, <2>2, <2>3, <2>4
<1> HIDE DEF l
<1>3. x = Numbers(f, f + l - 1)
  <2> DEFINE z == Numbers(f, f + l - 1)
  <2>1. CASE l = 0
    <3>1. x = <<>>
      BY <2>1, EmptySeq DEF Bytes, l
    <3>2. z = <<>>
      BY <2>1 DEF Numbers
    <3>3. QED
      BY <3>1, <3>2
  <2>2. CASE l > 0
    <3>1. f + l - 1 \in Nat /\ f <= f + l - 1 + 1
      BY <1>2, <2>2
    <3>2. z \in Seq(Nat) /\ Len(z) = l /\ \A k \in 1..l : z[k] = f + k - 1
      <4> DEFINE g == f + l - 1
      <4>1. g \in Nat /\ f <= g + 1 /\ g + 1 - f = l
        BY <1>2, <3>1
      <4> HIDE DEF g
      <4>2. Numbers(f, g) \in Bytes /\ Len(Numbers(f, g)) = l /\ \A k \in 1..l : Numbers(f, g)[k] = f + k - 1
        BY <4>1, NumbersSeq
      <4>3. QED
        BY <4>2 DEF g, Bytes
    <3> HIDE DEF z
    <3>3. \A k \in 1..l : x[k] = z[k]
      <4>1. ASSUME NEW k \in 1..l PROVE x[k] = z[k]
        <5>1. k \in 1..(n + 1 - f)
          BY <1>2, <4>1
        <5>2. x[k] = s[k] /\ s[k] = f + k - 1 /\ z[k] = f + k - 1
          BY <1>1, <1>2, <3>2, <4>1, <5>1
        <5>3. QED
          BY <5>2
      <4>2. QED
        BY <4>1
    <3>4. x = z
      BY <1>2, <3>2, <3>3, SeqEqual DEF Bytes, l
    <3>5. QED
      BY <3>4 DEF z
  <2>3. QED
    BY <1>2, <2>1, <2>2
<1>4. y = Numbers(f + l, n)
  <2> DEFINE z == Numbers(f + l, n)
  <2>1. f + l \in Nat /\ f + l <= n + 1
    BY <1>2
  <2>2. z \in Seq(Nat) /\ Len(z) = n + 1 - (f + l) /\ \A k \in 1..(n + 1 - (f + l)) : z[k] = f + l + k - 1
    BY <2>1, NumbersSeq DEF Bytes
  <2> HIDE DEF z
  <2>3. Len(z) = Len(y) /\ \A k \in 1..Len(y) : y[k] = z[k]
    <3>1. Len(z) = Len(y) /\ Len(z) = n + 1 - (f + l)
      BY <1>2, <2>2
    <3>2. ASSUME NEW k \in 1..Len(y) PROVE y[k] = z[k]
      <4>1. l + k \in 1..(n + 1 - f) /\ k \in 1..(n + 1 - (f + l))
        BY <1>2
      <4>2. y[k] = s[l + k] /\ s[l + k] = f + (l + k) - 1 /\ z[k] = f + l + k - 1
        BY <1>1, <1>2, <2>2, <4>1
      <4>3. QED
        BY <1>2, <4>2
    <3>3. QED
      BY <3>1, <3>2
  <2>4. y = z
    BY <2>2, <2>3, SeqEqual DEF Bytes
  <2>5. QED
    BY <2>4 DEF z
<1>5. QED
  BY <1>2, <1>3, <1>4 DEF Splits, Run, l

\* One sequence of numbers goes on with the next.
LEMMA NumbersJoin ==
  ASSUME NEW f \in Nat, NEW n \in Nat, f <= n + 1, NEW m \in Nat
  PROVE  /\ Numbers(f, n) \o [k \in 1..m |-> n + k] = Numbers(f, n + m)
         /\ [k \in 1..m |-> n + k] \in Bytes
<1> DEFINE s == Numbers(f, n)
           x == [k \in 1..m |-> n + k]
           z == Numbers(f, n + m)
<1>1. /\ s \in Seq(Nat) /\ Len(s) = n + 1 - f
      /\ \A k \in 1..(n + 1 - f) : s[k] = f + k - 1
  BY NumbersSeq DEF Bytes
<1>2. x \in Seq(Nat) /\ Len(x) = m /\ \A k \in 1..m : x[k] = n + k
  OBVIOUS
<1>3. /\ z \in Seq(Nat) /\ Len(z) = n + m + 1 - f
      /\ \A k \in 1..(n + m + 1 - f) : z[k] = f + k - 1
  <2> DEFINE g == n + m
  <2>1. g \in Nat /\ f <= g + 1
    OBVIOUS
  <2> HIDE DEF g
  <2>2. Numbers(f, g) \in Bytes /\ Len(Numbers(f, g)) = g + 1 - f
        /\ \A k \in 1..(g + 1 - f) : Numbers(f, g)[k] = f + k - 1
    BY <2>1, NumbersSeq
  <2>3. QED
    BY <2>2 DEF g, Bytes
<1> HIDE DEF s, x, z
<1>4. /\ s \o x \in Seq(Nat) /\ Len(s \o x) = Len(s) + Len(x)
      /\ \A k \in 1..(Len(s) + Len(x)) : (s \o x)[k] = IF k <= Len(s) THEN s[k] ELSE x[k - Len(s)]
  BY <1>1, <1>2, ConcatProperties
<1>5. Len(s \o x) = Len(z) /\ Len(z) = n + m + 1 - f
  BY <1>1, <1>2, <1>3, <1>4
<1>7. ASSUME NEW k \in 1..(n + m + 1 - f) PROVE (s \o x)[k] = z[k]
  <2>1. (s \o x)[k] = IF k <= n + 1 - f THEN s[k] ELSE x[k - (n + 1 - f)]
    BY <1>1, <1>2, <1>4
  <2>2. CASE k <= n + 1 - f
    BY <1>1, <1>3, <2>1, <2>2
  <2>3. CASE ~(k <= n + 1 - f)
    <3>1. k - (n + 1 - f) \in 1..m
      BY <2>3
    <3>2. x[k - (n + 1 - f)] = n + (k - (n + 1 - f))
      BY <1>2, <3>1
    <3>3. QED
      BY <1>3, <2>1, <2>3, <3>2
  <2>4. QED
    BY <2>2, <2>3
<1>6. s \o x = z
  BY <1>3, <1>4, <1>5, <1>7, SeqEqual
<1>8. QED
  BY <1>2, <1>6 DEF s, x, z, Bytes

\* The request of a socks4 element is the number 0.
LEMMA NumbersFromZero ==
  ASSUME NEW n \in Nat
  PROVE  << 0 >> \o Numbers(1, n) = Numbers(0, n)
<1>1. Numbers(0, 0) = << 0 >>
  BY DEF Numbers
<1> DEFINE x == [k \in 1..n |-> 0 + k]
<1>2. x = Numbers(1, n)
  BY DEF Numbers
<1>3. Numbers(0, 0) \o x = Numbers(0, n)
  <2>1. 0 \in Nat /\ 0 <= 0 + 1 /\ 0 + n = n
    OBVIOUS
  <2>2. Numbers(0, 0) \o x = Numbers(0, 0 + n)
    BY <2>1, NumbersJoin
  <2>3. QED
    BY <2>1, <2>2
<1> HIDE DEF x
<1>4. QED
  BY <1>1, <1>2, <1>3

\* Sequences of bytes, however they are joined.
LEMMA JoinedSo ==
  ASSUME NEW x \in Bytes, NEW y \in Bytes, NEW z \in Bytes
  PROVE  Regroups(x, y, z)
BY Regroup DEF Bytes

\* The same, with the two sides written out.
LEMMA Joined ==
  ASSUME NEW x \in Bytes, NEW y \in Bytes, NEW z \in Bytes
  PROVE  (x \o y) \o z = x \o (y \o z)
BY JoinedSo DEF Regroups

\* Two sequences of bytes joined are one, as long as both.
LEMMA JoinedBytes ==
  ASSUME NEW x \in Bytes, NEW y \in Bytes
  PROVE  x \o y \in Bytes /\ Len(x \o y) = Len(x) + Len(y) /\ Len(x) \in Nat /\ Len(y) \in Nat
BY ConcatProperties, LenProperties DEF Bytes

\* Its length alone.
LEMMA JoinedLength ==
  ASSUME NEW x \in Bytes, NEW y \in Bytes
  PROVE  Len(x \o y) = Len(x) + Len(y) /\ Len(x) \in Nat /\ Len(y) \in Nat
BY JoinedBytes

\* The empty sequence changes nothing.
LEMMA JoinedEmpty ==
  ASSUME NEW x \in Bytes
  PROVE  <<>> \o x = x /\ x \o <<>> = x /\ <<>> \in Bytes
BY ConcatEmptySeq DEF Bytes

\* A sequence of bytes is what comes before a place in it and what comes after.
LEMMA Parts ==
  ASSUME NEW q \in Bytes, NEW k \in 0..Len(q)
  PROVE  LET a == SubSeq(q, 1, k)
             b == SubSeq(q, k + 1, Len(q)) IN
         /\ a \in Bytes /\ b \in Bytes /\ q = a \o b /\ Len(a) = k
         /\ Len(a) + Len(b) = Len(q) /\ Len(a) \in Nat /\ Len(b) \in Nat
<1>1. PICK h \in Bytes, g \in Bytes : IsCut(q, k, h, g)
  BY Cut DEF Bytes
<1>2. h = SubSeq(q, 1, k) /\ g = SubSeq(q, k + 1, Len(q)) /\ q = h \o g /\ Len(h) = k
  BY <1>1 DEF IsCut
<1>3. Len(h) + Len(g) = Len(q) /\ Len(h) \in Nat /\ Len(g) \in Nat
  BY <1>2, JoinedLength
<1>4. QED
  BY <1>2, <1>3

\* What a sequence of numbers begins with is one, and a part of it.
LEMMA RunBegins ==
  ASSUME NEW x \in Bytes, NEW y \in Bytes, NEW f \in Nat, f >= 1, Run(x \o y, f)
  PROVE  Run(x, f)
<1> DEFINE n == f + Len(x \o y) - 1
<1>1. Len(x \o y) \in Nat
  BY JoinedBytes, LenProperties DEF Bytes
<1>2. n \in Nat /\ f <= n + 1
  BY <1>1
<1>3. x \o y = Numbers(f, n)
  BY DEF Run
<1> HIDE DEF n
<1>4. QED
  BY <1>2, <1>3, NumbersSplit DEF Splits

\* The first Len(x) bytes of x and y are x.
LEMMA SubSeqOfConcat ==
  ASSUME NEW x \in Bytes, NEW y \in Bytes
  PROVE  x = SubSeq(x \o y, 1, Len(x))
<1> DEFINE s == x \o y
           l == Len(x)
           a == SubSeq(s, 1, l)
<1>1. s \in Seq(Nat) /\ Len(s) = l + Len(y) /\ l \in Nat /\ Len(y) \in Nat
  BY JoinedBytes DEF Bytes
<1>2. \A k \in 1..l : s[k] = x[k]
  <2>1. \A k \in 1..(Len(x) + Len(y)) : (x \o y)[k] = IF k <= Len(x) THEN x[k] ELSE y[k - Len(x)]
    BY ConcatProperties DEF Bytes
  <2>2. QED
    BY <1>1, <2>1
<1> HIDE DEF s
<1>3. a \in Seq(Nat) /\ Len(a) = l /\ \A k \in 1..l : a[k] = s[k]
  <2>1. \A k \in 1..l : s[k] \in Nat
    BY <1>1
  <2> HIDE DEF l
  <2>2. QED
    BY <1>1, <2>1, SubSeqProperties
<1> HIDE DEF a
<1>4. x = a
  BY <1>2, <1>3, SeqEqual DEF Bytes
<1>5. QED
  BY <1>4 DEF a, s
-----------------------------------------------------------------------------
(* What does not change what *)

\* Control is about states, sockets and stopped queues only.
LEMMA SameControl ==
  ASSUME NEW d, NEW e, e.kind = d.kind, e.st = d.st, e.s = d.s, e.stopped = d.stopped
  PROVE  Control(d) => Control(e)
BY DEF Control, Phases, Order, SocketsKept, Elements, Top

\* OutInv is about what is queued and sent, and about which elements are up.
LEMMA SameOutgoing ==
  ASSUME NEW d, NEW e, e.kind = d.kind, e.st = d.st, e.stopped = d.stopped, e.reset = d.reset,
         SameOut(d, e), NEW w
  PROVE  (OutInv(d, w) => OutInv(e, w)) /\ (Due(d, w) => Due(e, w)) /\ (Lower(d) => Lower(e))
         /\ All(e, w) = All(d, w)
<1>1. Top(e) = Top(d) /\ Elements(e) = Elements(d) /\ All(e, w) = All(d, w)
  BY DEF Top, Elements, All, Socks
<1>2. \A i : Holds(e, i) = Holds(d, i)
  BY DEF SameOut, Holds
<1>3. Due(d, w) => Due(e, w)
  BY <1>1, <1>2 DEF Due, Below, SameOut
<1>4. (Lower(d) => Lower(e)) /\ (Asked(d) => Asked(e)) /\ (Dead(d) => Dead(e))
  BY <1>1, <1>2 DEF Lower, Asked, Dead
<1>5. QED
  BY <1>1, <1>3, <1>4 DEF OutInv, SameOut

\* InInv is about what has come, and about which elements are up.
LEMMA SameIncoming ==
  ASSUME NEW d, NEW e, e.kind = d.kind, e.st = d.st, e.stopped = d.stopped, e.reset = d.reset,
         SameIn(d, e), NEW n, NEW t
  PROVE  InInv(d, n, t) => InInv(e, n, t)
<1>1. Top(e) = Top(d) /\ (Socks(d) <=> Socks(e)) /\ e.inq = d.inq /\ e.rx = d.rx
  BY DEF Top, Socks, SameIn
<1>2. \A f : Heard(d, f, n, t) => Heard(e, f, n, t)
  BY <1>1 DEF Heard
<1>3. SocksIn(d, n, t) => SocksIn(e, n, t)
  <2>1. (Partly(d, t) => Partly(e, t)) /\ (Unheard(d, n, t) => Unheard(e, n, t))
    BY <1>1 DEF Partly, Unheard, Answer, Quiet, Early
  <2>2. SocksOver(d) => SocksOver(e)
    BY DEF SocksOver
  <2>3. QED
    BY <1>2, <2>1, <2>2 DEF SocksIn
<1>4. QED
  BY <1>1, <1>2, <1>3 DEF InInv
-----------------------------------------------------------------------------
(* Elements that fail *)

\* Element i has failed, and those above it, not those below.
Failed(d, e, i) ==
  /\ SameRest(d, e) /\ SameIn(d, e) /\ SameOut(d, e) /\ e.st[i] = "FAILED"
  /\ \A j \in Elements(d) : e.st[j] = d.st[j] \/ e.st[j] = "FAILED"
  /\ \A j \in Elements(d) : j < i => e.st[j] = d.st[j]
  /\ Top(d) = 3 => \A j \in Elements(d) : j >= i => e.st[j] = "FAILED"

\* fail() marks an element, and all that follows it, FAILED.
LEMMA FailKeeps ==
  ASSUME NEW d, IsConn(d), NEW i \in Elements(d)
  PROVE  LET e == fail(d, i) IN
         IsConn(e) /\ Failed(d, e, i) /\ e.thrown = d.thrown /\ e.shut = d.shut
<1> DEFINE s == [j \in Elements(d) |->
             IF j = i \/ (j > i /\ \A k \in i..(j - 1) : HasNext(d, k)) THEN "FAILED" ELSE d.st[j]]
           e == fail(d, i)
<1>r. IsRecord(d)
  BY DEF IsConn
<1>1. e = [d EXCEPT !.st = s]
  BY DEF fail
<1>2. /\ s \in [Elements(d) -> States] /\ s[i] = "FAILED"
      /\ \A j \in Elements(d) : s[j] = d.st[j] \/ s[j] = "FAILED"
      /\ \A j \in Elements(d) : j < i => s[j] = d.st[j]
  <2>1. Elements(d) \subseteq Nat
    BY ShapeFacts DEF IsConn
  <2>2. QED
    BY <2>1 DEF IsConn, States
<1>3. Top(d) = 3 => \A j \in Elements(d) : j >= i => s[j] = "FAILED"
  <2> SUFFICES ASSUME Top(d) = 3, NEW j \in Elements(d), j >= i PROVE s[j] = "FAILED"
    OBVIOUS
  <2>1. Elements(d) = 1..3 /\ d.kind[2] = "socks4" /\ d.kind[3] = "ssl"
    BY ShapeFacts DEF IsConn, Top
  <2>2. \A k \in 1..2 : HasNext(d, k)
    <3>1. HasNext(d, 1)
      BY <2>1 DEF HasNext, Top
    <3>2. HasNext(d, 2)
      BY <2>1 DEF HasNext, Top
    <3>3. QED
      BY <3>1, <3>2
  <2>3. QED
    BY <2>1, <2>2
<1> HIDE DEF s, e
<1>4. /\ IsRecord(e) /\ e.st = s /\ e.thrown = d.thrown /\ e.shut = d.shut
  BY <1>1, <1>r DEF IsRecord
<1>5. SameRest(d, e) /\ SameIn(d, e) /\ SameOut(d, e)
  BY <1>1, <1>r DEF IsRecord, SameRest, SameIn, SameOut
<1>6. IsConn(e)
  BY <1>2, <1>4, <1>5 DEF IsConn, SameRest, SameIn, SameOut, Elements
<1>7. Failed(d, e, i)
  BY <1>2, <1>3, <1>4, <1>5 DEF Failed
<1>8. QED
  BY <1>4, <1>6, <1>7 DEF e

\* An element that fails ends.
LEMMA FailedDowns ==
  ASSUME NEW d, IsConn(d), NEW e, NEW i \in Elements(d), Failed(d, e, i),
         i = 3 => d.st[3] \in Started, Top(d) = 3 /\ i = 2 => d.st[1] \in Over
  PROVE  Downs(d, e)
<1>1. Elements(d) = 1..Top(d) /\ Top(d) \in 1..3
  BY ShapeFacts DEF IsConn, Top
<1>2. Top(d) = 3 /\ e.st[3] # d.st[3] =>
        (e.st[1] \notin {"NEW", "CONNECTING"} /\ e.st[2] # "CONNECTING") \/ d.st[3] \in Started
  BY <1>1 DEF Failed, Over
<1>3. QED
  BY <1>2 DEF Failed, Downs, SameRest

\* An element that drops its connection ends.
LEMMA DropDowns ==
  ASSUME NEW d, IsConn(d), NEW e, NEW i \in Elements(d), Drops(d, e, i), d.st[i] # "FAILED",
         SameRest(d, e), SameIn(d, e), SameOut(d, e), i = 3 => d.st[3] \in Started
  PROVE  Downs(d, e)
<1>1. DOMAIN d.st = Elements(d) /\ Elements(d) \subseteq Nat
  BY ShapeFacts DEF IsConn
<1>2. e.st[i] = "DISCONNECTED" /\ \A j \in Elements(d) : j # i => e.st[j] = d.st[j]
  BY <1>1 DEF Drops
<1>3. Top(d) = 3 => 3 \in Elements(d)
  BY ShapeFacts DEF IsConn, Top
<1>4. Top(d) = 3 /\ e.st[3] # d.st[3] => d.st[3] \in Started
  BY <1>2, <1>3
<1>5. QED
  BY <1>2, <1>4 DEF Downs, SameRest

\* The exception that an element threw has been caught.
caught(e, i) == [fail(e, i) EXCEPT !.thrown = FALSE]

\* An exception that mayread() or maywrite() catches ends in fail().
LEMMA CaughtKeeps ==
  ASSUME NEW d, IsConn(d), NEW i \in Elements(d)
  PROVE  LET e == caught(d, i) IN IsConn(e) /\ Failed(d, e, i) /\ ~e.thrown
<1> DEFINE m == fail(d, i)
           e == caught(d, i)
<1>1. IsConn(m) /\ Failed(d, m, i)
  BY FailKeeps
<1> HIDE DEF m
<1>r. IsRecord(m)
  BY <1>1 DEF IsConn
<1>2. e = [m EXCEPT !.thrown = FALSE]
  BY DEF caught, m
<1> HIDE DEF e
<1>3. IsRecord(e) /\ e.thrown = FALSE /\ e.st = m.st /\ e.shut = m.shut
  BY <1>2, <1>r DEF IsRecord
<1>4. SameRest(m, e) /\ SameIn(m, e) /\ SameOut(m, e)
  BY <1>2, <1>r DEF IsRecord, SameRest, SameIn, SameOut
<1>5. IsConn(e)
  BY <1>1, <1>3, <1>4 DEF IsConn, SameRest, SameIn, SameOut, Elements
<1>6. Failed(d, e, i)
  BY <1>1, <1>3, <1>4 DEF Failed, SameRest, SameIn, SameOut
<1>7. QED
  BY <1>3, <1>5, <1>6 DEF e

\* The invariant survives an element that ends.
LEMMA DownSound ==
  ASSUME NEW d, NEW e, IsConn(d), IsConn(e), Downs(d, e), e.s = d.s, NEW w, NEW n, NEW t, Sound(d, w, n, t)
  PROVE  Sound(e, w, n, t) /\ (Due(d, w) => Due(e, w))
<1>1. Control(d) /\ OutInv(d, w) /\ InInv(d, n, t)
  BY DEF Sound
<1>2. Control(e)
  BY <1>1, DownControl DEF Control
<1>3. OutInv(e, w) /\ (Due(d, w) => Due(e, w))
  BY <1>1, DownOut
<1>4. InInv(e, n, t)
  BY <1>1, DownIn
<1>5. QED
  BY <1>2, <1>3, <1>4 DEF Sound
-----------------------------------------------------------------------------
(* Reading *)

\* What has been read does not matter to the states and to what is sent.
LEMMA ReadElsewhere ==
  ASSUME NEW d, IsConn(d), NEW e, IsConn(e), NEW i \in Elements(d), SockRead(d, e, i),
         d.st[i] # "FAILED", i = 3 => d.st[3] \in Started, NEW w
  PROVE  /\ Control(d) => Control(e)
         /\ OutInv(d, w) => OutInv(e, w)
         /\ Lower(d) /\ Due(d, w) => Lower(e) /\ Due(e, w)
         /\ All(e, w) = All(d, w)
<1>1. SameRest(d, e) /\ SameOut(d, e) /\ All(e, w) = All(d, w)
  BY DEF SockRead, SameRest, All, Socks, Top
<1>2. CASE Drops(d, e, i) /\ SameIn(d, e)
  <2>1. Downs(d, e)
    BY <1>1, <1>2, DropDowns
  <2>2. Control(d) => Control(e)
    BY <1>1, <2>1, DownControl DEF Control, SameRest
  <2>3. (OutInv(d, w) => OutInv(e, w)) /\ (Due(d, w) => Due(e, w))
    BY <2>1, DownOut
  <2>4. Lower(d) => Lower(e)
    <3>1. Top(e) = Top(d) /\ \A j : Holds(e, j) = Holds(d, j)
      BY <1>1 DEF SameRest, SameOut, Top, Holds
    <3>2. Top(d) = 3 /\ e.st[3] \in Started => d.st[3] \in Started
      <4>1. Top(d) = 3 => 3 \in Elements(d)
        BY ShapeFacts DEF IsConn, Top
      <4>2. QED
        BY <1>2, <4>1 DEF Drops, IsConn, Started
    <3>3. QED
      BY <3>1, <3>2 DEF Lower
  <2>5. QED
    BY <1>1, <2>2, <2>3, <2>4
<1>3. CASE ~(Drops(d, e, i) /\ SameIn(d, e))
  <2>1. e.st = d.st
    BY <1>3 DEF SockRead
  <2>2. Control(d) => Control(e)
    BY <1>1, <2>1, SameControl DEF SameRest
  <2>3. (OutInv(d, w) => OutInv(e, w)) /\ (Due(d, w) => Due(e, w)) /\ (Lower(d) => Lower(e))
    BY <1>1, <2>1, SameOutgoing DEF SameRest
  <2>4. QED
    BY <1>1, <2>2, <2>3
<1>4. QED
  BY <1>2, <1>3

\* The bytes read follow those that have been.
LEMMA ReadRun ==
  ASSUME NEW x \in Bytes, NEW a \in Bytes, NEW y \in Bytes, NEW f \in Nat, NEW n \in Nat, f <= n + 1,
         x \o (a \o y) = Numbers(f, n)
  PROVE  Run(x \o a, f) /\ (x \o a) \o y = Numbers(f, n) /\ x \o a \in Bytes
<1>0. (x \o a) \o y = x \o (a \o y)
  BY Joined
<1>1. (x \o a) \o y = Numbers(f, n) /\ x \o a \in Bytes
  BY <1>0, JoinedBytes
<1> DEFINE z == x \o a
<1>2. z \in Bytes /\ z \o y = Numbers(f, n)
  BY <1>1
<1> HIDE DEF z
<1>3. Run(z, f)
  BY <1>2, NumbersSplit DEF Splits
<1>4. QED
  BY <1>1, <1>3 DEF z

\* ev_sockread() moves bytes from the wire to the end of the queue: the
\* order of what has come is kept.
LEMMA ReadHeard ==
  ASSUME NEW d, IsConn(d), NEW e, IsConn(e), NEW i \in Elements(d), i = Top(d), SockRead(d, e, i),
         NEW f \in Nat, NEW n \in Nat, NEW t \in Bytes, Heard(d, f, n, t)
  PROVE  Heard(e, f, n, t)
<1>1. SameRest(d, e) /\ Top(e) = Top(d) /\ d.rx \in Bytes /\ d.inq[i] \in Bytes /\ e.rx \in Bytes
  BY DEF SockRead, SameRest, Top, IsConn
<1>2. CASE e.inq = d.inq /\ (e.rx = d.rx \/ d.stopped[i])
  BY <1>1, <1>2 DEF Heard, SameRest
<1>3. CASE ~d.stopped[i] /\ ~d.reset /\ \E a \in Bytes : d.rx = a \o e.rx /\ e.inq = [d.inq EXCEPT ![i] = @ \o a]
  <2>1. PICK a \in Bytes : d.rx = a \o e.rx /\ e.inq = [d.inq EXCEPT ![i] = @ \o a]
    BY <1>3
  <2> DEFINE q == d.inq[i]
             x == t \o q
             y == e.rx
  <2>2. e.inq[i] = q \o a
    BY <2>1 DEF IsConn
  <2>3. x \o (a \o y) = Numbers(f, n) /\ f <= n + 1
    BY <1>3, <2>1 DEF Heard
  <2>8. q \in Bytes /\ y \in Bytes
    BY <1>1
  <2> HIDE DEF q, y
  <2>9. (t \o q) \o a = t \o (q \o a) /\ t \o q \in Bytes
    <3>1. (t \o q) \o a = t \o (q \o a)
      BY <2>8, Joined
    <3>2. t \o q \in Bytes
      BY <2>8, JoinedBytes
    <3>3. QED
      BY <3>1, <3>2
  <2>4. x \in Bytes /\ y \in Bytes /\ q \in Bytes /\ t \o (q \o a) = x \o a
    BY <2>8, <2>9
  <2> HIDE DEF x
  <2>5. Run(x \o a, f) /\ (x \o a) \o y = Numbers(f, n) /\ x \o a \in Bytes
    BY <2>3, <2>4, ReadRun
  <2>6. t \o e.inq[Top(e)] = x \o a
    BY <1>1, <2>2, <2>4
  <2>7. QED
    BY <2>3, <2>5, <2>6 DEF Heard, y
<1>4. QED
  <2>1. \/ Drops(d, e, i) /\ SameIn(d, e)
        \/ e.inq = d.inq /\ (d.stopped[i] \/ e.rx = d.rx)
        \/ ~d.stopped[i] /\ ~d.reset /\ \E a \in Bytes : d.rx = a \o e.rx /\ e.inq = [d.inq EXCEPT ![i] = @ \o a]
    BY DEF SockRead
  <2>2. QED
    BY <1>2, <1>3, <2>1 DEF SameIn

\* The answer of the SOCKS server is there, and perhaps more.
Long(d, n, t) ==
  /\ t = <<>> /\ Run(d.inq[2], 1) /\ d.inq[2] \o d.rx = Numbers(1, n)
  /\ Len(d.inq[2]) >= AnsLen /\ d.st[2] = "CONNECTING" /\ Quiet(d, n)
  /\ ~d.thrown /\ ~d.stopped[2] /\ ~d.reset /\ ~d.shut

\* While the answer of the SOCKS server is awaited, reading makes it longer.
LEMMA ReadAnswer ==
  ASSUME NEW d, IsConn(d), ~d.thrown, NEW e, IsConn(e), SockRead(d, e, 2), Socks(d),
         d.st[1] \in Over, d.st[2] = "CONNECTING", NEW n \in Nat, NEW t, Unheard(d, n, t)
  PROVE  Unheard(e, n, t) \/ Long(e, n, t)
<1> DEFINE i == 2
<1>1. /\ SameRest(d, e) /\ Top(e) = Top(d) /\ d.rx \in Bytes /\ d.inq[2] \in Bytes /\ e.rx \in Bytes
      /\ 2 \in Elements(d) /\ DOMAIN d.inq = Elements(d) /\ DOMAIN d.st = Elements(d)
      /\ 1 \in Elements(d) /\ (Top(d) = 3 => 3 \in Elements(d))
  BY ShapeFacts DEF SockRead, SameRest, Top, IsConn, Socks
<1>2. CASE e.st = d.st /\ e.inq = d.inq /\ (d.stopped[2] \/ e.rx = d.rx)
  BY <1>1, <1>2 DEF Unheard, Answer, Quiet, Early, SameRest
<1>3. CASE Drops(d, e, 2) /\ SameIn(d, e)
  <2>1. e.st[2] = "DISCONNECTED" /\ e.st[1] = d.st[1] /\ (Top(d) = 3 => e.st[3] = d.st[3])
    BY <1>1, <1>3 DEF Drops
  <2>2. QED
    BY <1>1, <1>3, <2>1 DEF Unheard, Answer, Quiet, Early, SameRest, SameIn, Over
<1>4. CASE /\ e.st = d.st /\ e.thrown = d.thrown /\ ~d.stopped[2] /\ ~d.reset
           /\ \E a \in Bytes : d.rx = a \o e.rx /\ e.inq = [d.inq EXCEPT ![2] = @ \o a] /\ (e.shut => a = <<>>)
  <2>1. PICK a \in Bytes : d.rx = a \o e.rx /\ e.inq = [d.inq EXCEPT ![2] = @ \o a] /\ (e.shut => a = <<>>)
    BY <1>4
  <2> DEFINE x == d.inq[2]
             y == e.rx
  <2>2. /\ x \in Bytes /\ y \in Bytes /\ x \o (a \o y) = Numbers(1, n) /\ Len(x) < AnsLen
    BY <1>1, <1>4, <2>1 DEF Unheard, Answer
  <2>3. e.inq[2] = x \o a /\ (Top(d) = 3 => e.inq[3] = d.inq[3])
    BY <1>1, <2>1
  <2> HIDE DEF x, y
  <2>4. Run(x \o a, 1) /\ (x \o a) \o y = Numbers(1, n) /\ x \o a \in Bytes
    <3>1. 1 \in Nat /\ 1 <= n + 1
      OBVIOUS
    <3>2. QED
      BY <2>2, <3>1, ReadRun
  <2>5. Quiet(e, n) /\ Early(e) /\ t = <<>>
    BY <1>1, <1>4, <2>3 DEF Unheard, Answer, Quiet, Early, SameRest, Over
  <2>6. Answer(e, n, t)
    BY <2>3, <2>4, <2>5 DEF Answer, y
  <2>7. CASE Len(x \o a) < AnsLen
    BY <2>3, <2>5, <2>6, <2>7 DEF Unheard
  <2>8. CASE ~(Len(x \o a) < AnsLen)
    <3>1. Len(x \o a) \in Nat /\ AnsLen \in Nat
      BY <2>4, SizeAssumption, LenProperties DEF Bytes
    <3>2. a # <<>>
      BY <2>2, <2>8, JoinedEmpty
    <3>3. ~e.shut
      BY <2>1, <3>2
    <3>4. Run(e.inq[2], 1) /\ e.inq[2] \o e.rx = Numbers(1, n) /\ Len(e.inq[2]) >= AnsLen
      BY <2>3, <2>4, <2>8, <3>1 DEF y
    <3>5. e.st[2] = "CONNECTING" /\ ~e.thrown /\ ~e.stopped[2] /\ ~e.reset
      BY <1>1, <1>4 DEF SameRest
    <3>6. QED
      BY <2>5, <3>3, <3>4, <3>5 DEF Long
  <2>9. QED
    BY <2>7, <2>8
<1>5. QED
  <2>1. \/ Drops(d, e, 2) /\ SameIn(d, e)
        \/ e.st = d.st /\ e.inq = d.inq /\ (d.stopped[2] \/ e.rx = d.rx)
        \/ /\ e.st = d.st /\ e.thrown = d.thrown /\ ~d.stopped[2] /\ ~d.reset
           /\ \E a \in Bytes : d.rx = a \o e.rx /\ e.inq = [d.inq EXCEPT ![2] = @ \o a] /\ (e.shut => a = <<>>)
    BY DEF SockRead
  <2>2. QED
    BY <1>2, <1>3, <1>4, <2>1
-----------------------------------------------------------------------------
(* Writing *)

\* What is sent does not matter to the states and to what has come.
LEMMA WriteElsewhere ==
  ASSUME NEW d, IsConn(d), NEW e, IsConn(e), NEW i \in Elements(d), SockWrite(d, e, i),
         d.st[i] # "FAILED", i = 3 => d.st[3] \in Started, NEW n, NEW t
  PROVE  /\ Control(d) => Control(e)
         /\ InInv(d, n, t) => InInv(e, n, t)
<1>1. SameRest(d, e) /\ SameIn(d, e)
  BY DEF SockWrite
<1>2. CASE Drops(d, e, i) /\ SameOut(d, e)
  <2>1. Downs(d, e)
    BY <1>1, <1>2, DropDowns
  <2>2. QED
    BY <1>1, <2>1, DownControl, DownIn DEF Control, SameRest
<1>3. CASE ~(Drops(d, e, i) /\ SameOut(d, e))
  <2>1. e.st = d.st
    BY <1>3 DEF SockWrite
  <2>2. Control(d) => Control(e)
    BY <1>1, <2>1, SameControl DEF SameRest
  <2>3. InInv(d, n, t) => InInv(e, n, t)
    BY <1>1, <2>1, SameIncoming DEF SameRest
  <2>4. QED
    BY <2>2, <2>3
<1>4. QED
  BY <1>2, <1>3

\* The answer of the SOCKS server does not move.
LEMMA WriteAnswer ==
  ASSUME NEW d, IsConn(d), ~d.thrown, NEW e, IsConn(e), SockWrite(d, e, 2), Socks(d),
         d.st[1] \in Over, NEW n, NEW t
  PROVE  /\ Unheard(d, n, t) => Unheard(e, n, t)
         /\ Long(d, n, t) => Long(e, n, t)
<1>1. /\ SameRest(d, e) /\ SameIn(d, e) /\ Top(e) = Top(d) /\ 2 \in Elements(d) /\ 1 \in Elements(d)
      /\ DOMAIN d.st = Elements(d) /\ (Top(d) = 3 => 3 \in Elements(d)) /\ e.shut = d.shut
  BY ShapeFacts DEF SockWrite, SameRest, Top, IsConn, Socks
<1>2. e.st = d.st \/ (Drops(d, e, 2) /\ d.shut)
  BY DEF SockWrite
<1>3. ASSUME Unheard(d, n, t) PROVE Unheard(e, n, t)
  <2>1. CASE e.st = d.st
    BY <1>1, <1>3, <2>1 DEF Unheard, Answer, Quiet, Early, SameRest, SameIn
  <2>2. CASE Drops(d, e, 2)
    <3>1. e.st[2] = "DISCONNECTED" /\ e.st[1] = d.st[1] /\ (Top(d) = 3 => e.st[3] = d.st[3])
      BY <1>1, <2>2 DEF Drops
    <3>2. QED
      BY <1>1, <1>3, <3>1 DEF Unheard, Answer, Quiet, Early, SameRest, SameIn, Over
  <2>3. QED
    BY <1>2, <2>1, <2>2
<1>4. ASSUME Long(d, n, t) PROVE Long(e, n, t)
  <2>1. ~ssl(d, 2)
    BY DEF Socks, ssl
  <2>2. e.st = d.st /\ ~d.stopped[2] /\ ~d.reset /\ ~d.thrown /\ ~d.shut
    BY <1>2, <1>4 DEF Long
  <2>3. ~e.thrown
    BY <2>1, <2>2 DEF SockWrite
  <2>4. QED
    BY <1>1, <1>4, <2>2, <2>3 DEF Long, Quiet, SameRest, SameIn
<1>5. QED
  BY <1>3, <1>4

\* The byte of a request goes out at once.
LEMMA OneByte ==
  ASSUME NEW a \in Bytes, NEW b \in Bytes, a \o b = << 0 >>, a # <<>>
  PROVE  b = <<>>
<1>1. Len(a) + Len(b) = 1 /\ Len(a) \in Nat /\ Len(b) \in Nat
  <2>1. Len(a \o b) = Len(a) + Len(b) /\ Len(a) \in Nat /\ Len(b) \in Nat
    BY JoinedBytes
  <2>2. Len(<< 0 >>) = 1
    OBVIOUS
  <2>3. QED
    BY <2>1, <2>2
<1>2. Len(a) # 0
  BY EmptySeq DEF Bytes
<1>3. Len(b) = 0
  BY <1>1, <1>2
<1>4. QED
  BY <1>3, EmptySeq DEF Bytes

\* ev_sockwrite() sends the first bytes of what is held and puts the rest
\* back; what an element below still holds goes first.
LEMMA WriteOut ==
  ASSUME NEW d, IsConn(d), NEW e, IsConn(e), NEW i \in Elements(d), SockWrite(d, e, i), NEW w,
         d.st[i] # "FAILED", i = 3 => d.st[3] \in Started,
         Begins(d.tx, All(d, w)), Lower(d), Due(d, w),
         (i = Top(d) /\ Below(d) = <<>>) \/ (i = 2 /\ Top(d) = 3) \/ Holds(d, i) = <<>>
  PROVE  /\ Begins(e.tx, All(e, w)) /\ Lower(e)
         /\ Due(e, w) \/ (e.thrown /\ ssl(d, i))
         /\ \A j \in Elements(d) : j # i => Holds(e, j) = Holds(d, j)
         /\ Holds(d, i) = <<>> => Holds(e, i) = <<>>
         /\ i = 2 /\ Top(d) = 3 => e.st[2] = "DISCONNECTED" \/ Holds(e, 2) = <<>> \/ (e.thrown /\ e.st = d.st)
<1>1. /\ SameRest(d, e) /\ Top(e) = Top(d) /\ All(e, w) = All(d, w) /\ Elements(e) = Elements(d)
      /\ Elements(d) = 1..Top(d) /\ Top(d) \in 1..3 /\ DOMAIN d.st = Elements(d) /\ e.reset = d.reset
      /\ (Top(d) = 3 => d.kind[2] = "socks4")
  BY ShapeFacts DEF SockWrite, SameRest, Top, IsConn, All, Socks, Elements
<1>2. \A j \in Elements(d) : Holds(d, j) \in Bytes /\ Holds(e, j) \in Bytes
  BY <1>1, HoldsBytes
<1>3. CASE SameOut(d, e) /\ (Drops(d, e, i) \/ (e.st = d.st /\ (Holds(d, i) = <<>> \/ e.thrown)))
  <2>1. \A j : Holds(e, j) = Holds(d, j)
    BY <1>3 DEF SameOut, Holds
  <2>2. Below(e) = Below(d) /\ e.tx = d.tx
    BY <1>1, <1>3, <2>1 DEF Below, SameOut
  <2>3. Due(e, w)
    BY <1>1, <2>1, <2>2 DEF Due
  <2>4. Lower(e)
    <3>1. Top(d) = 3 /\ e.st[3] \in Started => d.st[3] \in Started
      BY <1>1, <1>3 DEF Drops, Started
    <3>2. QED
      BY <1>1, <2>1, <3>1 DEF Lower
  <2>5. i = 2 /\ Top(d) = 3 => e.st[2] = "DISCONNECTED" \/ Holds(e, 2) = <<>> \/ (e.thrown /\ e.st = d.st)
    BY <1>1, <1>3, <2>1 DEF Drops
  <2>6. QED
    BY <1>1, <2>1, <2>2, <2>3, <2>4, <2>5
<1>4. CASE /\ e.st = d.st /\ e.tx = d.tx /\ Holds(d, i) # <<>> /\ e.thrown /\ Holds(e, i) = <<>>
           /\ d.reset \/ ssl(d, i)
           /\ \A j \in Elements(d) : j # i => Holds(e, j) = Holds(d, j)
  <2>1. Lower(e)
    BY <1>1, <1>4 DEF Lower
  <2>2. Due(e, w) \/ ssl(d, i)
    BY <1>1, <1>4 DEF Due
  <2>3. QED
    BY <1>1, <1>4, <2>1, <2>2
<1>5. ASSUME /\ e.st = d.st /\ ~d.reset /\ Holds(d, i) # <<>>
             /\ \A j \in Elements(d) : j # i => Holds(e, j) = Holds(d, j),
             NEW a \in Bytes, e.tx = d.tx \o a, Holds(d, i) = a \o Holds(e, i), ~ssl(d, i) => a # <<>>
      PROVE  /\ Begins(e.tx, All(e, w)) /\ Lower(e) /\ Due(e, w)
             /\ i = 2 /\ Top(d) = 3 => Holds(e, 2) = <<>>
  <2> DEFINE s == d.tx
             h == Holds(d, Top(d))
             b == Below(d)
             all == All(d, w)
             g == Holds(e, i)
  <2>1. s \in Bytes /\ h \in Bytes /\ b \in Bytes /\ g \in Bytes /\ s \o (b \o h) = all
    BY <1>1, <1>2, <1>5, JoinedEmpty DEF IsConn, Due, Below
  <2>2. CASE i = Top(d) /\ b = <<>>
    <3>1. h = a \o g /\ b \o h = h
      BY <1>5, <2>1, <2>2, JoinedEmpty
    <3>2. Below(e) = <<>> /\ Holds(e, Top(e)) = g
      <4>1. Top(e) = Top(d) /\ i = Top(d)
        BY <1>1, <2>2
      <4>2. Holds(e, Top(e)) = g
        BY <4>1
      <4>3. Below(e) = <<>>
        <5>1. CASE Top(d) = 3
          <6>1. Below(d) = Holds(d, 2) /\ Below(e) = Holds(e, 2) /\ 2 \in Elements(d) /\ i # 2
            BY <1>1, <4>1, <5>1 DEF Below
          <6>2. Holds(e, 2) = Holds(d, 2)
            BY <1>5, <6>1
          <6>3. QED
            BY <2>2, <6>1, <6>2
        <5>2. CASE Top(d) # 3
          BY <4>1, <5>2 DEF Below
        <5>3. QED
          BY <5>1, <5>2
      <4>4. QED
        BY <4>2, <4>3
    <3>3. i # 2 \/ Top(d) # 3
      BY <2>2
    <3> HIDE DEF s, h, b, all, g
    <3>4. (s \o a) \o g = all
      <4>1. s \o h = all /\ h = a \o g /\ s \in Bytes /\ g \in Bytes /\ a \in Bytes
        BY <1>5, <2>1, <3>1
      <4>2. (s \o a) \o g = s \o (a \o g)
        BY <4>1, Joined
      <4>3. QED
        BY <4>1, <4>2
    <3>5. <<>> \o g = g
      BY <2>1, JoinedEmpty
    <3>6. Begins(e.tx, All(e, w)) /\ Due(e, w)
      BY <1>1, <1>5, <2>1, <3>2, <3>4, <3>5 DEF Begins, Due, s, all
    <3>7. Lower(e)
      BY <1>1, <1>5, <2>2, <3>3 DEF Lower
    <3>8. QED
      BY <3>3, <3>6, <3>7
  <2>3. CASE i = 2 /\ Top(d) = 3
    <3>1. b = a \o g /\ h = Holds(e, 3) /\ Below(e) = g /\ b \in {<<>>, << 0 >>} /\ b # <<>>
      BY <1>1, <1>5, <2>3 DEF Below, Lower
    <3> HIDE DEF s, h, b, all, g
    <3>2. (s \o a) \o (g \o h) = all /\ g \o h \in Bytes
      <4>1. s \o (b \o h) = all /\ b = a \o g /\ s \in Bytes /\ g \in Bytes /\ a \in Bytes /\ h \in Bytes
        BY <1>5, <2>1, <3>1
      <4> DEFINE k == g \o h
      <4>2. Regroups(a, g, h) /\ k \in Bytes
        BY <4>1, JoinedSo, JoinedBytes
      <4>3. (a \o g) \o h = a \o k
        BY <4>2 DEF Regroups
      <4> HIDE DEF k
      <4>4. Regroups(s, a, k)
        BY <4>1, <4>2, JoinedSo
      <4>5. QED
        BY <4>1, <4>2, <4>3, <4>4 DEF Regroups, k
    <3>3. a # <<>>
      BY <1>1, <1>5, <2>3 DEF ssl
    <3>4. g = <<>>
      BY <2>1, <3>1, <3>3, OneByte
    <3>5. Begins(e.tx, All(e, w)) /\ Due(e, w)
      BY <1>1, <1>5, <2>3, <3>1, <3>2 DEF Begins, Due, s, all
    <3>6. Lower(e)
      BY <1>1, <1>5, <2>3, <3>4 DEF Lower, g
    <3>7. QED
      BY <2>3, <3>4, <3>5, <3>6 DEF g
  <2>4. QED
    BY <1>5, <2>2, <2>3
<1>6. QED
  <2>1. CASE SameOut(d, e) /\ (Drops(d, e, i) \/ (e.st = d.st /\ (Holds(d, i) = <<>> \/ e.thrown)))
    BY <1>3, <2>1
  <2>2. CASE ~(SameOut(d, e) /\ (Drops(d, e, i) \/ (e.st = d.st /\ (Holds(d, i) = <<>> \/ e.thrown))))
    <3>1. \/ /\ e.st = d.st /\ e.tx = d.tx /\ Holds(d, i) # <<>> /\ e.thrown /\ Holds(e, i) = <<>>
             /\ d.reset \/ ssl(d, i)
             /\ \A j \in Elements(d) : j # i => Holds(e, j) = Holds(d, j)
          \/ /\ e.st = d.st /\ ~d.reset /\ Holds(d, i) # <<>>
             /\ \A j \in Elements(d) : j # i => Holds(e, j) = Holds(d, j)
             /\ \E a \in Bytes : e.tx = d.tx \o a /\ Holds(d, i) = a \o Holds(e, i) /\ (~ssl(d, i) => a # <<>>)
      BY <2>2 DEF SockWrite
    <3>2. QED
      BY <1>4, <1>5, <3>1
  <2>3. QED
    BY <2>1, <2>2
-----------------------------------------------------------------------------
(* Handlers of one element *)

\* An exception is caught, and the element fails.
LEMMA CaughtSound ==
  ASSUME NEW d, IsConn(d), NEW i \in Elements(d), NEW w, NEW n, NEW t, Sound(d, w, n, t),
         i = 3 => d.st[3] \in Started, Top(d) = 3 /\ i = 2 => d.st[1] \in Over
  PROVE  Sound(caught(d, i), w, n, t)
<1> DEFINE e == caught(d, i)
<1>1. IsConn(e) /\ Failed(d, e, i)
  BY CaughtKeeps
<1> HIDE DEF e
<1>2. Downs(d, e) /\ e.s = d.s
  BY <1>1, FailedDowns DEF Failed, SameRest
<1>3. Sound(e, w, n, t)
  BY <1>1, <1>2, DownSound
<1>4. QED
  BY <1>3 DEF e

\* fail() itself.
LEMMA FailSound ==
  ASSUME NEW d, IsConn(d), NEW i \in Elements(d), NEW w, NEW n, NEW t, Sound(d, w, n, t), i = 1
  PROVE  LET e == fail(d, i) IN IsConn(e) /\ Sound(e, w, n, t) /\ Failed(d, e, i)
<1> DEFINE e == fail(d, i)
<1>1. IsConn(e) /\ Failed(d, e, i)
  BY FailKeeps
<1> HIDE DEF e
<1>2. Downs(d, e) /\ e.s = d.s
  BY <1>1, FailedDowns DEF Failed, SameRest
<1>3. Sound(e, w, n, t)
  BY <1>1, <1>2, DownSound
<1>4. QED
  BY <1>1, <1>3 DEF e

\* The states below a started element of a chain.
LEMMA BelowStarted ==
  ASSUME NEW d, IsConn(d), Control(d), NEW i \in Elements(d), d.st[i] \in Started \cup {"ACCEPTING"}
  PROVE  /\ \A j \in Elements(d) : j < i => d.st[j] \in Over
         /\ d.kind[1] # "tcp" => d.kind[i] \in {"accepted", "sslin"}
         /\ d.st[i] = "ACCEPTING" => d.kind[i] = "sslin"
<1>1. /\ Elements(d) = 1..Top(d) /\ Top(d) \in 1..3 /\ d.kind[1] \in {"tcp", "accepted", "listen"}
      /\ \A j \in 2..Top(d) : d.kind[j] \in {"socks4", "ssl", "sslin"}
      /\ \A j \in Elements(d) : d.kind[j] = "socks4" => d.kind[1] = "tcp"
      /\ \A j \in Elements(d) : d.kind[j] = "ssl" => d.kind[1] = "tcp"
      /\ \A j \in Elements(d) : d.kind[j] = "sslin" => j = 2 /\ d.kind[1] = "accepted"
  BY ShapeFacts DEF IsConn, Top
<1>2. d.st[i] \in StatesOf(d.kind[i]) /\ d.st[1] \in StatesOf(d.kind[1])
  BY <1>1 DEF Control, Phases
<1>3. CASE d.kind[1] = "tcp"
  <2>1. d.st[i] # "ACCEPTING"
    BY <1>1, <1>2, <1>3 DEF StatesOf, Over
  <2>2. QED
    BY <1>3, <2>1 DEF Control, Order
<1>4. CASE d.kind[1] = "accepted"
  <2>1. d.st[1] \in Over /\ d.kind[i] \in {"accepted", "sslin"} /\ (i # 1 => i = 2)
    BY <1>1, <1>2, <1>4 DEF StatesOf
  <2>2. d.st[i] = "ACCEPTING" => d.kind[i] = "sslin"
    BY <1>2, <2>1 DEF StatesOf, Over
  <2>3. QED
    BY <1>1, <2>1, <2>2, <1>4
<1>5. CASE d.kind[1] = "listen"
  <2>1. i = 1
    BY <1>1, <1>5, ShapeFacts DEF IsConn, Top
  <2>2. QED
    BY <1>2, <1>5, <2>1 DEF StatesOf, Started
<1>6. QED
  BY <1>1, <1>3, <1>4, <1>5

\* The handlers after the connection is there keep the invariant: reading.
LEMMA ReadSound ==
  ASSUME NEW d, IsConn(d), ~d.thrown, NEW i \in Elements(d), NEW w, NEW n \in Nat, NEW t \in Bytes,
         Sound(d, w, n, t), d.st[i] = "CONNECTED", i = Top(d), NEW e \in ev_sockread(d, i)
  PROVE  IsConn(e) /\ SockRead(d, e, i) /\ Sound(e, w, n, t)
<1>1. IsConn(e) /\ SockRead(d, e, i)
  BY SockReadStep
<1>2. Control(e) /\ OutInv(e, w)
  BY <1>1, ReadElsewhere DEF Sound, Started
<1>3. \A f \in Nat : Heard(d, f, n, t) => Heard(e, f, n, t)
  BY <1>1, ReadHeard
<1>4. e.kind = d.kind /\ Top(e) = Top(d) /\ (Socks(e) <=> Socks(d))
  BY <1>1 DEF SockRead, SameRest, Top, Socks
<1>5. InInv(e, n, t)
  <2>1. CASE d.kind[1] # "listen" /\ Socks(d)
    <3>1. SocksIn(d, n, t) /\ Top(d) \in {2, 3}
      BY <2>1, ShapeFacts DEF Sound, InInv, IsConn, Socks, Top
    <3>2. ~Unheard(d, n, t) /\ ~Partly(d, t)
      BY <3>1 DEF Unheard, Quiet, Early, Partly, Started
    <3>3. SocksOver(d) /\ Heard(d, AnsLen + 1, n, t) /\ AnsLen + 1 \in Nat
      BY <3>1, <3>2, SizeAssumption DEF SocksIn
    <3>4. Heard(e, AnsLen + 1, n, t)
      BY <1>3, <3>3
    <3>5. \A j \in Elements(d) : e.st[j] = d.st[j] \/ e.st[j] = "DISCONNECTED"
      BY <1>1 DEF SockRead, Drops, IsConn
    <3>6. SocksOver(e)
      BY <3>1, <3>3, <3>5, ShapeFacts DEF SocksOver, Over, IsConn, Top
    <3>7. QED
      BY <1>4, <2>1, <3>4, <3>6 DEF InInv, SocksIn
  <2>2. CASE d.kind[1] # "listen" /\ ~Socks(d)
    <3>1. Heard(d, 1, n, t)
      BY <2>2 DEF Sound, InInv
    <3>2. Heard(e, 1, n, t)
      BY <1>3, <3>1
    <3>3. QED
      BY <1>4, <2>2, <3>2 DEF InInv
  <2>3. CASE d.kind[1] = "listen"
    BY <1>4, <2>3 DEF InInv
  <2>4. QED
    BY <2>1, <2>2, <2>3
<1>6. QED
  BY <1>1, <1>2, <1>5 DEF Sound

\* Writing, also while the connection is made.  Only ssl loses what it has
\* taken from the queue when it throws; the element fails.
LEMMA WriteSound ==
  ASSUME NEW d, IsConn(d), ~d.thrown, NEW i \in Elements(d), NEW w, NEW n \in Nat, NEW t \in Bytes,
         Sound(d, w, n, t), d.st[i] \in Started, NEW e \in ev_sockwrite(d, i)
  PROVE  /\ IsConn(e) /\ SockWrite(d, e, i)
         /\ IF e.thrown THEN Sound(caught(e, i), w, n, t) ELSE Sound(e, w, n, t)
<1>1. IsConn(e) /\ SockWrite(d, e, i)
  BY SockWriteStep
<1>2. Control(e) /\ InInv(e, n, t)
  BY <1>1, WriteElsewhere DEF Sound, Started
<1>3. /\ SameRest(d, e) /\ e.kind = d.kind /\ Top(e) = Top(d) /\ Elements(e) = Elements(d)
      /\ Elements(d) = 1..Top(d) /\ Top(d) \in 1..3
  BY <1>1, ShapeFacts DEF SockWrite, SameRest, Top, IsConn, Elements
<1>4. e.thrown => e.st = d.st
  BY <1>1 DEF SockWrite, Drops
<1>5. \A j \in Elements(d) : j < i => d.st[j] \in Over
  BY BelowStarted DEF Sound
<1>6. ASSUME OutInv(e, w)
      PROVE  IF e.thrown THEN Sound(caught(e, i), w, n, t) ELSE Sound(e, w, n, t)
  <2>1. Sound(e, w, n, t)
    BY <1>2, <1>6 DEF Sound
  <2>2. e.thrown => Sound(caught(e, i), w, n, t)
    BY <1>1, <1>3, <1>4, <1>5, <2>1, CaughtSound
  <2>3. QED
    BY <2>1, <2>2
<1>7. CASE Holds(d, i) = <<>>
  <2>1. SameOut(d, e) /\ (Drops(d, e, i) \/ e.st = d.st)
    BY <1>1, <1>7 DEF SockWrite
  <2>2. CASE Drops(d, e, i)
    <3>1. Downs(d, e)
      BY <1>1, <1>3, <2>1, <2>2, DropDowns DEF SockWrite, Started
    <3>2. OutInv(e, w)
      BY <1>1, <3>1, DownOut DEF Sound
    <3>3. QED
      BY <1>1, <1>6, <3>2
  <2>3. CASE e.st = d.st
    <3>1. OutInv(e, w)
      BY <1>3, <2>1, <2>3, SameOutgoing DEF Sound, SameRest
    <3>2. QED
      BY <1>1, <1>6, <3>1
  <2>4. QED
    BY <2>1, <2>2, <2>3
<1>8. CASE Holds(d, i) # <<>>
  <2>1. Begins(d.tx, All(d, w)) /\ Lower(d) /\ Asked(d) /\ (Due(d, w) \/ Dead(d))
    BY DEF Sound, OutInv
  <2>2. i = Top(d)
    BY <1>3, <1>8, <2>1 DEF Lower, Asked
  <2>3. Below(d) = <<>>
    BY <1>3, <2>1, <2>2 DEF Below, Lower
  <2>4. Due(d, w)
    <3>1. ~Dead(d)
      BY <1>3, <2>2 DEF Dead, Over, Started
    <3>2. QED
      BY <2>1, <3>1
  <2>5. /\ Begins(e.tx, All(e, w)) /\ Lower(e)
        /\ Due(e, w) \/ (e.thrown /\ ssl(d, i))
        /\ \A j \in Elements(d) : j # i => Holds(e, j) = Holds(d, j)
    BY <1>1, <2>1, <2>2, <2>3, <2>4, WriteOut DEF Started
  <2>6. Asked(e)
    BY <1>3, <2>2, <2>3, <2>5 DEF Asked, Below
  <2>7. CASE Due(e, w)
    <3>1. OutInv(e, w)
      BY <2>5, <2>6, <2>7 DEF OutInv
    <3>2. QED
      BY <1>1, <1>6, <3>1
  <2>8. CASE ~Due(e, w)
    <3> DEFINE f == caught(e, i)
    <3>1. e.thrown /\ e.st = d.st
      BY <1>4, <2>5, <2>8
    <3>2. IsConn(f) /\ Failed(e, f, i)
      BY <1>1, <1>3, CaughtKeeps
    <3> HIDE DEF f
    <3>3. Downs(e, f) /\ f.s = e.s
      BY <1>1, <1>3, <1>5, <3>1, <3>2, FailedDowns DEF Failed, SameRest
    <3>4. Control(f) /\ InInv(f, n, t)
      BY <1>1, <1>2, <3>2, <3>3, DownControl, DownIn DEF Control
    <3>5. /\ f.kind = e.kind /\ Top(f) = Top(d) /\ Elements(f) = Elements(d) /\ f.tx = e.tx
          /\ All(f, w) = All(e, w) /\ \A j : Holds(f, j) = Holds(e, j)
      BY <1>3, <3>2 DEF Failed, SameRest, SameOut, Top, Elements, All, Socks, Holds
    <3>6. \A j \in Elements(d) : f.st[j] = d.st[j] \/ f.st[j] = "FAILED"
      BY <1>3, <3>1, <3>2 DEF Failed
    <3>7. Dead(f)
      <4>1. f.st[i] = "FAILED" /\ \A j \in Elements(d) : f.st[j] \in Over
        BY <1>3, <1>5, <2>2, <3>2, <3>6 DEF Failed, Over
      <4>2. QED
        BY <2>2, <3>5, <4>1 DEF Dead
    <3>8. Lower(f) /\ Asked(f)
      BY <1>3, <2>5, <2>6, <3>1, <3>5, <3>6 DEF Lower, Asked, Started
    <3>9. Sound(f, w, n, t)
      BY <2>5, <3>4, <3>5, <3>7, <3>8 DEF Sound, OutInv
    <3>10. QED
      BY <1>1, <3>1, <3>9 DEF f
  <2>9. QED
    BY <2>7, <2>8
<1>9. QED
  BY <1>7, <1>8
-----------------------------------------------------------------------------
(* Elements that are started and connected *)

\* An element that is started gets its socket and is CONNECTING.
LEMMA StartedKeeps ==
  ASSUME NEW d, IsConn(d), NEW i \in Elements(d)
  PROVE  LET e == started(d, i) IN
         /\ IsConn(e) /\ SameIn(d, e) /\ SameOut(d, e) /\ e.st = [d.st EXCEPT ![i] = "CONNECTING"]
         /\ e.kind = d.kind /\ e.stopped = d.stopped /\ e.reset = d.reset /\ e.thrown = d.thrown
         /\ e.shut = d.shut /\ e.s = [d.s EXCEPT ![i] = TRUE]
<1> DEFINE e == started(d, i)
<1>r. IsRecord(d)
  BY DEF IsConn
<1>1. /\ IsRecord(e) /\ e.st = [d.st EXCEPT ![i] = "CONNECTING"]
      /\ e.s = [d.s EXCEPT ![i] = TRUE] /\ e.late = [d.late EXCEPT ![i] = FALSE]
  BY <1>r DEF IsRecord, started
<1>2. /\ SameIn(d, e) /\ SameOut(d, e) /\ e.thrown = d.thrown /\ e.shut = d.shut
      /\ e.kind = d.kind /\ e.stopped = d.stopped /\ e.reset = d.reset /\ e.fin = d.fin /\ e.answer = d.answer
  BY <1>r DEF IsRecord, started, SameIn, SameOut
<1> HIDE DEF e
<1>3. /\ e.st \in [Elements(d) -> States] /\ e.s \in [Elements(d) -> BOOLEAN]
      /\ e.late \in [Elements(d) -> BOOLEAN]
  BY <1>1 DEF IsConn, States
<1>4. IsConn(e)
  BY <1>1, <1>2, <1>3 DEF IsConn, SameIn, SameOut, Elements
<1>5. QED
  BY <1>1, <1>2, <1>4 DEF e

\* An ssl element at the end of the chain is being connected, or is.
LEMMA HandshakeSound ==
  ASSUME NEW d, IsConn(d), ~d.thrown, NEW i \in Elements(d), i = Top(d), ssl(d, i), d.s[1],
         NEW w, NEW n, NEW t, Sound(d, w, n, t), d.st[i] \in {"CONNECTING", "ACCEPTING"},
         NEW e \in handshake(d, i)
  PROVE  /\ IsConn(e) /\ SameRest(d, e) /\ Sound(e, w, n, t)
         /\ e.st = d.st \/ (e.st = [d.st EXCEPT ![i] = "CONNECTED"] /\ ~e.thrown)
<1>1. e = d \/ e = Throw(d) \/ e = SetState(d, i, "CONNECTED")
  BY DEF handshake, connected
<1>2. CASE e = d
  BY <1>2 DEF SameRest
<1>3. CASE e = Throw(d)
  <2>1. /\ IsConn(e) /\ SameRest(d, e) /\ SameIn(d, e) /\ SameOut(d, e) /\ e.st = d.st
    BY <1>3, ThrowKeeps
  <2>2. Sound(e, w, n, t)
    BY <2>1, SameControl, SameOutgoing, SameIncoming DEF Sound, SameRest
  <2>3. QED
    BY <2>1, <2>2
<1>4. CASE e = SetState(d, i, "CONNECTED")
  <2>1. /\ IsConn(e) /\ SameRest(d, e) /\ SameIn(d, e) /\ SameOut(d, e)
        /\ e.st = [d.st EXCEPT ![i] = "CONNECTED"] /\ e.thrown = d.thrown
    <3>1. "CONNECTED" \in States
      BY DEF States
    <3>2. QED
      BY <1>4, <3>1, SetStateKeeps
  <2>2. /\ e.kind = d.kind /\ Top(e) = Top(d) /\ Elements(e) = Elements(d) /\ e.s = d.s /\ e.stopped = d.stopped
        /\ Elements(d) = 1..Top(d) /\ Top(d) \in 1..3 /\ DOMAIN d.st = Elements(d)
    BY <2>1, ShapeFacts DEF SameRest, Top, Elements, IsConn
  <2>3. e.st[i] = "CONNECTED" /\ \A j \in Elements(d) : j # i => e.st[j] = d.st[j]
    BY <2>1, <2>2
  <2>4. \A j \in Elements(d) : j < i => d.st[j] \in Over
    BY BelowStarted DEF Sound, Started
  <2>5. d.kind[i] \in {"ssl", "sslin"} /\ (d.kind[1] = "tcp" => d.st[i] = "CONNECTING")
    <3>1. d.kind[i] = "sslin" => d.kind[1] = "accepted"
      BY ShapeFacts DEF IsConn, Elements
    <3>2. d.st[i] = "ACCEPTING" => d.kind[i] = "sslin"
      BY BelowStarted DEF Sound, Started
    <3>3. QED
      BY <3>1, <3>2 DEF ssl
  <2>6. Control(e)
    <3>1. Phases(e)
      <4>1. "CONNECTED" \in StatesOf(d.kind[i])
        BY <2>5 DEF StatesOf, Over
      <4>2. QED
        BY <2>2, <2>3, <4>1 DEF Phases, Sound, Control
    <3>2. Order(e)
      BY <2>2, <2>3, <2>4, <2>5 DEF Order, Sound, Control, Started, Over
    <3>3. QED
      BY <2>2, <3>1, <3>2 DEF Control, SocketsKept
  <2>7. OutInv(e, w)
    <3>1. \A j : Holds(e, j) = Holds(d, j)
      BY <2>1 DEF SameOut, Holds
    <3>2. All(e, w) = All(d, w) /\ Below(e) = Below(d) /\ e.tx = d.tx /\ e.reset = d.reset
      BY <2>1, <2>2, <3>1 DEF All, Socks, Below, SameOut, SameRest
    <3>3. Due(d, w)
      BY DEF Sound, OutInv, Dead, Over
    <3>4. Due(e, w)
      BY <2>2, <3>1, <3>2, <3>3 DEF Due
    <3>5. Top(d) = 3 => d.st[3] \in Started
      BY <2>5, ShapeFacts DEF IsConn, Started, Top
    <3>6. Lower(e) /\ Asked(e)
      BY <2>2, <2>3, <3>1, <3>5 DEF Lower, Asked, Sound, OutInv
    <3>7. QED
      BY <3>2, <3>4, <3>6 DEF Sound, OutInv
  <2>8. InInv(e, n, t)
    <3>1. \A f : Heard(d, f, n, t) => Heard(e, f, n, t)
      BY <2>1, <2>2 DEF Heard, SameIn, SameRest
    <3>2. CASE ~Socks(d)
      BY <2>2, <3>1, <3>2 DEF InInv, Sound, Socks
    <3>3. CASE Socks(d)
      <4>1. Top(d) = 3 /\ d.kind[1] = "tcp" /\ d.st[3] = "CONNECTING"
        BY <2>2, <2>5, <3>3, ShapeFacts DEF Socks, Top, IsConn
      <4>2. SocksIn(d, n, t) /\ ~Unheard(d, n, t) /\ ~Partly(d, t)
        BY <3>3, <4>1 DEF Sound, InInv, Unheard, Quiet, Partly, Started
      <4>3. SocksOver(d) /\ Heard(d, AnsLen + 1, n, t)
        BY <4>2 DEF SocksIn
      <4>4. SocksOver(e)
        BY <2>2, <2>3, <4>1, <4>3 DEF SocksOver
      <4>5. Socks(e) /\ Heard(e, AnsLen + 1, n, t)
        BY <2>2, <3>1, <3>3, <4>3 DEF Socks
      <4>6. QED
        BY <4>4, <4>5 DEF InInv, SocksIn
    <3>4. QED
      BY <3>2, <3>3
  <2>9. QED
    BY <2>1, <2>6, <2>7, <2>8 DEF Sound
<1>5. QED
  BY <1>1, <1>2, <1>3, <1>4

\* What a connection is like when the ssl element at its end is started.
SslReady(d, w, n, t) ==
  /\ ~d.thrown /\ d.s[1] /\ Top(d) > 1 /\ d.kind[Top(d)] = "ssl"
  /\ \A j \in Elements(d) : j < Top(d) => d.st[j] \in Over
  /\ Begins(d.tx, All(d, w)) /\ Lower(d) /\ Due(d, w) /\ Below(d) = <<>>
  /\ Heard(d, IF Socks(d) THEN AnsLen + 1 ELSE 1, n, t)

\* sslstate::start(), called when all below is connected, keeps the invariant.
LEMMA StartSslSound ==
  ASSUME NEW d, IsConn(d), NEW w, NEW n, NEW t, SslReady(d, w, n, t), NEW e \in start(d, Top(d))
  PROVE  /\ IsConn(e) /\ Sound(e, w, n, t) /\ e.s[1] /\ e.kind = d.kind /\ e.stopped = d.stopped
         /\ \A j \in Elements(d) : j < Top(d) => e.st[j] = d.st[j]
<1> DEFINE i == Top(d)
           m == started(d, i)
<1>1. /\ i \in Elements(d) /\ d.kind[1] = "tcp" /\ i \in 2..3 /\ Elements(d) = 1..i
      /\ DOMAIN d.st = Elements(d) /\ DOMAIN d.s = Elements(d)
  BY ShapeFacts DEF SslReady, IsConn, Top
<1>2. /\ IsConn(m) /\ SameIn(d, m) /\ SameOut(d, m) /\ m.st = [d.st EXCEPT ![i] = "CONNECTING"]
      /\ m.kind = d.kind /\ m.stopped = d.stopped /\ m.reset = d.reset /\ m.thrown = d.thrown
      /\ m.s = [d.s EXCEPT ![i] = TRUE]
  BY <1>1, StartedKeeps
<1> HIDE DEF m
<1>3. /\ Top(m) = i /\ Elements(m) = Elements(d) /\ All(m, w) = All(d, w) /\ (Socks(m) <=> Socks(d))
      /\ m.s[1] /\ ~m.thrown /\ m.tx = d.tx /\ \A j : Holds(m, j) = Holds(d, j)
  BY <1>1, <1>2 DEF Top, Elements, All, Socks, SslReady, SameOut, Holds
<1>4. m.st[i] = "CONNECTING" /\ \A j \in Elements(d) : j # i => m.st[j] \in Over
  BY <1>1, <1>2 DEF SslReady
<1>5. Control(m)
  <2>1. Phases(m)
    <3>1. "CONNECTING" \in StatesOf("ssl") /\ \A k : k # "listen" => Over \subseteq StatesOf(k)
      BY DEF StatesOf, Over
    <3>2. \A j \in Elements(d) : d.kind[j] # "listen"
      BY <1>1, ShapeFacts DEF IsConn
    <3>3. QED
      BY <1>2, <1>3, <1>4, <3>1, <3>2 DEF Phases, SslReady
  <2>2. Order(m)
    BY <1>1, <1>3, <1>4 DEF Order, Over
  <2>3. QED
    BY <1>3, <2>1, <2>2 DEF Control, SocketsKept
<1>6. OutInv(m, w)
  <2>1. Below(m) = Below(d)
    BY <1>3 DEF Below
  <2>2. Due(m, w)
    <3>1. Due(d, w) /\ Holds(m, Top(m)) = Holds(d, Top(d))
      BY <1>3 DEF SslReady
    <3>2. m.tx = d.tx /\ m.reset = d.reset /\ All(m, w) = All(d, w)
      BY <1>2, <1>3
    <3>3. QED
      BY <2>1, <3>1, <3>2 DEF Due
  <2>3. Lower(m) /\ Asked(m)
    BY <1>1, <1>3 DEF SslReady, Lower, Asked, Below
  <2>4. QED
    BY <1>3, <2>2, <2>3 DEF OutInv, SslReady
<1>7. InInv(m, n, t)
  <2>1. \A f : Heard(d, f, n, t) => Heard(m, f, n, t)
    BY <1>2, <1>3 DEF Heard, SameIn
  <2>2. CASE Socks(d)
    <3>1. Top(d) = 3
      BY <1>1, <2>2 DEF SslReady, Socks
    <3>2. SocksOver(m)
      BY <1>1, <1>4, <3>1 DEF SocksOver, Over
    <3>3. QED
      BY <1>3, <2>1, <2>2, <3>2 DEF InInv, SocksIn, SslReady
  <2>3. CASE ~Socks(d)
    BY <1>3, <2>1, <2>3 DEF InInv, SslReady
  <2>4. QED
    BY <2>2, <2>3
<1>8. ssl(m, i) /\ e \in handshake(m, i)
  <2>1. d.kind[i] = "ssl"
    BY DEF SslReady
  <2>2. QED
    BY <1>2, <2>1 DEF start, sslstart, ssl, m
<1>9. /\ IsConn(e) /\ SameRest(m, e) /\ Sound(e, w, n, t)
      /\ e.st = m.st \/ (e.st = [m.st EXCEPT ![i] = "CONNECTED"] /\ ~e.thrown)
  <2>1. Sound(m, w, n, t)
    BY <1>5, <1>6, <1>7 DEF Sound
  <2>2. QED
    BY <1>1, <1>2, <1>3, <1>4, <1>8, <2>1, HandshakeSound
<1>10. \A j \in Elements(d) : j < i => e.st[j] = d.st[j]
  BY <1>1, <1>2, <1>9
<1>11. QED
  BY <1>2, <1>3, <1>9, <1>10 DEF SameRest
-----------------------------------------------------------------------------
(* The answer of the SOCKS server *)

\* Without its first k, a sequence of numbers begins k later.
LEMMA AnswerTaken ==
  ASSUME NEW q \in Bytes, NEW x \in Bytes, NEW n \in Nat, NEW k \in Nat,
         q \o x = Numbers(1, n), Len(q) >= k
  PROVE  LET b == SubSeq(q, k + 1, Len(q)) IN
         /\ b \in Bytes /\ Len(b) <= Len(q) /\ Run(b, k + 1)
         /\ b \o x = Numbers(k + 1, n) /\ k + 1 <= n + 1
<1> DEFINE b == SubSeq(q, k + 1, Len(q))
<1>1. Len(q) \in Nat /\ k \in 0..Len(q) /\ q \in Seq(Nat)
  BY LenProperties DEF Bytes
<1>2. PICK h \in Bytes, g \in Bytes : IsCut(q, k, h, g)
  BY <1>1, Cut DEF Bytes
<1>3. q = h \o b /\ b \in Bytes /\ Len(h) = k
  BY <1>2 DEF IsCut
<1> HIDE DEF b
<1>4. Len(q) = Len(h) + Len(b) /\ Len(h) \in Nat /\ Len(b) \in Nat
  BY <1>3, JoinedBytes
<1> DEFINE y == b \o x
<1>5. y \in Bytes /\ h \o y = Numbers(1, n)
  <2>1. Regroups(h, b, x)
    BY <1>3, JoinedSo
  <2>2. y \in Bytes
    BY <1>3, JoinedBytes
  <2>3. QED
    BY <1>3, <2>1, <2>2 DEF Regroups
<1> HIDE DEF y
<1>6. y = Numbers(1 + Len(h), n) /\ Len(h) <= n + 1 - 1
  <2> DEFINE f == 1
  <2>1. f \in Nat /\ f <= n + 1 /\ h \o y = Numbers(f, n)
    BY <1>5
  <2> HIDE DEF f
  <2>2. Splits(h, y, f, n)
    BY <1>5, <2>1, NumbersSplit
  <2>3. QED
    BY <2>2 DEF Splits, f
<1>7. k + 1 \in Nat /\ k + 1 <= n + 1 /\ y = Numbers(k + 1, n)
  <2>1. 1 + Len(h) = k + 1
    BY <1>3
  <2>2. QED
    BY <1>3, <1>6, <2>1
<1>8. Run(b, k + 1)
  <2> DEFINE f == k + 1
  <2>1. f \in Nat /\ f <= n + 1 /\ b \o x = Numbers(f, n)
    BY <1>7 DEF y
  <2> HIDE DEF f
  <2>2. Splits(b, x, f, n)
    BY <1>3, <2>1, NumbersSplit
  <2>3. QED
    BY <2>2 DEF Splits, f
<1>9. QED
  BY <1>3, <1>4, <1>7, <1>8 DEF b, y

\* The part of a connection that the answer is taken from and that stays.
LEMMA TakeAnswer ==
  ASSUME NEW d, IsConn(d), Socks(d), NEW n \in Nat, NEW t, Long(d, n, t),
         NEW m, m = [d EXCEPT !.inq[2] = SubSeq(@, AnsLen + 1, Len(@))]
  PROVE  /\ IsConn(m) /\ SameRest(d, m) /\ SameOut(d, m) /\ m.st = d.st /\ m.thrown = d.thrown
         /\ Heard(m, AnsLen + 1, n, t)
<1> DEFINE q == d.inq[2]
           b == SubSeq(q, AnsLen + 1, Len(q))
<1>1. /\ Elements(d) = 1..Top(d) /\ Top(d) \in 2..3 /\ q \in Bytes /\ d.rx \in Bytes /\ Len(q) <= Cap
      /\ DOMAIN d.inq = Elements(d) /\ 2 \in Elements(d)
  BY ShapeFacts DEF IsConn, Top, Socks
<1>2. AnsLen \in Nat /\ Cap \in Nat
  BY SizeAssumption
<1>3. t = <<>> /\ q \o d.rx = Numbers(1, n) /\ Len(q) >= AnsLen /\ Quiet(d, n) /\ d.st[2] = "CONNECTING"
  BY DEF Long
<1> HIDE DEF q
<1>4. /\ b \in Bytes /\ Len(b) <= Len(q) /\ Run(b, AnsLen + 1)
      /\ b \o d.rx = Numbers(AnsLen + 1, n) /\ AnsLen + 1 <= n + 1
  BY <1>1, <1>2, <1>3, AnswerTaken
<1>r. IsRecord(d)
  BY DEF IsConn
<1>5. m = [d EXCEPT !.inq[2] = b]
  BY DEF q
<1> HIDE DEF b
<1>6. /\ IsRecord(m) /\ m.inq = [d.inq EXCEPT ![2] = b] /\ m.st = d.st /\ m.thrown = d.thrown
      /\ m.shut = d.shut /\ m.rx = d.rx
  BY <1>5, <1>r DEF IsRecord
<1>7. SameRest(d, m) /\ SameOut(d, m)
  BY <1>5, <1>r DEF IsRecord, SameRest, SameOut
<1>8. m.inq[2] = b /\ \A j \in Elements(d) : j # 2 => m.inq[j] = d.inq[j]
  BY <1>1, <1>6
<1>9. IsConn(m)
  <2>1. m.inq \in [Elements(d) -> Bytes] /\ \A j \in Elements(d) : Len(m.inq[j]) <= Cap
    <3>1. Len(b) <= Cap
      BY <1>1, <1>2, <1>4, JoinedBytes
    <3>2. /\ d.inq \in [Elements(d) -> Bytes] /\ m.inq = [d.inq EXCEPT ![2] = b] /\ b \in Bytes
          /\ \A j \in Elements(d) : Len(d.inq[j]) <= Cap
      BY <1>4, <1>6 DEF IsConn
    <3>3. m.inq \in [Elements(d) -> Bytes]
      <4> DEFINE v == d.inq
                 B == Bytes
                 D == Elements(d)
      <4>1. v \in [D -> B] /\ m.inq = [v EXCEPT ![2] = b] /\ b \in B
        BY <3>2
      <4> HIDE DEF v, B, D
      <4>2. m.inq \in [D -> B]
        BY <4>1
      <4>3. QED
        BY <4>2 DEF B, D
    <3>4. \A j \in Elements(d) : Len(m.inq[j]) <= Cap
      BY <1>8, <3>1, <3>2
    <3>5. QED
      BY <3>3, <3>4
  <2>2. QED
    BY <1>6, <1>7, <2>1 DEF IsConn, SameRest, SameOut, Elements
<1>10. Heard(m, AnsLen + 1, n, t)
  <2>1. Top(m) = Top(d)
    BY <1>7 DEF SameRest, Top
  <2>2. CASE Top(d) = 2
    <3>1. t \o m.inq[Top(m)] = b
      BY <1>3, <1>4, <1>8, <2>1, <2>2, JoinedEmpty
    <3>2. QED
      BY <1>4, <1>6, <3>1 DEF Heard
  <2>3. CASE Top(d) = 3
    <3>1. t \o m.inq[Top(m)] = <<>> /\ m.stopped[3] = d.stopped[3]
      <4>1. m.inq[3] = <<>>
        BY <1>1, <1>3, <1>8, <2>3 DEF Quiet
      <4>2. QED
        BY <1>3, <1>7, <2>1, <2>3, <4>1, JoinedEmpty DEF SameRest
    <3>2. Run(<<>>, AnsLen + 1)
      BY <1>2 DEF Run, Numbers
    <3>3. CASE d.stopped[3]
      BY <1>4, <2>1, <2>3, <3>1, <3>2, <3>3 DEF Heard
    <3>4. CASE ~d.stopped[3]
      <4>1. n = AnsLen
        BY <1>2, <1>3, <1>4, <2>3, <3>4 DEF Quiet
      <4>2. Numbers(AnsLen + 1, n) = <<>>
        BY <1>2, <4>1 DEF Numbers
      <4>3. d.rx = <<>>
        <5>1. Len(b \o d.rx) = 0
          BY <1>4, <4>2
        <5> DEFINE x == d.rx
        <5>2. x \in Bytes /\ Len(b \o x) = 0
          BY <1>1, <5>1
        <5> HIDE DEF x
        <5>4. Len(b) + Len(x) = 0 /\ Len(b) \in Nat /\ Len(x) \in Nat
          BY <1>4, <5>2, JoinedBytes
        <5>5. Len(x) = 0
          BY <5>4
        <5>3. QED
          BY <5>2, <5>5, EmptySeq DEF Bytes, x
      <4>4. (t \o m.inq[Top(m)]) \o m.rx = Numbers(AnsLen + 1, n)
        <5>1. <<>> \o <<>> = <<>>
          BY JoinedEmpty
        <5>2. QED
          BY <1>6, <3>1, <4>2, <4>3, <5>1
      <4>5. QED
        BY <1>4, <3>1, <3>2, <4>4 DEF Heard
    <3>5. QED
      BY <3>3, <3>4
  <2>4. QED
    BY <1>1, <2>2, <2>3
<1>11. QED
  BY <1>6, <1>7, <1>9, <1>10

\* What a connection is like when handle_socks_connect() looks for the answer.
Asking(d, w, n, t) ==
  /\ ~d.thrown /\ Socks(d) /\ d.s[1] /\ d.st[1] \in Over /\ Control(d)
  /\ Begins(d.tx, All(d, w)) /\ Lower(d) /\ Due(d, w) /\ Asked(d)
  /\ Unheard(d, n, t) \/ Long(d, n, t)

\* handle_socks_connect() takes exactly the answer from the queue and leaves
\* what follows it to the user.
LEMMA AnswerSound ==
  ASSUME NEW d, IsConn(d), NEW w, NEW n \in Nat, NEW t, Asking(d, w, n, t),
         NEW e \in handle_socks_connect(d, 2)
  PROVE  /\ IsConn(e) /\ SameRest(d, e) /\ ~e.thrown /\ e.st[1] = d.st[1] /\ Sound(e, w, n, t)
         /\ e.st[2] = "CONNECTED" /\ Top(d) = 3 => SslReady(e, w, n, t)
         /\ \A j \in Elements(d) : j # 2 => e.st[j] = d.st[j] \/ e.st[j] = "FAILED"
<1>1. /\ Elements(d) = 1..Top(d) /\ Top(d) \in 2..3 /\ 1 \in Elements(d) /\ 2 \in Elements(d)
      /\ d.kind[1] = "tcp" /\ d.kind[2] = "socks4" /\ (Top(d) = 3 => d.kind[3] = "ssl")
      /\ DOMAIN d.st = Elements(d) /\ d.inq[2] \in Bytes
  BY ShapeFacts DEF IsConn, Top, Socks, Asking
<1>2. AnsLen \in Nat /\ Len(d.inq[2]) \in Nat
  BY <1>1, SizeAssumption, LenProperties DEF Bytes
<1>3. OutInv(d, w) /\ Control(d) /\ ~d.thrown /\ d.s[1] /\ d.st[1] \in Over
  BY DEF Asking, OutInv
<1>4. CASE Unheard(d, n, t)
  <2>1. e = d
    BY <1>2, <1>4 DEF handle_socks_connect, Unheard
  <2>2. InInv(d, n, t)
    <3>1. Socks(d)
      BY DEF Asking
    <3>2. SocksIn(d, n, t)
      BY <1>4 DEF SocksIn
    <3>3. QED
      BY <3>1, <3>2 DEF InInv
  <2>3. d.st[2] # "CONNECTED"
    BY <1>4 DEF Unheard, Early
  <2>4. QED
    BY <1>3, <2>1, <2>2, <2>3 DEF Sound, SameRest
<1>5. CASE Long(d, n, t)
  <2> DEFINE m == [d EXCEPT !.inq[2] = SubSeq(@, AnsLen + 1, Len(@))]
  <2>1. /\ IsConn(m) /\ SameRest(d, m) /\ SameOut(d, m) /\ m.st = d.st /\ m.thrown = d.thrown
        /\ Heard(m, AnsLen + 1, n, t)
    BY <1>5, TakeAnswer DEF Asking
  <2>2. e = connected(m, 2) \/ e = fail(m, 2)
    BY <1>2, <1>5 DEF handle_socks_connect, Long
  <2> HIDE DEF m
  <2>3. /\ Top(m) = Top(d) /\ Elements(m) = Elements(d) /\ m.kind = d.kind /\ d.st[2] = "CONNECTING"
        /\ Control(m) /\ OutInv(m, w) /\ Due(m, w) /\ m.s = d.s
    BY <1>3, <1>5, <2>1, SameControl, SameOutgoing DEF SameRest, Top, Elements, Long, Asking
  <2>4. CASE e = connected(m, 2)
    <3>1. /\ IsConn(e) /\ SameRest(m, e) /\ SameIn(m, e) /\ SameOut(m, e)
          /\ e.st = [m.st EXCEPT ![2] = "CONNECTED"] /\ e.thrown = m.thrown
      <4>1. "CONNECTED" \in States
        BY DEF States
      <4>2. QED
        BY <1>1, <2>1, <2>3, <2>4, <4>1, SetStateKeeps DEF connected
    <3>2. e.st[2] = "CONNECTED" /\ \A j \in Elements(d) : j # 2 => e.st[j] = d.st[j]
      BY <1>1, <2>1, <3>1
    <3>3. /\ e.kind = d.kind /\ Top(e) = Top(d) /\ Elements(e) = Elements(d) /\ e.s = d.s
          /\ SameRest(d, e) /\ \A j : Holds(e, j) = Holds(m, j)
      BY <2>1, <3>1 DEF SameRest, Top, Elements, SameOut, Holds
    <3>4. Control(e)
      <4>1. "CONNECTED" \in StatesOf("socks4")
        BY DEF StatesOf, Over
      <4>2. Phases(e)
        BY <1>1, <1>3, <3>2, <3>3, <4>1 DEF Control, Phases
      <4>3. Order(e)
        BY <1>1, <1>3, <3>2, <3>3 DEF Control, Order, Over
      <4>4. QED
        BY <1>3, <3>3, <4>2, <4>3 DEF Control, SocketsKept
    <3>5. /\ Begins(e.tx, All(e, w)) /\ Lower(e) /\ Due(e, w) /\ Asked(e) /\ Below(e) = <<>>
      <4>1. e.tx = m.tx /\ e.reset = m.reset /\ Below(e) = Below(m) /\ All(e, w) = All(m, w)
        BY <2>3, <3>1, <3>3 DEF SameOut, SameRest, Below, All, Socks
      <4>2. Holds(e, Top(e)) = Holds(m, Top(m))
        BY <2>3, <3>3
      <4>3. Due(e, w)
        BY <2>3, <4>1, <4>2 DEF Due
      <4>4. Top(d) = 3 => Holds(m, 2) = <<>>
        BY <2>1, <2>3 DEF OutInv, Asked, Started
      <4>5. Lower(e) /\ Asked(e) /\ Below(e) = <<>>
        BY <2>3, <3>3, <4>4 DEF OutInv, Lower, Asked, Below
      <4>6. QED
        BY <2>3, <4>1, <4>3, <4>5 DEF OutInv
    <3>6. Heard(e, AnsLen + 1, n, t)
      BY <2>1, <2>3, <3>1, <3>3 DEF Heard, SameIn, SameRest
    <3>7. InInv(e, n, t)
      <4>1. Socks(e) /\ SocksOver(e)
        BY <1>1, <1>3, <3>2, <3>3 DEF Socks, SocksOver, Over
      <4>2. QED
        BY <3>6, <4>1 DEF InInv, SocksIn
    <3>8. Top(d) = 3 => SslReady(e, w, n, t)
      <4>1. Socks(e) /\ \A j \in 1..2 : e.st[j] \in Over
        BY <1>1, <1>3, <3>2, <3>3 DEF Socks, Over
      <4>2. QED
        BY <1>1, <1>3, <2>1, <3>1, <3>3, <3>5, <3>6, <4>1 DEF SslReady
    <3>9. QED
      BY <1>1, <1>3, <2>1, <3>1, <3>2, <3>3, <3>4, <3>5, <3>7, <3>8 DEF Sound, OutInv
  <2>5. CASE e = fail(m, 2)
    <3>1. IsConn(e) /\ Failed(m, e, 2) /\ e.thrown = m.thrown
      BY <1>1, <2>1, <2>3, <2>5, FailKeeps
    <3>2. Downs(m, e) /\ e.s = m.s
      BY <1>1, <1>3, <2>1, <2>3, <3>1, FailedDowns DEF Failed, SameRest
    <3>3. Control(e) /\ OutInv(e, w)
      BY <2>1, <2>3, <3>1, <3>2, DownControl, DownOut DEF Control
    <3>4. /\ e.st[2] = "FAILED" /\ e.st[1] = d.st[1]
          /\ \A j \in Elements(d) : e.st[j] = d.st[j] \/ e.st[j] = "FAILED"
      BY <1>1, <2>1, <2>3, <3>1 DEF Failed
    <3>5. SameRest(d, e) /\ e.kind = d.kind /\ Top(e) = Top(m)
      BY <2>1, <3>1 DEF Failed, SameRest, Top
    <3>6. Heard(e, AnsLen + 1, n, t)
      BY <2>1, <3>1, <3>5 DEF Failed, Heard, SameIn, SameRest
    <3>7. InInv(e, n, t)
      <4>1. Socks(e) /\ SocksOver(e)
        BY <1>1, <1>3, <2>3, <3>4, <3>5 DEF Socks, SocksOver, Over
      <4>2. QED
        BY <3>6, <4>1 DEF InInv, SocksIn
    <3>8. QED
      BY <1>3, <2>1, <3>1, <3>3, <3>4, <3>5, <3>7 DEF Sound
  <2>6. QED
    BY <2>2, <2>4, <2>5
<1>6. QED
  BY <1>4, <1>5 DEF Asking

\* What a connection is like when the socks4 element is started.
SocksReady(d, w, n, t) ==
  /\ ~d.thrown /\ d.s[1] /\ Socks(d) /\ d.st[1] = "CONNECTED" /\ Phases(d)
  /\ Top(d) = 3 => d.st[3] \notin Started
  /\ Begins(d.tx, All(d, w)) /\ Lower(d) /\ Due(d, w)
  /\ Answer(d, n, t) /\ d.inq[2] = <<>>
  /\ Top(d) = 3 => d.inq[3] = <<>> /\ (d.stopped[3] \/ (d.st[3] = "NEW" /\ n <= AnsLen))

\* An exception while the element is started: the TCP element, whose handler
\* this is, fails, and all with it.
LEMMA CaughtFirst ==
  ASSUME NEW d, IsConn(d), Socks(d), NEW w, NEW n, NEW t, Control(d), Unheard(d, n, t),
         Begins(d.tx, All(d, w)), Lower(d), Due(d, w)
  PROVE  Sound(caught(d, 1), w, n, t)
<1> DEFINE f == caught(d, 1)
<1>1. 1 \in Elements(d) /\ Elements(d) = 1..Top(d) /\ (Top(d) = 3 => 2 \in Elements(d) /\ 3 \in Elements(d))
  BY ShapeFacts DEF IsConn, Top
<1>2. IsConn(f) /\ Failed(d, f, 1)
  BY <1>1, CaughtKeeps
<1> HIDE DEF f
<1>3. Downs(d, f) /\ f.s = d.s
  <2>1. f.s = d.s
    BY <1>2 DEF Failed, SameRest
  <2> DEFINE i == 1
  <2>2. i \in Elements(d) /\ Failed(d, f, i) /\ i # 3 /\ i # 2
    BY <1>1, <1>2
  <2> HIDE DEF i
  <2>3. Downs(d, f)
    BY <2>2, FailedDowns
  <2>4. QED
    BY <2>1, <2>3
<1>4. Control(f) /\ Due(f, w)
  BY <1>2, <1>3, DownControl, DownOut DEF Control
<1>5. InInv(f, n, t)
  <2>1. InInv(d, n, t)
    <3>1. SocksIn(d, n, t)
      BY DEF SocksIn
    <3>2. QED
      BY <3>1 DEF InInv
  <2>2. QED
    BY <1>2, <1>3, <2>1, DownIn
<1>6. /\ f.kind = d.kind /\ Top(f) = Top(d) /\ f.tx = d.tx /\ All(f, w) = All(d, w)
      /\ \A j : Holds(f, j) = Holds(d, j)
  BY <1>2 DEF Failed, SameRest, SameOut, Top, All, Socks, Holds
<1>7. Top(d) = 3 => f.st[2] = "FAILED" /\ f.st[3] = "FAILED"
  BY <1>1, <1>2 DEF Failed
<1>8. Lower(f) /\ Asked(f)
  BY <1>6, <1>7 DEF Lower, Asked, Started
<1>9. Sound(f, w, n, t)
  BY <1>4, <1>5, <1>6, <1>8 DEF Sound, OutInv
<1>10. QED
  BY <1>9 DEF f

\* socks4state::start() reads, writes its request, and looks for the answer.
LEMMA StartSocksSound ==
  ASSUME NEW d, IsConn(d), NEW w, NEW n \in Nat, NEW t, SocksReady(d, w, n, t), NEW e \in start(d, 2)
  PROVE  /\ IsConn(e) /\ e.kind = d.kind /\ e.stopped = d.stopped /\ e.s[1] /\ e.st[1] = d.st[1]
         /\ IF e.thrown THEN Sound(caught(e, 1), w, n, t) /\ e.st[2] # "CONNECTED"
            ELSE Sound(e, w, n, t)
         /\ e.st[2] = "CONNECTED" /\ Top(d) = 3 => SslReady(e, w, n, t)
<1> DEFINE m == started(d, 2)
<1>1. /\ Elements(d) = 1..Top(d) /\ Top(d) \in 2..3 /\ 1 \in Elements(d) /\ 2 \in Elements(d)
      /\ d.kind[1] = "tcp" /\ d.kind[2] = "socks4" /\ (Top(d) = 3 => d.kind[3] = "ssl")
      /\ DOMAIN d.st = Elements(d) /\ DOMAIN d.s = Elements(d)
  BY ShapeFacts DEF IsConn, Top, Socks, SocksReady
<1>2. /\ IsConn(m) /\ SameIn(d, m) /\ SameOut(d, m) /\ m.st = [d.st EXCEPT ![2] = "CONNECTING"]
      /\ m.kind = d.kind /\ m.stopped = d.stopped /\ m.reset = d.reset /\ m.thrown = d.thrown
      /\ m.shut = d.shut /\ m.s = [d.s EXCEPT ![2] = TRUE]
  BY <1>1, StartedKeeps
<1>3. e \in socksstart(d, 2)
  BY <1>1 DEF start
<1>4. e \in Then(Then(ev_sockread(m, 2), LAMBDA x : ev_sockwrite(x, 2)), LAMBDA x : handle_socks_connect(x, 2))
  BY <1>3 DEF socksstart
<1>5. PICK b \in Then(ev_sockread(m, 2), LAMBDA x : ev_sockwrite(x, 2)) :
        e \in IF b.thrown THEN {b} ELSE handle_socks_connect(b, 2)
  BY <1>4 DEF Then
<1>6. PICK a \in ev_sockread(m, 2) : b \in IF a.thrown THEN {a} ELSE ev_sockwrite(a, 2)
  BY <1>5 DEF Then
<1> HIDE DEF m
<1>7. /\ Top(m) = Top(d) /\ Elements(m) = Elements(d) /\ Socks(m) /\ All(m, w) = All(d, w)
      /\ m.s[1] /\ ~m.thrown /\ m.tx = d.tx /\ (\A j : Holds(m, j) = Holds(d, j)) /\ ~ssl(m, 2)
      /\ m.st[2] = "CONNECTING" /\ \A j \in Elements(d) : j # 2 => m.st[j] = d.st[j]
  BY <1>1, <1>2 DEF Top, Elements, All, Socks, SocksReady, SameOut, Holds, ssl
<1>8. Control(m)
  <2>1. "CONNECTING" \in StatesOf("socks4")
    BY DEF StatesOf
  <2>2. Phases(m)
    BY <1>1, <1>2, <1>7, <2>1 DEF SocksReady, Phases
  <2>3. Order(m)
    BY <1>1, <1>7 DEF SocksReady, Order, Over
  <2>4. QED
    BY <1>7, <2>2, <2>3 DEF Control, SocketsKept
<1>9. Unheard(m, n, t)
  <2>1. Answer(m, n, t)
    BY <1>2 DEF SocksReady, Answer, SameIn
  <2>2. Len(m.inq[2]) < AnsLen
    BY <1>2, SizeAssumption DEF SocksReady, SameIn
  <2>3. Quiet(m, n)
    BY <1>1, <1>2, <1>7 DEF SocksReady, Quiet, SameIn
  <2>4. Early(m)
    BY <1>1, <1>7 DEF SocksReady, Early
  <2>5. QED
    BY <2>1, <2>2, <2>3, <2>4 DEF Unheard
<1>10. Begins(m.tx, All(m, w)) /\ Lower(m) /\ Due(m, w)
  <2>1. Below(m) = Below(d) /\ Holds(m, Top(m)) = Holds(d, Top(d)) /\ m.reset = d.reset
    BY <1>2, <1>7 DEF Below
  <2>2. Begins(d.tx, All(d, w)) /\ Lower(d) /\ Due(d, w)
    BY DEF SocksReady
  <2>3. Due(m, w)
    BY <1>7, <2>1, <2>2 DEF Due
  <2>4. Lower(m)
    BY <1>1, <1>7, <2>2 DEF Lower
  <2>5. QED
    BY <1>7, <2>2, <2>3, <2>4
<1>11. IsConn(a) /\ SockRead(m, a, 2)
  BY <1>1, <1>2, <1>6, <1>7, SockReadStep
<1>12. /\ a.kind = d.kind /\ a.stopped = d.stopped /\ a.s = m.s /\ a.tx = m.tx /\ Socks(a) /\ Top(a) = Top(d)
       /\ Elements(a) = Elements(d) /\ ~ssl(a, 2)
       /\ a.st[1] = d.st[1] /\ a.st[2] \in {"CONNECTING", "DISCONNECTED"} /\ (a.thrown => a.st = m.st)
  BY <1>1, <1>2, <1>7, <1>11 DEF SockRead, SameRest, SameOut, Drops, Socks, Top, Elements, ssl
<1>13. Control(a) /\ Begins(a.tx, All(a, w)) /\ Lower(a) /\ Due(a, w)
  BY <1>1, <1>2, <1>7, <1>8, <1>10, <1>11, <1>12, ReadElsewhere
<1>14. Unheard(a, n, t) \/ Long(a, n, t)
  BY <1>1, <1>2, <1>7, <1>9, <1>11, ReadAnswer DEF SocksReady, Over
<1>15. CASE a.thrown
  <2>1. e = a
    BY <1>5, <1>6, <1>15
  <2>2. Sound(caught(a, 1), w, n, t)
    BY <1>11, <1>12, <1>13, <1>14, <1>15, CaughtFirst DEF Long
  <2>3. a.st[2] = "CONNECTING" /\ a.s[1]
    BY <1>7, <1>12, <1>15
  <2>4. QED
    BY <1>11, <1>12, <1>15, <2>1, <2>2, <2>3
<1>16. CASE ~a.thrown
  <2>1. IsConn(b) /\ SockWrite(a, b, 2)
    BY <1>1, <1>6, <1>11, <1>12, <1>16, SockWriteStep
  <2>2. /\ b.kind = d.kind /\ b.stopped = d.stopped /\ b.s = m.s /\ Socks(b) /\ Top(b) = Top(d)
        /\ Elements(b) = Elements(d)
        /\ b.st[1] = d.st[1] /\ b.st[2] \in {"CONNECTING", "DISCONNECTED"}
    BY <1>1, <1>11, <1>12, <2>1 DEF SockWrite, SameRest, Drops, Socks, Top, Elements, IsConn
  <2>3. Control(b) /\ (Unheard(b, n, t) \/ Long(b, n, t))
    <3>1. Control(b)
      BY <1>1, <1>11, <1>12, <1>13, <2>1, WriteElsewhere
    <3>2. Unheard(b, n, t) \/ Long(b, n, t)
      BY <1>11, <1>12, <1>14, <1>16, <2>1, WriteAnswer DEF SocksReady, Over
    <3>3. QED
      BY <3>1, <3>2
  <2>4. /\ Begins(b.tx, All(b, w)) /\ Lower(b) /\ Due(b, w)
        /\ Top(d) = 3 => b.st[2] = "DISCONNECTED" \/ Holds(b, 2) = <<>> \/ b.thrown
    <3>1. (2 = Top(a) /\ Below(a) = <<>>) \/ Top(a) = 3
      BY <1>1, <1>12 DEF Below
    <3>2. QED
      BY <1>1, <1>11, <1>12, <1>13, <2>1, <3>1, WriteOut
  <2>5. CASE b.thrown
    <3>1. e = b
      BY <1>5, <2>5
    <3>2. Sound(caught(b, 1), w, n, t)
      BY <2>1, <2>2, <2>3, <2>4, <2>5, CaughtFirst DEF Long
    <3>3. QED
      BY <1>7, <2>1, <2>2, <2>5, <3>1, <3>2
  <2>6. CASE ~b.thrown
    <3>1. Asking(b, w, n, t)
      <4>1. Asked(b)
        BY <2>2, <2>4, <2>6 DEF Asked, Started
      <4>2. b.s[1] /\ b.st[1] \in Over
        BY <1>7, <2>2 DEF SocksReady, Over
      <4>3. QED
        BY <2>2, <2>3, <2>4, <2>6, <4>1, <4>2 DEF Asking
    <3>2. e \in handle_socks_connect(b, 2)
      BY <1>5, <2>6
    <3>3. /\ IsConn(e) /\ SameRest(b, e) /\ ~e.thrown /\ e.st[1] = b.st[1] /\ Sound(e, w, n, t)
          /\ e.st[2] = "CONNECTED" /\ Top(b) = 3 => SslReady(e, w, n, t)
      BY <2>1, <3>1, <3>2, AnswerSound
    <3>4. QED
      BY <1>7, <2>2, <3>3 DEF SameRest
  <2>7. QED
    BY <2>5, <2>6
<1>17. QED
  BY <1>15, <1>16
-----------------------------------------------------------------------------
(* One element hands over to the next *)

\* The TCP element is connected: what follows it can be started.
LEMMA FirstConnected ==
  ASSUME NEW d, IsConn(d), ~d.thrown, d.s[1], NEW w, NEW n, NEW t, Sound(d, w, n, t),
         d.kind[1] = "tcp", d.st[1] = "CONNECTING", NEW e, e = connected(d, 1)
  PROVE  /\ IsConn(e) /\ SameRest(d, e) /\ ~e.thrown /\ e.st[1] = "CONNECTED"
         /\ Top(d) = 1 => Sound(e, w, n, t)
         /\ Top(d) > 1 /\ Socks(d) => SocksReady(e, w, n, t)
         /\ Top(d) > 1 /\ ~Socks(d) => Top(d) = 2 /\ SslReady(e, w, n, t)
<1>1. /\ Elements(d) = 1..Top(d) /\ Top(d) \in 1..3 /\ 1 \in Elements(d)
      /\ DOMAIN d.st = Elements(d) /\ (Top(d) = 3 => d.kind[2] = "socks4")
      /\ \A j \in 2..Top(d) : d.kind[j] \in {"socks4", "ssl"}
  BY ShapeFacts DEF IsConn, Top
<1>2. /\ IsConn(e) /\ SameRest(d, e) /\ SameIn(d, e) /\ SameOut(d, e)
      /\ e.st = [d.st EXCEPT ![1] = "CONNECTED"] /\ e.thrown = d.thrown
  <2>1. "CONNECTED" \in States
    BY DEF States
  <2>2. QED
    BY <1>1, <2>1, SetStateKeeps DEF connected
<1>3. e.st[1] = "CONNECTED" /\ \A j \in Elements(d) : j # 1 => e.st[j] = d.st[j]
  BY <1>1, <1>2
<1>4. /\ e.kind = d.kind /\ Top(e) = Top(d) /\ Elements(e) = Elements(d) /\ All(e, w) = All(d, w)
      /\ (Socks(e) <=> Socks(d)) /\ e.s = d.s /\ e.stopped = d.stopped /\ e.reset = d.reset /\ e.tx = d.tx
      /\ e.inq = d.inq /\ e.rx = d.rx /\ (\A j : Holds(e, j) = Holds(d, j)) /\ Below(e) = Below(d)
  BY <1>2 DEF SameRest, SameIn, SameOut, Top, Elements, All, Socks, Holds, Below
<1>5. \A j \in Elements(d) : j # 1 => d.st[j] \notin Started
  BY <1>1 DEF Sound, Control, Order, Over
<1>6. Begins(d.tx, All(d, w)) /\ Lower(d) /\ Asked(d) /\ Due(d, w)
  <2>1. ~Dead(d)
    BY <1>1 DEF Dead, Over
  <2>2. QED
    BY <2>1 DEF Sound, OutInv
<1>7. Begins(e.tx, All(e, w)) /\ Lower(e) /\ Due(e, w)
  <2>1. Holds(e, Top(e)) = Holds(d, Top(d))
    BY <1>4
  <2>2. Due(e, w)
    BY <1>4, <1>6, <2>1 DEF Due
  <2>3. Lower(e)
    BY <1>1, <1>3, <1>4, <1>6 DEF Lower
  <2>4. QED
    BY <1>4, <1>6, <2>2, <2>3
<1>8. Phases(e)
  <2>1. "CONNECTED" \in StatesOf("tcp")
    BY DEF StatesOf, Over
  <2>2. QED
    BY <1>1, <1>3, <1>4, <2>1 DEF Phases, Sound, Control
<1>9. \A f : Heard(d, f, n, t) => Heard(e, f, n, t)
  BY <1>4 DEF Heard
<1>10. ASSUME Top(d) = 1 PROVE Sound(e, w, n, t)
  <2>1. Control(e)
    BY <1>1, <1>4, <1>8, <1>10 DEF Control, Order, SocketsKept
  <2>2. OutInv(e, w)
    BY <1>4, <1>7, <1>10 DEF OutInv, Asked
  <2>3. InInv(e, n, t)
    BY <1>4, <1>9, <1>10 DEF Sound, InInv, Socks
  <2>4. QED
    BY <2>1, <2>2, <2>3 DEF Sound
<1>11. ASSUME Top(d) > 1, Socks(d) PROVE SocksReady(e, w, n, t)
  <2>1. Unheard(d, n, t)
    BY <1>1, <1>11 DEF Sound, InInv, SocksIn, SocksOver, Over
  <2>2. /\ Answer(d, n, t) /\ d.inq[2] = <<>>
        /\ Top(d) = 3 => d.inq[3] = <<>> /\ (d.stopped[3] \/ (d.st[3] = "NEW" /\ n <= AnsLen))
    BY <2>1 DEF Unheard, Early, Quiet
  <2>3. Answer(e, n, t)
    BY <1>4, <2>2 DEF Answer
  <2>4. Top(d) = 3 => e.st[3] = d.st[3] /\ e.st[3] \notin Started
    BY <1>1, <1>3, <1>5
  <2>5. QED
    BY <1>2, <1>3, <1>4, <1>7, <1>8, <1>11, <2>2, <2>3, <2>4 DEF SocksReady
<1>12. ASSUME Top(d) > 1, ~Socks(d) PROVE Top(d) = 2 /\ SslReady(e, w, n, t)
  <2>1. Top(d) = 2 /\ d.kind[2] = "ssl"
    BY <1>1, <1>12 DEF Socks
  <2>2. Heard(e, 1, n, t)
    BY <1>9, <1>12 DEF Sound, InInv
  <2>3. QED
    BY <1>1, <1>2, <1>3, <1>4, <1>7, <1>12, <2>1, <2>2 DEF SslReady, Below, Over
<1>13. QED
  BY <1>2, <1>3, <1>10, <1>11, <1>12

\* The last element of a chain has nothing to start.
LEMMA HandOverLast ==
  ASSUME NEW d, NEW i \in Nat, ~HasNext(d, i), NEW e \in HandOver(d, i)
  PROVE  e = d
<1>1. i \in i..(i + 1 - 1) /\ i \in i..(i + 2 - 1)
  OBVIOUS
<1>2. StartNext({d}, i, i + 1) = {d}
  BY <1>1 DEF StartNext
<1>3. StartNext({d}, i, i + 2) = {d}
  BY <1>1 DEF StartNext
<1>4. QED
  BY <1>2, <1>3 DEF HandOver

\* What starting the elements above element i makes of a connection.
Started1(d, e, i, w, n, t) ==
  /\ IsConn(e) /\ e.kind = d.kind /\ e.stopped = d.stopped /\ e.s[1]
  /\ \A j \in Elements(d) : j <= i => e.st[j] = d.st[j]
  /\ IF e.thrown THEN Sound(caught(e, i), w, n, t) ELSE Sound(e, w, n, t)

\* The socks4 element, connected, starts the ssl element above it, if any.
LEMMA HandOverSecond ==
  ASSUME NEW d, IsConn(d), ~d.thrown, Socks(d), d.s[1], NEW w, NEW n, NEW t, Sound(d, w, n, t),
         d.st[1] \in Over, Top(d) = 3 => SslReady(d, w, n, t), NEW e \in HandOver(d, 2)
  PROVE  Started1(d, e, 2, w, n, t)
<1>1. /\ Elements(d) = 1..Top(d) /\ Top(d) \in 2..3 /\ 1 \in Elements(d) /\ 2 \in Elements(d)
  BY ShapeFacts DEF IsConn, Top, Socks
<1>2. CASE e = d
  BY <1>2 DEF Started1
<1>3. CASE Top(d) = 3 /\ e \in start(d, 3)
  <2>0. e \in start(d, Top(d)) /\ SslReady(d, w, n, t) /\ Top(d) = 3
    BY <1>3
  <2>9. /\ IsConn(e) /\ Sound(e, w, n, t) /\ e.s[1] /\ e.kind = d.kind /\ e.stopped = d.stopped
        /\ \A j \in Elements(d) : j < Top(d) => e.st[j] = d.st[j]
    BY <2>0, StartSslSound
  <2>1. /\ IsConn(e) /\ Sound(e, w, n, t) /\ e.s[1] /\ e.kind = d.kind /\ e.stopped = d.stopped
        /\ \A j \in Elements(d) : j < 3 => e.st[j] = d.st[j]
    BY <2>0, <2>9
  <2>2. Top(e) = 3 /\ Elements(e) = Elements(d) /\ e.st[1] = d.st[1]
    BY <1>1, <1>3, <2>1 DEF Top, Elements
  <2>3. Sound(caught(e, 2), w, n, t)
    BY <1>1, <2>1, <2>2, CaughtSound
  <2>4. \A j \in Elements(d) : j <= 2 => e.st[j] = d.st[j]
    BY <1>1, <2>1
  <2>5. QED
    BY <2>1, <2>3, <2>4 DEF Started1
<1>4. e = d \/ (Top(d) = 3 /\ e \in start(d, 3))
  <2>1. PICK f \in StartNext({d}, 2, 3) :
          e \in IF \A k \in 2..3 : HasNext(f, k) /\ f.st[k] = "CONNECTED" THEN start(f, 4) ELSE {f}
    BY DEF HandOver, StartNext
  <2>2. f \in IF \A k \in 2..2 : HasNext(d, k) /\ d.st[k] = "CONNECTED" THEN start(d, 3) ELSE {d}
    BY <2>1 DEF StartNext
  <2>3. HasNext(d, 2) => Top(d) = 3
    BY <1>1 DEF HasNext, Top
  <2>4. f = d \/ (Top(d) = 3 /\ f \in start(d, 3))
    BY <2>2, <2>3
  <2>5. Top(f) <= 3
    <3>1. ASSUME Top(d) = 3, f \in start(d, 3) PROVE f.kind = d.kind
      <4>1. f \in start(d, Top(d)) /\ SslReady(d, w, n, t)
        BY <3>1
      <4>2. QED
        BY <4>1, StartSslSound
    <3>2. f.kind = d.kind
      BY <2>4, <3>1
    <3>3. Top(f) = Top(d)
      BY <3>2 DEF Top
    <3>4. QED
      BY <1>1, <3>3
  <2>6. ~HasNext(f, 3)
    BY <2>5 DEF HasNext, Top
  <2>7. e = f
    BY <2>1, <2>6
  <2>8. QED
    BY <2>4, <2>7
<1>5. QED
  BY <1>2, <1>3, <1>4

\* The TCP element, connected, starts what is above it, which may go on at
\* once.
LEMMA HandOverFirst ==
  ASSUME NEW d, IsConn(d), ~d.thrown, d.s[1], NEW w, NEW n \in Nat, NEW t, Sound(d, w, n, t),
         d.kind[1] = "tcp", d.st[1] = "CONNECTING", NEW e \in ev_connected(d, 1)
  PROVE  Started1(connected(d, 1), e, 1, w, n, t)
<1> DEFINE m == connected(d, 1)
<1>1. /\ IsConn(m) /\ SameRest(d, m) /\ ~m.thrown /\ m.st[1] = "CONNECTED"
      /\ Top(d) = 1 => Sound(m, w, n, t)
      /\ Top(d) > 1 /\ Socks(d) => SocksReady(m, w, n, t)
      /\ Top(d) > 1 /\ ~Socks(d) => Top(d) = 2 /\ SslReady(m, w, n, t)
  BY FirstConnected
<1>2. e \in HandOver(m, 1)
  BY DEF ev_connected
<1> HIDE DEF m
<1>3. /\ m.kind = d.kind /\ Top(m) = Top(d) /\ m.s[1] /\ (Socks(m) <=> Socks(d))
      /\ Elements(m) = 1..Top(d) /\ Top(d) \in 1..3 /\ 1 \in Elements(m)
  BY <1>1, ShapeFacts DEF SameRest, Top, Socks, IsConn
<1>4. PICK f \in StartNext({m}, 1, 2) :
        e \in IF \A k \in 1..2 : HasNext(f, k) /\ f.st[k] = "CONNECTED" THEN start(f, 3) ELSE {f}
  BY <1>2 DEF HandOver, StartNext
<1>5. f \in IF \A k \in 1..1 : HasNext(m, k) /\ m.st[k] = "CONNECTED" THEN start(m, 2) ELSE {m}
  BY <1>4 DEF StartNext
<1>6. CASE Top(d) = 1
  <2>1. ~HasNext(m, 1)
    BY <1>3, <1>6 DEF HasNext, Top
  <2>2. f = m
    BY <1>5, <2>1
  <2>3. e = m
    BY <1>4, <2>1, <2>2
  <2>4. QED
    BY <1>1, <1>3, <1>6, <2>3 DEF Started1, m
<1>7. CASE Top(d) > 1
  <2>1. d.kind[2] # "sslin"
    BY <1>3, <1>7, ShapeFacts DEF IsConn, Top
  <2>2. HasNext(m, 1)
    BY <1>3, <1>7, <2>1 DEF HasNext, Top
  <2>3. f \in start(m, 2)
    BY <1>1, <1>5, <2>2
  <2>4. CASE ~Socks(d)
    <3>1. Top(m) = 2 /\ SslReady(m, w, n, t)
      BY <1>1, <1>3, <1>7, <2>4
    <3>2. /\ IsConn(f) /\ Sound(f, w, n, t) /\ f.s[1] /\ f.kind = m.kind /\ f.stopped = m.stopped
          /\ \A j \in Elements(m) : j < 2 => f.st[j] = m.st[j]
      BY <1>1, <2>3, <3>1, StartSslSound
    <3>3. ~HasNext(f, 2)
      BY <3>1, <3>2 DEF HasNext, Top
    <3>4. e = f
      BY <1>4, <3>3
    <3>5. Sound(caught(e, 1), w, n, t)
      <4> DEFINE i == 1
      <4>1. i \in Elements(e) /\ i # 2 /\ i # 3
        BY <1>3, <3>2, <3>4 DEF Elements
      <4> HIDE DEF i
      <4>2. Sound(caught(e, i), w, n, t)
        BY <3>2, <3>4, <4>1, CaughtSound
      <4>3. QED
        BY <4>2 DEF i
    <3>6. QED
      BY <1>3, <3>2, <3>4, <3>5 DEF Started1, m
  <2>5. CASE Socks(d)
    <3>1. SocksReady(m, w, n, t)
      BY <1>1, <1>7, <2>5
    <3>2. /\ IsConn(f) /\ f.kind = m.kind /\ f.stopped = m.stopped /\ f.s[1] /\ f.st[1] = m.st[1]
          /\ IF f.thrown THEN Sound(caught(f, 1), w, n, t) /\ f.st[2] # "CONNECTED"
             ELSE Sound(f, w, n, t)
          /\ f.st[2] = "CONNECTED" /\ Top(m) = 3 => SslReady(f, w, n, t)
      BY <1>1, <2>3, <3>1, StartSocksSound
    <3>3. CASE e = f
      BY <1>3, <3>2, <3>3 DEF Started1, m
    <3>4. CASE Top(d) = 3 /\ f.st[2] = "CONNECTED" /\ e \in start(f, 3)
      <4>1. Top(f) = 3 /\ SslReady(f, w, n, t) /\ Elements(f) = Elements(m)
        BY <1>3, <3>2, <3>4 DEF Top, Elements
      <4>2. /\ IsConn(e) /\ Sound(e, w, n, t) /\ e.s[1] /\ e.kind = f.kind /\ e.stopped = f.stopped
            /\ \A j \in Elements(f) : j < 3 => e.st[j] = f.st[j]
        BY <3>2, <3>4, <4>1, StartSslSound
      <4>3. Sound(caught(e, 1), w, n, t)
        <5> DEFINE i == 1
        <5>1. i \in Elements(e) /\ i # 2 /\ i # 3
          BY <1>3, <3>2, <4>2 DEF Elements
        <5> HIDE DEF i
        <5>2. Sound(caught(e, i), w, n, t)
          BY <4>2, <5>1, CaughtSound
        <5>3. QED
          BY <5>2 DEF i
      <4>4. e.st[1] = m.st[1]
        BY <1>3, <3>2, <4>1, <4>2
      <4>5. QED
        BY <1>3, <3>2, <4>2, <4>3, <4>4 DEF Started1, m
    <3>5. e = f \/ (Top(d) = 3 /\ f.st[2] = "CONNECTED" /\ e \in start(f, 3))
      <4>1. HasNext(f, 2) => Top(d) = 3
        BY <1>3, <3>2 DEF HasNext, Top
      <4>2. QED
        BY <1>4, <4>1
    <3>6. QED
      BY <3>3, <3>4, <3>5
  <2>6. QED
    BY <2>4, <2>5
<1>8. QED
  BY <1>3, <1>6, <1>7
-----------------------------------------------------------------------------
(* What a handler of element i that the loop calls can leave behind *)

Result(d, e, i, w, n, t) ==
  /\ IsConn(e) /\ e.kind = d.kind /\ (d.st[1] \in Over => e.st[1] \in Over)
  /\ IF e.thrown THEN Sound(caught(e, i), w, n, t) ELSE Sound(e, w, n, t)

\* No element but i that has a next one is newly connected.
NoOther(d, e, i) ==
  \A j \in Elements(d) : j # i /\ j < Top(d) /\ e.st[j] = "CONNECTED" => d.st[j] = "CONNECTED"

\* The handshake of an ssl element, at either of its two handlers.
LEMMA SslMay ==
  ASSUME NEW d, IsConn(d), ~d.thrown, NEW i \in Elements(d), ssl(d, i), d.s[1],
         NEW w, NEW n, NEW t, Sound(d, w, n, t), d.st[i] \in {"CONNECTING", "ACCEPTING"},
         NEW e \in AndNext(handshake(d, i), i)
  PROVE  Result(d, e, i, w, n, t) /\ NoOther(d, e, i)
<1>1. /\ Elements(d) = 1..Top(d) /\ Top(d) \in 1..3 /\ i \in 1..3 /\ i = Top(d) /\ i > 1
      /\ DOMAIN d.st = Elements(d)
      /\ i = 3 => d.kind[3] = "ssl" /\ d.kind[1] = "tcp"
  <2>1. /\ Elements(d) = 1..Top(d) /\ Top(d) \in 1..3 /\ i \in 1..Top(d)
        /\ d.kind[1] \notin {"ssl", "sslin"} /\ DOMAIN d.st = Elements(d)
    BY ShapeFacts DEF IsConn, Top
  <2>2. d.kind[i] \in {"ssl", "sslin"}
    BY DEF ssl
  <2>3. d.kind[i] = "ssl" => i = Top(d) /\ d.kind[1] = "tcp"
    BY <2>1, ShapeFacts DEF IsConn, Top
  <2>4. d.kind[i] = "sslin" => i = 2 /\ i = Top(d)
    BY <2>1, ShapeFacts DEF IsConn, Top
  <2>5. QED
    BY <2>1, <2>2, <2>3, <2>4
<1>2. PICK f \in handshake(d, i) : e \in IF f.st[i] = "CONNECTED" THEN HandOver(f, i) ELSE {f}
  BY DEF AndNext
<1>3. /\ IsConn(f) /\ SameRest(d, f) /\ Sound(f, w, n, t)
      /\ f.st = d.st \/ (f.st = [d.st EXCEPT ![i] = "CONNECTED"] /\ ~f.thrown)
  BY <1>1, HandshakeSound
<1>4. f.kind = d.kind /\ Elements(f) = Elements(d) /\ Top(f) = Top(d)
  BY <1>3 DEF SameRest, Elements, Top
<1>5. e = f
  <2>1. ~HasNext(f, i) /\ i \in Nat
    BY <1>1, <1>4 DEF HasNext, Top
  <2>2. QED
    BY <1>2, <2>1, HandOverLast
<1>6. \A j \in Elements(d) : j # i => f.st[j] = d.st[j]
  BY <1>1, <1>3
<1>7. i = 3 => f.st[3] \in Started
  <2>1. i = 3 => d.st[3] = "CONNECTING"
    BY <1>1 DEF Sound, Control, Phases, StatesOf, Over
  <2>2. i = 3 => f.st[3] \in {"CONNECTING", "CONNECTED"}
    BY <1>1, <1>3, <2>1
  <2>3. QED
    BY <2>2 DEF Started
<1>8. Sound(caught(f, i), w, n, t)
  BY <1>1, <1>3, <1>4, <1>7, CaughtSound
<1>9. QED
  BY <1>1, <1>3, <1>4, <1>5, <1>6, <1>8 DEF Result, NoOther

\* Reading and writing, the connection being there.
LEMMA ReadResult ==
  ASSUME NEW d, IsConn(d), ~d.thrown, NEW i \in Elements(d), NEW w, NEW n \in Nat, NEW t \in Bytes,
         Sound(d, w, n, t), d.st[i] = "CONNECTED", i = Top(d), NEW e \in ev_sockread(d, i)
  PROVE  Result(d, e, i, w, n, t) /\ NoOther(d, e, i)
<1>1. /\ Elements(d) = 1..Top(d) /\ Top(d) \in 1..3 /\ i \in 1..3 /\ DOMAIN d.st = Elements(d)
  BY ShapeFacts DEF IsConn, Top
<1>2. IsConn(e) /\ SockRead(d, e, i) /\ Sound(e, w, n, t)
  BY ReadSound
<1>3. /\ e.kind = d.kind /\ Elements(e) = Elements(d) /\ Top(e) = Top(d)
      /\ e.st = d.st \/ (e.st = [d.st EXCEPT ![i] = "DISCONNECTED"] /\ e.thrown = d.thrown)
  BY <1>2 DEF SockRead, SameRest, Elements, Top, Drops
<1>4. /\ \A j \in Elements(d) : j # i => e.st[j] = d.st[j]
      /\ e.st[i] \in Over /\ (e.thrown => e.st[i] = "CONNECTED")
  BY <1>1, <1>3 DEF Over
<1>5. e.thrown => Sound(caught(e, i), w, n, t)
  <2>1. e.thrown => (i = 3 => e.st[3] \in Started)
    BY <1>4 DEF Started
  <2>2. e.thrown => (Top(e) = 3 /\ i = 2 => e.st[1] \in Over)
    BY <1>3
  <2>3. QED
    BY <1>2, <1>3, <2>1, <2>2, CaughtSound
<1>6. d.st[1] \in Over => e.st[1] \in Over
  BY <1>1, <1>4
<1>7. QED
  BY <1>2, <1>3, <1>4, <1>5, <1>6 DEF Result, NoOther

\* ev_sockwrite() of a started element.
LEMMA WriteResult ==
  ASSUME NEW d, IsConn(d), ~d.thrown, NEW i \in Elements(d), NEW w, NEW n \in Nat, NEW t \in Bytes,
         Sound(d, w, n, t), d.st[i] \in Started, NEW e \in ev_sockwrite(d, i)
  PROVE  Result(d, e, i, w, n, t) /\ NoOther(d, e, i)
<1>1. /\ Elements(d) = 1..Top(d) /\ Top(d) \in 1..3 /\ i \in 1..3 /\ DOMAIN d.st = Elements(d)
  BY ShapeFacts DEF IsConn, Top
<1>2. /\ IsConn(e) /\ SockWrite(d, e, i)
      /\ IF e.thrown THEN Sound(caught(e, i), w, n, t) ELSE Sound(e, w, n, t)
  BY WriteSound
<1>3. e.kind = d.kind /\ (e.st = d.st \/ e.st = [d.st EXCEPT ![i] = "DISCONNECTED"])
  BY <1>2 DEF SockWrite, SameRest, Drops
<1>4. /\ \A j \in Elements(d) : j # i => e.st[j] = d.st[j]
      /\ e.st[i] = d.st[i] \/ e.st[i] = "DISCONNECTED"
  BY <1>1, <1>3
<1>5. d.st[1] \in Over => e.st[1] \in Over
  BY <1>1, <1>4 DEF Over
<1>6. QED
  BY <1>2, <1>3, <1>4, <1>5 DEF Result, NoOther

\* An element that has nothing to do.
LEMMA NothingResult ==
  ASSUME NEW d, IsConn(d), ~d.thrown, NEW i, NEW w, NEW n, NEW t, Sound(d, w, n, t)
  PROVE  Result(d, d, i, w, n, t) /\ NoOther(d, d, i)
BY DEF Result, NoOther

\* The socks4 element waits for the answer.
LEMMA SocksMay ==
  ASSUME NEW d, IsConn(d), ~d.thrown, Socks(d), d.s[1],
         NEW w, NEW n \in Nat, NEW t \in Bytes, Sound(d, w, n, t), d.st[2] = "CONNECTING",
         NEW e \in AndNext(Then(ev_sockread(d, 2), LAMBDA x : handle_socks_connect(x, 2)), 2)
  PROVE  Result(d, e, 2, w, n, t) /\ NoOther(d, e, 2)
<1>1. /\ Elements(d) = 1..Top(d) /\ Top(d) \in 2..3 /\ 1 \in Elements(d) /\ 2 \in Elements(d)
      /\ DOMAIN d.st = Elements(d)
  BY ShapeFacts DEF IsConn, Top, Socks
<1>2. PICK g \in Then(ev_sockread(d, 2), LAMBDA x : handle_socks_connect(x, 2)) :
        e \in IF g.st[2] = "CONNECTED" THEN HandOver(g, 2) ELSE {g}
  BY DEF AndNext
<1>3. PICK f \in ev_sockread(d, 2) : g \in IF f.thrown THEN {f} ELSE handle_socks_connect(f, 2)
  BY <1>2 DEF Then
<1>4. IsConn(f) /\ SockRead(d, f, 2)
  BY <1>1, SockReadStep
<1>5. d.st[1] \in Over
  <2>1. d.kind[1] = "tcp"
    BY ShapeFacts DEF IsConn, Socks, Top
  <2>2. d.st[2] \in Started
    BY DEF Started
  <2>3. QED
    BY <1>1, <2>1, <2>2 DEF Sound, Control, Order
<1>6. /\ f.kind = d.kind /\ Elements(f) = Elements(d) /\ Top(f) = Top(d) /\ Socks(f) /\ f.s[1]
      /\ f.st = d.st \/ (f.st = [d.st EXCEPT ![2] = "DISCONNECTED"] /\ f.thrown = d.thrown)
  BY <1>4 DEF SockRead, SameRest, Elements, Top, Socks, Drops
<1>7. /\ \A j \in Elements(d) : j # 2 => f.st[j] = d.st[j]
      /\ f.st[2] \in {"CONNECTING", "DISCONNECTED"}
  BY <1>1, <1>6
<1>8. Unheard(d, n, t)
  <2>1. ~SocksOver(d)
    BY DEF SocksOver, Over
  <2>2. d.kind[1] # "listen"
    BY ShapeFacts DEF IsConn, Socks, Top
  <2>3. QED
    BY <2>1, <2>2 DEF Sound, InInv, SocksIn
<1>9. Unheard(f, n, t) \/ Long(f, n, t)
  BY <1>4, <1>5, <1>8, ReadAnswer
<1>10. Lower(d) /\ Due(d, w) /\ Control(d) /\ OutInv(d, w)
  <2>1. ~Dead(d)
    BY <1>1 DEF Dead, Over
  <2>2. QED
    BY <2>1 DEF Sound, OutInv
<1>11. Control(f) /\ OutInv(f, w) /\ Lower(f) /\ Due(f, w)
  <2> DEFINE i == 2
  <2>1. i \in Elements(d) /\ SockRead(d, f, i) /\ d.st[i] # "FAILED" /\ i # 3
    BY <1>1, <1>4
  <2> HIDE DEF i
  <2>2. QED
    BY <1>4, <1>10, <2>1, ReadElsewhere
<1>12. CASE f.thrown
  <2>1. e = f
    BY <1>2, <1>3, <1>7, <1>12
  <2>2. Unheard(f, n, t)
    BY <1>9, <1>12 DEF Long
  <2>3. Sound(f, w, n, t)
    BY <1>6, <1>11, <2>2 DEF Sound, InInv, SocksIn
  <2>4. Sound(caught(f, 2), w, n, t)
    <3> DEFINE i == 2
    <3>1. i \in Elements(f) /\ i # 3 /\ f.st[1] \in Over
      BY <1>1, <1>5, <1>6, <1>7
    <3> HIDE DEF i
    <3>2. Sound(caught(f, i), w, n, t)
      BY <1>4, <2>3, <3>1, CaughtSound
    <3>3. QED
      BY <3>2 DEF i
  <2>5. QED
    BY <1>1, <1>4, <1>5, <1>6, <1>7, <1>12, <2>1, <2>4 DEF Result, NoOther
<1>13. CASE ~f.thrown
  <2>1. g \in handle_socks_connect(f, 2)
    BY <1>3, <1>13
  <2>2. Asking(f, w, n, t)
    BY <1>1, <1>5, <1>6, <1>7, <1>9, <1>11, <1>13 DEF Asking, OutInv
  <2>3. /\ IsConn(g) /\ SameRest(f, g) /\ ~g.thrown /\ g.st[1] = f.st[1] /\ Sound(g, w, n, t)
        /\ g.st[2] = "CONNECTED" /\ Top(f) = 3 => SslReady(g, w, n, t)
    BY <1>4, <2>1, <2>2, AnswerSound
  <2>4. g.kind = d.kind /\ g.st[1] = d.st[1] /\ Top(g) = Top(d) /\ Elements(g) = Elements(d) /\ Socks(g) /\ g.s[1]
    BY <1>1, <1>6, <1>7, <2>3 DEF SameRest, Top, Elements, Socks
  <2>5. CASE e = g
    BY <1>1, <1>5, <2>3, <2>4, <2>5 DEF Result, NoOther
  <2>6. CASE g.st[2] = "CONNECTED" /\ e \in HandOver(g, 2)
    <3>1. Started1(g, e, 2, w, n, t)
      BY <1>5, <1>6, <2>3, <2>4, <2>6, HandOverSecond
    <3>2. e.st[1] = d.st[1]
      BY <1>1, <2>4, <3>1 DEF Started1
    <3>3. QED
      BY <1>1, <1>5, <2>4, <3>1, <3>2 DEF Result, NoOther, Started1
  <2>7. QED
    BY <1>2, <2>5, <2>6
<1>14. QED
  BY <1>12, <1>13

\* The first element fails, or takes a connection that came in.
LEMMA FailsFirst ==
  ASSUME NEW d, IsConn(d), ~d.thrown, NEW w, NEW n, NEW t, Sound(d, w, n, t), NEW e, e = fail(d, 1)
  PROVE  Result(d, e, 1, w, n, t) /\ NoOther(d, e, 1)
<1> DEFINE i == 1
<1>1. i \in Elements(d) /\ 1 \in Elements(d)
  BY ShapeFacts DEF IsConn
<1>2. i = 1 /\ e = fail(d, i)
  OBVIOUS
<1> HIDE DEF i
<1>3. IsConn(e) /\ Failed(d, e, i) /\ e.thrown = d.thrown
  BY <1>1, <1>2, FailKeeps
<1>4. Sound(e, w, n, t)
  BY <1>1, <1>2, FailSound
<1>5. /\ e.kind = d.kind /\ e.st[1] = "FAILED"
      /\ \A j \in Elements(d) : e.st[j] = d.st[j] \/ e.st[j] = "FAILED"
  BY <1>2, <1>3 DEF Failed, SameRest
<1>6. QED
  BY <1>3, <1>4, <1>5 DEF Result, NoOther, Over

\* A listening element takes a connection: nothing else changes.
LEMMA AcceptsResult ==
  ASSUME NEW d, IsConn(d), ~d.thrown, NEW w, NEW n, NEW t, Sound(d, w, n, t), d.st[1] = "LISTENING",
         NEW e, e = [d EXCEPT !.rx = SubSeq(@, 2, Len(@))]
  PROVE  Result(d, e, 1, w, n, t) /\ NoOther(d, e, 1)
<1>1. d.kind[1] = "listen"
  <2>1. d.st[1] \in StatesOf(d.kind[1]) /\ d.kind[1] \in {"tcp", "accepted", "listen"}
    BY ShapeFacts DEF IsConn, Sound, Control, Phases
  <2>2. QED
    BY <2>1 DEF StatesOf, Over
<1>2. SubSeq(d.rx, 2, Len(d.rx)) \in Bytes
  BY DEF IsConn, Bytes
<1>r. IsRecord(d)
  BY DEF IsConn
<1>3. IsRecord(e) /\ e.rx = SubSeq(d.rx, 2, Len(d.rx))
  BY <1>r DEF IsRecord
<1>4. SameRest(d, e) /\ SameOut(d, e) /\ e.inq = d.inq /\ e.st = d.st /\ e.thrown = d.thrown /\ e.shut = d.shut
  BY <1>r DEF IsRecord, SameRest, SameOut
<1>5. IsConn(e)
  BY <1>2, <1>3, <1>4 DEF IsConn, SameRest, SameOut, Elements
<1>6. Control(e)
  BY <1>4, SameControl DEF Sound, SameRest
<1>7. OutInv(e, w)
  BY <1>4, SameOutgoing DEF Sound, SameRest
<1>8. InInv(e, n, t)
  BY <1>1, <1>4 DEF InInv, SameRest
<1>9. QED
  BY <1>4, <1>5, <1>6, <1>7, <1>8 DEF Result, NoOther, Sound, SameRest

\* The handler of an element for the descriptor being readable.
LEMMA MayReadResult ==
  ASSUME NEW d, IsConn(d), ~d.thrown, d.s[1], NEW i \in Elements(d),
         NEW w, NEW n \in Nat, NEW t \in Bytes, Sound(d, w, n, t),
         d.st[i] = "CONNECTED" => i = Top(d), NEW e \in mayread(d, i)
  PROVE  Result(d, e, i, w, n, t) /\ NoOther(d, e, i)
<1>1. /\ Elements(d) = 1..Top(d) /\ Top(d) \in 1..3 /\ i \in 1..3 /\ DOMAIN d.st = Elements(d)
      /\ d.kind[1] \in {"tcp", "accepted", "listen"}
  BY ShapeFacts DEF IsConn, Top
<1>2. d.st[i] \in StatesOf(d.kind[i])
  BY DEF Sound, Control, Phases
<1>3. CASE e = d
  BY <1>3, NothingResult
<1>4. CASE d.st[i] = "CONNECTED" /\ e \in ev_sockread(d, i)
  BY <1>4, ReadResult
<1>5. CASE ssl(d, i)
  <2>1. \/ d.st[i] \in {"CONNECTING", "ACCEPTING"} /\ e \in AndNext(handshake(d, i), i)
        \/ d.st[i] = "CONNECTED" /\ e \in ev_sockread(d, i)
        \/ e = d
    BY <1>5 DEF mayread, sslmayread, sslmay
  <2>2. CASE d.st[i] \in {"CONNECTING", "ACCEPTING"} /\ e \in AndNext(handshake(d, i), i)
    BY <1>5, <2>2, SslMay
  <2>3. QED
    BY <1>3, <1>4, <2>1, <2>2
<1>6. CASE ~ssl(d, i) /\ d.kind[i] = "socks4"
  <2>1. i = 2 /\ Socks(d)
    BY <1>1, <1>6, ShapeFacts DEF IsConn, Top, Socks
  <2>2. \/ /\ d.st[2] = "CONNECTING"
           /\ e \in AndNext(Then(ev_sockread(d, 2), LAMBDA x : handle_socks_connect(x, 2)), 2)
        \/ d.st[i] = "CONNECTED" /\ e \in ev_sockread(d, i)
        \/ e = d
    BY <1>6, <2>1 DEF mayread, socksmayread
  <2>3. CASE /\ d.st[2] = "CONNECTING"
             /\ e \in AndNext(Then(ev_sockread(d, 2), LAMBDA x : handle_socks_connect(x, 2)), 2)
    BY <2>1, <2>3, SocksMay
  <2>4. QED
    BY <1>3, <1>4, <2>2, <2>3
<1>7. CASE ~ssl(d, i) /\ d.kind[i] # "socks4"
  <2>1. i = 1
    BY <1>1, <1>7, ShapeFacts DEF IsConn, Top, ssl
  <2>2. \/ d.st[1] = "CONNECTING" /\ e = fail(d, 1)
        \/ d.st[1] = "LISTENING" /\ e = [d EXCEPT !.rx = SubSeq(@, 2, Len(@))]
        \/ d.st[i] = "CONNECTED" /\ e \in ev_sockread(d, i)
        \/ e = d
    BY <1>7, <2>1 DEF mayread, tcpmayread
  <2>3. CASE d.st[1] = "CONNECTING" /\ e = fail(d, 1)
    BY <2>1, <2>3, FailsFirst
  <2>4. CASE d.st[1] = "LISTENING" /\ e = [d EXCEPT !.rx = SubSeq(@, 2, Len(@))]
    BY <2>1, <2>4, AcceptsResult
  <2>5. QED
    BY <1>3, <1>4, <2>2, <2>3, <2>4
<1>8. QED
  BY <1>5, <1>6, <1>7

\* The handler of an element for the descriptor being writable.  The TCP
\* element that is connected may find all that follows it connected at once.
LEMMA MayWriteResult ==
  ASSUME NEW d, IsConn(d), ~d.thrown, d.s[1], NEW i \in Elements(d),
         NEW w, NEW n \in Nat, NEW t \in Bytes, Sound(d, w, n, t), NEW e \in maywrite(d, i)
  PROVE  /\ Result(d, e, i, w, n, t)
         /\ NoOther(d, e, i) \/ (d.kind[1] = "tcp" /\ d.st[1] = "CONNECTING" /\ i = 1)
<1>1. /\ Elements(d) = 1..Top(d) /\ Top(d) \in 1..3 /\ i \in 1..3 /\ DOMAIN d.st = Elements(d)
      /\ d.kind[1] \in {"tcp", "accepted", "listen"}
  BY ShapeFacts DEF IsConn, Top
<1>2. d.st[i] \in StatesOf(d.kind[i])
  BY DEF Sound, Control, Phases
<1>3. CASE e = d
  BY <1>3, NothingResult
<1>4. CASE d.st[i] \in Started /\ e \in ev_sockwrite(d, i)
  BY <1>4, WriteResult
<1>5. CASE ssl(d, i)
  <2>1. \/ d.st[i] \in {"CONNECTING", "ACCEPTING"} /\ e \in AndNext(handshake(d, i), i)
        \/ d.st[i] = "CONNECTED" /\ e \in ev_sockwrite(d, i)
        \/ e = d
    BY <1>5 DEF maywrite, sslmaywrite, sslmay
  <2>2. CASE d.st[i] \in {"CONNECTING", "ACCEPTING"} /\ e \in AndNext(handshake(d, i), i)
    BY <1>5, <2>2, SslMay
  <2>3. QED
    BY <1>3, <1>4, <2>1, <2>2 DEF Started
<1>6. CASE ~ssl(d, i) /\ d.kind[i] = "socks4"
  <2>1. (d.st[i] \in {"CONNECTING", "CONNECTED"} /\ e \in ev_sockwrite(d, i)) \/ e = d
    BY <1>6 DEF maywrite, socksmaywrite
  <2>2. QED
    BY <1>3, <1>4, <2>1 DEF Started
<1>7. CASE ~ssl(d, i) /\ d.kind[i] # "socks4"
  <2>1. i = 1
    BY <1>1, <1>7, ShapeFacts DEF IsConn, Top, ssl
  <2>2. \/ d.st[1] = "CONNECTING" /\ e \in ev_connected(d, 1)
        \/ d.st[1] \in {"CONNECTING", "LISTENING"} /\ e = fail(d, 1)
        \/ d.st[i] = "CONNECTED" /\ e \in ev_sockwrite(d, i)
        \/ e = d
    BY <1>7, <2>1 DEF maywrite, tcpmaywrite
  <2>3. CASE d.st[1] \in {"CONNECTING", "LISTENING"} /\ e = fail(d, 1)
    BY <2>1, <2>3, FailsFirst
  <2>4. CASE d.st[1] = "CONNECTING" /\ e \in ev_connected(d, 1)
    <3>1. d.kind[1] = "tcp"
      BY <1>1, <1>2, <2>1, <2>4 DEF StatesOf, Over
    <3>2. Started1(connected(d, 1), e, 1, w, n, t)
      BY <2>4, <3>1, HandOverFirst
    <3>3. /\ connected(d, 1).kind = d.kind /\ connected(d, 1).st[1] = "CONNECTED"
          /\ 1 \in Elements(connected(d, 1))
      <4>1. SameRest(d, connected(d, 1)) /\ connected(d, 1).st[1] = "CONNECTED"
        <5> DEFINE m == connected(d, 1)
        <5>1. m = connected(d, 1)
          OBVIOUS
        <5> HIDE DEF m
        <5>2. SameRest(d, m) /\ m.st[1] = "CONNECTED"
          BY <2>4, <3>1, <5>1, FirstConnected
        <5>3. QED
          BY <5>2 DEF m
      <4>2. QED
        BY <1>1, <4>1 DEF SameRest, Elements
    <3>4. /\ IsConn(e) /\ e.kind = d.kind /\ e.st[1] = "CONNECTED"
          /\ IF e.thrown THEN Sound(caught(e, 1), w, n, t) ELSE Sound(e, w, n, t)
      BY <3>2, <3>3 DEF Started1
    <3>5. QED
      BY <2>1, <2>4, <3>1, <3>4 DEF Result, Over
  <2>5. QED
    BY <1>3, <1>4, <2>2, <2>3, <2>4 DEF Started
<1>8. QED
  BY <1>5, <1>6, <1>7
-----------------------------------------------------------------------------
(* What the user does *)

\* The user starts the chain: only the TCP element leaves NEW.
LEMMA StartSound ==
  ASSUME NEW d, IsConn(d), ~d.thrown, NEW w, NEW n, NEW t, Sound(d, w, n, t),
         d.kind[1] = "tcp", d.st[1] = "NEW", NEW e \in start(d, 1)
  PROVE  /\ IsConn(e) /\ ~e.thrown /\ e.kind = d.kind /\ Sound(e, w, n, t)
         /\ e.st = [d.st EXCEPT ![1] = "CONNECTING"]
<1> DEFINE m == started(d, 1)
<1>1. /\ Elements(d) = 1..Top(d) /\ Top(d) \in 1..3 /\ 1 \in Elements(d) /\ DOMAIN d.st = Elements(d)
      /\ DOMAIN d.s = Elements(d) /\ (Socks(d) => 2 \in Elements(d)) /\ (Top(d) = 3 => 2 \in Elements(d) /\ 3 \in Elements(d))
  BY ShapeFacts DEF IsConn, Top, Socks
<1>2. /\ IsConn(m) /\ SameIn(d, m) /\ SameOut(d, m) /\ m.st = [d.st EXCEPT ![1] = "CONNECTING"]
      /\ m.kind = d.kind /\ m.stopped = d.stopped /\ m.reset = d.reset /\ m.thrown = d.thrown
      /\ m.shut = d.shut /\ m.s = [d.s EXCEPT ![1] = TRUE]
  BY <1>1, StartedKeeps
<1>3. e = [m EXCEPT !.conn = "pending"]
  BY DEF start, tcpstart
<1> HIDE DEF m
<1>r. IsRecord(m)
  BY <1>2 DEF IsConn
<1>4. /\ IsRecord(e) /\ SameIn(d, e) /\ SameOut(d, e) /\ e.st = m.st /\ e.late = m.late /\ e.fin = m.fin /\ e.answer = m.answer
      /\ e.kind = d.kind /\ e.stopped = d.stopped /\ e.reset = d.reset /\ e.thrown = d.thrown
      /\ e.shut = d.shut /\ e.s = m.s
  BY <1>2, <1>3, <1>r DEF IsRecord, SameIn, SameOut
<1>5. IsConn(e)
  BY <1>2, <1>4 DEF IsConn, SameIn, SameOut, Elements
<1>6. /\ Elements(e) = Elements(d) /\ Top(e) = Top(d) /\ (Socks(e) <=> Socks(d)) /\ All(e, w) = All(d, w)
      /\ \A j : Holds(e, j) = Holds(d, j)
  BY <1>4 DEF Elements, Top, Socks, All, Holds, SameOut
<1>7. /\ e.st[1] = "CONNECTING" /\ e.s[1]
      /\ \A j \in Elements(d) : j # 1 => e.st[j] = d.st[j]
  BY <1>1, <1>2, <1>4
<1>8. \A j \in Elements(d) : j # 1 => d.st[j] \notin Started
  BY <1>1 DEF Sound, Control, Order, Over
<1>9. Phases(e)
  <2>1. "CONNECTING" \in StatesOf("tcp")
    BY DEF StatesOf
  <2>2. QED
    BY <1>1, <1>4, <1>6, <1>7, <2>1 DEF Sound, Control, Phases
<1>10. Order(e)
  BY <1>1, <1>6, <1>7, <1>8 DEF Order
<1>11. OutInv(e, w)
  <2>1. ~Dead(d)
    BY <1>1 DEF Dead, Over
  <2>2. Begins(d.tx, All(d, w)) /\ Lower(d) /\ Asked(d) /\ Due(d, w)
    BY <2>1 DEF Sound, OutInv
  <2>3. Due(e, w)
    BY <1>4, <1>6, <2>2 DEF Due, Below, SameOut
  <2>4. Lower(e) /\ Asked(e)
    BY <1>1, <1>6, <1>7, <2>2 DEF Lower, Asked
  <2>5. QED
    BY <1>4, <1>6, <2>2, <2>3, <2>4 DEF OutInv, SameOut
<1>12. InInv(e, n, t)
  <2>1. e.inq = d.inq /\ e.rx = d.rx
    BY <1>4 DEF SameIn
  <2>2. CASE ~Socks(d)
    <3>1. Heard(d, 1, n, t)
      BY <2>2 DEF Sound, InInv
    <3>2. Heard(e, 1, n, t)
      BY <1>4, <1>6, <2>1, <3>1 DEF Heard
    <3>3. QED
      BY <1>6, <2>2, <3>2 DEF InInv
  <2>3. CASE Socks(d)
    <3>1. Unheard(d, n, t)
      BY <2>3 DEF Sound, InInv, SocksIn, SocksOver, Over
    <3>2. Answer(e, n, t) /\ Len(e.inq[2]) < AnsLen
      BY <1>4, <2>1, <3>1 DEF Unheard, Answer
    <3>3. Early(e)
      BY <1>1, <1>7, <2>1, <2>3, <3>1 DEF Unheard, Early
    <3>4. Quiet(e, n)
      BY <1>1, <1>4, <1>6, <1>7, <2>1, <2>3, <3>1 DEF Unheard, Quiet
    <3>5. QED
      BY <1>6, <2>3, <3>2, <3>3, <3>4 DEF InInv, SocksIn, Unheard
  <2>4. QED
    BY <2>2, <2>3
<1>13. SocketsKept(e)
  BY <1>7 DEF SocketsKept
<1>14. QED
  BY <1>2, <1>4, <1>5, <1>9, <1>10, <1>11, <1>12, <1>13 DEF Sound, Control

Listening(d) == [SetState(d, 1, "LISTENING") EXCEPT !.conn = "listening"]

\* The user lets a socket listen.
LEMMA ListenSound ==
  ASSUME NEW d, IsConn(d), ~d.thrown, NEW w, NEW n, NEW t, Sound(d, w, n, t),
         d.kind[1] = "listen", d.st[1] = "NEW",
         NEW e, e = Listening(d)
  PROVE  /\ IsConn(e) /\ ~e.thrown /\ e.kind = d.kind /\ Sound(e, w, n, t)
         /\ e.st = [d.st EXCEPT ![1] = "LISTENING"]
<1> DEFINE m == SetState(d, 1, "LISTENING")
<1>1. /\ Elements(d) = 1..Top(d) /\ Top(d) = 1 /\ 1 \in Elements(d) /\ DOMAIN d.st = Elements(d)
  BY ShapeFacts DEF IsConn, Top
<1>2. /\ IsConn(m) /\ SameRest(d, m) /\ SameIn(d, m) /\ SameOut(d, m)
      /\ m.st = [d.st EXCEPT ![1] = "LISTENING"] /\ m.thrown = d.thrown /\ m.shut = d.shut
  <2>1. "LISTENING" \in States
    BY DEF States
  <2>2. QED
    BY <1>1, <2>1, SetStateKeeps
<1>3. e = [m EXCEPT !.conn = "listening"]
  BY DEF Listening
<1> HIDE DEF m
<1>r. IsRecord(m)
  BY <1>2 DEF IsConn
<1>4. /\ IsRecord(e) /\ SameIn(d, e) /\ SameOut(d, e) /\ e.st = m.st /\ e.late = m.late /\ e.fin = m.fin /\ e.answer = m.answer
      /\ e.kind = d.kind /\ e.stopped = d.stopped /\ e.reset = d.reset /\ e.thrown = d.thrown
      /\ e.shut = d.shut /\ e.s = d.s
  BY <1>2, <1>3, <1>r DEF IsRecord, SameIn, SameOut, SameRest
<1>5. IsConn(e)
  BY <1>2, <1>4 DEF IsConn, SameIn, SameOut, Elements
<1>6. /\ Elements(e) = Elements(d) /\ Top(e) = 1 /\ All(e, w) = All(d, w) /\ Holds(e, 1) = Holds(d, 1)
  BY <1>1, <1>4 DEF Elements, Top, Socks, All, Holds, SameOut
<1>7. e.st[1] = "LISTENING" /\ \A j \in Elements(d) : j = 1
  BY <1>1, <1>2, <1>4
<1>8. Control(e)
  <2>1. "LISTENING" \in StatesOf("listen")
    BY DEF StatesOf
  <2>2. Phases(e)
    BY <1>4, <1>6, <1>7, <2>1 DEF Phases
  <2>3. QED
    BY <1>4, <2>2 DEF Sound, Control, Order, SocketsKept
<1>9. OutInv(e, w)
  <2>1. ~Dead(d)
    BY <1>1 DEF Dead, Over
  <2>2. Begins(d.tx, All(d, w)) /\ Due(d, w)
    BY <2>1 DEF Sound, OutInv
  <2>3. Due(e, w)
    <3>1. Below(e) = Below(d)
      BY <1>1, <1>6 DEF Below
    <3>2. e.tx = d.tx
      BY <1>4 DEF SameOut
    <3>3. QED
      BY <1>1, <1>4, <1>6, <2>2, <3>1, <3>2 DEF Due
  <2>4. QED
    BY <1>4, <1>6, <2>2, <2>3 DEF OutInv, Lower, Asked, SameOut
<1>10. InInv(e, n, t)
  BY <1>4 DEF InInv
<1>11. QED
  BY <1>2, <1>4, <1>5, <1>8, <1>9, <1>10 DEF Sound

\* read() takes the first bytes of the queue.
ReadFrom(d, k) == [d EXCEPT !.inq[Top(d)] = SubSeq(@, k + 1, Len(@))]

\* read() by the user: what is taken follows what has been taken.
LEMMA TakenSound ==
  ASSUME NEW d, IsConn(d), ~d.thrown, NEW w, NEW n \in Nat, NEW t \in Bytes, Sound(d, w, n, t),
         d.st[Top(d)] = "CONNECTED", ~d.stopped[Top(d)], NEW k \in 1..Len(d.inq[Top(d)]),
         NEW e, e = ReadFrom(d, k)
  PROVE  LET u == t \o SubSeq(d.inq[Top(d)], 1, k) IN
         /\ IsConn(e) /\ ~e.thrown /\ e.kind = d.kind /\ e.st = d.st
         /\ u \in Bytes /\ Sound(e, w, n, u)
<1> DEFINE i == Top(d)
           q == d.inq[i]
           a == SubSeq(q, 1, k)
           b == SubSeq(q, k + 1, Len(q))
           u == t \o a
<1>1. /\ Elements(d) = 1..Top(d) /\ Top(d) \in 1..3 /\ i \in Elements(d) /\ DOMAIN d.inq = Elements(d)
  BY ShapeFacts DEF IsConn, Top
<1>2. q \in Bytes /\ Len(q) <= Cap /\ Len(q) \in Nat
  BY <1>1 DEF IsConn, Bytes
<1> HIDE DEF i
<1>3. a \in Bytes /\ b \in Bytes /\ q = a \o b /\ Len(b) <= Len(q)
  <2>1. k \in 0..Len(q)
    BY <1>2 DEF i
  <2> HIDE DEF q
  <2>2. a \in Bytes /\ b \in Bytes /\ q = a \o b /\ Len(a) + Len(b) = Len(q) /\ Len(a) \in Nat /\ Len(b) \in Nat
    BY <1>2, <2>1, Parts
  <2> HIDE DEF a, b
  <2>3. QED
    BY <1>2, <2>2
<1>4. e = [d EXCEPT !.inq[i] = b]
  BY DEF i, ReadFrom
<1>r. IsRecord(d)
  BY DEF IsConn
<1> HIDE DEF a, b
<1>5. IsRecord(e) /\ e.inq = [d.inq EXCEPT ![i] = b]
  BY <1>4, <1>r DEF IsRecord
<1>6. /\ SameRest(d, e) /\ SameOut(d, e) /\ e.st = d.st /\ e.thrown = d.thrown /\ e.shut = d.shut /\ e.rx = d.rx
  BY <1>4, <1>r DEF IsRecord, SameRest, SameOut
<1>7. e.inq[i] = b /\ (\A j \in Elements(d) : j # i => e.inq[j] = d.inq[j]) /\ e.inq \in [Elements(d) -> Bytes]
  <2>1. d.inq \in [Elements(d) -> Bytes]
    BY DEF IsConn
  <2>2. i \in Elements(d) /\ b \in Bytes
    BY <1>1, <1>3
  <2>3. QED
    BY <1>5, <2>1, <2>2
<1>8. \A j \in Elements(d) : Len(e.inq[j]) <= Cap /\ Len(e.outq[j]) <= Cap
  <2>1. Len(b) \in Nat
    BY <1>3 DEF Bytes
  <2>2. Len(b) <= Cap
    BY <1>2, <1>3, <2>1, SizeAssumption
  <2>3. QED
    BY <1>6, <1>7, <2>2 DEF IsConn, SameOut
<1>9. IsConn(e)
  BY <1>5, <1>6, <1>7, <1>8 DEF IsConn, SameRest, SameOut, Elements
<1>10. u \in Bytes /\ u \o b = t \o q
  <2>1. u \in Bytes
    BY <1>3, JoinedBytes
  <2>2. (t \o a) \o b = t \o (a \o b)
    BY <1>3, Joined
  <2>3. QED
    BY <1>3, <2>1, <2>2
<1>11. Control(e) /\ OutInv(e, w)
  BY <1>6, SameControl, SameOutgoing DEF Sound, SameRest
<1> HIDE DEF u
<1>12. ASSUME NEW f, Heard(d, f, n, t) PROVE Heard(e, f, n, u)
  <2>1. Top(e) = i /\ e.stopped = d.stopped /\ e.reset = d.reset
    BY <1>6 DEF SameRest, Top, i
  <2>2. /\ f <= n + 1 /\ Run(t \o q, f)
        /\ d.reset \/ d.stopped[i] \/ (t \o q) \o d.rx = Numbers(f, n)
    BY <1>12 DEF Heard, i
  <2>3. u \o e.inq[Top(e)] = t \o q
    BY <1>7, <1>10, <2>1
  <2>4. QED
    BY <1>6, <2>1, <2>2, <2>3 DEF Heard
<1>13. InInv(e, n, u)
  <2>1. e.kind = d.kind /\ (Socks(e) <=> Socks(d)) /\ (SocksOver(e) <=> SocksOver(d))
    BY <1>6 DEF SameRest, Socks, Top, SocksOver
  <2>2. CASE d.kind[1] = "listen"
    BY <2>1, <2>2 DEF InInv
  <2>3. CASE d.kind[1] # "listen" /\ ~Socks(d)
    <3>1. Heard(e, 1, n, u)
      BY <1>12, <2>3 DEF Sound, InInv
    <3>2. QED
      BY <2>1, <2>3, <3>1 DEF InInv
  <2>4. CASE d.kind[1] # "listen" /\ Socks(d)
    <3>1. i \in {2, 3}
      BY <1>1, <2>4 DEF Socks, i
    <3>2. ~Unheard(d, n, t)
      BY <3>1 DEF Unheard, Early, Quiet, Started, i
    <3>3. ~Partly(d, t)
      BY <3>1 DEF Partly, i
    <3>4. SocksOver(d) /\ Heard(d, AnsLen + 1, n, t)
      BY <2>4, <3>2, <3>3 DEF Sound, InInv, SocksIn
    <3>5. Heard(e, AnsLen + 1, n, u)
      BY <1>12, <3>4
    <3>6. QED
      BY <2>1, <2>4, <3>4, <3>5 DEF InInv, SocksIn
  <2>5. QED
    BY <2>2, <2>3, <2>4
<1>14. Sound(e, w, n, u)
  BY <1>11, <1>13 DEF Sound
<1>15. u = t \o SubSeq(d.inq[Top(d)], 1, k)
  BY DEF u, a, i
<1>16. QED
  BY <1>6, <1>9, <1>10, <1>14, <1>15 DEF SameRest

\* write() adds to the queue of the last element.
Queued(d, w, m) == [d EXCEPT !.outq[Top(d)] = @ \o [k \in 1..m |-> w + k]]

\* write() by the user: what is accepted follows what has been accepted.
LEMMA WrittenSound ==
  ASSUME NEW d, IsConn(d), ~d.thrown, NEW w \in Nat, NEW n, NEW t, Sound(d, w, n, t),
         NEW m \in Nat, m <= Cap - Len(d.outq[Top(d)]),
         NEW e, e = Queued(d, w, m)
  PROVE  /\ IsConn(e) /\ ~e.thrown /\ e.kind = d.kind /\ e.st = d.st /\ Sound(e, w + m, n, t)
<1> DEFINE i == Top(d)
           q == d.outq[i]
           x == [k \in 1..m |-> w + k]
           h == Holds(d, i)
<1>1. /\ Elements(d) = 1..Top(d) /\ Top(d) \in 1..3 /\ i \in Elements(d) /\ 1 \in Elements(d)
  BY ShapeFacts DEF IsConn, Top
<1>2. q \in Bytes /\ h \in Bytes /\ Rest(d.unget[i]) \in Bytes /\ h = Rest(d.unget[i]) \o q
  BY <1>1, HoldsBytes DEF IsConn, Holds, Content
<1>3. x \in Bytes /\ Len(x) = m
  BY DEF Bytes
<1>4. Numbers(1, w) \o x = Numbers(1, w + m) /\ Numbers(1, w) \in Bytes
  <2>1. 1 \in Nat /\ 1 <= w + 1
    OBVIOUS
  <2>2. QED
    BY <2>1, NumbersJoin, NumbersSeq
<1>5. e = [d EXCEPT !.outq[i] = q \o x]
  BY DEF Queued
<1>r. IsRecord(d)
  BY DEF IsConn
<1>16. m <= Cap - Len(q)
  OBVIOUS
<1> HIDE DEF x, q, h, i
<1>6. q \o x \in Bytes /\ Len(q \o x) <= Cap
  <2>1. q \o x \in Bytes /\ Len(q \o x) = Len(q) + Len(x) /\ Len(q) \in Nat
    BY <1>2, <1>3, JoinedBytes
  <2>2. QED
    BY <1>3, <1>16, <2>1, SizeAssumption
<1>7. IsRecord(e) /\ e.outq = [d.outq EXCEPT ![i] = q \o x]
  BY <1>5, <1>r DEF IsRecord
<1>8. /\ SameRest(d, e) /\ SameIn(d, e) /\ e.st = d.st /\ e.thrown = d.thrown /\ e.shut = d.shut
      /\ e.tx = d.tx /\ e.unget = d.unget
  BY <1>5, <1>r DEF IsRecord, SameRest, SameIn
<1>9. /\ e.outq[i] = q \o x /\ (\A j \in Elements(d) : j # i => e.outq[j] = d.outq[j])
      /\ e.outq \in [Elements(d) -> Bytes]
  <2>1. d.outq \in [Elements(d) -> Bytes]
    BY DEF IsConn
  <2>2. QED
    BY <1>1, <1>6, <1>7, <2>1
<1>10. \A j \in Elements(d) : Len(e.inq[j]) <= Cap /\ Len(e.outq[j]) <= Cap
  BY <1>6, <1>8, <1>9 DEF IsConn, SameIn
<1>11. IsConn(e)
  BY <1>7, <1>8, <1>9, <1>10 DEF IsConn, SameRest, SameIn, Elements
<1>12. /\ Top(e) = i /\ Elements(e) = Elements(d) /\ (Socks(e) <=> Socks(d))
       /\ e.reset = d.reset /\ e.stopped = d.stopped /\ e.kind = d.kind
  BY <1>8 DEF SameRest, Top, Elements, Socks, i
<1>13. /\ \A j \in Elements(d) : j # i => Holds(e, j) = Holds(d, j)
       /\ Holds(e, i) = h \o x
  <2>1. \A j \in Elements(d) : j # i => Holds(e, j) = Holds(d, j)
    BY <1>8, <1>9 DEF Holds, Content
  <2>2. Holds(e, i) = Rest(d.unget[i]) \o (q \o x)
    BY <1>8, <1>9 DEF Holds, Content
  <2> DEFINE g == Rest(d.unget[i])
  <2>3. g \in Bytes /\ h = g \o q
    BY <1>2
  <2> HIDE DEF g
  <2>4. (g \o q) \o x = g \o (q \o x)
    BY <1>2, <1>3, <2>3, Joined
  <2>5. QED
    BY <2>1, <2>2, <2>3, <2>4 DEF g
<1>14. All(e, w + m) = All(d, w) \o x /\ All(d, w) \in Bytes
  <2> DEFINE p == IF Socks(d) THEN << 0 >> ELSE <<>>
             s == Numbers(1, w)
  <2>1. p \in Bytes
    BY DEF Bytes
  <2>2. All(d, w) = p \o s /\ All(e, w + m) = p \o (s \o x) /\ s \in Bytes
    BY <1>4, <1>12 DEF All
  <2> HIDE DEF p, s
  <2>3. (p \o s) \o x = p \o (s \o x)
    BY <1>3, <2>1, <2>2, Joined
  <2>4. QED
    BY <2>1, <2>2, <2>3, JoinedBytes
<1>15. OutInv(e, w + m)
  <2>1. Begins(e.tx, All(e, w + m))
    <3>1. PICK r \in Bytes : All(d, w) = d.tx \o r
      BY DEF Sound, OutInv, Begins
    <3> DEFINE y == d.tx
    <3>2. y \in Bytes /\ All(d, w) = y \o r
      BY <3>1 DEF IsConn
    <3> HIDE DEF y
    <3>3. (y \o r) \o x = y \o (r \o x)
      BY <1>3, <3>1, <3>2, Joined
    <3>4. r \o x \in Bytes
      BY <1>3, <3>1, JoinedBytes
    <3>5. All(e, w + m) = y \o (r \o x)
      BY <1>14, <3>2, <3>3
    <3>6. QED
      BY <1>8, <3>4, <3>5 DEF Begins, y
  <2>2. Below(e) = Below(d)
    BY <1>1, <1>12, <1>13 DEF Below, i
  <2>3. Lower(e) /\ Asked(e)
    <3>1. (Top(d) > 1 => 1 # i) /\ (Top(d) = 3 => 2 # i /\ 2 \in Elements(d))
      BY <1>1 DEF i
    <3>2. Lower(d) /\ Asked(d)
      BY DEF Sound, OutInv
    <3>3. QED
      BY <1>1, <1>8, <1>12, <1>13, <3>1, <3>2 DEF Lower, Asked, i
  <2>4. CASE Dead(d)
    <3>1. Dead(e)
      BY <1>8, <1>12, <2>4 DEF Dead, i
    <3>2. QED
      BY <2>1, <2>3, <3>1 DEF OutInv
  <2>5. CASE d.reset
    BY <1>12, <2>1, <2>3, <2>5 DEF OutInv, Due
  <2>6. CASE ~Dead(d) /\ ~d.reset
    <3> DEFINE y == d.tx
               z == Below(d)
               g == z \o h
    <3>1. y \o g = All(d, w)
      BY <2>6 DEF Sound, OutInv, Due, h, i
    <3>2. y \in Bytes /\ z \in Bytes
      <4>1. z = <<>> \/ (Top(d) = 3 /\ z = Holds(d, 2))
        BY DEF Below
      <4>2. Top(d) = 3 => Holds(d, 2) \in Bytes
        <5> DEFINE j == 2
        <5>1. Top(d) = 3 => j \in Elements(d)
          BY <1>1
        <5> HIDE DEF j
        <5>2. Top(d) = 3 => Holds(d, j) \in Bytes
          BY <5>1, HoldsBytes
        <5>3. QED
          BY <5>2 DEF j
      <4>3. z \in Bytes
        <5>1. <<>> \in Bytes
          BY DEF Bytes
        <5>2. QED
          BY <4>1, <4>2, <5>1
      <4>4. y \in Bytes
        BY DEF IsConn
      <4>5. QED
        BY <4>3, <4>4
    <3> HIDE DEF z, y
    <3>3. g \in Bytes /\ g \o x = z \o (h \o x)
      <4>1. z \o h \in Bytes
        BY <1>2, <3>2, JoinedBytes
      <4>2. Regroups(z, h, x)
        BY <1>2, <1>3, <3>2, JoinedSo
      <4>3. QED
        BY <4>1, <4>2 DEF Regroups
    <3>4. g \o x = z \o (h \o x)
      BY <3>3
    <3> HIDE DEF g
    <3>5. (y \o g) \o x = y \o (g \o x)
      <4>1. Regroups(y, g, x)
        BY <1>3, <3>2, <3>3, JoinedSo
      <4>2. QED
        BY <4>1 DEF Regroups
    <3>6. All(e, w + m) = y \o (z \o (h \o x))
      BY <1>14, <3>1, <3>4, <3>5
    <3>7. Due(e, w + m)
      BY <1>8, <1>12, <1>13, <2>2, <3>6 DEF Due, y, z
    <3>8. QED
      BY <2>1, <2>3, <3>7 DEF OutInv
  <2>7. QED
    BY <2>4, <2>5, <2>6
<1>17. Control(e)
  BY <1>8, <1>12, SameControl DEF Sound, SameRest
<1>18. InInv(e, n, t)
  BY <1>8, <1>12, SameIncoming DEF Sound
<1>19. QED
  BY <1>8, <1>11, <1>12, <1>15, <1>17, <1>18 DEF Sound

\* The elements of T are disconnected and their queues stopped.
EndsAt(d, e, T) ==
  /\ IsConn(e) /\ e.kind = d.kind /\ e.reset = d.reset /\ SameIn(d, e) /\ SameOut(d, e)
  /\ e.thrown = d.thrown
  /\ \A j \in Elements(d) :
       IF j \in T THEN e.st[j] = "DISCONNECTED" /\ e.stopped[j]
       ELSE e.st[j] = d.st[j] /\ e.stopped[j] = d.stopped[j]
SocketGone(d, e, T) == \A j \in Elements(d) : e.s[j] = (d.s[j] /\ j \notin T)

\* basicsocketstate::close(): the queues of the element are stopped.
LEMMA BaseCloseKeeps ==
  ASSUME NEW d, IsConn(d), NEW i \in Elements(d)
  PROVE  LET e == baseclose(d, i) IN EndsAt(d, e, {i}) /\ e.s = d.s /\ e.late = d.late
<1> DEFINE e == baseclose(d, i)
<1>r. IsRecord(d)
  BY DEF IsConn
<1>1. /\ IsRecord(e) /\ e.st = [d.st EXCEPT ![i] = "DISCONNECTED"]
      /\ e.stopped = [d.stopped EXCEPT ![i] = TRUE]
  BY <1>r DEF IsRecord, baseclose
<1>2. /\ e.kind = d.kind /\ e.reset = d.reset /\ SameIn(d, e) /\ SameOut(d, e) /\ e.thrown = d.thrown
      /\ e.s = d.s /\ e.late = d.late /\ e.shut = d.shut /\ e.answer = d.answer /\ e.fin = d.fin
  BY <1>r DEF IsRecord, baseclose, SameIn, SameOut
<1> HIDE DEF e
<1>3. /\ d.st \in [Elements(d) -> States] /\ d.stopped \in [Elements(d) -> BOOLEAN]
      /\ "DISCONNECTED" \in States
  BY DEF IsConn, States
<1>4. /\ e.st \in [Elements(d) -> States] /\ e.stopped \in [Elements(d) -> BOOLEAN]
      /\ \A j \in Elements(d) :
           IF j \in {i} THEN e.st[j] = "DISCONNECTED" /\ e.stopped[j]
           ELSE e.st[j] = d.st[j] /\ e.stopped[j] = d.stopped[j]
  BY <1>1, <1>3
<1>5. IsConn(e)
  BY <1>1, <1>2, <1>4 DEF IsConn, SameIn, SameOut, Elements
<1>6. QED
  BY <1>2, <1>4, <1>5 DEF EndsAt, e

\* An element gives up its socket.
GivenUp(d, i) == [d EXCEPT !.s[i] = FALSE]

\* Nothing else changes.
LEMMA GiveUpKeeps ==
  ASSUME NEW d, IsConn(d), NEW i \in Elements(d)
  PROVE  LET e == GivenUp(d, i) IN
         /\ IsConn(e) /\ e.kind = d.kind /\ e.reset = d.reset /\ SameIn(d, e) /\ SameOut(d, e)
         /\ e.thrown = d.thrown /\ e.st = d.st /\ e.stopped = d.stopped
         /\ \A j \in Elements(d) : e.s[j] = (d.s[j] /\ j # i)
<1> DEFINE e == GivenUp(d, i)
<1>r. IsRecord(d)
  BY DEF IsConn
<1>1. IsRecord(e) /\ e.s = [d.s EXCEPT ![i] = FALSE]
  BY <1>r DEF IsRecord, GivenUp
<1>2. /\ e.kind = d.kind /\ e.reset = d.reset /\ SameIn(d, e) /\ SameOut(d, e) /\ e.thrown = d.thrown
      /\ e.st = d.st /\ e.stopped = d.stopped
      /\ e.late = d.late /\ e.shut = d.shut /\ e.answer = d.answer /\ e.fin = d.fin
  BY <1>r DEF IsRecord, GivenUp, SameIn, SameOut
<1> HIDE DEF e
<1>3. d.s \in [Elements(d) -> BOOLEAN]
  BY DEF IsConn
<1>4. e.s \in [Elements(d) -> BOOLEAN] /\ \A j \in Elements(d) : e.s[j] = (d.s[j] /\ j # i)
  BY <1>1, <1>3
<1>5. QED
  BY <1>1, <1>2, <1>4 DEF IsConn, SameIn, SameOut, Elements, e

\* tcpstate::close() ends the element and gives up its socket.
LEMMA TcpCloseKeeps ==
  ASSUME NEW d, IsConn(d), NEW i \in Elements(d)
  PROVE  LET e == tcpclose(d, i) IN EndsAt(d, e, {i}) /\ SocketGone(d, e, {i})
<1> DEFINE m == baseclose(d, i)
           e == tcpclose(d, i)
<1>1. EndsAt(d, m, {i}) /\ m.s = d.s /\ m.late = d.late
  BY BaseCloseKeeps
<1>2. e = [m EXCEPT !.s[i] = FALSE]
  BY DEF tcpclose
<1> HIDE DEF m, e
<1>3. e = [m EXCEPT !.s[i] = FALSE] /\ IsConn(m) /\ Elements(m) = Elements(d)
  BY <1>1, <1>2 DEF EndsAt, Elements
<1>4. /\ IsConn(e) /\ e.kind = m.kind /\ e.reset = m.reset /\ SameIn(m, e) /\ SameOut(m, e)
      /\ e.thrown = m.thrown /\ e.st = m.st /\ e.stopped = m.stopped
      /\ \A j \in Elements(m) : e.s[j] = (m.s[j] /\ j # i)
  <2>1. i \in Elements(m) /\ IsConn(m) /\ e = GivenUp(m, i)
    BY <1>3 DEF GivenUp
  <2>2. QED
    BY <2>1, GiveUpKeeps
<1>5. EndsAt(d, e, {i})
  BY <1>1, <1>4 DEF EndsAt, SameIn, SameOut
<1>6. QED
  BY <1>1, <1>3, <1>4, <1>5 DEF SocketGone, e

\* socks4state::close() ends the element and the one below it.
LEMMA SocksCloseKeeps ==
  ASSUME NEW d, IsConn(d), 1 \in Elements(d), 2 \in Elements(d)
  PROVE  LET e == socksclose(d, 2) IN
         \/ d.s[2] /\ EndsAt(d, e, {1, 2}) /\ SocketGone(d, e, {1, 2})
         \/ ~d.s[2] /\ EndsAt(d, e, {2}) /\ SocketGone(d, e, {2})
<1> DEFINE m == baseclose(d, 2)
           f == IF d.s[2] THEN tcpclose(m, 1) ELSE m
           e == socksclose(d, 2)
<1>1. EndsAt(d, m, {2}) /\ m.s = d.s
  BY BaseCloseKeeps
<1>2. e = [f EXCEPT !.s[2] = FALSE]
  BY DEF socksclose
<1> HIDE DEF m, e
<1>3. IsConn(m) /\ Elements(m) = Elements(d) /\ d.s \in [Elements(d) -> BOOLEAN]
  BY <1>1 DEF EndsAt, Elements, IsConn
<1>4. IF d.s[2] THEN EndsAt(d, f, {1, 2}) /\ SocketGone(d, f, {1}) ELSE EndsAt(d, f, {2}) /\ f.s = d.s
  <2>1. CASE d.s[2]
    <3> DEFINE g == tcpclose(m, 1)
    <3>1. EndsAt(m, g, {1}) /\ SocketGone(m, g, {1})
      <4> DEFINE i == 1
      <4>1. i \in Elements(m)
        BY <1>3
      <4> HIDE DEF i
      <4>2. EndsAt(m, tcpclose(m, i), {i}) /\ SocketGone(m, tcpclose(m, i), {i})
        BY <1>3, <4>1, TcpCloseKeeps
      <4>3. QED
        BY <4>2 DEF i
    <3> HIDE DEF g
    <3>2. EndsAt(d, g, {1, 2})
      BY <1>1, <1>3, <3>1 DEF EndsAt, SameIn, SameOut
    <3>3. SocketGone(d, g, {1})
      BY <1>1, <1>3, <3>1 DEF SocketGone
    <3>4. QED
      BY <2>1, <3>2, <3>3 DEF g
  <2>2. CASE ~d.s[2]
    BY <1>1, <2>2
  <2>3. QED
    BY <2>1, <2>2
<1> HIDE DEF f
<1>5. IsConn(f) /\ Elements(f) = Elements(d)
  BY <1>4 DEF EndsAt, Elements
<1>6. /\ IsConn(e) /\ e.kind = f.kind /\ e.reset = f.reset /\ SameIn(f, e) /\ SameOut(f, e)
      /\ e.thrown = f.thrown /\ e.st = f.st /\ e.stopped = f.stopped
      /\ \A j \in Elements(f) : e.s[j] = (f.s[j] /\ j # 2)
  <2> DEFINE i == 2
  <2>1. i \in Elements(f) /\ IsConn(f) /\ e = GivenUp(f, i)
    BY <1>2, <1>5 DEF GivenUp
  <2> HIDE DEF i
  <2>2. /\ IsConn(e) /\ e.kind = f.kind /\ e.reset = f.reset /\ SameIn(f, e) /\ SameOut(f, e)
        /\ e.thrown = f.thrown /\ e.st = f.st /\ e.stopped = f.stopped
        /\ \A j \in Elements(f) : e.s[j] = (f.s[j] /\ j # i)
    BY <2>1, GiveUpKeeps
  <2>3. QED
    BY <2>2 DEF i
<1>7. CASE d.s[2]
  <2>1. EndsAt(d, e, {1, 2})
    BY <1>4, <1>6, <1>7 DEF EndsAt, SameIn, SameOut
  <2>2. SocketGone(d, e, {1, 2})
    BY <1>4, <1>5, <1>6, <1>7 DEF SocketGone
  <2>3. QED
    BY <1>7, <2>1, <2>2 DEF e
<1>8. CASE ~d.s[2]
  <2>1. EndsAt(d, e, {2})
    BY <1>4, <1>6, <1>8 DEF EndsAt, SameIn, SameOut
  <2>2. SocketGone(d, e, {2})
    BY <1>4, <1>5, <1>6, <1>8 DEF SocketGone
  <2>3. QED
    BY <1>8, <2>1, <2>2 DEF e
<1>9. QED
  BY <1>3, <1>7, <1>8

\* What ends with the last element of a chain keeps the invariant, if no socket is lost.
LEMMA EndsSound ==
  ASSUME NEW d, IsConn(d), ~d.thrown, NEW w, NEW n, NEW t, Sound(d, w, n, t),
         NEW e, NEW T, EndsAt(d, e, T), Top(d) \in T, SocketsKept(e)
  PROVE  /\ IsConn(e) /\ ~e.thrown /\ e.kind = d.kind /\ Sound(e, w, n, t) /\ e.stopped[Top(d)]
         /\ e.inq = d.inq /\ e.st[Top(d)] = "DISCONNECTED"
         /\ \A j \in Elements(d) : e.st[j] = d.st[j] \/ e.st[j] = "DISCONNECTED"
<1>1. Top(d) \in Elements(d) /\ (Top(d) = 3 => 3 \in Elements(d))
  BY ShapeFacts DEF IsConn, Top
<1>2. e.st[Top(d)] = "DISCONNECTED" /\ e.stopped[Top(d)]
  BY <1>1 DEF EndsAt
<1>3. Downs(d, e)
  BY <1>1, <1>2 DEF Downs, EndsAt
<1>4. Control(e)
  BY <1>3, DownControl DEF EndsAt, Sound, Control
<1>5. OutInv(e, w) /\ InInv(e, n, t)
  BY <1>3, DownOut, DownIn DEF EndsAt, Sound
<1>6. QED
  BY <1>2, <1>4, <1>5 DEF EndsAt, Sound, SameIn

\* close() ends what it closes; no other call gives up a socket.
LEMMA CloseSound ==
  ASSUME NEW d, IsConn(d), ~d.thrown, NEW w, NEW n, NEW t, Sound(d, w, n, t),
         NEW e, e = closed(d, Top(d))
  PROVE  /\ IsConn(e) /\ ~e.thrown /\ e.kind = d.kind /\ Sound(e, w, n, t) /\ e.stopped[Top(d)]
         /\ e.inq = d.inq /\ e.st[Top(d)] = "DISCONNECTED"
         /\ \A j \in Elements(d) : e.st[j] = d.st[j] \/ e.st[j] = "DISCONNECTED"
<1> DEFINE i == Top(d)
<1>1. /\ Elements(d) = 1..Top(d) /\ Top(d) \in 1..3 /\ i \in Elements(d) /\ 1 \in Elements(d)
      /\ (Top(d) = 3 => d.kind[3] = "ssl")
      /\ (Top(d) = 2 => d.kind[2] \in {"socks4", "ssl", "sslin"})
      /\ d.kind[1] \in {"tcp", "accepted", "listen"}
  BY ShapeFacts DEF IsConn, Top
<1>2. "DISCONNECTED" \in States
  BY DEF States
<1>3. CASE i = 1
  <2>1. e = tcpclose(d, 1)
    BY <1>1, <1>3 DEF closed, ssl
  <2>2. EndsAt(d, e, {1}) /\ SocketGone(d, e, {1})
    BY <1>1, <2>1, TcpCloseKeeps
  <2>3. Top(d) = 1 => SocketsKept(e)
    BY <1>1, <2>2 DEF EndsAt, SocketGone, SocketsKept, Top
  <2>4. QED
    BY <1>1, <1>3, <2>2, <2>3, EndsSound
<1>4. CASE i = 2 /\ d.kind[2] = "socks4"
  <2>1. e = socksclose(d, 2)
    BY <1>4 DEF closed, ssl
  <2>2. \/ d.s[2] /\ EndsAt(d, e, {1, 2}) /\ SocketGone(d, e, {1, 2})
        \/ ~d.s[2] /\ EndsAt(d, e, {2}) /\ SocketGone(d, e, {2})
    BY <1>1, <1>4, <2>1, SocksCloseKeeps
  <2>3. SocketsKept(e)
    BY <1>1, <1>4, <2>2 DEF EndsAt, SocketGone, Sound, Control, SocketsKept, Top
  <2>4. QED
    BY <1>1, <1>4, <2>2, <2>3, EndsSound
<1>5. CASE i > 1 /\ ssl(d, i)
  <2>1. e = baseclose(d, i)
    BY <1>5 DEF closed
  <2>2. EndsAt(d, e, {i}) /\ e.s = d.s
    BY <1>1, <2>1, BaseCloseKeeps
  <2>3. SocketsKept(e)
    BY <1>1, <1>5, <2>2 DEF EndsAt, Sound, Control, SocketsKept, Top
  <2>4. QED
    BY <1>1, <1>5, <2>2, <2>3, EndsSound
<1>6. QED
  BY <1>1, <1>3, <1>4, <1>5 DEF ssl

\* What is left in the queue of a closed connection is read.
Drained(d) == [d EXCEPT !.inq[Top(d)] = <<>>]

\* expiresessions() reads what is left: it follows what has been read.
LEMMA DrainSound ==
  ASSUME NEW d, IsConn(d), ~d.thrown, NEW w, NEW n \in Nat, NEW t \in Bytes, Sound(d, w, n, t),
         d.stopped[Top(d)], d.st[Top(d)] = "DISCONNECTED"
  PROVE  LET e == Drained(d)
             u == t \o d.inq[Top(d)] IN
         /\ IsConn(e) /\ ~e.thrown /\ e.kind = d.kind /\ e.st = d.st
         /\ u \in Bytes /\ Sound(e, w, n, u)
<1> DEFINE i == Top(d)
           q == d.inq[i]
           u == t \o q
           e == Drained(d)
<1>1. /\ Elements(d) = 1..Top(d) /\ Top(d) \in 1..3 /\ i \in Elements(d) /\ 1 \in Elements(d)
  BY ShapeFacts DEF IsConn, Top
<1>2. q \in Bytes /\ u \in Bytes
  <2>1. q \in Bytes
    BY <1>1 DEF IsConn
  <2> HIDE DEF q
  <2>2. QED
    BY <2>1, JoinedBytes
<1>r. IsRecord(d)
  BY DEF IsConn
<1>3. e = [d EXCEPT !.inq[i] = <<>>]
  BY DEF Drained
<1> HIDE DEF i, q, e
<1>5. IsRecord(e) /\ e.inq = [d.inq EXCEPT ![i] = <<>>]
  BY <1>3, <1>r DEF IsRecord
<1>6. /\ SameRest(d, e) /\ SameOut(d, e) /\ e.st = d.st /\ e.thrown = d.thrown /\ e.shut = d.shut /\ e.rx = d.rx
  BY <1>3, <1>r DEF IsRecord, SameRest, SameOut
<1>7. e.inq[i] = <<>> /\ (\A j \in Elements(d) : j # i => e.inq[j] = d.inq[j]) /\ e.inq \in [Elements(d) -> Bytes]
  <2>1. d.inq \in [Elements(d) -> Bytes] /\ <<>> \in Bytes
    BY DEF IsConn, Bytes
  <2>2. QED
    BY <1>1, <1>5, <2>1
<1>8. \A j \in Elements(d) : Len(e.inq[j]) <= Cap /\ Len(e.outq[j]) <= Cap
  <2>1. Len(<<>>) <= Cap
    BY SizeAssumption
  <2>2. QED
    BY <1>6, <1>7, <2>1 DEF IsConn, SameOut
<1>9. IsConn(e)
  BY <1>5, <1>6, <1>7, <1>8 DEF IsConn, SameRest, SameOut, Elements
<1>10. u \o <<>> = u /\ u = t \o q
  BY <1>2, JoinedEmpty
<1>11. Control(e) /\ OutInv(e, w)
  BY <1>6, SameControl, SameOutgoing DEF Sound, SameRest
<1> HIDE DEF u
<1>12. ASSUME NEW f, Heard(d, f, n, t) PROVE Heard(e, f, n, u)
  <2>1. Top(e) = i /\ e.stopped = d.stopped /\ e.reset = d.reset /\ d.stopped[i]
    BY <1>6 DEF SameRest, Top, i
  <2>2. f <= n + 1 /\ Run(t \o q, f)
    BY <1>12 DEF Heard, i, q
  <2>3. u \o e.inq[Top(e)] = t \o q
    BY <1>7, <1>10, <2>1
  <2>4. QED
    BY <2>1, <2>2, <2>3 DEF Heard
<1>13. InInv(e, n, u)
  <2>1. e.kind = d.kind /\ (Socks(e) <=> Socks(d)) /\ (SocksOver(e) <=> SocksOver(d)) /\ Top(e) = i
    BY <1>6 DEF SameRest, Socks, Top, SocksOver, i
  <2>2. CASE d.kind[1] = "listen"
    BY <2>1, <2>2 DEF InInv
  <2>3. CASE d.kind[1] # "listen" /\ ~Socks(d)
    <3>1. Heard(e, 1, n, u)
      BY <1>12, <2>3 DEF Sound, InInv
    <3>2. QED
      BY <2>1, <2>3, <3>1 DEF InInv
  <2>4. CASE d.kind[1] # "listen" /\ Socks(d)
    <3>1. i \in {2, 3} /\ 2 \in Elements(d)
      BY <1>1, <2>4 DEF Socks, i
    <3>2. CASE q = <<>>
      <4>1. e.inq = d.inq
        <5>1. \A j \in Elements(d) : e.inq[j] = d.inq[j]
          BY <1>7, <3>2 DEF q
        <5>2. QED
          BY <1>7, <5>1 DEF IsConn
      <4>2. u = t
        BY <1>10, <3>2, JoinedEmpty
      <4>3. InInv(e, n, t)
        BY <1>6, <4>1, SameIncoming DEF Sound, SameRest, SameIn
      <4>4. QED
        BY <4>2, <4>3
    <3>3. CASE q # <<>>
      <4>1. CASE Unheard(d, n, t)
        <5>1. i = 2
          BY <3>1, <3>3, <4>1 DEF Unheard, Quiet, i, q
        <5>2. d.st[1] \notin {"NEW", "CONNECTING"}
          BY <3>3, <4>1, <5>1 DEF Unheard, Early, q
        <5>3. SocksOver(e)
          <6>1. d.st[1] \in StatesOf("tcp") /\ d.kind[1] = "tcp"
            BY <1>1, <2>4, ShapeFacts DEF IsConn, Sound, Control, Phases, Socks, Top
          <6>2. d.st[1] \in Over
            BY <5>2, <6>1 DEF StatesOf
          <6>3. QED
            BY <1>6, <5>1, <6>2 DEF SocksOver, Over, i
        <5>4. u = q /\ Run(q, 1) /\ Len(q) < AnsLen
          BY <1>2, <1>10, <4>1, <5>1, JoinedEmpty DEF Unheard, Answer, q
        <5>5. Partly(e, u)
          BY <1>6, <1>7, <2>1, <5>1, <5>4 DEF Partly, SameRest, i
        <5>6. QED
          BY <2>1, <2>4, <5>3, <5>5 DEF InInv, SocksIn
      <4>2. CASE SocksOver(d) /\ Heard(d, AnsLen + 1, n, t)
        BY <1>12, <2>1, <2>4, <4>2 DEF InInv, SocksIn
      <4>3. ~Partly(d, t)
        BY <3>3 DEF Partly, i, q
      <4>4. QED
        BY <2>4, <4>1, <4>2, <4>3 DEF Sound, InInv, SocksIn
    <3>4. QED
      BY <3>2, <3>3
  <2>5. QED
    BY <2>2, <2>3, <2>4
<1>14. Sound(e, w, n, u)
  BY <1>11, <1>13 DEF Sound
<1>15. u = t \o d.inq[Top(d)]
  BY DEF u, q, i
<1>16. QED
  BY <1>2, <1>6, <1>9, <1>14, <1>15 DEF SameRest, e, u, i, q
-----------------------------------------------------------------------------
(* What the wire, the peer and time do *)

\* Nothing that the invariant is about changes.
LEMMA QuietChange ==
  ASSUME NEW d, IsConn(d), ~d.thrown, NEW w, NEW n, NEW t, Sound(d, w, n, t), NEW e,
         IsRecord(e), e.kind = d.kind, e.st = d.st, e.s = d.s, e.stopped = d.stopped,
         e.late \in [Elements(d) -> BOOLEAN], e.fin \in BOOLEAN, e.reset = d.reset,
         SameIn(d, e), SameOut(d, e), e.thrown = d.thrown, e.shut = d.shut, e.answer = d.answer
  PROVE  IsConn(e) /\ Sound(e, w, n, t)
<1>1. IsConn(e)
  BY DEF IsConn, SameIn, SameOut, Elements
<1>2. QED
  BY <1>1, SameControl, SameOutgoing, SameIncoming DEF Sound

Late(d, i) == [d EXCEPT !.late[i] = TRUE]

\* The time of an element has run out.
LEMMA LateSound ==
  ASSUME NEW d, IsConn(d), ~d.thrown, NEW w, NEW n, NEW t, Sound(d, w, n, t), NEW i \in Elements(d),
         NEW e, e = Late(d, i)
  PROVE  IsConn(e) /\ Sound(e, w, n, t) /\ e.kind = d.kind /\ e.st = d.st /\ ~e.thrown
<1> e = [d EXCEPT !.late[i] = TRUE]
  BY DEF Late
<1>r. IsRecord(d)
  BY DEF IsConn
<1>1. IsRecord(e) /\ e.late = [d.late EXCEPT ![i] = TRUE]
  BY <1>r DEF IsRecord
<1>2. /\ e.kind = d.kind /\ e.st = d.st /\ e.s = d.s /\ e.stopped = d.stopped /\ e.fin = d.fin
      /\ e.reset = d.reset /\ SameIn(d, e) /\ SameOut(d, e) /\ e.thrown = d.thrown /\ e.shut = d.shut
      /\ e.answer = d.answer
  BY <1>r DEF IsRecord, SameIn, SameOut
<1>3. e.late \in [Elements(d) -> BOOLEAN] /\ e.fin \in BOOLEAN
  BY <1>1, <1>2 DEF IsConn
<1>4. QED
  BY <1>1, <1>2, <1>3, QuietChange

Dialed(d, r) == [d EXCEPT !.conn = r]
Shut(d) == [d EXCEPT !.fin = TRUE]

\* The network answers a connect, or the peer shuts its side.
LEMMA ConnSound ==
  ASSUME NEW d, IsConn(d), ~d.thrown, NEW w, NEW n, NEW t, Sound(d, w, n, t),
         NEW r, NEW e, e = Dialed(d, r) \/ e = Shut(d)
  PROVE  IsConn(e) /\ Sound(e, w, n, t) /\ e.kind = d.kind /\ e.st = d.st /\ ~e.thrown
<1> e = [d EXCEPT !.conn = r] \/ e = [d EXCEPT !.fin = TRUE]
  BY DEF Dialed, Shut
<1>r. IsRecord(d)
  BY DEF IsConn
<1>1. IsRecord(e) /\ e.late = d.late /\ e.fin \in {d.fin, TRUE}
  BY <1>r DEF IsRecord
<1>2. /\ e.kind = d.kind /\ e.st = d.st /\ e.s = d.s /\ e.stopped = d.stopped
      /\ e.reset = d.reset /\ SameIn(d, e) /\ SameOut(d, e) /\ e.thrown = d.thrown /\ e.shut = d.shut
      /\ e.answer = d.answer
  BY <1>r DEF IsRecord, SameIn, SameOut
<1>3. e.late \in [Elements(d) -> BOOLEAN] /\ e.fin \in BOOLEAN
  BY <1>1, <1>2 DEF IsConn
<1>4. QED
  BY <1>1, <1>2, <1>3, QuietChange

Reset(d) == [d EXCEPT !.reset = TRUE, !.rx = <<>>]

\* A reset drops what is on the wire.
LEMMA ResetSound ==
  ASSUME NEW d, IsConn(d), ~d.thrown, NEW w, NEW n, NEW t, Sound(d, w, n, t),
         NEW e, e = Reset(d)
  PROVE  IsConn(e) /\ Sound(e, w, n, t) /\ e.kind = d.kind /\ e.st = d.st /\ ~e.thrown
<1> e = [d EXCEPT !.reset = TRUE, !.rx = <<>>]
  BY DEF Reset
<1>r. IsRecord(d)
  BY DEF IsConn
<1>1. IsRecord(e) /\ e.reset = TRUE /\ e.rx = <<>>
  BY <1>r DEF IsRecord
<1>2. /\ e.kind = d.kind /\ e.st = d.st /\ e.s = d.s /\ e.stopped = d.stopped /\ e.fin = d.fin
      /\ e.late = d.late /\ e.inq = d.inq /\ SameOut(d, e) /\ e.thrown = d.thrown /\ e.shut = d.shut
      /\ e.answer = d.answer
  BY <1>r DEF IsRecord, SameOut
<1>3. IsConn(e)
  <2>1. <<>> \in Bytes
    BY DEF Bytes
  <2>2. QED
    BY <1>1, <1>2, <2>1 DEF IsConn, SameOut, Elements
<1>4. Control(e)
  BY <1>2, SameControl DEF Sound
<1>5. /\ Top(e) = Top(d) /\ Elements(e) = Elements(d) /\ (Socks(e) <=> Socks(d)) /\ All(e, w) = All(d, w)
      /\ (\A j : Holds(e, j) = Holds(d, j)) /\ e.tx = d.tx
  BY <1>2 DEF Top, Elements, Socks, All, Holds, SameOut
<1>6. OutInv(e, w)
  <2>1. Begins(d.tx, All(d, w)) /\ Lower(d) /\ Asked(d)
    BY DEF Sound, OutInv
  <2>2. Lower(e) /\ Asked(e)
    BY <1>2, <1>5, <2>1 DEF Lower, Asked
  <2>3. QED
    BY <1>1, <1>5, <2>1, <2>2 DEF OutInv, Due
<1>7. InInv(e, n, t)
  <2>1. \A f : Heard(d, f, n, t) => Heard(e, f, n, t)
    BY <1>1, <1>2, <1>5 DEF Heard
  <2>2. Unheard(d, n, t) => Unheard(e, n, t)
    BY <1>1, <1>2, <1>5 DEF Unheard, Answer, Quiet, Early
  <2>3. (SocksOver(d) => SocksOver(e)) /\ (Partly(d, t) => Partly(e, t))
    BY <1>2, <1>5 DEF SocksOver, Partly
  <2>4. QED
    BY <1>2, <1>5, <2>1, <2>2, <2>3 DEF Sound, InInv, SocksIn
<1>8. QED
  BY <1>2, <1>3, <1>4, <1>6, <1>7 DEF Sound

\* The peer sends one more byte.
Gets(d, v) == [d EXCEPT !.rx = Append(@, v)]

\* What the peer sends follows what it has sent.
LEMMA SentSound ==
  ASSUME NEW d, IsConn(d), ~d.thrown, NEW w, NEW n \in Nat, NEW t \in Bytes, Sound(d, w, n, t),
         Top(d) = 3 /\ d.st[3] = "NEW" => n < AnsLen,
         NEW e, e = Gets(d, n + 1)
  PROVE  IsConn(e) /\ Sound(e, w, n + 1, t) /\ e.kind = d.kind /\ e.st = d.st /\ ~e.thrown
<1> e = [d EXCEPT !.rx = Append(@, n + 1)]
  BY DEF Gets
<1> DEFINE x == [k \in 1..1 |-> n + k]
           y == d.rx
<1>r. IsRecord(d)
  BY DEF IsConn
<1>1. /\ Elements(d) = 1..Top(d) /\ Top(d) \in 1..3 /\ Top(d) \in Elements(d)
      /\ (Socks(d) => 2 \in Elements(d))
  BY ShapeFacts DEF IsConn, Top, Socks
<1>2. y \in Bytes /\ x \in Bytes /\ x = <<n + 1>>
  <2>1. x = <<n + 1>>
    OBVIOUS
  <2>2. QED
    BY <2>1 DEF IsConn, Bytes
<1>3. IsRecord(e) /\ e.rx = Append(y, n + 1)
  BY <1>r DEF IsRecord
<1>4. e.rx = y \o x /\ y \o x \in Bytes
  <2>1. Append(y, n + 1) = y \o <<n + 1>>
    <3> DEFINE v == n + 1
    <3>1. y \in Seq(Nat) /\ v \in Nat
      BY <1>2 DEF Bytes
    <3> HIDE DEF y, v
    <3>2. Append(y, v) = y \o <<v>>
      BY <3>1, AppendIsConcat
    <3>3. QED
      BY <3>2 DEF v
  <2> HIDE DEF x, y
  <2>2. QED
    BY <1>2, <1>3, <2>1, JoinedBytes
<1>5. SameRest(d, e) /\ SameOut(d, e) /\ e.st = d.st /\ e.thrown = d.thrown /\ e.shut = d.shut /\ e.inq = d.inq
  BY <1>r DEF IsRecord, SameRest, SameOut
<1>6. IsConn(e)
  BY <1>3, <1>4, <1>5 DEF IsConn, SameRest, SameOut, Elements
<1>7. Control(e) /\ OutInv(e, w)
  BY <1>5, SameControl, SameOutgoing DEF Sound, SameRest
<1>8. ASSUME NEW z \in Bytes, NEW f \in Nat, f <= n + 1, z \o y = Numbers(f, n)
      PROVE  z \o e.rx = Numbers(f, n + 1)
  <2>1. Numbers(f, n) \o x = Numbers(f, n + 1)
    <3> DEFINE m == 1
    <3>1. m \in Nat /\ x = [k \in 1..m |-> n + k] /\ n + m = n + 1
      OBVIOUS
    <3> HIDE DEF m, x
    <3>2. Numbers(f, n) \o [k \in 1..m |-> n + k] = Numbers(f, n + m)
      BY <1>8, <3>1, NumbersJoin
    <3>3. QED
      BY <3>1, <3>2
  <2> HIDE DEF x, y
  <2>2. (z \o y) \o x = z \o (y \o x)
    BY <1>2, <1>8, Joined
  <2>3. QED
    BY <1>4, <1>8, <2>1, <2>2
<1> HIDE DEF x, y
<1>9. Top(e) = Top(d) /\ (Socks(e) <=> Socks(d)) /\ e.kind = d.kind /\ e.stopped = d.stopped /\ e.reset = d.reset
  BY <1>5 DEF SameRest, Top, Socks
<1>10. ASSUME NEW f \in Nat, Heard(d, f, n, t) PROVE Heard(e, f, n + 1, t)
  <2> DEFINE z == t \o d.inq[Top(d)]
  <2>1. z \in Bytes
    <3> DEFINE q == d.inq[Top(d)]
    <3>1. q \in Bytes
      BY <1>1 DEF IsConn
    <3> HIDE DEF q
    <3>2. t \o q \in Bytes
      BY <3>1, JoinedBytes
    <3>3. QED
      BY <3>2 DEF q
  <2>2. /\ f <= n + 1 /\ Run(z, f)
        /\ d.reset \/ d.stopped[Top(d)] \/ z \o y = Numbers(f, n)
    BY <1>10 DEF Heard, y
  <2>3. z = t \o e.inq[Top(e)]
    BY <1>5, <1>9
  <2> HIDE DEF z
  <2>4. z \o y = Numbers(f, n) => z \o e.rx = Numbers(f, n + 1)
    BY <1>8, <2>1, <2>2
  <2>5. f <= n + 1 + 1
    BY <2>2
  <2>6. QED
    BY <1>9, <2>2, <2>3, <2>4, <2>5 DEF Heard
<1>11. ASSUME Socks(d), Unheard(d, n, t) PROVE Unheard(e, n + 1, t)
  <2> DEFINE z == d.inq[2]
  <2>1. z \in Bytes
    BY <1>1, <1>11 DEF IsConn
  <2>2. d.reset \/ d.stopped[2] \/ z \o y = Numbers(1, n)
    BY <1>11 DEF Unheard, Answer, y
  <2> HIDE DEF z
  <2>3. z \o y = Numbers(1, n) => z \o e.rx = Numbers(1, n + 1)
    <3> DEFINE f == 1
    <3>1. f \in Nat /\ f <= n + 1
      OBVIOUS
    <3> HIDE DEF f
    <3>2. z \o y = Numbers(f, n) => z \o e.rx = Numbers(f, n + 1)
      BY <1>8, <2>1, <3>1
    <3>3. QED
      BY <3>2 DEF f
  <2>4. Answer(e, n + 1, t)
    BY <1>5, <1>9, <1>11, <2>2, <2>3 DEF Unheard, Answer, z
  <2>5. Quiet(e, n + 1)
    <3>1. AnsLen \in Nat
      BY SizeAssumption
    <3>2. QED
      BY <1>5, <1>9, <1>11, <3>1 DEF Unheard, Quiet
  <2>6. QED
    BY <1>5, <1>9, <1>11, <2>4, <2>5 DEF Unheard, Early
<1>12. InInv(e, n + 1, t)
  <2>1. (SocksOver(e) <=> SocksOver(d)) /\ (Partly(d, t) => Partly(e, t))
    BY <1>5, <1>9 DEF SocksOver, Partly
  <2>2. 1 \in Nat /\ AnsLen + 1 \in Nat
    BY SizeAssumption
  <2>3. Heard(d, 1, n, t) => Heard(e, 1, n + 1, t)
    BY <1>10
  <2>4. Heard(d, AnsLen + 1, n, t) => Heard(e, AnsLen + 1, n + 1, t)
    BY <1>10, <2>2
  <2>5. QED
    BY <1>9, <1>11, <2>1, <2>3, <2>4 DEF Sound, InInv, SocksIn
<1>13. QED
  BY <1>5, <1>6, <1>7, <1>9, <1>12 DEF Sound
-----------------------------------------------------------------------------
(* The inductive invariant of the loop with its connection *)

\* The list of the loop: the elements in the order of the chain, each once.
ListInv ==
  /\ list \in Seq(Nat) /\ \A k \in 1..Len(list) : list[k] \in Elements(c)
  /\ \A k, m \in 1..Len(list) : k < m => list[k] < list[m]
  /\ Listed \cap gone = {} /\ gone \subseteq Elements(c)
  /\ IF c.kind[1] = "accepted" THEN Listed \subseteq {User}
     ELSE \A i \in Listed \cup gone : \A j \in 1..i : j \in Listed \cup gone
  /\ at \in Nat \ {0} /\ (pc \in {"WR", "del"} => at <= Len(list))

\* An element that has handed over leaves the list before the loop is back at
\* its beginning, and before the descriptor is looked at again.
Past(k) == c.st[list[k]] = "CONNECTED" /\ HasNext(c, list[k])
PastInv == \A k \in 1..Len(list) : Past(k) =>
  /\ pc \in {"RD", "WR", "del"} /\ k >= at
  /\ rd => k = at /\ pc \in {"WR", "del"}

\* The loop looks for bytes only when the TCP connection is there.
ReadInv == rd /\ c.kind[1] = "tcp" => c.st[1] \in Over

ConnInv == /\ sent \in Nat /\ written \in Nat /\ taken \in Bytes
           /\ IsConn(c) /\ ~c.thrown /\ Sound(c, written, sent, taken)
Inv == ConnInv /\ ListInv /\ PastInv /\ ReadInv

\* What is not the loop's doing leaves its part alone.
LEMMA LoopKept ==
  ASSUME IsConn(c), ListInv, PastInv, ReadInv, UNCHANGED loopvars, c'.kind = c.kind,
         \A j \in Elements(c) : c'.st[j] = "CONNECTED" => c.st[j] = "CONNECTED",
         c.st[1] \in Over => c'.st[1] \in Over
  PROVE  ListInv' /\ PastInv' /\ ReadInv'
<1>1. list' = list /\ gone' = gone /\ pc' = pc /\ at' = at /\ rd' = rd
  BY DEF loopvars
<1>2. Elements(c)' = Elements(c) /\ User' = User /\ Listed' = Listed
  BY <1>1 DEF Elements, User, Listed
<1>3. ListInv'
  BY <1>1, <1>2 DEF ListInv
<1>4. PastInv'
  <2>1. \A i : HasNext(c, i)' = HasNext(c, i)
    BY DEF HasNext
  <2>2. ASSUME NEW k \in 1..Len(list), Past(k)' PROVE Past(k)
    <3>1. list[k] \in Elements(c) /\ list'[k] = list[k]
      BY <1>1 DEF ListInv
    <3>2. c'.st[list[k]] = "CONNECTED" /\ HasNext(c, list[k])
      BY <2>2, <3>1 DEF Past, HasNext
    <3>3. QED
      BY <3>1, <3>2 DEF Past
  <2>3. QED
    BY <1>1, <2>2 DEF PastInv
<1>5. ReadInv'
  BY <1>1 DEF ReadInv
<1>6. QED
  BY <1>3, <1>4, <1>5

\* The list without one of its elements.
LEMMA EraseKeeps ==
  ASSUME ListInv, NEW k \in 1..Len(list)
  PROVE  /\ erase(k) \in Seq(Nat) /\ Len(erase(k)) = Len(list) - 1 /\ Len(list) \in Nat
         /\ \A m \in 1..(Len(list) - 1) : erase(k)[m] = IF m < k THEN list[m] ELSE list[m + 1]
<1> DEFINE s == list
           a == SubSeq(s, 1, k - 1)
           b == SubSeq(s, k + 1, Len(s))
<1>1. s \in Seq(Nat) /\ Len(s) \in Nat /\ k \in 1..Len(s)
  BY LenProperties DEF ListInv
<1> HIDE DEF s
<1>2. a \in Seq(Nat) /\ Len(a) = k - 1 /\ \A m \in 1..(k - 1) : a[m] = s[m]
  <2> DEFINE n == k - 1
             l == 1
  <2>1. n \in Nat /\ l \in Int /\ \A m \in l..n : s[m] \in Nat
    BY <1>1
  <2>2. l <= n + 1 /\ n - l + 1 = n /\ \A m \in 1..n : l + m - 1 = m
    BY <2>1
  <2> HIDE DEF n, l
  <2>3. /\ SubSeq(s, l, n) \in Seq(Nat) /\ Len(SubSeq(s, l, n)) = (IF l <= n THEN n - l + 1 ELSE 0)
        /\ \A m \in 1..(n - l + 1) : SubSeq(s, l, n)[m] = s[l + m - 1]
    BY <2>1, SubSeqProperties
  <2>4. Len(SubSeq(s, l, n)) = n /\ \A m \in 1..n : SubSeq(s, l, n)[m] = s[m]
    BY <2>1, <2>2, <2>3
  <2>5. QED
    BY <2>3, <2>4 DEF n, l
<1>3. b \in Seq(Nat) /\ Len(b) = Len(s) - k /\ \A m \in 1..(Len(s) - k) : b[m] = s[k + m]
  <2> DEFINE n == Len(s)
             l == k + 1
  <2>1. n \in Nat /\ l \in Int /\ \A m \in l..n : s[m] \in Nat
    BY <1>1
  <2>2. l <= n + 1 /\ n - l + 1 = Len(s) - k /\ \A m \in 1..(Len(s) - k) : l + m - 1 = k + m
    BY <1>1
  <2> HIDE DEF n, l
  <2>3. /\ SubSeq(s, l, n) \in Seq(Nat) /\ Len(SubSeq(s, l, n)) = (IF l <= n THEN n - l + 1 ELSE 0)
        /\ \A m \in 1..(n - l + 1) : SubSeq(s, l, n)[m] = s[l + m - 1]
    BY <2>1, SubSeqProperties
  <2> DEFINE r == SubSeq(s, l, n)
  <2>4. r \in Seq(Nat) /\ Len(r) = (IF l <= n THEN n - l + 1 ELSE 0) /\ \A m \in 1..(n - l + 1) : r[m] = s[l + m - 1]
    BY <2>3
  <2> HIDE DEF r
  <2>5. Len(r) = Len(s) - k
    BY <1>1, <2>1, <2>2, <2>4
  <2>6. ASSUME NEW m \in 1..(Len(s) - k) PROVE r[m] = s[k + m]
    <3>1. l + m - 1 = k + m /\ m \in 1..(n - l + 1)
      BY <2>2, <2>6
    <3>2. r[m] = s[l + m - 1]
      BY <2>4, <3>1
    <3>3. QED
      BY <3>1, <3>2
  <2>7. QED
    BY <2>4, <2>5, <2>6 DEF n, l, r
<1> HIDE DEF a, b
<1>4. /\ a \o b \in Seq(Nat) /\ Len(a \o b) = Len(a) + Len(b)
      /\ \A m \in 1..(Len(a) + Len(b)) : (a \o b)[m] = IF m <= Len(a) THEN a[m] ELSE b[m - Len(a)]
  BY <1>2, <1>3, ConcatProperties
<1>5. Len(a \o b) = Len(s) - 1
  BY <1>1, <1>2, <1>3, <1>4
<1>6. ASSUME NEW m \in 1..(Len(s) - 1) PROVE (a \o b)[m] = IF m < k THEN s[m] ELSE s[m + 1]
  <2>1. m \in 1..(Len(a) + Len(b))
    BY <1>1, <1>2, <1>3
  <2>2. CASE m < k
    BY <1>1, <1>2, <1>4, <2>1, <2>2
  <2>3. CASE ~(m < k)
    <3>1. m - (k - 1) \in 1..(Len(s) - k) /\ k + (m - (k - 1)) = m + 1
      BY <1>1, <2>3
    <3>2. (a \o b)[m] = b[m - (k - 1)]
      <4>1. ~(m <= Len(a)) /\ m - Len(a) = m - (k - 1)
        BY <1>1, <1>2, <2>3
      <4>2. (a \o b)[m] = b[m - Len(a)]
        BY <1>4, <2>1, <4>1
      <4>3. QED
        BY <4>1, <4>2
    <3>3. QED
      BY <1>3, <2>3, <3>1, <3>2
  <2>4. QED
    BY <2>2, <2>3
<1>7. erase(k) = a \o b
  BY DEF erase, a, b, s
<1>8. QED
  BY <1>1, <1>4, <1>5, <1>6, <1>7 DEF s

\* The list that an element is taken from keeps its order, and what leaves
\* it is among what has gone.
LEMMA ListErased ==
  ASSUME ListInv, NEW k \in 1..Len(list), list' = erase(k), gone' = gone \cup {list[k]},
         c'.kind = c.kind, at' = at, pc' \notin {"WR", "del"}
  PROVE  ListInv'
<1> DEFINE N == Len(list)
<1>1. /\ list' \in Seq(Nat) /\ Len(list') = N - 1 /\ N \in Nat
      /\ \A m \in 1..(N - 1) : list'[m] = IF m < k THEN list[m] ELSE list[m + 1]
  BY EraseKeeps
<1>2. /\ list \in Seq(Nat) /\ DOMAIN list = 1..N /\ \A m \in 1..N : list[m] \in Elements(c) /\ list[m] \in Nat
      /\ \A i, j \in 1..N : i < j => list[i] < list[j]
      /\ Listed = {list[m] : m \in 1..N}
  BY DEF ListInv, Listed
<1>3. DOMAIN list' = 1..(N - 1) /\ Listed' = {list'[m] : m \in 1..(N - 1)}
  BY <1>1 DEF Listed
<1> HIDE DEF N
<1>4. \A m \in 1..(N - 1) : list'[m] \in Elements(c)
  BY <1>1, <1>2
<1>5. ASSUME NEW i \in 1..(N - 1), NEW j \in 1..(N - 1), i < j PROVE list'[i] < list'[j]
  <2>1. CASE i < k /\ j < k
    BY <1>1, <1>2, <1>5, <2>1
  <2>2. CASE i < k /\ ~(j < k)
    BY <1>1, <1>2, <1>5, <2>2
  <2>3. CASE ~(i < k)
    <3>1. i + 1 \in 1..N /\ j + 1 \in 1..N /\ i + 1 < j + 1 /\ ~(j < k)
      BY <1>1, <1>5, <2>3 DEF N
    <3>2. list'[i] = list[i + 1] /\ list'[j] = list[j + 1]
      BY <1>1, <2>3, <3>1
    <3>3. QED
      BY <1>2, <3>1, <3>2
  <2>4. QED
    BY <2>1, <2>2, <2>3
<1>6. Listed' = Listed \ {list[k]}
  <2>0. k \in 1..N
    BY DEF N
  <2>1. ASSUME NEW m \in 1..(N - 1) PROVE list'[m] \in Listed \ {list[k]}
    <3>1. CASE m < k
      <4>1. list'[m] = list[m] /\ m \in 1..N
        BY <1>1, <2>0, <3>1
      <4>2. list[m] < list[k] /\ list[m] \in Nat /\ list[k] \in Nat
        BY <1>2, <2>0, <3>1, <4>1
      <4>3. QED
        BY <1>2, <4>1, <4>2
    <3>2. CASE ~(m < k)
      <4>1. list'[m] = list[m + 1] /\ m + 1 \in 1..N /\ k < m + 1
        BY <1>1, <2>0, <3>2
      <4>2. list[k] < list[m + 1] /\ list[m + 1] \in Nat /\ list[k] \in Nat
        BY <1>2, <2>0, <4>1
      <4>3. QED
        BY <1>2, <4>1, <4>2
    <3>3. QED
      BY <3>1, <3>2
  <2>2. ASSUME NEW m \in 1..N, m # k PROVE list[m] \in Listed'
    <3>1. CASE m < k
      <4>1. m \in 1..(N - 1) /\ list'[m] = list[m]
        BY <1>1, <3>1 DEF N
      <4>2. QED
        BY <1>3, <4>1
    <3>2. CASE ~(m < k)
      <4>1. m - 1 \in 1..(N - 1) /\ ~(m - 1 < k) /\ m - 1 + 1 = m
        BY <1>1, <2>2, <3>2 DEF N
      <4>2. list'[m - 1] = list[m]
        BY <1>1, <4>1
      <4>3. QED
        BY <1>3, <4>1, <4>2
    <3>3. QED
      BY <3>1, <3>2
  <2>3. QED
    BY <1>2, <1>3, <2>1, <2>2
<1>7. Listed' \cup gone' = Listed \cup gone /\ list[k] \in Listed
  BY <1>2, <1>6 DEF N
<1>8. Elements(c)' = Elements(c) /\ User' = User /\ c'.kind[1] = c.kind[1]
  BY DEF Elements, User
<1>9. Listed' \cap gone' = {} /\ gone' \subseteq Elements(c)
  BY <1>2, <1>6, <1>7 DEF ListInv, N
<1>10. IF c'.kind[1] = "accepted" THEN Listed' \subseteq {User}
       ELSE \A i \in Listed' \cup gone' : \A j \in 1..i : j \in Listed' \cup gone'
  BY <1>6, <1>7 DEF ListInv
<1>11. QED
  BY <1>1, <1>4, <1>5, <1>8, <1>9, <1>10 DEF ListInv
-----------------------------------------------------------------------------
(* The loop's steps *)

\* Nobody is to leave the list where the loop does not look at it.
LEMMA NonePast ==
  ASSUME Inv, pc \notin {"RD", "WR", "del"} \/ (rd /\ pc = "RD"), NEW k \in 1..Len(list)
  PROVE  ~Past(k)
BY DEF Inv, PastInv

\* getlistbits(): the sets are filled from a list in which nobody is to leave.
LEMMA BitsStep ==
  ASSUME Inv, GetListBits
  PROVE  Inv'
<1>1. /\ pc = "bits" /\ pc' = "select" /\ rd' = (\E i \in Listed : needs(c, i, "RD"))
      /\ UNCHANGED <<c, list, gone, at, sent, written, taken>>
  BY DEF GetListBits
<1>2. ConnInv'
  BY <1>1 DEF Inv, ConnInv
<1>3. ListInv'
  BY <1>1 DEF Inv, ListInv, Listed, User, Elements
<1>4. PastInv'
  BY <1>1, NonePast DEF PastInv, Past, HasNext
<1>5. ASSUME rd', c.kind[1] = "tcp" PROVE c.st[1] \in Over
  <2>1. PICK i \in Listed : needs(c, i, "RD")
    BY <1>1, <1>5
  <2>2. i \in Elements(c) /\ Elements(c) = 1..Top(c) /\ Top(c) \in 1..3 /\ 1 \in Elements(c)
    BY <2>1, ShapeFacts DEF Inv, ListInv, Listed, ConnInv, IsConn, Top
  <2>3. c.st[i] \in StatesOf(c.kind[i]) /\ c.st[i] \notin {"NEW", "DISCONNECTED", "FAILED"}
    BY <2>1, <2>2 DEF Inv, ConnInv, Sound, Control, Phases, needs
  <2>4. CASE i = 1
    <3>1. c.st[1] \in {"CONNECTING", "CONNECTED"}
      BY <1>5, <2>3, <2>4 DEF StatesOf, Over
    <3>2. c.st[1] # "CONNECTING"
      BY <1>5, <2>1, <2>4 DEF needs, tcpneeds, ssl
    <3>3. QED
      BY <3>1, <3>2 DEF Over
  <2>5. CASE i # 1
    <3>1. c.kind[i] \in {"socks4", "ssl"}
      BY <1>5, <2>2, <2>5, ShapeFacts DEF Inv, ConnInv, IsConn, Top
    <3>2. c.st[i] \in Started
      BY <2>3, <3>1 DEF StatesOf, Over, Started
    <3>3. 1 < i
      BY <2>2, <2>5
    <3>4. QED
      BY <1>5, <2>2, <3>2, <3>3 DEF Inv, ConnInv, Sound, Control, Order
  <2>6. QED
    BY <2>4, <2>5
<1>6. QED
  BY <1>1, <1>2, <1>3, <1>4, <1>5 DEF Inv, ReadInv

\* select() returns, with any part of the sets, or fails.
LEMMA SelectStep ==
  ASSUME Inv, Select \/ SelectFails
  PROVE  Inv'
<1>1. /\ pc = "select" /\ pc' \in {"RD", "dead"} /\ (rd' => rd) /\ at' \in {1, at}
      /\ UNCHANGED <<c, list, gone, sent, written, taken>>
  <2>1. CASE Select
    <3>1. rd' => rd
      BY <2>1, Zenon DEF Select
    <3>2. QED
      BY <2>1, <3>1 DEF Select
  <2>2. CASE SelectFails
    BY <2>2 DEF SelectFails
  <2>3. QED
    BY <2>1, <2>2
<1>2. ConnInv'
  BY <1>1 DEF Inv, ConnInv
<1>3. ListInv'
  <2>1. at' \in Nat \ {0} /\ pc' \notin {"WR", "del"}
    BY <1>1 DEF Inv, ListInv
  <2>2. QED
    BY <1>1, <2>1 DEF Inv, ListInv, Listed, User, Elements
<1>4. PastInv'
  BY <1>1, NonePast DEF PastInv, Past, HasNext
<1>5. QED
  BY <1>1, <1>2, <1>3, <1>4 DEF Inv, ReadInv

\* candelete(): an element that handed its socket on leaves the list before
\* the loop comes round.
LEMMA CanDeleteStep ==
  ASSUME Inv, CanDelete
  PROVE  Inv'
<1>1. pc = "del" /\ pc' = "RD" /\ UNCHANGED <<c, rd, wr, sent, written, taken>>
  BY DEF CanDelete
<1>2. ConnInv' /\ ReadInv'
  BY <1>1 DEF Inv, ConnInv, ReadInv
<1>3. at \in 1..Len(list) /\ Len(list) \in Nat /\ at \in Nat
  BY <1>1, LenProperties DEF Inv, ListInv
<1>4. ASSUME NEW k \in 1..Len(list), Past(k) PROVE k >= at /\ (rd => k = at)
  BY <1>4 DEF Inv, PastInv
<1>5. CASE candelete(c, list[at])
  <2>1. list' = erase(at) /\ gone' = gone \cup {list[at]} /\ at' = at
    BY <1>5 DEF CanDelete
  <2>2. ListInv'
    BY <1>1, <1>3, <2>1, ListErased DEF Inv
  <2>3. /\ Len(list') = Len(list) - 1
        /\ \A m \in 1..(Len(list) - 1) : list'[m] = IF m < at THEN list[m] ELSE list[m + 1]
    BY <1>3, <2>1, EraseKeeps DEF Inv
  <2>4. ASSUME NEW m \in 1..Len(list'), Past(m)' PROVE m >= at /\ ~rd
    <3>1. CASE m < at
      <4>1. m \in 1..Len(list) /\ Past(m)
        BY <1>1, <1>3, <2>3, <2>4, <3>1 DEF Past, HasNext
      <4>2. QED
        BY <1>3, <1>4, <3>1, <4>1
    <3>2. CASE ~(m < at)
      <4>1. m + 1 \in 1..Len(list) /\ list'[m] = list[m + 1]
        BY <1>3, <2>3, <3>2
      <4>2. Past(m + 1)
        BY <1>1, <2>4, <4>1 DEF Past, HasNext
      <4>3. rd => m + 1 = at
        BY <1>4, <4>1, <4>2
      <4>4. QED
        BY <1>3, <3>2, <4>3
    <3>3. QED
      BY <3>1, <3>2
  <2>5. PastInv'
    BY <1>1, <2>1, <2>4 DEF PastInv
  <2>6. QED
    BY <1>2, <2>2, <2>5 DEF Inv
<1>6. CASE ~candelete(c, list[at])
  <2>1. at' = at + 1 /\ UNCHANGED <<list, gone>>
    BY <1>6 DEF CanDelete
  <2>2. ListInv'
    <3>1. at' \in Nat \ {0} /\ pc' \notin {"WR", "del"}
      BY <1>1, <1>3, <2>1
    <3>2. QED
      BY <1>1, <2>1, <3>1 DEF Inv, ListInv, Listed, User, Elements
  <2>3. ~Past(at)
    BY <1>6 DEF candelete, Past
  <2>4. ASSUME NEW k \in 1..Len(list'), Past(k)' PROVE k >= at' /\ ~rd'
    <3>1. k \in 1..Len(list) /\ Past(k)
      BY <1>1, <2>1, <2>4 DEF Past, HasNext
    <3>2. k >= at /\ (rd => k = at) /\ k # at /\ k \in Nat
      BY <1>4, <2>3, <3>1
    <3>3. QED
      BY <1>1, <1>3, <2>1, <3>2
  <2>5. PastInv'
    BY <1>1, <2>4 DEF PastInv
  <2>6. QED
    BY <1>2, <2>2, <2>5 DEF Inv
<1>7. QED
  BY <1>5, <1>6

\* The end of the list: the loop starts over.
LEMMA EndStep ==
  ASSUME Inv, EndOfList
  PROVE  Inv'
<1>1. /\ pc = "RD" /\ at > Len(list) /\ pc' = "bits" /\ at' = 1 /\ rd' = FALSE
      /\ UNCHANGED <<c, list, gone, sent, written, taken>>
  BY DEF EndOfList
<1>2. ConnInv'
  BY <1>1 DEF Inv, ConnInv
<1>3. ListInv'
  BY <1>1 DEF Inv, ListInv, Listed, User, Elements
<1>4. at \in Nat /\ Len(list) \in Nat
  BY LenProperties DEF Inv, ListInv
<1>5. ASSUME NEW k \in 1..Len(list) PROVE ~Past(k)
  <2>1. Past(k) => k >= at
    BY DEF Inv, PastInv
  <2>2. QED
    BY <1>1, <1>4, <2>1
<1>6. PastInv'
  BY <1>1, <1>5 DEF PastInv, Past, HasNext
<1>7. QED
  BY <1>1, <1>2, <1>3, <1>6 DEF Inv, ReadInv

\* A handler has run: the loop goes on, past maywrite() after an exception.
LEMMA Handled ==
  ASSUME Inv, at <= Len(list), NEW e, Result(c, e, list[at], written, sent, taken),
         c' = IF e.thrown THEN caught(e, list[at]) ELSE e,
         pc \in {"RD", "WR"}, pc' \in {"WR", "del"},
         UNCHANGED <<list, gone, at, rd, wr, sent, written, taken>>,
         NoOther(c, e, list[at]) \/ (c.kind[1] = "tcp" /\ c.st[1] = "CONNECTING" /\ list[at] = 1)
  PROVE  Inv'
<1> DEFINE i == list[at]
<1>1. at \in 1..Len(list) /\ i \in Elements(c) /\ Len(list) \in Nat
  BY LenProperties DEF Inv, ListInv
<1>2. Elements(c) = 1..Top(c) /\ Top(c) \in 1..3 /\ 1 \in Elements(c)
  BY ShapeFacts DEF Inv, ConnInv, IsConn, Top
<1> HIDE DEF i
<1>3. /\ IsConn(c') /\ ~c'.thrown /\ c'.kind = c.kind /\ Sound(c', written, sent, taken)
      /\ \A j \in Elements(c) : c'.st[j] = e.st[j] \/ c'.st[j] = "FAILED"
  <2>1. IsConn(e) /\ e.kind = c.kind /\ Elements(e) = Elements(c)
    BY DEF Result, Elements
  <2>2. CASE e.thrown
    <3>1. /\ IsConn(caught(e, i)) /\ Failed(e, caught(e, i), i) /\ ~caught(e, i).thrown
      BY <1>1, <2>1, CaughtKeeps
    <3>2. c' = caught(e, i) /\ Sound(caught(e, i), written, sent, taken)
      BY <2>2 DEF Result, i
    <3> DEFINE f == caught(e, i)
    <3> HIDE DEF f
    <3>3. f.kind = e.kind /\ \A j \in Elements(e) : f.st[j] = e.st[j] \/ f.st[j] = "FAILED"
      BY <3>1 DEF Failed, SameRest, f
    <3>4. QED
      BY <2>1, <3>1, <3>2, <3>3 DEF f
  <2>3. CASE ~e.thrown
    BY <2>1, <2>3 DEF Result
  <2>4. QED
    BY <2>2, <2>3
<1>4. ConnInv'
  BY <1>3 DEF Inv, ConnInv
<1>5. Elements(c)' = Elements(c) /\ User' = User /\ Listed' = Listed
  BY <1>3 DEF Elements, User, Listed
<1>6. ListInv'
  BY <1>1, <1>3, <1>5 DEF Inv, ListInv
<1>7. ReadInv'
  <2>1. c.st[1] \in Over => c'.st[1] \in Over
    <3>1. c.st[1] \in Over => e.st[1] \in Over
      BY DEF Result
    <3>2. QED
      BY <1>2, <1>3, <3>1 DEF Over
  <2>2. QED
    BY <1>3, <2>1 DEF Inv, ReadInv
<1>8. ASSUME NEW k \in 1..Len(list), Past(k)' PROVE k >= at /\ (rd => k = at)
  <2>1. /\ list[k] \in Elements(c) /\ c'.st[list[k]] = "CONNECTED" /\ HasNext(c, list[k])
        /\ list[k] \in Nat /\ k \in Nat /\ at \in Nat
    BY <1>1, <1>3, <1>8 DEF Past, HasNext, Inv, ListInv
  <2>2. e.st[list[k]] = "CONNECTED" /\ list[k] < Top(c)
    BY <1>3, <2>1 DEF HasNext, Top
  <2>3. CASE Past(k)
    BY <2>3 DEF Inv, PastInv
  <2>4. CASE list[k] = i
    <3>1. ~(k < at) /\ ~(at < k)
      BY <1>1, <1>2, <2>1, <2>4 DEF Inv, ListInv, i
    <3>2. QED
      BY <2>1, <3>1
  <2>5. CASE ~Past(k) /\ list[k] # i
    <3>1. c.st[list[k]] # "CONNECTED"
      BY <2>1, <2>5 DEF Past
    <3>2. ~NoOther(c, e, i)
      BY <2>1, <2>2, <2>5, <3>1 DEF NoOther
    <3>3. c.kind[1] = "tcp" /\ c.st[1] = "CONNECTING" /\ i = 1
      BY <3>2 DEF i
    <3>4. ~rd
      BY <3>3 DEF Inv, ReadInv, Over
    <3>5. ~(k < at)
      <4>1. k < at => list[k] < list[at]
        BY <1>1 DEF Inv, ListInv
      <4>2. list[k] >= 1
        BY <1>2, <2>1
      <4>3. QED
        BY <2>1, <3>3, <4>1, <4>2 DEF i
    <3>6. QED
      BY <2>1, <3>4, <3>5
  <2>6. QED
    BY <2>3, <2>4, <2>5
<1>9. PastInv'
  <2>1. ASSUME NEW k \in 1..Len(list), Past(k)' PROVE rd => pc' \in {"WR", "del"}
    OBVIOUS
  <2>2. QED
    BY <1>8 DEF PastInv
<1>10. QED
  BY <1>4, <1>6, <1>7, <1>9 DEF Inv

\* No handler has run.
LEMMA Unhandled ==
  ASSUME Inv,
         (pc = "RD" /\ pc' = "WR") \/ (pc = "WR" /\ pc' = "del") \/ (pc' = "crashed" /\ fd(c, list[at]) = "null"),
         pc \in {"RD", "WR"}, at <= Len(list),
         UNCHANGED <<c, list, gone, at, rd, wr, sent, written, taken>>
  PROVE  Inv'
<1>1. ConnInv' /\ ReadInv'
  BY DEF Inv, ConnInv, ReadInv
<1>2. ListInv'
  BY DEF Inv, ListInv, Listed, User, Elements
<1>3. ASSUME NEW k \in 1..Len(list), Past(k) PROVE pc' # "crashed"
  <2>1. SUFFICES ASSUME ~c.s[1] PROVE FALSE
    BY DEF fd
  <2>2. c.st[1] \in {"DISCONNECTED", "FAILED"} /\ (Top(c) = 1 \/ (Top(c) = 2 /\ ~c.s[2]))
    BY <2>1 DEF Inv, ConnInv, Sound, Control, SocketsKept
  <2>3. list[k] \in 1..Top(c) /\ c.st[list[k]] = "CONNECTED" /\ list[k] < Top(c) /\ Top(c) \in 1..3
    BY <1>3, ShapeFacts DEF Past, HasNext, Inv, ListInv, ConnInv, IsConn, Top
  <2>4. list[k] = 1
    BY <2>2, <2>3
  <2>5. QED
    BY <2>2, <2>3, <2>4
<1>4. PastInv'
  <2>1. ASSUME NEW k \in 1..Len(list), Past(k) PROVE k >= at /\ pc' \in {"WR", "del"} /\ (rd => k = at)
    BY <1>3, <2>1 DEF Inv, PastInv
  <2>2. \A k : Past(k)' <=> Past(k)
    BY DEF Past, HasNext
  <2>3. QED
    BY <2>1, <2>2 DEF PastInv
<1>5. QED
  BY <1>1, <1>2, <1>4 DEF Inv

\* isinbits(), then the handler, for either set of descriptors.
LEMMA HandlerRun ==
  ASSUME Inv, at <= Len(list), fd(c, list[at]) = "open"
  PROVE  /\ IsConn(c) /\ ~c.thrown /\ c.s[1] /\ list[at] \in Elements(c) /\ sent \in Nat /\ taken \in Bytes
         /\ Sound(c, written, sent, taken)
         /\ pc = "RD" /\ rd => (c.st[list[at]] = "CONNECTED" => list[at] = Top(c))
<1>1. at \in 1..Len(list) /\ list[at] \in Elements(c)
  BY LenProperties DEF Inv, ListInv
<1>2. c.s[1]
  BY DEF fd
<1>3. ASSUME pc = "RD", rd, c.st[list[at]] = "CONNECTED" PROVE list[at] = Top(c)
  <2>1. ~HasNext(c, list[at])
    BY <1>1, <1>3, NonePast DEF Past
  <2>2. Elements(c) = 1..Top(c) /\ Top(c) \in 1..3
    BY ShapeFacts DEF Inv, ConnInv, IsConn, Top
  <2>3. CASE c.kind[1] = "accepted"
    BY <1>1, <2>3 DEF Inv, ListInv, Listed, User, Top
  <2>4. CASE c.kind[1] # "accepted"
    <3>1. \A j \in 1..Top(c) : c.kind[j] # "sslin"
      BY <2>4, ShapeFacts DEF Inv, ConnInv, IsConn, Top
    <3>2. list[at] < Top(c) => HasNext(c, list[at])
      BY <1>1, <2>2, <3>1 DEF HasNext, Top
    <3>3. QED
      BY <1>1, <2>1, <2>2, <3>2
  <2>5. QED
    BY <2>3, <2>4
<1>4. QED
  BY <1>1, <1>2, <1>3 DEF Inv, ConnInv

\* mayread() for the element the loop is at.
LEMMA MayReadStep ==
  ASSUME Inv, MayRead
  PROVE  Inv'
<1> DEFINE i == list[at]
<1>1. pc = "RD" /\ at <= Len(list) /\ UNCHANGED <<list, gone, at, rd, wr, sent, written, taken>>
  BY DEF MayRead, Dispatch
<1>2. CASE fd(c, i) = "null"
  <2>1. pc' = "crashed" /\ UNCHANGED c
    BY <1>2 DEF MayRead, Dispatch
  <2>2. QED
    BY <1>1, <1>2, <2>1, Unhandled
<1>3. CASE fd(c, i) = "open" /\ rd
  <2>1. PICK e \in mayread(c, i) :
          /\ c' = IF e.thrown THEN [fail(e, i) EXCEPT !.thrown = FALSE] ELSE e
          /\ pc' = IF e.thrown THEN "del" ELSE "WR"
    BY <1>3 DEF MayRead, Dispatch
  <2>2. c' = (IF e.thrown THEN caught(e, i) ELSE e) /\ pc' \in {"WR", "del"}
    BY <2>1 DEF caught
  <2>3. Result(c, e, i, written, sent, taken) /\ NoOther(c, e, i)
    BY <1>1, <1>3, HandlerRun, MayReadResult
  <2>4. QED
    BY <1>1, <2>2, <2>3, Handled
<1>4. CASE fd(c, i) # "null" /\ ~(fd(c, i) = "open" /\ rd)
  <2>1. pc' = "WR" /\ UNCHANGED c
    BY <1>4 DEF MayRead, Dispatch
  <2>2. QED
    BY <1>1, <2>1, Unhandled
<1>5. QED
  BY <1>2, <1>3, <1>4

\* maywrite() for the element the loop is at.
LEMMA MayWriteStep ==
  ASSUME Inv, MayWrite
  PROVE  Inv'
<1> DEFINE i == list[at]
<1>1. pc = "WR" /\ at <= Len(list) /\ UNCHANGED <<list, gone, at, rd, wr, sent, written, taken>>
  BY DEF MayWrite, Dispatch
<1>2. CASE fd(c, i) = "null"
  <2>1. pc' = "crashed" /\ UNCHANGED c
    BY <1>2 DEF MayWrite, Dispatch
  <2>2. QED
    BY <1>1, <1>2, <2>1, Unhandled
<1>3. CASE fd(c, i) = "open" /\ wr
  <2>1. PICK e \in maywrite(c, i) :
          /\ c' = IF e.thrown THEN [fail(e, i) EXCEPT !.thrown = FALSE] ELSE e
          /\ pc' = IF e.thrown THEN "del" ELSE "del"
    BY <1>3 DEF MayWrite, Dispatch
  <2>2. c' = (IF e.thrown THEN caught(e, i) ELSE e) /\ pc' \in {"WR", "del"}
    BY <2>1 DEF caught
  <2>3. /\ Result(c, e, i, written, sent, taken)
        /\ NoOther(c, e, i) \/ (c.kind[1] = "tcp" /\ c.st[1] = "CONNECTING" /\ i = 1)
    BY <1>1, <1>3, HandlerRun, MayWriteResult
  <2>4. QED
    BY <1>1, <2>2, <2>3, Handled
<1>4. CASE fd(c, i) # "null" /\ ~(fd(c, i) = "open" /\ wr)
  <2>1. pc' = "del" /\ UNCHANGED c
    BY <1>4 DEF MayWrite, Dispatch
  <2>2. QED
    BY <1>1, <2>1, Unhandled
<1>5. QED
  BY <1>2, <1>3, <1>4
-----------------------------------------------------------------------------
(* The steps of the others *)

\* add(): an element that is not in the list is put there, in its place.
LEMMA AddStep ==
  ASSUME Inv, NEW i \in Elements(c), Add(i)
  PROVE  Inv'
<1>1. /\ i \notin Listed \cup gone /\ list' = Append(list, i)
      /\ UNCHANGED <<c, gone, pc, at, rd, wr, sent, written, taken>>
  BY DEF Add
<1>2. /\ Elements(c) = 1..Top(c) /\ Top(c) \in 1..3 /\ 1 \in Elements(c) /\ User = Top(c)
      /\ c.kind[1] \in {"tcp", "accepted", "listen"}
  BY ShapeFacts DEF Inv, ConnInv, IsConn, Top, User
<1>3. ConnInv' /\ ReadInv'
  BY <1>1 DEF Inv, ConnInv, ReadInv
<1> DEFINE N == Len(list)
<1>4. /\ list' \in Seq(Nat) /\ Len(list') = N + 1 /\ N \in Nat
      /\ \A k \in 1..N : list'[k] = list[k] /\ list[k] \in Elements(c)
      /\ list'[N + 1] = i
  BY <1>1, <1>2, AppendProperties, LenProperties DEF Inv, ListInv
<1>5. Listed = {list[k] : k \in 1..N} /\ Listed' = {list'[k] : k \in 1..(N + 1)}
  <2>1. list \in Seq(Nat) /\ list' \in Seq(Nat)
    BY <1>4 DEF Inv, ListInv
  <2>2. DOMAIN list = 1..N /\ DOMAIN list' = 1..(N + 1)
    BY <1>4, <2>1
  <2>3. QED
    BY <2>2 DEF Listed
<1> HIDE DEF N
<1>6. Listed' = Listed \cup {i}
  <2>1. \A k \in 1..N : k \in 1..(N + 1)
    BY <1>4
  <2>2. Listed \subseteq Listed' /\ i \in Listed'
    BY <1>4, <1>5, <2>1
  <2>3. ASSUME NEW k \in 1..(N + 1) PROVE list'[k] \in Listed \cup {i}
    <3>1. k \in 1..N \/ k = N + 1
      BY <1>4
    <3>2. QED
      BY <1>4, <1>5, <3>1
  <2>4. QED
    BY <1>5, <2>2, <2>3
<1>7. c.kind[1] = "accepted" => i = User
  <2>1. c.kind[1] = "accepted" => c.st[1] # "NEW"
    BY <1>2 DEF Inv, ConnInv, Sound, Control, Phases, StatesOf, Over
  <2>2. QED
    BY <2>1 DEF Add
<1>8. ASSUME NEW k \in 1..N PROVE list[k] < i
  <2>1. list[k] \in Listed /\ list[k] \in 1..Top(c) /\ i \in 1..Top(c) /\ list[k] # i
    BY <1>1, <1>2, <1>4, <1>5
  <2>2. CASE c.kind[1] = "accepted"
    BY <1>7, <2>1, <2>2 DEF Inv, ListInv
  <2>3. CASE c.kind[1] # "accepted"
    <3>1. i \in 1..list[k] => i \in Listed \cup gone
      BY <2>1, <2>3 DEF Inv, ListInv
    <3>2. QED
      BY <1>1, <1>2, <2>1, <3>1
  <2>4. QED
    BY <2>2, <2>3
<1>9. \A k, m \in 1..(N + 1) : k < m => list'[k] < list'[m]
  <2>1. ASSUME NEW k \in 1..(N + 1), NEW m \in 1..(N + 1), k < m PROVE list'[k] < list'[m]
    <3>1. k \in 1..N /\ (m \in 1..N \/ m = N + 1)
      BY <1>4, <2>1
    <3>2. CASE m \in 1..N
      BY <1>4, <2>1, <3>1, <3>2 DEF Inv, ListInv, N
    <3>3. CASE m = N + 1
      BY <1>4, <1>8, <3>1, <3>3
    <3>4. QED
      BY <3>1, <3>2, <3>3
  <2>2. QED
    BY <2>1
<1>10. IF c.kind[1] = "accepted" THEN Listed' \subseteq {User}
       ELSE \A x \in Listed' \cup gone : \A j \in 1..x : j \in Listed' \cup gone
  <2>1. CASE c.kind[1] = "accepted"
    BY <1>6, <1>7, <2>1 DEF Inv, ListInv
  <2>2. CASE c.kind[1] # "accepted"
    <3>1. \A x \in Listed \cup gone : \A j \in 1..x : j \in Listed \cup gone
      BY <2>2 DEF Inv, ListInv
    <3>2. ASSUME NEW j \in 1..i PROVE j \in Listed' \cup gone
      <4>1. i = 1 \/ i - 1 \in Listed \cup gone
        BY <2>2 DEF Add
      <4>2. j = i \/ (j \in 1..(i - 1) /\ i # 1)
        BY <1>2
      <4>3. QED
        BY <1>6, <3>1, <4>1, <4>2
    <3>3. QED
      BY <1>6, <2>2, <3>1, <3>2
  <2>3. QED
    BY <2>1, <2>2
<1>11. ListInv'
  <2>1. \A k \in 1..(N + 1) : list'[k] \in Elements(c)
    <3>1. \A k \in 1..(N + 1) : k \in 1..N \/ k = N + 1
      BY <1>4
    <3>2. QED
      BY <1>4, <3>1
  <2>2. Listed' \cap gone = {}
    BY <1>1, <1>6 DEF Inv, ListInv
  <2>3. at' \in Nat \ {0} /\ (pc' \in {"WR", "del"} => at' <= N + 1)
    BY <1>1, <1>4 DEF Inv, ListInv, N
  <2>4. Elements(c)' = Elements(c) /\ User' = User
    BY <1>1 DEF Elements, User
  <2>5. QED
    BY <1>1, <1>4, <1>9, <1>10, <2>1, <2>2, <2>3, <2>4 DEF Inv, ListInv
<1>12. PastInv'
  <2>1. ASSUME NEW k \in 1..(N + 1), Past(k)' PROVE k \in 1..N /\ Past(k)
    <3>1. k \in 1..N \/ k = N + 1
      BY <1>4
    <3>2. k # N + 1
      <4>1. SUFFICES ASSUME k = N + 1 PROVE FALSE
        OBVIOUS
      <4>2. c.st[i] = "CONNECTED" /\ HasNext(c, i)
        BY <1>1, <1>4, <2>1, <4>1 DEF Past, HasNext
      <4>3. i < Top(c)
        BY <4>2 DEF HasNext, Top
      <4>4. c.st[1] = "NEW" /\ c.kind[1] # "accepted"
        BY <1>2, <1>7, <4>3 DEF Add
      <4>5. c.kind[1] = "tcp" /\ i > 1
        BY <1>2, <4>2, <4>3, <4>4, ShapeFacts DEF Inv, ConnInv, IsConn, Top
      <4>6. c.st[1] \in Over
        BY <1>2, <4>2, <4>5 DEF Inv, ConnInv, Sound, Control, Order, Started
      <4>7. QED
        BY <4>4, <4>6 DEF Over
    <3>3. QED
      BY <1>1, <1>4, <2>1, <3>1, <3>2 DEF Past, HasNext
  <2>2. QED
    BY <1>1, <1>4, <2>1 DEF Inv, PastInv, N
<1>13. QED
  BY <1>3, <1>11, <1>12 DEF Inv

\* The connection changes, not the loop, and no element becomes connected.
LEMMA OtherStep ==
  ASSUME Inv, UNCHANGED loopvars, ConnInv', c'.kind = c.kind,
         \A j \in Elements(c) : c'.st[j] = "CONNECTED" => c.st[j] = "CONNECTED",
         c.st[1] \in Over => c'.st[1] \in Over
  PROVE  Inv'
BY LoopKept DEF Inv, ConnInv

\* What the user and the clock do.
LEMMA UserStep ==
  ASSUME Inv, \/ Start \/ Listen \/ Write \/ Read \/ Close
              \/ \E i \in Elements(c) : TimePasses(i)
  PROVE  Inv'
<1>1. /\ Elements(c) = 1..Top(c) /\ Top(c) \in 1..3 /\ 1 \in Elements(c) /\ User = Top(c)
      /\ sent \in Nat /\ written \in Nat /\ taken \in Bytes /\ DOMAIN c.st = Elements(c)
      /\ IsConn(c) /\ ~c.thrown /\ Sound(c, written, sent, taken)
  BY ShapeFacts DEF Inv, ConnInv, IsConn, Top, User
<1>2. CASE Start
  <2>1. c.kind[1] = "tcp" /\ c.st[1] = "NEW" /\ c' \in start(c, 1) /\ UNCHANGED <<loopvars, sent, written, taken>>
    BY <1>2 DEF Start
  <2>2. /\ IsConn(c') /\ ~c'.thrown /\ c'.kind = c.kind /\ Sound(c', written, sent, taken)
        /\ c'.st = [c.st EXCEPT ![1] = "CONNECTING"]
    BY <1>1, <2>1, StartSound
  <2>3. /\ \A j \in Elements(c) : c'.st[j] = "CONNECTED" => c.st[j] = "CONNECTED"
        /\ c.st[1] \notin Over
    BY <1>1, <2>1, <2>2 DEF Over
  <2>4. QED
    BY <1>1, <2>1, <2>2, <2>3, OtherStep DEF ConnInv
<1>3. CASE Listen
  <2>1. /\ c.kind[1] = "listen" /\ c.st[1] = "NEW" /\ UNCHANGED <<loopvars, sent, written, taken>>
        /\ c' = Listening(c)
    BY <1>3 DEF Listen, Listening
  <2>2. /\ IsConn(c') /\ ~c'.thrown /\ c'.kind = c.kind /\ Sound(c', written, sent, taken)
        /\ c'.st = [c.st EXCEPT ![1] = "LISTENING"]
    BY <1>1, <2>1, ListenSound
  <2>3. /\ \A j \in Elements(c) : c'.st[j] = "CONNECTED" => c.st[j] = "CONNECTED"
        /\ c.st[1] \notin Over
    BY <1>1, <2>1, <2>2 DEF Over
  <2>4. QED
    BY <1>1, <2>1, <2>2, <2>3, OtherStep DEF ConnInv
<1>4. CASE Write
  <2>1. PICK k \in 1..MaxWrite :
          LET room == Cap - Len(c.outq[User])
              want == IF k < room THEN k ELSE room IN
          /\ c' = [c EXCEPT !.outq[User] = @ \o [x \in 1..want |-> written + x]]
          /\ written' = written + want
    BY <1>4 DEF Write
  <2> DEFINE room == Cap - Len(c.outq[Top(c)])
             want == IF k < room THEN k ELSE room
  <2>2. /\ c' = Queued(c, written, want)
        /\ written' = written + want /\ UNCHANGED <<loopvars, sent, taken>>
    BY <1>1, <1>4, <2>1 DEF Write, Queued
  <2>3. want \in Nat /\ want <= room
    <3>1. Len(c.outq[Top(c)]) \in Nat /\ Len(c.outq[Top(c)]) <= Cap
      BY <1>1 DEF IsConn, Bytes
    <3>2. room \in Nat
      <4>1. Cap \in Nat
        BY SizeAssumption
      <4> DEFINE l == Len(c.outq[Top(c)])
      <4>2. l \in Nat /\ l <= Cap
        BY <3>1
      <4> HIDE DEF l
      <4>3. Cap - l \in Nat
        BY <4>1, <4>2
      <4>4. QED
        BY <4>3 DEF l
    <3> HIDE DEF room
    <3>3. k \in Nat /\ k >= 1
      BY SizeAssumption
    <3>4. QED
      BY <3>2, <3>3
  <2> HIDE DEF want
  <2>4. IsConn(c') /\ ~c'.thrown /\ c'.kind = c.kind /\ c'.st = c.st /\ Sound(c', written + want, sent, taken)
    BY <1>1, <2>2, <2>3, WrittenSound
  <2>5. written + want \in Nat
    BY <1>1, <2>3
  <2>6. QED
    <3>1. \A j \in Elements(c) : c'.st[j] = "CONNECTED" => c.st[j] = "CONNECTED"
      BY <2>4
    <3>2. ConnInv'
      <4>1. sent' = sent /\ taken' = taken /\ written' = written + want
        BY <2>2
      <4>2. sent' \in Nat /\ written' \in Nat /\ taken' \in Bytes
        BY <1>1, <2>5, <4>1
      <4>3. Sound(c', written', sent', taken')
        BY <2>4, <4>1, Zenon
      <4>4. QED
        BY <2>4, <4>2, <4>3 DEF ConnInv
    <3>3. QED
      BY <1>1, <2>2, <2>4, <3>1, <3>2, OtherStep
<1>5. CASE Read
  <2>1. PICK k \in 1..Len(c.inq[User]) :
          /\ taken' = taken \o SubSeq(c.inq[User], 1, k)
          /\ c' = [c EXCEPT !.inq[User] = SubSeq(@, k + 1, Len(@))]
    BY <1>5 DEF Read
  <2>2. /\ c.st[Top(c)] = "CONNECTED" /\ ~c.stopped[Top(c)] /\ k \in 1..Len(c.inq[Top(c)])
        /\ c' = ReadFrom(c, k)
        /\ taken' = taken \o SubSeq(c.inq[Top(c)], 1, k)
        /\ UNCHANGED <<loopvars, sent, written>>
    BY <1>1, <1>5, <2>1 DEF Read, ReadFrom
  <2>3. /\ IsConn(c') /\ ~c'.thrown /\ c'.kind = c.kind /\ c'.st = c.st
        /\ taken' \in Bytes /\ Sound(c', written, sent, taken')
    BY <1>1, <2>2, TakenSound
  <2>4. QED
    BY <1>1, <2>2, <2>3, OtherStep DEF ConnInv
<1>6. CASE Close
  <2>1. c' = closed(c, Top(c)) /\ UNCHANGED <<loopvars, sent, written, taken>>
    BY <1>1, <1>6 DEF Close
  <2>2. /\ IsConn(c') /\ ~c'.thrown /\ c'.kind = c.kind /\ Sound(c', written, sent, taken)
        /\ \A j \in Elements(c) : c'.st[j] = c.st[j] \/ c'.st[j] = "DISCONNECTED"
    BY <1>1, <2>1, CloseSound
  <2>3. c.st[1] \in Over => c'.st[1] \in Over
    BY <1>1, <2>2 DEF Over
  <2>4. QED
    BY <1>1, <2>1, <2>2, <2>3, OtherStep DEF ConnInv
<1>7. CASE \E i \in Elements(c) : TimePasses(i)
  <2>1. PICK i \in Elements(c) : c' = Late(c, i) /\ UNCHANGED <<loopvars, sent, written, taken>>
    BY <1>7 DEF TimePasses, Late
  <2>2. IsConn(c') /\ Sound(c', written, sent, taken) /\ c'.kind = c.kind /\ c'.st = c.st /\ ~c'.thrown
    BY <1>1, <2>1, LateSound
  <2>3. QED
    BY <1>1, <2>1, <2>2, OtherStep DEF ConnInv
<1>8. QED
  BY <1>2, <1>3, <1>4, <1>5, <1>6, <1>7

\* expiresessions() takes the element of the user from the list.
LEMMA ExpireStep ==
  ASSUME Inv, ExpireSessions
  PROVE  Inv'
<1>1. /\ Elements(c) = 1..Top(c) /\ Top(c) \in 1..3 /\ 1 \in Elements(c) /\ User = Top(c)
      /\ sent \in Nat /\ written \in Nat /\ taken \in Bytes
      /\ IsConn(c) /\ ~c.thrown /\ Sound(c, written, sent, taken)
  BY ShapeFacts DEF Inv, ConnInv, IsConn, Top, User
<1> DEFINE e == closed(c, Top(c))
<1>2. /\ pc \in {"bits", "select"} /\ UNCHANGED <<pc, at, rd, wr, sent, written>>
      /\ c' = [e EXCEPT !.inq[Top(c)] = <<>>] /\ taken' = taken \o c.inq[Top(c)]
      /\ gone' = gone \cup {User}
  BY <1>1 DEF ExpireSessions
<1>3. /\ IsConn(e) /\ ~e.thrown /\ e.kind = c.kind /\ Sound(e, written, sent, taken) /\ e.stopped[Top(c)]
      /\ e.inq = c.inq /\ e.st[Top(c)] = "DISCONNECTED"
      /\ \A j \in Elements(c) : e.st[j] = c.st[j] \/ e.st[j] = "DISCONNECTED"
  BY <1>1, CloseSound
<1> HIDE DEF e
<1>4. Top(e) = Top(c) /\ c' = Drained(e) /\ taken' = taken \o e.inq[Top(e)]
  BY <1>2, <1>3 DEF Top, Drained
<1>5. /\ IsConn(c') /\ ~c'.thrown /\ c'.kind = c.kind /\ c'.st = e.st
      /\ taken' \in Bytes /\ Sound(c', written, sent, taken')
  BY <1>1, <1>3, <1>4, DrainSound
<1>6. ConnInv'
  BY <1>1, <1>2, <1>5 DEF ConnInv
<1>7. PICK k \in 1..Len(list) : list[k] = User /\ list' = erase(k)
  <2>1. DOMAIN list = 1..Len(list)
    BY DEF Inv, ListInv
  <2>2. QED
    BY <2>1 DEF ExpireSessions
<1>8. ListInv'
  BY <1>2, <1>5, <1>7, ListErased DEF Inv
<1>9. ASSUME NEW m \in 1..Len(list') PROVE ~Past(m)'
  <2>1. /\ Len(list') = Len(list) - 1 /\ Len(list) \in Nat
        /\ \A j \in 1..(Len(list) - 1) : list'[j] = IF j < k THEN list[j] ELSE list[j + 1]
    BY <1>7, EraseKeeps DEF Inv
  <2>2. PICK j \in 1..Len(list) : list'[m] = list[j]
    BY <2>1
  <2>3. ~Past(j)
    BY <1>2, NonePast
  <2>4. list[j] \in Elements(c)
    BY DEF Inv, ListInv
  <2>5. QED
    BY <1>3, <1>5, <2>2, <2>3, <2>4 DEF Past, HasNext
<1>10. PastInv'
  BY <1>9 DEF PastInv
<1>11. ReadInv'
  BY <1>1, <1>2, <1>3, <1>5 DEF Inv, ReadInv, Over
<1>12. QED
  BY <1>6, <1>8, <1>10, <1>11 DEF Inv

\* What the network and the peer do.
LEMMA NetworkStep ==
  ASSUME Inv, ConnectEnds \/ PeerSends \/ PeerShuts \/ PeerResets
  PROVE  Inv'
<1>1. /\ Elements(c) = 1..Top(c) /\ Top(c) \in 1..3 /\ 1 \in Elements(c) /\ User = Top(c)
      /\ sent \in Nat /\ written \in Nat /\ taken \in Bytes
      /\ IsConn(c) /\ ~c.thrown /\ Sound(c, written, sent, taken)
  BY ShapeFacts DEF Inv, ConnInv, IsConn, Top, User
<1>2. CASE ConnectEnds
  <2>1. PICK r \in {"ok", "refused"} : c' = Dialed(c, r) /\ UNCHANGED <<loopvars, written, taken, sent>>
    BY <1>2 DEF ConnectEnds, Network, Dialed
  <2>2. IsConn(c') /\ Sound(c', written, sent, taken) /\ c'.kind = c.kind /\ c'.st = c.st /\ ~c'.thrown
    BY <1>1, <2>1, ConnSound
  <2>3. QED
    BY <1>1, <2>1, <2>2, OtherStep DEF ConnInv
<1>3. CASE PeerSends
  <2>1. sent' = sent + 1 /\ c' = Gets(c, sent + 1) /\ UNCHANGED <<loopvars, written, taken>>
    BY <1>3 DEF PeerSends, Network, Gets
  <2>2. Top(c) = 3 /\ c.st[3] = "NEW" => sent < AnsLen
    <3>1. Top(c) = 3 => c.kind[3] = "ssl"
      BY ShapeFacts DEF Inv, ConnInv, IsConn, Top
    <3>2. QED
      BY <1>1, <1>3, <3>1 DEF PeerSends
  <2>3. IsConn(c') /\ Sound(c', written, sent + 1, taken) /\ c'.kind = c.kind /\ c'.st = c.st /\ ~c'.thrown
    BY <1>1, <2>1, <2>2, SentSound
  <2>4. QED
    BY <1>1, <2>1, <2>3, OtherStep DEF ConnInv
<1>4. CASE PeerShuts
  <2>1. c' = Shut(c) /\ UNCHANGED <<loopvars, written, taken, sent>>
    BY <1>4 DEF PeerShuts, Network, Shut
  <2>2. IsConn(c') /\ Sound(c', written, sent, taken) /\ c'.kind = c.kind /\ c'.st = c.st /\ ~c'.thrown
    BY <1>1, <2>1, ConnSound
  <2>3. QED
    BY <1>1, <2>1, <2>2, OtherStep DEF ConnInv
<1>5. CASE PeerResets
  <2>1. c' = Reset(c) /\ UNCHANGED <<loopvars, written, taken, sent>>
    BY <1>5 DEF PeerResets, Network, Reset
  <2>2. IsConn(c') /\ Sound(c', written, sent, taken) /\ c'.kind = c.kind /\ c'.st = c.st /\ ~c'.thrown
    BY <1>1, <2>1, ResetSound
  <2>3. QED
    BY <1>1, <2>1, <2>2, OtherStep DEF ConnInv
<1>6. QED
  BY <1>2, <1>3, <1>4, <1>5
-----------------------------------------------------------------------------
(* The beginning *)

\* A new connection, of any of the shapes.
LEMMA NewConnectionSound ==
  ASSUME NEW kinds \in Shapes, NEW answer \in BOOLEAN
  PROVE  LET d == NewConnection(kinds, answer) IN
         IsConn(d) /\ ~d.thrown /\ Sound(d, 0, 0, <<>>)
<1> DEFINE d == NewConnection(kinds, answer)
<1>1. /\ IsRecord(d) /\ d.kind = kinds /\ Elements(d) = DOMAIN kinds
      /\ d.st = [i \in DOMAIN kinds |-> CASE kinds[i] = "accepted" -> "CONNECTED"
                                          [] kinds[i] = "sslin" -> "ACCEPTING" [] OTHER -> "NEW"]
      /\ d.s = [i \in DOMAIN kinds |-> kinds[i] \notin {"socks4", "ssl"}]
      /\ d.late = [i \in DOMAIN kinds |-> FALSE] /\ d.stopped = [i \in DOMAIN kinds |-> FALSE]
      /\ d.inq = [i \in DOMAIN kinds |-> <<>>]
      /\ d.outq = [i \in DOMAIN kinds |-> IF kinds[i] = "socks4" THEN << 0 >> ELSE <<>>]
      /\ d.unget = [i \in DOMAIN kinds |-> Empty]
      /\ d.thrown = FALSE /\ d.shut = FALSE /\ d.answer = answer /\ d.fin = FALSE /\ d.reset = FALSE
      /\ d.rx = <<>> /\ d.tx = <<>>
  BY DEF NewConnection, IsRecord, Elements
<1> HIDE DEF d
<1>2. /\ Elements(d) = 1..Top(d) /\ Top(d) \in 1..3 /\ 1 \in Elements(d) /\ Top(d) \in Elements(d)
      /\ d.kind[1] \in {"tcp", "accepted", "listen"} /\ d.kind \in Shapes
      /\ (Socks(d) => 2 \in Elements(d) /\ d.kind[2] = "socks4")
      /\ (Top(d) = 3 => Socks(d) /\ d.kind[3] = "ssl")
      /\ \A i \in Elements(d) : d.kind[i] = "socks4" => i = 2
      /\ \A i \in Elements(d) : d.kind[i] \in {"accepted", "sslin"} => d.kind[1] = "accepted"
  <2>1. d.kind \in Shapes
    BY <1>1
  <2>2. /\ Len(d.kind) \in 1..3 /\ Elements(d) = 1..Len(d.kind)
        /\ d.kind[1] \in {"tcp", "accepted", "listen"}
        /\ \A i \in 2..Len(d.kind) : d.kind[i] \in {"socks4", "ssl", "sslin"}
        /\ \A i \in 1..Len(d.kind) : d.kind[i] = "socks4" => i = 2 /\ d.kind[1] = "tcp"
        /\ \A i \in 1..Len(d.kind) : d.kind[i] = "sslin" => i = 2 /\ Len(d.kind) = 2 /\ d.kind[1] = "accepted"
        /\ (Len(d.kind) = 3 => d.kind[2] = "socks4" /\ d.kind[3] = "ssl")
    BY <2>1, ShapeFacts
  <2>3. \A i \in Elements(d) : d.kind[i] \in {"accepted", "sslin"} => d.kind[1] = "accepted"
    <3>1. ASSUME NEW i \in Elements(d), d.kind[i] \in {"accepted", "sslin"} PROVE d.kind[1] = "accepted"
      <4>1. i = 1 \/ i \in 2..Len(d.kind)
        BY <2>2
      <4>2. CASE i = 1
        BY <2>2, <3>1, <4>2
      <4>3. CASE i \in 2..Len(d.kind)
        BY <2>2, <3>1, <4>3
      <4>4. QED
        BY <4>1, <4>2, <4>3
    <3>2. QED
      BY <3>1
  <2>4. QED
    BY <2>1, <2>2, <2>3 DEF Top, Socks
<1>3. \A i \in Elements(d) :
        d.st[i] = IF d.kind[i] = "accepted" THEN "CONNECTED"
                  ELSE IF d.kind[i] = "sslin" THEN "ACCEPTING" ELSE "NEW"
  BY <1>1
<1>4. IsConn(d)
  <2>1. d.st \in [Elements(d) -> States]
    BY <1>1, <1>3 DEF States
  <2>2. <<>> \in Bytes /\ << 0 >> \in Bytes /\ Len(<<>>) <= Cap /\ Len(<< 0 >>) <= Cap
    BY SizeAssumption DEF Bytes
  <2>3. IsBuffer(Empty, Nat)
    BY DEF IsBuffer, Empty
  <2>4. /\ d.s \in [Elements(d) -> BOOLEAN] /\ d.late \in [Elements(d) -> BOOLEAN]
        /\ d.stopped \in [Elements(d) -> BOOLEAN]
    BY <1>1
  <2>5. /\ d.inq \in [Elements(d) -> Bytes] /\ d.outq \in [Elements(d) -> Bytes]
        /\ \A i \in Elements(d) : Len(d.inq[i]) <= Cap /\ Len(d.outq[i]) <= Cap
    BY <1>1, <2>2
  <2>6. DOMAIN d.unget = Elements(d) /\ \A i \in Elements(d) : IsBuffer(d.unget[i], Nat)
    BY <1>1, <2>3
  <2>7. QED
    BY <1>1, <1>2, <2>1, <2>2, <2>4, <2>5, <2>6 DEF IsConn
<1>5. Control(d)
  <2>1. Phases(d)
    BY <1>2, <1>3 DEF Phases, StatesOf, Over
  <2>2. Order(d)
    <3>1. d.kind[1] = "tcp" => \A i \in Elements(d) : d.st[i] = "NEW"
      BY <1>2, <1>3
    <3>2. QED
      BY <3>1 DEF Order, Started
  <2>3. d.s[1]
    BY <1>1, <1>2
  <2>4. QED
    BY <2>1, <2>2, <2>3 DEF Control, SocketsKept
<1>6. \A i \in Elements(d) : Holds(d, i) = IF d.kind[i] = "socks4" THEN << 0 >> ELSE <<>>
  <2>1. \A q : q \in Seq(Nat) => Content(Empty, q) = q
    BY ConcatEmptySeq DEF Content, Rest, Empty
  <2>2. \A i \in Elements(d) : d.unget[i] = Empty /\ d.outq[i] \in Seq(Nat)
    BY <1>1, <1>4 DEF IsConn, Bytes
  <2>3. \A i \in Elements(d) : d.outq[i] = IF d.kind[i] = "socks4" THEN << 0 >> ELSE <<>>
    BY <1>1
  <2>4. QED
    BY <2>1, <2>2, <2>3 DEF Holds
<1>7. Numbers(1, 0) = <<>>
  BY DEF Numbers
<1>8. OutInv(d, 0)
  <2>1. All(d, 0) = (IF Socks(d) THEN << 0 >> ELSE <<>>) /\ All(d, 0) \in Bytes
    <3>1. <<>> \in Bytes /\ << 0 >> \in Bytes
      BY DEF Bytes
    <3>2. <<>> \o <<>> = <<>> /\ << 0 >> \o <<>> = << 0 >>
      BY <3>1, JoinedEmpty
    <3>3. QED
      BY <1>7, <3>1, <3>2 DEF All
  <2>2. Begins(d.tx, All(d, 0))
    BY <1>1, <2>1, JoinedEmpty DEF Begins
  <2>3. Lower(d)
    BY <1>2, <1>3, <1>6 DEF Lower, Started
  <2>4. Asked(d)
    BY <1>2, <1>3 DEF Asked, Started
  <2>5. Below(d) \o Holds(d, Top(d)) = All(d, 0)
    <3>1. CASE Top(d) = 3
      BY <1>2, <1>6, <2>1, <3>1, JoinedEmpty DEF Below
    <3>2. CASE Top(d) # 3
      <4>1. Below(d) = <<>> /\ Holds(d, Top(d)) = All(d, 0)
        BY <1>2, <1>6, <2>1, <3>2 DEF Below, Socks
      <4>2. QED
        BY <2>1, <4>1, JoinedEmpty
    <3>3. QED
      BY <3>1, <3>2
  <2>6. Due(d, 0)
    <3> DEFINE g == Below(d) \o Holds(d, Top(d))
    <3>1. g = All(d, 0)
      BY <2>5
    <3> HIDE DEF g
    <3>2. d.tx \o g = All(d, 0)
      BY <1>1, <2>1, <3>1, JoinedEmpty
    <3>3. QED
      BY <3>2 DEF Due, g
  <2>7. QED
    BY <2>2, <2>3, <2>4, <2>6 DEF OutInv
<1>9. InInv(d, 0, <<>>)
  <2>1. \A i \in Elements(d) : d.inq[i] = <<>>
    BY <1>1
  <2>2. Run(<<>>, 1) /\ <<>> \o <<>> = <<>> /\ Len(<<>>) < AnsLen
    <3>1. 1 + Len(<<>>) - 1 = 0
      OBVIOUS
    <3>2. Run(<<>>, 1)
      BY <1>7, <3>1 DEF Run
    <3>3. QED
      BY <3>2, JoinedEmpty, SizeAssumption
  <2>3. CASE Socks(d)
    <3>1. Answer(d, 0, <<>>)
      BY <1>1, <1>2, <1>7, <2>1, <2>2, <2>3 DEF Answer
    <3>2. Early(d)
      BY <1>2, <1>3, <2>1, <2>3 DEF Early
    <3>3. Quiet(d, 0)
      BY <1>2, <1>3, <2>1, <2>3, SizeAssumption DEF Quiet, Started
    <3>4. QED
      BY <1>2, <2>1, <2>2, <2>3, <3>1, <3>2, <3>3 DEF InInv, SocksIn, Unheard
  <2>4. CASE ~Socks(d)
    <3>1. Heard(d, 1, 0, <<>>)
      BY <1>1, <1>2, <1>7, <2>1, <2>2 DEF Heard
    <3>2. QED
      BY <2>4, <3>1 DEF InInv
  <2>5. QED
    BY <2>3, <2>4
<1>10. QED
  BY <1>1, <1>4, <1>5, <1>8, <1>9 DEF Sound, d

\* The invariant holds at the beginning.
LEMMA InitInv == Init => Inv
<1> SUFFICES ASSUME Init PROVE Inv
  OBVIOUS
<1>1. PICK kinds \in Chains, answer \in BOOLEAN : c = NewConnection(kinds, answer)
  BY DEF Init
<1>2. IsConn(c) /\ ~c.thrown /\ Sound(c, 0, 0, <<>>)
  BY <1>1, ChainAssumption, NewConnectionSound
<1>3. ConnInv
  BY <1>2 DEF Init, ConnInv, Bytes
<1>4. list = <<>> /\ gone = {} /\ pc = "bits" /\ at = 1 /\ rd = FALSE /\ Listed = {}
  BY DEF Init, Listed
<1>5. ListInv
  BY <1>4 DEF ListInv
<1>6. QED
  BY <1>3, <1>4, <1>5 DEF Inv, PastInv, ReadInv

\* Every step keeps it.
LEMMA NextInv == Inv /\ [Next]_vars => Inv'
<1> SUFFICES ASSUME Inv, [Next]_vars PROVE Inv'
  OBVIOUS
<1>1. CASE Loop
  BY <1>1, BitsStep, SelectStep, MayReadStep, MayWriteStep, CanDeleteStep, EndStep DEF Loop
<1>2. CASE \E i \in Elements(c) : Add(i)
  BY <1>2, AddStep
<1>3. CASE Start \/ Listen \/ Write \/ Read \/ Close \/ \E i \in Elements(c) : TimePasses(i)
  BY <1>3, UserStep
<1>4. CASE ExpireSessions
  BY <1>4, ExpireStep
<1>5. CASE ConnectEnds \/ PeerSends \/ PeerShuts \/ PeerResets
  BY <1>5, NetworkStep
<1>6. CASE UNCHANGED vars
  BY <1>6, Zenon DEF vars, Inv, ConnInv, ListInv, PastInv, ReadInv, Past, HasNext, Listed, User, Elements
<1>7. QED
  BY <1>1, <1>2, <1>3, <1>4, <1>5, <1>6 DEF Next

\* So it holds always.
LEMMA SpecInv == Spec => []Inv
BY InitInv, NextInv, PTL DEF Spec
-----------------------------------------------------------------------------
(* What it means *)

\* The loop follows a null pointer only for a tcpstate that was closed while
\* in the list.  (tcpstate::fd, socks4state::fd)
LEMMA CrashStep == Inv /\ CrashCause /\ [Next]_vars => CrashCause'
<1> SUFFICES ASSUME Inv, CrashCause, [Next]_vars PROVE CrashCause'
  OBVIOUS
<1>1. CASE MayRead \/ MayWrite
  <2> DEFINE i == list[at]
  <2>1. SUFFICES ASSUME pc' = "crashed" PROVE CrashCause'
    BY DEF CrashCause
  <2>2. at <= Len(list) /\ fd(c, i) = "null" /\ UNCHANGED <<c, list, at>>
    BY <1>1, <2>1 DEF MayRead, MayWrite, Dispatch
  <2>3. i \in Elements(c) /\ Elements(c) = 1..Top(c) /\ Top(c) \in 1..3
    <3>1. at \in 1..Len(list)
      BY <2>2, LenProperties DEF Inv, ListInv
    <3>2. QED
      BY <3>1, ShapeFacts DEF Inv, ListInv, ConnInv, IsConn, Top
  <2> HIDE DEF i
  <2>4. ~c.s[1] /\ \A j \in 2..i : c.s[j]
    BY <2>2 DEF fd
  <2>5. c.stopped[1] /\ (Top(c) = 1 \/ (Top(c) = 2 /\ ~c.s[2]))
    BY <2>4 DEF Inv, ConnInv, Sound, Control, SocketsKept
  <2>6. i = 1
    BY <2>3, <2>4, <2>5
  <2>7. c.kind[1] \in {"tcp", "accepted", "listen"}
    BY ShapeFacts DEF Inv, ConnInv, IsConn
  <2>8. QED
    BY <2>2, <2>5, <2>6, <2>7 DEF CrashCause, i
<1>2. CASE GetListBits \/ Select \/ SelectFails \/ CanDelete \/ EndOfList
  BY <1>2 DEF CrashCause, GetListBits, Select, SelectFails, CanDelete, EndOfList
<1>3. CASE UNCHANGED vars
  BY <1>3 DEF CrashCause, vars
<1>4. CASE pc # "crashed" /\ pc' = pc
  BY <1>4 DEF CrashCause
<1>5. QED
  <2>1. Loop \/ (Next /\ pc # "crashed" /\ pc' = pc) \/ UNCHANGED vars
    BY Zenon DEF Next, Add, TimePasses, Start, Listen, Write, Read, Close, ExpireSessions, ConnectEnds, PeerSends,
                 PeerShuts, PeerResets, Network, loopvars
  <2>2. QED
    BY <1>1, <1>2, <1>3, <1>4, <2>1 DEF Loop

\* In no behaviour does the loop follow a null pointer for another reason
\* than a tcpstate that was closed while in the list.  (tcpstate::fd)
THEOREM CrashOnlyAfterClose == Spec => []CrashCause
<1>1. Init => CrashCause
  BY DEF Init, CrashCause
<1>2. QED
  BY <1>1, CrashStep, SpecInv, PTL DEF Spec

\* When the loop collects its descriptors, at most one element of a
\* connection wants to use the socket they share.  (candelete, ev_connected)
LEMMA InvServes == Inv => OneServed
<1> DEFINE S == {i \in Listed : \E m \in {"RD", "WR"} : needs(c, i, m)}
<1> SUFFICES ASSUME Inv, pc = "bits" PROVE Cardinality(S) <= 1
  BY DEF OneServed
<1>1. /\ Elements(c) = 1..Top(c) /\ Top(c) \in 1..3 /\ c.kind[1] \in {"tcp", "accepted", "listen"}
      /\ \A i \in 2..Top(c) : c.kind[1] = "tcp" => c.kind[i] \in {"socks4", "ssl"}
      /\ (c.kind[1] = "listen" => Top(c) = 1)
  BY ShapeFacts DEF Inv, ConnInv, IsConn, Top
<1>2. ASSUME NEW i \in S, NEW j \in S PROVE ~(i < j)
  <2>1. SUFFICES ASSUME i < j PROVE FALSE
    OBVIOUS
  <2>2. i \in Elements(c) /\ j \in Elements(c) /\ i \in Listed /\ j \in Listed
    BY DEF Inv, ListInv, Listed
  <2>3. /\ c.st[i] \notin {"NEW", "DISCONNECTED", "FAILED"} /\ c.st[j] \notin {"NEW", "DISCONNECTED", "FAILED"}
        /\ c.st[j] \in StatesOf(c.kind[j])
    BY <2>2 DEF needs, Inv, ConnInv, Sound, Control, Phases
  <2>4. CASE c.kind[1] = "accepted"
    BY <1>1, <2>1, <2>2, <2>4 DEF Inv, ListInv
  <2>5. CASE c.kind[1] = "listen"
    BY <1>1, <2>1, <2>2, <2>5
  <2>6. CASE c.kind[1] = "tcp"
    <3>1. c.kind[j] \in {"socks4", "ssl"}
      BY <1>1, <2>1, <2>2, <2>6
    <3>2. c.st[j] \in Started
      BY <2>3, <3>1 DEF StatesOf, Over, Started
    <3>3. c.st[i] = "CONNECTED"
      BY <2>1, <2>2, <2>3, <2>6, <3>2 DEF Inv, ConnInv, Sound, Control, Order, Over
    <3>4. HasNext(c, i)
      <4>1. i < Top(c) /\ c.kind[i + 1] \in {"socks4", "ssl"}
        BY <1>1, <2>1, <2>2, <2>6
      <4>2. QED
        BY <4>1 DEF HasNext, Top
    <3>5. PICK k \in 1..Len(list) : list[k] = i
      BY <2>2 DEF Listed, Inv, ListInv
    <3>6. ~Past(k)
      BY NonePast
    <3>7. QED
      BY <3>3, <3>4, <3>5, <3>6 DEF Past
  <2>7. QED
    BY <1>1, <2>4, <2>5, <2>6
<1>3. \A i, j \in S : i = j
  <2>1. \A i \in S : i \in 1..3
    BY <1>1 DEF Inv, ListInv, Listed
  <2> HIDE DEF S
  <2>2. QED
    BY <1>2, <2>1
<1> HIDE DEF S
<1>4. CASE S = {}
  <2>1. Cardinality(S) = 0
    BY <1>4, FS_EmptySet
  <2>2. QED
    BY <2>1
<1>5. CASE S # {}
  <2>1. PICK i : S = {i}
    BY <1>3, <1>5
  <2>2. Cardinality(S) = 1
    BY <2>1, FS_Singleton
  <2>3. QED
    BY <2>2
<1>6. QED
  BY <1>4, <1>5

\* In every behaviour, for chains of any shape, the elements of a connection
\* never compete for its socket.  (candelete, ev_connected)
THEOREM OneElementServed == Spec => []OneServed
BY SpecInv, InvServes, PTL

\* What the peer receives, and what is still queued, is the SOCKS request and
\* then what write() accepted, in order and complete, however the kernel
\* splits it.  (ev_sockwrite, ungetbytes)
LEMMA InvOut == Inv => OutStream
<1> SUFFICES ASSUME Inv PROVE OutStream
  OBVIOUS
<1>1. /\ Elements(c) = 1..Top(c) /\ Top(c) \in 1..3 /\ User = Top(c) /\ Top(c) \in Elements(c)
      /\ IsConn(c) /\ written \in Nat /\ OutInv(c, written)
      /\ (Top(c) = 3 => c.kind[2] = "socks4" /\ c.kind[3] = "ssl")
  BY ShapeFacts DEF Inv, ConnInv, IsConn, Top, User, Sound
<1>2. ThroughSocks <=> Socks(c)
  <2>1. \A i \in Elements(c) : c.kind[i] = "socks4" => i = 2
    BY <1>1, ShapeFacts DEF IsConn, Top
  <2>2. QED
    BY <1>1, <2>1 DEF ThroughSocks, Socks
<1>3. ThroughSocks /\ c.kind[User] = "ssl" <=> Top(c) = 3
  BY <1>1, <1>2 DEF Socks
<1> DEFINE s == IF ThroughSocks THEN Numbers(0, written) ELSE Numbers(1, written)
<1>4. Numbers(1, written) \in Bytes /\ Len(Numbers(1, written)) = written
  <2> DEFINE f == 1
  <2>1. f \in Nat /\ f <= written + 1
    BY <1>1
  <2> HIDE DEF f
  <2>2. Numbers(f, written) \in Bytes /\ Len(Numbers(f, written)) = written + 1 - f
    BY <1>1, <2>1, NumbersSeq
  <2>3. QED
    BY <1>1, <2>2 DEF f
<1>5. All(c, written) = s /\ s \in Bytes /\ Len(s) \in 0..(written + 1)
  <2>1. CASE Socks(c)
    <3>1. All(c, written) = Numbers(0, written)
      BY <1>1, <2>1, NumbersFromZero DEF All
    <3>2. Numbers(0, written) \in Bytes /\ Len(Numbers(0, written)) = written + 1
      <4> DEFINE f == 0
      <4>1. f \in Nat /\ f <= written + 1
        BY <1>1
      <4> HIDE DEF f
      <4>2. Numbers(f, written) \in Bytes /\ Len(Numbers(f, written)) = written + 1 - f
        BY <1>1, <4>1, NumbersSeq
      <4>3. QED
        BY <1>1, <4>2 DEF f
    <3>3. QED
      BY <1>1, <1>2, <2>1, <3>1, <3>2
  <2>2. CASE ~Socks(c)
    BY <1>1, <1>2, <1>4, <2>2, JoinedEmpty DEF All
  <2>3. QED
    BY <2>1, <2>2
<1> HIDE DEF s
<1>6. \E m \in 0..(written + 1) : c.tx = SubSeq(s, 1, m)
  <2>1. PICK r \in Bytes : s = c.tx \o r
    BY <1>1, <1>5 DEF OutInv, Begins
  <2> DEFINE x == c.tx
  <2>2. x \in Bytes /\ s = x \o r
    BY <1>1, <2>1 DEF IsConn
  <2> HIDE DEF x
  <2>3. Len(s) = Len(x) + Len(r) /\ Len(x) \in Nat /\ Len(r) \in Nat
    BY <2>1, <2>2, JoinedBytes
  <2>4. x = SubSeq(s, 1, Len(x))
    BY <2>1, <2>2, SubSeqOfConcat
  <2>5. QED
    BY <1>1, <1>5, <2>3, <2>4 DEF x
<1>7. ASSUME Intact, \A i \in Elements(c) : c.st[i] # "FAILED"
      PROVE  c.tx \o (IF ThroughSocks /\ c.kind[User] = "ssl" THEN Content(c.unget[User - 1], c.outq[User - 1]) ELSE <<>>)
               \o Content(c.unget[User], c.outq[User])
             = (IF ThroughSocks THEN << 0 >> ELSE <<>>) \o Numbers(1, written)
  <2>1. c.tx \o (Below(c) \o Holds(c, Top(c))) = All(c, written)
    BY <1>1, <1>7 DEF OutInv, Dead, Due, Intact
  <2>2. Below(c) = IF ThroughSocks /\ c.kind[User] = "ssl" THEN Content(c.unget[User - 1], c.outq[User - 1]) ELSE <<>>
    BY <1>1, <1>3 DEF Below, Holds
  <2>3. Holds(c, Top(c)) = Content(c.unget[User], c.outq[User])
    BY <1>1 DEF Holds
  <2> DEFINE x == c.tx
             y == Below(c)
             z == Holds(c, Top(c))
  <2>4. x \in Bytes /\ y \in Bytes /\ z \in Bytes
    <3>1. x \in Bytes
      BY <1>1 DEF IsConn
    <3>2. z \in Bytes
      BY <1>1, HoldsBytes
    <3>3. y \in Bytes
      <4>1. CASE Top(c) = 3
        <5> DEFINE i == 2
        <5>1. i \in Elements(c) /\ y = Holds(c, i)
          BY <1>1, <4>1 DEF Below
        <5> HIDE DEF i
        <5>2. Holds(c, i) \in Bytes
          BY <1>1, <5>1, HoldsBytes
        <5>3. QED
          BY <5>1, <5>2
      <4>2. CASE Top(c) # 3
        BY <4>2 DEF Below, Bytes
      <4>3. QED
        BY <4>1, <4>2
    <3>4. QED
      BY <3>1, <3>2, <3>3
  <2> HIDE DEF x, y, z
  <2>5. (x \o y) \o z = x \o (y \o z)
    BY <2>4, Joined
  <2>6. (x \o y) \o z = All(c, written)
    BY <2>1, <2>5 DEF x, y, z
  <2>7. QED
    BY <1>2, <2>2, <2>3, <2>6 DEF All, x, y, z
<1>8. QED
  BY <1>6, <1>7 DEF OutStream, s

\* In every behaviour, for queues of any size and any number of bytes written,
\* the peer receives a beginning of what was written, and nothing is lost
\* while the connection stands.  (ev_sockwrite, ungetbytes)
THEOREM OutputInOrder == Spec => []OutStream
BY SpecInv, InvOut, PTL

\* What the user reads is what the peer sent after the answer of the SOCKS
\* server; nothing is lost between socket, queue and user.  Only where the
\* connection ends before that answer is complete, expiresessions() finds the
\* part of it that has come.  (ev_sockread, handle_socks_connect)
LEMMA InvIn == Inv => InStream
<1> SUFFICES ASSUME Inv PROVE InStream
  OBVIOUS
<1> DEFINE first == IF ThroughSocks THEN AnsLen + 1 ELSE 1
<1>1. /\ Elements(c) = 1..Top(c) /\ Top(c) \in 1..3 /\ User = Top(c) /\ Top(c) \in Elements(c)
      /\ IsConn(c) /\ sent \in Nat /\ taken \in Bytes /\ InInv(c, sent, taken) /\ Phases(c)
  BY ShapeFacts DEF Inv, ConnInv, IsConn, Top, User, Sound, Control
<1>2. ThroughSocks <=> Socks(c)
  <2>1. \A i \in Elements(c) : c.kind[i] = "socks4" => i = 2
    BY <1>1, ShapeFacts DEF IsConn, Top
  <2>2. QED
    BY <1>1, <2>1 DEF ThroughSocks, Socks
<1>3. first \in Nat /\ first >= 1
  BY SizeAssumption
<1> DEFINE q == c.inq[Top(c)]
<1>4. q \in Bytes
  BY <1>1 DEF IsConn
<1>5. \/ c.kind[1] = "listen" \/ Heard(c, first, sent, taken)
      \/ Socks(c) /\ (Unheard(c, sent, taken) \/ Partly(c, taken))
  BY <1>1, <1>2 DEF InInv, SocksIn
<1> HIDE DEF first, q
<1>6. ASSUME c.kind[1] # "listen"
      PROVE  \/ taken = Numbers(first, first + Len(taken) - 1)
             \/ ThroughSocks /\ Len(taken) < AnsLen /\ taken = Numbers(1, Len(taken))
  <2>1. CASE Heard(c, first, sent, taken)
    <3>1. Run(taken \o q, first)
      BY <2>1 DEF Heard, q
    <3>2. QED
      BY <1>1, <1>3, <1>4, <3>1, RunBegins DEF Run
  <2>2. CASE Unheard(c, sent, taken)
    <3>1. taken = <<>>
      BY <2>2 DEF Unheard, Answer
    <3>2. Numbers(first, first + Len(taken) - 1) = <<>>
      <4>1. first + Len(taken) - 1 - first + 1 = 0
        BY <1>3, <3>1
      <4> DEFINE n == first + Len(taken) - 1
      <4>2. n = first - 1
        BY <1>3, <3>1
      <4> HIDE DEF n
      <4>3. Numbers(first, n) = [k \in 1..0 |-> first + k - 1]
        <5>1. n - first + 1 = 0
          BY <1>3, <4>2
        <5>2. QED
          BY <5>1 DEF Numbers
      <4>4. QED
        BY <4>3 DEF n
    <3>3. QED
      BY <3>1, <3>2
  <2>3. CASE Socks(c) /\ Partly(c, taken)
    <3>1. 1 + Len(taken) - 1 = Len(taken)
      BY <1>1 DEF Bytes
    <3>2. QED
      BY <1>2, <2>3, <3>1 DEF Partly, Run
  <2>4. QED
    BY <1>5, <1>6, <2>1, <2>2, <2>3
<1>7. ASSUME Intact, c.st[User] = "CONNECTED"
      PROVE  taken \o c.inq[User] \o c.rx = Numbers(first, sent)
  <2>1. c.kind[1] # "listen"
    <3>1. c.kind[1] = "listen" => Top(c) = 1
      BY ShapeFacts DEF Inv, ConnInv, IsConn, Top
    <3>2. QED
      BY <1>1, <1>7, <3>1 DEF Phases, StatesOf
  <2>2. ~(Socks(c) /\ Unheard(c, sent, taken))
    <3>1. Socks(c) => Top(c) \in {2, 3}
      BY <1>1 DEF Socks
    <3>2. QED
      BY <1>1, <1>7, <3>1 DEF Unheard, Early, Quiet, Started
  <2>3. ~Partly(c, taken)
    BY <1>1, <1>7 DEF Partly
  <2>4. QED
    BY <1>1, <1>5, <1>7, <2>1, <2>2, <2>3 DEF Heard, Intact
<1>8. QED
  BY <1>6, <1>7 DEF InStream, first

\* In every behaviour, for answers and queues of any size, the user reads what
\* the peer sent after the answer of the SOCKS server, without loss or gap.
\* (ev_sockread, handle_socks_connect)
THEOREM InputInOrder == Spec => []InStream
BY SpecInv, InvIn, PTL
=============================================================================
