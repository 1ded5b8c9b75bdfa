--------------------------- MODULE MemoryReaders ---------------------------
(***************************************************************************)
(* The readers over memory: MemoryReader, which has a fixed buffer, and    *)
(* ByteVectorReader, ByteVectorWriter and MmapReader, which replace it     *)
(* when it has to grow.  An operation gives the reader it leaves, what it  *)
(* returns, and whether it throws.                                         *)
(***************************************************************************)
EXTENDS Integers, Sequences

CONSTANT Word  \* 2^64: positions are uint64_t

Wrap(n) == IF n < 0 THEN n + Word ELSE n
Min2(a, b) == IF a < b THEN a ELSE b
Done(r, out) == [r |-> r, out |-> out, thrown |-> FALSE]
Throws(r) == [r |-> r, out |-> <<>>, thrown |-> TRUE]
Zeros(n) == [k \in 1..n |-> 0]
OverlayAt(s, at, p) == SubSeq(s, 1, at) \o p \o SubSeq(s, at + Len(p) + 1, Len(s))

\* A memory reader: its buffer, _size, _curpos and the two flags
MemoryReader(kind, mem, readonly) ==
  [kind |-> kind, mem |-> mem, size |-> Len(mem), pos |-> 0,
   growable |-> kind \in {"vector", "mmap"}, readonly |-> readonly]

mread(m, n) ==
  LET want == Min2(n, m.size - m.pos) IN
  Done([m EXCEPT !.pos = @ + want], SubSeq(m.mem, m.pos + 1, m.pos + want))

setbuf(m, mem) == [m EXCEPT !.mem = mem, !.size = Len(mem)]

\* grow(n): the vector by n, the anonymous mapping to twice its size
vectorgrow(m, n) == setbuf(m, m.mem \o Zeros(n))
mmapgrow(m) == setbuf(m, SubSeq(m.mem \o Zeros(2 * m.size), 1, 2 * m.size))
grow(m, n) == IF m.kind = "vector" THEN vectorgrow(m, n) ELSE mmapgrow(m)

mwriteAll(m, p) ==  \* mutant: the position moves by what was asked for
  LET g == IF m.growable /\ m.pos + Len(p) > m.size THEN grow(m, m.pos + Len(p) - m.size) ELSE m
      done == SubSeq(p, 1, Min2(Len(p), g.size - g.pos))
  IN IF m.readonly THEN Throws(m)
     ELSE Done([g EXCEPT !.mem = OverlayAt(@, g.pos, done), !.pos = @ + Len(p)], done)
mwrite(m, p) ==
  LET g == IF m.growable /\ m.pos + Len(p) > m.size THEN grow(m, m.pos + Len(p) - m.size) ELSE m
      done == SubSeq(p, 1, Min2(Len(p), g.size - g.pos))
  IN IF m.readonly THEN Throws(m)
     ELSE Done([g EXCEPT !.mem = OverlayAt(@, g.pos, done), !.pos = @ + Len(done)], done)

msetpos(m, off) == Done([m EXCEPT !.pos = off], <<>>)

\* MemoryReader only moves _size, the vector is resized
vectortruncate(m, off) == setbuf(m, SubSeq(m.mem, 1, Min2(off, m.size)) \o Zeros(off - Min2(off, m.size)))
mtruncate(m, off) ==
  Done(IF m.kind = "vector" THEN vectortruncate(m, off) ELSE [m EXCEPT !.size = off], off)
=============================================================================
