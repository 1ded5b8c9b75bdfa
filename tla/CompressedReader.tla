-------------------------- MODULE CompressedReader --------------------------
(***************************************************************************)
(* rw/CompressedReader.h: zlib's inflate between two buffers.  A piece of  *)
(* compressed input is the number of bytes it makes inflate able to put    *)
(* out, 0 for a header and -1 for the end of the stream.  Left out are     *)
(* input that is damaged, and a reader below that fails: read() would then *)
(* have moved _outtail, but not _curpos.                                   *)
(***************************************************************************)
EXTENDS MemoryReaders

CONSTANTS
  InSize, OutSize  \* of _inbuf and _outbuf (65536)

\* src: pieces not read yet; in: pieces in _inbuf; due: bytes inflate owes;
\* out: _outbuf up to next_out; tail: _outtail; next: the next byte of the
\* stream, numbered from 1
Compressed(src) ==
  [kind |-> "compressed", src |-> src, in |-> <<>>, due |-> 0, ended |-> FALSE, out |-> <<>>,
   tail |-> 0, next |-> 1, pos |-> 0, eof |-> FALSE]

avail_out(z) == OutSize - Len(z.out)

\* inflate: output what is owed while there is room, then take the next piece
PutOut(z) ==
  LET k == Min2(z.due, avail_out(z)) IN
  [z EXCEPT !.out = @ \o [j \in 1..k |-> z.next + j - 1], !.next = @ + k, !.due = @ - k]
TakeIn(z) ==
  [z EXCEPT !.in = Tail(@), !.due = IF Head(z.in) = -1 THEN 0 ELSE Head(z.in),
            !.ended = (Head(z.in) = -1)]
InflateStep(z) == IF z.due > 0 \/ z.ended THEN z ELSE PutOut(TakeIn(z))
inflate(z) ==
  LET f[k \in 0..Len(z.in)] == IF k = 0 THEN PutOut(z) ELSE InflateStep(f[k - 1])
  IN f[Len(z.in)]

\* Hands out up to n bytes of _outbuf.
Serve(z, n) ==
  LET want == Min2(n, Len(z.out) - z.tail) IN
  Done([z EXCEPT !.tail = @ + want, !.pos = @ + want], SubSeq(z.out, z.tail + 1, z.tail + want))

FillInput(z) ==
  IF z.in # <<>> THEN z
  ELSE [z EXCEPT !.in = SubSeq(z.src, 1, Min2(InSize, Len(z.src))),
                 !.src = SubSeq(@, InSize + 1, Len(@))]

Compact(z) ==
  IF avail_out(z) > 0 THEN z
  ELSE [z EXCEPT !.out = SubSeq(@, z.tail + 1, Len(@)), !.tail = 0]

compressedread(z, n) ==
  LET first == Serve(z, n)
      ready == Compact(FillInput(first.r))
      y == inflate(ready)
      failed == y = ready /\ ~y.ended   \* Z_BUF_ERROR: no progress
      second == Serve([y EXCEPT !.eof = y.ended /\ y.due = 0], n - Len(first.out))
  IN IF Len(first.out) = n THEN first
     ELSE IF failed THEN Throws(ready)
     ELSE Done(second.r, first.out \o second.out)

zeof(z) == z.eof /\ z.tail = OutSize

\* only forward, by reading; each read moves on or uses up input
Forward(o, off) ==
  IF o.thrown \/ off = o.r.pos \/ zeof(o.r) THEN o ELSE compressedread(o.r, off - o.r.pos)
compressedsetpos(z, off) ==
  LET rounds == off - z.pos + Len(z.in) + Len(z.src)
      f[k \in 0..rounds] == IF k = 0 THEN Done(z, <<>>) ELSE Forward(f[k - 1], off)
  IN IF off < z.pos THEN Throws(z) ELSE [f[rounds] EXCEPT !.out = <<>>]
=============================================================================
