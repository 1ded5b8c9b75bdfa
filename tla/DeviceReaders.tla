--------------------------- MODULE DeviceReaders ---------------------------
(***************************************************************************)
(* FileReader over the FILE of the C library, and BlockDevice, which keeps *)
(* a buffer of whole blocks.  Of a FILE the model keeps what was written   *)
(* and not flushed yet: a read that is not preceded by a flush or a seek   *)
(* does not see it.  A disk that is full when a FILE is flushed is left    *)
(* out.                                                                    *)
(***************************************************************************)
EXTENDS MemoryReaders

CONSTANTS
  BlockSize,   \* a power of two
  BufBlocks    \* blocks read at once (16384)

\* How a call of the system goes: in full, for at most `got` bytes, or not:
\* lseek() fails, or read() does (which a FILE meets after `got` more bytes).
\* The calls of one operation go as the elements of io say, and then in full.
Outcomes == {o \in [what : {"full", "short", "seek", "read"}, got : Nat] :
               o.what = "short" => o.got > 0}
Outcome(io, k) == IF k <= Len(io) THEN io[k] ELSE [what |-> "full", got |-> 0]

\* A file: what is on disk, the bytes of the FILE's buffer that end at pos,
\* the end-of-file and the error indicator
File(disk, readonly) ==
  [kind |-> "file", disk |-> disk, wbuf |-> <<>>, pos |-> 0, feof |-> FALSE, ferr |-> FALSE,
   state |-> IF readonly THEN "READING" ELSE "FLUSHED", readonly |-> readonly]

fflush(f) == [f EXCEPT !.disk = OverlayAt(@, f.pos - Len(f.wbuf), f.wbuf), !.wbuf = <<>>]
flush(f) == [fflush(f) EXCEPT !.state = "FLUSHED"]

\* Both indicators are sticky: at the end of file fread() returns nothing
\* until a seek, and only clearerr() would take back an error.
fread(f, n, o) ==
  LET at == f.pos - Len(f.wbuf)
      fails == o.what = "read" /\ o.got < n /\ at + o.got <= Len(f.disk) /\ ~f.feof
      most == IF f.feof THEN 0 ELSE IF fails THEN o.got ELSE n
      out == SubSeq(f.disk, at + 1, Min2(at + most, Len(f.disk)))
  IN Done([f EXCEPT !.pos = @ + Len(out), !.feof = @ \/ (Len(out) < n /\ ~fails),
                    !.ferr = @ \/ fails, !.state = "READING"], out)
\* a short read with the error set throws, and what it read is lost
fileread(f, n, io) ==
  LET o == fread(IF f.state = "WRITING" THEN flush(f) ELSE f, n, Outcome(io, 1))
  IN IF Len(o.out) < n /\ o.r.ferr THEN Throws(o.r) ELSE o

\* The FILE of a read-only reader refuses, and sets its error.
filewrite(f, p) ==
  LET g == IF f.state = "READING" THEN flush(f) ELSE f IN
  IF f.readonly THEN Throws([g EXCEPT !.state = "WRITING", !.ferr = TRUE])
  ELSE Done([g EXCEPT !.wbuf = @ \o p, !.pos = @ + Len(p), !.state = "WRITING"], p)

\* fseek flushes as well
filesetpos(f, off) ==
  Done([fflush(f) EXCEPT !.pos = off, !.feof = FALSE, !.state = "FLUSHED"], <<>>)

Sync(f) == IF f.readonly THEN f ELSE flush(f)

filetruncate(f, off) ==
  LET g == Sync(f) IN
  IF f.readonly THEN Throws(g)
  ELSE Done([g EXCEPT !.disk = SubSeq(@, 1, Min2(off, Len(@))) \o Zeros(off - Min2(off, Len(@)))], off)

filesize(f) == Done(Sync(f), Len(Sync(f).disk))
-----------------------------------------------------------------------------
\* A device and the window of it that is in _buffer
Device(dev) == [kind |-> "block", dev |-> dev, pos |-> 0, bufferpos |-> 0, buffer |-> <<>>]

devsize(b) == (Len(b.dev) \div BlockSize) * BlockSize

\* the part of the next n bytes that is in the buffer
Buffered(b, n) ==
  IF b.pos >= b.bufferpos /\ b.pos < b.bufferpos + Len(b.buffer)
  THEN Min2(n, Len(b.buffer) - (b.pos - b.bufferpos)) ELSE 0

\* _bufferpos and the size of _buffer change before what can fail: after a
\* throw the buffer claims bytes that were never read.  Behind the end of the
\* device, where only such bytes lead, the size to read wraps.
Refill(b, o) ==
  LET at == b.pos - (b.pos % BlockSize)
      want == Min2(BlockSize * BufBlocks, Wrap(devsize(b) - at))
      there == IF at < Len(b.dev) THEN Len(b.dev) - at ELSE 0
      got == Min2(IF o.what = "short" THEN Min2(o.got, want) ELSE want, there)
      moved == [b EXCEPT !.bufferpos = at]
  IN CASE o.what = "seek" -> Throws(moved)
       [] o.what = "read" /\ want > 0 ->
            Throws([moved EXCEPT !.buffer = SubSeq(@ \o Zeros(want), 1, want)])
       [] OTHER -> Done([moved EXCEPT !.buffer = SubSeq(b.dev, at + 1, at + got)], <<>>)

\* One round of the loop: take what is in the buffer, then fill it again.
BlockRound(s, n, o) ==
  LET want == n - Len(s.out)
      k == Buffered(s.r, want)
      from == s.r.pos - s.r.bufferpos
      moved == [s.r EXCEPT !.pos = @ + k]
      filled == IF k = want THEN Done(moved, <<>>) ELSE Refill(moved, o)
  IN IF ~s.on THEN s
     ELSE [r |-> filled.r, out |-> s.out \o SubSeq(s.r.buffer, from + 1, from + k),
           thrown |-> filled.thrown, on |-> k # want /\ ~filled.thrown /\ filled.r.buffer # <<>>]

\* `while (n)`: every round takes a byte but the first, and those after a read
\* that did not reach the position; what was taken before a throw is lost
blockread(b, n, io) ==
  LET f[k \in 0..(n + 1 + Len(io))] ==
        IF k = 0 THEN [r |-> b, out |-> <<>>, thrown |-> FALSE, on |-> TRUE]
        ELSE BlockRound(f[k - 1], n, Outcome(io, k))
      end == f[n + 1 + Len(io)]
  IN IF end.thrown THEN Throws(end.r) ELSE Done(end.r, end.out)
=============================================================================
