----------------------------- MODULE UngetQueue -----------------------------
(***************************************************************************)
(* util/ungetqueue.h: a queue with a buffer in front of it, into which     *)
(* bytes that could not be sent are put back.  An ungetqueue is a record   *)
(* of its buffer and the index into it: the first `ptr` cells of `buf`     *)
(* have been read again, the rest is read before the queue itself.         *)
(***************************************************************************)
EXTENDS Integers, Sequences

Empty == [buf |-> <<>>, ptr |-> 0]

Rest(u) == SubSeq(u.buf, u.ptr + 1, Len(u.buf))

\* What readbytes() would return, in order, were it asked for everything.
Content(u, q) == Rest(u) \o q
usedsize(u, q) == Len(Rest(u)) + Len(q)

\* readbytes(p, n), for n <= usedsize: first from the buffer, then from the
\* queue.  readbyte() is the case n = 1.
FromBuffer(u, n) == IF n < Len(Rest(u)) THEN n ELSE Len(Rest(u))

BytesRead(u, q, n) == SubSeq(Content(u, q), 1, n)
AfterRead(u, n) == [u EXCEPT !.ptr = @ + FromBuffer(u, n)]
QueueAfterRead(u, q, n) == SubSeq(q, n - FromBuffer(u, n) + 1, Len(q))

\* ungetbytes(p, n): the bytes go right before the unread part; the buffer
\* grows and is shifted to its end when fewer than n cells are free there.
Unget(u, p) ==
  IF u.ptr < Len(p)
  THEN [buf |-> p \o Rest(u), ptr |-> 0]
  ELSE [buf |-> SubSeq(u.buf, 1, u.ptr - Len(p)) \o p \o Rest(u), ptr |-> u.ptr - Len(p)]
=============================================================================
