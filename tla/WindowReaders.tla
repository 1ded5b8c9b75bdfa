--------------------------- MODULE WindowReaders ---------------------------
(***************************************************************************)
(* The readers that show a part of another one, here of a MemoryReader:    *)
(* OffsetReader only shifts positions, CheckedOffsetReader also limits     *)
(* every access, RangeReader limits but does not shift.  The only error of *)
(* the reader below is a write to read-only memory, which moves nothing; a *)
(* read that failed there after having moved it would put a window that    *)
(* counts for itself out of step.                                          *)
(***************************************************************************)
EXTENDS MemoryReaders

\* A window: the reader below, the start, the size and its own position,
\* which for a range counts from the start of the reader below.  Only the
\* CheckedOffsetReader positions the reader below; the others begin where
\* that happens to be.
Window(kind, under, base, size) ==
  [kind |-> kind, under |-> IF kind = "checked" THEN msetpos(under, base).r ELSE under,
   base |-> base, size |-> size, pos |-> IF kind = "range" THEN base ELSE 0]

Below(w, o, move) ==  \* an operation of the reader below, after which the window moves by `move`
  [o EXCEPT !.r = [w EXCEPT !.under = o.r, !.pos = IF o.thrown THEN @ ELSE @ + move]]

limit(w) == IF w.kind = "range" THEN w.base + w.size - w.pos ELSE w.size - w.pos

offsetread(w, n) == Below(w, mread(w.under, n), 0)
limitedread(w, n) ==
  LET o == mread(w.under, Min2(n, limit(w))) IN Below(w, o, Len(o.out))
wread(w, n) == IF w.kind = "offset" THEN offsetread(w, n) ELSE limitedread(w, n)

offsetwrite(w, p) == Below(w, mwrite(w.under, p), 0)
limitedwriteUnchecked(w, p) == Below(w, mwrite(w.under, p), Len(p))  \* mutant: no limit
limitedwrite(w, p) ==
  IF limit(w) < Len(p) THEN Throws(w) ELSE Below(w, mwrite(w.under, p), Len(p))
wwrite(w, p) == IF w.kind = "offset" THEN offsetwrite(w, p) ELSE limitedwrite(w, p)

offsetsetpos(w, off) == Below(w, msetpos(w.under, off + w.base), 0)
checkedsetposStale(w, off) ==  \* mutant: forgets _curpos, as RangeReader does
  IF off > w.size THEN Throws(w) ELSE Below(w, msetpos(w.under, off + w.base), 0)
checkedsetpos(w, off) ==
  IF off > w.size THEN Throws(w)
  ELSE Done([w EXCEPT !.under = msetpos(@, off + w.base).r, !.pos = off], <<>>)
\* accepts only the start of the range, and leaves _curpos as it is, so that a
\* range which has moved loses step with the reader below
rangesetpos(w, off) ==
  IF off # w.base THEN Throws(w) ELSE Below(w, msetpos(w.under, off), 0)
wsetpos(w, off) ==
  CASE w.kind = "offset" -> offsetsetpos(w, off)
    [] w.kind = "checked" -> checkedsetpos(w, off)
    [] w.kind = "range" -> rangesetpos(w, off)

wgetpos(w) == IF w.kind = "offset" THEN Wrap(w.under.pos - w.base) ELSE w.pos
wsize(w) == IF w.kind = "range" THEN w.base + w.size ELSE w.size
=============================================================================
