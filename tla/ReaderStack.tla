---------------------------- MODULE ReaderStack ----------------------------
(***************************************************************************)
(* Any reader of the library behind the interface of util/ReadWriter.h: a  *)
(* caller mixes read, write, setpos, truncate, size and the two forms of   *)
(* copyto().  Callers position within the reader: past the end             *)
(* size()-_curpos wraps around, which the code leaves to them.             *)
(***************************************************************************)
EXTENDS WindowReaders, DeviceReaders, CompressedReader, FiniteSets

CONSTANTS
  Readers,   \* the readers to start from
  Sizes,     \* sizes of the requests
  Faults,    \* how the system's calls of one read() go
  Dests,     \* what copyto() writes to
  Fill,      \* the byte that is written
  MaxLen,    \* bound: a stream is not written, or read on, beyond this
  CopyBuf    \* the buffer of copyto() (1 MB)

VARIABLES
  r,     \* the reader
  last,  \* the result of the last call
  copy   \* copyto(): still running, where it began and whether the reader was in step
         \* then, its size (-1: none), what it read, the destination, ended by a throw

vars == <<r, last, copy>>

Memory(k) == k \in {"memory", "vector", "mmap"}
IsWindow(k) == k \in {"offset", "checked", "range"}

\* What the constructors make: a reader at its start, a window inside the
\* reader below it, wherever that is.
MemoryAt(x, pos) ==
  /\ x = msetpos(MemoryReader(x.kind, x.mem, x.readonly), pos).r
  /\ x.mem \in Seq(0..255) /\ x.readonly \in BOOLEAN
Constructed(x) ==
  \/ Memory(x.kind) /\ MemoryAt(x, 0)
  \/ /\ IsWindow(x.kind)
     /\ x.base \in Nat /\ x.size \in Nat
     /\ x.under.kind = "memory" /\ \E pos \in 0..x.under.size : MemoryAt(x.under, pos)
     /\ x.base + x.size <= x.under.size
     /\ x = Window(x.kind, x.under, x.base, x.size)
  \/ /\ x.kind = "file" /\ x = File(x.disk, x.readonly)
     /\ x.disk \in Seq(0..255) /\ x.readonly \in BOOLEAN
  \/ x.kind = "block" /\ x = Device(x.dev) /\ x.dev \in Seq(0..255)
  \/ x.kind = "compressed" /\ x = Compressed(x.src) /\ x.src \in Seq(Nat \cup {-1})

ASSUME ReaderAssumption == \A x \in Readers : Constructed(x)
\* A MmapReader only doubles: bytes of a copy that do not fit are lost in the
\* middle of it, and copyto() is not told.
ASSUME DestAssumption == \A d \in Dests : d.kind \in {"memory", "vector"} /\ MemoryAt(d, 0)
ASSUME SizeAssumption ==
  /\ Sizes \subseteq Nat \ {0} /\ Fill \in 0..255 /\ MaxLen \in Nat /\ Word \in Nat
  /\ Faults \subseteq Seq(Outcomes)
  /\ {CopyBuf, BlockSize, BufBlocks, InSize, OutSize} \subseteq Nat \ {0}

read(x, n, io) ==
  CASE Memory(x.kind) -> mread(x, n)
    [] IsWindow(x.kind) -> wread(x, n)
    [] x.kind = "file" -> fileread(x, n, io)
    [] x.kind = "block" -> blockread(x, n, io)
    [] x.kind = "compressed" -> compressedread(x, n)

write(x, p) ==
  CASE Memory(x.kind) -> mwrite(x, p)
    [] IsWindow(x.kind) -> wwrite(x, p)
    [] x.kind = "file" -> filewrite(x, p)
    [] OTHER -> Throws(x)

setpos(x, off) ==
  CASE Memory(x.kind) -> msetpos(x, off)
    [] IsWindow(x.kind) -> wsetpos(x, off)
    [] x.kind = "file" -> filesetpos(x, off)
    [] x.kind = "block" -> Done([x EXCEPT !.pos = off], <<>>)
    [] x.kind = "compressed" -> compressedsetpos(x, off)

truncate(x, off) ==
  CASE Memory(x.kind) -> mtruncate(x, off)
    [] x.kind = "file" -> filetruncate(x, off)
    [] OTHER -> Throws(x)

size(x) ==
  CASE Memory(x.kind) -> Done(x, x.size)
    [] IsWindow(x.kind) -> Done(x, wsize(x))
    [] x.kind = "file" -> filesize(x)
    [] x.kind = "block" -> Done(x, devsize(x))
    [] OTHER -> Throws(x)

getpos(x) == IF IsWindow(x.kind) THEN wgetpos(x) ELSE x.pos

\* What the reader stands for.
Total(src) == LET f[k \in 0..Len(src)] == IF k = 0 THEN 0 ELSE f[k - 1] + (IF src[k] > 0 THEN src[k] ELSE 0)
              IN f[Len(src)]
Content(x) ==
  CASE Memory(x.kind) -> SubSeq(x.mem, 1, x.size)
    [] x.kind \in {"offset", "checked"} -> SubSeq(x.under.mem, x.base + 1, x.base + x.size)
    [] x.kind = "range" -> SubSeq(x.under.mem, 1, x.base + x.size)
    [] x.kind = "file" -> fflush(x).disk
    [] x.kind = "block" -> SubSeq(x.dev, 1, devsize(x))
    [] x.kind = "compressed" -> [k \in 1..(x.next - 1 + x.due + Total(x.in) + Total(x.src)) |-> k]

\* What the reader keeps a copy of, or beside, is as it believes: a block
\* buffer shows the device, a decompression buffer ends where inflate goes on
\* and is read up to _curpos, the reader below a window is where the window
\* is, unflushed bytes exist only in state WRITING, the end-of-file indicator
\* is set only at the end.
InStep(x) ==
  CASE x.kind = "offset" -> x.base <= x.under.pos
    [] x.kind = "checked" -> x.under.pos = x.base + x.pos
    [] x.kind = "range" -> x.under.pos = x.pos
    [] x.kind = "file" -> (x.wbuf # <<>> => x.state = "WRITING") /\ (x.feof => x.pos = Len(Content(x)))
    [] x.kind = "block" ->
         /\ x.pos <= devsize(x) /\ x.bufferpos + Len(x.buffer) <= devsize(x)
         /\ x.buffer = SubSeq(x.dev, x.bufferpos + 1, x.bufferpos + Len(x.buffer))
    [] x.kind = "compressed" ->
         /\ x.next = x.pos + (Len(x.out) - x.tail) + 1
         /\ \A k \in (x.tail + 1)..Len(x.out) : x.out[k] = x.pos + k - x.tail
    [] OTHER -> TRUE
-----------------------------------------------------------------------------
NoCopy ==
  [on |-> FALSE, from |-> 0, sure |-> FALSE, size |-> -1, got |-> <<>>,
   dest |-> MemoryReader("memory", <<>>, FALSE), failed |-> FALSE]

Init == r \in Readers /\ last = <<"none", <<>>>> /\ copy = NoCopy

Call(name, o) ==
  /\ r' = o.r
  /\ last' = IF o.thrown THEN <<"throws", <<>>>> ELSE <<name, o.out>>

Between == ~copy.on /\ copy' = NoCopy

\* out of step, a block device can be read on behind its end for ever
Read == Between /\ r.pos <= MaxLen /\ \E n \in Sizes, io \in Faults : Call("read", read(r, n, io))

\* windows do not grow
Write ==
  /\ Between
  /\ \E n \in Sizes : /\ IsWindow(r.kind) \/ getpos(r) + n <= MaxLen
                     /\ Call("write", write(r, [k \in 1..n |-> Fill]))

SetPos == Between /\ \E off \in 0..Len(Content(r)) : Call("setpos", setpos(r, off))

Truncate ==
  /\ Between /\ ~IsWindow(r.kind)
  /\ \E off \in getpos(r)..MaxLen :
       /\ r.kind \in {"memory", "mmap"} => off <= Len(r.mem)
       /\ r.kind = "mmap" => 2 * off >= Len(r.mem)  \* below, grow() overruns the new mapping
       /\ Call("truncate", truncate(r, off))

Size == Between /\ Call("size", size(r))

\* copyto(w) and copyto(w, size)
CopyStart ==
  /\ ~copy.on /\ r.pos <= MaxLen
  /\ \E n \in {-1} \cup Sizes, d \in Dests :
       copy' = [on |-> TRUE, from |-> getpos(r), sure |-> InStep(r), size |-> n, got |-> <<>>,
                dest |-> d, failed |-> FALSE]
  /\ UNCHANGED <<r, last>>

\* What is written of a round: the first form stops before it writes nothing,
\* the second only afterwards.
Delivered(o) ==
  IF o.thrown THEN Throws(copy.dest)
  ELSE IF copy.size = -1 /\ o.out = <<>> THEN Done(copy.dest, <<>>) ELSE mwrite(copy.dest, o.out)

\* what one round of the loop leaves, given how much it asked for
CopyRoundEager(want, o) ==  \* mutant: the first form stops at a short read, too
  [copy EXCEPT !.got = @ \o o.out, !.dest = Delivered(o).r, !.failed = Delivered(o).thrown,
     !.on = /\ ~Delivered(o).thrown /\ Len(o.out) = want
            /\ copy.size = -1 \/ Len(copy.got) + want < copy.size]
CopyRound(want, o) ==
  [copy EXCEPT !.got = @ \o o.out, !.dest = Delivered(o).r, !.failed = Delivered(o).thrown,
     !.on = /\ ~Delivered(o).thrown
            /\ IF copy.size = -1 THEN o.out # <<>>
               ELSE Len(o.out) = want /\ Len(copy.got) + want < copy.size]

CopyStep ==
  /\ copy.on
  /\ LET want == IF copy.size = -1 THEN CopyBuf ELSE Min2(copy.size - Len(copy.got), CopyBuf)
     IN \E io \in Faults :
          LET o == read(r, want, io)
          IN /\ Call("read", [r |-> o.r, out |-> o.out, thrown |-> Delivered(o).thrown])
             /\ copy' = CopyRound(want, o)

Next == Read \/ Write \/ SetPos \/ Truncate \/ Size \/ CopyStart \/ CopyStep

Spec == Init /\ [][Next]_vars
-----------------------------------------------------------------------------
(* Properties. *)

\* A reader that is in step is a sequence of bytes with a position: a read
\* returns the bytes at the position and none only at the end, writes are seen
\* by later reads, size() counts them.  It stays in step, but for a call that
\* throws, the setpos() of a range that has moved, and the truncate() that
\* moves the end away from a reader standing there.  Out of step, reads go
\* astray, but still only write() and truncate() change what there is to read.
Stream == INSTANCE ByteStream WITH content <- Content(r), pos <- getpos(r), sure <- InStep(r)
IsStream == Stream!StreamSpec

\* A reader falls out of step only where a read of a block device fails, where
\* a range that has moved goes back to its start, and where a file read to its
\* end is made longer; and setpos() always puts an OffsetReader and a
\* FileReader in step.
Derails ==
  \/ r.kind = "block" /\ last'[1] = "throws"
  \/ r.kind = "range" /\ last'[1] = "setpos" /\ r.pos # r.base
  \/ r.kind = "file" /\ last'[1] = "truncate" /\ r.feof /\ last'[2] > r.pos
CachesAgree ==
  [][/\ InStep(r) /\ ~Derails => InStep(r')
     /\ r.kind \in {"offset", "file"} /\ last'[1] = "setpos" /\ ~copy'.on => InStep(r')]_vars

\* Nothing outside a window that checks its limits is ever touched, in step or
\* not, once the reader below stands inside.  An OffsetReader has to end where
\* the reader below does.
Inside(w) ==
  /\ w.base <= w.under.pos
  /\ w.kind = "range" => w.under.pos <= w.pos
  /\ w.kind = "offset" => w.base + w.size = Len(w.under.mem)
OutsideKept ==
  [][IsWindow(r.kind) /\ Inside(r) =>
       /\ Inside(r')
       /\ \A k \in 1..Len(r.under.mem) :
            k \notin (r.base + 1)..(r.base + r.size) => r'.under.mem[k] = r.under.mem[k]]_vars

\* A copyto() that began in step and did not throw ends with everything copied,
\* or as much as asked for, and the destination has it as far as it can take
\* it.  (A sized copy from a compressed reader may end early: it takes a short
\* read for the end.)
CopyComplete ==
  ~copy.on /\ copy.sure /\ ~copy.failed =>
    LET rest == SubSeq(Content(r), copy.from + 1, Len(Content(r)))
        due == IF copy.size = -1 THEN rest ELSE SubSeq(rest, 1, Min2(copy.size, Len(rest)))
        n == Len(copy.got)
        kept == Min2(n, copy.dest.size)
    IN /\ n <= Len(due) /\ copy.got = SubSeq(due, 1, n)
       /\ ~(r.kind = "compressed" /\ copy.size # -1) => copy.got = due
       /\ SubSeq(copy.dest.mem, 1, kept) = SubSeq(copy.got, 1, kept)
       /\ copy.dest.kind = "vector" => kept = n
=============================================================================
