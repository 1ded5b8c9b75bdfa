# A TLA+ model of itslib

itslib is a C++ library of helpers: threads and queues, sockets, a stack of
readers and writers, parts of HTTP, strings and dumps. It has no tests. This
directory holds a model of its parts that are hard to test: what each part does
is a TLA+ module translated from the source, TLC checks small instances, and
TLAPS proves the main results for every instance.

## The system

| part | source (below `include/itslib/`) | state | hard behaviour |
| --- | --- | --- | --- |
| ring buffer | `util/circularbuffer.h` | cells, read index, write index, count | wrap-around, blocks copied in two chunks |
| blocking queue | `util/queuebuf.h` | a ring buffer, a mutex, two condition variables, `_stopped` | lost wakeups, stop while others wait or copy |
| pushback queue | `util/ungetqueue.h` | a vector in front of a queue | a call served from both halves |
| thread object | `util/process.h` | five flags, a mutex, two condition variables, a thread | virtual calls during construction and destruction, several stops at once |
| delayed callback | `util/process.h` (`runaftertime`) | a process, a timer, a condition variable | timeout against stop |
| poll loop | `util/pollloop.h` | two parallel vectors | handlers that change them |
| socket states | `sockets/socketstate.h` and its subclasses, `sockets/selectloop.h` | a state per socket, queues to the user, a chain of layers | events from the loop thread against calls of the user |
| blocking sockets | `sockets/tcpsocket.h`, `sockets/sslsocket.h` | a descriptor, the end of its stream | lines over partial reads |
| readers and writers | `util/ReadWriter.h`, `util/rw/*` | a position each, limits | partial reads, positions of stacked readers |
| HTTP | `http/*` | a query and a request, each kept in two forms | which of the two forms is stale |
| text | `utfcvutils.cpp`, `stringutils.cpp`, `debug.cpp`, `util/chariterators.h` | none | boundaries of the conversions |

How they interact: a `queuebuf` is a `circularbuffer` under a mutex; a `process`
usually runs a `service()` that waits on a queue or a socket, and its
`processstop()` stops that queue or closes that socket so that `stop()` can wait
for the thread; `selectloop` is a `process` that moves bytes between sockets and
the queues of the `socketstate`s; `runaftertime` is a `process`.

What makes each part correct:

- ring buffer: it is a bounded FIFO, whatever mix of calls, and refuses a block
  as a whole;
- blocking queue: nobody sleeps beside the data or the room it asked for, and
  stop() turns everybody out and leaves the rest of the data to its caller;
- thread object: virtual functions are called only while the derived object is
  complete, stop() returns only when they are over, and always returns;
- delayed callback: once, not early, not after stop();
- pushback queue: what is put back is read next, and a read that takes from both
  halves takes a prefix of the whole;
- sockets: every byte once and in order, in both directions and through every
  layer; one element at a time serves the descriptor they share; in a chain
  without ssl the end of the stream ends the connection (an ssl element never
  sees it);
- readers and writers: each is a sequence of bytes with a position, whatever is
  cached below; a window does not touch what is outside; a copy is complete;
- HTTP: both forms of a query hold the items that were set; the text of a
  message means its path, parameters and headers;
- text: what is encoded, converted, escaped or dumped can be read back.

## Modules

| module | models | checked by | proved in |
| --- | --- | --- | --- |
| `BoundedFifo` | what a ring buffer promises | as a property of `MCCircularBuffer` | |
| `CircularBuffer` | `circularbuffer<T>` | `MCCircularBuffer` | `CircularBuffer_proofs` |
| `QueueBuf` | `queuebuf<T>` | `MCQueueStream`, `MCQueueItems` | `QueueBuf_proofs` |
| `Process` | `process` | `MCProcess`, `MCProcessThrow` | `RunAfterTime_proofs` |
| `RunAfterTime` (extends `Process`) | `runaftertime` | `MCRunAfterTime`, `MCRunAfterPrompt` | `RunAfterTime_proofs` |
| `UngetQueue` | `ungetqueue<T>` over a queue | within `MCSelectLoop` | `SelectLoop_proofs` |
| `SocketState` (extends `UngetQueue`) | `socketstate` and its subclasses for TCP, SOCKS4 and SSL; `read` and `write` of the sockets | `MCSelectLoop`, `MCHandOver` | `SelectLoop_proofs` |
| `SelectLoop` (extends `SocketState`) | `selectloop::servicexx`, the user, the peer, the kernel | `MCSelectLoop`, `MCHandOver` | `SelectLoop_proofs` |
| `LineSocket` | `sendline` and `readline` of `tcpsocket` | within `MCHttpRequest` | `HttpRequest_proofs` |
| `ByteStream` | what `ReadWriter` promises | as a property of `MCReaderStack` | `ReaderStack_proofs` |
| `MemoryReaders` | `MemoryReader`, `ByteVectorReader`, `ByteVectorWriter`, `MmapReader` | `MCReaderStack` | `ReaderStack_proofs` |
| `WindowReaders` | `OffsetReader`, `CheckedOffsetReader`, `RangeReader` | `MCReaderStack` | `ReaderStack_proofs` |
| `DeviceReaders` | `FileReader` over a `FILE`, `BlockDevice` | `MCReaderStack` | `ReaderStack_proofs` |
| `CompressedReader` | `CompressedReader` over inflate | `MCReaderStack` | `ReaderStack_proofs` |
| `ReaderStack` | the calls of `ReadWriter`, `copyto` among them, on any of these | `MCReaderStack` | `ReaderStack_proofs` |
| `HttpQuery`, `HttpRequest` | `http/*` | `MCHttpRequest` | `HttpRequest_proofs`, `SequenceFacts` |
| `Utf`, `UtfText` | `chariterators.h`, `utfcvutils.cpp`; a text that is written and read | `MCText` | |
| `StringTools`, `DumpTools`, `StringText` | `stringutils`, `debug.cpp`; strings that are encoded and dumped | `MCText` | `StringText_proofs`, `SequenceFacts` |
| `Lists` | what loops over a sequence do, for `HttpQuery` and `StringTools` | within both | |

**CircularBuffer.** The variables are the fields of the class and the locals of
a call in progress. Single-element calls are one step; a block call is a step
that tests the size, one step per iteration of its copy loop and a last step
that returns. The steps in between matter because `usedsize()` and `freesize()`
of `queuebuf` read the count without a lock. The refinement mapping to
`BoundedFifo` lets a block call take effect at its return.

**QueueBuf.** Every call is a thread that takes the mutex, tests, waits or
copies, unlocks and notifies; each of these is a step. The data is reduced to
how much there is: this alone decides who waits, and what the values are is the
subject of `CircularBuffer`. `read()`, `read(p, n)` and `read(p, min, max)` are
one operation with a least and a greatest size. `notify_one` picks any sleeper;
waits may return spuriously. An exception ends the thread, as in
`process::operator()`. The unlocked read of `_stopped` in `stop()` is one step.

**Process.** The threads are the owner, which constructs and destroys the
object, the object's thread and any number of others that call `stop()`. A
critical section without a wait is one step; in `wait_for_start` and
`wait_for_stop` the test and the wait are two steps under the mutex, because
some of the notifiers do not hold it. `class` says which virtual functions a
call reaches. `service()` is any service that keeps the contract of the
comments: it may return, throw, call `terminateservice()`, or wait for something
that `processstop()` ends. Other threads call `stop()` on a complete object
only, and its destruction begins after they returned, as C++ asks of any object.
Flags are read and written one at a time in program order: they are volatile,
atomic or reread after an opaque call, so the compiler cannot merge their
accesses.

**RunAfterTime** adds the body of `service()` and `processstop()`. The clock is
one bit, "the timeout has passed", the only thing the code asks of it.

**UngetQueue.** An ungetqueue is a value, a buffer with an index into it, and
its calls are operators; the queue behind it is a sequence. Its callers test
that a read does not wait, so no call blocks.

**SocketState.** A connection is a record: for each element of the chain its
state, its queues and whether its socket is set, then the kernel's half of the
TCP connection. A handler is an operator from a connection to the set of
connections it may leave, since handlers call each other (`ev_connected` starts
the next element, which may write at once) and since the kernel and OpenSSL
choose how much they take. A chain has at most three elements, so the calls from
one element's `start` to the next are written out (`HandOver`). An exception is
a field; `Then` skips what follows it. Bytes are numbered in the order they are
sent, so loss, repetition and reordering show.

**SelectLoop.** `service()` of `selectloop` only sleeps; `servicexx()` is the
body a derived loop would call, and this is what the model calls for ever. One
step collects the descriptors, one is `select()`, then for each element of the
list there is one for `mayread`, one for `maywrite` and one for `candelete`. In
between the user, time, the peer and the network may step. The user builds a
chain, adds its elements in the order of the chain before the first is started,
writes at any time, reads once it is connected, closes, or expires the session
as `expiresessions()` does. A handler and a call of the user do not overlap: the
queues lock, which is the subject of `QueueBuf`; the fields of `socketstate` do
not, and the library leaves that to its user. The signal socket only makes
`select()` return early; in the model it may always do that.

**LineSocket.** The two ends take turns, a line at a time, because `readline()`
drops what follows a line end in the same read. Writes and reads are cut
anywhere, and `send` and `recv` may fail: a `recv` that does loses what
`readline()` had collected (tcpsocket.h:738), while the sender goes on and the
socket stays usable. The set `torn` records of which lines, since such a line is
read from its middle on. The timeout is left out: `readline()` subtracts the
present time from its start (tcpsocket.h:752), so that it never passes.

**Readers.** A reader is a record with its kind; each call is an operator that
gives the reader it leaves, the bytes it returns and whether it throws. A read
also takes how the calls of the system below it go (`Outcomes`: in full, short,
a failed `lseek`, a failed `read`), so the error paths of `BlockDevice`, which
claims bytes it never read, and of `FileReader`, whose `FILE` keeps its error
and its end-of-file indicator, are part of the model. `FileReader` is modelled
with what a `FILE` does when a read follows a write without a flush, and
`CompressedReader` with an inflate that owes output when its buffer is full.
`Constructed` says what the constructors make, for the instances TLC runs and
for the proofs; a window begins with the reader below it wherever that stands,
and only `CheckedOffsetReader` positions it. `ReaderStack` makes actions of the
calls; `copyto` is one step per round of its loop and writes to a destination
that may grow, be too short, or refuse.

What these readers promise holds only while they are *in step* (`InStep`): what
they keep a copy of, or beside, is as they believe. Three calls derail one
(`Derails`): a block device whose `lseek` or `read` fails
(BlockDevice.h:104-114), a range that has moved and goes back to its start, the
only `setpos` it accepts (RangeReader.h:36 leaves `_curpos`), and a file that
was read to its end and is then made longer. `CachesAgree` says that no other
call does, and which `setpos` brings a reader back. A refinement mapping takes
every reader to `ByteStream`: the bytes it stands for, its position and whether
it is in step; out of step reads go astray, but still only `write` and
`truncate` change the content. A copy is held to be complete if it began in step
and did not throw. Positions stay within the reader, and a mapping is not
truncated below half of its size: beyond these, the code's unsigned subtraction
wraps or `grow()` overruns.

**HTTP.** `HttpQuery` keeps the list, the string and which of them is the
authority; `HttpRequest` keeps the first line, the path and which of them is
valid. The actions are all calls that change either. Two history variables
record the items as a caller counts them, and the items of the text that is
sent: `setparam()`, `addparam()` and the query behind `query()` change the parts
of a request whose first line may have been made before (or given by the
caller), and the text then goes on meaning the parts it was made from, until the
query is replaced.

**Text.** These modules are functions of their arguments: the state is a text
that grows by a code point or by any unit (`UtfText`), or a string that grows by
a character (`StringText`), and the properties say of every text that the
operators agree with a short definition of what they are for. Loops are
recursive functions; those that carry a state along are `Scan` of `Lists`. What
printf would format is left out; a line of a dump is a record of what it shows.
The comments of the conversions disagree on what they return: utfcvutils.h:15
says code units, utfcvutils.cpp:40 code points; the code returns units, and so
does the model. `Unescape` says exactly which strings `cstrunescape` reads back
from `cstrescape`: `\x` takes every hexadecimal digit that follows, so not those
with one behind a control character. (Of an octal escape, which `cstrescape`
does not write, three digits take the next character as well, whatever it is; no
comment says what these escapes mean, so no property does.)

## Runs

| run | instance | what it shows |
| --- | --- | --- |
| `circularbuffer` | 3 cells, 2 values, blocks of up to 4 | field ranges, index relation, no unread cell overwritten, a block is stored in order, FIFO |
| `queue_stream` | capacity 3, one reader (1, 1-3, 2 or 4 elements), one writer (1, 2 or 4), two stoppers | no lost wakeup, stop() wakes both sides, nobody in the buffer after it, every call ends |
| `queue_items` | capacity 2, two readers, two writers, single items | notify_one is enough when every request is one item |
| `process` | owner and two stoppers | virtual calls, quiet after stop(), one processstop(), stop() and destructor return |
| `runaftertime` | owner and one stopper | once, not early, not after stop(), at last; it is a `Process` |
| `sockets` | the seven chains: tcp, tcp+socks4, tcp+ssl, tcp+socks4+ssl, an accepted socket alone and with ssl, listen; queues of 3 bytes, a SOCKS answer of 2, 3 bytes written, 3 sent by the peer | no byte lost, repeated or out of order either way, one element serves the descriptor, where a null pointer is followed, in a chain without ssl the peer's end ends the connection |
| `readers` | every class of reader over 2 to 5 bytes, windows at the border and inside of the reader below; requests of 1 and 3, a copy buffer and blocks of 2 bytes, decompression buffers of 2 and 3, five compressed streams; a first or second system call that is short or fails; destinations that grow, are too short, refuse | it is a `ByteStream` while in step, caches agree but for three calls, windows keep what is outside, `copyto` is complete unless it throws |
| `http` | two keys that differ in case, values with every encoded character, malformed strings, up to 2 items and 2 headers; up to 3 lines of up to 3 bytes, reads of 2, room for 3 | the two forms agree, a message means the parts it was made from, lines arrive, but for what a failing `recv` had taken |
| `text` | texts of up to three code points at the borders of the encodings, of the two values behind the last code point, and of stray units; strings over eight special characters | iterators, conversions and comparisons, codecs are inverted, dumps show all |
| `hand_over` (violated) | tcp+socks4, 1 byte each way | an element can get control of a connection the loop has already dropped |
| `process_throw` (violated) | owner only | a constructor that throws can leave ~process in join() for ever |
| `runaftertime_prompt` (violated) | owner only, a clock that need not advance | stop() can last as long as the timeout |

The bounds: a ring of 3 cells is the smallest in which a block can start in the
middle, wrap and leave a cell free; requests one larger than the ring exercise
both refusals. In the queue a request larger than the capacity exists on each
side, since only the writer refuses it. Two stoppers make the second `stop()`
meet the first at every point. More threads of the same kind add no new pairing
of critical sections; the theorems are about any number where they say so. Runs
that can come to rest (threads ended, object destroyed) switch deadlock checking
off. (It would find nothing in `QueueBuf`: a sleeper may always wake by itself.
That all sleep is excluded by the two `NotAbandoned` invariants.)

The sockets: with three bytes a part of a write is put back while a byte is
queued behind it; a queue of 3 can be filled and found full; an answer of 2 can
arrive in parts, or together with what follows it; each chain meets a different
handler on connecting, and the longest one has every hand-over (tcp to socks4,
socks4 to ssl). The readers: every buffer is shorter than the data, requests are
shorter and longer than a block and as long as the decompression buffer, so that
a call begins and ends inside, at and across their borders. A system call fails
before anything was read, or after a block was, or a byte. The compressed
streams end inside and at the ends of both buffers. In HTTP two items and two
keys are enough for an item to be replaced beside another that only differs in
case. Texts hold the first and the last code point of each length, and three of
them give every pair of neighbours something before or after it.

What the three violated runs say:

- `process_throw`: `~process` (process.h:34-37) sets `_terminating` and notifies
  without `_processmtx`. If both fall between the thread's test (line 191) and
  its wait (line 192) the notification is lost and `join()` does not return. The
  comment at lines 32-33 says these lines solve that case. Taking the mutex
  around the assignment would.
- `hand_over`: the comment at the top of `socketstate.h` says that a connected
  object deletes itself from the list and gives control to the next. The connect
  timer of that next element runs from its construction (socketstate.h:83),
  while it waits for the first to connect. If it passes, `candelete()` drops it
  from the list; when the first connects later, it starts an element that nobody
  serves.
- `runaftertime_prompt`: `processstop()` (line 208) notifies without `_mtx`,
  with the same effect on the `wait_for` of line 219: `stop()` then lasts until
  the timeout.

## Fairness

- `QueueBuf`: weak fairness of each thread's steps inside a call. Nobody has to
  call, nothing relies on spurious wakeups. An unfair mutex is enough for
  `StopReleases`, since after the stop everybody leaves after one more look.
- `Process`: strong fairness of each thread's steps inside the library: a thread
  that waits for a mutex that is released again and again gets it. Weak fairness
  is not enough, as another thread may wake spuriously and take the mutex any
  number of times. A service that does not wait ends (weak fairness of its
  steps); what the service waits for, a call of `stop()` and the destruction are
  not assumed to happen.
- `SelectLoop`: the loop thread is scheduled and time passes, both weak: the
  loop can always take a step, and a timer that has passed stays so. The user,
  the peer and the network need not do anything; `PeerCloseEnds` begins when the
  peer has.
- the readers, HTTP, lines and text: no liveness is claimed.
- `RunAfterTime`: the same as `Process`, and that time passes. `StopIsPrompt` is
  checked without the last.

## Proofs

All of them for every value of the constants.

- `CircularBuffer_proofs`: the inductive invariant is the type invariant with
  `IndexesAgree` (`wrptr` is `size` places after `rdptr`) and `AtMostTwoChunks`.
  `IndexesAgree` alone is not inductive: a chunk that ends at the end of the
  ring must leave the index at 0. From it: no unread cell is overwritten
  (`UnreadIsKept`), a block write stores a prefix (`PrefixIsStored`), and the
  ring implements `BoundedFifo` (`Refinement`): a chunk moves elements from the
  abstract queue's head to the caller's array, so the mapped queue does not
  change until the call returns.
- `QueueBuf_proofs`: for any number of threads and all sizes, `FillLevelInRange`
  and `Invariance` (quiet after `stop()`), from: exactly the holder of the mutex
  is between lock and unlock, and a thread in the buffer still has what it
  tested. `OneReader` and `OneWriter`: a side with a single thread never sleeps
  over a notification it needed, whatever the other side does. `ItemReaders` and
  `ItemWriters`: the same for any number of threads that take or add single
  items, by counting: the threads on their way to notify or already awake are as
  many as the items (or places) that a sleeper could take. `OneToOne`: with one
  thread on each side `stop()` leaves nobody asleep. The hypotheses are needed:
  all of them call `notify_one`, and where readers ask for different sizes, or
  both sleep when the queue is stopped, the one that wakes need not be the one
  that can go on, or the only one that has to.
- `RunAfterTime_proofs`, first part, about `Process`: `Invariance`, from an
  invariant in four parts: what the owner's place says about the object
  (`Lifetime`), how far the thread can be (`Progress`), when others call
  (`Callers`), and who won the exchange (`Winners`). `StopIsQuiet` and
  `StopRunsOnce` follow from its parts. Second part: `Refinement` (it is a
  `Process`), and on top of the invariant of `Process`: once (`CalledOnce`), not
  early, quiet after `stop()`.
- `ReaderStack_proofs`: for data of any length, buffers, blocks and requests of
  any size, and any errors of the system. For each class two kinds of lemmas: a
  call keeps the reader well-formed, in step or not (`GoodMemory`,
  `WindowShape`, `FileShape`, `Blocks`, `GoodCompressed`), and in step it does
  what a call of a stream does (`Reads`, `Writes`, `SetsPos`, `Truncates`,
  `Counts`), or fails and says so. Then the same of any reader (`ReadKeeps` and
  its like), for the loops (`BlockDevice::read`, inflate,
  `CompressedReader::setpos`) by what each round keeps; that the rounds add up
  is an induction over a set of naturals. The inductive invariant `ReaderInv` is
  that the reader is well-formed and that the destination of the copy has what
  was read for it (`CopySane`); being in step is not part of it, since three
  calls end it, so `CachesStayTrue` and `OutsideStaysKept` are about each step
  from the invariant. `IsAStream` is the refinement of `ByteStream`.
  `CopiesAreComplete` needs a stronger invariant: a copy that began in step
  still is, and has what stands between where it began and where it is
  (`CopiedSoFar`). The hypothesis `Streams` of the last two is about the code:
  `OffsetReader` does not look at its size, so it is a stream only where the
  reader below ends with it; a `CompressedReader` whose input buffer is filled
  by a header returns nothing before its end, so it is left out.
- `SelectLoop_proofs`, first part, about `UngetQueue`: `UngetComesFirst` and
  `ReadTakesPrefix`, the two facts on which `ev_sockwrite` relies when it takes
  all, sends a part and puts the others back. They need no index into a
  sequence: a buffer is cut into what has been read and what is left. Second
  part: for each of the seven chains, queues and answers of any size and any
  amount of data, `CrashOnlyAfterClose`, `OneElementServed`, `OutputInOrder` and
  `InputInOrder`. None of the four is inductive. The invariant says of the
  connection (`Sound`): which states an element of each kind can be in, that an
  element is started only when those below it are done, and that the TCP socket
  is given up only by a `close()` that stops its queue (`Control`); that what
  the peer has received, what waits in the element below and what waits in the
  last one join to all there is to send, unless the connection was reset or is
  over, and that nothing waits below an ssl element that has started (`OutInv`);
  and whether the answer of the SOCKS server is still awaited, and then whose
  queue it is in, or what has been read, what is queued and what is on the wire
  join to what the peer sent after it (`InInv`). Of the loop it says that the
  list is ordered, that it and what has left it make up the chain from below
  (`ListInv`), that an element that has handed its socket on and is still in the
  list is one the loop has yet to come by, the very one it is at if the
  descriptor counts as readable (`PastInv`), and that the descriptor counts as
  readable only when the TCP connection is there (`ReadInv`). `OneElementServed`
  needs all of it: two elements compete if one that is connected stays in the
  list beside the next. There is a lemma for each handler, from the bytes that
  one read or write moves up to the handlers that start the next element, one
  for each action, and one for each theorem.

- `HttpRequest_proofs`: `ItemsKept` and `PartsRead`, for any names, values and
  strings, malformed ones included, and any number of items and headers. The
  invariant says that the string, when it is the authority or has been made,
  reads as the items, and so does the list (`Agrees`); that a text kept as the
  first line splits into the path and the items it was made from (`Says`); and
  that without a query there are no items. Below it are the facts about the
  encodings: `DecodeEncode`, nothing that is encoded holds a separator,
  splitting a join of such words gives the words (`ParseSplit`), and a value of
  a header gives one line that begins with the name and only lines that begin
  with a space after it (`HeaderLines`). An item without key and value is
  written as nothing, so all of it is up to such items. Second part, about
  `LineSocket`: `LinesDelivered`. The invariant joins what has been collected,
  left in the socket and not yet sent into the line on its way, or the end of it
  that a failed `recv` left, and says that a line end comes last in it:
  `readline()` forgets what follows one.
- `StringText_proofs`: `CodecsAlwaysInvert`, for strings of bytes of any length.
  The string is always one of bytes; everything else holds of every such string,
  by induction over its length. Escapes: `FirstOf` takes from an escaped string
  just what was written for its first character (`CharRead`), unless that is a
  control character and a hexadecimal digit follows, which `\x` takes as well
  (`HexTakes`): then less is read than was written (`AllShrink`), so that the
  condition under which a string comes back is exact. Base64: the digits of a
  chunk are the value of its bytes, the filter drops the fill, and chunks of
  four digits line up with chunks of three bytes. Hexadecimal: two digits per
  byte, whatever stands between them, and with units of two bytes the high one
  first. Numbers: the digits written for a value are digits of the base, have
  that value by position (`DigitsWrite`) and end before the blank, and a prefix
  tells the base. Lists: `SplitStep` is a step from one state to the next
  (`StepMoves`); an escaped character is added to the word whatever the state's
  list (`CharAdded`), so a word in quotes or with its separators escaped comes
  out as it was; and without backslashes the wide form goes through the same
  states (`WideSame`).
- `SequenceFacts`: what these proofs need of sequences, above all induction. The
  library's induction theorems take a predicate, which the provers cannot
  instantiate; `NatSetInduction`, `AppendInduction`, `ConsInduction` and
  `WordInduction` take the set of values for which the claim holds instead. A
  recursive function over a text is a chain: its value at a place is a part made
  there and its value at a later place (`ChainIs`, `ChainUnfolds`). One that
  carries a state along is a fold, and a fold over a join goes on where the
  first part ended (`FoldIs`, `FoldJoin`).

The assumptions are the named ones of the modules: strings hold bytes, the name
of a header holds no line end and does not begin with a space (the code writes
it as it is), the ring has a cell, the threads are distinct, a request's least
size does not exceed its greatest, a line holds no line end, a connection is
built in one of the seven ways, readers are as their constructors make them,
buffers are not empty.

Only model-checked: everything about liveness; queues where several readers and
several writers mix sizes; the UTF conversions and iterators
(`IteratorWalksPoints`, `ConversionsRight`) and the dumps (`DumpsExpand`).

## Not modelled

- `pollloop`: its first `add()` looks at the element after the insertion point
  of an empty vector (pollloop.h:51), that is, it follows a null pointer.
  Nothing that comes after has a defined behaviour to model.
- Sockets: several connections in one loop (they share nothing but the list),
  the signal socket, what becomes of an accepted socket (the code drops it),
  contexts and certificates of OpenSSL, and the calls of `tcpsocket.h` that wrap
  one system call each: addresses, names, options, UDP.
- Readers: the typed reads and writes (`read32le` and so on, which call `read`
  and reorder bytes), truncation of windows, how mappings are opened; windows
  and decompressors over a reader that fails to read; a disk that is full when a
  `FILE` is flushed (a `write` that only fills its buffer has then returned long
  before); damaged compressed input; a mapping as the destination of a copy,
  which loses what does not fit in its one doubling and does not tell: `write`
  is void, and what the model says a write stored is not visible to its caller.
  A sized copy from a `CompressedReader` may end early, since it takes a short
  read for the end; `CopyComplete` allows it that, and no more.
- HTTP: `HttpHeaders::sanitize` (headers.h:34) does not end on any value, and
  nothing calls it; `get` and `multiplicity`, which only read the list; sending.
- Text: `strictutf8validator`, which tests a variable it does not set; printf
  formatting, the log, `chomp` and the other one-line helpers;
  `vectorutils.cpp`.
- `FileFunctions`, `args`, `crypto`, `zlib`, byte order, exceptions: one system
  or library call each, or no state.

## What is left

In the order of what it would add:

1. The overlap of a handler with calls of the user on `_state` and `_s`, as
   single reads and writes.
2. Two connections in the loop, one of which closes the other.
3. `IteratorWalksPoints`, `ConversionsRight` and `DumpsExpand` proved for texts
   of any length, in the way of `StringText_proofs`: all three hold of a text by
   induction over its units, and need no invariant of a state machine.
