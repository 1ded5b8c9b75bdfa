----------------------------- MODULE LineSocket -----------------------------
(***************************************************************************)
(* sendline and readline of sockets/tcpsocket.h: two programs that take    *)
(* turns, one line at a time.  The kernel splits what is written and what  *)
(* is read anywhere.  The timeout of readline is left out: it compares the *)
(* start minus the present time, which is never positive.                  *)
(***************************************************************************)
EXTENDS Integers, Sequences, SequencesExt

CONSTANTS
  Texts,     \* lines, without a line end
  Chunk,     \* bytes readline() asks for at once (256)
  Room,      \* size of the kernel's buffers
  MaxLines   \* bound

Eol == 10

ASSUME LineAssumption ==
  /\ \A text \in Texts : text \in Seq(0..255) /\ \A k \in DOMAIN text : text[k] # Eol
  /\ Chunk \in Nat \ {0} /\ Room \in Nat \ {0} /\ MaxLines \in Nat

VARIABLES
  lines,   \* history: the arguments of sendline()
  out,     \* what sendline() still has to write
  sender,  \* idle, writing, failed, gone
  wire,    \* written and not read yet
  reader,  \* idle, reading, failed
  answer,  \* of the readline() that is running
  got,     \* history: what readline() returned
  torn     \* history: the lines of which a failing recv() lost the beginning

linevars == <<lines, out, sender, wire, reader, answer, got, torn>>

LineInit ==
  /\ lines = <<>> /\ out = <<>> /\ sender = "idle" /\ wire = <<>>
  /\ reader = "idle" /\ answer = <<>> /\ got = <<>> /\ torn = {}

\* What follows a line end in the same read is dropped, so the sender has to
\* wait for the reader to have taken the line before.
SendLine ==
  /\ sender = "idle" /\ Len(lines) < MaxLines /\ Len(got) = Len(lines)
  /\ \E text \in Texts : lines' = Append(lines, text) /\ out' = Append(text, Eol)
  /\ sender' = "writing"
  /\ UNCHANGED <<wire, reader, answer, got, torn>>

\* The line end is always written by itself.
WriteSome ==
  /\ sender = "writing" /\ Len(wire) < Room
  /\ \E n \in 1..(IF Len(out) = 1 THEN 1 ELSE Len(out) - 1) :
       /\ Len(wire) + n <= Room
       /\ wire' = wire \o SubSeq(out, 1, n)
       /\ out' = SubSeq(out, n + 1, Len(out))
  /\ sender' = IF out' = <<>> THEN "idle" ELSE "writing"
  /\ UNCHANGED <<lines, reader, answer, got, torn>>

\* A write can fail at any time; on a socket that does not block it does where
\* others wait for room.
WriteFails ==
  /\ sender = "writing"
  /\ sender' = "failed"
  /\ UNCHANGED <<lines, out, wire, reader, answer, got, torn>>

\* shutdown() and close()
Shutdown ==
  /\ sender \in {"idle", "failed"} /\ sender' = "gone"
  /\ UNCHANGED <<lines, out, wire, reader, answer, got, torn>>

ReadLine ==
  /\ reader = "idle" /\ reader' = "reading" /\ answer' = <<>>
  /\ UNCHANGED <<lines, out, sender, wire, got, torn>>

\* One read() of the loop.  What came before it stays in `answer`.
CollectedForgets(bytes) == bytes  \* mutant: each read starts from an empty answer
Collected(bytes) == answer \o bytes
ReadSome ==
  /\ reader = "reading" /\ wire # <<>>
  /\ \E n \in 1..Chunk :
       /\ n <= Len(wire)
       /\ wire' = SubSeq(wire, n + 1, Len(wire))
       /\ answer' = Collected(SubSeq(wire, 1, n))
  /\ IF \E k \in DOMAIN answer' : answer'[k] = Eol
     THEN /\ got' = Append(got, SubSeq(answer', 1, (CHOOSE k \in DOMAIN answer' :
                      answer'[k] = Eol /\ \A j \in 1..(k - 1) : answer'[j] # Eol) - 1))
          /\ reader' = "idle"
     ELSE UNCHANGED <<got, reader>>
  /\ UNCHANGED <<lines, out, sender, torn>>

\* read() returns 0: "no answer", and "remoteshutdown" from then on
ReadEnd ==
  /\ reader = "reading" /\ wire = <<>> /\ sender = "gone"
  /\ reader' = "failed"
  /\ UNCHANGED <<lines, out, sender, wire, answer, got, torn>>

\* recv() fails: readline() throws, and what it had collected is lost, while
\* the socket stays usable.  (TRYAGAIN is a round of the loop that adds nothing.)
ReadFails ==
  /\ reader = "reading" /\ reader' = "idle" /\ answer' = <<>>
  /\ torn' = IF answer = <<>> THEN torn ELSE torn \cup {Len(got) + 1}
  /\ UNCHANGED <<lines, out, sender, wire, got>>

LineNext ==
  \/ SendLine \/ WriteSome \/ WriteFails \/ Shutdown
  \/ ReadLine \/ ReadSome \/ ReadEnd \/ ReadFails

LineSpec == LineInit /\ [][LineNext]_linevars
-----------------------------------------------------------------------------
(* Properties. *)

\* What there is of line k: the line, or what a failing recv() left of it.
PartOf(part, k) == part \in Suffixes(lines[k]) /\ (k \notin torn => part = lines[k])

\* However the kernel splits them, readline() returns the lines sendline()
\* was given, once and in order, and fails only when there is no complete one
\* left.  Until then nothing of the line on its way is lost, but for what a
\* readline() whose recv() failed had collected of it: then the next one
\* returns the end of that line, and the lines after it are whole again.
LinesArrive ==
  /\ Len(got) <= Len(lines) /\ Len(lines) <= Len(got) + 1
  /\ \A k \in 1..Len(got) : PartOf(got[k], k)
  /\ Len(got) < Len(lines) =>
       \E part \in Suffixes(lines[Len(lines)]) :
         /\ PartOf(part, Len(lines))
         /\ (IF reader = "idle" THEN <<>> ELSE answer) \o wire \o out = Append(part, Eol)
  /\ Len(got) = Len(lines) => wire = <<>> /\ out = <<>>
  /\ reader = "failed" /\ out = <<>> => Len(got) = Len(lines)
=============================================================================
