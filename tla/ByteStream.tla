----------------------------- MODULE ByteStream -----------------------------
(***************************************************************************)
(* What util/ReadWriter.h promises of every reader: a sequence of bytes    *)
(* with a position.  A read returns the bytes at the position, and none    *)
(* only at the end, which is how copyto() knows that it is done.  The      *)
(* promise is for a reader that is sure of its position and its buffers;   *)
(* some calls leave one that is not.                                       *)
(***************************************************************************)
EXTENDS Integers, Sequences

VARIABLES content, pos, sure, last  \* last is the result of the last call

Rest == Len(content) - pos
Overlay(s, at, p) == SubSeq(s, 1, at) \o p \o SubSeq(s, at + Len(p) + 1, Len(s))

StreamInit == last = <<"none", <<>>>> /\ (sure => pos \in 0..Len(content))

Read ==
  /\ sure /\ sure'
  /\ \E k \in 0..Rest :
       /\ k = 0 => Rest = 0
       /\ last' = <<"read", SubSeq(content, pos + 1, pos + k)>>
       /\ pos' = pos + k
       /\ UNCHANGED content

\* A write may stop at the end of a stream that cannot grow; one that grows
\* may get more bytes than were needed.
Write ==
  /\ sure /\ sure' /\ last'[1] = "write"
  /\ LET s == Overlay(content, pos, last'[2]) IN
       Len(s) <= Len(content') /\ SubSeq(content', 1, Len(s)) = s
  /\ pos' = pos + Len(last'[2])

\* To anywhere in the stream; or, for a range that has moved, nowhere.
SetPos ==
  /\ sure /\ last' = <<"setpos", <<>>>> /\ UNCHANGED content
  /\ IF sure' THEN pos' \in 0..Len(content) ELSE UNCHANGED pos

\* A reader that has seen the end may not notice that it moved.
Truncate ==
  /\ sure /\ last'[1] = "truncate" /\ UNCHANGED pos
  /\ Len(content') = last'[2]
  /\ SubSeq(content', 1, pos) = SubSeq(content, 1, pos)
  /\ sure' \/ (pos = Len(content) /\ Len(content) < Len(content'))

Size == last' = <<"size", Len(content)>> /\ UNCHANGED <<content, pos, sure>>

\* What was read before the error is lost.
Throws ==
  /\ sure /\ last' = <<"throws", <<>>>> /\ pos' \in pos..Len(content) /\ UNCHANGED content

\* Out of step: nothing is promised but that no other call changes the content.
Astray ==
  /\ ~sure /\ last'[1] # "size"
  /\ last'[1] \in {"write", "truncate"} \/ UNCHANGED content
  /\ sure' => pos' \in 0..Len(content')

StreamNext == Read \/ Write \/ SetPos \/ Truncate \/ Size \/ Throws \/ Astray
StreamSpec == StreamInit /\ [][StreamNext]_<<content, pos, sure, last>>
=============================================================================
