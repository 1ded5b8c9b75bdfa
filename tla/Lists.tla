------------------------------- MODULE Lists -------------------------------
(***************************************************************************)
(* What loops over a sequence do, where several modules need it.           *)
(***************************************************************************)
EXTENDS Integers, Sequences, SequencesExt

\* the elements of s that pass a test, in their order
Filter(s, Test(_)) == FlattenSeq([k \in DOMAIN s |-> IF Test(s[k]) THEN <<s[k]>> ELSE <<>>])

\* the state after all elements of s
Scan(step(_, _), start, s) ==
  LET f[k \in 0..Len(s)] == IF k = 0 THEN start ELSE step(f[k - 1], s[k]) IN f[Len(s)]
=============================================================================
