--------------------------- MODULE MCQueueStream ---------------------------
(* QueueBuf the way the sockets use it: one thread reads, one writes, in    *)
(* blocks of different sizes, one of them larger than the queue on each     *)
(* side, and two threads may stop it.                                       *)
EXTENDS QueueBuf

Requests == {[lo |-> 1, hi |-> 1], [lo |-> 1, hi |-> 3], [lo |-> 2, hi |-> 2],
             [lo |-> 4, hi |-> 4]}
=============================================================================
