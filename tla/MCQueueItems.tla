---------------------------- MODULE MCQueueItems ----------------------------
(* QueueBuf "as a one-to-one queue": two readers and two writers that use   *)
(* read() and write(T), and nobody who stops it.                            *)
EXTENDS QueueBuf

Requests == {[lo |-> 1, hi |-> 1]}
=============================================================================
