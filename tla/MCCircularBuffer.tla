-------------------------- MODULE MCCircularBuffer --------------------------
(* CircularBuffer with a ring of 3 cells, two element values and requests   *)
(* of up to 4 elements, one more than the ring holds.                       *)
EXTENDS CircularBuffer
=============================================================================
