---------------------------- MODULE MCSelectLoop ----------------------------
(* One connection of each shape the library offers, queues of 3 bytes and a *)
(* SOCKS answer of 2.                                                        *)
EXTENDS SelectLoop

ChainsDef == Shapes
=============================================================================
