-------------------------- MODULE MCProcessThrow --------------------------
(* Process without other threads: the derived constructor may throw.        *)
EXTENDS Process
=============================================================================
