-------------------------- MODULE MCRunAfterPrompt --------------------------
(* RunAfterTime with its owner only, and a timeout that may be far away.    *)
EXTENDS RunAfterTime
=============================================================================
