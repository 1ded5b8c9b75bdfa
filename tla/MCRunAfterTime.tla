--------------------------- MODULE MCRunAfterTime ---------------------------
(* RunAfterTime with its owner and one more thread that may stop it.        *)
EXTENDS RunAfterTime
=============================================================================
