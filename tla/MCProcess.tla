----------------------------- MODULE MCProcess -----------------------------
(* Process with its owner and two further threads that may call stop().     *)
EXTENDS Process
=============================================================================
