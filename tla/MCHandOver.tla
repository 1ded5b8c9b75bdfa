----------------------------- MODULE MCHandOver -----------------------------
(* A TCP socket and the SOCKS element it hands its connection to.            *)
EXTENDS SelectLoop

ChainsDef == {<<"tcp", "socks4">>}
=============================================================================
