-------------------------- MODULE MCProxyConnection --------------------------
(* Small instance of ProxyConnection: two chunks in each direction, so that  *)
(* one may be held by a copy while another one waits, and room for one, so   *)
(* that a write has to wait for a peer that does not read.                   *)
EXTENDS ProxyConnection

MCMaxChunks == 2
MCWindow == 1
=============================================================================
