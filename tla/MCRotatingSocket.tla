--------------------------- MODULE MCRotatingSocket ---------------------------
(* Small instance of RotatingSocket: a queue of one chunk, so that three     *)
(* chunks fill it, make a put() wait and pause the socket.                   *)
EXTENDS RotatingSocket

MCMaxSize == 1
MCMaxChunks == 4
MCMaxSends == 2
MCHighWater == 2
=============================================================================
