----------------------------- MODULE MCAsyncQueue -----------------------------
(* Small instance of AsyncQueue: a queue of two, and enough chunks for three *)
(* put()s to wait at the same time.                                          *)
EXTENDS AsyncQueue

MCMaxSize == 2
MCMaxChunks == 7
=============================================================================
