----------------------------- MODULE MCSocksPool -----------------------------
(* Small instance of SocksPool: every WIREPROXY_SOCKS of at most three       *)
(* tokens over two endpoints, one of them dead, a blank and a malformed      *)
(* token; two streams that dial at the same time, for two full rotations.    *)
EXTENDS SocksPool

CONSTANTS live, dead, bad, blank, s1, s2

MCHosts == {live, dead}
MCDead == {dead}
MCStreams == {s1, s2}
MCMaxTokens == 3
MCMaxPicks == 6
=============================================================================
