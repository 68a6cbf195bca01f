--------------------------- MODULE MCUdpProxyTunnel ---------------------------
(* Small instance of UdpProxyTunnel: two clients and two sessions, which are *)
(* those of both clients or, after an eviction, of the same one.             *)
EXTENDS UdpProxyTunnel

CONSTANTS a, b

MCSources == {a, b}
MCMaxSessions == 2
MCTimeout == 2
MCMaxLag == 1
MCMaxStall == 1
=============================================================================
