----------------------------- MODULE MCPingHealth -----------------------------
(* Small instance of PingHealth: two addresses, a clock of half seconds, a   *)
(* ping every second, and time for a first answer to grow stale (seven ticks)*)
(* while later ones come.  The addresses are interchangeable.                *)
EXTENDS PingHealth, TLC

CONSTANTS x, y

MCAddrs == {x, y}
MCInterval == 1
MCSecondTicks == 2
MCEpoch == 7
MCMaxTime == 13
MCSymmetry == Permutations(MCAddrs)
=============================================================================
