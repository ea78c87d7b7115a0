---------------------------- MODULE MCPacketPool ----------------------------
(* Small instances of PacketPool. *)
EXTENDS PacketPool, TLC

CONSTANTS k1, k2, k3, Long

\* Long is too long to be pushed, and k1 comes before all others.  The others
\* tie, as all frames that start with the same start-of-frame byte do.
MCPrio == [k \in Packets |-> IF k = k1 THEN 16 ELSE 170]
=============================================================================
