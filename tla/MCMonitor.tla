----------------------------- MODULE MCMonitor -----------------------------
EXTENDS Monitor

MCZoneOf == [frontA |-> "Front", frontB |-> "Front", rear |-> "Back", lamp |-> "none"]
Beat(name, address, left, right) == [name |-> name, address |-> address, speeds |-> [L |-> left, R |-> right]]

(* frontA moves from one address to another.                                 *)
MCHeartbeats ==
  {Beat("frontA", 1, 0, 50), Beat("frontA", 2, 50, 0), Beat("frontB", 3, 0, 0), Beat("rear", 4, 50, 50),
   Beat("lamp", 5, 0, 0)}
MCBroadcasts == {[name |-> "frontA", address |-> 1], [name |-> "rear", address |-> 4]}
MCChallenges == {[name |-> "frontA", address |-> 1]}
=============================================================================
