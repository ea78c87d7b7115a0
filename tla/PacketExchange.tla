--------------------------- MODULE PacketExchange ---------------------------
(***************************************************************************)
(* What a packet pool promises its callers (PacketQueue.h): packets are    *)
(* offered, and each consumer takes one offered packet at a time and lets  *)
(* it go.  Nothing is said of slots, of scans or of order: a packet that   *)
(* was offered is taken by one consumer at most, and nobody takes a packet *)
(* that was not offered.                                                   *)
(***************************************************************************)
CONSTANTS Packets, Consumers, Blank

VARIABLES
  offered,  \* the packets a consumer may take
  taken     \* taken[c]: the packet consumer c is processing, or Blank

vars == <<offered, taken>>

Init ==
  /\ offered = {}
  /\ taken = [c \in Consumers |-> Blank]

Offer(k) ==
  /\ k \notin offered
  /\ \A c \in Consumers : taken[c] # k
  /\ offered' = offered \cup {k}
  /\ UNCHANGED taken

Take(c, k) ==
  /\ taken[c] = Blank
  /\ k \in offered
  /\ offered' = offered \ {k}
  /\ taken' = [taken EXCEPT ![c] = k]

LetGo(c) ==
  /\ taken[c] # Blank
  /\ taken' = [taken EXCEPT ![c] = Blank]
  /\ UNCHANGED offered

Next ==
  \/ \E k \in Packets : Offer(k)
  \/ \E c \in Consumers, k \in Packets : Take(c, k)
  \/ \E c \in Consumers : LetGo(c)

Spec == Init /\ [][Next]_vars
=============================================================================
