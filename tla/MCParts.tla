------------------------------ MODULE MCParts ------------------------------
(* Small values for the constants of the parts.                              *)
EXTENDS Parts

(* A read into the caller's buffer, a write of a variable length and two     *)
(* fixed ones.                                                               *)
MCOps ==
  {[nRW |-> "read",  mode |-> "VDM",  addr |-> 1, data |-> <<0, 0>>,       copy |-> TRUE],
   [nRW |-> "write", mode |-> "VDM",  addr |-> 0, data |-> <<1, 0>>,       copy |-> FALSE],
   [nRW |-> "write", mode |-> "FDM4", addr |-> 0, data |-> <<0, 1, 1, 0>>, copy |-> FALSE],
   [nRW |-> "read",  mode |-> "FDM1", addr |-> 2, data |-> <<0>>,          copy |-> FALSE]}

(* A bit of the magic byte, of the type, of the field, of unused bytes of    *)
(* the body, of the checksum and of the CRC.                                 *)
MCWeak == {<<1, 0>>, <<4, 0>>, <<5, 1>>, <<9, 0>>, <<10, 0>>, <<31, 7>>, <<33, 0>>, <<39, 7>>}
MCChallenges == {<<1, 0, 0, 0, 5, 0, 0, 0>>, <<1, 0, 0, 0, 6, 0, 0, 0>>}

MCSensors == 0..1
MCPercents == -128..127
MCSegments == {-1, 0, 192, 300}
MCMacs == {<<73, 1, 2, 3, 4, 5>>}
MCPieces == {[i \in 1..40 |-> 7]}
=============================================================================
