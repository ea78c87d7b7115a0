------------------------------ MODULE MCMotor ------------------------------
(* A small instance of Motor: two setter tasks, one heartbeat that reports.  *)
EXTENDS Motor

\* 2 is above MaxDuty, as the raw speed 1024 is above the 10-bit duty.
MCSpeeds == {0, 2}
MCWild == {-2}
=============================================================================
