----------------------------- MODULE MCStartUp -----------------------------
(* The services of AppConfig/Comm/Comm.h, on a level that ends at Done.      *)
EXTENDS StartUp

MCEnabled == {"Motor", "Ethernet", "UltraSonic", "HeartBeat", "Test"}
MCBroken == {"W5500", "Motor", "UltraSonic"}
=============================================================================
