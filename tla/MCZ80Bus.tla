------------------------------ MODULE MCZ80Bus ------------------------------
(* Z80Bus with the code's divider, slices that span no clock edge, one edge  *)
(* and two, and instructions of up to four ticks.                            *)
EXTENDS Z80Bus
=============================================================================
