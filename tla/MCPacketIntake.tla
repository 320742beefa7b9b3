--------------------------- MODULE MCPacketIntake ---------------------------
(***************************************************************************)
(* Instances of PacketIntake for TLC.  The packet buffer holds four bytes: *)
(* two short datagrams and the separator between them, or one long one, so *)
(* that all three branches of addMessage are taken.                        *)
(***************************************************************************)
EXTENDS PacketIntake

CONSTANTS d1, d3, d4, w1

OneEmpty == [d \in Datagrams |-> IF d = d1 THEN 0 ELSE IF d = d3 THEN 1 ELSE 3]
=============================================================================
