----------------------------- MODULE MCDrainer ------------------------------
(* An events sink and the delivery of kernel logs. *)
EXTENDS Drainer

CONSTANTS sink, kmsg
=============================================================================
