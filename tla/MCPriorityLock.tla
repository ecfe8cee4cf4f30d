--------------------------- MODULE MCPriorityLock ---------------------------
(* The lock with main, an API handler and the shutdown listener as callers. *)
EXTENDS PriorityLock

MCRequests ==
  [seq : {"boot", "reboot", "reset", "upgrade"}, takeover : {FALSE}]
    \union {[seq |-> "shutdown", takeover |-> TRUE]}
=============================================================================
