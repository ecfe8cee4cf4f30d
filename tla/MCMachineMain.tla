--------------------------- MODULE MCMachineMain ----------------------------
(* main with an API handler and the SIGTERM listener. *)
EXTENDS MachineMain

CONSTANTS m, api, sig

MCAsks == [p \in {api, sig} |->
             IF p = sig THEN {Request("shutdown", TRUE)}
             ELSE {Request("reboot", FALSE), Request("reboot", TRUE), Request("reset", FALSE),
                   Request("upgrade", FALSE)}]
=============================================================================
