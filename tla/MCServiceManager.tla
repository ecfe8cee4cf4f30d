-------------------------- MODULE MCServiceManager --------------------------
(* Instances of the service manager: two services, b depends on a; a client *)
(* c1 that starts them and a client c2 that stops them.                     *)
EXTENDS ServiceManager

CONSTANTS a, b, c1, c2, StarterOps, StopperOps

MCDependsOn == [s \in Services |-> IF s = b THEN {a} ELSE {}]

MCOps == [c \in Clients |-> IF c = c1 THEN StarterOps ELSE StopperOps]
=============================================================================
