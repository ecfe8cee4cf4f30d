---------------------------- MODULE MCServiceRun ----------------------------
(* The ways in which machined runs its services; extension services, under  *)
(* a restarter of any type, have a runner with the process runner's Stop.   *)
EXTENDS ServiceRun

Runner(k, r, h) == [kind |-> k, restart |-> r, health |-> h]

MCRunners ==
  {Runner("process", "Forever", TRUE), Runner("process", "Forever", FALSE),
   Runner("process", "UntilSuccess", FALSE), Runner("process", "Once", FALSE),
   Runner("goroutine", "none", TRUE)}
=============================================================================
