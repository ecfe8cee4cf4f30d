---------------------------- MODULE SequenceLock ----------------------------
(***************************************************************************)
(* The state of the priority lock as Controller.Run sees it, without       *)
(* channels, timers and cancel functions, and the three things that happen *)
(* to it: a request is granted the lock when it is free, a request that    *)
(* may interrupt the running sequence cancels its context, and the running *)
(* sequence releases it.  SequenceLockSpec says who takes these steps and  *)
(* when; MachineMain and Sequencer are built on them.                      *)
(***************************************************************************)
EXTENDS TakeOver

CONSTANT Procs   \* the callers of Controller.Run

VARIABLES
  holder,    \* the processes whose sequence is running: none or one
  held,      \* the request it was granted
  revoked    \* its context is cancelled

lockState == <<holder, held, revoked>>

Free == holder = {}

LockInit == holder = {} /\ held = NoRequest /\ revoked = FALSE

Grant(p, r) ==
  /\ Free
  /\ holder' = {p}
  /\ held' = r
  /\ revoked' = FALSE

Revoke(r) ==
  /\ ~Free
  /\ MayRun(r, held.seq)
  /\ revoked' = TRUE
  /\ UNCHANGED <<holder, held>>

Release ==
  /\ ~Free
  /\ holder' = {}
  /\ held' = NoRequest
  /\ revoked' = FALSE

=============================================================================
