-------------------------- MODULE SequenceLockSpec --------------------------
(***************************************************************************)
(* What the priority lock promises: a process has at most one request      *)
(* under way, the lock goes to a request under way when it is free, a      *)
(* running sequence loses its context only to a request under way that may *)
(* interrupt it, and only the process whose sequence runs gives the lock   *)
(* back.  PriorityLock implements this specification, and MachineMain and  *)
(* Sequencer use the lock as it allows.                                    *)
(***************************************************************************)
EXTENDS SequenceLock

VARIABLE requests   \* the request each process waits in Lock with, or NoRequest

specState == <<lockState, requests>>

SpecInit ==
  /\ LockInit
  /\ requests = [p \in Procs |-> NoRequest]

Waits(p) == requests[p] # NoRequest

(* A process that neither waits nor runs calls Lock for a sequence. *)
AsksFor(p, r) ==
  /\ p \notin holder /\ ~Waits(p)
  /\ r.seq \in Sequences
  /\ requests' = [requests EXCEPT ![p] = r]
  /\ UNCHANGED lockState

(* The request interrupts the running sequence, if it may. *)
Interrupts(p) ==
  /\ Waits(p)
  /\ Revoke(requests[p])
  /\ UNCHANGED requests

Takes(p) ==
  /\ Waits(p)
  /\ Grant(p, requests[p])
  /\ requests' = [requests EXCEPT ![p] = NoRequest]

(* Lock returns an error: the request is refused or its timer fires. *)
GivesUp(p) ==
  /\ Waits(p)
  /\ requests' = [requests EXCEPT ![p] = NoRequest]
  /\ UNCHANGED lockState

GivesBack(p) ==
  /\ holder = {p}
  /\ Release
  /\ UNCHANGED requests

LockNext ==
  \E p \in Procs :
    \/ \E r \in AnyRequest : AsksFor(p, r)
    \/ Interrupts(p) \/ Takes(p) \/ GivesUp(p) \/ GivesBack(p)

LockSpec == SpecInit /\ [][LockNext]_specState

=============================================================================
