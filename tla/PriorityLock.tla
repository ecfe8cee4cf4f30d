---------------------------- MODULE PriorityLock ----------------------------
(***************************************************************************)
(* The lock that lets one machine sequence (boot, reboot, reset, ...) run  *)
(* at a time: v1alpha1_priority_lock.go.  A request of "higher" priority   *)
(* cancels the context of the running sequence and waits, up to a timeout, *)
(* for it to hand the lock over.                                           *)
(*                                                                         *)
(* A process is one caller of Controller.Run: main, an API handler or the  *)
(* SIGTERM/ACPI listener.  Contexts are numbered in creation order; a      *)
(* cancel function is the number of the context it cancels.                *)
(***************************************************************************)
EXTENDS Naturals, FiniteSets, TakeOver

CONSTANTS Procs,     \* the callers of Controller.Run
          Requests,  \* the requests they make: [seq, takeover] records
          MaxCalls   \* bound: the calls one process makes

ASSUME RequestsAssumption ==
  Requests \subseteq [seq : Sequences, takeover : BOOLEAN]

ASSUME MaxCallsAssumption == MaxCalls \in Nat

VARIABLES
  runningCh,        \* tokens in the channel runningCh, capacity 1
  takeoverCh,       \* tokens in the channel takeoverCh, capacity 1
  runningPriority,  \* lock.runningPriority
  cancelCtx,        \* lock.cancelCtx, NoCancel for nil
  nctx,             \* contexts created so far: 1..nctx
  cancelled,        \* the contexts cancelled so far
  pc,               \* where each process is in Lock / the sequence / Unlock
  req,              \* the request each process is serving
  seen,             \* the cancel function Lock read from getRunningPriority
  ctx,              \* the context Lock returned to the process
  result,           \* how the last call of Lock ended
  calls             \* calls made so far (only to apply MaxCalls)

lockVars == <<runningCh, takeoverCh, runningPriority, cancelCtx, nctx, cancelled>>
procVars == <<pc, req, seen, ctx, result, calls>>
vars == <<lockVars, procVars>>

-----------------------------------------------------------------------------
(* State *)

NoCancel == 0

(* Control points.  "takeover".."timedOut" are in Lock, "running" is the *)
(* sequence itself, "unlock" and "handBack" are inside Unlock.             *)
PCs == {"idle", "takeover", "check", "cancel", "await", "install", "leave",
        "refused", "timedOut", "running", "unlock", "handBack"}

(* Between the two channel operations on takeoverCh. *)
InTakeover == {"check", "cancel", "await", "install", "leave", "refused", "timedOut"}

(* Between receiving the token of runningCh and sending it back. *)
HasToken == {"install", "leave", "running", "unlock", "handBack"}

Results == {"none", "granted", "errLocked", "timeout"}

TypeOK ==
  /\ runningCh \in 0..1
  /\ takeoverCh \in 0..1
  /\ runningPriority \in Sequences \union {Noop}
  /\ nctx \in Nat
  /\ cancelCtx \in 0..nctx
  /\ cancelled \subseteq 1..nctx
  /\ pc \in [Procs -> PCs]
  /\ req \in [Procs -> AnyRequest]
  /\ seen \in [Procs -> 0..nctx]
  /\ ctx \in [Procs -> 0..nctx]
  /\ result \in [Procs -> Results]
  /\ calls \in [Procs -> 0..MaxCalls]

(* NewPriorityLock: one token in runningCh, takeoverCh empty. *)
Init ==
  /\ runningCh = 1
  /\ takeoverCh = 0
  /\ runningPriority = Noop
  /\ cancelCtx = NoCancel
  /\ nctx = 0
  /\ cancelled = {}
  /\ pc = [p \in Procs |-> "idle"]
  /\ req = [p \in Procs |-> [seq |-> Noop, takeover |-> FALSE]]
  /\ seen = [p \in Procs |-> NoCancel]
  /\ ctx = [p \in Procs |-> 0]
  /\ result = [p \in Procs |-> "none"]
  /\ calls = [p \in Procs |-> 0]

Goto(p, from, to) == pc[p] = from /\ pc' = [pc EXCEPT ![p] = to]

(* Calling a cancel function is idempotent; calling nil is guarded against. *)
CancelContext(c) == cancelled' = IF c = NoCancel THEN cancelled ELSE cancelled \union {c}

-----------------------------------------------------------------------------
(* Lock *)

Call(p, r) ==
  /\ Goto(p, "idle", "takeover")
  /\ calls[p] < MaxCalls
  /\ calls' = [calls EXCEPT ![p] = @ + 1]
  /\ req' = [req EXCEPT ![p] = r]
  /\ result' = [result EXCEPT ![p] = "none"]
  /\ UNCHANGED <<lockVars, seen, ctx>>

(* case lock.takeoverCh <- struct{}{} *)
EnterTakeover(p) ==
  /\ Goto(p, "takeover", "check")
  /\ takeoverCh < 1
  /\ takeoverCh' = takeoverCh + 1
  /\ UNCHANGED <<runningCh, runningPriority, cancelCtx, nctx, cancelled,
                 req, seen, ctx, result, calls>>

(* The timer fires before another request leaves the take-over section. *)
EnterTimeout(p) ==
  /\ Goto(p, "takeover", "idle")
  /\ result' = [result EXCEPT ![p] = "timeout"]
  /\ UNCHANGED <<lockVars, req, seen, ctx, calls>>

(* Mutant: the outcome of the priority test is ignored. *)
CheckPriorityAny(p) ==
  /\ Goto(p, "check", "cancel")
  /\ seen' = [seen EXCEPT ![p] = cancelCtx]
  /\ UNCHANGED <<lockVars, req, ctx, result, calls>>

(* getRunningPriority and the priority test on what it returned. *)
CheckPriority(p) ==
  /\ IF MayRun(req[p], runningPriority)
     THEN /\ Goto(p, "check", "cancel")
          /\ seen' = [seen EXCEPT ![p] = cancelCtx]
     ELSE /\ Goto(p, "check", "refused")
          /\ UNCHANGED seen
  /\ UNCHANGED <<lockVars, req, ctx, result, calls>>

(* Mutant: the request waits for the running sequence without cancelling it. *)
CancelRunningSkipped(p) ==
  /\ Goto(p, "cancel", "await")
  /\ UNCHANGED <<lockVars, req, seen, ctx, result, calls>>

(* cancelCtx() of the sequence that was running at the check. *)
CancelRunning(p) ==
  /\ Goto(p, "cancel", "await")
  /\ CancelContext(seen[p])
  /\ UNCHANGED <<runningCh, takeoverCh, runningPriority, cancelCtx, nctx,
                 req, seen, ctx, result, calls>>

(* Mutant: the token is looked at and not taken. *)
ReceiveTokenPeek(p) ==
  /\ Goto(p, "await", "install")
  /\ runningCh > 0
  /\ UNCHANGED <<lockVars, req, seen, ctx, result, calls>>

(* case <-lock.runningCh *)
ReceiveToken(p) ==
  /\ Goto(p, "await", "install")
  /\ runningCh > 0
  /\ runningCh' = runningCh - 1
  /\ UNCHANGED <<takeoverCh, runningPriority, cancelCtx, nctx, cancelled,
                 req, seen, ctx, result, calls>>

(* The running sequence did not stop in time: the request fails, although *)
(* the sequence it wanted to replace stays cancelled.                     *)
AwaitTimeout(p) ==
  /\ Goto(p, "await", "timedOut")
  /\ UNCHANGED <<lockVars, req, seen, ctx, result, calls>>

(* Mutant: the zero sequence no longer cancels the context it replaces. *)
SetRunningPriorityKeep(s, c) ==
  /\ UNCHANGED cancelled
  /\ runningPriority' = s
  /\ cancelCtx' = c

(* setRunningPriority(seq, c), one critical section of lock.mu. *)
SetRunningPriority(s, c) ==
  /\ IF s = Noop THEN CancelContext(cancelCtx) ELSE UNCHANGED cancelled
  /\ runningPriority' = s
  /\ cancelCtx' = c

(* context.WithCancel and setRunningPriority. *)
InstallPriority(p) ==
  /\ Goto(p, "install", "leave")
  /\ nctx' = nctx + 1
  /\ ctx' = [ctx EXCEPT ![p] = nctx + 1]
  /\ SetRunningPriority(req[p].seq, nctx + 1)
  /\ UNCHANGED <<runningCh, takeoverCh, req, seen, result, calls>>

(* Mutant: the release is not deferred, so the error returns miss it. *)
LeaveTakeoverLeak(p) ==
  /\ \/ /\ Goto(p, "leave", "running")
        /\ takeoverCh > 0
        /\ takeoverCh' = takeoverCh - 1
        /\ result' = [result EXCEPT ![p] = "granted"]
     \/ /\ Goto(p, "refused", "idle")
        /\ result' = [result EXCEPT ![p] = "errLocked"]
        /\ UNCHANGED takeoverCh
     \/ /\ Goto(p, "timedOut", "idle")
        /\ result' = [result EXCEPT ![p] = "timeout"]
        /\ UNCHANGED takeoverCh
  /\ UNCHANGED <<runningCh, runningPriority, cancelCtx, nctx, cancelled,
                 req, seen, ctx, calls>>

(* The deferred <-lock.takeoverCh, on each of the three ways out of Lock. *)
LeaveTakeover(p) ==
  /\ takeoverCh > 0
  /\ takeoverCh' = takeoverCh - 1
  /\ \/ /\ Goto(p, "leave", "running")
        /\ result' = [result EXCEPT ![p] = "granted"]
     \/ /\ Goto(p, "refused", "idle")
        /\ result' = [result EXCEPT ![p] = "errLocked"]
     \/ /\ Goto(p, "timedOut", "idle")
        /\ result' = [result EXCEPT ![p] = "timeout"]
  /\ UNCHANGED <<runningCh, runningPriority, cancelCtx, nctx, cancelled,
                 req, seen, ctx, calls>>

-----------------------------------------------------------------------------
(* The sequence ends, by itself or because its context was cancelled, and  *)
(* the deferred Unlock of Controller.Run begins.                           *)
SequenceEnds(p) ==
  /\ Goto(p, "running", "unlock")
  /\ UNCHANGED <<lockVars, req, seen, ctx, result, calls>>

(* Unlock: setRunningPriority(zeroSeq, nil) ... *)
ResetPriority(p) ==
  /\ Goto(p, "unlock", "handBack")
  /\ SetRunningPriority(Noop, NoCancel)
  /\ UNCHANGED <<runningCh, takeoverCh, nctx, req, seen, ctx, result, calls>>

(* ... and then lock.runningCh <- struct{}{}. *)
SendToken(p) ==
  /\ Goto(p, "handBack", "idle")
  /\ runningCh < 1
  /\ runningCh' = runningCh + 1
  /\ UNCHANGED <<takeoverCh, runningPriority, cancelCtx, nctx, cancelled,
                 req, seen, ctx, result, calls>>

LockStep(p) ==
  \/ EnterTakeover(p) \/ CheckPriority(p) \/ CancelRunning(p)
  \/ ReceiveToken(p) \/ InstallPriority(p) \/ LeaveTakeover(p)

TimerStep(p) == EnterTimeout(p) \/ AwaitTimeout(p)

UnlockStep(p) == ResetPriority(p) \/ SendToken(p)

(* The bound is reached and every call has returned. *)
Finished == (\A p \in Procs : pc[p] = "idle" /\ calls[p] = MaxCalls) /\ UNCHANGED vars

Next ==
  \/ \E p \in Procs :
       \/ \E r \in Requests : Call(p, r)
       \/ LockStep(p)
       \/ TimerStep(p)
       \/ SequenceEnds(p)
       \/ UnlockStep(p)
  \/ Finished

Spec == Init /\ [][Next]_vars

(* A cancelled sequence terminates: "Process should terminate as soon as   *)
(* the context is canceled".  One that is not cancelled may run for ever   *)
(* (Initialize waiting for a configuration), and no timer has to fire.     *)
EndsWhenCancelled(p) == ctx[p] \in cancelled /\ SequenceEnds(p)

(* Blocked senders on a Go channel are served in arrival order: strong     *)
(* fairness for the two channel operations that processes compete for.     *)
Fairness ==
  \A p \in Procs :
    /\ WF_vars(LockStep(p) \/ UnlockStep(p))
    /\ SF_vars(EnterTakeover(p))
    /\ WF_vars(EndsWhenCancelled(p))

FairSpec == Spec /\ Fairness

-----------------------------------------------------------------------------
(* Properties *)

(* No two processes are inside a sequence: from the moment Lock received   *)
(* the token until Unlock sent it back, a process is alone.                *)
OneSequence ==
  \A p, q \in Procs : pc[p] \in HasToken /\ pc[q] \in HasToken => p = q

(* Each channel's token is either in the channel or with exactly one       *)
(* process: no error return of Lock leaks the take-over token, no return   *)
(* of Controller.Run leaks the running token.                              *)
TokensConserved ==
  /\ takeoverCh = Cardinality({p \in Procs : pc[p] \in InTakeover})
  /\ runningCh = 1 - Cardinality({p \in Procs : pc[p] \in HasToken})

(* Every context the lock ever handed out is cancelled except the one of   *)
(* the sequence that holds it now, so a sequence is granted the lock only  *)
(* after everything started under earlier contexts was told to stop.       *)
OneLiveContext ==
  \A c \in 1..nctx :
    c \notin cancelled => \E p \in Procs : pc[p] \in HasToken /\ ctx[p] = c

(* What a contender reads is the sequence that is really running: the      *)
(* priority and the cancel function belong to the current holder.          *)
PriorityIsCurrent ==
  \A p \in Procs :
    pc[p] \in {"leave", "running", "unlock"} =>
      runningPriority = req[p].seq /\ cancelCtx = ctx[p]

(* A running sequence loses its context only to a request that may take it *)
(* over: by the table of CanTakeOver, or one made with WithTakeover.       *)
CancelledByRight ==
  [][\A p \in Procs :
       pc[p] = "running" /\ ctx[p] \notin cancelled /\ ctx[p] \in cancelled' =>
         \E q \in Procs \ {p} : pc[q] = "cancel" /\ MayRun(req[q], req[p].seq)]_vars

(* The holder in the eyes of a contender, from setRunningPriority(seq,     *)
(* cancel) to setRunningPriority(zeroSeq, nil).                            *)
Holder == {p \in Procs : pc[p] \in {"leave", "running", "unlock"}}
Held == IF Holder = {} THEN NoRequest ELSE req[CHOOSE p \in Procs : p \in Holder]
Revoked == Holder # {} /\ cancelCtx \in cancelled

(* The requests under way: from the call of Lock until the lock is theirs,  *)
(* or until it is decided that they fail.                                   *)
Waiting ==
  [p \in Procs |-> IF pc[p] \in {"takeover", "check", "cancel", "await", "install"}
                   THEN req[p] ELSE NoRequest]

Abstract ==
  INSTANCE SequenceLockSpec
    WITH holder <- Holder, held <- Held, revoked <- Revoked, requests <- Waiting

(* The lock implements SequenceLockSpec: one process holds it at a time, it *)
(* goes to a request that is under way and only when free, and the running  *)
(* sequence is cancelled only by a request that is under way at that moment *)
(* and may interrupt this sequence, although the test of the priority, the  *)
(* call of the cancel function and the change of holder are separate steps. *)
ImplementsSequenceLock == Abstract!LockSpec

(* A request made with WithTakeover runs, unless its own timer fires:      *)
(* nothing in the lock itself keeps a shutdown or forced reboot waiting.   *)
TakeoverSucceeds ==
  \A p \in Procs :
    (pc[p] = "takeover" /\ req[p].takeover) ~> (pc[p] = "running" \/ result[p] = "timeout")

=============================================================================
