---------------------------- MODULE MachineMain -----------------------------
(***************************************************************************)
(* The life of machined between runEntrypoint and the reboot system call:  *)
(* main.go (runEntrypoint, handle) with Controller.Run of                  *)
(* v1alpha1_controller.go for main's own sequences and for those that API  *)
(* handlers and the SIGTERM/ACPI listener ask for, the events they         *)
(* publish, the watch that turns events into main's error, and the         *)
(* controller runtime's goroutine.                                         *)
(*                                                                         *)
(* The lock is SequenceLock, which PriorityLock implements.  A sequence is *)
(* abstracted to how it ends; those that reboot the machine publish a      *)
(* RestartEvent first.  Each caller makes one request.  Of the services    *)
(* the model keeps what their Shutdown depends on: which are loaded and    *)
(* not started, for which it waits without end, and whether Shutdown has   *)
(* been called, after which it returns at once and nothing is loaded or    *)
(* started any more (ServiceManager has the whole of it).                  *)
(***************************************************************************)
EXTENDS SequenceLock, Sequences, Naturals

CONSTANTS
  Main,            \* the goroutine of main, a member of Procs
  Listener,        \* the goroutine of ListenForEvents, another
  Asks             \* Asks[p]: the requests caller p may make

Callers == Procs \ {Main}

ASSUME MainAssumption ==
  /\ Main \in Procs /\ Listener \in Procs \ {Main}
  /\ Asks \in [Callers -> SUBSET [seq : Sequences, takeover : BOOLEAN]]

VARIABLES
  pc,        \* where each process is in Controller.Run
  req,       \* its request
  result,    \* what its last Controller.Run returned
  events,    \* the events published so far that main's watch looks at
  main,      \* where runEntrypoint is
  err,       \* the error it returns to handle
  watching,  \* the watch is registered
  missed,    \* events published before it was
  watched,   \* events it has gone through or was registered too late for
  watchOut,  \* the error the watch is blocked on sending, "none" without
  ctl,       \* the goroutine of the controller runtime
  reverted,  \* handle has called revertBootloader
  unstarted, \* the services that are loaded and not started: machined, others
  stopping,  \* the services' Shutdown has been called
  failed     \* history: a sequence or the controller runtime really failed

runVars == <<lockState, pc, req, result>>
mainVars == <<main, err, reverted>>
watchVars == <<watching, missed, watched, watchOut>>
svcVars == <<unstarted, stopping>>
vars == <<runVars, events, mainVars, watchVars, svcVars, ctl, failed>>

-----------------------------------------------------------------------------
RunResults == {"none", "ok", "canceled", "locked", "timeout", "error", "reboot"}

(* machined is loaded before the first sequence; all others are alike. *)
Loadable == {"machined", "other"}

TypeOK ==
  /\ holder \subseteq Procs /\ held \in AnyRequest /\ revoked \in BOOLEAN
  /\ pc \in [Procs -> {"idle", "lock", "await", "sequence", "restart", "unlock", "returned"}]
  /\ req \in [Procs -> AnyRequest]
  /\ result \in [Procs -> RunResults]
  /\ events \in Seq({"locked", "canceled", "fatal", "restart"})
  /\ main \in {"initialize", "install", "boot", "watch", "select", "shutdown", "cancel", "wait",
               "handle", "reboot", "hung"}
  /\ err \in RunResults \union {"fatal"}
  /\ watched \in 0..Len(events) /\ missed \in 0..watched
  /\ watchOut \in {"none", "fatal", "reboot"}
  /\ ctl \in {"running", "sending", "done"}
  /\ unstarted \subseteq Loadable
  /\ {watching, reverted, failed, stopping} \subseteq BOOLEAN

Init ==
  /\ LockInit
  /\ pc = [p \in Procs |-> "idle"]
  /\ req = [p \in Procs |-> NoRequest]
  /\ result = [p \in Procs |-> "none"]
  /\ events = <<>>
  /\ main = "initialize"
  /\ err = "none"
  /\ watching = FALSE
  /\ missed = 0
  /\ watched = 0
  /\ watchOut = "none"
  /\ ctl = "running"
  /\ reverted = FALSE
  /\ unstarted = {"machined"}
  /\ stopping = FALSE
  /\ failed = FALSE

(* Nothing moves once the kernel has been told to reboot. *)
Up == main # "reboot"

Goto(p, from, to) == Up /\ pc[p] \in from /\ pc' = [pc EXCEPT ![p] = to]

Publish(e) == events' = Append(events, e)

-----------------------------------------------------------------------------
(* Controller.Run *)

Call(p, r) ==
  /\ Goto(p, {"idle"}, "lock")
  /\ req' = [req EXCEPT ![p] = r]
  /\ UNCHANGED <<lockState, result>>

(* The API is served from within the Initialize sequence on. *)
ApiServed == main # "initialize" \/ pc[Main] \in {"sequence", "unlock", "returned"}

(* A caller asks for a sequence. *)
Ask(p) ==
  /\ \E r \in Asks[p] : Call(p, r)
  /\ p # Listener => ApiServed
  /\ UNCHANGED <<events, mainVars, watchVars, svcVars, ctl, failed>>

(* The take-over section of Lock is taken. *)
Contended == \E q \in Procs : pc[q] = "await"

(* ErrLocked. *)
LockRefused(p) ==
  /\ Goto(p, {"lock"}, "returned")
  /\ ~Contended /\ ~Free /\ ~MayRun(req[p], held.seq)
  /\ result' = [result EXCEPT ![p] = "locked"]
  /\ Publish("locked")
  /\ UNCHANGED <<lockState, req, mainVars, watchVars, svcVars, ctl, failed>>

(* The request cancels the running sequence and waits for it. *)
LockTakesOver(p) ==
  /\ Goto(p, {"lock"}, "await")
  /\ ~Contended
  /\ Revoke(req[p])
  /\ UNCHANGED <<req, result, events, mainVars, watchVars, svcVars, ctl, failed>>

LockGranted(p) ==
  /\ Goto(p, {"lock", "await"}, "sequence")
  /\ pc[p] = "lock" => ~Contended
  /\ Grant(p, req[p])
  /\ UNCHANGED <<req, result, events, mainVars, watchVars, svcVars, ctl, failed>>

(* The timer of Lock: nothing is published. *)
LockTimeout(p) ==
  /\ Goto(p, {"lock", "await"}, "returned")
  /\ Contended
  /\ result' = [result EXCEPT ![p] = "timeout"]
  /\ UNCHANGED <<lockState, req, events, mainVars, watchVars, svcVars, ctl, failed>>

(* Initialize starts machined in one of its first phases; what comes after *)
(* needs it.                                                               *)
PastMachined(r) == r.seq = "initialize" => "machined" \notin unstarted

(* The last phase of these sequences is Reboot or Shutdown, and Initialize *)
(* reboots when it was told to wipe partitions; Install has phases only    *)
(* when the machine is not installed, or not yet upgraded.                 *)
Restarts(r) == r.seq # "boot" /\ PastMachined(r)

MayFinish(r) == r.seq \in {"initialize", "install", "boot"} /\ PastMachined(r)

(* StartMachined, a task of Initialize. *)
MachinedStarts ==
  /\ main = "initialize" /\ pc[Main] = "sequence"
  /\ ~stopping
  /\ "machined" \in unstarted
  /\ unstarted' = unstarted \ {"machined"}
  /\ UNCHANGED <<runVars, events, mainVars, watchVars, stopping, ctl, failed>>

(* A controller, main or a task loads a service ... *)
ServiceLoads ==
  /\ Up
  /\ ~stopping
  /\ unstarted' = unstarted \union {"other"}
  /\ UNCHANGED <<runVars, events, mainVars, watchVars, stopping, ctl, failed>>

(* ... and starts it, in a critical section of its own. *)
ServiceStarts ==
  /\ Up
  /\ ~stopping
  /\ "other" \in unstarted
  /\ unstarted' = unstarted \ {"other"}
  /\ UNCHANGED <<runVars, events, mainVars, watchVars, stopping, ctl, failed>>

(* The task StopAllServices of a sequence calls Shutdown. *)
SequenceStops(p) ==
  /\ Up
  /\ pc[p] = "sequence" /\ req[p].seq \notin {"initialize", "boot"}
  /\ ~stopping
  /\ stopping' = TRUE
  /\ UNCHANGED <<runVars, events, mainVars, watchVars, unstarted, ctl, failed>>

SequenceDone(p) ==
  /\ Goto(p, {"sequence"}, "unlock")
  /\ MayFinish(req[p])
  /\ result' = [result EXCEPT ![p] = "ok"]
  /\ UNCHANGED <<lockState, req, events, mainVars, watchVars, svcVars, ctl, failed>>

SequenceCanceled(p) ==
  /\ Goto(p, {"sequence"}, "unlock")
  /\ revoked
  /\ result' = [result EXCEPT ![p] = "canceled"]
  /\ Publish("canceled")
  /\ UNCHANGED <<lockState, req, mainVars, watchVars, svcVars, ctl, failed>>

SequenceFails(p) ==
  /\ Goto(p, {"sequence"}, "unlock")
  /\ result' = [result EXCEPT ![p] = "error"]
  /\ Publish("fatal")
  /\ failed' = TRUE
  /\ UNCHANGED <<lockState, req, mainVars, watchVars, svcVars, ctl>>

(* The task Reboot or Shutdown publishes the RestartEvent, after            *)
(* StopAllServices except in Initialize and in a forced reboot, ...        *)
SequenceRestarts(p) ==
  /\ Goto(p, {"sequence"}, "restart")
  /\ Restarts(req[p])
  /\ req[p].seq \notin {"initialize", "reboot"} => stopping
  /\ Publish("restart")
  /\ UNCHANGED <<lockState, req, result, mainVars, watchVars, svcVars, ctl, failed>>

(* ... and returns a RebootError, which Controller.Run publishes like any  *)
(* other error, with the code FATAL.                                       *)
SequenceReboots(p) ==
  /\ Goto(p, {"restart"}, "unlock")
  /\ result' = [result EXCEPT ![p] = "reboot"]
  /\ Publish("fatal")
  /\ UNCHANGED <<lockState, req, mainVars, watchVars, svcVars, ctl, failed>>

(* The deferred Unlock. *)
Unlock(p) ==
  /\ Goto(p, {"unlock"}, "returned")
  /\ Release
  /\ UNCHANGED <<req, result, events, mainVars, watchVars, svcVars, ctl, failed>>

RunStep(p) ==
  \/ LockRefused(p) \/ LockTakesOver(p) \/ LockGranted(p)
  \/ SequenceCanceled(p) \/ SequenceRestarts(p) \/ SequenceReboots(p) \/ Unlock(p)

-----------------------------------------------------------------------------
(* runEntrypoint *)

(* main calls Controller.Run for the sequence it has come to. *)
MainCalls ==
  /\ main \in {"initialize", "install", "boot"}
  /\ Call(Main, Request(main, FALSE))
  /\ UNCHANGED <<events, mainVars, watchVars, svcVars, ctl, failed>>

(* What each result of the three sequences leads to; "shutdown" is the     *)
(* first deferred call of a return.                                        *)
AfterRun(at, res) ==
  CASE at = "initialize" /\ res = "ok"                -> "install"
    [] at = "initialize" /\ res = "canceled"          -> "watch"
    [] at = "install"    /\ res = "ok"                -> "boot"
    [] at = "boot"       /\ res \in {"ok", "canceled"} -> "watch"
    [] OTHER                                          -> "shutdown"

MainGoesOn ==
  /\ main \in {"initialize", "install", "boot"}
  /\ Goto(Main, {"returned"}, "idle")
  /\ main' = AfterRun(main, result[Main])
  /\ err' = IF main' = "shutdown" THEN result[Main] ELSE err
  /\ UNCHANGED <<lockState, req, result, events, reverted, watchVars, svcVars, ctl, failed>>

(* Events().Watch: only events published from now on. *)
MainWatches ==
  /\ main = "watch"
  /\ watching' = TRUE
  /\ missed' = Len(events)
  /\ watched' = Len(events)
  /\ main' = "select"
  /\ UNCHANGED <<runVars, events, err, reverted, watchOut, svcVars, ctl, failed>>

(* Mutant: the watch looks at the error of every sequence event. *)
WatchErrorAll(e) ==
  CASE e = "restart" -> "reboot"
    [] OTHER         -> "fatal"

(* The error an event stands for: lock and cancel errors are ignored. *)
WatchError(e) ==
  CASE e = "restart"               -> "reboot"
    [] e = "fatal"                 -> "fatal"
    [] e \in {"locked", "canceled"} -> "none"

(* Mutant: the watch function returns after an error it ignores. *)
WatchEventStops ==
  /\ Up
  /\ watching /\ watchOut = "none"
  /\ watched < Len(events)
  /\ \A i \in 1..watched : WatchError(events[i]) # "none"
  /\ watched' = watched + 1
  /\ watchOut' = WatchError(events[watched + 1])
  /\ UNCHANGED <<runVars, events, mainVars, watching, missed, svcVars, ctl, failed>>

(* The watch function takes the next event, unless it is still sending. *)
WatchEvent ==
  /\ Up
  /\ watching /\ watchOut = "none"
  /\ watched < Len(events)
  /\ watched' = watched + 1
  /\ watchOut' = WatchError(events[watched + 1])
  /\ UNCHANGED <<runVars, events, mainVars, watching, missed, svcVars, ctl, failed>>

(* The controller runtime fails: its goroutine sends on errCh. *)
RuntimeFails ==
  /\ Up
  /\ ctl = "running"
  /\ ctl' = "sending"
  /\ failed' = TRUE
  /\ UNCHANGED <<runVars, events, mainVars, watchVars, svcVars>>

(* return <-errCh, from whichever of the two is sending. *)
MainReceives ==
  /\ main = "select"
  /\ main' = "shutdown"
  /\ \/ /\ watchOut # "none"
        /\ err' = watchOut
        /\ watchOut' = "none"
        /\ UNCHANGED ctl
     \/ /\ ctl = "sending"
        /\ err' = "fatal"
        /\ ctl' = "done"
        /\ UNCHANGED watchOut
  /\ UNCHANGED <<runVars, events, reverted, watching, missed, watched, svcVars, failed>>

(* The deferred calls: the services' Shutdown, which returns at once when  *)
(* it was called before and otherwise once every loaded service is down,   *)
(* ...                                                                     *)
MainShutsDown ==
  /\ main = "shutdown"
  /\ stopping \/ unstarted = {}
  /\ stopping' = TRUE
  /\ main' = "cancel"
  /\ UNCHANGED <<runVars, events, err, reverted, watchVars, unstarted, ctl, failed>>

(* ... so for ever when one of them was never started: Start is refused    *)
(* from now on and the context of the call is never cancelled, ...         *)
MainHangs ==
  /\ main = "shutdown"
  /\ ~stopping /\ unstarted # {}
  /\ stopping' = TRUE
  /\ main' = "hung"
  /\ UNCHANGED <<runVars, events, err, reverted, watchVars, unstarted, ctl, failed>>

(* ... the drainer, for ten seconds at most, and cancel(), ... *)
MainCancels ==
  /\ main = "cancel"
  /\ main' = "wait"
  /\ UNCHANGED <<runVars, events, err, reverted, watchVars, svcVars, ctl, failed>>

(* Mutant: the context is only cancelled after the wait. *)
RuntimeEndsLate ==
  /\ Up
  /\ main = "handle"
  /\ ctl = "running"
  /\ ctl' = "done"
  /\ UNCHANGED <<runVars, events, mainVars, watchVars, svcVars, failed>>

(* ... after which the controller runtime ends, if it has not failed, ... *)
RuntimeEnds ==
  /\ Up
  /\ main \in {"wait", "handle"}
  /\ ctl = "running"
  /\ ctl' = "done"
  /\ UNCHANGED <<runVars, events, mainVars, watchVars, svcVars, failed>>

(* Mutant: nobody waits for the controller runtime. *)
MainWaitsNot ==
  /\ main = "wait"
  /\ main' = "handle"
  /\ UNCHANGED <<runVars, events, err, reverted, watchVars, svcVars, ctl, failed>>

(* ... and controllerWaitGroup.Wait. *)
MainWaits ==
  /\ main = "wait"
  /\ ctl = "done"
  /\ main' = "handle"
  /\ UNCHANGED <<runVars, events, err, reverted, watchVars, svcVars, ctl, failed>>

(* handle: anything but a RebootError reverts the boot loader. *)
Handle ==
  /\ main = "handle"
  /\ main' = "reboot"
  /\ reverted' = (err # "reboot")
  /\ UNCHANGED <<runVars, events, err, watchVars, svcVars, ctl, failed>>

MainStep ==
  \/ MainCalls \/ MainGoesOn \/ MainWatches \/ MainReceives
  \/ MainShutsDown \/ MainHangs \/ MainCancels \/ MainWaits \/ Handle

ServiceStep ==
  \/ MachinedStarts \/ ServiceLoads \/ ServiceStarts
  \/ \E p \in Procs : SequenceStops(p)

Rebooted == ~Up /\ UNCHANGED vars

Next ==
  \/ \E p \in Callers : Ask(p)
  \/ \E p \in Procs : RunStep(p) \/ LockTimeout(p) \/ SequenceDone(p) \/ SequenceFails(p)
  \/ MainStep
  \/ ServiceStep
  \/ WatchEvent \/ RuntimeFails \/ RuntimeEnds
  \/ Rebooted

Spec == Init /\ [][Next]_vars

(* main, the watch and the controller runtime are goroutines that proceed  *)
(* when they can.  Nothing is asked of the sequences, which may run for    *)
(* ever, of the timers, or of those who start services.                    *)
Fairness == WF_vars(MainStep) /\ WF_vars(WatchEvent) /\ WF_vars(RuntimeEnds)

FairSpec == Spec /\ Fairness

-----------------------------------------------------------------------------
(* The use main and the callers make of the lock, as SequenceLockSpec has   *)
(* it: whoever is in Lock waits with its request.                          *)
Waiting == [p \in Procs |-> IF pc[p] \in {"lock", "await"} THEN req[p] ELSE NoRequest]

TheLock == INSTANCE SequenceLockSpec WITH requests <- Waiting

-----------------------------------------------------------------------------
(* Properties *)

(* Once main watches for events, the boot loader is reverted only when a   *)
(* sequence or the controller runtime has failed, never because of         *)
(* requests that found the lock taken, were cancelled, or asked for the    *)
(* reboot, unless it was too late for the RestartEvent of the latter.      *)
WatchRevertsOnlyFailures ==
  (reverted /\ watching /\ ~\E i \in 1..missed : events[i] = "restart") => failed

(* The goroutine of the controller runtime is blocked on errCh: when main  *)
(* no longer receives, nothing ends it.                                    *)
RuntimeBlocked == ctl = "sending"

(* main is in the services' Shutdown (main.go:224) and waits without end   *)
(* (system.go:382) for a service that was loaded and not started when it   *)
(* was called.                                                             *)
ShutdownBlocked == main = "hung" /\ unstarted # {}

(* A RestartEvent or a failure published once main watches reboots the     *)
(* machine, however many requests, refusals and cancellations surround it, *)
(* unless the controller runtime has failed as well, or Shutdown found a   *)
(* service loaded and not started: a controller between its Load and its   *)
(* Start, or machined when Initialize was cancelled before it started it.  *)
EventIsHandled ==
  (watching /\ \E i \in (watched + 1)..Len(events) : events[i] \in {"restart", "fatal"})
    ~> (main = "reboot" \/ RuntimeBlocked \/ ShutdownBlocked)

(* Whatever made runEntrypoint return, the deferred calls end and the      *)
(* machine reboots, unless the controller runtime fails on the way or      *)
(* Shutdown finds a service loaded and not started.  machined is one until *)
(* Initialize starts it: an Initialize that fails in its first phase ends  *)
(* there, and the machine is not rebooted.  When a sequence has called     *)
(* Shutdown before, nothing that is loaded can keep main from the reboot.  *)
ReturnReboots ==
  /\ (main = "shutdown") ~> (main = "reboot" \/ RuntimeBlocked \/ ShutdownBlocked)
  /\ (main = "shutdown" /\ stopping) ~> (main = "reboot" \/ RuntimeBlocked)

(* The machine is not rebooted under running controllers: the deferred     *)
(* calls of runEntrypoint end in their order, whatever fails meanwhile     *)
(* (and the state keeps its types).                                        *)
ControllersEndFirst == TypeOK /\ (main \in {"handle", "reboot"} => ctl = "done")

=============================================================================
