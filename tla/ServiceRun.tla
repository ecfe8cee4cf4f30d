----------------------------- MODULE ServiceRun -----------------------------
(***************************************************************************)
(* One execution of ServiceRunner.run (service_runner.go): the runner's    *)
(* own goroutine, the restarter around it (runner/restart), the process or *)
(* goroutine runner it wraps (runner/process, runner/goroutine), the       *)
(* health check with its subscriber (health/), and a dependent service     *)
(* subscribed to the "up" event.                                           *)
(*                                                                         *)
(* Every receive from an unbuffered error channel is one step of both      *)
(* sides.  What the process does, when it exits and what a health check    *)
(* answers is left open.                                                   *)
(***************************************************************************)
EXTENDS Naturals

CONSTANT
  Runners   \* how services are run: the runner at the bottom, the type of the
            \* restarter around it ("none" without one), health checked or not

ASSUME RunnersAssumption ==
  Runners \subseteq [kind : {"process", "goroutine"},
                     restart : {"none", "Once", "UntilSuccess", "Forever"},
                     health : BOOLEAN]

VARIABLES
  svc,         \* the member of Runners this execution is about
  ctxDone,     \* the context of Run is cancelled
  main,        \* where run is
  restarter,   \* where the restarter's Run is
  rstop,       \* the restarter's channel stop is closed
  inner,       \* where the wrapped runner's Run is
  outcome,     \* what it is about to return: "ok" or "err"
  bstop,       \* its stop channel is closed / its context is cancelled
  bstopped,    \* process: the channel stopped is closed
  wg,          \* goroutine: calls of Run in progress
  abandoned,   \* goroutine: Run gave up on a main that ignores its context
  state,       \* svcrunner.state
  health,      \* svcrunner.healthState: "nil", "healthy" or "unhealthy"
  checker,     \* where health.Run is
  changes,     \* state changes queued in notifyCh, capacity 2
  consumer,    \* the goroutine reading notifyCh is running
  dependent    \* the dependent service: "absent", "subscribed", "notified"

mainVars == <<svc, ctxDone, main>>
restartVars == <<restarter, rstop>>
innerVars == <<inner, outcome, bstop, bstopped, wg, abandoned>>
healthVars == <<health, checker, changes, consumer>>
vars == <<mainVars, restartVars, innerVars, state, healthVars, dependent>>

-----------------------------------------------------------------------------
Kind == svc.kind
Restart == svc.restart
HealthChecked == svc.health   \* the service implements HealthcheckedService

MainPCs == {"select", "stop", "stopping", "drain", "health", "returned"}
RestarterPCs == {"off", "select", "stop", "stopping", "drain", "clean", "cleaning",
                 "decide", "backoff", "offer", "gone"}
InnerPCs == {"idle", "spawned", "active", "stopping", "offer"}

NotifyCapacity == 2

HealthStates == {"nil", "healthy", "unhealthy"}

TypeOK ==
  /\ {ctxDone, rstop, bstop, bstopped, abandoned, consumer} \subseteq BOOLEAN
  /\ svc \in Runners
  /\ main \in MainPCs
  /\ restarter \in RestarterPCs
  /\ inner \in InnerPCs
  /\ outcome \in {"ok", "err"}
  /\ wg \in 0..1
  /\ state \in {"preparing", "running", "waiting", "stopping"}
  /\ health \in HealthStates
  /\ checker \in {"off", "init", "check", "done"}
  /\ changes \in 0..NotifyCapacity
  /\ dependent \in {"absent", "subscribed", "notified"}

(* run has opened the runner, started its Run and, when the service is     *)
(* health checked, the checker and the consumer of its state changes; the  *)
(* health status is still the one an earlier run has left.                 *)
Init ==
  /\ svc \in Runners
  /\ ctxDone \in BOOLEAN
  /\ main = "select"
  /\ restarter = IF Restart = "none" THEN "off" ELSE "select"
  /\ rstop = FALSE
  /\ inner = "spawned"
  /\ outcome = "ok"
  /\ bstop = FALSE
  /\ bstopped = FALSE
  /\ wg = 0
  /\ abandoned = FALSE
  /\ state = "preparing"
  /\ health \in IF HealthChecked THEN HealthStates ELSE {"nil"}
  /\ checker = IF HealthChecked THEN "init" ELSE "off"
  /\ changes = 0
  /\ consumer = HealthChecked
  /\ dependent = "absent"

-----------------------------------------------------------------------------
(* State, health and the "up" event *)

IsUp(st, h) == st = "running" /\ (~HealthChecked \/ h = "healthy")

Notify(up) == dependent' = IF up /\ dependent = "subscribed" THEN "notified" ELSE dependent

(* notifyCh is subscribed until run returns. *)
Subscribed == HealthChecked /\ main \in {"select", "stop", "stopping", "drain"}

(* health.State.Update: a change is queued for the subscriber, or dropped  *)
(* when the queue is full.                                                 *)
UpdateHealth(h) ==
  /\ health' = h
  /\ changes' = IF h # health /\ Subscribed /\ changes < NotifyCapacity
                THEN changes + 1 ELSE changes

(* The recorder run passes to the runner: UpdateState, and for a health    *)
(* checked service that is not running, an unhealthy status.               *)
EventSink(st) ==
  /\ state' = st
  /\ IF HealthChecked /\ st # "running"
     THEN UpdateHealth("unhealthy") ELSE UNCHANGED <<health, changes>>
  /\ Notify(IsUp(st, health))
  /\ UNCHANGED <<checker, consumer>>

(* The dependent's condition: satisfied at once or subscribed. *)
SubscribeUp ==
  /\ dependent = "absent"
  /\ dependent' = IF IsUp(state, health) THEN "notified" ELSE "subscribed"
  /\ UNCHANGED <<mainVars, restartVars, innerVars, state, healthVars>>

HealthInit ==
  /\ checker = "init"
  /\ checker' = "check"
  /\ health' = "nil"
  /\ UNCHANGED <<mainVars, restartVars, innerVars, state, changes, consumer, dependent>>

(* One check.  Its result may be that of a process that is gone by now. *)
HealthCheck ==
  /\ checker = "check"
  /\ \E h \in {"healthy", "unhealthy"} : UpdateHealth(h)
  /\ UNCHANGED <<mainVars, restartVars, innerVars, state, checker, consumer, dependent>>

HealthDone ==
  /\ checker = "check"
  /\ ctxDone
  /\ checker' = "done"
  /\ UNCHANGED <<mainVars, restartVars, innerVars, state, health, changes, consumer, dependent>>

(* Mutant: the health update only reports the change and wakes nobody. *)
HealthUpdateSilent ==
  /\ consumer
  /\ changes > 0
  /\ changes' = changes - 1
  /\ UNCHANGED <<mainVars, restartVars, innerVars, state, health, checker, consumer, dependent>>

(* healthUpdate on the next queued change: suppressed unless running. *)
HealthUpdate ==
  /\ consumer
  /\ changes > 0
  /\ changes' = changes - 1
  /\ Notify(IsUp(state, health))
  /\ UNCHANGED <<mainVars, restartVars, innerVars, state, health, checker, consumer>>

ConsumerDone ==
  /\ consumer
  /\ ctxDone
  /\ consumer' = FALSE
  /\ UNCHANGED <<mainVars, restartVars, innerVars, state, health, checker, changes, dependent>>

-----------------------------------------------------------------------------
(* The process or goroutine runner *)

(* Run begins: wg.Add for a goroutine; the process is launched. *)
InnerStarts ==
  /\ inner = "spawned"
  /\ inner' = "active"
  /\ wg' = IF Kind = "goroutine" THEN 1 ELSE 0
  /\ EventSink("running")
  /\ UNCHANGED <<mainVars, restartVars, outcome, bstop, bstopped, abandoned>>

(* Run ends: deferred close of stopped, or wg.Done; the result is offered. *)
InnerReturns(result) ==
  /\ inner' = "offer"
  /\ outcome' = result
  /\ wg' = 0
  /\ bstopped' = (Kind = "process")
  /\ UNCHANGED bstop

(* The launch of the process fails. *)
InnerLaunchFails ==
  /\ inner = "spawned" /\ Kind = "process"
  /\ InnerReturns("err")
  /\ UNCHANGED <<abandoned, mainVars, restartVars, state, healthVars, dependent>>

(* The service ends by itself. *)
InnerExits ==
  /\ inner = "active"
  /\ \E result \in {"ok", "err"} : InnerReturns(result)
  /\ UNCHANGED <<abandoned, mainVars, restartVars, state, healthVars, dependent>>

(* It notices the closed channel or the cancelled context ... *)
InnerStopping ==
  /\ inner = "active"
  /\ bstop
  /\ inner' = "stopping"
  /\ EventSink("stopping")
  /\ UNCHANGED <<mainVars, restartVars, outcome, bstop, bstopped, wg, abandoned>>

(* ... and terminates: a process by SIGKILL if need be, while a goroutine  *)
(* that does not return in time is left to itself (ErrAborted).            *)
InnerStopped ==
  /\ inner = "stopping"
  /\ \/ InnerReturns("ok") /\ UNCHANGED abandoned
     \/ Kind = "goroutine" /\ InnerReturns("err") /\ abandoned' = TRUE
  /\ UNCHANGED <<mainVars, restartVars, state, healthVars, dependent>>

(* Stop of the wrapped runner: close the channel, cancel the context ... *)
BeginStop == bstop' = TRUE /\ UNCHANGED <<inner, outcome, bstopped, wg, abandoned>>

(* ... wait until Run has ended, and renew channels or context for another *)
(* Run.  The process runner waits for its channel stopped, the goroutine   *)
(* runner for a wait group that is also zero before Run has begun.         *)
EndStop ==
  /\ IF Kind = "process" THEN bstopped ELSE wg = 0
  /\ bstop' = FALSE
  /\ bstopped' = FALSE
  /\ UNCHANGED <<inner, outcome, wg, abandoned>>

(* The result of Run is received: <-errCh. *)
TakeResult ==
  /\ inner = "offer"
  /\ inner' = "idle"
  /\ UNCHANGED <<outcome, bstop, bstopped, wg, abandoned>>

-----------------------------------------------------------------------------
(* restarter.Run *)

RestarterAt(from, to) == restarter = from /\ restarter' = to

(* case <-r.stop: stop the wrapped runner and return its result. *)
RestarterStops ==
  \/ /\ RestarterAt("select", "stop")
     /\ rstop
     /\ UNCHANGED <<innerVars, state, healthVars, dependent>>
  \/ /\ RestarterAt("stop", "stopping")
     /\ BeginStop
     /\ UNCHANGED <<state, healthVars, dependent>>
  \/ /\ RestarterAt("stopping", "drain")
     /\ EndStop
     /\ UNCHANGED <<state, healthVars, dependent>>
  \/ /\ RestarterAt("drain", "offer")
     /\ TakeResult
     /\ UNCHANGED <<state, healthVars, dependent>>

(* case err = <-errCh: clean the wrapped runner up with Stop, then decide. *)
RestarterCleans ==
  \/ /\ RestarterAt("select", "clean")
     /\ TakeResult
     /\ UNCHANGED <<state, healthVars, dependent>>
  \/ /\ RestarterAt("clean", "cleaning")
     /\ BeginStop
     /\ UNCHANGED <<state, healthVars, dependent>>
  \/ /\ RestarterAt("cleaning", "decide")
     /\ EndStop
     /\ UNCHANGED <<state, healthVars, dependent>>

RestarterReturnsNow == Restart = "Once" \/ (Restart = "UntilSuccess" /\ outcome = "ok")

RestarterDecides ==
  \/ /\ RestarterAt("decide", "offer")
     /\ RestarterReturnsNow
     /\ UNCHANGED <<innerVars, state, healthVars, dependent>>
  \/ /\ RestarterAt("decide", "backoff")
     /\ ~RestarterReturnsNow
     /\ EventSink("waiting")
     /\ UNCHANGED innerVars

(* Mutant: the pause before a restart does not look at the stop channel. *)
RestarterBacksOffDeaf ==
  /\ RestarterAt("backoff", "select")
  /\ inner' = "spawned"
  /\ UNCHANGED <<outcome, bstop, bstopped, wg, abandoned, state, healthVars, dependent>>

(* The pause before a restart: the timer is not due when the pause begins,  *)
(* so a closed stop channel always wins.                                    *)
RestarterBacksOff ==
  \/ /\ RestarterAt("backoff", "offer")
     /\ rstop
     /\ EventSink("stopping")
     /\ UNCHANGED innerVars
  \/ /\ RestarterAt("backoff", "select")
     /\ ~rstop
     /\ inner' = "spawned"
     /\ UNCHANGED <<outcome, bstop, bstopped, wg, abandoned, state, healthVars, dependent>>

RestarterStep ==
  /\ RestarterStops \/ RestarterCleans \/ RestarterDecides \/ RestarterBacksOff
  /\ UNCHANGED <<mainVars, rstop>>

-----------------------------------------------------------------------------
(* ServiceRunner.run *)

MainAt(from, to) == main = from /\ main' = to

(* A token arrives in stopCh. *)
StopRequested ==
  /\ ~ctxDone
  /\ ctxDone' = TRUE
  /\ UNCHANGED <<svc, main, restartVars, innerVars, state, healthVars, dependent>>

MainSeesCancel ==
  /\ MainAt("select", "stop")
  /\ ctxDone
  /\ UNCHANGED <<svc, ctxDone, restartVars, innerVars, state, healthVars, dependent>>

(* runnr.Stop(): the restarter's closes stop and waits for its Run. *)
MainStops ==
  \/ /\ MainAt("stop", "stopping")
     /\ IF Restart = "none"
        THEN BeginStop /\ UNCHANGED rstop
        ELSE rstop' = TRUE /\ UNCHANGED innerVars
     /\ UNCHANGED <<svc, ctxDone, restarter, state, healthVars, dependent>>
  \/ /\ MainAt("stopping", "drain")
     /\ IF Restart = "none"
        THEN EndStop
        ELSE restarter = "offer" /\ UNCHANGED innerVars
     /\ UNCHANGED <<svc, ctxDone, restartVars, state, healthVars, dependent>>

(* Mutant: run does not wait for the result of a runner it has stopped. *)
MainReceivesNot ==
  /\ main \in {"select", "drain"}
  /\ main' = "health"
  /\ main = "select" => inner = "offer" \/ restarter = "offer"
  /\ UNCHANGED <<svc, ctxDone, restartVars, innerVars, state, healthVars, dependent>>

(* Mutant: the result is only received after a stop. *)
MainReceivesLate ==
  /\ MainAt("drain", "health")
  /\ IF Restart = "none"
     THEN TakeResult /\ UNCHANGED restarter
     ELSE RestarterAt("offer", "gone") /\ UNCHANGED innerVars
  /\ UNCHANGED <<svc, ctxDone, rstop, state, healthVars, dependent>>

(* <-errCh, in the select or after runnr.Stop; run unsubscribes notifyCh. *)
MainReceives ==
  /\ main \in {"select", "drain"}
  /\ main' = "health"
  /\ IF Restart = "none"
     THEN TakeResult /\ UNCHANGED restarter
     ELSE RestarterAt("offer", "gone") /\ UNCHANGED innerVars
  /\ UNCHANGED <<svc, ctxDone, rstop, state, healthVars, dependent>>

(* The deferred healthWg.Wait; Run's own deferred cancel comes later. *)
MainReturns ==
  /\ MainAt("health", "returned")
  /\ checker \in {"off", "done"}
  /\ ~consumer
  /\ UNCHANGED <<svc, ctxDone, restartVars, innerVars, state, healthVars, dependent>>

MainStep == MainSeesCancel \/ MainStops \/ MainReceives \/ MainReturns

InnerStep == InnerStarts \/ InnerStopping \/ InnerStopped

(* The execution is over and nothing is left to do. *)
Finished ==
  /\ main = "returned"
  /\ UNCHANGED vars

Next ==
  \/ MainStep
  \/ RestarterStep
  \/ InnerStep \/ InnerExits \/ InnerLaunchFails
  \/ HealthInit \/ HealthCheck \/ HealthDone \/ HealthUpdate \/ ConsumerDone
  \/ SubscribeUp \/ StopRequested
  \/ Finished

Spec == Init /\ [][Next]_vars

(* Every goroutine that can take a step does; the service need not exit,   *)
(* nobody has to stop it or to depend on it.                               *)
Fairness ==
  /\ WF_vars(MainStep)
  /\ WF_vars(RestarterStep)
  /\ WF_vars(InnerStep)
  /\ WF_vars(HealthInit) /\ WF_vars(HealthDone)
  /\ WF_vars(HealthUpdate) /\ WF_vars(ConsumerDone)

FairSpec == Spec /\ Fairness

-----------------------------------------------------------------------------
(* Properties *)

(* When run has returned, the Run of the runner at the bottom is over and   *)
(* its result taken, whatever came between runnr.Stop and a restart.       *)
NothingLeftBehind == main = "returned" => inner = "idle"

(* No channel is closed twice, which panics: when the restarter is about   *)
(* to call Stop its channel stop is open, and while Run is in progress, or *)
(* about to begin, its channel stopped is.                                 *)
ChannelsClosedOnce ==
  /\ restarter \in {"stop", "clean"} => ~bstop
  /\ inner \in {"spawned", "active", "stopping"} => ~bstopped

(* Run ends cleanly whatever stops, ends and restarts meanwhile: the two,  *)
(* and the types of the state.                                             *)
StopsCleanly == TypeOK /\ NothingLeftBehind /\ ChannelsClosedOnce

(* A service that is told to stop stops, whatever the restarter, the       *)
(* process and the health check are doing: run returns.  Of the goroutine  *)
(* runner, whose Stop does not reach a Run that has not begun, only when   *)
(* it has.                                                                 *)
StopTerminates ==
  (ctxDone /\ main = "select" /\ (Kind = "process" \/ inner # "spawned")) ~> (main = "returned")

(* The service has ended and its restarter does not start it again. *)
Ended ==
  /\ inner = "offer"
  /\ Restart # "Forever"
  /\ Restart = "UntilSuccess" => outcome = "ok"

(* "Run returns an error when a service stops": once the service has ended *)
(* for good, run returns, unless it has a health check to wait for, whose  *)
(* context is only cancelled by a stop.                                    *)
RunReturns == (Ended /\ (~HealthChecked \/ ctxDone)) ~> (main = "returned")

(* A dependent that waits for the service to be up is told when it is: no  *)
(* order of health changes, dropped notifications and state changes leaves *)
(* it waiting for a service that stays up.                                 *)
UpIsNotLost ==
  []<>~(/\ dependent = "subscribed"
        /\ IsUp(state, health)
        /\ inner = "active" /\ ~ctxDone)

=============================================================================
