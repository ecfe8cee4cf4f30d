--------------------------- MODULE ServiceManager ---------------------------
(***************************************************************************)
(* The service manager of machined: the singleton of pkg/system/system.go  *)
(* (Load, Unload, Start, Stop, StopWithRevDepenencies, Shutdown and the    *)
(* API operations built on them) together with the life of each            *)
(* ServiceRunner.Run of service_runner.go and the conditions of            *)
(* service_events.go that let services wait for one another.               *)
(*                                                                         *)
(* A client is a goroutine that calls the manager: an API handler, a       *)
(* sequencer task, main.  A runner is a *ServiceRunner: Load creates a new *)
(* one, so a pointer held across an Unload is stale.  A run is the         *)
(* goroutine Start spawns around one svcrunner.Run.  s.mu is held by whole *)
(* actions, so it is not a variable; steps taken outside it are separate   *)
(* actions.  Health checks are the subject of ServiceRun; here a service   *)
(* is up as soon as it runs.                                               *)
(***************************************************************************)
EXTENDS Naturals, Sequences, FiniteSets

CONSTANTS
  Services,        \* service IDs
  DependsOn,       \* DependsOn[s]: the services s depends on
  Preloaded,       \* services loaded before the clients begin
  Clients,         \* goroutines calling the manager
  Ops,             \* Ops[c]: the operations client c calls
  MayExit,         \* services whose process may end by itself
  CleanupMayFail,  \* whether PostFunc or the volume cleanup may return an error
  MaxCalls,        \* bound: calls per client
  MaxRuns,         \* bound: runs started altogether
  MaxRunners       \* bound: runner objects created by Load

AllOps == {"load", "unload", "start", "stop", "restart", "stopRev", "shutdown"}

ASSUME ServicesAssumption ==
  /\ IsFiniteSet(Services)
  /\ DependsOn \in [Services -> SUBSET Services]
  /\ Preloaded \subseteq Services
  /\ MayExit \subseteq Services
  /\ Ops \in [Clients -> SUBSET AllOps]
  /\ CleanupMayFail \in BOOLEAN

ASSUME BoundsAssumption ==
  MaxCalls \in Nat /\ MaxRuns \in Nat /\ MaxRunners \in Nat

VARIABLES
  state,        \* s.state: the runner of each loaded service, NoRunner for absent
  running,      \* s.running
  terminating,  \* s.terminating
  rstate,       \* svcrunner.state, one per runner object created
  stopCh,       \* tokens in svcrunner.stopCh, capacity 1
  runs,         \* the runs started so far, in order
  client,       \* where each client is
  pending,      \* condition waits that have not found their runner yet
  subs,         \* condition waits subscribed to a runner
  everUp,       \* history: services that have been up
  crashed,      \* a goroutine of Start dereferenced a nil *ServiceRunner
  outrun        \* history: a run has told of its end after a later one had begun

managerVars == <<state, running, terminating>>
runnerVars == <<rstate, stopCh>>
waitVars == <<pending, subs>>
vars == <<managerVars, runnerVars, runs, client, waitVars, everUp, crashed, outrun>>

-----------------------------------------------------------------------------
(* States and events *)

NoRunner == 0

ServiceStates == {"initialized", "starting", "waiting", "preparing", "running",
                  "stopping", "finished", "failed", "skipped"}

(* inStateLocked: up when skipped, finished or running; down when in any   *)
(* of the terminal states.                                                 *)
InState(st, event) ==
  CASE event = "up"   -> st \in {"skipped", "finished", "running"}
    [] event = "down" -> st \in {"failed", "finished", "skipped"}

(* Where a run is.  "final" and "announce" come after Run has returned. *)
RunPCs == {"starting", "waiting", "preparing", "up", "running", "stopping",
           "cleanup", "cleanupFailed", "cleaned", "final", "announce", "done"}

(* svcrunner.Run has not returned. *)
LivePCs == RunPCs \ {"final", "announce", "done"}
Live(r) == r.pc \in LivePCs

(* The service's own process, container or goroutine exists. *)
HasProcess(r) == r.pc \in {"up", "running", "stopping"}

Runs == DOMAIN runs
RunIds == 1..MaxRuns

(* Run i, client c is at this point; nothing moves after a panic. *)
RunAt(i, pcs) == ~crashed /\ i \in Runs /\ runs[i].pc \in pcs
ClientAt(c, pc) == ~crashed /\ client[c].pc = pc

(* A wait is for a service "on": run owner waits for a dependency, client   *)
(* owner for what must be down before it stops service "at", or for the     *)
(* service it has told to stop.                                             *)
DepWait(i, d) == [kind |-> "dep", owner |-> i, at |-> d, on |-> d]
RevWait(c, s, d) == [kind |-> "rev", owner |-> c, at |-> s, on |-> d]
DownWait(c, s) == [kind |-> "down", owner |-> c, at |-> s, on |-> s]
EventOf(w) == IF w.kind = "dep" THEN "up" ELSE "down"

(* The waits that are not satisfied. *)
Outstanding == pending \union {u.wait : u \in subs}

(* The waits W end, satisfied or given up, and their subscriptions with them. *)
EndWaits(W) ==
  /\ pending' = pending \ W
  /\ subs' = {u \in subs : u.wait \notin W}

TypeOK ==
  /\ state \in [Services -> 0..Len(rstate)]
  /\ running \subseteq Services
  /\ terminating \in BOOLEAN
  /\ \A x \in DOMAIN rstate : rstate[x] \in ServiceStates
  /\ DOMAIN stopCh = DOMAIN rstate /\ \A x \in DOMAIN stopCh : stopCh[x] \in 0..1
  /\ \A i \in Runs : /\ runs[i].svc \in Services
                     /\ runs[i].runner \in DOMAIN rstate
                     /\ runs[i].pc \in RunPCs
                     /\ runs[i].cancelled \in BOOLEAN
                     /\ runs[i].outcome \in {"none", "finished", "failed", "skipped"}
  /\ \A u \in subs : u.runner \in DOMAIN rstate
  /\ pending \intersect {u.wait : u \in subs} = {}
  /\ everUp \subseteq Services
  /\ crashed \in BOOLEAN
  /\ outrun \in BOOLEAN

IdleClient(n) == [pc |-> "idle", op |-> "none", svc |-> "none", unsent |-> {},
                  targets |-> <<>>, timedOut |-> FALSE, since |-> 0, calls |-> n]

(* The services of Preloaded have been loaded, nothing is started. *)
Init ==
  /\ state = LET order == CHOOSE f \in [Preloaded -> 1..Cardinality(Preloaded)] :
                            \A s, t \in Preloaded : f[s] = f[t] => s = t
             IN  [s \in Services |-> IF s \in Preloaded THEN order[s] ELSE NoRunner]
  /\ running = {}
  /\ terminating = FALSE
  /\ rstate = [x \in 1..Cardinality(Preloaded) |-> "initialized"]
  /\ stopCh = [x \in 1..Cardinality(Preloaded) |-> 0]
  /\ runs = <<>>
  /\ client = [c \in Clients |-> IdleClient(0)]
  /\ pending = {}
  /\ subs = {}
  /\ everUp = {}
  /\ crashed = FALSE
  /\ outrun = FALSE

-----------------------------------------------------------------------------
(* svcrunner.UpdateState: the state under svcrunner.mu; the notifications  *)
(* follow after the unlock, in a step of their own (NotifyFrom).           *)
UpdateState(i, st) ==
  /\ rstate' = [rstate EXCEPT ![runs[i].runner] = st]
  /\ everUp' = IF InState(st, "up") THEN everUp \union {runs[i].svc} ELSE everUp

(* notifyEvent for every event that state st is in: the subscribers         *)
(* registered by now are woken, whatever the state has become meanwhile.    *)
NotifyFrom(i, st) ==
  LET woken == {u.wait : u \in {v \in subs : /\ v.runner = runs[i].runner
                                             /\ InState(st, EventOf(v.wait))}}
  IN  EndWaits(woken)

SetRun(i, pc) == runs' = [runs EXCEPT ![i].pc = pc]

(* Run ends with this result, which Start's goroutine will publish. *)
EndRun(i, outcome) == runs' = [runs EXCEPT ![i].pc = "cleanup", ![i].outcome = outcome]

(* serviceCondition.Wait: look the service up, subscribe to its runner; a   *)
(* service that is not registered is polled for.                            *)
Subscribe(w) ==
  /\ ~crashed
  /\ w \in pending
  /\ state[w.on] # NoRunner
  /\ pending' = pending \ {w}
  /\ subs' = IF InState(rstate[state[w.on]], EventOf(w))
             THEN subs
             ELSE subs \union {[wait |-> w, runner |-> state[w.on]]}
  /\ UNCHANGED <<managerVars, runnerVars, runs, client, everUp, crashed, outrun>>

-----------------------------------------------------------------------------
(* svcrunner.Run *)

(* The goroutine Run starts first: a stop token cancels the run's context. *)
WatchStop(i) ==
  /\ RunAt(i, LivePCs)
  /\ ~runs[i].cancelled
  /\ stopCh[runs[i].runner] = 1
  /\ stopCh' = [stopCh EXCEPT ![runs[i].runner] = 0]
  /\ runs' = [runs EXCEPT ![i].cancelled = TRUE]
  /\ UNCHANGED <<managerVars, rstate, client, waitVars, everUp, crashed, outrun>>

(* A condition exists when there are dependencies to wait for. *)
BeginWait(i) ==
  /\ RunAt(i, {"starting"})
  /\ IF DependsOn[runs[i].svc] = {}
     THEN UpdateState(i, "preparing") /\ SetRun(i, "preparing") /\ UNCHANGED pending
     ELSE /\ UpdateState(i, "waiting")
          /\ SetRun(i, "waiting")
          /\ pending' = pending \union {DepWait(i, d) : d \in DependsOn[runs[i].svc]}
  /\ UNCHANGED <<managerVars, stopCh, client, subs, crashed, outrun>>

DepWaitsOf(i) == {w \in Outstanding : w.kind = "dep" /\ w.owner = i}

EndWait(i) ==
  /\ RunAt(i, {"waiting"})
  /\ DepWaitsOf(i) = {}
  /\ UpdateState(i, "preparing")
  /\ SetRun(i, "preparing")
  /\ UNCHANGED <<managerVars, stopCh, client, waitVars, crashed, outrun>>

(* Mutant: the error of the condition is logged and Run goes on. *)
AbortWaitIgnored(i) ==
  /\ RunAt(i, {"waiting"})
  /\ runs[i].cancelled
  /\ DepWaitsOf(i) # {}
  /\ EndWaits(DepWaitsOf(i))
  /\ UpdateState(i, "preparing")
  /\ SetRun(i, "preparing")
  /\ UNCHANGED <<managerVars, stopCh, client, crashed, outrun>>

(* Every outstanding condition returns the error of the cancelled context. *)
AbortWait(i) ==
  /\ RunAt(i, {"waiting"})
  /\ runs[i].cancelled
  /\ DepWaitsOf(i) # {}
  /\ EndWaits(DepWaitsOf(i))
  /\ EndRun(i, "failed")
  /\ UNCHANGED <<managerVars, runnerVars, client, everUp, crashed, outrun>>

(* PreFunc, Runner or Open fails, or there is nothing to run (ErrSkip). *)
PrepareFails(i) ==
  /\ RunAt(i, {"preparing"})
  /\ \E outcome \in {"failed", "skipped"} : EndRun(i, outcome)
  /\ UNCHANGED <<managerVars, runnerVars, client, waitVars, everUp, crashed, outrun>>

(* The runner's Run emits StateRunning and then notifies. *)
ProcessStarts(i) ==
  /\ RunAt(i, {"preparing"})
  /\ UpdateState(i, "running")
  /\ SetRun(i, "up")
  /\ UNCHANGED <<managerVars, stopCh, client, waitVars, crashed, outrun>>

NotifyRunning(i) ==
  /\ RunAt(i, {"up"})
  /\ NotifyFrom(i, "running")
  /\ SetRun(i, "running")
  /\ UNCHANGED <<managerVars, runnerVars, client, everUp, crashed, outrun>>

(* case err := <-errCh *)
ProcessExits(i) ==
  /\ RunAt(i, {"running"})
  /\ runs[i].svc \in MayExit
  /\ \E outcome \in {"finished", "failed"} : EndRun(i, outcome)
  /\ UNCHANGED <<managerVars, runnerVars, client, waitVars, everUp, crashed, outrun>>

(* case <-ctx.Done(): runnr.Stop() makes the runner emit StateStopping ... *)
StopProcess(i) ==
  /\ RunAt(i, {"running"})
  /\ runs[i].cancelled
  /\ UpdateState(i, "stopping")
  /\ SetRun(i, "stopping")
  /\ UNCHANGED <<managerVars, stopCh, client, waitVars, crashed, outrun>>

(* ... and its Run returns once the process is gone. *)
ProcessStopped(i) ==
  /\ RunAt(i, {"stopping"})
  /\ EndRun(i, "finished")
  /\ UNCHANGED <<managerVars, runnerVars, client, waitVars, everUp, crashed, outrun>>

(* A deferred PostFunc or volume cleanup returns an error: the runner is    *)
(* marked failed, and its subscribers told, before Run has returned.        *)
CleanupFails(i) ==
  /\ CleanupMayFail
  /\ RunAt(i, {"cleanup"})
  /\ UpdateState(i, "failed")
  /\ SetRun(i, "cleanupFailed")
  /\ UNCHANGED <<managerVars, stopCh, client, waitVars, crashed, outrun>>

NotifyCleanup(i) ==
  /\ RunAt(i, {"cleanupFailed"})
  /\ NotifyFrom(i, "failed")
  /\ SetRun(i, "cleaned")
  /\ UNCHANGED <<managerVars, runnerVars, client, everUp, crashed, outrun>>

-----------------------------------------------------------------------------
(* The goroutine of Start around Run *)

(* Run returns and the deferred function deletes the service from running. *)
LeaveRunning(i) ==
  /\ RunAt(i, {"cleanup", "cleaned"})
  /\ running' = running \ {runs[i].svc}
  /\ SetRun(i, "final")
  /\ UNCHANGED <<state, terminating, runnerVars, client, waitVars, everUp, crashed, outrun>>

(* Run i of a service is over, and it is running again. *)
RunsAgain(i) == \E j \in Runs : Live(runs[j]) /\ runs[j].runner = runs[i].runner

(* Only then is the final state published: Finished, Skipped or Failed, ... *)
FinalState(i) ==
  /\ RunAt(i, {"final"})
  /\ UpdateState(i, runs[i].outcome)
  /\ SetRun(i, "announce")
  /\ outrun' = (outrun \/ RunsAgain(i))
  /\ UNCHANGED <<managerVars, stopCh, client, waitVars, crashed>>

(* Mutant: the final state is recorded and nobody is told. *)
FinalNotifySilent(i) ==
  /\ RunAt(i, {"announce"})
  /\ SetRun(i, "done")
  /\ UNCHANGED <<managerVars, runnerVars, client, waitVars, everUp, crashed, outrun>>

(* ... and the subscribers are notified of it. *)
FinalNotify(i) ==
  /\ RunAt(i, {"announce"})
  /\ NotifyFrom(i, runs[i].outcome)
  /\ SetRun(i, "done")
  /\ outrun' = (outrun \/ RunsAgain(i))
  /\ UNCHANGED <<managerVars, runnerVars, client, everUp, crashed>>

(* The steps a run takes by itself; those that wait for the world outside   *)
(* (a process that ends or fails by itself) are in RunEnvironment.          *)
RunStep(i) ==
  \/ WatchStop(i) \/ BeginWait(i) \/ EndWait(i) \/ AbortWait(i)
  \/ ProcessStarts(i) \/ NotifyRunning(i) \/ StopProcess(i) \/ ProcessStopped(i)
  \/ NotifyCleanup(i) \/ LeaveRunning(i) \/ FinalState(i) \/ FinalNotify(i)

RunEnvironment(i) == PrepareFails(i) \/ ProcessExits(i) \/ CleanupFails(i)

-----------------------------------------------------------------------------
(* Clients *)

Loaded == {s \in Services : state[s] # NoRunner}

SetClient(c, pc) == client' = [client EXCEPT ![c].pc = pc]

(* The call of client c returns. *)
Return(c) == client' = [client EXCEPT ![c] = IdleClient(@.calls)]

(* Client c is free to call operation op, on service s. *)
Calls(c, op, s, pc) ==
  /\ op \in Ops[c]
  /\ ClientAt(c, "idle")
  /\ client[c].calls < MaxCalls
  /\ client' = [client EXCEPT ![c] = [IdleClient(@.calls + 1) EXCEPT !.pc = pc,
                                                                 !.op = op, !.svc = s]]

(* Load: a service already loaded is ignored. *)
Load(c, s) ==
  /\ Calls(c, "load", s, "idle")
  /\ ~terminating
  /\ s \notin Loaded
  /\ Len(rstate) < MaxRunners
  /\ state' = [state EXCEPT ![s] = Len(rstate) + 1]
  /\ rstate' = Append(rstate, "initialized")
  /\ stopCh' = Append(stopCh, 0)
  /\ UNCHANGED <<running, terminating, runs, waitVars, everUp, crashed, outrun>>

(* Unload, StopWithRevDepenencies and Shutdown go straight to stopping. *)
CallStop(c, op, s) ==
  /\ op \in {"unload", "stopRev", "shutdown"}
  /\ Calls(c, op, s, "stop")
  /\ op = "unload" => ~terminating /\ s \in Loaded
  /\ UNCHANGED <<managerVars, runnerVars, runs, waitVars, everUp, crashed, outrun>>

(* APIStart, and APIRestart of a service that does not run: IsRunning, a     *)
(* check that is only good until the locks are released.                     *)
APIStart(c, op, s) ==
  /\ op \in {"start", "restart"}
  /\ Calls(c, op, s, "start")
  /\ s \in Loaded
  /\ s \notin running
  /\ UNCHANGED <<managerVars, runnerVars, runs, waitVars, everUp, crashed, outrun>>

(* APIStop, and APIRestart of a service that runs. *)
APIStop(c, op, s) ==
  /\ op \in {"stop", "restart"}
  /\ Calls(c, op, s, "stop")
  /\ s \in Loaded
  /\ s \in running
  /\ UNCHANGED <<managerVars, runnerVars, runs, waitVars, everUp, crashed, outrun>>

(* The loop of stopServices, which adds loaded services that depend on one  *)
(* it has until there is none left: the smallest set with S closed under it. *)
WithReverseDependencies(S) ==
  LET Closed(T) == S \subseteq T /\ \A s \in Loaded : DependsOn[s] \intersect T # {} => s \in T
  IN  {s \in Loaded : \A T \in SUBSET Loaded : Closed(T) => s \in T}

(* The part of Stop, StopWithRevDepenencies and Shutdown under s.mu: the    *)
(* services to stop, and what each of them waits for before it is told to.  *)
ScheduleStop(c) ==
  LET op == client[c].op
      rev == op \in {"stopRev", "shutdown"}
      chosen == IF op = "shutdown" THEN Loaded ELSE {client[c].svc} \intersect Loaded
      targets == IF rev THEN WithReverseDependencies(chosen) ELSE chosen
  IN
  /\ ClientAt(c, "stop")
  /\ ~terminating
  /\ terminating' = (op = "shutdown")
  /\ client' = [client EXCEPT ![c].pc = "stopping",
                              ![c].unsent = targets,
                              ![c].targets = [s \in targets |-> state[s]],
                              ![c].since = Len(runs)]
  /\ pending' = pending \union
       (IF rev THEN {RevWait(c, x[1], x[2]) : x \in {y \in targets \X targets : y[1] \in DependsOn[y[2]]}}
               ELSE {})
  /\ UNCHANGED <<state, running, runnerVars, runs, subs, everUp, crashed, outrun>>

(* Each of them returns at once when the manager is terminating; Unload     *)
(* goes on to remove the service it has not stopped.                        *)
StopRefused(c) ==
  /\ ClientAt(c, "stop")
  /\ terminating
  /\ IF client[c].op = "unload" THEN SetClient(c, "remove") ELSE Return(c)
  /\ UNCHANGED <<managerVars, runnerVars, runs, waitVars, everUp, crashed, outrun>>

(* The 30 seconds the reverse dependencies are given have passed. *)
RevTimeout(c) ==
  /\ ClientAt(c, "stopping")
  /\ \E w \in Outstanding : w.kind = "rev" /\ w.owner = c
  /\ client' = [client EXCEPT ![c].timedOut = TRUE]
  /\ EndWaits({w \in Outstanding : w.kind = "rev" /\ w.owner = c})
  /\ UNCHANGED <<managerVars, runnerVars, runs, everUp, crashed, outrun>>

(* svcrunner.Shutdown: a non-blocking send.  The goroutine of a live run    *)
(* is waiting for it and cancels the run; otherwise the token stays in the  *)
(* channel, unless one is there already.                                    *)
Shutdown(x) ==
  IF \E i \in Runs : runs[i].runner = x /\ Live(runs[i]) /\ ~runs[i].cancelled
  THEN /\ runs' = [i \in Runs |-> IF runs[i].runner = x /\ Live(runs[i])
                                  THEN [runs[i] EXCEPT !.cancelled = TRUE] ELSE runs[i]]
       /\ UNCHANGED stopCh
  ELSE /\ stopCh' = [stopCh EXCEPT ![x] = 1]
       /\ UNCHANGED runs

(* Mutant: a service is told to stop without waiting for what depends on it. *)
SendStopUngated(c, s) ==
  /\ ClientAt(c, "stopping")
  /\ s \in client[c].unsent
  /\ Shutdown(client[c].targets[s])
  /\ client' = [client EXCEPT ![c].unsent = @ \ {s}]
  /\ UNCHANGED <<managerVars, rstate, waitVars, everUp, crashed, outrun>>

(* Mutant: a service whose reverse dependencies did not stop in time is     *)
(* never told to stop.                                                      *)
SendStopNotAfterTimeout(c, s) ==
  /\ ClientAt(c, "stopping")
  /\ ~client[c].timedOut
  /\ s \in client[c].unsent
  /\ ~\E w \in Outstanding : w.kind = "rev" /\ w.owner = c /\ w.at = s
  /\ Shutdown(client[c].targets[s])
  /\ client' = [client EXCEPT ![c].unsent = @ \ {s}]
  /\ UNCHANGED <<managerVars, rstate, waitVars, everUp, crashed, outrun>>

(* The goroutine for service s: its reverse dependencies are down, or were  *)
(* given up on.                                                             *)
SendStop(c, s) ==
  /\ ClientAt(c, "stopping")
  /\ s \in client[c].unsent
  /\ ~\E w \in Outstanding : w.kind = "rev" /\ w.owner = c /\ w.at = s
  /\ Shutdown(client[c].targets[s])
  /\ client' = [client EXCEPT ![c].unsent = @ \ {s}]
  /\ UNCHANGED <<managerVars, rstate, waitVars, everUp, crashed, outrun>>

(* shutdownWg.Wait returns: wait, by name, for every service to be down. *)
AwaitDown(c) ==
  /\ ClientAt(c, "stopping")
  /\ client[c].unsent = {}
  /\ SetClient(c, "awaitDown")
  /\ pending' = pending \union {DownWait(c, s) : s \in DOMAIN client[c].targets}
  /\ UNCHANGED <<managerVars, runnerVars, runs, subs, everUp, crashed, outrun>>

DownWaitsOf(c) == {w \in Outstanding : w.kind = "down" /\ w.owner = c}

(* Stop returns nil: APIRestart goes on to Start, Unload to the removal. *)
StopReturns(c) ==
  /\ ClientAt(c, "awaitDown")
  /\ DownWaitsOf(c) = {}
  /\ CASE client[c].op = "restart" -> SetClient(c, "start")
       [] client[c].op = "unload"  -> SetClient(c, "remove")
       [] OTHER                    -> Return(c)
  /\ UNCHANGED <<managerVars, runnerVars, runs, waitVars, everUp, crashed, outrun>>

(* The context of an API call ends first: Stop returns its error. *)
StopGivesUp(c) ==
  /\ ClientAt(c, "awaitDown")
  /\ client[c].op \in {"stop", "restart", "unload", "stopRev"}
  /\ DownWaitsOf(c) # {}
  /\ EndWaits(DownWaitsOf(c))
  /\ Return(c)
  /\ UNCHANGED <<managerVars, runnerVars, runs, everUp, crashed, outrun>>

(* Unload: delete from state and from running. *)
Remove(c) ==
  /\ ClientAt(c, "remove")
  /\ state' = [state EXCEPT ![client[c].svc] = NoRunner]
  /\ running' = running \ {client[c].svc}
  /\ Return(c)
  /\ UNCHANGED <<terminating, runnerVars, runs, waitVars, everUp, crashed, outrun>>

(* Start holds s.mu until the new run has published StateStarting. *)
StartRun(s) ==
  /\ Len(runs) < MaxRuns
  /\ running' = running \union {s}
  /\ runs' = Append(runs, [svc |-> s, runner |-> state[s], pc |-> "starting",
                           cancelled |-> FALSE, outcome |-> "none"])
  /\ rstate' = [rstate EXCEPT ![state[s]] = "starting"]
  /\ UNCHANGED crashed

(* Mutant: the running set is not consulted. *)
StartAlways(c) ==
  LET s == client[c].svc IN
  /\ ClientAt(c, "start")
  /\ IF ~terminating /\ s \in Loaded THEN StartRun(s) ELSE UNCHANGED <<running, runs, rstate, crashed>>
  /\ Return(c)
  /\ UNCHANGED <<state, terminating, stopCh, waitVars, everUp, outrun>>

(* Start: nothing to do when terminating or when the service is running.    *)
(* A service that is not defined only adds an error to the result: the loop *)
(* goes on to run the nil *ServiceRunner, which panics.                     *)
Start(c) ==
  LET s == client[c].svc IN
  /\ ClientAt(c, "start")
  /\ CASE terminating \/ s \in running -> UNCHANGED <<running, runs, rstate, crashed>>
       [] ~terminating /\ s \notin running /\ s \in Loaded -> StartRun(s)
       [] OTHER -> crashed' = TRUE /\ running' = running \union {s} /\ UNCHANGED <<runs, rstate>>
  /\ Return(c)
  /\ UNCHANGED <<state, terminating, stopCh, waitVars, everUp, outrun>>

ClientStep(c) ==
  \/ ScheduleStop(c) \/ StopRefused(c) \/ RevTimeout(c) \/ AwaitDown(c)
  \/ StopReturns(c) \/ Remove(c) \/ Start(c)
  \/ \E s \in Services : SendStop(c, s)

ClientCall(c) ==
  \E s \in Services :
    \/ Load(c, s)
    \/ \E op \in AllOps : CallStop(c, op, s) \/ APIStart(c, op, s) \/ APIStop(c, op, s)

WaitStep ==
  \E d \in Services :
    \/ \E i \in RunIds : Subscribe(DepWait(i, d))
    \/ \E c \in Clients : Subscribe(DownWait(c, d))
    \/ \E c \in Clients, s \in Services : Subscribe(RevWait(c, s, d))

Next ==
  \/ \E i \in RunIds : RunStep(i) \/ RunEnvironment(i)
  \/ WaitStep
  \/ \E c \in Clients : ClientStep(c) \/ ClientCall(c) \/ StopGivesUp(c)

Spec == Init /\ [][Next]_vars

(* Goroutines that can proceed do: a run's own steps (PreFunc and the       *)
(* process end when told to, the latest by SIGKILL), a call in progress     *)
(* with its timer, and the lookup of a condition.  Nobody has to call.      *)
Fairness ==
  /\ \A i \in RunIds : WF_vars(RunStep(i))
  /\ \A i \in RunIds, d \in Services : WF_vars(Subscribe(DepWait(i, d)))
  /\ \A c \in Clients :
       /\ WF_vars(ClientStep(c))
       /\ \A s \in Services : WF_vars(Subscribe(DownWait(c, s)))
       /\ \A s, d \in Services : WF_vars(Subscribe(RevWait(c, s, d)))

FairSpec == Spec /\ Fairness

-----------------------------------------------------------------------------
(* Properties *)

(* A service never has two runs at a time: s.running admits one, and is    *)
(* left only when Run has returned.                                        *)
OneRun ==
  \A i, j \in Runs : Live(runs[i]) /\ Live(runs[j]) /\ runs[i].svc = runs[j].svc => i = j

(* s.running, which IsRunning, Start and the API operations trust, holds   *)
(* exactly the services whose Run has not returned.                        *)
RunningExact == running = {runs[i].svc : i \in {j \in Runs : Live(runs[j])}}

(* The two, and the types of the state: whatever is started, restarted,   *)
(* stopped and timed out meanwhile, what is in s.running is one live run.  *)
RunsExact == TypeOK /\ OneRun /\ RunningExact

(* A service's process exists only once each service it depends on has     *)
(* been up.                                                                *)
DependenciesFirst ==
  \A i \in Runs : HasProcess(runs[i]) => DependsOn[runs[i].svc] \subseteq everUp

(* StopWithRevDepenencies and Shutdown tell a service to stop only when no *)
(* service that depends on it still has the process it had when they were  *)
(* called, unless the 30 seconds are over, or an earlier run of a service  *)
(* has told of its end only after a later one had begun, which the stop    *)
(* then takes for down.                                                    *)
ReverseDependenciesFirst ==
  [][\A c \in Clients, s \in Services :
       (/\ ~outrun
        /\ client[c].pc = "stopping" /\ client[c].op \in {"stopRev", "shutdown"}
        /\ ~client[c].timedOut
        /\ s \in client[c].unsent /\ s \notin client'[c].unsent)
       => \A i \in 1..client[c].since : HasProcess(runs[i]) => s \notin DependsOn[runs[i].svc]]_vars

(* Shutdown ends every run of a service that is loaded when it looks:      *)
(* whatever the run is doing or waiting for, and whatever Unload removes   *)
(* meanwhile.  (A service started while Unload waits for it to be down is  *)
(* removed as it runs, and is stopped by nobody.)  The exception is a      *)
(* panic: Start goes on with the nil runner of a service that has been     *)
(* unloaded since its caller found it.                                     *)
ShutdownStopsAll ==
  \A c \in Clients, i \in RunIds :
    (/\ client[c].op = "shutdown"
     /\ i \in Runs /\ \E s \in DOMAIN client[c].targets : client[c].targets[s] = runs[i].runner)
      ~> (crashed \/ ~(i \in Runs /\ Live(runs[i])))

(* Shutdown, which main defers on any return, itself returns, unless one   *)
(* of the services it waits for by name was never started, which is not    *)
(* down, or has been unloaded meanwhile, which is polled for; or Start has *)
(* panicked, as above.                                                     *)
ShutdownReturns ==
  \A c \in Clients :
    (client[c].op = "shutdown") ~>
      \/ client[c].op # "shutdown" \/ crashed
      \/ \E s \in DOMAIN client[c].targets :
           state[s] = NoRunner \/ rstate[state[s]] = "initialized"

=============================================================================
