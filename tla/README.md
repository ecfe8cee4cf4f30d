# A TLA+ development of machined

`machined` is PID 1 of Chubo: it runs the machine's sequences (initialize, install,
boot, reboot, reset, upgrade, shutdown), supervises services, runs the controllers
that configure the machine, and reboots it. This directory holds TLA+ models of
the concurrent parts of it, and of what must survive a crash, the TLC configurations that check them on small
instances, and proofs, checked by TLAPS, for every size of instance. `PROJECT.json` maps every
definition to the source lines it stands for, and lists runs, mutants, hazards and
findings.

    tlc -workers 2 -config MCPriorityLock.cfg MCPriorityLock
    tlapm PriorityLockProofs.tla

Paths below are relative to `src/internal/app/machined/` unless they begin with `src/`.

## 1. Inventory

### Components with concurrency of their own

**Sequence priority lock** (`pkg/runtime/v1alpha1/v1alpha1_priority_lock.go`, the table in
`pkg/runtime/sequencer.go`). State: two one-token channels (`runningCh`, `takeoverCh`), the
priority and the cancel function of the running sequence under a mutex. Operations: `Lock`,
`Unlock`. Callers: `Controller.Run` on behalf of main, of API handlers and of the signal and
ACPI listener. Hard: the priority is tested and the cancel function called in separate critical
sections; a timer races with the hand-over; `Unlock` clears the priority before it returns the
token. Correct when at most one sequence runs, tokens are neither lost nor duplicated, a running
sequence is cancelled only by a request that may, and a forced request is served.

**Service manager** (`pkg/system/system.go`, `service_events.go`). State: the services loaded, the
set of running ones, the terminating flag. Operations: `Load`, `Unload`, `Start`, `Stop`,
`StopWithRevDepenencies`, `Shutdown` and the API operations composed of them. It starts one
goroutine per run, and services wait for one another's events through conditions. Hard:
everything that is done between two acquisitions of `s.mu`; waits by name for runners that may
have been replaced; a final state that is published after the service has left the running set.
Correct when a service never has two runs, dependencies come up first and go down last, and a
shutdown stops everything and returns.

**Service runner** (`pkg/system/service_runner.go`, `runner/restart`, `runner/process`,
`runner/goroutine`, `health`). State: the service's state and health, a stop channel, the runner's
stop and stopped channels, the restarter's. Goroutines: `run`, the restarter, the runner, the health
check, the consumer of its changes. Hard: stopping something that is starting, restarting or has just
ended. Correct when a stop ends everything, no channel is closed twice, and a dependent that waits
for the service to come up is told.

**Event stream** (`pkg/runtime/v1alpha1/v1alpha1_events.go`). State: a ring buffer with a write
position, under a mutex with a condition variable. Operations: `Publish`, `Watch` with tail options.
Hard: publishers lap a slow consumer. Correct when nothing is read from a slot that has been
reused, nothing is skipped, and no consumer sleeps with events before it.

**Main and the sequence controller** (`main.go`, `pkg/runtime/v1alpha1/v1alpha1_controller.go`).
State: where `runEntrypoint` is, the error it returns, `errCh`, the watch on events, the goroutine of
the controller runtime. Hard: requests that come while main is still running its own sequences;
deferred calls that wait for goroutines that wait for main. Correct when a restart or a failure
reboots the machine, the boot loader is reverted only after a failure, and never under running
controllers.

**Drainer and its users** (`pkg/runtime/drainer.go`, `pkg/controllers/runtime/events_sink.go`,
`kmsg_log.go`). State: subscriptions, each with a one-slot channel, and one one-slot channel by which
they tell `Drain` that they are gone. Hard: a wake-up channel that drops signals; controllers that
fail and are run again. Correct when nobody misses the drain and `Drain` neither oversleeps nor
returns over a backlog.

**Sequencer** (`v1alpha1_sequencer.go`, `v1alpha1_sequencer_tasks.go`, `v1alpha1_sequencer_tasks_chubo.go`
beside the lock, `run`, `runPhase` and `runTask` of the controller). State: the phase and the tasks of each
caller of `Controller.Run`; what the tasks change: mounts, the volume lifecycle, partitions, a META tag,
the kernel loaded by kexec, the command with which the machine goes down. Tasks of a phase run at once,
phases after each other; a sequence is cancelled at any task. Hard: what the next sequence finds after one that was
cut short. Correct when the installer has the disk to itself, kexec starts a kernel that is still there, a
reset that is announced has wiped what it was asked to, a shutdown powers off, and a machine that has begun to stop goes down.

**Volume mounts of services** (`pkg/system/volumes.go`, `pkg/controllers/block/mount_request.go`, `mount.go`,
`mount_status.go`, `volume_manager.go`). State: five kinds of resources with phases and finalizers, and what
is mounted. Four controllers and the services act on lists that may be stale. Hard: everybody waits for
everybody's finalizers, in both directions between a volume and the one it lies in. Correct when what is used
stays mounted, a mount is never forgotten, and everything comes to rest.

**META, boot loader and installer** (`src/internal/pkg/meta`, `pkg/runtime/v1alpha1/bootloader/grub`,
`src/cmd/installer/pkg/install`, `revert.go`, `pkg/controllers/runtime/drop_upgrade_fallback.go`). State: two copies of META
and the tags in memory, `grub.cfg` with its two labels, the assets under each. Hard: power may be lost at
any step, and three programs write. Correct when what is booted is whole, an unproven version has a
fallback, a proven one is kept, and a staged upgrade is installed once.

### Components of which a part is modelled, or none

* *Drain, quorum check and leave* (`v1alpha1_sequencer_tasks_chubo.go`): in `Sequencer`, for one machine. The agents
  it asks, and two servers that check at once, are not.
* *Configuration acquisition* (`pkg/controllers/config/acquire.go`), *ACL bootstrap* (`pkg/controllers/chubo`): not
  modelled yet, but for the finalizer by which `persistence.go` holds the volume lifecycle (in `Mounts`).
* *containerd runner*: the stop protocol of the process runner around calls to an external daemon.
* *Network, cluster, time, hardware, file and secret controllers*: level-triggered projections over an
  external resource runtime, or sequences of kernel calls.
* *apid, trustd, chuboctl, the configuration types*: stateless proxies, client tools, generated code.

### Interactions

API handlers, signals and main call `Controller.Run`, which takes the priority lock, runs a sequence
whose tasks call the service manager, and publishes events; main watches those events and, when it
is told to, returns through its deferred calls: the manager's `Shutdown`, `Drain`, the cancellation of
the controllers, the wait for them; `handle` then reverts the boot loader or not, and reboots. The
events sink consumes the same stream and is drained by the drainer. Services and sequences ask the block
controllers for mounts; an upgrade runs the installer, which writes the boot loader and META, as machined does.

## 2. Modules

| module | models | extends or instantiates |
|---|---|---|
| `TakeOver` | the sequences, the take-over table, the test of `Lock` | |
| `SequenceLock` | the lock as its users see it: a grant, a revocation, a release | `TakeOver` |
| `SequenceLockSpec` | what the lock promises its callers: requests under way, and what each may do | `SequenceLock` |
| `PriorityLock` | `Lock` and `Unlock` step by step | `TakeOver`; `SequenceLockSpec` as refinement |
| `ServiceManager` | the manager and the life of each run | |
| `ServiceRun` | one execution of `ServiceRunner.run` and what is below it | |
| `MachineMain` | `runEntrypoint`, `handle`, `Controller.Run`, the listener | `SequenceLock`; `SequenceLockSpec` as refinement |
| `Phases` | the phase lists of every sequence, as data | |
| `Sequencer` | `run`, `runPhase`, the tasks, requests and take-overs | `SequenceLock`, `Phases`; `SequenceLockSpec` as refinement |
| `Mounts` | services, mount controllers, the closing of volumes | |
| `Rollback` | META, GRUB's labels, the installer, the fallback, loss of power | |
| `Events` | the ring buffer | |
| `Drainer` | the drainer, the events sink, the kernel log delivery | |
| `PriorityLockProofs`, `MachineMainProofs`, `RollbackProofs`, `ServiceRunProofs`, `ServiceManagerProofs`, `MountsProofs`, `SequencerProofs` | theorems | the module they are named after |
| `DeliveryProofs` | theorems about what is delivered to watchers and sinks | `Events`, `Drainer` |
| `MC...` | instances for TLC | the module they are named after |

**How state and actions correspond to code.** A critical section is one action; what the code does
between two of them, every receive and send on a channel, and every branch of a `select` is an action
of its own. A rendezvous on an unbuffered channel is one step of both sides. Names are the source's
where TLA+ allows.

*PriorityLock.* `pc[p]` follows caller p through `Lock`: `EnterTakeover`/`EnterTimeout` (first select),
`CheckPriority`, `CancelRunning`, `ReceiveToken`/`AwaitTimeout` (second select), `InstallPriority`,
`LeaveTakeover` (deferred), then `SequenceEnds`, and `Unlock` in two halves, `ResetPriority` and
`SendToken`. A context is the number of its creation. `MaxCalls` bounds the calls of each caller.

*SequenceLock, SequenceLockSpec.* `SequenceLock` has the state that `MachineMain` and `Sequencer` share (who holds the lock, with which
request, whether its context is cancelled) and the three things that change it. `SequenceLockSpec` adds the request with which each
process waits in `Lock`: it is made by a process that neither waits nor runs, may cancel the running sequence if it has the right to
at that moment (`Interrupts`), and ends with the lock (`Takes`) or without (`GivesUp`); `GivesBack` is for the holder. The lock implements it with
`Waiting` as the requests, and so do the two modules that use the lock.

*ServiceManager.* A runner object is a number, so that a pointer kept across an `Unload` can be stale;
`runs` is the sequence of goroutines that `Start` has spawned, each with the point it has reached.
Condition waits are records in `pending` (not yet looked up) or `subs` (subscribed), and
`UpdateState` is two steps, since subscribers are told after the unlock. Health is left to
`ServiceRun`: here a service is up as soon as it runs. `WithReverseDependencies` is what the loop of `stopServices` computes, the
least set closed under reverse dependencies. `crashed` is the panic of a goroutine, after which nothing
moves; `outrun` and `everUp` are history variables.

*ServiceRun.* `Runners` is the set of ways in which a service may be run, and `svc` the one of this
execution. Health checks and the process are open: any check may answer anything, the process
may exit at any time. Building and launching a process is one step that may fail.

*MachineMain.* A sequence is abstracted to how it ends: done, cancelled, failed, or with a
`RestartEvent` followed by the `RebootError` that `Controller.Run` publishes as FATAL (`Sequencer` has its phases). `Install` either
does nothing or installs and reboots. `Lock` is that of `SequenceLockSpec`, which `PriorityLock` is shown to
implement. Of the services, `unstarted` has those that are loaded and not started (`machined` by its name, since it is loaded before Initialize, which
starts it; any other as `"other"`, loaded and started by anybody at any time), and `stopping` says that `Shutdown` was called. The first call waits for every loaded
service to be down, without end for one that was not started (`MainHangs`); any later one returns at once. Left out: the debug server, `recovery`, `panic=0`, a second request of the same caller.

*Events.* Positions are natural numbers (`int64` in the code: 2^63 events are out of reach); IDs are
taken in one step and appended in another, as `Publish` does. `sort.Search` is external: it
returns a boundary of the test, on the side that its first probe points to; for the two events that a ring
of three offers, this is exactly what the binary search returns.
`WithTailDuration` is the same search on the time that the ID holds.

*Sequencer.* A machine (server or worker, container, installed or blank, with a staged upgrade, with the deferred
checks that hold on it) is chosen initially; so are the requests its callers may make. `todo[p]` is the set of tasks
of the phase that have not returned, each a step or two (asked, answered). A task without an effect on the state of
the model succeeds, fails (`MaxFails`) or is cancelled; errors of tasks wrapped in `taskErrorHandler(logError, ...)` are dropped, as
there. `LogErrors` phases, `AppendWhen` and deferred checks are in `Phases`, one operator per method of `Sequencer`.
`StopAllServices` either returns or, when the call is the first, waits until the sequence is cancelled; main's deferred `Shutdown` may hang likewise. `StopServicesEphemeral` stops
`cri` and `trustd`, neither of which is ever loaded: it returns at once. `ResetSystemDisk` may have wiped some partitions when it fails.
The block controllers, which `Mounts` models, are three steps here: they mount, unmount and close when they can. The maintenance service's
requests are possible while Initialize waits for a configuration.

*Mounts.* `rc`, `mc`, `sc`, `vc` are the passes of the four controllers. A pass lists resources in one step and then
takes up one job at a time, in any order; a job records what the pass found out when it listed, so that it
may be stale; a volume for which the pass would do nothing has no job. A job of `MountController` takes up its finalizers one by one
in the order of the code (`Rank`). `Services` are the services that ask for volumes. `fin` holds the finalizers by their owner.
External: the resource store (`Teardown`, `Destroy`, `AddFinalizer`, whose failure ends a pass) and its
watches. The lifecycle that the sequencer tears down is `held` until `PersistenceController` has written the configuration and removed its finalizer; only
then does the volume manager begin. META, which it skips in that case (`volume_manager.go:489`), is not one of `Volumes`. All volumes have been provisioned; `ReadOnly`, `Detached` and other options of a request are left out. A second closing of a LUKS
device is taken to succeed.

*Rollback.* Versions are numbers, the newest the largest; of a tag only its presence matters. `Flush` writes both copies
in one call, so that a loss of power leaves either, neither or a torn one; `NewADV` reads the first whole copy, and an empty META
when there is none. `grub.cfg` is rewritten in place by the upgrade and by the revert: when torn, the machine does not boot (`dead`). `BootsAWholeVersion` and `UnreadyHasFallback` speak of a
`grub.cfg` that can be read, and name the torn one as an exception. The target of an upgrade is the other label than the default of `grub.cfg` (`flip`). The installer locks the disk: a `Flush` of machined waits for it and then writes what it had in memory.
`holes` is a history variable: each of its members is an event that the code does not guard against, and each
property lists the ones after which it may fail. Each member listed is needed: without it TLC finds the property violated. `MaintenanceUpgrade` is an
`UpgradeRequested` during boot. Left out: systemd-boot, kexec, the legacy copy of META, the first call of `Meta()` by somebody other than `ReloadMeta`.

*Drainer.* A controller's `drainSub` is never reset, so a subscription is named after its controller. The
backlog that an event carries may be older than the queue. That the controller runtime runs a
failed controller again is external.

## 3. Runs

| run | instance | shows |
|---|---|---|
| `priority_lock` | three callers: boot, reboot, reset, upgrade, forced shutdown | token conservation, an accurate priority, one live context, a forced request is served; exclusion, and cancellation by right of a request under way, as the refinement of `SequenceLockSpec` |
| `service_orderly` | b depends on a; a client that starts and restarts, one that stops, stops with dependents and shuts down; two runs | one run per service, `s.running` exact, dependencies up first, dependents told to stop first unless the 30 s are over |
| `service_unload` | the same services; a client that loads, starts, unloads, one that unloads and shuts down | a shutdown ends the runs of all services loaded, and returns |
| `service_run` | process under Forever, UntilSuccess and Once, goroutine without a restarter, with and without health check | `run` returns when told to stop and when the service has ended; channels are closed once; nothing is left behind; a dependent is told |
| `machine_main` | main, one API request of four kinds, SIGTERM; services loaded, started and stopped at any time | restarts and failures seen by the watch reboot, unless main hangs as named below; only failures revert; controllers end first |
| `events` | two publishers, one consumer, five kinds of tail, ring of three, gap of one, five events | soundness of reads, nothing skipped, no lost wake-up, no early drop, the goroutine ends |
| `drainer` | one events sink, one kernel log delivery, two events, one failure each | no lost signal, everyone told, backlog awaited, `Drain` returns |

| `sequencer` | eight machines; main, an API caller with seven requests, one that takes over; one task fails | `InstallerHasTheDisk`, `KexecFresh`, `ResetComplete`, `ShutdownPowersOff`, `EndsDown` |
| `mounts_shared` | two services on one encrypted volume, three runs, one failure, teardown at any time; the services are symmetric (safety only) | what is used stays mounted, no mount is forgotten |
| `mounts_nested` | a service with an outer and an inner volume, one of which is removed; teardown at any time | the outer volume stays mounted under the inner; everything comes to rest |
| `rollback` | two upgrades, staged or not; power lost and calls failing without bound | what is booted is whole, fallback of unproven versions, staged at most once, proven versions kept |
| `sequencer_quorum` | a server of two that asks its agent | violation, see below |

The type invariant of a module is proved (`PriorityLock`, `Events`, `Drainer`, `Sequencer`) or a conjunct of one of its invariants (`RunsExact`,
`StopsCleanly`, `ControllersEndFirst`, `MountIsTracked`, `BootsAWholeVersion`), which are proved too.

`sequencer_quorum` ends in a violation, and is a finding in `PROJECT.json`: "blocking by default, skippable only when the caller explicitly
forces the operation" (`v1alpha1_sequencer_tasks_chubo.go:47`), but the answer of the agent is assigned to an `err` that
shadows the one tested, and a graceful upgrade of one of two servers goes on.

Further disagreements between code and documentation that the models reach. Those in the first list are exceptions that the properties named
spell out:

* `ReverseDependenciesFirst`: `Start`'s goroutine removes the service from `s.running` and publishes the final
  state, and notifies of it, later. A new run may begin in between; the late state, or the late notification, then says it is
  down, and `StopWithRevDepenencies` stops the dependency under it. Needs three runs (`MaxRuns = 3`, `start` against
  `stopRev`), which is why the exception does not matter in `service_orderly`, with two. With three, the late notification alone
  breaks the property within 24 states; with the exception it is proved (`StopsInOrder`) for any number of runs.
* `ShutdownStopsAll`, `ShutdownReturns`: a service unloaded between `IsRunning` and `Start` is run as a nil
  `*ServiceRunner` (a `continue` is missing after the error), which panics; a service started between the two halves of
  `Unload` is removed while it runs, and no `Shutdown` finds it.
* `ShutdownReturns`: a service never started, or unloaded meanwhile, is waited for for ever.
* `StopTerminates`: `goroutineRunner.Stop` before `Run` has added itself to the wait group
  returns at once and renews the context; `Run` then starts what nobody will stop, though "Shutdown completes when
  Start() returns" (`service_runner.go:366`).
* `RunReturns`: a health checked service that ends by itself waits for its health check, which waits for the stop.
* `WatchRevertsOnlyFailures`: a request that holds the lock when main asks for its own next sequence makes
  `runEntrypoint` return `ErrLocked`, and `handle` revert the boot loader, though "they're not fatal" (`main.go:293`); a
  `RestartEvent` published before the watch is registered is lost, and the FATAL that follows it may not be.
* `ReturnReboots` and `EventIsHandled`: a controller runtime that fails when main has stopped receiving blocks main's last wait. The deferred `Shutdown` (`main.go:224`, "Schedule
  service shutdown on any return") has a context that nobody cancels before it returns, and waits for ever (`system.go:382`) for a service that was loaded and never started: `machined` when Initialize fails or is
  cancelled before `StartMachined`, or any service between its `Load` and its `Start`. The machine is then not rebooted. It does not happen once a
  sequence has called `Shutdown`, which makes main's call return at once (the second half of `ReturnReboots`); Initialize and a forced reboot are those that restart without calling it.
* `BacklogAwaited`: an events sink that has failed once is no longer subscribed.
* `EndsDown`: a sequence that is taken over by a request that then times out in `Lock` leaves the machine half stopped; a restart announced
  before main watches is lost; `Shutdown` of the services hangs in `StopAllServices` of a sequence that nobody takes over, or in main's deferred call, as above.
* `KexecFresh`: the kexec flag is never cleared. A default reboot that has loaded the kernel and is then taken over by a request that times
  out in `Lock` leaves it set; an upgrade asked for afterwards with `POWERCYCLE`, which prepares no kexec, installs a new kernel and restarts in the old one.
* `ResetComplete`: `ResetSystemDiskSpec` deletes META's tag of an encrypted STATE in memory and then flushes. When the flush fails, or the sequence is
  interrupted in between, a later reset finds no tag to delete, does not flush, and announces success with the tag still on the disk.
  Neither this one nor the one before is reached with the two callers of `sequencer`, but both are with four; the proofs cannot do without the exceptions.
* `Converges`: after a cleanup that has timed out, a service started again may hold a mount on its way out, and wait for ever for a volume inside it (not reached in `mounts_nested`, where
  services start once and nothing fails; `UsedIsMounted` is checked with restarts and failures in `mounts_shared`).
* The exceptions of `Rollback`: power lost between boot loader and META in the installer (a new version without fallback) or in `revertBootloader` (the
  next failure reverts the revert); assets not synced before `grub.cfg`; `grub.cfg` torn by its own write, in an upgrade or a revert; both copies of META torn, or an old second copy that comes back; a `Flush` that overwrites the installer's tag; an
  upgrade of a version not settled; a fallback whose deletion was not flushed, and is not tried again.

These no property states:

* `Publish` takes the ID before the lock; `WithTailID`, which "sets up Watcher to return events with ID > TailID" (`events.go:77`), searches IDs as if sorted.
* A reset in maintenance mode wipes the disk and asks for a reboot or shutdown without `WithTakeover`, which Initialize, waiting
  for a configuration, does not yield to: the machine stays up, wiped.
* The kexec flag is never reset (a `POWERCYCLE` that takes over a default reboot may use kexec); the power-off that a shutdown stores survives it when it is
  taken over; a graceful reset only logs a failing drain, and a drain that fails leaves the node cordoned; `pauseOnFailure` waits
  five minutes whatever its argument; `StopServicesEphemeral`, which is to stop "everything which depends on" `cri` (`v1alpha1_sequencer_tasks.go:412`), stops nothing, as `cri` is never loaded; a cancelled task that returns
  another error is published as FATAL.
* A volume that is not encrypted may be closed while it is mounted, against the comment at `volume_manager.go:411`: the list it
  was decided on is old. It is benign: `Destroy` fails, and the volume is closed again.
* A staged upgrade whose `Flush` failed is answered with an error and may be installed all the same, since its tags stay in memory.

**Mutants.** For each property of a passing run, a definition that models code is
replaced by one with a plausible bug, defined just before it and marked `Mutant`, and TLC finds the property
violated.

**Bounds, and why they are enough.** Two services suffice for a dependency and its inverse; two
clients for every pair of operations that overlap, as each operation holds no state between calls;
two runs for a run against its successor. Three callers let two contend for the take-over while
a third runs. A ring of three slots with a gap of one has every relation between reader, gap and
writer, and five events lap it. One failure per controller distinguishes first and later runs. One failing
task and two requests reach every sequence from every other that it may take over. Two upgrades are the least in which the
fallback of one meets the next; the largest version is never compared with more than its predecessor. Two volumes
make a parent and a child, two services share one; the nested instance was also checked, outside the listed runs, for all
safety properties of `Mounts` with two runs, one failure and a removable parent (12.5 million states, none violated).
Values are model values or small records; symmetry is used in `mounts_shared` only, which checks no liveness.

**Fairness.** Weak fairness of each goroutine's own steps: the Go scheduler runs every runnable
goroutine. Not fair: calls by clients, exits and failures, timers, health answers, what arrives on
the network. `ServiceManager` assumes the 30 s timer to fire as part of a call in progress, and a
process to end when told to (SIGKILL at the latest); `PriorityLock` that a cancelled sequence
ends, as its tasks observe their context, and that a caller waiting for
`takeoverCh` is not passed over for ever (strong fairness: a Go channel serves its receivers in order); `MachineMain` assumes it of main, the watch and the controller runtime only: not that a sequence ends (Initialize may wait for a configuration), nor that a loaded service is started; `Sequencer` assumes that whatever can go on goes on, except `LoadConfig`, callers and the block controllers
(tasks that wait for those have time-outs), and a `StopAllServices` that has begun to wait goes on only when its sequence is cancelled; `Mounts` that each controller is woken by every change and a waiting service goes on, while nothing has to start, stop or be removed.
`Rollback` has safety properties only. Deadlock is checked in `priority_lock` and
`service_run`; elsewhere clients may simply stop calling, and main may really be stuck.

## 4. Theorems

All for arbitrary constants, subject to the named assumptions of each module.

*`PriorityLockProofs`.* For any set of callers, `LockInv` is inductive: `TypeOK`; each
token is in its channel or with one caller in the section it guards (`TokensConserved`); the callers
in each section are at most one; the priority and the cancel function are those of the caller in
the section between installing and resetting; every live context is the installed one; requests are
not the zero value; a caller about to cancel has the right to. `OneSequence` alone is not inductive: nothing in it
excludes a second token. From it: `SequencesExclusive`, `PriorityNeverStale`,
`EarlierContextsCancelled`, `TokensNeverLeak`, `TakeoverNeedsRight`, and `LockRefinement`: every step of
`PriorityLock` is one of `SequenceLockSpec` or a stutter. That the request about to cancel has the right to interrupt the sequence that it then cancels, and not
only the one it looked at, is `SeenByRight` of `LockInv` together with the section that it holds.

*`DeliveryProofs`, about `Events`.* For any capacity, gap, publishers and consumers, `StreamInv`: `TypeOK`, the ring
holds the last `Cap` positions (`RingHoldsTail`), positions lie between zero and the write position
(`PositionsSane`), and the three safety properties. The argument rests on `SlotsDiffer`: positions less
than `Cap` apart are in different slots. From it: `ReadsAreSound`, `WakeupsNeverLost`, `GapIsGranted`.
On top of it `DeliveryInv`: what is being sent has passed the filter, nobody has read less than it started from, and there is an increasing
function from what a `WatchFunc` has received onto the positions, among those read, that its filter lets through. A `Read` that skips
leaves the function as it is, a `Send` extends it by one, a `Publish` changes no position read. From it: `NothingIsSkipped`.

*`DeliveryProofs`, about `Drainer`.* For any set of sinks and log deliveries, `DrainInv`: `DrainerTypeOK`, the two invariants and
`FirstRunSubscribed` (a sink that has not failed is subscribed while it runs). From it:
`SignalsNeverLost`, `SubscribersTold`, and the action property `DrainAwaitsBacklog`.

*`MachineMainProofs`.* For any callers and requests (`MainAssumption`), `MainInv`: `TypeOK`; the lock is held by exactly
those within `Controller.Run` and by one at most (`OneSequence`); main comes to its watch once; a FATAL event in the log is preceded by a
`RestartEvent` or a failure (`FatalExplained`); a watch that was registered in time has gone past no `RestartEvent` without returning it (`RestartFirst`); the deferred calls
are made in order (`EndsInOrder`). `WatchRevertsOnlyFailures` speaks of the error that `handle` sees; only the history of the
events, which `FatalExplained` and `RestartFirst` carry, tells where it comes from. From it: `RevertsOnlyFailures`, `ControllersEndBeforeReboot`,
`SequencesExclude`, and `UsesTheLock`: main's use of the lock is a behaviour of `SequenceLockSpec`, with whoever is in `Lock` waiting with its own request.

*`RollbackProofs`.* For any number of upgrades (`UpgradesAssumption`) and unboundedly many losses of power, `RollbackInv`: `TypeOK`; where main is
goes with what the installer was started for (`Positions`); versions are numbered and the running one is whole (`Numbered`); each
request accounts for one version at most (`Counted`), and so does what memory, disk and sequence say is staged (`StagedCounted`);
a fallback tag in memory is on the disk (`TagKept`); a fallback is dropped by a version that was ready (`DropAfterReady`); what a tag goes back to is whole
(`WholeFallback`) and has been ready, and a version that was never ready has its tag in every whole copy (`ReadyFallback`); a settled version has no tag
(`SettledUntagged`). The last three hold only until one of the holes they name is recorded: that the step which breaks them records
its hole is one lemma per hole. From it: `BootsWhole`, `UnreadyFallsBack`, `StagedAtMostOnce`, and the action property `SettledIsKept`.

*`ServiceRunProofs`.* For any set of runners and restarters (`RunnersAssumption`), `RunInv`: `TypeOK`; where the stopper of the innermost runner is (`run`
itself or the restarter) against where that runner and its two channels are (`InnerInv`); the wait group of a goroutine runner
counts its `Run` (`CountInv`); the restarter is gone before `run` returns (`RestarterInv`). From it: `EveryRunStopsCleanly`.

*`ServiceManagerProofs`.* For any finite set of services with any dependencies (cycles included), any clients and operations
(`ServicesAssumption`, `BoundsAssumption`), `ManagerInv`: the types, waits belong to a run or call that still waits, a runner serves one service, and a
run past its wait has seen its dependencies up. From it: `DependenciesComeFirst`. Two theorems have the hypothesis `NoUnload`, that no client calls `Unload`:
`RunsAreExact` (from `OrderlyInv`: with `Unload` it is false, since `Unload` takes a service out of `s.running` that may have been started again meanwhile)
and the action property `StopsInOrder` (from `RevInv`: runs keep their runner, a run that has not ended is not taken for down, and a client that stops a service has a wait on every
live run that depends on it, until `outrun`). In `service_orderly` nobody calls `Unload`; `service_unload`
checks `Unload` against `Shutdown`.

*`MountsProofs`.* For any volumes, parents, services, runs and failures (`MountsAssumption`), `MountsInv`: the types, a chain of finalizers (`ChainInv`), and what each
controller's pass may rely on although its lists are stale (`PassInv`). The chain: a service that uses a volume holds its
`VolumeMountStatus`, which exists only while `MountStatusController` holds the `MountStatus`, which exists only while the volume is
mounted, which it is only while `MountController` holds the `VolumeStatus`, the `MountRequest` and the parent's
`MountStatus`. `PassInv` is what the safety properties need and do not say: a `MountStatus` is on its way out only when its volume, its request or its parent's status is (`TearingDoomed`), so that no job tears a mount down and sets it up
again with the finalizers it listed before; a job that mounts has, or is yet to add, every finalizer; one that unmounts has no `MountStatus` left. From it: `ParentsStayMounted`, `MountsAreTracked`, `UsedStaysMounted`.

*`SequencerProofs`.* For any set of callers, any machines, any requests that the handlers make and any number of failing tasks (`SequencerAssumption`: main alone
runs Initialize, Install and Boot, and `WithTakeover` comes with a reboot or a shutdown only). The first part is about the lists of `Phases` as data: what a list contains
(`Without`), which task is surely done before another (`Before`, by a phase that is neither conditional nor logged), what never comes after another (`NotAfter`),
what has its phase to itself (`Alone`), and how these pass through concatenation, `AppendWhen` and `LogErrors`; `PhasesSortedOut` states them for every sequence, machine and data.
The rest are three inductive invariants, each on top of the one before.
`RunInv`: the types; a process runs what it may ask for (`Requested`); who has the lock is between `Lock` and `Unlock`, alone (`OneHolder`); the tasks left are tasks of the phase (`InPhase`); an
error is that of the last request (`ErrFresh`). From it: `TypeCorrect`, and `RunsUnderTheLock`: the sequencer's use of the lock is a behaviour of `SequenceLockSpec`, as `PriorityLock`'s is: who cancels waits in `Lock` at that moment, and may.
`CoreInv`: what the tasks behind a sequence have done to the machine still holds (`BehindDone`), since whoever could undo it needs the lock; with it `VolumesClosed`, `TagBlamed` (a tag deleted and not flushed has a
failed wipe) and `ShutdownStored` (the first task of a shutdown does not fail). From it: `UpgradeHasTheDisk`, `ResetIsComplete`, `ShutdownEndsInPowerOff`.
`KexecInv`: at most one request waits for the lock (`OneWaits`); a sequence is cancelled only for it (`CanceledForIt`); once a kernel is loaded it is the one on the disk, the rest of the list of who has the lock is `Harmless` to it, and
who waits is a reboot or a shutdown, which install and wipe nothing (`KexecLoaded`). `KexecFresh` alone says nothing of the steps between loading and restarting, in
which another sequence may take over. From it: the action property `RestartsInTheKernel`.

**Only model-checked.** Every liveness property (`TakeoverSucceeds`, `ShutdownStopsAll`,
`ShutdownReturns`, `StopTerminates`, `RunReturns`, `UpIsNotLost`, `EventIsHandled`, `ReturnReboots`,
`GoroutineEnds`, `DrainReturns`, `EndsDown`, `Converges`): fairness and ENABLED are out of the prover's reach. Every safety
property of every passing run is stated by a theorem. `QuorumCheckBlocks` is violated.

## 5. Plan

1. *Configuration acquisition*, *ACL bootstrap*: state machines with retries.
2. *Composition* of `MachineMain`'s watch with the ring of `Events`: a watch that is lapped is closed, and
   main's loop reads zero events from then on.

## 6. Not modelled

Most of the repository's lines are generated protobuf code, enumerations and resource definitions, configuration types and
their validation, command line tools and one-shot controllers that project inputs to outputs through an external runtime;
there is no state of their own to check in them. The agents that the quorum check and the drain talk to, the kernel, GRUB, LUKS
and the resource store are modelled only as far as the code uses them. `PROJECT.json` gives the reason for each component.
