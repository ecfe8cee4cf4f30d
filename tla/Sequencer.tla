----------------------------- MODULE Sequencer ------------------------------
(***************************************************************************)
(* Controller.Run with what the sequences really do: run, runPhase and     *)
(* runTask of v1alpha1_controller.go over the lists of Phases, the tasks   *)
(* of v1alpha1_sequencer_tasks.go and v1alpha1_sequencer_tasks_chubo.go as *)
(* far as they touch the EPHEMERAL volume, the volume lifecycle, the       *)
(* kernel to boot, the partitions, the state encryption tag of META and    *)
(* the command the machine goes down with, and the requests of API, signal *)
(* and maintenance handlers that start or take over sequences.             *)
(*                                                                         *)
(* The lock is SequenceLock.  main is reduced to its three sequences, the  *)
(* watch and the way down: MachineMain has the rest of it.  Of the volume  *)
(* controllers, which Mounts has in full, the model keeps when the         *)
(* EPHEMERAL volume is mounted and unmounted and the volumes are closed;   *)
(* of the services, whether their Shutdown was called and may wait without *)
(* end (MachineMain and ServiceManager say for what).  Each caller makes   *)
(* one request.                                                            *)
(***************************************************************************)
EXTENDS SequenceLock, Phases, Naturals

CONSTANTS
  Main,       \* the goroutine of main, a member of Procs
  Machines,   \* the machines a behaviour may be about
  MaxFails    \* bound: tasks that fail by themselves

Callers == Procs \ {Main}

(* The partitions of the system disk that can be wiped one by one. *)
Partitions == {"BOOT", "META", "STATE"}

(* A machine: its mode, what is installed and staged, the deferred checks  *)
(* that hold on it, the partitions its kernel argument wipes, its          *)
(* opengyoza role, the raft peers, whether META overrides them, whether it *)
(* has booted before the first request, and the requests of each caller:   *)
(* main alone runs the first three sequences, and the handlers pass        *)
(* WithTakeover for a reboot or a shutdown only.                           *)
ASSUME SequencerAssumption ==
  /\ Main \in Procs /\ MaxFails \in Nat
  /\ \A mc \in Machines :
       /\ {mc.container, mc.installed, mc.staged, mc.server, mc.override, mc.booted} \subseteq BOOLEAN
       /\ mc.checks \subseteq {"dualBoot", "wipe", "haltIfInstalled"}
       /\ mc.wipe \subseteq Partitions
       /\ mc.peers \in Nat
       /\ \A p \in Callers : \A r \in mc.asks[p] :
            /\ r.seq \in Sequences \ {"initialize", "install", "boot"} /\ r.takeover \in BOOLEAN
            /\ r.takeover => r.seq \in {"reboot", "shutdown"}
            /\ r.in.targets \subseteq Partitions

VARIABLES
  machine,    \* the machine, one of Machines
  pc,         \* where each process is in Controller.Run
  req,        \* its request: the sequence and WithTakeover
  data,       \* its data
  at,         \* the phase it is in
  todo,       \* the tasks of the phase that have not returned
  asked,      \* the tasks that wait for the volume controllers or the services
  err,        \* the first error of the phase; what Run returned
  main,       \* the sequence main is at, or the watch
  signal,     \* the first event that makes main return, and whose it is
  missed,     \* history: such an event came before main was watching
  services,   \* the services: Shutdown was called, or main hangs in it
  mount,      \* the mount request of the sequencer and the EPHEMERAL volume
  lifecycle,  \* the VolumeLifecycle resource
  kernel,     \* the kernel that the boot loader would boot
  kexec,      \* the kernel that kexec has loaded
  wiped,      \* the partitions that have been wiped
  tag,        \* the META tag StateEncryptionConfig
  emergency,  \* emergency.RebootCmd
  fails,      \* tasks that have failed
  down        \* how the machine went down

runVars == <<lockState, pc, req, data, at, todo, asked, err, fails>>
mainVars == <<main, signal, missed, services>>
volumeVars == <<mount, lifecycle>>
diskVars == <<kernel, kexec, wiped, tag>>
machineVars == <<volumeVars, diskVars, emergency>>
vars == <<machine, runVars, mainVars, machineVars, down>>

-----------------------------------------------------------------------------
RebootCmds == {"restart", "kexec", "powerOff"}
Errors == {"none", "error", "canceled", "locked", "timeout", "invalid"} \union RebootCmds

NoSignal == [by |-> Noop, cmd |-> "none"]

TypeOK ==
  /\ machine \in Machines
  /\ holder \subseteq Procs /\ revoked \in BOOLEAN
  /\ pc \in [Procs -> {"idle", "lock", "await", "phase", "unlock", "returned"}]
  /\ req \in [Procs -> AnyRequest] /\ DOMAIN data = Procs
  /\ at \in [Procs -> Nat]
  /\ asked \in [Procs -> BOOLEAN]
  /\ err \in [Procs -> Errors] /\ fails \in 0..MaxFails
  /\ main \in {"initialize", "install", "boot", "watch", "over"}
  /\ signal \in [by : Sequences \union {Noop}, cmd : RebootCmds \union {"none", "fatal"}]
  /\ missed \in BOOLEAN
  /\ services \in {"running", "stopping", "hung"}
  /\ mount \in {"none", "requested", "mounted", "releasing"}
  /\ lifecycle \in {"running", "tearing", "closed", "gone"}
  /\ kernel \in {"current", "new", "wiped"}
  /\ kexec \in {"none", "current", "new"}
  /\ wiped \subseteq Partitions
  /\ tag \in {"set", "deleted", "flushed"}
  /\ emergency \in {"restart", "powerOff"}
  /\ down \in RebootCmds \union {"no"}

Init ==
  /\ machine \in Machines
  /\ LockInit
  /\ pc = [p \in Procs |-> "idle"]
  /\ req = [p \in Procs |-> NoRequest]
  /\ data = [p \in Procs |-> NoData]
  /\ at = [p \in Procs |-> 0]
  /\ todo = [p \in Procs |-> {}]
  /\ asked = [p \in Procs |-> FALSE]
  /\ err = [p \in Procs |-> "none"] /\ fails = 0
  /\ main = IF machine.booted THEN "watch" ELSE "initialize"
  /\ signal = NoSignal
  /\ missed = FALSE
  /\ services = "running"
  /\ mount = IF machine.booted THEN "mounted" ELSE "none"
  /\ lifecycle = "running"
  /\ kernel = "current" /\ kexec = "none"
  /\ wiped = {} /\ tag = "set"
  /\ emergency = "restart"
  /\ down = "no"

Up == down = "no"

Goto(p, from, to) == Up /\ pc[p] \in from /\ pc' = [pc EXCEPT ![p] = to]

ThePhases(p) ==
  PhasesOf(req[p].seq, data[p], machine.container, machine.installed, machine.staged)

-----------------------------------------------------------------------------
(* Requests *)

Call(p, seq, takeover, in) ==
  /\ Goto(p, {"idle"}, "lock")
  /\ req' = [req EXCEPT ![p] = Request(seq, takeover)]
  /\ data' = [data EXCEPT ![p] = in]
  /\ UNCHANGED <<lockState, at, todo, asked, err, fails>>

(* The maintenance service is there while the configuration is awaited. *)
InMaintenance == main = "initialize" /\ "LoadConfig" \in todo[Main]

(* What the SIGTERM and ACPI listener asks for, at any time. *)
SigTerm == [seq |-> "shutdown", takeover |-> TRUE, in |-> Data("ShutdownRequest", "DEFAULT", TRUE)]

(* The maintenance service and its Reset, which wipes the disk itself and  *)
(* hands its ResetRequest on to the sequence.                              *)
Maintenance(r) == r.seq = "maintenanceUpgrade" \/ r.in.type = "ResetRequest"

Ask(p, r) ==
  /\ Maintenance(r) => InMaintenance /\ machine.installed
  /\ (r # SigTerm /\ ~Maintenance(r)) => main # "initialize"
  /\ Call(p, r.seq, r.takeover, r.in)
  /\ IF r.in.type = "ResetRequest"
     THEN wiped' = Partitions /\ kernel' = "wiped"
     ELSE UNCHANGED <<wiped, kernel>>
  /\ UNCHANGED <<machine, mainVars, volumeVars, kexec, tag, emergency, down>>

MainCalls ==
  /\ main \in {"initialize", "install", "boot"}
  /\ Call(Main, main, FALSE, NoData)
  /\ UNCHANGED <<machine, mainVars, machineVars, down>>

-----------------------------------------------------------------------------
(* The lock *)

Contended == \E q \in Procs : pc[q] = "await"

Return(p, e) ==
  /\ err' = [err EXCEPT ![p] = e]
  /\ UNCHANGED <<machine, lockState, req, data, at, todo, asked, fails, mainVars, machineVars, down>>

LockRefused(p) ==
  /\ Goto(p, {"lock"}, "returned")
  /\ ~Contended /\ ~Free /\ ~MayRun(req[p], held.seq)
  /\ Return(p, "locked")

LockTimeout(p) ==
  /\ Goto(p, {"lock", "await"}, "returned")
  /\ Contended
  /\ Return(p, "timeout")

LockTakesOver(p) ==
  /\ Goto(p, {"lock"}, "await")
  /\ ~Contended
  /\ Revoke(req[p])
  /\ UNCHANGED <<machine, req, data, at, todo, asked, err, fails, mainVars, machineVars, down>>

(* A phase is skipped when its deferred check fails. *)
Skipped(phase) == phase.check # "" /\ phase.check \notin machine.checks

(* j is the first phase from i on that is not skipped, or one past the     *)
(* last.                                                                   *)
IsNextPhase(phases, i, j) ==
  /\ j <= Len(phases) => ~Skipped(phases[j])
  /\ \A k \in i..(j - 1) : Skipped(phases[k])

(* runPhase: all tasks of the phase start; at the end of the list run      *)
(* returns.                                                                *)
BeginPhase(p, phases, i) ==
  /\ \E j \in i..(Len(phases) + 1) :
       /\ IsNextPhase(phases, i, j)
       /\ at' = [at EXCEPT ![p] = j]
       /\ todo' = [todo EXCEPT ![p] = IF j <= Len(phases) THEN phases[j].tasks ELSE {}]
       /\ pc' = [pc EXCEPT ![p] = IF j <= Len(phases) THEN "phase" ELSE "unlock"]
  /\ asked' = [asked EXCEPT ![p] = FALSE]
  /\ err' = [err EXCEPT ![p] = "none"]

(* The lock is granted and phases() gives the list; data of another type   *)
(* is an error that nobody publishes.                                      *)
LockGranted(p) ==
  /\ Up
  /\ pc[p] = "await" \/ (pc[p] = "lock" /\ ~Contended)
  /\ Grant(p, req[p])
  /\ IF data[p].type \in Accepts(req[p].seq)
     THEN BeginPhase(p, ThePhases(p), 1)
     ELSE /\ err' = [err EXCEPT ![p] = "invalid"]
          /\ pc' = [pc EXCEPT ![p] = "unlock"]
          /\ UNCHANGED <<at, todo, asked>>
  /\ UNCHANGED <<machine, req, data, fails, mainVars, machineVars, down>>

-----------------------------------------------------------------------------
(* Phases and tasks *)

(* Mutant: only the RestartEvent makes main return. *)
PublishRestart(p, cmd) ==
  /\ signal' = IF p # Main /\ main = "watch" /\ signal = NoSignal /\ cmd # "fatal"
               THEN [by |-> req[p].seq, cmd |-> cmd] ELSE signal
  /\ missed' = (missed \/ (p # Main /\ main # "watch"))
  /\ UNCHANGED <<main, services>>

(* main takes the first event that carries an error, once it watches; the  *)
(* errors of its own sequences it is returned.                             *)
Publish(p, cmd) ==
  /\ signal' = IF p # Main /\ main = "watch" /\ signal = NoSignal
               THEN [by |-> req[p].seq, cmd |-> cmd] ELSE signal
  /\ missed' = (missed \/ (p # Main /\ main # "watch"))
  /\ UNCHANGED <<main, services>>

Running(p, task) == Up /\ pc[p] = "phase" /\ task \in todo[p]

(* A sibling has failed, or the sequence is taken over. *)
Cancelled(p) == revoked \/ err[p] # "none"

(* A task returns: its first error is the phase's, unless it is logged. *)
TaskReturns(p, task, e) ==
  /\ Running(p, task)
  /\ todo' = [todo EXCEPT ![p] = @ \ {task}]
  /\ asked' = [asked EXCEPT ![p] = FALSE]
  /\ err' = [err EXCEPT ![p] = IF @ = "none" /\ ~ThePhases(p)[at[p]].log THEN e ELSE @]
  /\ fails' = IF e = "error" /\ fails < MaxFails THEN fails + 1 ELSE fails
  /\ UNCHANGED <<machine, lockState, pc, req, data, at, down>>

(* A task succeeds, or fails while the bound allows it. *)
OkOrFail == {"none"} \union (IF fails < MaxFails THEN {"error"} ELSE {})

Canceled(p) == IF Cancelled(p) THEN {"canceled"} ELSE {}

(* What a task that only fails, is cancelled or succeeds returns. *)
AnyEnd(p) == OkOrFail \union Canceled(p)

(* eg.Wait returns: the error of the phase ends the sequence, and is       *)
(* published unless the sequence was cancelled; so does a context that is  *)
(* done; else the next phase begins.                                       *)
PhaseEnds(p) ==
  /\ Up /\ pc[p] = "phase" /\ todo[p] = {}
  /\ \/ /\ err[p] # "none"
        /\ pc' = [pc EXCEPT ![p] = "unlock"]
        /\ IF err[p] = "canceled" THEN UNCHANGED mainVars ELSE Publish(p, "fatal")
        /\ UNCHANGED <<at, todo, asked, err>>
     \/ /\ err[p] = "none" /\ revoked
        /\ pc' = [pc EXCEPT ![p] = "unlock"]
        /\ err' = [err EXCEPT ![p] = "canceled"]
        /\ UNCHANGED <<at, todo, asked, mainVars>>
     \/ /\ err[p] = "none" /\ ~revoked
        /\ BeginPhase(p, ThePhases(p), at[p] + 1)
        /\ UNCHANGED mainVars
  /\ UNCHANGED <<machine, lockState, req, data, fails, machineVars, down>>

Unlock(p) ==
  /\ Goto(p, {"unlock"}, "returned")
  /\ Release
  /\ at' = [at EXCEPT ![p] = 0]
  /\ UNCHANGED <<machine, req, data, todo, asked, err, fails, mainVars, machineVars, down>>

-----------------------------------------------------------------------------
(* Tasks *)

(* Tasks whose effects are outside of this model, but not whether they     *)
(* fail.  LoadConfig waits until a configuration has been acquired;        *)
(* haltIfInstalled only ends by its timeout.                               *)
CheckTasks == {"WaitForUSB", "EnforceKSPPRequirements", "LoadConfig", "MemorySizeCheck", "DiskSizeCheck"}
ServiceTasks == {"StartContainerd", "StartMachined", "StartSyslogd", "StartAuditd", "StartUdevd",
                 "StartAllServices", "StopServicesEphemeral"}
FileTasks == {"SetUserEnvVars", "WriteUdevRules", "SetupSharedFilesystems", "MountUserDisks",
              "WriteUserFiles"}
UnmountTasks == {"UnmountPodMounts", "UnmountSystemDiskBindMounts"}
MetaTasks == {"ReloadMeta", "FlushMeta", "CleanupBootloader"}

MayFail == CheckTasks \union ServiceTasks \union FileTasks \union UnmountTasks \union MetaTasks
           \union {"StartDBus", "WaitForCARoots", "SendResetSignal", "ResetUserDisks"}

NeverFails == {"StopAllPods", "RemoveAllPods", "StopDBus", "LeaveClusterMembership", "ForceCleanup"}

OtherTask(p) ==
  /\ \E task \in MayFail \union NeverFails \union {"haltIfInstalled"} :
       \E e \in CASE task = "haltIfInstalled" -> {"error"} \union Canceled(p)
                  [] task \in MayFail         -> AnyEnd(p)
                  [] task \in NeverFails      -> {"none"} :
         TaskReturns(p, task, e)
  /\ UNCHANGED <<mainVars, machineVars>>

(* CheckSafeServerStopFromPeers. *)
SafeServerStop(peers) == peers <= 1 \/ peers - 1 >= (peers \div 2) + 1

(* The quorum check of CordonAndDrainNode on an opengyoza server: an       *)
(* override in META is checked; the answer of the agent is assigned to an  *)
(* err that is not the one tested, so that only the creation of the client *)
(* can fail.                                                               *)
QuorumCheck(p) ==
  IF ~machine.server \/ data[p].force THEN {"none"}
  ELSE IF machine.override THEN {IF SafeServerStop(machine.peers) THEN "none" ELSE "error"}
  ELSE OkOrFail

(* The drain of an openwonton client is best effort. *)
CordonAndDrainNode(p) ==
  /\ \E e \in QuorumCheck(p) \union Canceled(p) :
       TaskReturns(p, "CordonAndDrainNode", e)
  /\ UNCHANGED <<mainVars, machineVars>>

StoreShutdownEmergency(p) ==
  /\ TaskReturns(p, "StoreShutdownEmergency", "none")
  /\ emergency' = "powerOff"
  /\ UNCHANGED <<mainVars, volumeVars, diskVars>>

(* Shutdown of the services: only the first call stops them, any other     *)
(* returns at once.                                                        *)
StopServices == services' = IF services = "running" THEN "stopping" ELSE services

(* The first call finds a service that was loaded and never started: it    *)
(* waits for it until the sequence is cancelled.                           *)
StopAllServicesWaits(p) ==
  /\ Running(p, "StopAllServices") /\ ~asked[p]
  /\ services = "running" /\ StopServices
  /\ asked' = [asked EXCEPT ![p] = TRUE]
  /\ UNCHANGED <<machine, lockState, pc, req, data, at, todo, err, fails, main, signal, missed, machineVars,
                 down>>

(* What Shutdown returns is ignored. *)
StopAllServices(p) ==
  /\ asked[p] => Cancelled(p)
  /\ TaskReturns(p, "StopAllServices", "none")
  /\ StopServices
  /\ UNCHANGED <<main, signal, missed, machineVars>>

(* The task has told the volume controllers, and waits. *)
AsksVolumes(p, task) ==
  /\ Running(p, task) /\ ~asked[p]
  /\ asked' = [asked EXCEPT ![p] = TRUE]
  /\ UNCHANGED <<machine, lockState, pc, req, data, at, todo, err, fails, mainVars, diskVars, emergency, down>>

MountRequested(p) ==
  /\ AsksVolumes(p, "MountEphemeralPartition")
  /\ mount = "none" /\ mount' = "requested"
  /\ UNCHANGED lifecycle

MountReturns(p) ==
  /\ \E e \in AnyEnd(p) :
       /\ e = "none" => asked[p] /\ mount = "mounted"
       /\ TaskReturns(p, "MountEphemeralPartition", e)
  /\ UNCHANGED <<mainVars, machineVars>>

(* The request is destroyed, if there is one. *)
UnmountEphemeralPartition(p) ==
  /\ \E e \in AnyEnd(p) :
       /\ TaskReturns(p, "UnmountEphemeralPartition", e)
       /\ mount' = IF e = "none" /\ mount # "none" THEN "releasing" ELSE mount
  /\ UNCHANGED <<mainVars, lifecycle, diskVars, emergency>>

TeardownRequested(p) ==
  /\ AsksVolumes(p, "TeardownVolumeLifecycle")
  /\ lifecycle # "gone"
  /\ lifecycle' = IF lifecycle = "running" THEN "tearing" ELSE lifecycle
  /\ UNCHANGED mount

(* The finalizers are gone and the resource is destroyed, there was none,  *)
(* or the five minutes are over, which may always be.                      *)
TeardownReturns(p) ==
  /\ \E e \in {"none", "error"} \union Canceled(p) :
       /\ e = "none" => lifecycle = "gone" \/ (asked[p] /\ lifecycle = "closed")
       /\ TaskReturns(p, "TeardownVolumeLifecycle", e)
       /\ lifecycle' = IF e = "none" THEN "gone" ELSE lifecycle
  /\ UNCHANGED <<mainVars, mount, diskVars, emergency>>

(* The installer replaces the kernel, and may have when it fails. *)
Installer(p) ==
  /\ \E task \in {"Install", "Upgrade"}, e \in AnyEnd(p) :
       /\ TaskReturns(p, task, e)
       /\ kernel' \in {"new"} \union (IF e = "none" THEN {} ELSE {kernel})
  /\ UNCHANGED <<mainVars, volumeVars, kexec, wiped, tag, emergency>>

(* Skipped when a power cycle was asked for, and in many other cases. *)
KexecPrepare(p) ==
  /\ \E e \in AnyEnd(p) :
       /\ TaskReturns(p, "KexecPrepare", e)
       /\ kexec' \in {kexec} \union
            (IF e = "none" /\ kernel # "wiped"
                 /\ ~(data[p].type = "RebootRequest" /\ data[p].mode = "POWERCYCLE")
             THEN {kernel} ELSE {})
  /\ UNCHANGED <<mainVars, volumeVars, kernel, wiped, tag, emergency>>

(* Partitions are wiped, with BOOT the kernel. *)
Wipes(done) ==
  /\ wiped' = wiped \union done
  /\ kernel' = IF "BOOT" \in done THEN "wiped" ELSE kernel

(* The encryption tag is deleted and flushed when STATE goes and META      *)
(* stays; a tag that is not there, or no longer, is not flushed again.     *)
DropsTag(done) ==
  IF "STATE" \in done /\ "META" \notin done /\ tag = "set"
  THEN tag' \in {"set", "deleted", "flushed"} ELSE tag' = tag

TagDropped(done) == "STATE" \in done /\ "META" \notin done /\ tag = "set" => tag' = "flushed"

(* Mutant: what the flush returns replaces the error of a wipe. *)
WipeSpecLastError(targets, done, e) ==
  /\ Wipes(done)
  /\ DropsTag(done)
  /\ (e = "none") = IF "STATE" \in done THEN TagDropped(done) ELSE done = targets

(* ResetSystemDiskSpec: every target is tried, whichever fail. *)
WipeSpec(targets, done, e) ==
  /\ Wipes(done)
  /\ DropsTag(done)
  /\ (e = "none") = (done = targets /\ TagDropped(done))

(* ResetSystemDisk: disk by disk, until one fails. *)
WipeDisk(done, e) ==
  /\ Wipes(done)
  /\ e = "none" => done = Partitions
  /\ tag' = tag

ResetSystemDiskSpec(p) ==
  /\ \E done \in SUBSET data[p].targets, e \in AnyEnd(p) :
       /\ TaskReturns(p, "ResetSystemDiskSpec", e)
       /\ WipeSpec(data[p].targets, done, e)
  /\ UNCHANGED <<mainVars, volumeVars, kexec, emergency>>

ResetSystemDisk(p) ==
  /\ \E done \in SUBSET Partitions, e \in AnyEnd(p) :
       TaskReturns(p, "ResetSystemDisk", e) /\ WipeDisk(done, e)
  /\ UNCHANGED <<mainVars, volumeVars, kexec, emergency>>

(* The command of the task Reboot. *)
RebootCmd == IF kexec # "none" THEN "kexec" ELSE "restart"

(* The kernel argument: "system", here all of the partitions, or some by   *)
(* name; and then the task Reboot.                                         *)
ResetSystemDiskPartitions(p) ==
  /\ \E done \in SUBSET machine.wipe, e \in AnyEnd(p) :
       /\ TaskReturns(p, "ResetSystemDiskPartitions", IF e = "none" THEN RebootCmd ELSE e)
       /\ IF machine.wipe = Partitions THEN WipeDisk(done, e) ELSE WipeSpec(machine.wipe, done, e)
       /\ IF e = "none" THEN Publish(p, RebootCmd) ELSE UNCHANGED mainVars
  /\ UNCHANGED <<volumeVars, kexec, emergency>>

(* The tasks Reboot and Shutdown publish the RestartEvent and return it as *)
(* an error.                                                               *)
RestartTask(p) ==
  /\ \E task \in {"Reboot", "Shutdown"} :
       LET cmd == IF task = "Reboot" THEN RebootCmd ELSE "powerOff" IN
       TaskReturns(p, task, cmd) /\ Publish(p, cmd)
  /\ UNCHANGED machineVars

-----------------------------------------------------------------------------
(* The volume controllers *)

VolumeMounts ==
  /\ Up /\ mount = "requested" /\ lifecycle = "running"
  /\ mount' = "mounted"
  /\ UNCHANGED <<machine, runVars, mainVars, lifecycle, diskVars, emergency, down>>

VolumeUnmounts ==
  /\ Up /\ mount = "releasing"
  /\ mount' = "none"
  /\ UNCHANGED <<machine, runVars, mainVars, lifecycle, diskVars, emergency, down>>

VolumesClose ==
  /\ Up /\ lifecycle = "tearing" /\ mount \in {"none", "requested"}
  /\ lifecycle' = "closed"
  /\ UNCHANGED <<machine, runVars, mainVars, mount, diskVars, emergency, down>>

-----------------------------------------------------------------------------
(* main *)

(* What main does when one of its sequences has returned. *)
MainGoesOn ==
  /\ main \in {"initialize", "install", "boot"}
  /\ Goto(Main, {"returned"}, "idle")
  /\ \/ /\ err[Main] = "none"
        /\ main' = (CASE main = "initialize" -> "install" [] main = "install" -> "boot"
                      [] main = "boot" -> "watch")
        /\ UNCHANGED signal
     \/ /\ err[Main] = "canceled" /\ main # "install"
        /\ main' = "watch"
        /\ UNCHANGED signal
     \/ /\ err[Main] # "none" /\ ~(err[Main] = "canceled" /\ main # "install")
        /\ main' = "over"
        /\ signal' = [by |-> main, cmd |-> IF err[Main] \in RebootCmds THEN err[Main] ELSE "fatal"]
  /\ UNCHANGED <<machine, lockState, req, data, at, todo, asked, err, fails, missed, services, machineVars, down>>

(* runEntrypoint returns, its deferred Shutdown does, and handle tells the  *)
(* kernel.                                                                 *)
GoesDown ==
  /\ Up /\ signal # NoSignal /\ services # "hung"
  /\ StopServices
  /\ down' = IF signal.cmd = "fatal" THEN emergency ELSE signal.cmd
  /\ UNCHANGED <<machine, runVars, main, signal, missed, machineVars>>

(* The deferred Shutdown is the first call, and waits for ever for a        *)
(* service that was loaded and never started.                              *)
ShutdownHangs ==
  /\ Up /\ signal # NoSignal /\ services = "running"
  /\ services' = "hung"
  /\ UNCHANGED <<machine, runVars, main, signal, missed, machineVars, down>>

-----------------------------------------------------------------------------
TaskStep(p) ==
  \/ OtherTask(p) \/ CordonAndDrainNode(p) \/ StoreShutdownEmergency(p)
  \/ StopAllServicesWaits(p) \/ StopAllServices(p)
  \/ MountRequested(p) \/ MountReturns(p) \/ UnmountEphemeralPartition(p)
  \/ TeardownRequested(p) \/ TeardownReturns(p)
  \/ Installer(p) \/ KexecPrepare(p)
  \/ ResetSystemDiskSpec(p) \/ ResetSystemDisk(p) \/ ResetSystemDiskPartitions(p)
  \/ RestartTask(p)

RunStep(p) ==
  \/ LockRefused(p) \/ LockTakesOver(p) \/ LockGranted(p) \/ PhaseEnds(p) \/ Unlock(p)

Rebooted == ~Up /\ UNCHANGED vars

Next ==
  \/ \E p \in Callers : \E r \in machine.asks[p] : Ask(p, r)
  \/ MainCalls \/ MainGoesOn \/ GoesDown \/ ShutdownHangs
  \/ \E p \in Procs : RunStep(p) \/ TaskStep(p) \/ LockTimeout(p)
  \/ VolumeMounts \/ VolumeUnmounts \/ VolumesClose
  \/ Rebooted

Spec == Init /\ [][Next]_vars

(* Whatever can go on goes on: tasks have timeouts or end, but LoadConfig  *)
(* may wait for ever, and so may StopAllServices once it has begun to wait *)
(* for a service that nobody starts; nothing obliges a caller to ask.      *)
Progress ==
  \/ MainCalls \/ MainGoesOn \/ GoesDown
  \/ \E p \in Procs : RunStep(p) \/ ("LoadConfig" \notin todo[p] /\ TaskStep(p))

Fairness == WF_vars(Progress)

FairSpec == Spec /\ Fairness

-----------------------------------------------------------------------------
(* The use of the lock, as SequenceLockSpec has it: whoever is in Lock     *)
(* waits with its request.                                                 *)
Waiting == [p \in Procs |-> IF pc[p] \in {"lock", "await"} THEN req[p] ELSE NoRequest]

TheLock == INSTANCE SequenceLockSpec WITH requests <- Waiting

-----------------------------------------------------------------------------
(* Properties *)

(* The installer works on the disk of an upgraded machine only once every  *)
(* volume on it has been unmounted and closed, however the boot or the     *)
(* sequences before it were cut short (and the state keeps its types).     *)
InstallerHasTheDisk ==
  /\ TypeOK
  /\ \A p \in Procs :
       (Running(p, "Upgrade") /\ req[p].seq = "upgrade") => mount # "mounted" /\ lifecycle = "gone"

(* A request that has got the lock, or is next, cannot begin: its minute   *)
(* is over or its data is of another type.                                 *)
TakeOverFailed == \E q \in Procs : err[q] \in {"timeout", "invalid"}

(* A RestartEvent never announces a kernel that the disk no longer has:    *)
(* kexec is prepared after what replaces the kernel, and not before what   *)
(* wipes it, whichever sequence takes over whichever.  (One that main did  *)
(* not watch for, and one that was interrupted for nothing, leave what     *)
(* they have loaded behind; after the first event main is on its way.)     *)
KexecFresh ==
  [][(signal = NoSignal /\ ~missed' /\ ~TakeOverFailed) =>
       \A p \in Procs : (err'[p] = "kexec" /\ err[p] # "kexec") => kexec = kernel]_vars

(* A sequence that wipes partitions has failed: it may have deleted the    *)
(* tag and not flushed it, and whoever comes after it finds none.          *)
WipeFailed ==
  \E q \in Procs : req[q].seq \in {"reset", "initialize"} /\ err[q] \in {"error", "canceled"}

(* A reset that announces the restart has wiped all that it was asked to,  *)
(* and META no longer has the encryption of a STATE that is gone, unless   *)
(* an earlier wipe has failed.                                             *)
ResetComplete ==
  \A p \in Procs :
    (req[p].seq = "reset" /\ err[p] \in RebootCmds /\ data[p].disk /\ ~machine.container) =>
      IF data[p].targets = {} THEN wiped = Partitions
      ELSE data[p].targets \subseteq wiped /\ ("STATE" \in data[p].targets => 
             tag = "flushed" \/ "META" \in data[p].targets \/ WipeFailed)

(* A shutdown powers the machine off, also when a task of it fails:        *)
(* "store power_off as the intent, it will be picked up by emergency       *)
(* handled in machined/main.go if the Shutdown sequence fails".            *)
ShutdownPowersOff == (~Up /\ signal.by = "shutdown") => down = "powerOff"

(* A stop that is not forced has got past the quorum check and the drain. *)
PastDrain(p) ==
  /\ req[p].seq \in {"shutdown", "upgrade"} /\ ~data[p].force
  /\ pc[p] = "phase"
  /\ \E i \in 1..(at[p] - 1) : "CordonAndDrainNode" \in ThePhases(p)[i].tasks

(* "Treat opengyoza quorum checks like legacy health checks: blocking by   *)
(* default, skippable only when the caller explicitly forces the           *)
(* operation": a server whose stop breaks the quorum does not get past     *)
(* the check.                                                              *)
QuorumCheckBlocks ==
  \A p \in Procs : (PastDrain(p) /\ machine.server) => SafeServerStop(machine.peers)

(* The sequence is in StopAllServices, waiting for a service that was      *)
(* loaded and never started (system.go:382).                               *)
StopWaits(p) == asked[p] /\ "StopAllServices" \in todo[p]

(* A sequence that stops the machine brings it down once it has the lock,  *)
(* or the one that takes it over does: unless the latter's minute in Lock  *)
(* is over before it can begin, the event came before main's watch, or the *)
(* services' Shutdown waits for ever for a service that was loaded and     *)
(* never started, in StopAllServices of a sequence that nobody takes over  *)
(* or in main's deferred call.                                             *)
EndsDown ==
  (\E p \in Procs :
     pc[p] = "phase" /\ req[p].seq \in Sequences \ {"initialize", "install", "boot"})
    ~> (\/ ~Up \/ missed \/ services = "hung"
        \/ \E q \in Procs : err[q] = "timeout"
        \/ [](\E q \in Procs : StopWaits(q)))

=============================================================================
