------------------------------- MODULE Phases -------------------------------
(***************************************************************************)
(* The phase lists of v1alpha1_sequencer.go, for the chubo build: what     *)
(* each sequence does, in which order, on a metal machine and in a         *)
(* container, and which phases go on when a task fails.  A task has the    *)
(* name of its function.                                                   *)
(***************************************************************************)
EXTENDS Sequences

(* What the API handlers pass to Controller.Run as data: the type of the   *)
(* message and its fields that the sequencer looks at.                     *)
Data(type, mode, force) ==
  [type |-> type, mode |-> mode, force |-> force,
   graceful |-> FALSE, reboot |-> FALSE, disk |-> FALSE, targets |-> {}, userDisks |-> FALSE]

NoData == Data("none", "DEFAULT", FALSE)

(* ResetOptions: disk is a wipe mode that resets the system disk, targets  *)
(* the partitions of it that are named, none for all of it.                *)
ResetData(graceful, reboot, disk, targets, userDisks) ==
  [Data("ResetOptions", "DEFAULT", FALSE) EXCEPT
     !.graceful = graceful, !.reboot = reboot, !.disk = disk,
     !.targets = targets, !.userDisks = userDisks]

-----------------------------------------------------------------------------
(* A phase: its tasks, whether their errors are only logged, and the       *)
(* deferred check, "" without.                                             *)
Phase(tasks) == [tasks |-> tasks, log |-> FALSE, check |-> ""]

Checked(check, task) == <<[Phase({task}) EXCEPT !.check = check]>>

(* Append, for phases of one task. *)
List(tasks) == [i \in DOMAIN tasks |-> Phase({tasks[i]})]

When(cond, tasks) == IF cond THEN tasks ELSE <<>>

(* phaseListErrorHandler(logError, ...) and taskErrorHandler. *)
LogErrors(phases) == [i \in DOMAIN phases |-> [phases[i] EXCEPT !.log = TRUE]]

-----------------------------------------------------------------------------
Initialize(container) ==
  IF container
  THEN <<Phase({"StartMachined", "StartContainerd"})>> \o List(<<"LoadConfig">>)
  ELSE List(<<"EnforceKSPPRequirements">>)
       \o <<Phase({"StartUdevd", "StartMachined", "StartAuditd", "StartSyslogd", "StartContainerd"})>>
       \o List(<<"WaitForUSB", "ReloadMeta">>)
       \o Checked("dualBoot", "CleanupBootloader")
       \o Checked("wipe", "ResetSystemDiskPartitions")
       \o Checked("haltIfInstalled", "haltIfInstalled")
       \o List(<<"LoadConfig">>)

Install(container, installed, staged) ==
  IF ~container /\ (~installed \/ staged)
  THEN List(<<"SetUserEnvVars", "Install", "ReloadMeta", "FlushMeta", "TeardownVolumeLifecycle",
              "StopAllServices", "KexecPrepare", "Reboot">>)
  ELSE <<>>

Boot(container) ==
  List(<<"MemorySizeCheck", "DiskSizeCheck">>)
  \o <<Phase({"SetUserEnvVars", "WaitForCARoots"})>>
  \o List(<<"StartDBus">>
          \o When(container, <<"SetupSharedFilesystems">>)
          \o <<"MountEphemeralPartition">>
          \o When(~container, <<"WriteUdevRules", "MountUserDisks">>)
          \o <<"WriteUserFiles", "StartAllServices">>)

stopAllPhaselist(container, kexec) ==
  List(When(~container, <<"StopServicesEphemeral", "UnmountPodMounts", "UnmountSystemDiskBindMounts",
                          "UnmountEphemeralPartition", "TeardownVolumeLifecycle">>
                        \o When(kexec, <<"KexecPrepare">>))
       \o <<"StopAllServices">>)

Reboot(container, in) ==
  (IF in.mode = "FORCE" THEN <<>>
   ELSE List(<<"StopAllPods", "StopDBus">>) \o stopAllPhaselist(container, TRUE))
  \o List(<<"Reboot">>)

(* Mutant: the sequence uses kexec whichever partitions it wipes. *)
ResetWithKexecAll(in) == TRUE

(* "Use kexec if we don't wipe the boot partition." *)
ResetWithKexec(in) == in.targets # {} /\ "BOOT" \notin in.targets

Reset(container, in) ==
  IF container THEN stopAllPhaselist(TRUE, FALSE) \o List(<<"Shutdown">>)
  ELSE LogErrors(List(IF in.graceful THEN <<"CordonAndDrainNode", "RemoveAllPods">>
                                     ELSE <<"StopAllPods">>))
       \o List(<<"StopDBus">> \o When(in.graceful, <<"LeaveClusterMembership">>) \o <<"SendResetSignal">>)
       \o LogErrors(stopAllPhaselist(FALSE, ResetWithKexec(in)))
       \o List(<<"ForceCleanup">>
               \o When(in.targets = {} /\ in.disk, <<"ResetSystemDisk">>)
               \o When(in.targets # {} /\ in.disk, <<"ResetSystemDiskSpec">>)
               \o When(in.userDisks, <<"ResetUserDisks">>)
               \o <<IF in.reboot THEN "Reboot" ELSE "Shutdown">>)

(* Mutant: the intent to power off is stored once the node is drained. *)
ShutdownStoresLate(container, in) ==
  List(When(~in.force, <<"CordonAndDrainNode">>)
       \o <<"StoreShutdownEmergency", "StopAllPods", "StopDBus">>)
  \o stopAllPhaselist(container, FALSE) \o List(<<"Shutdown">>)

Shutdown(container, in) ==
  List(<<"StoreShutdownEmergency">> \o When(~in.force, <<"CordonAndDrainNode">>)
       \o <<"StopAllPods", "StopDBus">>)
  \o stopAllPhaselist(container, FALSE) \o List(<<"Shutdown">>)

StageUpgrade(in) ==
  List(<<"StopAllPods", "StopDBus">>) \o stopAllPhaselist(FALSE, in.mode = "DEFAULT")
  \o List(<<"Reboot">>)

MaintenanceUpgrade(in) ==
  List(<<"Upgrade", "ReloadMeta">> \o When(in.mode = "DEFAULT", <<"KexecPrepare">>)
       \o <<"StopAllServices", "Reboot">>)

(* Mutant: the volumes are not finalized. *)
UpgradeOpen(in) ==
  List(<<"CordonAndDrainNode", "StopAllPods", "StopDBus", "StopServicesEphemeral", "UnmountPodMounts",
         "UnmountSystemDiskBindMounts", "UnmountEphemeralPartition">>)
  \o MaintenanceUpgrade(in)

(* From the installer on, what MaintenanceUpgrade does. *)
Upgrade(in) ==
  List(<<"CordonAndDrainNode", "StopAllPods", "StopDBus", "StopServicesEphemeral", "UnmountPodMounts",
         "UnmountSystemDiskBindMounts", "UnmountEphemeralPartition", "TeardownVolumeLifecycle">>)
  \o MaintenanceUpgrade(in)

-----------------------------------------------------------------------------
(* phases(): the types of data a sequence accepts, any for the others. *)
Accepts(seq) ==
  CASE seq = "shutdown"                                            -> {"ShutdownRequest"}
    [] seq \in {"upgrade", "stageUpgrade", "maintenanceUpgrade"}    -> {"UpgradeRequest"}
    [] seq = "reset"                                               -> {"ResetOptions"}
    [] OTHER -> {"none", "ShutdownRequest", "RebootRequest", "UpgradeRequest", "ResetOptions", "ResetRequest"}

(* A reboot with anything but a RebootRequest is one with none. *)
RebootIn(in) == IF in.type = "RebootRequest" THEN in ELSE NoData

(* The phases of a sequence; the API is not there in a container for the   *)
(* upgrades, which have none.                                              *)
PhasesOf(seq, in, container, installed, staged) ==
  CASE seq = "initialize"         -> Initialize(container)
    [] seq = "install"            -> Install(container, installed, staged)
    [] seq = "boot"               -> Boot(container)
    [] seq = "shutdown"           -> Shutdown(container, in)
    [] seq = "reboot"             -> Reboot(container, RebootIn(in))
    [] seq = "reset"              -> Reset(container, in)
    [] seq = "upgrade"            -> When(~container, Upgrade(in))
    [] seq = "stageUpgrade"       -> When(~container, StageUpgrade(in))
    [] seq = "maintenanceUpgrade" -> When(~container, MaintenanceUpgrade(in))

=============================================================================
