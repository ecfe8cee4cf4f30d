-------------------------- MODULE SequencerProofs ---------------------------
(* Proofs about the sequences and their tasks, for any set of callers, any  *)
(* machines and any number of failures.                                     *)
EXTENDS Sequencer, TLAPS

-----------------------------------------------------------------------------
(* Phase lists: what they have, and in which order. *)

(* The tasks of TaskStep. *)
AllTasks ==
  MayFail \union NeverFails
    \union {"haltIfInstalled", "CordonAndDrainNode", "StoreShutdownEmergency", "StopAllServices",
            "MountEphemeralPartition", "UnmountEphemeralPartition", "TeardownVolumeLifecycle", "Install", "Upgrade", "KexecPrepare",
            "ResetSystemDiskSpec", "ResetSystemDisk", "ResetSystemDiskPartitions", "Reboot", "Shutdown"}

Phased == [tasks : SUBSET AllTasks, log : BOOLEAN, check : {"", "dualBoot", "wipe", "haltIfInstalled"}]

(* No phase has one of the tasks. *)
Without(phases, tasks) == \A i \in 1..Len(phases) : phases[i].tasks \intersect tasks = {}

(* Phase i of the list, which is neither conditional nor logged, has the    *)
(* task.                                                                    *)
Sure(phases, i, task) ==
  i \in 1..Len(phases) /\ phases[i].check = "" /\ ~phases[i].log /\ task \in phases[i].tasks

(* Where the second task is, the first has been before, and has not failed. *)
Before(phases, first, second) ==
  \A j \in 1..Len(phases) : second \in phases[j].tasks => \E i \in 1..(j - 1) : Sure(phases, i, first)

(* One task per phase, and no deferred checks. *)
Simple(phases) ==
  \A i \in 1..Len(phases) : phases[i].check = "" /\ \E task \in AllTasks : phases[i].tasks = {task}

(* The last phase restarts the machine. *)
EndsInRestart(phases) ==
  /\ Len(phases) > 0
  /\ ~phases[Len(phases)].log
  /\ phases[Len(phases)].tasks \in {{"Reboot"}, {"Shutdown"}}

(* Nothing of tasks comes after the task. *)
NotAfter(phases, task, tasks) ==
  \A i, j \in 1..Len(phases) :
    (i < j /\ task \in phases[i].tasks) => phases[j].tasks \intersect tasks = {}

LEMMA TaskNames ==
  /\ {"EnforceKSPPRequirements", "StartUdevd", "StartMachined", "StartAuditd", "StartSyslogd",
      "StartContainerd", "WaitForUSB", "ReloadMeta", "CleanupBootloader", "LoadConfig"} \subseteq AllTasks
  /\ {"MemorySizeCheck", "DiskSizeCheck", "SetUserEnvVars", "WaitForCARoots", "StartDBus",
      "SetupSharedFilesystems", "WriteUdevRules", "MountUserDisks", "WriteUserFiles",
      "StartAllServices"} \subseteq AllTasks
  /\ {"StopServicesEphemeral", "UnmountPodMounts", "UnmountSystemDiskBindMounts",
      "SendResetSignal", "ResetUserDisks", "FlushMeta"} \subseteq AllTasks
  /\ {"StopAllPods", "RemoveAllPods", "StopDBus", "LeaveClusterMembership", "ForceCleanup",
      "StopAllServices"} \subseteq AllTasks
  /\ {"haltIfInstalled", "CordonAndDrainNode", "StoreShutdownEmergency", "MountEphemeralPartition",
      "UnmountEphemeralPartition", "TeardownVolumeLifecycle", "Install", "Upgrade", "KexecPrepare",
      "ResetSystemDiskSpec", "ResetSystemDisk", "ResetSystemDiskPartitions", "Reboot",
      "Shutdown"} \subseteq AllTasks
  BY DEF AllTasks, MayFail, NeverFails, CheckTasks, ServiceTasks, FileTasks, UnmountTasks, MetaTasks

LEMMA PhaseTyped ==
  ASSUME NEW tasks \in SUBSET AllTasks
  PROVE  /\ Phase(tasks) \in Phased
         /\ Phase(tasks).tasks = tasks /\ Phase(tasks).check = "" /\ ~Phase(tasks).log
<1>1. FALSE \in BOOLEAN
  BY Zenon
<1>2. Phase(tasks) \in Phased
  BY <1>1 DEF Phase, Phased
<1> QED BY <1>2 DEF Phase

LEMMA ListTyped ==
  ASSUME NEW s \in Seq(AllTasks)
  PROVE  /\ List(s) \in Seq(Phased)
         /\ Len(List(s)) = Len(s)
         /\ \A i \in 1..Len(s) : List(s)[i] = Phase({s[i]})
<1>1. DOMAIN s = 1..Len(s) /\ Len(s) \in Nat /\ \A i \in 1..Len(s) : s[i] \in AllTasks
  OBVIOUS
<1>2. \A i \in 1..Len(s) : Phase({s[i]}) \in Phased
  BY <1>1, PhaseTyped
<1>3. List(s) = [i \in 1..Len(s) |-> Phase({s[i]})]
  BY <1>1 DEF List
<1> HIDE DEF Phased, Phase
<1> QED BY <1>1, <1>2, <1>3

LEMMA ListConcat ==
  ASSUME NEW s \in Seq(AllTasks), NEW t \in Seq(AllTasks)
  PROVE  List(s \o t) = List(s) \o List(t)
<1>1. s \o t \in Seq(AllTasks) /\ Len(s \o t) = Len(s) + Len(t) /\ Len(s) \in Nat /\ Len(t) \in Nat
  OBVIOUS
<1>2. /\ List(s \o t) \in Seq(Phased) /\ Len(List(s \o t)) = Len(s) + Len(t)
      /\ \A i \in 1..(Len(s) + Len(t)) : List(s \o t)[i] = Phase({(s \o t)[i]})
  BY <1>1, ListTyped
<1>3. /\ List(s) \in Seq(Phased) /\ List(t) \in Seq(Phased)
      /\ List(s) \o List(t) \in Seq(Phased) /\ Len(List(s) \o List(t)) = Len(s) + Len(t)
  BY <1>1, ListTyped
<1> DEFINE w == s \o t  x == List(s)  y == List(t)  z == List(w)
<1>4. /\ \A i \in 1..Len(s) : w[i] = s[i] /\ x[i] = Phase({s[i]})
      /\ \A i \in 1..Len(t) : w[Len(s) + i] = t[i] /\ y[i] = Phase({t[i]})
  BY <1>1, ListTyped
<1>5. /\ \A i \in 1..Len(s) : (x \o y)[i] = x[i]
      /\ \A i \in 1..Len(t) : (x \o y)[Len(s) + i] = y[i]
  BY <1>1, <1>3, ListTyped
<1>6. /\ z \in Seq(Phased) /\ Len(z) = Len(s) + Len(t)
      /\ \A i \in 1..(Len(s) + Len(t)) : z[i] = Phase({w[i]})
  BY <1>2
<1> DEFINE v == x \o y
<1>7. v \in Seq(Phased) /\ Len(v) = Len(s) + Len(t)
  BY <1>3
<1>8. /\ \A i \in 1..Len(s) : v[i] = x[i]
      /\ \A i \in 1..Len(t) : v[Len(s) + i] = y[i]
  BY <1>5
<1> HIDE DEF w, x, y, z, v
<1>9. ASSUME NEW i \in 1..(Len(s) + Len(t)) PROVE z[i] = v[i]
  <2>1. CASE i \in 1..Len(s)
    BY <2>1, <1>1, <1>4, <1>6, <1>8
  <2>2. CASE i \notin 1..Len(s)
    <3>1. i - Len(s) \in 1..Len(t) /\ Len(s) + (i - Len(s)) = i
      BY <2>2, <1>1
    <3>2. w[i] = t[i - Len(s)] /\ v[i] = Phase({t[i - Len(s)]})
      BY <3>1, <1>4, <1>8
    <3> QED BY <3>2, <1>6
  <2> QED BY <2>1, <2>2
<1>10. z = v
  BY <1>1, <1>6, <1>7, <1>9
<1> QED BY <1>10 DEF z, v, w, x, y

LEMMA LogErrorsTyped ==
  ASSUME NEW L \in Seq(Phased)
  PROVE  /\ LogErrors(L) \in Seq(Phased)
         /\ Len(LogErrors(L)) = Len(L)
         /\ \A i \in 1..Len(L) : LogErrors(L)[i].tasks = L[i].tasks /\ LogErrors(L)[i].check = L[i].check
<1>1. DOMAIN L = 1..Len(L) /\ Len(L) \in Nat /\ \A i \in 1..Len(L) : L[i] \in Phased
  OBVIOUS
<1>2. \A i \in 1..Len(L) : /\ [L[i] EXCEPT !.log = TRUE] \in Phased
                           /\ [L[i] EXCEPT !.log = TRUE].tasks = L[i].tasks
                           /\ [L[i] EXCEPT !.log = TRUE].check = L[i].check
  BY <1>1 DEF Phased
<1>3. LogErrors(L) = [i \in 1..Len(L) |-> [L[i] EXCEPT !.log = TRUE]]
  BY <1>1 DEF LogErrors
<1> DEFINE X(i) == [L[i] EXCEPT !.log = TRUE]
<1>4. LogErrors(L) = [i \in 1..Len(L) |-> X(i)]
  BY <1>3
<1>5. \A i \in 1..Len(L) : X(i) \in Phased /\ X(i).tasks = L[i].tasks /\ X(i).check = L[i].check
  BY <1>2
<1> HIDE DEF X, Phased
<1> QED BY <1>1, <1>4, <1>5

(* What a concatenation has from its parts. *)
LEMMA Concat ==
  ASSUME NEW s \in Seq(Phased), NEW t \in Seq(Phased)
  PROVE  /\ s \o t \in Seq(Phased)
         /\ Len(s \o t) = Len(s) + Len(t)
         /\ Len(s) \in Nat /\ Len(t) \in Nat
         /\ \A i \in 1..Len(s) : (s \o t)[i] = s[i]
         /\ \A i \in 1..Len(t) : (s \o t)[Len(s) + i] = t[i]
         /\ \A i \in (Len(s) + 1)..(Len(s) + Len(t)) : (s \o t)[i] = t[i - Len(s)] /\ i - Len(s) \in 1..Len(t)
  OBVIOUS

LEMMA ConcatWithout ==
  ASSUME NEW s \in Seq(Phased), NEW t \in Seq(Phased), NEW T
  PROVE  Without(s \o t, T) <=> Without(s, T) /\ Without(t, T)
<1> DEFINE u == s \o t
<1>1. /\ Len(u) = Len(s) + Len(t) /\ Len(s) \in Nat /\ Len(t) \in Nat
      /\ \A i \in 1..Len(s) : u[i] = s[i]
      /\ \A i \in 1..Len(t) : u[Len(s) + i] = t[i]
      /\ \A i \in (Len(s) + 1)..(Len(s) + Len(t)) : u[i] = t[i - Len(s)] /\ i - Len(s) \in 1..Len(t)
  BY Concat
<1> HIDE DEF u
<1>2. Without(u, T) => Without(s, T)
  BY <1>1 DEF Without
<1>3. ASSUME Without(u, T), NEW i \in 1..Len(t) PROVE t[i].tasks \intersect T = {}
  <2>1. Len(s) + i \in 1..Len(u) /\ u[Len(s) + i] = t[i]
    BY <1>1
  <2> QED BY <2>1, <1>3 DEF Without
<1>4. ASSUME Without(s, T), Without(t, T), NEW i \in 1..Len(u) PROVE u[i].tasks \intersect T = {}
  <2>1. CASE i \in 1..Len(s)
    BY <1>1, <1>4, <2>1 DEF Without
  <2>2. CASE i \in (Len(s) + 1)..(Len(s) + Len(t))
    BY <1>1, <1>4, <2>2 DEF Without
  <2> QED BY <2>1, <2>2, <1>1
<1> QED BY <1>2, <1>3, <1>4 DEF Without, u

LEMMA ConcatSimple ==
  ASSUME NEW s \in Seq(Phased), NEW t \in Seq(Phased), Simple(s), Simple(t)
  PROVE  Simple(s \o t)
<1> DEFINE u == s \o t
<1>1. /\ Len(u) = Len(s) + Len(t) /\ Len(s) \in Nat /\ Len(t) \in Nat
      /\ \A i \in 1..Len(s) : u[i] = s[i]
      /\ \A i \in (Len(s) + 1)..(Len(s) + Len(t)) : u[i] = t[i - Len(s)] /\ i - Len(s) \in 1..Len(t)
  BY Concat
<1> HIDE DEF u
<1> DEFINE One(phase) == phase.check = "" /\ \E task \in AllTasks : phase.tasks = {task}
<1>2. (\A i \in 1..Len(s) : One(s[i])) /\ (\A i \in 1..Len(t) : One(t[i]))
  BY DEF Simple
<1> HIDE DEF One
<1>3. ASSUME NEW i \in 1..Len(u) PROVE One(u[i])
  <2>1. CASE i \in 1..Len(s)
    BY <1>1, <1>2, <2>1
  <2>2. CASE i \in (Len(s) + 1)..(Len(s) + Len(t))
    BY <1>1, <1>2, <2>2
  <2> QED BY <2>1, <2>2, <1>1
<1> QED BY <1>3 DEF Simple, u, One

LEMMA ConcatEnds ==
  ASSUME NEW s \in Seq(Phased), NEW t \in Seq(Phased), EndsInRestart(t)
  PROVE  EndsInRestart(s \o t)
<1>1. /\ Len(s \o t) = Len(s) + Len(t) /\ Len(s) \in Nat /\ Len(t) \in Nat
      /\ \A i \in 1..Len(t) : (s \o t)[Len(s) + i] = t[i]
  BY Concat
<1>2. Len(t) \in 1..Len(t)
  BY <1>1 DEF EndsInRestart
<1> QED BY <1>1, <1>2 DEF EndsInRestart

(* A task that is surely in the first part is before what only the second  *)
(* has.                                                                    *)
LEMMA ConcatBefore ==
  ASSUME NEW s \in Seq(Phased), NEW t \in Seq(Phased), NEW first, NEW second,
         Without(s, {second}), NEW k \in 1..Len(s), Sure(s, k, first)
  PROVE  Before(s \o t, first, second)
<1> DEFINE u == s \o t
<1>1. /\ Len(u) = Len(s) + Len(t) /\ Len(s) \in Nat /\ Len(t) \in Nat
      /\ \A i \in 1..Len(s) : u[i] = s[i]
  BY Concat
<1> HIDE DEF u
<1>2. ASSUME NEW j \in 1..Len(u), second \in u[j].tasks
      PROVE  \E i \in 1..(j - 1) : Sure(u, i, first)
  <2>1. ~(j \in 1..Len(s))
    BY <1>1, <1>2 DEF Without
  <2>2. k \in 1..(j - 1) /\ k \in 1..Len(u)
    BY <1>1, <2>1
  <2>3. Sure(u, k, first)
    BY <1>1, <2>2 DEF Sure
  <2> QED BY <2>2, <2>3
<1> QED BY <1>2 DEF Before, u

LEMMA ConcatBeforeBoth ==
  ASSUME NEW s \in Seq(Phased), NEW t \in Seq(Phased), NEW first, NEW second,
         Without(s, {second}), Before(t, first, second)
  PROVE  Before(s \o t, first, second)
<1> DEFINE u == s \o t
<1>1. /\ Len(u) = Len(s) + Len(t) /\ Len(s) \in Nat /\ Len(t) \in Nat
      /\ \A i \in 1..Len(s) : u[i] = s[i]
      /\ \A i \in 1..Len(t) : u[Len(s) + i] = t[i]
      /\ \A i \in (Len(s) + 1)..(Len(s) + Len(t)) : u[i] = t[i - Len(s)] /\ i - Len(s) \in 1..Len(t)
  BY Concat
<1> HIDE DEF u
<1>2. ASSUME NEW j \in 1..Len(u), second \in u[j].tasks
      PROVE  \E i \in 1..(j - 1) : Sure(u, i, first)
  <2>1. ~(j \in 1..Len(s))
    BY <1>1, <1>2 DEF Without
  <2>2. j - Len(s) \in 1..Len(t) /\ u[j] = t[j - Len(s)]
    BY <1>1, <2>1
  <2>3. PICK i \in 1..((j - Len(s)) - 1) : Sure(t, i, first)
    BY <1>2, <2>2 DEF Before
  <2>4. i \in 1..Len(t) /\ Len(s) + i \in 1..(j - 1) /\ Len(s) + i \in 1..Len(u)
    BY <1>1, <2>2, <2>3
  <2>5. Sure(u, Len(s) + i, first)
    BY <1>1, <2>3, <2>4 DEF Sure
  <2> QED BY <2>4, <2>5
<1> QED BY <1>2 DEF Before, u

LEMMA ConcatNotAfter ==
  ASSUME NEW s \in Seq(Phased), NEW t \in Seq(Phased), NEW task, NEW T,
         NotAfter(s, task, T), NotAfter(t, task, T), Without(s, {task}) \/ Without(t, T)
  PROVE  NotAfter(s \o t, task, T)
<1> DEFINE u == s \o t
<1>1. /\ Len(u) = Len(s) + Len(t) /\ Len(s) \in Nat /\ Len(t) \in Nat
      /\ \A i \in 1..Len(s) : u[i] = s[i]
      /\ \A i \in (Len(s) + 1)..(Len(s) + Len(t)) : u[i] = t[i - Len(s)] /\ i - Len(s) \in 1..Len(t)
  BY Concat
<1> HIDE DEF u
<1>2. ASSUME NEW i \in 1..Len(u), NEW j \in 1..Len(u), i < j, task \in u[i].tasks
      PROVE  u[j].tasks \intersect T = {}
  <2>1. CASE j \in 1..Len(s)
    <3>1. i \in 1..Len(s)
      BY <1>1, <1>2, <2>1
    <3> QED BY <1>1, <1>2, <2>1, <3>1 DEF NotAfter
  <2>2. CASE j \notin 1..Len(s)
    <3>1. j - Len(s) \in 1..Len(t) /\ u[j] = t[j - Len(s)]
      BY <1>1, <2>2
    <3>2. CASE i \in 1..Len(s)
      <4>1. task \in s[i].tasks
        BY <1>1, <1>2, <3>2
      <4>2. Without(t, T)
        BY <3>2, <4>1 DEF Without
      <4> QED BY <3>1, <4>2 DEF Without
    <3>3. CASE i \notin 1..Len(s)
      <4>1. /\ i - Len(s) \in 1..Len(t) /\ u[i] = t[i - Len(s)]
            /\ i - Len(s) < j - Len(s)
        BY <1>1, <1>2, <3>3
      <4> QED BY <1>2, <3>1, <4>1 DEF NotAfter
    <3> QED BY <3>2, <3>3
  <2> QED BY <2>1, <2>2
<1> QED BY <1>2 DEF NotAfter, u

LEMMA WithoutNotAfter ==
  ASSUME NEW s, NEW task, NEW T, Without(s, {task}) \/ Without(s, T)
  PROVE  NotAfter(s, task, T)
  BY DEF Without, NotAfter

(* Wherever the task is, it is alone and its error counts. *)
Alone(phases, task) ==
  \A i \in 1..Len(phases) : task \in phases[i].tasks => ~phases[i].log /\ phases[i].tasks = {task}

LEMMA ConcatAlone ==
  ASSUME NEW s \in Seq(Phased), NEW t \in Seq(Phased), NEW task, Alone(s, task), Alone(t, task)
  PROVE  Alone(s \o t, task)
<1> DEFINE u == s \o t
<1>1. /\ Len(u) = Len(s) + Len(t) /\ Len(s) \in Nat /\ Len(t) \in Nat
      /\ \A i \in 1..Len(s) : u[i] = s[i]
      /\ \A i \in (Len(s) + 1)..(Len(s) + Len(t)) : u[i] = t[i - Len(s)] /\ i - Len(s) \in 1..Len(t)
  BY Concat
<1> HIDE DEF u
<1> DEFINE Ok(phase) == task \in phase.tasks => ~phase.log /\ phase.tasks = {task}
<1>2. (\A i \in 1..Len(s) : Ok(s[i])) /\ (\A i \in 1..Len(t) : Ok(t[i]))
  BY DEF Alone
<1> HIDE DEF Ok
<1>3. ASSUME NEW i \in 1..Len(u) PROVE Ok(u[i])
  <2>1. CASE i \in 1..Len(s)
    BY <1>1, <1>2, <2>1
  <2>2. CASE i \in (Len(s) + 1)..(Len(s) + Len(t))
    BY <1>1, <1>2, <2>2
  <2> QED BY <2>1, <2>2, <1>1
<1> QED BY <1>3 DEF Alone, u, Ok

LEMMA WithoutAlone ==
  ASSUME NEW s, NEW task, NEW T, Without(s, T), task \in T
  PROVE  Alone(s, task)
  BY DEF Alone, Without

-----------------------------------------------------------------------------
(* The names from which List makes phases. *)

Lacks(s, T) == \A i \in 1..Len(s) : s[i] \notin T
Holds(s, x) == \E i \in 1..Len(s) : s[i] = x

LEMMA NamesConcat ==
  ASSUME NEW s \in Seq(AllTasks), NEW t \in Seq(AllTasks)
  PROVE  /\ s \o t \in Seq(AllTasks)
         /\ \A T : Lacks(s, T) /\ Lacks(t, T) => Lacks(s \o t, T)
         /\ \A x : Holds(s, x) \/ Holds(t, x) => Holds(s \o t, x)
<1> DEFINE u == s \o t
<1>1. /\ u \in Seq(AllTasks)
      /\ Len(u) = Len(s) + Len(t) /\ Len(s) \in Nat /\ Len(t) \in Nat
      /\ \A i \in 1..Len(s) : u[i] = s[i]
      /\ \A i \in 1..Len(t) : u[Len(s) + i] = t[i]
      /\ \A i \in (Len(s) + 1)..(Len(s) + Len(t)) : u[i] = t[i - Len(s)] /\ i - Len(s) \in 1..Len(t)
  OBVIOUS
<1> HIDE DEF u
<1>2. ASSUME NEW T, Lacks(s, T), Lacks(t, T), NEW i \in 1..Len(u) PROVE u[i] \notin T
  <2>1. CASE i \in 1..Len(s)
    BY <1>1, <1>2, <2>1 DEF Lacks
  <2>2. CASE i \in (Len(s) + 1)..(Len(s) + Len(t))
    BY <1>1, <1>2, <2>2 DEF Lacks
  <2> QED BY <2>1, <2>2, <1>1
<1>3. ASSUME NEW x, Holds(s, x) PROVE Holds(u, x)
  BY <1>1, <1>3 DEF Holds
<1>4. ASSUME NEW x, Holds(t, x) PROVE Holds(u, x)
  <2>1. PICK i \in 1..Len(t) : t[i] = x
    BY <1>4 DEF Holds
  <2>2. Len(s) + i \in 1..Len(u) /\ u[Len(s) + i] = x
    BY <1>1, <2>1
  <2> QED BY <2>2 DEF Holds
<1> QED BY <1>1, <1>2, <1>3, <1>4 DEF Lacks, u

LEMMA WhenNames ==
  ASSUME NEW s \in Seq(AllTasks), NEW cond
  PROVE  /\ When(cond, s) \in Seq(AllTasks)
         /\ \A T : Lacks(s, T) => Lacks(When(cond, s), T)
         /\ cond => When(cond, s) = s
         /\ ~cond => \A T : Lacks(When(cond, s), T)
<1>1. CASE cond
  BY <1>1 DEF When
<1>2. CASE ~cond
  BY <1>2 DEF When, Lacks
<1> QED BY <1>1, <1>2

(* The phases that List makes of names. *)
LEMMA ListHas ==
  ASSUME NEW s \in Seq(AllTasks)
  PROVE  /\ List(s) \in Seq(Phased)
         /\ Simple(List(s))
         /\ \A x : Alone(List(s), x)
         /\ \A T : Lacks(s, T) => Without(List(s), T)
         /\ \A x : Holds(s, x) => \E i \in 1..Len(List(s)) : Sure(List(s), i, x)
<1> DEFINE L == List(s)
<1>1. /\ L \in Seq(Phased) /\ Len(L) = Len(s)
      /\ \A i \in 1..Len(s) : L[i] = Phase({s[i]})
  BY ListTyped
<1>2. \A i \in 1..Len(s) : s[i] \in AllTasks
  OBVIOUS
<1>3. \A i \in 1..Len(s) : L[i].tasks = {s[i]} /\ L[i].check = "" /\ ~L[i].log
  <2> SUFFICES ASSUME NEW i \in 1..Len(s)
               PROVE  L[i].tasks = {s[i]} /\ L[i].check = "" /\ ~L[i].log
    OBVIOUS
  <2>1. L[i] = Phase({s[i]}) /\ {s[i]} \in SUBSET AllTasks
    BY <1>1, <1>2
  <2> HIDE DEF L
  <2> QED BY <2>1, PhaseTyped
<1> HIDE DEF L
<1>4. Simple(L)
  BY <1>1, <1>2, <1>3 DEF Simple
<1>5. \A x : Alone(L, x)
  BY <1>1, <1>3 DEF Alone
<1>6. ASSUME NEW T, Lacks(s, T), NEW i \in 1..Len(L) PROVE L[i].tasks \intersect T = {}
  <2>1. L[i].tasks = {s[i]} /\ s[i] \notin T
    BY <1>1, <1>3, <1>6 DEF Lacks
  <2> QED BY <2>1
<1>7. \A x : Holds(s, x) => \E i \in 1..Len(L) : Sure(L, i, x)
  BY <1>1, <1>3 DEF Holds, Sure
<1> QED BY <1>1, <1>4, <1>5, <1>6, <1>7 DEF L, Without

LEMMA LogErrorsHas ==
  ASSUME NEW L \in Seq(Phased), Simple(L)
  PROVE  /\ LogErrors(L) \in Seq(Phased)
         /\ Simple(LogErrors(L))
         /\ \A T : Without(L, T) => Without(LogErrors(L), T)
<1>1. /\ LogErrors(L) \in Seq(Phased) /\ Len(LogErrors(L)) = Len(L)
      /\ \A i \in 1..Len(L) : LogErrors(L)[i].tasks = L[i].tasks /\ LogErrors(L)[i].check = L[i].check
  BY LogErrorsTyped
<1>2. Simple(LogErrors(L))
  BY <1>1 DEF Simple
<1>3. \A T : Without(L, T) => Without(LogErrors(L), T)
  BY <1>1 DEF Without
<1> QED BY <1>1, <1>2, <1>3

-----------------------------------------------------------------------------
(* The lists of the sequences. *)

(* Tasks that may change the kernel on the disk, and the last ones. *)
KernelTasks == {"Install", "Upgrade", "ResetSystemDisk", "ResetSystemDiskPartitions", "ResetSystemDiskSpec"}
RestartTasks == {"Reboot", "Shutdown"}

LEMMA StopAllHas ==
  ASSUME NEW container, NEW kx
  PROVE  /\ stopAllPhaselist(container, kx) \in Seq(Phased)
         /\ Simple(stopAllPhaselist(container, kx))
         /\ Without(stopAllPhaselist(container, kx), KernelTasks \union RestartTasks)
         /\ ~kx => Without(stopAllPhaselist(container, kx), {"KexecPrepare"})
<1> DEFINE A == <<"StopServicesEphemeral", "UnmountPodMounts", "UnmountSystemDiskBindMounts",
                  "UnmountEphemeralPartition", "TeardownVolumeLifecycle">>
           B == <<"KexecPrepare">>
           C == <<"StopAllServices">>
           T == KernelTasks \union RestartTasks
<1>0. A \in Seq(AllTasks) /\ B \in Seq(AllTasks) /\ C \in Seq(AllTasks)
  BY TaskNames
<1>a. /\ Lacks(A, T) /\ Lacks(B, T) /\ Lacks(C, T)
      /\ Lacks(A, {"KexecPrepare"}) /\ Lacks(C, {"KexecPrepare"})
  BY DEF Lacks, KernelTasks, RestartTasks
<1>1. /\ A \in Seq(AllTasks) /\ B \in Seq(AllTasks) /\ C \in Seq(AllTasks)
      /\ Lacks(A, T) /\ Lacks(B, T) /\ Lacks(C, T)
      /\ Lacks(A, {"KexecPrepare"}) /\ Lacks(C, {"KexecPrepare"})
  BY <1>0, <1>a
<1>2. stopAllPhaselist(container, kx) = List(When(~container, A \o When(kx, B)) \o C)
  BY DEF stopAllPhaselist
<1> HIDE DEF A, B, C, T
<1>3. /\ When(kx, B) \in Seq(AllTasks) /\ Lacks(When(kx, B), T)
      /\ ~kx => Lacks(When(kx, B), {"KexecPrepare"})
  BY <1>1, WhenNames
<1>4. /\ A \o When(kx, B) \in Seq(AllTasks) /\ Lacks(A \o When(kx, B), T)
      /\ ~kx => Lacks(A \o When(kx, B), {"KexecPrepare"})
  BY <1>1, <1>3, NamesConcat
<1> DEFINE D == When(~container, A \o When(kx, B))
<1>5. /\ D \in Seq(AllTasks) /\ Lacks(D, T)
      /\ ~kx => Lacks(D, {"KexecPrepare"})
  BY <1>4, WhenNames
<1> HIDE DEF D
<1>6. /\ D \o C \in Seq(AllTasks) /\ Lacks(D \o C, T)
      /\ ~kx => Lacks(D \o C, {"KexecPrepare"})
  BY <1>1, <1>5, NamesConcat
<1>7. /\ List(D \o C) \in Seq(Phased) /\ Simple(List(D \o C)) /\ Without(List(D \o C), T)
      /\ ~kx => Without(List(D \o C), {"KexecPrepare"})
  BY <1>6, ListHas
<1> QED BY <1>2, <1>7 DEF D, T

LEMMA InitializeHas ==
  ASSUME NEW container
  PROVE  /\ Initialize(container) \in Seq(Phased)
         /\ Alone(Initialize(container), "ResetSystemDiskPartitions")
         /\ Without(Initialize(container), {"ResetSystemDiskSpec", "KexecPrepare"})
<1> DEFINE T == {"ResetSystemDiskSpec", "KexecPrepare"}
           P == <<Phase({"StartMachined", "StartContainerd"})>>
           Q == <<Phase({"StartUdevd", "StartMachined", "StartAuditd", "StartSyslogd", "StartContainerd"})>>
           L1 == List(<<"LoadConfig">>)
           L2 == List(<<"EnforceKSPPRequirements">>)
           L3 == List(<<"WaitForUSB", "ReloadMeta">>)
           C1 == Checked("dualBoot", "CleanupBootloader")
           C2 == Checked("wipe", "ResetSystemDiskPartitions")
           C3 == Checked("haltIfInstalled", "haltIfInstalled")
           R == "ResetSystemDiskPartitions"
<1>1. /\ <<"LoadConfig">> \in Seq(AllTasks) /\ Lacks(<<"LoadConfig">>, T)
      /\ <<"EnforceKSPPRequirements">> \in Seq(AllTasks) /\ Lacks(<<"EnforceKSPPRequirements">>, T)
      /\ <<"WaitForUSB", "ReloadMeta">> \in Seq(AllTasks) /\ Lacks(<<"WaitForUSB", "ReloadMeta">>, T)
  BY TaskNames DEF Lacks
<1>2. \A l \in {L1, L2, L3} : l \in Seq(Phased) /\ Alone(l, R) /\ Without(l, T)
  <2>1. L1 \in Seq(Phased) /\ Alone(L1, R) /\ Without(L1, T)
    BY <1>1, ListHas
  <2>2. L2 \in Seq(Phased) /\ Alone(L2, R) /\ Without(L2, T)
    BY <1>1, ListHas
  <2>3. L3 \in Seq(Phased) /\ Alone(L3, R) /\ Without(L3, T)
    BY <1>1, ListHas
  <2> QED BY <2>1, <2>2, <2>3
<1>3. ASSUME NEW phase \in Phased, phase.tasks \intersect T = {},
             R \in phase.tasks => ~phase.log /\ phase.tasks = {R}
      PROVE  <<phase>> \in Seq(Phased) /\ Alone(<<phase>>, R) /\ Without(<<phase>>, T)
  <2>1. <<phase>> \in Seq(Phased) /\ Len(<<phase>>) = 1 /\ <<phase>>[1] = phase
    BY <1>3
  <2>2. \A i \in 1..Len(<<phase>>) : <<phase>>[i] = phase
    BY <2>1
  <2> QED BY <1>3, <2>1, <2>2 DEF Alone, Without
<1>4. P \in Seq(Phased) /\ Alone(P, R) /\ Without(P, T)
  <2> DEFINE X == {"StartMachined", "StartContainerd"}
  <2>1. X \in SUBSET AllTasks /\ X \intersect T = {} /\ R \notin X
    BY TaskNames
  <2> HIDE DEF X
  <2>2. Phase(X) \in Phased /\ Phase(X).tasks = X
    BY <2>1, PhaseTyped
  <2> QED BY <2>1, <2>2, <1>3 DEF X
<1>5. Q \in Seq(Phased) /\ Alone(Q, R) /\ Without(Q, T)
  <2> DEFINE X == {"StartUdevd", "StartMachined", "StartAuditd", "StartSyslogd", "StartContainerd"}
  <2>1. X \in SUBSET AllTasks /\ X \intersect T = {} /\ R \notin X
    BY TaskNames
  <2> HIDE DEF X
  <2>2. Phase(X) \in Phased /\ Phase(X).tasks = X
    BY <2>1, PhaseTyped
  <2> QED BY <2>1, <2>2, <1>3 DEF X
<1>6. ASSUME NEW c \in {"dualBoot", "wipe", "haltIfInstalled"}, NEW x \in AllTasks, x \notin T
      PROVE  Checked(c, x) \in Seq(Phased) /\ Alone(Checked(c, x), R) /\ Without(Checked(c, x), T)
  <2> DEFINE F == Phase({x})  G == [F EXCEPT !.check = c]
  <2>1. F \in Phased /\ F.tasks = {x} /\ ~F.log
    BY PhaseTyped
  <2> HIDE DEF F
  <2>2. G \in Phased /\ G.tasks = {x} /\ ~G.log
    BY <2>1 DEF Phased
  <2>3. Checked(c, x) = <<G>>
    BY DEF Checked, F
  <2> HIDE DEF G
  <2>4. G.tasks \intersect T = {} /\ (R \in G.tasks => ~G.log /\ G.tasks = {R})
    BY <1>6, <2>2
  <2> QED BY <2>2, <2>3, <2>4, <1>3
<1>7. \A l \in {C1, C2, C3} : l \in Seq(Phased) /\ Alone(l, R) /\ Without(l, T)
  <2>1. C1 \in Seq(Phased) /\ Alone(C1, R) /\ Without(C1, T)
    BY <1>6, TaskNames
  <2>2. C2 \in Seq(Phased) /\ Alone(C2, R) /\ Without(C2, T)
    BY <1>6, TaskNames
  <2>3. C3 \in Seq(Phased) /\ Alone(C3, R) /\ Without(C3, T)
    BY <1>6, TaskNames
  <2> QED BY <2>1, <2>2, <2>3
<1>8. Initialize(container) = IF container THEN P \o L1 ELSE L2 \o Q \o L3 \o C1 \o C2 \o C3 \o L1
  BY DEF Initialize
<1> HIDE DEF T, P, Q, L1, L2, L3, C1, C2, C3, R
<1>9. ASSUME NEW s \in Seq(Phased), NEW t \in Seq(Phased), Alone(s, R), Alone(t, R),
             Without(s, T), Without(t, T)
      PROVE  s \o t \in Seq(Phased) /\ Alone(s \o t, R) /\ Without(s \o t, T)
  BY <1>9, Concat, ConcatAlone, ConcatWithout
<1> DEFINE Good(l) == l \in Seq(Phased) /\ Alone(l, R) /\ Without(l, T)
<1>10. \A s, t : Good(s) /\ Good(t) => Good(s \o t)
  BY <1>9
<1>11. Good(P) /\ Good(Q) /\ Good(L1) /\ Good(L2) /\ Good(L3) /\ Good(C1) /\ Good(C2) /\ Good(C3)
  BY <1>2, <1>4, <1>5, <1>7
<1> HIDE DEF Good
<1>12. Good(P \o L1)
  BY <1>10, <1>11
<1>13. Good(L2 \o Q \o L3)
  BY <1>10, <1>11
<1>14. Good(L2 \o Q \o L3 \o C1 \o C2)
  BY <1>10, <1>11, <1>13
<1>15. Good(L2 \o Q \o L3 \o C1 \o C2 \o C3 \o L1)
  BY <1>10, <1>11, <1>14
<1> QED BY <1>8, <1>12, <1>15 DEF Good, T, R

LEMMA BootHas ==
  ASSUME NEW container
  PROVE  /\ Boot(container) \in Seq(Phased)
         /\ Without(Boot(container), {"KexecPrepare"} \union KernelTasks)
<1> DEFINE T == {"KexecPrepare"} \union KernelTasks
           A == <<"MemorySizeCheck", "DiskSizeCheck">>
           X == {"SetUserEnvVars", "WaitForCARoots"}
           B == <<"StartDBus">>
           C == <<"SetupSharedFilesystems">>
           D == <<"MountEphemeralPartition">>
           E == <<"WriteUdevRules", "MountUserDisks">>
           F == <<"WriteUserFiles", "StartAllServices">>
           W == When(container, C)
           V == When(~container, E)
<1>1. Boot(container) = List(A) \o <<Phase(X)>> \o List(B \o W \o D \o V \o F)
  BY DEF Boot
<1> DEFINE Good(s) == s \in Seq(AllTasks) /\ Lacks(s, T)
<1>2. Good(A) /\ Good(B) /\ Good(C) /\ Good(D) /\ Good(E) /\ Good(F)
  <2>1. Good(A) /\ Good(B)
    BY TaskNames DEF Lacks, KernelTasks
  <2>2. Good(C) /\ Good(D)
    BY TaskNames DEF Lacks, KernelTasks
  <2>3. Good(E) /\ Good(F)
    BY TaskNames DEF Lacks, KernelTasks
  <2> QED BY <2>1, <2>2, <2>3
<1>3. X \in SUBSET AllTasks /\ X \intersect T = {}
  BY TaskNames DEF KernelTasks
<1> HIDE DEF A, B, C, D, E, F, T, X
<1>4. Good(W) /\ Good(V)
  BY <1>2, WhenNames
<1>5. \A s, t : Good(s) /\ Good(t) => Good(s \o t)
  BY NamesConcat
<1> HIDE DEF Good, W, V
<1>6. Good(B \o W \o D)
  BY <1>2, <1>4, <1>5
<1>7. Good(B \o W \o D \o V \o F)
  BY <1>2, <1>4, <1>5, <1>6
<1> DEFINE G == B \o W \o D \o V \o F
<1>8. Good(G)
  BY <1>7
<1> HIDE DEF G
<1>9. /\ List(A) \in Seq(Phased) /\ Without(List(A), T)
      /\ List(G) \in Seq(Phased) /\ Without(List(G), T)
  BY <1>2, <1>8, ListHas DEF Good
<1> DEFINE P == Phase(X)
<1>10. P \in Phased /\ P.tasks = X
  BY <1>3, PhaseTyped
<1> HIDE DEF P
<1>11. <<P>> \in Seq(Phased) /\ Without(<<P>>, T)
  <2>1. <<P>> \in Seq(Phased) /\ \A i \in 1..Len(<<P>>) : <<P>>[i] = P
    BY <1>10
  <2> QED BY <2>1, <1>10, <1>3 DEF Without
<1>12. List(A) \o <<P>> \in Seq(Phased) /\ Without(List(A) \o <<P>>, T)
  BY <1>9, <1>11, Concat, ConcatWithout
<1>13. /\ (List(A) \o <<P>>) \o List(G) \in Seq(Phased)
       /\ Without((List(A) \o <<P>>) \o List(G), T)
  BY <1>9, <1>12, Concat, ConcatWithout
<1> QED BY <1>1, <1>13 DEF G, P, T

(* Install: what replaces the kernel comes before kexec is prepared. *)
LEMMA InstallHas ==
  ASSUME NEW container, NEW installed, NEW staged
  PROVE  LET L == Install(container, installed, staged) IN
         /\ L \in Seq(Phased) /\ Simple(L)
         /\ Len(L) > 0 => EndsInRestart(L)
         /\ NotAfter(L, "KexecPrepare", KernelTasks)
         /\ Without(L, {"ResetSystemDiskSpec", "ResetSystemDiskPartitions"})
<1> DEFINE A == <<"SetUserEnvVars", "Install", "ReloadMeta", "FlushMeta", "TeardownVolumeLifecycle",
                  "StopAllServices", "KexecPrepare", "Reboot">>
           T == {"ResetSystemDiskSpec", "ResetSystemDiskPartitions"}
<1>1. A \in Seq(AllTasks)
  BY TaskNames
<1>2. Lacks(A, T)
  BY DEF Lacks
<1>3. /\ Len(A) = 8 /\ A[8] = "Reboot" /\ \A i \in 1..8 : A[i] = "KexecPrepare" => i = 7
      /\ A[8] \notin KernelTasks
  BY DEF KernelTasks
<1> HIDE DEF A
<1> DEFINE L == List(A)
<1>4. /\ L \in Seq(Phased) /\ Simple(L) /\ Without(L, T) /\ Len(L) = 8
      /\ \A i \in 1..8 : L[i] = Phase({A[i]})
  BY <1>1, <1>2, <1>3, ListHas, ListTyped
<1>5. \A i \in 1..8 : L[i].tasks = {A[i]} /\ ~L[i].log
  <2> SUFFICES ASSUME NEW i \in 1..8 PROVE L[i].tasks = {A[i]} /\ ~L[i].log
    OBVIOUS
  <2>0. i \in 1..Len(A)
    BY <1>3
  <2>a. A[i] \in AllTasks
    BY <1>1, <2>0
  <2>1. {A[i]} \in SUBSET AllTasks
    BY <2>a
  <2>2. L[i] = Phase({A[i]})
    BY <1>4
  <2> HIDE DEF L
  <2> QED BY <2>1, <2>2, PhaseTyped
<1> HIDE DEF L
<1>6. EndsInRestart(L)
  BY <1>3, <1>4, <1>5 DEF EndsInRestart
<1>7. NotAfter(L, "KexecPrepare", KernelTasks)
  <2>1. ASSUME NEW i \in 1..8, NEW j \in 1..8, i < j, "KexecPrepare" \in L[i].tasks
        PROVE  L[j].tasks \intersect KernelTasks = {}
    <3>1. i = 7 /\ j = 8
      BY <1>3, <1>5, <2>1
    <3> QED BY <3>1, <1>3, <1>5
  <2> QED BY <2>1, <1>4 DEF NotAfter
<1>8. /\ <<>> \in Seq(Phased) /\ Simple(<<>>) /\ Len(<<>>) = 0
      /\ NotAfter(<<>>, "KexecPrepare", KernelTasks) /\ Without(<<>>, T)
  BY DEF Simple, NotAfter, Without
<1>9. CASE Install(container, installed, staged) = L
  BY <1>4, <1>6, <1>7, <1>9
<1>10. CASE Install(container, installed, staged) = <<>>
  <2>1. ~(Len(<<>>) > 0)
    BY <1>8
  <2> QED BY <1>8, <1>10, <2>1
<1> QED BY <1>9, <1>10 DEF Install, L, A

LEMMA RestartLast ==
  ASSUME NEW x \in RestartTasks
  PROVE  LET L == List(<<x>>) IN
         /\ L \in Seq(Phased) /\ Simple(L) /\ EndsInRestart(L)
         /\ \A T : x \notin T => Without(L, T)
<1>1. x \in AllTasks
  BY TaskNames DEF RestartTasks
<1> DEFINE B == <<x>>
<1>2. B \in Seq(AllTasks) /\ Len(B) = 1 /\ B[1] = x
  BY <1>1
<1> HIDE DEF B
<1>3. \A T : x \notin T => Lacks(B, T)
  BY <1>2 DEF Lacks
<1>4. List(B) \in Seq(Phased) /\ Simple(List(B)) /\ \A T : x \notin T => Without(List(B), T)
  BY <1>2, <1>3, ListHas
<1>5. Len(List(B)) = 1 /\ List(B)[1] = Phase({x})
  BY <1>2, ListTyped
<1>6. Phase({x}).tasks = {x} /\ ~Phase({x}).log
  BY <1>1, PhaseTyped
<1>7. EndsInRestart(List(B))
  BY <1>5, <1>6 DEF EndsInRestart, RestartTasks
<1> QED BY <1>4, <1>7 DEF B

LEMMA RebootHas ==
  ASSUME NEW container, NEW in
  PROVE  LET L == Reboot(container, in) IN
         /\ L \in Seq(Phased) /\ Simple(L) /\ EndsInRestart(L)
         /\ Without(L, KernelTasks)
<1> DEFINE A == <<"StopAllPods", "StopDBus">>
           B == <<"Reboot">>
           S == stopAllPhaselist(container, TRUE)
<1>1. A \in Seq(AllTasks) /\ Lacks(A, KernelTasks)
  BY TaskNames DEF Lacks, KernelTasks
<1>2. Reboot(container, in) = (IF in.mode = "FORCE" THEN <<>> ELSE List(A) \o S) \o List(B)
  BY DEF Reboot
<1> HIDE DEF A, B
<1>3. S \in Seq(Phased) /\ Simple(S) /\ Without(S, KernelTasks)
  BY StopAllHas DEF Without
<1> HIDE DEF S
<1>4. List(A) \in Seq(Phased) /\ Simple(List(A)) /\ Without(List(A), KernelTasks)
  BY <1>1, ListHas
<1>5. /\ List(B) \in Seq(Phased) /\ Simple(List(B)) /\ EndsInRestart(List(B))
      /\ Without(List(B), KernelTasks)
  <2>1. "Reboot" \in RestartTasks /\ "Reboot" \notin KernelTasks
    BY DEF RestartTasks, KernelTasks
  <2> QED BY <2>1, RestartLast DEF B
<1> DEFINE D == IF in.mode = "FORCE" THEN <<>> ELSE List(A) \o S
<1>6. D \in Seq(Phased) /\ Simple(D) /\ Without(D, KernelTasks)
  <2>1. <<>> \in Seq(Phased) /\ Simple(<<>>) /\ Without(<<>>, KernelTasks)
    BY DEF Simple, Without
  <2>2. List(A) \o S \in Seq(Phased) /\ Simple(List(A) \o S) /\ Without(List(A) \o S, KernelTasks)
    BY <1>3, <1>4, Concat, ConcatSimple, ConcatWithout
  <2> QED BY <2>1, <2>2
<1>7. Reboot(container, in) = D \o List(B)
  BY <1>2
<1> HIDE DEF D
<1> QED BY <1>4, <1>5, <1>6, <1>7, Concat, ConcatSimple, ConcatWithout, ConcatEnds

LEMMA ShutdownHas ==
  ASSUME NEW container, NEW in
  PROVE  LET L == Shutdown(container, in) IN
         /\ L \in Seq(Phased) /\ Simple(L) /\ EndsInRestart(L)
         /\ Without(L, KernelTasks \union {"Reboot"})
         /\ Sure(L, 1, "StoreShutdownEmergency")
<1> DEFINE T == KernelTasks \union {"Reboot"}
           A == <<"StoreShutdownEmergency">>
           W == When(~in.force, <<"CordonAndDrainNode">>)
           B == <<"StopAllPods", "StopDBus">>
           S == stopAllPhaselist(container, FALSE)
           Z == List(<<"Shutdown">>)
<1>1. Shutdown(container, in) = List(A \o W \o B) \o S \o Z
  BY DEF Shutdown
<1>2. /\ A \in Seq(AllTasks) /\ Lacks(A, T) /\ Len(A) = 1 /\ A[1] = "StoreShutdownEmergency"
      /\ B \in Seq(AllTasks) /\ Lacks(B, T)
  BY TaskNames DEF Lacks, KernelTasks
<1>3. W \in Seq(AllTasks) /\ Lacks(W, T)
  <2>1. <<"CordonAndDrainNode">> \in Seq(AllTasks) /\ Lacks(<<"CordonAndDrainNode">>, T)
    BY TaskNames DEF Lacks, KernelTasks
  <2> QED BY <2>1, WhenNames
<1>4. Z \in Seq(Phased) /\ Simple(Z) /\ EndsInRestart(Z) /\ Without(Z, T)
  BY RestartLast DEF RestartTasks, KernelTasks
<1>5. S \in Seq(Phased) /\ Simple(S) /\ Without(S, T)
  <2>1. T \subseteq KernelTasks \union RestartTasks
    BY DEF RestartTasks
  <2>2. S \in Seq(Phased) /\ Simple(S) /\ Without(S, KernelTasks \union RestartTasks)
    BY StopAllHas
  <2> HIDE DEF S, T
  <2> QED BY <2>1, <2>2 DEF Without
<1> HIDE DEF A, B, W, S, Z, T
<1> DEFINE N == A \o W \o B
<1>6. N \in Seq(AllTasks) /\ Lacks(N, T)
  BY <1>2, <1>3, NamesConcat
<1>7. Len(N) > 0 /\ N[1] = "StoreShutdownEmergency"
  <2>1. A \o W \in Seq(AllTasks) /\ Len(A \o W) > 0 /\ (A \o W)[1] = "StoreShutdownEmergency"
    BY <1>2, <1>3
  <2> QED BY <2>1, <1>2
<1> HIDE DEF N
<1>8. List(N) \in Seq(Phased) /\ Simple(List(N)) /\ Without(List(N), T)
  BY <1>6, ListHas
<1>9. 1 \in 1..Len(List(N)) /\ List(N)[1] = Phase({"StoreShutdownEmergency"})
  BY <1>6, <1>7, ListTyped
<1>10. Sure(List(N), 1, "StoreShutdownEmergency")
  <2>1. {"StoreShutdownEmergency"} \in SUBSET AllTasks
    BY TaskNames
  <2> DEFINE P == Phase({"StoreShutdownEmergency"})
  <2>2. P.tasks = {"StoreShutdownEmergency"} /\ P.check = "" /\ ~P.log
    BY <2>1, PhaseTyped
  <2> HIDE DEF P
  <2> QED BY <1>9, <2>2 DEF Sure, P
<1>11. List(N) \o S \in Seq(Phased) /\ Simple(List(N) \o S) /\ Without(List(N) \o S, T)
  BY <1>5, <1>8, Concat, ConcatSimple, ConcatWithout
<1> DEFINE M == List(N) \o S
<1>12. /\ M \o Z \in Seq(Phased) /\ Simple(M \o Z) /\ Without(M \o Z, T) /\ EndsInRestart(M \o Z)
  BY <1>4, <1>11, Concat, ConcatSimple, ConcatWithout, ConcatEnds
<1>13. (M \o Z)[1] = List(N)[1] /\ 1 \in 1..Len(M \o Z)
  <2>1. M[1] = List(N)[1] /\ 1 \in 1..Len(M)
    BY <1>5, <1>8, <1>9, Concat
  <2> QED BY <2>1, <1>4, <1>11, Concat
<1>14. Sure(M \o Z, 1, "StoreShutdownEmergency")
  BY <1>10, <1>13 DEF Sure
<1> QED BY <1>1, <1>12, <1>14 DEF N, T

LEMMA StageUpgradeHas ==
  ASSUME NEW in
  PROVE  LET L == StageUpgrade(in) IN
         /\ L \in Seq(Phased) /\ Simple(L) /\ EndsInRestart(L)
         /\ Without(L, KernelTasks)
<1> DEFINE A == <<"StopAllPods", "StopDBus">>
           S == stopAllPhaselist(FALSE, in.mode = "DEFAULT")
           Z == List(<<"Reboot">>)
<1>1. StageUpgrade(in) = List(A) \o S \o Z
  BY DEF StageUpgrade
<1>2. A \in Seq(AllTasks) /\ Lacks(A, KernelTasks)
  BY TaskNames DEF Lacks, KernelTasks
<1>3. Z \in Seq(Phased) /\ Simple(Z) /\ EndsInRestart(Z) /\ Without(Z, KernelTasks)
  BY RestartLast DEF RestartTasks, KernelTasks
<1>4. S \in Seq(Phased) /\ Simple(S) /\ Without(S, KernelTasks)
  BY StopAllHas DEF Without
<1> HIDE DEF A, S, Z
<1>5. List(A) \in Seq(Phased) /\ Simple(List(A)) /\ Without(List(A), KernelTasks)
  BY <1>2, ListHas
<1>6. /\ List(A) \o S \in Seq(Phased) /\ Simple(List(A) \o S)
      /\ Without(List(A) \o S, KernelTasks)
  BY <1>4, <1>5, Concat, ConcatSimple, ConcatWithout
<1> QED BY <1>1, <1>3, <1>6, Concat, ConcatSimple, ConcatWithout, ConcatEnds

LEMMA MaintenanceUpgradeHas ==
  ASSUME NEW in
  PROVE  LET L == MaintenanceUpgrade(in) IN
         /\ L \in Seq(Phased) /\ Simple(L) /\ EndsInRestart(L)
         /\ Without(L, {"ResetSystemDiskSpec", "ResetSystemDiskPartitions"})
         /\ NotAfter(L, "KexecPrepare", KernelTasks)
<1> DEFINE T == {"ResetSystemDiskSpec", "ResetSystemDiskPartitions"}
           A == <<"Upgrade", "ReloadMeta">>
           W == When(in.mode = "DEFAULT", <<"KexecPrepare">>)
           B == <<"StopAllServices", "Reboot">>
<1>1. MaintenanceUpgrade(in) = List(A \o W \o B)
  BY DEF MaintenanceUpgrade
<1>2. /\ A \in Seq(AllTasks) /\ Lacks(A, T) /\ Lacks(A, {"KexecPrepare"})
      /\ B \in Seq(AllTasks) /\ Lacks(B, T) /\ Lacks(B, KernelTasks) /\ Len(B) = 2 /\ B[2] = "Reboot"
  BY TaskNames DEF Lacks, KernelTasks
<1>3. W \in Seq(AllTasks) /\ Lacks(W, T) /\ Lacks(W, KernelTasks)
  <2>1. /\ <<"KexecPrepare">> \in Seq(AllTasks) /\ Lacks(<<"KexecPrepare">>, T)
        /\ Lacks(<<"KexecPrepare">>, KernelTasks)
    BY TaskNames DEF Lacks, KernelTasks
  <2> QED BY <2>1, WhenNames
<1> HIDE DEF A, B, W, T
<1>4. A \o W \in Seq(AllTasks)
  BY <1>2, <1>3, NamesConcat
<1>5. List(A \o W \o B) = (List(A) \o List(W)) \o List(B)
  BY <1>2, <1>3, <1>4, ListConcat
<1>6. /\ List(A) \in Seq(Phased) /\ Simple(List(A)) /\ Without(List(A), T)
      /\ Without(List(A), {"KexecPrepare"})
      /\ List(W) \in Seq(Phased) /\ Simple(List(W)) /\ Without(List(W), T)
      /\ Without(List(W), KernelTasks)
      /\ List(B) \in Seq(Phased) /\ Simple(List(B)) /\ Without(List(B), T)
      /\ Without(List(B), KernelTasks)
  BY <1>2, <1>3, ListHas
<1>7. EndsInRestart(List(B))
  <2>1. Len(List(B)) = 2 /\ List(B)[2] = Phase({"Reboot"})
    BY <1>2, ListTyped
  <2>2. Phase({"Reboot"}).tasks = {"Reboot"} /\ ~Phase({"Reboot"}).log
    BY PhaseTyped, TaskNames
  <2> QED BY <2>1, <2>2 DEF EndsInRestart
<1> DEFINE X == List(A)  Y == List(W)  Z == List(B)
<1> HIDE DEF X, Y, Z
<1>8. NotAfter(X, "KexecPrepare", KernelTasks) /\ NotAfter(Y, "KexecPrepare", KernelTasks)
      /\ NotAfter(Z, "KexecPrepare", KernelTasks)
  BY <1>6, WithoutNotAfter DEF X, Y, Z
<1>9. X \o Y \in Seq(Phased) /\ Simple(X \o Y) /\ Without(X \o Y, T)
  BY <1>6, Concat, ConcatSimple, ConcatWithout DEF X, Y
<1>10. NotAfter(X \o Y, "KexecPrepare", KernelTasks)
  BY <1>6, <1>8, ConcatNotAfter DEF X, Y
<1>11. /\ (X \o Y) \o Z \in Seq(Phased) /\ Simple((X \o Y) \o Z) /\ Without((X \o Y) \o Z, T)
       /\ EndsInRestart((X \o Y) \o Z)
  BY <1>6, <1>7, <1>9, Concat, ConcatSimple, ConcatWithout, ConcatEnds DEF Z
<1>12. NotAfter((X \o Y) \o Z, "KexecPrepare", KernelTasks)
  BY <1>6, <1>8, <1>9, <1>10, ConcatNotAfter DEF Z
<1> QED BY <1>1, <1>5, <1>11, <1>12 DEF X, Y, Z, T

(* Upgrade: the volumes are finalized before the installer runs. *)
LEMMA UpgradeHas ==
  ASSUME NEW in
  PROVE  LET L == Upgrade(in) IN
         /\ L \in Seq(Phased) /\ Simple(L) /\ EndsInRestart(L)
         /\ Without(L, {"ResetSystemDiskSpec", "ResetSystemDiskPartitions"})
         /\ NotAfter(L, "KexecPrepare", KernelTasks)
         /\ Before(L, "TeardownVolumeLifecycle", "Upgrade")
<1> DEFINE T == {"ResetSystemDiskSpec", "ResetSystemDiskPartitions"}
           A == <<"CordonAndDrainNode", "StopAllPods", "StopDBus", "StopServicesEphemeral", "UnmountPodMounts",
                  "UnmountSystemDiskBindMounts", "UnmountEphemeralPartition", "TeardownVolumeLifecycle">>
           M == MaintenanceUpgrade(in)
<1>1. Upgrade(in) = List(A) \o M
  BY DEF Upgrade
<1>2. A \in Seq(AllTasks)
  BY TaskNames
<1>3. Lacks(A, T) /\ Lacks(A, {"KexecPrepare"}) /\ Lacks(A, {"Upgrade"})
  BY DEF Lacks
<1>4. Holds(A, "TeardownVolumeLifecycle")
  <2>1. Len(A) = 8 /\ A[8] = "TeardownVolumeLifecycle"
    OBVIOUS
  <2> HIDE DEF A
  <2> QED BY <2>1 DEF Holds
<1>5. /\ M \in Seq(Phased) /\ Simple(M) /\ EndsInRestart(M) /\ Without(M, T)
      /\ NotAfter(M, "KexecPrepare", KernelTasks)
  BY MaintenanceUpgradeHas
<1> HIDE DEF A, M, T
<1>6. /\ List(A) \in Seq(Phased) /\ Simple(List(A)) /\ Without(List(A), T)
      /\ Without(List(A), {"KexecPrepare"}) /\ Without(List(A), {"Upgrade"})
  BY <1>2, <1>3, ListHas
<1>7. PICK k \in 1..Len(List(A)) : Sure(List(A), k, "TeardownVolumeLifecycle")
  BY <1>2, <1>4, ListHas
<1> DEFINE X == List(A)
<1> HIDE DEF X
<1>8. X \o M \in Seq(Phased) /\ Simple(X \o M) /\ EndsInRestart(X \o M) /\ Without(X \o M, T)
  BY <1>5, <1>6, Concat, ConcatSimple, ConcatWithout, ConcatEnds DEF X
<1>9. NotAfter(X \o M, "KexecPrepare", KernelTasks)
  BY <1>5, <1>6, WithoutNotAfter, ConcatNotAfter DEF X
<1>10. Before(X \o M, "TeardownVolumeLifecycle", "Upgrade")
  BY <1>5, <1>6, <1>7, ConcatBefore DEF X
<1> QED BY <1>1, <1>8, <1>9, <1>10 DEF X, T

(* The tasks that change the kernel on the disk when they run with this     *)
(* data.                                                                    *)
Changers(in) == IF "BOOT" \in in.targets THEN KernelTasks ELSE KernelTasks \ {"ResetSystemDiskSpec"}

(* Reset: the disk is wiped before the restart, and kexec is not prepared   *)
(* where the kernel goes.                                                   *)
LEMMA ResetHas ==
  ASSUME NEW container, NEW in
  PROVE  LET L == Reset(container, in) IN
         /\ L \in Seq(Phased) /\ Simple(L) /\ EndsInRestart(L)
         /\ Without(L, {"ResetSystemDiskPartitions", "Install", "Upgrade"})
         /\ Alone(L, "ResetSystemDiskSpec")
         /\ NotAfter(L, "KexecPrepare", Changers(in))
         /\ (~container /\ in.disk) =>
              \A x \in RestartTasks :
                Before(L, IF in.targets = {} THEN "ResetSystemDisk" ELSE "ResetSystemDiskSpec", x)
<1> DEFINE U == {"ResetSystemDiskPartitions", "Install", "Upgrade"}
           R == "ResetSystemDiskSpec"
           K == "KexecPrepare"
           kx == ResetWithKexec(in)
           wipe == IF in.targets = {} THEN "ResetSystemDisk" ELSE "ResetSystemDiskSpec"
<1>u. R \notin U /\ K \notin U /\ U \subseteq KernelTasks /\ R \in KernelTasks
      /\ Changers(in) \subseteq KernelTasks /\ KernelTasks \intersect RestartTasks = {}
  BY DEF KernelTasks, RestartTasks, Changers
<1>1. CASE container
  <2> DEFINE S == stopAllPhaselist(TRUE, FALSE)
             Z == List(<<"Shutdown">>)
  <2>1. Reset(container, in) = S \o Z
    BY <1>1 DEF Reset
  <2>2. S \in Seq(Phased) /\ Simple(S) /\ Without(S, KernelTasks)
    BY StopAllHas DEF Without
  <2>3. Z \in Seq(Phased) /\ Simple(Z) /\ EndsInRestart(Z) /\ Without(Z, KernelTasks)
    BY RestartLast DEF RestartTasks, KernelTasks
  <2> HIDE DEF S, Z
  <2> DEFINE L == S \o Z
  <2>4. L \in Seq(Phased) /\ Simple(L) /\ EndsInRestart(L) /\ Without(L, KernelTasks)
    BY <2>2, <2>3, Concat, ConcatSimple, ConcatWithout, ConcatEnds
  <2> HIDE DEF L
  <2>5. Without(L, U) /\ Without(L, Changers(in)) /\ Alone(L, R)
    BY <2>4, <1>u DEF Without, Alone
  <2>6. NotAfter(L, K, Changers(in))
    BY <2>5, WithoutNotAfter
  <2> QED BY <1>1, <2>1, <2>4, <2>5, <2>6 DEF L
<1>2. CASE ~container
  <2> DEFINE X == IF in.graceful THEN <<"CordonAndDrainNode", "RemoveAllPods">> ELSE <<"StopAllPods">>
             Y == <<"StopDBus">> \o When(in.graceful, <<"LeaveClusterMembership">>) \o <<"SendResetSignal">>
             S == stopAllPhaselist(FALSE, kx)
             W1 == When(in.targets = {} /\ in.disk, <<"ResetSystemDisk">>)
             W2 == When(in.targets # {} /\ in.disk, <<"ResetSystemDiskSpec">>)
             W3 == When(in.userDisks, <<"ResetUserDisks">>)
             F == <<"ForceCleanup">>
             last == IF in.reboot THEN "Reboot" ELSE "Shutdown"
             V == KernelTasks \union RestartTasks
  <2>1. Reset(container, in) =
          LogErrors(List(X)) \o List(Y) \o LogErrors(S) \o List(F \o W1 \o W2 \o W3 \o <<last>>)
    BY <1>2 DEF Reset
  <2>2. X \in Seq(AllTasks) /\ Lacks(X, V) /\ Lacks(X, {K})
    <3>1. CASE in.graceful
      BY <3>1, TaskNames DEF Lacks, KernelTasks, RestartTasks
    <3>2. CASE ~in.graceful
      BY <3>2, TaskNames DEF Lacks, KernelTasks, RestartTasks
    <3> QED BY <3>1, <3>2
  <2>3. Y \in Seq(AllTasks) /\ Lacks(Y, V) /\ Lacks(Y, {K})
    <3> DEFINE Y1 == <<"StopDBus">>  Y2 == <<"LeaveClusterMembership">>  Y3 == <<"SendResetSignal">>
               Good(s) == s \in Seq(AllTasks) /\ Lacks(s, V) /\ Lacks(s, {K})
    <3>1. Good(Y1) /\ Good(Y2) /\ Good(Y3)
      BY TaskNames DEF Lacks, KernelTasks, RestartTasks
    <3> HIDE DEF Y1, Y2, Y3, V, K
    <3>2. Good(When(in.graceful, Y2))
      BY <3>1, WhenNames
    <3>3. Good(Y1 \o When(in.graceful, Y2))
      BY <3>1, <3>2, NamesConcat
    <3>4. Good(Y1 \o When(in.graceful, Y2) \o Y3)
      BY <3>1, <3>3, NamesConcat
    <3> QED BY <3>4 DEF Y1, Y2, Y3
  <2>4. S \in Seq(Phased) /\ Simple(S) /\ Without(S, V) /\ (~kx => Without(S, {K}))
    BY StopAllHas
  <2>5. /\ F \in Seq(AllTasks) /\ Lacks(F, V) /\ Lacks(F, {K})
        /\ W1 \in Seq(AllTasks) /\ Lacks(W1, U) /\ Lacks(W1, {R}) /\ Lacks(W1, RestartTasks) /\ Lacks(W1, {K})
        /\ W2 \in Seq(AllTasks) /\ Lacks(W2, U) /\ Lacks(W2, {"ResetSystemDisk"}) /\ Lacks(W2, RestartTasks)
        /\ Lacks(W2, {K})
        /\ W3 \in Seq(AllTasks) /\ Lacks(W3, V) /\ Lacks(W3, {K})
        /\ in.targets # {} => Lacks(W1, {"ResetSystemDisk"})
        /\ (in.targets = {} /\ in.disk) => Holds(W1, "ResetSystemDisk")
        /\ (in.targets # {} /\ in.disk) => Holds(W2, "ResetSystemDiskSpec")
    <3> DEFINE S1 == <<"ResetSystemDisk">>  S2 == <<"ResetSystemDiskSpec">>  S3 == <<"ResetUserDisks">>
    <3>1. F \in Seq(AllTasks) /\ Lacks(F, V) /\ Lacks(F, {K})
      BY TaskNames DEF Lacks, KernelTasks, RestartTasks
    <3>2. /\ S1 \in Seq(AllTasks) /\ Lacks(S1, U) /\ Lacks(S1, {R}) /\ Lacks(S1, RestartTasks)
          /\ Lacks(S1, {K}) /\ Holds(S1, "ResetSystemDisk")
      BY TaskNames DEF Lacks, Holds, RestartTasks
    <3>3. /\ S2 \in Seq(AllTasks) /\ Lacks(S2, U) /\ Lacks(S2, {"ResetSystemDisk"}) /\ Lacks(S2, RestartTasks)
          /\ Lacks(S2, {K}) /\ Holds(S2, "ResetSystemDiskSpec")
      BY TaskNames DEF Lacks, Holds, RestartTasks
    <3>4. S3 \in Seq(AllTasks) /\ Lacks(S3, V) /\ Lacks(S3, {K})
      BY TaskNames DEF Lacks, KernelTasks, RestartTasks
    <3> HIDE DEF S1, S2, S3, U, V, K, R, F
    <3>5. /\ When(in.targets = {} /\ in.disk, S1) \in Seq(AllTasks)
          /\ Lacks(When(in.targets = {} /\ in.disk, S1), U) /\ Lacks(When(in.targets = {} /\ in.disk, S1), {R})
          /\ Lacks(When(in.targets = {} /\ in.disk, S1), RestartTasks)
          /\ Lacks(When(in.targets = {} /\ in.disk, S1), {K})
          /\ in.targets # {} => Lacks(When(in.targets = {} /\ in.disk, S1), {"ResetSystemDisk"})
          /\ (in.targets = {} /\ in.disk) => Holds(When(in.targets = {} /\ in.disk, S1), "ResetSystemDisk")
      BY <3>2, WhenNames
    <3>6. /\ When(in.targets # {} /\ in.disk, S2) \in Seq(AllTasks)
          /\ Lacks(When(in.targets # {} /\ in.disk, S2), U)
          /\ Lacks(When(in.targets # {} /\ in.disk, S2), {"ResetSystemDisk"})
          /\ Lacks(When(in.targets # {} /\ in.disk, S2), RestartTasks)
          /\ Lacks(When(in.targets # {} /\ in.disk, S2), {K})
          /\ (in.targets # {} /\ in.disk) => Holds(When(in.targets # {} /\ in.disk, S2), "ResetSystemDiskSpec")
      BY <3>3, WhenNames
    <3>7. When(in.userDisks, S3) \in Seq(AllTasks) /\ Lacks(When(in.userDisks, S3), V) /\ Lacks(When(in.userDisks, S3), {K})
      BY <3>4, WhenNames
    <3> QED BY <3>1, <3>5, <3>6, <3>7 DEF S1, S2, S3
  <2>6. last \in RestartTasks /\ last # K
    BY DEF RestartTasks
  <2>7. U \subseteq V /\ RestartTasks \subseteq V /\ R \in V /\ "ResetSystemDisk" \in V
    BY DEF KernelTasks
  <2>8. kx => in.targets # {} /\ "BOOT" \notin in.targets
    BY DEF ResetWithKexec
  <2> HIDE DEF X, Y, S, W1, W2, W3, F, last, kx
  <2> DEFINE N == F \o W1 \o W2 \o W3
  <2>9. /\ N \in Seq(AllTasks) /\ Lacks(N, U) /\ Lacks(N, RestartTasks) /\ Lacks(N, {K})
        /\ in.targets # {} => Lacks(N, {"ResetSystemDisk"})
        /\ in.disk => Holds(N, wipe)
    <3>1. /\ Lacks(F, U) /\ Lacks(F, RestartTasks) /\ Lacks(F, {"ResetSystemDisk"})
          /\ Lacks(W3, U) /\ Lacks(W3, RestartTasks) /\ Lacks(W3, {"ResetSystemDisk"})
      BY <2>5, <2>7 DEF Lacks
    <3> HIDE DEF U, V, K
    <3>2. /\ F \o W1 \in Seq(AllTasks) /\ Lacks(F \o W1, U) /\ Lacks(F \o W1, RestartTasks) /\ Lacks(F \o W1, {K})
          /\ in.targets # {} => Lacks(F \o W1, {"ResetSystemDisk"})
          /\ (in.targets = {} /\ in.disk) => Holds(F \o W1, "ResetSystemDisk")
      BY <2>5, <3>1, NamesConcat
    <3> DEFINE G == F \o W1
    <3>3. /\ G \o W2 \in Seq(AllTasks) /\ Lacks(G \o W2, U) /\ Lacks(G \o W2, RestartTasks) /\ Lacks(G \o W2, {K})
          /\ in.targets # {} => Lacks(G \o W2, {"ResetSystemDisk"})
          /\ (in.targets = {} /\ in.disk) => Holds(G \o W2, "ResetSystemDisk")
          /\ (in.targets # {} /\ in.disk) => Holds(G \o W2, "ResetSystemDiskSpec")
      BY <2>5, <3>2, NamesConcat
    <3> DEFINE H == G \o W2
    <3>4. /\ H \o W3 \in Seq(AllTasks) /\ Lacks(H \o W3, U) /\ Lacks(H \o W3, RestartTasks) /\ Lacks(H \o W3, {K})
          /\ in.targets # {} => Lacks(H \o W3, {"ResetSystemDisk"})
          /\ in.disk => Holds(H \o W3, wipe)
      BY <2>5, <3>1, <3>3, NamesConcat
    <3> QED BY <3>4
  <2>10. List(N \o <<last>>) = List(N) \o List(<<last>>)
    <3>1. <<last>> \in Seq(AllTasks)
      BY <2>6, TaskNames DEF RestartTasks
    <3> QED BY <3>1, <2>9, ListConcat
  <2>11. Reset(container, in) = LogErrors(List(X)) \o List(Y) \o LogErrors(S) \o (List(N) \o List(<<last>>))
    BY <2>1, <2>10
  <2> HIDE DEF N
  <2> DEFINE A == LogErrors(List(X))  B == List(Y)  C == LogErrors(S)  D == List(N)  E == List(<<last>>)
  <2>12. A \in Seq(Phased) /\ Simple(A) /\ Without(A, V) /\ Without(A, {K})
    BY <2>2, ListHas, LogErrorsHas
  <2>13. B \in Seq(Phased) /\ Simple(B) /\ Without(B, V) /\ Without(B, {K})
    BY <2>3, ListHas
  <2>14. C \in Seq(Phased) /\ Simple(C) /\ Without(C, V) /\ (~kx => Without(C, {K}))
    BY <2>4, LogErrorsHas
  <2>15. /\ D \in Seq(Phased) /\ Simple(D) /\ Without(D, U) /\ Without(D, RestartTasks) /\ Without(D, {K})
         /\ in.targets # {} => Without(D, {"ResetSystemDisk"})
         /\ Alone(D, R)
         /\ in.disk => \E k \in 1..Len(D) : Sure(D, k, wipe)
    BY <2>9, ListHas
  <2>16. E \in Seq(Phased) /\ Simple(E) /\ EndsInRestart(E) /\ Without(E, KernelTasks) /\ Without(E, {K})
    BY <2>6, <1>u, RestartLast
  <2> HIDE DEF A, B, C, D, E
  <2> DEFINE P == A \o B
  <2>17. P \in Seq(Phased) /\ Simple(P) /\ Without(P, V) /\ Without(P, {K})
    BY <2>12, <2>13, Concat, ConcatSimple, ConcatWithout
  <2> HIDE DEF P
  <2> DEFINE Q == P \o C
  <2>18. Q \in Seq(Phased) /\ Simple(Q) /\ Without(Q, V) /\ (~kx => Without(Q, {K}))
    BY <2>14, <2>17, Concat, ConcatSimple, ConcatWithout
  <2> HIDE DEF Q
  <2> DEFINE G == D \o E
  <2>e. Without(E, U) /\ Without(E, {"ResetSystemDisk"}) /\ Alone(E, R)
    BY <2>16, <1>u DEF Without, Alone, KernelTasks
  <2>19. /\ G \in Seq(Phased) /\ Simple(G) /\ EndsInRestart(G) /\ Without(G, U) /\ Without(G, {K})
         /\ in.targets # {} => Without(G, {"ResetSystemDisk"})
         /\ Alone(G, R)
    BY <2>15, <2>16, <2>e, Concat, ConcatSimple, ConcatWithout, ConcatEnds, ConcatAlone
  <2>20. ASSUME in.disk, NEW x \in RestartTasks PROVE Before(G, wipe, x)
    <3>1. PICK k \in 1..Len(D) : Sure(D, k, wipe)
      BY <2>15, <2>20
    <3>2. Without(D, {x})
      BY <2>15, <2>20 DEF Without
    <3> QED BY <3>1, <3>2, <2>15, <2>16, ConcatBefore
  <2> HIDE DEF G, wipe
  <2> DEFINE L == Q \o G
  <2>q. Without(Q, U) /\ Without(Q, KernelTasks) /\ Alone(Q, R) /\ Without(Q, RestartTasks)
    BY <2>18, <2>7 DEF Without, Alone
  <2>21. /\ L \in Seq(Phased) /\ Simple(L) /\ EndsInRestart(L) /\ Without(L, U) /\ Alone(L, R)
    BY <2>18, <2>19, <2>q, Concat, ConcatSimple, ConcatWithout, ConcatEnds, ConcatAlone
  <2>22. ASSUME in.disk, NEW x \in RestartTasks PROVE Before(L, wipe, x)
    <3>1. Without(Q, {x})
      BY <2>q, <2>22 DEF Without
    <3>2. Before(G, wipe, x)
      BY <2>20, <2>22
    <3> QED BY <3>1, <3>2, <2>18, <2>19, ConcatBeforeBoth
  <2>23. NotAfter(L, K, Changers(in))
    <3>1. CASE ~kx
      <4>1. Without(L, {K})
        BY <3>1, <2>18, <2>19, ConcatWithout
      <4> QED BY <4>1, WithoutNotAfter
    <3>2. CASE kx
      <4>1. Changers(in) \subseteq U \union {"ResetSystemDisk"}
        BY <3>2, <2>8 DEF Changers, KernelTasks
      <4>2. Without(L, U) /\ Without(L, {"ResetSystemDisk"})
        <5>1. Without(Q, {"ResetSystemDisk"})
          BY <2>18, <2>7 DEF Without
        <5>2. Without(G, {"ResetSystemDisk"})
          BY <3>2, <2>8, <2>19
        <5> QED BY <5>1, <5>2, <2>18, <2>19, <2>21, ConcatWithout
      <4>3. Without(L, Changers(in))
        BY <4>1, <4>2 DEF Without
      <4> QED BY <4>3, WithoutNotAfter
    <3> QED BY <3>1, <3>2
  <2>24. Reset(container, in) = L
    BY <2>11 DEF A, B, C, D, E, P, Q, G
  <2> HIDE DEF L
  <2> QED BY <2>21, <2>22, <2>23, <2>24 DEF wipe
<1> QED BY <1>1, <1>2

(* What the rest of the proofs needs of the lists. *)
SortedOut(seq, in, container, L) ==
  /\ L \in Seq(Phased)
  /\ seq \in {"initialize", "boot"} => Without(L, {"KexecPrepare"})
  /\ seq \notin {"initialize", "boot"} =>
       Simple(L) /\ (Len(L) > 0 => EndsInRestart(L)) /\ NotAfter(L, "KexecPrepare", Changers(in))
  /\ Alone(L, "ResetSystemDiskSpec") /\ Alone(L, "ResetSystemDiskPartitions")
  /\ seq # "reset" => Without(L, {"ResetSystemDiskSpec"})
  /\ seq # "initialize" => Without(L, {"ResetSystemDiskPartitions"})
  /\ seq = "upgrade" => Before(L, "TeardownVolumeLifecycle", "Upgrade")
  /\ (seq = "reset" /\ ~container /\ in.disk) =>
       \A x \in RestartTasks :
         Before(L, IF in.targets = {} THEN "ResetSystemDisk" ELSE "ResetSystemDiskSpec", x)
  /\ seq = "shutdown" => Without(L, {"Reboot"}) /\ Sure(L, 1, "StoreShutdownEmergency")
  /\ seq \in {"reboot", "shutdown"} => Len(L) > 0 /\ Without(L, KernelTasks)

LEMMA PhasesSortedOut ==
  ASSUME NEW seq \in Sequences, NEW in, NEW container, NEW installed, NEW staged
  PROVE  SortedOut(seq, in, container, PhasesOf(seq, in, container, installed, staged))
<1> DEFINE S1 == "ResetSystemDiskSpec"  S2 == "ResetSystemDiskPartitions"
           T == {S1, S2}
           L == PhasesOf(seq, in, container, installed, staged)
<1>k. S1 \in KernelTasks /\ S2 \in KernelTasks /\ Changers(in) \subseteq KernelTasks /\ S1 # S2
  BY DEF KernelTasks, Changers
<1>w. \A l : Without(l, T) => Without(l, {S1}) /\ Without(l, {S2}) /\ Alone(l, S1) /\ Alone(l, S2)
  BY DEF Without, Alone
<1>v. \A l : Without(l, KernelTasks) => Without(l, T) /\ NotAfter(l, "KexecPrepare", Changers(in))
  BY <1>k DEF Without, NotAfter
<1>n. \A l : NotAfter(l, "KexecPrepare", KernelTasks) => NotAfter(l, "KexecPrepare", Changers(in))
  BY <1>k DEF NotAfter
<1>e. <<>> \in Seq(Phased) /\ Len(<<>>) = 0 /\ Simple(<<>>) /\ Without(<<>>, KernelTasks)
      /\ Before(<<>>, "TeardownVolumeLifecycle", "Upgrade")
  BY DEF Simple, Without, Before
<1>1. CASE seq = "initialize"
  <2>1. L = Initialize(container)
    BY <1>1 DEF PhasesOf
  <2>2. L \in Seq(Phased) /\ Alone(L, S2) /\ Without(L, {S1, "KexecPrepare"})
    BY <2>1, InitializeHas
  <2> HIDE DEF L
  <2>3. Alone(L, S1) /\ Without(L, {S1}) /\ Without(L, {"KexecPrepare"})
    BY <2>2 DEF Alone, Without
  <2> QED BY <1>1, <2>2, <2>3 DEF SortedOut, L
<1>2. CASE seq = "boot"
  <2>1. L = Boot(container)
    BY <1>2 DEF PhasesOf
  <2>2. L \in Seq(Phased) /\ Without(L, {"KexecPrepare"} \union KernelTasks)
    BY <2>1, BootHas
  <2> HIDE DEF L
  <2>3. Without(L, T) /\ Without(L, {"KexecPrepare"})
    BY <2>2, <1>k DEF Without
  <2> QED BY <1>2, <1>w, <2>2, <2>3 DEF SortedOut, L
<1>3. CASE seq = "install"
  <2>1. L = Install(container, installed, staged)
    BY <1>3 DEF PhasesOf
  <2>2. /\ L \in Seq(Phased) /\ Simple(L) /\ (Len(L) > 0 => EndsInRestart(L))
        /\ NotAfter(L, "KexecPrepare", KernelTasks) /\ Without(L, T)
    BY <2>1, InstallHas
  <2> HIDE DEF L
  <2> QED BY <1>3, <1>w, <1>n, <2>2 DEF SortedOut, L
<1>4. CASE seq = "shutdown"
  <2>1. L = Shutdown(container, in)
    BY <1>4 DEF PhasesOf
  <2>2. /\ L \in Seq(Phased) /\ Simple(L) /\ EndsInRestart(L)
        /\ Without(L, KernelTasks \union {"Reboot"}) /\ Sure(L, 1, "StoreShutdownEmergency")
    BY <2>1, ShutdownHas
  <2> HIDE DEF L
  <2>3. Without(L, KernelTasks) /\ Without(L, {"Reboot"})
    BY <2>2 DEF Without
  <2>4. Len(L) > 0
    BY <2>2 DEF EndsInRestart
  <2> QED BY <1>4, <1>w, <1>v, <2>2, <2>3, <2>4 DEF SortedOut, L
<1>5. CASE seq = "reboot"
  <2>1. L = Reboot(container, RebootIn(in))
    BY <1>5 DEF PhasesOf
  <2>2. L \in Seq(Phased) /\ Simple(L) /\ EndsInRestart(L) /\ Without(L, KernelTasks)
    BY <2>1, RebootHas
  <2> HIDE DEF L
  <2>4. Len(L) > 0
    BY <2>2 DEF EndsInRestart
  <2> QED BY <1>5, <1>w, <1>v, <2>2, <2>4 DEF SortedOut, L
<1>6. CASE seq = "reset"
  <2>1. L = Reset(container, in)
    BY <1>6 DEF PhasesOf
  <2>2. /\ L \in Seq(Phased) /\ Simple(L) /\ EndsInRestart(L)
        /\ Without(L, {S2, "Install", "Upgrade"}) /\ Alone(L, S1)
        /\ NotAfter(L, "KexecPrepare", Changers(in))
        /\ (~container /\ in.disk) =>
              \A x \in RestartTasks :
                Before(L, IF in.targets = {} THEN "ResetSystemDisk" ELSE "ResetSystemDiskSpec", x)
    BY <2>1, ResetHas
  <2> HIDE DEF L
  <2>3. Without(L, {S2}) /\ Alone(L, S2)
    BY <2>2 DEF Without, Alone
  <2> QED BY <1>6, <2>2, <2>3 DEF SortedOut, L
<1>7. CASE seq \in {"upgrade", "stageUpgrade", "maintenanceUpgrade"} /\ container
  <2>1. L = <<>>
    <3>1. CASE seq = "upgrade"
      BY <1>7, <3>1 DEF PhasesOf, When
    <3>2. CASE seq = "stageUpgrade"
      BY <1>7, <3>2 DEF PhasesOf, When
    <3>3. CASE seq = "maintenanceUpgrade"
      BY <1>7, <3>3 DEF PhasesOf, When
    <3> QED BY <1>7, <3>1, <3>2, <3>3
  <2> DEFINE M == <<>>
  <2>2. M \in Seq(Phased) /\ Len(M) = 0 /\ Simple(M) /\ Without(M, KernelTasks)
        /\ Before(M, "TeardownVolumeLifecycle", "Upgrade")
    BY <1>e
  <2> HIDE DEF M
  <2>3. SortedOut(seq, in, container, M)
    BY <1>7, <1>v, <1>w, <2>2 DEF SortedOut
  <2> QED BY <2>1, <2>3 DEF M
<1>8. CASE seq = "upgrade" /\ ~container
  <2>1. L = Upgrade(in)
    BY <1>8 DEF PhasesOf, When
  <2>2. /\ L \in Seq(Phased) /\ Simple(L) /\ EndsInRestart(L) /\ Without(L, T)
        /\ NotAfter(L, "KexecPrepare", KernelTasks) /\ Before(L, "TeardownVolumeLifecycle", "Upgrade")
    BY <2>1, UpgradeHas
  <2> HIDE DEF L
  <2> QED BY <1>8, <1>w, <1>n, <2>2 DEF SortedOut, L
<1>9. CASE seq = "stageUpgrade" /\ ~container
  <2>1. L = StageUpgrade(in)
    BY <1>9 DEF PhasesOf, When
  <2>2. L \in Seq(Phased) /\ Simple(L) /\ EndsInRestart(L) /\ Without(L, KernelTasks)
    BY <2>1, StageUpgradeHas
  <2> HIDE DEF L
  <2> QED BY <1>9, <1>w, <1>v, <2>2 DEF SortedOut, L
<1>10. CASE seq = "maintenanceUpgrade" /\ ~container
  <2>1. L = MaintenanceUpgrade(in)
    BY <1>10 DEF PhasesOf, When
  <2>2. /\ L \in Seq(Phased) /\ Simple(L) /\ EndsInRestart(L) /\ Without(L, T)
        /\ NotAfter(L, "KexecPrepare", KernelTasks)
    BY <2>1, MaintenanceUpgradeHas
  <2> HIDE DEF L
  <2> QED BY <1>10, <1>w, <1>n, <2>2 DEF SortedOut, L
<1> QED BY <1>1, <1>2, <1>3, <1>4, <1>5, <1>6, <1>7, <1>8, <1>9, <1>10 DEF Sequences

-----------------------------------------------------------------------------
(* The inductive invariant. *)

(* The sequence of p is past the task: it has returned without an error.   *)
Behind(p, task) ==
  \E i \in 1..at[p] :
    /\ Sure(ThePhases(p), i, task)
    /\ i = at[p] => task \notin todo[p] /\ err[p] = "none"

(* The types that TypeOK leaves out. *)
Typed ==
  /\ TypeOK
  /\ held \in AnyRequest
  /\ todo \in [Procs -> SUBSET AllTasks]
  /\ signal \in {NoSignal} \union [by : Sequences \union {Noop}, cmd : RebootCmds \union {"fatal"}]

(* What a process runs is what it, or main, may ask for. *)
Requested ==
  \A p \in Procs :
    IF p = Main
    THEN /\ data[p] = NoData
         /\ req[p].seq \in {Noop, "initialize", "install", "boot"} /\ ~req[p].takeover
         /\ (pc[p] # "idle") => main \in {"initialize", "install", "boot"} /\ req[p] = Request(main, FALSE)
    ELSE /\ data[p].targets \subseteq Partitions
         /\ pc[p] # "idle" => \E r \in machine.asks[p] : req[p] = Request(r.seq, r.takeover) /\ data[p] = r.in

(* Who has the lock is between Lock and Unlock, alone. *)
OneHolder ==
  /\ \A p \in Procs : p \in holder <=> pc[p] \in {"phase", "unlock"}
  /\ \A p, q \in holder : p = q
  /\ \A p \in holder : held = req[p]

(* Where a sequence is in its list: a phase that has an error has lost the *)
(* task that returned it.                                                  *)
InPhaseOf(p) ==
  IF pc[p] = "phase"
  THEN /\ at[p] \in 1..Len(ThePhases(p))
       /\ todo[p] \subseteq ThePhases(p)[at[p]].tasks
       /\ err[p] # "none" => todo[p] # ThePhases(p)[at[p]].tasks
  ELSE todo[p] = {}

InPhase == \A p \in Procs : InPhaseOf(p)

(* An error is that of the last request: only main makes a second one.     *)
ErrFresh ==
  \A p \in Procs :
    /\ pc[p] \in {"lock", "await"} => err[p] = "none"
    /\ pc[p] = "idle" => err[p] = "none" \/ (p = Main /\ main \in {"watch", "over"})

(* A closed volume lifecycle leaves nothing mounted. *)
VolumesClosed == lifecycle \in {"closed", "gone"} => mount # "mounted"

(* A tag that is deleted and not flushed has a wipe that failed. *)
TagBlamed == tag = "deleted" => WipeFailed

(* What the tasks behind a sequence have done to the machine still holds.  *)
SpecWiped(targets) ==
  /\ targets \subseteq wiped
  /\ "STATE" \in targets => tag = "flushed" \/ "META" \in targets \/ WipeFailed

BehindDone ==
  \A p \in Procs :
    pc[p] = "phase" =>
      /\ Behind(p, "TeardownVolumeLifecycle") => lifecycle = "gone"
      /\ Behind(p, "ResetSystemDisk") => wiped = Partitions
      /\ Behind(p, "ResetSystemDiskSpec") => SpecWiped(data[p].targets)
      /\ Behind(p, "StoreShutdownEmergency") => emergency = "powerOff"
      /\ ~Behind(p, "Reboot") /\ ~Behind(p, "Shutdown")

(* The first task of a shutdown does not fail, and what comes after it     *)
(* finds the intent stored.                                                *)
ShutdownStored ==
  /\ \A p \in Procs : (pc[p] = "phase" /\ req[p].seq = "shutdown" /\ at[p] = 1) => err[p] = "none"
  /\ signal.by = "shutdown" =>
       signal.cmd = "powerOff" \/ (signal.cmd = "fatal" /\ emergency = "powerOff")

-----------------------------------------------------------------------------
(* The steps. *)

LEMMA NextCases ==
  ASSUME Next
  PROVE  \/ \E p \in Callers : \E r \in machine.asks[p] : Ask(p, r)
         \/ MainCalls \/ MainGoesOn \/ GoesDown \/ ShutdownHangs
         \/ \E p \in Procs : \/ LockRefused(p) \/ LockTimeout(p) \/ LockTakesOver(p) \/ LockGranted(p)
                             \/ PhaseEnds(p) \/ Unlock(p) \/ TaskStep(p)
         \/ VolumeMounts \/ VolumeUnmounts \/ VolumesClose
         \/ UNCHANGED vars
  BY DEF Next, RunStep, Rebooted

(* What a task returns is an error. *)
LEMMA Ends ==
  ASSUME NEW p
  PROVE  /\ OkOrFail \subseteq Errors /\ Canceled(p) \subseteq Errors /\ AnyEnd(p) \subseteq Errors
         /\ QuorumCheck(p) \subseteq Errors
         /\ AnyEnd(p) \subseteq {"none", "error", "canceled"}
         /\ RebootCmds \subseteq Errors /\ RebootCmd \in RebootCmds
         /\ "none" \notin RebootCmds /\ {"none", "error"} \subseteq Errors
  BY DEF OkOrFail, Canceled, AnyEnd, QuorumCheck, Errors, RebootCmds, RebootCmd

(* A step of a task: it begins to wait for the volume controllers or the    *)
(* services, or it returns.                                                 *)
Asks(p) ==
  /\ UNCHANGED <<machine, lockState, pc, req, data, at, todo, err, fails, main, signal, missed, diskVars,
                 emergency, down>>
  /\ asked' = [asked EXCEPT ![p] = TRUE]
  /\ \/ UNCHANGED <<mount, lifecycle>>
     \/ mount = "none" /\ mount' = "requested" /\ UNCHANGED lifecycle
     \/ lifecycle # "gone" /\ lifecycle' = (IF lifecycle = "running" THEN "tearing" ELSE lifecycle) /\ UNCHANGED mount

LEMMA TaskCases ==
  ASSUME NEW p \in Procs, TaskStep(p)
  PROVE  Asks(p) \/ \E task \in AllTasks, e \in Errors : TaskReturns(p, task, e)
<1>1. CASE OtherTask(p)
  <2>1. PICK task \in MayFail \union NeverFails \union {"haltIfInstalled"} :
          \E e \in CASE task = "haltIfInstalled" -> {"error"} \union Canceled(p)
                     [] task \in MayFail         -> AnyEnd(p)
                     [] task \in NeverFails      -> {"none"} :
            TaskReturns(p, task, e)
    BY <1>1 DEF OtherTask
  <2>2. task \in AllTasks
    BY DEF AllTasks
  <2>3. (CASE task = "haltIfInstalled" -> {"error"} \union Canceled(p)
          [] task \in MayFail         -> AnyEnd(p)
          [] task \in NeverFails      -> {"none"}) \subseteq Errors
    BY Ends
  <2> QED BY <2>1, <2>2, <2>3
<1>2. CASE CordonAndDrainNode(p)
  BY <1>2, Ends, TaskNames DEF CordonAndDrainNode
<1>3. CASE StoreShutdownEmergency(p)
  BY <1>3, Ends, TaskNames DEF StoreShutdownEmergency
<1>4. CASE MountRequested(p) \/ TeardownRequested(p)
  BY <1>4 DEF MountRequested, TeardownRequested, AsksVolumes, Asks, mainVars
<1>5. CASE MountReturns(p)
  BY <1>5, Ends, TaskNames DEF MountReturns
<1>6. CASE UnmountEphemeralPartition(p)
  BY <1>6, Ends, TaskNames DEF UnmountEphemeralPartition
<1>7. CASE TeardownReturns(p)
  BY <1>7, Ends, TaskNames DEF TeardownReturns
<1>8. CASE Installer(p)
  <2>1. PICK task \in {"Install", "Upgrade"}, e \in AnyEnd(p) : TaskReturns(p, task, e)
    BY <1>8 DEF Installer
  <2> QED BY <2>1, Ends, TaskNames
<1>9. CASE KexecPrepare(p)
  BY <1>9, Ends, TaskNames DEF KexecPrepare
<1>10. CASE ResetSystemDiskSpec(p)
  BY <1>10, Ends, TaskNames DEF ResetSystemDiskSpec
<1>11. CASE ResetSystemDisk(p)
  BY <1>11, Ends, TaskNames DEF ResetSystemDisk
<1>12. CASE ResetSystemDiskPartitions(p)
  <2>1. PICK e \in AnyEnd(p) : TaskReturns(p, "ResetSystemDiskPartitions", IF e = "none" THEN RebootCmd ELSE e)
    BY <1>12 DEF ResetSystemDiskPartitions
  <2> QED BY <2>1, Ends, TaskNames
<1>13. CASE RestartTask(p)
  <2>1. PICK task \in {"Reboot", "Shutdown"} :
          TaskReturns(p, task, IF task = "Reboot" THEN RebootCmd ELSE "powerOff")
    BY <1>13 DEF RestartTask
  <2>2. (IF task = "Reboot" THEN RebootCmd ELSE "powerOff") \in Errors
    BY Ends DEF Errors, RebootCmds
  <2> QED BY <2>1, <2>2, TaskNames
<1>14. CASE StopAllServicesWaits(p)
  BY <1>14 DEF StopAllServicesWaits, Asks, machineVars, volumeVars
<1>15. CASE StopAllServices(p)
  BY <1>15, Ends, TaskNames DEF StopAllServices
<1> QED BY <1>1, <1>2, <1>3, <1>4, <1>5, <1>6, <1>7, <1>8, <1>9, <1>10, <1>11, <1>12, <1>13, <1>14, <1>15
        DEF TaskStep

(* The list of a process that has a request. *)
LEMMA TheList ==
  ASSUME Typed, Requested, NEW p \in Procs, pc[p] # "idle"
  PROVE  /\ req[p].seq \in Sequences
         /\ SortedOut(req[p].seq, data[p], machine.container, ThePhases(p))
<1>1. req[p].seq \in Sequences
  <2>1. CASE p = Main
    BY <2>1 DEF Requested, Request, Sequences
  <2>2. CASE p # Main
    <3>1. PICK r \in machine.asks[p] : req[p] = Request(r.seq, r.takeover)
      BY <2>2 DEF Requested
    <3>2. r.seq \in Sequences
      BY <2>2, <3>1, SequencerAssumption DEF Callers, Typed, TypeOK
    <3> QED BY <3>1, <3>2 DEF Request
  <2> QED BY <2>1, <2>2
<1>2. SortedOut(req[p].seq, data[p], machine.container,
                PhasesOf(req[p].seq, data[p], machine.container, machine.installed, machine.staged))
  BY <1>1, PhasesSortedOut
<1> QED BY <1>1, <1>2 DEF ThePhases

-----------------------------------------------------------------------------
(* Types *)

RunTyped ==
  /\ holder \subseteq Procs /\ revoked \in BOOLEAN /\ held \in AnyRequest
  /\ pc \in [Procs -> {"idle", "lock", "await", "phase", "unlock", "returned"}]
  /\ req \in [Procs -> AnyRequest] /\ DOMAIN data = Procs
  /\ at \in [Procs -> Nat]
  /\ todo \in [Procs -> SUBSET AllTasks]
  /\ asked \in [Procs -> BOOLEAN]
  /\ err \in [Procs -> Errors] /\ fails \in 0..MaxFails

MainTyped ==
  /\ main \in {"initialize", "install", "boot", "watch", "over"}
  /\ signal \in {NoSignal} \union [by : Sequences \union {Noop}, cmd : RebootCmds \union {"fatal"}]
  /\ missed \in BOOLEAN
  /\ services \in {"running", "stopping", "hung"}
  /\ down \in RebootCmds \union {"no"}

MachineTyped ==
  /\ machine \in Machines
  /\ mount \in {"none", "requested", "mounted", "releasing"}
  /\ lifecycle \in {"running", "tearing", "closed", "gone"}
  /\ kernel \in {"current", "new", "wiped"}
  /\ kexec \in {"none", "current", "new"}
  /\ wiped \subseteq Partitions
  /\ tag \in {"set", "deleted", "flushed"}
  /\ emergency \in {"restart", "powerOff"}

LEMMA TypedParts == Typed <=> RunTyped /\ MainTyped /\ MachineTyped
<1>1. {NoSignal} \union [by : Sequences \union {Noop}, cmd : RebootCmds \union {"fatal"}]
        \subseteq [by : Sequences \union {Noop}, cmd : RebootCmds \union {"none", "fatal"}]
  BY DEF NoSignal
<1> QED BY <1>1 DEF Typed, TypeOK, RunTyped, MainTyped, MachineTyped

LEMMA RequestTyped ==
  ASSUME NEW s \in Sequences \union {Noop}, NEW t \in BOOLEAN
  PROVE  Request(s, t) \in AnyRequest /\ Request(s, t).seq = s /\ Request(s, t).takeover = t
  BY DEF Request, AnyRequest

LEMMA RunTypedInit == Init => RunTyped
<1> SUFFICES ASSUME Init PROVE RunTyped
  OBVIOUS
<1>1. FALSE \in BOOLEAN /\ asked \in [Procs -> BOOLEAN] /\ revoked \in BOOLEAN
  BY DEF Init, LockInit
<1>2. NoRequest \in AnyRequest
  BY <1>1, RequestTyped DEF NoRequest
<1>3. holder \subseteq Procs /\ held \in AnyRequest /\ req \in [Procs -> AnyRequest] /\ DOMAIN data = Procs
  BY <1>2 DEF Init, LockInit
<1> QED BY <1>1, <1>3, SequencerAssumption DEF Init, RunTyped, Errors

(* BeginPhase goes to a phase of the list that is not skipped, past phases  *)
(* that are, or to the end.                                                 *)
LEMMA BeginPhaseTyped ==
  ASSUME RunTyped, NEW p \in Procs, NEW L \in Seq(Phased), NEW i \in Nat \ {0}, i <= Len(L) + 1,
         BeginPhase(p, L, i)
  PROVE  /\ at' \in [Procs -> Nat] /\ todo' \in [Procs -> SUBSET AllTasks]
         /\ pc' \in [Procs -> {"idle", "lock", "await", "phase", "unlock", "returned"}]
         /\ err' \in [Procs -> Errors] /\ err' = [err EXCEPT ![p] = "none"]
         /\ \E j \in i..(Len(L) + 1) :
              /\ IsNextPhase(L, i, j)
              /\ at' = [at EXCEPT ![p] = j] /\ at'[p] = j
              /\ todo' = [todo EXCEPT ![p] = IF j <= Len(L) THEN L[j].tasks ELSE {}]
              /\ todo'[p] = IF j <= Len(L) THEN L[j].tasks ELSE {}
              /\ pc' = [pc EXCEPT ![p] = IF j <= Len(L) THEN "phase" ELSE "unlock"]
              /\ pc'[p] = IF j <= Len(L) THEN "phase" ELSE "unlock"
<1>1. PICK j \in i..(Len(L) + 1) :
       /\ IsNextPhase(L, i, j)
       /\ at' = [at EXCEPT ![p] = j]
       /\ todo' = [todo EXCEPT ![p] = IF j <= Len(L) THEN L[j].tasks ELSE {}]
       /\ pc' = [pc EXCEPT ![p] = IF j <= Len(L) THEN "phase" ELSE "unlock"]
  BY DEF BeginPhase
<1>2. Len(L) \in Nat /\ j \in Nat /\ j >= 1
  OBVIOUS
<1> DEFINE X == IF j <= Len(L) THEN L[j].tasks ELSE {}
<1>3. X \in SUBSET AllTasks
  <2>1. CASE j <= Len(L)
    <3>1. L[j] \in Phased
      BY <1>2, <2>1
    <3> QED BY <2>1, <3>1 DEF Phased
  <2> QED BY <2>1
<1>4. todo' = [todo EXCEPT ![p] = X]
  BY <1>1
<1>5. todo' \in [Procs -> SUBSET AllTasks] /\ todo'[p] = X
  <2> HIDE DEF X
  <2> QED BY <1>3, <1>4 DEF RunTyped
<1>6. err' = [err EXCEPT ![p] = "none"] /\ err' \in [Procs -> Errors]
  BY DEF RunTyped, BeginPhase, Errors
<1> QED BY <1>1, <1>2, <1>5, <1>6 DEF RunTyped

LEMMA RunTypedStep ==
  ASSUME Typed, Requested, InPhase, Next
  PROVE  RunTyped'
<1> USE DEF RunTyped
<1>t. RunTyped /\ MainTyped /\ MachineTyped
  BY TypedParts
<1>1. ASSUME NEW p \in Procs, NEW s \in Sequences, NEW t \in BOOLEAN, NEW in, Call(p, s, t, in)
      PROVE  RunTyped'
  <2>1. Request(s, t) \in AnyRequest
    BY RequestTyped
  <2> QED BY <1>1, <1>t, <2>1 DEF Call, Goto, lockState
<1>2. ASSUME NEW p \in Callers, NEW r \in machine.asks[p], Ask(p, r) PROVE RunTyped'
  <2>1. r.seq \in Sequences /\ r.takeover \in BOOLEAN /\ p \in Procs
    BY <1>t, SequencerAssumption DEF MachineTyped, Callers
  <2> QED BY <1>1, <1>2, <2>1 DEF Ask
<1>3. CASE MainCalls
  <2>1. main \in Sequences /\ FALSE \in BOOLEAN /\ Main \in Procs
    BY <1>3, SequencerAssumption DEF MainCalls, Sequences
  <2> QED BY <1>1, <1>3, <2>1 DEF MainCalls
<1>4. CASE MainGoesOn
  BY <1>4, <1>t, SequencerAssumption DEF MainGoesOn, Goto, lockState
<1>5. CASE GoesDown \/ ShutdownHangs \/ VolumeMounts \/ VolumeUnmounts \/ VolumesClose \/ UNCHANGED vars
  BY <1>5, <1>t DEF GoesDown, ShutdownHangs, VolumeMounts, VolumeUnmounts, VolumesClose, vars, runVars, lockState
<1>6. ASSUME NEW p \in Procs, LockRefused(p) \/ LockTimeout(p) PROVE RunTyped'
  <2>1. {"locked", "timeout"} \subseteq Errors
    BY DEF Errors
  <2> QED BY <1>6, <1>t, <2>1 DEF LockRefused, LockTimeout, Return, Goto, lockState
<1>7. ASSUME NEW p \in Procs, LockTakesOver(p) PROVE RunTyped'
  <2>1. revoked' \in BOOLEAN
    BY <1>7 DEF LockTakesOver, Revoke
  <2> QED BY <1>7, <1>t, <2>1 DEF LockTakesOver, Revoke, Goto
<1>8. ASSUME NEW p \in Procs, LockGranted(p) PROVE RunTyped'
  <2>1. revoked' \in BOOLEAN /\ holder' \subseteq Procs /\ held' \in AnyRequest
    BY <1>8, <1>t DEF LockGranted, Grant
  <2>2. {"invalid", "none"} \subseteq Errors
    BY DEF Errors
  <2>3. CASE data[p].type \in Accepts(req[p].seq)
    <3>1. ThePhases(p) \in Seq(Phased)
      BY <1>8, TheList DEF LockGranted, SortedOut
    <3>2. BeginPhase(p, ThePhases(p), 1)
      BY <1>8, <2>3 DEF LockGranted
    <3>3. 1 \in Nat \ {0} /\ 1 <= Len(ThePhases(p)) + 1
      BY <3>1
    <3>4. /\ at' \in [Procs -> Nat] /\ todo' \in [Procs -> SUBSET AllTasks]
          /\ pc' \in [Procs -> {"idle", "lock", "await", "phase", "unlock", "returned"}]
          /\ err' \in [Procs -> Errors]
      BY <1>t, <3>1, <3>2, <3>3, BeginPhaseTyped
    <3>5. asked' \in [Procs -> BOOLEAN]
      BY <3>2, <1>t DEF BeginPhase
    <3> QED BY <1>8, <1>t, <2>1, <3>4, <3>5 DEF LockGranted
  <2>4. CASE data[p].type \notin Accepts(req[p].seq)
    BY <1>8, <1>t, <2>1, <2>2, <2>4 DEF LockGranted
  <2> QED BY <2>3, <2>4
<1>9. ASSUME NEW p \in Procs, PhaseEnds(p) PROVE RunTyped'
  <2>1. CASE err[p] # "none"
    BY <1>9, <1>t, <2>1 DEF PhaseEnds, lockState
  <2>2. CASE err[p] = "none" /\ revoked
    <3>1. "canceled" \in Errors
      BY DEF Errors
    <3> QED BY <1>9, <1>t, <2>2, <3>1 DEF PhaseEnds, lockState
  <2>3. CASE err[p] = "none" /\ ~revoked
    <3>1. ThePhases(p) \in Seq(Phased) /\ at[p] \in 1..Len(ThePhases(p))
      BY <1>9, TheList DEF PhaseEnds, SortedOut, InPhase, InPhaseOf
    <3>2. BeginPhase(p, ThePhases(p), at[p] + 1)
      BY <1>9, <2>3 DEF PhaseEnds
    <3>3. at[p] + 1 \in Nat \ {0} /\ at[p] + 1 <= Len(ThePhases(p)) + 1
      BY <3>1
    <3>4. /\ at' \in [Procs -> Nat] /\ todo' \in [Procs -> SUBSET AllTasks]
          /\ pc' \in [Procs -> {"idle", "lock", "await", "phase", "unlock", "returned"}]
          /\ err' \in [Procs -> Errors]
      BY <1>t, <3>1, <3>2, <3>3, BeginPhaseTyped
    <3>5. asked' \in [Procs -> BOOLEAN]
      BY <3>2, <1>t DEF BeginPhase
    <3> QED BY <1>9, <1>t, <3>4, <3>5 DEF PhaseEnds, lockState
  <2> QED BY <2>1, <2>2, <2>3
<1>10. ASSUME NEW p \in Procs, Unlock(p) PROVE RunTyped'
  <2>1. revoked' \in BOOLEAN /\ holder' \subseteq Procs /\ held' \in AnyRequest
    <3>1. NoRequest \in AnyRequest
      BY RequestTyped DEF NoRequest
    <3> QED BY <1>10, <3>1 DEF Unlock, Release
  <2> QED BY <1>10, <1>t, <2>1 DEF Unlock, Goto
<1>11. ASSUME NEW p \in Procs, TaskStep(p) PROVE RunTyped'
  <2>1. CASE Asks(p)
    <3>1. asked' \in [Procs -> BOOLEAN]
      BY <2>1, <1>t DEF Asks
    <3> QED BY <2>1, <3>1, <1>t DEF Asks, lockState
  <2>2. ASSUME NEW task \in AllTasks, NEW e \in Errors, TaskReturns(p, task, e) PROVE RunTyped'
    <3>1. asked' \in [Procs -> BOOLEAN]
      BY <2>2, <1>t DEF TaskReturns
    <3>2. fails' \in 0..MaxFails
      BY <2>2, <1>t, SequencerAssumption DEF TaskReturns
    <3>3. err' \in [Procs -> Errors] /\ todo' \in [Procs -> SUBSET AllTasks]
      BY <2>2, <1>t DEF TaskReturns
    <3> QED BY <2>2, <3>1, <3>2, <3>3, <1>t DEF TaskReturns, lockState
  <2> QED BY <1>11, <2>1, <2>2, TaskCases
<1> QED BY <1>2, <1>3, <1>4, <1>5, <1>6, <1>7, <1>8, <1>9, <1>10, <1>11, NextCases

LEMMA TargetsTyped ==
  ASSUME Requested, NEW p \in Procs
  PROVE  data[p].targets \subseteq Partitions
<1>1. NoData.targets = {}
  BY DEF NoData, Data
<1> QED BY <1>1 DEF Requested

LEMMA PublishTyped ==
  ASSUME Typed, NEW p \in Procs, NEW cmd \in RebootCmds \union {"fatal"}, Publish(p, cmd)
  PROVE  /\ main' = main /\ services' = services /\ missed' \in BOOLEAN
         /\ signal' \in {NoSignal} \union [by : Sequences \union {Noop}, cmd : RebootCmds \union {"fatal"}]
<1>1. req[p].seq \in Sequences \union {Noop}
  BY DEF Typed, TypeOK, AnyRequest
<1>2. missed' \in BOOLEAN
  BY DEF Publish
<1>3. [by |-> req[p].seq, cmd |-> cmd] \in [by : Sequences \union {Noop}, cmd : RebootCmds \union {"fatal"}]
  BY <1>1
<1> QED BY <1>2, <1>3 DEF Publish, Typed, TypeOK

LEMMA MainTypedStep ==
  ASSUME Typed, Requested, Next
  PROVE  MainTyped'
<1> DEFINE SigSet == {NoSignal} \union [by : Sequences \union {Noop}, cmd : RebootCmds \union {"fatal"}]
<1>t. MainTyped
  BY TypedParts
<1>1. ASSUME UNCHANGED <<mainVars, down>> PROVE MainTyped'
  BY <1>1, <1>t DEF MainTyped, mainVars
<1>2. ASSUME NEW p \in Procs, NEW cmd \in RebootCmds \union {"fatal"}, Publish(p, cmd), UNCHANGED down
      PROVE  MainTyped'
  BY <1>2, <1>t, PublishTyped DEF MainTyped
<1>3. ASSUME NEW p \in Callers, NEW r \in machine.asks[p], Ask(p, r) PROVE MainTyped'
  BY <1>1, <1>3 DEF Ask
<1>4. CASE MainCalls \/ VolumeMounts \/ VolumeUnmounts \/ VolumesClose \/ UNCHANGED vars
  BY <1>1, <1>4 DEF MainCalls, VolumeMounts, VolumeUnmounts, VolumesClose, vars
<1>5. CASE MainGoesOn
  <2>1. main' \in {"install", "boot", "watch", "over"} /\ UNCHANGED <<missed, services, down>>
    BY <1>5 DEF MainGoesOn
  <2>2. signal' \in SigSet
    <3>1. CASE UNCHANGED signal
      BY <3>1, <1>t DEF MainTyped
    <3>2. CASE signal' = [by |-> main, cmd |-> IF err[Main] \in RebootCmds THEN err[Main] ELSE "fatal"]
      <4>1. main \in Sequences
        BY <1>5 DEF MainGoesOn, Sequences
      <4>2. (IF err[Main] \in RebootCmds THEN err[Main] ELSE "fatal") \in RebootCmds \union {"fatal"}
        OBVIOUS
      <4> QED BY <3>2, <4>1, <4>2
    <3> QED BY <1>5, <3>1, <3>2 DEF MainGoesOn
  <2> QED BY <1>t, <2>1, <2>2 DEF MainTyped
<1>6. CASE GoesDown
  <2>1. down' \in RebootCmds \union {"no"}
    <3>1. signal.cmd \in RebootCmds \union {"fatal"} /\ emergency \in RebootCmds
      BY <1>t, <1>6 DEF GoesDown, MainTyped, Typed, TypeOK, RebootCmds
    <3>2. down' = IF signal.cmd = "fatal" THEN emergency ELSE signal.cmd
      BY <1>6 DEF GoesDown
    <3> QED BY <3>1, <3>2
  <2> QED BY <1>6, <1>t, <2>1 DEF GoesDown, StopServices, MainTyped
<1>h. CASE ShutdownHangs
  BY <1>h, <1>t DEF ShutdownHangs, MainTyped
<1>7. ASSUME NEW p \in Procs, LockRefused(p) \/ LockTimeout(p) \/ LockTakesOver(p) \/ LockGranted(p) \/ Unlock(p)
      PROVE  MainTyped'
  BY <1>1, <1>7 DEF LockRefused, LockTimeout, Return, LockTakesOver, LockGranted, Unlock
<1>8. ASSUME NEW p \in Procs, PhaseEnds(p) PROVE MainTyped'
  BY <1>1, <1>2, <1>8 DEF PhaseEnds
<1>9. ASSUME NEW p \in Procs, TaskStep(p) PROVE MainTyped'
  <2>1. CASE ResetSystemDiskPartitions(p)
    <3>1. PICK e \in AnyEnd(p) : IF e = "none" THEN Publish(p, RebootCmd) ELSE UNCHANGED mainVars
      BY <2>1 DEF ResetSystemDiskPartitions
    <3>2. UNCHANGED down
      BY <2>1 DEF ResetSystemDiskPartitions, TaskReturns
    <3> QED BY <1>1, <1>2, <3>1, <3>2, Ends
  <2>2. CASE RestartTask(p)
    <3>1. PICK task \in {"Reboot", "Shutdown"} : Publish(p, IF task = "Reboot" THEN RebootCmd ELSE "powerOff")
      BY <2>2 DEF RestartTask
    <3>2. UNCHANGED down
      BY <2>2 DEF RestartTask, TaskReturns
    <3>3. (IF task = "Reboot" THEN RebootCmd ELSE "powerOff") \in RebootCmds
      BY Ends DEF RebootCmds
    <3> QED BY <1>2, <3>1, <3>2, <3>3
  <2>4. CASE StopAllServicesWaits(p) \/ StopAllServices(p)
    BY <1>t, <2>4 DEF StopAllServicesWaits, StopAllServices, StopServices, TaskReturns, MainTyped
  <2>3. CASE /\ ~ResetSystemDiskPartitions(p) /\ ~RestartTask(p)
             /\ ~StopAllServicesWaits(p) /\ ~StopAllServices(p)
    <3>1. UNCHANGED <<mainVars, down>>
      BY <1>9, <2>3 DEF TaskStep, OtherTask, StopAllServicesWaits, StopAllServices, CordonAndDrainNode,
           StoreShutdownEmergency, MountRequested,
           AsksVolumes, MountReturns, UnmountEphemeralPartition, TeardownRequested, TeardownReturns,
           Installer, KexecPrepare, ResetSystemDiskSpec, ResetSystemDisk, TaskReturns
    <3> QED BY <1>1, <3>1
  <2> QED BY <2>1, <2>2, <2>3, <2>4
<1> QED BY <1>3, <1>4, <1>5, <1>6, <1>h, <1>7, <1>8, <1>9, NextCases

LEMMA MachineTypedStep ==
  ASSUME Typed, Requested, Next
  PROVE  MachineTyped' /\ machine' = machine
<1> DEFINE Kernels == {"current", "new", "wiped"}
           Tags == {"set", "deleted", "flushed"}
<1>t. MachineTyped
  BY TypedParts
<1>1. ASSUME UNCHANGED <<machine, machineVars>> PROVE MachineTyped' /\ machine' = machine
  BY <1>1, <1>t DEF MachineTyped, machineVars, volumeVars, diskVars
<1>2. ASSUME NEW p \in Callers, NEW r \in machine.asks[p], Ask(p, r) PROVE MachineTyped' /\ machine' = machine
  BY <1>2, <1>t DEF Ask, MachineTyped, volumeVars
<1>3. CASE MainCalls \/ MainGoesOn \/ GoesDown \/ ShutdownHangs \/ UNCHANGED vars
  BY <1>1, <1>3 DEF MainCalls, MainGoesOn, GoesDown, ShutdownHangs, vars
<1>4. CASE VolumeMounts \/ VolumeUnmounts \/ VolumesClose
  BY <1>4, <1>t DEF VolumeMounts, VolumeUnmounts, VolumesClose, MachineTyped, diskVars
<1>5. ASSUME NEW p \in Procs, \/ LockRefused(p) \/ LockTimeout(p) \/ LockTakesOver(p) \/ LockGranted(p)
                              \/ Unlock(p) \/ PhaseEnds(p)
      PROVE  MachineTyped' /\ machine' = machine
  BY <1>1, <1>5 DEF LockRefused, LockTimeout, Return, LockTakesOver, LockGranted, Unlock, PhaseEnds
<1>w. ASSUME NEW targets, NEW done \in SUBSET Partitions, NEW e, WipeSpec(targets, done, e)
      PROVE  wiped' \subseteq Partitions /\ kernel' \in Kernels /\ tag' \in Tags
  BY <1>w, <1>t DEF WipeSpec, Wipes, DropsTag, MachineTyped
<1>d. ASSUME NEW done \in SUBSET Partitions, NEW e, WipeDisk(done, e)
      PROVE  wiped' \subseteq Partitions /\ kernel' \in Kernels /\ tag' \in Tags
  BY <1>d, <1>t DEF WipeDisk, Wipes, MachineTyped
<1>6. ASSUME NEW p \in Procs, TaskStep(p) PROVE MachineTyped' /\ machine' = machine
  <2>m. machine' = machine
    <3>1. CASE Asks(p)
      BY <3>1 DEF Asks
    <3>2. ASSUME NEW task \in AllTasks, NEW e \in Errors, TaskReturns(p, task, e) PROVE machine' = machine
      BY <3>2 DEF TaskReturns
    <3> QED BY <1>6, <3>1, <3>2, TaskCases
  <2>1. CASE \/ OtherTask(p) \/ StopAllServicesWaits(p) \/ StopAllServices(p) \/ CordonAndDrainNode(p)
           \/ MountReturns(p) \/ RestartTask(p)
    BY <1>1, <2>1, <2>m DEF OtherTask, StopAllServicesWaits, StopAllServices, CordonAndDrainNode, MountReturns, RestartTask
  <2>2. CASE StoreShutdownEmergency(p)
    BY <2>2, <2>m, <1>t DEF StoreShutdownEmergency, MachineTyped, volumeVars, diskVars
  <2>3. CASE MountRequested(p) \/ TeardownRequested(p)
    BY <2>3, <2>m, <1>t DEF MountRequested, TeardownRequested, AsksVolumes, MachineTyped, diskVars
  <2>4. CASE UnmountEphemeralPartition(p)
    BY <2>4, <2>m, <1>t DEF UnmountEphemeralPartition, MachineTyped, diskVars
  <2>5. CASE TeardownReturns(p)
    BY <2>5, <2>m, <1>t DEF TeardownReturns, MachineTyped, diskVars
  <2>6. CASE Installer(p)
    BY <2>6, <2>m, <1>t DEF Installer, MachineTyped, volumeVars
  <2>7. CASE KexecPrepare(p)
    BY <2>7, <2>m, <1>t DEF KexecPrepare, MachineTyped, volumeVars
  <2>8. CASE ResetSystemDiskSpec(p)
    <3>1. PICK done \in SUBSET data[p].targets, e \in AnyEnd(p) : WipeSpec(data[p].targets, done, e)
      BY <2>8 DEF ResetSystemDiskSpec
    <3>2. done \in SUBSET Partitions
      BY TargetsTyped
    <3>3. UNCHANGED <<volumeVars, kexec, emergency>>
      BY <2>8 DEF ResetSystemDiskSpec
    <3> QED BY <1>w, <1>t, <2>m, <3>1, <3>2, <3>3 DEF MachineTyped, volumeVars
  <2>9. CASE ResetSystemDisk(p)
    BY <1>d, <2>9, <2>m, <1>t DEF ResetSystemDisk, MachineTyped, volumeVars
  <2>10. CASE ResetSystemDiskPartitions(p)
    <3>0. machine.wipe \subseteq Partitions
      BY <1>t, SequencerAssumption DEF MachineTyped
    <3>1. wiped' \subseteq Partitions /\ kernel' \in Kernels /\ tag' \in Tags
      <4>1. ASSUME NEW e \in AnyEnd(p), NEW done \in SUBSET machine.wipe, WipeDisk(done, e)
            PROVE  wiped' \subseteq Partitions /\ kernel' \in Kernels /\ tag' \in Tags
        BY <4>1, <3>0, <1>d
      <4>2. ASSUME NEW e \in AnyEnd(p), NEW done \in SUBSET machine.wipe, WipeSpec(machine.wipe, done, e)
            PROVE  wiped' \subseteq Partitions /\ kernel' \in Kernels /\ tag' \in Tags
        BY <4>2, <3>0, <1>w
      <4> QED BY <2>10, <4>1, <4>2 DEF ResetSystemDiskPartitions
    <3>2. UNCHANGED <<volumeVars, kexec, emergency>>
      BY <2>10 DEF ResetSystemDiskPartitions
    <3> QED BY <1>t, <2>m, <3>1, <3>2 DEF MachineTyped, volumeVars
  <2> QED BY <1>6, <2>1, <2>2, <2>3, <2>4, <2>5, <2>6, <2>7, <2>8, <2>9, <2>10 DEF TaskStep
<1> QED BY <1>2, <1>3, <1>4, <1>5, <1>6, NextCases

LEMMA TypedInit == Init => Typed
<1> SUFFICES ASSUME Init PROVE Typed
  OBVIOUS
<1>1. MainTyped
  <2>1. missed \in BOOLEAN
    BY DEF Init
  <2> QED BY <2>1 DEF Init, MainTyped
<1>2. MachineTyped
  BY DEF Init, MachineTyped
<1> QED BY <1>1, <1>2, RunTypedInit, TypedParts

LEMMA TypedStep ==
  ASSUME Typed, Requested, InPhase, Next
  PROVE  Typed'
<1>1. RunTyped' /\ MainTyped' /\ MachineTyped'
  BY RunTypedStep, MainTypedStep, MachineTypedStep
<1>2. (Typed <=> RunTyped /\ MainTyped /\ MachineTyped)'
  BY TypedParts, PTL
<1> QED BY <1>1, <1>2

-----------------------------------------------------------------------------
(* Controller.Run *)

(* A step that the sequences do not see. *)
Quiet == UNCHANGED <<machine, lockState, pc, req, data, at, todo, err, main, signal, missed>>

LEMMA RunCases ==
  ASSUME Typed, Requested, Next
  PROVE  \/ Quiet
         \/ \E p \in Callers : \E r \in machine.asks[p] : Ask(p, r)
         \/ MainCalls \/ MainGoesOn
         \/ \E p \in Procs : \/ LockRefused(p) \/ LockTimeout(p) \/ LockTakesOver(p) \/ LockGranted(p)
                             \/ PhaseEnds(p) \/ Unlock(p)
         \/ \E p \in Procs, task \in AllTasks, e \in Errors : TaskReturns(p, task, e) /\ main' = main
<1>1. CASE GoesDown \/ ShutdownHangs \/ VolumeMounts \/ VolumeUnmounts \/ VolumesClose \/ UNCHANGED vars
  BY <1>1 DEF GoesDown, ShutdownHangs, VolumeMounts, VolumeUnmounts, VolumesClose, vars, runVars, mainVars, Quiet
<1>2. ASSUME NEW p \in Procs, TaskStep(p)
      PROVE  Quiet \/ \E task \in AllTasks, e \in Errors : TaskReturns(p, task, e) /\ main' = main
  <2>1. CASE Asks(p)
    BY <2>1 DEF Asks, Quiet
  <2>2. main' = main
    BY <1>2 DEF TaskStep, OtherTask, StopAllServicesWaits, StopAllServices, CordonAndDrainNode,
           StoreShutdownEmergency, MountRequested,
         AsksVolumes, MountReturns, UnmountEphemeralPartition, TeardownRequested, TeardownReturns,
         Installer, KexecPrepare, ResetSystemDiskSpec, ResetSystemDisk, ResetSystemDiskPartitions,
         RestartTask, Publish, mainVars
  <2> QED BY <1>2, <2>1, <2>2, TaskCases
<1> QED BY <1>1, <1>2, NextCases

(* What a call asks for. *)
LEMMA CallSteps ==
  /\ \A p \in Callers : \A r \in machine.asks[p] :
       Ask(p, r) => Call(p, r.seq, r.takeover, r.in) /\ UNCHANGED <<machine, mainVars>>
  /\ MainCalls => Call(Main, main, FALSE, NoData) /\ UNCHANGED <<machine, mainVars>>
                    /\ main \in {"initialize", "install", "boot"}
  BY DEF Ask, MainCalls

LEMMA RequestedStep ==
  ASSUME Typed, Requested, Next
  PROVE  Requested'
<1>m. machine' = machine /\ Main \in Procs
  BY MachineTypedStep, SequencerAssumption
<1>1. ASSUME UNCHANGED <<req, data, main>>, \A q \in Procs : pc'[q] # "idle" => pc[q] # "idle"
      PROVE  Requested'
  BY <1>1, <1>m DEF Requested
<1>2. CASE Quiet
  BY <1>1, <1>2 DEF Quiet, mainVars
<1>3. ASSUME NEW p \in Procs, \/ LockRefused(p) \/ LockTimeout(p) \/ LockTakesOver(p)
                              \/ PhaseEnds(p) \/ Unlock(p) \/ LockGranted(p)
      PROVE  Requested'
  <2>1. UNCHANGED <<req, data, main>>
    BY <1>3 DEF LockRefused, LockTimeout, Return, LockTakesOver, PhaseEnds, Unlock, LockGranted, mainVars, Publish
  <2>2. pc[p] # "idle"
    BY <1>3 DEF LockRefused, LockTimeout, LockTakesOver, PhaseEnds, Unlock, LockGranted, Goto
  <2>3. \A q \in Procs : q # p => pc'[q] = pc[q]
    BY <1>3 DEF LockRefused, LockTimeout, LockTakesOver, PhaseEnds, Unlock, LockGranted, Goto, BeginPhase,
                Typed, TypeOK
  <2> QED BY <1>1, <2>1, <2>2, <2>3
<1>4. ASSUME NEW p \in Procs, NEW task \in AllTasks, NEW e \in Errors, TaskReturns(p, task, e), main' = main
      PROVE  Requested'
  BY <1>1, <1>4 DEF TaskReturns
<1>5. ASSUME NEW p \in Callers, NEW r \in machine.asks[p], Ask(p, r) PROVE Requested'
  <2>1. Call(p, r.seq, r.takeover, r.in) /\ main' = main /\ p \in Procs /\ p # Main
    BY <1>5, CallSteps DEF mainVars, Callers
  <2>2. /\ pc' = [pc EXCEPT ![p] = "lock"]
        /\ req' = [req EXCEPT ![p] = Request(r.seq, r.takeover)]
        /\ data' = [data EXCEPT ![p] = r.in]
    BY <2>1 DEF Call, Goto
  <2>3. req'[p] = Request(r.seq, r.takeover) /\ data'[p] = r.in
    BY <2>1, <2>2 DEF Typed, TypeOK
  <2>4. r.in.targets \subseteq Partitions
    BY SequencerAssumption DEF Typed, TypeOK
  <2>5. \A q \in Procs : q # p => pc'[q] = pc[q] /\ req'[q] = req[q] /\ data'[q] = data[q]
    BY <2>1, <2>2 DEF Typed, TypeOK
  <2> QED BY <1>m, <2>1, <2>3, <2>4, <2>5 DEF Requested
<1>6. CASE MainCalls
  <2>1. Call(Main, main, FALSE, NoData) /\ main' = main /\ main \in {"initialize", "install", "boot"}
    BY <1>6, CallSteps DEF mainVars
  <2>2. /\ pc' = [pc EXCEPT ![Main] = "lock"]
        /\ req' = [req EXCEPT ![Main] = Request(main, FALSE)]
        /\ data' = [data EXCEPT ![Main] = NoData]
    BY <2>1 DEF Call, Goto
  <2>3. req'[Main] = Request(main, FALSE) /\ data'[Main] = NoData
    BY <1>m, <2>2 DEF Typed, TypeOK
  <2>4. Request(main, FALSE).seq = main /\ ~Request(main, FALSE).takeover
    BY DEF Request
  <2>5. \A q \in Procs : q # Main => pc'[q] = pc[q] /\ req'[q] = req[q] /\ data'[q] = data[q]
    BY <1>m, <2>2 DEF Typed, TypeOK
  <2> QED BY <1>m, <2>1, <2>3, <2>4, <2>5 DEF Requested
<1>7. CASE MainGoesOn
  <2>1. UNCHANGED <<req, data>> /\ pc' = [pc EXCEPT ![Main] = "idle"]
    BY <1>7 DEF MainGoesOn, Goto
  <2>2. pc'[Main] = "idle" /\ \A q \in Procs : q # Main => pc'[q] = pc[q]
    BY <1>m, <2>1 DEF Typed, TypeOK
  <2> QED BY <1>m, <2>1, <2>2 DEF Requested
<1> QED BY <1>2, <1>3, <1>4, <1>5, <1>6, <1>7, RunCases

(* The list of a process does not change while it runs it. *)
LEMMA SameList ==
  ASSUME machine' = machine, NEW p, req'[p] = req[p], data'[p] = data[p]
  PROVE  ThePhases(p)' = ThePhases(p)
  BY DEF ThePhases

LEMMA OneHolderStep ==
  ASSUME Typed, Requested, InPhase, OneHolder, Next
  PROVE  OneHolder'
<1> DEFINE In == {"phase", "unlock"}
<1>m. Main \in Procs /\ pc \in [Procs -> {"idle", "lock", "await", "phase", "unlock", "returned"}]
      /\ holder \subseteq Procs /\ req \in [Procs -> AnyRequest]
  BY SequencerAssumption DEF Typed, TypeOK
<1>1. ASSUME UNCHANGED <<holder, held>>,
             \A q \in Procs : (pc'[q] \in In <=> pc[q] \in In) /\ (q \in holder => req'[q] = req[q])
      PROVE  OneHolder'
  BY <1>1, <1>m DEF OneHolder
<1>2. CASE Quiet
  BY <1>1, <1>2 DEF Quiet, lockState
<1>3. ASSUME NEW p \in Procs, NEW s, NEW t, NEW in, Call(p, s, t, in) PROVE OneHolder'
  <2>1. /\ pc[p] = "idle" /\ pc' = [pc EXCEPT ![p] = "lock"] /\ UNCHANGED <<holder, held>>
        /\ req' = [req EXCEPT ![p] = Request(s, t)]
    BY <1>3 DEF Call, Goto, lockState
  <2>2. p \notin holder
    BY <2>1 DEF OneHolder
  <2> QED BY <1>1, <1>m, <2>1, <2>2
<1>4. ASSUME NEW p \in Callers, NEW r \in machine.asks[p], Ask(p, r) PROVE OneHolder'
  BY <1>3, <1>4, CallSteps DEF Callers
<1>5. CASE MainCalls
  BY <1>3, <1>5, <1>m, CallSteps
<1>6. CASE MainGoesOn
  BY <1>1, <1>6, <1>m DEF MainGoesOn, Goto, lockState
<1>7. ASSUME NEW p \in Procs, LockRefused(p) \/ LockTimeout(p) \/ LockTakesOver(p) PROVE OneHolder'
  BY <1>1, <1>7, <1>m DEF LockRefused, LockTimeout, LockTakesOver, Return, Revoke, Goto, lockState
<1>8. ASSUME NEW p \in Procs, LockGranted(p) PROVE OneHolder'
  <2>1. holder = {} /\ holder' = {p} /\ held' = req[p] /\ req' = req
    BY <1>8 DEF LockGranted, Grant, Free
  <2>2. pc' = [pc EXCEPT ![p] = "phase"] \/ pc' = [pc EXCEPT ![p] = "unlock"]
    BY <1>8 DEF LockGranted, BeginPhase
  <2>3. \A q \in Procs : pc[q] \notin In
    BY <2>1 DEF OneHolder
  <2>4. \A q \in Procs : pc'[q] \in In <=> q = p
    BY <1>m, <2>2, <2>3
  <2> QED BY <2>1, <2>4 DEF OneHolder
<1>9. ASSUME NEW p \in Procs, PhaseEnds(p) PROVE OneHolder'
  <2>1. pc[p] = "phase" /\ UNCHANGED <<holder, held, req>>
    BY <1>9 DEF PhaseEnds, lockState
  <2>2. pc' = [pc EXCEPT ![p] = "phase"] \/ pc' = [pc EXCEPT ![p] = "unlock"]
    BY <1>9 DEF PhaseEnds, BeginPhase
  <2> QED BY <1>1, <1>m, <2>1, <2>2
<1>10. ASSUME NEW p \in Procs, Unlock(p) PROVE OneHolder'
  <2>1. pc[p] = "unlock" /\ pc' = [pc EXCEPT ![p] = "returned"] /\ holder' = {}
    BY <1>10 DEF Unlock, Goto, Release
  <2>2. \A q \in Procs : pc[q] \in In => q = p
    BY <2>1 DEF OneHolder
  <2>3. \A q \in Procs : pc'[q] \notin In
    BY <1>m, <2>1, <2>2
  <2> QED BY <2>1, <2>3 DEF OneHolder
<1>11. ASSUME NEW p \in Procs, NEW task \in AllTasks, NEW e \in Errors, TaskReturns(p, task, e), main' = main
       PROVE  OneHolder'
  BY <1>1, <1>11 DEF TaskReturns, lockState
<1> QED BY <1>2, <1>4, <1>5, <1>6, <1>7, <1>8, <1>9, <1>10, <1>11, RunCases

(* The process that begins a phase is in it, and its tasks are to be done. *)
LEMMA BeginsInPhase ==
  ASSUME Typed, NEW p \in Procs, NEW L \in Seq(Phased), L = ThePhases(p), ThePhases(p)' = L,
         NEW i \in Nat \ {0}, i <= Len(L) + 1, BeginPhase(p, L, i)
  PROVE  InPhaseOf(p)'
<1>0. RunTyped
  BY TypedParts
<1>1. PICK j \in i..(Len(L) + 1) :
        /\ at'[p] = j
        /\ todo'[p] = IF j <= Len(L) THEN L[j].tasks ELSE {}
        /\ pc'[p] = IF j <= Len(L) THEN "phase" ELSE "unlock"
  BY <1>0, BeginPhaseTyped
<1>2. err'[p] = "none" /\ Len(L) \in Nat
  BY <1>0 DEF BeginPhase, RunTyped
<1>3. CASE j <= Len(L)
  <2>1. pc'[p] = "phase" /\ at'[p] \in 1..Len(L) /\ todo'[p] = L[at'[p]].tasks
    BY <1>1, <1>2, <1>3
  <2> QED BY <1>2, <2>1 DEF InPhaseOf
<1>4. CASE ~(j <= Len(L))
  <2>1. pc'[p] = "unlock" /\ todo'[p] = {}
    BY <1>1, <1>4
  <2> QED BY <2>1 DEF InPhaseOf
<1> QED BY <1>3, <1>4

LEMMA InPhaseStep ==
  ASSUME Typed, Requested, InPhase, OneHolder, Next
  PROVE  InPhase'
<1>m. /\ machine' = machine /\ Main \in Procs /\ RunTyped
      /\ pc \in [Procs -> {"idle", "lock", "await", "phase", "unlock", "returned"}]
      /\ at \in [Procs -> Nat] /\ err \in [Procs -> Errors] /\ todo \in [Procs -> SUBSET AllTasks]
      /\ req \in [Procs -> AnyRequest] /\ DOMAIN data = Procs
  BY MachineTypedStep, SequencerAssumption, TypedParts DEF Typed, TypeOK
<1>s. ASSUME NEW q \in Procs, UNCHANGED <<pc[q], req[q], data[q], at[q], todo[q], err[q]>>
      PROVE  InPhaseOf(q)'
  <2>1. ThePhases(q)' = ThePhases(q)
    BY <1>m, <1>s, SameList
  <2>2. InPhaseOf(q)
    BY DEF InPhase
  <2> QED BY <1>s, <2>1, <2>2 DEF InPhaseOf
<1>o. ASSUME NEW q \in Procs, pc[q] # "phase" \/ todo[q] = {}, pc'[q] # "phase", todo'[q] = todo[q]
      PROVE  InPhaseOf(q)'
  BY <1>o DEF InPhase, InPhaseOf
<1>2. CASE Quiet
  BY <1>s, <1>2 DEF Quiet, InPhase
<1>3. ASSUME NEW p \in Procs, NEW s, NEW t, NEW in, Call(p, s, t, in) PROVE InPhase'
  <2>1. /\ pc[p] = "idle" /\ pc' = [pc EXCEPT ![p] = "lock"] /\ UNCHANGED <<at, todo, err>>
        /\ req' = [req EXCEPT ![p] = Request(s, t)] /\ data' = [data EXCEPT ![p] = in]
    BY <1>3 DEF Call, Goto
  <2>2. \A q \in Procs : q # p => UNCHANGED <<pc[q], req[q], data[q], at[q], todo[q], err[q]>>
    BY <1>m, <2>1
  <2>3. pc'[p] = "lock"
    BY <1>m, <2>1
  <2>4. InPhaseOf(p)'
    BY <1>o, <2>1, <2>3
  <2> QED BY <1>s, <2>2, <2>4 DEF InPhase
<1>4. ASSUME NEW p \in Callers, NEW r \in machine.asks[p], Ask(p, r) PROVE InPhase'
  BY <1>3, <1>4, CallSteps DEF Callers
<1>5. CASE MainCalls
  BY <1>3, <1>5, <1>m, CallSteps
<1>6. ASSUME NEW p \in Procs, UNCHANGED <<req, data, todo>>, pc[p] # "phase" \/ todo[p] = {}, pc'[p] # "phase",
             \A q \in Procs : q # p => UNCHANGED <<pc[q], at[q], err[q]>>
      PROVE  InPhase'
  <2>1. InPhaseOf(p)'
    BY <1>o, <1>6
  <2>2. \A q \in Procs : q # p => InPhaseOf(q)'
    BY <1>s, <1>6
  <2> QED BY <2>1, <2>2 DEF InPhase
<1>7. CASE MainGoesOn
  BY <1>6, <1>7, <1>m DEF MainGoesOn, Goto
<1>8. ASSUME NEW p \in Procs, LockRefused(p) \/ LockTimeout(p) \/ LockTakesOver(p) PROVE InPhase'
  BY <1>6, <1>8, <1>m DEF LockRefused, LockTimeout, LockTakesOver, Return, Goto
<1>9. ASSUME NEW p \in Procs, Unlock(p) PROVE InPhase'
  BY <1>6, <1>9, <1>m DEF Unlock, Goto
<1>b. ASSUME NEW p \in Procs, NEW L \in Seq(Phased), L = ThePhases(p), UNCHANGED <<req, data>>,
             NEW i \in Nat \ {0}, i <= Len(L) + 1, BeginPhase(p, L, i)
      PROVE  InPhase'
  <2>1. ThePhases(p)' = L
    BY <1>b, <1>m, SameList
  <2>2. InPhaseOf(p)'
    BY <1>b, <2>1, BeginsInPhase
  <2>3. \A q \in Procs : q # p => UNCHANGED <<pc[q], at[q], err[q], todo[q], req[q], data[q]>>
    BY <1>b, <1>m DEF BeginPhase
  <2> QED BY <1>s, <2>2, <2>3 DEF InPhase
<1>10. ASSUME NEW p \in Procs, LockGranted(p) PROVE InPhase'
  <2>1. UNCHANGED <<req, data>> /\ pc[p] \in {"await", "lock"}
    BY <1>10 DEF LockGranted
  <2>2. CASE data[p].type \in Accepts(req[p].seq)
    <3>1. ThePhases(p) \in Seq(Phased)
      BY <2>1, TheList DEF SortedOut
    <3>2. BeginPhase(p, ThePhases(p), 1) /\ 1 \in Nat \ {0} /\ 1 <= Len(ThePhases(p)) + 1
      BY <1>10, <2>2, <3>1 DEF LockGranted
    <3> QED BY <1>b, <2>1, <3>1, <3>2
  <2>3. CASE data[p].type \notin Accepts(req[p].seq)
    BY <1>6, <1>10, <1>m, <2>1, <2>3 DEF LockGranted
  <2> QED BY <2>2, <2>3
<1>11. ASSUME NEW p \in Procs, PhaseEnds(p) PROVE InPhase'
  <2>1. UNCHANGED <<req, data>> /\ pc[p] = "phase" /\ todo[p] = {}
    BY <1>11 DEF PhaseEnds
  <2>2. CASE err[p] = "none" /\ ~revoked
    <3>1. ThePhases(p) \in Seq(Phased) /\ at[p] \in 1..Len(ThePhases(p))
      BY <2>1, TheList DEF SortedOut, InPhase, InPhaseOf
    <3>2. /\ BeginPhase(p, ThePhases(p), at[p] + 1) /\ at[p] + 1 \in Nat \ {0}
          /\ at[p] + 1 <= Len(ThePhases(p)) + 1
      BY <1>11, <2>2, <3>1 DEF PhaseEnds
    <3> QED BY <1>b, <2>1, <3>1, <3>2
  <2>3. CASE ~(err[p] = "none" /\ ~revoked)
    <3>1. pc' = [pc EXCEPT ![p] = "unlock"] /\ UNCHANGED <<at, todo>>
      BY <1>11, <2>3 DEF PhaseEnds
    <3>2. err' = err \/ err' = [err EXCEPT ![p] = "canceled"]
      BY <1>11, <2>3 DEF PhaseEnds
    <3> QED BY <1>6, <1>m, <2>1, <3>1, <3>2
  <2> QED BY <2>2, <2>3
<1>12. ASSUME NEW p \in Procs, NEW task \in AllTasks, NEW e \in Errors, TaskReturns(p, task, e), main' = main
       PROVE  InPhase'
  <2>1. /\ pc[p] = "phase" /\ task \in todo[p] /\ UNCHANGED <<pc, req, data, at>>
        /\ todo' = [todo EXCEPT ![p] = @ \ {task}]
    BY <1>12 DEF TaskReturns, Running
  <2>2. \A q \in Procs : q # p => UNCHANGED <<pc[q], at[q], err[q], todo[q], req[q], data[q]>>
    BY <1>12, <1>m DEF TaskReturns
  <2>3. todo'[p] = todo[p] \ {task}
    BY <1>m, <2>1
  <2>4. ThePhases(p)' = ThePhases(p)
    BY <1>m, <2>1, SameList
  <2>5. InPhaseOf(p)
    BY DEF InPhase
  <2>6. InPhaseOf(p)'
    BY <2>1, <2>3, <2>4, <2>5 DEF InPhaseOf
  <2> QED BY <1>s, <2>2, <2>6 DEF InPhase
<1> QED BY <1>2, <1>4, <1>5, <1>7, <1>8, <1>9, <1>10, <1>11, <1>12, RunCases

LEMMA ErrFreshStep ==
  ASSUME Typed, Requested, ErrFresh, Next
  PROVE  ErrFresh'
<1>m. /\ Main \in Procs /\ pc \in [Procs -> {"idle", "lock", "await", "phase", "unlock", "returned"}]
      /\ err \in [Procs -> Errors]
  BY SequencerAssumption DEF Typed, TypeOK
<1>1. ASSUME NEW p \in Procs, \A q \in Procs : q # p => UNCHANGED <<pc[q], err[q]>>, main' = main,
             pc'[p] \in {"phase", "unlock", "returned"} \/ (pc'[p] \in {"lock", "await"} /\ err'[p] = "none")
      PROVE  ErrFresh'
  BY <1>1 DEF ErrFresh
<1>2. CASE Quiet
  BY <1>2 DEF Quiet, mainVars, ErrFresh
<1>3. ASSUME NEW p \in Procs, NEW s, NEW t, NEW in, Call(p, s, t, in), UNCHANGED mainVars,
             p = Main => main \in {"initialize", "install", "boot"}
      PROVE  ErrFresh'
  <2>1. pc[p] = "idle" /\ pc' = [pc EXCEPT ![p] = "lock"] /\ err' = err /\ main' = main
    BY <1>3 DEF Call, Goto, mainVars
  <2>2. err[p] = "none"
    BY <1>3, <2>1 DEF ErrFresh
  <2> QED BY <1>1, <1>m, <2>1, <2>2
<1>4. ASSUME NEW p \in Callers, NEW r \in machine.asks[p], Ask(p, r) PROVE ErrFresh'
  BY <1>3, <1>4, CallSteps DEF Callers
<1>5. CASE MainCalls
  BY <1>3, <1>5, <1>m, CallSteps
<1>6. CASE MainGoesOn
  <2>1. /\ pc' = [pc EXCEPT ![Main] = "idle"] /\ err' = err
        /\ err[Main] = "none" \/ main' \in {"watch", "over"}
    BY <1>6 DEF MainGoesOn, Goto
  <2> QED BY <1>m, <2>1 DEF ErrFresh
<1>7. ASSUME NEW p \in Procs, LockRefused(p) \/ LockTimeout(p) \/ Unlock(p) PROVE ErrFresh'
  BY <1>1, <1>7, <1>m DEF LockRefused, LockTimeout, Return, Unlock, Goto, mainVars
<1>8. ASSUME NEW p \in Procs, LockTakesOver(p) PROVE ErrFresh'
  <2>1. pc[p] = "lock" /\ pc' = [pc EXCEPT ![p] = "await"] /\ err' = err /\ main' = main
    BY <1>8 DEF LockTakesOver, Goto, mainVars
  <2>2. err[p] = "none"
    BY <2>1 DEF ErrFresh
  <2> QED BY <1>1, <1>m, <2>1, <2>2
<1>9. ASSUME NEW p \in Procs, LockGranted(p) \/ PhaseEnds(p) PROVE ErrFresh'
  <2>1. pc' = [pc EXCEPT ![p] = "phase"] \/ pc' = [pc EXCEPT ![p] = "unlock"]
    BY <1>9 DEF LockGranted, PhaseEnds, BeginPhase
  <2>2. main' = main
    BY <1>9 DEF LockGranted, PhaseEnds, Publish, mainVars
  <2>3. \A q \in Procs : q # p => err'[q] = err[q]
    BY <1>9, <1>m DEF LockGranted, PhaseEnds, BeginPhase
  <2> QED BY <1>1, <1>m, <2>1, <2>2, <2>3
<1>10. ASSUME NEW p \in Procs, NEW task \in AllTasks, NEW e \in Errors, TaskReturns(p, task, e), main' = main
       PROVE  ErrFresh'
  <2>1. pc' = pc /\ pc[p] = "phase" /\ \A q \in Procs : q # p => err'[q] = err[q]
    BY <1>10, <1>m DEF TaskReturns, Running
  <2> QED BY <1>1, <1>10, <2>1
<1> QED BY <1>2, <1>4, <1>5, <1>6, <1>7, <1>8, <1>9, <1>10, RunCases

RunInv == Typed /\ Requested /\ OneHolder /\ InPhase /\ ErrFresh

LEMMA RunInvInit == Init => RunInv
<1> SUFFICES ASSUME Init PROVE RunInv
  OBVIOUS
<1>1. Typed
  BY TypedInit
<1>2. Requested
  <2>1. NoData.targets = {} /\ NoRequest.seq = Noop /\ ~NoRequest.takeover
    BY DEF NoData, Data, NoRequest, Request
  <2>2. \A p \in Procs : pc[p] = "idle" /\ req[p] = NoRequest /\ data[p] = NoData
    BY DEF Init
  <2> QED BY <2>1, <2>2 DEF Requested
<1>3. OneHolder
  BY DEF Init, LockInit, OneHolder
<1>4. InPhase
  <2>1. \A p \in Procs : pc[p] # "phase" /\ todo[p] = {}
    BY DEF Init
  <2> QED BY <2>1 DEF InPhase, InPhaseOf
<1>5. ErrFresh
  BY DEF Init, ErrFresh
<1> QED BY <1>1, <1>2, <1>3, <1>4, <1>5 DEF RunInv

LEMMA RunInvStep == RunInv /\ [Next]_vars => RunInv'
<1> SUFFICES ASSUME RunInv, [Next]_vars PROVE RunInv'
  OBVIOUS
<1>0. [Next]_vars => Next \/ UNCHANGED vars
  OBVIOUS
<1>1. CASE Next
  <2>1. Typed /\ Requested /\ OneHolder /\ InPhase /\ ErrFresh
    BY DEF RunInv
  <2> QED BY <1>1, <2>1, TypedStep, RequestedStep, OneHolderStep, InPhaseStep, ErrFreshStep DEF RunInv
<1>2. CASE UNCHANGED vars
  <2> USE <1>2 DEF vars, runVars, mainVars, machineVars, volumeVars, diskVars, lockState
  <2>1. Typed'
    BY DEF RunInv, Typed, TypeOK, NoSignal
  <2>2. Requested'
    BY DEF RunInv, Requested
  <2>3. OneHolder'
    BY DEF RunInv, OneHolder
  <2>4. InPhase'
    <3>1. machine' = machine /\ \A p \in Procs : req'[p] = req[p] /\ data'[p] = data[p]
      OBVIOUS
    <3>2. \A p \in Procs : ThePhases(p)' = ThePhases(p)
      BY <3>1, SameList
    <3> QED BY <3>2 DEF RunInv, InPhase, InPhaseOf
  <2>5. ErrFresh'
    BY DEF RunInv, ErrFresh
  <2> QED BY <2>1, <2>2, <2>3, <2>4, <2>5 DEF RunInv
<1> QED BY <1>1, <1>2

LEMMA RunInvariant == Spec => []RunInv
<1> QED BY RunInvInit, RunInvStep, PTL DEF Spec

(* The state of the sequencer keeps its types: every request, phase, error  *)
(* and event is one that the code has, whoever calls Controller.Run when.   *)
THEOREM TypeCorrect == Spec => []TypeOK
<1>1. RunInv => TypeOK
  BY DEF RunInv, Typed
<1> QED BY <1>1, RunInvariant, PTL

(* The definitions of TakeOver mean the same in the lock's specification. *)
LEMMA SameRequests ==
  /\ TheLock!AnyRequest = AnyRequest
  /\ TheLock!NoRequest = NoRequest
  /\ TheLock!Sequences = Sequences
  /\ \A r \in AnyRequest, s \in Sequences \union {Noop} : TheLock!MayRun(r, s) <=> MayRun(r, s)
<1>1. TheLock!Sequences = Sequences /\ TheLock!Noop = Noop
  BY DEF TheLock!Sequences, TheLock!Noop, Sequences, Noop
<1>2. TheLock!sequenceTakeOver = sequenceTakeOver
  BY DEF TheLock!sequenceTakeOver, TheLock!Sequences, sequenceTakeOver, Sequences
<1> QED
  BY <1>1, <1>2
     DEF TheLock!AnyRequest, TheLock!NoRequest, TheLock!Request, TheLock!MayRun,
         TheLock!CanTakeOver, AnyRequest, NoRequest, Request, MayRun, CanTakeOver

(* Who is not idle has asked for a sequence. *)
LEMMA AsksForSequence ==
  ASSUME RunInv, NEW p \in Procs, pc[p] # "idle"
  PROVE  req[p] \in AnyRequest /\ req[p].seq \in Sequences
<1>1. req[p] \in AnyRequest
  BY DEF RunInv, Typed, TypeOK
<1>2. CASE p = Main
  BY <1>1, <1>2 DEF RunInv, Requested, Request, Sequences
<1>3. CASE p # Main
  <2>1. PICK r \in machine.asks[p] : req[p] = Request(r.seq, r.takeover)
    BY <1>3 DEF RunInv, Requested
  <2>2. r.seq \in Sequences
    BY <1>3, SequencerAssumption DEF Callers, RunInv, Typed, TypeOK
  <2> QED BY <1>1, <2>1, <2>2 DEF Request
<1> QED BY <1>2, <1>3

(* Controller.Run uses the priority lock as SequenceLockSpec has it, which  *)
(* PriorityLock implements: a process asks when it neither waits nor runs,  *)
(* a running sequence is cancelled only by a request that waits in Lock at  *)
(* that moment and may interrupt it, and the deferred Unlock gives back a   *)
(* lock that its own call holds, whatever the tasks did.                    *)
THEOREM RunsUnderTheLock == Spec => TheLock!LockSpec
<1>1. Init => TheLock!SpecInit
  BY SameRequests DEF Init, LockInit, Waiting, TheLock!SpecInit, TheLock!LockInit
<1>2. ASSUME RunInv, [Next]_vars PROVE TheLock!LockNext \/ UNCHANGED TheLock!specState
  <2>typed. /\ pc \in [Procs -> {"idle", "lock", "await", "phase", "unlock", "returned"}]
            /\ req \in [Procs -> AnyRequest] /\ held \in AnyRequest
            /\ RunInv /\ Typed /\ Requested /\ OneHolder
    BY <1>2 DEF RunInv, Typed, TypeOK
  <2>waits. ASSUME NEW p \in Procs, pc[p] \in {"lock", "await"}
            PROVE  TheLock!Waits(p) /\ Waiting[p] = req[p]
    <3>1. NoRequest.seq = Noop /\ Noop \notin Sequences
      BY DEF NoRequest, Request, Noop, Sequences
    <3>2. req[p].seq \in Sequences
      BY <2>typed, <2>waits, AsksForSequence
    <3> QED BY <2>waits, <3>1, <3>2, SameRequests DEF Waiting, TheLock!Waits
  <2>same. ASSUME NEW p \in Procs, NEW l, req' = req, pc' = [pc EXCEPT ![p] = l],
                  l \in {"lock", "await"} <=> pc[p] \in {"lock", "await"}
           PROVE  Waiting' = Waiting
    BY <2>same, <2>typed DEF Waiting
  <2>done. ASSUME NEW p \in Procs, NEW l, req' = req, pc' = [pc EXCEPT ![p] = l],
                  l \notin {"lock", "await"}
           PROVE  Waiting' = [Waiting EXCEPT ![p] = NoRequest]
    BY <2>done, <2>typed DEF Waiting
  <2>begins. ASSUME NEW p \in Procs, NEW list, NEW i, BeginPhase(p, list, i)
             PROVE  \E l \in {"phase", "unlock"} : pc' = [pc EXCEPT ![p] = l]
    <3>1. PICK j \in i..(Len(list) + 1) : pc' = [pc EXCEPT ![p] = IF j <= Len(list) THEN "phase" ELSE "unlock"]
      BY <2>begins DEF BeginPhase
    <3>2. CASE j <= Len(list)
      BY <3>1, <3>2
    <3>3. CASE ~(j <= Len(list))
      BY <3>1, <3>3
    <3> QED BY <3>2, <3>3
  <2>0. ASSUME UNCHANGED <<lockState, pc, req>> PROVE UNCHANGED TheLock!specState
    BY <2>0 DEF lockState, Waiting, TheLock!specState, TheLock!lockState
  <2>1. ASSUME NEW p \in Procs, NEW sq \in Sequences, NEW t \in BOOLEAN, NEW in, Call(p, sq, t, in)
        PROVE  TheLock!LockNext
    <3>0. /\ pc[p] = "idle" /\ pc' = [pc EXCEPT ![p] = "lock"]
          /\ req' = [req EXCEPT ![p] = Request(sq, t)] /\ UNCHANGED lockState
      BY <2>1 DEF Call, Goto
    <3>1. p \notin holder /\ ~TheLock!Waits(p)
      BY <2>typed, <3>0, SameRequests DEF OneHolder, Waiting, TheLock!Waits
    <3>2. Waiting' = [Waiting EXCEPT ![p] = Request(sq, t)]
      BY <2>typed, <3>0 DEF Waiting
    <3>3. Request(sq, t) \in AnyRequest /\ Request(sq, t).seq \in Sequences
      BY DEF Request, AnyRequest
    <3>4. TheLock!AsksFor(p, Request(sq, t))
      BY <3>0, <3>1, <3>2, <3>3, SameRequests DEF lockState, TheLock!AsksFor, TheLock!lockState
    <3> QED BY <3>3, <3>4, SameRequests DEF TheLock!LockNext
  <2>2. ASSUME NEW p \in Callers, NEW r \in machine.asks[p], Ask(p, r) PROVE TheLock!LockNext
    <3>1. p \in Procs /\ r.seq \in Sequences /\ r.takeover \in BOOLEAN
      BY <2>typed, SequencerAssumption DEF Callers, Typed, TypeOK
    <3>2. Call(p, r.seq, r.takeover, r.in)
      BY <2>2, CallSteps
    <3> QED BY <2>1, <3>1, <3>2
  <2>3. CASE MainCalls
    <3>1. main \in Sequences /\ Main \in Procs
      BY <2>3, CallSteps, SequencerAssumption DEF Sequences
    <3>2. Call(Main, main, FALSE, NoData)
      BY <2>3, CallSteps
    <3> QED BY <2>1, <3>1, <3>2
  <2>4. ASSUME NEW p \in Procs, LockRefused(p) \/ LockTimeout(p) PROVE TheLock!GivesUp(p)
    <3>1. pc[p] \in {"lock", "await"} /\ req' = req /\ pc' = [pc EXCEPT ![p] = "returned"] /\ UNCHANGED lockState
      BY <2>4 DEF LockRefused, LockTimeout, Return, Goto
    <3>2. Waiting' = [Waiting EXCEPT ![p] = NoRequest]
      BY <2>done, <3>1
    <3> QED BY <2>waits, <3>1, <3>2, SameRequests DEF lockState, TheLock!GivesUp, TheLock!lockState
  <2>5. ASSUME NEW p \in Procs, LockTakesOver(p) PROVE TheLock!Interrupts(p)
    <3>0. pc[p] = "lock" /\ req' = req /\ pc' = [pc EXCEPT ![p] = "await"] /\ Revoke(req[p])
      BY <2>5 DEF LockTakesOver, Goto
    <3>1. Waiting' = Waiting
      BY <2>same, <3>0
    <3>2. TheLock!Waits(p) /\ Waiting[p] = req[p]
      BY <2>waits, <3>0
    <3>3. held.seq \in Sequences \union {Noop}
      BY <2>typed DEF AnyRequest
    <3>4. TheLock!MayRun(Waiting[p], held.seq)
      BY <2>typed, <3>0, <3>2, <3>3, SameRequests DEF Revoke
    <3> QED BY <3>0, <3>1, <3>2, <3>4 DEF Revoke, Free, TheLock!Interrupts, TheLock!Revoke, TheLock!Free
  <2>6. ASSUME NEW p \in Procs, LockGranted(p) PROVE TheLock!Takes(p)
    <3>0. pc[p] \in {"lock", "await"} /\ req' = req /\ Grant(p, req[p])
      BY <2>6 DEF LockGranted
    <3>1. PICK l \in {"phase", "unlock"} : pc' = [pc EXCEPT ![p] = l]
      <4>1. CASE data[p].type \in Accepts(req[p].seq)
        BY <2>6, <2>begins, <4>1 DEF LockGranted
      <4> QED BY <2>6, <4>1 DEF LockGranted
    <3>2. Waiting' = [Waiting EXCEPT ![p] = NoRequest]
      BY <2>done, <3>0, <3>1
    <3>3. TheLock!Waits(p) /\ Waiting[p] = req[p]
      BY <2>waits, <3>0
    <3> QED BY <3>0, <3>2, <3>3, SameRequests DEF Grant, Free, TheLock!Takes, TheLock!Grant, TheLock!Free
  <2>7. ASSUME NEW p \in Procs, Unlock(p) PROVE TheLock!GivesBack(p)
    <3>0. pc[p] = "unlock" /\ req' = req /\ pc' = [pc EXCEPT ![p] = "returned"] /\ Release
      BY <2>7 DEF Unlock, Goto
    <3>1. Waiting' = Waiting
      BY <2>same, <3>0
    <3>2. holder = {p}
      BY <2>typed, <3>0 DEF OneHolder
    <3> QED BY <3>0, <3>1, <3>2, SameRequests DEF Release, Free, TheLock!GivesBack, TheLock!Release, TheLock!Free
  <2>8. ASSUME NEW p \in Procs, PhaseEnds(p) PROVE UNCHANGED TheLock!specState
    <3>0. pc[p] = "phase" /\ req' = req /\ UNCHANGED lockState
      BY <2>8 DEF PhaseEnds
    <3>1. PICK l \in {"phase", "unlock"} : pc' = [pc EXCEPT ![p] = l]
      BY <2>8, <2>begins DEF PhaseEnds
    <3>2. Waiting' = Waiting
      BY <2>same, <3>0, <3>1
    <3> QED BY <3>0, <3>2 DEF lockState, TheLock!specState, TheLock!lockState
  <2>9. CASE MainGoesOn
    <3>0. /\ pc[Main] = "returned" /\ Main \in Procs /\ req' = req /\ UNCHANGED lockState
          /\ pc' = [pc EXCEPT ![Main] = "idle"]
      BY <2>9, SequencerAssumption DEF MainGoesOn, Goto
    <3>1. Waiting' = Waiting
      BY <2>same, <3>0
    <3> QED BY <3>0, <3>1 DEF lockState, TheLock!specState, TheLock!lockState
  <2>10. ASSUME NEW p \in Procs, NEW task \in AllTasks, NEW e \in Errors, TaskReturns(p, task, e)
         PROVE  UNCHANGED TheLock!specState
    BY <2>0, <2>10 DEF TaskReturns
  <2>11. CASE Quiet
    BY <2>0, <2>11 DEF Quiet
  <2>12. CASE Next
    BY <2>typed, <2>2, <2>3, <2>4, <2>5, <2>6, <2>7, <2>8, <2>9, <2>10, <2>11, <2>12, RunCases
       DEF TheLock!LockNext
  <2>13. CASE UNCHANGED vars
    BY <2>0, <2>13 DEF vars, runVars
  <2> QED BY <1>2, <2>12, <2>13
<1>3. RunInv /\ [Next]_vars => [TheLock!LockNext]_(TheLock!specState)
  BY <1>2
<1> QED BY <1>1, <1>3, RunInvariant, PTL DEF Spec, TheLock!LockSpec

-----------------------------------------------------------------------------
(* What a step leaves as it is. *)

(* An error stays until the next request, and only main makes one. *)
LEMMA ErrKept ==
  ASSUME RunInv, Next, NEW q \in Procs, err[q] # "none"
  PROVE  err'[q] = err[q] /\ req'[q] = req[q] /\ data'[q] = data[q]
<1>m. /\ Main \in Procs /\ pc \in [Procs -> {"idle", "lock", "await", "phase", "unlock", "returned"}]
      /\ err \in [Procs -> Errors] /\ req \in [Procs -> AnyRequest] /\ DOMAIN data = Procs
      /\ Typed /\ Requested /\ ErrFresh
  BY SequencerAssumption DEF RunInv, Typed, TypeOK
<1>0. pc[q] \notin {"lock", "await"} /\ (pc[q] = "idle" => q = Main /\ main \in {"watch", "over"})
  BY <1>m DEF ErrFresh
<1>1. CASE Quiet \/ MainGoesOn
  BY <1>1 DEF Quiet, MainGoesOn
<1>2. ASSUME NEW p \in Procs, NEW s, NEW t, NEW in, Call(p, s, t, in), p # q
      PROVE  err'[q] = err[q] /\ req'[q] = req[q] /\ data'[q] = data[q]
  BY <1>2, <1>m DEF Call
<1>3. ASSUME NEW p \in Callers, NEW r \in machine.asks[p], Ask(p, r)
      PROVE  err'[q] = err[q] /\ req'[q] = req[q] /\ data'[q] = data[q]
  <2>1. Call(p, r.seq, r.takeover, r.in) /\ p \in Procs /\ p # Main
    BY <1>3, CallSteps DEF Callers
  <2>2. p # q
    BY <1>0, <2>1 DEF Call, Goto
  <2> QED BY <1>2, <2>1, <2>2
<1>4. CASE MainCalls
  <2>1. Call(Main, main, FALSE, NoData) /\ main \in {"initialize", "install", "boot"}
    BY <1>4, CallSteps
  <2>2. Main # q
    BY <1>0, <2>1 DEF Call, Goto
  <2> QED BY <1>2, <1>m, <2>1, <2>2
<1>5. ASSUME NEW p \in Procs, LockRefused(p) \/ LockTimeout(p)
      PROVE  err'[q] = err[q] /\ req'[q] = req[q] /\ data'[q] = data[q]
  BY <1>0, <1>5, <1>m DEF LockRefused, LockTimeout, Return, Goto
<1>6. ASSUME NEW p \in Procs, LockTakesOver(p) \/ Unlock(p)
      PROVE  err'[q] = err[q] /\ req'[q] = req[q] /\ data'[q] = data[q]
  BY <1>6 DEF LockTakesOver, Unlock
<1>7. ASSUME NEW p \in Procs, LockGranted(p)
      PROVE  err'[q] = err[q] /\ req'[q] = req[q] /\ data'[q] = data[q]
  <2>1. p # q
    BY <1>0, <1>7 DEF LockGranted
  <2> QED BY <1>7, <1>m, <2>1 DEF LockGranted, BeginPhase
<1>8. ASSUME NEW p \in Procs, PhaseEnds(p)
      PROVE  err'[q] = err[q] /\ req'[q] = req[q] /\ data'[q] = data[q]
  BY <1>8, <1>m DEF PhaseEnds, BeginPhase
<1>9. ASSUME NEW p \in Procs, NEW task \in AllTasks, NEW e \in Errors, TaskReturns(p, task, e)
      PROVE  err'[q] = err[q] /\ req'[q] = req[q] /\ data'[q] = data[q]
  BY <1>9, <1>m DEF TaskReturns
<1> QED BY <1>1, <1>3, <1>4, <1>5, <1>6, <1>7, <1>8, <1>9, <1>m, RunCases

LEMMA WipeFailedKept ==
  ASSUME RunInv, Next, WipeFailed
  PROVE  WipeFailed'
<1>1. PICK q \in Procs : req[q].seq \in {"reset", "initialize"} /\ err[q] \in {"error", "canceled"}
  BY DEF WipeFailed
<1>2. err'[q] = err[q] /\ req'[q] = req[q]
  BY <1>1, ErrKept
<1> QED BY <1>1, <1>2 DEF WipeFailed

LEMMA TakeOverFailedKept ==
  ASSUME RunInv, Next, TakeOverFailed
  PROVE  TakeOverFailed'
<1>1. PICK q \in Procs : err[q] \in {"timeout", "invalid"}
  BY DEF TakeOverFailed
<1>2. err'[q] = err[q]
  BY <1>1, ErrKept
<1> QED BY <1>1, <1>2 DEF TakeOverFailed

(* What is gone, wiped, flushed or stored stays so. *)
LEMMA MachineKept ==
  ASSUME RunInv, Next
  PROVE  /\ lifecycle = "gone" => lifecycle' = "gone"
         /\ wiped \subseteq wiped' /\ wiped' \subseteq Partitions
         /\ tag = "flushed" => tag' = "flushed"
         /\ emergency = "powerOff" => emergency' = "powerOff"
<1>t. Typed /\ Requested /\ MachineTyped
  BY TypedParts DEF RunInv
<1>p. MachineTyped'
  BY <1>t, MachineTypedStep
<1> DEFINE Kept == /\ lifecycle = "gone" => lifecycle' = "gone"
                   /\ wiped \subseteq wiped'
                   /\ tag = "flushed" => tag' = "flushed"
                   /\ emergency = "powerOff" => emergency' = "powerOff"
<1> SUFFICES Kept
  BY <1>p DEF MachineTyped
<1>1. ASSUME UNCHANGED machineVars PROVE Kept
  BY <1>1 DEF machineVars, volumeVars, diskVars
<1>2. ASSUME NEW p \in Callers, NEW r \in machine.asks[p], Ask(p, r) PROVE Kept
  BY <1>2, <1>t DEF Ask, MachineTyped, volumeVars
<1>3. CASE MainCalls \/ MainGoesOn \/ GoesDown \/ ShutdownHangs \/ UNCHANGED vars
  BY <1>1, <1>3 DEF MainCalls, MainGoesOn, GoesDown, ShutdownHangs, vars
<1>4. CASE VolumeMounts \/ VolumeUnmounts \/ VolumesClose
  BY <1>4 DEF VolumeMounts, VolumeUnmounts, VolumesClose, diskVars
<1>5. ASSUME NEW p \in Procs, \/ LockRefused(p) \/ LockTimeout(p) \/ LockTakesOver(p) \/ LockGranted(p)
                              \/ Unlock(p) \/ PhaseEnds(p)
      PROVE  Kept
  BY <1>1, <1>5 DEF LockRefused, LockTimeout, Return, LockTakesOver, LockGranted, Unlock, PhaseEnds
<1>w. ASSUME NEW targets, NEW done, NEW e, WipeSpec(targets, done, e)
      PROVE  wiped \subseteq wiped' /\ (tag = "flushed" => tag' = "flushed")
  BY <1>w DEF WipeSpec, Wipes, DropsTag
<1>d. ASSUME NEW done, NEW e, WipeDisk(done, e) PROVE wiped \subseteq wiped' /\ tag' = tag
  BY <1>d DEF WipeDisk, Wipes
<1>6. ASSUME NEW p \in Procs, TaskStep(p) PROVE Kept
  <2>1. CASE \/ OtherTask(p) \/ StopAllServicesWaits(p) \/ StopAllServices(p) \/ CordonAndDrainNode(p)
           \/ MountReturns(p) \/ RestartTask(p)
    BY <1>1, <2>1 DEF OtherTask, StopAllServicesWaits, StopAllServices, CordonAndDrainNode, MountReturns, RestartTask
  <2>2. CASE StoreShutdownEmergency(p)
    BY <2>2 DEF StoreShutdownEmergency, volumeVars, diskVars
  <2>3. CASE MountRequested(p) \/ TeardownRequested(p)
    BY <2>3 DEF MountRequested, TeardownRequested, AsksVolumes, diskVars
  <2>4. CASE UnmountEphemeralPartition(p)
    BY <2>4 DEF UnmountEphemeralPartition, diskVars
  <2>5. CASE TeardownReturns(p)
    BY <2>5 DEF TeardownReturns, diskVars
  <2>6. CASE Installer(p)
    BY <2>6 DEF Installer, volumeVars
  <2>7. CASE KexecPrepare(p)
    BY <2>7 DEF KexecPrepare, volumeVars
  <2>8. CASE ResetSystemDiskSpec(p)
    <3>1. PICK done \in SUBSET data[p].targets, e \in AnyEnd(p) : WipeSpec(data[p].targets, done, e)
      BY <2>8 DEF ResetSystemDiskSpec
    <3>2. UNCHANGED <<volumeVars, emergency>>
      BY <2>8 DEF ResetSystemDiskSpec
    <3> QED BY <1>w, <3>1, <3>2 DEF volumeVars
  <2>9. CASE ResetSystemDisk(p)
    BY <1>d, <2>9 DEF ResetSystemDisk, volumeVars
  <2>10. CASE ResetSystemDiskPartitions(p)
    <3>1. wiped \subseteq wiped' /\ (tag = "flushed" => tag' = "flushed")
      BY <1>w, <1>d, <2>10 DEF ResetSystemDiskPartitions
    <3>2. UNCHANGED <<volumeVars, emergency>>
      BY <2>10 DEF ResetSystemDiskPartitions
    <3> QED BY <3>1, <3>2 DEF volumeVars
  <2> QED BY <1>6, <2>1, <2>2, <2>3, <2>4, <2>5, <2>6, <2>7, <2>8, <2>9, <2>10 DEF TaskStep
<1> HIDE DEF Kept
<1> QED BY <1>2, <1>3, <1>4, <1>5, <1>6, NextCases

-----------------------------------------------------------------------------
(* The task that returns. *)

(* The task x of p has returned, and was in the list. *)
Took(p, x) == pc[p] = "phase" /\ x \in todo[p] /\ x \notin todo'[p]

LEMMA ReturnsOne ==
  ASSUME Typed, NEW p \in Procs, NEW t, NEW e, TaskReturns(p, t, e)
  PROVE  /\ Took(p, t) /\ \A x : Took(p, x) => x = t
         /\ \A q \in Procs : \A x : Took(q, x) => q = p
         /\ \A q \in Procs : q # p => err'[q] = err[q]
         /\ err'[p] = IF err[p] = "none" /\ ~ThePhases(p)[at[p]].log THEN e ELSE err[p]
<1>1. /\ pc[p] = "phase" /\ t \in todo[p] /\ todo' = [todo EXCEPT ![p] = @ \ {t}]
      /\ err' = [err EXCEPT ![p] = IF @ = "none" /\ ~ThePhases(p)[at[p]].log THEN e ELSE @]
  BY DEF TaskReturns, Running
<1>2. todo \in [Procs -> SUBSET AllTasks] /\ err \in [Procs -> Errors]
  BY DEF Typed, TypeOK
<1>3. todo'[p] = todo[p] \ {t} /\ \A q \in Procs : q # p => todo'[q] = todo[q] /\ err'[q] = err[q]
  BY <1>1, <1>2
<1>4. err'[p] = IF err[p] = "none" /\ ~ThePhases(p)[at[p]].log THEN e ELSE err[p]
  BY <1>1, <1>2
<1> QED BY <1>1, <1>3, <1>4 DEF Took

(* Which action it is. *)
LEMMA TaskNamed ==
  ASSUME Typed, NEW p \in Procs, TaskStep(p), NEW x, Took(p, x)
  PROVE  /\ x = "StoreShutdownEmergency" => StoreShutdownEmergency(p)
         /\ x = "TeardownVolumeLifecycle" => TeardownReturns(p)
         /\ x = "KexecPrepare" => KexecPrepare(p)
         /\ x = "ResetSystemDiskSpec" => ResetSystemDiskSpec(p)
         /\ x = "ResetSystemDisk" => ResetSystemDisk(p)
         /\ x = "ResetSystemDiskPartitions" => ResetSystemDiskPartitions(p)
         /\ x \in RestartTasks => RestartTask(p)
<1> USE DEF RestartTasks
<1>1. CASE OtherTask(p)
  <2>1. PICK t \in MayFail \union NeverFails \union {"haltIfInstalled"} : \E e : TaskReturns(p, t, e)
    BY <1>1 DEF OtherTask
  <2>2. x = t
    BY <2>1, ReturnsOne
  <2> QED BY <2>2 DEF MayFail, NeverFails, CheckTasks, ServiceTasks, FileTasks, UnmountTasks, MetaTasks
<1>2. CASE CordonAndDrainNode(p)
  <2>1. x = "CordonAndDrainNode"
    BY <1>2, ReturnsOne DEF CordonAndDrainNode
  <2> QED BY <2>1
<1>3. CASE StoreShutdownEmergency(p)
  <2>1. x = "StoreShutdownEmergency"
    BY <1>3, ReturnsOne DEF StoreShutdownEmergency
  <2> QED BY <1>3, <2>1
<1>4. CASE MountRequested(p) \/ TeardownRequested(p)
  BY <1>4 DEF MountRequested, TeardownRequested, AsksVolumes, Took
<1>5. CASE MountReturns(p)
  <2>1. x = "MountEphemeralPartition"
    BY <1>5, ReturnsOne DEF MountReturns
  <2> QED BY <2>1
<1>6. CASE UnmountEphemeralPartition(p)
  <2>1. x = "UnmountEphemeralPartition"
    BY <1>6, ReturnsOne DEF UnmountEphemeralPartition
  <2> QED BY <2>1
<1>7. CASE TeardownReturns(p)
  <2>1. x = "TeardownVolumeLifecycle"
    BY <1>7, ReturnsOne DEF TeardownReturns
  <2> QED BY <1>7, <2>1
<1>8. CASE Installer(p)
  <2>1. x \in {"Install", "Upgrade"}
    BY <1>8, ReturnsOne DEF Installer
  <2> QED BY <2>1
<1>9. CASE KexecPrepare(p)
  <2>1. x = "KexecPrepare"
    BY <1>9, ReturnsOne DEF KexecPrepare
  <2> QED BY <1>9, <2>1
<1>10. CASE ResetSystemDiskSpec(p)
  <2>1. x = "ResetSystemDiskSpec"
    BY <1>10, ReturnsOne DEF ResetSystemDiskSpec
  <2> QED BY <1>10, <2>1
<1>11. CASE ResetSystemDisk(p)
  <2>1. x = "ResetSystemDisk"
    BY <1>11, ReturnsOne DEF ResetSystemDisk
  <2> QED BY <1>11, <2>1
<1>12. CASE ResetSystemDiskPartitions(p)
  <2>1. x = "ResetSystemDiskPartitions"
    BY <1>12, ReturnsOne DEF ResetSystemDiskPartitions
  <2> QED BY <1>12, <2>1
<1>13. CASE RestartTask(p)
  <2>1. x \in {"Reboot", "Shutdown"}
    BY <1>13, ReturnsOne DEF RestartTask
  <2> QED BY <1>13, <2>1
<1>14. CASE StopAllServicesWaits(p)
  BY <1>14 DEF StopAllServicesWaits, Took
<1>15. CASE StopAllServices(p)
  <2>1. x = "StopAllServices"
    BY <1>15, ReturnsOne DEF StopAllServices
  <2> QED BY <2>1
<1> QED BY <1>1, <1>2, <1>3, <1>4, <1>5, <1>6, <1>7, <1>8, <1>9, <1>10, <1>11, <1>12, <1>13, <1>14, <1>15
        DEF TaskStep

(* A process that is in a phase after a step: nothing of it has changed,    *)
(* one of its tasks has asked or returned, or it has begun the phase.       *)
LEMMA PhaseCases ==
  ASSUME RunInv, Next, NEW p \in Procs, pc'[p] = "phase"
  PROVE  /\ ThePhases(p)' = ThePhases(p) /\ req'[p] = req[p] /\ data'[p] = data[p]
         /\ ThePhases(p) \in Seq(Phased)
         /\ \/ pc[p] = "phase" /\ UNCHANGED <<at[p], todo[p], err[p]>>
            \/ \E t \in AllTasks, e \in Errors : TaskReturns(p, t, e) /\ TaskStep(p)
            \/ /\ pc[p] = "phase" /\ todo[p] = {} /\ err[p] = "none"
               /\ BeginPhase(p, ThePhases(p), at[p] + 1)
            \/ /\ pc[p] \in {"lock", "await"} /\ Free /\ data[p].type \in Accepts(req[p].seq)
               /\ LockGranted(p) /\ BeginPhase(p, ThePhases(p), 1)
<1>m. /\ Main \in Procs /\ pc \in [Procs -> {"idle", "lock", "await", "phase", "unlock", "returned"}]
      /\ err \in [Procs -> Errors] /\ req \in [Procs -> AnyRequest] /\ DOMAIN data = Procs
      /\ at \in [Procs -> Nat] /\ todo \in [Procs -> SUBSET AllTasks]
      /\ Typed /\ Requested /\ machine' = machine
  BY SequencerAssumption, MachineTypedStep DEF RunInv, Typed, TypeOK
<1> DEFINE Goal == \/ pc[p] = "phase" /\ UNCHANGED <<at[p], todo[p], err[p]>>
                   \/ \E t \in AllTasks, e \in Errors : TaskReturns(p, t, e) /\ TaskStep(p)
                   \/ /\ pc[p] = "phase" /\ todo[p] = {} /\ err[p] = "none"
                      /\ BeginPhase(p, ThePhases(p), at[p] + 1)
                   \/ /\ pc[p] \in {"lock", "await"} /\ Free /\ data[p].type \in Accepts(req[p].seq)
                      /\ LockGranted(p) /\ BeginPhase(p, ThePhases(p), 1)
<1> DEFINE All == pc[p] # "idle" /\ req'[p] = req[p] /\ data'[p] = data[p] /\ Goal
<1> SUFFICES All
  <2>1. ThePhases(p)' = ThePhases(p)
    BY <1>m, SameList
  <2>2. ThePhases(p) \in Seq(Phased)
    BY <1>m, TheList DEF SortedOut
  <2> QED BY <2>1, <2>2
<1>1. ASSUME UNCHANGED <<pc[p], at[p], todo[p], err[p], req[p], data[p]>> PROVE All
  BY <1>1
<1>2. ASSUME NEW q \in Procs, NEW s, NEW t, NEW in, Call(q, s, t, in) PROVE All
  <2>1. pc' = [pc EXCEPT ![q] = "lock"] /\ q # p
    BY <1>2, <1>m DEF Call, Goto
  <2> QED BY <1>1, <1>2, <1>m, <2>1 DEF Call
<1>3. ASSUME NEW q \in Callers, NEW r \in machine.asks[q], Ask(q, r) PROVE All
  <2> HIDE DEF All
  <2> QED BY <1>2, <1>3, CallSteps DEF Callers
<1>4. CASE MainCalls
  <2> HIDE DEF All
  <2> QED BY <1>2, <1>4, <1>m, CallSteps
<1>5. CASE MainGoesOn
  <2>1. pc' = [pc EXCEPT ![Main] = "idle"] /\ UNCHANGED <<at, todo, err, req, data>>
    BY <1>5 DEF MainGoesOn, Goto
  <2>2. p # Main
    BY <1>m, <2>1
  <2>3. UNCHANGED <<pc[p], at[p], todo[p], err[p], req[p], data[p]>>
    BY <1>m, <2>1, <2>2
  <2> HIDE DEF All
  <2> QED BY <1>1, <2>3
<1>6. CASE GoesDown \/ ShutdownHangs \/ VolumeMounts \/ VolumeUnmounts \/ VolumesClose \/ UNCHANGED vars
  BY <1>1, <1>6 DEF GoesDown, ShutdownHangs, VolumeMounts, VolumeUnmounts, VolumesClose, vars, runVars
<1>7. ASSUME NEW q \in Procs, LockRefused(q) \/ LockTimeout(q) \/ LockTakesOver(q) \/ Unlock(q) PROVE All
  <2>1. /\ pc' = [pc EXCEPT ![q] = "returned"] \/ pc' = [pc EXCEPT ![q] = "await"]
        /\ UNCHANGED <<todo, req, data>>
        /\ at' = at \/ at' = [at EXCEPT ![q] = 0]
        /\ err' = err \/ err' = [err EXCEPT ![q] = "locked"] \/ err' = [err EXCEPT ![q] = "timeout"]
    BY <1>7 DEF LockRefused, LockTimeout, LockTakesOver, Unlock, Return, Goto
  <2>2. p # q
    BY <1>m, <2>1
  <2>3. UNCHANGED <<pc[p], at[p], todo[p], err[p], req[p], data[p]>>
    BY <1>m, <2>1, <2>2
  <2> HIDE DEF All
  <2> QED BY <1>1, <2>3
<1>8. ASSUME NEW q \in Procs, LockGranted(q) PROVE All
  <2>1. CASE q # p
    <3>1. UNCHANGED <<pc[p], at[p], todo[p], err[p], req[p], data[p]>>
      BY <1>8, <1>m, <2>1 DEF LockGranted, BeginPhase
    <3> HIDE DEF All
    <3> QED BY <1>1, <3>1
  <2>2. CASE q = p
    <3>1. data[p].type \in Accepts(req[p].seq)
      BY <1>8, <1>m, <2>2 DEF LockGranted
    <3>2. BeginPhase(p, ThePhases(p), 1) /\ Free /\ UNCHANGED <<req, data>> /\ pc[p] \in {"lock", "await"}
      BY <1>8, <2>2, <3>1 DEF LockGranted, Grant
    <3> QED BY <1>8, <2>2, <3>1, <3>2
  <2> QED BY <2>1, <2>2
<1>9. ASSUME NEW q \in Procs, PhaseEnds(q) PROVE All
  <2>1. CASE q # p
    <3>1. UNCHANGED <<pc[p], at[p], todo[p], err[p], req[p], data[p]>>
      BY <1>9, <1>m, <2>1 DEF PhaseEnds, BeginPhase
    <3> HIDE DEF All
    <3> QED BY <1>1, <3>1
  <2>2. CASE q = p
    <3>1. /\ pc[p] = "phase" /\ todo[p] = {} /\ err[p] = "none" /\ UNCHANGED <<req, data>>
          /\ BeginPhase(p, ThePhases(p), at[p] + 1)
      BY <1>9, <1>m, <2>2 DEF PhaseEnds
    <3> QED BY <3>1
  <2> QED BY <2>1, <2>2
<1>10. ASSUME NEW q \in Procs, TaskStep(q) PROVE All
  <2>1. CASE Asks(q)
    <3>1. UNCHANGED <<pc[p], at[p], todo[p], err[p], req[p], data[p]>>
      BY <2>1 DEF Asks
    <3> HIDE DEF All
    <3> QED BY <1>1, <3>1
  <2>2. ASSUME NEW t \in AllTasks, NEW e \in Errors, TaskReturns(q, t, e) PROVE All
    <3>1. UNCHANGED <<pc, at, req, data>>
      BY <2>2 DEF TaskReturns
    <3>2. CASE q # p
      <4>1. UNCHANGED <<pc[p], at[p], todo[p], err[p], req[p], data[p]>>
        BY <2>2, <1>m, <3>1, <3>2 DEF TaskReturns
      <4> HIDE DEF All
      <4> QED BY <1>1, <4>1
    <3>3. CASE q = p
      BY <1>10, <2>2, <3>1, <3>3
    <3> QED BY <3>2, <3>3
  <2> HIDE DEF All
  <2> QED BY <1>10, <2>1, <2>2, TaskCases
<1> HIDE DEF All
<1> QED BY <1>3, <1>4, <1>5, <1>6, <1>7, <1>8, <1>9, <1>10, NextCases

(* What is behind a sequence was behind it, or has just returned. *)
LEMMA BehindStep ==
  ASSUME RunInv, Next, NEW p \in Procs, NEW x, pc'[p] = "phase", Behind(p, x)'
  PROVE  \/ pc[p] = "phase" /\ Behind(p, x)
         \/ /\ Took(p, x) /\ TaskStep(p)
            /\ err[p] = "none" /\ err'[p] = "none" /\ ~ThePhases(p)[at[p]].log
<1>1. /\ ThePhases(p)' = ThePhases(p) /\ ThePhases(p) \in Seq(Phased)
      /\ \/ pc[p] = "phase" /\ UNCHANGED <<at[p], todo[p], err[p]>>
         \/ \E t \in AllTasks, e \in Errors : TaskReturns(p, t, e) /\ TaskStep(p)
         \/ /\ pc[p] = "phase" /\ todo[p] = {} /\ err[p] = "none"
            /\ BeginPhase(p, ThePhases(p), at[p] + 1)
         \/ BeginPhase(p, ThePhases(p), 1) /\ pc[p] \in {"lock", "await"}
  BY PhaseCases
<1>2. PICK L \in Seq(Phased) : L = ThePhases(p)
  BY <1>1
<1>3. PICK i \in 1..at'[p] : Sure(L, i, x) /\ (i = at'[p] => x \notin todo'[p] /\ err'[p] = "none")
  BY <1>1, <1>2 DEF Behind
<1>m. Typed /\ RunTyped /\ at[p] \in Nat /\ Len(L) \in Nat
  BY TypedParts DEF RunInv, RunTyped
<1>n. ASSUME NEW j \in 1..at[p], Sure(L, j, x), j = at[p] => x \notin todo[p] /\ err[p] = "none"
      PROVE  Behind(p, x)
  BY <1>2, <1>n DEF Behind
<1>4. CASE pc[p] = "phase" /\ UNCHANGED <<at[p], todo[p], err[p]>>
  BY <1>3, <1>4, <1>n
<1>5. ASSUME NEW t \in AllTasks, NEW e \in Errors, TaskReturns(p, t, e), TaskStep(p)
      PROVE  \/ pc[p] = "phase" /\ Behind(p, x)
             \/ /\ Took(p, x) /\ TaskStep(p)
                /\ err[p] = "none" /\ err'[p] = "none" /\ ~ThePhases(p)[at[p]].log
  <2>1. at'[p] = at[p] /\ pc[p] = "phase"
    BY <1>5 DEF TaskReturns, Running
  <2>2. CASE i # at[p]
    BY <1>3, <1>n, <2>1, <2>2
  <2>3. CASE i = at[p]
    <3>1. x \notin todo'[p] /\ err'[p] = "none" /\ ~L[at[p]].log
      BY <1>3, <2>1, <2>3 DEF Sure
    <3>2. err[p] = "none"
      BY <1>5, <1>m, <3>1, ReturnsOne
    <3>3. CASE x \in todo[p]
      BY <1>2, <1>5, <2>1, <3>1, <3>2, <3>3 DEF Took
    <3>4. CASE x \notin todo[p]
      BY <1>3, <1>n, <2>1, <2>3, <3>2, <3>4
    <3> QED BY <3>3, <3>4
  <2> QED BY <2>2, <2>3
<1>b. ASSUME NEW k \in Nat \ {0}, k <= Len(L) + 1, BeginPhase(p, L, k) PROVE i < k
  <2>1. PICK j \in k..(Len(L) + 1) :
          /\ IsNextPhase(L, k, j) /\ at'[p] = j
          /\ todo'[p] = IF j <= Len(L) THEN L[j].tasks ELSE {}
          /\ pc'[p] = IF j <= Len(L) THEN "phase" ELSE "unlock"
    BY <1>m, <1>b, BeginPhaseTyped
  <2>2. j <= Len(L) /\ todo'[p] = L[j].tasks
    BY <2>1
  <2>3. i # j
    BY <1>3, <2>1, <2>2 DEF Sure
  <2>4. i \notin k..(j - 1)
    BY <1>3, <2>1 DEF IsNextPhase, Skipped, Sure
  <2> QED BY <1>3, <2>1, <2>3, <2>4
<1>6. CASE /\ pc[p] = "phase" /\ todo[p] = {} /\ err[p] = "none"
           /\ BeginPhase(p, ThePhases(p), at[p] + 1)
  <2>1. at[p] \in 1..Len(L)
    BY <1>2, <1>6 DEF RunInv, InPhase, InPhaseOf
  <2>2. at[p] + 1 \in Nat \ {0} /\ at[p] + 1 <= Len(L) + 1
    BY <1>m, <2>1
  <2>3. i < at[p] + 1
    BY <1>2, <1>6, <1>b, <2>2
  <2>4. i \in 1..at[p]
    BY <1>3, <1>m, <2>3
  <2> QED BY <1>3, <1>6, <1>n, <2>4
<1>7. CASE BeginPhase(p, ThePhases(p), 1)
  <2>1. 1 \in Nat \ {0} /\ 1 <= Len(L) + 1
    BY <1>m
  <2>2. i < 1
    BY <1>2, <1>7, <1>b, <2>1
  <2> QED BY <1>3, <2>2
<1> QED BY <1>1, <1>4, <1>5, <1>6, <1>7

(* Where the list has one task before another, it is behind the sequence    *)
(* that runs the second.                                                    *)
LEMMA BeforeBehind ==
  ASSUME RunInv, NEW p \in Procs, pc[p] = "phase", NEW x, NEW y, y \in todo[p],
         Before(ThePhases(p), x, y)
  PROVE  Behind(p, x)
<1>1. PICK L \in Seq(Phased) : L = ThePhases(p)
  BY TheList DEF RunInv, SortedOut
<1>2. at[p] \in 1..Len(L) /\ y \in L[at[p]].tasks /\ at[p] \in Nat
  BY <1>1 DEF RunInv, InPhase, InPhaseOf, Typed, TypeOK
<1>3. PICK i \in 1..(at[p] - 1) : Sure(L, i, x)
  BY <1>1, <1>2 DEF Before
<1>4. i \in 1..at[p] /\ i # at[p]
  BY <1>2, <1>3
<1> QED BY <1>1, <1>3, <1>4 DEF Behind

-----------------------------------------------------------------------------
(* Volumes and the encryption tag. *)

(* The volume lifecycle is closed once nothing is mounted, and then nothing *)
(* is mounted any more.                                                     *)
LEMMA VolumesClosedStep ==
  ASSUME RunInv, VolumesClosed, Next
  PROVE  VolumesClosed'
<1>1. ASSUME UNCHANGED volumeVars PROVE VolumesClosed'
  BY <1>1 DEF VolumesClosed, volumeVars
<1>2. ASSUME NEW p \in Callers, NEW r \in machine.asks[p], Ask(p, r) PROVE VolumesClosed'
  BY <1>1, <1>2 DEF Ask
<1>3. CASE MainCalls \/ MainGoesOn \/ GoesDown \/ ShutdownHangs \/ UNCHANGED vars
  BY <1>1, <1>3 DEF MainCalls, MainGoesOn, GoesDown, ShutdownHangs, vars, machineVars
<1>4. CASE VolumeMounts \/ VolumeUnmounts \/ VolumesClose
  BY <1>4 DEF VolumeMounts, VolumeUnmounts, VolumesClose, VolumesClosed
<1>5. ASSUME NEW p \in Procs, \/ LockRefused(p) \/ LockTimeout(p) \/ LockTakesOver(p) \/ LockGranted(p)
                              \/ Unlock(p) \/ PhaseEnds(p)
      PROVE  VolumesClosed'
  BY <1>1, <1>5 DEF LockRefused, LockTimeout, Return, LockTakesOver, LockGranted, Unlock, PhaseEnds,
                    machineVars
<1>6. ASSUME NEW p \in Procs, TaskStep(p) PROVE VolumesClosed'
  <2>1. CASE \/ OtherTask(p) \/ StopAllServicesWaits(p) \/ StopAllServices(p) \/ CordonAndDrainNode(p)
           \/ MountReturns(p) \/ RestartTask(p)
             \/ StoreShutdownEmergency(p) \/ Installer(p) \/ KexecPrepare(p)
    BY <1>1, <2>1 DEF OtherTask, StopAllServicesWaits, StopAllServices, CordonAndDrainNode, MountReturns, RestartTask, StoreShutdownEmergency,
                      Installer, KexecPrepare, machineVars
  <2>2. CASE ResetSystemDiskSpec(p) \/ ResetSystemDisk(p) \/ ResetSystemDiskPartitions(p)
    BY <1>1, <2>2 DEF ResetSystemDiskSpec, ResetSystemDisk, ResetSystemDiskPartitions
  <2>3. CASE MountRequested(p) \/ TeardownRequested(p)
    BY <2>3 DEF MountRequested, TeardownRequested, VolumesClosed
  <2>4. CASE UnmountEphemeralPartition(p)
    <3>1. mount' \in {"releasing", mount} /\ lifecycle' = lifecycle
      BY <2>4 DEF UnmountEphemeralPartition
    <3> QED BY <3>1 DEF VolumesClosed
  <2>5. CASE TeardownReturns(p)
    <3>1. PICK e \in {"none", "error"} \union Canceled(p) :
            /\ e = "none" => lifecycle = "gone" \/ (asked[p] /\ lifecycle = "closed")
            /\ lifecycle' = IF e = "none" THEN "gone" ELSE lifecycle
      BY <2>5 DEF TeardownReturns
    <3>2. mount' = mount
      BY <2>5 DEF TeardownReturns
    <3> QED BY <3>1, <3>2 DEF VolumesClosed
  <2> QED BY <1>6, <2>1, <2>2, <2>3, <2>4, <2>5 DEF TaskStep
<1> QED BY <1>2, <1>3, <1>4, <1>5, <1>6, NextCases

(* Who changes the tag. *)
LEMMA TagCases ==
  ASSUME RunInv, Next, tag' # tag
  PROVE  \E p \in Procs : TaskStep(p) /\ (ResetSystemDiskSpec(p) \/ ResetSystemDiskPartitions(p))
<1>1. ASSUME NEW p \in Callers, NEW r \in machine.asks[p] PROVE ~Ask(p, r)
  BY DEF Ask
<1>2. ~(MainCalls \/ MainGoesOn \/ GoesDown \/ ShutdownHangs \/ UNCHANGED vars)
  BY DEF MainCalls, MainGoesOn, GoesDown, ShutdownHangs, vars, machineVars, diskVars
<1>3. ~(VolumeMounts \/ VolumeUnmounts \/ VolumesClose)
  BY DEF VolumeMounts, VolumeUnmounts, VolumesClose, diskVars
<1>4. ASSUME NEW p \in Procs
      PROVE  ~(LockRefused(p) \/ LockTimeout(p) \/ LockTakesOver(p) \/ LockGranted(p) \/ Unlock(p) \/ PhaseEnds(p))
  BY DEF LockRefused, LockTimeout, Return, LockTakesOver, LockGranted, Unlock, PhaseEnds, machineVars, diskVars
<1>5. ASSUME NEW p \in Procs, TaskStep(p) PROVE ResetSystemDiskSpec(p) \/ ResetSystemDiskPartitions(p)
  <2>1. ~(OtherTask(p) \/ StopAllServicesWaits(p) \/ StopAllServices(p) \/ CordonAndDrainNode(p) \/ MountReturns(p) \/ RestartTask(p)
             \/ StoreShutdownEmergency(p) \/ Installer(p) \/ KexecPrepare(p))
    BY DEF OtherTask, StopAllServicesWaits, StopAllServices, CordonAndDrainNode, MountReturns, RestartTask, StoreShutdownEmergency,
           Installer, KexecPrepare, machineVars, diskVars
  <2>2. ~(MountRequested(p) \/ TeardownRequested(p) \/ UnmountEphemeralPartition(p) \/ TeardownReturns(p))
    BY DEF MountRequested, TeardownRequested, AsksVolumes, UnmountEphemeralPartition, TeardownReturns, diskVars
  <2>3. ~ResetSystemDisk(p)
    BY DEF ResetSystemDisk, WipeDisk
  <2> QED BY <1>5, <2>1, <2>2, <2>3 DEF TaskStep
<1> QED BY <1>1, <1>2, <1>3, <1>4, <1>5, NextCases

(* A task that is alone in its phase runs before any error of it. *)
LEMMA AloneRuns ==
  ASSUME RunInv, NEW p \in Procs, pc[p] = "phase", NEW x \in todo[p], Alone(ThePhases(p), x)
  PROVE  err[p] = "none" /\ ~ThePhases(p)[at[p]].log
<1>1. /\ at[p] \in 1..Len(ThePhases(p)) /\ todo[p] \subseteq ThePhases(p)[at[p]].tasks
      /\ err[p] # "none" => todo[p] # ThePhases(p)[at[p]].tasks
  BY DEF RunInv, InPhase, InPhaseOf
<1>2. ThePhases(p)[at[p]].tasks = {x} /\ ~ThePhases(p)[at[p]].log
  BY <1>1 DEF Alone
<1> QED BY <1>1, <1>2

(* Who wipes. *)
LEMMA Wipers ==
  ASSUME RunInv, NEW p \in Procs, pc[p] = "phase", NEW x \in todo[p]
  PROVE  /\ x = "ResetSystemDiskSpec" => req[p].seq = "reset" /\ err[p] = "none" /\ ~ThePhases(p)[at[p]].log
         /\ x = "ResetSystemDiskPartitions" =>
              req[p].seq = "initialize" /\ err[p] = "none" /\ ~ThePhases(p)[at[p]].log
<1>1. SortedOut(req[p].seq, data[p], machine.container, ThePhases(p))
  BY TheList DEF RunInv
<1>2. at[p] \in 1..Len(ThePhases(p)) /\ x \in ThePhases(p)[at[p]].tasks
  BY DEF RunInv, InPhase, InPhaseOf
<1>3. \A y : Without(ThePhases(p), {y}) => x # y
  BY <1>2 DEF Without
<1> QED BY <1>1, <1>3, AloneRuns DEF SortedOut

LEMMA TagBlamedStep ==
  ASSUME RunInv, TagBlamed, Next
  PROVE  TagBlamed'
<1> SUFFICES ASSUME tag' = "deleted" PROVE WipeFailed'
  BY DEF TagBlamed
<1>1. CASE tag = "deleted"
  BY <1>1, WipeFailedKept DEF TagBlamed
<1>2. CASE tag # "deleted"
  <2>1. PICK p \in Procs : TaskStep(p) /\ (ResetSystemDiskSpec(p) \/ ResetSystemDiskPartitions(p))
    BY <1>2, TagCases
  <2>w. ASSUME NEW targets, NEW done, NEW e, WipeSpec(targets, done, e) PROVE e # "none"
    BY <1>2, <2>w DEF WipeSpec, DropsTag, TagDropped
  <2>f. ASSUME NEW x, NEW e \in {"error", "canceled"}, TaskReturns(p, x, e),
               x = "ResetSystemDiskSpec" \/ x = "ResetSystemDiskPartitions"
        PROVE  WipeFailed'
    <3>1. pc[p] = "phase" /\ x \in todo[p] /\ req' = req
      BY <2>f DEF TaskReturns, Running
    <3>2. req[p].seq \in {"reset", "initialize"} /\ err[p] = "none" /\ ~ThePhases(p)[at[p]].log
      BY <2>f, <3>1, Wipers
    <3>3. err'[p] = e
      BY <2>f, <3>2, ReturnsOne DEF RunInv
    <3> QED BY <3>1, <3>2, <3>3 DEF WipeFailed
  <2>2. CASE ResetSystemDiskSpec(p)
    <3>1. PICK done \in SUBSET data[p].targets, e \in AnyEnd(p) :
            TaskReturns(p, "ResetSystemDiskSpec", e) /\ WipeSpec(data[p].targets, done, e)
      BY <2>2 DEF ResetSystemDiskSpec
    <3>2. e \in {"error", "canceled"}
      BY <3>1, <2>w, Ends
    <3> QED BY <2>f, <3>1, <3>2
  <2>3. CASE ResetSystemDiskPartitions(p)
    <3>1. PICK done \in SUBSET machine.wipe, e \in AnyEnd(p) :
            /\ TaskReturns(p, "ResetSystemDiskPartitions", IF e = "none" THEN RebootCmd ELSE e)
            /\ WipeDisk(done, e) \/ WipeSpec(machine.wipe, done, e)
      BY <2>3 DEF ResetSystemDiskPartitions
    <3>2. ~WipeDisk(done, e)
      BY <1>2 DEF WipeDisk
    <3>3. e \in {"error", "canceled"}
      BY <3>1, <3>2, <2>w, Ends
    <3> QED BY <2>f, <3>1, <3>3
  <2> QED BY <2>1, <2>2, <2>3
<1> QED BY <1>1, <1>2

-----------------------------------------------------------------------------
(* What the tasks behind a sequence have done. *)

LEMMA SpecWipedKept ==
  ASSUME RunInv, Next, NEW T, SpecWiped(T)
  PROVE  SpecWiped(T)'
  BY MachineKept, WipeFailedKept DEF SpecWiped

LEMMA BehindDoneStep ==
  ASSUME RunInv, TagBlamed, BehindDone, Next
  PROVE  BehindDone'
<1> SUFFICES ASSUME NEW p \in Procs, pc'[p] = "phase"
             PROVE  /\ Behind(p, "TeardownVolumeLifecycle")' => lifecycle' = "gone"
                    /\ Behind(p, "ResetSystemDisk")' => wiped' = Partitions
                    /\ Behind(p, "ResetSystemDiskSpec")' => SpecWiped(data[p].targets)'
                    /\ Behind(p, "StoreShutdownEmergency")' => emergency' = "powerOff"
                    /\ ~Behind(p, "Reboot")' /\ ~Behind(p, "Shutdown")'
  BY DEF BehindDone
<1>d. data'[p] = data[p] /\ Typed
  BY PhaseCases DEF RunInv
<1>r. ASSUME NEW x, NEW e, TaskReturns(p, x, e), err[p] = "none", err'[p] = "none", ~ThePhases(p)[at[p]].log
      PROVE  e = "none"
  BY <1>d, <1>r, ReturnsOne
<1>1. ASSUME Behind(p, "TeardownVolumeLifecycle")' PROVE lifecycle' = "gone"
  <2>1. CASE pc[p] = "phase" /\ Behind(p, "TeardownVolumeLifecycle")
    BY <2>1, MachineKept DEF BehindDone
  <2>2. CASE Took(p, "TeardownVolumeLifecycle") /\ TaskStep(p) /\ err[p] = "none" /\ err'[p] = "none"
             /\ ~ThePhases(p)[at[p]].log
    <3>1. PICK e : /\ TaskReturns(p, "TeardownVolumeLifecycle", e)
                   /\ lifecycle' = IF e = "none" THEN "gone" ELSE lifecycle
      BY <1>d, <2>2, TaskNamed DEF TeardownReturns
    <3>2. e = "none"
      BY <1>r, <2>2, <3>1
    <3> QED BY <3>1, <3>2
  <2> QED BY <1>1, <2>1, <2>2, BehindStep
<1>2. ASSUME Behind(p, "ResetSystemDisk")' PROVE wiped' = Partitions
  <2>1. CASE pc[p] = "phase" /\ Behind(p, "ResetSystemDisk")
    <3>1. wiped = Partitions
      BY <2>1 DEF BehindDone
    <3> QED BY <3>1, MachineKept
  <2>2. CASE Took(p, "ResetSystemDisk") /\ TaskStep(p) /\ err[p] = "none" /\ err'[p] = "none"
             /\ ~ThePhases(p)[at[p]].log
    <3>1. PICK done, e : TaskReturns(p, "ResetSystemDisk", e) /\ WipeDisk(done, e)
      BY <1>d, <2>2, TaskNamed DEF ResetSystemDisk
    <3>2. e = "none"
      BY <1>r, <2>2, <3>1
    <3>3. wiped' = wiped \union Partitions
      BY <3>1, <3>2 DEF WipeDisk, Wipes
    <3> QED BY <3>3, MachineKept
  <2> QED BY <1>2, <2>1, <2>2, BehindStep
<1>3. ASSUME Behind(p, "ResetSystemDiskSpec")' PROVE SpecWiped(data[p].targets)'
  <2>1. PICK T : T = data[p].targets /\ T = data'[p].targets
    BY <1>d
  <2>2. CASE pc[p] = "phase" /\ Behind(p, "ResetSystemDiskSpec")
    <3>1. SpecWiped(T)
      BY <2>1, <2>2 DEF BehindDone
    <3>2. SpecWiped(T)'
      BY <3>1, SpecWipedKept
    <3> QED BY <2>1, <3>2 DEF SpecWiped
  <2>3. CASE Took(p, "ResetSystemDiskSpec") /\ TaskStep(p) /\ err[p] = "none" /\ err'[p] = "none"
             /\ ~ThePhases(p)[at[p]].log
    <3>1. PICK done, e : TaskReturns(p, "ResetSystemDiskSpec", e) /\ WipeSpec(T, done, e)
      BY <1>d, <2>1, <2>3, TaskNamed DEF ResetSystemDiskSpec
    <3>2. e = "none"
      BY <1>r, <2>3, <3>1
    <3>3. done = T /\ TagDropped(T) /\ wiped' = wiped \union T
      BY <3>1, <3>2 DEF WipeSpec, Wipes
    <3>4. tag \in {"set", "deleted", "flushed"}
      BY <1>d DEF Typed, TypeOK
    <3>5. tag = "deleted" => WipeFailed'
      BY WipeFailedKept DEF TagBlamed
    <3>6. "STATE" \in T => tag' = "flushed" \/ "META" \in T \/ WipeFailed'
      BY <3>3, <3>4, <3>5, MachineKept DEF TagDropped
    <3> QED BY <2>1, <3>3, <3>6 DEF SpecWiped
  <2> QED BY <1>3, <2>2, <2>3, BehindStep
<1>4. ASSUME Behind(p, "StoreShutdownEmergency")' PROVE emergency' = "powerOff"
  <2>1. CASE pc[p] = "phase" /\ Behind(p, "StoreShutdownEmergency")
    BY <2>1, MachineKept DEF BehindDone
  <2>2. CASE Took(p, "StoreShutdownEmergency") /\ TaskStep(p)
    BY <1>d, <2>2, TaskNamed DEF StoreShutdownEmergency
  <2> QED BY <1>4, <2>1, <2>2, BehindStep
<1>5. ASSUME NEW x \in RestartTasks, Behind(p, x)' PROVE FALSE
  <2>1. ~(pc[p] = "phase" /\ Behind(p, x))
    BY DEF BehindDone, RestartTasks
  <2>2. /\ Took(p, x) /\ TaskStep(p) /\ err[p] = "none" /\ err'[p] = "none"
        /\ ~ThePhases(p)[at[p]].log
    BY <1>5, <2>1, BehindStep
  <2>3. PICK t \in RestartTasks, cmd \in RebootCmds : TaskReturns(p, t, cmd)
    <3>1. RestartTask(p)
      BY <1>d, <2>2, TaskNamed
    <3>2. "powerOff" \in RebootCmds /\ RebootCmd \in RebootCmds
      BY Ends DEF RebootCmds
    <3> QED BY <3>1, <3>2 DEF RestartTask, RestartTasks
  <2> QED BY <1>r, <2>2, <2>3, Ends
<1>6. ~Behind(p, "Reboot")' /\ ~Behind(p, "Shutdown")'
  BY <1>5 DEF RestartTasks
<1> QED BY <1>1, <1>2, <1>3, <1>4, <1>6

-----------------------------------------------------------------------------
(* The command to restart. *)

(* Which tasks return one. *)
LEMMA CommandReturned ==
  ASSUME Typed, NEW p \in Procs, TaskStep(p), err[p] = "none", err'[p] \in RebootCmds
  PROVE  /\ \E x \in RestartTasks \union {"ResetSystemDiskPartitions"} : Took(p, x)
         /\ UNCHANGED <<pc, req, data, at>>
<1>n. "none" \notin RebootCmds /\ "error" \notin RebootCmds /\ "canceled" \notin RebootCmds
  BY DEF RebootCmds
<1>r. ASSUME NEW t, NEW e, TaskReturns(p, t, e) PROVE e = err'[p] /\ Took(p, t) /\ UNCHANGED <<pc, req, data, at>>
  <2>1. err'[p] = e
    BY <1>n, <1>r, ReturnsOne
  <2> QED BY <1>r, <2>1, ReturnsOne DEF TaskReturns
<1>e. ASSUME NEW t, NEW e \in AnyEnd(p) \union QuorumCheck(p) \union {"none", "error"} \union Canceled(p)
      PROVE  ~TaskReturns(p, t, e)
  <2>1. e \in {"none", "error", "canceled"}
    BY <1>e DEF AnyEnd, OkOrFail, Canceled, QuorumCheck
  <2> QED BY <1>n, <1>r, <2>1
<1> DEFINE Goal == /\ \E x \in RestartTasks \union {"ResetSystemDiskPartitions"} : Took(p, x)
                   /\ UNCHANGED <<pc, req, data, at>>
<1> SUFFICES Goal
  OBVIOUS
<1> HIDE DEF Goal
<1>1. CASE OtherTask(p)
  <2> DEFINE EndsOf(t) == CASE t = "haltIfInstalled" -> {"error"} \union Canceled(p)
                            [] t \in MayFail         -> AnyEnd(p)
                            [] t \in NeverFails      -> {"none"}
  <2>1. PICK t \in MayFail \union NeverFails \union {"haltIfInstalled"} : \E e \in EndsOf(t) : TaskReturns(p, t, e)
    BY <1>1 DEF OtherTask
  <2>2. EndsOf(t) \subseteq AnyEnd(p) \union QuorumCheck(p) \union {"none", "error"} \union Canceled(p)
    OBVIOUS
  <2> HIDE DEF EndsOf
  <2> QED BY <1>e, <2>1, <2>2
<1>2. CASE \/ StopAllServices(p) \/ CordonAndDrainNode(p) \/ StoreShutdownEmergency(p) \/ MountReturns(p)
           \/ UnmountEphemeralPartition(p) \/ TeardownReturns(p) \/ Installer(p) \/ KexecPrepare(p)
           \/ ResetSystemDiskSpec(p) \/ ResetSystemDisk(p)
  BY <1>2, <1>e DEF StopAllServices, CordonAndDrainNode, StoreShutdownEmergency, MountReturns, UnmountEphemeralPartition,
       TeardownReturns, Installer, KexecPrepare, ResetSystemDiskSpec, ResetSystemDisk
<1>3. CASE MountRequested(p) \/ TeardownRequested(p) \/ StopAllServicesWaits(p)
  BY <1>3, <1>n DEF MountRequested, TeardownRequested, AsksVolumes, StopAllServicesWaits
<1>4. CASE ResetSystemDiskPartitions(p)
  BY <1>4, <1>r DEF ResetSystemDiskPartitions, Goal
<1>5. CASE RestartTask(p)
  BY <1>5, <1>r DEF RestartTask, RestartTasks, Goal
<1> QED BY <1>1, <1>2, <1>3, <1>4, <1>5 DEF TaskStep

(* What runs when a sequence gets one. *)
LEMMA CommandStep ==
  ASSUME RunInv, Next, NEW p \in Procs, err[p] = "none", err'[p] \in RebootCmds
  PROVE  /\ TaskStep(p) /\ pc[p] = "phase" /\ req'[p] = req[p] /\ data'[p] = data[p]
         /\ \E x \in RestartTasks \union {"ResetSystemDiskPartitions"} : x \in todo[p]
<1>m. /\ Typed /\ Requested /\ err \in [Procs -> Errors] /\ "none" \notin RebootCmds
      /\ {"locked", "timeout", "invalid", "canceled"} \intersect RebootCmds = {}
  BY DEF RunInv, Typed, TypeOK, RebootCmds
<1>1. err'[p] # err[p]
  BY <1>m
<1>2. ~(UNCHANGED err)
  BY <1>1
<1>3. ~(GoesDown \/ ShutdownHangs \/ VolumeMounts \/ VolumeUnmounts \/ VolumesClose \/ UNCHANGED vars)
  BY <1>2 DEF GoesDown, ShutdownHangs, VolumeMounts, VolumeUnmounts, VolumesClose, vars, runVars
<1>4. ~MainCalls /\ ~MainGoesOn
  BY <1>2 DEF MainCalls, Call, MainGoesOn
<1>5. ASSUME NEW q \in Callers, NEW r \in machine.asks[q] PROVE ~Ask(q, r)
  BY <1>2 DEF Ask, Call
<1>6. ASSUME NEW q \in Procs
      PROVE  ~(LockRefused(q) \/ LockTimeout(q) \/ LockTakesOver(q) \/ Unlock(q))
  BY <1>m, <1>2 DEF LockRefused, LockTimeout, LockTakesOver, Unlock, Return
<1>7. ASSUME NEW q \in Procs PROVE ~LockGranted(q) /\ ~PhaseEnds(q)
  BY <1>m, <1>2 DEF LockGranted, PhaseEnds, BeginPhase
<1>8. PICK q \in Procs : TaskStep(q)
  BY <1>3, <1>4, <1>5, <1>6, <1>7, NextCases
<1>9. q = p
  <2>1. ~Asks(q)
    BY <1>2 DEF Asks
  <2>2. PICK t, e : TaskReturns(q, t, e)
    BY <1>8, <2>1, TaskCases
  <2> QED BY <1>1, <1>m, <2>2, ReturnsOne
<1> QED BY <1>8, <1>9, <1>m, CommandReturned DEF Took

(* A reset has the disk wiped when it announces the restart, and nothing    *)
(* that comes after it brings a partition or the tag back.                  *)
LEMMA ResetCompleteStep ==
  ASSUME RunInv, BehindDone, ResetComplete, Next
  PROVE  ResetComplete'
<1> DEFINE Done(T) == IF T = {} THEN wiped = Partitions ELSE SpecWiped(T)
<1>k. ASSUME NEW T, Done(T) PROVE Done(T)'
  BY <1>k, SpecWipedKept, MachineKept
<1> SUFFICES ASSUME NEW p \in Procs, req'[p].seq = "reset", err'[p] \in RebootCmds,
                    data'[p].disk, ~machine'.container
             PROVE  Done(data[p].targets)'
  BY DEF ResetComplete, SpecWiped
<1>m. machine' = machine
  BY MachineTypedStep DEF RunInv
<1>1. ASSUME data'[p] = data[p], Done(data[p].targets) PROVE Done(data[p].targets)'
  <2>1. PICK T : T = data[p].targets /\ T = data'[p].targets
    BY <1>1
  <2>2. Done(T)'
    BY <1>1, <1>k, <2>1
  <2> QED BY <2>1, <2>2 DEF SpecWiped
<1> HIDE DEF Done
<1>2. CASE err[p] # "none"
  <2>1. err'[p] = err[p] /\ req'[p] = req[p] /\ data'[p] = data[p]
    BY <1>2, ErrKept
  <2>2. Done(data[p].targets)
    BY <1>m, <2>1 DEF ResetComplete, Done, SpecWiped
  <2> QED BY <1>1, <2>1, <2>2
<1>3. CASE err[p] = "none"
  <2>1. pc[p] = "phase" /\ req'[p] = req[p] /\ data'[p] = data[p]
    BY <1>3, CommandStep
  <2>2. PICK x \in RestartTasks \union {"ResetSystemDiskPartitions"} : x \in todo[p]
    BY <1>3, CommandStep
  <2>3. x \in RestartTasks
    BY <2>1, <2>2, Wipers
  <2>4. SortedOut(req[p].seq, data[p], machine.container, ThePhases(p))
    BY <2>1, TheList DEF RunInv
  <2>5. Before(ThePhases(p), IF data[p].targets = {} THEN "ResetSystemDisk" ELSE "ResetSystemDiskSpec", x)
    BY <1>m, <2>1, <2>3, <2>4 DEF SortedOut
  <2>6. Behind(p, IF data[p].targets = {} THEN "ResetSystemDisk" ELSE "ResetSystemDiskSpec")
    BY <2>1, <2>2, <2>5, BeforeBehind
  <2>7. Done(data[p].targets)
    BY <2>1, <2>6 DEF BehindDone, Done
  <2> QED BY <1>1, <2>1, <2>7
<1> QED BY <1>2, <1>3

-----------------------------------------------------------------------------
(* The way down. *)

(* A machine that is down does nothing more. *)
LEMMA DownCases ==
  ASSUME RunInv, Next
  PROVE  (Up /\ (GoesDown \/ down' = down)) \/ UNCHANGED vars
<1>1. ASSUME NEW p, NEW s, NEW t, NEW in, Call(p, s, t, in) PROVE Up
  BY <1>1 DEF Call, Goto
<1>2. ASSUME NEW p \in Callers, NEW r \in machine.asks[p], Ask(p, r) PROVE Up /\ down' = down
  BY <1>1, <1>2 DEF Ask
<1>3. CASE MainCalls
  BY <1>1, <1>3 DEF MainCalls
<1>4. CASE MainGoesOn
  BY <1>4 DEF MainGoesOn, Goto
<1>5. CASE VolumeMounts \/ VolumeUnmounts \/ VolumesClose
  BY <1>5 DEF VolumeMounts, VolumeUnmounts, VolumesClose
<1>6. ASSUME NEW p \in Procs, \/ LockRefused(p) \/ LockTimeout(p) \/ LockTakesOver(p) \/ LockGranted(p)
                              \/ Unlock(p) \/ PhaseEnds(p)
      PROVE  Up /\ down' = down
  BY <1>6 DEF LockRefused, LockTimeout, Return, LockTakesOver, LockGranted, Unlock, PhaseEnds, Goto
<1>7. ASSUME NEW p \in Procs, TaskStep(p) PROVE Up /\ down' = down
  <2>1. CASE MountRequested(p) \/ TeardownRequested(p) \/ StopAllServicesWaits(p)
    BY <2>1 DEF MountRequested, TeardownRequested, AsksVolumes, StopAllServicesWaits, Running
  <2>2. ASSUME NEW t, NEW e, TaskReturns(p, t, e) PROVE Up /\ down' = down
    BY <2>2 DEF TaskReturns, Running
  <2>3. CASE OtherTask(p) \/ StopAllServices(p)
    BY <2>2, <2>3 DEF OtherTask, StopAllServices
  <2>4. CASE ResetSystemDiskPartitions(p) \/ RestartTask(p) \/ ResetSystemDiskSpec(p) \/ ResetSystemDisk(p)
    BY <2>2, <2>4 DEF ResetSystemDiskPartitions, RestartTask, ResetSystemDiskSpec, ResetSystemDisk
  <2>5. CASE CordonAndDrainNode(p) \/ StoreShutdownEmergency(p) \/ MountReturns(p) \/ UnmountEphemeralPartition(p)
             \/ TeardownReturns(p) \/ Installer(p) \/ KexecPrepare(p)
    BY <2>2, <2>5 DEF CordonAndDrainNode, StoreShutdownEmergency, MountReturns, UnmountEphemeralPartition,
         TeardownReturns, Installer, KexecPrepare
  <2> QED BY <1>7, <2>1, <2>3, <2>4, <2>5 DEF TaskStep
<1>8. CASE GoesDown \/ ShutdownHangs
  BY <1>8 DEF GoesDown, ShutdownHangs
<1> QED BY <1>2, <1>3, <1>4, <1>5, <1>6, <1>7, <1>8, NextCases

(* Whose event makes main return. *)
LEMMA SignalCases ==
  ASSUME RunInv, Next, signal' # signal
  PROVE  \/ MainGoesOn /\ signal'.by \in {"initialize", "install", "boot"}
         \/ \E p \in Procs : /\ signal' = [by |-> req[p].seq, cmd |-> "fatal"]
                             /\ PhaseEnds(p) /\ err[p] # "none"
         \/ \E p \in Procs : /\ signal' = [by |-> req[p].seq, cmd |-> RebootCmd]
                             /\ Running(p, "Reboot")
         \/ \E p \in Procs : /\ signal' = [by |-> req[p].seq, cmd |-> "powerOff"]
                             /\ Running(p, "Shutdown")
<1> DEFINE Goal ==
         \/ MainGoesOn /\ signal'.by \in {"initialize", "install", "boot"}
         \/ \E p \in Procs : /\ signal' = [by |-> req[p].seq, cmd |-> "fatal"]
                             /\ PhaseEnds(p) /\ err[p] # "none"
         \/ \E p \in Procs : /\ signal' = [by |-> req[p].seq, cmd |-> RebootCmd]
                             /\ Running(p, "Reboot")
         \/ \E p \in Procs : /\ signal' = [by |-> req[p].seq, cmd |-> "powerOff"]
                             /\ Running(p, "Shutdown")
<1> SUFFICES Goal
  OBVIOUS
<1> HIDE DEF Goal
<1>0. ~UNCHANGED <<main, signal, missed>> /\ ~UNCHANGED mainVars
  BY DEF mainVars
<1>1. ASSUME NEW p \in Callers, NEW r \in machine.asks[p] PROVE ~Ask(p, r)
  BY <1>0 DEF Ask
<1>2. ~MainCalls /\ ~GoesDown /\ ~ShutdownHangs /\ ~VolumeMounts /\ ~VolumeUnmounts /\ ~VolumesClose /\ ~UNCHANGED vars
  BY <1>0 DEF MainCalls, GoesDown, ShutdownHangs, VolumeMounts, VolumeUnmounts, VolumesClose, vars
<1>3. ASSUME NEW p \in Procs
      PROVE  ~(LockRefused(p) \/ LockTimeout(p) \/ LockTakesOver(p) \/ LockGranted(p) \/ Unlock(p))
  BY <1>0 DEF LockRefused, LockTimeout, Return, LockTakesOver, LockGranted, Unlock
<1>4. CASE MainGoesOn
  <2>1. signal'.by = main /\ main \in {"initialize", "install", "boot"}
    BY <1>4 DEF MainGoesOn
  <2> QED BY <1>4, <2>1 DEF Goal
<1>p. ASSUME NEW p, NEW cmd, Publish(p, cmd) PROVE signal' = [by |-> req[p].seq, cmd |-> cmd] /\ p # Main
  BY <1>p DEF Publish
<1>5. ASSUME NEW p \in Procs, PhaseEnds(p) PROVE Goal
  <2>1. err[p] # "none" /\ Publish(p, "fatal")
    BY <1>0, <1>5 DEF PhaseEnds
  <2> QED BY <1>5, <1>p, <2>1 DEF Goal
<1>6. ASSUME NEW p \in Procs, TaskStep(p) PROVE Goal
  <2>1. ~(MountRequested(p) \/ TeardownRequested(p) \/ OtherTask(p) \/ CordonAndDrainNode(p)
          \/ StopAllServicesWaits(p) \/ StopAllServices(p) \/ StoreShutdownEmergency(p) \/ MountReturns(p) \/ UnmountEphemeralPartition(p)
          \/ TeardownReturns(p) \/ Installer(p) \/ KexecPrepare(p) \/ ResetSystemDiskSpec(p) \/ ResetSystemDisk(p))
    BY <1>0 DEF MountRequested, TeardownRequested, AsksVolumes, OtherTask, CordonAndDrainNode,
         StopAllServicesWaits, StopAllServices,
         StoreShutdownEmergency, MountReturns, UnmountEphemeralPartition,
         TeardownReturns, Installer, KexecPrepare, ResetSystemDiskSpec, ResetSystemDisk
  <2>2. CASE ResetSystemDiskPartitions(p)
    <3>1. Publish(p, RebootCmd) /\ \E e : TaskReturns(p, "ResetSystemDiskPartitions", e)
      BY <1>0, <2>2 DEF ResetSystemDiskPartitions
    <3>2. pc[p] = "phase" /\ req[p].seq = "initialize"
      BY <3>1, Wipers DEF TaskReturns, Running
    <3>3. p # Main
      BY <1>p, <3>1
    <3>4. PICK r \in machine.asks[p] : req[p] = Request(r.seq, r.takeover)
      BY <3>2, <3>3 DEF RunInv, Requested
    <3>5. r.seq # "initialize"
      BY <3>3, SequencerAssumption DEF Callers, RunInv, Typed, TypeOK
    <3> QED BY <3>2, <3>4, <3>5 DEF Request
  <2>3. CASE RestartTask(p)
    <3>1. PICK task \in {"Reboot", "Shutdown"} :
            Running(p, task) /\ Publish(p, IF task = "Reboot" THEN RebootCmd ELSE "powerOff")
      BY <2>3 DEF RestartTask, TaskReturns
    <3>2. signal' = [by |-> req[p].seq, cmd |-> IF task = "Reboot" THEN RebootCmd ELSE "powerOff"]
      BY <1>p, <3>1
    <3> QED BY <3>1, <3>2 DEF Goal
  <2> QED BY <1>6, <2>1, <2>2, <2>3 DEF TaskStep
<1> QED BY <1>1, <1>2, <1>3, <1>4, <1>5, <1>6, NextCases

(* The intent to power off is stored before anything of a shutdown can fail. *)
LEMMA ShutdownStoredStep ==
  ASSUME RunInv, BehindDone, ShutdownStored, Next
  PROVE  ShutdownStored'
<1>l. ASSUME NEW p \in Procs, pc[p] = "phase", req[p].seq = "shutdown"
      PROVE  /\ Without(ThePhases(p), {"Reboot"}) /\ Sure(ThePhases(p), 1, "StoreShutdownEmergency")
             /\ Simple(ThePhases(p)) /\ at[p] \in 1..Len(ThePhases(p))
             /\ todo[p] \subseteq ThePhases(p)[at[p]].tasks
  <2>1. SortedOut("shutdown", data[p], machine.container, ThePhases(p))
    BY <1>l, TheList DEF RunInv
  <2> QED BY <1>l, <2>1 DEF SortedOut, RunInv, InPhase, InPhaseOf
<1>1. ASSUME NEW p \in Procs, pc'[p] = "phase", req'[p].seq = "shutdown", at'[p] = 1
      PROVE  err'[p] = "none"
  <2>0. req'[p] = req[p] /\ err \in [Procs -> Errors]
    BY <1>1, PhaseCases DEF RunInv, Typed, TypeOK
  <2>1. CASE pc[p] = "phase" /\ UNCHANGED <<at[p], todo[p], err[p]>>
    BY <1>1, <2>0, <2>1 DEF ShutdownStored
  <2>2. ASSUME NEW t, NEW e, TaskReturns(p, t, e), TaskStep(p) PROVE err'[p] = "none"
    <3>1. pc[p] = "phase" /\ at[p] = 1 /\ t \in todo[p]
      BY <1>1, <2>2 DEF TaskReturns, Running
    <3>2. err[p] = "none"
      BY <1>1, <2>0, <3>1 DEF ShutdownStored
    <3>3. ThePhases(p)[1].tasks = {"StoreShutdownEmergency"}
      <4>1. /\ Sure(ThePhases(p), 1, "StoreShutdownEmergency") /\ Simple(ThePhases(p))
            /\ 1 \in 1..Len(ThePhases(p))
        BY <1>1, <1>l, <2>0, <3>1
      <4> QED BY <4>1 DEF Sure, Simple
    <3>4. t = "StoreShutdownEmergency"
      BY <1>1, <1>l, <2>0, <3>1, <3>3
    <3>5. StoreShutdownEmergency(p)
      BY <2>2, <3>4, TaskNamed, ReturnsOne DEF RunInv
    <3> QED BY <3>2, <3>5, ReturnsOne DEF StoreShutdownEmergency, RunInv
  <2>3. ASSUME NEW L, NEW i, BeginPhase(p, L, i) PROVE err'[p] = "none"
    BY <2>0, <2>3 DEF BeginPhase
  <2> QED BY <1>1, <2>1, <2>2, <2>3, PhaseCases
<1> DEFINE Off == signal.cmd = "powerOff" \/ (signal.cmd = "fatal" /\ emergency = "powerOff")
<1>2. ASSUME signal'.by = "shutdown" PROVE Off'
  <2>1. CASE signal' = signal
    BY <1>2, <2>1, MachineKept DEF ShutdownStored
  <2>2. ASSUME NEW p \in Procs, signal' = [by |-> req[p].seq, cmd |-> "fatal"], PhaseEnds(p), err[p] # "none"
        PROVE  Off'
    <3>1. req[p].seq = "shutdown" /\ pc[p] = "phase" /\ at[p] # 1
      BY <1>2, <2>2 DEF PhaseEnds, ShutdownStored
    <3>2. Sure(ThePhases(p), 1, "StoreShutdownEmergency") /\ 1 \in 1..at[p]
      <4>1. ThePhases(p) \in Seq(Phased)
        BY <3>1, TheList DEF RunInv, SortedOut
      <4> QED BY <1>l, <3>1, <4>1
    <3>3. Behind(p, "StoreShutdownEmergency")
      BY <3>1, <3>2 DEF Behind
    <3>4. emergency' = "powerOff"
      BY <3>1, <3>3, MachineKept DEF BehindDone
    <3> QED BY <2>2, <3>4
  <2>3. ASSUME NEW p \in Procs, signal' = [by |-> req[p].seq, cmd |-> RebootCmd], Running(p, "Reboot")
        PROVE  FALSE
    <3>1. pc[p] = "phase" /\ req[p].seq = "shutdown" /\ "Reboot" \in todo[p]
      BY <1>2, <2>3 DEF Running
    <3> QED BY <1>l, <3>1 DEF Without
  <2>4. ASSUME NEW p \in Procs, signal' = [by |-> req[p].seq, cmd |-> "powerOff"]
        PROVE  Off'
    BY <2>4
  <2> HIDE DEF Off
  <2> QED BY <1>2, <2>1, <2>2, <2>3, <2>4, SignalCases
<1> QED BY <1>1, <1>2 DEF ShutdownStored

LEMMA ShutdownPowersOffStep ==
  ASSUME RunInv, ShutdownStored, ShutdownPowersOff, Next
  PROVE  ShutdownPowersOff'
<1>1. CASE UNCHANGED vars
  BY <1>1 DEF vars, mainVars, ShutdownPowersOff, Up
<1>2. CASE Up /\ down' = down
  BY <1>2 DEF ShutdownPowersOff, Up
<1>3. CASE GoesDown
  <2>1. signal' = signal /\ down' = IF signal.cmd = "fatal" THEN emergency ELSE signal.cmd
    BY <1>3 DEF GoesDown, ShutdownHangs, mainVars
  <2> QED BY <2>1 DEF ShutdownStored, ShutdownPowersOff
<1> QED BY <1>1, <1>2, <1>3, DownCases

-----------------------------------------------------------------------------
(* The invariant of the tasks. *)

CoreInv ==
  /\ RunInv
  /\ VolumesClosed /\ TagBlamed /\ BehindDone /\ ResetComplete
  /\ ShutdownStored /\ ShutdownPowersOff

LEMMA CoreInvInit == Init => CoreInv
<1> SUFFICES ASSUME Init PROVE CoreInv
  OBVIOUS
<1>1. RunInv
  BY RunInvInit
<1>2. VolumesClosed /\ TagBlamed
  BY DEF Init, VolumesClosed, TagBlamed
<1>3. BehindDone
  BY DEF Init, BehindDone
<1>4. ResetComplete
  <2>1. \A p \in Procs : err[p] = "none"
    BY DEF Init
  <2> QED BY <2>1, Ends DEF ResetComplete
<1>5. ShutdownStored
  <2>1. signal.by = Noop /\ \A p \in Procs : err[p] = "none"
    BY DEF Init, NoSignal
  <2>2. Noop # "shutdown"
    BY DEF Noop
  <2> QED BY <2>1, <2>2 DEF ShutdownStored
<1>6. ShutdownPowersOff
  BY DEF Init, Up, ShutdownPowersOff
<1> QED BY <1>1, <1>2, <1>3, <1>4, <1>5, <1>6 DEF CoreInv

LEMMA CoreInvStep == CoreInv /\ [Next]_vars => CoreInv'
<1> SUFFICES ASSUME CoreInv, [Next]_vars PROVE CoreInv'
  OBVIOUS
<1>0. /\ RunInv /\ VolumesClosed /\ TagBlamed /\ BehindDone /\ ResetComplete
      /\ ShutdownStored /\ ShutdownPowersOff /\ RunInv'
  BY RunInvStep DEF CoreInv
<1>1. CASE Next
  BY <1>0, <1>1, VolumesClosedStep, TagBlamedStep, BehindDoneStep, ResetCompleteStep, ShutdownStoredStep,
     ShutdownPowersOffStep DEF CoreInv
<1>2. CASE UNCHANGED vars
  <2> USE <1>2 DEF vars, runVars, mainVars, machineVars, volumeVars, diskVars, lockState
  <2>1. VolumesClosed' /\ TagBlamed'
    BY <1>0 DEF VolumesClosed, TagBlamed, WipeFailed
  <2>2. BehindDone'
    <3>1. \A p \in Procs : \A x : Behind(p, x)' <=> Behind(p, x)
      BY DEF Behind, ThePhases
    <3>2. \A T : SpecWiped(T)' <=> SpecWiped(T)
      BY DEF SpecWiped, WipeFailed
    <3> QED BY <1>0, <3>1, <3>2 DEF BehindDone
  <2>3. ResetComplete'
    BY <1>0 DEF ResetComplete, WipeFailed
  <2>4. ShutdownStored' /\ ShutdownPowersOff'
    BY <1>0 DEF ShutdownStored, ShutdownPowersOff, Up
  <2> QED BY <1>0, <2>1, <2>2, <2>3, <2>4 DEF CoreInv
<1> QED BY <1>1, <1>2

LEMMA CoreInvariant == Spec => []CoreInv
<1> QED BY CoreInvInit, CoreInvStep, PTL DEF Spec

(* The installer of an upgrade finds every volume unmounted and closed,     *)
(* however many sequences were cut short before it, and by whom.            *)
THEOREM UpgradeHasTheDisk == Spec => []InstallerHasTheDisk
<1>1. CoreInv => InstallerHasTheDisk
  <2> SUFFICES ASSUME CoreInv, NEW p \in Procs, Running(p, "Upgrade"), req[p].seq = "upgrade"
               PROVE  mount # "mounted" /\ lifecycle = "gone"
    BY DEF CoreInv, RunInv, Typed, InstallerHasTheDisk
  <2>1. RunInv /\ pc[p] = "phase" /\ "Upgrade" \in todo[p]
    BY DEF CoreInv, Running
  <2>2. Before(ThePhases(p), "TeardownVolumeLifecycle", "Upgrade")
    BY <2>1, TheList DEF RunInv, SortedOut
  <2>3. Behind(p, "TeardownVolumeLifecycle")
    BY <2>1, <2>2, BeforeBehind
  <2>4. lifecycle = "gone"
    BY <2>1, <2>3 DEF CoreInv, BehindDone
  <2> QED BY <2>4 DEF CoreInv, VolumesClosed
<1> QED BY <1>1, CoreInvariant, PTL

(* A reset that announces the restart has wiped what it was asked to, and   *)
(* the encryption of a STATE that is gone is not in META any more, unless   *)
(* a wipe has failed before.                                                *)
THEOREM ResetIsComplete == Spec => []ResetComplete
<1>1. CoreInv => ResetComplete
  BY DEF CoreInv
<1> QED BY <1>1, CoreInvariant, PTL

(* A machine that goes down by an event of a shutdown powers off, whichever *)
(* of its tasks has failed.                                                 *)
THEOREM ShutdownEndsInPowerOff == Spec => []ShutdownPowersOff
<1>1. CoreInv => ShutdownPowersOff
  BY DEF CoreInv
<1> QED BY <1>1, CoreInvariant, PTL

-----------------------------------------------------------------------------
(* Who waits for the lock. *)

(* At most one waits, and may take over what runs; a sequence is cancelled  *)
(* for it, unless its minute was over.                                      *)
OneWaits ==
  /\ \A p, q \in Procs : (pc[p] = "await" /\ pc[q] = "await") => p = q
  /\ \A p \in Procs : pc[p] = "await" =>
       req[p].seq \in {"reboot", "shutdown"} \/ held.seq \in {"initialize", "boot", Noop}
  /\ (revoked /\ ~TakeOverFailed) => Contended

CanceledForIt ==
  \A p \in Procs : (pc[p] = "phase" /\ err[p] = "canceled") => revoked

(* What may take over anything but the boot. *)
LEMMA TakesOver ==
  ASSUME RunInv, NEW p \in Procs, pc[p] = "lock", ~Free, MayRun(req[p], held.seq)
  PROVE  req[p].seq \in {"reboot", "shutdown"} \/ held.seq \in {"initialize", "boot"}
<1>1. PICK h \in holder : TRUE
  BY DEF Free
<1>2. held = req[h] /\ h \in Procs /\ pc[h] # "idle"
  BY DEF RunInv, OneHolder, Typed, TypeOK
<1>3. held.seq \in Sequences /\ held.seq # Noop
  BY <1>2, TheList DEF RunInv, Sequences, Noop
<1>4. CASE CanTakeOver(req[p].seq, held.seq)
  <2>1. req[p].seq \in sequenceTakeOver[held.seq]
    BY <1>3, <1>4 DEF CanTakeOver
  <2>2. held.seq \notin {"initialize", "boot"} => sequenceTakeOver[held.seq] \subseteq {"reboot"}
    BY <1>3 DEF sequenceTakeOver
  <2> QED BY <2>1, <2>2
<1>5. CASE req[p].takeover
  <2>1. p # Main
    BY <1>5 DEF RunInv, Requested
  <2>2. PICK r \in machine.asks[p] : req[p] = Request(r.seq, r.takeover)
    BY <2>1 DEF RunInv, Requested
  <2>3. r.takeover => r.seq \in {"reboot", "shutdown"}
    BY <2>1, SequencerAssumption DEF Callers, RunInv, Typed, TypeOK
  <2> QED BY <1>5, <2>2, <2>3 DEF Request
<1> QED BY <1>4, <1>5 DEF MayRun

LEMMA OneWaitsStep ==
  ASSUME RunInv, OneWaits, Next
  PROVE  OneWaits'
<1>m. /\ Typed /\ Requested /\ Main \in Procs
      /\ pc \in [Procs -> {"idle", "lock", "await", "phase", "unlock", "returned"}]
      /\ err \in [Procs -> Errors] /\ req \in [Procs -> AnyRequest]
  BY SequencerAssumption DEF RunInv, Typed, TypeOK
<1>0. ASSUME UNCHANGED <<held, revoked>>, \A q \in Procs : pc'[q] = "await" => pc[q] = "await" /\ req'[q] = req[q],
             Contended => Contended' \/ TakeOverFailed'
      PROVE  OneWaits'
  BY <1>0, TakeOverFailedKept DEF OneWaits
<1>1. ASSUME UNCHANGED lockState,
             \A q \in Procs : (pc'[q] = "await" <=> pc[q] = "await") /\ (pc[q] = "await" => req'[q] = req[q])
      PROVE  OneWaits'
  <2>1. Contended => Contended'
    BY <1>1 DEF Contended
  <2> QED BY <1>0, <1>1, <2>1 DEF lockState
<1>2. CASE Quiet
  BY <1>1, <1>2 DEF Quiet
<1>3. ASSUME NEW p \in Procs, NEW s, NEW t, NEW in, Call(p, s, t, in) PROVE OneWaits'
  BY <1>1, <1>3, <1>m DEF Call, Goto
<1>4. ASSUME NEW p \in Callers, NEW r \in machine.asks[p], Ask(p, r) PROVE OneWaits'
  BY <1>3, <1>4, CallSteps DEF Callers
<1>5. CASE MainCalls
  BY <1>3, <1>5, <1>m, CallSteps
<1>6. CASE MainGoesOn
  BY <1>1, <1>6, <1>m DEF MainGoesOn, Goto
<1>7. ASSUME NEW p \in Procs, LockRefused(p) PROVE OneWaits'
  BY <1>1, <1>7, <1>m DEF LockRefused, Return, Goto
<1>8. ASSUME NEW p \in Procs, LockTimeout(p) PROVE OneWaits'
  <2>1. err'[p] = "timeout" /\ UNCHANGED <<lockState, req>> /\ pc' = [pc EXCEPT ![p] = "returned"]
    BY <1>8, <1>m DEF LockTimeout, Return, Goto
  <2>2. TakeOverFailed'
    BY <2>1 DEF TakeOverFailed
  <2> QED BY <1>0, <1>m, <2>1, <2>2 DEF lockState
<1>9. ASSUME NEW p \in Procs, LockTakesOver(p) PROVE OneWaits'
  <2>1. /\ pc[p] = "lock" /\ pc' = [pc EXCEPT ![p] = "await"] /\ UNCHANGED <<held, req>> /\ ~Contended
        /\ ~Free /\ MayRun(req[p], held.seq)
    BY <1>9 DEF LockTakesOver, Goto, Revoke
  <2>2. req[p].seq \in {"reboot", "shutdown"} \/ held.seq \in {"initialize", "boot"}
    BY <2>1, TakesOver
  <2>3. pc'[p] = "await" /\ \A q \in Procs : pc'[q] = "await" => q = p
    BY <1>m, <2>1 DEF Contended
  <2>4. Contended'
    BY <2>3 DEF Contended
  <2> QED BY <2>1, <2>2, <2>3, <2>4 DEF OneWaits
<1>10. ASSUME NEW p \in Procs, LockGranted(p) PROVE OneWaits'
  <2>1. revoked' = FALSE /\ (pc[p] = "await" \/ ~Contended)
    BY <1>10 DEF LockGranted, Grant
  <2>2. \E x \in {"phase", "unlock"} : pc' = [pc EXCEPT ![p] = x]
    BY <1>10 DEF LockGranted, BeginPhase
  <2>3. \A q \in Procs : q # p => pc[q] # "await"
    BY <2>1 DEF OneWaits, Contended
  <2>4. \A q \in Procs : pc'[q] # "await"
    BY <1>m, <2>2, <2>3
  <2> QED BY <2>1, <2>4 DEF OneWaits
<1>11. ASSUME NEW p \in Procs, PhaseEnds(p) PROVE OneWaits'
  <2>1. \E x \in {"phase", "unlock"} : pc' = [pc EXCEPT ![p] = x]
    BY <1>11 DEF PhaseEnds, BeginPhase
  <2>2. UNCHANGED <<lockState, req>> /\ pc[p] = "phase"
    BY <1>11 DEF PhaseEnds
  <2> QED BY <1>1, <1>m, <2>1, <2>2
<1>12. ASSUME NEW p \in Procs, Unlock(p) PROVE OneWaits'
  <2>1. /\ held' = NoRequest /\ revoked' = FALSE /\ req' = req
        /\ pc[p] = "unlock" /\ pc' = [pc EXCEPT ![p] = "returned"]
    BY <1>12 DEF Unlock, Goto, Release
  <2>2. held'.seq = Noop
    BY <2>1 DEF NoRequest, Request
  <2>3. \A q \in Procs : pc'[q] = "await" => pc[q] = "await"
    BY <1>m, <2>1
  <2> QED BY <2>1, <2>2, <2>3 DEF OneWaits
<1>13. ASSUME NEW p \in Procs, NEW task \in AllTasks, NEW e \in Errors, TaskReturns(p, task, e) PROVE OneWaits'
  BY <1>1, <1>13 DEF TaskReturns
<1> QED BY <1>m, <1>2, <1>4, <1>5, <1>6, <1>7, <1>8, <1>9, <1>10, <1>11, <1>12, <1>13, RunCases

(* A task is cancelled only by a takeover, or after an error. *)
LEMMA CanceledBy ==
  ASSUME Typed, NEW p \in Procs, TaskStep(p), err[p] = "none", ~revoked
  PROVE  err'[p] # "canceled"
<1>n. Canceled(p) = {}
  BY DEF Canceled, Cancelled
<1>r. ASSUME NEW t, NEW e, TaskReturns(p, t, e), e # "canceled" PROVE err'[p] # "canceled"
  BY <1>r, ReturnsOne
<1>e. ASSUME NEW t, NEW e \in AnyEnd(p) \union QuorumCheck(p) \union {"none", "error"} \union Canceled(p),
             TaskReturns(p, t, e)
      PROVE  err'[p] # "canceled"
  <2>1. e # "canceled"
    BY <1>e, <1>n DEF AnyEnd, OkOrFail, QuorumCheck
  <2> QED BY <1>e, <1>r, <2>1
<1>1. CASE OtherTask(p)
  <2> DEFINE EndsOf(t) == CASE t = "haltIfInstalled" -> {"error"} \union Canceled(p)
                            [] t \in MayFail         -> AnyEnd(p)
                            [] t \in NeverFails      -> {"none"}
  <2>1. PICK t \in MayFail \union NeverFails \union {"haltIfInstalled"} : \E e \in EndsOf(t) : TaskReturns(p, t, e)
    BY <1>1 DEF OtherTask
  <2>2. EndsOf(t) \subseteq AnyEnd(p) \union QuorumCheck(p) \union {"none", "error"} \union Canceled(p)
    OBVIOUS
  <2> HIDE DEF EndsOf
  <2> QED BY <1>e, <2>1, <2>2
<1>2. CASE \/ StopAllServices(p) \/ CordonAndDrainNode(p) \/ StoreShutdownEmergency(p) \/ MountReturns(p)
           \/ UnmountEphemeralPartition(p) \/ TeardownReturns(p) \/ Installer(p) \/ KexecPrepare(p)
           \/ ResetSystemDiskSpec(p) \/ ResetSystemDisk(p)
  BY <1>2, <1>e DEF StopAllServices, CordonAndDrainNode, StoreShutdownEmergency, MountReturns, UnmountEphemeralPartition,
       TeardownReturns, Installer, KexecPrepare, ResetSystemDiskSpec, ResetSystemDisk
<1>3. CASE MountRequested(p) \/ TeardownRequested(p) \/ StopAllServicesWaits(p)
  BY <1>3 DEF MountRequested, TeardownRequested, AsksVolumes, StopAllServicesWaits
<1>c. RebootCmd # "canceled" /\ "powerOff" # "canceled"
  BY DEF RebootCmd
<1>4. CASE ResetSystemDiskPartitions(p)
  <2>1. PICK e \in AnyEnd(p) : TaskReturns(p, "ResetSystemDiskPartitions", IF e = "none" THEN RebootCmd ELSE e)
    BY <1>4 DEF ResetSystemDiskPartitions
  <2>2. e # "canceled"
    BY <1>n DEF AnyEnd, OkOrFail
  <2> QED BY <1>c, <1>r, <2>1, <2>2
<1>5. CASE RestartTask(p)
  BY <1>5, <1>c, <1>r DEF RestartTask
<1> QED BY <1>1, <1>2, <1>3, <1>4, <1>5 DEF TaskStep

LEMMA CanceledForItStep ==
  ASSUME RunInv, CanceledForIt, Next
  PROVE  CanceledForIt'
<1> SUFFICES ASSUME NEW p \in Procs, pc'[p] = "phase", err'[p] = "canceled"
             PROVE  revoked'
  BY DEF CanceledForIt
<1>m. Typed /\ Requested /\ err \in [Procs -> Errors]
  BY DEF RunInv, Typed, TypeOK
<1>b. ASSUME NEW L, NEW i, BeginPhase(p, L, i) PROVE FALSE
  BY <1>m, <1>b DEF BeginPhase
<1>1. ASSUME NEW t, NEW e, TaskReturns(p, t, e), TaskStep(p) PROVE revoked'
  <2>1. pc[p] = "phase" /\ revoked' = revoked
    BY <1>1 DEF TaskReturns, Running, lockState
  <2>2. CASE err[p] = "none"
    BY <1>1, <1>m, <2>1, <2>2, CanceledBy DEF Typed, TypeOK
  <2>3. CASE err[p] # "none"
    BY <2>1, <2>3, ErrKept DEF CanceledForIt
  <2> QED BY <2>2, <2>3
<1>2. CASE pc[p] = "phase" /\ UNCHANGED <<at[p], todo[p], err[p]>>
  <2>1. revoked /\ p \in holder
    BY <1>2 DEF CanceledForIt, RunInv, OneHolder
  <2>2. CASE UNCHANGED lockState
    BY <2>1, <2>2 DEF lockState
  <2>3. ASSUME NEW q \in Procs PROVE ~LockGranted(q) /\ ~Unlock(q)
    <3>1. ~LockGranted(q)
      BY <2>1 DEF LockGranted, Grant, Free
    <3>2. ASSUME Unlock(q) PROVE FALSE
      <4>1. pc[q] = "unlock" /\ q \in holder
        BY <3>2 DEF Unlock, Goto, RunInv, OneHolder
      <4> QED BY <1>2, <2>1, <4>1 DEF RunInv, OneHolder
    <3> QED BY <3>1, <3>2
  <2>4. ASSUME NEW q \in Procs, LockTakesOver(q) PROVE revoked'
    BY <2>4 DEF LockTakesOver, Revoke
  <2>5. ASSUME NEW q \in Procs, LockRefused(q) \/ LockTimeout(q) \/ PhaseEnds(q) PROVE UNCHANGED lockState
    BY <2>5 DEF LockRefused, LockTimeout, Return, PhaseEnds
  <2>6. CASE Quiet \/ MainGoesOn
    BY <2>2, <2>6 DEF Quiet, MainGoesOn
  <2>7. ASSUME NEW q, NEW s, NEW t, NEW in, Call(q, s, t, in) PROVE UNCHANGED lockState
    BY <2>7 DEF Call
  <2>8. ASSUME NEW q, NEW t, NEW e, TaskReturns(q, t, e) PROVE UNCHANGED lockState
    BY <2>8 DEF TaskReturns
  <2> QED BY <1>m, <2>2, <2>3, <2>4, <2>5, <2>6, <2>7, <2>8, CallSteps, RunCases
<1> QED BY <1>b, <1>1, <1>2, PhaseCases

-----------------------------------------------------------------------------
(* The kernel that kexec has loaded. *)

(* main returns from the install sequence to go down. *)
MainEnding == main = "install" /\ pc[Main] \in {"unlock", "returned"} /\ err[Main] # "none"

(* No event is on its way or lost, and no takeover was for nothing. *)
Clean == ~missed /\ signal = NoSignal /\ ~TakeOverFailed /\ ~MainEnding

(* The rest of the sequence leaves the kernel alone. *)
Harmless(p) ==
  /\ todo[p] \intersect Changers(data[p]) = {}
  /\ \A i \in 1..Len(ThePhases(p)) : i > at[p] => ThePhases(p)[i].tasks \intersect Changers(data[p]) = {}

(* What has the lock, and what waits for it, is on its way to the restart. *)
HolderGoesDown(p) ==
  /\ req[p].seq \notin {"initialize", "boot"}
  /\ pc[p] = "phase" => Harmless(p)
  /\ pc[p] = "unlock" => revoked

OnItsWay ==
  /\ Free => Contended
  /\ \A p \in holder : HolderGoesDown(p)
  /\ \A q \in Procs : pc[q] = "await" => req[q].seq \in {"reboot", "shutdown"}

(* A kernel that is loaded is the one on the disk, and what has loaded it,  *)
(* or what takes that over, is on its way to the restart.                   *)
KexecLoaded == (kexec # "none" /\ Clean) => kexec = kernel /\ OnItsWay

KexecInv == CoreInv /\ OneWaits /\ CanceledForIt /\ KexecLoaded

(* main returns from the install sequence once it has failed. *)
LEMMA MainEndingStep ==
  ASSUME RunInv, Next, MainEnding, signal' = NoSignal
  PROVE  MainEnding'
<1>m. /\ Typed /\ Requested /\ Main \in Procs /\ signal \in {NoSignal} \union [by : Sequences \union {Noop}, cmd : RebootCmds \union {"fatal"}]
      /\ pc \in [Procs -> {"idle", "lock", "await", "phase", "unlock", "returned"}]
      /\ err \in [Procs -> Errors]
  BY SequencerAssumption DEF RunInv, Typed, TypeOK
<1>e. err'[Main] # "none"
  BY <1>m, ErrKept DEF MainEnding
<1>1. ASSUME main' = main, pc'[Main] \in {"unlock", "returned"} PROVE MainEnding'
  BY <1>1, <1>e DEF MainEnding
<1>2. CASE Quiet
  BY <1>1, <1>2 DEF Quiet, MainEnding, mainVars
<1>3. ASSUME NEW p \in Procs, NEW s, NEW t, NEW in, Call(p, s, t, in), UNCHANGED mainVars PROVE MainEnding'
  <2>1. p # Main
    BY <1>3 DEF Call, Goto, MainEnding
  <2> QED BY <1>1, <1>3, <1>m, <2>1 DEF Call, Goto, mainVars, MainEnding
<1>4. ASSUME NEW p \in Callers, NEW r \in machine.asks[p], Ask(p, r) PROVE MainEnding'
  BY <1>3, <1>4, CallSteps DEF Callers
<1>5. CASE MainCalls
  BY <1>3, <1>5, <1>m, CallSteps
<1>6. ~MainGoesOn
  <2>1. ASSUME MainGoesOn PROVE signal'.cmd # "none"
    BY <2>1 DEF MainGoesOn, MainEnding, RebootCmds
  <2> QED BY <2>1 DEF NoSignal
<1>7. ASSUME NEW p \in Procs, LockRefused(p) \/ LockTimeout(p) \/ LockTakesOver(p) \/ Unlock(p) PROVE MainEnding'
  <2>1. main' = main /\ \A q \in Procs : q # p => pc'[q] = pc[q]
    BY <1>7, <1>m DEF LockRefused, LockTimeout, LockTakesOver, Unlock, Return, Goto, mainVars
  <2>2. p = Main => pc'[p] = "returned"
    BY <1>7, <1>m DEF LockRefused, LockTimeout, LockTakesOver, Unlock, Return, Goto, MainEnding
  <2> QED BY <1>1, <1>m, <2>1, <2>2 DEF MainEnding
<1>8. ASSUME NEW p \in Procs, LockGranted(p) \/ PhaseEnds(p) PROVE MainEnding'
  <2>1. p # Main
    BY <1>8 DEF LockGranted, PhaseEnds, MainEnding
  <2>2. pc'[Main] = pc[Main] /\ main' = main
    BY <1>8, <1>m, <2>1 DEF LockGranted, PhaseEnds, BeginPhase, Publish, mainVars
  <2> QED BY <1>1, <2>2 DEF MainEnding
<1>9. ASSUME NEW p \in Procs, NEW task, NEW e, TaskReturns(p, task, e), main' = main PROVE MainEnding'
  <2>1. pc' = pc
    BY <1>9 DEF TaskReturns
  <2> QED BY <1>1, <1>9, <2>1 DEF MainEnding
<1> QED BY <1>m, <1>2, <1>4, <1>5, <1>6, <1>7, <1>8, <1>9, RunCases

(* An event is not taken back. *)
LEMMA SignalKept ==
  ASSUME RunInv, Next
  PROVE  (signal' = NoSignal => signal = NoSignal) /\ (missed => missed')
<1>p. ASSUME NEW p, NEW cmd, Publish(p, cmd) PROVE (signal # NoSignal => signal' = signal) /\ (missed => missed')
  BY <1>p DEF Publish
<1> DEFINE Goal == (signal' = NoSignal => signal = NoSignal) /\ (missed => missed')
<1>s. ASSUME UNCHANGED <<main, signal, missed>> PROVE Goal
  BY <1>s
<1>u. ASSUME UNCHANGED mainVars PROVE Goal
  BY <1>u DEF mainVars
<1>q. ASSUME NEW p, NEW cmd, Publish(p, cmd) PROVE Goal
  BY <1>p, <1>q
<1>1. ASSUME MainGoesOn PROVE Goal
  <2>1. signal' = signal \/ signal'.cmd # "none"
    BY <1>1 DEF MainGoesOn, RebootCmds
  <2>2. missed' = missed
    BY <1>1 DEF MainGoesOn
  <2> QED BY <2>1, <2>2 DEF NoSignal
<1> SUFFICES Goal
  OBVIOUS
<1> HIDE DEF Goal
<1>2. ASSUME NEW p \in Callers, NEW r \in machine.asks[p], Ask(p, r) PROVE Goal
  BY <1>u, <1>2 DEF Ask
<1>3. CASE MainCalls \/ GoesDown \/ ShutdownHangs \/ VolumeMounts \/ VolumeUnmounts \/ VolumesClose \/ UNCHANGED vars
  BY <1>s, <1>u, <1>3 DEF MainCalls, GoesDown, ShutdownHangs, VolumeMounts, VolumeUnmounts, VolumesClose, vars
<1>4. ASSUME NEW p \in Procs, LockRefused(p) \/ LockTimeout(p) \/ LockTakesOver(p) \/ LockGranted(p) \/ Unlock(p)
      PROVE  Goal
  BY <1>u, <1>4 DEF LockRefused, LockTimeout, Return, LockTakesOver, LockGranted, Unlock
<1>5. ASSUME NEW p \in Procs, PhaseEnds(p) PROVE Goal
  BY <1>u, <1>q, <1>5 DEF PhaseEnds
<1>6. ASSUME NEW p \in Procs, TaskStep(p) PROVE Goal
  <2>1. CASE MountRequested(p) \/ TeardownRequested(p) \/ OtherTask(p) \/ CordonAndDrainNode(p)
          \/ StopAllServicesWaits(p) \/ StopAllServices(p) \/ StoreShutdownEmergency(p) \/ MountReturns(p) \/ UnmountEphemeralPartition(p)
          \/ TeardownReturns(p) \/ Installer(p) \/ KexecPrepare(p) \/ ResetSystemDiskSpec(p) \/ ResetSystemDisk(p)
    BY <1>s, <1>u, <2>1 DEF MountRequested, TeardownRequested, AsksVolumes, OtherTask, CordonAndDrainNode,
         StopAllServicesWaits, StopAllServices,
         StoreShutdownEmergency, MountReturns, UnmountEphemeralPartition,
         TeardownReturns, Installer, KexecPrepare, ResetSystemDiskSpec, ResetSystemDisk
  <2>2. CASE ResetSystemDiskPartitions(p) \/ RestartTask(p)
    BY <1>u, <1>q, <2>2 DEF ResetSystemDiskPartitions, RestartTask
  <2> QED BY <1>6, <2>1, <2>2 DEF TaskStep
<1> QED BY <1>1, <1>2, <1>3, <1>4, <1>5, <1>6, NextCases

LEMMA CleanStep ==
  ASSUME RunInv, Next, Clean'
  PROVE  Clean
  BY SignalKept, TakeOverFailedKept, MainEndingStep DEF Clean, NoSignal

(* Who changes the kernel on the disk. *)
LEMMA KernelChanges ==
  ASSUME RunInv, Next, kernel' # kernel
  PROVE  \/ \E p \in Callers : \E r \in machine.asks[p] : Ask(p, r) /\ r.in.type = "ResetRequest"
         \/ \E p \in Procs : \E x \in Changers(data[p]) : Running(p, x)
<1>1. ASSUME NEW p \in Callers, NEW r \in machine.asks[p], Ask(p, r) PROVE r.in.type = "ResetRequest"
  BY <1>1 DEF Ask
<1>2. ~(MainCalls \/ MainGoesOn \/ GoesDown \/ ShutdownHangs \/ UNCHANGED vars)
  BY DEF MainCalls, MainGoesOn, GoesDown, ShutdownHangs, vars, machineVars, diskVars
<1>3. ~(VolumeMounts \/ VolumeUnmounts \/ VolumesClose)
  BY DEF VolumeMounts, VolumeUnmounts, VolumesClose, diskVars
<1>4. ASSUME NEW p \in Procs
      PROVE  ~(LockRefused(p) \/ LockTimeout(p) \/ LockTakesOver(p) \/ LockGranted(p) \/ Unlock(p) \/ PhaseEnds(p))
  BY DEF LockRefused, LockTimeout, Return, LockTakesOver, LockGranted, Unlock, PhaseEnds, machineVars, diskVars
<1>5. ASSUME NEW p \in Procs, TaskStep(p) PROVE \E x \in Changers(data[p]) : Running(p, x)
  <2>0. {"Install", "Upgrade", "ResetSystemDisk", "ResetSystemDiskPartitions"} \subseteq Changers(data[p])
    BY DEF Changers, KernelTasks
  <2>1. ~(OtherTask(p) \/ StopAllServicesWaits(p) \/ StopAllServices(p) \/ CordonAndDrainNode(p) \/ MountReturns(p) \/ RestartTask(p)
             \/ StoreShutdownEmergency(p) \/ KexecPrepare(p))
    BY DEF OtherTask, StopAllServicesWaits, StopAllServices, CordonAndDrainNode, MountReturns, RestartTask, StoreShutdownEmergency,
           KexecPrepare, machineVars, diskVars
  <2>2. ~(MountRequested(p) \/ TeardownRequested(p) \/ UnmountEphemeralPartition(p) \/ TeardownReturns(p))
    BY DEF MountRequested, TeardownRequested, AsksVolumes, UnmountEphemeralPartition, TeardownReturns, diskVars
  <2>r. ASSUME NEW t, NEW e, TaskReturns(p, t, e) PROVE Running(p, t)
    BY <2>r DEF TaskReturns
  <2>3. CASE Installer(p)
    BY <2>0, <2>3, <2>r DEF Installer
  <2>4. CASE ResetSystemDisk(p)
    BY <2>0, <2>4, <2>r DEF ResetSystemDisk
  <2>5. CASE ResetSystemDiskPartitions(p)
    BY <2>0, <2>5, <2>r DEF ResetSystemDiskPartitions
  <2>6. CASE ResetSystemDiskSpec(p)
    <3>1. PICK done \in SUBSET data[p].targets, e \in AnyEnd(p) :
            TaskReturns(p, "ResetSystemDiskSpec", e) /\ WipeSpec(data[p].targets, done, e)
      BY <2>6 DEF ResetSystemDiskSpec
    <3>2. "BOOT" \in data[p].targets
      BY <3>1 DEF WipeSpec, Wipes
    <3>3. "ResetSystemDiskSpec" \in Changers(data[p])
      BY <3>2 DEF Changers, KernelTasks
    <3> QED BY <2>r, <3>1, <3>3
  <2> QED BY <1>5, <2>1, <2>2, <2>3, <2>4, <2>5, <2>6 DEF TaskStep
<1> QED BY <1>1, <1>2, <1>3, <1>4, <1>5, NextCases

(* What KexecPrepare loads. *)
LEMMA KexecChanges ==
  ASSUME RunInv, Next, kexec' # kexec
  PROVE  \E p \in Procs : TaskReturns(p, "KexecPrepare", "none") /\ kexec' = kernel /\ kernel' = kernel
<1>1. ASSUME NEW p \in Callers, NEW r \in machine.asks[p] PROVE ~Ask(p, r)
  BY DEF Ask
<1>2. ~(MainCalls \/ MainGoesOn \/ GoesDown \/ ShutdownHangs \/ UNCHANGED vars)
  BY DEF MainCalls, MainGoesOn, GoesDown, ShutdownHangs, vars, machineVars, diskVars
<1>3. ~(VolumeMounts \/ VolumeUnmounts \/ VolumesClose)
  BY DEF VolumeMounts, VolumeUnmounts, VolumesClose, diskVars
<1>4. ASSUME NEW p \in Procs
      PROVE  ~(LockRefused(p) \/ LockTimeout(p) \/ LockTakesOver(p) \/ LockGranted(p) \/ Unlock(p) \/ PhaseEnds(p))
  BY DEF LockRefused, LockTimeout, Return, LockTakesOver, LockGranted, Unlock, PhaseEnds, machineVars, diskVars
<1>5. ASSUME NEW p \in Procs, TaskStep(p)
      PROVE  TaskReturns(p, "KexecPrepare", "none") /\ kexec' = kernel /\ kernel' = kernel
  <2>1. ~(OtherTask(p) \/ StopAllServicesWaits(p) \/ StopAllServices(p) \/ CordonAndDrainNode(p) \/ MountReturns(p) \/ RestartTask(p)
             \/ StoreShutdownEmergency(p) \/ Installer(p))
    BY DEF OtherTask, StopAllServicesWaits, StopAllServices, CordonAndDrainNode, MountReturns, RestartTask, StoreShutdownEmergency,
           Installer, machineVars, diskVars
  <2>2. ~(MountRequested(p) \/ TeardownRequested(p) \/ UnmountEphemeralPartition(p) \/ TeardownReturns(p))
    BY DEF MountRequested, TeardownRequested, AsksVolumes, UnmountEphemeralPartition, TeardownReturns, diskVars
  <2>3. ~(ResetSystemDiskSpec(p) \/ ResetSystemDisk(p) \/ ResetSystemDiskPartitions(p))
    BY DEF ResetSystemDiskSpec, ResetSystemDisk, ResetSystemDiskPartitions
  <2>4. KexecPrepare(p)
    BY <1>5, <2>1, <2>2, <2>3 DEF TaskStep
  <2>5. PICK e \in AnyEnd(p) :
       /\ TaskReturns(p, "KexecPrepare", e)
       /\ kexec' \in {kexec} \union
            (IF e = "none" /\ kernel # "wiped"
                 /\ ~(data[p].type = "RebootRequest" /\ data[p].mode = "POWERCYCLE")
             THEN {kernel} ELSE {})
    BY <2>4 DEF KexecPrepare
  <2> QED BY <2>4, <2>5 DEF KexecPrepare
<1> QED BY <1>1, <1>2, <1>3, <1>4, <1>5, NextCases

(* Nothing that comes after kexec is prepared changes the kernel. *)
LEMMA PreparedHarmless ==
  ASSUME RunInv, Next, NEW p \in Procs, TaskReturns(p, "KexecPrepare", "none")
  PROVE  Harmless(p)' /\ req[p].seq \notin {"initialize", "boot"}
<1>1. pc[p] = "phase" /\ "KexecPrepare" \in todo[p] /\ UNCHANGED <<req, data, at>>
  BY DEF TaskReturns, Running
<1>2. SortedOut(req[p].seq, data[p], machine.container, ThePhases(p))
  BY <1>1, TheList DEF RunInv
<1>3. at[p] \in 1..Len(ThePhases(p)) /\ todo[p] \subseteq ThePhases(p)[at[p]].tasks
  BY <1>1 DEF RunInv, InPhase, InPhaseOf
<1>4. req[p].seq \notin {"initialize", "boot"}
  BY <1>1, <1>2, <1>3 DEF SortedOut, Without
<1>5. Simple(ThePhases(p)) /\ NotAfter(ThePhases(p), "KexecPrepare", Changers(data[p]))
  BY <1>2, <1>4 DEF SortedOut
<1>6. todo'[p] = {}
  <2>1. ThePhases(p)[at[p]].tasks = {"KexecPrepare"}
    BY <1>1, <1>3, <1>5 DEF Simple
  <2>2. todo' = [todo EXCEPT ![p] = @ \ {"KexecPrepare"}] /\ todo \in [Procs -> SUBSET AllTasks]
    BY DEF TaskReturns, RunInv, Typed, TypeOK
  <2> QED BY <1>3, <2>1, <2>2
<1>7. ThePhases(p)' = ThePhases(p) /\ data'[p] = data[p] /\ at'[p] = at[p]
  BY <1>1, SameList, MachineTypedStep DEF RunInv
<1>8. \A i \in 1..Len(ThePhases(p)) : i > at[p] => ThePhases(p)[i].tasks \intersect Changers(data[p]) = {}
  BY <1>1, <1>3, <1>5 DEF NotAfter
<1>9. Changers(data[p])' = Changers(data[p])
  BY <1>7 DEF Changers
<1> QED BY <1>4, <1>6, <1>7, <1>8, <1>9 DEF Harmless

(* A list that ends in a restart is not run to its end. *)
LEMMA NotToTheEnd ==
  ASSUME RunInv, BehindDone, NEW p \in Procs, pc[p] = "phase", todo[p] = {}, err[p] = "none",
         req[p].seq \notin {"initialize", "boot"}
  PROVE  at[p] # Len(ThePhases(p))
<1>1. SortedOut(req[p].seq, data[p], machine.container, ThePhases(p))
  BY TheList DEF RunInv
<1>2. PICK L \in Seq(Phased) : L = ThePhases(p)
  BY <1>1 DEF SortedOut
<1>3. at[p] \in 1..Len(L) /\ Len(L) \in Nat
  BY <1>2 DEF RunInv, InPhase, InPhaseOf
<1>4. Simple(L) /\ EndsInRestart(L)
  BY <1>1, <1>2, <1>3 DEF SortedOut
<1> SUFFICES ASSUME at[p] = Len(L) PROVE FALSE
  BY <1>2
<1>5. PICK x \in {"Reboot", "Shutdown"} : Sure(L, Len(L), x)
  BY <1>3, <1>4 DEF Simple, EndsInRestart, Sure
<1>6. Len(L) \in 1..at[p]
  BY <1>3
<1>7. Behind(p, x)
  BY <1>2, <1>5, <1>6 DEF Behind
<1> QED BY <1>5, <1>7 DEF BehindDone

(* What takes over begins, with its first phase. *)
LEMMA GrantedOnItsWay ==
  ASSUME RunInv, RunInv', OneWaits, OnItsWay, Next, Clean', NEW p \in Procs, LockGranted(p)
  PROVE  OnItsWay'
<1>m. /\ Typed /\ Requested /\ RunTyped /\ pc \in [Procs -> {"idle", "lock", "await", "phase", "unlock", "returned"}]
      /\ err \in [Procs -> Errors] /\ machine' = machine
  BY TypedParts, MachineTypedStep DEF RunInv, Typed, TypeOK
<1>1. Free /\ holder' = {p} /\ UNCHANGED <<req, data>> /\ pc[p] = "await"
  BY DEF LockGranted, Grant, OnItsWay
<1>2. req[p].seq \in {"reboot", "shutdown"} /\ \A q \in Procs : q # p => pc[q] # "await"
  BY <1>1 DEF OnItsWay, OneWaits
<1>3. data[p].type \in Accepts(req[p].seq)
  <2>1. ASSUME data[p].type \notin Accepts(req[p].seq) PROVE FALSE
    <3>1. err'[p] = "invalid"
      BY <1>m, <2>1 DEF LockGranted
    <3> QED BY <3>1 DEF Clean, TakeOverFailed
  <2> QED BY <2>1
<1>4. SortedOut(req[p].seq, data[p], machine.container, ThePhases(p))
  BY <1>m, <1>1, TheList
<1>5. PICK L \in Seq(Phased) : L = ThePhases(p)
  BY <1>4 DEF SortedOut
<1>6. Len(L) > 0 /\ Without(L, KernelTasks) /\ Simple(L) /\ Len(L) \in Nat
  BY <1>2, <1>4, <1>5 DEF SortedOut
<1>7. PICK j \in 1..(Len(L) + 1) :
        IsNextPhase(L, 1, j) /\ pc'[p] = (IF j <= Len(L) THEN "phase" ELSE "unlock")
        /\ pc' = [pc EXCEPT ![p] = IF j <= Len(L) THEN "phase" ELSE "unlock"]
  <2>1. BeginPhase(p, L, 1) /\ 1 \in Nat \ {0} /\ 1 <= Len(L) + 1
    BY <1>3, <1>5, <1>6 DEF LockGranted
  <2> QED BY <1>m, <2>1, BeginPhaseTyped
<1>8. j <= Len(L)
  <2>0. 1 \in 1..Len(L)
    BY <1>6
  <2>1. ~Skipped(L[1])
    BY <1>6, <2>0 DEF Simple, Skipped
  <2> QED BY <1>6, <1>7, <2>1 DEF IsNextPhase
<1>9. pc'[p] = "phase" /\ \A q \in Procs : pc'[q] # "await"
  BY <1>2, <1>7, <1>8, <1>m
<1>10. ThePhases(p)' = L
  BY <1>m, <1>1, <1>5, SameList
<1>11. Harmless(p)'
  <2>1. todo'[p] \subseteq L[at'[p]].tasks /\ at'[p] \in 1..Len(L)
    BY <1>9, <1>10 DEF RunInv, InPhase, InPhaseOf
  <2>2. Changers(data'[p]) \subseteq KernelTasks
    BY DEF Changers
  <2>3. \A i \in 1..Len(L) : L[i].tasks \intersect Changers(data'[p]) = {}
    BY <1>6, <2>2 DEF Without
  <2>4. Changers(data[p])' = Changers(data'[p])
    BY DEF Changers
  <2> QED BY <1>10, <2>1, <2>3, <2>4 DEF Harmless
<1>12. HolderGoesDown(p)'
  BY <1>1, <1>2, <1>9, <1>11 DEF HolderGoesDown
<1> QED BY <1>1, <1>9, <1>12 DEF OnItsWay, Free

(* A sequence that ends without having restarted the machine was taken      *)
(* over, or its error is on its way to main.                                *)
LEMMA PhaseEndsOnItsWay ==
  ASSUME RunInv, RunInv', BehindDone, CanceledForIt, OnItsWay, Next, Clean', NEW p \in Procs, PhaseEnds(p)
  PROVE  OnItsWay'
<1>m. /\ Typed /\ Requested /\ RunTyped /\ pc \in [Procs -> {"idle", "lock", "await", "phase", "unlock", "returned"}]
      /\ err \in [Procs -> Errors] /\ machine' = machine /\ OneHolder
  BY TypedParts, MachineTypedStep DEF RunInv, Typed, TypeOK
<1>1. pc[p] = "phase" /\ todo[p] = {} /\ UNCHANGED <<lockState, req, data>>
  BY DEF PhaseEnds
<1>2. holder = {p} /\ holder' = {p} /\ revoked' = revoked
  <2>1. p \in holder /\ \A q \in holder : q = p
    BY <1>m, <1>1 DEF OneHolder
  <2> QED BY <1>1, <2>1 DEF lockState
<1>3. HolderGoesDown(p) /\ Harmless(p) /\ req[p].seq \notin {"initialize", "boot"}
  BY <1>1, <1>2 DEF OnItsWay, HolderGoesDown
<1>4. ASSUME pc'[p] # "await", \A q \in Procs : q # p => pc'[q] = pc[q], HolderGoesDown(p)' PROVE OnItsWay'
  BY <1>1, <1>2, <1>4 DEF OnItsWay, Free
<1>5. CASE pc' = [pc EXCEPT ![p] = "unlock"] /\ revoked
  <2>1. pc'[p] = "unlock" /\ \A q \in Procs : q # p => pc'[q] = pc[q]
    BY <1>5, <1>m
  <2> QED BY <1>1, <1>2, <1>3, <1>4, <1>5, <2>1 DEF HolderGoesDown
<1>6. CASE err[p] # "none"
  <2>1. pc' = [pc EXCEPT ![p] = "unlock"] /\ err' = err
    BY <1>6 DEF PhaseEnds
  <2>2. CASE err[p] = "canceled"
    BY <1>1, <1>5, <2>1, <2>2 DEF CanceledForIt
  <2>3. CASE err[p] # "canceled"
    <3>1. Publish(p, "fatal")
      BY <1>6, <2>3 DEF PhaseEnds
    <3>2. CASE p # Main
      <4>1. signal' = NoSignal /\ ~missed' /\ signal = NoSignal
        BY SignalKept DEF Clean, NoSignal
      <4>2. main = "watch"
        BY <3>1, <3>2, <4>1 DEF Publish
      <4>3. signal' = [by |-> req[p].seq, cmd |-> "fatal"]
        BY <3>1, <3>2, <4>1, <4>2 DEF Publish
      <4> QED BY <4>1, <4>3 DEF NoSignal
    <3>3. CASE p = Main
      <4>1. req[p].seq = main /\ main \in {"initialize", "install", "boot"}
        BY <1>m, <1>1, <3>3 DEF Requested, Request
      <4>2. main = "install" /\ main' = main
        BY <1>3, <3>1, <4>1 DEF Publish
      <4>3. pc'[p] = "unlock"
        BY <1>m, <2>1
      <4>4. MainEnding'
        BY <1>6, <2>1, <3>3, <4>2, <4>3 DEF MainEnding
      <4> QED BY <4>4 DEF Clean
    <3> QED BY <3>2, <3>3
  <2> QED BY <2>2, <2>3
<1>7. CASE err[p] = "none" /\ revoked
  BY <1>5, <1>7 DEF PhaseEnds
<1>8. CASE err[p] = "none" /\ ~revoked
  <2>1. SortedOut(req[p].seq, data[p], machine.container, ThePhases(p))
    BY <1>m, <1>1, TheList
  <2>2. PICK L \in Seq(Phased) : L = ThePhases(p)
    BY <2>1 DEF SortedOut
  <2>3. at[p] \in 1..Len(L) /\ at[p] # Len(L) /\ Simple(L) /\ Len(L) \in Nat /\ at[p] \in Nat
    <3>1. at[p] # Len(L)
      BY <1>1, <1>3, <1>8, <2>2, NotToTheEnd
    <3>2. at[p] \in 1..Len(L)
      BY <1>1, <2>2 DEF RunInv, InPhase, InPhaseOf
    <3> QED BY <1>3, <2>1, <2>2, <3>1, <3>2 DEF SortedOut
  <2>4. PICK j \in (at[p] + 1)..(Len(L) + 1) :
          /\ IsNextPhase(L, at[p] + 1, j) /\ at'[p] = j
          /\ todo'[p] = (IF j <= Len(L) THEN L[j].tasks ELSE {})
          /\ pc'[p] = (IF j <= Len(L) THEN "phase" ELSE "unlock")
          /\ pc' = [pc EXCEPT ![p] = IF j <= Len(L) THEN "phase" ELSE "unlock"]
    <3>1. BeginPhase(p, L, at[p] + 1) /\ at[p] + 1 \in Nat \ {0} /\ at[p] + 1 <= Len(L) + 1
      BY <1>8, <2>2, <2>3 DEF PhaseEnds
    <3> QED BY <1>m, <3>1, BeginPhaseTyped
  <2>5. j <= Len(L)
    <3>0. at[p] + 1 \in 1..Len(L)
      BY <2>3
    <3>1. ~Skipped(L[at[p] + 1])
      BY <2>3, <3>0 DEF Simple, Skipped
    <3> QED BY <2>3, <2>4, <3>0, <3>1 DEF IsNextPhase
  <2>6. pc'[p] = "phase" /\ todo'[p] = L[j].tasks /\ j \in 1..Len(L) /\ j > at[p]
    BY <2>3, <2>4, <2>5
  <2>7. ThePhases(p)' = L /\ Changers(data[p])' = Changers(data[p])
    BY <1>m, <1>1, <2>2, SameList DEF Changers
  <2>8. \A i \in 1..Len(L) : i > at[p] => L[i].tasks \intersect Changers(data[p]) = {}
    BY <1>3, <2>2 DEF Harmless
  <2>9. \A i \in 1..Len(L) : i > j => i > at[p]
    BY <2>3, <2>6
  <2>10. Harmless(p)'
    BY <2>4, <2>6, <2>7, <2>8, <2>9 DEF Harmless
  <2>11. HolderGoesDown(p)'
    BY <1>1, <1>3, <2>6, <2>10 DEF HolderGoesDown
  <2>12. \A q \in Procs : q # p => pc'[q] = pc[q]
    BY <1>m, <2>4
  <2> QED BY <1>4, <2>6, <2>11, <2>12
<1> QED BY <1>6, <1>7, <1>8

LEMMA OnItsWayStep ==
  ASSUME CoreInv, RunInv', OneWaits, OneWaits', CanceledForIt, OnItsWay, Next, Clean'
  PROVE  OnItsWay'
<1>m. /\ RunInv /\ BehindDone /\ Typed /\ Requested /\ OneHolder /\ machine' = machine /\ Main \in Procs
      /\ pc \in [Procs -> {"idle", "lock", "await", "phase", "unlock", "returned"}]
      /\ err \in [Procs -> Errors] /\ req \in [Procs -> AnyRequest] /\ DOMAIN data = Procs
      /\ at \in [Procs -> Nat] /\ todo \in [Procs -> SUBSET AllTasks] /\ holder \subseteq Procs
  BY MachineTypedStep, SequencerAssumption DEF CoreInv, RunInv, Typed, TypeOK
<1>c. ~TakeOverFailed' /\ ~TakeOverFailed
  BY <1>m, CleanStep DEF Clean
<1>h. ASSUME NEW q, HolderGoesDown(q), UNCHANGED <<pc[q], req[q], data[q], at[q]>>, todo'[q] \subseteq todo[q],
             revoked => revoked'
      PROVE  HolderGoesDown(q)'
  <2>1. ThePhases(q)' = ThePhases(q) /\ Changers(data[q])' = Changers(data[q])
    BY <1>m, <1>h, SameList DEF Changers
  <2>2. Harmless(q) => Harmless(q)'
    BY <1>h, <2>1 DEF Harmless
  <2> QED BY <1>h, <2>2 DEF HolderGoesDown
<1>g. ASSUME UNCHANGED lockState, \A q \in holder : UNCHANGED <<pc[q], req[q], data[q], at[q]>> /\ todo'[q] \subseteq todo[q],
             \A q \in Procs : (pc'[q] = "await" <=> pc[q] = "await") /\ (pc[q] = "await" => req'[q] = req[q])
      PROVE  OnItsWay'
  <2>1. \A q \in holder : HolderGoesDown(q)'
    BY <1>g, <1>h DEF OnItsWay, lockState
  <2>2. Contended => Contended'
    BY <1>g DEF Contended
  <2> QED BY <1>g, <2>1, <2>2 DEF OnItsWay, Free, lockState
<1>2. CASE Quiet
  BY <1>g, <1>2 DEF Quiet
<1>3. ASSUME NEW p \in Procs, NEW s, NEW t, NEW in, Call(p, s, t, in) PROVE OnItsWay'
  <2>1. /\ pc[p] = "idle" /\ pc' = [pc EXCEPT ![p] = "lock"] /\ UNCHANGED <<lockState, at, todo, err>>
        /\ req' = [req EXCEPT ![p] = Request(s, t)] /\ data' = [data EXCEPT ![p] = in]
    BY <1>3 DEF Call, Goto
  <2>2. p \notin holder
    BY <1>m, <2>1 DEF OneHolder
  <2>3. \A q \in Procs : q # p => UNCHANGED <<pc[q], req[q], data[q], at[q], todo[q]>>
    BY <1>m, <2>1
  <2>4. \A q \in holder : UNCHANGED <<pc[q], req[q], data[q], at[q]>> /\ todo'[q] \subseteq todo[q]
    BY <1>m, <2>2, <2>3
  <2>5. \A q \in Procs : (pc'[q] = "await" <=> pc[q] = "await") /\ (pc[q] = "await" => req'[q] = req[q])
    BY <1>m, <2>1, <2>3
  <2> QED BY <1>g, <2>1, <2>4, <2>5
<1>4. ASSUME NEW p \in Callers, NEW r \in machine.asks[p], Ask(p, r) PROVE OnItsWay'
  BY <1>3, <1>4, CallSteps DEF Callers
<1>5. CASE MainCalls
  BY <1>3, <1>5, <1>m, CallSteps
<1>6. ASSUME NEW p \in Procs, UNCHANGED <<lockState, req, data, at, todo>>, pc[p] \notin {"phase", "unlock", "await"},
             NEW x, x # "await", pc' = [pc EXCEPT ![p] = x]
      PROVE  OnItsWay'
  <2>1. p \notin holder
    BY <1>m, <1>6 DEF OneHolder
  <2>2. \A q \in holder : UNCHANGED <<pc[q], req[q], data[q], at[q]>> /\ todo'[q] \subseteq todo[q]
    BY <1>m, <1>6, <2>1
  <2>3. \A q \in Procs : (pc'[q] = "await" <=> pc[q] = "await") /\ (pc[q] = "await" => req'[q] = req[q])
    BY <1>m, <1>6
  <2> QED BY <1>g, <1>6, <2>2, <2>3
<1>7. CASE MainGoesOn
  BY <1>6, <1>7, <1>m DEF MainGoesOn, Goto
<1>8. ASSUME NEW p \in Procs, LockRefused(p) PROVE OnItsWay'
  BY <1>6, <1>8 DEF LockRefused, Return, Goto
<1>9. ASSUME NEW p \in Procs PROVE ~LockTimeout(p)
  <2>1. ASSUME LockTimeout(p) PROVE err'[p] = "timeout"
    BY <1>m, <2>1 DEF LockTimeout, Return
  <2> QED BY <1>c, <2>1 DEF TakeOverFailed
<1>10. ASSUME NEW p \in Procs, LockTakesOver(p) PROVE OnItsWay'
  <2>1. /\ pc[p] = "lock" /\ pc' = [pc EXCEPT ![p] = "await"] /\ UNCHANGED <<req, data, at, todo>>
        /\ ~Free /\ revoked' = TRUE /\ UNCHANGED <<holder, held>>
    BY <1>10 DEF LockTakesOver, Goto, Revoke
  <2>2. PICK h \in holder : held = req[h]
    BY <1>m, <2>1 DEF Free, OneHolder
  <2>3. held.seq \notin {"initialize", "boot", Noop}
    <3>1. held.seq \in Sequences
      BY <1>m, <2>2, TheList DEF OneHolder
    <3> QED BY <2>2, <3>1 DEF OnItsWay, HolderGoesDown, Sequences, Noop
  <2>4. \A q \in Procs : pc'[q] = "await" => req'[q].seq \in {"reboot", "shutdown"}
    BY <2>1, <2>3 DEF OneWaits
  <2>5. \A q \in holder : HolderGoesDown(q)'
    <3>1. p \notin holder
      BY <1>m, <2>1 DEF OneHolder
    <3>2. \A q \in holder : UNCHANGED <<pc[q], req[q], data[q], at[q]>> /\ todo'[q] \subseteq todo[q]
      BY <1>m, <2>1, <3>1
    <3> QED BY <1>h, <2>1, <3>2 DEF OnItsWay
  <2> QED BY <2>1, <2>4, <2>5 DEF OnItsWay, Free
<1>11. ASSUME NEW p \in Procs, LockGranted(p) PROVE OnItsWay'
  BY <1>11, <1>m, GrantedOnItsWay
<1>12. ASSUME NEW p \in Procs, PhaseEnds(p) PROVE OnItsWay'
  BY <1>12, <1>m, PhaseEndsOnItsWay
<1>13. ASSUME NEW p \in Procs, Unlock(p) PROVE OnItsWay'
  <2>1. /\ pc[p] = "unlock" /\ pc' = [pc EXCEPT ![p] = "returned"] /\ holder' = {} /\ req' = req
    BY <1>13 DEF Unlock, Goto, Release
  <2>2. revoked
    BY <1>m, <2>1 DEF OneHolder, OnItsWay, HolderGoesDown
  <2>3. Contended
    BY <1>c, <2>2 DEF OneWaits
  <2>4. \A q \in Procs : pc'[q] = "await" <=> pc[q] = "await"
    BY <1>m, <2>1
  <2>5. Contended'
    BY <2>3, <2>4 DEF Contended
  <2> QED BY <2>1, <2>4, <2>5 DEF OnItsWay
<1>14. ASSUME NEW p \in Procs, NEW task, NEW e, TaskReturns(p, task, e) PROVE OnItsWay'
  <2>1. UNCHANGED <<lockState, pc, req, data, at>> /\ todo' = [todo EXCEPT ![p] = @ \ {task}]
    BY <1>14 DEF TaskReturns
  <2>2. \A q \in holder : todo'[q] \subseteq todo[q]
    BY <1>m, <2>1
  <2> QED BY <1>g, <2>1, <2>2
<1> QED BY <1>m, <1>2, <1>4, <1>5, <1>7, <1>8, <1>9, <1>10, <1>11, <1>12, <1>13, <1>14, RunCases

LEMMA KexecLoadedStep ==
  ASSUME KexecInv, RunInv', OneWaits', Next
  PROVE  KexecLoaded'
<1> SUFFICES ASSUME kexec' # "none", Clean' PROVE kexec' = kernel' /\ OnItsWay'
  BY DEF KexecLoaded
<1>m. /\ CoreInv /\ RunInv /\ OneWaits /\ CanceledForIt /\ KexecLoaded /\ Typed /\ Requested /\ OneHolder
      /\ machine' = machine /\ Main \in Procs /\ holder \subseteq Procs
  BY MachineTypedStep, SequencerAssumption DEF KexecInv, CoreInv, RunInv, Typed, TypeOK
<1>c. Clean
  BY <1>m, CleanStep
<1>1. CASE kexec' # kexec
  <2>1. PICK p \in Procs : TaskReturns(p, "KexecPrepare", "none") /\ kexec' = kernel /\ kernel' = kernel
    BY <1>m, <1>1, KexecChanges
  <2>2. pc[p] = "phase" /\ UNCHANGED <<lockState, pc, req>>
    BY <2>1 DEF TaskReturns, Running
  <2>3. holder = {p} /\ held = req[p] /\ holder' = {p}
    BY <1>m, <2>2 DEF OneHolder, lockState
  <2>4. Harmless(p)' /\ req[p].seq \notin {"initialize", "boot"}
    BY <1>m, <2>1, PreparedHarmless
  <2>5. HolderGoesDown(p)'
    BY <2>2, <2>4 DEF HolderGoesDown
  <2>6. held.seq \notin {"initialize", "boot", Noop}
    <3>1. req[p].seq \in Sequences
      BY <1>m, <2>2, TheList
    <3> QED BY <2>3, <2>4, <3>1 DEF Sequences, Noop
  <2>7. \A q \in Procs : pc'[q] = "await" => req'[q].seq \in {"reboot", "shutdown"}
    BY <1>m, <2>2, <2>6 DEF OneWaits
  <2> QED BY <2>1, <2>3, <2>5, <2>7 DEF OnItsWay, Free
<1>2. CASE kexec' = kexec
  <2>1. kexec = kernel /\ OnItsWay
    BY <1>c, <1>m, <1>2 DEF KexecLoaded
  <2>2. OnItsWay'
    BY <1>m, <2>1, OnItsWayStep
  <2>3. kernel' = kernel
    <3> SUFFICES ASSUME kernel' # kernel PROVE FALSE
      OBVIOUS
    <3>1. ASSUME NEW p \in Callers, NEW r \in machine.asks[p], Ask(p, r), r.in.type = "ResetRequest" PROVE FALSE
      <4>1. main = "initialize" /\ "LoadConfig" \in todo[Main]
        BY <3>1 DEF Ask, Maintenance, InMaintenance
      <4>2. pc[Main] = "phase"
        BY <1>m, <4>1 DEF RunInv, InPhase, InPhaseOf
      <4>3. Main \in holder /\ req[Main].seq = "initialize"
        BY <1>m, <4>1, <4>2 DEF OneHolder, Requested, Request
      <4> QED BY <2>1, <4>3 DEF OnItsWay, HolderGoesDown
    <3>2. ASSUME NEW p \in Procs, NEW x \in Changers(data[p]), Running(p, x) PROVE FALSE
      <4>1. pc[p] = "phase" /\ x \in todo[p] /\ p \in holder
        BY <1>m, <3>2 DEF Running, OneHolder
      <4>2. Harmless(p)
        BY <2>1, <4>1 DEF OnItsWay, HolderGoesDown
      <4> QED BY <4>1, <4>2 DEF Harmless
    <3> QED BY <1>m, <3>1, <3>2, KernelChanges
  <2> QED BY <1>2, <2>1, <2>2, <2>3
<1> QED BY <1>1, <1>2

LEMMA KexecInvInit == Init => KexecInv
<1> SUFFICES ASSUME Init PROVE KexecInv
  OBVIOUS
<1>1. CoreInv
  BY CoreInvInit
<1>2. OneWaits /\ CanceledForIt
  BY DEF Init, LockInit, OneWaits, CanceledForIt
<1>3. KexecLoaded
  BY DEF Init, KexecLoaded
<1> QED BY <1>1, <1>2, <1>3 DEF KexecInv

LEMMA KexecInvStep == KexecInv /\ [Next]_vars => KexecInv'
<1> SUFFICES ASSUME KexecInv, [Next]_vars PROVE KexecInv'
  OBVIOUS
<1>0. CoreInv /\ RunInv /\ OneWaits /\ CanceledForIt /\ KexecLoaded
  BY DEF KexecInv, CoreInv
<1>1. CoreInv' /\ RunInv'
  BY <1>0, CoreInvStep DEF CoreInv
<1>2. CASE Next
  <2>1. OneWaits' /\ CanceledForIt'
    BY <1>0, <1>2, OneWaitsStep, CanceledForItStep
  <2> QED BY <1>1, <1>2, <2>1, KexecLoadedStep DEF KexecInv
<1>3. CASE UNCHANGED vars
  <2> USE <1>3 DEF vars, runVars, mainVars, machineVars, volumeVars, diskVars, lockState
  <2>1. TakeOverFailed' <=> TakeOverFailed
    BY DEF TakeOverFailed
  <2>2. Contended' <=> Contended
    BY DEF Contended
  <2>3. OneWaits' /\ CanceledForIt'
    BY <1>0, <2>1, <2>2 DEF OneWaits, CanceledForIt
  <2>4. Clean' <=> Clean
    BY <2>1 DEF Clean, MainEnding, NoSignal
  <2>5. OnItsWay => OnItsWay'
    <3>1. \A p : Harmless(p) => Harmless(p)'
      BY DEF Harmless, ThePhases, Changers
    <3>2. \A p : HolderGoesDown(p) => HolderGoesDown(p)'
      BY <3>1 DEF HolderGoesDown
    <3> QED BY <2>2, <3>2 DEF OnItsWay, Free
  <2>6. KexecLoaded'
    BY <1>0, <2>4, <2>5 DEF KexecLoaded
  <2> QED BY <1>1, <2>3, <2>6 DEF KexecInv
<1> QED BY <1>2, <1>3

LEMMA KexecInvariant == Spec => []KexecInv
<1> QED BY KexecInvInit, KexecInvStep, PTL DEF Spec

(* A RestartEvent that asks for kexec finds loaded the kernel that the disk *)
(* has, whichever sequence has taken over whichever: unless an event was    *)
(* missed or is on its way already, or a takeover was for nothing.          *)
THEOREM RestartsInTheKernel == Spec => KexecFresh
<1> DEFINE Fresh == (signal = NoSignal /\ ~missed' /\ ~TakeOverFailed) =>
                      \A p \in Procs : (err'[p] = "kexec" /\ err[p] # "kexec") => kexec = kernel
<1>1. ASSUME KexecInv, [Next]_vars PROVE [Fresh]_vars
  <2> SUFFICES ASSUME Next, signal = NoSignal, ~missed', ~TakeOverFailed, NEW p \in Procs,
                      err'[p] = "kexec", err[p] # "kexec"
               PROVE  kexec = kernel
    BY <1>1
  <2>m. RunInv /\ KexecLoaded /\ Main \in Procs /\ Typed /\ Requested
    BY <1>1, SequencerAssumption DEF KexecInv, CoreInv, RunInv
  <2>1. err[p] = "none"
    BY <2>m, ErrKept
  <2>2. TaskStep(p) /\ pc[p] = "phase"
    BY <2>m, <2>1, CommandStep DEF RebootCmds
  <2>3. ResetSystemDiskPartitions(p) \/ RestartTask(p)
    <3>1. PICK x \in RestartTasks \union {"ResetSystemDiskPartitions"} : Took(p, x)
      BY <2>m, <2>1, <2>2, CommandReturned DEF RebootCmds
    <3> QED BY <2>m, <2>2, <3>1, TaskNamed
  <2>4. \E cmd \in {RebootCmd, "powerOff"} : \E t : TaskReturns(p, t, cmd) /\ Publish(p, cmd)
    <3>1. CASE RestartTask(p)
      BY <3>1 DEF RestartTask
    <3>2. CASE ResetSystemDiskPartitions(p)
      <4>1. PICK e \in AnyEnd(p) :
              /\ TaskReturns(p, "ResetSystemDiskPartitions", IF e = "none" THEN RebootCmd ELSE e)
              /\ e = "none" => Publish(p, RebootCmd)
        BY <3>2 DEF ResetSystemDiskPartitions
      <4>2. err'[p] = "none" \/ err'[p] = IF e = "none" THEN RebootCmd ELSE e
        BY <2>1, <2>m, <4>1, ReturnsOne
      <4>3. e = "none"
        BY <4>2, Ends
      <4> QED BY <4>1, <4>3
    <3> QED BY <2>3, <3>1, <3>2
  <2>5. PICK cmd \in {RebootCmd, "powerOff"} : \E t : TaskReturns(p, t, cmd) /\ Publish(p, cmd)
    BY <2>4
  <2>6. cmd = "kexec"
    BY <2>1, <2>m, <2>5, ReturnsOne
  <2>7. kexec # "none"
    BY <2>5, <2>6 DEF RebootCmd
  <2>8. ~missed
    BY <2>m, SignalKept
  <2>9. ~MainEnding
    <3>1. CASE p = Main
      BY <2>2, <3>1 DEF MainEnding
    <3>2. CASE p # Main
      BY <2>5, <3>2 DEF Publish, MainEnding
    <3> QED BY <3>1, <3>2
  <2>10. Clean
    BY <2>8, <2>9 DEF Clean
  <2> QED BY <2>m, <2>7, <2>10 DEF KexecLoaded
<1>2. KexecInv /\ [Next]_vars => [Fresh]_vars
  BY <1>1
<1>3. Spec => [][Fresh]_vars
  <2> HIDE DEF Fresh
  <2> QED BY <1>2, KexecInvariant, PTL DEF Spec
<1> QED BY <1>3 DEF KexecFresh

=============================================================================
