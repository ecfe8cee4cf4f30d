------------------------------- MODULE Mounts -------------------------------
(***************************************************************************)
(* Volumes, their mounts and the services that use them: the protocol of   *)
(* resources and finalizers between ServiceRunner (volumes.go), the        *)
(* MountRequest, Mount and MountStatus controllers and the volume manager. *)
(*                                                                         *)
(* Each controller runs passes: it lists resources, and then acts, one     *)
(* resource after the other, on what it has listed, while the others act   *)
(* too: a job is what a pass has found out about a volume when it listed   *)
(* it, and a volume for which a pass would do nothing has none.  The       *)
(* resource store is external: every operation on a resource is one step;  *)
(* finalizers are added to running resources only, and a resource with     *)
(* finalizers is not destroyed.  All volumes have been provisioned.  META  *)
(* is not among them: no service asks for it, and the end of the lifecycle *)
(* does not wait for it to be closed.                                      *)
(***************************************************************************)
EXTENDS Naturals, Sequences

CONSTANTS
  Volumes,
  Parent,     \* the parent of each volume, NoVolume without
  NoVolume,
  Encrypted,  \* the volumes whose device is opened and closed
  Services,
  Wants,      \* the volumes of each service, in the order they are requested
  Removable,  \* the volumes whose configuration may be removed
  MaxRuns,    \* bound: runs of services
  MaxFails    \* bound: mounts, unmounts and closings that fail, cleanups that time out

ASSUME MountsAssumption ==
  /\ NoVolume \notin Volumes
  /\ Parent \in [Volumes -> Volumes \union {NoVolume}]
  /\ \A v \in Volumes : Parent[v] # v
  /\ Wants \in [Services -> Seq(Volumes)] /\ \A s \in Services : Wants[s] # <<>>
  /\ Encrypted \subseteq Volumes /\ Removable \subseteq Volumes /\ MaxRuns \in Nat /\ MaxFails \in Nat

(* A VolumeMountRequest and its VolumeMountStatus have the same name. *)
Requests == Services \X Volumes

VARIABLES
  svc,        \* where each service is in Run, and with which of its volumes
  runs,       \* runs begun
  gaveUp,     \* the services whose cleanup has timed out
  request,    \* the VolumeMountRequests
  lifecycle,  \* the VolumeLifecycle resource
  removed,    \* the volumes whose configuration is torn down
  vol,        \* the phase of each VolumeStatus
  mreq,       \* the phase of each MountRequest
  reqBy,      \* its requesters
  mstat,      \* the phase of each MountStatus
  statBy,     \* its requesters
  vms,        \* the phase of each VolumeMountStatus
  fin,        \* finalizers
  mounted,    \* the volumes that are mounted
  closed,     \* the volumes whose device has been closed
  rc, mc, sc, vc,   \* the passes of the four controllers
  fails

svcVars == <<svc, runs, gaveUp, request>>
lifeVars == <<lifecycle, removed>>
reqVars == <<mreq, reqBy>>
statVars == <<mstat, statBy>>
passes == <<rc, mc, sc, vc>>
vars == <<svcVars, lifeVars, vol, reqVars, statVars, vms, fin, mounted, closed, passes, fails>>

-----------------------------------------------------------------------------
Life == {"none", "running", "tearing"}

(* A controller between two passes; at "scan", the next job is taken up.   *)
NoJob == [v |-> NoVolume]
Idle == [at |-> "scan", job |-> NoJob, todo |-> {}]

(* The finalizers: fin.vol, of MountController on VolumeStatus; fin.parent, *)
(* of MountController for a child on the parent's MountStatus; fin.req, of  *)
(* MountController on MountRequest; fin.stat, of MountStatusController on   *)
(* MountStatus; fin.child, of the volume manager for a child on the         *)
(* parent's VolumeStatus; fin.svc, of the service on VolumeMountStatus.     *)
TypeOK ==
  /\ svc \in [Services -> [at : {"idle", "create", "watch", "hold", "running", "unhold", "destroy",
                                 "await"}, i : Nat]]
  /\ \A s \in Services : svc[s].i \in 0..Len(Wants[s])
  /\ runs \in 0..MaxRuns /\ gaveUp \subseteq Services
  /\ request \subseteq Requests
  /\ lifecycle \in {"running", "held", "tearing", "released"} /\ removed \subseteq Removable
  /\ vol \in [Volumes -> Life]
  /\ mreq \in [Volumes -> Life] /\ reqBy \in [Volumes -> SUBSET Services]
  /\ mstat \in [Volumes -> Life] /\ statBy \in [Volumes -> SUBSET Services]
  /\ vms \in [Requests -> Life]
  /\ fin \in [vol : SUBSET Volumes, parent : SUBSET Volumes, req : SUBSET Volumes,
              stat : SUBSET Volumes, child : SUBSET Volumes, svc : SUBSET Requests]
  /\ mounted \subseteq Volumes /\ closed \subseteq Volumes
  /\ mc.at \in {"scan", "unmount", "free", "hold", "mount", "report"}
  /\ sc.at \in {"scan", "explode", "prune"}
  /\ vc.at \in {"scan", "close", "destroy", "end"}
  /\ fails \in 0..MaxFails

Init ==
  /\ svc = [s \in Services |-> [at |-> "idle", i |-> 0]]
  /\ runs = 0 /\ gaveUp = {}
  /\ request = {}
  /\ lifecycle = "running" /\ removed = {}
  /\ vol = [v \in Volumes |-> "running"]
  /\ mreq = [v \in Volumes |-> "none"] /\ reqBy = [v \in Volumes |-> {}]
  /\ mstat = [v \in Volumes |-> "none"] /\ statBy = [v \in Volumes |-> {}]
  /\ vms = [r \in Requests |-> "none"]
  /\ fin = [vol |-> {}, parent |-> {}, req |-> {}, stat |-> {},
            child |-> {v \in Volumes : Parent[v] # NoVolume}, svc |-> {}]
  /\ mounted = {} /\ closed = {}
  /\ rc = [clean |-> {}, write |-> {}] /\ mc = Idle /\ sc = Idle
  /\ vc = [at |-> "scan", job |-> NoJob, todo |-> {}, open |-> FALSE]
  /\ fails = 0

HasParent(v) == Parent[v] # NoVolume
Children(v) == {c \in Volumes : Parent[c] = v}

(* The resources that may not be destroyed yet. *)
VolumeInUse(v) == v \in fin.vol \/ Children(v) \intersect fin.child # {}
MountStatusInUse(v) == v \in fin.stat \/ Children(v) \intersect fin.parent # {}

(* Teardown, and Destroy if there are no finalizers. *)
TornDown(inUse) == IF inUse THEN "tearing" ELSE "none"

-----------------------------------------------------------------------------
(* Services *)

Req(s) == <<s, Wants[s][svc[s].i]>>

SvcStep(s, from, at, i) ==
  /\ svc[s].at \in from
  /\ svc' = [svc EXCEPT ![s] = [at |-> at, i |-> i]]

RestUnchanged == UNCHANGED <<lifeVars, vol, reqVars, statVars, mounted, closed, passes, fails>>

(* Run, which defers the cleanup and waits for the volumes. *)
SvcStarts(s) ==
  /\ runs < MaxRuns /\ runs' = runs + 1
  /\ SvcStep(s, {"idle"}, "create", 1)
  /\ gaveUp' = gaveUp \ {s}
  /\ UNCHANGED <<request, vms, fin>> /\ RestUnchanged

SvcCreates(s) ==
  /\ SvcStep(s, {"create"}, "watch", svc[s].i)
  /\ request' = request \union {Req(s)}
  /\ UNCHANGED <<runs, gaveUp, vms, fin>> /\ RestUnchanged

SvcSees(s) ==
  /\ svc[s].at = "watch" => vms[Req(s)] = "running"
  /\ SvcStep(s, {"watch"}, "hold", svc[s].i)
  /\ UNCHANGED <<runs, gaveUp, request, vms, fin>> /\ RestUnchanged

(* AddFinalizer, or an error when the status is on its way out. *)
SvcHolds(s) ==
  /\ \/ /\ svc[s].at = "hold" /\ vms[Req(s)] = "running"
        /\ IF svc[s].i = Len(Wants[s]) THEN SvcStep(s, {"hold"}, "running", 0)
           ELSE SvcStep(s, {"hold"}, "create", svc[s].i + 1)
        /\ fin' = [fin EXCEPT !.svc = @ \union {Req(s)}]
     \/ /\ svc[s].at = "hold" /\ vms[Req(s)] # "running"
        /\ SvcStep(s, {"hold"}, "unhold", 0)
        /\ UNCHANGED fin
  /\ UNCHANGED <<runs, gaveUp, request, vms>> /\ RestUnchanged

(* The service ends, or is stopped while it waits. *)
SvcEnds(s) ==
  /\ SvcStep(s, {"create", "watch", "hold", "running"}, "unhold", 0)
  /\ UNCHANGED <<runs, gaveUp, request, vms, fin>> /\ RestUnchanged

(* deleteVolumeMountRequest: the finalizers, the requests in reverse       *)
(* order, which is over at the first that was never created, and the wait  *)
(* for the statuses, for one after the other.                              *)
SvcUnholds(s) ==
  /\ SvcStep(s, {"unhold"}, "destroy", Len(Wants[s]))
  /\ fin' = [fin EXCEPT !.svc = {r \in @ : r[1] # s}]
  /\ UNCHANGED <<runs, gaveUp, request, vms>> /\ RestUnchanged

SvcDestroys(s) ==
  /\ svc[s].at = "destroy"
  /\ \/ /\ Req(s) \in request
        /\ request' = request \ {Req(s)}
        /\ IF svc[s].i = 1 THEN SvcStep(s, {"destroy"}, "await", Len(Wants[s]))
           ELSE SvcStep(s, {"destroy"}, "destroy", svc[s].i - 1)
     \/ /\ Req(s) \notin request
        /\ SvcStep(s, {"destroy"}, "idle", 0)
        /\ UNCHANGED request
  /\ UNCHANGED <<runs, gaveUp, vms, fin>> /\ RestUnchanged

SvcAwaits(s) ==
  /\ svc[s].at = "await" /\ vms[Req(s)] = "none"
  /\ IF svc[s].i = 1 THEN SvcStep(s, {"await"}, "idle", 0)
     ELSE SvcStep(s, {"await"}, "await", svc[s].i - 1)
  /\ UNCHANGED <<runs, gaveUp, request, vms, fin>> /\ RestUnchanged

(* The ten seconds of the cleanup are over. *)
SvcTimesOut(s) ==
  /\ fails < MaxFails /\ fails' = fails + 1
  /\ SvcStep(s, {"await"}, "idle", 0)
  /\ gaveUp' = gaveUp \union {s}
  /\ UNCHANGED <<runs, request, vms, fin>>
  /\ UNCHANGED <<lifeVars, vol, reqVars, statVars, mounted, closed, passes>>

-----------------------------------------------------------------------------
(* MountRequestController *)

Desired(v) == IF vol[v] = "running" THEN {s \in Services : <<s, v>> \in request} ELSE {}

RequestUnchanged ==
  UNCHANGED <<svcVars, lifeVars, vol, statVars, vms, fin, mounted, closed, mc, sc, vc, fails>>

(* The requests that nobody wants or that are on their way out, and those  *)
(* to be created or updated.                                               *)
RequestsRead ==
  LET clean == {v \in Volumes : \/ mreq[v] = "tearing" /\ v \notin fin.req
                                \/ mreq[v] = "running" /\ Desired(v) = {}}
      write == {v \in Volumes : Desired(v) \notin {{}, reqBy[v]} /\ (mreq[v] = "tearing" => v \in clean)}
  IN
  /\ rc.clean \union rc.write = {} /\ clean \union write # {}
  /\ rc' = [clean |-> clean, write |-> {[v |-> v, by |-> Desired(v)] : v \in write}]
  /\ RequestUnchanged /\ UNCHANGED reqVars

RequestCleaned(v) ==
  /\ v \in rc.clean
  /\ mreq' = [mreq EXCEPT ![v] = TornDown(v \in fin.req)]
  /\ reqBy' = IF v \in fin.req THEN reqBy ELSE [reqBy EXCEPT ![v] = {}]
  /\ rc' = [rc EXCEPT !.clean = @ \ {v}]
  /\ RequestUnchanged

RequestWritten ==
  /\ rc.clean = {}
  /\ \E job \in rc.write :
       /\ mreq' = [mreq EXCEPT ![job.v] = "running"]
       /\ reqBy' = [reqBy EXCEPT ![job.v] = job.by]
       /\ rc' = [rc EXCEPT !.write = @ \ {job}]
  /\ RequestUnchanged

-----------------------------------------------------------------------------
(* MountController *)

(* The two conditions of Run. *)
ShouldTearDown(v) ==
  \/ vol[v] # "running" \/ mreq[v] = "tearing" \/ mstat[v] = "tearing"
  \/ HasParent(v) /\ mstat[Parent[v]] = "tearing"

ShouldMount(v) ==
  vol[v] = "running" /\ mreq[v] = "running" /\ (HasParent(v) => mstat[Parent[v]] = "running")

(* The mount of v is what its request says. *)
Settled(v) ==
  /\ v \in fin.req \intersect fin.vol \intersect mounted /\ (HasParent(v) => v \in fin.parent)
  /\ mstat[v] = "running" /\ statBy[v] = reqBy[v]

MountWork(v) ==
  /\ mreq[v] # "none"
  /\ IF ShouldTearDown(v) THEN ~(mstat[v] = "tearing" /\ MountStatusInUse(v))
     ELSE ShouldMount(v) /\ ~Settled(v)

(* MountController's finalizers in the order they are removed, which is    *)
(* the reverse of the order they are added in.                             *)
Kinds == {"vol", "parent", "req"}
Rank == [vol |-> 1, parent |-> 2, req |-> 3]

(* What is listed of a volume, the finalizers to be removed and those that *)
(* are missing among it.                                                   *)
MountJob(v) ==
  [v |-> v, down |-> ShouldTearDown(v), up |-> ShouldMount(v), there |-> vol[v] # "none",
   by |-> reqBy[v],
   free |-> {k \in Kinds : ShouldTearDown(v) /\ v \in fin[k]},
   hold |-> {k \in Kinds : ShouldMount(v) /\ v \notin fin[k] /\ (k = "parent" => HasParent(v))}]

MountUnchanged == UNCHANGED <<svcVars, lifeVars, vol, reqVars, vms, closed, rc, sc, vc>>

MountsRead ==
  /\ mc = Idle
  /\ \E v \in Volumes : MountWork(v)
  /\ mc' = [Idle EXCEPT !.todo = {MountJob(v) : v \in {w \in Volumes : MountWork(w)}}]
  /\ UNCHANGED <<statVars, fin, mounted, fails>> /\ MountUnchanged

MountAt(at) == mc' = [mc EXCEPT !.at = at]
MountJobEnds == mc' = [mc EXCEPT !.at = "scan", !.job = NoJob]

(* Run returns an error, and is run again. *)
MountPassFails == mc' = Idle

(* The job goes on with the mount, which is tested after the first branch, *)
(* too.                                                                    *)
GoesUp(job) == IF job.up THEN MountAt("hold") ELSE MountJobEnds

(* tearDownMountStatus. *)
TearDownMountStatus(job) ==
  /\ mc.at = "scan" /\ job \in mc.todo /\ job.down
  /\ LET used == mstat[job.v] # "none" /\ MountStatusInUse(job.v) IN
     /\ mstat' = [mstat EXCEPT ![job.v] = TornDown(used)]
     /\ statBy' = IF used THEN statBy ELSE [statBy EXCEPT ![job.v] = {}]
     /\ mc' = IF used THEN [mc EXCEPT !.todo = @ \ {job}]
              ELSE [at |-> "unmount", job |-> job, todo |-> mc.todo \ {job}]
  /\ UNCHANGED <<fin, mounted, fails>> /\ MountUnchanged

(* Mutant: the finalizers are removed though the unmount has failed. *)
UnmountsOrNot ==
  /\ mc.at = "unmount"
  /\ \/ mounted' = (IF mc.job.there THEN mounted \ {mc.job.v} ELSE mounted) /\ UNCHANGED fails
     \/ fails < MaxFails /\ fails' = fails + 1 /\ UNCHANGED mounted
  /\ IF mc.job.free # {} THEN MountAt("free") ELSE GoesUp(mc.job)
  /\ UNCHANGED <<statVars, fin>> /\ MountUnchanged

(* handleUnmountOperation; without a VolumeStatus nothing is unmounted. *)
Unmounts ==
  /\ mc.at = "unmount"
  /\ \/ /\ mounted' = IF mc.job.there THEN mounted \ {mc.job.v} ELSE mounted
        /\ IF mc.job.free # {} THEN MountAt("free") ELSE GoesUp(mc.job)
        /\ UNCHANGED fails
     \/ /\ mc.job.there /\ mc.job.v \in mounted /\ fails < MaxFails
        /\ fails' = fails + 1
        /\ MountPassFails
        /\ UNCHANGED mounted
  /\ UNCHANGED <<statVars, fin>> /\ MountUnchanged

(* RemoveFinalizer, those that were listed. *)
Frees ==
  /\ mc.at = "free"
  /\ \E k \in mc.job.free :
       /\ \A l \in mc.job.free : Rank[k] <= Rank[l]
       /\ fin' = [fin EXCEPT ![k] = @ \ {mc.job.v}]
       /\ IF mc.job.free # {k} THEN mc' = [mc EXCEPT !.job.free = @ \ {k}] ELSE GoesUp(mc.job)
  /\ UNCHANGED <<statVars, mounted, fails>> /\ MountUnchanged

BeginMount(job) ==
  /\ mc.at = "scan" /\ job \in mc.todo /\ ~job.down
  /\ mc' = [at |-> "hold", job |-> job, todo |-> mc.todo \ {job}]
  /\ UNCHANGED <<statVars, fin, mounted, fails>> /\ MountUnchanged

(* The phase of what a finalizer of v is added to. *)
HeldPhase(v, k) ==
  CASE k = "req" -> mreq[v] [] k = "parent" -> mstat[Parent[v]] [] OTHER -> vol[v]

NextToHold(k) == \A l \in mc.job.hold : Rank[k] >= Rank[l]

(* Mutant: the parent is mounted, but nothing keeps it so. *)
HoldsNoParent ==
  /\ mc.at = "hold"
  /\ \E k \in mc.job.hold :
       /\ NextToHold(k)
       /\ IF HeldPhase(mc.job.v, k) # "running" THEN MountPassFails /\ UNCHANGED fin
          ELSE /\ fin' = IF k = "parent" THEN fin ELSE [fin EXCEPT ![k] = @ \union {mc.job.v}]
               /\ mc' = [mc EXCEPT !.job.hold = @ \ {k}]
  /\ UNCHANGED <<statVars, mounted, fails>> /\ MountUnchanged

(* AddFinalizer, an error unless the resource is running. *)
Holds ==
  /\ mc.at = "hold"
  /\ \E k \in mc.job.hold :
       /\ NextToHold(k)
       /\ IF HeldPhase(mc.job.v, k) # "running" THEN MountPassFails /\ UNCHANGED fin
          ELSE /\ fin' = [fin EXCEPT ![k] = @ \union {mc.job.v}]
               /\ mc' = [mc EXCEPT !.job.hold = @ \ {k}]
  /\ UNCHANGED <<statVars, mounted, fails>> /\ MountUnchanged

(* handleMountOperation: what is mounted stays so, though its attributes   *)
(* may fail to change; an encrypted device that has been closed cannot be  *)
(* mounted, and a directory may be mounted before the settings of what it  *)
(* is mounted on fail.                                                     *)
MountsVolume ==
  /\ mc.at = "hold" /\ mc.job.hold = {}
  /\ LET v == mc.job.v IN
     \/ /\ v \in mounted \/ v \notin Encrypted \intersect closed
        /\ mounted' = mounted \union {v}
        /\ MountAt("report")
        /\ UNCHANGED fails
     \/ /\ v \notin mounted /\ v \in Encrypted \intersect closed
        /\ MountPassFails /\ UNCHANGED <<mounted, fails>>
     \/ /\ fails < MaxFails /\ fails' = fails + 1
        /\ mounted' \in {mounted} \union {mounted \union {w} : w \in {v} \ Encrypted}
        /\ MountPassFails
  /\ UNCHANGED <<statVars, fin>> /\ MountUnchanged

ReportsMount ==
  /\ mc.at = "report"
  /\ IF mstat[mc.job.v] = "tearing" THEN MountPassFails /\ UNCHANGED statVars
     ELSE /\ mstat' = [mstat EXCEPT ![mc.job.v] = "running"]
          /\ statBy' = [statBy EXCEPT ![mc.job.v] = mc.job.by]
          /\ MountJobEnds
  /\ UNCHANGED <<fin, mounted, fails>> /\ MountUnchanged

-----------------------------------------------------------------------------
(* MountStatusController *)

Held(r) == r \in fin.svc

StatusUnchanged ==
  UNCHANGED <<svcVars, lifeVars, vol, reqVars, statVars, mounted, closed, rc, mc, vc, fails>>

(* A VolumeMountStatus that can be moved on its way out. *)
Droppable(r) == vms[r] = "running" \/ (vms[r] = "tearing" /\ ~Held(r))

StatusWork(v) ==
  \/ /\ mstat[v] = "running"
     /\ \/ v \notin fin.stat
        \/ \E s \in statBy[v] : vms[<<s, v>>] = "none"
        \/ \E s \in Services \ statBy[v] : Droppable(<<s, v>>)
  \/ /\ mstat[v] = "tearing"
     /\ \/ \E s \in Services : Droppable(<<s, v>>)
        \/ v \in fin.stat /\ \A s \in Services : vms[<<s, v>>] = "none"

StatusesRead ==
  /\ sc = Idle
  /\ \E v \in Volumes : StatusWork(v)
  /\ sc' = [Idle EXCEPT !.todo = {[v |-> v, phase |-> mstat[v], by |-> statBy[v], own |-> v \in fin.stat]
                                  : v \in {w \in Volumes : StatusWork(w)}}]
  /\ UNCHANGED <<vms, fin>> /\ StatusUnchanged

(* A running status: first its own finalizer. *)
StatusOwned(job) ==
  /\ sc.at = "scan" /\ job \in sc.todo /\ job.phase = "running"
  /\ IF job.own \/ mstat[job.v] = "running"
     THEN /\ fin' = [fin EXCEPT !.stat = @ \union {job.v}]
          /\ sc' = [at |-> "explode", job |-> job, todo |-> sc.todo \ {job}]
     ELSE sc' = Idle /\ UNCHANGED fin
  /\ UNCHANGED vms /\ StatusUnchanged

(* A VolumeMountStatus for each requester, up to one that is on its way    *)
(* out, which is an error.                                                 *)
StatusExploded ==
  /\ sc.at = "explode"
  /\ LET able == {s \in sc.job.by : vms[<<s, sc.job.v>>] # "tearing"} IN
     \E written \in IF able = sc.job.by THEN {able} ELSE SUBSET able :
       /\ vms' = [r \in Requests |-> IF r[2] = sc.job.v /\ r[1] \in written THEN "running" ELSE vms[r]]
       /\ sc' = IF able = sc.job.by THEN [sc EXCEPT !.at = "prune"] ELSE Idle
  /\ UNCHANGED fin /\ StatusUnchanged

(* VolumeMountStatuses are torn down, and destroyed if no service holds them. *)
Dropped(rs) ==
  [r \in Requests |-> IF r \in rs /\ vms[r] # "none" THEN TornDown(Held(r)) ELSE vms[r]]

StatusPruned ==
  /\ sc.at = "prune"
  /\ vms' = Dropped({<<s, sc.job.v>> : s \in Services \ sc.job.by})
  /\ sc' = [sc EXCEPT !.at = "scan", !.job = NoJob]
  /\ UNCHANGED fin /\ StatusUnchanged

(* Mutant: the finalizer is removed though a status is still held. *)
StatusTornDownEarly(job) ==
  /\ sc.at = "scan" /\ job \in sc.todo /\ job.phase = "tearing"
  /\ vms' = Dropped({<<s, job.v>> : s \in Services})
  /\ fin' = [fin EXCEPT !.stat = @ \ {job.v}]
  /\ sc' = [sc EXCEPT !.todo = @ \ {job}]
  /\ StatusUnchanged

(* A status on its way out: its own finalizer goes last. *)
StatusTornDown(job) ==
  /\ sc.at = "scan" /\ job \in sc.todo /\ job.phase = "tearing"
  /\ vms' = Dropped({<<s, job.v>> : s \in Services})
  /\ fin' = IF \A s \in Services : vms'[<<s, job.v>>] = "none"
            THEN [fin EXCEPT !.stat = @ \ {job.v}] ELSE fin
  /\ sc' = [sc EXCEPT !.todo = @ \ {job}]
  /\ StatusUnchanged

-----------------------------------------------------------------------------
(* VolumeManagerController, as far as it tears volumes down *)

VolumeUnchanged ==
  UNCHANGED <<svcVars, removed, reqVars, statVars, vms, mounted, rc, mc, sc>>

(* Why a volume is torn down. *)
VolumeTearing(v) ==
  /\ vol[v] # "none"
  /\ \/ vol[v] = "tearing" \/ v \in removed \/ lifecycle = "tearing"
     \/ HasParent(v) /\ vol[Parent[v]] = "tearing"

(* The parent was released for a destruction that failed. *)
LacksParent(v) == HasParent(v) /\ v \notin fin.child /\ vol[Parent[v]] = "running"

(* A job for each volume to be torn down; whether it is in use is listed   *)
(* here and not asked again.                                               *)
VolumesRead ==
  LET there == {v \in Volumes : vol[v] # "none"}
      work == {v \in there : VolumeTearing(v) /\ (vol[v] = "running" \/ ~VolumeInUse(v) \/ LacksParent(v))} IN
  /\ vc.at = "scan" /\ vc.todo = {} /\ lifecycle # "released"
  /\ work # {} \/ (lifecycle # "running" /\ there = {})
  /\ vc' = [at |-> IF work = {} THEN "end" ELSE "scan", job |-> NoJob,
            todo |-> {[v |-> v, free |-> ~VolumeInUse(v)] : v \in work},
            open |-> lifecycle = "running" \/ there # work]
  /\ UNCHANGED <<lifecycle, vol, fin, closed, fails>> /\ VolumeUnchanged

(* The pass goes on with the next job; the volume is closed, or it is not. *)
VolumeJobEnds(todo, open) ==
  vc' = [at |-> IF todo = {} THEN "end" ELSE "scan", job |-> NoJob, todo |-> todo, open |-> open]

(* Teardown; a volume that is not closed goes on holding its parent. *)
VolumeTornDown(job) ==
  /\ vc.at = "scan" /\ job \in vc.todo
  /\ vol' = [vol EXCEPT ![job.v] = "tearing"]
  /\ \/ /\ job.free
        /\ vc' = [vc EXCEPT !.at = "close", !.job = job, !.todo = @ \ {job}]
        /\ UNCHANGED fin
     \/ /\ ~job.free
        /\ fin' = IF LacksParent(job.v) THEN [fin EXCEPT !.child = @ \union {job.v}] ELSE fin
        /\ VolumeJobEnds(vc.todo \ {job}, TRUE)
  /\ UNCHANGED <<lifecycle, closed, fails>> /\ VolumeUnchanged

(* volumes.Close; an encrypted volume that is mounted fails to close.      *)
VolumeCloses ==
  /\ vc.at = "close"
  /\ \/ /\ vc.job.v \notin Encrypted \intersect mounted
        /\ closed' = closed \union {vc.job.v}
        /\ vc' = [vc EXCEPT !.at = "destroy"]
        /\ UNCHANGED fails
     \/ /\ vc.job.v \in Encrypted \intersect mounted
        /\ VolumeJobEnds(vc.todo, TRUE) /\ UNCHANGED <<closed, fails>>
     \/ /\ vc.job.v \in Encrypted /\ fails < MaxFails /\ fails' = fails + 1
        /\ VolumeJobEnds(vc.todo, TRUE) /\ UNCHANGED closed
  /\ UNCHANGED <<lifecycle, vol, fin>> /\ VolumeUnchanged

(* Mutant: the parent is not released. *)
VolumeDestroyedAlone ==
  /\ vc.at = "destroy"
  /\ IF VolumeInUse(vc.job.v)
     THEN vc' = [vc EXCEPT !.at = "scan", !.job = NoJob, !.todo = {}] /\ UNCHANGED vol
     ELSE vol' = [vol EXCEPT ![vc.job.v] = "none"] /\ VolumeJobEnds(vc.todo, vc.open)
  /\ UNCHANGED <<lifecycle, fin, closed, fails>> /\ VolumeUnchanged

(* The parent is released and the VolumeStatus destroyed, which fails if   *)
(* it is in use after all.                                                 *)
VolumeDestroyed ==
  /\ vc.at = "destroy"
  /\ fin' = [fin EXCEPT !.child = @ \ {vc.job.v}]
  /\ IF VolumeInUse(vc.job.v)
     THEN vc' = [vc EXCEPT !.at = "scan", !.job = NoJob, !.todo = {}] /\ UNCHANGED vol
     ELSE vol' = [vol EXCEPT ![vc.job.v] = "none"] /\ VolumeJobEnds(vc.todo, vc.open)
  /\ UNCHANGED <<lifecycle, closed, fails>> /\ VolumeUnchanged

(* The end of the pass: all closed, and the lifecycle is released. *)
VolumesEnd ==
  /\ vc.at = "end"
  /\ lifecycle' = IF vc.open THEN lifecycle ELSE "released"
  /\ vc' = [vc EXCEPT !.at = "scan", !.open = FALSE]
  /\ UNCHANGED <<vol, fin, closed, fails>> /\ VolumeUnchanged

-----------------------------------------------------------------------------
(* The sequencer tears the lifecycle down, which the volume manager heeds  *)
(* once the controller that persists the configuration has written it and  *)
(* holds it no more; a configuration is removed.                           *)
OutsideUnchanged ==
  UNCHANGED <<svcVars, vol, reqVars, statVars, vms, fin, mounted, closed, passes, fails>>

LifecycleTornDown ==
  lifecycle = "running" /\ lifecycle' = "held" /\ UNCHANGED removed /\ OutsideUnchanged

ConfigPersisted ==
  lifecycle = "held" /\ lifecycle' = "tearing" /\ UNCHANGED removed /\ OutsideUnchanged

ConfigRemoved(v) ==
  v \in Removable \ removed /\ removed' = removed \union {v} /\ UNCHANGED lifecycle /\ OutsideUnchanged

ServiceStep(s) ==
  SvcCreates(s) \/ SvcSees(s) \/ SvcHolds(s) \/ SvcUnholds(s) \/ SvcDestroys(s) \/ SvcAwaits(s)

RequestStep == RequestsRead \/ RequestWritten \/ \E v \in Volumes : RequestCleaned(v)

MountStep ==
  \/ MountsRead
  \/ \E job \in mc.todo : TearDownMountStatus(job) \/ BeginMount(job)
  \/ Unmounts \/ Frees \/ Holds \/ MountsVolume \/ ReportsMount

StatusStep ==
  \/ StatusesRead
  \/ \E job \in sc.todo : StatusOwned(job) \/ StatusTornDown(job)
  \/ StatusExploded \/ StatusPruned

VolumeStep ==
  \/ VolumesRead
  \/ \E job \in vc.todo : VolumeTornDown(job)
  \/ VolumeCloses \/ VolumeDestroyed \/ VolumesEnd

Next ==
  \/ \E s \in Services : SvcStarts(s) \/ ServiceStep(s) \/ SvcEnds(s) \/ SvcTimesOut(s)
  \/ RequestStep \/ MountStep \/ StatusStep \/ VolumeStep
  \/ LifecycleTornDown \/ ConfigPersisted \/ \E v \in Volumes : ConfigRemoved(v)

Spec == Init /\ [][Next]_vars

(* The controllers are woken by every change; a service that waits goes on *)
(* when it can.  Nothing starts or stops one, or removes a volume, and the *)
(* configuration may never be persisted.                                   *)
Fairness ==
  /\ \A s \in Services : WF_vars(ServiceStep(s))
  /\ WF_vars(RequestStep) /\ WF_vars(MountStep) /\ WF_vars(StatusStep) /\ WF_vars(VolumeStep)

FairSpec == Spec /\ Fairness

-----------------------------------------------------------------------------
(* Properties *)

(* The volumes a service has been told are mounted. *)
Using(s) ==
  {Wants[s][i] : i \in {j \in 1..Len(Wants[s]) :
                          svc[s].at = "running" \/ (svc[s].at \in {"create", "watch", "hold"} /\ j < svc[s].i)}}

(* What a service uses stays mounted, with the volume it lies in, until    *)
(* the service is done with it, though requests come and go, cleanups are  *)
(* given up and the volumes are torn down: deleteVolumeMountRequest.       *)
UsedIsMounted ==
  \A s \in Services : \A v \in Using(s) : v \in mounted /\ (HasParent(v) => Parent[v] \in mounted)

(* MountController never unmounts a volume under the volumes it has mounted *)
(* in it, nor mounts one in a volume that is not mounted.                   *)
ParentStaysMounted == \A v \in mounted : HasParent(v) => Parent[v] \in mounted

(* While a volume is mounted its VolumeStatus and its MountRequest are     *)
(* there and carry MountController's finalizers, also after passes that    *)
(* acted on lists that were stale: nobody forgets the mount (and the state *)
(* keeps its types).                                                       *)
MountIsTracked ==
  /\ TypeOK
  /\ \A v \in mounted : vol[v] # "none" /\ mreq[v] # "none" /\ v \in fin.vol \intersect fin.req

(* When nothing is started or stopped any more, everything comes to rest:  *)
(* a service does not wait for volumes that are there, unless a cleanup    *)
(* has timed out; a volume is not mounted unless it is asked for or held;  *)
(* and the teardown of the lifecycle has ended unless a service goes on    *)
(* using its volumes.                                                      *)
Converges ==
  <>[] /\ \A s \in Services :
            svc[s].at = "watch" => lifecycle \in {"tearing", "released"} \/ removed # {} \/ gaveUp # {}
       /\ \A v \in mounted : \E s \in Services : <<s, v>> \in request \union fin.svc
       /\ lifecycle = "tearing" => fin.svc # {}

=============================================================================
