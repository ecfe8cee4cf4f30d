---------------------------- MODULE MountsProofs ----------------------------
(***************************************************************************)
(* Proofs about Mounts: what a service uses is mounted, a volume is not    *)
(* unmounted under another one, and no mount is forgotten, for any number  *)
(* of volumes, parents, services, runs and failures.                       *)
(*                                                                         *)
(* The argument is a chain of finalizers.  A service that uses a volume    *)
(* holds its VolumeMountStatus, which is there only while                  *)
(* MountStatusController holds the MountStatus, which is there only while  *)
(* the volume is mounted, which it is only while MountController holds the *)
(* VolumeStatus, the MountRequest and the parent's MountStatus.  What has  *)
(* to be shown is that passes which act on stale lists do not break it.    *)
(***************************************************************************)
EXTENDS Mounts, TLAPS

-----------------------------------------------------------------------------
(* Types *)

MountJobs ==
  [v : Volumes, down : BOOLEAN, up : BOOLEAN, there : BOOLEAN, by : SUBSET Services,
   free : SUBSET Kinds, hold : SUBSET Kinds]
StatusJobs == [v : Volumes, phase : Life, by : SUBSET Services, own : BOOLEAN]
VolumeJobs == [v : Volumes, free : BOOLEAN]

ServiceTypes ==
  /\ svc \in [Services -> [at : {"idle", "create", "watch", "hold", "running", "unhold", "destroy",
                                 "await"}, i : Nat]]
  /\ \A s \in Services : /\ svc[s].i \in 0..Len(Wants[s])
                         /\ svc[s].at \in {"create", "watch", "hold", "destroy", "await"} => svc[s].i > 0
  /\ runs \in 0..MaxRuns /\ gaveUp \subseteq Services
  /\ request \subseteq Requests
  /\ lifecycle \in {"running", "held", "tearing", "released"} /\ removed \subseteq Removable
  /\ fails \in 0..MaxFails

ResourceTypes ==
  /\ vol \in [Volumes -> Life]
  /\ mreq \in [Volumes -> Life] /\ reqBy \in [Volumes -> SUBSET Services]
  /\ mstat \in [Volumes -> Life] /\ statBy \in [Volumes -> SUBSET Services]
  /\ vms \in [Requests -> Life]
  /\ fin \in [vol : SUBSET Volumes, parent : SUBSET Volumes, req : SUBSET Volumes,
              stat : SUBSET Volumes, child : SUBSET Volumes, svc : SUBSET Requests]
  /\ mounted \subseteq Volumes /\ closed \subseteq Volumes

RequestTypes == rc \in [clean : SUBSET Volumes, write : SUBSET [v : Volumes, by : SUBSET Services]]
MountTypes ==
  /\ mc \in [at : {"scan", "unmount", "free", "hold", "mount", "report"},
             job : MountJobs \union {NoJob}, todo : SUBSET MountJobs]
  /\ mc.at # "scan" => mc.job \in MountJobs
StatusTypes ==
  /\ sc \in [at : {"scan", "explode", "prune"}, job : StatusJobs \union {NoJob}, todo : SUBSET StatusJobs]
  /\ sc.at # "scan" => sc.job \in StatusJobs
VolumeTypes ==
  /\ vc \in [at : {"scan", "close", "destroy", "end"}, job : VolumeJobs \union {NoJob},
             todo : SUBSET VolumeJobs, open : BOOLEAN]
  /\ vc.at \in {"close", "destroy"} => vc.job \in VolumeJobs

Types == ServiceTypes /\ ResourceTypes /\ RequestTypes /\ MountTypes /\ StatusTypes /\ VolumeTypes

(* A pass has one job for a volume. *)
OneJob(todo) == \A j, k \in todo : j.v = k.v => j = k

-----------------------------------------------------------------------------
(* The chain of finalizers *)

(* What carries a finalizer is there. *)
Pinned ==
  /\ \A v \in fin.vol : vol[v] # "none"
  /\ \A v \in fin.req : mreq[v] # "none"
  /\ \A v \in fin.parent : HasParent(v) /\ mstat[Parent[v]] # "none"
  /\ \A v \in fin.stat : mstat[v] # "none"
  /\ \A r \in fin.svc : vms[r] # "none"

(* A VolumeMountStatus rests on a MountStatus that is held for it. *)
StatusHeld == \A r \in Requests : vms[r] # "none" => r[2] \in fin.stat

(* A MountStatus tells of a volume that is mounted. *)
Reported == \A v \in Volumes : mstat[v] # "none" => v \in mounted

(* MountController holds all that a mount needs. *)
MountHeld == \A v \in mounted : /\ v \in fin.vol /\ v \in fin.req
                                /\ HasParent(v) => v \in fin.parent

(* What a service uses it holds. *)
Uses(s, j) ==
  svc[s].at = "running" \/ (svc[s].at \in {"create", "watch", "hold"} /\ j < svc[s].i)
UsesHeld ==
  \A s \in Services : \A j \in 1..Len(Wants[s]) : Uses(s, j) => <<s, Wants[s][j]>> \in fin.svc

-----------------------------------------------------------------------------
(* What the passes may rely on, though their lists are stale *)

(* The mount of v has to go, and this does not change until it is gone. *)
Doomed(v) ==
  \/ vol[v] # "running" \/ mreq[v] = "tearing" \/ (HasParent(v) /\ mstat[Parent[v]] = "tearing")

(* A MountStatus on its way out belongs to a mount that has to go, so no   *)
(* job both tears a mount down and sets it up again with the finalizers    *)
(* that were listed before the teardown has removed them.                  *)
TearingDoomed == \A v \in Volumes : mstat[v] = "tearing" => Doomed(v)

(* A request on its way out is not written over. *)
WritesFresh ==
  \A job \in rc.write : IF job.v \in rc.clean THEN mreq[job.v] = "tearing" /\ job.v \notin fin.req
                        ELSE mreq[job.v] # "tearing"

(* The finalizers that are not to be added are there. *)
HoldsRest(job) ==
  /\ \A k \in Kinds : k \in job.hold \/ job.v \in fin[k] \/ (k = "parent" /\ ~HasParent(job.v))
  /\ "parent" \in job.hold => HasParent(job.v)

MountTodo ==
  /\ OneJob(mc.todo)
  /\ \A job \in mc.todo :
       /\ job.up <=> ~job.down
       /\ job.down => /\ ~job.there => vol[job.v] = "none"
                      /\ mstat[job.v] # "none" => Doomed(job.v)
       /\ job.up => HoldsRest(job)

MountNow ==
  mc.at # "scan" =>
    /\ \A job \in mc.todo : job.v # mc.job.v
    /\ mc.at \in {"unmount", "free"} => ~mc.job.up /\ mstat[mc.job.v] = "none"
    /\ mc.at = "unmount" /\ ~mc.job.there => vol[mc.job.v] = "none"
    /\ mc.at = "free" => mc.job.v \notin mounted
    /\ mc.at = "hold" => HoldsRest(mc.job)
    /\ mc.at = "report" => mc.job.v \in mounted

StatusPass ==
  /\ OneJob(sc.todo)
  /\ \A job \in sc.todo : job.own => job.v \in fin.stat
  /\ sc.at # "scan" => sc.job.v \in fin.stat /\ \A job \in sc.todo : job.v # sc.job.v

VolumePass ==
  /\ OneJob(vc.todo)
  /\ \A job \in vc.todo : vol[job.v] # "none"
  /\ vc.at \in {"close", "destroy"} => \A job \in vc.todo : job.v # vc.job.v

(* The inductive invariant. *)
ChainInv == Pinned /\ StatusHeld /\ Reported /\ MountHeld /\ UsesHeld
PassInv == TearingDoomed /\ WritesFresh /\ MountTodo /\ MountNow /\ StatusPass /\ VolumePass
MountsInv == Types /\ ChainInv /\ PassInv

-----------------------------------------------------------------------------
(* The steps of a service *)

ServiceMoves(s) ==
  \/ SvcStarts(s) \/ SvcCreates(s) \/ SvcSees(s) \/ SvcHolds(s) \/ SvcEnds(s) \/ SvcUnholds(s)
  \/ SvcDestroys(s) \/ SvcAwaits(s) \/ SvcTimesOut(s)

LEMMA WantsFacts ==
  ASSUME NEW s \in Services
  PROVE  /\ Len(Wants[s]) \in Nat /\ Len(Wants[s]) > 0
         /\ \A j \in 1..Len(Wants[s]) : Wants[s][j] \in Volumes
BY MountsAssumption

(* The request a service is at. *)
LEMMA ReqFacts ==
  ASSUME Types, NEW s \in Services, svc[s].at \in {"create", "watch", "hold", "destroy", "await"}
  PROVE  /\ Req(s) \in Requests /\ Req(s) = <<s, Wants[s][svc[s].i]>>
         /\ svc[s].i \in 1..Len(Wants[s])
<1>1. svc[s].i \in 1..Len(Wants[s])
  BY WantsFacts DEF Types, ServiceTypes
<1> QED BY <1>1, WantsFacts DEF Req, Requests

(* What a service step leaves alone. *)
LEMMA ServiceFrame ==
  ASSUME Types, NEW s \in Services, ServiceMoves(s)
  PROVE  /\ UNCHANGED <<lifecycle, removed, vol, mreq, reqBy, mstat, statBy, vms, mounted, closed, rc, mc, sc, vc>>
         /\ fin' = [fin EXCEPT !.svc = fin'.svc]
<1>0. fin \in [vol : SUBSET Volumes, parent : SUBSET Volumes, req : SUBSET Volumes,
              stat : SUBSET Volumes, child : SUBSET Volumes, svc : SUBSET Requests]
  BY DEF Types, ResourceTypes
<1>1. UNCHANGED <<lifecycle, removed, vol, mreq, reqBy, mstat, statBy, vms, mounted, closed, rc, mc, sc, vc>>
  BY DEF ServiceMoves, SvcStarts, SvcCreates, SvcSees, SvcHolds, SvcEnds, SvcUnholds, SvcDestroys, SvcAwaits,
         SvcTimesOut, RestUnchanged, lifeVars, reqVars, statVars, passes
<1>2. UNCHANGED fin \/ \E x : fin' = [fin EXCEPT !.svc = x]
  BY DEF ServiceMoves, SvcStarts, SvcCreates, SvcSees, SvcHolds, SvcEnds, SvcUnholds, SvcDestroys, SvcAwaits,
         SvcTimesOut
<1> QED BY <1>0, <1>1, <1>2

(* The types of the finalizers, field by field. *)
FinTypes == fin \in [vol : SUBSET Volumes, parent : SUBSET Volumes, req : SUBSET Volumes,
                     stat : SUBSET Volumes, child : SUBSET Volumes, svc : SUBSET Requests]

(* Where the services may be. *)
Places == {"idle", "create", "watch", "hold", "running", "unhold", "destroy", "await"}
SvcTypes ==
  /\ svc \in [Services -> [at : Places, i : Nat]]
  /\ \A s \in Services : /\ svc[s].i \in 0..Len(Wants[s])
                         /\ svc[s].at \in {"create", "watch", "hold", "destroy", "await"} => svc[s].i > 0

LEMMA SvcGoes ==
  ASSUME Types, NEW s \in Services, NEW at \in Places, NEW i \in 0..Len(Wants[s]),
         at \in {"create", "watch", "hold", "destroy", "await"} => i > 0,
         svc' = [svc EXCEPT ![s] = [at |-> at, i |-> i]]
  PROVE  SvcTypes'
BY WantsFacts DEF Types, ServiceTypes, SvcTypes, Places

LEMMA ServiceTypesStep ==
  ASSUME Types, NEW s \in Services, ServiceMoves(s)
  PROVE  Types'
<1>1. SvcTypes'
  <2>0. /\ 0 \in 0..Len(Wants[s]) /\ 1 \in 0..Len(Wants[s]) /\ Len(Wants[s]) \in 0..Len(Wants[s]) /\ Len(Wants[s]) > 0
        /\ \A at \in {"idle", "running", "unhold"} :
             at \in Places /\ at \notin {"create", "watch", "hold", "destroy", "await"}
        /\ {"create", "watch", "hold", "destroy", "await"} \subseteq Places
    BY WantsFacts DEF Places
  <2>1. CASE SvcStarts(s)
    <3>1. svc' = [svc EXCEPT ![s] = [at |-> "create", i |-> 1]]
      BY <2>1 DEF SvcStarts, SvcStep
    <3>2. "create" \in Places /\ 1 \in 0..Len(Wants[s]) /\ 1 > 0
      BY <2>0
    <3> QED BY <3>1, <3>2, SvcGoes
  <2>2. CASE SvcCreates(s) \/ SvcSees(s)
    <3>1. /\ svc[s].at \in {"create", "watch"}
          /\ \E at \in {"watch", "hold"} : svc' = [svc EXCEPT ![s] = [at |-> at, i |-> svc[s].i]]
      BY <2>2 DEF SvcCreates, SvcSees, SvcStep
    <3>2. svc[s].i \in 0..Len(Wants[s]) /\ svc[s].i > 0
      BY <3>1, ReqFacts
    <3>3. CASE svc' = [svc EXCEPT ![s] = [at |-> "watch", i |-> svc[s].i]]
      BY <2>0, <3>2, <3>3, SvcGoes
    <3>4. CASE svc' = [svc EXCEPT ![s] = [at |-> "hold", i |-> svc[s].i]]
      BY <2>0, <3>2, <3>4, SvcGoes
    <3> QED BY <3>1, <3>3, <3>4
  <2>3. CASE SvcHolds(s)
    <3>1. svc[s].at = "hold" /\ svc[s].i \in 1..Len(Wants[s])
      BY <2>3, ReqFacts DEF SvcHolds
    <3>2. CASE svc' = [svc EXCEPT ![s] = [at |-> "create", i |-> svc[s].i + 1]] /\ svc[s].i # Len(Wants[s])
      <4>1. svc[s].i + 1 \in 0..Len(Wants[s]) /\ svc[s].i + 1 > 0
        BY <3>1, <3>2
      <4> QED BY <2>0, <3>2, <4>1, SvcGoes
    <3>3. CASE \E at \in {"running", "unhold"} : svc' = [svc EXCEPT ![s] = [at |-> at, i |-> 0]]
      BY <2>0, <3>3, SvcGoes
    <3> QED BY <2>3, <3>2, <3>3 DEF SvcHolds, SvcStep
  <2>4. CASE SvcEnds(s) \/ SvcUnholds(s) \/ SvcTimesOut(s)
    <3>1. \/ \E at \in {"unhold", "idle"} : svc' = [svc EXCEPT ![s] = [at |-> at, i |-> 0]]
          \/ svc' = [svc EXCEPT ![s] = [at |-> "destroy", i |-> Len(Wants[s])]]
      BY <2>4 DEF SvcEnds, SvcUnholds, SvcTimesOut, SvcStep
    <3> QED BY <2>0, <3>1, SvcGoes
  <2>5. CASE SvcDestroys(s)
    <3>1. svc[s].at = "destroy" /\ svc[s].i \in 1..Len(Wants[s])
      BY <2>5, ReqFacts DEF SvcDestroys
    <3>2. CASE svc' = [svc EXCEPT ![s] = [at |-> "destroy", i |-> svc[s].i - 1]] /\ svc[s].i # 1
      <4>1. svc[s].i - 1 \in 0..Len(Wants[s]) /\ svc[s].i - 1 > 0
        BY <3>1, <3>2
      <4> QED BY <2>0, <3>2, <4>1, SvcGoes
    <3>3. CASE svc' = [svc EXCEPT ![s] = [at |-> "idle", i |-> 0]]
      BY <2>0, <3>3, SvcGoes
    <3>4. CASE svc' = [svc EXCEPT ![s] = [at |-> "await", i |-> Len(Wants[s])]]
      BY <2>0, <3>4, SvcGoes
    <3> QED BY <2>5, <3>2, <3>3, <3>4 DEF SvcDestroys, SvcStep
  <2>6. CASE SvcAwaits(s)
    <3>1. svc[s].at = "await" /\ svc[s].i \in 1..Len(Wants[s])
      BY <2>6, ReqFacts DEF SvcAwaits
    <3>2. CASE svc' = [svc EXCEPT ![s] = [at |-> "await", i |-> svc[s].i - 1]] /\ svc[s].i # 1
      <4>1. svc[s].i - 1 \in 0..Len(Wants[s]) /\ svc[s].i - 1 > 0
        BY <3>1, <3>2
      <4> QED BY <2>0, <3>2, <4>1, SvcGoes
    <3>3. CASE svc' = [svc EXCEPT ![s] = [at |-> "idle", i |-> 0]]
      BY <2>0, <3>3, SvcGoes
    <3> QED BY <2>6, <3>2, <3>3 DEF SvcAwaits, SvcStep
  <2> QED BY <2>1, <2>2, <2>3, <2>4, <2>5, <2>6 DEF ServiceMoves
<1>2. runs' \in 0..MaxRuns /\ gaveUp' \subseteq Services /\ fails' \in 0..MaxFails
  <2>1. UNCHANGED runs \/ (runs < MaxRuns /\ runs' = runs + 1)
    BY DEF ServiceMoves, SvcStarts, SvcCreates, SvcSees, SvcHolds, SvcEnds, SvcUnholds, SvcDestroys, SvcAwaits,
           SvcTimesOut
  <2>2. UNCHANGED gaveUp \/ gaveUp' = gaveUp \ {s} \/ gaveUp' = gaveUp \union {s}
    BY DEF ServiceMoves, SvcStarts, SvcCreates, SvcSees, SvcHolds, SvcEnds, SvcUnholds, SvcDestroys, SvcAwaits,
           SvcTimesOut
  <2>3. UNCHANGED fails \/ (fails < MaxFails /\ fails' = fails + 1)
    BY DEF ServiceMoves, SvcStarts, SvcCreates, SvcSees, SvcHolds, SvcEnds, SvcUnholds, SvcDestroys, SvcAwaits,
           SvcTimesOut, RestUnchanged
  <2> QED BY <2>1, <2>2, <2>3, MountsAssumption DEF Types, ServiceTypes
<1>3. request' \subseteq Requests
  <2>1. CASE SvcCreates(s)
    BY <2>1, ReqFacts DEF SvcCreates, SvcStep, Types, ServiceTypes
  <2>2. CASE ~SvcCreates(s)
    <3>1. UNCHANGED request \/ \E x : request' = request \ x
      BY <2>2 DEF ServiceMoves, SvcStarts, SvcCreates, SvcSees, SvcHolds, SvcEnds, SvcUnholds, SvcDestroys,
                  SvcAwaits, SvcTimesOut
    <3> QED BY <3>1 DEF Types, ServiceTypes
  <2> QED BY <2>1, <2>2
<1>4. FinTypes'
  <2>1. CASE SvcHolds(s)
    BY <2>1, ReqFacts DEF SvcHolds, Types, ResourceTypes, FinTypes
  <2>2. CASE SvcUnholds(s)
    BY <2>2 DEF SvcUnholds, Types, ResourceTypes, FinTypes
  <2>3. CASE ~SvcHolds(s) /\ ~SvcUnholds(s)
    BY <2>3 DEF ServiceMoves, SvcStarts, SvcCreates, SvcSees, SvcEnds, SvcDestroys, SvcAwaits,
                SvcTimesOut, Types, ResourceTypes, FinTypes
  <2> QED BY <2>1, <2>2, <2>3
<1>5. ServiceTypes'
  BY <1>1, <1>2, <1>3, ServiceFrame DEF Types, ServiceTypes, SvcTypes, Places
<1>6. ResourceTypes'
  BY <1>4, ServiceFrame DEF Types, ResourceTypes, FinTypes
<1>7. RequestTypes' /\ MountTypes' /\ StatusTypes' /\ VolumeTypes'
  BY ServiceFrame DEF Types, RequestTypes, MountTypes, StatusTypes, VolumeTypes
<1> QED BY <1>5, <1>6, <1>7 DEF Types

LEMMA ServicePreserves ==
  ASSUME MountsInv, NEW s \in Services, ServiceMoves(s)
  PROVE  MountsInv'
<1>0. Types /\ Types'
  BY ServiceTypesStep DEF MountsInv
<1>f. /\ UNCHANGED <<lifecycle, removed, vol, mreq, reqBy, mstat, statBy, vms, mounted, closed, rc, mc, sc, vc>>
      /\ fin'.vol = fin.vol /\ fin'.req = fin.req /\ fin'.parent = fin.parent /\ fin'.stat = fin.stat
      /\ \A k \in Kinds : fin'[k] = fin[k]
  BY <1>0, ServiceFrame DEF Types, ResourceTypes, Kinds
<1>1. PassInv'
  <2>1. (TearingDoomed /\ WritesFresh /\ StatusPass /\ VolumePass)'
    BY <1>f DEF MountsInv, PassInv, TearingDoomed, Doomed, WritesFresh, StatusPass, VolumePass, OneJob
  <2>2. \A job : HoldsRest(job) => HoldsRest(job)'
    BY <1>f DEF HoldsRest
  <2>3. MountTodo' /\ MountNow'
    BY <1>f, <2>2 DEF MountsInv, PassInv, MountTodo, MountNow, Doomed, OneJob
  <2> QED BY <2>1, <2>3 DEF PassInv
<1>2. (StatusHeld /\ Reported /\ MountHeld)'
  BY <1>f DEF MountsInv, ChainInv, StatusHeld, Reported, MountHeld
<1>3. \A r \in fin'.svc : r \in fin.svc \/ vms[r] # "none"
  <2>1. CASE SvcHolds(s)
    BY <1>0, <2>1 DEF SvcHolds, Types, ResourceTypes
  <2>2. CASE SvcUnholds(s)
    BY <1>0, <2>2 DEF SvcUnholds, Types, ResourceTypes
  <2>3. CASE ~SvcHolds(s) /\ ~SvcUnholds(s)
    BY <2>3 DEF ServiceMoves, SvcStarts, SvcCreates, SvcSees, SvcEnds, SvcDestroys, SvcAwaits, SvcTimesOut
  <2> QED BY <2>1, <2>2, <2>3
<1>4. Pinned'
  BY <1>f, <1>3 DEF MountsInv, ChainInv, Pinned
<1>5. ASSUME NEW x \in Services, NEW j \in 1..Len(Wants[x]), Uses(x, j)'
      PROVE  <<x, Wants[x][j]>> \in fin'.svc
  <2>0. /\ svc \in [Services -> [at : Places, i : Nat]]
        /\ Uses(x, j) => <<x, Wants[x][j]>> \in fin.svc
    BY <1>0 DEF MountsInv, ChainInv, UsesHeld, Types, ServiceTypes, Places
  <2>1. CASE x # s
    <3>1. svc'[x] = svc[x]
      BY <2>0, <2>1 DEF ServiceMoves, SvcStarts, SvcCreates, SvcSees, SvcHolds, SvcEnds, SvcUnholds, SvcDestroys,
                        SvcAwaits, SvcTimesOut, SvcStep
    <3>2. <<x, Wants[x][j]>> \in fin.svc
      BY <1>5, <2>0, <3>1 DEF Uses
    <3>3. \A r \in fin.svc : r[1] # s => r \in fin'.svc
      <4>1. CASE SvcHolds(s)
        BY <1>0, <4>1 DEF SvcHolds, Types, ResourceTypes
      <4>2. CASE SvcUnholds(s)
        BY <1>0, <4>2 DEF SvcUnholds, Types, ResourceTypes
      <4>3. CASE ~SvcHolds(s) /\ ~SvcUnholds(s)
        BY <4>3 DEF ServiceMoves, SvcStarts, SvcCreates, SvcSees, SvcEnds, SvcDestroys, SvcAwaits, SvcTimesOut
      <4> QED BY <4>1, <4>2, <4>3
    <3> QED BY <2>1, <3>2, <3>3
  <2>2. CASE x = s
    <3>1. CASE SvcStarts(s)
      BY <1>5, <2>0, <2>2, <3>1 DEF SvcStarts, SvcStep, Uses
    <3>2. CASE SvcCreates(s) \/ SvcSees(s)
      <4>1. /\ svc[s].at \in {"create", "watch"} /\ svc'[s].i = svc[s].i /\ svc'[s].at \in {"watch", "hold"}
            /\ fin' = fin
        BY <2>0, <3>2 DEF SvcCreates, SvcSees, SvcStep
      <4> QED BY <1>5, <2>0, <2>2, <4>1 DEF Uses
    <3>3. CASE SvcHolds(s)
      <4>1. svc[s].at = "hold" /\ svc[s].i \in 1..Len(Wants[s])
        BY <1>0, <3>3, ReqFacts DEF SvcHolds
      <4>2. CASE vms[Req(s)] # "running"
        BY <1>5, <2>0, <2>2, <3>3, <4>2 DEF SvcHolds, SvcStep, Uses
      <4>3. CASE vms[Req(s)] = "running"
        <5>1. fin'.svc = fin.svc \union {<<s, Wants[s][svc[s].i]>>}
          BY <1>0, <3>3, <4>1, <4>3 DEF SvcHolds, Req, Types, ResourceTypes
        <5>2. j <= svc[s].i
          <6>1. CASE svc[s].i = Len(Wants[s])
            BY <2>2, <6>1
          <6>2. CASE svc[s].i # Len(Wants[s])
            <7>1. svc'[s].at = "create" /\ svc'[s].i = svc[s].i + 1
              BY <2>0, <3>3, <4>3, <6>2 DEF SvcHolds, SvcStep
            <7> QED BY <1>5, <2>2, <4>1, <7>1 DEF Uses
          <6> QED BY <6>1, <6>2
        <5>3. CASE j = svc[s].i
          BY <2>2, <5>1, <5>3
        <5>4. CASE j < svc[s].i
          BY <2>0, <2>2, <4>1, <5>1, <5>4 DEF Uses
        <5> QED BY <4>1, <5>2, <5>3, <5>4
      <4> QED BY <4>2, <4>3
    <3>4. CASE SvcEnds(s) \/ SvcUnholds(s) \/ SvcDestroys(s) \/ SvcAwaits(s) \/ SvcTimesOut(s)
      <4>1. svc'[s].at \in {"unhold", "destroy", "await", "idle"}
        BY <2>0, <3>4 DEF SvcEnds, SvcUnholds, SvcDestroys, SvcAwaits, SvcTimesOut, SvcStep
      <4> QED BY <1>5, <2>2, <4>1 DEF Uses
    <3> QED BY <3>1, <3>2, <3>3, <3>4 DEF ServiceMoves
  <2> QED BY <2>1, <2>2
<1>6. UsesHeld'
  BY <1>5 DEF UsesHeld
<1> QED BY <1>0, <1>1, <1>2, <1>4, <1>6 DEF MountsInv, ChainInv

-----------------------------------------------------------------------------
(* The steps of MountRequestController *)

(* A request that carries a finalizer is not destroyed, and one that is on *)
(* its way out stays so.                                                   *)
LEMMA RequestFacts ==
  ASSUME MountsInv, RequestStep
  PROVE  /\ mreq' \in [Volumes -> Life] /\ reqBy' \in [Volumes -> SUBSET Services]
         /\ RequestTypes' /\ WritesFresh'
         /\ \A v \in fin.req : mreq'[v] # "none" /\ (mreq[v] = "tearing" => mreq'[v] = "tearing")
<1>0. /\ mreq \in [Volumes -> Life] /\ reqBy \in [Volumes -> SUBSET Services] /\ RequestTypes
      /\ fin.req \subseteq Volumes /\ WritesFresh
      /\ \A v \in fin.req : mreq[v] # "none"
  BY DEF MountsInv, Types, ResourceTypes, PassInv, ChainInv, Pinned
<1>1. CASE RequestsRead
  <2> DEFINE clean == {v \in Volumes : \/ mreq[v] = "tearing" /\ v \notin fin.req
                                       \/ mreq[v] = "running" /\ Desired(v) = {}}
             write == {v \in Volumes : Desired(v) \notin {{}, reqBy[v]} /\ (mreq[v] = "tearing" => v \in clean)}
  <2>1. /\ rc' = [clean |-> clean, write |-> {[v |-> v, by |-> Desired(v)] : v \in write}]
        /\ UNCHANGED <<mreq, reqBy, fin>>
    BY <1>1 DEF RequestsRead, RequestUnchanged, reqVars
  <2>2. \A v \in write : Desired(v) \in SUBSET Services /\ Desired(v) # {}
    BY DEF Desired
  <2>3. \A v \in write : IF v \in clean THEN mreq[v] = "tearing" /\ v \notin fin.req ELSE mreq[v] # "tearing"
    BY <2>2
  <2>4. RequestTypes'
    BY <2>1, <2>2 DEF RequestTypes
  <2>5. WritesFresh'
    BY <2>1, <2>3 DEF WritesFresh
  <2> QED BY <1>0, <2>1, <2>4, <2>5
<1>2. ASSUME NEW v \in Volumes, RequestCleaned(v)
      PROVE  /\ mreq' \in [Volumes -> Life] /\ reqBy' \in [Volumes -> SUBSET Services]
             /\ RequestTypes' /\ WritesFresh'
             /\ \A w \in fin.req : mreq'[w] # "none" /\ (mreq[w] = "tearing" => mreq'[w] = "tearing")
  <2>1. /\ v \in rc.clean /\ fin' = fin
        /\ mreq' = [mreq EXCEPT ![v] = IF v \in fin.req THEN "tearing" ELSE "none"]
        /\ rc' = [rc EXCEPT !.clean = @ \ {v}]
    BY <1>2 DEF RequestCleaned, TornDown, RequestUnchanged
  <2>2. reqBy' \in [Volumes -> SUBSET Services]
    BY <1>0, <1>2 DEF RequestCleaned
  <2>3. mreq' \in [Volumes -> Life] /\ RequestTypes'
    BY <1>0, <2>1 DEF Life, RequestTypes
  <2>4. WritesFresh'
    BY <1>0, <2>1 DEF WritesFresh, RequestTypes
  <2> QED BY <1>0, <2>1, <2>2, <2>3, <2>4
<1>3. CASE RequestWritten
  <2>1. PICK job \in rc.write :
          /\ mreq' = [mreq EXCEPT ![job.v] = "running"]
          /\ reqBy' = [reqBy EXCEPT ![job.v] = job.by]
          /\ rc' = [rc EXCEPT !.write = @ \ {job}]
    BY <1>3 DEF RequestWritten
  <2>2. rc.clean = {} /\ fin' = fin
    BY <1>3 DEF RequestWritten, RequestUnchanged
  <2>3. job.v \in Volumes /\ job.by \in SUBSET Services /\ mreq[job.v] # "tearing"
    BY <1>0, <2>2 DEF RequestTypes, WritesFresh
  <2>4. mreq' \in [Volumes -> Life] /\ reqBy' \in [Volumes -> SUBSET Services] /\ RequestTypes'
    BY <1>0, <2>1, <2>3 DEF Life, RequestTypes
  <2>5. WritesFresh'
    BY <1>0, <2>1, <2>2, <2>3 DEF WritesFresh, RequestTypes
  <2> QED BY <1>0, <2>1, <2>3, <2>4, <2>5
<1> QED BY <1>1, <1>2, <1>3 DEF RequestStep

LEMMA RequestPreserves == MountsInv /\ RequestStep => MountsInv'
<1> SUFFICES ASSUME MountsInv, RequestStep PROVE MountsInv'
  OBVIOUS
<1>f. UNCHANGED <<svc, runs, gaveUp, request, lifecycle, removed, vol, mstat, statBy, vms, fin, mounted, closed,
                  mc, sc, vc, fails>>
  BY DEF RequestStep, RequestsRead, RequestCleaned, RequestWritten, RequestUnchanged, svcVars, lifeVars, statVars
<1>1. Types'
  BY <1>f, RequestFacts DEF MountsInv, Types, ServiceTypes, ResourceTypes, MountTypes, StatusTypes, VolumeTypes
<1>2. ChainInv'
  <2>1. Pinned'
    BY <1>f, RequestFacts DEF MountsInv, ChainInv, Pinned
  <2>2. (StatusHeld /\ Reported /\ MountHeld /\ UsesHeld)'
    BY <1>f DEF MountsInv, ChainInv, StatusHeld, Reported, MountHeld, UsesHeld, Uses
  <2> QED BY <2>1, <2>2 DEF ChainInv
<1>3. \A v \in Volumes : mstat[v] # "none" /\ Doomed(v) => Doomed(v)'
  <2>1. \A v \in Volumes : mstat[v] # "none" => v \in fin.req
    BY DEF MountsInv, ChainInv, Reported, MountHeld
  <2> QED BY <1>f, <2>1, RequestFacts DEF Doomed
<1>4. PassInv'
  <2>1. TearingDoomed'
    BY <1>f, <1>3 DEF MountsInv, PassInv, TearingDoomed
  <2>2. StatusPass' /\ VolumePass'
    BY <1>f DEF MountsInv, PassInv, StatusPass, VolumePass, OneJob
  <2>3. \A job : HoldsRest(job) => HoldsRest(job)'
    BY <1>f DEF HoldsRest
  <2>4. MountNow'
    BY <1>f, <2>3 DEF MountsInv, PassInv, MountNow
  <2>5. MountTodo'
    BY <1>f, <1>3, <2>3 DEF MountsInv, Types, MountTypes, MountJobs, PassInv, MountTodo, OneJob
  <2> QED BY <2>1, <2>2, <2>4, <2>5, RequestFacts DEF PassInv
<1> QED BY <1>1, <1>2, <1>4 DEF MountsInv

-----------------------------------------------------------------------------
(* The steps of MountStatusController *)

(* What a step does to the statuses and to its own finalizers. *)
StatusFacts ==
  /\ \E x \in SUBSET Volumes : fin' = [fin EXCEPT !.stat = x]
  /\ \A v \in fin'.stat : mstat[v] # "none"
  /\ vms' \in [Requests -> Life]
  /\ \A r \in fin.svc : vms'[r] # "none"
  /\ StatusHeld' /\ StatusTypes' /\ StatusPass'

LEMMA StatusFactsStep ==
  ASSUME MountsInv, StatusStep
  PROVE  StatusFacts
<1>0. /\ FinTypes /\ vms \in [Requests -> Life] /\ mstat \in [Volumes -> Life] /\ statBy \in [Volumes -> SUBSET Services]
      /\ StatusTypes /\ StatusPass /\ StatusHeld
      /\ \A v \in fin.stat : mstat[v] # "none"
      /\ \A r \in fin.svc : vms[r] # "none"
  BY DEF MountsInv, Types, ResourceTypes, PassInv, ChainInv, Pinned, FinTypes
<1>s. \A x \in SUBSET Volumes : fin' = [fin EXCEPT !.stat = x] => fin'.stat = x
  BY <1>0 DEF FinTypes
<1>k. UNCHANGED fin => \E x \in SUBSET Volumes : fin' = [fin EXCEPT !.stat = x]
  BY <1>0 DEF FinTypes
<1>i. sc' = Idle => StatusTypes' /\ StatusPass'
  BY DEF Idle, StatusTypes, StatusPass, OneJob
<1>1. CASE StatusesRead
  <2>1. /\ sc' = [at |-> "scan", job |-> NoJob,
                  todo |-> {[v |-> v, phase |-> mstat[v], by |-> statBy[v], own |-> v \in fin.stat]
                              : v \in {w \in Volumes : StatusWork(w)}}]
        /\ UNCHANGED <<vms, fin>>
    BY <1>1 DEF StatusesRead, Idle
  <2>2. \A job \in sc'.todo : \E v \in Volumes :
           job = [v |-> v, phase |-> mstat[v], by |-> statBy[v], own |-> v \in fin.stat]
    BY <2>1
  <2>3. sc'.todo \subseteq StatusJobs
    <3> SUFFICES ASSUME NEW v \in Volumes
                 PROVE  [v |-> v, phase |-> mstat[v], by |-> statBy[v], own |-> v \in fin.stat] \in StatusJobs
      BY <2>2
    <3>1. (v \in fin.stat) \in BOOLEAN
      OBVIOUS
    <3> QED BY <1>0, <3>1 DEF StatusJobs
  <2>4. StatusTypes'
    BY <2>1, <2>3 DEF StatusTypes
  <2>5. StatusPass'
    <3>1. \A job \in sc'.todo :
             /\ job = [v |-> job.v, phase |-> mstat[job.v], by |-> statBy[job.v], own |-> job.v \in fin.stat]
             /\ job.own => job.v \in fin.stat
      <4> SUFFICES ASSUME NEW job \in sc'.todo
                   PROVE  /\ job = [v |-> job.v, phase |-> mstat[job.v], by |-> statBy[job.v],
                                    own |-> job.v \in fin.stat]
                          /\ job.own => job.v \in fin.stat
        OBVIOUS
      <4>1. PICK v \in Volumes : job = [v |-> v, phase |-> mstat[v], by |-> statBy[v], own |-> v \in fin.stat]
        BY <2>2
      <4>2. job.v = v
        BY <4>1
      <4>3. job.own = (v \in fin.stat)
        BY <4>1
      <4> QED BY <4>1, <4>2, <4>3
    <3>2. OneJob(sc'.todo)
      <4> SUFFICES ASSUME NEW j \in sc'.todo, NEW k \in sc'.todo, j.v = k.v PROVE j = k
        BY DEF OneJob
      <4> QED BY <3>1
    <3>3. sc'.at = "scan" /\ fin' = fin
      BY <2>1
    <3> QED BY <3>1, <3>2, <3>3 DEF StatusPass
  <2> QED BY <1>0, <1>k, <2>1, <2>4, <2>5 DEF StatusFacts, StatusHeld
<1>2. ASSUME NEW job \in sc.todo, StatusOwned(job)
      PROVE  StatusFacts
  <2>1. UNCHANGED vms /\ job \in StatusJobs
    BY <1>0, <1>2 DEF StatusOwned, StatusTypes
  <2>2. CASE ~(job.own \/ mstat[job.v] = "running")
    BY <1>0, <1>2, <1>i, <1>k, <2>1, <2>2 DEF StatusOwned, StatusFacts, StatusHeld
  <2>3. CASE job.own \/ mstat[job.v] = "running"
    <3>1. /\ fin' = [fin EXCEPT !.stat = fin.stat \union {job.v}]
          /\ sc' = [at |-> "explode", job |-> job, todo |-> sc.todo \ {job}]
      BY <1>2, <2>3 DEF StatusOwned
    <3>2. fin'.stat = fin.stat \union {job.v} /\ fin.stat \union {job.v} \in SUBSET Volumes
      BY <1>0, <2>1, <3>1 DEF FinTypes, StatusJobs
    <3>3. mstat[job.v] # "none"
      BY <1>0, <1>2, <2>3 DEF StatusPass
    <3>4. StatusTypes' /\ StatusPass'
      BY <1>0, <1>2, <2>1, <3>1, <3>2 DEF StatusTypes, StatusPass, OneJob
    <3> QED BY <1>0, <2>1, <3>1, <3>2, <3>3, <3>4 DEF StatusFacts, StatusHeld
  <2> QED BY <2>2, <2>3
<1>3. ASSUME NEW rs \in SUBSET Requests
      PROVE  /\ Dropped(rs) \in [Requests -> Life]
             /\ \A r \in fin.svc : Dropped(rs)[r] # "none"
             /\ \A r \in Requests : Dropped(rs)[r] # "none" => vms[r] # "none"
  BY <1>0 DEF Dropped, TornDown, Held, Life, FinTypes
<1>4. ASSUME NEW job \in sc.todo, StatusTornDown(job)
      PROVE  StatusFacts
  <2>1. /\ job \in StatusJobs /\ sc.at = "scan"
        /\ vms' = Dropped({<<x, job.v>> : x \in Services})
        /\ sc' = [sc EXCEPT !.todo = @ \ {job}]
    BY <1>0, <1>4 DEF StatusTornDown, StatusTypes
  <2>2. {<<x, job.v>> : x \in Services} \in SUBSET Requests
    BY <2>1 DEF StatusJobs, Requests
  <2>3. vms' \in [Requests -> Life] /\ (\A r \in fin.svc : vms'[r] # "none")
        /\ \A r \in Requests : vms'[r] # "none" => vms[r] # "none"
    BY <1>3, <2>1, <2>2
  <2>4. StatusTypes'
    BY <1>0, <2>1 DEF StatusTypes
  <2>5. CASE UNCHANGED fin
    <3>1. StatusPass'
      BY <1>0, <2>1, <2>5 DEF StatusPass, StatusTypes, OneJob
    <3> QED BY <1>0, <1>k, <2>3, <2>4, <2>5, <3>1 DEF StatusFacts, StatusHeld
  <2>6. CASE (\A x \in Services : vms'[<<x, job.v>>] = "none") /\ fin' = [fin EXCEPT !.stat = fin.stat \ {job.v}]
    <3>1. fin'.stat = fin.stat \ {job.v} /\ fin.stat \ {job.v} \in SUBSET Volumes
      BY <1>0, <2>6 DEF FinTypes
    <3>2. StatusPass'
      <4>1. sc'.todo = sc.todo \ {job} /\ sc'.at = "scan"
        BY <1>0, <2>1 DEF StatusTypes
      <4> QED BY <1>0, <1>4, <3>1, <4>1 DEF StatusPass, OneJob
    <3>3. StatusHeld'
      BY <1>0, <2>3, <2>6, <3>1 DEF StatusHeld, Requests
    <3> QED BY <1>0, <2>3, <2>4, <2>6, <3>1, <3>2, <3>3 DEF StatusFacts
  <2> QED BY <1>4, <2>5, <2>6 DEF StatusTornDown
<1>5. CASE StatusExploded
  <2>1. PICK written \in SUBSET sc.job.by :
          vms' = [r \in Requests |-> IF r[2] = sc.job.v /\ r[1] \in written THEN "running" ELSE vms[r]]
    BY <1>5 DEF StatusExploded
  <2>2. UNCHANGED fin /\ sc.at = "explode" /\ (sc' = Idle \/ sc' = [sc EXCEPT !.at = "prune"])
    BY <1>5 DEF StatusExploded
  <2>3. sc.job.v \in fin.stat
    BY <1>0, <2>2 DEF StatusPass
  <2>4. vms' \in [Requests -> Life] /\ (\A r \in fin.svc : vms'[r] # "none") /\ StatusHeld'
    BY <1>0, <2>1, <2>2, <2>3 DEF Life, StatusHeld, FinTypes
  <2>5. CASE sc' = [sc EXCEPT !.at = "prune"]
    <3>1. StatusTypes' /\ StatusPass'
      BY <1>0, <2>2, <2>5 DEF StatusTypes, StatusPass, OneJob
    <3> QED BY <1>0, <1>k, <2>2, <2>4, <3>1 DEF StatusFacts
  <2> QED BY <1>0, <1>i, <1>k, <2>2, <2>4, <2>5 DEF StatusFacts
<1>6. CASE StatusPruned
  <2>1. /\ sc.at = "prune" /\ UNCHANGED fin
        /\ vms' = Dropped({<<x, sc.job.v>> : x \in Services \ sc.job.by})
        /\ sc' = [sc EXCEPT !.at = "scan", !.job = NoJob]
    BY <1>6 DEF StatusPruned
  <2>2. {<<x, sc.job.v>> : x \in Services \ sc.job.by} \in SUBSET Requests
    BY <1>0, <2>1 DEF StatusTypes, StatusJobs, Requests
  <2>3. vms' \in [Requests -> Life] /\ (\A r \in fin.svc : vms'[r] # "none")
        /\ \A r \in Requests : vms'[r] # "none" => vms[r] # "none"
    BY <1>3, <2>1, <2>2
  <2>4. StatusTypes' /\ StatusPass'
    BY <1>0, <2>1 DEF StatusTypes, StatusPass, OneJob
  <2> QED BY <1>0, <1>k, <2>1, <2>3, <2>4 DEF StatusFacts, StatusHeld
<1> QED BY <1>1, <1>2, <1>4, <1>5, <1>6 DEF StatusStep

LEMMA StatusPreserves == MountsInv /\ StatusStep => MountsInv'
<1> SUFFICES ASSUME MountsInv, StatusStep PROVE MountsInv'
  OBVIOUS
<1>f. UNCHANGED <<svc, runs, gaveUp, request, lifecycle, removed, vol, mreq, reqBy, mstat, statBy, mounted, closed,
                  rc, mc, vc, fails>>
  BY DEF StatusStep, StatusesRead, StatusOwned, StatusTornDown, StatusExploded, StatusPruned, StatusUnchanged,
         svcVars, lifeVars, reqVars, statVars
<1>g. /\ FinTypes' /\ fin'.vol = fin.vol /\ fin'.req = fin.req /\ fin'.parent = fin.parent /\ fin'.svc = fin.svc
      /\ \A k \in Kinds : fin'[k] = fin[k]
  BY StatusFactsStep DEF StatusFacts, MountsInv, Types, ResourceTypes, FinTypes, Kinds
<1>1. Types'
  BY <1>f, <1>g, StatusFactsStep
     DEF StatusFacts, MountsInv, Types, ServiceTypes, ResourceTypes, RequestTypes, MountTypes, VolumeTypes, FinTypes
<1>2. ChainInv'
  <2>1. Pinned'
    BY <1>f, <1>g, StatusFactsStep DEF StatusFacts, MountsInv, ChainInv, Pinned
  <2>2. (Reported /\ MountHeld /\ UsesHeld)'
    BY <1>f, <1>g DEF MountsInv, ChainInv, Reported, MountHeld, UsesHeld, Uses
  <2> QED BY <2>1, <2>2, StatusFactsStep DEF StatusFacts, ChainInv
<1>3. PassInv'
  <2>1. (TearingDoomed /\ WritesFresh /\ VolumePass)'
    BY <1>f, <1>g DEF MountsInv, PassInv, TearingDoomed, Doomed, WritesFresh, VolumePass, OneJob
  <2>2. \A job : HoldsRest(job) => HoldsRest(job)'
    BY <1>g DEF HoldsRest
  <2>3. MountTodo' /\ MountNow'
    BY <1>f, <2>2 DEF MountsInv, PassInv, MountTodo, MountNow, Doomed, OneJob
  <2> QED BY <2>1, <2>3, StatusFactsStep DEF StatusFacts, PassInv
<1> QED BY <1>1, <1>2, <1>3 DEF MountsInv

-----------------------------------------------------------------------------
(* The steps of the volume manager, and what is outside *)

(* A volume that is not running never is again, one that is gone stays so, *)
(* and one that MountController holds is there.                            *)
VolumeFacts ==
  /\ \E x \in SUBSET Volumes : fin' = [fin EXCEPT !.child = x]
  /\ vol' \in [Volumes -> Life]
  /\ \A v \in Volumes : /\ vol[v] # "running" => vol'[v] # "running"
                        /\ vol[v] = "none" => vol'[v] = "none"
  /\ \A v \in fin.vol : vol'[v] # "none"
  /\ closed' \subseteq Volumes /\ fails' \in 0..MaxFails
  /\ lifecycle' \in {"running", "held", "tearing", "released"}
  /\ VolumeTypes' /\ VolumePass'

LEMMA VolumeFactsStep ==
  ASSUME MountsInv, VolumeStep
  PROVE  VolumeFacts
<1>0. /\ FinTypes /\ vol \in [Volumes -> Life] /\ closed \subseteq Volumes /\ fails \in 0..MaxFails
      /\ lifecycle \in {"running", "held", "tearing", "released"}
      /\ VolumeTypes /\ VolumePass
      /\ \A v \in fin.vol : vol[v] # "none"
  BY DEF MountsInv, Types, ServiceTypes, ResourceTypes, PassInv, ChainInv, Pinned, FinTypes
<1>k. UNCHANGED fin => \E x \in SUBSET Volumes : fin' = [fin EXCEPT !.child = x]
  BY <1>0 DEF FinTypes
<1>e. \A todo \in SUBSET vc.todo, open \in BOOLEAN :
        VolumeJobEnds(todo, open) /\ (\A job \in todo : vol'[job.v] # "none") => VolumeTypes' /\ VolumePass'
  <2> SUFFICES ASSUME NEW todo \in SUBSET vc.todo, NEW open \in BOOLEAN,
                      VolumeJobEnds(todo, open), \A job \in todo : vol'[job.v] # "none"
               PROVE  VolumeTypes' /\ VolumePass'
    OBVIOUS
  <2>1. vc' = [at |-> IF todo = {} THEN "end" ELSE "scan", job |-> NoJob, todo |-> todo, open |-> open]
    BY DEF VolumeJobEnds
  <2>2. vc'.at \in {"end", "scan"} /\ vc'.todo = todo
    BY <2>1
  <2>3. VolumeTypes'
    BY <1>0, <2>1, <2>2 DEF VolumeTypes
  <2>4. VolumePass'
    BY <1>0, <2>2 DEF VolumePass, OneJob
  <2> QED BY <2>3, <2>4
<1>1. CASE VolumesRead
  <2>1. PICK work \in SUBSET {v \in Volumes : vol[v] # "none"}, at \in {"end", "scan"}, open \in BOOLEAN :
          vc' = [at |-> at, job |-> NoJob, todo |-> {[v |-> v, free |-> ~VolumeInUse(v)] : v \in work}, open |-> open]
    <3> DEFINE there == {v \in Volumes : vol[v] # "none"}
               work == {v \in there : VolumeTearing(v) /\ (vol[v] = "running" \/ ~VolumeInUse(v) \/ LacksParent(v))}
               at == IF work = {} THEN "end" ELSE "scan"
               open == lifecycle = "running" \/ there # work
    <3>1. vc' = [at |-> at, job |-> NoJob, todo |-> {[v |-> v, free |-> ~VolumeInUse(v)] : v \in work}, open |-> open]
      BY <1>1 DEF VolumesRead
    <3>2. work \in SUBSET {v \in Volumes : vol[v] # "none"}
      OBVIOUS
    <3>3. at \in {"end", "scan"}
      OBVIOUS
    <3>4. open \in BOOLEAN
      OBVIOUS
    <3> HIDE DEF work, at, open
    <3> QED BY <3>1, <3>2, <3>3, <3>4
  <2>2. UNCHANGED <<lifecycle, vol, fin, closed, fails>>
    BY <1>1 DEF VolumesRead
  <2>3. \A job \in vc'.todo : job.v \in work /\ job = [v |-> job.v, free |-> ~VolumeInUse(job.v)]
    BY <2>1
  <2>4. vc'.todo \subseteq VolumeJobs
    <3>1. \A v \in work : (~VolumeInUse(v)) \in BOOLEAN
      OBVIOUS
    <3>2. \A v \in work : [v |-> v, free |-> ~VolumeInUse(v)] \in VolumeJobs
      BY <3>1 DEF VolumeJobs
    <3> QED BY <2>1, <3>2
  <2>5. VolumeTypes'
    BY <2>1, <2>4 DEF VolumeTypes
  <2>6. OneJob(vc'.todo)
    <3> SUFFICES ASSUME NEW j \in vc'.todo, NEW k \in vc'.todo, j.v = k.v PROVE j = k
      BY DEF OneJob
    <3> QED BY <2>3
  <2>7. VolumePass'
    BY <2>1, <2>2, <2>3, <2>6 DEF VolumePass
  <2> QED BY <1>0, <1>k, <2>2, <2>5, <2>7 DEF VolumeFacts
<1>2. ASSUME NEW job \in vc.todo, VolumeTornDown(job)
      PROVE  VolumeFacts
  <2>1. /\ job \in VolumeJobs /\ vol[job.v] # "none" /\ vc.at = "scan"
        /\ vol' = [vol EXCEPT ![job.v] = "tearing"]
        /\ UNCHANGED <<lifecycle, closed, fails>>
    BY <1>0, <1>2 DEF VolumeTornDown, VolumeTypes, VolumePass
  <2>2. job.v \in Volumes
    BY <2>1 DEF VolumeJobs
  <2>3. /\ vol' \in [Volumes -> Life]
        /\ \A v \in Volumes : /\ vol[v] # "running" => vol'[v] # "running"
                              /\ vol[v] = "none" => vol'[v] = "none"
                              /\ vol[v] # "none" => vol'[v] # "none"
    BY <1>0, <2>1, <2>2 DEF Life
  <2>4. \A j \in vc.todo : vol'[j.v] # "none"
    BY <1>0, <2>3 DEF VolumePass, VolumeTypes, VolumeJobs
  <2>5. CASE job.free
    <3>1. vc' = [vc EXCEPT !.at = "close", !.job = job, !.todo = @ \ {job}] /\ UNCHANGED fin
      BY <1>2, <2>5 DEF VolumeTornDown
    <3>2. vc'.at = "close" /\ vc'.job = job /\ vc'.todo = vc.todo \ {job}
      BY <1>0, <3>1 DEF VolumeTypes
    <3>3. VolumeTypes'
      BY <1>0, <2>1, <3>1 DEF VolumeTypes
    <3>4. VolumePass'
      BY <1>0, <1>2, <2>4, <3>2 DEF VolumePass, OneJob
    <3> QED BY <1>0, <1>k, <2>1, <2>3, <3>1, <3>3, <3>4 DEF VolumeFacts, FinTypes
  <2>6. CASE ~job.free
    <3>1. /\ VolumeJobEnds(vc.todo \ {job}, TRUE)
          /\ UNCHANGED fin \/ fin' = [fin EXCEPT !.child = fin.child \union {job.v}]
      BY <1>2, <2>6 DEF VolumeTornDown
    <3>2. VolumeTypes' /\ VolumePass'
      <4>1. vc.todo \ {job} \in SUBSET vc.todo /\ TRUE \in BOOLEAN /\ \A j \in vc.todo \ {job} : vol'[j.v] # "none"
        BY <2>4
      <4> QED BY <1>e, <3>1, <4>1
    <3>3. \E x \in SUBSET Volumes : fin' = [fin EXCEPT !.child = x]
      <4>1. fin.child \union {job.v} \in SUBSET Volumes
        BY <1>0, <2>2 DEF FinTypes
      <4> QED BY <1>k, <3>1, <4>1
    <3> QED BY <1>0, <2>1, <2>3, <3>2, <3>3 DEF VolumeFacts, FinTypes
  <2> QED BY <2>5, <2>6
<1>3. CASE VolumeCloses
  <2>1. /\ vc.at = "close" /\ UNCHANGED <<lifecycle, vol, fin>>
        /\ closed' = closed \/ closed' = closed \union {vc.job.v}
        /\ UNCHANGED fails \/ (fails < MaxFails /\ fails' = fails + 1)
        /\ vc' = [vc EXCEPT !.at = "destroy"] \/ VolumeJobEnds(vc.todo, TRUE)
    BY <1>3 DEF VolumeCloses
  <2>2. vc.job.v \in Volumes
    BY <1>0, <2>1 DEF VolumeTypes, VolumeJobs
  <2>3. closed' \subseteq Volumes /\ fails' \in 0..MaxFails
    BY <1>0, <2>1, <2>2, MountsAssumption
  <2>4. ASSUME vc' = [vc EXCEPT !.at = "destroy"] PROVE VolumeTypes' /\ VolumePass'
    BY <1>0, <2>1, <2>4 DEF VolumeTypes, VolumePass, OneJob
  <2>5. ASSUME VolumeJobEnds(vc.todo, TRUE) PROVE VolumeTypes' /\ VolumePass'
    <3>1. vc.todo \in SUBSET vc.todo /\ TRUE \in BOOLEAN /\ \A j \in vc.todo : vol'[j.v] # "none"
      BY <1>0, <2>1 DEF VolumePass
    <3> QED BY <1>e, <2>5, <3>1
  <2> QED BY <1>0, <1>k, <2>1, <2>3, <2>4, <2>5 DEF VolumeFacts
<1>4. CASE VolumeDestroyed
  <2>1. /\ vc.at = "destroy" /\ UNCHANGED <<lifecycle, closed, fails>>
        /\ fin' = [fin EXCEPT !.child = fin.child \ {vc.job.v}]
    BY <1>4 DEF VolumeDestroyed
  <2>2. \E x \in SUBSET Volumes : fin' = [fin EXCEPT !.child = x]
    <3>1. fin.child \ {vc.job.v} \in SUBSET Volumes
      BY <1>0 DEF FinTypes
    <3> QED BY <2>1, <3>1
  <2>3. CASE VolumeInUse(vc.job.v)
    <3>1. vc' = [vc EXCEPT !.at = "scan", !.job = NoJob, !.todo = {}] /\ UNCHANGED vol
      BY <1>4, <2>3 DEF VolumeDestroyed
    <3>2. VolumeTypes' /\ VolumePass'
      BY <1>0, <3>1 DEF VolumeTypes, VolumePass, OneJob
    <3> QED BY <1>0, <2>1, <2>2, <3>1, <3>2 DEF VolumeFacts
  <2>4. CASE ~VolumeInUse(vc.job.v)
    <3>1. vol' = [vol EXCEPT ![vc.job.v] = "none"] /\ VolumeJobEnds(vc.todo, vc.open)
      BY <1>4, <2>4 DEF VolumeDestroyed
    <3>2. vc.job.v \in Volumes /\ vc.job.v \notin fin.vol /\ vc.open \in BOOLEAN
      BY <1>0, <2>1, <2>4 DEF VolumeTypes, VolumeJobs, VolumeInUse
    <3>3. /\ vol' \in [Volumes -> Life]
          /\ \A v \in Volumes : /\ vol[v] # "running" => vol'[v] # "running"
                                /\ vol[v] = "none" => vol'[v] = "none"
                                /\ v # vc.job.v => vol'[v] = vol[v]
      BY <1>0, <3>1, <3>2 DEF Life
    <3>4. \A j \in vc.todo : vol'[j.v] # "none"
      BY <1>0, <2>1, <3>3 DEF VolumePass, VolumeTypes, VolumeJobs
    <3>5. VolumeTypes' /\ VolumePass'
      <4>1. vc.todo \in SUBSET vc.todo
        OBVIOUS
      <4> QED BY <1>e, <3>1, <3>2, <3>4, <4>1
    <3>6. \A v \in fin.vol : vol'[v] # "none"
      BY <1>0, <3>2, <3>3 DEF FinTypes
    <3> QED BY <1>0, <2>1, <2>2, <3>3, <3>5, <3>6 DEF VolumeFacts
  <2> QED BY <2>3, <2>4
<1>5. CASE VolumesEnd
  <2>1. /\ vc.at = "end" /\ UNCHANGED <<vol, fin, closed, fails>>
        /\ vc' = [vc EXCEPT !.at = "scan", !.open = FALSE]
        /\ lifecycle' \in {lifecycle, "released"}
    BY <1>5 DEF VolumesEnd
  <2>2. VolumeTypes' /\ VolumePass'
    BY <1>0, <2>1 DEF VolumeTypes, VolumePass, OneJob
  <2> QED BY <1>0, <1>k, <2>1, <2>2 DEF VolumeFacts
<1> QED BY <1>1, <1>2, <1>3, <1>4, <1>5 DEF VolumeStep

LEMMA VolumePreserves == MountsInv /\ VolumeStep => MountsInv'
<1> SUFFICES ASSUME MountsInv, VolumeStep PROVE MountsInv'
  OBVIOUS
<1>f. UNCHANGED <<svc, runs, gaveUp, request, removed, mreq, reqBy, mstat, statBy, vms, mounted, rc, mc, sc>>
  BY DEF VolumeStep, VolumesRead, VolumeTornDown, VolumeCloses, VolumeDestroyed, VolumesEnd, VolumeUnchanged,
         svcVars, reqVars, statVars
<1>g. /\ FinTypes' /\ fin'.vol = fin.vol /\ fin'.req = fin.req /\ fin'.parent = fin.parent /\ fin'.svc = fin.svc
      /\ fin'.stat = fin.stat
      /\ \A k \in Kinds : fin'[k] = fin[k]
  BY VolumeFactsStep DEF VolumeFacts, MountsInv, Types, ResourceTypes, FinTypes, Kinds
<1>1. Types'
  BY <1>f, <1>g, VolumeFactsStep
     DEF VolumeFacts, MountsInv, Types, ServiceTypes, ResourceTypes, RequestTypes, MountTypes, StatusTypes, FinTypes
<1>2. ChainInv'
  <2>1. Pinned'
    BY <1>f, <1>g, VolumeFactsStep DEF VolumeFacts, MountsInv, ChainInv, Pinned
  <2>2. (StatusHeld /\ Reported /\ MountHeld /\ UsesHeld)'
    BY <1>f, <1>g DEF MountsInv, ChainInv, StatusHeld, Reported, MountHeld, UsesHeld, Uses
  <2> QED BY <2>1, <2>2 DEF ChainInv
<1>3. PassInv'
  <2>1. \A v \in Volumes : Doomed(v) => Doomed(v)'
    BY <1>f, VolumeFactsStep DEF VolumeFacts, Doomed
  <2>2. (TearingDoomed /\ WritesFresh /\ StatusPass)'
    BY <1>f, <1>g, <2>1 DEF MountsInv, PassInv, TearingDoomed, WritesFresh, StatusPass, OneJob
  <2>3. \A job : HoldsRest(job) => HoldsRest(job)'
    BY <1>g DEF HoldsRest
  <2>4. MountTodo' /\ MountNow'
    BY <1>f, <2>1, <2>3, VolumeFactsStep
       DEF VolumeFacts, MountsInv, Types, MountTypes, MountJobs, PassInv, MountTodo, MountNow, OneJob
  <2> QED BY <2>2, <2>4, VolumeFactsStep DEF VolumeFacts, PassInv
<1> QED BY <1>1, <1>2, <1>3 DEF MountsInv

LEMMA OutsidePreserves ==
  MountsInv /\ (LifecycleTornDown \/ ConfigPersisted \/ (\E v \in Volumes : ConfigRemoved(v)) \/ UNCHANGED vars) => MountsInv'
<1> SUFFICES ASSUME MountsInv, LifecycleTornDown \/ ConfigPersisted \/ (\E v \in Volumes : ConfigRemoved(v)) \/ UNCHANGED vars
             PROVE  MountsInv'
  OBVIOUS
<1>1. /\ UNCHANGED <<svc, runs, gaveUp, request, vol, mreq, reqBy, mstat, statBy, vms, fin, mounted, closed,
                     rc, mc, sc, vc, fails>>
      /\ lifecycle' \in {lifecycle, "held", "tearing"} /\ removed' \subseteq removed \union Removable
  BY DEF LifecycleTornDown, ConfigPersisted, ConfigRemoved, OutsideUnchanged, vars, svcVars, lifeVars, reqVars, statVars, passes
<1>2. Types'
  BY <1>1 DEF MountsInv, Types, ServiceTypes, ResourceTypes, RequestTypes, MountTypes, StatusTypes, VolumeTypes
<1>3. ChainInv'
  BY <1>1 DEF MountsInv, ChainInv, Pinned, StatusHeld, Reported, MountHeld, UsesHeld, Uses
<1>4. PassInv'
  BY <1>1 DEF MountsInv, PassInv, TearingDoomed, Doomed, WritesFresh, StatusPass, VolumePass, MountTodo, MountNow,
              HoldsRest, OneJob
<1> QED BY <1>2, <1>3, <1>4 DEF MountsInv

-----------------------------------------------------------------------------
(* The steps of MountController *)

(* What a step has to keep: it alone writes MountStatuses, mounts, and its *)
(* three finalizers.                                                       *)
MountOwnTypes ==
  /\ mstat \in [Volumes -> Life] /\ statBy \in [Volumes -> SUBSET Services]
  /\ FinTypes /\ mounted \subseteq Volumes /\ fails \in 0..MaxFails /\ MountTypes

MountFacts ==
  /\ MountOwnTypes'
  /\ fin'.stat = fin.stat /\ fin'.svc = fin.svc
  /\ (Pinned /\ Reported /\ MountHeld /\ TearingDoomed /\ WritesFresh /\ MountTodo /\ MountNow)'

MountFrame == UNCHANGED <<svc, runs, gaveUp, request, lifecycle, removed, vol, mreq, reqBy, vms, closed, rc, sc, vc>>

LEMMA MountFrameStep ==
  ASSUME MountUnchanged
  PROVE  MountFrame
BY DEF MountUnchanged, MountFrame, svcVars, lifeVars, reqVars

(* Run has returned an error. *)
LEMMA MountIdle ==
  ASSUME mc' = Idle
  PROVE  MountTypes' /\ MountTodo' /\ MountNow'
BY DEF Idle, MountTypes, MountTodo, MountNow, OneJob

(* A step that moves only the pass. *)
LEMMA MountQuiet ==
  ASSUME MountsInv, MountFrame, UNCHANGED <<mstat, statBy, fin, mounted>>, fails' \in 0..MaxFails,
         MountTypes', MountTodo', MountNow'
  PROVE  MountFacts
<1>1. MountOwnTypes'
  BY DEF MountOwnTypes, MountsInv, Types, ResourceTypes, FinTypes
<1>2. (Pinned /\ Reported /\ MountHeld /\ TearingDoomed /\ WritesFresh)'
  BY DEF MountFrame, MountsInv, ChainInv, PassInv, Pinned, Reported, MountHeld, TearingDoomed, Doomed, WritesFresh
<1> QED BY <1>1, <1>2 DEF MountFacts

(* A mount that has to go still has to when a MountStatus in use that is   *)
(* on its way out stays so.                                                *)
LEMMA DoomedKept ==
  ASSUME MountsInv, MountFrame,
         \A p \in Volumes : mstat[p] = "tearing" /\ MountStatusInUse(p) => mstat'[p] = "tearing",
         NEW v \in Volumes, mstat[v] # "none", Doomed(v)
  PROVE  Doomed(v)'
<1>1. CASE vol[v] # "running" \/ mreq[v] = "tearing"
  BY <1>1 DEF Doomed, MountFrame
<1>2. CASE HasParent(v) /\ mstat[Parent[v]] = "tearing"
  <2>1. v \in fin.parent
    BY <1>2 DEF MountsInv, ChainInv, Reported, MountHeld
  <2>2. Parent[v] \in Volumes /\ v \in Children(Parent[v])
    BY <1>2, MountsAssumption DEF HasParent, Children
  <2>3. MountStatusInUse(Parent[v])
    BY <2>1, <2>2 DEF MountStatusInUse
  <2> QED BY <1>2, <2>2, <2>3 DEF Doomed
<1> QED BY <1>1, <1>2 DEF Doomed

(* The jobs that are left keep what they rely on. *)
LEMMA TodoKept ==
  ASSUME MountsInv, MountFrame, mc'.todo \subseteq mc.todo,
         \A job \in mc'.todo : /\ mstat'[job.v] # "none" => mstat[job.v] # "none"
                               /\ \A k \in Kinds : job.v \in fin[k] => job.v \in fin'[k],
         \A v \in Volumes : mstat[v] # "none" /\ Doomed(v) => Doomed(v)'
  PROVE  MountTodo'
<1>1. OneJob(mc'.todo)
  BY DEF MountsInv, PassInv, MountTodo, OneJob
<1>2. ASSUME NEW job \in mc'.todo
      PROVE  /\ job.up <=> ~job.down
             /\ job.down => /\ ~job.there => vol'[job.v] = "none"
                            /\ mstat'[job.v] # "none" => Doomed(job.v)'
             /\ job.up => HoldsRest(job)'
  <2>1. /\ job.v \in Volumes
        /\ job.up <=> ~job.down
        /\ job.down => /\ ~job.there => vol[job.v] = "none"
                       /\ mstat[job.v] # "none" => Doomed(job.v)
        /\ job.up => HoldsRest(job)
    BY <1>2 DEF MountsInv, Types, MountTypes, MountJobs, PassInv, MountTodo
  <2>2. job.up => HoldsRest(job)'
    BY <1>2, <2>1 DEF HoldsRest
  <2> QED BY <1>2, <2>1, <2>2 DEF MountFrame
<1> QED BY <1>1, <1>2 DEF MountTodo

LEMMA MountsReadFacts ==
  ASSUME MountsInv, MountsRead
  PROVE  MountFacts
<1> DEFINE work == {w \in Volumes : MountWork(w)}
<1>0. /\ MountFrame /\ UNCHANGED <<mstat, statBy, fin, mounted, fails>>
      /\ mc' = [at |-> "scan", job |-> NoJob, todo |-> {MountJob(v) : v \in work}]
  BY MountFrameStep DEF MountsRead, Idle, statVars
<1>1. ASSUME NEW v \in work
      PROVE  /\ MountJob(v) \in MountJobs
             /\ MountJob(v).v = v
             /\ MountJob(v).down <=> ShouldTearDown(v)
             /\ MountJob(v).up <=> ShouldMount(v)
             /\ MountJob(v).there <=> vol[v] # "none"
             /\ MountJob(v).hold = {k \in Kinds : ShouldMount(v) /\ v \notin fin[k] /\ (k = "parent" => HasParent(v))}
  <2>1. /\ ShouldTearDown(v) \in BOOLEAN /\ ShouldMount(v) \in BOOLEAN /\ (vol[v] # "none") \in BOOLEAN
    BY DEF ShouldTearDown, ShouldMount
  <2>2. reqBy[v] \in SUBSET Services
    BY DEF MountsInv, Types, ResourceTypes
  <2>3. MountJob(v) \in MountJobs
    BY <2>1, <2>2 DEF MountJob, MountJobs
  <2> QED BY <2>1, <2>3 DEF MountJob
<1>2. MountTypes'
  BY <1>0, <1>1 DEF MountTypes
<1>3. ASSUME NEW v \in work
      PROVE  /\ ShouldMount(v) <=> ~ShouldTearDown(v)
             /\ ShouldTearDown(v) /\ mstat[v] # "none" => Doomed(v)
  <2>1. mstat[v] = "tearing" => Doomed(v)
    BY DEF MountsInv, PassInv, TearingDoomed
  <2> QED BY <2>1 DEF MountWork, ShouldTearDown, ShouldMount, Doomed
<1>4. MountTodo'
  <2>1. \A j, k \in mc'.todo : j.v = k.v => j = k
    BY <1>0, <1>1
  <2>2. ASSUME NEW job \in mc'.todo
        PROVE  /\ job.up <=> ~job.down
               /\ job.down => /\ ~job.there => vol'[job.v] = "none"
                              /\ mstat'[job.v] # "none" => Doomed(job.v)'
               /\ job.up => HoldsRest(job)'
    <3>1. PICK v \in work : job = MountJob(v)
      BY <1>0, <2>2
    <3>2. /\ job.v = v /\ (job.down <=> ShouldTearDown(v)) /\ (job.up <=> ShouldMount(v))
          /\ job.there <=> vol[v] # "none"
          /\ job.hold = {k \in Kinds : ShouldMount(v) /\ v \notin fin[k] /\ (k = "parent" => HasParent(v))}
      BY <1>1, <3>1
    <3>3. Doomed(v)' <=> Doomed(v)
      BY <1>0 DEF MountFrame, Doomed
    <3>4. ShouldMount(v) => HoldsRest(job)'
      BY <1>0, <3>2 DEF HoldsRest, Kinds
    <3>5. vol' = vol /\ mstat' = mstat
      BY <1>0 DEF MountFrame
    <3>6. /\ ShouldMount(v) <=> ~ShouldTearDown(v)
          /\ ShouldTearDown(v) /\ mstat[v] # "none" => Doomed(v)
      BY <1>3
    <3> QED BY <3>2, <3>3, <3>4, <3>5, <3>6
  <2> QED BY <2>1, <2>2 DEF MountTodo, OneJob
<1>5. MountNow'
  BY <1>0 DEF MountNow
<1>6. fails' \in 0..MaxFails
  BY <1>0 DEF MountsInv, Types, ServiceTypes
<1> QED BY <1>0, <1>2, <1>4, <1>5, <1>6, MountQuiet

(* The invariant's parts that the steps of a job start from. *)
JobStart ==
  /\ MountOwnTypes /\ Pinned /\ Reported /\ MountHeld /\ TearingDoomed /\ WritesFresh /\ MountTodo /\ MountNow
  /\ vol \in [Volumes -> Life] /\ mreq \in [Volumes -> Life] /\ mc.todo \subseteq MountJobs

LEMMA JobStarts == ASSUME MountsInv PROVE JobStart
BY DEF MountsInv, Types, ServiceTypes, ResourceTypes, FinTypes, MountTypes, ChainInv, PassInv, JobStart, MountOwnTypes

LEMMA TearDownFacts ==
  ASSUME MountsInv, NEW job \in mc.todo, TearDownMountStatus(job)
  PROVE  MountFacts
<1> DEFINE used == mstat[job.v] # "none" /\ MountStatusInUse(job.v)
<1>0. JobStart /\ MountFrame /\ UNCHANGED <<fin, mounted, fails>> /\ mc.at = "scan" /\ job.down
  BY JobStarts, MountFrameStep DEF TearDownMountStatus
<1>1. /\ job \in MountJobs /\ job.v \in Volumes
      /\ ~job.up /\ (~job.there => vol[job.v] = "none") /\ (mstat[job.v] # "none" => Doomed(job.v))
  BY <1>0 DEF JobStart, MountTodo, MountJobs
<1>2. /\ mstat' = [mstat EXCEPT ![job.v] = IF used THEN "tearing" ELSE "none"]
      /\ statBy' = IF used THEN statBy ELSE [statBy EXCEPT ![job.v] = {}]
      /\ mc' = IF used THEN [mc EXCEPT !.todo = @ \ {job}]
               ELSE [at |-> "unmount", job |-> job, todo |-> mc.todo \ {job}]
  BY DEF TearDownMountStatus, TornDown
<1>3. mstat' \in [Volumes -> Life] /\ statBy' \in [Volumes -> SUBSET Services]
  BY <1>0, <1>1, <1>2 DEF JobStart, MountOwnTypes, Life
<1>4. /\ mc'.todo = mc.todo \ {job} /\ mc'.at = (IF used THEN "scan" ELSE "unmount")
      /\ ~used => mc'.job = job
  BY <1>0, <1>2 DEF JobStart, MountOwnTypes, MountTypes
<1>5. MountTypes'
  BY <1>0, <1>1, <1>2 DEF JobStart, MountOwnTypes, MountTypes
<1>6. \A p \in Volumes : mstat[p] # "none" /\ MountStatusInUse(p) => mstat'[p] # "none"
  BY <1>0, <1>1, <1>2 DEF JobStart, MountOwnTypes
<1>7. ASSUME NEW v \in Volumes, mstat[v] # "none", Doomed(v)
      PROVE  Doomed(v)'
  <2>1. \A p \in Volumes : mstat[p] = "tearing" /\ MountStatusInUse(p) => mstat'[p] = "tearing"
    BY <1>0, <1>1, <1>2 DEF JobStart, MountOwnTypes
  <2> QED BY <1>0, <1>7, <2>1, DoomedKept
<1>8. Pinned'
  <2>1. \A v \in fin.parent : HasParent(v) /\ Parent[v] \in Volumes /\ MountStatusInUse(Parent[v])
    BY <1>0, MountsAssumption DEF JobStart, MountOwnTypes, FinTypes, Pinned, HasParent, MountStatusInUse, Children
  <2>2. \A v \in fin.stat : v \in Volumes /\ MountStatusInUse(v)
    BY <1>0 DEF JobStart, MountOwnTypes, FinTypes, MountStatusInUse
  <2> QED BY <1>0, <1>6, <2>1, <2>2 DEF JobStart, MountFrame, Pinned
<1>9. \A v \in Volumes : mstat'[v] # "none" => mstat[v] # "none"
  BY <1>0, <1>1, <1>2 DEF JobStart, MountOwnTypes
<1>10. (Reported /\ MountHeld /\ WritesFresh)'
  BY <1>0, <1>9 DEF JobStart, MountFrame, Reported, MountHeld, WritesFresh
<1>11. TearingDoomed'
  <2> SUFFICES ASSUME NEW v \in Volumes, mstat'[v] = "tearing" PROVE Doomed(v)'
    BY DEF TearingDoomed
  <2>1. mstat[v] # "none"
    BY <1>9
  <2>2. Doomed(v)
    BY <1>0, <1>1, <1>2, <2>1 DEF JobStart, MountOwnTypes, TearingDoomed
  <2> QED BY <1>7, <2>1, <2>2
<1>12. MountTodo'
  <2>1. \A j \in mc'.todo : /\ mstat'[j.v] # "none" => mstat[j.v] # "none"
                            /\ \A k \in Kinds : j.v \in fin[k] => j.v \in fin'[k]
    BY <1>0, <1>4, <1>9 DEF JobStart, MountJobs
  <2>2. mc'.todo \subseteq mc.todo
    BY <1>4
  <2> QED BY <1>0, <1>7, <2>1, <2>2, TodoKept
<1>13. MountNow'
  <2>1. CASE used
    BY <1>4, <2>1 DEF MountNow
  <2>2. CASE ~used
    <3>1. mstat'[job.v] = "none" /\ vol' = vol
      BY <1>0, <1>1, <1>2, <2>2 DEF JobStart, MountOwnTypes, MountFrame
    <3>2. \A j \in mc.todo \ {job} : j.v # job.v
      BY <1>0 DEF JobStart, MountTodo, OneJob
    <3> QED BY <1>1, <1>4, <2>2, <3>1, <3>2 DEF MountNow
  <2> QED BY <2>1, <2>2
<1>14. MountOwnTypes'
  BY <1>0, <1>3, <1>5 DEF JobStart, MountOwnTypes, FinTypes
<1> QED BY <1>0, <1>8, <1>10, <1>11, <1>12, <1>13, <1>14 DEF MountFacts

LEMMA BeginMountFacts ==
  ASSUME MountsInv, NEW job \in mc.todo, BeginMount(job)
  PROVE  MountFacts
<1>0. /\ JobStart /\ MountFrame /\ UNCHANGED <<mstat, statBy, fin, mounted, fails>> /\ mc.at = "scan" /\ ~job.down
      /\ mc' = [at |-> "hold", job |-> job, todo |-> mc.todo \ {job}]
  BY JobStarts, MountFrameStep DEF BeginMount, statVars
<1>1. job \in MountJobs /\ HoldsRest(job)
  BY <1>0 DEF JobStart, MountTodo
<1>2. MountTypes'
  BY <1>0, <1>1 DEF JobStart, MountTypes
<1>3. MountTodo'
  <2>1. \A v \in Volumes : Doomed(v) => Doomed(v)'
    BY <1>0 DEF MountFrame, Doomed
  <2> QED BY <1>0, <2>1, TodoKept
<1>4. MountNow'
  <2>1. HoldsRest(job)'
    BY <1>0, <1>1 DEF HoldsRest
  <2>2. \A j \in mc.todo \ {job} : j.v # job.v
    BY <1>0 DEF JobStart, MountTodo, OneJob
  <2> QED BY <1>0, <2>1, <2>2 DEF MountNow
<1>5. fails' \in 0..MaxFails
  BY <1>0 DEF JobStart, MountOwnTypes
<1> QED BY <1>0, <1>2, <1>3, <1>4, <1>5, MountQuiet

LEMMA UnmountsFacts ==
  ASSUME MountsInv, Unmounts
  PROVE  MountFacts
<1>0. JobStart /\ MountFrame /\ UNCHANGED <<mstat, statBy, fin>> /\ mc.at = "unmount"
  BY JobStarts, MountFrameStep DEF Unmounts, statVars
<1>1. /\ mc.job \in MountJobs /\ mc.job.v \in Volumes /\ ~mc.job.up /\ mstat[mc.job.v] = "none"
      /\ ~mc.job.there => vol[mc.job.v] = "none"
      /\ \A j \in mc.todo : j.v # mc.job.v
  BY <1>0 DEF JobStart, MountOwnTypes, MountTypes, MountNow, MountJobs
<1>2. CASE UNCHANGED mounted /\ mc' = Idle /\ fails < MaxFails /\ fails' = fails + 1
  <2>1. fails' \in 0..MaxFails
    BY <1>0, <1>2, MountsAssumption DEF JobStart, MountOwnTypes
  <2> QED BY <1>0, <1>2, <2>1, MountIdle, MountQuiet
<1>3. CASE /\ mounted' = (IF mc.job.there THEN mounted \ {mc.job.v} ELSE mounted) /\ UNCHANGED fails
           /\ IF mc.job.free # {} THEN MountAt("free") ELSE GoesUp(mc.job)
  <2>1. mounted' = mounted \ {mc.job.v}
    <3>1. vol[mc.job.v] = "none" => mc.job.v \notin mounted
      BY <1>0 DEF JobStart, MountHeld, Pinned
    <3> QED BY <1>1, <1>3, <3>1
  <2>2. mc' = [mc EXCEPT !.at = "free"] \/ mc' = [mc EXCEPT !.at = "scan", !.job = NoJob]
    BY <1>1, <1>3 DEF MountAt, GoesUp, MountJobEnds
  <2>3. mc'.todo = mc.todo /\ MountTypes' /\ (mc'.at = "scan" \/ (mc'.at = "free" /\ mc'.job = mc.job))
    BY <1>0, <1>1, <2>2 DEF JobStart, MountOwnTypes, MountTypes
  <2>4. MountTodo'
    <3>1. \A v \in Volumes : Doomed(v) => Doomed(v)'
      BY <1>0 DEF MountFrame, Doomed
    <3> QED BY <1>0, <2>3, <3>1, TodoKept
  <2>5. MountNow'
    BY <1>0, <1>1, <2>1, <2>3 DEF MountNow
  <2>6. (Pinned /\ Reported /\ MountHeld /\ TearingDoomed /\ WritesFresh)'
    BY <1>0, <1>1, <2>1 DEF JobStart, MountFrame, Pinned, Reported, MountHeld, TearingDoomed, Doomed, WritesFresh
  <2>7. MountOwnTypes'
    BY <1>0, <1>3, <2>1, <2>3 DEF JobStart, MountOwnTypes, FinTypes
  <2> QED BY <1>0, <2>4, <2>5, <2>6, <2>7 DEF MountFacts
<1> QED BY <1>2, <1>3 DEF Unmounts, MountPassFails

(* A job with one finalizer less to remove or to add. *)
LEMMA JobShrinks ==
  ASSUME MountTypes, mc.at # "scan", NEW S \in SUBSET Kinds,
         \/ mc' = [mc EXCEPT !.job.free = S]
         \/ mc' = [mc EXCEPT !.job.hold = S]
  PROVE  /\ MountTypes' /\ mc'.at = mc.at /\ mc'.todo = mc.todo
         /\ mc'.job.v = mc.job.v /\ mc'.job.up = mc.job.up
         /\ mc' = [mc EXCEPT !.job.hold = S] => mc'.job.hold = S
<1>0. mc.job \in MountJobs
  BY DEF MountTypes
<1>1. CASE mc' = [mc EXCEPT !.job.free = S]
  <2>1. mc'.job = [mc.job EXCEPT !.free = S] /\ mc'.at = mc.at /\ mc'.todo = mc.todo
    BY <1>1 DEF MountTypes
  <2>2. mc'.job \in MountJobs
    BY <1>0, <2>1 DEF MountJobs
  <2>3. mc' = [mc EXCEPT !.job = mc'.job]
    BY <1>1, <2>1 DEF MountTypes
  <2>4. mc'.job.v = mc.job.v /\ mc'.job.up = mc.job.up /\ mc'.job.hold = mc.job.hold
    BY <1>0, <2>1 DEF MountJobs
  <2>5. mc' = [mc EXCEPT !.job.hold = S] => mc'.job.hold = S
    <3>1. mc' = [mc EXCEPT !.job.hold = S] => mc'.job = [mc.job EXCEPT !.hold = S]
      BY DEF MountTypes
    <3> QED BY <1>0, <3>1 DEF MountJobs
  <2> QED BY <2>1, <2>2, <2>3, <2>4, <2>5 DEF MountTypes
<1>2. CASE mc' = [mc EXCEPT !.job.hold = S]
  <2>1. mc'.job = [mc.job EXCEPT !.hold = S] /\ mc'.at = mc.at /\ mc'.todo = mc.todo
    BY <1>2 DEF MountTypes
  <2>2. mc'.job \in MountJobs
    BY <1>0, <2>1 DEF MountJobs
  <2>3. mc' = [mc EXCEPT !.job = mc'.job]
    BY <1>2, <2>1 DEF MountTypes
  <2>4. mc'.job.v = mc.job.v /\ mc'.job.up = mc.job.up /\ mc'.job.hold = S
    BY <1>0, <2>1 DEF MountJobs
  <2> QED BY <2>1, <2>2, <2>3, <2>4 DEF MountTypes
<1> QED BY <1>1, <1>2

LEMMA FreesFacts ==
  ASSUME MountsInv, Frees
  PROVE  MountFacts
<1>0. JobStart /\ MountFrame /\ UNCHANGED <<mstat, statBy, mounted, fails>> /\ mc.at = "free"
  BY JobStarts, MountFrameStep DEF Frees, statVars
<1>1. /\ mc.job \in MountJobs /\ mc.job.v \in Volumes /\ ~mc.job.up /\ mstat[mc.job.v] = "none"
      /\ mc.job.v \notin mounted
      /\ \A j \in mc.todo : j.v # mc.job.v
  BY <1>0 DEF JobStart, MountOwnTypes, MountTypes, MountNow, MountJobs
<1>2. PICK k \in mc.job.free :
        /\ fin' = [fin EXCEPT ![k] = @ \ {mc.job.v}]
        /\ IF mc.job.free # {k} THEN mc' = [mc EXCEPT !.job.free = @ \ {k}] ELSE GoesUp(mc.job)
  BY DEF Frees
<1>3. k \in Kinds
  BY <1>1 DEF MountJobs
<1>4. /\ FinTypes' /\ fin'.stat = fin.stat /\ fin'.svc = fin.svc
      /\ fin'.vol \subseteq fin.vol /\ fin'.req \subseteq fin.req /\ fin'.parent \subseteq fin.parent
      /\ \A l \in Kinds : \A v \in fin[l] : v = mc.job.v \/ v \in fin'[l]
  <2>1. CASE k = "vol"
    BY <1>0, <1>2, <2>1 DEF JobStart, MountOwnTypes, FinTypes, Kinds
  <2>2. CASE k = "parent"
    BY <1>0, <1>2, <2>2 DEF JobStart, MountOwnTypes, FinTypes, Kinds
  <2>3. CASE k = "req"
    BY <1>0, <1>2, <2>3 DEF JobStart, MountOwnTypes, FinTypes, Kinds
  <2> QED BY <1>3, <2>1, <2>2, <2>3 DEF Kinds
<1>5. mc' = [mc EXCEPT !.job.free = mc.job.free \ {k}] \/ mc' = [mc EXCEPT !.at = "scan", !.job = NoJob]
  BY <1>1, <1>2 DEF GoesUp, MountJobEnds
<1>6. /\ mc'.todo = mc.todo /\ MountTypes'
      /\ mc'.at = "scan" \/ (mc'.at = "free" /\ mc'.job.v = mc.job.v /\ mc'.job.up = mc.job.up)
  <2>1. CASE mc' = [mc EXCEPT !.job.free = mc.job.free \ {k}]
    <3>1. MountTypes /\ mc.at # "scan" /\ mc.job.free \ {k} \in SUBSET Kinds
      BY <1>0, <1>1 DEF JobStart, MountOwnTypes, MountJobs
    <3> QED BY <1>0, <2>1, <3>1, JobShrinks
  <2>2. CASE mc' = [mc EXCEPT !.at = "scan", !.job = NoJob]
    BY <1>0, <2>2 DEF JobStart, MountOwnTypes, MountTypes
  <2> QED BY <1>5, <2>1, <2>2
<1>7. MountTodo'
  <2>1. \A v \in Volumes : Doomed(v) => Doomed(v)'
    BY <1>0 DEF MountFrame, Doomed
  <2>2. \A j \in mc.todo : \A l \in Kinds : j.v \in fin[l] => j.v \in fin'[l]
    BY <1>1, <1>4
  <2> QED BY <1>0, <1>6, <2>1, <2>2, TodoKept
<1>8. MountNow'
  BY <1>0, <1>1, <1>6 DEF MountNow
<1>9. MountHeld'
  BY <1>0, <1>1, <1>4 DEF JobStart, MountHeld, Kinds
<1>10. (Pinned /\ Reported /\ TearingDoomed /\ WritesFresh)'
  BY <1>0, <1>4 DEF JobStart, MountFrame, Pinned, Reported, TearingDoomed, Doomed, WritesFresh
<1>11. MountOwnTypes'
  BY <1>0, <1>4, <1>6 DEF JobStart, MountOwnTypes
<1> QED BY <1>4, <1>7, <1>8, <1>9, <1>10, <1>11 DEF MountFacts

LEMMA HoldsFacts ==
  ASSUME MountsInv, Holds
  PROVE  MountFacts
<1>0. JobStart /\ MountFrame /\ UNCHANGED <<mstat, statBy, mounted, fails>> /\ mc.at = "hold"
  BY JobStarts, MountFrameStep DEF Holds, statVars
<1>1. /\ MountTypes /\ mc.job \in MountJobs /\ mc.job.v \in Volumes /\ HoldsRest(mc.job)
      /\ \A j \in mc.todo : j.v # mc.job.v
  BY <1>0 DEF JobStart, MountOwnTypes, MountTypes, MountNow, MountJobs
<1>2. PICK k \in mc.job.hold :
        IF HeldPhase(mc.job.v, k) # "running" THEN mc' = Idle /\ UNCHANGED fin
        ELSE /\ fin' = [fin EXCEPT ![k] = @ \union {mc.job.v}]
             /\ mc' = [mc EXCEPT !.job.hold = @ \ {k}]
  BY DEF Holds, MountPassFails
<1>3. k \in Kinds
  BY <1>1 DEF MountJobs
<1>4. CASE HeldPhase(mc.job.v, k) # "running"
  <2>1. fails' \in 0..MaxFails
    BY <1>0 DEF JobStart, MountOwnTypes
  <2> QED BY <1>0, <1>2, <1>4, <2>1, MountIdle, MountQuiet
<1>5. CASE HeldPhase(mc.job.v, k) = "running"
  <2>1. /\ FinTypes' /\ fin'.stat = fin.stat /\ fin'.svc = fin.svc
        /\ fin.vol \subseteq fin'.vol /\ fin.req \subseteq fin'.req /\ fin.parent \subseteq fin'.parent
        /\ \A l \in Kinds : fin[l] \subseteq fin'[l]
        /\ mc.job.v \in fin'[k]
        /\ \A v \in fin'.vol : v \in fin.vol \/ (v = mc.job.v /\ vol[v] = "running")
        /\ \A v \in fin'.req : v \in fin.req \/ (v = mc.job.v /\ mreq[v] = "running")
        /\ \A v \in fin'.parent : v \in fin.parent \/ (v = mc.job.v /\ HasParent(v) /\ mstat[Parent[v]] = "running")
    <3>1. CASE k = "vol"
      <4>1. fin' = [fin EXCEPT !.vol = fin.vol \union {mc.job.v}] /\ vol[mc.job.v] = "running"
        BY <1>2, <1>5, <3>1 DEF HeldPhase
      <4> QED BY <1>0, <1>1, <3>1, <4>1 DEF JobStart, MountOwnTypes, FinTypes, Kinds
    <3>2. CASE k = "parent"
      <4>1. fin' = [fin EXCEPT !.parent = fin.parent \union {mc.job.v}] /\ mstat[Parent[mc.job.v]] = "running"
        BY <1>2, <1>5, <3>2 DEF HeldPhase
      <4>2. HasParent(mc.job.v)
        BY <1>1, <1>2, <3>2 DEF HoldsRest
      <4> QED BY <1>0, <1>1, <3>2, <4>1, <4>2 DEF JobStart, MountOwnTypes, FinTypes, Kinds
    <3>3. CASE k = "req"
      <4>1. fin' = [fin EXCEPT !.req = fin.req \union {mc.job.v}] /\ mreq[mc.job.v] = "running"
        BY <1>2, <1>5, <3>3 DEF HeldPhase
      <4> QED BY <1>0, <1>1, <3>3, <4>1 DEF JobStart, MountOwnTypes, FinTypes, Kinds
    <3> QED BY <1>3, <3>1, <3>2, <3>3 DEF Kinds
  <2>2. /\ MountTypes' /\ mc'.at = "hold" /\ mc'.todo = mc.todo /\ mc'.job.v = mc.job.v
        /\ mc'.job.hold = mc.job.hold \ {k}
    <3>1. mc' = [mc EXCEPT !.job.hold = mc.job.hold \ {k}] /\ mc.job.hold \ {k} \in SUBSET Kinds
      BY <1>1, <1>2, <1>5 DEF MountJobs
    <3> QED BY <1>0, <1>1, <3>1, JobShrinks
  <2>3. MountTodo'
    <3>1. \A v \in Volumes : Doomed(v) => Doomed(v)'
      BY <1>0 DEF MountFrame, Doomed
    <3> QED BY <1>0, <2>1, <2>2, <3>1, TodoKept
  <2>4. MountNow'
    <3>1. HoldsRest(mc.job)' 
      BY <1>1, <1>3, <2>1, <2>2 DEF HoldsRest
    <3> QED BY <1>1, <2>2, <3>1 DEF MountNow
  <2>5. Pinned'
    <3>1. /\ \A v \in fin'.vol : vol[v] # "none"
          /\ \A v \in fin'.req : mreq[v] # "none"
          /\ \A v \in fin'.parent : HasParent(v) /\ mstat[Parent[v]] # "none"
      BY <1>0, <2>1 DEF JobStart, Pinned
    <3> QED BY <1>0, <2>1, <3>1 DEF JobStart, MountFrame, Pinned
  <2>6. WritesFresh'
    BY <1>0, <2>1 DEF JobStart, MountFrame, WritesFresh
  <2>7. (Reported /\ MountHeld /\ TearingDoomed)'
    BY <1>0, <2>1 DEF JobStart, MountFrame, Reported, MountHeld, TearingDoomed, Doomed
  <2>8. MountOwnTypes'
    BY <1>0, <2>1, <2>2 DEF JobStart, MountOwnTypes
  <2> QED BY <2>1, <2>3, <2>4, <2>5, <2>6, <2>7, <2>8 DEF MountFacts
<1> QED BY <1>4, <1>5

LEMMA MountsVolumeFacts ==
  ASSUME MountsInv, MountsVolume
  PROVE  MountFacts
<1>0. JobStart /\ MountFrame /\ UNCHANGED <<mstat, statBy, fin>> /\ mc.at = "hold" /\ mc.job.hold = {}
  BY JobStarts, MountFrameStep DEF MountsVolume, statVars
<1>1. /\ mc.job \in MountJobs /\ mc.job.v \in Volumes /\ HoldsRest(mc.job)
      /\ \A j \in mc.todo : j.v # mc.job.v
  BY <1>0 DEF JobStart, MountOwnTypes, MountTypes, MountNow, MountJobs
<1>2. CASE UNCHANGED mounted /\ mc' = Idle /\ (UNCHANGED fails \/ (fails < MaxFails /\ fails' = fails + 1))
  <2>1. fails' \in 0..MaxFails
    BY <1>0, <1>2, MountsAssumption DEF JobStart, MountOwnTypes
  <2> QED BY <1>0, <1>2, <2>1, MountIdle, MountQuiet
<1>3. CASE /\ mounted' = mounted \union {mc.job.v}
           /\ \/ mc' = [mc EXCEPT !.at = "report"] /\ UNCHANGED fails
              \/ mc' = Idle /\ fails < MaxFails /\ fails' = fails + 1
  <2>0. fails' \in 0..MaxFails
    BY <1>0, <1>3, MountsAssumption DEF JobStart, MountOwnTypes
  <2>1. mc.job.v \in fin.vol /\ mc.job.v \in fin.req /\ (HasParent(mc.job.v) => mc.job.v \in fin.parent)
    BY <1>0, <1>1 DEF HoldsRest, Kinds
  <2>2. MountTypes' /\ MountTodo' /\ MountNow'
    <3>1. CASE mc' = [mc EXCEPT !.at = "report"]
      <4>1. MountTypes' /\ mc'.at = "report" /\ mc'.todo = mc.todo /\ mc'.job = mc.job
        BY <1>0, <1>1, <3>1 DEF JobStart, MountOwnTypes, MountTypes
      <4>2. \A v \in Volumes : Doomed(v) => Doomed(v)'
        BY <1>0 DEF MountFrame, Doomed
      <4>3. MountTodo'
        BY <1>0, <4>1, <4>2, TodoKept
      <4>4. MountNow'
        BY <1>1, <1>3, <4>1 DEF MountNow
      <4> QED BY <4>1, <4>3, <4>4
    <3> QED BY <1>3, <3>1, MountIdle
  <2>5. MountHeld'
    BY <1>0, <1>3, <2>1 DEF JobStart, MountHeld
  <2>6. (Pinned /\ Reported /\ TearingDoomed /\ WritesFresh)'
    BY <1>0, <1>3 DEF JobStart, MountFrame, Pinned, Reported, TearingDoomed, Doomed, WritesFresh
  <2>7. MountOwnTypes'
    BY <1>0, <1>1, <1>3, <2>0, <2>2 DEF JobStart, MountOwnTypes, FinTypes
  <2> QED BY <1>0, <2>2, <2>5, <2>6, <2>7 DEF MountFacts
<1> QED BY <1>2, <1>3 DEF MountsVolume, MountPassFails, MountAt

LEMMA ReportsMountFacts ==
  ASSUME MountsInv, ReportsMount
  PROVE  MountFacts
<1>0. JobStart /\ MountFrame /\ UNCHANGED <<fin, mounted, fails>> /\ mc.at = "report"
  BY JobStarts, MountFrameStep DEF ReportsMount
<1>1. /\ mc.job \in MountJobs /\ mc.job.v \in Volumes /\ mc.job.v \in mounted
      /\ \A j \in mc.todo : j.v # mc.job.v
  BY <1>0 DEF JobStart, MountOwnTypes, MountTypes, MountNow, MountJobs
<1>2. CASE mstat[mc.job.v] = "tearing"
  <2>1. UNCHANGED <<mstat, statBy>> /\ mc' = Idle
    BY <1>2 DEF ReportsMount, MountPassFails, statVars
  <2>2. fails' \in 0..MaxFails
    BY <1>0 DEF JobStart, MountOwnTypes
  <2> QED BY <1>0, <2>1, <2>2, MountIdle, MountQuiet
<1>3. CASE mstat[mc.job.v] # "tearing"
  <2>1. /\ mstat' = [mstat EXCEPT ![mc.job.v] = "running"]
        /\ statBy' = [statBy EXCEPT ![mc.job.v] = mc.job.by]
        /\ mc' = [mc EXCEPT !.at = "scan", !.job = NoJob]
    BY <1>3 DEF ReportsMount, MountJobEnds
  <2>2. MountTypes' /\ mc'.at = "scan" /\ mc'.todo = mc.todo
    BY <1>0, <2>1 DEF JobStart, MountOwnTypes, MountTypes
  <2>3. /\ mstat' \in [Volumes -> Life]
        /\ \A v \in Volumes : v # mc.job.v => mstat'[v] = mstat[v]
        /\ mstat'[mc.job.v] = "running"
    BY <1>0, <1>1, <2>1 DEF JobStart, MountOwnTypes, Life
  <2>4. ASSUME NEW v \in Volumes, mstat[v] # "none", Doomed(v)
        PROVE  Doomed(v)'
    <3>1. \A p \in Volumes : mstat[p] = "tearing" /\ MountStatusInUse(p) => mstat'[p] = "tearing"
      BY <1>3, <2>3
    <3> QED BY <1>0, <2>4, <3>1, DoomedKept
  <2>5. MountTodo'
    <3>1. \A j \in mc'.todo : /\ mstat'[j.v] # "none" => mstat[j.v] # "none"
                              /\ \A k \in Kinds : j.v \in fin[k] => j.v \in fin'[k]
      BY <1>0, <1>1, <2>2, <2>3 DEF JobStart, MountJobs
    <3> QED BY <1>0, <2>2, <2>4, <3>1, TodoKept
  <2>6. MountNow'
    BY <2>2 DEF MountNow
  <2>7. TearingDoomed'
    <3> SUFFICES ASSUME NEW v \in Volumes, mstat'[v] = "tearing" PROVE Doomed(v)'
      BY DEF TearingDoomed
    <3>1. mstat[v] = "tearing"
      BY <2>3
    <3> QED BY <1>0, <2>4, <3>1 DEF JobStart, TearingDoomed
  <2>8. Pinned'
    <3>1. \A v \in Volumes : mstat[v] # "none" => mstat'[v] # "none"
      BY <2>3
    <3>2. \A v \in fin.parent : Parent[v] \in Volumes
      BY <1>0, MountsAssumption DEF JobStart, MountOwnTypes, FinTypes, Pinned, HasParent
    <3> QED BY <1>0, <3>1, <3>2 DEF JobStart, MountOwnTypes, FinTypes, MountFrame, Pinned
  <2>9. (Reported /\ MountHeld /\ WritesFresh)'
    BY <1>0, <1>1, <2>3 DEF JobStart, MountFrame, Reported, MountHeld, WritesFresh
  <2>10. statBy' \in [Volumes -> SUBSET Services]
    BY <1>0, <1>1, <2>1 DEF JobStart, MountOwnTypes, MountJobs
  <2>11. MountOwnTypes'
    BY <1>0, <2>2, <2>3, <2>10 DEF JobStart, MountOwnTypes, FinTypes
  <2> QED BY <1>0, <2>5, <2>6, <2>7, <2>8, <2>9, <2>11 DEF MountFacts
<1> QED BY <1>2, <1>3

LEMMA MountPreserves == MountsInv /\ MountStep => MountsInv'
<1> SUFFICES ASSUME MountsInv, MountStep PROVE MountsInv'
  OBVIOUS
<1>f. MountFrame
  <2>1. MountUnchanged
    BY DEF MountStep, MountsRead, TearDownMountStatus, BeginMount, Unmounts, Frees, Holds, MountsVolume, ReportsMount
  <2> QED BY <2>1, MountFrameStep
<1>m. MountFacts
  BY MountsReadFacts, TearDownFacts, BeginMountFacts, UnmountsFacts, FreesFacts, HoldsFacts, MountsVolumeFacts,
     ReportsMountFacts DEF MountStep
<1>1. Types'
  BY <1>f, <1>m DEF MountFacts, MountOwnTypes, MountFrame, MountsInv, Types, ServiceTypes, ResourceTypes, FinTypes,
                    RequestTypes, StatusTypes, VolumeTypes
<1>2. (StatusHeld /\ UsesHeld)'
  BY <1>f, <1>m DEF MountFacts, MountFrame, MountsInv, ChainInv, StatusHeld, UsesHeld, Uses
<1>3. (StatusPass /\ VolumePass)'
  BY <1>f, <1>m DEF MountFacts, MountFrame, MountsInv, PassInv, StatusPass, VolumePass, OneJob
<1> QED BY <1>m, <1>1, <1>2, <1>3 DEF MountFacts, MountsInv, ChainInv, PassInv

-----------------------------------------------------------------------------
(* Theorems *)

LEMMA InitMounts == Init => MountsInv
<1> SUFFICES ASSUME Init PROVE MountsInv
  OBVIOUS
<1>1. ServiceTypes
  BY MountsAssumption, WantsFacts DEF Init, ServiceTypes
<1>2. ResourceTypes
  BY MountsAssumption DEF Init, ResourceTypes, Life
<1>3. RequestTypes /\ MountTypes /\ StatusTypes /\ VolumeTypes
  BY DEF Init, Idle, RequestTypes, MountTypes, StatusTypes, VolumeTypes
<1>4. ChainInv
  BY DEF Init, ChainInv, Pinned, StatusHeld, Reported, MountHeld, UsesHeld, Uses
<1>5. PassInv
  BY DEF Init, Idle, PassInv, TearingDoomed, WritesFresh, MountTodo, MountNow, StatusPass, VolumePass, OneJob
<1> QED BY <1>1, <1>2, <1>3, <1>4, <1>5 DEF MountsInv, Types

(* The resources, the finalizers and the lists of the four controllers     *)
(* stay consistent: what carries a finalizer is there, each finalizer of   *)
(* the chain from a service to the mount rests on the next, and what a     *)
(* pass has listed is stale only in ways that do no harm: in particular    *)
(* MountController.Run never goes on to mount, with a list of finalizers   *)
(* it has removed since, what it has just unmounted.                       *)
THEOREM MountsInvariant == Spec => []MountsInv
<1>1. MountsInv /\ [Next]_vars => MountsInv'
  <2> SUFFICES ASSUME MountsInv, [Next]_vars PROVE MountsInv'
    OBVIOUS
  <2>1. CASE \E s \in Services : ServiceMoves(s)
    BY <2>1, ServicePreserves
  <2>2. CASE RequestStep
    BY <2>2, RequestPreserves
  <2>3. CASE MountStep
    BY <2>3, MountPreserves
  <2>4. CASE StatusStep
    BY <2>4, StatusPreserves
  <2>5. CASE VolumeStep
    BY <2>5, VolumePreserves
  <2>6. CASE LifecycleTornDown \/ ConfigPersisted \/ (\E v \in Volumes : ConfigRemoved(v)) \/ UNCHANGED vars
    BY <2>6, OutsidePreserves
  <2> QED BY <2>1, <2>2, <2>3, <2>4, <2>5, <2>6 DEF Next, ServiceMoves, ServiceStep
<1> QED BY <1>1, InitMounts, PTL DEF Spec

(* MountController never unmounts a volume under the volumes mounted in    *)
(* it, nor mounts one in a volume that is not mounted: its finalizer on    *)
(* the parent's MountStatus goes only after the unmount, and that status   *)
(* goes before its volume is unmounted.                                    *)
THEOREM ParentsStayMounted == Spec => []ParentStaysMounted
<1>1. MountsInv => ParentStaysMounted
  <2> SUFFICES ASSUME MountsInv, NEW v \in mounted, HasParent(v) PROVE Parent[v] \in mounted
    BY DEF ParentStaysMounted
  <2>1. v \in fin.parent
    BY DEF MountsInv, ChainInv, MountHeld
  <2>2. Parent[v] \in Volumes /\ mstat[Parent[v]] # "none"
    BY <2>1, MountsAssumption DEF MountsInv, Types, ResourceTypes, ChainInv, Pinned, HasParent
  <2> QED BY <2>2 DEF MountsInv, ChainInv, Reported
<1> QED BY <1>1, MountsInvariant, PTL

(* While a volume is mounted its VolumeStatus and its MountRequest are     *)
(* there and carry MountController's finalizers: the volume manager cannot *)
(* destroy the one, nor MountRequestController the other, under a mount.   *)
THEOREM MountsAreTracked == Spec => []MountIsTracked
<1>1. MountsInv => TypeOK
  BY DEF MountsInv, Types, ServiceTypes, ResourceTypes, MountTypes, StatusTypes, VolumeTypes, TypeOK
<1>2. MountsInv => \A v \in mounted : vol[v] # "none" /\ mreq[v] # "none" /\ v \in fin.vol \intersect fin.req
  BY DEF MountsInv, ChainInv, MountHeld, Pinned
<1> QED BY <1>1, <1>2, MountsInvariant, PTL DEF MountIsTracked

(* What a service uses stays mounted, with the volume it lies in, until    *)
(* deleteVolumeMountRequest removes the service's finalizers, whatever     *)
(* requests come and go, which cleanups are given up and which volumes are *)
(* torn down meanwhile.                                                    *)
THEOREM UsedStaysMounted == Spec => []UsedIsMounted
<1>1. MountsInv => UsedIsMounted
  <2> SUFFICES ASSUME MountsInv, NEW s \in Services, NEW v \in Using(s)
               PROVE  v \in mounted /\ (HasParent(v) => Parent[v] \in mounted)
    BY DEF UsedIsMounted
  <2>1. PICK j \in 1..Len(Wants[s]) : v = Wants[s][j] /\ Uses(s, j)
    BY DEF Using, Uses
  <2>2. <<s, v>> \in fin.svc /\ v \in Volumes /\ <<s, v>> \in Requests
    BY <2>1, WantsFacts DEF MountsInv, ChainInv, UsesHeld, Requests
  <2>3. vms[<<s, v>>] # "none"
    BY <2>2 DEF MountsInv, ChainInv, Pinned
  <2>4. v \in fin.stat
    BY <2>2, <2>3 DEF MountsInv, ChainInv, StatusHeld
  <2>5. v \in mounted
    BY <2>2, <2>4 DEF MountsInv, ChainInv, Pinned, Reported
  <2>6. HasParent(v) => Parent[v] \in Volumes /\ mstat[Parent[v]] # "none"
    BY <2>2, <2>5, MountsAssumption DEF MountsInv, ChainInv, MountHeld, Pinned, HasParent
  <2> QED BY <2>5, <2>6 DEF MountsInv, ChainInv, Reported
<1> QED BY <1>1, MountsInvariant, PTL

=============================================================================
