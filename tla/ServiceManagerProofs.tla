------------------------ MODULE ServiceManagerProofs ------------------------
(* Proofs about the service manager, for any services, dependencies,        *)
(* clients and operations.                                                  *)
EXTENDS ServiceManager, FiniteSetTheorems, TLAPS

Outcomes == {"none", "finished", "failed", "skipped"}

RunRecords == [svc : Services, runner : Nat, pc : RunPCs, cancelled : BOOLEAN, outcome : Outcomes]

(* The types of the manager, its runners and runs. *)
ManagerTypes ==
  /\ rstate \in Seq(ServiceStates)
  /\ stopCh \in Seq(0..1) /\ Len(stopCh) = Len(rstate)
  /\ state \in [Services -> 0..Len(rstate)]
  /\ runs \in Seq(RunRecords) /\ \A i \in Runs : runs[i].runner \in 1..Len(rstate)
  /\ running \subseteq Services
  /\ everUp \subseteq Services
  /\ \A u \in subs : u.runner \in 1..Len(rstate)

Flags == {terminating, crashed, outrun} \subseteq BOOLEAN

ClientPCs == {"idle", "stop", "stopping", "awaitDown", "remove", "start"}
ClientFields == {"pc", "op", "svc", "unsent", "targets", "timedOut", "since", "calls"}

(* A client is within one of the operations it may call, on a service. *)
ClientTypes ==
  /\ DOMAIN client = Clients
  /\ \A c \in Clients :
       /\ DOMAIN client[c] = ClientFields
       /\ client[c].pc \in ClientPCs
       /\ client[c].pc # "idle" => client[c].svc \in Services /\ client[c].op \in Ops[c]
       /\ client[c].pc = "remove" => client[c].op = "unload"

(* A run that is over has an outcome. *)
OverPCs == {"cleanup", "cleanupFailed", "cleaned", "final", "announce", "done"}
OutcomeKnown == \A i \in Runs : runs[i].pc \in OverPCs => runs[i].outcome # "none"

(* Nobody waits any longer than the run or the call the wait is for. *)
WaitsOwned ==
  \A w \in Outstanding :
    /\ w.kind = "dep" => w.owner \in Runs /\ runs[w.owner].pc = "waiting"
    /\ w.kind = "rev" => /\ w.owner \in Clients /\ client[w.owner].pc = "stopping"
                         /\ w.at \in client[w.owner].unsent
    /\ w.kind = "down" => w.owner \in Clients /\ client[w.owner].pc = "awaitDown"

Disjoint == pending \intersect {u.wait : u \in subs} = {}

(* A runner object is of one service, whoever still holds it: s.state, a    *)
(* run, or a condition subscribed to it.                                    *)
Holds(s, x) ==
  \/ s \in Services /\ state[s] = x
  \/ \E i \in Runs : runs[i].svc = s /\ runs[i].runner = x
  \/ \E u \in subs : u.wait.on = s /\ u.runner = x

OneService ==
  \A x \in 1..Len(rstate) : \A s, t : Holds(s, x) /\ Holds(t, x) => s = t

(* A runner that is in an "up" state, and a run that is about to say so,    *)
(* are of a service that has been up.                                       *)
UpSeen ==
  /\ \A x \in 1..Len(rstate) : InState(rstate[x], "up") => \A s : Holds(s, x) => s \in everUp
  /\ \A i \in Runs : \/ runs[i].pc = "up"
                     \/ runs[i].pc = "announce" /\ InState(runs[i].outcome, "up")
                     => runs[i].svc \in everUp

(* A run goes on from "waiting" only when what it depends on has been up. *)
Waited ==
  \A i \in Runs :
    /\ runs[i].pc = "waiting" =>
         \A d \in DependsOn[runs[i].svc] : d \in everUp \/ DepWait(i, d) \in Outstanding
    /\ runs[i].pc \in {"preparing", "up", "running", "stopping"} => DependsOn[runs[i].svc] \subseteq everUp

TypeInv == ManagerTypes /\ Flags /\ ClientTypes /\ OutcomeKnown
WaitInv == WaitsOwned /\ Disjoint
UpInv == OneService /\ UpSeen /\ Waited
ManagerInv == TypeInv /\ WaitInv /\ UpInv

(* Without Unload a service stays loaded, so Start finds the runner that    *)
(* its caller has seen.                                                     *)
NoUnload == \A c \in Clients : "unload" \notin Ops[c]

StaysLoaded ==
  /\ ~crashed
  /\ \A c \in Clients : \/ client[c].pc = "start"
                        \/ client[c].pc # "idle" /\ client[c].op = "restart"
                        => client[c].svc \in Loaded

(* A run keeps the runner that s.state has, and says what it is doing as    *)
(* long as its process may come or exists.                                  *)
EarlyPCs == {"starting", "waiting", "preparing", "up", "running", "stopping"}

SameRunner == \A i \in Runs : state[runs[i].svc] = runs[i].runner

EarlyNotDown == \A i \in Runs : runs[i].pc \in EarlyPCs => ~InState(rstate[runs[i].runner], "down")

(* Who stops services in order has begun when there were "since" runs, and  *)
(* waits for each of them that depends on a service it has yet to stop.     *)
Ordered(c) ==
  client[c].pc = "stopping" /\ client[c].op \in {"stopRev", "shutdown"} /\ ~client[c].timedOut

SinceBounded == \A c \in Clients : client[c].since \in 0..Len(runs)

RevWaited ==
  \A c \in Clients : Ordered(c) =>
    \A s \in client[c].unsent, i \in 1..client[c].since :
      runs[i].pc \in EarlyPCs /\ s \in DependsOn[runs[i].svc] => RevWait(c, s, runs[i].svc) \in Outstanding

RevInv == SameRunner /\ SinceBounded /\ (outrun \/ (EarlyNotDown /\ RevWaited))

OrderlyInv == TypeInv /\ OneRun /\ RunningExact /\ StaysLoaded

-----------------------------------------------------------------------------
(* The initial state *)

(* The preloaded services have a runner each. *)
LEMMA RunnersExist ==
  \E f \in [Preloaded -> 1..Cardinality(Preloaded)] : \A s, t \in Preloaded : f[s] = f[t] => s = t
<1> DEFINE n == Cardinality(Preloaded)
<1>1. IsFiniteSet(Preloaded)
  BY ServicesAssumption, FS_Subset
<1>2. n \in Nat /\ ExistsBijection(1..n, Preloaded)
  BY <1>1, FS_CardinalityType
<1>3. PICK g \in [1..n -> Preloaded] : \A s \in Preloaded : \E k \in 1..n : g[k] = s
  BY <1>2 DEF ExistsBijection, Bijection, Surjection
<1> DEFINE f == [s \in Preloaded |-> CHOOSE k \in 1..n : g[k] = s]
<1>4. \A s \in Preloaded : f[s] \in 1..n /\ g[f[s]] = s
  BY <1>3
<1>5. f \in [Preloaded -> 1..n] /\ \A s, t \in Preloaded : f[s] = f[t] => s = t
  BY <1>4
<1> HIDE DEF f, n
<1> QED BY <1>5 DEF n

LEMMA ManagerInit == Init => ManagerInv /\ OneRun /\ RunningExact /\ StaysLoaded
<1> SUFFICES ASSUME Init PROVE ManagerInv /\ OneRun /\ RunningExact /\ StaysLoaded
  OBVIOUS
<1> DEFINE n == Cardinality(Preloaded)
           f == CHOOSE f \in [Preloaded -> 1..Cardinality(Preloaded)] :
                            \A s, t \in Preloaded : f[s] = f[t] => s = t
<1>1. n \in Nat
  BY ServicesAssumption, FS_Subset, FS_CardinalityType
<1>2. f \in [Preloaded -> 1..n] /\ \A s, t \in Preloaded : f[s] = f[t] => s = t
  BY RunnersExist
<1>3. state = [s \in Services |-> IF s \in Preloaded THEN f[s] ELSE NoRunner]
  BY DEF Init
<1> HIDE DEF f, n
<1>4. rstate \in Seq(ServiceStates) /\ Len(rstate) = n
  BY <1>1 DEF Init, ServiceStates, n
<1>5. stopCh \in Seq(0..1) /\ Len(stopCh) = n
  BY <1>1 DEF Init, n
<1>6. runs = <<>> /\ Runs = {} /\ running = {} /\ pending = {} /\ subs = {} /\ everUp = {}
      /\ Outstanding = {}
  BY DEF Init, Runs, Outstanding
<1>7. ManagerTypes
  BY <1>1, <1>2, <1>3, <1>4, <1>5, <1>6, ServicesAssumption DEF ManagerTypes, NoRunner
<1>8. Flags
  BY DEF Init, Flags
<1>9. ClientTypes /\ StaysLoaded
  BY DEF Init, ClientTypes, StaysLoaded, IdleClient, ClientFields, ClientPCs
<1>10. OutcomeKnown /\ WaitsOwned /\ Disjoint /\ Waited /\ OneRun /\ RunningExact
  BY <1>6 DEF OutcomeKnown, WaitsOwned, Disjoint, Waited, OneRun, RunningExact
<1>11. OneService
  BY <1>1, <1>2, <1>3, <1>4, <1>6, ServicesAssumption DEF OneService, Holds, NoRunner
<1>12. UpSeen
  BY <1>4, <1>6 DEF UpSeen, Init, InState, n
<1> QED BY <1>7, <1>8, <1>9, <1>10, <1>11, <1>12 DEF ManagerInv, TypeInv, WaitInv, UpInv

-----------------------------------------------------------------------------
(* The steps *)

(* The steps that move a run to another point. *)
MovesRun(i) ==
  \/ BeginWait(i) \/ EndWait(i) \/ AbortWait(i) \/ PrepareFails(i) \/ ProcessStarts(i)
  \/ NotifyRunning(i) \/ ProcessExits(i) \/ StopProcess(i) \/ ProcessStopped(i)
  \/ CleanupFails(i) \/ NotifyCleanup(i) \/ LeaveRunning(i) \/ FinalState(i) \/ FinalNotify(i)

(* The steps of a client other than Start. *)
MovesClient(c) ==
  \/ ScheduleStop(c) \/ StopRefused(c) \/ RevTimeout(c) \/ AwaitDown(c)
  \/ StopReturns(c) \/ StopGivesUp(c) \/ Remove(c)
  \/ \E s \in Services : \/ SendStop(c, s) \/ Load(c, s)
                          \/ \E op \in AllOps : CallStop(c, op, s) \/ APIStart(c, op, s) \/ APIStop(c, op, s)

LEMMA NextCases ==
  ASSUME [Next]_vars
  PROVE  \/ \E i \in RunIds : WatchStop(i) \/ MovesRun(i)
         \/ \E w : w.on \in Services /\ Subscribe(w)
         \/ \E c \in Clients : MovesClient(c) \/ Start(c)
         \/ UNCHANGED vars
<1>1. CASE \E i \in RunIds : RunStep(i) \/ RunEnvironment(i)
  BY <1>1 DEF RunStep, RunEnvironment, MovesRun
<1>2. CASE WaitStep
  <2>1. \A i, d, c, s : DepWait(i, d).on = d /\ DownWait(c, d).on = d /\ RevWait(c, s, d).on = d
    BY DEF DepWait, DownWait, RevWait
  <2> QED BY <1>2, <2>1 DEF WaitStep
<1>3. CASE \E c \in Clients : ClientStep(c) \/ ClientCall(c) \/ StopGivesUp(c)
  BY <1>3 DEF ClientStep, ClientCall, MovesClient
<1> QED BY <1>1, <1>2, <1>3 DEF Next

(* Run j is where it was; run i is still the same run. *)
Rests(j) ==
  /\ runs'[j].svc = runs[j].svc /\ runs'[j].runner = runs[j].runner
  /\ runs'[j].pc = runs[j].pc /\ runs'[j].outcome = runs[j].outcome

Moved(i, pc, outcome) ==
  /\ Runs' = Runs
  /\ \A j \in Runs : j # i => Rests(j)
  /\ runs'[i].svc = runs[i].svc /\ runs'[i].runner = runs[i].runner
  /\ runs'[i].pc = pc /\ runs'[i].outcome = outcome

LEMMA RunsAre ==
  ASSUME runs \in Seq(RunRecords)
  PROVE  Len(runs) \in Nat /\ Runs = 1..Len(runs) /\ \A j \in Runs : runs[j] \in RunRecords
  BY DEF Runs

(* The runs rewritten, all or one of them. *)
LEMMA RewriteRuns ==
  ASSUME runs \in Seq(RunRecords), runs' \in [Runs -> RunRecords]
  PROVE  runs' \in Seq(RunRecords) /\ Len(runs') = Len(runs) /\ Runs' = Runs
<1>1. runs' \in [1..Len(runs) -> RunRecords] /\ Len(runs) \in Nat
  BY RunsAre
<1>2. runs' \in Seq(RunRecords) /\ Len(runs') = Len(runs)
  BY <1>1
<1> QED BY <1>1, <1>2, RunsAre DEF Runs

LEMMA ReplaceRun ==
  ASSUME runs \in Seq(RunRecords), NEW i \in Runs, NEW r \in RunRecords, runs' = [runs EXCEPT ![i] = r]
  PROVE  /\ runs' \in Seq(RunRecords) /\ Len(runs') = Len(runs) /\ Runs' = Runs
         /\ runs'[i] = r /\ \A j \in Runs : j # i => runs'[j] = runs[j]
<1>1. runs' \in [Runs -> RunRecords]
  BY RunsAre
<1> QED BY <1>1, RunsAre, RewriteRuns

LEMMA SetRunFacts ==
  ASSUME runs \in Seq(RunRecords), NEW i \in Runs, NEW pc \in RunPCs, SetRun(i, pc)
  PROVE  runs' \in Seq(RunRecords) /\ Len(runs') = Len(runs) /\ Moved(i, pc, runs[i].outcome)
<1> DEFINE r == [runs[i] EXCEPT !.pc = pc]
<1>1. /\ r \in RunRecords /\ r.svc = runs[i].svc /\ r.runner = runs[i].runner
      /\ r.pc = pc /\ r.outcome = runs[i].outcome
  BY RunsAre DEF RunRecords
<1>2. runs' = [runs EXCEPT ![i] = r]
  BY DEF SetRun
<1> HIDE DEF r
<1> QED BY <1>1, <1>2, ReplaceRun DEF Moved, Rests

LEMMA EndRunFacts ==
  ASSUME runs \in Seq(RunRecords), NEW i \in Runs, NEW outcome \in Outcomes, EndRun(i, outcome)
  PROVE  runs' \in Seq(RunRecords) /\ Len(runs') = Len(runs) /\ Moved(i, "cleanup", outcome)
<1> DEFINE r == [runs[i] EXCEPT !.pc = "cleanup", !.outcome = outcome]
<1>1. /\ r \in RunRecords /\ r.svc = runs[i].svc /\ r.runner = runs[i].runner
      /\ r.pc = "cleanup" /\ r.outcome = outcome
  BY RunsAre DEF RunRecords, RunPCs
<1>2. runs' = [runs EXCEPT ![i] = r]
  BY DEF EndRun
<1> HIDE DEF r
<1> QED BY <1>1, <1>2, ReplaceRun DEF Moved, Rests

LEMMA WatchStopFacts ==
  ASSUME runs \in Seq(RunRecords), NEW i \in Runs, WatchStop(i)
  PROVE  runs' \in Seq(RunRecords) /\ Len(runs') = Len(runs) /\ Runs' = Runs /\ \A j \in Runs : Rests(j)
<1> DEFINE r == [runs[i] EXCEPT !.cancelled = TRUE]
<1>1. /\ r \in RunRecords /\ r.svc = runs[i].svc /\ r.runner = runs[i].runner
      /\ r.pc = runs[i].pc /\ r.outcome = runs[i].outcome
  BY RunsAre DEF RunRecords
<1>2. runs' = [runs EXCEPT ![i] = r]
  BY DEF WatchStop
<1> HIDE DEF r
<1> QED BY <1>1, <1>2, ReplaceRun DEF Rests

LEMMA ShutdownFacts ==
  ASSUME runs \in Seq(RunRecords), NEW x, Shutdown(x)
  PROVE  runs' \in Seq(RunRecords) /\ Len(runs') = Len(runs) /\ Runs' = Runs /\ \A j \in Runs : Rests(j)
<1> DEFINE F(i) == IF runs[i].runner = x /\ Live(runs[i]) THEN [runs[i] EXCEPT !.cancelled = TRUE] ELSE runs[i]
<1>1. \A i \in Runs : /\ F(i) \in RunRecords /\ F(i).svc = runs[i].svc /\ F(i).runner = runs[i].runner
                      /\ F(i).pc = runs[i].pc /\ F(i).outcome = runs[i].outcome
  BY RunsAre DEF RunRecords
<1>2. CASE UNCHANGED runs
  BY <1>2 DEF Rests, Runs
<1>3. CASE runs' = [i \in Runs |-> F(i)]
  <2> HIDE DEF F
  <2>1. runs' \in [Runs -> RunRecords] /\ \A j \in Runs : runs'[j] = F(j)
    BY <1>1, <1>3
  <2> QED BY <1>1, <2>1, RewriteRuns DEF Rests
<1> QED BY <1>2, <1>3 DEF Shutdown

LEMMA StartFacts ==
  ASSUME runs \in Seq(RunRecords), NEW s \in Services, state[s] \in Nat, StartRun(s)
  PROVE  /\ runs' \in Seq(RunRecords) /\ Len(runs') = Len(runs) + 1
         /\ Runs = 1..Len(runs) /\ Runs' = 1..(Len(runs) + 1)
         /\ \A j \in Runs : Rests(j)
         /\ runs'[Len(runs) + 1] = [svc |-> s, runner |-> state[s], pc |-> "starting",
                                    cancelled |-> FALSE, outcome |-> "none"]
  BY DEF StartRun, Rests, Runs, RunRecords, RunPCs, Outcomes

(* A move takes a run to another point, and out of Run only in LeaveRunning. *)
LEMMA MoveFacts ==
  ASSUME ManagerTypes, OutcomeKnown, NEW i, MovesRun(i)
  PROVE  /\ i \in Runs
         /\ runs' \in Seq(RunRecords) /\ Len(runs') = Len(runs)
         /\ \E pc \in RunPCs, outcome \in Outcomes :
              /\ Moved(i, pc, outcome)
              /\ pc \in OverPCs => outcome # "none"
              /\ LeaveRunning(i) \/ (Live(runs[i]) <=> pc \in LivePCs)
              /\ LeaveRunning(i) => Live(runs[i]) /\ pc = "final"
<1>0. i \in Runs /\ runs[i] \in RunRecords /\ runs \in Seq(RunRecords)
  BY RunsAre
     DEF MovesRun, BeginWait, EndWait, AbortWait, PrepareFails, ProcessStarts, NotifyRunning, ProcessExits,
         StopProcess, ProcessStopped, CleanupFails, NotifyCleanup, LeaveRunning, FinalState, FinalNotify, RunAt,
         ManagerTypes
<1>1. CASE \E outcome \in Outcomes \ {"none"} :
            EndRun(i, outcome) /\ RunAt(i, {"waiting", "preparing", "running", "stopping"})
  <2>1. PICK outcome \in Outcomes \ {"none"} :
            EndRun(i, outcome) /\ RunAt(i, {"waiting", "preparing", "running", "stopping"})
    BY <1>1
  <2>2. Live(runs[i]) /\ "cleanup" \in LivePCs /\ "cleanup" \in RunPCs
    BY <2>1 DEF Live, LivePCs, RunPCs, RunAt
  <2>3. ~LeaveRunning(i)
    BY <2>1 DEF LeaveRunning, RunAt
  <2> QED BY <1>0, <2>1, <2>2, <2>3, EndRunFacts
<1>2. CASE \E pc \in RunPCs \ {"cleanup", "final", "announce", "done"} :
            SetRun(i, pc) /\ (pc \in OverPCs => runs[i].pc \in OverPCs)
            /\ runs[i].pc \in LivePCs /\ ~LeaveRunning(i)
  <2>1. PICK pc \in RunPCs \ {"cleanup", "final", "announce", "done"} :
            SetRun(i, pc) /\ (pc \in OverPCs => runs[i].pc \in OverPCs)
            /\ runs[i].pc \in LivePCs /\ ~LeaveRunning(i)
    BY <1>2
  <2>2. runs' \in Seq(RunRecords) /\ Len(runs') = Len(runs) /\ Moved(i, pc, runs[i].outcome)
    BY <1>0, <2>1, SetRunFacts
  <2>3. pc \in LivePCs /\ Live(runs[i]) /\ runs[i].outcome \in Outcomes
    BY <1>0, <2>1 DEF LivePCs, Live, RunRecords
  <2>4. pc \in OverPCs => runs[i].outcome # "none"
    BY <1>0, <2>1 DEF OutcomeKnown
  <2> QED BY <1>0, <2>1, <2>2, <2>3, <2>4
<1>3. CASE FinalState(i) \/ FinalNotify(i)
  <2>1. PICK pc \in {"announce", "done"} : SetRun(i, pc) /\ runs[i].pc \in {"final", "announce"}
    BY <1>3 DEF FinalState, FinalNotify, RunAt
  <2>2. runs' \in Seq(RunRecords) /\ Len(runs') = Len(runs) /\ Moved(i, pc, runs[i].outcome)
    BY <1>0, <2>1, SetRunFacts DEF RunPCs
  <2>3. pc \in RunPCs /\ pc \notin LivePCs /\ ~Live(runs[i]) /\ runs[i].outcome \in Outcomes
    BY <1>0, <2>1 DEF LivePCs, Live, RunRecords, RunPCs
  <2>4. runs[i].outcome # "none" /\ ~LeaveRunning(i)
    BY <1>0, <2>1 DEF OutcomeKnown, OverPCs, LeaveRunning, RunAt
  <2> QED BY <1>0, <2>2, <2>3, <2>4
<1>4. CASE LeaveRunning(i)
  <2>1. SetRun(i, "final") /\ runs[i].pc \in {"cleanup", "cleaned"}
    BY <1>4 DEF LeaveRunning, RunAt
  <2>2. runs' \in Seq(RunRecords) /\ Len(runs') = Len(runs) /\ Moved(i, "final", runs[i].outcome)
    BY <1>0, <2>1, SetRunFacts DEF RunPCs
  <2>3. Live(runs[i]) /\ runs[i].outcome \in Outcomes /\ runs[i].outcome # "none" /\ "final" \in RunPCs
    BY <1>0, <2>1 DEF LivePCs, Live, RunRecords, RunPCs, OutcomeKnown, OverPCs
  <2> QED BY <1>0, <1>4, <2>2, <2>3
<1>5. CASE AbortWait(i) \/ PrepareFails(i) \/ ProcessExits(i) \/ ProcessStopped(i)
  BY <1>1, <1>5 DEF AbortWait, PrepareFails, ProcessExits, ProcessStopped, RunAt, Outcomes
<1>6. CASE BeginWait(i) \/ EndWait(i) \/ ProcessStarts(i) \/ NotifyRunning(i) \/ StopProcess(i)
  <2>1. /\ runs[i].pc \in {"starting", "waiting", "preparing", "up", "running"}
        /\ \E pc \in {"waiting", "preparing", "up", "running", "stopping"} : SetRun(i, pc)
    BY <1>6 DEF BeginWait, EndWait, ProcessStarts, NotifyRunning, StopProcess, RunAt
  <2> QED BY <1>2, <2>1 DEF LeaveRunning, RunAt, RunPCs, LivePCs, OverPCs
<1>7. CASE ~LeaveRunning(i) /\ (CleanupFails(i) \/ NotifyCleanup(i))
  <2>1. /\ runs[i].pc \in {"cleanup", "cleanupFailed"}
        /\ \E pc \in {"cleanupFailed", "cleaned"} : SetRun(i, pc)
    BY <1>7 DEF CleanupFails, NotifyCleanup, RunAt
  <2> QED BY <1>2, <1>7, <2>1 DEF RunPCs, LivePCs, OverPCs
<1> QED BY <1>3, <1>4, <1>5, <1>6, <1>7 DEF MovesRun

(* The three outcomes of Start. *)
LEMMA StartCases ==
  ASSUME NEW c, Start(c)
  PROVE  /\ Return(c)
         /\ \/ UNCHANGED <<running, runs, rstate, crashed>>
            \/ StartRun(client[c].svc) /\ client[c].svc \in Loaded \ running
            \/ /\ client[c].svc \notin Loaded /\ crashed'
               /\ running' = running \union {client[c].svc} /\ UNCHANGED <<runs, rstate>>
<1>1. CASE terminating \/ client[c].svc \in running
  BY <1>1 DEF Start
<1>2. CASE ~terminating /\ client[c].svc \notin running /\ client[c].svc \in Loaded
  BY <1>2 DEF Start
<1>3. CASE ~terminating /\ client[c].svc \notin running /\ client[c].svc \notin Loaded
  BY <1>3 DEF Start
<1> QED BY <1>1, <1>2, <1>3

(* What a step does to the runs: nothing that matters here, a move of one,  *)
(* or a new one.                                                            *)
LEMMA RunsStep ==
  ASSUME TypeInv, [Next]_vars
  PROVE  /\ runs' \in Seq(RunRecords)
         /\ \/ Runs' = Runs /\ \A j \in Runs : Rests(j)
            \/ \E i \in Runs : MovesRun(i)
            \/ \E c \in Clients : Start(c) /\ StartRun(client[c].svc) /\ client[c].svc \in Loaded \ running
<1>0. runs \in Seq(RunRecords) /\ state \in [Services -> 0..Len(rstate)] /\ Len(rstate) \in Nat
  BY DEF TypeInv, ManagerTypes
<1>1. CASE UNCHANGED runs
  BY <1>0, <1>1 DEF Runs, Rests
<1>2. ASSUME NEW i \in RunIds, WatchStop(i) \/ MovesRun(i)
      PROVE  /\ i \in Runs /\ runs' \in Seq(RunRecords)
             /\ MovesRun(i) \/ (Runs' = Runs /\ \A j \in Runs : Rests(j))
  BY <1>0, <1>2, MoveFacts, WatchStopFacts DEF TypeInv, WatchStop, RunAt
<1>3. ASSUME NEW c \in Clients, MovesClient(c)
      PROVE  runs' \in Seq(RunRecords) /\ Runs' = Runs /\ \A j \in Runs : Rests(j)
  <2>1. CASE \E s \in Services : SendStop(c, s)
    BY <1>0, <2>1, ShutdownFacts DEF SendStop
  <2>2. CASE ~\E s \in Services : SendStop(c, s)
    <3>1. UNCHANGED runs
      BY <1>3, <2>2 DEF MovesClient, ScheduleStop, StopRefused, RevTimeout, AwaitDown, StopReturns, StopGivesUp,
                        Remove, Load, CallStop, APIStart, APIStop
    <3> QED BY <1>0, <3>1 DEF Runs, Rests
  <2> QED BY <2>1, <2>2
<1>4. ASSUME NEW c \in Clients, Start(c)
      PROVE  /\ runs' \in Seq(RunRecords)
             /\ UNCHANGED runs \/ (StartRun(client[c].svc) /\ client[c].svc \in Loaded \ running)
  <2>1. UNCHANGED runs \/ (StartRun(client[c].svc) /\ client[c].svc \in Loaded \ running)
    BY <1>4, StartCases
  <2>2. ASSUME NEW s \in Loaded, StartRun(s) PROVE runs' \in Seq(RunRecords)
    <3>1. s \in Services /\ state[s] \in Nat
      BY <1>0 DEF Loaded
    <3> QED BY <1>0, <2>2, <3>1, StartFacts
  <2> QED BY <1>0, <2>1, <2>2
<1>5. ASSUME NEW w, Subscribe(w) PROVE UNCHANGED runs
  BY <1>5 DEF Subscribe
<1>6. UNCHANGED vars => UNCHANGED runs
  BY DEF vars
<1> QED BY <1>1, <1>2, <1>3, <1>4, <1>5, <1>6, NextCases

-----------------------------------------------------------------------------
(* Types *)

LEMMA ExceptSeq ==
  ASSUME NEW S, NEW q \in Seq(S), NEW x, NEW v \in S
  PROVE  /\ [q EXCEPT ![x] = v] \in Seq(S) /\ Len([q EXCEPT ![x] = v]) = Len(q)
         /\ \A y \in 1..Len(q) : [q EXCEPT ![x] = v][y] = IF y = x THEN v ELSE q[y]
<1>1. Len(q) \in Nat /\ q \in [1..Len(q) -> S]
  OBVIOUS
<1>2. [q EXCEPT ![x] = v] \in [1..Len(q) -> S]
  BY <1>1
<1>3. \A r \in [1..Len(q) -> S] : r \in Seq(S) /\ Len(r) = Len(q)
  BY <1>1
<1> QED BY <1>1, <1>2, <1>3

LEMMA UpdateTypes ==
  ASSUME ManagerTypes, NEW i \in Runs, NEW st \in ServiceStates, UpdateState(i, st)
  PROVE  /\ rstate' \in Seq(ServiceStates) /\ Len(rstate') = Len(rstate)
         /\ everUp' \subseteq Services
         /\ rstate'[runs[i].runner] = st
         /\ \A x \in 1..Len(rstate) : x # runs[i].runner => rstate'[x] = rstate[x]
         /\ InState(st, "up") => runs[i].svc \in everUp'
         /\ everUp \subseteq everUp'
<1>1. runs[i].svc \in Services /\ runs[i].runner \in 1..Len(rstate)
  BY RunsAre DEF ManagerTypes, RunRecords
<1>2. rstate \in Seq(ServiceStates) /\ rstate' = [rstate EXCEPT ![runs[i].runner] = st]
  BY DEF ManagerTypes, UpdateState
<1>3. rstate' \in Seq(ServiceStates) /\ Len(rstate') = Len(rstate)
  BY <1>2, ExceptSeq
<1>4. /\ rstate'[runs[i].runner] = st
      /\ \A x \in 1..Len(rstate) : x # runs[i].runner => rstate'[x] = rstate[x]
  BY <1>1, <1>2, ExceptSeq
<1>5. everUp' \subseteq Services /\ everUp \subseteq everUp' /\ (InState(st, "up") => runs[i].svc \in everUp')
  BY <1>1 DEF ManagerTypes, UpdateState
<1> QED BY <1>3, <1>4, <1>5

(* The runs that move say nothing or one of these. *)
LEMMA MoveUpdates ==
  ASSUME TypeInv, NEW i \in Runs, MovesRun(i)
  PROVE  \/ UNCHANGED <<rstate, everUp>>
         \/ \E st \in ServiceStates : UpdateState(i, st)
<1>1. runs[i].pc = "final" => runs[i].outcome \in ServiceStates
  BY RunsAre DEF TypeInv, ManagerTypes, OutcomeKnown, OverPCs, RunRecords, Outcomes, ServiceStates
<1> QED BY <1>1
     DEF MovesRun, BeginWait, EndWait, AbortWait, PrepareFails, ProcessStarts, NotifyRunning, ProcessExits,
         StopProcess, ProcessStopped, CleanupFails, NotifyCleanup, LeaveRunning, FinalState, FinalNotify,
         RunAt, runnerVars, ServiceStates

(* A stop token is taken or put; nothing else touches the channels but Load. *)
LEMMA StopChStep ==
  ASSUME TypeInv, [Next]_vars
  PROVE  \/ UNCHANGED stopCh \/ \E x : \E n \in 0..1 : stopCh' = [stopCh EXCEPT ![x] = n]
         \/ \E c \in Clients, s \in Services : Load(c, s)
<1>1. ASSUME NEW i, MovesRun(i) PROVE UNCHANGED stopCh
  BY <1>1
     DEF MovesRun, BeginWait, EndWait, AbortWait, PrepareFails, ProcessStarts, NotifyRunning, ProcessExits,
         StopProcess, ProcessStopped, CleanupFails, NotifyCleanup, LeaveRunning, FinalState, FinalNotify, runnerVars
<1>2. ASSUME NEW c \in Clients, MovesClient(c)
      PROVE  \/ UNCHANGED stopCh \/ \E s \in Services : SendStop(c, s) \/ Load(c, s)
  BY <1>2 DEF MovesClient, ScheduleStop, StopRefused, RevTimeout, AwaitDown, StopReturns, StopGivesUp,
              Remove, CallStop, APIStart, APIStop, runnerVars
<1>3. ASSUME NEW i, WatchStop(i) PROVE stopCh' = [stopCh EXCEPT ![runs[i].runner] = 0]
  BY <1>3 DEF WatchStop
<1>4. ASSUME NEW c, NEW s, SendStop(c, s) PROVE UNCHANGED stopCh \/ \E x : stopCh' = [stopCh EXCEPT ![x] = 1]
  BY <1>4 DEF SendStop, Shutdown
<1>5. CASE \E i \in RunIds : WatchStop(i) \/ MovesRun(i)
  BY <1>1, <1>3, <1>5
<1>6. CASE \E c \in Clients : MovesClient(c)
  BY <1>2, <1>4, <1>6
<1>7. CASE (\E w : Subscribe(w)) \/ (\E c \in Clients : Start(c)) \/ UNCHANGED vars
  BY <1>7 DEF Subscribe, Start, vars, runnerVars
<1> QED BY <1>5, <1>6, <1>7, NextCases

(* What a step does to the states of the runners. *)
LEMMA RstateStep ==
  ASSUME TypeInv, [Next]_vars
  PROVE  \/ UNCHANGED <<rstate, everUp>>
         \/ \E i \in Runs : MovesRun(i) /\ \E st \in ServiceStates : UpdateState(i, st)
         \/ \E s \in Loaded : StartRun(s) /\ UNCHANGED everUp
         \/ \E c \in Clients, s \in Services : Load(c, s)
<1>1. ASSUME NEW i, MovesRun(i)
      PROVE  /\ i \in Runs
             /\ UNCHANGED <<rstate, everUp>> \/ \E st \in ServiceStates : UpdateState(i, st)
  BY <1>1, MoveFacts, MoveUpdates DEF TypeInv
<1>2. ASSUME NEW c \in Clients, MovesClient(c)
      PROVE  \/ UNCHANGED <<rstate, everUp>> \/ \E s \in Services : Load(c, s)
  BY <1>2 DEF MovesClient, ScheduleStop, StopRefused, RevTimeout, AwaitDown, StopReturns, StopGivesUp,
              Remove, CallStop, APIStart, APIStop, SendStop, runnerVars
<1>3. ASSUME NEW c \in Clients, Start(c)
      PROVE  \/ UNCHANGED <<rstate, everUp>> \/ \E s \in Loaded : StartRun(s) /\ UNCHANGED everUp
  <2>1. UNCHANGED everUp
    BY <1>3 DEF Start
  <2> QED BY <1>3, <2>1, StartCases
<1>4. CASE (\E w : Subscribe(w)) \/ (\E i : WatchStop(i)) \/ UNCHANGED vars
  BY <1>4 DEF Subscribe, WatchStop, vars, runnerVars
<1> QED BY <1>1, <1>2, <1>3, <1>4, NextCases

(* A runner is up because it was, or because a run of it said so. *)
LEMMA UpStep ==
  ASSUME TypeInv, [Next]_vars
  PROVE  /\ rstate' \in Seq(ServiceStates) /\ Len(rstate) \in Nat
         /\ Len(rstate') \in {Len(rstate), Len(rstate) + 1}
         /\ Len(rstate') # Len(rstate) => \E c \in Clients, s \in Services : Load(c, s)
         /\ everUp \subseteq everUp' /\ everUp' \subseteq Services
         /\ \A x \in 1..Len(rstate') : InState(rstate'[x], "up") =>
              /\ x \in 1..Len(rstate)
              /\ InState(rstate[x], "up") \/ \E i \in Runs : runs[i].runner = x /\ runs[i].svc \in everUp'
<1>0. /\ rstate \in Seq(ServiceStates) /\ Len(rstate) \in Nat /\ everUp \subseteq Services
      /\ state \in [Services -> 0..Len(rstate)]
  BY DEF TypeInv, ManagerTypes
<1>1. CASE UNCHANGED <<rstate, everUp>>
  BY <1>0, <1>1
<1>2. ASSUME NEW i \in Runs, NEW st \in ServiceStates, UpdateState(i, st)
      PROVE  /\ rstate' \in Seq(ServiceStates) /\ Len(rstate') = Len(rstate)
             /\ everUp \subseteq everUp' /\ everUp' \subseteq Services
             /\ \A x \in 1..Len(rstate) : InState(rstate'[x], "up") =>
                  InState(rstate[x], "up") \/ (runs[i].runner = x /\ runs[i].svc \in everUp')
  BY <1>0, <1>2, UpdateTypes DEF TypeInv
<1>3. ASSUME NEW s \in Loaded, StartRun(s), UNCHANGED everUp
      PROVE  /\ rstate' \in Seq(ServiceStates) /\ Len(rstate') = Len(rstate)
             /\ \A x \in 1..Len(rstate) : InState(rstate'[x], "up") => InState(rstate[x], "up")
  <2>1. rstate' = [rstate EXCEPT ![state[s]] = "starting"] /\ "starting" \in ServiceStates
    BY <1>3 DEF StartRun, ServiceStates
  <2>2. ~InState("starting", "up")
    BY DEF InState
  <2> QED BY <1>0, <2>1, <2>2, ExceptSeq
<1>4. ASSUME NEW c \in Clients, NEW s \in Services, Load(c, s)
      PROVE  /\ rstate' \in Seq(ServiceStates) /\ Len(rstate') = Len(rstate) + 1 /\ UNCHANGED everUp
             /\ \A x \in 1..Len(rstate') : InState(rstate'[x], "up") =>
                   x \in 1..Len(rstate) /\ InState(rstate[x], "up")
  <2>1. rstate' = Append(rstate, "initialized") /\ "initialized" \in ServiceStates /\ UNCHANGED everUp
    BY <1>4 DEF Load, ServiceStates
  <2>2. ~InState("initialized", "up")
    BY DEF InState
  <2>3. rstate' \in Seq(ServiceStates) /\ Len(rstate') = Len(rstate) + 1
    BY <1>0, <2>1
  <2>4. \A x \in 1..Len(rstate') : rstate'[x] = IF x = Len(rstate) + 1 THEN "initialized" ELSE rstate[x]
    BY <1>0, <2>1, <2>3
  <2> QED BY <1>0, <2>1, <2>2, <2>3, <2>4
<1> QED BY <1>0, <1>1, <1>2, <1>3, <1>4, RstateStep

(* What a step does to the manager's maps, to the subscriptions and to the  *)
(* clients.                                                                 *)
LEMMA MoveFrames ==
  ASSUME NEW i, MovesRun(i)
  PROVE  /\ UNCHANGED <<state, terminating, client, crashed>>
         /\ UNCHANGED running \/ LeaveRunning(i)
         /\ subs' \subseteq subs
  BY DEF MovesRun, BeginWait, EndWait, AbortWait, PrepareFails, ProcessStarts, NotifyRunning, ProcessExits,
         StopProcess, ProcessStopped, CleanupFails, NotifyCleanup, LeaveRunning, FinalState, FinalNotify,
         managerVars, waitVars, EndWaits, NotifyFrom

LEMMA SubsStep ==
  ASSUME [Next]_vars
  PROVE  \/ subs' \subseteq subs
         \/ \E w : /\ w.on \in Services /\ Subscribe(w)
                   /\ subs' = subs \union {[wait |-> w, runner |-> state[w.on]]}
<1>1. ASSUME NEW c \in Clients, MovesClient(c) \/ Start(c) PROVE subs' \subseteq subs
  BY <1>1 DEF MovesClient, ScheduleStop, StopRefused, RevTimeout, AwaitDown, StopReturns, StopGivesUp,
              Remove, CallStop, APIStart, APIStop, SendStop, Load, Start, EndWaits, waitVars
<1>2. ASSUME NEW w, Subscribe(w)
      PROVE  subs' \subseteq subs \/ subs' = subs \union {[wait |-> w, runner |-> state[w.on]]}
  BY <1>2 DEF Subscribe
<1>3. CASE (\E i : WatchStop(i)) \/ UNCHANGED vars
  BY <1>3 DEF WatchStop, vars, waitVars
<1> QED BY <1>1, <1>2, <1>3, MoveFrames, NextCases

LEMMA StateStep ==
  ASSUME [Next]_vars
  PROVE  \/ UNCHANGED state
         \/ \E c \in Clients, s \in Services : Load(c, s)
         \/ \E c \in Clients : Remove(c)
<1>1. ASSUME NEW c \in Clients, MovesClient(c) \/ Start(c)
      PROVE  UNCHANGED state \/ Remove(c) \/ \E s \in Services : Load(c, s)
  BY <1>1 DEF MovesClient, ScheduleStop, StopRefused, RevTimeout, AwaitDown, StopReturns, StopGivesUp,
              CallStop, APIStart, APIStop, SendStop, Start, managerVars
<1>2. CASE (\E i : WatchStop(i)) \/ (\E w : Subscribe(w)) \/ UNCHANGED vars
  BY <1>2 DEF WatchStop, Subscribe, vars, managerVars
<1> QED BY <1>1, <1>2, MoveFrames, NextCases

LEMMA RunningStep ==
  ASSUME [Next]_vars
  PROVE  \/ UNCHANGED <<running, crashed>>
         \/ \E i : LeaveRunning(i)
         \/ \E c \in Clients : Start(c)
         \/ \E c \in Clients : Remove(c)
<1>1. ASSUME NEW c \in Clients, MovesClient(c)
      PROVE  UNCHANGED <<running, crashed>> \/ Remove(c)
  BY <1>1 DEF MovesClient, ScheduleStop, StopRefused, RevTimeout, AwaitDown, StopReturns, StopGivesUp,
              CallStop, APIStart, APIStop, SendStop, Load, managerVars
<1>2. CASE (\E i : WatchStop(i)) \/ (\E w : Subscribe(w)) \/ UNCHANGED vars
  BY <1>2 DEF WatchStop, Subscribe, vars, managerVars
<1> QED BY <1>1, <1>2, MoveFrames, NextCases

(* What a step does to a client: it goes on with its call, from one point   *)
(* to another, begins one or returns from it.                               *)
Goes(c, pc) ==
  /\ DOMAIN client' = Clients
  /\ \A d \in Clients : d # c => client'[d] = client[d]
  /\ DOMAIN client'[c] = ClientFields
  /\ client'[c].pc = pc

LEMMA ReturnFacts ==
  ASSUME ClientTypes, NEW c \in Clients, Return(c)
  PROVE  Goes(c, "idle")
  BY DEF ClientTypes, Return, Goes, IdleClient, ClientFields

LEMMA CallFacts ==
  ASSUME ClientTypes, NEW c \in Clients, NEW op, NEW s, NEW pc, Calls(c, op, s, pc)
  PROVE  /\ Goes(c, pc) /\ client'[c].op = op /\ client'[c].svc = s /\ op \in Ops[c]
         /\ client[c].pc = "idle"
  BY DEF ClientTypes, Calls, ClientAt, Goes, IdleClient, ClientFields

LEMMA SetClientFacts ==
  ASSUME ClientTypes, NEW c \in Clients, NEW pc, SetClient(c, pc)
  PROVE  /\ Goes(c, pc) /\ client'[c].op = client[c].op /\ client'[c].svc = client[c].svc
         /\ client'[c].unsent = client[c].unsent
  BY DEF ClientTypes, SetClient, Goes, ClientFields

LEMMA ScheduleFacts ==
  ASSUME ClientTypes, NEW c \in Clients, ScheduleStop(c)
  PROVE  /\ Goes(c, "stopping") /\ client'[c].op = client[c].op /\ client'[c].svc = client[c].svc
         /\ client[c].pc = "stop" /\ UNCHANGED subs
         /\ \A w \in pending' : \/ w \in pending
                               \/ /\ w.kind = "rev" /\ w.owner = c
                                  /\ w.at \in client'[c].unsent
<1> DEFINE rev == client[c].op \in {"stopRev", "shutdown"}
           chosen == IF client[c].op = "shutdown" THEN Loaded ELSE {client[c].svc} \intersect Loaded
           T == IF rev THEN WithReverseDependencies(chosen) ELSE chosen
           F == [s \in T |-> state[s]]
           n == Len(runs)
           P == IF rev THEN {RevWait(c, x[1], x[2]) : x \in {y \in T \X T : y[1] \in DependsOn[y[2]]}} ELSE {}
<1>1. /\ client' = [client EXCEPT ![c].pc = "stopping", ![c].unsent = T, ![c].targets = F, ![c].since = n]
      /\ pending' = pending \union P
      /\ client[c].pc = "stop" /\ UNCHANGED subs
  BY DEF ScheduleStop, ClientAt
<1>2. \A w \in P : w.kind = "rev" /\ w.owner = c /\ w.at \in T
  <2> HIDE DEF T
  <2>1. \A w \in P : \E x \in T \X T : w = RevWait(c, x[1], x[2])
    OBVIOUS
  <2>2. \A x \in T \X T : x[1] \in T
    OBVIOUS
  <2> QED BY <2>1, <2>2 DEF RevWait
<1> HIDE DEF F, n, T, P
<1>3. /\ Goes(c, "stopping") /\ client'[c].op = client[c].op /\ client'[c].svc = client[c].svc
      /\ client'[c].unsent = T
  BY <1>1 DEF ClientTypes, Goes, ClientFields
<1> QED BY <1>1, <1>2, <1>3

LEMMA SendStopFacts ==
  ASSUME ClientTypes, NEW c \in Clients, NEW s, SendStop(c, s)
  PROVE  /\ Goes(c, "stopping") /\ client'[c].op = client[c].op /\ client'[c].svc = client[c].svc
         /\ client[c].pc = "stopping" /\ client'[c].unsent = client[c].unsent \ {s}
  BY DEF ClientTypes, SendStop, ClientAt, Goes, ClientFields

LEMMA RevTimeoutFacts ==
  ASSUME ClientTypes, NEW c \in Clients, RevTimeout(c)
  PROVE  /\ Goes(c, "stopping") /\ client'[c].op = client[c].op /\ client'[c].svc = client[c].svc
         /\ client[c].pc = "stopping" /\ client'[c].unsent = client[c].unsent
  BY DEF ClientTypes, RevTimeout, ClientAt, Goes, ClientFields

Begins(c, pc) ==
  /\ client[c].pc = "idle" /\ pc \in {"stop", "start"}
  /\ client'[c].svc \in Services /\ client'[c].op \in Ops[c]
  /\ pc = "start" \/ client'[c].op = "restart" => client'[c].svc \in Loaded

Proceeds(c, pc) ==
  /\ client[c].pc # "idle" /\ pc \in ClientPCs
  /\ client'[c].svc = client[c].svc /\ client'[c].op = client[c].op
  /\ pc = "remove" => client[c].op = "unload"
  /\ pc = "start" => client[c].op = "restart"

LEMMA ClientsStep ==
  ASSUME ClientTypes, [Next]_vars
  PROVE  \/ UNCHANGED client
         \/ \E c \in Clients : \E pc : Goes(c, pc) /\ (pc = "idle" \/ Begins(c, pc) \/ Proceeds(c, pc))
<1>1. ASSUME NEW c \in Clients, NEW s \in Services, NEW op, CallStop(c, op, s)
      PROVE  Goes(c, "stop") /\ Begins(c, "stop")
  BY <1>1, CallFacts DEF CallStop, Begins
<1>2. ASSUME NEW c \in Clients, NEW s \in Services, NEW op, APIStart(c, op, s)
      PROVE  Goes(c, "start") /\ Begins(c, "start")
  BY <1>2, CallFacts DEF APIStart, Begins
<1>3. ASSUME NEW c \in Clients, NEW s \in Services, NEW op, APIStop(c, op, s)
      PROVE  Goes(c, "stop") /\ Begins(c, "stop")
  BY <1>3, CallFacts DEF APIStop, Begins
<1>4. ASSUME NEW c \in Clients, NEW s, Load(c, s) PROVE Goes(c, "idle")
  BY <1>4, CallFacts DEF Load
<1>5. ASSUME NEW c \in Clients, NEW s, SendStop(c, s) PROVE Goes(c, "stopping") /\ Proceeds(c, "stopping")
  BY <1>5, SendStopFacts DEF Proceeds, ClientPCs
<1>6. ASSUME NEW c \in Clients, ScheduleStop(c) \/ RevTimeout(c)
      PROVE  Goes(c, "stopping") /\ Proceeds(c, "stopping")
  BY <1>6, ScheduleFacts, RevTimeoutFacts DEF Proceeds, ClientPCs
<1>7. ASSUME NEW c \in Clients, AwaitDown(c) PROVE Goes(c, "awaitDown") /\ Proceeds(c, "awaitDown")
  BY <1>7, SetClientFacts DEF AwaitDown, ClientAt, Proceeds, ClientPCs
<1>8. ASSUME NEW c \in Clients, StopRefused(c) \/ StopReturns(c)
      PROVE  \/ Goes(c, "idle")
             \/ Goes(c, "start") /\ Proceeds(c, "start")
             \/ Goes(c, "remove") /\ Proceeds(c, "remove")
  <2>1. /\ client[c].pc \in {"stop", "awaitDown"}
        /\ \/ Return(c)
           \/ SetClient(c, "start") /\ client[c].op = "restart"
           \/ SetClient(c, "remove") /\ client[c].op = "unload"
    <3>1. CASE StopRefused(c)
      BY <3>1 DEF StopRefused, ClientAt
    <3>2. CASE StopReturns(c) /\ client[c].op = "restart"
      BY <3>2 DEF StopReturns, ClientAt
    <3>3. CASE StopReturns(c) /\ client[c].op = "unload"
      BY <3>3 DEF StopReturns, ClientAt
    <3>4. CASE StopReturns(c) /\ client[c].op \notin {"restart", "unload"}
      BY <3>4 DEF StopReturns, ClientAt
    <3> QED BY <1>8, <3>1, <3>2, <3>3, <3>4
  <2>2. CASE Return(c)
    BY <2>2, ReturnFacts
  <2>3. CASE SetClient(c, "start") /\ client[c].op = "restart"
    BY <2>1, <2>3, SetClientFacts DEF Proceeds, ClientPCs
  <2>4. CASE SetClient(c, "remove") /\ client[c].op = "unload"
    BY <2>1, <2>4, SetClientFacts DEF Proceeds, ClientPCs
  <2> QED BY <2>1, <2>2, <2>3, <2>4
<1>9. ASSUME NEW c \in Clients, StopGivesUp(c) \/ Remove(c) \/ Start(c) PROVE Goes(c, "idle")
  BY <1>9, ReturnFacts DEF StopGivesUp, Remove, Start
<1>10. CASE (\E i : WatchStop(i)) \/ (\E w : Subscribe(w)) \/ UNCHANGED vars
  BY <1>10 DEF WatchStop, Subscribe, vars
<1>11. ASSUME NEW c \in Clients, MovesClient(c)
       PROVE  \E pc : Goes(c, pc) /\ (pc = "idle" \/ Begins(c, pc) \/ Proceeds(c, pc))
  BY <1>1, <1>2, <1>3, <1>4, <1>5, <1>6, <1>7, <1>8, <1>9, <1>11 DEF MovesClient
<1> QED BY <1>9, <1>10, <1>11, MoveFrames, NextCases

(* The run that Start adds. *)
LEMMA NewRun ==
  ASSUME ManagerTypes, NEW s \in Loaded, StartRun(s)
  PROVE  /\ s \in Services /\ state[s] \in 1..Len(rstate)
         /\ \A j \in Runs : Rests(j)
         /\ \E k : /\ k \notin Runs /\ Runs' = Runs \union {k}
                  /\ runs'[k].svc = s /\ runs'[k].runner = state[s]
                  /\ runs'[k].pc = "starting" /\ runs'[k].outcome = "none"
<1>1. /\ s \in Services /\ state[s] \in 1..Len(rstate) /\ state[s] \in Nat
      /\ runs \in Seq(RunRecords)
  BY DEF Loaded, ManagerTypes, NoRunner
<1>2. /\ Runs = 1..Len(runs) /\ Runs' = 1..(Len(runs) + 1) /\ \A j \in Runs : Rests(j)
      /\ runs'[Len(runs) + 1] = [svc |-> s, runner |-> state[s], pc |-> "starting",
                                 cancelled |-> FALSE, outcome |-> "none"]
  BY <1>1, StartFacts
<1> DEFINE k == Len(runs) + 1
<1>3. k \notin Runs /\ Runs' = Runs \union {k}
  BY <1>1, <1>2, RunsAre
<1>4. /\ runs'[k].svc = s /\ runs'[k].runner = state[s]
      /\ runs'[k].pc = "starting" /\ runs'[k].outcome = "none"
  BY <1>2
<1> HIDE DEF k
<1> QED BY <1>1, <1>2, <1>3, <1>4

LEMMA ClientTypesStep == ClientTypes /\ [Next]_vars => ClientTypes'
<1> SUFFICES ASSUME ClientTypes, [Next]_vars PROVE ClientTypes'
  OBVIOUS
<1>1. CASE UNCHANGED client
  BY <1>1 DEF ClientTypes
<1>2. ASSUME NEW c \in Clients, NEW pc, Goes(c, pc), pc = "idle" \/ Begins(c, pc) \/ Proceeds(c, pc)
      PROVE  ClientTypes'
  <2>1. pc = "idle" \/ (client'[c].svc \in Services /\ client'[c].op \in Ops[c])
    BY <1>2 DEF ClientTypes, Begins, Proceeds
  <2>2. pc \in ClientPCs /\ (pc = "remove" => client'[c].op = "unload")
    BY <1>2 DEF Begins, Proceeds, ClientPCs
  <2> QED BY <1>2, <2>1, <2>2 DEF ClientTypes, Goes
<1> QED BY <1>1, <1>2, ClientsStep

LEMMA OutcomeKnownStep == TypeInv /\ [Next]_vars => OutcomeKnown'
<1> SUFFICES ASSUME TypeInv, [Next]_vars PROVE OutcomeKnown'
  OBVIOUS
<1>0. OutcomeKnown /\ ManagerTypes /\ runs \in Seq(RunRecords)
  BY DEF TypeInv, ManagerTypes
<1>1. CASE Runs' = Runs /\ \A j \in Runs : Rests(j)
  BY <1>0, <1>1 DEF OutcomeKnown, Rests
<1>2. ASSUME NEW i \in Runs, MovesRun(i) PROVE OutcomeKnown'
  BY <1>0, <1>2, MoveFacts DEF OutcomeKnown, Rests, Moved
<1>3. ASSUME NEW s \in Loaded, StartRun(s) PROVE OutcomeKnown'
  BY <1>0, <1>3, NewRun DEF OutcomeKnown, Rests, OverPCs
<1> QED BY <1>1, <1>2, <1>3, RunsStep

LEMMA FlagsStep == TypeInv /\ [Next]_vars => Flags'
<1> SUFFICES ASSUME Flags, [Next]_vars PROVE Flags'
  BY DEF TypeInv
<1>1. \A i : MovesRun(i) => /\ terminating' = terminating /\ crashed' = crashed
                            /\ outrun' = outrun \/ outrun' = (outrun \/ RunsAgain(i))
  BY DEF MovesRun, BeginWait, EndWait, AbortWait, PrepareFails, ProcessStarts, NotifyRunning, ProcessExits,
         StopProcess, ProcessStopped, CleanupFails, NotifyCleanup, LeaveRunning, FinalState, FinalNotify,
         managerVars
<1>2. \A c \in Clients : MovesClient(c) =>
        /\ terminating' = terminating \/ terminating' = (client[c].op = "shutdown")
        /\ crashed' = crashed /\ outrun' = outrun
  <2> SUFFICES ASSUME NEW c \in Clients, MovesClient(c)
               PROVE  /\ terminating' = terminating \/ terminating' = (client[c].op = "shutdown")
                      /\ crashed' = crashed /\ outrun' = outrun
    OBVIOUS
  <2>1. CASE ScheduleStop(c)
    BY <2>1 DEF ScheduleStop
  <2>2. CASE StopRefused(c) \/ RevTimeout(c) \/ AwaitDown(c) \/ StopReturns(c) \/ StopGivesUp(c) \/ Remove(c)
    BY <2>2 DEF StopRefused, RevTimeout, AwaitDown, StopReturns, StopGivesUp, Remove, managerVars
  <2>3. ASSUME NEW s \in Services, SendStop(c, s) \/ Load(c, s)
        PROVE  terminating' = terminating /\ crashed' = crashed /\ outrun' = outrun
    BY <2>3 DEF SendStop, Load, managerVars
  <2>4. ASSUME NEW s \in Services, NEW op \in AllOps, CallStop(c, op, s) \/ APIStart(c, op, s) \/ APIStop(c, op, s)
        PROVE  terminating' = terminating /\ crashed' = crashed /\ outrun' = outrun
    BY <2>4 DEF CallStop, APIStart, APIStop, managerVars
  <2> QED BY <2>1, <2>2, <2>3, <2>4 DEF MovesClient
<1>3. \A c : Start(c) => terminating' = terminating /\ outrun' = outrun /\ (crashed' = crashed \/ crashed' = TRUE)
  <2> SUFFICES ASSUME NEW c, Start(c)
               PROVE  terminating' = terminating /\ outrun' = outrun /\ (crashed' = crashed \/ crashed' = TRUE)
    OBVIOUS
  <2>1. crashed' = crashed \/ crashed' = TRUE
    <3>1. CASE terminating \/ client[c].svc \in running
      BY <3>1 DEF Start
    <3>2. CASE ~terminating /\ client[c].svc \notin running /\ client[c].svc \in Loaded
      BY <3>2 DEF Start, StartRun
    <3>3. CASE ~terminating /\ client[c].svc \notin running /\ client[c].svc \notin Loaded
      BY <3>3 DEF Start
    <3> QED BY <3>1, <3>2, <3>3
  <2> QED BY <2>1 DEF Start
<1>4. (\E i : WatchStop(i)) \/ (\E w : Subscribe(w)) \/ UNCHANGED vars
        => terminating' = terminating /\ outrun' = outrun /\ crashed' = crashed
  BY DEF WatchStop, Subscribe, vars, managerVars
<1>5. terminating' \in BOOLEAN
  BY <1>1, <1>2, <1>3, <1>4, NextCases DEF Flags
<1>6. outrun' \in BOOLEAN
  BY <1>1, <1>2, <1>3, <1>4, NextCases DEF Flags
<1>7. crashed' \in BOOLEAN
  BY <1>1, <1>2, <1>3, <1>4, NextCases DEF Flags
<1> QED BY <1>5, <1>6, <1>7 DEF Flags

LEMMA ManagerTypesStep == TypeInv /\ [Next]_vars => ManagerTypes'
<1> SUFFICES ASSUME TypeInv, [Next]_vars PROVE ManagerTypes'
  OBVIOUS
<1>0. ManagerTypes /\ ClientTypes /\ OutcomeKnown
  BY DEF TypeInv
<1>1. /\ rstate' \in Seq(ServiceStates) /\ everUp' \subseteq Services
      /\ Len(rstate) \in Nat /\ Len(rstate') \in Nat /\ Len(rstate) <= Len(rstate')
  BY UpStep
<1>2. stopCh' \in Seq(0..1) /\ Len(stopCh') = Len(rstate')
  <2>1. ASSUME NEW c \in Clients, NEW s \in Services, Load(c, s)
        PROVE  stopCh' \in Seq(0..1) /\ Len(stopCh') = Len(rstate')
    BY <1>0, <2>1 DEF Load, ManagerTypes
  <2>2. CASE UNCHANGED stopCh \/ \E x : \E n \in 0..1 : stopCh' = [stopCh EXCEPT ![x] = n]
    <3>1. stopCh' \in Seq(0..1) /\ Len(stopCh') = Len(stopCh)
      <4>1. stopCh \in Seq(0..1)
        BY <1>0 DEF ManagerTypes
      <4>2. ASSUME NEW x, NEW n \in 0..1, stopCh' = [stopCh EXCEPT ![x] = n]
            PROVE  stopCh' \in Seq(0..1) /\ Len(stopCh') = Len(stopCh)
        BY <4>1, <4>2, ExceptSeq
      <4> QED BY <2>2, <4>1, <4>2
    <3>2. Len(rstate') = Len(rstate) \/ \E c \in Clients, s \in Services : Load(c, s)
      BY UpStep
    <3> QED BY <1>0, <2>1, <3>1, <3>2 DEF ManagerTypes
  <2> QED BY <2>1, <2>2, StopChStep
<1>3. state' \in [Services -> 0..Len(rstate')]
  <2>1. CASE UNCHANGED state
    BY <1>0, <1>1, <2>1 DEF ManagerTypes
  <2>2. ASSUME NEW c \in Clients, NEW s \in Services, Load(c, s) PROVE state' \in [Services -> 0..Len(rstate')]
    <3>1. state' = [state EXCEPT ![s] = Len(rstate) + 1] /\ Len(rstate') = Len(rstate) + 1
      BY <1>0, <2>2 DEF Load, ManagerTypes
    <3> QED BY <1>0, <1>1, <3>1 DEF ManagerTypes
  <2>3. ASSUME NEW c \in Clients, Remove(c) PROVE state' \in [Services -> 0..Len(rstate')]
    <3>1. state' = [state EXCEPT ![client[c].svc] = 0]
      BY <2>3 DEF Remove, NoRunner
    <3>2. state \in [Services -> 0..Len(rstate')] /\ 0 \in 0..Len(rstate')
      BY <1>0, <1>1 DEF ManagerTypes
    <3> QED BY <3>1, <3>2
  <2> QED BY <2>1, <2>2, <2>3, StateStep
<1>4. runs' \in Seq(RunRecords)
  BY RunsStep
<1>5. \A i \in Runs' : runs'[i].runner \in 1..Len(rstate')
  <2>0. \A i \in Runs : runs[i].runner \in 1..Len(rstate')
    BY <1>0, <1>1 DEF ManagerTypes
  <2>1. CASE Runs' = Runs /\ \A j \in Runs : Rests(j)
    BY <2>0, <2>1 DEF Rests
  <2>2. ASSUME NEW i \in Runs, MovesRun(i) PROVE \A j \in Runs' : runs'[j].runner \in 1..Len(rstate')
    BY <1>0, <2>0, <2>2, MoveFacts DEF Moved, Rests
  <2>3. ASSUME NEW s \in Loaded, StartRun(s) PROVE \A j \in Runs' : runs'[j].runner \in 1..Len(rstate')
    <3>1. state[s] \in 1..Len(rstate')
      BY <1>0, <1>1, <2>3, NewRun
    <3> QED BY <1>0, <2>0, <2>3, <3>1, NewRun DEF Rests
  <2> QED BY <2>1, <2>2, <2>3, RunsStep
<1>6. running' \subseteq Services
  <2>0. running \subseteq Services /\ \A c \in Clients : client[c].pc = "start" => client[c].svc \in Services
    BY <1>0 DEF ManagerTypes, ClientTypes
  <2>1. ASSUME NEW c \in Clients, Start(c) PROVE running' \subseteq Services
    BY <2>0, <2>1, StartCases DEF Start, ClientAt, StartRun
  <2> QED BY <2>0, <2>1, RunningStep DEF LeaveRunning, Remove
<1>7. \A u \in subs' : u.runner \in 1..Len(rstate')
  <2>0. \A u \in subs : u.runner \in 1..Len(rstate')
    BY <1>0, <1>1 DEF ManagerTypes
  <2>1. ASSUME NEW w, w.on \in Services, Subscribe(w) PROVE state[w.on] \in 1..Len(rstate')
    BY <1>0, <1>1, <2>1 DEF Subscribe, NoRunner, ManagerTypes
  <2> QED BY <2>0, <2>1, SubsStep
<1> QED BY <1>1, <1>2, <1>3, <1>4, <1>5, <1>6, <1>7 DEF ManagerTypes

LEMMA TypeInvStep == TypeInv /\ [Next]_vars => TypeInv'
  BY ClientTypesStep, OutcomeKnownStep, FlagsStep, ManagerTypesStep DEF TypeInv

-----------------------------------------------------------------------------
(* Waits *)

LEMMA EndWaitsFacts ==
  ASSUME NEW W, EndWaits(W)
  PROVE  /\ Outstanding' = Outstanding \ W
         /\ pending' \subseteq pending /\ subs' \subseteq subs
  BY DEF EndWaits, Outstanding

LEMMA SubscribeFacts ==
  ASSUME NEW w, Subscribe(w)
  PROVE  /\ Outstanding' \subseteq Outstanding /\ w \in Outstanding
         /\ pending' = pending \ {w} /\ UNCHANGED <<runs, client, everUp>>
         /\ \A u \in subs' : u \in subs \/ (u.wait = w /\ u.runner = state[w.on])
         /\ \A v \in Outstanding : v \in Outstanding' \/ (v = w /\ InState(rstate[state[w.on]], EventOf(w)))
<1>1. PICK u : u = [wait |-> w, runner |-> state[w.on]]
  OBVIOUS
<1>2. u.wait = w /\ u.runner = state[w.on]
  BY <1>1
<1>3. /\ w \in pending /\ pending' = pending \ {w} /\ UNCHANGED <<runs, client, everUp>>
      /\ (subs' = subs /\ InState(rstate[state[w.on]], EventOf(w))) \/ subs' = subs \union {u}
  BY <1>1 DEF Subscribe
<1> QED BY <1>2, <1>3 DEF Outstanding

(* No wait begins but in these three steps. *)
LEMMA MoveWaits ==
  ASSUME NEW i, MovesRun(i)
  PROVE  /\ BeginWait(i) \/ (Outstanding' \subseteq Outstanding /\ pending' \subseteq pending)
         /\ runs[i].pc = "waiting" => EndWait(i) \/ AbortWait(i)
<1>1. CASE BeginWait(i)
  BY <1>1 DEF BeginWait, RunAt
<1>2. CASE EndWait(i) \/ AbortWait(i)
  BY <1>2, EndWaitsFacts DEF EndWait, AbortWait, RunAt, waitVars, Outstanding
<1>3. CASE NotifyRunning(i) \/ NotifyCleanup(i) \/ FinalNotify(i)
  BY <1>3, EndWaitsFacts DEF NotifyRunning, NotifyCleanup, FinalNotify, NotifyFrom, RunAt
<1>4. CASE \/ PrepareFails(i) \/ ProcessStarts(i) \/ ProcessExits(i) \/ StopProcess(i) \/ ProcessStopped(i)
           \/ CleanupFails(i) \/ LeaveRunning(i) \/ FinalState(i)
  BY <1>4 DEF PrepareFails, ProcessStarts, ProcessExits, StopProcess, ProcessStopped, CleanupFails, LeaveRunning,
              FinalState, RunAt, waitVars, Outstanding
<1> QED BY <1>1, <1>2, <1>3, <1>4 DEF MovesRun

LEMMA ClientWaits ==
  ASSUME NEW c, MovesClient(c)
  PROVE  \/ ScheduleStop(c) \/ AwaitDown(c) \/ RevTimeout(c) \/ StopGivesUp(c)
         \/ UNCHANGED <<pending, subs, Outstanding>>
  BY DEF MovesClient, StopRefused, StopReturns, Remove, CallStop, APIStart, APIStop, SendStop, Load, waitVars,
         Outstanding

LEMMA AwaitDownFacts ==
  ASSUME ClientTypes, NEW c \in Clients, AwaitDown(c)
  PROVE  /\ Goes(c, "awaitDown") /\ client[c].pc = "stopping" /\ client[c].unsent = {} /\ UNCHANGED <<subs, runs>>
         /\ \A w \in pending' : w \in pending \/ (w.kind = "down" /\ w.owner = c)
<1>1. Goes(c, "awaitDown")
  BY SetClientFacts DEF AwaitDown
<1>2. \A s : DownWait(c, s).kind = "down" /\ DownWait(c, s).owner = c
  BY DEF DownWait
<1> QED BY <1>1, <1>2 DEF AwaitDown, ClientAt

LEMMA BeginWaitFacts ==
  ASSUME NEW i, BeginWait(i)
  PROVE  /\ runs[i].pc = "starting" /\ i \in Runs /\ UNCHANGED <<subs, client>>
         /\ \A w \in pending' : w \in pending \/ (w.kind = "dep" /\ w.owner = i /\ DependsOn[runs[i].svc] # {})
         /\ \A d \in DependsOn[runs[i].svc] : DepWait(i, d) \in pending'
         /\ IF DependsOn[runs[i].svc] = {} THEN SetRun(i, "preparing") ELSE SetRun(i, "waiting")
<1>1. \A d : DepWait(i, d).kind = "dep" /\ DepWait(i, d).owner = i
  BY DEF DepWait
<1> QED BY <1>1 DEF BeginWait, RunAt

LEMMA WaitsOwnedStep == TypeInv /\ WaitsOwned /\ [Next]_vars => WaitsOwned'
<1> SUFFICES ASSUME TypeInv, WaitsOwned, [Next]_vars, NEW w \in Outstanding'
             PROVE  /\ w.kind = "dep" => w.owner \in Runs' /\ runs'[w.owner].pc = "waiting"
                    /\ w.kind = "rev" => /\ w.owner \in Clients /\ client'[w.owner].pc = "stopping"
                                         /\ w.at \in client'[w.owner].unsent
                    /\ w.kind = "down" => w.owner \in Clients /\ client'[w.owner].pc = "awaitDown"
  BY DEF WaitsOwned
<1>0. ManagerTypes /\ ClientTypes /\ OutcomeKnown
  BY DEF TypeInv
<1>a. w \in Outstanding =>
        /\ w.kind = "dep" => w.owner \in Runs /\ runs[w.owner].pc = "waiting"
        /\ w.kind = "rev" => /\ w.owner \in Clients /\ client[w.owner].pc = "stopping"
                             /\ w.at \in client[w.owner].unsent
        /\ w.kind = "down" => w.owner \in Clients /\ client[w.owner].pc = "awaitDown"
  BY DEF WaitsOwned
<1>1. CASE Outstanding' \subseteq Outstanding /\ Runs' = Runs /\ (\A j \in Runs : Rests(j)) /\ UNCHANGED client
  BY <1>1, <1>a DEF Rests
<1> DEFINE Goal == /\ w.kind = "dep" => w.owner \in Runs' /\ runs'[w.owner].pc = "waiting"
                   /\ w.kind = "rev" => /\ w.owner \in Clients /\ client'[w.owner].pc = "stopping"
                                        /\ w.at \in client'[w.owner].unsent
                   /\ w.kind = "down" => w.owner \in Clients /\ client'[w.owner].pc = "awaitDown"
<1>2. ASSUME NEW i, MovesRun(i) PROVE Goal
  <2>0. /\ i \in Runs /\ Runs' = Runs /\ (\A j \in Runs : j # i => Rests(j)) /\ UNCHANGED client
        /\ runs \in Seq(RunRecords)
    BY <1>0, <1>2, MoveFacts, MoveFrames DEF Moved, ManagerTypes
  <2>1. CASE BeginWait(i)
    <3>1. CASE w \in Outstanding
      BY <1>a, <2>0, <2>1, <3>1, BeginWaitFacts DEF Rests
    <3>2. CASE w \notin Outstanding
      <4>1. w \in pending' /\ w \notin pending
        BY <2>1, <3>2, BeginWaitFacts DEF Outstanding
      <4>2. w.kind = "dep" /\ w.owner = i /\ SetRun(i, "waiting")
        BY <2>1, <4>1, BeginWaitFacts
      <4>3. runs'[i].pc = "waiting"
        BY <2>0, <4>2, SetRunFacts DEF Moved, RunPCs
      <4> QED BY <2>0, <4>2, <4>3
    <3> QED BY <3>1, <3>2
  <2>2. CASE ~BeginWait(i)
    <3>1. w \in Outstanding
      BY <1>2, <2>2, MoveWaits
    <3>2. ~(w.kind = "dep" /\ w.owner = i)
      <4>1. EndWait(i) => DepWaitsOf(i) = {}
        BY DEF EndWait
      <4>2. AbortWait(i) => w \notin DepWaitsOf(i)
        BY EndWaitsFacts DEF AbortWait
      <4>3. w.kind = "dep" /\ w.owner = i => w \in DepWaitsOf(i) /\ runs[i].pc = "waiting"
        BY <1>a, <3>1 DEF DepWaitsOf
      <4> QED BY <1>2, <4>1, <4>2, <4>3, MoveWaits
    <3> QED BY <1>a, <2>0, <3>1, <3>2 DEF Rests
  <2> QED BY <2>1, <2>2
<1>3. ASSUME NEW c \in Clients, MovesClient(c) PROVE Goal
  <2>0. Runs' = Runs /\ \A j \in Runs : Rests(j)
    <3>1. CASE \E s \in Services : SendStop(c, s)
      BY <1>0, <3>1, ShutdownFacts DEF SendStop, ManagerTypes
    <3>2. CASE ~\E s \in Services : SendStop(c, s)
      BY <1>3, <3>2 DEF MovesClient, ScheduleStop, StopRefused, RevTimeout, AwaitDown, StopReturns, StopGivesUp,
                        Remove, Load, CallStop, APIStart, APIStop, Runs, Rests
    <3> QED BY <3>1, <3>2
  <2>1. CASE ScheduleStop(c)
    <3>1. w \in Outstanding \/ (w.kind = "rev" /\ w.owner = c /\ w.at \in client'[c].unsent)
      BY <1>0, <2>1, ScheduleFacts DEF Outstanding
    <3> QED BY <1>0, <1>a, <2>0, <2>1, <3>1, ScheduleFacts DEF Goes, Rests
  <2>2. CASE AwaitDown(c)
    <3>1. w \in Outstanding \/ (w.kind = "down" /\ w.owner = c)
      BY <1>0, <2>2, AwaitDownFacts DEF Outstanding
    <3> QED BY <1>0, <1>a, <2>0, <2>2, <3>1, AwaitDownFacts DEF Goes, Rests
  <2>3. CASE RevTimeout(c)
    <3>1. w \in Outstanding /\ ~(w.kind = "rev" /\ w.owner = c)
      BY <2>3, EndWaitsFacts DEF RevTimeout
    <3> QED BY <1>0, <1>a, <2>0, <2>3, <3>1, RevTimeoutFacts DEF Goes, Rests
  <2>4. CASE StopGivesUp(c)
    <3>1. w \in Outstanding /\ ~(w.kind = "down" /\ w.owner = c) /\ client[c].pc = "awaitDown"
      BY <2>4, EndWaitsFacts DEF StopGivesUp, DownWaitsOf, ClientAt
    <3> QED BY <1>0, <1>a, <2>0, <2>4, <3>1, ReturnFacts DEF StopGivesUp, Goes, Rests
  <2>5. CASE UNCHANGED Outstanding /\ \E s : SendStop(c, s)
    <3>1. PICK s : SendStop(c, s)
      BY <2>5
    <3>2. w \in Outstanding /\ (w.kind = "rev" /\ w.owner = c => w.at # s)
      BY <2>5, <3>1 DEF SendStop
    <3> QED BY <1>0, <1>a, <2>0, <3>1, <3>2, SendStopFacts DEF Goes, Rests
  <2>6. CASE UNCHANGED Outstanding /\ StopReturns(c)
    <3>1. w \in Outstanding /\ ~(w.kind = "down" /\ w.owner = c) /\ client[c].pc = "awaitDown"
      BY <2>6 DEF StopReturns, DownWaitsOf, ClientAt
    <3>2. \A d \in Clients : d # c => client'[d] = client[d]
      BY <1>0, <2>6 DEF StopReturns, SetClient, Return, ClientTypes
    <3> QED BY <1>a, <2>0, <3>1, <3>2 DEF Rests
  <2>7. CASE /\ UNCHANGED Outstanding
             /\ ~ScheduleStop(c) /\ ~AwaitDown(c) /\ ~RevTimeout(c) /\ ~StopGivesUp(c)
             /\ ~StopReturns(c) /\ ~\E s : SendStop(c, s)
    <3>1. client[c].pc \in {"idle", "stop", "remove"}
      BY <1>3, <2>7 DEF MovesClient, StopRefused, Remove, Load, CallStop, APIStart, APIStop, Calls, ClientAt
    <3>2. \A d \in Clients : d # c => client'[d] = client[d]
      BY <1>0, <1>3, <2>7 DEF MovesClient, StopRefused, Remove, Load, CallStop, APIStart, APIStop, Calls,
                              SetClient, Return, ClientTypes
    <3> QED BY <1>a, <2>0, <2>7, <3>1, <3>2 DEF Rests
  <2> QED BY <1>3, <2>1, <2>2, <2>3, <2>4, <2>5, <2>6, <2>7, ClientWaits
<1>4. ASSUME NEW c \in Clients, Start(c) PROVE Goal
  <2>1. Outstanding' = Outstanding /\ client[c].pc = "start" /\ Goes(c, "idle")
    BY <1>0, <1>4, ReturnFacts DEF Start, ClientAt, Outstanding, waitVars
  <2>2. \A j \in Runs : j \in Runs' /\ Rests(j)
    BY <1>0, <1>4, StartCases, NewRun DEF Rests, Runs
  <2> QED BY <1>a, <2>1, <2>2 DEF Goes, Rests
<1>5. CASE UNCHANGED vars
  BY <1>1, <1>5 DEF vars, waitVars, Outstanding, Runs, Rests
<1>6. ASSUME NEW i, WatchStop(i) PROVE Goal
  BY <1>0, <1>1, <1>6, WatchStopFacts DEF WatchStop, RunAt, waitVars, Outstanding, ManagerTypes
<1>7. ASSUME NEW v, Subscribe(v) PROVE Goal
  BY <1>1, <1>7, SubscribeFacts DEF Runs, Rests
<1> QED BY <1>2, <1>3, <1>4, <1>5, <1>6, <1>7, NextCases

LEMMA DisjointStep == TypeInv /\ WaitInv /\ [Next]_vars => Disjoint'
<1> SUFFICES ASSUME TypeInv, WaitInv, [Next]_vars, NEW w \in pending', NEW u \in subs', u.wait = w PROVE FALSE
  BY DEF Disjoint
<1>0. /\ ClientTypes /\ WaitsOwned
      /\ \A v \in pending, t \in subs : t.wait # v
  BY DEF TypeInv, WaitInv, Disjoint
<1>1. CASE pending' \subseteq pending /\ subs' \subseteq subs
  BY <1>0, <1>1
<1>2. ASSUME NEW i, BeginWait(i) PROVE FALSE
  <2>1. w.kind = "dep" /\ w.owner = i /\ w \in Outstanding
    BY <1>0, <1>2, BeginWaitFacts DEF Outstanding
  <2> QED BY <1>0, <1>2, <2>1, BeginWaitFacts DEF WaitsOwned
<1>3. ASSUME NEW c \in Clients, ScheduleStop(c) PROVE FALSE
  <2>1. w.kind = "rev" /\ w.owner = c /\ w \in Outstanding
    BY <1>0, <1>3, ScheduleFacts DEF Outstanding
  <2> QED BY <1>0, <1>3, <2>1, ScheduleFacts DEF WaitsOwned
<1>4. ASSUME NEW c \in Clients, AwaitDown(c) PROVE FALSE
  <2>1. w.kind = "down" /\ w.owner = c /\ w \in Outstanding
    BY <1>0, <1>4, AwaitDownFacts DEF Outstanding
  <2> QED BY <1>0, <1>4, <2>1, AwaitDownFacts DEF WaitsOwned
<1>5. ASSUME NEW v, Subscribe(v) PROVE FALSE
  BY <1>0, <1>5, SubscribeFacts
<1>6. CASE (\E i : WatchStop(i)) \/ (\E c \in Clients : Start(c)) \/ UNCHANGED vars
  BY <1>1, <1>6 DEF WatchStop, Start, vars, waitVars
<1>7. ASSUME NEW c \in Clients, MovesClient(c) PROVE FALSE
  BY <1>1, <1>3, <1>4, <1>7, ClientWaits, EndWaitsFacts DEF RevTimeout, StopGivesUp
<1>8. ASSUME NEW i, MovesRun(i) PROVE FALSE
  BY <1>1, <1>2, <1>8, MoveWaits, MoveFrames
<1> QED BY <1>5, <1>6, <1>7, <1>8, NextCases

-----------------------------------------------------------------------------
(* Who has been up *)

(* Nobody comes to hold a runner that exists already, but through a holder. *)
LEMMA HoldsStep ==
  ASSUME TypeInv, [Next]_vars, NEW x \in 1..Len(rstate), NEW s, Holds(s, x)'
  PROVE  Holds(s, x)
<1>0. ManagerTypes /\ OutcomeKnown /\ Len(rstate) \in Nat
  BY DEF TypeInv, ManagerTypes
<1>1. CASE s \in Services /\ state'[s] = x
  <2>1. ASSUME NEW c \in Clients, NEW t \in Services, Load(c, t) PROVE state[s] = x
    BY <1>0, <1>1, <2>1 DEF Load, ManagerTypes
  <2>2. ASSUME NEW c \in Clients, Remove(c) PROVE state[s] = x
    BY <1>0, <1>1, <2>2 DEF Remove, NoRunner, ManagerTypes
  <2> QED BY <1>1, <2>1, <2>2, StateStep DEF Holds
<1>2. ASSUME NEW i \in Runs', runs'[i].svc = s, runs'[i].runner = x PROVE Holds(s, x)
  <2>1. CASE i \in Runs
    <3>1. runs'[i].svc = runs[i].svc /\ runs'[i].runner = runs[i].runner
      BY <1>0, <2>1, RunsStep, MoveFacts, NewRun DEF Moved, Rests
    <3> QED BY <1>2, <2>1, <3>1 DEF Holds
  <2>2. CASE i \notin Runs
    <3>1. PICK t \in Loaded : StartRun(t)
      BY <1>0, <2>2, RunsStep, MoveFacts DEF Moved
    <3> QED BY <1>0, <1>2, <2>2, <3>1, NewRun DEF Holds
  <2> QED BY <2>1, <2>2
<1>3. ASSUME NEW u \in subs', u.wait.on = s, u.runner = x PROVE Holds(s, x)
  <2>1. CASE u \in subs
    BY <1>3, <2>1 DEF Holds
  <2>2. CASE u \notin subs
    <3>1. PICK w : w.on \in Services /\ Subscribe(w)
      BY <2>2, SubsStep
    <3>2. u.wait = w /\ u.runner = state[w.on]
      BY <2>2, <3>1, SubscribeFacts
    <3> QED BY <1>3, <3>1, <3>2 DEF Holds
  <2> QED BY <2>1, <2>2
<1> QED BY <1>1, <1>2, <1>3 DEF Holds

LEMMA OneServiceStep == TypeInv /\ OneService /\ [Next]_vars => OneService'
<1> SUFFICES ASSUME TypeInv, OneService, [Next]_vars,
                    NEW x \in 1..Len(rstate'), NEW s, NEW t, Holds(s, x)', Holds(t, x)'
             PROVE  s = t
  BY DEF OneService
<1>1. CASE x \in 1..Len(rstate)
  BY <1>1, HoldsStep DEF OneService
<1>2. CASE x \notin 1..Len(rstate)
  <2>1. PICK c \in Clients, l \in Services : Load(c, l)
    BY <1>2, UpStep
  <2>2. /\ state' = [state EXCEPT ![l] = Len(rstate) + 1] /\ UNCHANGED <<runs, subs>>
        /\ x = Len(rstate) + 1 /\ Len(rstate) \in Nat
    BY <1>2, <2>1, UpStep DEF Load, waitVars
  <2>3. ManagerTypes
    BY DEF TypeInv
  <2>4. \A r \in Services : state'[r] = x => r = l
    BY <2>2, <2>3 DEF ManagerTypes
  <2>5. (\A i \in Runs' : runs'[i].runner # x) /\ \A u \in subs' : u.runner # x
    BY <2>2, <2>3 DEF ManagerTypes, Runs
  <2> QED BY <2>4, <2>5 DEF Holds
<1> QED BY <1>1, <1>2

LEMMA UpSeenStep == TypeInv /\ OneService /\ UpSeen /\ [Next]_vars => UpSeen'
<1> SUFFICES ASSUME TypeInv, OneService, UpSeen, [Next]_vars PROVE UpSeen'
  OBVIOUS
<1>0. ManagerTypes /\ OutcomeKnown /\ everUp \subseteq everUp'
  BY UpStep DEF TypeInv
<1>1. ASSUME NEW x \in 1..Len(rstate'), InState(rstate'[x], "up"), NEW s, Holds(s, x)' PROVE s \in everUp'
  <2>1. /\ x \in 1..Len(rstate)
        /\ InState(rstate[x], "up") \/ \E i \in Runs : runs[i].runner = x /\ runs[i].svc \in everUp'
    BY <1>1, UpStep
  <2>2. Holds(s, x)
    BY <1>1, <2>1, HoldsStep
  <2>3. CASE InState(rstate[x], "up")
    BY <1>0, <2>1, <2>2, <2>3 DEF UpSeen
  <2>4. ASSUME NEW i \in Runs, runs[i].runner = x, runs[i].svc \in everUp' PROVE s \in everUp'
    <3>1. Holds(runs[i].svc, x)
      BY <2>4 DEF Holds
    <3> QED BY <2>1, <2>2, <2>4, <3>1 DEF OneService
  <2> QED BY <2>1, <2>3, <2>4
<1>2. ASSUME NEW i \in Runs',
             runs'[i].pc = "up" \/ (runs'[i].pc = "announce" /\ InState(runs'[i].outcome, "up"))
      PROVE  runs'[i].svc \in everUp'
  <2>1. CASE i \in Runs /\ Rests(i)
    BY <1>0, <1>2, <2>1 DEF Rests, UpSeen
  <2>2. CASE i \in Runs /\ MovesRun(i)
    <3>0. runs \in Seq(RunRecords)
      BY <1>0 DEF ManagerTypes
    <3>1. runs'[i].svc = runs[i].svc
      BY <1>0, <2>2, MoveFacts DEF Moved
    <3>2. CASE ProcessStarts(i)
      BY <3>1, <3>2 DEF ProcessStarts, UpdateState, InState
    <3>3. CASE FinalState(i)
      <4>1. runs'[i].outcome = runs[i].outcome /\ runs'[i].pc = "announce"
        BY <2>2, <3>0, <3>3, SetRunFacts DEF FinalState, Moved, RunPCs
      <4> QED BY <1>2, <3>1, <3>3, <4>1 DEF FinalState, UpdateState
    <3>4. CASE ~ProcessStarts(i) /\ ~FinalState(i)
      <4>1. CASE \E outcome \in Outcomes : EndRun(i, outcome)
        BY <1>2, <2>2, <3>0, <4>1, EndRunFacts DEF Moved
      <4>2. CASE \E pc \in RunPCs \ {"up", "announce"} : SetRun(i, pc)
        BY <1>2, <2>2, <3>0, <4>2, SetRunFacts DEF Moved
      <4> QED BY <2>2, <3>4, <4>1, <4>2
          DEF MovesRun, BeginWait, EndWait, AbortWait, PrepareFails, NotifyRunning, ProcessExits,
              StopProcess, ProcessStopped, CleanupFails, NotifyCleanup, LeaveRunning, FinalNotify, RunPCs, Outcomes
    <3> QED BY <3>2, <3>3, <3>4
  <2>3. CASE i \notin Runs \/ (~Rests(i) /\ ~MovesRun(i))
    <3>1. PICK t \in Loaded : StartRun(t)
      BY <1>0, <1>2, <2>3, RunsStep, MoveFacts DEF Moved
    <3> QED BY <1>0, <1>2, <2>3, <3>1, NewRun
  <2> QED BY <2>1, <2>2, <2>3
<1> QED BY <1>1, <1>2 DEF UpSeen

(* A run's wait for a service ends when the service has been up, or with   *)
(* the run's own end.                                                       *)
LEMMA DepWaitEnds ==
  ASSUME TypeInv, OneService, UpSeen, [Next]_vars, NEW i, NEW d,
         DepWait(i, d) \in Outstanding, DepWait(i, d) \notin Outstanding'
  PROVE  d \in everUp' \/ AbortWait(i)
<1> DEFINE w == DepWait(i, d)
<1>0. w.kind = "dep" /\ w.owner = i /\ w.on = d /\ EventOf(w) = "up"
  BY DEF DepWait, EventOf
<1>1. ManagerTypes /\ everUp \subseteq everUp'
  BY UpStep DEF TypeInv
<1>2. w \in Outstanding /\ w \notin Outstanding'
  OBVIOUS
<1> HIDE DEF w
<1>3. ASSUME NEW v, v.on \in Services, Subscribe(v) PROVE d \in everUp'
  <2>1. v = w /\ InState(rstate[state[d]], "up")
    BY <1>0, <1>2, <1>3, SubscribeFacts
  <2>2. state[d] \in 1..Len(rstate) /\ Holds(d, state[d])
    BY <1>0, <1>1, <1>3, <2>1 DEF Subscribe, NoRunner, Holds, ManagerTypes
  <2> QED BY <1>1, <2>1, <2>2 DEF UpSeen
<1>4. ASSUME NEW j, NEW st, NotifyFrom(j, st), j \in Runs, InState(st, "up") => runs[j].svc \in everUp
      PROVE  d \in everUp'
  <2>1. w \in {u.wait : u \in {v \in subs : v.runner = runs[j].runner /\ InState(st, EventOf(v.wait))}}
    BY <1>2, <1>4, EndWaitsFacts DEF NotifyFrom
  <2>2. PICK u \in subs : u.wait = w /\ u.runner = runs[j].runner /\ InState(st, EventOf(u.wait))
    BY <2>1
  <2>3. runs[j].svc \in everUp
    BY <1>0, <1>4, <2>2
  <2>4. u.runner \in 1..Len(rstate) /\ Holds(d, u.runner) /\ Holds(runs[j].svc, u.runner)
    BY <1>0, <1>1, <1>4, <2>2 DEF Holds, ManagerTypes
  <2> QED BY <1>1, <2>3, <2>4 DEF OneService
<1>5. ASSUME NEW j, MovesRun(j) PROVE d \in everUp' \/ AbortWait(i)
  <2>1. CASE AbortWait(j)
    <3>1. w \in DepWaitsOf(j)
      BY <1>2, <2>1, EndWaitsFacts DEF AbortWait
    <3> QED BY <1>0, <2>1, <3>1 DEF DepWaitsOf
  <2>2. CASE NotifyRunning(j)
    BY <1>4, <2>2 DEF NotifyRunning, RunAt, UpSeen
  <2>3. CASE NotifyCleanup(j)
    BY <1>4, <2>3 DEF NotifyCleanup, RunAt, InState
  <2>4. CASE FinalNotify(j)
    BY <1>4, <2>4 DEF FinalNotify, RunAt, UpSeen
  <2>5. CASE BeginWait(j)
    BY <1>2, <2>5 DEF BeginWait, Outstanding
  <2>6. CASE \/ EndWait(j) \/ PrepareFails(j) \/ ProcessStarts(j) \/ ProcessExits(j) \/ StopProcess(j)
             \/ ProcessStopped(j) \/ CleanupFails(j) \/ LeaveRunning(j) \/ FinalState(j)
    BY <1>2, <2>6 DEF EndWait, PrepareFails, ProcessStarts, ProcessExits, StopProcess, ProcessStopped, CleanupFails,
                      LeaveRunning, FinalState, waitVars, Outstanding
  <2> QED BY <1>5, <2>1, <2>2, <2>3, <2>4, <2>5, <2>6 DEF MovesRun
<1>6. ASSUME NEW c \in Clients, MovesClient(c) PROVE FALSE
  <2>1. CASE ScheduleStop(c) \/ AwaitDown(c)
    BY <1>2, <2>1 DEF ScheduleStop, AwaitDown, Outstanding
  <2>2. CASE RevTimeout(c)
    BY <1>0, <1>2, <2>2, EndWaitsFacts DEF RevTimeout
  <2>3. CASE StopGivesUp(c)
    BY <1>0, <1>2, <2>3, EndWaitsFacts DEF StopGivesUp, DownWaitsOf
  <2> QED BY <1>2, <1>6, <2>1, <2>2, <2>3, ClientWaits
<1>7. CASE (\E j : WatchStop(j)) \/ (\E c \in Clients : Start(c)) \/ UNCHANGED vars
  BY <1>2, <1>7 DEF WatchStop, Start, vars, waitVars, Outstanding
<1> QED BY <1>3, <1>5, <1>6, <1>7, NextCases

LEMMA WaitedStep == TypeInv /\ UpInv /\ [Next]_vars => Waited'
<1> SUFFICES ASSUME TypeInv, OneService, UpSeen, Waited, [Next]_vars, NEW i \in Runs'
             PROVE  /\ runs'[i].pc = "waiting" =>
                         \A d \in DependsOn[runs'[i].svc] : d \in everUp' \/ DepWait(i, d) \in Outstanding'
                    /\ runs'[i].pc \in {"preparing", "up", "running", "stopping"} =>
                         DependsOn[runs'[i].svc] \subseteq everUp'
  BY DEF UpInv, Waited
<1>0. ManagerTypes /\ OutcomeKnown /\ everUp \subseteq everUp' /\ runs \in Seq(RunRecords)
  BY UpStep DEF TypeInv, ManagerTypes
<1>1. CASE i \in Runs /\ Rests(i)
  <2>1. ~AbortWait(i)
    <3>1. AbortWait(i) => runs[i].pc = "waiting" /\ EndRun(i, "failed")
      BY DEF AbortWait, RunAt
    <3>2. EndRun(i, "failed") => runs'[i].pc = "cleanup"
      BY <1>0, <1>1, EndRunFacts DEF Moved, Outcomes
    <3> QED BY <1>1, <3>1, <3>2 DEF Rests
  <2> QED BY <1>0, <1>1, <2>1, DepWaitEnds DEF Rests, Waited
<1>2. CASE i \in Runs /\ MovesRun(i)
  <2>0. runs'[i].svc = runs[i].svc
    BY <1>0, <1>2, MoveFacts DEF Moved
  <2>1. CASE BeginWait(i)
    <3>1. CASE DependsOn[runs[i].svc] = {}
      <4>1. runs'[i].pc = "preparing"
        BY <1>0, <1>2, <2>1, <3>1, BeginWaitFacts, SetRunFacts DEF Moved, RunPCs
      <4> QED BY <2>0, <3>1, <4>1
    <3>2. CASE DependsOn[runs[i].svc] # {}
      <4>1. runs'[i].pc = "waiting"
        BY <1>0, <1>2, <2>1, <3>2, BeginWaitFacts, SetRunFacts DEF Moved, RunPCs
      <4> QED BY <2>0, <2>1, <4>1, BeginWaitFacts DEF Outstanding
    <3> QED BY <3>1, <3>2
  <2>2. CASE EndWait(i)
    <3>1. runs'[i].pc = "preparing" /\ runs[i].pc = "waiting"
      BY <1>0, <1>2, <2>2, SetRunFacts DEF EndWait, RunAt, Moved, RunPCs
    <3>2. \A d : DepWait(i, d) \notin Outstanding
      BY <2>2 DEF EndWait, DepWaitsOf, DepWait
    <3> QED BY <1>0, <1>2, <2>0, <3>1, <3>2 DEF Waited
  <2>3. CASE ProcessStarts(i) \/ NotifyRunning(i) \/ StopProcess(i)
    <3>1. runs[i].pc \in {"preparing", "up", "running"}
      BY <2>3 DEF ProcessStarts, NotifyRunning, StopProcess, RunAt
    <3>2. runs'[i].pc \in {"up", "running", "stopping"}
      BY <1>0, <1>2, <2>3, SetRunFacts DEF ProcessStarts, NotifyRunning, StopProcess, Moved, RunPCs
    <3> QED BY <1>0, <1>2, <2>0, <3>1, <3>2 DEF Waited
  <2>4. CASE \E outcome \in Outcomes : EndRun(i, outcome)
    BY <1>0, <1>2, <2>4, EndRunFacts DEF Moved
  <2>5. CASE \E pc \in {"cleanupFailed", "cleaned", "final", "announce", "done"} : SetRun(i, pc)
    BY <1>0, <1>2, <2>5, SetRunFacts DEF Moved, RunPCs
  <2> QED BY <1>2, <2>1, <2>2, <2>3, <2>4, <2>5
      DEF MovesRun, AbortWait, PrepareFails, ProcessExits, ProcessStopped, CleanupFails, NotifyCleanup,
          LeaveRunning, FinalState, FinalNotify, Outcomes
<1>3. CASE i \notin Runs \/ (~Rests(i) /\ ~MovesRun(i))
  <2>1. PICK t \in Loaded : StartRun(t)
    BY <1>0, <1>3, RunsStep, MoveFacts DEF Moved
  <2>2. runs'[i].pc = "starting"
    BY <1>0, <1>3, <2>1, NewRun
  <2> QED BY <2>2
<1> QED BY <1>1, <1>2, <1>3

-----------------------------------------------------------------------------
(* The inductive invariant of the manager, with or without Unload: types,   *)
(* waits owned by who waits, runners of one service, and dependencies that  *)
(* have been up before a run goes on.                                       *)
THEOREM ManagerInvariant == Spec => []ManagerInv
<1>1. ManagerInv /\ [Next]_vars => ManagerInv'
  BY TypeInvStep, WaitsOwnedStep, DisjointStep, OneServiceStep, UpSeenStep, WaitedStep
     DEF ManagerInv, WaitInv, UpInv
<1> QED BY ManagerInit, <1>1, PTL DEF Spec

(* No process before its dependencies: whatever is loaded, unloaded,        *)
(* started, stopped and timed out meanwhile, svcrunner.Run has started a    *)
(* service's process only once every service it depends on has been up.     *)
THEOREM DependenciesComeFirst == Spec => []DependenciesFirst
<1>1. ManagerInv => DependenciesFirst
  BY DEF ManagerInv, UpInv, Waited, DependenciesFirst, HasProcess
<1> QED BY ManagerInvariant, <1>1, PTL

-----------------------------------------------------------------------------
(* Without Unload *)

LEMMA NothingRemoved ==
  ASSUME NoUnload, TypeInv, NEW c \in Clients
  PROVE  ~Remove(c)
  BY DEF NoUnload, TypeInv, ClientTypes, Remove, ClientAt

LEMMA StaysLoadedStep == NoUnload /\ TypeInv /\ StaysLoaded /\ [Next]_vars => StaysLoaded'
<1> SUFFICES ASSUME NoUnload, TypeInv, StaysLoaded, [Next]_vars PROVE StaysLoaded'
  OBVIOUS
<1>0. ManagerTypes /\ ClientTypes /\ state \in [Services -> 0..Len(rstate)] /\ Len(rstate) \in Nat
  BY DEF TypeInv, ManagerTypes
<1>1. Loaded \subseteq Loaded'
  <2>1. ASSUME NEW c \in Clients, NEW s \in Services, Load(c, s) PROVE Loaded \subseteq Loaded'
    BY <1>0, <2>1 DEF Load, Loaded, NoRunner
  <2>2. CASE UNCHANGED state
    BY <2>2 DEF Loaded
  <2> QED BY <2>1, <2>2, StateStep, NothingRemoved
<1>2. ~crashed'
  <2>1. ASSUME NEW i, LeaveRunning(i) PROVE ~crashed'
    BY <2>1 DEF LeaveRunning, StaysLoaded
  <2>2. ASSUME NEW c \in Clients, Start(c) PROVE ~crashed'
    <3>1. client[c].svc \in Loaded
      BY <2>2 DEF Start, ClientAt, StaysLoaded
    <3> QED BY <2>2, <3>1, StartCases DEF StaysLoaded, StartRun
  <2> QED BY <2>1, <2>2, RunningStep, NothingRemoved DEF StaysLoaded
<1>3. CASE UNCHANGED client
  BY <1>1, <1>2, <1>3 DEF StaysLoaded
<1>4. ASSUME NEW c \in Clients, NEW pc, Goes(c, pc), pc = "idle" \/ Begins(c, pc) \/ Proceeds(c, pc)
      PROVE  StaysLoaded'
  <2>1. pc = "start" \/ (pc # "idle" /\ client'[c].op = "restart") => client'[c].svc \in Loaded
    BY <1>4 DEF Begins, Proceeds, StaysLoaded
  <2> QED BY <1>1, <1>2, <1>4, <2>1 DEF StaysLoaded, Goes
<1> QED BY <1>0, <1>3, <1>4, ClientsStep

(* The runs whose Run has not returned, and their services. *)
LiveRuns == {j \in Runs : Live(runs[j])}

LEMMA RunsExactStep ==
  NoUnload /\ TypeInv /\ StaysLoaded /\ OneRun /\ RunningExact /\ [Next]_vars => OneRun' /\ RunningExact'
<1> SUFFICES ASSUME NoUnload, TypeInv, StaysLoaded, OneRun, RunningExact, [Next]_vars
             PROVE  OneRun' /\ RunningExact'
  OBVIOUS
<1>0. ManagerTypes /\ OutcomeKnown
  BY DEF TypeInv
<1>a. /\ \A i, j \in LiveRuns : runs[i].svc = runs[j].svc => i = j
      /\ \A s : s \in running <=> \E i \in LiveRuns : runs[i].svc = s
  BY DEF LiveRuns, OneRun, RunningExact
<1> SUFFICES /\ \A i, j \in LiveRuns' : runs'[i].svc = runs'[j].svc => i = j
             /\ \A s : s \in running' <=> \E i \in LiveRuns' : runs'[i].svc = s
  BY DEF LiveRuns, OneRun, RunningExact
<1>1. ASSUME UNCHANGED running, LiveRuns' = LiveRuns, \A i \in LiveRuns : runs'[i].svc = runs[i].svc
      PROVE  /\ \A i, j \in LiveRuns' : runs'[i].svc = runs'[j].svc => i = j
             /\ \A s : s \in running' <=> \E i \in LiveRuns' : runs'[i].svc = s
  BY <1>1, <1>a
<1>2. ASSUME NEW i \in Runs, MovesRun(i), ~LeaveRunning(i)
      PROVE  UNCHANGED running /\ LiveRuns' = LiveRuns /\ \A j \in LiveRuns : runs'[j].svc = runs[j].svc
  <2>1. UNCHANGED running
    BY <1>2, MoveFrames
  <2>2. /\ Runs' = Runs /\ (\A j \in Runs : j # i => Rests(j)) /\ runs'[i].svc = runs[i].svc
        /\ Live(runs[i]) <=> Live(runs'[i])
    BY <1>0, <1>2, MoveFacts DEF Moved, Live
  <2> QED BY <2>1, <2>2 DEF LiveRuns, Rests, Live
<1>3. ASSUME NEW i \in Runs, LeaveRunning(i)
      PROVE  /\ \A j, k \in LiveRuns' : runs'[j].svc = runs'[k].svc => j = k
             /\ \A s : s \in running' <=> \E j \in LiveRuns' : runs'[j].svc = s
  <2>1. MovesRun(i)
    BY <1>3 DEF MovesRun
  <2>2. /\ Runs' = Runs /\ (\A j \in Runs : j # i => Rests(j)) /\ runs'[i].pc = "final" /\ Live(runs[i])
    BY <1>0, <1>3, <2>1, MoveFacts DEF Moved
  <2>3. i \in LiveRuns /\ LiveRuns' = LiveRuns \ {i} /\ \A j \in LiveRuns' : runs'[j].svc = runs[j].svc
    BY <2>2 DEF LiveRuns, Rests, Live, LivePCs
  <2>4. running' = running \ {runs[i].svc}
    BY <1>3 DEF LeaveRunning
  <2> QED BY <1>a, <2>3, <2>4
<1>4. ASSUME NEW s \in Loaded \ running, StartRun(s)
      PROVE  /\ \A j, k \in LiveRuns' : runs'[j].svc = runs'[k].svc => j = k
             /\ \A t : t \in running' <=> \E j \in LiveRuns' : runs'[j].svc = t
  <2>1. PICK k : /\ k \notin Runs /\ Runs' = Runs \union {k}
                 /\ runs'[k].svc = s /\ runs'[k].pc = "starting"
    BY <1>0, <1>4, NewRun
  <2>2. \A j \in Runs : Rests(j)
    BY <1>0, <1>4, NewRun
  <2>3. LiveRuns' = LiveRuns \union {k} /\ k \notin LiveRuns /\ \A j \in LiveRuns : runs'[j].svc = runs[j].svc
    BY <2>1, <2>2 DEF LiveRuns, Rests, Live, LivePCs, RunPCs
  <2>4. running' = running \union {s} /\ s \notin running
    BY <1>4 DEF StartRun
  <2> QED BY <1>a, <2>1, <2>3, <2>4
<1>5. CASE UNCHANGED <<running, crashed>> /\ Runs' = Runs /\ \A j \in Runs : Rests(j)
  <2>1. LiveRuns' = LiveRuns /\ \A j \in LiveRuns : runs'[j].svc = runs[j].svc
    BY <1>5 DEF LiveRuns, Rests, Live
  <2> QED BY <1>1, <1>5, <2>1
<1>6. ASSUME NEW i, LeaveRunning(i) PROVE i \in Runs
  BY <1>6 DEF LeaveRunning, RunAt
<1>7. ASSUME NEW c \in Clients, Start(c)
      PROVE  UNCHANGED <<running, crashed, runs>> \/ (StartRun(client[c].svc) /\ client[c].svc \in Loaded \ running)
  <2>1. client[c].svc \in Loaded
    BY <1>7 DEF Start, ClientAt, StaysLoaded
  <2> QED BY <1>7, <2>1, StartCases
<1>8. UNCHANGED runs => Runs' = Runs /\ \A j \in Runs : Rests(j)
  BY DEF Runs, Rests
<1>9. CASE UNCHANGED <<running, crashed>>
  <2>1. ASSUME NEW c \in Clients, StartRun(client[c].svc), client[c].svc \in Loaded \ running PROVE FALSE
    BY <1>9, <2>1 DEF StartRun
  <2> QED BY <1>1, <1>2, <1>3, <1>5, <1>9, <2>1, RunsStep
<1>10. CASE ~UNCHANGED <<running, crashed>>
  BY <1>3, <1>4, <1>6, <1>7, <1>10, RunningStep, NothingRemoved
<1> QED BY <1>9, <1>10

(* One run at a time: when nobody calls Unload, s.running holds exactly the *)
(* services with a Run that has not returned, and each has one, for any     *)
(* clients that start, stop, restart and shut down, in any order and with   *)
(* any timeouts.  (Unload deletes a service from s.running while it may     *)
(* run, so the hypothesis is needed.)                                       *)
THEOREM RunsAreExact == ASSUME NoUnload PROVE Spec => []RunsExact
<1>1. Init => OrderlyInv
  BY ManagerInit DEF OrderlyInv, ManagerInv
<1>2. OrderlyInv /\ [Next]_vars => OrderlyInv'
  BY TypeInvStep, StaysLoadedStep, RunsExactStep DEF OrderlyInv
<1>3. ManagerInv /\ OrderlyInv => RunsExact
  <2> SUFFICES ASSUME ManagerInv, OrderlyInv PROVE TypeOK
    BY DEF RunsExact, OrderlyInv
  <2>0. ManagerTypes /\ Flags /\ Disjoint
    BY DEF ManagerInv, TypeInv, WaitInv
  <2>1. {terminating, crashed, outrun} \subseteq BOOLEAN
    BY <2>0 DEF Flags
  <2>2. /\ Len(rstate) \in Nat /\ DOMAIN rstate = 1..Len(rstate)
        /\ \A x \in DOMAIN rstate : rstate[x] \in ServiceStates
    BY <2>0 DEF ManagerTypes
  <2>3. DOMAIN stopCh = DOMAIN rstate /\ \A x \in DOMAIN stopCh : stopCh[x] \in 0..1
    BY <2>0 DEF ManagerTypes
  <2>4. \A i \in Runs : runs[i] \in RunRecords /\ runs[i].runner \in DOMAIN rstate
    BY <2>0, <2>2, RunsAre DEF ManagerTypes
  <2>5. \A i \in Runs : /\ runs[i].svc \in Services /\ runs[i].runner \in DOMAIN rstate /\ runs[i].pc \in RunPCs
                        /\ runs[i].cancelled \in BOOLEAN
                        /\ runs[i].outcome \in {"none", "finished", "failed", "skipped"}
    BY <2>4 DEF RunRecords, Outcomes
  <2>6. \A u \in subs : u.runner \in DOMAIN rstate
    BY <2>0, <2>2 DEF ManagerTypes
  <2> QED BY <2>0, <2>1, <2>2, <2>3, <2>5, <2>6 DEF ManagerTypes, Disjoint, TypeOK
<1> QED BY <1>1, <1>2, <1>3, ManagerInvariant, PTL DEF Spec

-----------------------------------------------------------------------------
(* Stopping in order *)

(* What stopServices has expanded its list to is closed. *)
LEMMA ReverseDependenciesClosed ==
  ASSUME NEW S, S \subseteq Loaded, NEW s \in WithReverseDependencies(S), NEW d \in Loaded, s \in DependsOn[d]
  PROVE  d \in WithReverseDependencies(S)
<1> SUFFICES ASSUME NEW T \in SUBSET Loaded, S \subseteq T,
                    \A r \in Loaded : DependsOn[r] \intersect T # {} => r \in T
             PROVE  d \in T
  BY DEF WithReverseDependencies
<1>1. s \in T
  BY DEF WithReverseDependencies
<1> QED BY <1>1

LEMMA ScheduleWaits ==
  ASSUME ClientTypes, NEW c \in Clients, ScheduleStop(c), client[c].op \in {"stopRev", "shutdown"},
         NEW s \in client'[c].unsent, NEW d \in Loaded, s \in DependsOn[d]
  PROVE  RevWait(c, s, d) \in pending'
<1> DEFINE chosen == IF client[c].op = "shutdown" THEN Loaded ELSE {client[c].svc} \intersect Loaded
           T == WithReverseDependencies(chosen)
           F == [t \in T |-> state[t]]
           n == Len(runs)
<1>1. /\ client' = [client EXCEPT ![c].pc = "stopping", ![c].unsent = T, ![c].targets = F, ![c].since = n]
      /\ pending' = pending \union {RevWait(c, x[1], x[2]) : x \in {y \in T \X T : y[1] \in DependsOn[y[2]]}}
  BY DEF ScheduleStop
<1>2. chosen \subseteq Loaded
  OBVIOUS
<1> HIDE DEF F, n, chosen
<1>3. client'[c].unsent = T
  <2> HIDE DEF T
  <2> QED BY <1>1 DEF ClientTypes, ClientFields
<1>4. s \in T /\ d \in T
  BY <1>2, <1>3, ReverseDependenciesClosed
<1> HIDE DEF T
<1>5. <<s, d>> \in {y \in T \X T : y[1] \in DependsOn[y[2]]}
  BY <1>4
<1>6. RevWait(c, <<s, d>>[1], <<s, d>>[2]) \in pending'
  BY <1>1, <1>5
<1> QED BY <1>6

LEMMA RunsGrow ==
  ASSUME TypeInv, [Next]_vars
  PROVE  /\ Len(runs) \in Nat /\ Len(runs') \in Nat /\ Len(runs) <= Len(runs')
         /\ \A i \in Runs : i \in Runs' /\ runs'[i].svc = runs[i].svc /\ runs'[i].runner = runs[i].runner
<1>0. ManagerTypes /\ OutcomeKnown /\ runs \in Seq(RunRecords) /\ runs' \in Seq(RunRecords)
  BY RunsStep DEF TypeInv, ManagerTypes
<1>1. \A i \in Runs : i \in Runs' /\ runs'[i].svc = runs[i].svc /\ runs'[i].runner = runs[i].runner
  BY <1>0, RunsStep, MoveFacts, NewRun DEF Moved, Rests
<1>2. Len(runs) \in Nat /\ Len(runs') \in Nat /\ Runs = 1..Len(runs) /\ Runs' = 1..Len(runs')
  BY <1>0 DEF Runs
<1>3. Len(runs) <= Len(runs')
  <2>1. CASE Len(runs) = 0
    BY <1>2, <2>1
  <2>2. CASE Len(runs) # 0
    BY <1>1, <1>2, <2>2
  <2> QED BY <2>1, <2>2
<1> QED BY <1>1, <1>2, <1>3

LEMMA SinceStep ==
  ASSUME ClientTypes, [Next]_vars, NEW c \in Clients
  PROVE  client'[c].since \in {client[c].since, 0, Len(runs)}
<1>1. ASSUME NEW d \in Clients, Return(d) PROVE client'[c].since \in {client[c].since, 0}
  BY <1>1 DEF Return, ClientTypes, IdleClient
<1>2. ASSUME NEW d \in Clients, NEW pc, SetClient(d, pc) PROVE client'[c].since = client[c].since
  BY <1>2 DEF SetClient, ClientTypes, ClientFields
<1>3. ASSUME NEW d \in Clients, NEW op, NEW s, NEW pc, Calls(d, op, s, pc)
      PROVE  client'[c].since \in {client[c].since, 0}
  BY <1>3 DEF Calls, ClientTypes, IdleClient
<1>4. ASSUME NEW d \in Clients, (\E s \in Services : SendStop(d, s)) \/ RevTimeout(d)
      PROVE  client'[c].since = client[c].since
  BY <1>4 DEF SendStop, RevTimeout, ClientTypes, ClientFields
<1>5. ASSUME NEW d \in Clients, ScheduleStop(d) PROVE client'[c].since \in {client[c].since, Len(runs)}
  <2>1. PICK T, F : client' = [client EXCEPT ![d].pc = "stopping", ![d].unsent = T, ![d].targets = F,
                                             ![d].since = Len(runs)]
    BY <1>5 DEF ScheduleStop
  <2> QED BY <2>1 DEF ClientTypes, ClientFields
<1>6. ASSUME NEW d \in Clients, StopRefused(d) \/ StopReturns(d)
      PROVE  Return(d) \/ \E pc : SetClient(d, pc)
  <2>1. CASE StopRefused(d)
    BY <2>1 DEF StopRefused
  <2>2. CASE StopReturns(d) /\ client[d].op = "restart"
    BY <2>2 DEF StopReturns
  <2>3. CASE StopReturns(d) /\ client[d].op = "unload"
    BY <2>3 DEF StopReturns
  <2>4. CASE StopReturns(d) /\ client[d].op \notin {"restart", "unload"}
    BY <2>4 DEF StopReturns
  <2> QED BY <1>6, <2>1, <2>2, <2>3, <2>4
<1>7. ASSUME NEW d \in Clients, MovesClient(d)
      PROVE  client'[c].since \in {client[c].since, 0, Len(runs)}
  BY <1>1, <1>2, <1>3, <1>4, <1>5, <1>6, <1>7
     DEF MovesClient, AwaitDown, StopGivesUp, Remove, Load, CallStop, APIStart, APIStop
<1>8. CASE (\E i : WatchStop(i)) \/ (\E w : Subscribe(w)) \/ UNCHANGED vars
  BY <1>8 DEF WatchStop, Subscribe, vars
<1>9. ASSUME NEW d \in Clients, Start(d) PROVE client'[c].since \in {client[c].since, 0}
  BY <1>1, <1>9 DEF Start
<1> QED BY <1>7, <1>8, <1>9, MoveFrames, NextCases

LEMMA SinceBoundedStep == TypeInv /\ SinceBounded /\ [Next]_vars => SinceBounded'
<1> SUFFICES ASSUME TypeInv, SinceBounded, [Next]_vars, NEW c \in Clients PROVE client'[c].since \in 0..Len(runs')
  BY DEF SinceBounded
<1>1. client'[c].since \in {client[c].since, 0, Len(runs)}
  BY SinceStep DEF TypeInv
<1> QED BY <1>1, RunsGrow DEF SinceBounded

LEMMA SameRunnerStep == NoUnload /\ TypeInv /\ SameRunner /\ [Next]_vars => SameRunner'
<1> SUFFICES ASSUME NoUnload, TypeInv, SameRunner, [Next]_vars, NEW i \in Runs'
             PROVE  state'[runs'[i].svc] = runs'[i].runner
  BY DEF SameRunner
<1>0. ManagerTypes /\ OutcomeKnown
  BY DEF TypeInv
<1>1. ASSUME NEW c \in Clients, NEW s \in Services, Load(c, s) PROVE state'[runs'[i].svc] = runs'[i].runner
  <2>1. UNCHANGED runs /\ state' = [state EXCEPT ![s] = Len(rstate) + 1] /\ state[s] = 0
    BY <1>1 DEF Load, Loaded, NoRunner
  <2>2. i \in Runs /\ runs[i].svc \in Services /\ runs[i].runner \in 1..Len(rstate)
    BY <1>0, <2>1, RunsAre DEF ManagerTypes, Runs, RunRecords
  <2> QED BY <1>0, <2>1, <2>2 DEF SameRunner, ManagerTypes
<1>2. CASE UNCHANGED state
  <2>1. CASE i \in Runs
    BY <1>2, <2>1, RunsGrow DEF SameRunner
  <2>2. CASE i \notin Runs
    <3>1. PICK s \in Loaded : StartRun(s)
      BY <1>0, <2>2, RunsStep, MoveFacts DEF Moved
    <3> QED BY <1>0, <1>2, <2>2, <3>1, NewRun
  <2> QED BY <2>1, <2>2
<1> QED BY <1>1, <1>2, StateStep, NothingRemoved

(* outrun stays, and is set by a run that tells of its end after a later    *)
(* one has begun.                                                           *)
LEMMA OutrunStep ==
  ASSUME [Next]_vars, ~outrun'
  PROVE  /\ ~outrun
         /\ \A i : FinalState(i) \/ FinalNotify(i) => ~RunsAgain(i)
<1>1. ASSUME NEW i, MovesRun(i) PROVE ~outrun
  BY <1>1 DEF MovesRun, BeginWait, EndWait, AbortWait, PrepareFails, ProcessStarts, NotifyRunning, ProcessExits,
              StopProcess, ProcessStopped, CleanupFails, NotifyCleanup, LeaveRunning, FinalState, FinalNotify
<1>2. ASSUME NEW c \in Clients, MovesClient(c) \/ Start(c) PROVE ~outrun
  BY <1>2 DEF MovesClient, ScheduleStop, StopRefused, RevTimeout, AwaitDown, StopReturns, StopGivesUp,
              Remove, CallStop, APIStart, APIStop, SendStop, Load, Start
<1>3. ASSUME (\E i : WatchStop(i)) \/ (\E w : Subscribe(w)) \/ UNCHANGED vars PROVE ~outrun
  BY <1>3 DEF WatchStop, Subscribe, vars
<1>4. \A i : FinalState(i) \/ FinalNotify(i) => ~RunsAgain(i)
  BY DEF FinalState, FinalNotify
<1> QED BY <1>1, <1>2, <1>3, <1>4, NextCases

(* Two live runs of one runner are the same run. *)
LEMMA OneLive ==
  ASSUME TypeInv, OneService, OneRun, NEW i \in Runs, NEW j \in Runs,
         runs[i].runner = runs[j].runner
  PROVE  /\ runs[i].svc = runs[j].svc
         /\ Live(runs[i]) /\ Live(runs[j]) => i = j
<1>1. runs[i].runner \in 1..Len(rstate) /\ Holds(runs[i].svc, runs[i].runner) /\ Holds(runs[j].svc, runs[i].runner)
  BY DEF TypeInv, ManagerTypes, Holds
<1> QED BY <1>1 DEF OneService, OneRun

(* A run that moves is early after the step only if it was before, and then *)
(* it says a state that is not "down".                                      *)
LEMMA EarlyMove ==
  ASSUME TypeInv, NEW i \in Runs, MovesRun(i), runs'[i].pc \in EarlyPCs
  PROVE  /\ runs[i].pc \in EarlyPCs
         /\ \/ UNCHANGED rstate
            \/ \E st \in {"waiting", "preparing", "running", "stopping"} : UpdateState(i, st)
<1>0. runs \in Seq(RunRecords)
  BY DEF TypeInv, ManagerTypes
<1>1. CASE BeginWait(i) \/ EndWait(i) \/ ProcessStarts(i) \/ NotifyRunning(i) \/ StopProcess(i)
  BY <1>1 DEF BeginWait, EndWait, ProcessStarts, NotifyRunning, StopProcess, RunAt, EarlyPCs, runnerVars
<1>2. CASE \E outcome \in Outcomes : EndRun(i, outcome)
  BY <1>0, <1>2, EndRunFacts DEF Moved, EarlyPCs
<1>3. CASE \E pc \in {"cleanupFailed", "cleaned", "final", "announce", "done"} : SetRun(i, pc)
  BY <1>0, <1>3, SetRunFacts DEF Moved, EarlyPCs, RunPCs
<1> QED BY <1>1, <1>2, <1>3
    DEF MovesRun, AbortWait, PrepareFails, ProcessExits, ProcessStopped, CleanupFails, NotifyCleanup,
        LeaveRunning, FinalState, FinalNotify, Outcomes

(* An early run is live, and comes from an early run or from Start. *)
LEMMA EarlyStep ==
  ASSUME TypeInv, [Next]_vars, NEW i \in Runs, runs'[i].pc \in EarlyPCs
  PROVE  runs[i].pc \in EarlyPCs /\ Live(runs[i])
<1>0. ManagerTypes /\ OutcomeKnown
  BY DEF TypeInv
<1>1. CASE MovesRun(i)
  BY <1>1, EarlyMove DEF Live, LivePCs, RunPCs, EarlyPCs
<1>2. CASE Rests(i)
  BY <1>2 DEF Rests, Live, LivePCs, RunPCs, EarlyPCs
<1> QED BY <1>0, <1>1, <1>2, RunsStep, MoveFacts, NewRun DEF Moved

LEMMA EarlyNotDownStep ==
  ASSUME NoUnload, TypeInv, OneService, OneRun, EarlyNotDown, [Next]_vars, ~outrun'
  PROVE  EarlyNotDown'
<1> SUFFICES ASSUME NEW i \in Runs', runs'[i].pc \in EarlyPCs PROVE ~InState(rstate'[runs'[i].runner], "down")
  BY DEF EarlyNotDown
<1>0. /\ ManagerTypes /\ OutcomeKnown /\ rstate \in Seq(ServiceStates) /\ Len(rstate) \in Nat
      /\ state \in [Services -> 0..Len(rstate)]
  BY DEF TypeInv, ManagerTypes
<1>a. /\ \A st \in {"starting", "waiting", "preparing", "running", "stopping"} : ~InState(st, "down")
      /\ "starting" \in ServiceStates
      /\ {"waiting", "preparing", "running", "stopping"} \subseteq ServiceStates
  BY DEF InState, ServiceStates
<1>1. CASE i \in Runs
  <2>0. /\ runs[i].pc \in EarlyPCs /\ Live(runs[i]) /\ runs'[i].runner = runs[i].runner
        /\ runs[i].runner \in 1..Len(rstate) /\ ~InState(rstate[runs[i].runner], "down")
    BY <1>0, <1>1, EarlyStep, RunsGrow DEF EarlyNotDown, ManagerTypes
  <2>1. CASE UNCHANGED rstate
    BY <2>0, <2>1
  <2>2. ASSUME NEW j \in Runs, MovesRun(j), NEW st \in ServiceStates, UpdateState(j, st)
        PROVE  ~InState(rstate'[runs[i].runner], "down")
    <3>1. CASE runs[j].runner # runs[i].runner
      BY <1>0, <2>0, <2>2, <3>1, UpdateTypes
    <3>2. CASE runs[j].runner = runs[i].runner /\ j = i
      <4>1. CASE UNCHANGED rstate
        BY <2>0, <4>1
      <4>2. ASSUME NEW su \in {"waiting", "preparing", "running", "stopping"}, UpdateState(i, su)
            PROVE  ~InState(rstate'[runs[i].runner], "down")
        <5>1. rstate'[runs[i].runner] = su
          BY <1>0, <1>1, <1>a, <4>2, UpdateTypes
        <5> QED BY <1>a, <5>1
      <4> QED BY <1>1, <2>2, <3>2, <4>1, <4>2, EarlyMove
    <3>3. CASE runs[j].runner = runs[i].runner /\ j # i
      <4>1. ~Live(runs[j])
        BY <1>1, <2>0, <2>2, <3>3, OneLive
      <4>2. RunsAgain(j)
        BY <1>1, <2>0, <3>3 DEF RunsAgain
      <4>3. FinalState(j) \/ FinalNotify(j)
        BY <2>2, <4>1 DEF MovesRun, BeginWait, EndWait, AbortWait, PrepareFails, ProcessStarts, NotifyRunning,
              ProcessExits, StopProcess, ProcessStopped, CleanupFails, NotifyCleanup, LeaveRunning, RunAt, Live,
              LivePCs, RunPCs
      <4> QED BY <4>2, <4>3, OutrunStep
    <3> QED BY <3>1, <3>2, <3>3
  <2>3. ASSUME NEW s \in Loaded, StartRun(s) PROVE ~InState(rstate'[runs[i].runner], "down")
    <3>1. rstate' = [rstate EXCEPT ![state[s]] = "starting"]
      BY <2>3 DEF StartRun
    <3> QED BY <1>0, <1>a, <2>0, <3>1, ExceptSeq
  <2>4. ASSUME NEW c \in Clients, NEW s \in Services, Load(c, s) PROVE ~InState(rstate'[runs[i].runner], "down")
    <3>1. rstate' = Append(rstate, "initialized")
      BY <2>4 DEF Load
    <3>2. rstate'[runs[i].runner] = rstate[runs[i].runner]
      BY <1>0, <2>0, <3>1
    <3> QED BY <2>0, <3>2
  <2> QED BY <2>0, <2>1, <2>2, <2>3, <2>4, RstateStep
<1>2. CASE i \notin Runs
  <2>1. PICK s \in Loaded : StartRun(s)
    BY <1>0, <1>2, RunsStep, MoveFacts DEF Moved
  <2>2. runs'[i].runner = state[s] /\ state[s] \in 1..Len(rstate)
    BY <1>0, <1>2, <2>1, NewRun
  <2>3. rstate' = [rstate EXCEPT ![state[s]] = "starting"]
    BY <2>1 DEF StartRun
  <2>4. rstate'[state[s]] = "starting"
    BY <1>0, <1>a, <2>2, <2>3, ExceptSeq
  <2> QED BY <1>a, <2>2, <2>4
<1> QED BY <1>1, <1>2

(* A client that stops services in order after the step did so before it,   *)
(* with no service added, or has scheduled the stop in this step.           *)
LEMMA OrderedStep ==
  ASSUME ClientTypes, [Next]_vars, NEW c \in Clients, Ordered(c)'
  PROVE  \/ ScheduleStop(c) /\ client[c].op \in {"stopRev", "shutdown"}
         \/ /\ Ordered(c) /\ ~RevTimeout(c)
            /\ client'[c].unsent \subseteq client[c].unsent /\ client'[c].since = client[c].since
<1>0. client'[c].pc = "stopping" /\ client'[c].op \in {"stopRev", "shutdown"} /\ ~client'[c].timedOut
  BY DEF Ordered
<1>1. CASE client'[c] = client[c]
  <2>1. ~RevTimeout(c)
    BY <1>0, <1>1 DEF RevTimeout, ClientTypes, ClientFields
  <2> QED BY <1>0, <1>1, <2>1 DEF Ordered
<1>2. ASSUME NEW pc, Goes(c, pc) PROVE pc = "stopping"
  BY <1>0, <1>2 DEF Goes
<1>3. CASE ScheduleStop(c)
  BY <1>0, <1>3, ScheduleFacts
<1>4. CASE RevTimeout(c)
  BY <1>0, <1>4 DEF RevTimeout, ClientTypes, ClientFields
<1>5. ASSUME NEW s \in Services, SendStop(c, s), ~RevTimeout(c)
      PROVE  /\ Ordered(c) /\ client'[c].unsent \subseteq client[c].unsent /\ client'[c].since = client[c].since
  <2>1. /\ client'[c].timedOut = client[c].timedOut /\ client'[c].since = client[c].since
    BY <1>5 DEF SendStop, ClientTypes, ClientFields
  <2> QED BY <1>0, <1>5, <2>1, SendStopFacts DEF Ordered
<1>6. ASSUME NEW d \in Clients, Start(d) PROVE client'[c] = client[c]
  BY <1>0, <1>6, ReturnFacts DEF Start, Goes
<1>7. ASSUME NEW d \in Clients, MovesClient(d), d # c PROVE client'[c] = client[c]
  <2>1. CASE \E s \in Services : SendStop(d, s) \/ Load(d, s)
    BY <1>7, <2>1, SendStopFacts, CallFacts DEF Goes, Load
  <2>2. CASE \E s \in Services, op \in AllOps : CallStop(d, op, s) \/ APIStart(d, op, s) \/ APIStop(d, op, s)
    BY <1>7, <2>2, CallFacts DEF Goes, CallStop, APIStart, APIStop
  <2>3. CASE ScheduleStop(d) \/ RevTimeout(d) \/ AwaitDown(d)
    BY <1>7, <2>3, ScheduleFacts, RevTimeoutFacts, AwaitDownFacts DEF Goes
  <2>4. CASE StopRefused(d) \/ StopReturns(d) \/ StopGivesUp(d) \/ Remove(d)
    BY <1>7, <2>4 DEF StopRefused, StopReturns, StopGivesUp, Remove, Return, SetClient, ClientTypes
  <2> QED BY <1>7, <2>1, <2>2, <2>3, <2>4 DEF MovesClient
<1>8. ASSUME MovesClient(c)
      PROVE  ScheduleStop(c) \/ RevTimeout(c) \/ \E s \in Services : SendStop(c, s)
  <2>1. ASSUME NEW s \in Services, Load(c, s) PROVE FALSE
    BY <1>2, <2>1, CallFacts DEF Load
  <2>2. ASSUME NEW s \in Services, NEW op, CallStop(c, op, s) \/ APIStart(c, op, s) \/ APIStop(c, op, s) PROVE FALSE
    BY <1>2, <2>2, CallFacts DEF CallStop, APIStart, APIStop
  <2>3. ASSUME AwaitDown(c) PROVE FALSE
    BY <1>2, <2>3, AwaitDownFacts
  <2>4. ASSUME Return(c) PROVE FALSE
    BY <1>2, <2>4, ReturnFacts
  <2>5. ASSUME NEW pc, pc # "stopping", SetClient(c, pc) PROVE FALSE
    BY <1>2, <2>5, SetClientFacts
  <2>6. ASSUME StopRefused(c) \/ StopReturns(c) PROVE FALSE
    <3>1. CASE StopRefused(c)
      BY <2>4, <2>5, <3>1 DEF StopRefused
    <3>2. CASE StopReturns(c) /\ client[c].op = "restart"
      BY <2>5, <3>2 DEF StopReturns
    <3>3. CASE StopReturns(c) /\ client[c].op = "unload"
      BY <2>5, <3>3 DEF StopReturns
    <3>4. CASE StopReturns(c) /\ client[c].op \notin {"restart", "unload"}
      BY <2>4, <3>4 DEF StopReturns
    <3> QED BY <2>6, <3>1, <3>2, <3>3, <3>4
  <2> QED BY <1>8, <2>1, <2>2, <2>3, <2>4, <2>6 DEF MovesClient, StopGivesUp, Remove
<1>9. ASSUME (\E i : WatchStop(i)) \/ (\E w : Subscribe(w)) \/ UNCHANGED vars PROVE client'[c] = client[c]
  BY <1>9 DEF WatchStop, Subscribe, vars
<1> QED BY <1>1, <1>3, <1>4, <1>5, <1>6, <1>7, <1>8, <1>9, MoveFrames, NextCases

(* The wait of a client for an early run's service ends only when the       *)
(* client gives up.                                                         *)
LEMMA RevWaitStays ==
  ASSUME TypeInv, OneService, OneRun, SameRunner, EarlyNotDown, [Next]_vars, ~outrun',
         NEW c \in Clients, ~RevTimeout(c), NEW s, NEW i \in Runs, runs'[i].pc \in EarlyPCs,
         RevWait(c, s, runs[i].svc) \in Outstanding
  PROVE  RevWait(c, s, runs[i].svc) \in Outstanding'
<1> DEFINE w == RevWait(c, s, runs[i].svc)
<1>0. w.kind = "rev" /\ w.owner = c /\ w.on = runs[i].svc /\ EventOf(w) = "down" /\ w \in Outstanding
  BY DEF RevWait, EventOf
<1>1. /\ runs[i].pc \in EarlyPCs /\ Live(runs[i]) /\ state[runs[i].svc] = runs[i].runner
      /\ ~InState(rstate[runs[i].runner], "down")
  BY EarlyStep DEF SameRunner, EarlyNotDown
<1>2. ManagerTypes /\ OutcomeKnown
  BY DEF TypeInv
<1> HIDE DEF w
<1> SUFFICES ASSUME w \notin Outstanding' PROVE FALSE
  BY DEF w
<1>3. ASSUME NEW v, Subscribe(v) PROVE FALSE
  BY <1>0, <1>1, <1>3, SubscribeFacts
<1>4. ASSUME NEW j \in Runs, NEW st, NotifyFrom(j, st)
      PROVE  runs[j].runner = runs[i].runner /\ InState(st, "down")
  <2>1. w \in {u.wait : u \in {v \in subs : v.runner = runs[j].runner /\ InState(st, EventOf(v.wait))}}
    BY <1>0, <1>4, EndWaitsFacts DEF NotifyFrom
  <2>2. PICK u \in subs : u.wait = w /\ u.runner = runs[j].runner /\ InState(st, EventOf(u.wait))
    BY <2>1
  <2>3. u.runner \in 1..Len(rstate) /\ Holds(runs[i].svc, u.runner) /\ Holds(runs[j].svc, u.runner)
    BY <1>0, <1>2, <1>4, <2>2 DEF Holds, ManagerTypes
  <2>4. runs[i].svc = runs[j].svc
    BY <2>3 DEF OneService
  <2> QED BY <1>0, <1>1, <1>4, <2>2, <2>4 DEF SameRunner
<1>5. ASSUME NEW j, MovesRun(j) PROVE FALSE
  <2>0. j \in Runs
    BY <1>2, <1>5, MoveFacts
  <2>1. CASE NotifyRunning(j)
    BY <1>4, <2>0, <2>1 DEF NotifyRunning, InState
  <2>2. CASE NotifyCleanup(j)
    <3>1. runs[j].runner = runs[i].runner /\ runs[j].pc = "cleanupFailed"
      BY <1>4, <2>0, <2>2 DEF NotifyCleanup, RunAt
    <3>2. Live(runs[j])
      BY <3>1 DEF Live, LivePCs, RunPCs
    <3>3. i = j
      BY <1>1, <2>0, <3>1, <3>2, OneLive
    <3> QED BY <1>1, <3>1, <3>3 DEF EarlyPCs
  <2>3. CASE FinalNotify(j)
    <3>1. runs[j].runner = runs[i].runner
      BY <1>4, <2>0, <2>3 DEF FinalNotify
    <3>2. RunsAgain(j)
      BY <1>1, <3>1 DEF RunsAgain
    <3> QED BY <2>3, <3>2, OutrunStep
  <2>4. CASE AbortWait(j)
    <3>1. w \in DepWaitsOf(j)
      BY <1>0, <2>4, EndWaitsFacts DEF AbortWait
    <3> QED BY <1>0, <3>1 DEF DepWaitsOf
  <2>5. CASE BeginWait(j)
    BY <1>0, <2>5 DEF BeginWait, Outstanding
  <2>6. CASE \/ EndWait(j) \/ PrepareFails(j) \/ ProcessStarts(j) \/ ProcessExits(j) \/ StopProcess(j)
             \/ ProcessStopped(j) \/ CleanupFails(j) \/ LeaveRunning(j) \/ FinalState(j)
    BY <1>0, <2>6 DEF EndWait, PrepareFails, ProcessStarts, ProcessExits, StopProcess, ProcessStopped, CleanupFails,
                      LeaveRunning, FinalState, waitVars, Outstanding
  <2> QED BY <1>5, <2>1, <2>2, <2>3, <2>4, <2>5, <2>6 DEF MovesRun
<1>6. ASSUME NEW d \in Clients, MovesClient(d) PROVE FALSE
  <2>1. CASE ScheduleStop(d) \/ AwaitDown(d)
    BY <1>0, <2>1 DEF ScheduleStop, AwaitDown, Outstanding
  <2>2. CASE RevTimeout(d)
    <3>1. w.owner = d
      BY <1>0, <2>2, EndWaitsFacts DEF RevTimeout
    <3> QED BY <1>0, <2>2, <3>1
  <2>3. CASE StopGivesUp(d)
    BY <1>0, <2>3, EndWaitsFacts DEF StopGivesUp, DownWaitsOf
  <2> QED BY <1>0, <1>6, <2>1, <2>2, <2>3, ClientWaits
<1>7. CASE (\E j : WatchStop(j)) \/ (\E d \in Clients : Start(d)) \/ UNCHANGED vars
  BY <1>0, <1>7 DEF WatchStop, Start, vars, waitVars, Outstanding
<1> QED BY <1>3, <1>5, <1>6, <1>7, NextCases

LEMMA RevWaitedStep ==
  ASSUME NoUnload, TypeInv, OneService, OneRun, SameRunner, SinceBounded, EarlyNotDown, RevWaited,
         [Next]_vars, ~outrun'
  PROVE  RevWaited'
<1> SUFFICES ASSUME NEW c \in Clients, Ordered(c)', NEW s \in client'[c].unsent, NEW i \in 1..client'[c].since,
                    runs'[i].pc \in EarlyPCs, s \in DependsOn[runs'[i].svc]
             PROVE  RevWait(c, s, runs'[i].svc) \in Outstanding'
  BY DEF RevWaited
<1>0. ManagerTypes /\ ClientTypes
  BY DEF TypeInv
<1>1. /\ client'[c].since \in {client[c].since, 0, Len(runs)} /\ client[c].since \in 0..Len(runs)
      /\ Len(runs) \in Nat /\ Runs = 1..Len(runs)
  BY <1>0, SinceStep, RunsAre DEF SinceBounded, ManagerTypes
<1>2. i \in Runs
  BY <1>1
<1>3. runs'[i].svc = runs[i].svc /\ runs[i].pc \in EarlyPCs
  BY <1>2, RunsGrow, EarlyStep
<1>4. CASE ScheduleStop(c) /\ client[c].op \in {"stopRev", "shutdown"}
  <2>1. runs[i].svc \in Loaded
    BY <1>0, <1>2, RunsAre DEF SameRunner, Loaded, NoRunner, ManagerTypes, RunRecords
  <2> QED BY <1>0, <1>3, <1>4, <2>1, ScheduleWaits DEF Outstanding
<1>5. CASE /\ Ordered(c) /\ ~RevTimeout(c)
           /\ client'[c].unsent \subseteq client[c].unsent /\ client'[c].since = client[c].since
  <2>1. RevWait(c, s, runs[i].svc) \in Outstanding
    BY <1>3, <1>5 DEF RevWaited
  <2> QED BY <1>2, <1>3, <1>5, <2>1, RevWaitStays
<1> QED BY <1>0, <1>4, <1>5, OrderedStep

(* A service that leaves "unsent" of a client in "stopping" is told to stop. *)
LEMMA OnlySendStop ==
  ASSUME ClientTypes, [Next]_vars, NEW c \in Clients, client[c].pc = "stopping",
         NEW s \in client[c].unsent, s \notin client'[c].unsent
  PROVE  SendStop(c, s)
<1>1. client'[c] # client[c]
  OBVIOUS
<1>2. ASSUME NEW d \in Clients, MovesClient(d) \/ Start(d), d # c PROVE FALSE
  <2>1. CASE \E t \in Services : SendStop(d, t) \/ Load(d, t)
    BY <1>1, <1>2, <2>1, SendStopFacts, CallFacts DEF Goes, Load
  <2>2. CASE \E t \in Services, op \in AllOps : CallStop(d, op, t) \/ APIStart(d, op, t) \/ APIStop(d, op, t)
    BY <1>1, <1>2, <2>2, CallFacts DEF Goes, CallStop, APIStart, APIStop
  <2>3. CASE ScheduleStop(d) \/ RevTimeout(d) \/ AwaitDown(d)
    BY <1>1, <1>2, <2>3, ScheduleFacts, RevTimeoutFacts, AwaitDownFacts DEF Goes
  <2>4. CASE StopRefused(d) \/ StopReturns(d) \/ StopGivesUp(d) \/ Remove(d) \/ Start(d)
    BY <1>1, <1>2, <2>4 DEF StopRefused, StopReturns, StopGivesUp, Remove, Start, Return, SetClient, ClientTypes
  <2> QED BY <1>2, <2>1, <2>2, <2>3, <2>4 DEF MovesClient
<1>3. ASSUME MovesClient(c) \/ Start(c) PROVE \E t \in Services : SendStop(c, t)
  <2>1. ~RevTimeout(c)
    BY RevTimeoutFacts
  <2>2. ~AwaitDown(c)
    BY SetClientFacts DEF AwaitDown
  <2> QED BY <1>3, <2>1, <2>2
      DEF MovesClient, Start, StopRefused, StopReturns, StopGivesUp, Remove, Load, CallStop, APIStart, APIStop,
          ScheduleStop, Calls, ClientAt
<1>4. ASSUME (\E i : WatchStop(i)) \/ (\E w : Subscribe(w)) \/ UNCHANGED vars PROVE FALSE
  BY <1>1, <1>4 DEF WatchStop, Subscribe, vars
<1>5. PICK t \in Services : SendStop(c, t)
  BY <1>1, <1>2, <1>3, <1>4, MoveFrames, NextCases
<1> QED BY <1>5, SendStopFacts

LEMMA RevInvStep ==
  NoUnload /\ ManagerInv /\ OrderlyInv /\ RevInv /\ [Next]_vars => RevInv'
<1> SUFFICES ASSUME NoUnload, ManagerInv, OrderlyInv, RevInv, [Next]_vars PROVE RevInv'
  OBVIOUS
<1>1. TypeInv /\ OneService /\ OneRun /\ SameRunner /\ SinceBounded
  BY DEF ManagerInv, UpInv, OrderlyInv, RevInv
<1>2. SameRunner' /\ SinceBounded'
  BY <1>1, SameRunnerStep, SinceBoundedStep
<1>3. ASSUME ~outrun' PROVE EarlyNotDown' /\ RevWaited'
  <2>1. EarlyNotDown /\ RevWaited
    BY <1>3, OutrunStep DEF RevInv
  <2> QED BY <1>1, <1>3, <2>1, EarlyNotDownStep, RevWaitedStep
<1> QED BY <1>2, <1>3 DEF RevInv

(* Stopping in order: when nobody calls Unload, StopWithRevDepenencies and  *)
(* Shutdown, of any services with any dependencies, tell a service to stop  *)
(* only when no service that depends on it still has the process it had     *)
(* when they were called, unless the 30 seconds are over or a run has told  *)
(* of its end after a later one had begun.                                  *)
THEOREM StopsInOrder == ASSUME NoUnload PROVE Spec => ReverseDependenciesFirst
<1> DEFINE I == ManagerInv /\ OrderlyInv /\ RevInv
           A == \A c \in Clients, s \in Services :
                  (/\ ~outrun
                   /\ client[c].pc = "stopping" /\ client[c].op \in {"stopRev", "shutdown"}
                   /\ ~client[c].timedOut
                   /\ s \in client[c].unsent /\ s \notin client'[c].unsent)
                  => \A i \in 1..client[c].since : HasProcess(runs[i]) => s \notin DependsOn[runs[i].svc]
<1>1. Init => I
  <2>1. Init => RevInv
    BY DEF Init, RevInv, SameRunner, SinceBounded, EarlyNotDown, RevWaited, Ordered, Runs, IdleClient
  <2> QED BY <2>1, ManagerInit DEF OrderlyInv, ManagerInv
<1>2. I /\ [Next]_vars => I'
  BY TypeInvStep, WaitsOwnedStep, DisjointStep, OneServiceStep, UpSeenStep, WaitedStep, StaysLoadedStep,
     RunsExactStep, RevInvStep DEF ManagerInv, WaitInv, UpInv, OrderlyInv
<1>3. I /\ [Next]_vars => A
  <2> SUFFICES ASSUME I, [Next]_vars, NEW c \in Clients, NEW s \in Services,
                      ~outrun, client[c].pc = "stopping", client[c].op \in {"stopRev", "shutdown"},
                      ~client[c].timedOut, s \in client[c].unsent, s \notin client'[c].unsent,
                      NEW i \in 1..client[c].since, HasProcess(runs[i])
               PROVE  s \notin DependsOn[runs[i].svc]
    OBVIOUS
  <2>1. SendStop(c, s)
    BY OnlySendStop DEF ManagerInv, TypeInv
  <2>2. RevWait(c, s, runs[i].svc) \notin Outstanding
    BY <2>1 DEF SendStop, RevWait
  <2>3. runs[i].pc \in EarlyPCs /\ Ordered(c)
    BY DEF HasProcess, EarlyPCs, Ordered
  <2> QED BY <2>2, <2>3 DEF RevInv, RevWaited
<1>4. I /\ [Next]_vars => [A]_vars
  BY <1>3
<1> HIDE DEF I
<1>5. Spec => []I
  BY <1>1, <1>2, PTL DEF Spec
<1>6. Spec => [][A]_vars
  BY <1>4, <1>5, PTL DEF Spec
<1> QED BY <1>6 DEF ReverseDependenciesFirst

=============================================================================
