-------------------------- MODULE ServiceRunProofs --------------------------
(* Proofs about one run of a service, for any set of ways to run one. *)
EXTENDS ServiceRun, TLAPS

(* Who stops the runner at the bottom, run itself or the restarter, has not *)
(* begun to, is in Stop, waits for Run's result after it, or has taken it.  *)
At(mains, restarters) == IF Restart = "none" THEN main \in mains ELSE restarter \in restarters

Before == At({"select", "stop"}, {"select", "stop"})
During == At({"stopping"}, {"stopping"})
Draining == At({"drain"}, {"drain"})
Over == At({"health", "returned"}, {"clean", "cleaning", "decide", "backoff", "offer", "gone"})

(* The channels of the runner at the bottom: stop is closed only within     *)
(* Stop, stopped only when Run is over, and both are renewed for the next.  *)
Closed == bstopped <=> (inner = "offer" /\ Kind = "process")

InnerInv ==
  /\ Before => inner \in {"spawned", "active", "offer"} /\ ~bstop /\ Closed
  /\ During => inner # "idle" /\ Closed
  /\ Draining => /\ inner \in {"spawned", "active", "offer"} /\ ~bstop
                 /\ inner # "offer" => Kind = "goroutine" /\ ~bstopped
  /\ Over => inner = "idle"
  /\ restarter \in {"clean", "decide", "backoff"} => ~bstop
  /\ restarter \in {"decide", "backoff"} => ~bstopped

(* The goroutine runner counts the Run in progress, and Stop waits for it. *)
CountInv == Kind = "goroutine" /\ inner \in {"active", "stopping"} => wg = 1

RestarterInv ==
  /\ Restart = "none" <=> restarter = "off"
  /\ Restart # "none" /\ main \in {"health", "returned"} => restarter = "gone"

RunInv == TypeOK /\ RestarterInv /\ CountInv /\ InnerInv

-----------------------------------------------------------------------------
LEMMA NextCases ==
  ASSUME [Next]_vars
  PROVE  \/ MainSeesCancel \/ MainStops \/ MainReceives \/ MainReturns
         \/ RestarterStep
         \/ InnerStarts \/ InnerStopping \/ InnerStopped \/ InnerExits \/ InnerLaunchFails
         \/ HealthInit \/ HealthCheck \/ HealthDone \/ HealthUpdate \/ ConsumerDone
         \/ SubscribeUp \/ StopRequested \/ UNCHANGED vars
  BY DEF Next, MainStep, InnerStep, Finished

LEMMA SvcFacts ==
  ASSUME svc \in Runners
  PROVE  /\ Kind \in {"process", "goroutine"} /\ HealthChecked \in BOOLEAN
         /\ Restart \in {"none", "Once", "UntilSuccess", "Forever"}
  BY RunnersAssumption DEF Kind, HealthChecked, Restart

LEMMA SvcKept == [Next]_vars => (svc' = svc)
  BY NextCases
     DEF MainSeesCancel, MainStops, MainReceives, MainReturns, RestarterStep, InnerStarts, InnerStopping,
         InnerStopped, InnerExits, InnerLaunchFails, HealthInit, HealthCheck, HealthDone, HealthUpdate,
         ConsumerDone, SubscribeUp, StopRequested, vars, mainVars

LEMMA RunInvInit == Init => RunInv
<1> SUFFICES ASSUME Init PROVE RunInv
  OBVIOUS
<1>0. svc \in Runners
  BY DEF Init
<1>1. {ctxDone, rstop, bstop, bstopped, abandoned, consumer} \subseteq BOOLEAN
  BY <1>0, SvcFacts DEF Init
<1>2. health \in HealthStates /\ checker \in {"off", "init", "check", "done"}
  BY DEF Init, HealthStates
<1>3. restarter \in RestarterPCs /\ main \in MainPCs /\ inner \in InnerPCs
  BY DEF Init, RestarterPCs, MainPCs, InnerPCs
<1>4. TypeOK
  BY <1>0, <1>1, <1>2, <1>3 DEF Init, TypeOK, NotifyCapacity
<1>5. RestarterInv
  BY DEF Init, RestarterInv
<1>6. InnerInv
  BY DEF Init, InnerInv, Before, During, Draining, Over, At, Closed
<1>7. CountInv
  BY DEF Init, CountInv
<1> QED BY <1>4, <1>5, <1>6, <1>7 DEF RunInv

(* What the steps of the run do to the service's state and health. *)
LEMMA SinkTypes ==
  ASSUME TypeOK, NEW st \in {"preparing", "running", "waiting", "stopping"}, EventSink(st)
  PROVE  /\ state' = st /\ health' \in HealthStates /\ changes' \in 0..NotifyCapacity
         /\ dependent' \in {"absent", "subscribed", "notified"}
         /\ UNCHANGED <<checker, consumer>>
<1>1. changes' \in 0..NotifyCapacity
  BY DEF TypeOK, EventSink, UpdateHealth, NotifyCapacity
<1>2. health' \in HealthStates
  BY DEF TypeOK, EventSink, UpdateHealth, HealthStates
<1>3. dependent' \in {"absent", "subscribed", "notified"}
  BY DEF TypeOK, EventSink, Notify
<1> QED BY <1>1, <1>2, <1>3 DEF EventSink

LEMMA TypeStep == TypeOK /\ [Next]_vars => TypeOK'
<1> SUFFICES ASSUME TypeOK, [Next]_vars PROVE TypeOK'
  OBVIOUS
<1>0. svc' \in Runners
  BY SvcKept DEF TypeOK
<1>k. Kind \in {"process", "goroutine"} /\ HealthChecked \in BOOLEAN
  BY SvcFacts DEF TypeOK
<1>1. /\ state' \in {"preparing", "running", "waiting", "stopping"} /\ health' \in HealthStates
      /\ checker' \in {"off", "init", "check", "done"} /\ changes' \in 0..NotifyCapacity
      /\ dependent' \in {"absent", "subscribed", "notified"}
  <2>1. CASE UNCHANGED <<state, healthVars, dependent>>
    BY <2>1 DEF TypeOK, healthVars
  <2>2. CASE EventSink("running") \/ EventSink("waiting") \/ EventSink("stopping")
    BY <2>2, SinkTypes DEF TypeOK
  <2>3. CASE HealthInit \/ HealthDone \/ ConsumerDone \/ SubscribeUp
    BY <2>3 DEF TypeOK, HealthInit, HealthDone, ConsumerDone, SubscribeUp, HealthStates, healthVars
  <2>4. CASE HealthCheck
    BY <2>4 DEF TypeOK, HealthCheck, UpdateHealth, HealthStates, NotifyCapacity
  <2>5. CASE HealthUpdate
    BY <2>5 DEF TypeOK, HealthUpdate, Notify, NotifyCapacity
  <2>6. CASE RestarterStep
    BY <2>1, <2>2, <2>6 DEF RestarterStep, RestarterStops, RestarterCleans, RestarterDecides, RestarterBacksOff
  <2> QED BY <2>1, <2>2, <2>3, <2>4, <2>5, <2>6, NextCases
          DEF MainSeesCancel, MainStops, MainReceives, MainReturns, InnerStarts, InnerStopping,
              InnerStopped, InnerExits, InnerLaunchFails, StopRequested, vars
<1>2. main' \in MainPCs
  BY NextCases
     DEF TypeOK, MainSeesCancel, MainStops, MainReceives, MainReturns, MainAt, RestarterStep, InnerStarts,
         InnerStopping, InnerStopped, InnerExits, InnerLaunchFails, HealthInit, HealthCheck, HealthDone,
         HealthUpdate, ConsumerDone, SubscribeUp, StopRequested, vars, mainVars, MainPCs
<1>3. restarter' \in RestarterPCs
  <2>1. CASE RestarterStep \/ MainReceives
    BY <2>1 DEF TypeOK, RestarterStep, RestarterStops, RestarterCleans, RestarterDecides, RestarterBacksOff,
                RestarterAt, MainReceives, RestarterPCs
  <2> QED BY <2>1, NextCases
          DEF TypeOK, MainSeesCancel, MainStops, MainReturns, InnerStarts,
              InnerStopping, InnerStopped, InnerExits, InnerLaunchFails, HealthInit, HealthCheck, HealthDone,
              HealthUpdate, ConsumerDone, SubscribeUp, StopRequested, vars, restartVars
<1>4. inner' \in InnerPCs /\ outcome' \in {"ok", "err"} /\ wg' \in 0..1
  <2>1. CASE UNCHANGED innerVars
    BY <2>1 DEF TypeOK, innerVars
  <2>2. CASE BeginStop \/ EndStop \/ TakeResult
    BY <2>2 DEF TypeOK, BeginStop, EndStop, TakeResult, InnerPCs
  <2>3. CASE InnerStarts \/ InnerStopping
    BY <2>3 DEF TypeOK, InnerStarts, InnerStopping, InnerPCs
  <2>4. CASE InnerStopped \/ InnerExits \/ InnerLaunchFails
    BY <2>4 DEF TypeOK, InnerStopped, InnerExits, InnerLaunchFails, InnerReturns, InnerPCs
  <2>5. CASE RestarterStep
    BY <2>1, <2>2, <2>5 DEF TypeOK, RestarterStep, RestarterStops, RestarterCleans, RestarterDecides,
                            RestarterBacksOff, InnerPCs
  <2>6. CASE MainStops \/ MainReceives
    BY <2>1, <2>2, <2>6 DEF MainStops, MainReceives
  <2> QED BY <2>1, <2>2, <2>3, <2>4, <2>5, <2>6, NextCases
          DEF MainSeesCancel, MainReturns, HealthInit, HealthCheck, HealthDone, HealthUpdate, ConsumerDone,
              SubscribeUp, StopRequested, vars
<1>5. {ctxDone, rstop, bstop, bstopped, abandoned, consumer}' \subseteq BOOLEAN
  <2>1. ctxDone' \in {ctxDone, TRUE} /\ rstop' \in {rstop, TRUE} /\ consumer' \in {consumer, FALSE}
    <3>1. CASE RestarterStep
      BY <3>1 DEF RestarterStep, RestarterStops, RestarterCleans, RestarterDecides, RestarterBacksOff, EventSink,
                  mainVars, healthVars
    <3> QED BY <3>1, NextCases
          DEF MainSeesCancel, MainStops, MainReceives, MainReturns, InnerStarts,
              InnerStopping, InnerStopped, InnerExits, InnerLaunchFails, HealthInit, HealthCheck, HealthDone,
              HealthUpdate, ConsumerDone, SubscribeUp, StopRequested, vars, mainVars, restartVars, healthVars,
              EventSink
  <2>2. bstop' \in {bstop, TRUE, FALSE} /\ bstopped' \in {bstopped, FALSE, Kind = "process"}
          /\ abandoned' \in {abandoned, TRUE}
    <3>1. CASE RestarterStep
      BY <3>1 DEF RestarterStep, RestarterStops, RestarterCleans, RestarterDecides, RestarterBacksOff, BeginStop,
                  EndStop, TakeResult, innerVars
    <3> QED BY <3>1, NextCases
          DEF MainSeesCancel, MainStops, MainReceives, MainReturns, InnerStarts,
              InnerStopping, InnerStopped, InnerExits, InnerLaunchFails, HealthInit, HealthCheck, HealthDone,
              HealthUpdate, ConsumerDone, SubscribeUp, StopRequested, vars, innerVars, BeginStop, EndStop,
              TakeResult, InnerReturns
  <2> QED BY <2>1, <2>2 DEF TypeOK
<1> QED BY <1>0, <1>1, <1>2, <1>3, <1>4, <1>5 DEF TypeOK

(* The steps that move neither run nor the restarter nor the runner.        *)
Quiet == UNCHANGED <<svc, main, restarter, inner, bstop, bstopped>>

LEMMA QuietSteps ==
  ASSUME [Next]_vars
  PROVE  \/ MainSeesCancel \/ MainStops \/ MainReceives \/ MainReturns \/ RestarterStep
         \/ InnerStarts \/ InnerStopping \/ InnerStopped \/ InnerExits \/ InnerLaunchFails
         \/ Quiet
  BY NextCases
     DEF Quiet, HealthInit, HealthCheck, HealthDone, HealthUpdate, ConsumerDone, SubscribeUp, StopRequested, vars,
         mainVars, restartVars, innerVars

LEMMA RestarterInvStep == TypeOK /\ RestarterInv /\ [Next]_vars => RestarterInv'
<1> SUFFICES ASSUME TypeOK, RestarterInv, [Next]_vars PROVE RestarterInv'
  OBVIOUS
<1> USE DEF RestarterInv, Restart
<1>0. svc' = svc
  BY SvcKept
<1>1. CASE RestarterStep
  BY <1>0, <1>1 DEF RestarterStep, RestarterStops, RestarterCleans, RestarterDecides, RestarterBacksOff,
                    RestarterAt, mainVars
<1>2. CASE MainSeesCancel \/ MainStops \/ MainReceives \/ MainReturns
  BY <1>0, <1>2 DEF MainSeesCancel, MainStops, MainReceives, MainReturns, MainAt, RestarterAt, restartVars
<1>3. CASE \/ InnerStarts \/ InnerStopping \/ InnerStopped \/ InnerExits \/ InnerLaunchFails \/ Quiet
  BY <1>0, <1>3 DEF InnerStarts, InnerStopping, InnerStopped, InnerExits, InnerLaunchFails, Quiet, mainVars,
                    restartVars
<1> QED BY <1>1, <1>2, <1>3, QuietSteps

LEMMA CountInvStep == CountInv /\ [Next]_vars => CountInv'
<1> SUFFICES ASSUME CountInv, [Next]_vars PROVE CountInv'
  OBVIOUS
<1>0. Kind' = Kind
  BY SvcKept DEF Kind
<1> USE DEF CountInv
<1>1. CASE UNCHANGED <<inner, wg>>
  BY <1>0, <1>1
<1>2. CASE InnerStarts \/ InnerStopping \/ InnerStopped \/ InnerExits \/ InnerLaunchFails
  BY <1>0, <1>2 DEF InnerStarts, InnerStopping, InnerStopped, InnerExits, InnerLaunchFails, InnerReturns
<1>3. CASE BeginStop \/ EndStop \/ TakeResult
  BY <1>0, <1>3 DEF BeginStop, EndStop, TakeResult
<1>4. CASE RestarterStep
  BY <1>0, <1>1, <1>3, <1>4 DEF RestarterStep, RestarterStops, RestarterCleans, RestarterDecides,
                                RestarterBacksOff, innerVars
<1>5. CASE MainStops \/ MainReceives
  BY <1>1, <1>3, <1>5 DEF MainStops, MainReceives, innerVars
<1> QED BY <1>1, <1>2, <1>4, <1>5, NextCases
        DEF MainSeesCancel, MainReturns, HealthInit, HealthCheck, HealthDone, HealthUpdate, ConsumerDone,
            SubscribeUp, StopRequested, vars, innerVars

LEMMA InnerInvStep == TypeOK /\ RestarterInv /\ CountInv /\ InnerInv /\ [Next]_vars => InnerInv'
<1> SUFFICES ASSUME TypeOK, RestarterInv, CountInv, InnerInv, [Next]_vars PROVE InnerInv'
  OBVIOUS
<1>0. svc' = svc /\ Kind' = Kind /\ Restart' = Restart
  BY SvcKept DEF Kind, Restart
<1>k. Kind \in {"process", "goroutine"}
  BY SvcFacts DEF TypeOK
<1> USE DEF InnerInv, Before, During, Draining, Over, At, Closed
<1>1. CASE Quiet
  BY <1>0, <1>1 DEF Quiet
<1>2. CASE InnerStarts \/ InnerStopping
  <2>1. UNCHANGED <<main, restarter, bstop, bstopped>>
    BY <1>2 DEF InnerStarts, InnerStopping, mainVars, restartVars
  <2> QED BY <1>0, <1>2, <2>1 DEF InnerStarts, InnerStopping
<1>3. CASE InnerStopped \/ InnerExits \/ InnerLaunchFails
  <2>1. /\ UNCHANGED <<main, restarter, bstop>> /\ inner' = "offer"
        /\ inner \in {"spawned", "active", "stopping"}
        /\ bstopped' = (Kind = "process")
    BY <1>3 DEF InnerStopped, InnerExits, InnerLaunchFails, InnerReturns, mainVars, restartVars
  <2>2. ~Over
    BY <2>1
  <2>3. Closed'
    BY <1>0, <2>1
  <2>4. restarter \notin {"clean", "decide", "backoff"}
    BY <2>2 DEF RestarterInv
  <2>5. ~Over' /\ (Before' => Before) /\ (Draining' => Draining)
    BY <1>0, <2>1, <2>2
  <2> QED BY <1>0, <2>1, <2>3, <2>4, <2>5
<1>4. CASE MainSeesCancel \/ MainReturns
  BY <1>0, <1>4 DEF MainSeesCancel, MainReturns, MainAt, restartVars, innerVars
<1>5. CASE MainStops
  <2>1. CASE Restart = "none"
    <3>1. \/ main = "stop" /\ main' = "stopping" /\ BeginStop
          \/ main = "stopping" /\ main' = "drain" /\ EndStop
      BY <1>5, <2>1 DEF MainStops, MainAt
    <3>2. restarter' = "off"
      BY <1>5, <2>1 DEF MainStops, RestarterInv, restartVars
    <3>3. CASE main = "stop" /\ main' = "stopping" /\ BeginStop
      BY <1>0, <2>1, <3>2, <3>3 DEF BeginStop
    <3>4. CASE main = "stopping" /\ main' = "drain" /\ EndStop
      <4>1. During /\ Draining' /\ ~Before' /\ ~During' /\ ~Over'
        BY <1>0, <2>1, <3>4
      <4>2. /\ UNCHANGED inner /\ ~bstop' /\ ~bstopped' /\ (Kind = "process" => bstopped)
            /\ Kind = "goroutine" => inner \notin {"active", "stopping"}
        BY <3>4 DEF EndStop, CountInv
      <4>3. inner \in InnerPCs
        BY DEF TypeOK
      <4> QED BY <1>0, <1>k, <3>2, <4>1, <4>2, <4>3 DEF InnerPCs
    <3> QED BY <3>1, <3>3, <3>4
  <2>2. CASE Restart # "none"
    BY <1>0, <1>5, <2>2 DEF MainStops, innerVars, restartVars
  <2> QED BY <2>1, <2>2
<1>6. CASE MainReceives
  <2>1. CASE Restart = "none"
    BY <1>0, <1>6, <2>1 DEF MainReceives, TakeResult, RestarterInv
  <2>2. CASE Restart # "none"
    BY <1>0, <1>6, <2>2 DEF MainReceives, RestarterAt, innerVars
  <2> QED BY <2>1, <2>2
<1>7. CASE RestarterStep
  <2>0. Restart # "none" /\ main' = main
    BY <1>7 DEF RestarterStep, RestarterStops, RestarterCleans, RestarterDecides, RestarterBacksOff, RestarterAt,
                RestarterInv, mainVars
  <2>1. CASE RestarterStops
    <3>1. CASE RestarterAt("stopping", "drain") /\ EndStop
      <4>1. During /\ Draining' /\ ~Before' /\ ~During' /\ ~Over' /\ restarter' = "drain"
        BY <1>0, <2>0, <3>1 DEF RestarterAt
      <4>2. /\ UNCHANGED inner /\ ~bstop' /\ ~bstopped' /\ (Kind = "process" => bstopped)
            /\ Kind = "goroutine" => inner \notin {"active", "stopping"}
        BY <3>1 DEF EndStop, CountInv
      <4>3. inner \in InnerPCs
        BY DEF TypeOK
      <4> QED BY <1>0, <1>k, <4>1, <4>2, <4>3 DEF InnerPCs
    <3> QED BY <1>0, <2>0, <2>1, <3>1 DEF RestarterStops, RestarterAt, BeginStop, TakeResult, innerVars
  <2>2. CASE RestarterCleans
    BY <1>0, <1>k, <2>0, <2>2 DEF RestarterCleans, RestarterAt, BeginStop, EndStop, TakeResult
  <2>3. CASE RestarterDecides
    BY <1>0, <2>0, <2>3 DEF RestarterDecides, RestarterAt, innerVars
  <2>4. CASE RestarterBacksOff
    BY <1>0, <2>0, <2>4 DEF RestarterBacksOff, RestarterAt, innerVars
  <2> QED BY <1>7, <2>1, <2>2, <2>3, <2>4 DEF RestarterStep
<1> QED BY <1>1, <1>2, <1>3, <1>4, <1>5, <1>6, <1>7, QuietSteps

-----------------------------------------------------------------------------
(* The inductive invariant of a run. *)
THEOREM RunInvariant == Spec => []RunInv
<1>1. RunInv /\ [Next]_vars => RunInv'
  BY TypeStep, RestarterInvStep, CountInvStep, InnerInvStep DEF RunInv
<1> QED BY RunInvInit, <1>1, PTL DEF Spec

(* However a service is run, with or without a restarter, run returns only  *)
(* when the Run of its runner is over and its result taken, and Stop closes *)
(* no channel twice.                                                        *)
THEOREM EveryRunStopsCleanly == Spec => []StopsCleanly
<1>1. RunInv => NothingLeftBehind
  BY DEF RunInv, RestarterInv, InnerInv, Over, At, NothingLeftBehind
<1>2. RunInv => ChannelsClosedOnce
  <2> SUFFICES ASSUME RunInv PROVE ChannelsClosedOnce
    OBVIOUS
  <2>1. restarter \in {"stop", "clean"} => ~bstop
    BY DEF RunInv, RestarterInv, InnerInv, Before, At
  <2>2. ASSUME inner \in {"spawned", "active", "stopping"} PROVE ~bstopped
    <3>1. Before \/ During \/ Draining
      BY <2>2 DEF RunInv, RestarterInv, TypeOK, InnerInv, Before, During, Draining, Over, At, MainPCs, RestarterPCs
    <3> QED BY <2>2, <3>1 DEF RunInv, InnerInv, Closed
  <2> QED BY <2>1, <2>2 DEF ChannelsClosedOnce
<1>3. RunInv => StopsCleanly
  BY <1>1, <1>2 DEF RunInv, StopsCleanly
<1> QED BY <1>3, RunInvariant, PTL
=============================================================================
