------------------------------ MODULE Drainer -------------------------------
(***************************************************************************)
(* runtime.Drainer (pkg/runtime/drainer.go) with its two users: the events *)
(* sink (controllers/runtime/events_sink.go) and the delivery of kernel    *)
(* logs (controllers/runtime/kmsg_log.go).  main calls Drain when it       *)
(* returns, with a timeout, and cancels the controllers' context after it. *)
(*                                                                         *)
(* A controller subscribes once: its drainSub is never reset, so a         *)
(* subscription is identified with its controller.  d.subscriptionsMu is   *)
(* held by whole actions; Cancel signals after it has released it, in a    *)
(* step of its own.                                                        *)
(***************************************************************************)
EXTENDS Naturals

CONSTANTS
  Sinks,       \* instances of EventsSinkController
  Kmsgs,       \* instances of KmsgLogDeliveryController
  MaxBacklog,  \* bound: events a sink may have before it
  MaxFails     \* bound: failed Runs of each controller

Controllers == Sinks \union Kmsgs

ASSUME DrainerAssumption ==
  /\ Sinks \intersect Kmsgs = {}
  /\ MaxBacklog \in Nat /\ MaxFails \in Nat

VARIABLES
  drain,       \* where Drain is
  draining,    \* d.draining
  subs,        \* d.subscriptions
  shutdown,    \* a token is in d.shutdown, capacity 1
  event,       \* a drain event is in the channel of the controller's subscription
  drainSub,    \* controllers whose drainSub is not nil
  ctxDone,     \* main has cancelled the controllers' context
  at,          \* where each controller is
  hasDrained,  \* sink: draining; kmsg: the drain timer is set
  queue,       \* sink: events of the stream it has not delivered
  backlog,     \* sink: the backlog it knows of
  connected,   \* sink: consumeWatchCh is not nil
  fails,       \* Runs of the controller that have failed
  heard        \* history: controllers that have received the drain event

drainerVars == <<drain, draining, subs, shutdown>>
subVars == <<event, drainSub, heard>>
sinkVars == <<queue, backlog, connected>>
deliveryVars == <<drainerVars, subVars, ctxDone, at, hasDrained, sinkVars, fails>>

-----------------------------------------------------------------------------
(* "leave" is the deferred or direct call of Cancel, "signal" its second    *)
(* half; the "F" ones are those of a Run that has failed.                   *)
PCs == {"start", "network", "loop", "leave", "signal", "leaveF", "signalF", "failed", "over"}

DrainerTypeOK ==
  /\ drain \in {"idle", "check", "wait", "drained", "timeout"}
  /\ draining \in BOOLEAN /\ shutdown \in BOOLEAN /\ ctxDone \in BOOLEAN
  /\ subs \subseteq drainSub
  /\ drainSub \subseteq Controllers /\ heard \subseteq Controllers
  /\ event \in [Controllers -> BOOLEAN]
  /\ at \in [Controllers -> PCs]
  /\ hasDrained \in [Controllers -> BOOLEAN]
  /\ queue \in [Sinks -> Nat] /\ backlog \in [Sinks -> Nat]
  /\ connected \in [Sinks -> BOOLEAN]
  /\ fails \in [Controllers -> 0..MaxFails]

DrainerInit ==
  /\ drain = "idle" /\ draining = FALSE /\ subs = {} /\ shutdown = FALSE
  /\ event = [c \in Controllers |-> FALSE] /\ drainSub = {} /\ heard = {}
  /\ ctxDone = FALSE
  /\ at = [c \in Controllers |-> "start"]
  /\ hasDrained = [c \in Controllers |-> FALSE]
  /\ queue = [c \in Sinks |-> 0]
  /\ backlog = [c \in Sinks |-> 0]
  /\ connected = [c \in Sinks |-> FALSE]
  /\ fails = [c \in Controllers |-> 0]

Goto(c, from, to) == at[c] = from /\ at' = [at EXCEPT ![c] = to]

-----------------------------------------------------------------------------
(* Drain *)

(* Under the mutex: every subscription gets the event, if there is room. *)
DrainBegins ==
  /\ drain = "idle"
  /\ drain' = "check"
  /\ draining' = TRUE
  /\ event' = [c \in Controllers |-> event[c] \/ c \in subs]
  /\ UNCHANGED <<subs, shutdown, drainSub, heard, ctxDone, at, hasDrained, sinkVars, fails>>

DrainChecks ==
  /\ drain = "check"
  /\ drain' = IF subs = {} THEN "drained" ELSE "wait"
  /\ UNCHANGED <<draining, subs, shutdown, subVars, ctxDone, at, hasDrained, sinkVars, fails>>

(* Mutant: the first signal is taken for the last. *)
DrainWakesDone ==
  /\ drain = "wait" /\ shutdown
  /\ drain' = "drained" /\ shutdown' = FALSE
  /\ UNCHANGED <<draining, subs, subVars, ctxDone, at, hasDrained, sinkVars, fails>>

(* case <-d.shutdown: look again. *)
DrainWakes ==
  /\ drain = "wait" /\ shutdown
  /\ drain' = "check" /\ shutdown' = FALSE
  /\ UNCHANGED <<draining, subs, subVars, ctxDone, at, hasDrained, sinkVars, fails>>

(* case <-ctx.Done(): the ten seconds are over. *)
DrainTimesOut ==
  /\ drain = "wait"
  /\ drain' = "timeout"
  /\ UNCHANGED <<draining, subs, shutdown, subVars, ctxDone, at, hasDrained, sinkVars, fails>>

(* The next deferred call of main. *)
CancelContext ==
  /\ drain \in {"drained", "timeout"}
  /\ ~ctxDone /\ ctxDone' = TRUE
  /\ UNCHANGED <<drainerVars, subVars, at, hasDrained, sinkVars, fails>>

-----------------------------------------------------------------------------
(* Subscriptions *)

(* Mutant: a subscription made while draining is not told. *)
SubscribeUntold(c) ==
  /\ subs' = subs \union {c}
  /\ drainSub' = drainSub \union {c}
  /\ UNCHANGED event

Subscribe(c) ==
  /\ subs' = subs \union {c}
  /\ drainSub' = drainSub \union {c}
  /\ event' = [event EXCEPT ![c] = draining]

(* A controller whose drainSub is set does not subscribe again, even when   *)
(* an earlier Run has cancelled the subscription.                           *)
SubscribeOnce(c) ==
  IF c \in drainSub THEN UNCHANGED <<subs, drainSub, event>> ELSE Subscribe(c)

(* Cancel, under the mutex ... *)
CancelRemoves(c, from, to) ==
  /\ Goto(c, from, to)
  /\ subs' = subs \ {c}
  /\ UNCHANGED <<drain, draining, shutdown, subVars, ctxDone, hasDrained, sinkVars, fails>>

(* Mutant: Cancel does not wake Drain. *)
CancelSilent(c, from, to) ==
  /\ Goto(c, from, to)
  /\ UNCHANGED <<drainerVars, subVars, ctxDone, hasDrained, sinkVars, fails>>

(* ... and after it: a token, unless there is one. *)
CancelSignals(c, from, to) ==
  /\ Goto(c, from, to)
  /\ shutdown' = TRUE
  /\ UNCHANGED <<drain, draining, subs, subVars, ctxDone, hasDrained, sinkVars, fails>>

(* The drain event is received. *)
Receive(c) ==
  /\ event[c]
  /\ event' = [event EXCEPT ![c] = FALSE]
  /\ heard' = heard \union {c}
  /\ UNCHANGED drainSub

(* The controller runtime runs a controller again when its Run has failed. *)
Restart(c) ==
  /\ Goto(c, "failed", "start")
  /\ ~ctxDone
  /\ UNCHANGED <<drainerVars, subVars, ctxDone, hasDrained, sinkVars, fails>>

Failed(c) == fails[c] < MaxFails /\ fails' = [fails EXCEPT ![c] = @ + 1]

-----------------------------------------------------------------------------
(* EventsSinkController.Run *)

(* Subscribe, then wait for the network: the local variables are fresh. *)
SinkRuns(c) ==
  /\ Goto(c, "start", "network")
  /\ SubscribeOnce(c)
  /\ hasDrained' = [hasDrained EXCEPT ![c] = FALSE]
  /\ backlog' = [backlog EXCEPT ![c] = 0]
  /\ connected' = [connected EXCEPT ![c] = FALSE]
  /\ UNCHANGED <<drain, draining, shutdown, heard, ctxDone, queue, fails>>

NetworkReady(c) ==
  /\ Goto(c, "network", "loop")
  /\ UNCHANGED <<drainerVars, subVars, ctxDone, hasDrained, sinkVars, fails>>

(* The context ends, in the select or while the network is waited for. *)
SinkCanceled(c) ==
  /\ ctxDone
  /\ Goto(c, "loop", "leave") \/ Goto(c, "network", "leave")
  /\ UNCHANGED <<drainerVars, subVars, ctxDone, hasDrained, sinkVars, fails>>

(* case <-drainSub.EventCh(): return at once when there is no backlog. *)
SinkDrains(c) ==
  /\ Goto(c, "loop", IF backlog[c] = 0 THEN "leave" ELSE "loop")
  /\ Receive(c)
  /\ hasDrained' = [hasDrained EXCEPT ![c] = TRUE]
  /\ UNCHANGED <<drainerVars, ctxDone, sinkVars, fails>>

(* Somebody publishes an event to the stream. *)
EventPublished(c) ==
  /\ queue[c] < MaxBacklog
  /\ queue' = [queue EXCEPT ![c] = @ + 1]
  /\ UNCHANGED <<drainerVars, subVars, ctxDone, at, hasDrained, backlog, connected, fails>>

(* case event := <-consumeWatchCh: its backlog is the one there was when it *)
(* was read from the stream.  It is published; the last one ends a drain.   *)
SinkPublishes(c) ==
  /\ connected[c] /\ queue[c] > 0
  /\ queue' = [queue EXCEPT ![c] = @ - 1]
  /\ \E b \in 0..(queue[c] - 1) :
       /\ backlog' = [backlog EXCEPT ![c] = b]
       /\ Goto(c, "loop", IF hasDrained[c] /\ b = 0 THEN "leave" ELSE "loop")
  /\ UNCHANGED <<drainerVars, subVars, ctxDone, hasDrained, connected, fails>>

(* Publishing, connecting, or waiting for the network fails, and with it   *)
(* Run: the next one tails from the last event that was delivered.         *)
SinkFails(c) ==
  /\ Goto(c, "loop", "leaveF") \/ Goto(c, "network", "leaveF")
  /\ Failed(c)
  /\ UNCHANGED <<drainerVars, subVars, ctxDone, hasDrained, sinkVars>>

(* case <-r.EventCh(): close the connection, open another if configured. *)
SinkReconfigures(c) ==
  /\ Goto(c, "loop", "loop")
  /\ \E on \in BOOLEAN :
       /\ connected' = [connected EXCEPT ![c] = on]
       /\ backlog' = [backlog EXCEPT ![c] = IF connected[c] THEN 0 ELSE @]
  /\ UNCHANGED <<drainerVars, subVars, ctxDone, hasDrained, queue, fails>>

-----------------------------------------------------------------------------
(* KmsgLogDeliveryController.Run: its outer loop is "network", deliverLogs  *)
(* is "loop".                                                               *)

KmsgRuns(c) ==
  /\ Goto(c, "start", "network")
  /\ UNCHANGED <<drainerVars, subVars, ctxDone, hasDrained, sinkVars, fails>>

(* A configuration arrives: deliverLogs with no timer set. *)
KmsgDelivers(c) ==
  /\ Goto(c, "network", "loop")
  /\ SubscribeOnce(c)
  /\ hasDrained' = [hasDrained EXCEPT ![c] = FALSE]
  /\ UNCHANGED <<drain, draining, shutdown, heard, ctxDone, sinkVars, fails>>

(* case <-drainSub.EventCh(): set the timer; messages reset it. *)
KmsgDrains(c) ==
  /\ Goto(c, "loop", "loop")
  /\ Receive(c)
  /\ hasDrained' = [hasDrained EXCEPT ![c] = TRUE]
  /\ UNCHANGED <<drainerVars, ctxDone, sinkVars, fails>>

(* case <-drainTimerCh, case <-ctx.Done(): Cancel and return nil. *)
KmsgLeaves(c) ==
  /\ Goto(c, "loop", "leave")
  /\ hasDrained[c] \/ ctxDone
  /\ UNCHANGED <<drainerVars, subVars, ctxDone, hasDrained, sinkVars, fails>>

(* case <-r.EventCh(): back to the outer loop without Cancel. *)
KmsgReconfigures(c) ==
  /\ Goto(c, "loop", "network")
  /\ UNCHANGED <<drainerVars, subVars, ctxDone, hasDrained, sinkVars, fails>>

(* case <-ctx.Done() of the outer loop. *)
KmsgEnds(c) ==
  /\ Goto(c, "network", "over")
  /\ ctxDone
  /\ UNCHANGED <<drainerVars, subVars, ctxDone, hasDrained, sinkVars, fails>>

(* Reading, sending or waiting for the network fails: Run returns the      *)
(* error, without Cancel.                                                  *)
KmsgFails(c) ==
  /\ Goto(c, "loop", "failed") \/ Goto(c, "network", "failed")
  /\ Failed(c)
  /\ UNCHANGED <<drainerVars, subVars, ctxDone, hasDrained, sinkVars>>

-----------------------------------------------------------------------------
(* What follows Cancel: a sink's Run returns, deliverLogs goes back to Run. *)
Cancel(c) ==
  \/ CancelRemoves(c, "leave", "signal")
  \/ CancelRemoves(c, "leaveF", "signalF")
  \/ CancelSignals(c, "signal", IF c \in Kmsgs THEN "network" ELSE "over")
  \/ CancelSignals(c, "signalF", "failed")

DrainStep == DrainBegins \/ DrainChecks \/ DrainWakes

SinkStep(c) ==
  \/ SinkRuns(c) \/ NetworkReady(c) \/ SinkCanceled(c) \/ SinkDrains(c)
  \/ SinkPublishes(c) \/ SinkFails(c) \/ SinkReconfigures(c)

KmsgStep(c) ==
  \/ KmsgRuns(c) \/ KmsgDelivers(c) \/ KmsgDrains(c) \/ KmsgLeaves(c)
  \/ KmsgReconfigures(c) \/ KmsgEnds(c) \/ KmsgFails(c)

DrainerNext ==
  \/ DrainStep \/ DrainTimesOut \/ CancelContext
  \/ \E c \in Controllers : Cancel(c) \/ Restart(c)
  \/ \E c \in Sinks : SinkStep(c) \/ EventPublished(c)
  \/ \E c \in Kmsgs : KmsgStep(c)

DrainerSpec == DrainerInit /\ [][DrainerNext]_deliveryVars

(* Drain and Cancel run on.  No timer has to fire; a controller has to do  *)
(* nothing but finish a Cancel it has begun.                               *)
Fairness == WF_deliveryVars(DrainChecks \/ DrainWakes) /\ \A c \in Controllers : WF_deliveryVars(Cancel(c))

FairDrainerSpec == DrainerSpec /\ Fairness

-----------------------------------------------------------------------------
(* Properties *)

(* A controller that is between the two halves of Cancel. *)
Signalling == \E c \in Controllers : at[c] \in {"signal", "signalF"}

(* While Drain sleeps and nobody is subscribed any more, its wake-up is in *)
(* the channel or on its way: tokens that did not fit were not needed.     *)
NoLostSignal == drain = "wait" /\ subs = {} => shutdown \/ Signalling

(* Nobody who is subscribed misses the drain: whenever a controller        *)
(* subscribes or Drain is called, the event is waiting or was received.    *)
EveryoneTold == draining => \A c \in subs : event[c] \/ c \in heard

(* "ensure graceful shutdown": when Drain succeeds, a sink that still      *)
(* knows of a backlog is one that had failed before, and had given its     *)
(* subscription up with that.                                              *)
BacklogAwaited ==
  [][drain # "drained" /\ drain' = "drained"
     => \A c \in Sinks : at[c] = "loop" /\ backlog[c] > 0 => fails[c] > 0]_deliveryVars

(* Once the last subscription is cancelled Drain returns, long before its  *)
(* timeout, unless another is made.                                        *)
DrainReturns ==
  (drain \in {"check", "wait"} /\ subs = {})
    ~> (drain \in {"drained", "timeout"} \/ subs # {})

=============================================================================
