------------------------- MODULE MachineMainProofs --------------------------
(* Proofs about machined's main, for any set of callers and requests. *)
EXTENDS MachineMain, TLAPS

(* Where a process has the sequence lock. *)
Locked == {"sequence", "restart", "unlock"}

(* Controller.Run has the lock from Lock to the deferred Unlock, and only   *)
(* one process has it: no two sequences run at once.                        *)
OneSequence ==
  /\ \A p \in Procs : pc[p] \in Locked <=> p \in holder
  /\ \A p, q \in holder : p = q

(* main comes to the watch once, with nothing watched before, and an error  *)
(* of the controller runtime is a failure.                                  *)
Returning == {"shutdown", "hung", "cancel", "wait", "handle", "reboot"}

WatchOnce ==
  /\ main \in {"initialize", "install", "boot", "watch"}
       => ~watching /\ watchOut = "none"
  /\ ctl = "sending" => failed
  /\ reverted => main = "reboot" /\ err # "reboot"

RestartSeen(n) == \E i \in 1..n : events[i] = "restart"

(* Only a failure publishes a fatal event that no RestartEvent precedes. *)
FatalExplained ==
  /\ \A p \in Procs : pc[p] = "restart" => RestartSeen(Len(events))
  /\ \A i \in 1..Len(events) : events[i] = "fatal" => failed \/ RestartSeen(i - 1)

(* What the watch knows unless it was too late: it has gone past no         *)
(* RestartEvent, or is sending it, or it was what main received.            *)
RestartFirst ==
  (watching /\ ~failed /\ ~RestartSeen(missed)) =>
    /\ main = "select" /\ watchOut = "none" => ~RestartSeen(watched)
    /\ main = "select" => watchOut \in {"none", "reboot"}
    /\ main \in Returning => err = "reboot"

EndsInOrder == main \in {"handle", "reboot"} => ctl = "done"

(* Whoever is in Controller.Run asked for a sequence. *)
RequestsReal == \A p \in Procs : pc[p] # "idle" => req[p].seq # Noop

MainInv ==
  /\ TypeOK /\ OneSequence /\ RequestsReal
  /\ WatchOnce /\ FatalExplained /\ RestartFirst /\ EndsInOrder

-----------------------------------------------------------------------------
(* The actions of Controller.Run, by name. *)
LEMMA NextCases ==
  ASSUME Next
  PROVE  \/ \E p \in Callers : Ask(p)
         \/ \E p \in Procs : \/ LockRefused(p) \/ LockTakesOver(p) \/ LockGranted(p) \/ LockTimeout(p)
                             \/ SequenceDone(p) \/ SequenceCanceled(p) \/ SequenceFails(p)
                             \/ SequenceRestarts(p) \/ SequenceReboots(p) \/ Unlock(p)
         \/ MainCalls \/ MainGoesOn \/ MainWatches \/ MainReceives
         \/ MainShutsDown \/ MainHangs \/ MainCancels \/ MainWaits \/ Handle
         \/ ServiceStep
         \/ WatchEvent \/ RuntimeFails \/ RuntimeEnds \/ UNCHANGED vars
  BY DEF Next, RunStep, MainStep, Rebooted

(* Loading, starting and stopping services changes nothing else. *)
LEMMA ServiceStepFrame ==
  ASSUME TypeOK, ServiceStep
  PROVE  /\ UNCHANGED <<runVars, events, mainVars, watchVars, ctl, failed>>
         /\ unstarted' \subseteq Loadable /\ stopping' \in {stopping, TRUE}
  BY DEF TypeOK, ServiceStep, MachinedStarts, ServiceLoads, ServiceStarts, SequenceStops, Loadable

LEMMA RequestTypes ==
  /\ NoRequest \in AnyRequest
  /\ \A s \in Sequences : Request(s, FALSE) \in AnyRequest
  /\ \A p \in Callers : Asks[p] \subseteq AnyRequest
  /\ {"initialize", "install", "boot"} \subseteq Sequences
<1>1. \A s \in Sequences \union {Noop} : Request(s, FALSE) \in AnyRequest
  BY DEF Request, AnyRequest
<1>2. \A p \in Callers : Asks[p] \subseteq AnyRequest
  BY MainAssumption DEF AnyRequest
<1> QED BY <1>1, <1>2 DEF NoRequest, Sequences

LEMMA MainInvInit == Init => MainInv
<1> SUFFICES ASSUME Init PROVE MainInv
  OBVIOUS
<1>a. {watching, reverted, failed, stopping} \subseteq BOOLEAN /\ revoked \in BOOLEAN
  BY DEF Init, LockInit
<1>b. holder \subseteq Procs /\ held \in AnyRequest
  BY RequestTypes DEF Init, LockInit
<1>c. /\ events \in Seq({"locked", "canceled", "fatal", "restart"})
      /\ watched \in 0..Len(events) /\ missed \in 0..watched
  BY DEF Init
<1>1. TypeOK
  BY <1>a, <1>b, <1>c, RequestTypes DEF Init, LockInit, TypeOK, RunResults, Loadable
<1>2. OneSequence
  BY DEF Init, LockInit, OneSequence, Locked
<1>3. WatchOnce /\ FatalExplained /\ RestartFirst /\ EndsInOrder
  BY DEF Init, WatchOnce, FatalExplained, RestartFirst, EndsInOrder
<1>4. RequestsReal
  BY DEF Init, RequestsReal
<1> QED BY <1>1, <1>2, <1>3, <1>4 DEF MainInv

EventTypes == {"locked", "canceled", "fatal", "restart"}

LEMMA TypeStep == TypeOK /\ [Next]_vars => TypeOK'
<1> SUFFICES ASSUME TypeOK, [Next]_vars PROVE TypeOK'
  OBVIOUS
<1> USE DEF TypeOK, RunResults, Goto, Call, Publish, runVars, mainVars, watchVars, svcVars, lockState
<1>0. {watching, reverted, failed, stopping}' \subseteq BOOLEAN
  <2>1. /\ watching' \in {watching, TRUE} /\ failed' \in {failed, TRUE} /\ stopping' \in {stopping, TRUE}
        /\ reverted' \in {reverted, err # "reboot"}
    BY NextCases, ServiceStepFrame
       DEF vars, Ask, LockRefused, LockTakesOver, LockGranted, LockTimeout, SequenceDone, SequenceCanceled,
           SequenceFails, SequenceRestarts, SequenceReboots, Unlock, MainCalls, MainGoesOn, MainWatches,
           MainReceives, MainShutsDown, MainHangs, MainCancels, MainWaits, Handle, WatchEvent, RuntimeFails, RuntimeEnds
  <2> QED BY <2>1
<1>1. CASE \E p \in Callers : Ask(p)
  BY <1>1, RequestTypes DEF Ask, Callers
<1>2. CASE \E p \in Procs : LockRefused(p) \/ SequenceCanceled(p) \/ SequenceFails(p)
                            \/ SequenceRestarts(p) \/ SequenceReboots(p)
  <2>1. PICK p \in Procs, e \in EventTypes :
          /\ LockRefused(p) \/ SequenceCanceled(p) \/ SequenceFails(p)
               \/ SequenceRestarts(p) \/ SequenceReboots(p)
          /\ events' = Append(events, e)
    BY <1>2 DEF LockRefused, SequenceCanceled, SequenceFails, SequenceRestarts, SequenceReboots, EventTypes
  <2>2. /\ events' \in Seq(EventTypes) /\ Len(events') = Len(events) + 1
    BY <2>1 DEF EventTypes
  <2>3. watched' \in 0..Len(events') /\ missed' \in 0..watched'
    BY <2>1, <2>2 DEF LockRefused, SequenceCanceled, SequenceFails, SequenceRestarts, SequenceReboots
  <2>4. UNCHANGED <<lockState, req, watchOut, ctl, main, err, unstarted>>
    BY <2>1 DEF LockRefused, SequenceCanceled, SequenceFails, SequenceRestarts, SequenceReboots
  <2>5. pc' \in [Procs -> {"idle", "lock", "await", "sequence", "restart", "unlock", "returned"}]
    BY <2>1 DEF LockRefused, SequenceCanceled, SequenceFails, SequenceRestarts, SequenceReboots
  <2>6. result' \in [Procs -> RunResults]
    BY <2>1 DEF LockRefused, SequenceCanceled, SequenceFails, SequenceRestarts, SequenceReboots
  <2> QED BY <1>0, <2>2, <2>3, <2>4, <2>5, <2>6
        DEF EventTypes, LockRefused, SequenceCanceled, SequenceFails, SequenceRestarts, SequenceReboots
<1>3. CASE \E p \in Procs : LockTakesOver(p) \/ LockGranted(p) \/ Unlock(p)
  <2>1. holder' \subseteq Procs /\ held' \in AnyRequest
    BY <1>3, RequestTypes DEF LockTakesOver, LockGranted, Unlock, Revoke, Grant, Release
  <2>2. revoked' \in BOOLEAN
    BY <1>3 DEF LockTakesOver, LockGranted, Unlock, Revoke, Grant, Release
  <2> QED BY <1>0, <1>3, <2>1, <2>2 DEF LockTakesOver, LockGranted, Unlock
<1>4. CASE \E p \in Procs : LockTimeout(p) \/ SequenceDone(p)
  BY <1>4 DEF LockTimeout, SequenceDone
<1>5. CASE MainCalls
  BY <1>5, RequestTypes DEF MainCalls
<1>6. CASE MainGoesOn
  BY <1>6, MainAssumption DEF MainGoesOn, AfterRun
<1>7. CASE MainWatches \/ MainReceives \/ MainShutsDown \/ MainHangs \/ MainCancels \/ MainWaits \/ Handle
  <2>1. watched' \in 0..Len(events) /\ missed' \in 0..watched' /\ UNCHANGED events
    BY <1>7 DEF MainWatches, MainReceives, MainShutsDown, MainHangs, MainCancels, MainWaits, Handle
  <2> QED BY <1>0, <1>7, <2>1 DEF MainWatches, MainReceives, MainShutsDown, MainHangs, MainCancels, MainWaits, Handle
<1>8. CASE WatchEvent
  <2>1. events[watched + 1] \in EventTypes
    BY <1>8 DEF WatchEvent, EventTypes
  <2>2. watchOut' \in {"none", "fatal", "reboot"}
    BY <1>8, <2>1 DEF WatchEvent, WatchError, EventTypes
  <2> QED BY <1>8, <2>2 DEF WatchEvent
<1>9. CASE RuntimeFails \/ RuntimeEnds \/ UNCHANGED vars
  BY <1>0, <1>9 DEF RuntimeFails, RuntimeEnds, vars
<1>10. CASE ServiceStep
  <2>1. /\ UNCHANGED <<runVars, events, main, err, missed, watched, watchOut, ctl>>
        /\ unstarted' \subseteq Loadable
    BY <1>10, ServiceStepFrame
  <2> QED BY <1>0, <2>1
<1> QED BY <1>1, <1>2, <1>3, <1>4, <1>5, <1>6, <1>7, <1>8, <1>9, <1>10, NextCases

LEMMA OneSequenceStep == TypeOK /\ OneSequence /\ [Next]_vars => OneSequence'
<1> SUFFICES ASSUME TypeOK, OneSequence, [Next]_vars PROVE OneSequence'
  OBVIOUS
<1> USE MainAssumption DEF TypeOK, OneSequence, Locked, Goto, Call, runVars, lockState
<1>1. CASE \E p \in Callers : Ask(p)
  BY <1>1 DEF Ask, Callers
<1>2. CASE \E p \in Procs : LockRefused(p) \/ LockTimeout(p)
  BY <1>2 DEF LockRefused, LockTimeout
<1>3. CASE \E p \in Procs : LockTakesOver(p) \/ LockGranted(p)
  BY <1>3 DEF LockTakesOver, LockGranted, Revoke, Grant, Free
<1>4. CASE \E p \in Procs : \/ SequenceDone(p) \/ SequenceCanceled(p) \/ SequenceFails(p)
                            \/ SequenceRestarts(p) \/ SequenceReboots(p)
  BY <1>4 DEF SequenceDone, SequenceCanceled, SequenceFails, SequenceRestarts, SequenceReboots
<1>5. CASE \E p \in Procs : Unlock(p)
  BY <1>5 DEF Unlock, Release
<1>6. CASE MainCalls \/ MainGoesOn
  BY <1>6 DEF MainCalls, MainGoesOn
<1>7. CASE \/ MainWatches \/ MainReceives \/ MainShutsDown \/ MainHangs \/ MainCancels \/ MainWaits \/ Handle
           \/ WatchEvent \/ RuntimeFails \/ RuntimeEnds \/ UNCHANGED vars
  BY <1>7 DEF MainWatches, MainReceives, MainShutsDown, MainHangs, MainCancels, MainWaits, Handle, WatchEvent,
              RuntimeFails, RuntimeEnds, vars
<1>8. CASE ServiceStep
  BY <1>8, ServiceStepFrame
<1> QED BY <1>1, <1>2, <1>3, <1>4, <1>5, <1>6, <1>7, <1>8, NextCases

LEMMA RequestsRealStep == TypeOK /\ RequestsReal /\ [Next]_vars => RequestsReal'
<1> SUFFICES ASSUME TypeOK, RequestsReal, [Next]_vars PROVE RequestsReal'
  OBVIOUS
<1> USE MainAssumption DEF TypeOK, RequestsReal, Goto, Call, runVars
<1>1. CASE \E p \in Callers : Ask(p)
  BY <1>1 DEF Ask, Callers, Sequences, Noop
<1>2. CASE MainCalls
  BY <1>2 DEF MainCalls, Request, Noop
<1>3. CASE MainGoesOn
  BY <1>3 DEF MainGoesOn
<1>4. CASE \E p \in Procs : \/ LockRefused(p) \/ LockTakesOver(p) \/ LockGranted(p) \/ LockTimeout(p)
                            \/ SequenceDone(p) \/ SequenceCanceled(p) \/ SequenceFails(p)
                            \/ SequenceRestarts(p) \/ SequenceReboots(p) \/ Unlock(p)
  BY <1>4 DEF LockRefused, LockTakesOver, LockGranted, LockTimeout, SequenceDone, SequenceCanceled,
              SequenceFails, SequenceRestarts, SequenceReboots, Unlock
<1>5. CASE \/ MainWatches \/ MainReceives \/ MainShutsDown \/ MainHangs \/ MainCancels \/ MainWaits \/ Handle
           \/ WatchEvent \/ RuntimeFails \/ RuntimeEnds \/ UNCHANGED vars
  BY <1>5 DEF MainWatches, MainReceives, MainShutsDown, MainHangs, MainCancels, MainWaits, Handle, WatchEvent,
              RuntimeFails, RuntimeEnds, vars
<1>6. CASE ServiceStep
  BY <1>6, ServiceStepFrame
<1> QED BY <1>1, <1>2, <1>3, <1>4, <1>5, <1>6, NextCases

LEMMA WatchOnceStep == TypeOK /\ WatchOnce /\ [Next]_vars => WatchOnce'
<1> SUFFICES ASSUME TypeOK, WatchOnce, [Next]_vars PROVE WatchOnce'
  OBVIOUS
<1> USE DEF WatchOnce, mainVars, watchVars
<1>1. CASE \/ \E p \in Callers : Ask(p)
           \/ \E p \in Procs : \/ LockRefused(p) \/ LockTakesOver(p) \/ LockGranted(p) \/ LockTimeout(p)
                               \/ SequenceDone(p) \/ SequenceCanceled(p) \/ SequenceFails(p)
                               \/ SequenceRestarts(p) \/ SequenceReboots(p) \/ Unlock(p)
           \/ MainCalls \/ RuntimeFails \/ RuntimeEnds \/ ServiceStep \/ UNCHANGED vars
  <2>1. UNCHANGED <<main, err, reverted, watching, watchOut>>
    BY <1>1, ServiceStepFrame
       DEF Ask, LockRefused, LockTakesOver, LockGranted, LockTimeout, SequenceDone, SequenceCanceled,
           SequenceFails, SequenceRestarts, SequenceReboots, Unlock, MainCalls, RuntimeFails, RuntimeEnds, vars
  <2>2. ctl' = "sending" => failed'
    BY <1>1, ServiceStepFrame
       DEF Ask, LockRefused, LockTakesOver, LockGranted, LockTimeout, SequenceDone, SequenceCanceled,
           SequenceFails, SequenceRestarts, SequenceReboots, Unlock, MainCalls, RuntimeFails, RuntimeEnds, vars
  <2> QED BY <2>1, <2>2
<1>2. CASE MainGoesOn
  BY <1>2 DEF MainGoesOn, AfterRun, Goto, Up
<1>3. CASE MainWatches \/ MainReceives \/ MainShutsDown \/ MainHangs \/ MainCancels \/ MainWaits \/ Handle
  <2>1. CASE Handle
    BY <2>1 DEF Handle
  <2>2. CASE MainWatches \/ MainReceives
    BY <2>2 DEF MainWatches, MainReceives
  <2>3. CASE MainShutsDown \/ MainHangs \/ MainCancels \/ MainWaits
    BY <2>3 DEF MainShutsDown, MainHangs, MainCancels, MainWaits
  <2> QED BY <1>3, <2>1, <2>2, <2>3
<1>4. CASE WatchEvent
  BY <1>4 DEF WatchEvent
<1> QED BY <1>1, <1>2, <1>3, <1>4, NextCases

(* Events are only ever appended, at most one in a step. *)
LEMMA EventsGrow ==
  ASSUME TypeOK, [Next]_vars
  PROVE  /\ Len(events) <= Len(events')
         /\ \A i \in 1..Len(events) : events'[i] = events[i]
         /\ \A n \in 0..Len(events) : RestartSeen(n)' <=> RestartSeen(n)
<1>1. events' = events \/ \E e \in EventTypes : events' = Append(events, e)
  BY NextCases, ServiceStepFrame
     DEF vars, runVars, Ask, LockRefused, LockTakesOver, LockGranted, LockTimeout, SequenceDone,
         SequenceCanceled, SequenceFails, SequenceRestarts, SequenceReboots, Unlock, MainCalls, MainGoesOn,
         MainWatches, MainReceives, MainShutsDown, MainHangs, MainCancels, MainWaits, Handle, WatchEvent, RuntimeFails,
         RuntimeEnds, Publish, EventTypes
<1>2. /\ Len(events) <= Len(events')
      /\ \A i \in 1..Len(events) : events'[i] = events[i]
  <2>1. events \in Seq(EventTypes)
    BY DEF TypeOK, EventTypes
  <2>2. CASE events' = events
    BY <2>1, <2>2
  <2>3. ASSUME NEW e \in EventTypes, events' = Append(events, e)
        PROVE  /\ Len(events) <= Len(events')
               /\ \A i \in 1..Len(events) : events'[i] = events[i]
    BY <2>1, <2>3
  <2> QED BY <1>1, <2>2, <2>3
<1>3. ASSUME NEW n \in 0..Len(events) PROVE RestartSeen(n)' <=> RestartSeen(n)
  <2>1. \A i \in 1..n : i \in 1..Len(events)
    BY DEF TypeOK
  <2> QED BY <1>2, <2>1 DEF RestartSeen
<1> QED BY <1>2, <1>3

(* A process comes to "restart" with the RestartEvent, and a fatal event is *)
(* published by a failure or by a process that is there.                    *)
LEMMA WhoPublishes ==
  ASSUME TypeOK, [Next]_vars
  PROVE  \/ /\ events' = events
            /\ \A q \in Procs : pc'[q] = "restart" => pc[q] = "restart"
         \/ \E p \in Procs, e \in EventTypes :
              /\ events' = Append(events, e)
              /\ e = "fatal" => failed' \/ pc[p] = "restart"
              /\ \A q \in Procs : pc'[q] = "restart" => pc[q] = "restart" \/ e = "restart"
<1> USE MainAssumption DEF TypeOK, Goto, Call, Publish, EventTypes, runVars
<1>1. CASE \E p \in Callers : Ask(p)
  BY <1>1 DEF Ask, Callers
<1>2. CASE \E p \in Procs : LockRefused(p)
  BY <1>2 DEF LockRefused
<1>3. CASE \E p \in Procs : LockTakesOver(p) \/ LockGranted(p) \/ LockTimeout(p) \/ SequenceDone(p) \/ Unlock(p)
  BY <1>3 DEF LockTakesOver, LockGranted, LockTimeout, SequenceDone, Unlock
<1>4. CASE \E p \in Procs : SequenceCanceled(p)
  BY <1>4 DEF SequenceCanceled
<1>5. CASE \E p \in Procs : SequenceFails(p)
  BY <1>5 DEF SequenceFails
<1>6. CASE \E p \in Procs : SequenceRestarts(p)
  BY <1>6 DEF SequenceRestarts
<1>7. CASE \E p \in Procs : SequenceReboots(p)
  BY <1>7 DEF SequenceReboots
<1>8. CASE MainCalls \/ MainGoesOn
  BY <1>8 DEF MainCalls, MainGoesOn
<1>9. CASE \/ MainWatches \/ MainReceives \/ MainShutsDown \/ MainHangs \/ MainCancels \/ MainWaits \/ Handle
           \/ WatchEvent \/ RuntimeFails \/ RuntimeEnds \/ UNCHANGED vars
  BY <1>9 DEF MainWatches, MainReceives, MainShutsDown, MainHangs, MainCancels, MainWaits, Handle, WatchEvent,
              RuntimeFails, RuntimeEnds, vars
<1>10. CASE ServiceStep
  BY <1>10, ServiceStepFrame
<1> QED BY <1>1, <1>2, <1>3, <1>4, <1>5, <1>6, <1>7, <1>8, <1>9, <1>10, NextCases

(* No failure is forgotten. *)
LEMMA FailedStays == TypeOK /\ [Next]_vars => failed' = failed \/ failed' = TRUE
  BY NextCases, ServiceStepFrame
     DEF vars, Ask, LockRefused, LockTakesOver, LockGranted, LockTimeout, SequenceDone, SequenceCanceled,
         SequenceFails, SequenceRestarts, SequenceReboots, Unlock, MainCalls, MainGoesOn, MainWatches,
         MainReceives, MainShutsDown, MainHangs, MainCancels, MainWaits, Handle, WatchEvent, RuntimeFails, RuntimeEnds

LEMMA FatalExplainedStep == TypeOK /\ FatalExplained /\ [Next]_vars => FatalExplained'
<1> SUFFICES ASSUME TypeOK, FatalExplained, [Next]_vars PROVE FatalExplained'
  OBVIOUS
<1>1. failed => failed'
  BY FailedStays
<1>2. ASSUME NEW n \in 0..Len(events), RestartSeen(n) PROVE RestartSeen(n)'
  BY <1>2, EventsGrow
<1>3. ASSUME NEW i \in 1..Len(events), events[i] = "fatal" PROVE failed' \/ RestartSeen(i - 1)'
  <2>1. i - 1 \in 0..Len(events)
    BY DEF TypeOK
  <2> QED BY <1>1, <1>2, <1>3, <2>1 DEF FatalExplained
<1>4. CASE events' = events /\ \A q \in Procs : pc'[q] = "restart" => pc[q] = "restart"
  <2>1. Len(events) \in 0..Len(events)
    BY DEF TypeOK
  <2>2. ASSUME NEW q \in Procs, pc'[q] = "restart" PROVE RestartSeen(Len(events))'
    BY <1>2, <1>4, <2>1, <2>2 DEF FatalExplained
  <2> QED BY <1>3, <1>4, <2>2 DEF FatalExplained, RestartSeen
<1>5. ASSUME NEW p \in Procs, NEW e \in EventTypes,
             events' = Append(events, e),
             e = "fatal" => failed' \/ pc[p] = "restart",
             \A q \in Procs : pc'[q] = "restart" => pc[q] = "restart" \/ e = "restart"
      PROVE  FatalExplained'
  <2>a. events \in Seq(EventTypes)
    BY DEF TypeOK, EventTypes
  <2>0. PICK n \in Nat : n = Len(events)
    BY <2>a
  <2>1. /\ Len(events') = n + 1 /\ events'[n + 1] = e
        /\ \A i \in 1..n : events'[i] = events[i]
    BY <1>5, <2>a, <2>0
  <2>2. RestartSeen(n) => RestartSeen(n)' /\ RestartSeen(Len(events))'
    BY <2>0, <2>1 DEF RestartSeen
  <2>3. ASSUME NEW q \in Procs, pc'[q] = "restart" PROVE RestartSeen(Len(events))'
    <3>1. CASE pc[q] = "restart"
      BY <2>0, <2>2, <3>1 DEF FatalExplained
    <3>2. CASE e = "restart"
      BY <2>0, <2>1, <3>2 DEF RestartSeen
    <3> QED BY <1>5, <2>3, <3>1, <3>2
  <2>4. ASSUME NEW i \in 1..Len(events'), events'[i] = "fatal" PROVE failed' \/ RestartSeen(i - 1)'
    <3>1. CASE i \in 1..n
      BY <1>3, <2>0, <2>1, <2>4, <3>1
    <3>2. CASE i = n + 1
      <4>1. failed' \/ RestartSeen(n)
        BY <1>5, <2>0, <2>1, <2>4, <3>2 DEF FatalExplained
      <4>2. i - 1 = n
        BY <2>0, <3>2
      <4> QED BY <2>2, <4>1, <4>2 DEF RestartSeen
    <3> QED BY <2>0, <2>1, <3>1, <3>2
  <2> QED BY <2>3, <2>4 DEF FatalExplained
<1> QED BY <1>4, <1>5, WhoPublishes

(* The watch stops at the first RestartEvent, and so never comes to a fatal *)
(* event that follows one.                                                  *)
LEMMA RestartFirstStep ==
  TypeOK /\ WatchOnce /\ FatalExplained /\ RestartFirst /\ [Next]_vars => RestartFirst'
<1> SUFFICES ASSUME TypeOK, WatchOnce, FatalExplained, RestartFirst, [Next]_vars,
                    (watching /\ ~failed /\ ~RestartSeen(missed))'
             PROVE  (/\ main = "select" /\ watchOut = "none" => ~RestartSeen(watched)
                     /\ main = "select" => watchOut \in {"none", "reboot"}
                     /\ main \in Returning => err = "reboot")'
  BY DEF RestartFirst
<1>1. ~failed
  BY FailedStays
<1>2. watched \in 0..Len(events) /\ missed \in 0..Len(events)
  BY DEF TypeOK
<1>3. CASE UNCHANGED <<watching, missed, watched, watchOut, main, err>>
  <2>1. (RestartSeen(missed)' <=> RestartSeen(missed)) /\ (RestartSeen(watched)' <=> RestartSeen(watched))
    BY <1>2, <1>3, EventsGrow DEF RestartSeen
  <2> QED BY <1>1, <1>3, <2>1 DEF RestartFirst, Returning
<1>4. CASE MainGoesOn
  BY <1>4 DEF MainGoesOn, WatchOnce, watchVars
<1>5. CASE MainWatches
  BY <1>5 DEF MainWatches, WatchOnce, Returning, RestartSeen
<1>6. CASE \/ MainReceives \/ MainShutsDown \/ MainHangs \/ MainCancels \/ MainWaits \/ Handle
  <2>1. ~RestartSeen(missed) /\ watching
    BY <1>6 DEF MainReceives, MainShutsDown, MainHangs, MainCancels, MainWaits, Handle, RestartSeen, watchVars
  <2>2. CASE MainReceives
    <3>1. err' = "reboot"
      BY <1>1, <2>1, <2>2 DEF MainReceives, RestartFirst, WatchOnce
    <3> QED BY <2>2, <3>1 DEF MainReceives, Returning
  <2>3. CASE MainShutsDown \/ MainHangs \/ MainCancels \/ MainWaits \/ Handle
    BY <1>1, <2>1, <2>3 DEF MainShutsDown, MainHangs, MainCancels, MainWaits, Handle, RestartFirst, Returning
  <2> QED BY <1>6, <2>2, <2>3
<1>7. CASE WatchEvent
  <2>1. /\ watching /\ ~RestartSeen(missed) /\ watchOut = "none"
        /\ UNCHANGED <<events, main, err>> /\ watched' = watched + 1 /\ watched + 1 \in 1..Len(events)
        /\ watchOut' = WatchError(events[watched + 1])
    BY <1>2, <1>7 DEF WatchEvent, RestartSeen, mainVars, TypeOK
  <2>2. main \in Returning => err = "reboot"
    BY <1>1, <2>1 DEF RestartFirst
  <2>3. ASSUME main = "select"
        PROVE  /\ watchOut' = "none" => ~RestartSeen(watched)'
               /\ watchOut' \in {"none", "reboot"}
    <3>1. ~RestartSeen(watched)
      BY <1>1, <2>1, <2>3 DEF RestartFirst
    <3>2. events[watched + 1] # "fatal"
      <4>1. (watched + 1) - 1 = watched
        BY <1>2
      <4> QED BY <1>1, <2>1, <3>1, <4>1 DEF FatalExplained, RestartSeen
    <3>3. events[watched + 1] \in {"restart", "locked", "canceled"}
      BY <2>1, <3>2 DEF TypeOK
    <3>4. CASE events[watched + 1] = "restart"
      BY <2>1, <3>4 DEF WatchError
    <3>5. CASE events[watched + 1] \in {"locked", "canceled"}
      <4>1. watchOut' = "none"
        BY <2>1, <3>5 DEF WatchError
      <4>2. \A i \in 1..(watched + 1) : i \in 1..watched \/ i = watched + 1
        BY <1>2
      <4>3. ~RestartSeen(watched)'
        BY <2>1, <3>1, <3>5, <4>2 DEF RestartSeen
      <4> QED BY <4>1, <4>3
    <3> QED BY <3>3, <3>4, <3>5
  <2> QED BY <2>1, <2>2, <2>3
<1> QED BY <1>3, <1>4, <1>5, <1>6, <1>7, NextCases, ServiceStepFrame
        DEF vars, mainVars, watchVars, Ask, LockRefused, LockTakesOver, LockGranted, LockTimeout, SequenceDone,
            SequenceCanceled, SequenceFails, SequenceRestarts, SequenceReboots, Unlock, MainCalls, RuntimeFails,
            RuntimeEnds

LEMMA EndsInOrderStep == TypeOK /\ EndsInOrder /\ [Next]_vars => EndsInOrder'
<1> SUFFICES ASSUME TypeOK, EndsInOrder, [Next]_vars PROVE EndsInOrder'
  OBVIOUS
<1>1. CASE main' = main /\ ctl' = ctl
  BY <1>1 DEF EndsInOrder
<1>2. CASE MainGoesOn
  BY <1>2 DEF MainGoesOn, AfterRun, EndsInOrder
<1>3. CASE MainWatches \/ MainReceives \/ MainShutsDown \/ MainHangs \/ MainCancels \/ MainWaits \/ Handle
  BY <1>3 DEF MainWatches, MainReceives, MainShutsDown, MainHangs, MainCancels, MainWaits, Handle, EndsInOrder
<1>4. CASE RuntimeFails \/ RuntimeEnds
  BY <1>4 DEF RuntimeFails, RuntimeEnds, EndsInOrder, mainVars
<1> QED BY <1>1, <1>2, <1>3, <1>4, NextCases, ServiceStepFrame
        DEF vars, mainVars, Ask, LockRefused, LockTakesOver, LockGranted, LockTimeout, SequenceDone,
            SequenceCanceled, SequenceFails, SequenceRestarts, SequenceReboots, Unlock, MainCalls, WatchEvent

-----------------------------------------------------------------------------
(* The inductive invariant: the properties of main need all of its parts.   *)
THEOREM MainInvariant == Spec => []MainInv
<1>1. MainInv /\ [Next]_vars => MainInv'
  BY TypeStep, OneSequenceStep, RequestsRealStep, WatchOnceStep, FatalExplainedStep, RestartFirstStep, EndsInOrderStep DEF MainInv
<1> QED BY MainInvInit, <1>1, PTL DEF Spec

(* handle reverts the boot loader, once main watches for events, only when  *)
(* a sequence or the controller runtime failed, whoever asked for what: the *)
(* RestartEvent always comes to the watch before the fatal event of the     *)
(* RebootError does.                                                        *)
THEOREM RevertsOnlyFailures == Spec => []WatchRevertsOnlyFailures
<1>1. MainInv => WatchRevertsOnlyFailures
  BY DEF MainInv, WatchOnce, RestartFirst, RestartSeen, Returning, WatchRevertsOnlyFailures
<1> QED BY <1>1, MainInvariant, PTL

(* The deferred calls of runEntrypoint: the machine is not rebooted before  *)
(* the goroutine of the controller runtime has ended.                       *)
THEOREM ControllersEndBeforeReboot == Spec => []ControllersEndFirst
<1>1. MainInv => ControllersEndFirst
  BY DEF MainInv, EndsInOrder, ControllersEndFirst
<1> QED BY <1>1, MainInvariant, PTL

(* No two calls of Controller.Run are in a sequence at the same time, and   *)
(* the deferred Unlock gives back a lock that its own call has.             *)
THEOREM SequencesExclude == Spec => []OneSequence
<1>1. MainInv => OneSequence
  BY DEF MainInv
<1> QED BY <1>1, MainInvariant, PTL

(* The definitions of TakeOver mean the same in the lock's specification. *)
LEMMA SameRequests ==
  /\ TheLock!AnyRequest = AnyRequest
  /\ TheLock!NoRequest = NoRequest
  /\ TheLock!Sequences = Sequences
  /\ \A r \in AnyRequest, s \in Sequences \union {Noop} : TheLock!MayRun(r, s) <=> MayRun(r, s)
<1>1. TheLock!Sequences = Sequences /\ TheLock!Noop = Noop
  BY DEF TheLock!Sequences, TheLock!Noop, Sequences, Noop
<1>2. TheLock!sequenceTakeOver = sequenceTakeOver
  BY DEF TheLock!sequenceTakeOver, TheLock!Sequences, sequenceTakeOver, Sequences
<1> QED
  BY <1>1, <1>2
     DEF TheLock!AnyRequest, TheLock!NoRequest, TheLock!Request, TheLock!MayRun,
         TheLock!CanTakeOver, AnyRequest, NoRequest, Request, MayRun, CanTakeOver

(* All of machined uses the lock as SequenceLockSpec has it, which          *)
(* PriorityLock implements: a process asks when it neither waits nor runs,  *)
(* a running sequence is cancelled only by a request that waits in Lock at  *)
(* that moment and may interrupt it, and the deferred Unlock of each call   *)
(* of Controller.Run gives back a lock that this call holds.                *)
THEOREM UsesTheLock == Spec => TheLock!LockSpec
<1>1. Init => TheLock!SpecInit
  BY SameRequests DEF Init, LockInit, Waiting, TheLock!SpecInit, TheLock!LockInit
<1>2. MainInv /\ [Next]_vars => [TheLock!LockNext]_(TheLock!specState)
  <2> SUFFICES ASSUME MainInv, [Next]_vars PROVE TheLock!LockNext \/ UNCHANGED TheLock!specState
    OBVIOUS
  <2> USE MainAssumption DEF Goto
  <2>typed. pc \in [Procs -> {"idle", "lock", "await", "sequence", "restart", "unlock", "returned"}]
            /\ req \in [Procs -> AnyRequest] /\ held \in AnyRequest
    BY DEF MainInv, TypeOK
  <2>waits. ASSUME NEW p \in Procs, pc[p] \in {"lock", "await"}
            PROVE  TheLock!Waits(p) /\ Waiting[p] = req[p]
    <3>1. NoRequest.seq = Noop
      BY DEF NoRequest, Request
    <3> QED
      BY <2>waits, <3>1, SameRequests DEF MainInv, RequestsReal, Waiting, TheLock!Waits
  <2>same. ASSUME NEW p \in Procs, NEW l, req' = req, pc' = [pc EXCEPT ![p] = l],
                  l \in {"lock", "await"} <=> pc[p] \in {"lock", "await"}
           PROVE  Waiting' = Waiting
    BY <2>same, <2>typed DEF Waiting
  <2>done. ASSUME NEW p \in Procs, NEW l, req' = req, pc' = [pc EXCEPT ![p] = l],
                  l \notin {"lock", "await"}
           PROVE  Waiting' = [Waiting EXCEPT ![p] = NoRequest]
    BY <2>done, <2>typed DEF Waiting
  <2>1. ASSUME NEW p \in Procs, NEW r \in AnyRequest, r.seq \in Sequences, Call(p, r)
        PROVE  TheLock!LockNext
    <3>1. p \notin holder /\ ~TheLock!Waits(p)
      BY <2>1, SameRequests DEF Call, MainInv, OneSequence, Locked, Waiting, TheLock!Waits
    <3>2. Waiting' = [Waiting EXCEPT ![p] = r]
      BY <2>1, <2>typed DEF Call, Waiting
    <3>3. TheLock!AsksFor(p, r)
      BY <2>1, <3>1, <3>2, SameRequests DEF Call, lockState, TheLock!AsksFor, TheLock!lockState
    <3> QED BY <3>3, SameRequests DEF TheLock!LockNext
  <2>2. CASE \E p \in Callers : Ask(p)
    <3>0. PICK p \in Callers : Ask(p)
      BY <2>2
    <3>1. PICK r \in Asks[p] : Call(p, r)
      BY <3>0 DEF Ask
    <3>2. p \in Procs /\ r \in AnyRequest /\ r.seq \in Sequences
      BY <3>1 DEF Callers, AnyRequest
    <3> QED BY <2>1, <3>1, <3>2
  <2>3. CASE MainCalls
    <3>1. Request(main, FALSE) \in AnyRequest /\ Request(main, FALSE).seq \in Sequences
      BY <2>3, RequestTypes DEF MainCalls, Request
    <3> QED BY <2>1, <2>3, <3>1 DEF MainCalls
  <2>4. ASSUME NEW p \in Procs, LockRefused(p) \/ LockTimeout(p) PROVE TheLock!GivesUp(p)
    <3>1. Waiting' = [Waiting EXCEPT ![p] = NoRequest] /\ UNCHANGED lockState
      BY <2>4, <2>done DEF LockRefused, LockTimeout
    <3> QED BY <2>4, <2>waits, <3>1, SameRequests
            DEF LockRefused, LockTimeout, lockState, TheLock!GivesUp, TheLock!lockState
  <2>5. ASSUME NEW p \in Procs, LockTakesOver(p) PROVE TheLock!Interrupts(p)
    <3>1. Waiting' = Waiting
      BY <2>5, <2>same DEF LockTakesOver
    <3>2. TheLock!Waits(p) /\ Waiting[p] = req[p]
      BY <2>5, <2>waits DEF LockTakesOver
    <3>3. held.seq \in Sequences \union {Noop}
      BY <2>typed DEF AnyRequest
    <3>4. TheLock!MayRun(Waiting[p], held.seq)
      BY <2>5, <2>typed, <3>2, <3>3, SameRequests DEF LockTakesOver, Revoke
    <3> QED BY <2>5, <3>1, <3>2, <3>4
            DEF LockTakesOver, Revoke, Free, TheLock!Interrupts, TheLock!Revoke, TheLock!Free
  <2>6. ASSUME NEW p \in Procs, LockGranted(p) PROVE TheLock!Takes(p)
    <3>1. Waiting' = [Waiting EXCEPT ![p] = NoRequest]
      BY <2>6, <2>done DEF LockGranted
    <3>2. TheLock!Waits(p) /\ Waiting[p] = req[p]
      BY <2>6, <2>waits DEF LockGranted
    <3> QED BY <2>6, <3>1, <3>2, SameRequests
            DEF LockGranted, Grant, Free, TheLock!Takes, TheLock!Grant, TheLock!Free
  <2>7. ASSUME NEW p \in Procs, Unlock(p) PROVE TheLock!GivesBack(p)
    <3>1. Waiting' = Waiting
      BY <2>7, <2>same DEF Unlock
    <3>2. holder = {p}
      BY <2>7 DEF Unlock, MainInv, OneSequence, Locked
    <3> QED BY <2>7, <3>1, <3>2, SameRequests
            DEF Unlock, Release, Free, TheLock!GivesBack, TheLock!Release, TheLock!Free
  <2>8. ASSUME NEW p \in Procs,
               \/ SequenceDone(p) \/ SequenceCanceled(p) \/ SequenceFails(p)
               \/ SequenceRestarts(p) \/ SequenceReboots(p)
        PROVE  UNCHANGED TheLock!specState
    <3>1. Waiting' = Waiting
      BY <2>8, <2>same DEF SequenceDone, SequenceCanceled, SequenceFails, SequenceRestarts, SequenceReboots
    <3> QED BY <2>8, <3>1
            DEF SequenceDone, SequenceCanceled, SequenceFails, SequenceRestarts, SequenceReboots, lockState,
                TheLock!specState, TheLock!lockState
  <2>9. CASE MainGoesOn
    <3>1. Waiting' = Waiting
      BY <2>9, <2>same DEF MainGoesOn
    <3> QED BY <2>9, <3>1 DEF MainGoesOn, lockState, TheLock!specState, TheLock!lockState
  <2>10. CASE UNCHANGED runVars
    BY <2>10 DEF runVars, lockState, Waiting, TheLock!specState, TheLock!lockState
  <2>11. TypeOK
    BY DEF MainInv
  <2> QED BY <2>2, <2>3, <2>4, <2>5, <2>6, <2>7, <2>8, <2>9, <2>10, <2>11, NextCases, ServiceStepFrame
          DEF vars, MainWatches, MainReceives, MainShutsDown, MainHangs, MainCancels, MainWaits, Handle,
              WatchEvent, RuntimeFails, RuntimeEnds, TheLock!LockNext
<1> QED BY <1>1, <1>2, MainInvariant, PTL DEF Spec, TheLock!LockSpec
=============================================================================
