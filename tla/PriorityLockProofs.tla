------------------------- MODULE PriorityLockProofs -------------------------
(***************************************************************************)
(* The safety properties of PriorityLock for any set of callers, any       *)
(* requests and any number of calls.                                       *)
(*                                                                         *)
(* OneSequence and OneLiveContext are not inductive as they stand.  The    *)
(* invariant LockInv adds where the tokens are (stated without counting:   *)
(* a channel is full exactly when nobody is in the section it guards),     *)
(* what the lock's two fields hold at each control point of the holder,    *)
(* and what a contender's copy of the cancel function can be.              *)
(***************************************************************************)
EXTENDS PriorityLock, FiniteSetTheorems, TLAPS

(* The two sections are exclusive and their channels say whether they are   *)
(* occupied: the counting-free form of TokensConserved.                     *)
SectionsExclusive ==
  /\ \A p, q \in Procs : pc[p] \in HasToken /\ pc[q] \in HasToken => p = q
  /\ \A p, q \in Procs : pc[p] \in InTakeover /\ pc[q] \in InTakeover => p = q
  /\ runningCh = 1 <=> \A p \in Procs : pc[p] \notin HasToken
  /\ takeoverCh = 0 <=> \A p \in Procs : pc[p] \notin InTakeover

(* The fields of the lock, by where the holder of the running token is. *)
FieldsMatchHolder ==
  /\ \A p \in Procs :
       pc[p] \in {"leave", "running", "unlock"} =>
         /\ runningPriority = req[p].seq
         /\ cancelCtx = ctx[p]
         /\ ctx[p] \in 1..nctx
  /\ (\A p \in Procs : pc[p] \notin {"leave", "running", "unlock"}) =>
         runningPriority = Noop /\ cancelCtx = NoCancel

(* Only the installed cancel function may belong to a live context. *)
LiveIsInstalled == \A c \in 1..nctx : c \notin cancelled => c = cancelCtx

(* A contender about to call the cancel function it read was entitled to   *)
(* interrupt the context that function belongs to, if it is still running. *)
SeenByRight ==
  \A q \in Procs : pc[q] = "cancel" =>
    \A p \in Procs : pc[p] \in {"leave", "running", "unlock"} /\ ctx[p] = seen[q] =>
      p # q /\ MayRun(req[q], req[p].seq)

(* A process asks only for a sequence, never for noop. *)
RequestsReal == \A p \in Procs : pc[p] # "idle" => req[p].seq # Noop

LockInv ==
  /\ TypeOK
  /\ SectionsExclusive
  /\ FieldsMatchHolder
  /\ LiveIsInstalled
  /\ SeenByRight
  /\ RequestsReal

-----------------------------------------------------------------------------
(* Calling a cancel function, nil or not, keeps the cancelled contexts      *)
(* among the created ones.                                                  *)
LEMMA CancelTyped ==
  ASSUME TypeOK, NEW c \in 0..nctx, CancelContext(c)
  PROVE  cancelled' \subseteq 1..nctx
BY DEF TypeOK, CancelContext, NoCancel

(* The type invariant: every variable of the lock and of its callers stays  *)
(* in its range whatever Lock and Unlock do.                                *)
THEOREM TypeCorrect == Spec => []TypeOK
<1>1. Init => TypeOK
  BY MaxCallsAssumption DEF Init, TypeOK, PCs, Results, AnyRequest, NoCancel
<1>2. TypeOK /\ [Next]_vars => TypeOK'
  <2> SUFFICES ASSUME TypeOK, [Next]_vars PROVE TypeOK'
    OBVIOUS
  <2> USE MaxCallsAssumption, RequestsAssumption
      DEF TypeOK, PCs, Results, AnyRequest, NoCancel, Goto, lockVars
  <2>1. CASE UNCHANGED vars
    BY <2>1 DEF vars, procVars
  <2>2. ASSUME NEW p \in Procs, NEW r \in Requests, Call(p, r) PROVE TypeOK'
    BY <2>2 DEF Call
  <2>3. ASSUME NEW p \in Procs, EnterTakeover(p) PROVE TypeOK'
    BY <2>3 DEF EnterTakeover
  <2>4. ASSUME NEW p \in Procs, CheckPriority(p) PROVE TypeOK'
    BY <2>4 DEF CheckPriority
  <2>5. ASSUME NEW p \in Procs, CancelRunning(p) PROVE TypeOK'
    <3>1. cancelled' \subseteq 1..nctx
      BY <2>5, CancelTyped DEF CancelRunning
    <3> QED
      BY <2>5, <3>1 DEF CancelRunning
  <2>6. ASSUME NEW p \in Procs, ReceiveToken(p) PROVE TypeOK'
    BY <2>6 DEF ReceiveToken
  <2>7. ASSUME NEW p \in Procs, InstallPriority(p) PROVE TypeOK'
    <3>1. cancelled' \subseteq 1..nctx
      BY <2>7, CancelTyped DEF InstallPriority, SetRunningPriority
    <3>2. /\ nctx' \in Nat
          /\ cancelCtx' \in 0..nctx'
          /\ 0..nctx \subseteq 0..nctx'
          /\ 1..nctx \subseteq 1..nctx'
      BY <2>7 DEF InstallPriority, SetRunningPriority
    <3>3. seen' \in [Procs -> 0..nctx'] /\ ctx' \in [Procs -> 0..nctx']
      BY <2>7, <3>2 DEF InstallPriority
    <3> QED
      BY <2>7, <3>1, <3>2, <3>3 DEF InstallPriority, SetRunningPriority
  <2>8. ASSUME NEW p \in Procs, LeaveTakeover(p) PROVE TypeOK'
    <3>1. takeoverCh' \in 0..1
      BY <2>8 DEF LeaveTakeover
    <3>2. CASE Goto(p, "leave", "running") /\ result' = [result EXCEPT ![p] = "granted"]
      BY <2>8, <3>1, <3>2 DEF LeaveTakeover
    <3>3. CASE Goto(p, "refused", "idle") /\ result' = [result EXCEPT ![p] = "errLocked"]
      BY <2>8, <3>1, <3>3 DEF LeaveTakeover
    <3>4. CASE Goto(p, "timedOut", "idle") /\ result' = [result EXCEPT ![p] = "timeout"]
      BY <2>8, <3>1, <3>4 DEF LeaveTakeover
    <3> QED
      BY <2>8, <3>2, <3>3, <3>4 DEF LeaveTakeover
  <2>9. ASSUME NEW p \in Procs, TimerStep(p) PROVE TypeOK'
    BY <2>9 DEF TimerStep, EnterTimeout, AwaitTimeout
  <2>10. ASSUME NEW p \in Procs, SequenceEnds(p) PROVE TypeOK'
    BY <2>10 DEF SequenceEnds
  <2>11. ASSUME NEW p \in Procs, ResetPriority(p) PROVE TypeOK'
    <3>1. cancelled' \subseteq 1..nctx
      BY <2>11, CancelTyped DEF ResetPriority, SetRunningPriority
    <3> QED
      BY <2>11, <3>1 DEF ResetPriority, SetRunningPriority
  <2>12. ASSUME NEW p \in Procs, SendToken(p) PROVE TypeOK'
    BY <2>12 DEF SendToken
  <2> QED
    BY <2>1, <2>2, <2>3, <2>4, <2>5, <2>6, <2>7, <2>8, <2>9, <2>10, <2>11, <2>12
       DEF Next, Finished, LockStep, UnlockStep
<1> QED
  BY <1>1, <1>2, PTL DEF Spec

-----------------------------------------------------------------------------
(* The inductive step of LockInv, the typing part apart: every action of    *)
(* Lock, of the sequence and of Unlock preserves each conjunct.             *)
LEMMA LockInvStep ==
  ASSUME LockInv, TypeOK', [Next]_vars
  PROVE  LockInv'
<1> USE DEF LockInv, TypeOK, PCs, HasToken, InTakeover, Goto, lockVars
<1>1. CASE UNCHANGED vars
  BY <1>1 DEF vars, procVars, SectionsExclusive, FieldsMatchHolder, LiveIsInstalled,
              SeenByRight, RequestsReal, MayRun
<1>2. ASSUME NEW p \in Procs, NEW r \in Requests, Call(p, r) PROVE LockInv'
  <2>1. SectionsExclusive'
    BY <1>2 DEF Call, SectionsExclusive, Noop, Sequences
  <2>2. FieldsMatchHolder'
    BY <1>2 DEF Call, SectionsExclusive, FieldsMatchHolder, NoCancel, Noop, Sequences
  <2>3. LiveIsInstalled'
    BY <1>2 DEF Call, SectionsExclusive, FieldsMatchHolder, LiveIsInstalled, RequestsReal, NoCancel, Noop, Sequences
  <2>4. SeenByRight'
    BY <1>2 DEF Call, SectionsExclusive, FieldsMatchHolder, SeenByRight, MayRun, NoCancel, Noop, Sequences
  <2>5. RequestsReal'
    BY <1>2, RequestsAssumption DEF Call, RequestsReal, Noop, Sequences
  <2> QED
    BY <2>1, <2>2, <2>3, <2>4, <2>5
<1>3. ASSUME NEW p \in Procs, EnterTakeover(p) PROVE LockInv'
  <2>1. SectionsExclusive'
    BY <1>3 DEF EnterTakeover, SectionsExclusive
  <2>2. FieldsMatchHolder'
    BY <1>3 DEF EnterTakeover, SectionsExclusive, FieldsMatchHolder, NoCancel
  <2>3. LiveIsInstalled'
    BY <1>3 DEF EnterTakeover, SectionsExclusive, FieldsMatchHolder, LiveIsInstalled, RequestsReal, NoCancel
  <2>4. SeenByRight'
    BY <1>3 DEF EnterTakeover, SectionsExclusive, FieldsMatchHolder, SeenByRight, MayRun, NoCancel
  <2>5. RequestsReal'
    BY <1>3 DEF EnterTakeover, RequestsReal
  <2> QED
    BY <2>1, <2>2, <2>3, <2>4, <2>5
<1>4. ASSUME NEW p \in Procs, EnterTimeout(p) PROVE LockInv'
  <2>1. SectionsExclusive'
    BY <1>4 DEF EnterTimeout, SectionsExclusive
  <2>2. FieldsMatchHolder'
    BY <1>4 DEF EnterTimeout, SectionsExclusive, FieldsMatchHolder, NoCancel
  <2>3. LiveIsInstalled'
    BY <1>4 DEF EnterTimeout, SectionsExclusive, FieldsMatchHolder, LiveIsInstalled, RequestsReal, NoCancel
  <2>4. SeenByRight'
    BY <1>4 DEF EnterTimeout, SectionsExclusive, FieldsMatchHolder, SeenByRight, MayRun, NoCancel
  <2>5. RequestsReal'
    BY <1>4 DEF EnterTimeout, RequestsReal
  <2> QED
    BY <2>1, <2>2, <2>3, <2>4, <2>5
<1>5. ASSUME NEW p \in Procs, CheckPriority(p) PROVE LockInv'
  <2>1. SectionsExclusive'
    BY <1>5 DEF CheckPriority, SectionsExclusive
  <2>2. FieldsMatchHolder'
    BY <1>5 DEF CheckPriority, SectionsExclusive, FieldsMatchHolder, NoCancel
  <2>3. LiveIsInstalled'
    BY <1>5 DEF CheckPriority, SectionsExclusive, FieldsMatchHolder, LiveIsInstalled, RequestsReal, NoCancel
  <2>4. SeenByRight'
    BY <1>5 DEF CheckPriority, SectionsExclusive, FieldsMatchHolder, SeenByRight, MayRun, NoCancel
  <2>5. RequestsReal'
    BY <1>5 DEF CheckPriority, RequestsReal
  <2> QED
    BY <2>1, <2>2, <2>3, <2>4, <2>5
<1>6. ASSUME NEW p \in Procs, CancelRunning(p) PROVE LockInv'
  <2>1. SectionsExclusive'
    BY <1>6 DEF CancelRunning, SectionsExclusive, CancelContext
  <2>2. FieldsMatchHolder'
    BY <1>6 DEF CancelRunning, SectionsExclusive, FieldsMatchHolder, NoCancel, CancelContext
  <2>3. LiveIsInstalled'
    BY <1>6 DEF CancelRunning, SectionsExclusive, FieldsMatchHolder, LiveIsInstalled, RequestsReal, NoCancel, CancelContext
  <2>4. SeenByRight'
    BY <1>6 DEF CancelRunning, SectionsExclusive, FieldsMatchHolder, SeenByRight, MayRun, NoCancel, CancelContext
  <2>5. RequestsReal'
    BY <1>6 DEF CancelRunning, RequestsReal, CancelContext
  <2> QED
    BY <2>1, <2>2, <2>3, <2>4, <2>5
<1>7. ASSUME NEW p \in Procs, ReceiveToken(p) PROVE LockInv'
  <2>1. SectionsExclusive'
    BY <1>7 DEF ReceiveToken, SectionsExclusive
  <2>2. FieldsMatchHolder'
    BY <1>7 DEF ReceiveToken, SectionsExclusive, FieldsMatchHolder, NoCancel
  <2>3. LiveIsInstalled'
    BY <1>7 DEF ReceiveToken, SectionsExclusive, FieldsMatchHolder, LiveIsInstalled, RequestsReal, NoCancel
  <2>4. SeenByRight'
    BY <1>7 DEF ReceiveToken, SectionsExclusive, FieldsMatchHolder, SeenByRight, MayRun, NoCancel
  <2>5. RequestsReal'
    BY <1>7 DEF ReceiveToken, RequestsReal
  <2> QED
    BY <2>1, <2>2, <2>3, <2>4, <2>5
<1>8. ASSUME NEW p \in Procs, AwaitTimeout(p) PROVE LockInv'
  <2>1. SectionsExclusive'
    BY <1>8 DEF AwaitTimeout, SectionsExclusive
  <2>2. FieldsMatchHolder'
    BY <1>8 DEF AwaitTimeout, SectionsExclusive, FieldsMatchHolder, NoCancel
  <2>3. LiveIsInstalled'
    BY <1>8 DEF AwaitTimeout, SectionsExclusive, FieldsMatchHolder, LiveIsInstalled, RequestsReal, NoCancel
  <2>4. SeenByRight'
    BY <1>8 DEF AwaitTimeout, SectionsExclusive, FieldsMatchHolder, SeenByRight, MayRun, NoCancel
  <2>5. RequestsReal'
    BY <1>8 DEF AwaitTimeout, RequestsReal
  <2> QED
    BY <2>1, <2>2, <2>3, <2>4, <2>5
<1>9. ASSUME NEW p \in Procs, InstallPriority(p) PROVE LockInv'
  <2>1. SectionsExclusive'
    BY <1>9 DEF InstallPriority, SectionsExclusive, SetRunningPriority
  <2>2. FieldsMatchHolder'
    BY <1>9 DEF InstallPriority, SectionsExclusive, FieldsMatchHolder, NoCancel, SetRunningPriority
  <2>3. LiveIsInstalled'
    BY <1>9 DEF InstallPriority, SectionsExclusive, FieldsMatchHolder, LiveIsInstalled, RequestsReal, NoCancel, SetRunningPriority
  <2>4. SeenByRight'
    BY <1>9 DEF InstallPriority, SectionsExclusive, FieldsMatchHolder, SeenByRight, MayRun, NoCancel, SetRunningPriority
  <2>5. RequestsReal'
    BY <1>9 DEF InstallPriority, RequestsReal, SetRunningPriority
  <2> QED
    BY <2>1, <2>2, <2>3, <2>4, <2>5
<1>10. ASSUME NEW p \in Procs, LeaveTakeover(p) PROVE LockInv'
  <2>1. SectionsExclusive'
    BY <1>10 DEF LeaveTakeover, SectionsExclusive
  <2>2. FieldsMatchHolder'
    BY <1>10 DEF LeaveTakeover, SectionsExclusive, FieldsMatchHolder, NoCancel
  <2>3. LiveIsInstalled'
    BY <1>10 DEF LeaveTakeover, SectionsExclusive, FieldsMatchHolder, LiveIsInstalled, RequestsReal, NoCancel
  <2>4. SeenByRight'
    BY <1>10 DEF LeaveTakeover, SectionsExclusive, FieldsMatchHolder, SeenByRight, MayRun, NoCancel
  <2>5. RequestsReal'
    BY <1>10 DEF LeaveTakeover, RequestsReal
  <2> QED
    BY <2>1, <2>2, <2>3, <2>4, <2>5
<1>11. ASSUME NEW p \in Procs, SequenceEnds(p) PROVE LockInv'
  <2>1. SectionsExclusive'
    BY <1>11 DEF SequenceEnds, SectionsExclusive
  <2>2. FieldsMatchHolder'
    BY <1>11 DEF SequenceEnds, SectionsExclusive, FieldsMatchHolder, NoCancel
  <2>3. LiveIsInstalled'
    BY <1>11 DEF SequenceEnds, SectionsExclusive, FieldsMatchHolder, LiveIsInstalled, RequestsReal, NoCancel
  <2>4. SeenByRight'
    BY <1>11 DEF SequenceEnds, SectionsExclusive, FieldsMatchHolder, SeenByRight, MayRun, NoCancel
  <2>5. RequestsReal'
    BY <1>11 DEF SequenceEnds, RequestsReal
  <2> QED
    BY <2>1, <2>2, <2>3, <2>4, <2>5
<1>12. ASSUME NEW p \in Procs, ResetPriority(p) PROVE LockInv'
  <2>1. SectionsExclusive'
    BY <1>12 DEF ResetPriority, SectionsExclusive, SetRunningPriority, CancelContext
  <2>2. FieldsMatchHolder'
    BY <1>12 DEF ResetPriority, SectionsExclusive, FieldsMatchHolder, NoCancel, SetRunningPriority, CancelContext
  <2>3. LiveIsInstalled'
    BY <1>12 DEF ResetPriority, SectionsExclusive, FieldsMatchHolder, LiveIsInstalled, RequestsReal, NoCancel, SetRunningPriority, CancelContext
  <2>4. SeenByRight'
    BY <1>12 DEF ResetPriority, SectionsExclusive, FieldsMatchHolder, SeenByRight, MayRun, NoCancel, SetRunningPriority, CancelContext
  <2>5. RequestsReal'
    BY <1>12 DEF ResetPriority, RequestsReal, SetRunningPriority, CancelContext
  <2> QED
    BY <2>1, <2>2, <2>3, <2>4, <2>5
<1>13. ASSUME NEW p \in Procs, SendToken(p) PROVE LockInv'
  <2>1. SectionsExclusive'
    BY <1>13 DEF SendToken, SectionsExclusive
  <2>2. FieldsMatchHolder'
    BY <1>13 DEF SendToken, SectionsExclusive, FieldsMatchHolder, NoCancel
  <2>3. LiveIsInstalled'
    BY <1>13 DEF SendToken, SectionsExclusive, FieldsMatchHolder, LiveIsInstalled, RequestsReal, NoCancel
  <2>4. SeenByRight'
    BY <1>13 DEF SendToken, SectionsExclusive, FieldsMatchHolder, SeenByRight, MayRun, NoCancel
  <2>5. RequestsReal'
    BY <1>13 DEF SendToken, RequestsReal
  <2> QED
    BY <2>1, <2>2, <2>3, <2>4, <2>5
<1> QED
  BY <1>1, <1>2, <1>3, <1>4, <1>5, <1>6, <1>7, <1>8, <1>9, <1>10, <1>11, <1>12, <1>13
     DEF Next, Finished, LockStep, TimerStep, UnlockStep

-----------------------------------------------------------------------------
(* LockInv holds throughout: Init establishes it and every step keeps it.   *)
LEMMA LockInvariant == Spec => []LockInv
<1>1. Init => LockInv
  BY MaxCallsAssumption
     DEF Init, LockInv, TypeOK, PCs, Results, AnyRequest, NoCancel, HasToken, InTakeover,
         SectionsExclusive, FieldsMatchHolder, LiveIsInstalled, SeenByRight, RequestsReal
<1> QED
  BY <1>1, TypeCorrect, LockInvStep, PTL DEF Spec

(* At most one process is between receiving the running token in Lock and   *)
(* sending it back in Unlock, for any number of callers.                    *)
THEOREM SequencesExclusive == Spec => []OneSequence
<1>1. LockInv => OneSequence
  BY DEF LockInv, SectionsExclusive, OneSequence
<1> QED
  BY <1>1, LockInvariant, PTL

(* A contender reads the priority and the cancel function of the sequence   *)
(* that is running, never those of an earlier one.                          *)
THEOREM PriorityNeverStale == Spec => []PriorityIsCurrent
<1>1. LockInv => PriorityIsCurrent
  BY DEF LockInv, FieldsMatchHolder, PriorityIsCurrent
<1> QED
  BY <1>1, LockInvariant, PTL

(* Every context Lock returned is cancelled, except the current holder's.   *)
THEOREM EarlierContextsCancelled == Spec => []OneLiveContext
<1>1. LockInv => OneLiveContext
  BY DEF LockInv, TypeOK, LiveIsInstalled, FieldsMatchHolder, OneLiveContext, HasToken, NoCancel
<1> QED
  BY <1>1, LockInvariant, PTL

(* A section with at most one process in it has cardinality 0 or 1. *)
LEMMA AtMostOne ==
  ASSUME NEW S, NEW P, S \subseteq P, \A x, y \in S : x = y
  PROVE  IF S = {} THEN Cardinality(S) = 0 ELSE Cardinality(S) = 1
<1>1. CASE S = {}
  BY <1>1, FS_EmptySet
<1>2. CASE S # {}
  <2>1. PICK x \in S : TRUE
    BY <1>2
  <2>2. S = {x}
    BY <2>1
  <2> QED
    BY <2>2, FS_Singleton
<1> QED
  BY <1>1, <1>2

(* No return path of Lock, and no end of a sequence, leaks or duplicates    *)
(* the token of either channel.                                             *)
THEOREM TokensNeverLeak == Spec => []TokensConserved
<1>1. LockInv => TokensConserved
  <2> SUFFICES ASSUME LockInv PROVE TokensConserved
    OBVIOUS
  <2> DEFINE T == {p \in Procs : pc[p] \in InTakeover}
             R == {p \in Procs : pc[p] \in HasToken}
  <2>1. \A x, y \in T : x = y
    BY DEF LockInv, SectionsExclusive
  <2>2. \A x, y \in R : x = y
    BY DEF LockInv, SectionsExclusive
  <2>3. takeoverCh = 0 <=> T = {}
    BY DEF LockInv, SectionsExclusive
  <2>4. runningCh = 1 <=> R = {}
    BY DEF LockInv, SectionsExclusive
  <2>5. takeoverCh = Cardinality(T)
    <3>1. takeoverCh \in 0..1
      BY DEF LockInv, TypeOK
    <3>2. IF T = {} THEN Cardinality(T) = 0 ELSE Cardinality(T) = 1
      BY <2>1, AtMostOne
    <3> HIDE DEF T
    <3> QED
      BY <2>3, <3>1, <3>2
  <2>6. runningCh = 1 - Cardinality(R)
    <3>1. runningCh \in 0..1
      BY DEF LockInv, TypeOK
    <3>2. IF R = {} THEN Cardinality(R) = 0 ELSE Cardinality(R) = 1
      BY <2>2, AtMostOne
    <3> HIDE DEF R
    <3> QED
      BY <2>4, <3>1, <3>2
  <2> QED
    BY <2>5, <2>6 DEF TokensConserved
<1> QED
  BY <1>1, LockInvariant, PTL

(* A running sequence is cancelled only by a request the table or           *)
(* WithTakeover entitles to it.                                             *)
THEOREM TakeoverNeedsRight == Spec => CancelledByRight
<1> DEFINE A == \A p \in Procs :
       pc[p] = "running" /\ ctx[p] \notin cancelled /\ ctx[p] \in cancelled' =>
         \E q \in Procs \ {p} : pc[q] = "cancel" /\ MayRun(req[q], req[p].seq)
<1>1. LockInv /\ [Next]_vars => [A]_vars
  <2> SUFFICES ASSUME LockInv, Next,
                      NEW p \in Procs,
                      pc[p] = "running", ctx[p] \notin cancelled, ctx[p] \in cancelled'
               PROVE  \E q \in Procs \ {p} : pc[q] = "cancel" /\ MayRun(req[q], req[p].seq)
    OBVIOUS
  <2>1. ASSUME NEW q \in Procs, CancelRunning(q)
        PROVE  q # p /\ pc[q] = "cancel" /\ MayRun(req[q], req[p].seq)
    <3>1. pc[q] = "cancel" /\ seen[q] = ctx[p]
      BY <2>1 DEF CancelRunning, CancelContext, Goto
    <3> QED
      BY <3>1 DEF LockInv, SeenByRight
  <2>2. ASSUME NEW q \in Procs, ResetPriority(q) PROVE FALSE
    BY <2>2 DEF ResetPriority, SetRunningPriority, CancelContext, Goto, HasToken,
                LockInv, SectionsExclusive, FieldsMatchHolder
  <2>3. ASSUME NEW q \in Procs, InstallPriority(q) PROVE FALSE
    BY <2>3 DEF InstallPriority, SetRunningPriority, Goto, LockInv, RequestsReal
  <2>4. \E q \in Procs : CancelRunning(q) \/ ResetPriority(q) \/ InstallPriority(q)
    <3>1. cancelled' # cancelled
      OBVIOUS
    <3> QED
      BY <3>1 DEF Next, Finished, LockStep, TimerStep, UnlockStep, Call, EnterTakeover,
                  EnterTimeout, CheckPriority, ReceiveToken, AwaitTimeout, LeaveTakeover,
                  SequenceEnds, SendToken, lockVars, vars
  <2> QED
    BY <2>1, <2>2, <2>3, <2>4
<1> QED
  BY <1>1, LockInvariant, PTL DEF Spec, CancelledByRight

-----------------------------------------------------------------------------
(* The holder is alone, and the request Held names is its request. *)
LEMMA HolderAlone ==
  ASSUME LockInv, NEW p \in Procs, p \in Holder
  PROVE  Holder = {p} /\ Held = req[p]
<1>1. Holder = {p}
  BY DEF LockInv, SectionsExclusive, Holder, HasToken
<1>2. (CHOOSE q \in Procs : q \in Holder) = p
  BY <1>1
<1> QED
  BY <1>1, <1>2 DEF Held

(* A step that moves nobody into or out of the holder's control points and  *)
(* leaves the holder's request alone does not change Held.                  *)
LEMMA HeldStays ==
  ASSUME LockInv, Holder' = Holder, \A p \in Holder : req'[p] = req[p]
  PROVE  Held' = Held
<1>1. CASE Holder = {}
  BY <1>1 DEF Held
<1>2. CASE Holder # {}
  <2> DEFINE h == CHOOSE q \in Procs : q \in Holder
  <2>1. h \in Holder
    BY <1>2 DEF Holder
  <2>2. Held = req[h]
    BY <1>2 DEF Held
  <2>3. Held' = req'[h]
    BY <1>2 DEF Held
  <2> QED
    BY <2>1, <2>2, <2>3
<1> QED
  BY <1>1, <1>2

(* A step of process p that leaves the requests of the others, and whether   *)
(* they wait, alone changes no entry of Waiting but its own.                *)
LEMMA WaitingStep ==
  ASSUME LockInv, NEW p \in Procs, NEW l \in PCs, NEW r \in AnyRequest,
         pc' = [pc EXCEPT ![p] = l], req' = [req EXCEPT ![p] = r]
  PROVE  Waiting' = [Waiting EXCEPT ![p] =
                       IF l \in {"takeover", "check", "cancel", "await", "install"}
                       THEN r ELSE NoRequest]
BY DEF LockInv, TypeOK, Waiting

(* A request under way is for a sequence, so it is not NoRequest. *)
LEMMA WaitingReal ==
  ASSUME LockInv, NEW p \in Procs,
         pc[p] \in {"takeover", "check", "cancel", "await", "install"}
  PROVE  Waiting[p] = req[p] /\ req[p] # NoRequest
<1>1. NoRequest.seq = Noop
  BY DEF NoRequest, Request
<1> QED
  BY <1>1 DEF LockInv, RequestsReal, Waiting

(* The definitions of TakeOver mean the same in the abstract lock. *)
LEMMA SameRequests ==
  /\ Abstract!AnyRequest = AnyRequest
  /\ Abstract!NoRequest = NoRequest
  /\ Abstract!Sequences = Sequences
  /\ \A r \in AnyRequest, s \in Sequences \union {Noop} : Abstract!MayRun(r, s) <=> MayRun(r, s)
<1>1. Abstract!Sequences = Sequences /\ Abstract!Noop = Noop
  BY DEF Abstract!Sequences, Abstract!Noop, Sequences, Noop
<1>2. Abstract!sequenceTakeOver = sequenceTakeOver
  BY DEF Abstract!sequenceTakeOver, Abstract!Sequences, sequenceTakeOver, Sequences
<1> QED
  BY <1>1, <1>2
     DEF Abstract!AnyRequest, Abstract!NoRequest, Abstract!Request, Abstract!MayRun,
         Abstract!CanTakeOver, AnyRequest, NoRequest, Request, MayRun, CanTakeOver

(* The priority lock implements the abstract lock: Lock's channels, timer   *)
(* and stale copies of cancel functions are invisible in the abstraction,   *)
(* and whoever cancels the running sequence is a request under way that may *)
(* interrupt it.                                                            *)
THEOREM LockRefinement == Spec => ImplementsSequenceLock
<1>1. Init => Abstract!SpecInit
  <2> SUFFICES ASSUME Init PROVE Abstract!SpecInit
    OBVIOUS
  <2>1. Holder = {} /\ Held = NoRequest /\ Revoked = FALSE
    BY DEF Init, Holder, Held, Revoked
  <2>2. Waiting = [p \in Procs |-> NoRequest]
    BY DEF Init, Waiting
  <2> QED
    BY <2>1, <2>2, SameRequests DEF Abstract!SpecInit, Abstract!LockInit
<1>2. LockInv /\ LockInv' /\ [Next]_vars => [Abstract!LockNext]_(Abstract!specState)
  <2> SUFFICES ASSUME LockInv, LockInv', [Next]_vars
               PROVE  Abstract!LockNext \/ UNCHANGED Abstract!specState
    OBVIOUS
  <2> USE DEF Goto, lockVars
  <2>typed. pc \in [Procs -> PCs] /\ req \in [Procs -> AnyRequest]
    BY DEF LockInv, TypeOK
  <2>waits. ASSUME NEW p \in Procs,
                   pc[p] \in {"takeover", "check", "cancel", "await", "install"}
            PROVE  Abstract!Waits(p)
    BY <2>waits, WaitingReal, SameRequests DEF Abstract!Waits
  <2>lock. ASSUME Holder' = Holder, \A p \in Holder : req'[p] = req[p],
                  cancelCtx' = cancelCtx, cancelled' = cancelled
           PROVE  UNCHANGED Abstract!lockState
    BY <2>lock, HeldStays DEF Revoked, Abstract!lockState
  <2>same. ASSUME NEW p \in Procs, req' = req, \E l \in PCs : pc' = [pc EXCEPT ![p] = l],
                  pc'[p] \in {"takeover", "check", "cancel", "await", "install"} <=>
                    pc[p] \in {"takeover", "check", "cancel", "await", "install"}
           PROVE  Waiting' = Waiting
    BY <2>same, <2>typed DEF Waiting
  <2>1. CASE UNCHANGED vars
    BY <2>1, <2>lock DEF vars, procVars, Holder, Waiting, Abstract!specState
  <2>2. ASSUME NEW p \in Procs, NEW r \in Requests, Call(p, r)
        PROVE  Abstract!AsksFor(p, r) /\ r \in Abstract!AnyRequest
    <3>1. r \in AnyRequest /\ r.seq \in Sequences
      BY RequestsAssumption DEF AnyRequest
    <3>2. UNCHANGED Abstract!lockState
      BY <2>2, <2>lock, <2>typed DEF Call, Holder
    <3>3. Waiting' = [Waiting EXCEPT ![p] = r]
      BY <2>2, <3>1, WaitingStep DEF Call, PCs
    <3>4. p \notin Holder /\ ~Abstract!Waits(p)
      BY <2>2, SameRequests DEF Call, Holder, Waiting, Abstract!Waits
    <3> QED
      BY <3>1, <3>2, <3>3, <3>4, SameRequests DEF Abstract!AsksFor
  <2>3. ASSUME NEW p \in Procs, EnterTakeover(p) \/ ReceiveToken(p)
        PROVE  UNCHANGED Abstract!specState
    BY <2>3, <2>lock, <2>same, <2>typed
       DEF EnterTakeover, ReceiveToken, Holder, PCs, Abstract!specState
  <2>4. ASSUME NEW p \in Procs, LeaveTakeover(p) \/ SequenceEnds(p) \/ SendToken(p)
        PROVE  UNCHANGED Abstract!specState
    <3>1. UNCHANGED Abstract!lockState
      BY <2>4, <2>lock, <2>typed DEF LeaveTakeover, SequenceEnds, SendToken, Holder
    <3>2. Waiting' = Waiting
      BY <2>4, <2>same, <2>typed DEF LeaveTakeover, SequenceEnds, SendToken, PCs
    <3> QED
      BY <3>1, <3>2 DEF Abstract!specState
  <2>5. ASSUME NEW q \in Procs, CancelRunning(q)
        PROVE  Abstract!LockNext \/ UNCHANGED Abstract!specState
    <3>1. Holder' = Holder /\ req' = req /\ cancelCtx' = cancelCtx
      BY <2>5, <2>typed DEF CancelRunning, Holder
    <3>2. Held' = Held
      BY <3>1, HeldStays
    <3>w. Waiting' = Waiting
      BY <2>5, <2>same, <2>typed DEF CancelRunning, PCs
    <3>3. CASE Revoked' = Revoked
      BY <3>1, <3>2, <3>3, <3>w DEF Abstract!specState, Abstract!lockState
    <3>4. CASE Revoked' # Revoked
      <4>1. Holder # {} /\ cancelCtx \notin cancelled /\ cancelCtx \in cancelled'
        BY <2>5, <3>1, <3>4 DEF Revoked, CancelRunning, CancelContext
      <4>2. PICK p \in Procs : p \in Holder
        BY <4>1 DEF Holder
      <4>3. pc[q] = "cancel" /\ seen[q] = cancelCtx
        BY <2>5, <4>1 DEF CancelRunning, CancelContext
      <4>4. cancelCtx = ctx[p]
        BY <4>2 DEF LockInv, FieldsMatchHolder, Holder
      <4>5. MayRun(req[q], req[p].seq)
        BY <4>2, <4>3, <4>4 DEF LockInv, SeenByRight, Holder
      <4>6. Held = req[p]
        BY <4>2, HolderAlone
      <4>7. Revoked' = TRUE
        BY <3>1, <4>1 DEF Revoked
      <4>8. Abstract!MayRun(Waiting[q], Held.seq)
        <5>1. req[p].seq \in Sequences \union {Noop}
          BY <2>typed DEF AnyRequest
        <5> QED
          BY <2>typed, <4>3, <4>5, <4>6, <5>1, SameRequests, WaitingReal
      <4>9. Abstract!Interrupts(q)
        BY <2>waits, <3>1, <3>2, <3>w, <4>1, <4>3, <4>7, <4>8
           DEF Abstract!Interrupts, Abstract!Revoke, Abstract!Free
      <4> QED
        BY <4>9 DEF Abstract!LockNext
    <3> QED
      BY <3>3, <3>4
  <2>6. ASSUME NEW p \in Procs, InstallPriority(p)
        PROVE  Abstract!Takes(p)
    <3>1. Holder = {}
      BY <2>6 DEF InstallPriority, LockInv, SectionsExclusive, HasToken, Holder
    <3>2. Holder' = {p}
      BY <2>6, <2>typed, <3>1 DEF InstallPriority, Holder
    <3>3. (CHOOSE q \in Procs : q \in Holder') = p
      BY <3>2
    <3>4. Held' = req[p]
      BY <2>6, <3>2, <3>3 DEF InstallPriority, Held
    <3>5. Revoked' = FALSE
      BY <2>6 DEF InstallPriority, SetRunningPriority, LockInv, TypeOK, RequestsReal, Revoked
    <3>6. Waiting' = [Waiting EXCEPT ![p] = NoRequest]
      BY <2>6, <2>typed DEF InstallPriority, Waiting
    <3>7. pc[p] = "install"
      BY <2>6 DEF InstallPriority
    <3>8. Waiting[p] = req[p] /\ Abstract!Waits(p)
      BY <2>waits, <3>7, WaitingReal
    <3> QED
      BY <3>1, <3>2, <3>4, <3>5, <3>6, <3>8, SameRequests
         DEF Abstract!Takes, Abstract!Grant, Abstract!Free
  <2>7. ASSUME NEW p \in Procs, ResetPriority(p)
        PROVE  Abstract!GivesBack(p)
    <3>1. p \in Holder
      BY <2>7 DEF ResetPriority, Holder
    <3>2. Holder = {p}
      BY <3>1, HolderAlone
    <3>3. Holder' = {}
      BY <2>7, <2>typed, <3>2 DEF ResetPriority, Holder
    <3>4. Held' = NoRequest /\ Revoked' = FALSE
      BY <3>3 DEF Held, Revoked
    <3>5. Waiting' = Waiting
      BY <2>7, <2>same, <2>typed DEF ResetPriority, PCs
    <3> QED
      BY <3>2, <3>3, <3>4, <3>5, SameRequests
         DEF Abstract!GivesBack, Abstract!Release, Abstract!Free
  <2>8. ASSUME NEW p \in Procs, TimerStep(p) \/ CheckPriority(p)
        PROVE  Abstract!GivesUp(p) \/ UNCHANGED Abstract!specState
    <3>1. UNCHANGED Abstract!lockState
      BY <2>8, <2>lock, <2>typed DEF TimerStep, EnterTimeout, AwaitTimeout, CheckPriority, Holder
    <3>2. CASE pc' = [pc EXCEPT ![p] = "cancel"] /\ pc[p] = "check"
      BY <2>8, <2>same, <2>typed, <3>1, <3>2
         DEF TimerStep, EnterTimeout, AwaitTimeout, CheckPriority, PCs, Abstract!specState
    <3>3. CASE \E l \in {"idle", "refused", "timedOut"} :
                 pc' = [pc EXCEPT ![p] = l] /\ pc[p] \in {"takeover", "check", "await"}
      <4>1. Waiting' = [Waiting EXCEPT ![p] = NoRequest]
        BY <2>8, <2>typed, <3>3 DEF TimerStep, EnterTimeout, AwaitTimeout, CheckPriority, Waiting
      <4> QED
        BY <2>waits, <3>1, <3>3, <4>1, SameRequests DEF Abstract!GivesUp
    <3> QED
      BY <2>8, <3>2, <3>3 DEF TimerStep, EnterTimeout, AwaitTimeout, CheckPriority
  <2> QED
    BY <2>1, <2>2, <2>3, <2>4, <2>5, <2>6, <2>7, <2>8
       DEF Next, Finished, LockStep, UnlockStep, Abstract!LockNext
<1> QED
  BY <1>1, <1>2, LockInvariant, PTL DEF Spec, ImplementsSequenceLock, Abstract!LockSpec
=============================================================================
