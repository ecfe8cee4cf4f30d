-------------------------- MODULE DeliveryProofs ---------------------------
(***************************************************************************)
(* The safety of the event stream for any capacity and gap, any publishers *)
(* and any number of events, and of the drainer that waits for those who   *)
(* deliver them, for any set of controllers.                               *)
(*                                                                         *)
(* A consumer tells from the distance to writePos that its slot has not    *)
(* been reused.  That rests on what the ring holds: the last Cap events    *)
(* published, each at its position modulo Cap (RingHoldsTail), which a     *)
(* publication keeps because two positions less than Cap apart never share *)
(* a slot (SlotsDiffer).  That nothing is skipped follows by extending,    *)
(* with every event sent, the enumeration of the positions that the filter *)
(* lets through.                                                           *)
(***************************************************************************)
EXTENDS Events, Drainer, TLAPS

(* The slots of the last Cap positions hold the events published there. *)
RingHoldsTail ==
  \A k \in 0..(writePos - 1) : writePos - k <= Cap => stream[k % Cap] = log[k + 1]

(* A consumer is never ahead of the publishers, nor more than Cap - Gap    *)
(* behind the position at which it joined.                                 *)
PositionsSane ==
  \A c \in Consumers :
    /\ pos[c] <= writePos
    /\ joined[c] <= writePos
    /\ pc[c] # "off" => pos[c] >= joined[c] - (Cap - Gap)
    /\ pc[c] = "send" => pos[c] > 0

StreamInv ==
  /\ TypeOK
  /\ RingHoldsTail
  /\ PositionsSane
  /\ NoOverwrittenRead
  /\ NoLostWakeup
  /\ GapKept

-----------------------------------------------------------------------------
(* Positions less than Cap apart have slots of their own. *)
LEMMA SlotsDiffer ==
  ASSUME NEW n \in Nat \ {0}, NEW a \in Nat, NEW b \in Nat, a < b, b - a < n
  PROVE  a % n # b % n
<1> DEFINE p == a \div n
           q == b \div n
<1>1. p \in Int /\ q \in Int /\ a = n * p + (a % n) /\ b = n * q + (b % n)
  OBVIOUS
<1>2. SUFFICES ASSUME a % n = b % n PROVE FALSE
  OBVIOUS
<1> HIDE DEF p, q
<1>3. a % n \in Int /\ b % n \in Int
  OBVIOUS
<1>4. b - a = n * (q - p)
  BY <1>1, <1>2, <1>3
<1>5. CASE q - p <= 0
  <2>1. n * (q - p) <= 0
    BY <1>1, <1>5
  <2> QED BY <2>1, <1>4
<1>6. CASE q - p >= 1
  <2>1. n * (q - p) >= n
    BY <1>1, <1>6
  <2> QED BY <2>1, <1>4
<1> QED
  BY <1>1, <1>5, <1>6

(* Whatever tail it asks for, a consumer starts between the oldest         *)
(* position on offer and the next event.                                   *)
LEMMA InitialPosInRange ==
  ASSUME TypeOK, NEW o \in Options, NEW i \in InitialPos(o)
  PROVE  /\ i \in Nat
         /\ i <= writePos
         /\ i >= writePos - (Cap - Gap)
<1>1. /\ MinPos \in Nat
      /\ MinPos <= writePos
      /\ MinPos >= writePos - (Cap - Gap)
  BY CapAssumption DEF TypeOK, MinPos, AtLeast
<1>2. o.tail \in {"next", "last", "after"} /\ o.arg \in Int
  BY OptionsAssumption
<1>3. CASE o.tail = "next"
  BY <1>1, <1>3, CapAssumption DEF InitialPos, TypeOK
<1>4. CASE o.tail = "last"
  BY <1>1, <1>2, <1>4, CapAssumption DEF InitialPos, AtLeast, TypeOK
<1>5. CASE o.tail = "after"
  <2>1. PICK j \in Search(writePos - MinPos, o.arg) : i = MinPos + j
    BY <1>5 DEF InitialPos
  <2>2. j \in 0..(writePos - MinPos)
    BY <2>1 DEF Search
  <2> QED
    BY <1>1, <2>1, <2>2, CapAssumption DEF TypeOK
<1> QED
  BY <1>2, <1>3, <1>4, <1>5

(* The event of no one, for the slots never written. *)
LEMMA NoEventTyped == NoEvent \in Event
BY OptionsAssumption DEF NoEvent, Event

-----------------------------------------------------------------------------
(* The type invariant of the stream: the positions are natural, in         *)
(* particular the one Watch computes from its options.                     *)
THEOREM TypeCorrect == Spec => []TypeOK
<1>1. Init => TypeOK
  BY CapAssumption, NoEventTyped DEF Init, TypeOK, ConsumerPCs
<1>2. TypeOK /\ [Next]_vars => TypeOK'
  <2> SUFFICES ASSUME TypeOK, [Next]_vars PROVE TypeOK'
    OBVIOUS
  <2> USE CapAssumption DEF TypeOK, ConsumerPCs, pubVars, conVars
  <2>1. CASE UNCHANGED vars
    BY <2>1 DEF vars
  <2>2. ASSUME NEW p \in Publishers, NewEvent(p) PROVE TypeOK'
    BY <2>2 DEF NewEvent
  <2>3. ASSUME NEW p \in Publishers, Publish(p) PROVE TypeOK'
    <3> DEFINE ev == [id |-> hand[p], actor |-> p]
    <3>1. ev \in Event
      BY DEF Event
    <3>2. log' \in Seq(Event) /\ Len(log') = writePos'
      BY <2>3, <3>1 DEF Publish
    <3>3. stream' \in [0..(Cap - 1) -> Event]
      BY <2>3, <3>1 DEF Publish
    <3> QED
      BY <2>3, <3>2, <3>3 DEF Publish
  <2>4. ASSUME NEW c \in Consumers, NEW o \in Options, Watch(c, o) PROVE TypeOK'
    <3>1. PICK i \in InitialPos(o) : /\ pos' = [pos EXCEPT ![c] = i]
                                     /\ start' = [start EXCEPT ![c] = i]
      BY <2>4 DEF Watch
    <3>2. i \in Nat
      BY InitialPosInRange
    <3> QED
      BY <2>4, <3>1, <3>2 DEF Watch
  <2>5. ASSUME NEW c \in Consumers, Exit(c) PROVE TypeOK'
    BY <2>5 DEF Exit
  <2>6. ASSUME NEW c \in Consumers, Sleep(c) \/ Wake(c) \/ Drop(c) \/ Abandon(c) PROVE TypeOK'
    BY <2>6 DEF Sleep, Wake, Drop, Abandon, GotoC
  <2>7. ASSUME NEW c \in Consumers, Read(c) PROVE TypeOK'
    <3>1. pos[c] % Cap \in 0..(Cap - 1)
      OBVIOUS
    <3> QED
      BY <2>7, <3>1 DEF Read, GotoC
  <2>8. ASSUME NEW c \in Consumers, Send(c) PROVE TypeOK'
    BY <2>8 DEF Send, GotoC
  <2> QED
    BY <2>1, <2>2, <2>3, <2>4, <2>5, <2>6, <2>7, <2>8 DEF Next, ConsumerStep
<1> QED
  BY <1>1, <1>2, PTL DEF Spec

-----------------------------------------------------------------------------
(* A publication moves the window of RingHoldsTail by one: it overwrites   *)
(* the slot of the one position that leaves it.                            *)
LEMMA PublishKeepsRing ==
  ASSUME TypeOK, RingHoldsTail, NEW p \in Publishers, Publish(p)
  PROVE  RingHoldsTail'
<1> USE CapAssumption
<1> DEFINE ev == [id |-> hand[p], actor |-> p]
<1>1. /\ stream' = [stream EXCEPT ![writePos % Cap] = ev]
      /\ log' = Append(log, ev)
      /\ writePos' = writePos + 1
  BY DEF Publish
<1>2. /\ ev \in Event
      /\ writePos \in Nat
      /\ stream \in [0..(Cap - 1) -> Event]
      /\ log \in Seq(Event) /\ Len(log) = writePos
  BY DEF TypeOK, Event
<1>3. writePos % Cap \in 0..(Cap - 1)
  BY <1>2
<1> HIDE DEF ev
<1> SUFFICES ASSUME NEW k \in 0..(writePos' - 1), writePos' - k <= Cap
             PROVE  stream'[k % Cap] = log'[k + 1]
  BY Zenon DEF RingHoldsTail
<1>4. k \in 0..writePos /\ writePos + 1 - k <= Cap
  BY <1>1, <1>2
<1>5. CASE k = writePos
  BY <1>1, <1>2, <1>3, <1>5
<1>6. CASE k # writePos
  <2>1. /\ k \in 0..(writePos - 1) /\ writePos - k <= Cap
        /\ k \in Nat /\ k < writePos /\ writePos - k < Cap
        /\ Cap \in Nat \ {0}
    BY <1>2, <1>4, <1>6
  <2>2. k % Cap # writePos % Cap
    BY <1>2, <2>1, SlotsDiffer
  <2>3. stream'[k % Cap] = stream[k % Cap]
    <3>1. k % Cap \in 0..(Cap - 1)
      BY <2>1, <1>2
    <3> QED
      BY <1>1, <1>2, <2>2, <3>1
  <2>4. stream[k % Cap] = log[k + 1]
    BY <2>1, Zenon DEF RingHoldsTail
  <2>5. log'[k + 1] = log[k + 1]
    BY <1>1, <1>2, <2>1
  <2> QED
    BY <2>3, <2>4, <2>5
<1> QED
  BY <1>5, <1>6

(* Every step of a publisher, of Watch and of a consumer's goroutine keeps *)
(* the conjuncts of StreamInv.                                             *)
LEMMA StreamInvStep ==
  ASSUME StreamInv, TypeOK', [Next]_vars
  PROVE  StreamInv'
<1> USE CapAssumption DEF StreamInv
<1>1. CASE UNCHANGED vars
  BY <1>1 DEF vars, pubVars, conVars, RingHoldsTail, PositionsSane, NoOverwrittenRead,
              NoLostWakeup, GapKept
<1>2. ASSUME NEW p \in Publishers, NewEvent(p) PROVE StreamInv'
  BY <1>2 DEF NewEvent, conVars, RingHoldsTail, PositionsSane, NoOverwrittenRead,
              NoLostWakeup, GapKept
<1>3. ASSUME NEW p \in Publishers, Publish(p) PROVE StreamInv'
  <2> USE DEF Publish, TypeOK
  <2>1. RingHoldsTail'
    BY <1>3, PublishKeepsRing
  <2>2. PositionsSane'
    BY <1>3 DEF PositionsSane
  <2>3. NoOverwrittenRead'
    <3> SUFFICES ASSUME NEW c \in Consumers, pc'[c] = "send" PROVE cur'[c] = log'[pos'[c]]
      BY DEF NoOverwrittenRead
    <3>1. pc[c] = "send" /\ cur[c] = log[pos[c]] /\ pos[c] \in 1..Len(log)
      BY <1>3 DEF NoOverwrittenRead, PositionsSane
    <3>2. [id |-> hand[p], actor |-> p] \in Event
      BY DEF Event
    <3>3. log'[pos[c]] = log[pos[c]]
      BY <1>3, <3>1, <3>2
    <3> QED
      BY <1>3, <3>1, <3>3
  <2>4. NoLostWakeup'
    BY <1>3 DEF NoLostWakeup
  <2>5. GapKept'
    BY <1>3 DEF GapKept
  <2> QED
    BY <2>1, <2>2, <2>3, <2>4, <2>5
<1>4. ASSUME NEW c \in Consumers, NEW o \in Options, Watch(c, o) PROVE StreamInv'
  <2>1. PICK i \in InitialPos(o) : pos' = [pos EXCEPT ![c] = i]
    BY <1>4 DEF Watch
  <2>2. i \in Nat /\ i <= writePos /\ i >= writePos - (Cap - Gap)
    BY InitialPosInRange
  <2> USE DEF Watch, TypeOK, pubVars
  <2>3. RingHoldsTail'
    BY <1>4 DEF RingHoldsTail
  <2>4. PositionsSane'
    BY <1>4, <2>1, <2>2 DEF PositionsSane
  <2>5. NoOverwrittenRead' /\ NoLostWakeup' /\ GapKept'
    BY <1>4, <2>1 DEF NoOverwrittenRead, NoLostWakeup, GapKept
  <2> QED
    BY <2>3, <2>4, <2>5
<1>5. ASSUME NEW c \in Consumers, Exit(c) PROVE StreamInv'
  BY <1>5 DEF Exit, TypeOK, pubVars, RingHoldsTail, PositionsSane, NoOverwrittenRead,
              NoLostWakeup, GapKept
<1>6. ASSUME NEW c \in Consumers, Sleep(c) \/ Wake(c) \/ Abandon(c) PROVE StreamInv'
  BY <1>6 DEF Sleep, Wake, Abandon, GotoC, TypeOK, pubVars, RingHoldsTail, PositionsSane,
              NoOverwrittenRead, NoLostWakeup, GapKept
<1>7. ASSUME NEW c \in Consumers, Drop(c) PROVE StreamInv'
  <2> USE DEF Drop, GotoC, TypeOK, pubVars
  <2>1. RingHoldsTail' /\ PositionsSane' /\ NoOverwrittenRead' /\ NoLostWakeup'
    BY <1>7 DEF RingHoldsTail, PositionsSane, NoOverwrittenRead, NoLostWakeup
  <2>2. writePos - joined[c] >= Gap
    <3>1. writePos \in Nat /\ pos[c] \in Nat /\ joined[c] \in Nat
      OBVIOUS
    <3>2. writePos - pos[c] >= Cap
      BY <1>7 DEF Overrun
    <3>3. pos[c] >= joined[c] - (Cap - Gap)
      BY <1>7 DEF PositionsSane
    <3> HIDE DEF TypeOK, StreamInv
    <3> QED
      BY <3>1, <3>2, <3>3
  <2>3. GapKept'
    BY <1>7, <2>2 DEF GapKept
  <2> QED
    BY <2>1, <2>3
<1>8. ASSUME NEW c \in Consumers, Read(c) PROVE StreamInv'
  <2> USE DEF Read, GotoC, TypeOK, pubVars
  <2>1. pos[c] \in 0..(writePos - 1) /\ writePos - pos[c] <= Cap
    BY <1>8 DEF Overrun, PositionsSane
  <2>2. stream[pos[c] % Cap] = log[pos[c] + 1]
    BY <2>1, Zenon DEF RingHoldsTail
  <2>3. RingHoldsTail'
    BY <1>8 DEF RingHoldsTail
  <2>4. PositionsSane'
    BY <1>8, <2>1 DEF PositionsSane
  <2>5. NoOverwrittenRead'
    BY <1>8, <2>2 DEF NoOverwrittenRead
  <2>6. NoLostWakeup' /\ GapKept'
    BY <1>8 DEF NoLostWakeup, GapKept
  <2> QED
    BY <2>3, <2>4, <2>5, <2>6
<1>9. ASSUME NEW c \in Consumers, Send(c) PROVE StreamInv'
  BY <1>9 DEF Send, GotoC, TypeOK, pubVars, RingHoldsTail, PositionsSane, NoOverwrittenRead,
              NoLostWakeup, GapKept
<1> QED
  BY <1>1, <1>2, <1>3, <1>4, <1>5, <1>6, <1>7, <1>8, <1>9 DEF Next, ConsumerStep

(* The inductive invariant of the stream. *)
THEOREM StreamInvariant == Spec => []StreamInv
<1>1. Init => StreamInv
  <2> SUFFICES ASSUME Init PROVE StreamInv
    OBVIOUS
  <2>1. TypeOK
    BY CapAssumption, NoEventTyped DEF Init, TypeOK, ConsumerPCs
  <2> QED
    BY <2>1, CapAssumption DEF Init, StreamInv, RingHoldsTail, PositionsSane,
       NoOverwrittenRead, NoLostWakeup, GapKept
<1>2. StreamInv /\ TypeOK' /\ [Next]_vars => StreamInv'
  BY StreamInvStep
<1> QED
  BY <1>1, <1>2, TypeCorrect, PTL DEF Spec

(* A consumer never sends an event from a slot that a publisher has reused *)
(* since: the test of the distance in Watch is enough.                     *)
THEOREM ReadsAreSound == Spec => []NoOverwrittenRead
<1>1. StreamInv => NoOverwrittenRead
  BY DEF StreamInv
<1> QED
  BY <1>1, StreamInvariant, PTL

(* A consumer asleep on the condition variable has read everything: the    *)
(* test and the Wait are one critical section, and Publish broadcasts.     *)
THEOREM WakeupsNeverLost == Spec => []NoLostWakeup
<1>1. StreamInv => NoLostWakeup
  BY DEF StreamInv
<1> QED
  BY <1>1, StreamInvariant, PTL

(* A consumer is dropped only after gap events have been published since   *)
(* its Watch, however far back it started.                                 *)
THEOREM GapIsGranted == Spec => []GapKept
<1>1. StreamInv => GapKept
  BY DEF StreamInv
<1> QED
  BY <1>1, StreamInvariant, PTL

-----------------------------------------------------------------------------
(* What a WatchFunc receives *)

Told(c) == \E f \in [1..Len(got[c]) -> (start[c] + 1)..ReadTo(c)] : PublishedAt(c, f)

(* Nothing has been sent before the start, what is being sent has been     *)
(* asked for, and nobody has read less than from where it started.         *)
Delivers ==
  \A c \in Consumers :
    /\ pc[c] = "off" => got[c] = <<>>
    /\ pc[c] = "send" => Matches(opts[c], cur[c])
    /\ pc[c] # "off" => start[c] <= ReadTo(c)

DeliveryInv == Delivers /\ NothingSkipped

(* A consumer that has neither read nor received anything. *)
LEMMA ToldKept ==
  ASSUME TypeOK, TypeOK', PositionsSane, NEW c \in Consumers, Told(c),
         got'[c] = got[c], start'[c] = start[c], opts'[c] = opts[c], ReadTo(c)' = ReadTo(c),
         \A k \in 1..writePos : log'[k] = log[k]
  PROVE  Told(c)'
<1>0. /\ got[c] \in Seq(Event) /\ start[c] \in Nat /\ pos[c] \in Nat /\ writePos \in Nat
      /\ ReadTo(c) \in Int /\ ReadTo(c) <= writePos
  BY DEF TypeOK, PositionsSane, ReadTo
<1>1. PICK f \in [1..Len(got[c]) -> (start[c] + 1)..ReadTo(c)] : PublishedAt(c, f)
  BY DEF Told
<1>2. \A k \in (start[c] + 1)..ReadTo(c) : log'[k] = log[k]
  BY <1>0
<1>3. PublishedAt(c, f)'
  BY <1>0, <1>1, <1>2 DEF PublishedAt
<1> QED BY <1>1, <1>3 DEF Told

(* One more event has been read, which the filter keeps back. *)
LEMMA ToldSkips ==
  ASSUME TypeOK, NEW c \in Consumers, Told(c), start[c] <= ReadTo(c),
         got'[c] = got[c], start'[c] = start[c], opts'[c] = opts[c], log' = log,
         ReadTo(c)' = ReadTo(c) + 1, ~Matches(opts[c], log[ReadTo(c) + 1])
  PROVE  Told(c)'
<1>0. got[c] \in Seq(Event) /\ start[c] \in Nat /\ ReadTo(c) \in Nat
  BY DEF TypeOK, ReadTo
<1>1. PICK f \in [1..Len(got[c]) -> (start[c] + 1)..ReadTo(c)] : PublishedAt(c, f)
  BY DEF Told
<1>2. \A i \in 1..Len(got[c]) : f[i] # ReadTo(c) + 1
  BY <1>0
<1>3. \A k \in (start[c] + 1)..(ReadTo(c) + 1) :
        Matches(opts[c], log[k]) <=> \E i \in 1..Len(got[c]) : f[i] = k
  <2> SUFFICES ASSUME NEW k \in (start[c] + 1)..(ReadTo(c) + 1)
               PROVE  Matches(opts[c], log[k]) <=> \E i \in 1..Len(got[c]) : f[i] = k
    OBVIOUS
  <2>1. CASE k \in (start[c] + 1)..ReadTo(c)
    BY <1>1, <2>1 DEF PublishedAt
  <2>2. CASE k = ReadTo(c) + 1
    BY <1>2, <2>2
  <2> QED BY <1>0, <2>1, <2>2
<1>4. PublishedAt(c, f)'
  BY <1>0, <1>1, <1>3 DEF PublishedAt, Matches
<1>5. f \in [1..Len(got'[c]) -> (start'[c] + 1)..ReadTo(c)']
  BY <1>0
<1> QED BY <1>4, <1>5 DEF Told

(* The event that has been read is received: its position follows the     *)
(* others.                                                                 *)
LEMMA ToldReceives ==
  ASSUME TypeOK, NEW c \in Consumers, Told(c), start[c] <= ReadTo(c),
         got'[c] = Append(got[c], log[ReadTo(c) + 1]), log[ReadTo(c) + 1] \in Event,
         start'[c] = start[c], opts'[c] = opts[c], log' = log,
         ReadTo(c)' = ReadTo(c) + 1, Matches(opts[c], log[ReadTo(c) + 1])
  PROVE  Told(c)'
<1>0. got[c] \in Seq(Event) /\ start[c] \in Nat /\ ReadTo(c) \in Nat /\ Len(got[c]) \in Nat
  BY DEF TypeOK, ReadTo
<1>1. PICK f \in [1..Len(got[c]) -> (start[c] + 1)..ReadTo(c)] : PublishedAt(c, f)
  BY DEF Told
<1>2. PICK n \in Nat, s \in Nat, r \in Nat : n = Len(got[c]) /\ s = start[c] /\ r = ReadTo(c)
  BY <1>0
<1>3. /\ s <= r /\ f \in [1..n -> (s + 1)..r]
      /\ \A i, j \in 1..n : i < j => f[i] < f[j]
      /\ \A i \in 1..n : got[c][i] = log[f[i]]
      /\ \A k \in (s + 1)..r : Matches(opts[c], log[k]) <=> \E i \in 1..n : f[i] = k
      /\ Matches(opts[c], log[r + 1])
  BY <1>1, <1>2 DEF PublishedAt
<1>4. /\ Len(got'[c]) = n + 1
      /\ \A i \in 1..n : got'[c][i] = got[c][i]
      /\ got'[c][n + 1] = log[r + 1]
  BY <1>0, <1>2
<1> DEFINE h == [i \in 1..(n + 1) |-> IF i <= n THEN f[i] ELSE r + 1]
<1>5. PICK g : g = h
  OBVIOUS
<1>6. /\ g \in [1..(n + 1) -> (s + 1)..(r + 1)]
      /\ \A i \in 1..n : g[i] = f[i] /\ f[i] \in (s + 1)..r
      /\ g[n + 1] = r + 1
  <2>1. \A i \in 1..n : i \in 1..(n + 1) /\ i <= n /\ f[i] \in (s + 1)..r
    BY <1>3
  <2>2. \A i \in 1..n : g[i] = f[i]
    BY <1>5, <2>1
  <2>3. n + 1 \in 1..(n + 1) /\ ~(n + 1 <= n)
    OBVIOUS
  <2>4. g[n + 1] = r + 1
    BY <1>5, <2>3
  <2>5. \A i \in 1..(n + 1) : (IF i <= n THEN f[i] ELSE r + 1) \in (s + 1)..(r + 1)
    <3> SUFFICES ASSUME NEW i \in 1..(n + 1)
                 PROVE  (IF i <= n THEN f[i] ELSE r + 1) \in (s + 1)..(r + 1)
      OBVIOUS
    <3>1. CASE i <= n
      <4>1. f[i] \in (s + 1)..r
        BY <2>1, <3>1
      <4> QED BY <3>1, <4>1
    <3>2. CASE ~(i <= n)
      BY <1>3, <3>2
    <3> QED BY <3>1, <3>2
  <2>6. g \in [1..(n + 1) -> (s + 1)..(r + 1)]
    BY <1>5, <2>5
  <2> QED BY <2>1, <2>2, <2>4, <2>6
<1> HIDE DEF h
<1>7. ASSUME NEW i \in 1..(n + 1), NEW j \in 1..(n + 1), i < j PROVE g[i] < g[j]
  <2>1. i \in 1..n /\ (j \in 1..n \/ j = n + 1)
    BY <1>7
  <2>2. CASE j \in 1..n
    BY <1>3, <1>6, <1>7, <2>1, <2>2
  <2>3. CASE j = n + 1
    BY <1>6, <2>1, <2>3
  <2> QED BY <2>1, <2>2, <2>3
<1>8. ASSUME NEW i \in 1..(n + 1) PROVE got'[c][i] = log[g[i]]
  <2>1. i = n + 1 \/ i \in 1..n
    OBVIOUS
  <2>2. CASE i = n + 1
    BY <1>4, <1>6, <2>2
  <2>3. CASE i \in 1..n
    BY <1>3, <1>4, <1>6, <2>3
  <2> QED BY <2>1, <2>2, <2>3
<1>9. ASSUME NEW k \in (s + 1)..(r + 1)
      PROVE  Matches(opts[c], log[k]) <=> \E i \in 1..(n + 1) : g[i] = k
  <2>1. CASE k = r + 1
    <3>1. n + 1 \in 1..(n + 1)
      OBVIOUS
    <3> QED BY <1>3, <1>6, <2>1, <3>1
  <2>2. CASE k \in (s + 1)..r
    <3>1. ASSUME NEW i \in 1..(n + 1), g[i] = k PROVE i \in 1..n /\ f[i] = k
      <4>1. i # n + 1
        BY <1>6, <2>2, <3>1
      <4>2. i \in 1..n
        BY <4>1
      <4> QED BY <1>6, <3>1, <4>2
    <3>2. ASSUME NEW i \in 1..n, f[i] = k PROVE i \in 1..(n + 1) /\ g[i] = k
      BY <1>6, <3>2
    <3>3. Matches(opts[c], log[k]) <=> \E i \in 1..n : f[i] = k
      BY <1>3, <2>2
    <3> QED BY <3>1, <3>2, <3>3
  <2>3. k = r + 1 \/ k \in (s + 1)..r
    OBVIOUS
  <2> QED BY <2>1, <2>2, <2>3
<1>10. PublishedAt(c, g)'
  <2>1. \A k : Matches(opts'[c], log'[k]) <=> Matches(opts[c], log[k])
    OBVIOUS
  <2>2. Len(got'[c]) = n + 1 /\ start'[c] = s /\ ReadTo(c)' = r + 1 /\ log' = log
    BY <1>2, <1>4
  <2>3. \A i, j \in 1..Len(got'[c]) : i < j => g[i] < g[j]
    BY <1>7, <2>2
  <2>4. \A i \in 1..Len(got'[c]) : got'[c][i] = log'[g[i]]
    BY <1>8, <2>2
  <2>5. \A k \in (start'[c] + 1)..ReadTo(c)' :
          Matches(opts'[c], log'[k]) <=> \E i \in 1..Len(got'[c]) : g[i] = k
    BY <1>9, <2>1, <2>2
  <2> QED BY <2>3, <2>4, <2>5 DEF PublishedAt
<1>11. g \in [1..Len(got'[c]) -> (start'[c] + 1)..ReadTo(c)']
  BY <1>2, <1>4, <1>6
<1> QED BY <1>10, <1>11 DEF Told

(* Every step of a publisher, of Watch and of a consumer's goroutine keeps *)
(* what the WatchFuncs have been told complete.                            *)
LEMMA DeliveryStep ==
  ASSUME StreamInv, TypeOK', DeliveryInv, [Next]_vars
  PROVE  DeliveryInv'
<1> USE CapAssumption DEF pubVars, conVars
<1> DEFINE Active(c) == pc[c] \in {"read", "asleep", "woken", "send"}
<1>0. /\ TypeOK /\ PositionsSane /\ Delivers
      /\ \A c \in Consumers : Active(c) => Told(c)
  BY DEF StreamInv, DeliveryInv, NothingSkipped, Told
<1>a. ASSUME Delivers', \A c \in Consumers : Active(c)' => Told(c)'
      PROVE  DeliveryInv'
  BY <1>a DEF DeliveryInv, NothingSkipped, Told
<1>b. ASSUME NEW c \in Consumers, Active(c) \/ ~Active(c)',
             got'[c] = got[c], start'[c] = start[c], opts'[c] = opts[c], ReadTo(c)' = ReadTo(c),
             \A k \in 1..writePos : log'[k] = log[k]
      PROVE  Active(c)' => Told(c)'
  BY <1>0, <1>b, ToldKept
<1>1. CASE UNCHANGED vars
  <2>1. Delivers'
    BY <1>0, <1>1 DEF vars, Delivers, ReadTo, Matches
  <2>2. \A c \in Consumers : Active(c)' => Told(c)'
    BY <1>1, <1>b DEF vars, ReadTo
  <2> QED BY <1>a, <2>1, <2>2
<1>2. ASSUME NEW p \in Publishers, NewEvent(p) PROVE DeliveryInv'
  <2>1. Delivers'
    BY <1>0, <1>2 DEF NewEvent, Delivers, ReadTo, Matches
  <2>2. \A c \in Consumers : Active(c)' => Told(c)'
    BY <1>2, <1>b DEF NewEvent, ReadTo
  <2> QED BY <1>a, <2>1, <2>2
<1>3. ASSUME NEW p \in Publishers, Publish(p) PROVE DeliveryInv'
  <2>1. [id |-> hand[p], actor |-> p] \in Event
    BY <1>0 DEF TypeOK, Event
  <2>2. \A k \in 1..writePos : log'[k] = log[k]
    BY <1>0, <1>3, <2>1 DEF TypeOK, Publish
  <2>3. \A c \in Consumers :
          /\ Active(c)' => Active(c)
          /\ pc'[c] = "send" <=> pc[c] = "send"
          /\ pc'[c] = "off" <=> pc[c] = "off"
    BY <1>0, <1>3 DEF Publish, TypeOK
  <2>4. \A c \in Consumers : ReadTo(c)' = ReadTo(c)
    BY <1>3, <2>3 DEF Publish, ReadTo
  <2>5. Delivers'
    BY <1>0, <1>3, <2>3, <2>4 DEF Publish, Delivers, Matches
  <2>6. \A c \in Consumers : Active(c)' => Told(c)'
    BY <1>3, <1>b, <2>2, <2>3, <2>4 DEF Publish
  <2> QED BY <1>a, <2>5, <2>6
<1>4. ASSUME NEW c \in Consumers, NEW o \in Options, Watch(c, o) PROVE DeliveryInv'
  <2>1. PICK i \in InitialPos(o) : /\ pos' = [pos EXCEPT ![c] = i]
                                   /\ start' = [start EXCEPT ![c] = i]
    BY <1>4 DEF Watch
  <2>2. i \in Nat
    BY <1>0, InitialPosInRange
  <2>3. ReadTo(c)' = i /\ start'[c] = i /\ got'[c] = <<>> /\ pc'[c] = "read"
    BY <1>0, <1>4, <2>1, <2>2 DEF Watch, Delivers, ReadTo, TypeOK
  <2>4. \A d \in Consumers \ {c} :
          /\ pc'[d] = pc[d] /\ ReadTo(d)' = ReadTo(d) /\ start'[d] = start[d]
          /\ opts'[d] = opts[d] /\ got'[d] = got[d] /\ cur'[d] = cur[d]
    BY <1>0, <1>4, <2>1 DEF Watch, ReadTo, TypeOK
  <2>5. Delivers'
    BY <1>0, <2>2, <2>3, <2>4 DEF Delivers, Matches
  <2>6. Told(c)'
    <3>1. PICK f : f = [j \in 1..0 |-> i]
      OBVIOUS
    <3>2. f \in [1..Len(got'[c]) -> (start'[c] + 1)..ReadTo(c)']
      BY <2>3, <3>1
    <3>3. PublishedAt(c, f)'
      BY <2>2, <2>3 DEF PublishedAt
    <3> QED BY <3>2, <3>3 DEF Told
  <2>7. \A d \in Consumers : Active(d)' => Told(d)'
    BY <1>4, <1>b, <2>4, <2>6 DEF Watch
  <2> QED BY <1>a, <2>5, <2>7
<1>5. ASSUME NEW c \in Consumers, Exit(c) PROVE DeliveryInv'
  <2>1. Delivers'
    BY <1>0, <1>5 DEF Exit, Delivers, ReadTo, Matches
  <2>2. \A d \in Consumers : Active(d)' => Told(d)'
    BY <1>5, <1>b DEF Exit, ReadTo
  <2> QED BY <1>a, <2>1, <2>2
<1>6. ASSUME NEW c \in Consumers, Sleep(c) \/ Wake(c) \/ Drop(c) PROVE DeliveryInv'
  <2>1. /\ pc[c] \in {"read", "woken"} /\ pc'[c] \in {"asleep", "read", "closed"}
        /\ \A d \in Consumers \ {c} : pc'[d] = pc[d]
        /\ UNCHANGED <<opts, pos, cur, start, got, log>>
    BY <1>0, <1>6 DEF Sleep, Wake, Drop, GotoC, TypeOK
  <2>2. \A d \in Consumers : ReadTo(d)' = ReadTo(d) /\ (Active(d) \/ ~Active(d)')
    BY <2>1 DEF ReadTo
  <2>3. Delivers'
    BY <1>0, <2>1, <2>2 DEF Delivers, Matches
  <2>4. \A d \in Consumers : Active(d)' => Told(d)'
    BY <1>b, <2>1, <2>2
  <2> QED BY <1>a, <2>3, <2>4
<1>7. ASSUME NEW c \in Consumers, Abandon(c) PROVE DeliveryInv'
  <2>1. /\ pc[c] = "send" /\ pc'[c] = "closed"
        /\ \A d \in Consumers \ {c} : pc'[d] = pc[d]
        /\ UNCHANGED <<opts, pos, cur, start, got, log>>
    BY <1>0, <1>7 DEF Abandon, GotoC, TypeOK
  <2>2. ReadTo(c) = pos[c] - 1 /\ ReadTo(c)' = pos[c] /\ pos[c] \in Nat /\ start[c] \in Nat
    BY <1>0, <2>1 DEF ReadTo, TypeOK
  <2>3. \A d \in Consumers \ {c} : ReadTo(d)' = ReadTo(d) /\ (Active(d) \/ ~Active(d)')
    BY <2>1 DEF ReadTo
  <2>4. Delivers'
    <3>1. start[c] <= ReadTo(c)'
      BY <1>0, <2>1, <2>2 DEF Delivers
    <3> QED BY <1>0, <2>1, <2>3, <3>1 DEF Delivers, Matches
  <2>5. \A d \in Consumers : Active(d)' => Told(d)'
    BY <1>b, <2>1, <2>3
  <2> QED BY <1>a, <2>4, <2>5
<1>8. ASSUME NEW c \in Consumers, Read(c) PROVE DeliveryInv'
  <2> DEFINE ev == stream[pos[c] % Cap]
  <2>1. pos[c] \in 0..(writePos - 1) /\ writePos - pos[c] <= Cap /\ pos[c] \in Nat
    BY <1>0, <1>8 DEF Read, Overrun, PositionsSane, TypeOK
  <2>2. ev = log[pos[c] + 1]
    BY <2>1, Zenon DEF StreamInv, RingHoldsTail
  <2>3. /\ pc[c] = "read" /\ pos'[c] = pos[c] + 1 /\ cur'[c] = ev
        /\ pc'[c] = IF Matches(opts[c], ev) THEN "send" ELSE "read"
        /\ \A d \in Consumers \ {c} : pc'[d] = pc[d] /\ pos'[d] = pos[d] /\ cur'[d] = cur[d]
        /\ UNCHANGED <<opts, start, got, log>>
    BY <1>0, <1>8 DEF Read, GotoC, TypeOK
  <2> HIDE DEF ev
  <2>4. ReadTo(c) = pos[c]
    BY <2>3 DEF ReadTo
  <2>5. ReadTo(c)' = IF Matches(opts[c], ev) THEN pos[c] ELSE pos[c] + 1
    BY <2>1, <2>3 DEF ReadTo
  <2>6. \A d \in Consumers \ {c} : ReadTo(d)' = ReadTo(d)
    BY <2>3 DEF ReadTo
  <2>7. start[c] \in Nat /\ start[c] <= pos[c]
    BY <1>0, <2>3, <2>4 DEF Delivers, TypeOK
  <2>8. Delivers'
    <3>1. start[c] <= ReadTo(c)'
      BY <2>1, <2>5, <2>7
    <3>2. pc'[c] # "off" /\ (pc'[c] = "send" => Matches(opts[c], ev))
      BY <2>3
    <3> QED BY <1>0, <2>3, <2>6, <3>1, <3>2 DEF Delivers, Matches
  <2>9. Told(c)'
    <3>1. CASE Matches(opts[c], ev)
      <4>1. Active(c) /\ ReadTo(c)' = ReadTo(c)
        BY <2>3, <2>4, <2>5, <3>1
      <4>2. Active(c)'
        BY <2>3
      <4> QED BY <1>b, <2>3, <4>1, <4>2
    <3>2. CASE ~Matches(opts[c], ev)
      <4>1. Told(c) /\ start[c] <= ReadTo(c) /\ ReadTo(c)' = ReadTo(c) + 1
        BY <1>0, <2>3, <2>4, <2>5, <2>7, <3>2
      <4>2. ~Matches(opts[c], log[ReadTo(c) + 1])
        BY <2>2, <2>4, <3>2
      <4> QED BY <1>0, <2>3, <4>1, <4>2, ToldSkips
    <3> QED BY <3>1, <3>2
  <2>10. \A d \in Consumers : Active(d)' => Told(d)'
    BY <1>b, <2>3, <2>6, <2>9
  <2> QED BY <1>a, <2>8, <2>10
<1>9. ASSUME NEW c \in Consumers, Send(c) PROVE DeliveryInv'
  <2>1. /\ pc[c] = "send" /\ pc'[c] = "read" /\ got'[c] = Append(got[c], cur[c])
        /\ \A d \in Consumers \ {c} : pc'[d] = pc[d] /\ got'[d] = got[d]
        /\ UNCHANGED <<opts, pos, cur, start, log>>
    BY <1>0, <1>9 DEF Send, GotoC, TypeOK
  <2>2. /\ ReadTo(c) = pos[c] - 1 /\ ReadTo(c)' = pos[c] /\ pos[c] \in Nat
        /\ ReadTo(c) + 1 = pos[c] /\ start[c] \in Nat /\ start[c] <= ReadTo(c)
    BY <1>0, <2>1 DEF ReadTo, TypeOK, Delivers
  <2>3. \A d \in Consumers \ {c} : ReadTo(d)' = ReadTo(d)
    BY <2>1 DEF ReadTo
  <2>4. Delivers'
    <3>1. start[c] <= ReadTo(c)'
      BY <2>2
    <3> QED BY <1>0, <2>1, <2>3, <3>1 DEF Delivers, Matches
  <2>5. cur[c] = log[pos[c]] /\ cur[c] \in Event /\ Matches(opts[c], cur[c])
    BY <1>0, <2>1 DEF StreamInv, NoOverwrittenRead, Delivers, TypeOK
  <2>6. Told(c)'
    <3>1. Told(c)
      BY <1>0, <2>1
    <3> QED BY <1>0, <2>1, <2>2, <2>5, <3>1, ToldReceives
  <2>7. \A d \in Consumers : Active(d)' => Told(d)'
    BY <1>b, <2>1, <2>3, <2>6
  <2> QED BY <1>a, <2>4, <2>7
<1> QED
  BY <1>1, <1>2, <1>3, <1>4, <1>5, <1>6, <1>7, <1>8, <1>9 DEF Next, ConsumerStep

(* A WatchFunc receives every event from its initial position on that its  *)
(* filter lets through, once and in the order of publication, until the    *)
(* publishers lap it and its channel is closed.                            *)
THEOREM NothingIsSkipped == Spec => []NothingSkipped
<1>1. Init => DeliveryInv
  BY DEF Init, DeliveryInv, Delivers, NothingSkipped
<1>2. StreamInv /\ TypeOK' /\ DeliveryInv /\ [Next]_vars => DeliveryInv'
  BY DeliveryStep
<1>3. DeliveryInv => NothingSkipped
  BY DEF DeliveryInv
<1> QED
  BY <1>1, <1>2, <1>3, TypeCorrect, StreamInvariant, PTL DEF Spec

-----------------------------------------------------------------------------
(* The drainer and the controllers that subscribe to it. *)

(* A sink that has not failed has not given its subscription up: before its *)
(* first Run it has none, and while it runs it is among d.subscriptions.    *)
FirstRunSubscribed ==
  \A c \in Sinks :
    /\ at[c] \in {"leaveF", "signalF", "failed"} => fails[c] > 0
    /\ at[c] = "start" /\ fails[c] = 0 => c \notin drainSub
    /\ at[c] \in {"network", "loop"} /\ fails[c] = 0 => c \in subs

DrainInv ==
  /\ DrainerTypeOK
  /\ NoLostSignal
  /\ EveryoneTold
  /\ FirstRunSubscribed

LEMMA DrainInvInit == DrainerInit => DrainInv
<1> SUFFICES ASSUME DrainerInit PROVE DrainInv
  OBVIOUS
<1>1. /\ fails \in [Controllers -> 0..MaxFails]
      /\ queue \in [Sinks -> Nat] /\ backlog \in [Sinks -> Nat]
  BY DrainerAssumption DEF DrainerInit
<1>2. /\ event \in [Controllers -> BOOLEAN] /\ hasDrained \in [Controllers -> BOOLEAN]
      /\ connected \in [Sinks -> BOOLEAN]
  BY DEF DrainerInit
<1>3. at \in [Controllers -> PCs]
  BY DEF DrainerInit, PCs
<1>4. DrainerTypeOK
  BY <1>1, <1>2, <1>3 DEF DrainerInit, DrainerTypeOK
<1>5. NoLostSignal /\ EveryoneTold
  BY DEF DrainerInit, NoLostSignal, EveryoneTold
<1>6. FirstRunSubscribed
  BY DEF DrainerInit, FirstRunSubscribed, Controllers
<1> QED BY <1>4, <1>5, <1>6 DEF DrainInv

(* Steps that leave the drainer, the subscriptions and the signalling       *)
(* controllers alone keep the two properties of the drainer.                *)
LEMMA QuietStep ==
  ASSUME DrainInv, UNCHANGED <<drainerVars, event>>, heard \subseteq heard',
         \A c \in Controllers : at[c] \in {"signal", "signalF"} => at'[c] = at[c]
  PROVE  NoLostSignal' /\ EveryoneTold'
  BY DEF DrainInv, NoLostSignal, EveryoneTold, Signalling, drainerVars

LEMMA DrainInvStep == DrainInv /\ [DrainerNext]_deliveryVars => DrainInv'
<1> SUFFICES ASSUME DrainInv, [DrainerNext]_deliveryVars PROVE DrainInv'
  OBVIOUS
<1> USE DrainerAssumption
<1>a. CASE DrainStep \/ DrainTimesOut \/ CancelContext
  <2>1. DrainerTypeOK'
    BY <1>a DEF DrainStep, DrainBegins, DrainChecks, DrainWakes, DrainTimesOut, CancelContext,
         DrainInv, DrainerTypeOK, drainerVars, subVars, sinkVars, PCs
  <2>2. NoLostSignal' /\ EveryoneTold'
    <3>1. CASE DrainBegins
      <4>1. \A c \in subs : event'[c]
        BY <3>1 DEF DrainBegins, DrainInv, DrainerTypeOK
      <4> QED BY <3>1, <4>1 DEF DrainBegins, NoLostSignal, EveryoneTold
    <3>2. CASE DrainChecks \/ DrainWakes \/ DrainTimesOut
      BY <3>2 DEF DrainChecks, DrainWakes, DrainTimesOut, DrainInv, NoLostSignal, EveryoneTold,
           Signalling, subVars
    <3>3. CASE CancelContext
      BY <3>3, QuietStep DEF CancelContext, subVars
    <3> QED BY <1>a, <3>1, <3>2, <3>3 DEF DrainStep
  <2>3. FirstRunSubscribed'
    BY <1>a DEF DrainStep, DrainBegins, DrainChecks, DrainWakes, DrainTimesOut, CancelContext,
         DrainInv, FirstRunSubscribed, drainerVars, subVars, sinkVars
  <2> QED BY <2>1, <2>2, <2>3 DEF DrainInv
<1>b. CASE \E c \in Controllers : Cancel(c)
  <2>1. PICK c \in Controllers : Cancel(c)
    BY <1>b
  <2>2. DrainerTypeOK'
    BY <2>1 DEF Cancel, CancelRemoves, CancelSignals, Goto, DrainInv, DrainerTypeOK, subVars, sinkVars, PCs
  <2>3. NoLostSignal'
    BY <2>1 DEF Cancel, CancelRemoves, CancelSignals, Goto, DrainInv, DrainerTypeOK, NoLostSignal, Signalling
  <2>4. EveryoneTold'
    BY <2>1 DEF Cancel, CancelRemoves, CancelSignals, DrainInv, EveryoneTold, subVars
  <2>5. FirstRunSubscribed'
    BY <2>1 DEF Cancel, CancelRemoves, CancelSignals, Goto, DrainInv, DrainerTypeOK, FirstRunSubscribed,
         Controllers, subVars
  <2> QED BY <2>2, <2>3, <2>4, <2>5 DEF DrainInv
<1>c. CASE \E c \in Controllers : Restart(c)
  <2>1. PICK c \in Controllers : Restart(c)
    BY <1>c
  <2>2. DrainerTypeOK'
    BY <2>1 DEF Restart, Goto, DrainInv, DrainerTypeOK, drainerVars, subVars, sinkVars, PCs
  <2>3. NoLostSignal' /\ EveryoneTold'
    BY <2>1, QuietStep DEF Restart, Goto, DrainInv, DrainerTypeOK, subVars
  <2>4. FirstRunSubscribed'
    BY <2>1 DEF Restart, Goto, DrainInv, DrainerTypeOK, FirstRunSubscribed, drainerVars, subVars
  <2> QED BY <2>2, <2>3, <2>4 DEF DrainInv
<1>d. CASE \E c \in Sinks : SinkStep(c) \/ EventPublished(c)
  <2>1. PICK c \in Sinks : SinkStep(c) \/ EventPublished(c)
    BY <1>d
  <2>2. c \in Controllers /\ c \notin Kmsgs
    BY DEF Controllers
  <2>3. CASE SinkRuns(c)
    <3>1. DrainerTypeOK'
      BY <2>2, <2>3 DEF SinkRuns, SubscribeOnce, Subscribe, Goto, DrainInv, DrainerTypeOK, PCs
    <3>2. NoLostSignal' /\ EveryoneTold'
      BY <2>2, <2>3 DEF SinkRuns, SubscribeOnce, Subscribe, Goto, DrainInv, DrainerTypeOK, NoLostSignal,
           EveryoneTold, Signalling
    <3>3. FirstRunSubscribed'
      BY <2>2, <2>3 DEF SinkRuns, SubscribeOnce, Subscribe, Goto, DrainInv, DrainerTypeOK, FirstRunSubscribed
    <3> QED BY <3>1, <3>2, <3>3 DEF DrainInv
  <2>4. CASE SinkDrains(c)
    <3>1. DrainerTypeOK'
      BY <2>2, <2>4 DEF SinkDrains, Receive, Goto, DrainInv, DrainerTypeOK, drainerVars, sinkVars, PCs
    <3>2. NoLostSignal' /\ EveryoneTold'
      BY <2>2, <2>4 DEF SinkDrains, Receive, Goto, DrainInv, DrainerTypeOK, NoLostSignal, EveryoneTold,
           Signalling, drainerVars
    <3>3. FirstRunSubscribed'
      BY <2>2, <2>4 DEF SinkDrains, Receive, Goto, DrainInv, DrainerTypeOK, FirstRunSubscribed, drainerVars
    <3> QED BY <3>1, <3>2, <3>3 DEF DrainInv
  <2>5. CASE \/ NetworkReady(c) \/ SinkCanceled(c) \/ SinkPublishes(c) \/ SinkFails(c)
             \/ SinkReconfigures(c) \/ EventPublished(c)
    <3>1. DrainerTypeOK'
      BY <2>2, <2>5 DEF NetworkReady, SinkCanceled, SinkPublishes, SinkFails, SinkReconfigures,
           EventPublished, Failed, Goto, DrainInv, DrainerTypeOK, drainerVars, subVars, sinkVars, PCs
    <3>2. NoLostSignal' /\ EveryoneTold'
      BY <2>2, <2>5, QuietStep DEF NetworkReady, SinkCanceled, SinkPublishes, SinkFails,
           SinkReconfigures, EventPublished, Goto, DrainInv, DrainerTypeOK, subVars
    <3>3. FirstRunSubscribed'
      <4>1. CASE SinkFails(c)
        <5>1. \A d \in Sinks : d # c => at'[d] = at[d] /\ fails'[d] = fails[d]
          BY <2>2, <4>1 DEF SinkFails, Failed, Goto, DrainInv, DrainerTypeOK, Controllers
        <5>2. at'[c] = "leaveF" /\ fails'[c] = fails[c] + 1 /\ fails[c] \in Nat
          BY <2>2, <4>1 DEF SinkFails, Failed, Goto, DrainInv, DrainerTypeOK
        <5>3. UNCHANGED <<subs, drainSub>>
          BY <4>1 DEF SinkFails, drainerVars, subVars
        <5> QED BY <5>1, <5>2, <5>3 DEF DrainInv, FirstRunSubscribed
      <4>2. CASE ~SinkFails(c)
        BY <2>2, <2>5, <4>2 DEF NetworkReady, SinkCanceled, SinkPublishes, SinkReconfigures,
             EventPublished, Goto, DrainInv, DrainerTypeOK, FirstRunSubscribed, Controllers, drainerVars,
             subVars
      <4> QED BY <4>1, <4>2
    <3> QED BY <3>1, <3>2, <3>3 DEF DrainInv
  <2> QED BY <2>1, <2>3, <2>4, <2>5 DEF SinkStep
<1>e. CASE \E c \in Kmsgs : KmsgStep(c)
  <2>1. PICK c \in Kmsgs : KmsgStep(c)
    BY <1>e
  <2>2. c \in Controllers /\ c \notin Sinks
    BY DEF Controllers
  <2>3. CASE KmsgDelivers(c)
    <3>1. DrainerTypeOK'
      BY <2>2, <2>3 DEF KmsgDelivers, SubscribeOnce, Subscribe, Goto, DrainInv, DrainerTypeOK, sinkVars, PCs
    <3>2. NoLostSignal' /\ EveryoneTold'
      BY <2>2, <2>3 DEF KmsgDelivers, SubscribeOnce, Subscribe, Goto, DrainInv, DrainerTypeOK, NoLostSignal,
           EveryoneTold, Signalling
    <3>3. FirstRunSubscribed'
      BY <2>2, <2>3 DEF KmsgDelivers, SubscribeOnce, Subscribe, Goto, DrainInv, DrainerTypeOK,
           FirstRunSubscribed
    <3> QED BY <3>1, <3>2, <3>3 DEF DrainInv
  <2>4. CASE KmsgDrains(c)
    <3>1. DrainerTypeOK'
      BY <2>2, <2>4 DEF KmsgDrains, Receive, Goto, DrainInv, DrainerTypeOK, drainerVars, sinkVars, PCs
    <3>2. NoLostSignal' /\ EveryoneTold'
      BY <2>2, <2>4 DEF KmsgDrains, Receive, Goto, DrainInv, DrainerTypeOK, NoLostSignal, EveryoneTold,
           Signalling, drainerVars
    <3>3. FirstRunSubscribed'
      BY <2>2, <2>4 DEF KmsgDrains, Receive, Goto, DrainInv, DrainerTypeOK, FirstRunSubscribed, drainerVars
    <3> QED BY <3>1, <3>2, <3>3 DEF DrainInv
  <2>5. CASE KmsgRuns(c) \/ KmsgLeaves(c) \/ KmsgReconfigures(c) \/ KmsgEnds(c) \/ KmsgFails(c)
    <3>1. DrainerTypeOK'
      BY <2>2, <2>5 DEF KmsgRuns, KmsgLeaves, KmsgReconfigures, KmsgEnds, KmsgFails, Failed, Goto,
           DrainInv, DrainerTypeOK, drainerVars, subVars, sinkVars, PCs
    <3>2. NoLostSignal' /\ EveryoneTold'
      BY <2>2, <2>5, QuietStep DEF KmsgRuns, KmsgLeaves, KmsgReconfigures, KmsgEnds, KmsgFails, Goto,
           DrainInv, DrainerTypeOK, subVars
    <3>3. FirstRunSubscribed'
      <4>1. \A d \in Sinks : at'[d] = at[d]
        BY <2>2, <2>5 DEF KmsgRuns, KmsgLeaves, KmsgReconfigures, KmsgEnds, KmsgFails, Goto,
             DrainInv, DrainerTypeOK, Controllers
      <4>2. \A d \in Sinks : fails'[d] = fails[d]
        BY <2>2, <2>5 DEF KmsgRuns, KmsgLeaves, KmsgReconfigures, KmsgEnds, KmsgFails, Failed,
             DrainInv, DrainerTypeOK, Controllers
      <4>3. UNCHANGED <<subs, drainSub>>
        BY <2>5 DEF KmsgRuns, KmsgLeaves, KmsgReconfigures, KmsgEnds, KmsgFails, drainerVars, subVars
      <4> QED BY <4>1, <4>2, <4>3 DEF DrainInv, FirstRunSubscribed
    <3> QED BY <3>1, <3>2, <3>3 DEF DrainInv
  <2> QED BY <2>1, <2>3, <2>4, <2>5 DEF KmsgStep
<1>f. CASE UNCHANGED deliveryVars
  BY <1>f DEF deliveryVars, drainerVars, subVars, sinkVars, DrainInv, DrainerTypeOK, NoLostSignal, EveryoneTold,
       FirstRunSubscribed, Signalling
<1> QED BY <1>a, <1>b, <1>c, <1>d, <1>e, <1>f DEF DrainerNext

(* The inductive invariant holds throughout. *)
THEOREM DrainInvariant == DrainerSpec => []DrainInv
  BY DrainInvInit, DrainInvStep, PTL DEF DrainerSpec

(* The drainer's and its users' variables keep their types: a subscription *)
(* is one that a controller holds.                                         *)
THEOREM DrainerTypeCorrect == DrainerSpec => []DrainerTypeOK
<1>1. DrainInv => DrainerTypeOK
  BY DEF DrainInv
<1> QED BY <1>1, DrainInvariant, PTL

(* Drain is never left asleep without a subscription and without a signal, *)
(* however many controllers cancel at once through the one-slot channel.   *)
THEOREM SignalsNeverLost == DrainerSpec => []NoLostSignal
<1>1. DrainInv => NoLostSignal
  BY DEF DrainInv
<1> QED BY <1>1, DrainInvariant, PTL

(* Every subscription, made before or during the drain, is told of it. *)
THEOREM SubscribersTold == DrainerSpec => []EveryoneTold
<1>1. DrainInv => EveryoneTold
  BY DEF DrainInv
<1> QED BY <1>1, DrainInvariant, PTL

(* Drain does not succeed while a sink that has never failed still knows   *)
(* of a backlog.                                                           *)
THEOREM DrainAwaitsBacklog == DrainerSpec => BacklogAwaited
<1>1. DrainInv /\ [DrainerNext]_deliveryVars
        => [drain # "drained" /\ drain' = "drained"
            => \A c \in Sinks : at[c] = "loop" /\ backlog[c] > 0 => fails[c] > 0]_deliveryVars
  <2> SUFFICES ASSUME DrainInv, [DrainerNext]_deliveryVars, drain # "drained", drain' = "drained",
                      NEW c \in Sinks, at[c] = "loop"
               PROVE  fails[c] > 0
    OBVIOUS
  <2>1. DrainChecks
    BY DEF DrainerNext, DrainStep, DrainBegins, DrainWakes, DrainTimesOut, CancelContext, Cancel,
         CancelRemoves, CancelSignals, Restart, SinkStep, EventPublished, SinkRuns, NetworkReady,
         SinkCanceled, SinkDrains, SinkPublishes, SinkFails, SinkReconfigures, KmsgStep, KmsgRuns,
         KmsgDelivers, KmsgDrains, KmsgLeaves, KmsgReconfigures, KmsgEnds, KmsgFails, deliveryVars,
         drainerVars
  <2>2. subs = {}
    BY <2>1 DEF DrainChecks
  <2>3. fails[c] # 0
    BY <2>2 DEF DrainInv, FirstRunSubscribed
  <2>4. fails[c] \in Nat
    BY DrainerAssumption DEF DrainInv, DrainerTypeOK, Controllers
  <2> QED BY <2>3, <2>4
<1> QED BY <1>1, DrainInvariant, PTL DEF DrainerSpec, BacklogAwaited

=============================================================================
