------------------------------- MODULE Events -------------------------------
(***************************************************************************)
(* The runtime's event stream, v1alpha1_events.go: publishers append to a  *)
(* ring buffer and wake the consumers, each consumer reads at its own pace *)
(* and is dropped when the publishers have lapped it.                      *)
(*                                                                         *)
(* An event is its ID and its actor.  IDs are taken in the order of        *)
(* creation, which is before e.mu is locked.  A consumer is the goroutine  *)
(* of one Watch with the WatchFunc it serves.  e.mu is held by whole       *)
(* actions.                                                                *)
(***************************************************************************)
EXTENDS Integers, Sequences

CONSTANTS
  Publishers,  \* goroutines that publish, each under an actor ID of its own
  Consumers,   \* calls of Watch
  Options,     \* the WatchOptions they may be made with
  Cap, Gap,    \* e.cap and e.gap
  MaxEvents    \* bound: events created

ASSUME CapAssumption == Cap \in Nat /\ Gap \in Nat /\ Gap < Cap

(* Exactly one of the three tails, and an actor to filter by or AnyActor.  *)
AnyActor == "any"
ASSUME OptionsAssumption ==
  /\ Options \subseteq [tail : {"next", "last", "after"}, arg : Int,
                        actor : Publishers \union {AnyActor}]
  /\ Publishers # {}
  /\ MaxEvents \in Nat

VARIABLES
  writePos,  \* e.writePos
  stream,    \* e.stream
  log,       \* history: every event published, in order
  created,   \* IDs given out so far
  hand,      \* the ID of the event each publisher is about to publish, 0 for none
  pc,        \* where each consumer's goroutine is
  opts,      \* its options
  pos,       \* its read position
  cur,       \* the event it is sending
  exited,    \* its WatchFunc has returned
  joined,    \* history: e.writePos when Watch was called
  start,     \* history: its initial position
  got        \* history: the events its WatchFunc has received

pubVars == <<writePos, stream, log, created, hand>>
conVars == <<pc, opts, pos, cur, exited, joined, start, got>>
vars == <<pubVars, conVars>>

-----------------------------------------------------------------------------
Event == [id : Nat, actor : Publishers]
NoEvent == [id |-> 0, actor |-> CHOOSE p \in Publishers : TRUE]

NoOptions == [tail |-> "next", arg |-> 0, actor |-> AnyActor]

ConsumerPCs == {"off", "read", "asleep", "woken", "send", "closed"}

TypeOK ==
  /\ writePos \in Nat
  /\ stream \in [0..(Cap - 1) -> Event]
  /\ log \in Seq(Event) /\ Len(log) = writePos
  /\ created \in Nat
  /\ hand \in [Publishers -> Nat]
  /\ pc \in [Consumers -> ConsumerPCs]
  /\ opts \in [Consumers -> Options \union {NoOptions}]
  /\ pos \in [Consumers -> Nat]
  /\ cur \in [Consumers -> Event]
  /\ exited \in [Consumers -> BOOLEAN]
  /\ joined \in [Consumers -> Nat]
  /\ start \in [Consumers -> Nat]
  /\ got \in [Consumers -> Seq(Event)]

(* NewEvents *)
Init ==
  /\ writePos = 0
  /\ stream = [i \in 0..(Cap - 1) |-> NoEvent]
  /\ log = <<>>
  /\ created = 0
  /\ hand = [p \in Publishers |-> 0]
  /\ pc = [c \in Consumers |-> "off"]
  /\ opts = [c \in Consumers |-> NoOptions]
  /\ pos = [c \in Consumers |-> 0]
  /\ cur = [c \in Consumers |-> NoEvent]
  /\ exited = [c \in Consumers |-> FALSE]
  /\ joined = [c \in Consumers |-> 0]
  /\ start = [c \in Consumers |-> 0]
  /\ got = [c \in Consumers |-> <<>>]

-----------------------------------------------------------------------------
(* Publish *)

(* runtime.NewEvent: the ID is taken before the lock. *)
NewEvent(p) ==
  /\ hand[p] = 0
  /\ created < MaxEvents
  /\ created' = created + 1
  /\ hand' = [hand EXCEPT ![p] = created + 1]
  /\ UNCHANGED <<writePos, stream, log, conVars>>

(* Mutant: Publish without the Broadcast. *)
PublishSilent(p) ==
  /\ hand[p] # 0
  /\ LET event == [id |-> hand[p], actor |-> p] IN
     /\ stream' = [stream EXCEPT ![writePos % Cap] = event]
     /\ log' = Append(log, event)
  /\ writePos' = writePos + 1
  /\ hand' = [hand EXCEPT ![p] = 0]
  /\ UNCHANGED <<created, conVars>>

(* Write at writePos, increment, Broadcast. *)
Publish(p) ==
  /\ hand[p] # 0
  /\ LET event == [id |-> hand[p], actor |-> p] IN
     /\ stream' = [stream EXCEPT ![writePos % Cap] = event]
     /\ log' = Append(log, event)
  /\ writePos' = writePos + 1
  /\ hand' = [hand EXCEPT ![p] = 0]
  /\ pc' = [c \in Consumers |-> IF pc[c] = "asleep" THEN "woken" ELSE pc[c]]
  /\ UNCHANGED <<created, opts, pos, cur, exited, joined, start, got>>

-----------------------------------------------------------------------------
(* Watch *)

AtLeast(a, b) == IF a < b THEN b ELSE a

(* Mutant: the whole capacity is offered, without the gap. *)
MinPosNoGap == AtLeast(writePos - Cap, 0)

(* The oldest position a new consumer may start from. *)
MinPos == AtLeast(writePos - (Cap - Gap), 0)

(* sort.Search over the n events from MinPos on for the first whose ID is  *)
(* above id: it looks at the middle first, keeps the half that follows     *)
(* from it and returns a boundary, an index where the test holds (or n)    *)
(* right after one where it does not (or 0).  Up to n = 2 this leaves the  *)
(* one index the binary search returns, whatever the order of the IDs.     *)
Search(n, id) ==
  LET Above(i) == stream[(MinPos + i) % Cap].id > id
  IN  {i \in 0..n : /\ (i = n \/ Above(i)) /\ (i = 0 \/ ~Above(i - 1))
                    /\ n > 0 => (Above(n \div 2) <=> i <= n \div 2)}

(* The initial position: the next event, the last arg events (all of them  *)
(* when arg is negative), or those after the ID arg.  TailDuration searches *)
(* by the time in the ID and is not told apart from TailID.                 *)
InitialPos(o) ==
  CASE o.tail = "next"  -> {writePos}
    [] o.tail = "last"  -> {IF o.arg < 0 THEN MinPos ELSE AtLeast(writePos - o.arg, MinPos)}
    [] o.tail = "after" -> {MinPos + i : i \in Search(writePos - MinPos, o.arg)}

Watch(c, o) ==
  /\ pc[c] = "off"
  /\ pc' = [pc EXCEPT ![c] = "read"]
  /\ opts' = [opts EXCEPT ![c] = o]
  /\ joined' = [joined EXCEPT ![c] = writePos]
  /\ \E i \in InitialPos(o) :
       /\ pos' = [pos EXCEPT ![c] = i]
       /\ start' = [start EXCEPT ![c] = i]
  /\ UNCHANGED <<pubVars, cur, exited, got>>

(* The WatchFunc returns, at any time. *)
Exit(c) ==
  /\ pc[c] # "off"
  /\ ~exited[c]
  /\ exited' = [exited EXCEPT ![c] = TRUE]
  /\ UNCHANGED <<pubVars, pc, opts, pos, cur, joined, start, got>>

GotoC(c, from, to) == pc[c] = from /\ pc' = [pc EXCEPT ![c] = to]

(* Nothing to read: e.c.Wait. *)
Sleep(c) ==
  /\ GotoC(c, "read", "asleep")
  /\ pos[c] = writePos
  /\ UNCHANGED <<pubVars, opts, pos, cur, exited, joined, start, got>>

(* Mutant: a woken consumer goes on with the latest event. *)
WakeLatest(c) ==
  /\ GotoC(c, "woken", IF exited[c] THEN "closed" ELSE "read")
  /\ pos' = [pos EXCEPT ![c] = writePos - 1]
  /\ UNCHANGED <<pubVars, opts, cur, exited, joined, start, got>>

(* Wait returns: ctx.Done is looked at only here and in the send. *)
Wake(c) ==
  /\ GotoC(c, "woken", IF exited[c] THEN "closed" ELSE "read")
  /\ UNCHANGED <<pubVars, opts, pos, cur, exited, joined, start, got>>

(* Mutant: the distance to the publishers is not checked. *)
OverrunNever(c) == FALSE

(* The publishers may be about to overwrite the event at pos. *)
Overrun(c) == writePos - pos[c] >= Cap

Drop(c) ==
  /\ GotoC(c, "read", "closed")
  /\ pos[c] # writePos
  /\ Overrun(c)
  /\ UNCHANGED <<pubVars, opts, pos, cur, exited, joined, start, got>>

Matches(o, event) == o.actor = AnyActor \/ o.actor = event.actor

(* The next event; one of another actor is skipped. *)
Read(c) ==
  LET event == stream[pos[c] % Cap] IN
  /\ GotoC(c, "read", IF Matches(opts[c], event) THEN "send" ELSE "read")
  /\ pos[c] # writePos
  /\ ~Overrun(c)
  /\ cur' = [cur EXCEPT ![c] = event]
  /\ pos' = [pos EXCEPT ![c] = @ + 1]
  /\ UNCHANGED <<pubVars, opts, exited, joined, start, got>>

(* The WatchFunc receives it ... *)
Send(c) ==
  /\ GotoC(c, "send", "read")
  /\ ~exited[c]
  /\ got' = [got EXCEPT ![c] = Append(@, cur[c])]
  /\ UNCHANGED <<pubVars, opts, pos, cur, exited, joined, start>>

(* Mutant: the send does not look at ctx.Done. *)
AbandonNever(c) == FALSE /\ UNCHANGED vars

(* ... or has returned: case <-ctx.Done(). *)
Abandon(c) ==
  /\ GotoC(c, "send", "closed")
  /\ exited[c]
  /\ UNCHANGED <<pubVars, opts, pos, cur, exited, joined, start, got>>

ConsumerStep(c) == Sleep(c) \/ Wake(c) \/ Drop(c) \/ Read(c) \/ Abandon(c)

Next ==
  \/ \E p \in Publishers : NewEvent(p) \/ Publish(p)
  \/ \E c \in Consumers : \/ \E o \in Options : Watch(c, o)
                          \/ Exit(c)
                          \/ ConsumerStep(c)
                          \/ Send(c)

Spec == Init /\ [][Next]_vars

(* A consumer's goroutine proceeds when it can; the WatchFunc may be slow. *)
FairSpec == Spec /\ \A c \in Consumers : WF_vars(ConsumerStep(c))

-----------------------------------------------------------------------------
(* Properties *)

(* What a consumer sends is the event published at its position: it never  *)
(* reads a slot that a publisher has reused.                               *)
NoOverwrittenRead == \A c \in Consumers : pc[c] = "send" => cur[c] = log[pos[c]]

(* How far a consumer has read, and that f gives the positions at which    *)
(* the events that its WatchFunc has received were published: they are in  *)
(* order and are those that its filter lets through.                       *)
ReadTo(c) == IF pc[c] = "send" THEN pos[c] - 1 ELSE pos[c]

PublishedAt(c, f) ==
  /\ \A i, j \in 1..Len(got[c]) : i < j => f[i] < f[j]
  /\ \A i \in 1..Len(got[c]) : got[c][i] = log[f[i]]
  /\ \A k \in (start[c] + 1)..ReadTo(c) :
       Matches(opts[c], log[k]) <=> \E i \in 1..Len(got[c]) : f[i] = k

(* A WatchFunc has received every event from its initial position on that  *)
(* its filter lets through, each once and in the order of publication.     *)
NothingSkipped ==
  \A c \in Consumers :
    pc[c] \in {"read", "asleep", "woken", "send"} =>
      \E f \in [1..Len(got[c]) -> (start[c] + 1)..ReadTo(c)] : PublishedAt(c, f)

(* No wake-up is lost: a consumer sleeps only while there is nothing new. *)
NoLostWakeup == \A c \in Consumers : pc[c] = "asleep" => pos[c] = writePos

(* "gap is a safety gap between consumers and publishers": whatever tail   *)
(* it asks for, a consumer is not dropped before gap more events have been *)
(* published.                                                              *)
GapKept ==
  \A c \in Consumers : pc[c] = "closed" /\ ~exited[c] => writePos - joined[c] >= Gap

(* The goroutine of a WatchFunc that has returned ends as soon as it has   *)
(* an event to deliver: it does not wait for a receiver that is gone.      *)
GoroutineEnds ==
  \A c \in Consumers :
    (/\ exited[c]
     /\ \/ pc[c] = "send"
        \/ \E k \in (pos[c] + 1)..writePos : Matches(opts[c], log[k])) ~> (pc[c] = "closed")

=============================================================================
