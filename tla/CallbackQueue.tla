--------------------------- MODULE CallbackQueue ---------------------------
(***************************************************************************)
(* The callback queue of the storage package (storage/queue.go): one       *)
(* worker goroutine, bounded lanes, three critical slots, and a single     *)
(* condition variable on which the worker, blocked producers, waitIdle and *)
(* close all sleep.  Posts wake with Signal, which wakes one sleeper,      *)
(* whoever that is; the worker and close wake with Broadcast.  Every       *)
(* action is one critical section of queue.mu; the worker keeps the lock   *)
(* from the end of one callback to the start of the next, or to its sleep. *)
(*                                                                         *)
(* An event is the number of its acceptance, 0 is nil.  A nil event and a  *)
(* refused non-blocking post change nothing and have no action.  Panics of *)
(* callbacks are recovered by the worker and so end like a return.         *)
(***************************************************************************)
EXTENDS Naturals, Sequences, FiniteSets, Functions

CONSTANTS Capacity,         \* callbackQueueCapacity (256 in the code)
          ControlCapacity,  \* callbackControlCapacity (16 in the code)
          Callers,          \* goroutines in postReliable, waitIdle or close
          Worker,           \* the goroutine of run
          MaxPosts          \* bound on accepted events; no bound in the code

ASSUME QueueAssumption ==
  /\ Capacity \in Nat \ {0}
  /\ ControlCapacity \in Nat \ {0}
  /\ MaxPosts \in Nat
  /\ Worker \notin Callers

TerminalState == 0
Error == 1
LatestState == 2
Slots == {TerminalState, Error, LatestState}
Nil == 0

VARIABLES events, controls, critical, active, closed, stopped,
          worker,     \* "start", "waiting", "callback" or "done"
          executing,  \* the event the worker took last
          op,         \* the call each caller is blocked in, or "none"
          asleep,     \* the wait set of queue.cond
          next,       \* number of accepted events
          ran,        \* history: events whose callback has run
          superseded  \* history: latest-state events that were replaced

lanes == <<events, controls, critical>>
workers == <<active, stopped, worker, executing, ran>>
vars == <<lanes, workers, closed, op, asleep, next, superseded>>

Pending == (Range(events) \cup Range(controls) \cup Range(critical))
             \ {Nil}

hasCritical == \E slot \in Slots : critical[slot] # Nil

HasWork == hasCritical \/ controls # <<>> \/ events # <<>>

idle == active = 0 /\ ~HasWork

Init == /\ events = <<>>
        /\ controls = <<>>
        /\ critical = [slot \in Slots |-> Nil]
        /\ active = 0
        /\ closed = FALSE
        /\ stopped = FALSE
        /\ worker = "start"
        /\ executing = Nil
        /\ op = [c \in Callers |-> "none"]
        /\ asleep = {}
        /\ next = 0
        /\ ran = {}
        /\ superseded = {}

Signal == \/ asleep = {} /\ asleep' = {}
          \/ \E t \in asleep : asleep' = asleep \ {t}

\* Mutant: wakes one where all must wake.
SignalOne == Signal

Broadcast == asleep' = {}

-----------------------------------------------------------------------------
(* Posting *)

\* Mutant: one event too many.
SomeRoom(lane, capacity) == Len(lane) <= capacity

HasRoom(lane, capacity) == Len(lane) < capacity

\* The bound on posts, one of which each blocked producer has reserved.
MayPost == next + Cardinality({c \in Callers : op[c] = "reliable"}) < MaxPosts

accept == /\ ~closed
          /\ next' = next + 1
          /\ Signal
          /\ UNCHANGED <<workers, closed>>

post == /\ MayPost
        /\ HasRoom(events, Capacity)
        /\ events' = Append(events, next + 1)
        /\ accept
        /\ UNCHANGED <<controls, critical, op, superseded>>

postControl == /\ MayPost
               /\ HasRoom(controls, ControlCapacity)
               /\ controls' = Append(controls, next + 1)
               /\ accept
               /\ UNCHANGED <<events, critical, op, superseded>>

\* An occupied slot keeps its event (and the post changes nothing), except
\* that a newer latest state replaces the older one.
postCritical(slot) ==
  /\ MayPost
  /\ critical[slot] = Nil \/ slot = LatestState
  /\ critical' = [critical EXCEPT ![slot] = next + 1]
  /\ superseded' = superseded \cup ({critical[slot]} \ {Nil})
  /\ accept
  /\ UNCHANGED <<events, controls, op>>

\* A call that finds room is a post; one that does not, waits for it.
postReliableWait(c) ==
  /\ op[c] = "reliable" \/ (op[c] = "none" /\ MayPost)
  /\ c \notin asleep
  /\ ~closed
  /\ ~HasRoom(events, Capacity)
  /\ op' = [op EXCEPT ![c] = "reliable"]
  /\ asleep' = asleep \cup {c}
  /\ UNCHANGED <<lanes, workers, closed, next, superseded>>

postReliableAccept(c) ==
  /\ op[c] = "reliable"
  /\ c \notin asleep
  /\ HasRoom(events, Capacity)
  /\ events' = Append(events, next + 1)
  /\ accept
  /\ op' = [op EXCEPT ![c] = "none"]
  /\ UNCHANGED <<controls, critical, superseded>>

postReliableRefused(c) ==
  /\ op[c] = "reliable"
  /\ c \notin asleep
  /\ closed
  /\ op' = [op EXCEPT ![c] = "none"]
  /\ UNCHANGED <<lanes, workers, closed, asleep, next, superseded>>

-----------------------------------------------------------------------------
(* The worker: each action runs from a (re)gained lock to its release *)

Resume == worker \in {"start", "waiting", "callback"} /\ Worker \notin asleep

\* The callback being executed; once the worker has the lock, the one that is over.
Executing == IF worker = "callback" THEN {executing} ELSE {}
activeNow == IF worker = "callback" THEN active - 1 ELSE active

\* Mutant: the slots are searched from the other end.
lastCritical(slot) == /\ critical[slot] # Nil
                      /\ \A s \in Slots : critical[s] # Nil => slot >= s

firstCritical(slot) == /\ critical[slot] # Nil
                       /\ \A s \in Slots : critical[s] # Nil => slot <= s

takeCritical(slot) == /\ firstCritical(slot)
                      /\ executing' = critical[slot]
                      /\ critical' = [critical EXCEPT ![slot] = Nil]
                      /\ UNCHANGED <<events, controls>>

\* Mutant: the event stays in its lane.
peekControl == /\ ~hasCritical
               /\ controls # <<>>
               /\ executing' = Head(controls)
               /\ UNCHANGED lanes

takeControl == /\ ~hasCritical
               /\ controls # <<>>
               /\ executing' = Head(controls)
               /\ controls' = Tail(controls)
               /\ UNCHANGED <<events, critical>>

takeEvent == /\ ~hasCritical
             /\ controls = <<>>
             /\ events # <<>>
             /\ executing' = Head(events)
             /\ events' = Tail(events)
             /\ UNCHANGED <<controls, critical>>

runTake == /\ Resume
           /\ (\E slot \in Slots : takeCritical(slot)) \/ takeControl \/ takeEvent
           /\ ran' = ran \cup Executing
           /\ active' = activeNow + 1
           /\ worker' = "callback"
           /\ Broadcast
           /\ UNCHANGED <<stopped, closed, op, next, superseded>>

runWait == /\ Resume
           /\ ~HasWork
           /\ ~closed
           /\ ran' = ran \cup Executing
           /\ active' = activeNow
           /\ worker' = "waiting"
           /\ asleep' = (IF worker = "callback" THEN {} ELSE asleep) \cup {Worker}
           /\ UNCHANGED <<lanes, stopped, executing, closed, op, next, superseded>>

runStop == /\ Resume
           /\ ~HasWork
           /\ closed
           /\ ran' = ran \cup Executing
           /\ active' = activeNow
           /\ stopped' = TRUE
           /\ worker' = "done"
           /\ Broadcast
           /\ UNCHANGED <<lanes, executing, closed, op, next, superseded>>

-----------------------------------------------------------------------------
(* waitIdle and close *)

waitIdleWait(c) ==
  /\ op[c] \in {"none", "waitIdle"}
  /\ c \notin asleep
  /\ ~idle
  /\ op' = [op EXCEPT ![c] = "waitIdle"]
  /\ asleep' = asleep \cup {c}
  /\ UNCHANGED <<lanes, workers, closed, next, superseded>>

waitIdleReturn(c) ==
  /\ op[c] = "waitIdle"
  /\ c \notin asleep
  /\ idle
  /\ op' = [op EXCEPT ![c] = "none"]
  /\ UNCHANGED <<lanes, workers, closed, asleep, next, superseded>>

\* Mutant: close waits without telling anyone.
closeQuietly(c) == /\ op[c] = "none" /\ ~stopped
                   /\ closed' = TRUE
                   /\ asleep' = asleep \cup {c}
                   /\ op' = [op EXCEPT ![c] = "close"]
                   /\ UNCHANGED <<lanes, workers, next, superseded>>

\* On a queue that has stopped already, close changes nothing.
close(c) ==
  /\ op[c] = "none"
  /\ ~stopped
  /\ closed' = TRUE
  /\ asleep' = {c}
  /\ op' = [op EXCEPT ![c] = "close"]
  /\ UNCHANGED <<lanes, workers, next, superseded>>

closeWait(c) ==
  /\ op[c] = "close"
  /\ c \notin asleep
  /\ ~stopped
  /\ asleep' = asleep \cup {c}
  /\ UNCHANGED <<lanes, workers, closed, op, next, superseded>>

closeReturn(c) ==
  /\ op[c] = "close"
  /\ c \notin asleep
  /\ stopped
  /\ op' = [op EXCEPT ![c] = "none"]
  /\ UNCHANGED <<lanes, workers, closed, asleep, next, superseded>>

-----------------------------------------------------------------------------
Post == post \/ postControl \/ \E slot \in Slots : postCritical(slot)

Run == runTake \/ runWait \/ runStop

\* What a goroutine blocked in a call does when it holds the lock again.
Blocked(c) == \/ postReliableWait(c) \/ postReliableAccept(c)
              \/ postReliableRefused(c)
              \/ waitIdleWait(c) \/ waitIdleReturn(c)
              \/ closeWait(c) \/ closeReturn(c)

Next == \/ Post
        \/ Run
        \/ \E c \in Callers : Blocked(c) \/ close(c)

Spec == Init /\ [][Next]_vars

(***************************************************************************)
(* The worker and woken callers are scheduled, and callbacks return.       *)
(* Nobody must post or close.  MaxPosts makes posting cease, so that a     *)
(* producer loses the race for a free place only finitely often.           *)
(***************************************************************************)
Fairness == /\ WF_vars(Run)
            /\ \A c \in Callers : WF_vars(op[c] # "none" /\ Blocked(c))

FairSpec == Spec /\ Fairness

-----------------------------------------------------------------------------
(* The queue as a DrainingExecutor: the slots are urgencies of their own *)

Control == 3
Ordinary == 4

waiting == {<<s, critical[s]>> : s \in {t \in Slots : critical[t] # Nil}}
             \cup ({Control} \X Range(controls)) \cup ({Ordinary} \X Range(events))

queuePhase == IF stopped THEN "stopped" ELSE IF closed THEN "closing" ELSE "open"

Contract == INSTANCE DrainingExecutor WITH
              Urgencies <- Slots \cup {Control, Ordinary},
              Single <- Slots, Replaceable <- {LatestState},
              accepted <- next, pending <- waiting,
              running <- Executing, phase <- queuePhase

-----------------------------------------------------------------------------
(* Properties *)

\* Every variable has its type and the bounded lanes their capacity
\* (storage/queue.go:12-19).
TypeOK ==
  /\ events \in Seq(Nat \ {Nil}) /\ Len(events) <= Capacity
  /\ controls \in Seq(Nat \ {Nil}) /\ Len(controls) <= ControlCapacity
  /\ critical \in [Slots -> Nat]
  /\ active \in {0, 1} /\ next \in Nat /\ executing \in Nat
  /\ closed \in BOOLEAN /\ stopped \in BOOLEAN
  /\ worker \in {"start", "waiting", "callback", "done"}
  /\ op \in [Callers -> {"none", "reliable", "waitIdle", "close"}]
  /\ asleep \in SUBSET (Callers \cup {Worker})
  /\ ran \in SUBSET Nat /\ superseded \in SUBSET Nat

\* A post wakes one sleeper with Signal although producers, waitIdle and close
\* sleep on the same condition variable.  That is enough because whenever the
\* worker sleeps, nobody else does, and it sleeps only on an empty open queue.
WorkerSleepsAlone ==
  Worker \in asleep => /\ asleep = {Worker}
                       /\ ~HasWork
                       /\ active = 0
                       /\ ~closed

\* An accepted event is never lost and never run twice: it waits, is executing,
\* has run, or was a latest state replaced by a newer one, and only one of these.
NothingLost ==
  /\ 1..next = Pending \cup Executing \cup ran \cup superseded
  /\ Pending \cap (Executing \cup ran \cup superseded) = {}
  /\ Executing \cap (ran \cup superseded) = {}
  /\ ran \cap superseded = {}

\* When close has seen the worker stop, every accepted event has run: closing
\* drains the queue and does not discard it.
CloseDrains == stopped => closed /\ 1..next = ran \cup superseded

\* Callbacks run one at a time, a critical one before control and control
\* before ordinary events, the oldest of a lane first; only a newer latest
\* state replaces one that waits, and close stops the worker only when nothing
\* waits, also while a callback, its successor and a close overlap
\* (queue.go:77-142, 195-203).
ImplementsDrainingExecutor == Contract!Spec

\* No event leaves the ordinary lane while an older one stays, whoever posted
\* them and whatever control and critical events ran in between.
OrdinaryFIFO == [][\A e, f \in Range(events) :
                     e < f /\ f \notin Range(events') => e \notin Range(events')]_vars

\* An accepted event is eventually run or replaced, also when the queue closes,
\* and a blocked call returns: backpressure ends, waitIdle sees the queue idle
\* once posting ceases, and close returns (queue.go:60-75, 181-203).
QueueSettles ==
  /\ \A e \in 1..MaxPosts : e <= next ~> e \in ran \cup superseded
  /\ \A c \in Callers : op[c] # "none" ~> op[c] = "none"
=============================================================================
