------------------------------ MODULE Mailbox ------------------------------
(***************************************************************************)
(* The callback mailbox of the RTC package (mailbox.go).  Any number of    *)
(* native callback threads post events; at most one goroutine, started on  *)
(* demand, drains them and runs the application's handlers outside the     *)
(* lock; the owner closes the mailbox in two phases around a native close  *)
(* that may fail.  Every action is one critical section of mailbox.mu.     *)
(*                                                                         *)
(* An event is its sequence number, so 0 (nextEvent starts at 1) is nil.   *)
(* Left out: nil callbacks (every post returns at once), the test-only     *)
(* pause switch, and a panicking handler, which ends the process.          *)
(***************************************************************************)
EXTENDS Naturals, Sequences, Functions

CONSTANTS DataCapacity,     \* mailboxDataCapacity (256 in the code)
          ControlCapacity,  \* mailboxControlCapacity (32 in the code)
          Drainers,         \* identities for drain goroutines
          Closers,          \* goroutines that close the owner
          Waiters,          \* goroutines that call waitIdle
          MaxPosts          \* bound on accepted events; no bound in the code

ASSUME MailboxAssumption ==
  /\ DataCapacity \in Nat \ {0}
  /\ ControlCapacity \in Nat \ {0}
  /\ MaxPosts \in Nat

VARIABLES data, control,    \* the two bounded FIFO lanes
          latest,           \* latest-wins state slot
          terminal,         \* reserved terminal slot, never replaced
          stopRequest,      \* reserved stop slot, replaced, runs first
          next,             \* last sequence number given out
          draining,         \* a drain goroutine has been started
          closing, closed, overflowed,
          inHandler,        \* number of handlers being run
          drain,            \* each drain goroutine: "none", "loop", "handler"
          event,            \* the event each drain goroutine took last
          closer,           \* each closer: "idle", "checked", "begun"
          waiting,          \* goroutines inside waitIdle
          asleep,           \* those of them blocked on the condition variable
          lastOrdinary      \* history: last event taken that is no stop request

lanes == <<data, control, latest, terminal, stopRequest>>
goroutines == <<drain, event>>
waits == <<waiting, asleep>>
vars == <<lanes, next, draining, closing, closed, overflowed, inHandler,
          goroutines, closer, waits, lastOrdinary>>

Nil == 0

\* Events other than a stop request, waiting to be run.
Ordinary == Range(data) \cup Range(control)
              \cup ({latest, terminal} \ {Nil})

Pending == Ordinary \cup ({stopRequest} \ {Nil})

\* Mutant: the latest slot is forgotten.
hasEventsButLatest == data # <<>> \/ control # <<>> \/ terminal # Nil
                        \/ stopRequest # Nil

hasEvents == \/ data # <<>>
             \/ control # <<>>
             \/ latest # Nil
             \/ terminal # Nil
             \/ stopRequest # Nil

Idle == inHandler = 0 /\ ~draining /\ ~hasEvents

Init == /\ data = <<>>
        /\ control = <<>>
        /\ latest = Nil
        /\ terminal = Nil
        /\ stopRequest = Nil
        /\ next = 0
        /\ draining = FALSE
        /\ closing = FALSE
        /\ closed = FALSE
        /\ overflowed = FALSE
        /\ inHandler = 0
        /\ drain = [d \in Drainers |-> "none"]
        /\ event = [d \in Drainers |-> Nil]
        /\ closer = [c \in Closers |-> "idle"]
        /\ waiting = {}
        /\ asleep = {}
        /\ lastOrdinary = 0

-----------------------------------------------------------------------------
(* Posting *)

\* Mutant: the draining flag is not consulted.
scheduleAlways == /\ draining' = TRUE
                  /\ \E d \in Drainers : /\ drain[d] = "none"
                                         /\ drain' = [drain EXCEPT ![d] = "loop"]

\* Start a drain goroutine unless one is there already.
scheduleLocked ==
  \/ /\ draining
     /\ UNCHANGED <<draining, drain>>
  \/ /\ ~draining
     /\ draining' = TRUE
     /\ \E d \in Drainers : /\ drain[d] = "none"
                            /\ drain' = [drain EXCEPT ![d] = "loop"]

\* Mutant: nobody is woken.
noBroadcast == UNCHANGED asleep

broadcastLocked == asleep' = {}

\* Mutant: off by one.
HasSomeRoom(lane, capacity) == Len(lane) <= capacity

HasRoom(lane, capacity) == Len(lane) < capacity

\* What every accepted post does once the lane or slot has room.
nextEvent ==
  /\ ~closed
  /\ ~closing
  /\ next < MaxPosts
  /\ next' = next + 1
  /\ scheduleLocked
  /\ UNCHANGED <<closing, closed, overflowed, inHandler, event, closer,
                 waits, lastOrdinary>>

postData ==
  /\ HasRoom(data, DataCapacity)
  /\ data' = Append(data, next + 1)
  /\ nextEvent
  /\ UNCHANGED <<control, latest, terminal, stopRequest>>

postControl ==
  /\ HasRoom(control, ControlCapacity)
  /\ control' = Append(control, next + 1)
  /\ nextEvent
  /\ UNCHANGED <<data, latest, terminal, stopRequest>>

\* A post to a full lane is refused and leaves a mark.
postOverflow ==
  /\ ~closed
  /\ ~closing
  /\ ~HasRoom(data, DataCapacity) \/ ~HasRoom(control, ControlCapacity)
  /\ overflowed' = TRUE
  /\ UNCHANGED <<lanes, next, draining, closing, closed, inHandler,
                 goroutines, closer, waits, lastOrdinary>>

postLatest ==
  /\ latest' = next + 1
  /\ nextEvent
  /\ UNCHANGED <<data, control, terminal, stopRequest>>

postTerminal ==
  /\ terminal = Nil
  /\ terminal' = next + 1
  /\ nextEvent
  /\ UNCHANGED <<data, control, latest, stopRequest>>

postStopRequest ==
  /\ stopRequest' = next + 1
  /\ nextEvent
  /\ UNCHANGED <<data, control, latest, terminal>>

-----------------------------------------------------------------------------
(* Draining *)

\* The oldest event of each lane and slot.
Heads == {lane[1] : lane \in {data, control} \ {<<>>}}
           \cup ({latest, terminal} \ {Nil})

\* Mutant: any lane may go first.
AnyHead(e) == e \in Heads

Oldest(e) == e \in Heads /\ \A f \in Heads : e <= f

Dequeue(lane, e) == IF lane # <<>> /\ lane[1] = e THEN Tail(lane) ELSE lane

\* Mutant: the slot keeps the event it gave out.
KeepSlot(slot, e) == slot

Vacate(slot, e) == IF slot = e THEN Nil ELSE slot

takeStopRequest ==
  /\ stopRequest # Nil
  /\ stopRequest' = Nil
  /\ UNCHANGED <<data, control, latest, terminal, lastOrdinary>>

takeOrdinary(e) ==
  /\ stopRequest = Nil
  /\ Oldest(e)
  /\ data' = Dequeue(data, e)
  /\ control' = Dequeue(control, e)
  /\ latest' = Vacate(latest, e)
  /\ terminal' = Vacate(terminal, e)
  /\ lastOrdinary' = e
  /\ UNCHANGED stopRequest

\* takeNextLocked, and the step of drain that calls it.
drainTake(d, e) ==
  /\ drain[d] = "loop"
  /\ ~closed
  /\ ~closing
  /\ \/ e = stopRequest /\ takeStopRequest
     \/ takeOrdinary(e)
  /\ inHandler' = inHandler + 1
  /\ drain' = [drain EXCEPT ![d] = "handler"]
  /\ event' = [event EXCEPT ![d] = e]
  /\ UNCHANGED <<next, draining, closing, closed, overflowed, closer, waits>>

\* Nothing to do, or nothing may be done any more: the goroutine ends.
drainExit(d) ==
  /\ drain[d] = "loop"
  /\ closed \/ closing \/ ~hasEvents
  /\ draining' = FALSE
  /\ drain' = [drain EXCEPT ![d] = "none"]
  /\ broadcastLocked
  /\ UNCHANGED <<lanes, next, closing, closed, overflowed, inHandler, event,
                 closer, waiting, lastOrdinary>>

\* The handler has returned; the goroutine goes round its loop.
run(d) ==
  /\ drain[d] = "handler"
  /\ inHandler' = inHandler - 1
  /\ drain' = [drain EXCEPT ![d] = "loop"]
  /\ event' = [event EXCEPT ![d] = Nil]
  /\ broadcastLocked
  /\ UNCHANGED <<lanes, next, draining, closing, closed, overflowed, closer,
                 waiting, lastOrdinary>>

-----------------------------------------------------------------------------
(* Closing: preflightClose, then beginClose, then the owner's native close, *)
(* then finishClose or cancelClose                                          *)

clearLanes == /\ data' = <<>>
              /\ control' = <<>>
              /\ latest' = Nil
              /\ terminal' = Nil
              /\ stopRequest' = Nil

InUse == closing \/ inHandler # 0

preflightClose(c) ==
  /\ closer[c] = "idle"
  /\ ~InUse
  /\ closer' = [closer EXCEPT ![c] = "checked"]
  /\ UNCHANGED <<lanes, next, draining, closing, closed, overflowed, inHandler,
                 goroutines, waits, lastOrdinary>>

beginClose(c) ==
  /\ closer[c] = "checked"
  /\ ~closed
  /\ ~InUse
  /\ closing' = TRUE
  /\ clearLanes
  /\ broadcastLocked
  /\ closer' = [closer EXCEPT ![c] = "begun"]
  /\ UNCHANGED <<next, draining, closed, overflowed, inHandler, goroutines,
                 waiting, lastOrdinary>>

\* beginClose on a closed mailbox succeeds and changes nothing.
beginCloseClosed(c) ==
  /\ closer[c] = "checked"
  /\ closed
  /\ closer' = [closer EXCEPT ![c] = "begun"]
  /\ UNCHANGED <<lanes, next, draining, closing, closed, overflowed, inHandler,
                 goroutines, waits, lastOrdinary>>

\* ErrInUse: a handler started, or another close began, after the preflight.
beginCloseRefused(c) ==
  /\ closer[c] = "checked"
  /\ ~closed
  /\ InUse
  /\ closer' = [closer EXCEPT ![c] = "idle"]
  /\ UNCHANGED <<lanes, next, draining, closing, closed, overflowed, inHandler,
                 goroutines, waits, lastOrdinary>>

\* The native close failed: the owner stays usable.
cancelClose(c) ==
  /\ closer[c] = "begun"
  /\ closing' = (closing /\ closed)
  /\ IF ~closed /\ hasEvents THEN scheduleLocked
                             ELSE UNCHANGED <<draining, drain>>
  /\ broadcastLocked
  /\ closer' = [closer EXCEPT ![c] = "idle"]
  /\ UNCHANGED <<lanes, next, closed, overflowed, inHandler, event, waiting,
                 lastOrdinary>>

finishClose(c) ==
  /\ closer[c] = "begun"
  /\ closed' = TRUE
  /\ closing' = FALSE
  /\ clearLanes
  /\ broadcastLocked
  /\ closer' = [closer EXCEPT ![c] = "idle"]
  /\ UNCHANGED <<next, draining, overflowed, inHandler, goroutines, waiting,
                 lastOrdinary>>

-----------------------------------------------------------------------------
(* waitIdle *)

\* Entering, or waking up, while there is still something to wait for.
waitIdleSleep(w) ==
  /\ w \notin asleep
  /\ ~Idle
  /\ waiting' = waiting \cup {w}
  /\ asleep' = asleep \cup {w}
  /\ UNCHANGED <<lanes, next, draining, closing, closed, overflowed, inHandler,
                 goroutines, closer, lastOrdinary>>

waitIdleReturn(w) ==
  /\ w \in waiting \ asleep
  /\ Idle
  /\ waiting' = waiting \ {w}
  /\ UNCHANGED <<lanes, next, draining, closing, closed, overflowed, inHandler,
                 goroutines, closer, asleep, lastOrdinary>>

-----------------------------------------------------------------------------
Post == postData \/ postControl \/ postOverflow \/ postLatest \/ postTerminal
          \/ postStopRequest

Drain(d) == \/ \E e \in Pending : drainTake(d, e)
            \/ drainExit(d)

EndClose(c) == cancelClose(c) \/ finishClose(c)

Close(c) == \/ preflightClose(c)
            \/ beginClose(c)
            \/ beginCloseClosed(c)
            \/ beginCloseRefused(c)
            \/ EndClose(c)

WaitIdle(w) == waitIdleSleep(w) \/ waitIdleReturn(w)

Next == \/ Post
        \/ \E d \in Drainers : Drain(d) \/ run(d)
        \/ \E c \in Closers : Close(c)
        \/ \E w \in Waiters : WaitIdle(w)

Spec == Init /\ [][Next]_vars

(***************************************************************************)
(* Goroutines are scheduled fairly: a started drain goroutine goes on, a   *)
(* handler returns (the SDK asks it of the application), a native close    *)
(* returns, a woken waiter runs.  Nothing obliges anyone to post or close. *)
(***************************************************************************)
Fairness == /\ \A d \in Drainers : WF_vars(Drain(d)) /\ WF_vars(run(d))
            /\ \A c \in Closers : WF_vars(EndClose(c))
            /\ \A w \in Waiters : WF_vars(w \in waiting /\ WaitIdle(w))

FairSpec == Spec /\ Fairness
-----------------------------------------------------------------------------
(* Properties *)

Active(d) == drain[d] # "none"

\* Every variable has its type, and the bounded lanes respect the capacities
\* that keep callback memory fixed (mailbox.go:5-10).
TypeOK ==
  /\ data \in Seq(Nat \ {Nil}) /\ Len(data) <= DataCapacity
  /\ control \in Seq(Nat \ {Nil}) /\ Len(control) <= ControlCapacity
  /\ latest \in Nat /\ terminal \in Nat /\ stopRequest \in Nat
  /\ next \in Nat /\ inHandler \in Nat /\ lastOrdinary \in Nat
  /\ draining \in BOOLEAN /\ closing \in BOOLEAN
  /\ closed \in BOOLEAN /\ overflowed \in BOOLEAN
  /\ drain \in [Drainers -> {"none", "loop", "handler"}]
  /\ event \in [Drainers -> Nat]
  /\ closer \in [Closers -> {"idle", "checked", "begun"}]
  /\ waiting \in SUBSET Waiters /\ asleep \in SUBSET waiting

\* However posts, closes and cancelled closes interleave with a goroutine that
\* is about to exit, there is never a second drain goroutine, and the draining
\* flag and the inHandler count tell the truth about the one there is: handlers
\* of one object never overlap (scheduleLocked, drain, run).
SingleDrainer ==
  /\ \A d1, d2 \in Drainers : Active(d1) /\ Active(d2) => d1 = d2
  /\ draining <=> \E d \in Drainers : Active(d)
  /\ inHandler = IF \E d \in Drainers : drain[d] = "handler" THEN 1 ELSE 0

\* While the mailbox is open no accepted event is left without a goroutine that
\* will come to it, also after a cancelled close (scheduleLocked, cancelClose).
NoLostWakeup == Pending # {} /\ ~closing /\ ~closed => draining

\* From the start of a close to its end, and ever after, no handler runs:
\* the native object may be destroyed under no callback's feet (beginClose).
CloseExcludesHandler == closing \/ closed => inHandler = 0

\* A close empties the mailbox and a close in progress has exactly one owner,
\* who alone can end it: two closers never both reach the native close.
CloseIsOwned ==
  /\ closed => ~closing
  /\ closing \/ closed => Pending = {}
  /\ closing <=> ~closed /\ \E c \in Closers : closer[c] = "begun"
  /\ closing => \A c1, c2 \in Closers :
                  closer[c1] = "begun" /\ closer[c2] = "begun" => c1 = c2

\* Events other than stop requests run in the order they were accepted, across
\* lanes, slots and replaced slots: whatever waits is newer than whatever ran.
OrdinaryOrder == \A e \in Ordinary : lastOrdinary < e /\ e <= next

Executing == {event[d] : d \in {x \in Drainers : drain[x] = "handler"}}

Phase == IF closed THEN "closed" ELSE IF closing THEN "closing" ELSE "open"

Contract == INSTANCE SerialExecutor
              WITH accepted <- next, pending <- Pending,
                   running <- Executing, phase <- Phase

\* The mailbox implements the abstract serial executor: one callback at a time,
\* each at most once, none while closing, a close between callbacks only.
ImplementsSerialExecutor == Contract!Spec

\* Every accepted event is run, superseded or dropped by a close: none waits
\* for ever behind other events or a cancelled close; and a call of waitIdle
\* returns once posting ceases, as detachFromClient relies on (mailbox.go:268-277).
EventsSettle ==
  /\ \A e \in 1..MaxPosts : e \in Pending ~> e \notin Pending
  /\ \A w \in Waiters : w \in waiting ~> w \notin waiting
=============================================================================
