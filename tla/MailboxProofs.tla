--------------------------- MODULE MailboxProofs ---------------------------
(***************************************************************************)
(* Proofs about Mailbox, for any capacities and any number of drain        *)
(* goroutines, closers, waiters and posts: the safety of its goroutines    *)
(* and closes, the order of its events, and that it implements the serial  *)
(* executor.                                                               *)
(***************************************************************************)
EXTENDS Mailbox, SequenceTheorems, TLAPS

(* Lanes of events, numbered in the order of their acceptance *)

Lane == Seq(Nat \ {0})

Increasing(lane) == \A i, j \in DOMAIN lane : i < j => lane[i] < lane[j]

\* The events of a lane are events.
LEMMA RangeType ==
  ASSUME NEW lane \in Lane
  PROVE  Range(lane) \subseteq Nat \ {0}
<1>1. \A i \in DOMAIN lane : lane[i] \in Nat \ {0}
  BY DEF Lane
<1>2. QED
  BY <1>1 DEF Range

\* Posting to a lane adds the event posted.
LEMMA RangeAppend ==
  ASSUME NEW lane \in Lane, NEW e \in Nat \ {0}
  PROVE  Range(Append(lane, e)) = Range(lane) \cup {e}
<1> DEFINE longer == Append(lane, e)
<1>1. /\ Len(lane) \in Nat /\ DOMAIN lane = 1 .. Len(lane)
      /\ DOMAIN longer = 1 .. (Len(lane) + 1)
      /\ \A i \in 1 .. Len(lane) : longer[i] = lane[i]
      /\ longer[Len(lane) + 1] = e
  BY DEF Lane
<1>2. DOMAIN longer = DOMAIN lane \cup {Len(lane) + 1}
  BY <1>1
<1> HIDE DEF longer
<1>3. Range(longer) = Range(lane) \cup {e}
  BY <1>1, <1>2 DEF Range
<1>4. QED
  BY <1>3 DEF longer

\* A newer event at the end keeps a lane in order.
LEMMA IncreasingAppend ==
  ASSUME NEW lane \in Lane, NEW e \in Nat \ {0}, Increasing(lane),
         \A f \in Range(lane) : f < e
  PROVE  Increasing(Append(lane, e))
<1> DEFINE longer == Append(lane, e)
<1>1. /\ Len(lane) \in Nat /\ DOMAIN lane = 1 .. Len(lane)
      /\ DOMAIN longer = 1 .. (Len(lane) + 1)
      /\ \A i \in 1 .. Len(lane) : longer[i] = lane[i]
      /\ longer[Len(lane) + 1] = e
  BY DEF Lane
<1>2. \A i \in 1 .. Len(lane) : lane[i] < e
  BY <1>1 DEF Range
<1> HIDE DEF longer
<1>3. Increasing(longer)
  BY <1>1, <1>2 DEF Increasing
<1>4. QED
  BY <1>3 DEF longer

\* The head of a lane is its oldest event.
LEMMA HeadIsOldest ==
  ASSUME NEW lane \in Lane, lane # <<>>, Increasing(lane)
  PROVE  /\ lane[1] \in Range(lane)
         /\ \A f \in Range(lane) : lane[1] <= f
<1>1. Len(lane) \in Nat /\ DOMAIN lane = 1 .. Len(lane) /\ 1 \in DOMAIN lane
  BY EmptySeq DEF Lane
<1>2. \A i \in DOMAIN lane : lane[i] \in Nat
  BY DEF Lane
<1>3. \A i \in DOMAIN lane : i = 1 \/ lane[1] < lane[i]
  BY <1>1 DEF Increasing
<1>4. QED
  BY <1>1, <1>2, <1>3 DEF Range

\* Taking the head of a lane in order removes that event and no other.
LEMMA TailOfLane ==
  ASSUME NEW lane \in Lane, lane # <<>>, Increasing(lane)
  PROVE  /\ Tail(lane) \in Lane
         /\ Increasing(Tail(lane))
         /\ Range(Tail(lane)) = Range(lane) \ {lane[1]}
<1> DEFINE rest == Tail(lane)
<1>1. Len(lane) \in Nat /\ DOMAIN lane = 1 .. Len(lane) /\ Len(lane) >= 1
  BY EmptySeq DEF Lane
<1>2. /\ DOMAIN rest = 1 .. (Len(lane) - 1)
      /\ \A i \in 1 .. (Len(lane) - 1) : rest[i] = lane[i + 1]
      /\ rest \in Lane
  BY <1>1 DEF Lane
<1> HIDE DEF rest
<1>3. Increasing(rest)
  BY <1>1, <1>2 DEF Increasing
<1>4. Range(rest) \subseteq Range(lane)
  BY <1>1, <1>2 DEF Range
<1>5. lane[1] \notin Range(rest)
  <2>1. \A i \in 1 .. (Len(lane) - 1) : lane[1] < lane[i + 1]
    BY <1>1 DEF Increasing
  <2>2. \A i \in DOMAIN lane : lane[i] \in Nat
    BY DEF Lane
  <2>3. QED
    BY <1>1, <1>2, <2>1, <2>2 DEF Range
<1>6. Range(lane) \subseteq Range(rest) \cup {lane[1]}
  <2>1. ASSUME NEW i \in DOMAIN lane
        PROVE  lane[i] \in Range(rest) \cup {lane[1]}
    <3>1. CASE i = 1
      BY <3>1
    <3>2. CASE i # 1
      <4>1. i - 1 \in 1 .. (Len(lane) - 1) /\ (i - 1) + 1 = i
        BY <3>2, <1>1
      <4>2. rest[i - 1] = lane[i]
        BY <4>1, <1>2
      <4>3. QED
        BY <4>1, <4>2, <1>2 DEF Range
    <3>3. QED
      BY <3>1, <3>2
  <2>2. QED
    BY <2>1 DEF Range
<1>7. QED
  BY <1>2, <1>3, <1>4, <1>5, <1>6 DEF rest

-----------------------------------------------------------------------------

\* The state in which the safety invariants preserve themselves: a handler can
\* only be counted down because SingleDrainer counts it, a close is exclusive
\* only because CloseIsOwned says who owns it.
IInv == /\ TypeOK
        /\ SingleDrainer
        /\ NoLostWakeup
        /\ CloseExcludesHandler
        /\ CloseIsOwned

-----------------------------------------------------------------------------
(* The pending events *)

\* With no event in a lane or slot, nothing is pending, and conversely.
LEMMA PendingIsHasEvents == ASSUME TypeOK PROVE hasEvents <=> Pending # {}
<1>1. ASSUME NEW lane \in Seq(Nat \ {Nil})
      PROVE  lane # <<>> <=> Range(lane) # {}
  <2>1. lane # <<>> <=> Len(lane) # 0
    BY <1>1, EmptySeq
  <2>2. Len(lane) \in Nat /\ DOMAIN lane = 1 .. Len(lane)
    BY <1>1, LenProperties
  <2>3. DOMAIN lane # {} <=> Len(lane) # 0
    <3>1. CASE Len(lane) = 0
      BY <2>2, <3>1
    <3>2. CASE Len(lane) # 0
      <4>1. 1 \in DOMAIN lane
        BY <2>2, <3>2
      <4>2. QED
        BY <3>2, <4>1
    <3>3. QED
      BY <3>1, <3>2
  <2>4. QED
    BY <2>1, <2>3 DEF Range
<1>2. data # <<>> <=> Range(data) # {}
  BY <1>1 DEF TypeOK
<1>3. control # <<>> <=> Range(control) # {}
  BY <1>1 DEF TypeOK
<1>4. QED
  BY <1>2, <1>3 DEF hasEvents, Pending, Ordinary

\* A cleared mailbox has nothing pending.
LEMMA ClearedIsEmpty == ASSUME clearLanes PROVE Pending' = {}
  BY DEF clearLanes, Pending, Ordinary, Range, Nil

-----------------------------------------------------------------------------
(* Type correctness *)

LEMMA ScheduleType ==
  ASSUME TypeOK, scheduleLocked
  PROVE  /\ draining' \in BOOLEAN
         /\ drain' \in [Drainers -> {"none", "loop", "handler"}]
BY DEF TypeOK, scheduleLocked

LEMMA TypeStep ==
  ASSUME TypeOK, SingleDrainer, Next
  PROVE  TypeOK'
<1> USE DEF TypeOK, Nil
<1>1. CASE postData
  <2>1. /\ data' \in Seq(Nat \ {Nil})
        /\ Len(data') <= DataCapacity
    BY <1>1, MailboxAssumption DEF postData, HasRoom, nextEvent
  <2>2. QED
    BY <1>1, <2>1, ScheduleType DEF postData, HasRoom, nextEvent, waits
<1>2. CASE postControl
  <2>1. /\ control' \in Seq(Nat \ {Nil})
        /\ Len(control') <= ControlCapacity
    BY <1>2, MailboxAssumption DEF postControl, HasRoom, nextEvent
  <2>2. QED
    BY <1>2, <2>1, ScheduleType DEF postControl, HasRoom, nextEvent, waits
<1>3. CASE postOverflow
  BY <1>3 DEF postOverflow, lanes, goroutines, waits
<1>4. CASE postLatest
  BY <1>4, ScheduleType DEF postLatest, nextEvent, waits
<1>5. CASE postTerminal
  BY <1>5, ScheduleType DEF postTerminal, nextEvent, waits
<1>6. CASE postStopRequest
  BY <1>6, ScheduleType DEF postStopRequest, nextEvent, waits
<1>7. ASSUME NEW d \in Drainers, NEW e \in Pending, drainTake(d, e)
      PROVE  TypeOK'
  <2>1. ASSUME NEW lane \in Seq(Nat \ {Nil}), NEW n \in Nat, Len(lane) <= n
        PROVE  /\ Dequeue(lane, e) \in Seq(Nat \ {Nil})
               /\ Len(Dequeue(lane, e)) <= n
    BY <2>1 DEF Dequeue
  <2>2. e \in Nat
    BY DEF Pending, Ordinary, Range
  <2>3. /\ data' \in Seq(Nat \ {Nil}) /\ Len(data') <= DataCapacity
        /\ control' \in Seq(Nat \ {Nil}) /\ Len(control') <= ControlCapacity
        /\ latest' \in Nat /\ terminal' \in Nat /\ stopRequest' \in Nat
        /\ lastOrdinary' \in Nat
    <3>1. CASE takeStopRequest
      BY <3>1 DEF takeStopRequest
    <3>2. CASE takeOrdinary(e)
      BY <3>2, <2>1, <2>2, MailboxAssumption DEF takeOrdinary, Vacate
    <3>3. QED
      BY <1>7, <3>1, <3>2 DEF drainTake
  <2>4. QED
    BY <1>7, <2>2, <2>3 DEF drainTake, waits
<1>8. ASSUME NEW d \in Drainers, drainExit(d)
      PROVE  TypeOK'
  BY <1>8 DEF drainExit, broadcastLocked, lanes
<1>9. ASSUME NEW d \in Drainers, run(d)
      PROVE  TypeOK'
  <2>1. inHandler = 1
    BY <1>9 DEF SingleDrainer, run
  <2>2. QED
    BY <1>9, <2>1 DEF run, broadcastLocked, lanes
<1>10. ASSUME NEW c \in Closers, Close(c)
       PROVE  TypeOK'
  <2>1. CASE preflightClose(c)
    BY <2>1 DEF preflightClose, lanes, goroutines, waits
  <2>4. CASE beginCloseClosed(c)
    BY <2>4 DEF beginCloseClosed, lanes, goroutines, waits
  <2>5. CASE beginCloseRefused(c)
    BY <2>5 DEF beginCloseRefused, lanes, goroutines, waits
  <2>7. clearLanes => /\ data' \in Seq(Nat \ {Nil}) /\ Len(data') <= DataCapacity
                      /\ control' \in Seq(Nat \ {Nil})
                      /\ Len(control') <= ControlCapacity
                      /\ latest' = 0 /\ terminal' = 0 /\ stopRequest' = 0
    BY MailboxAssumption DEF clearLanes
  <2>2. CASE beginClose(c)
    BY <2>2, <2>7 DEF beginClose, broadcastLocked, goroutines
  <2>8. CASE finishClose(c)
    <3>1. closer' \in [Closers -> {"idle", "checked", "begun"}]
      BY <2>8 DEF finishClose
    <3>2. /\ drain' \in [Drainers -> {"none", "loop", "handler"}]
          /\ event' \in [Drainers -> Nat]
      BY <2>8 DEF finishClose, goroutines
    <3>3. QED
      <4>1. /\ data' \in Seq(Nat \ {Nil}) /\ Len(data') <= DataCapacity
            /\ control' \in Seq(Nat \ {Nil}) /\ Len(control') <= ControlCapacity
            /\ latest' = 0 /\ terminal' = 0 /\ stopRequest' = 0
        BY <2>8, <2>7 DEF finishClose
      <4>2. /\ UNCHANGED <<next, draining, overflowed, inHandler, waiting,
                           lastOrdinary>>
            /\ closed' = TRUE /\ closing' = FALSE /\ asleep' = {}
        BY <2>8 DEF finishClose, broadcastLocked
      <4>3. QED
        BY <3>1, <3>2, <4>1, <4>2
  <2>3. CASE cancelClose(c)
    BY <2>3, ScheduleType DEF cancelClose, broadcastLocked, lanes
  <2>6. QED
    BY <1>10, <2>1, <2>2, <2>3, <2>4, <2>5, <2>8 DEF Close, EndClose
<1>11. ASSUME NEW w \in Waiters, WaitIdle(w)
       PROVE  TypeOK'
  BY <1>11 DEF WaitIdle, waitIdleSleep, waitIdleReturn, lanes, goroutines
<1>12. QED
  BY <1>1, <1>2, <1>3, <1>4, <1>5, <1>6, <1>7, <1>8, <1>9, <1>10, <1>11
  DEF Next, Post, Drain

-----------------------------------------------------------------------------
(* One drain goroutine *)

\* Scheduling starts a goroutine only when there is none.
LEMMA ScheduleOne ==
  ASSUME TypeOK, SingleDrainer, scheduleLocked, inHandler' = inHandler
  PROVE  SingleDrainer' /\ draining'
<1>1. CASE draining /\ UNCHANGED <<draining, drain>>
  BY <1>1 DEF SingleDrainer, Active
<1>2. CASE /\ ~draining
           /\ draining' = TRUE
           /\ \E d \in Drainers : /\ drain[d] = "none"
                                  /\ drain' = [drain EXCEPT ![d] = "loop"]
  <2>1. PICK d \in Drainers : /\ drain[d] = "none"
                              /\ drain' = [drain EXCEPT ![d] = "loop"]
    BY <1>2
  <2>2. \A x \in Drainers : drain[x] = "none"
    BY <1>2 DEF SingleDrainer, Active
  <2>3. \A x \in Drainers : drain'[x] = IF x = d THEN "loop" ELSE "none"
    BY <2>1, <2>2 DEF TypeOK
  <2>4. inHandler' = 0
    BY <2>2 DEF SingleDrainer
  <2>5. /\ \A x, y \in Drainers : Active(x)' /\ Active(y)' => x = y
        /\ \E x \in Drainers : Active(x)'
        /\ ~ \E x \in Drainers : drain'[x] = "handler"
    BY <2>3 DEF Active
  <2>6. QED
    BY <1>2, <2>4, <2>5 DEF SingleDrainer
<1>3. QED
  BY <1>1, <1>2 DEF scheduleLocked

\* A step that leaves the goroutines and the flags alone keeps the invariant.
LEMMA GoroutinesUnchanged ==
  ASSUME SingleDrainer, UNCHANGED <<drain, draining, inHandler>>
  PROVE  SingleDrainer'
BY DEF SingleDrainer, Active

\* The step of the one goroutine there is.
LEMMA DrainerMoves ==
  ASSUME TypeOK, SingleDrainer, NEW d \in Drainers, Active(d),
         NEW to \in {"none", "loop", "handler"},
         drain' = [drain EXCEPT ![d] = to],
         draining' <=> to # "none",
         inHandler' = IF to = "handler" THEN 1 ELSE 0
  PROVE  SingleDrainer'
<1>1. \A x \in Drainers : drain'[x] = IF x = d THEN to ELSE "none"
  BY DEF SingleDrainer, TypeOK, Active
<1>2. /\ \A x, y \in Drainers : Active(x)' /\ Active(y)' => x = y
      /\ (\E x \in Drainers : Active(x)') <=> to # "none"
      /\ (\E x \in Drainers : drain'[x] = "handler") <=> to = "handler"
  BY <1>1 DEF Active
<1>3. QED
  BY <1>2 DEF SingleDrainer

LEMMA SingleDrainerStep ==
  ASSUME TypeOK, SingleDrainer, Next
  PROVE  SingleDrainer'
<1>1. CASE Post
  <2>1. CASE postOverflow
    BY <2>1, GoroutinesUnchanged DEF postOverflow, goroutines
  <2>2. CASE nextEvent
    BY <2>2, ScheduleOne DEF nextEvent
  <2>3. QED
    BY <1>1, <2>1, <2>2 DEF Post, postData, postControl, postLatest,
                           postTerminal, postStopRequest
<1>2. ASSUME NEW d \in Drainers, NEW e \in Pending, drainTake(d, e)
      PROVE  SingleDrainer'
  <2>1. Active(d) /\ draining
    BY <1>2 DEF drainTake, Active, SingleDrainer
  <2>2. inHandler = 0
    BY <1>2 DEF drainTake, SingleDrainer, Active
  <2>3. QED
    <3>1. /\ draining' <=> "handler" # "none"
          /\ inHandler' = IF "handler" = "handler" THEN 1 ELSE 0
          /\ drain' = [drain EXCEPT ![d] = "handler"]
      BY <1>2, <2>1, <2>2 DEF drainTake, TypeOK
    <3>2. QED
      BY <2>1, <3>1, DrainerMoves
<1>3. ASSUME NEW d \in Drainers, drainExit(d)
      PROVE  SingleDrainer'
  <2>1. Active(d) /\ inHandler = 0
    BY <1>3 DEF drainExit, SingleDrainer, Active
  <2>2. QED
    BY <1>3, <2>1, DrainerMoves DEF drainExit
<1>4. ASSUME NEW d \in Drainers, run(d)
      PROVE  SingleDrainer'
  <2>1. Active(d) /\ draining /\ inHandler = 1
    BY <1>4 DEF run, SingleDrainer, Active
  <2>2. QED
    <3>1. /\ draining' <=> "loop" # "none"
          /\ inHandler' = IF "loop" = "handler" THEN 1 ELSE 0
          /\ drain' = [drain EXCEPT ![d] = "loop"]
      BY <1>4, <2>1 DEF run, TypeOK
    <3>2. QED
      BY <2>1, <3>1, DrainerMoves
<1>5. ASSUME NEW c \in Closers, Close(c)
      PROVE  SingleDrainer'
  <2>1. CASE cancelClose(c)
    BY <2>1, ScheduleOne, GoroutinesUnchanged DEF cancelClose
  <2>2. CASE ~cancelClose(c)
    BY <1>5, <2>2, GoroutinesUnchanged
    DEF Close, EndClose, preflightClose, beginClose, beginCloseClosed,
        beginCloseRefused, finishClose, goroutines
  <2>3. QED
    BY <2>1, <2>2
<1>6. ASSUME NEW w \in Waiters, WaitIdle(w)
      PROVE  SingleDrainer'
  BY <1>6, GoroutinesUnchanged
  DEF WaitIdle, waitIdleSleep, waitIdleReturn, goroutines
<1>7. QED
  BY <1>1, <1>2, <1>3, <1>4, <1>5, <1>6 DEF Next, Drain

-----------------------------------------------------------------------------
(* No lost wakeup, and closing *)

\* Posting starts the drain goroutine; only an empty or closing mailbox loses it.
LEMMA WakeupStep ==
  ASSUME TypeOK, SingleDrainer, NoLostWakeup, CloseIsOwned, Next
  PROVE  NoLostWakeup'
<1>1. CASE Post
  <2>1. CASE postOverflow
    BY <2>1 DEF postOverflow, lanes, NoLostWakeup, Pending, Ordinary
  <2>2. CASE nextEvent
    BY <2>2, ScheduleOne DEF nextEvent, NoLostWakeup
  <2>3. QED
    BY <1>1, <2>1, <2>2 DEF Post, postData, postControl, postLatest,
                           postTerminal, postStopRequest
<1>2. ASSUME NEW d \in Drainers, NEW e \in Pending, drainTake(d, e)
      PROVE  NoLostWakeup'
  <2>1. draining
    BY <1>2 DEF drainTake, SingleDrainer, Active
  <2>2. QED
    BY <1>2, <2>1 DEF drainTake, NoLostWakeup
<1>3. ASSUME NEW d \in Drainers, drainExit(d)
      PROVE  NoLostWakeup'
  <2>1. closed \/ closing \/ Pending = {}
    BY <1>3, PendingIsHasEvents DEF drainExit
  <2>2. Pending' = Pending
    BY <1>3 DEF drainExit, lanes, Pending, Ordinary
  <2>3. QED
    BY <1>3, <2>1, <2>2 DEF drainExit, NoLostWakeup
<1>4. ASSUME NEW d \in Drainers, run(d)
      PROVE  NoLostWakeup'
  BY <1>4 DEF run, lanes, NoLostWakeup, Pending, Ordinary
<1>5. ASSUME NEW c \in Closers, Close(c)
      PROVE  NoLostWakeup'
  <2>1. CASE cancelClose(c)
    <3>1. Pending' = Pending
      BY <2>1 DEF cancelClose, lanes, Pending, Ordinary
    <3>2. closing \/ closed
      BY <2>1 DEF cancelClose, CloseIsOwned
    <3>3. Pending = {}
      BY <3>2 DEF CloseIsOwned
    <3>4. QED
      BY <3>1, <3>3 DEF NoLostWakeup
  <2>2. CASE beginClose(c) \/ finishClose(c)
    BY <2>2, ClearedIsEmpty DEF beginClose, finishClose, NoLostWakeup
  <2>3. CASE preflightClose(c) \/ beginCloseClosed(c) \/ beginCloseRefused(c)
    BY <2>3 DEF preflightClose, beginCloseClosed, beginCloseRefused, lanes,
                NoLostWakeup, Pending, Ordinary
  <2>4. QED
    BY <1>5, <2>1, <2>2, <2>3 DEF Close, EndClose
<1>6. ASSUME NEW w \in Waiters, WaitIdle(w)
      PROVE  NoLostWakeup'
  BY <1>6 DEF WaitIdle, waitIdleSleep, waitIdleReturn, lanes, NoLostWakeup,
              Pending, Ordinary
<1>7. QED
  BY <1>1, <1>2, <1>3, <1>4, <1>5, <1>6 DEF Next, Drain

LEMMA ExclusionStep ==
  ASSUME TypeOK, SingleDrainer, CloseExcludesHandler, CloseIsOwned, Next
  PROVE  CloseExcludesHandler'
<1> USE DEF CloseExcludesHandler
<1>1. CASE Post
  BY <1>1 DEF Post, postData, postControl, postOverflow, postLatest,
              postTerminal, postStopRequest, nextEvent
<1>2. ASSUME NEW d \in Drainers, NEW e \in Pending, drainTake(d, e)
      PROVE  CloseExcludesHandler'
  BY <1>2 DEF drainTake
<1>3. ASSUME NEW d \in Drainers, drainExit(d)
      PROVE  CloseExcludesHandler'
  BY <1>3 DEF drainExit
<1>4. ASSUME NEW d \in Drainers, run(d)
      PROVE  CloseExcludesHandler'
  BY <1>4 DEF run, SingleDrainer
<1>5. ASSUME NEW c \in Closers, Close(c)
      PROVE  CloseExcludesHandler'
  BY <1>5 DEF Close, EndClose, InUse, preflightClose, beginClose, beginCloseClosed,
              beginCloseRefused, cancelClose, finishClose, CloseIsOwned
<1>6. ASSUME NEW w \in Waiters, WaitIdle(w)
      PROVE  CloseExcludesHandler'
  BY <1>6 DEF WaitIdle, waitIdleSleep, waitIdleReturn
<1>7. QED
  BY <1>1, <1>2, <1>3, <1>4, <1>5, <1>6 DEF Next, Drain

LEMMA OwnedStep ==
  ASSUME TypeOK, SingleDrainer, CloseIsOwned, Next
  PROVE  CloseIsOwned'
<1>1. ASSUME UNCHANGED <<closing, closed, closer>>, Pending' \subseteq Pending
      PROVE  CloseIsOwned'
  BY <1>1 DEF CloseIsOwned
<1>2. CASE Post
  <2>1. CASE postOverflow
    BY <2>1, <1>1 DEF postOverflow, lanes, Pending, Ordinary
  <2>2. CASE nextEvent
    BY <2>2 DEF nextEvent, CloseIsOwned
  <2>3. QED
    BY <1>2, <2>1, <2>2 DEF Post, postData, postControl, postLatest,
                           postTerminal, postStopRequest
<1>3. ASSUME NEW d \in Drainers
      PROVE  /\ \A e \in Pending : drainTake(d, e) => CloseIsOwned'
             /\ drainExit(d) => CloseIsOwned'
             /\ run(d) => CloseIsOwned'
  <2>1. ASSUME NEW e \in Pending, drainTake(d, e)
        PROVE  CloseIsOwned'
    BY <2>1 DEF drainTake, CloseIsOwned
  <2>2. CASE drainExit(d)
    BY <2>2, <1>1 DEF drainExit, lanes, Pending, Ordinary
  <2>3. CASE run(d)
    BY <2>3, <1>1 DEF run, lanes, Pending, Ordinary
  <2>4. QED
    BY <2>1, <2>2, <2>3
<1>4. ASSUME NEW c \in Closers, Close(c)
      PROVE  CloseIsOwned'
  <2>1. CASE preflightClose(c) \/ beginCloseRefused(c)
    <3>1. Pending' = Pending
      BY <2>1 DEF preflightClose, beginCloseRefused, lanes, Pending, Ordinary
    <3>2. \A x \in Closers : closer'[x] = "begun" <=> closer[x] = "begun"
      BY <2>1 DEF preflightClose, beginCloseRefused, TypeOK
    <3>3. QED
      BY <2>1, <3>1, <3>2 DEF preflightClose, beginCloseRefused, CloseIsOwned
  <2>2. CASE beginCloseClosed(c)
    <3>1. Pending' = Pending /\ closed /\ closed' /\ closing' = closing
      BY <2>2 DEF beginCloseClosed, lanes, Pending, Ordinary
    <3>2. QED
      BY <3>1 DEF CloseIsOwned
  <2>3. CASE beginClose(c)
    <3>1. Pending' = {} /\ closing' /\ ~closed'
      BY <2>3, ClearedIsEmpty DEF beginClose
    <3>2. \A x \in Closers : closer[x] # "begun"
      BY <2>3 DEF beginClose, InUse, CloseIsOwned
    <3>3. \A x \in Closers : closer'[x] = "begun" <=> x = c
      BY <2>3, <3>2 DEF beginClose, TypeOK
    <3>4. QED
      BY <3>1, <3>3 DEF CloseIsOwned
  <2>4. CASE finishClose(c)
    <3>1. Pending' = {} /\ ~closing' /\ closed'
      BY <2>4, ClearedIsEmpty DEF finishClose
    <3>2. QED
      BY <3>1 DEF CloseIsOwned
  <2>5. CASE cancelClose(c)
    <3>1. Pending' = Pending /\ closed' = closed /\ ~closing'
      BY <2>5 DEF cancelClose, lanes, Pending, Ordinary, CloseIsOwned
    <3>2. \A x \in Closers : closer'[x] = "begun" => x # c /\ closer[x] = "begun"
      BY <2>5 DEF cancelClose, TypeOK
    <3>3. closed \/ \A x \in Closers : closer'[x] # "begun"
      BY <2>5, <3>2 DEF cancelClose, CloseIsOwned
    <3>4. QED
      BY <3>1, <3>3 DEF CloseIsOwned
  <2>6. QED
    BY <1>4, <2>1, <2>2, <2>3, <2>4, <2>5 DEF Close, EndClose
<1>5. ASSUME NEW w \in Waiters, WaitIdle(w)
      PROVE  CloseIsOwned'
  BY <1>5, <1>1 DEF WaitIdle, waitIdleSleep, waitIdleReturn, lanes, Pending,
                    Ordinary
<1>6. QED
  BY <1>2, <1>3, <1>4, <1>5 DEF Next, Drain

-----------------------------------------------------------------------------
(* The theorems *)

LEMMA InitIInv == Init => IInv
<1> SUFFICES ASSUME Init PROVE IInv
  OBVIOUS
<1>1. Pending = {}
  BY DEF Init, Pending, Ordinary, Range, Nil
<1>2. TypeOK
  <2>1. /\ data \in Seq(Nat \ {Nil}) /\ Len(data) <= DataCapacity
        /\ control \in Seq(Nat \ {Nil}) /\ Len(control) <= ControlCapacity
    BY MailboxAssumption DEF Init
  <2>2. /\ drain \in [Drainers -> {"none", "loop", "handler"}]
        /\ event \in [Drainers -> Nat]
        /\ closer \in [Closers -> {"idle", "checked", "begun"}]
    BY DEF Init, Nil
  <2>3. QED
    BY <2>1, <2>2 DEF Init, TypeOK, Nil
<1>3. SingleDrainer
  BY DEF Init, SingleDrainer, Active
<1>4. NoLostWakeup /\ CloseExcludesHandler /\ CloseIsOwned
  BY <1>1 DEF Init, NoLostWakeup, CloseExcludesHandler, CloseIsOwned
<1>5. QED
  BY <1>2, <1>3, <1>4 DEF IInv

LEMMA StutterIInv == IInv /\ UNCHANGED vars => IInv'
<1> SUFFICES ASSUME IInv, UNCHANGED vars PROVE IInv'
  OBVIOUS
<1>1. Pending' = Pending
  BY DEF vars, lanes, Pending, Ordinary
<1>2. TypeOK'
  BY DEF IInv, vars, lanes, goroutines, waits, TypeOK
<1>3. SingleDrainer'
  BY GoroutinesUnchanged DEF IInv, vars, goroutines
<1>4. NoLostWakeup' /\ CloseExcludesHandler' /\ CloseIsOwned'
  BY <1>1 DEF IInv, vars, NoLostWakeup, CloseExcludesHandler, CloseIsOwned
<1>5. QED
  BY <1>2, <1>3, <1>4 DEF IInv

\* The inductive invariant holds in every reachable state of the mailbox.
THEOREM Invariance == Spec => []IInv
<1>1. IInv /\ Next => IInv'
  BY TypeStep, SingleDrainerStep, WakeupStep, ExclusionStep, OwnedStep DEF IInv
<1>2. IInv /\ [Next]_vars => IInv'
  BY <1>1, StutterIInv
<1>3. QED
  BY InitIInv, <1>2, PTL DEF Spec

\* Type correctness and the capacity bounds of the two lanes (mailbox.go:48-64).
THEOREM TypeCorrect == Spec => []TypeOK
<1>1. IInv => TypeOK
  BY DEF IInv
<1>2. QED
  BY <1>1, Invariance, PTL

\* At most one drain goroutine exists and handlers never overlap, however posts
\* and closes interleave with a goroutine about to exit (mailbox.go:109-136).
THEOREM OneDrainer == Spec => []SingleDrainer
<1>1. IInv => SingleDrainer
  BY DEF IInv
<1>2. QED
  BY <1>1, Invariance, PTL

\* No accepted event of an open mailbox is stranded without a drain goroutine
\* (mailbox.go:109-136, 256-266).
THEOREM NoEventStranded == Spec => []NoLostWakeup
<1>1. IInv => NoLostWakeup
  BY DEF IInv
<1>2. QED
  BY <1>1, Invariance, PTL

\* No handler runs from the beginning of a close on, so the owner may destroy
\* the native object (mailbox.go:116-136, 237-254).
THEOREM CloseIsExclusive == Spec => [](CloseExcludesHandler /\ CloseIsOwned)
<1>1. IInv => CloseExcludesHandler /\ CloseIsOwned
  BY DEF IInv
<1>2. QED
  BY <1>1, Invariance, PTL

-----------------------------------------------------------------------------
(* The order of the events, and the serial executor *)

\* A replaced or emptied slot takes nothing else with it, because no event is
\* in two places.
SlotsDistinct ==
  /\ latest # Nil => latest \notin Range(data) \cup Range(control)
                                     \cup {terminal}
  /\ stopRequest # Nil => stopRequest \notin Ordinary

\* The lanes are sorted, so the heads are the oldest events: the merge of the
\* lanes is in order although each lane is looked at on its own.
EventOrder ==
  /\ Increasing(data) /\ Increasing(control)
  /\ lastOrdinary <= next
  /\ \A e \in Pending : e <= next
  /\ \A e \in Ordinary : lastOrdinary < e
  /\ SlotsDistinct

-----------------------------------------------------------------------------
(* What is pending *)

LEMMA PendingType ==
  ASSUME TypeOK
  PROVE  Pending \subseteq Nat \ {Nil} /\ Ordinary \subseteq Nat \ {Nil}
<1>1. data \in Lane /\ control \in Lane
  BY DEF TypeOK, Lane, Nil
<1>2. Range(data) \cup Range(control) \subseteq Nat \ {Nil}
  BY <1>1, RangeType DEF Nil
<1>3. {latest, terminal, stopRequest} \ {Nil} \subseteq Nat \ {Nil}
  BY DEF TypeOK
<1>4. QED
  BY <1>2, <1>3 DEF Pending, Ordinary

\* Dequeuing an event that is nowhere but at the head removes that event only.
LEMMA DequeueLane ==
  ASSUME NEW lane \in Lane, NEW e \in Nat, Increasing(lane),
         lane # <<>> => e <= lane[1]
  PROVE  /\ Increasing(Dequeue(lane, e))
         /\ Range(Dequeue(lane, e)) = Range(lane) \ {e}
<1>1. CASE lane # <<>> /\ lane[1] = e
  BY <1>1, TailOfLane DEF Dequeue
<1>2. CASE lane = <<>>
  BY <1>2 DEF Dequeue, Range
<1>3. CASE lane # <<>> /\ lane[1] # e
  <2>1. \A f \in Range(lane) : lane[1] <= f /\ f \in Nat
    BY <1>3, HeadIsOldest, RangeType
  <2>2. e < lane[1]
    BY <1>3, <2>1, HeadIsOldest
  <2>3. e \notin Range(lane)
    BY <2>1, <2>2, <1>3, HeadIsOldest
  <2>4. QED
    BY <2>3, <1>3 DEF Dequeue
<1>4. QED
  BY <1>1, <1>2, <1>3

-----------------------------------------------------------------------------
(* The order is an invariant *)

\* Steps that take events away, or none, keep the order.
LEMMA OrderShrinks ==
  ASSUME EventOrder, UNCHANGED <<lanes, next, lastOrdinary>>
  PROVE  EventOrder'
BY DEF EventOrder, lanes, SlotsDistinct, Ordinary, Pending, Increasing, Range

LEMMA OrderCleared ==
  ASSUME EventOrder, clearLanes, UNCHANGED <<next, lastOrdinary>>
  PROVE  EventOrder'
<1>1. Increasing(<<>>)
  BY DEF Increasing
<1>2. Increasing(data)' /\ Increasing(control)'
  BY <1>1 DEF clearLanes
<1>3. Pending' = {} /\ Ordinary' = {}
  BY ClearedIsEmpty DEF Pending
<1>4. SlotsDistinct'
  BY DEF clearLanes, SlotsDistinct
<1>5. QED
  BY <1>2, <1>3, <1>4 DEF EventOrder

\* A new event is newer than every other one, wherever it is put.
LEMMA OrderPosted ==
  ASSUME TypeOK, EventOrder, Post
  PROVE  EventOrder'
<1> USE DEF TypeOK, Nil
<1>1. \A e \in Pending : e \in Nat /\ e <= next /\ e < next + 1
  BY PendingType DEF EventOrder
<1>2. \A e \in Ordinary : e \in Nat /\ e \in Pending /\ lastOrdinary < e
  BY PendingType DEF EventOrder, Pending
<1>3. ASSUME nextEvent, Pending' \subseteq Pending \cup {next + 1},
             Ordinary' \subseteq Ordinary \cup {next + 1},
             Increasing(data)', Increasing(control)', SlotsDistinct'
      PROVE  EventOrder'
  <2>1. next' = next + 1 /\ lastOrdinary' = lastOrdinary /\ lastOrdinary <= next
    BY <1>3 DEF nextEvent, EventOrder
  <2>2. \A e \in Pending' : e <= next'
    <3>1. ASSUME NEW e \in Pending \cup {next + 1}
          PROVE  e <= next + 1
      BY <1>1
    <3>2. QED
      BY <3>1, <2>1, <1>3
  <2>3. \A e \in Ordinary' : lastOrdinary' < e
    <3>1. ASSUME NEW e \in Ordinary \cup {next + 1}
          PROVE  lastOrdinary < e
      BY <1>2, <2>1
    <3>2. QED
      BY <3>1, <2>1, <1>3
  <2>4. QED
    BY <2>1, <2>2, <2>3, <1>3 DEF EventOrder
<1>4. CASE postData
  <2>1. /\ data \in Lane /\ next + 1 \in Nat \ {Nil}
        /\ data' = Append(data, next + 1)
        /\ UNCHANGED <<control, latest, terminal, stopRequest>>
    BY <1>4 DEF postData, Lane
  <2>2. Range(data)' = Range(data) \cup {next + 1}
    BY <2>1, RangeAppend
  <2>3. Increasing(data)' /\ Increasing(control)'
    BY <2>1, <1>1, IncreasingAppend DEF EventOrder, Pending, Ordinary
  <2>4. Ordinary' = Ordinary \cup {next + 1}
    BY <2>1, <2>2 DEF Ordinary
  <2>5. Pending' = Pending \cup {next + 1}
    BY <2>1, <2>4 DEF Pending
  <2>6. next + 1 \notin {latest, stopRequest}
    <3>1. next + 1 \notin Pending /\ next + 1 # Nil
      BY <1>1, <2>1
    <3>2. QED
      BY <3>1 DEF Pending, Ordinary
  <2>7. SlotsDistinct'
    BY <2>1, <2>2, <2>4, <2>6 DEF EventOrder, SlotsDistinct
  <2>8. QED
    BY <1>3, <1>4, <2>3, <2>4, <2>5, <2>7 DEF postData
<1>5. CASE postControl
  <2>1. /\ control \in Lane /\ next + 1 \in Nat \ {Nil}
        /\ control' = Append(control, next + 1)
        /\ UNCHANGED <<data, latest, terminal, stopRequest>>
    BY <1>5 DEF postControl, Lane
  <2>2. Range(control)' = Range(control) \cup {next + 1}
    BY <2>1, RangeAppend
  <2>3. Increasing(data)' /\ Increasing(control)'
    BY <2>1, <1>1, IncreasingAppend DEF EventOrder, Pending, Ordinary
  <2>4. Ordinary' = Ordinary \cup {next + 1}
    BY <2>1, <2>2 DEF Ordinary
  <2>5. Pending' = Pending \cup {next + 1}
    BY <2>1, <2>4 DEF Pending
  <2>6. next + 1 \notin {latest, stopRequest}
    <3>1. next + 1 \notin Pending /\ next + 1 # Nil
      BY <1>1, <2>1
    <3>2. QED
      BY <3>1 DEF Pending, Ordinary
  <2>7. SlotsDistinct'
    BY <2>1, <2>2, <2>4, <2>6 DEF EventOrder, SlotsDistinct
  <2>8. QED
    BY <1>3, <1>5, <2>3, <2>4, <2>5, <2>7 DEF postControl
<1>6. CASE postOverflow
  BY <1>6, OrderShrinks DEF postOverflow
<1>7. CASE postLatest \/ postTerminal \/ postStopRequest
  <2>1. /\ UNCHANGED <<data, control>>
        /\ nextEvent
        /\ \/ latest' = next + 1 /\ UNCHANGED <<terminal, stopRequest>>
           \/ terminal' = next + 1 /\ UNCHANGED <<latest, stopRequest>>
           \/ stopRequest' = next + 1 /\ UNCHANGED <<latest, terminal>>
    BY <1>7 DEF postLatest, postTerminal, postStopRequest
  <2>2. Range(data)' = Range(data) /\ Range(control)' = Range(control)
    BY <2>1
  <2>3. Increasing(data)' /\ Increasing(control)'
    BY <2>1 DEF EventOrder
  <2>4. Ordinary' \subseteq Ordinary \cup {next + 1}
    BY <2>1, <2>2 DEF Ordinary
  <2>5. Pending' \subseteq Pending \cup {next + 1}
    BY <2>1, <2>4 DEF Pending, Ordinary
  <2>6. next + 1 \notin Pending
    BY <1>1
  <2>7. SlotsDistinct'
    <3>1. CASE latest' = next + 1 /\ UNCHANGED <<terminal, stopRequest>>
      BY <2>2, <2>4, <2>6, <3>1 DEF EventOrder, SlotsDistinct, Pending, Ordinary
    <3>2. CASE terminal' = next + 1 /\ UNCHANGED <<latest, stopRequest>>
      BY <2>2, <2>4, <2>6, <3>2 DEF EventOrder, SlotsDistinct, Pending, Ordinary
    <3>3. CASE stopRequest' = next + 1 /\ UNCHANGED <<latest, terminal>>
      BY <2>2, <2>6, <3>3 DEF EventOrder, SlotsDistinct, Pending, Ordinary
    <3>4. QED
      BY <2>1, <3>1, <3>2, <3>3
  <2>8. QED
    BY <1>3, <2>1, <2>3, <2>4, <2>5, <2>7
<1>8. QED
  BY <1>4, <1>5, <1>6, <1>7 DEF Post

\* Taking the oldest head removes that event alone, and it is the oldest of all.
LEMMA TakeOldest ==
  ASSUME TypeOK, EventOrder, NEW e, takeOrdinary(e)
  PROVE  /\ e \in Ordinary
         /\ \A f \in Ordinary : e <= f
         /\ Ordinary' = Ordinary \ {e}
         /\ Increasing(data)' /\ Increasing(control)'
         /\ Range(data)' = Range(data) \ {e}
         /\ Range(control)' = Range(control) \ {e}
<1> USE DEF TypeOK, Nil
<1>2. data \in Lane /\ control \in Lane /\ Increasing(data) /\ Increasing(control)
  BY DEF Lane, EventOrder
<1>3. Oldest(e)
  BY DEF takeOrdinary
<1>4. e \in Ordinary
  BY HeadIsOldest, <1>2, <1>3 DEF Oldest, Heads, Ordinary
<1>5. /\ data # <<>> => e <= data[1]
      /\ control # <<>> => e <= control[1]
      /\ latest # Nil => e <= latest
      /\ terminal # Nil => e <= terminal
  BY <1>3 DEF Oldest, Heads
<1>6. e \in Nat /\ e # Nil
  BY <1>4, PendingType
<1>7. \A f \in Ordinary : e <= f
  <2>1. \A f \in Range(data) : e <= f
    <3>1. CASE data = <<>>
      BY <3>1 DEF Range
    <3>2. CASE data # <<>>
      <4>1. /\ data[1] \in Nat
            /\ \A f \in Range(data) : f \in Nat /\ data[1] <= f
        BY HeadIsOldest, RangeType, <1>2, <3>2
      <4>2. QED
        BY <4>1, <1>5, <1>6, <3>2
    <3>3. QED
      BY <3>1, <3>2
  <2>2. \A f \in Range(control) : e <= f
    <3>1. CASE control = <<>>
      BY <3>1 DEF Range
    <3>2. CASE control # <<>>
      <4>1. /\ control[1] \in Nat
            /\ \A f \in Range(control) : f \in Nat /\ control[1] <= f
        BY HeadIsOldest, RangeType, <1>2, <3>2
      <4>2. QED
        BY <4>1, <1>5, <1>6, <3>2
    <3>3. QED
      BY <3>1, <3>2
  <2>3. QED
    BY <2>1, <2>2, <1>5 DEF Ordinary
<1>8. /\ Increasing(data)' /\ Range(data)' = Range(data) \ {e}
      /\ Increasing(control)' /\ Range(control)' = Range(control) \ {e}
  BY <1>2, <1>5, <1>6, DequeueLane DEF takeOrdinary
<1>9. {latest, terminal}' \ {Nil} = ({latest, terminal} \ {Nil}) \ {e}
  BY <1>6 DEF takeOrdinary, Vacate
<1>10. QED
  BY <1>4, <1>7, <1>8, <1>9 DEF Ordinary

\* A drain step removes exactly the event it takes.
LEMMA TakeRemoves ==
  ASSUME TypeOK, EventOrder, NEW d \in Drainers, NEW e \in Pending,
         drainTake(d, e)
  PROVE  EventOrder' /\ Pending' = Pending \ {e}
<1> USE DEF Nil
<1>1. CASE e = stopRequest /\ takeStopRequest
  <2>1. Ordinary' = Ordinary /\ e \notin Ordinary
    BY <1>1 DEF takeStopRequest, Ordinary, EventOrder, SlotsDistinct
  <2>2. Pending' = Pending \ {e}
    BY <1>1, <2>1 DEF takeStopRequest, Pending
  <2>3. EventOrder'
    BY <1>1, <2>1, <2>2
    DEF takeStopRequest, drainTake, EventOrder, SlotsDistinct, Increasing
  <2>4. QED
    BY <2>2, <2>3
<1>2. CASE takeOrdinary(e)
  <2>1. Pending' = Pending \ {e}
    BY <1>2, TakeOldest DEF takeOrdinary, Pending
  <2>2. /\ lastOrdinary' = e /\ next' = next /\ e <= next
    BY <1>2, drainTake(d, e) DEF takeOrdinary, drainTake, EventOrder
  <2>3. SlotsDistinct'
    BY <1>2, TakeOldest DEF takeOrdinary, Vacate, SlotsDistinct, EventOrder
  <2>4. \A f \in Ordinary' : lastOrdinary' < f
    <3>1. e \in Nat /\ \A f \in Ordinary : f \in Nat /\ e <= f
      BY <1>2, TakeOldest, PendingType
    <3>2. Ordinary' = Ordinary \ {e}
      BY <1>2, TakeOldest
    <3>3. QED
      BY <2>2, <3>1, <3>2
  <2>5. QED
    BY <1>2, <2>1, <2>2, <2>3, <2>4, TakeOldest DEF EventOrder
<1>3. QED
  BY <1>1, <1>2 DEF drainTake

LEMMA OrderStep ==
  ASSUME TypeOK, EventOrder, Next
  PROVE  EventOrder'
<1>1. CASE Post
  BY <1>1, OrderPosted
<1>2. ASSUME NEW d \in Drainers, NEW e \in Pending, drainTake(d, e)
      PROVE  EventOrder'
  BY <1>2, TakeRemoves
<1>3. ASSUME NEW d \in Drainers, drainExit(d) \/ run(d)
      PROVE  EventOrder'
  BY <1>3, OrderShrinks DEF drainExit, run
<1>4. ASSUME NEW c \in Closers, Close(c)
      PROVE  EventOrder'
  BY <1>4, OrderShrinks, OrderCleared
  DEF Close, EndClose, preflightClose, beginClose, beginCloseClosed,
      beginCloseRefused, cancelClose, finishClose
<1>5. ASSUME NEW w \in Waiters, WaitIdle(w)
      PROVE  EventOrder'
  BY <1>5, OrderShrinks DEF WaitIdle, waitIdleSleep, waitIdleReturn
<1>6. QED
  BY <1>1, <1>2, <1>3, <1>4, <1>5 DEF Next, Drain

LEMMA OrderInvariance == Spec => [](IInv /\ EventOrder)
<1>1. Init => EventOrder
  BY DEF Init, EventOrder, SlotsDistinct, Increasing, Pending, Ordinary,
         Range, Nil
<1>2. IInv /\ EventOrder /\ [Next]_vars => EventOrder'
  BY OrderStep, OrderShrinks DEF IInv, vars
<1>3. QED
  BY <1>1, <1>2, Invariance, PTL DEF Spec

\* Callbacks other than stop requests run in the order they were posted, across
\* the lanes and slots (mailbox.go:153-205).
THEOREM RunInOrder == Spec => []OrdinaryOrder
<1>1. EventOrder => OrdinaryOrder
  BY DEF EventOrder, OrdinaryOrder, Pending
<1>2. QED
  BY <1>1, OrderInvariance, PTL

-----------------------------------------------------------------------------
(* Every step is a step of the serial executor, or none of its steps *)

\* The states the refinement is argued from.
Good == IInv /\ EventOrder

LEMMA OneExecutes ==
  ASSUME TypeOK, SingleDrainer, NEW d \in Drainers, Active(d)
  PROVE  Executing = IF drain[d] = "handler" THEN {event[d]} ELSE {}
BY DEF SingleDrainer, Active, Executing

LEMMA NoneExecutes ==
  ASSUME TypeOK, SingleDrainer, inHandler = 0
  PROVE  Executing = {}
BY DEF SingleDrainer, Executing

\* Starting a goroutine starts no handler.
LEMMA ScheduleExecutes ==
  ASSUME TypeOK, SingleDrainer, scheduleLocked, event' = event
  PROVE  Executing' = Executing
<1>1. CASE UNCHANGED <<draining, drain>>
  BY <1>1 DEF Executing
<1>2. CASE /\ ~draining
           /\ draining' = TRUE
           /\ \E d \in Drainers : /\ drain[d] = "none"
                                  /\ drain' = [drain EXCEPT ![d] = "loop"]
  <2>1. \A x \in Drainers : drain[x] # "handler" /\ drain'[x] # "handler"
    BY <1>2 DEF SingleDrainer, Active, TypeOK
  <2>2. QED
    BY <2>1 DEF Executing
<1>3. QED
  BY <1>1, <1>2 DEF scheduleLocked

\* An accepted post is Accept; in the latest and stop slots it supersedes what
\* waits there.
LEMMA PostImplements ==
  ASSUME Good, Post
  PROVE  Contract!Accept \/ UNCHANGED Contract!vars
<1> USE DEF Nil
<1>1. TypeOK /\ SingleDrainer /\ EventOrder
  BY DEF Good, IInv
<1>2. CASE postOverflow
  BY <1>2 DEF postOverflow, lanes, goroutines, Contract!vars, Pending, Ordinary,
              Executing, Phase
<1>3. CASE nextEvent
  <2>1. Executing' = Executing
    BY <1>1, <1>3, ScheduleExecutes DEF nextEvent
  <2>2. Phase = "open" /\ Phase' = "open" /\ next' = next + 1
    BY <1>3 DEF nextEvent, Phase
  <2>3. ASSUME NEW old \in {{}} \cup {{e} : e \in Pending},
               Pending' = (Pending \ old) \cup {next + 1}
        PROVE  Contract!Accept
    BY <2>1, <2>2, <2>3 DEF Contract!Accept
  <2>4. {} \in {{}} \cup {{e} : e \in Pending}
    OBVIOUS
  <2>5. ASSUME NEW x \in Pending
        PROVE  {x} \in {{}} \cup {{e} : e \in Pending}
    OBVIOUS
  <2>6. next + 1 # Nil
    BY <1>1 DEF TypeOK
  <2>7. CASE postData
    <3>1. Range(data)' = Range(data) \cup {next + 1}
      BY <1>1, <2>7, RangeAppend DEF postData, TypeOK, Lane
    <3>2. Pending' = (Pending \ {}) \cup {next + 1}
      BY <2>7, <3>1 DEF postData, Pending, Ordinary
    <3>3. QED
      BY <2>3, <2>4, <3>2
  <2>8. CASE postControl
    <3>1. Range(control)' = Range(control) \cup {next + 1}
      BY <1>1, <2>8, RangeAppend DEF postControl, TypeOK, Lane
    <3>2. Pending' = (Pending \ {}) \cup {next + 1}
      BY <2>8, <3>1 DEF postControl, Pending, Ordinary
    <3>3. QED
      BY <2>3, <2>4, <3>2
  <2>9. CASE postTerminal
    <3>1. Pending' = (Pending \ {}) \cup {next + 1}
      BY <2>9, <2>6 DEF postTerminal, Pending, Ordinary
    <3>2. QED
      BY <2>3, <2>4, <3>1
  <2>10. CASE postLatest
    <3>1. CASE latest = Nil
      <4>1. Pending' = (Pending \ {}) \cup {next + 1}
        BY <2>10, <2>6, <3>1 DEF postLatest, Pending, Ordinary
      <4>2. QED
        BY <2>3, <2>4, <4>1
    <3>2. CASE latest # Nil
      <4>1. latest \in Pending
        BY <3>2 DEF Pending, Ordinary
      <4>2. /\ latest \notin Range(data) \cup Range(control) \cup {terminal}
            /\ stopRequest # Nil => stopRequest # latest
        BY <1>1, <3>2 DEF EventOrder, SlotsDistinct, Ordinary
      <4>3. Ordinary' = (Ordinary \ {latest}) \cup {next + 1}
        BY <2>10, <2>6, <4>2 DEF postLatest, Ordinary
      <4>4. Pending' = (Pending \ {latest}) \cup {next + 1}
        BY <2>10, <4>2, <4>3 DEF postLatest, Pending
      <4>5. QED
        BY <2>3, <2>5, <4>1, <4>4
    <3>3. QED
      BY <3>1, <3>2
  <2>11. CASE postStopRequest
    <3>1. Ordinary' = Ordinary
      BY <2>11 DEF postStopRequest, Ordinary
    <3>2. CASE stopRequest = Nil
      <4>1. Pending' = (Pending \ {}) \cup {next + 1}
        BY <2>11, <2>6, <3>1, <3>2 DEF postStopRequest, Pending
      <4>2. QED
        BY <2>3, <2>4, <4>1
    <3>3. CASE stopRequest # Nil
      <4>1. stopRequest \in Pending /\ stopRequest \notin Ordinary
        BY <1>1, <3>3 DEF Pending, EventOrder, SlotsDistinct
      <4>2. Pending' = (Pending \ {stopRequest}) \cup {next + 1}
        BY <2>11, <2>6, <3>1, <4>1 DEF postStopRequest, Pending
      <4>3. QED
        BY <2>3, <2>5, <4>1, <4>2
    <3>4. QED
      BY <3>2, <3>3
  <2>12. CASE postOverflow
    BY <2>12, <1>2
  <2>13. QED
    BY <2>7, <2>8, <2>9, <2>10, <2>11, <2>12 DEF Post
<1>4. QED
  BY <1>2, <1>3 DEF Post, postData, postControl, postLatest, postTerminal,
                    postStopRequest

LEMMA TakeImplements ==
  ASSUME Good, NEW d \in Drainers, NEW e \in Pending, drainTake(d, e)
  PROVE  Contract!Start(e)
<1>1. TypeOK /\ SingleDrainer /\ EventOrder
  BY DEF Good, IInv
<1>2. Active(d) /\ Executing = {}
  BY <1>1, OneExecutes DEF drainTake, Active
<1>3. \A x \in Drainers : drain[x] # "none" => x = d
  BY <1>1, <1>2 DEF SingleDrainer, Active
<1>4. /\ \A x \in Drainers : drain'[x] = IF x = d THEN "handler" ELSE "none"
      /\ event'[d] = e
  BY <1>1, <1>3 DEF drainTake, TypeOK
<1>5. Executing' = {e}
  BY <1>4 DEF Executing
<1>6. Pending' = Pending \ {e}
  BY <1>1, TakeRemoves
<1>7. Phase = "open" /\ Phase' = Phase /\ next' = next
  BY DEF drainTake, Phase
<1>8. QED
  BY <1>2, <1>5, <1>6, <1>7 DEF Contract!Start

LEMMA RunImplements ==
  ASSUME Good, NEW d \in Drainers, run(d)
  PROVE  Contract!Return
<1>1. TypeOK /\ SingleDrainer /\ SingleDrainer'
  BY SingleDrainerStep DEF Good, IInv, Next
<1>2. Active(d) /\ Executing # {}
  BY <1>1, OneExecutes DEF run, Active
<1>3. \A x \in Drainers : drain'[x] # "handler"
  BY <1>1, <1>2 DEF run, TypeOK, SingleDrainer, Active
<1>4. Executing' = {}
  BY <1>3 DEF Executing
<1>5. UNCHANGED <<next, Pending, Phase>>
  BY DEF run, lanes, Pending, Ordinary, Phase
<1>6. QED
  BY <1>2, <1>4, <1>5 DEF Contract!Return

LEMMA ExitImplements ==
  ASSUME Good, NEW d \in Drainers, drainExit(d)
  PROVE  UNCHANGED Contract!vars
<1>1. TypeOK
  BY DEF Good, IInv
<1>2. \A x \in Drainers : drain'[x] = "handler" <=> drain[x] = "handler"
  BY <1>1 DEF drainExit, TypeOK
<1>3. Executing' = Executing
  BY <1>2 DEF drainExit, Executing
<1>4. QED
  BY <1>3 DEF drainExit, lanes, Contract!vars, Pending, Ordinary, Phase

LEMMA CloseImplements ==
  ASSUME Good, NEW c \in Closers, Close(c)
  PROVE  \/ Contract!BeginClose
         \/ Contract!EndClose
         \/ UNCHANGED Contract!vars
<1>1. TypeOK /\ SingleDrainer /\ CloseIsOwned
  BY DEF Good, IInv
<1>2. CASE preflightClose(c) \/ beginCloseClosed(c) \/ beginCloseRefused(c)
  BY <1>2 DEF preflightClose, beginCloseClosed, beginCloseRefused, lanes,
              goroutines, Contract!vars, Pending, Ordinary, Executing, Phase
<1>3. CASE beginClose(c)
  <2>1. Phase = "open" /\ Phase' = "closing"
    BY <1>3 DEF beginClose, InUse, Phase
  <2>2. Executing = {} /\ Executing' = Executing
    BY <1>1, <1>3, NoneExecutes DEF beginClose, InUse, goroutines, Executing
  <2>3. Pending' = {} /\ next' = next
    BY <1>3, ClearedIsEmpty DEF beginClose
  <2>4. QED
    BY <2>1, <2>2, <2>3 DEF Contract!BeginClose
<1>4. CASE finishClose(c)
  <2>1. closing \/ closed
    BY <1>1, <1>4 DEF finishClose, CloseIsOwned
  <2>2. Pending' = Pending /\ Executing' = Executing /\ next' = next
    BY <1>1, <1>4, <2>1, ClearedIsEmpty
    DEF finishClose, CloseIsOwned, goroutines, Executing
  <2>3. Phase \in {"closing", "closed"} /\ Phase' = "closed"
    BY <1>4, <2>1 DEF finishClose, Phase
  <2>4. QED
    BY <2>2, <2>3 DEF Contract!EndClose, Contract!vars
<1>5. CASE cancelClose(c)
  <2>1. closing \/ closed
    BY <1>1, <1>5 DEF cancelClose, CloseIsOwned
  <2>2. Executing' = Executing
    BY <1>1, <1>5, ScheduleExecutes DEF cancelClose, Executing
  <2>3. Pending' = Pending /\ next' = next
    BY <1>5 DEF cancelClose, lanes, Pending, Ordinary
  <2>4. \/ Phase = "closing" /\ Phase' = "open"
        \/ Phase' = Phase
    BY <1>1, <1>5, <2>1 DEF cancelClose, CloseIsOwned, Phase
  <2>5. QED
    BY <2>2, <2>3, <2>4 DEF Contract!EndClose, Contract!vars
<1>6. QED
  BY <1>2, <1>3, <1>4, <1>5 DEF Close, EndClose

LEMMA StepImplements ==
  ASSUME Good, [Next]_vars
  PROVE  [Contract!Next]_Contract!vars
<1>1. CASE Post
  BY <1>1, PostImplements DEF Contract!Next
<1>2. ASSUME NEW d \in Drainers, Drain(d) \/ run(d)
      PROVE  [Contract!Next]_Contract!vars
  <2>1. ASSUME NEW e \in Pending, drainTake(d, e)
        PROVE  Contract!Next
    BY <2>1, TakeImplements DEF Contract!Next
  <2>2. QED
    BY <1>2, <2>1, ExitImplements, RunImplements DEF Drain, Contract!Next
<1>3. ASSUME NEW c \in Closers, Close(c)
      PROVE  [Contract!Next]_Contract!vars
  BY <1>3, CloseImplements DEF Contract!Next
<1>4. ASSUME NEW w \in Waiters, WaitIdle(w)
      PROVE  UNCHANGED Contract!vars
  BY <1>4 DEF WaitIdle, waitIdleSleep, waitIdleReturn, lanes, goroutines,
              Contract!vars, Pending, Ordinary, Executing, Phase
<1>5. CASE UNCHANGED vars
  BY <1>5 DEF vars, lanes, goroutines, Contract!vars, Pending, Ordinary,
              Executing, Phase
<1>6. QED
  BY <1>1, <1>2, <1>3, <1>4, <1>5 DEF Next

\* The mailbox implements the serial executor: callbacks run one at a time and
\* at most once, none while the object closes or after, and a close begins only
\* between callbacks (mailbox.go:109-205, 237-266, 297-308).
THEOREM MailboxIsSerial == Spec => ImplementsSerialExecutor
<1>1. Init => Contract!Init
  BY DEF Init, Contract!Init, Pending, Ordinary, Range, Executing, Phase, Nil
<1>2. Good /\ [Next]_vars => [Contract!Next]_Contract!vars
  BY StepImplements
<1>3. Spec => []Good
  BY OrderInvariance, PTL DEF Good
<1>4. QED
  BY <1>1, <1>2, <1>3, PTL DEF Spec, ImplementsSerialExecutor, Contract!Spec
=============================================================================
