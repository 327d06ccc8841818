--------------------------- MODULE StorageProofs ---------------------------
(***************************************************************************)
(* Proofs about CallbackQueue, for any capacities, any set of callers and  *)
(* any number of posts: why waking one sleeper is enough, and why no       *)
(* accepted event is lost, repeated, or left behind by close.              *)
(*                                                                         *)
(* Then proofs about StorageClient, for any number of list calls, replays, *)
(* goroutines and closes: children leave before the native client.         *)
(***************************************************************************)
EXTENDS CallbackQueue, StorageClient, SequenceTheorems, TLAPS

(* Lanes of events, numbered in the order of their acceptance *)

Lane == Seq(Nat \ {0})

Increasing(lane) == \A i, j \in DOMAIN lane : i < j => lane[i] < lane[j]

\* The events of a lane are events.
LEMMA RangeType ==
  ASSUME NEW lane \in Lane
  PROVE  Range(lane) \subseteq Nat \ {0}
<1>1. \A i \in DOMAIN lane : lane[i] \in Nat \ {0}
  BY DEF Lane
<1>2. QED
  BY <1>1 DEF Range

\* Posting to a lane adds the event posted.
LEMMA RangeAppend ==
  ASSUME NEW lane \in Lane, NEW e \in Nat \ {0}
  PROVE  Range(Append(lane, e)) = Range(lane) \cup {e}
<1> DEFINE longer == Append(lane, e)
<1>1. /\ Len(lane) \in Nat /\ DOMAIN lane = 1 .. Len(lane)
      /\ DOMAIN longer = 1 .. (Len(lane) + 1)
      /\ \A i \in 1 .. Len(lane) : longer[i] = lane[i]
      /\ longer[Len(lane) + 1] = e
  BY DEF Lane
<1>2. DOMAIN longer = DOMAIN lane \cup {Len(lane) + 1}
  BY <1>1
<1> HIDE DEF longer
<1>3. Range(longer) = Range(lane) \cup {e}
  BY <1>1, <1>2 DEF Range
<1>4. QED
  BY <1>3 DEF longer

\* A newer event at the end keeps a lane in order.
LEMMA IncreasingAppend ==
  ASSUME NEW lane \in Lane, NEW e \in Nat \ {0}, Increasing(lane),
         \A f \in Range(lane) : f < e
  PROVE  Increasing(Append(lane, e))
<1> DEFINE longer == Append(lane, e)
<1>1. /\ Len(lane) \in Nat /\ DOMAIN lane = 1 .. Len(lane)
      /\ DOMAIN longer = 1 .. (Len(lane) + 1)
      /\ \A i \in 1 .. Len(lane) : longer[i] = lane[i]
      /\ longer[Len(lane) + 1] = e
  BY DEF Lane
<1>2. \A i \in 1 .. Len(lane) : lane[i] < e
  BY <1>1 DEF Range
<1> HIDE DEF longer
<1>3. Increasing(longer)
  BY <1>1, <1>2 DEF Increasing
<1>4. QED
  BY <1>3 DEF longer

\* The head of a lane is its oldest event.
LEMMA HeadIsOldest ==
  ASSUME NEW lane \in Lane, lane # <<>>, Increasing(lane)
  PROVE  /\ lane[1] \in Range(lane)
         /\ \A f \in Range(lane) : lane[1] <= f
<1>1. Len(lane) \in Nat /\ DOMAIN lane = 1 .. Len(lane) /\ 1 \in DOMAIN lane
  BY EmptySeq DEF Lane
<1>2. \A i \in DOMAIN lane : lane[i] \in Nat
  BY DEF Lane
<1>3. \A i \in DOMAIN lane : i = 1 \/ lane[1] < lane[i]
  BY <1>1 DEF Increasing
<1>4. QED
  BY <1>1, <1>2, <1>3 DEF Range

\* Taking the head of a lane in order removes that event and no other.
LEMMA TailOfLane ==
  ASSUME NEW lane \in Lane, lane # <<>>, Increasing(lane)
  PROVE  /\ Tail(lane) \in Lane
         /\ Increasing(Tail(lane))
         /\ Range(Tail(lane)) = Range(lane) \ {lane[1]}
<1> DEFINE rest == Tail(lane)
<1>1. Len(lane) \in Nat /\ DOMAIN lane = 1 .. Len(lane) /\ Len(lane) >= 1
  BY EmptySeq DEF Lane
<1>2. /\ DOMAIN rest = 1 .. (Len(lane) - 1)
      /\ \A i \in 1 .. (Len(lane) - 1) : rest[i] = lane[i + 1]
      /\ rest \in Lane
  BY <1>1 DEF Lane
<1> HIDE DEF rest
<1>3. Increasing(rest)
  BY <1>1, <1>2 DEF Increasing
<1>4. Range(rest) \subseteq Range(lane)
  BY <1>1, <1>2 DEF Range
<1>5. lane[1] \notin Range(rest)
  <2>1. \A i \in 1 .. (Len(lane) - 1) : lane[1] < lane[i + 1]
    BY <1>1 DEF Increasing
  <2>2. \A i \in DOMAIN lane : lane[i] \in Nat
    BY DEF Lane
  <2>3. QED
    BY <1>1, <1>2, <2>1, <2>2 DEF Range
<1>6. Range(lane) \subseteq Range(rest) \cup {lane[1]}
  <2>1. ASSUME NEW i \in DOMAIN lane
        PROVE  lane[i] \in Range(rest) \cup {lane[1]}
    <3>1. CASE i = 1
      BY <3>1
    <3>2. CASE i # 1
      <4>1. i - 1 \in 1 .. (Len(lane) - 1) /\ (i - 1) + 1 = i
        BY <3>2, <1>1
      <4>2. rest[i - 1] = lane[i]
        BY <4>1, <1>2
      <4>3. QED
        BY <4>1, <4>2, <1>2 DEF Range
    <3>3. QED
      BY <3>1, <3>2
  <2>2. QED
    BY <2>1 DEF Range
<1>7. QED
  BY <1>2, <1>3, <1>4, <1>5, <1>6 DEF rest

-----------------------------------------------------------------------------

\* Why the worker sleeps alone: a caller that sleeps on an open queue has seen
\* work or a callback, and the worker does not sleep before both are gone, which
\* is when it wakes everybody.
SleepFacts ==
  /\ active = IF worker = "callback" THEN 1 ELSE 0
  /\ Worker \in asleep => worker = "waiting"
  /\ (\E c \in Callers : c \in asleep) => HasWork \/ worker = "callback" \/ closed
  /\ \A c \in Callers : op[c] = "close" => closed
  /\ stopped <=> worker = "done"
  /\ stopped => closed /\ ~HasWork

\* No event is in two places, so taking one leaves all the others.
LaneOrder ==
  /\ Increasing(events) /\ Increasing(controls)
  /\ Range(events) \cap Range(controls) = {}
  /\ \A s \in Slots : critical[s] # Nil =>
        critical[s] \notin Range(events) \cup Range(controls)
  /\ \A s, t \in Slots : critical[s] = critical[t] /\ critical[s] # Nil => s = t

IInv == /\ TypeOK
        /\ SleepFacts
        /\ WorkerSleepsAlone
        /\ LaneOrder
        /\ NothingLost

-----------------------------------------------------------------------------
(* Pending events *)

LEMMA PendingType == TypeOK => Pending \subseteq Nat \ {Nil}
<1> SUFFICES ASSUME TypeOK PROVE Pending \subseteq Nat \ {Nil}
  OBVIOUS
<1>1. events \in Lane /\ controls \in Lane
  BY DEF TypeOK, Lane, Nil
<1>2. Range(events) \cup Range(controls) \subseteq Nat \ {Nil}
  BY <1>1, RangeType DEF Nil
<1>3. Range(critical) \subseteq Nat
  BY DEF TypeOK, Range
<1>4. QED
  BY <1>2, <1>3 DEF Pending

LEMMA NothingPending == TypeOK /\ ~HasWork => Pending = {}
<1> SUFFICES ASSUME TypeOK, ~HasWork PROVE Pending = {}
  OBVIOUS
<1>1. events = <<>> /\ controls = <<>>
  BY DEF HasWork
<1>2. \A s \in Slots : critical[s] = Nil
  BY DEF HasWork, hasCritical
<1>3. Range(events) = {} /\ Range(controls) = {}
  BY <1>1 DEF Range
<1>4. Range(critical) \subseteq {Nil}
  BY <1>2 DEF Range, TypeOK
<1>5. QED
  BY <1>3, <1>4 DEF Pending

-----------------------------------------------------------------------------
(* Type correctness *)

LEMMA SignalType ==
  ASSUME Signal
  PROVE  asleep' \subseteq asleep
BY DEF Signal

\* What the worker takes was pending, and goes from where it was and nowhere else.
Take == (\E slot \in Slots : takeCritical(slot)) \/ takeControl \/ takeEvent

LEMMA TakeRemoves ==
  ASSUME TypeOK, LaneOrder, Take
  PROVE  /\ executing' \in Pending
         /\ Pending' = Pending \ {executing'}
         /\ events' \in Lane /\ Len(events') <= Len(events)
         /\ controls' \in Lane /\ Len(controls') <= Len(controls)
         /\ critical' \in [Slots -> Nat]
         /\ LaneOrder'
<1> USE DEF Nil
<1>1. /\ events \in Lane /\ controls \in Lane
      /\ Increasing(events) /\ Increasing(controls)
  BY DEF TypeOK, Lane, LaneOrder
<1>2. ASSUME NEW slot \in Slots, takeCritical(slot)
      PROVE  /\ executing' \in Pending
             /\ Pending' = Pending \ {executing'}
             /\ critical' \in [Slots -> Nat]
             /\ UNCHANGED <<events, controls>>
             /\ LaneOrder'
  <2>1. /\ executing' = critical[slot] /\ critical[slot] # Nil
        /\ \A s \in Slots : critical'[s] = IF s = slot THEN Nil ELSE critical[s]
        /\ critical' \in [Slots -> Nat]
        /\ UNCHANGED <<events, controls>>
    BY <1>2 DEF takeCritical, firstCritical, TypeOK
  <2>2. DOMAIN critical = Slots /\ DOMAIN critical' = Slots
    BY <2>1 DEF TypeOK
  <2>3. Range(critical') \ {Nil} = (Range(critical) \ {Nil}) \ {executing'}
    <3>1. \A s \in Slots : critical[s] = critical[slot] => s = slot
      BY <2>1 DEF LaneOrder
    <3>2. QED
      BY <2>1, <2>2, <3>1 DEF Range
  <2>4. executing' \in Range(critical)
    BY <2>1, <2>2 DEF Range
  <2>5. executing' \notin Range(events) \cup Range(controls)
    BY <2>1 DEF LaneOrder
  <2>6. LaneOrder'
    BY <2>1 DEF LaneOrder
  <2>7. QED
    BY <2>1, <2>3, <2>4, <2>5, <2>6 DEF Pending
<1>3. ASSUME takeControl
      PROVE  /\ executing' \in Pending
             /\ Pending' = Pending \ {executing'}
             /\ controls' \in Lane /\ Len(controls') <= Len(controls)
             /\ UNCHANGED <<events, critical>>
             /\ LaneOrder'
  <2>1. /\ controls # <<>> /\ executing' = controls[1] /\ controls' = Tail(controls)
        /\ UNCHANGED <<events, critical>>
        /\ \A s \in Slots : critical[s] = Nil
    BY <1>3 DEF takeControl, hasCritical
  <2>2. /\ controls' \in Lane /\ Increasing(controls')
        /\ Range(controls') = Range(controls) \ {executing'}
        /\ executing' \in Range(controls)
    BY <1>1, <2>1, TailOfLane, HeadIsOldest
  <2>3. Len(controls') <= Len(controls)
    BY <1>1, <2>1, EmptySeq DEF Lane
  <2>4. executing' \notin Range(events) /\ executing' # Nil
    BY <1>1, <2>2, RangeType DEF LaneOrder
  <2>5. Range(critical) \subseteq {Nil}
    BY <2>1 DEF Range, TypeOK
  <2>6. LaneOrder'
    BY <2>1, <2>2 DEF LaneOrder
  <2>7. QED
    BY <2>1, <2>2, <2>3, <2>4, <2>5, <2>6 DEF Pending
<1>4. ASSUME takeEvent
      PROVE  /\ executing' \in Pending
             /\ Pending' = Pending \ {executing'}
             /\ events' \in Lane /\ Len(events') <= Len(events)
             /\ UNCHANGED <<controls, critical>>
             /\ LaneOrder'
  <2>1. /\ events # <<>> /\ executing' = events[1] /\ events' = Tail(events)
        /\ UNCHANGED <<controls, critical>>
        /\ \A s \in Slots : critical[s] = Nil
        /\ controls = <<>>
    BY <1>4 DEF takeEvent, hasCritical
  <2>2. /\ events' \in Lane /\ Increasing(events')
        /\ Range(events') = Range(events) \ {executing'}
        /\ executing' \in Range(events)
    BY <1>1, <2>1, TailOfLane, HeadIsOldest
  <2>3. Len(events') <= Len(events)
    BY <1>1, <2>1, EmptySeq DEF Lane
  <2>4. executing' \notin Range(controls) /\ executing' # Nil
    BY <1>1, <2>2, RangeType DEF LaneOrder
  <2>5. Range(critical) \subseteq {Nil}
    BY <2>1 DEF Range, TypeOK
  <2>6. LaneOrder'
    BY <2>1, <2>2 DEF LaneOrder
  <2>7. QED
    BY <2>1, <2>2, <2>3, <2>4, <2>5, <2>6 DEF Pending
<1>5. Len(events) \in Nat /\ Len(controls) \in Nat
  BY <1>1 DEF Lane
<1>6. critical \in [Slots -> Nat]
  BY DEF TypeOK
<1>7. QED
  BY <1>1, <1>2, <1>3, <1>4, <1>5, <1>6 DEF Take

-----------------------------------------------------------------------------
(* Acceptance *)

Enqueue == /\ HasRoom(events, Capacity)
           /\ events' = Append(events, next + 1)
           /\ accept
           /\ UNCHANGED <<controls, critical, superseded>>

Entered == /\ events' \in Lane /\ Len(events') <= Capacity
           /\ controls' \in Lane /\ Len(controls') <= ControlCapacity
           /\ critical' \in [Slots -> Nat]
           /\ superseded' \in SUBSET Nat
           /\ HasWork'
           /\ LaneOrder'
           /\ NothingLost'

LEMMA NextIsNew ==
  ASSUME TypeOK, NothingLost
  PROVE  /\ next + 1 \in Nat \ {0}
         /\ next + 1 \notin Pending \cup Executing \cup ran \cup superseded
         /\ \A e \in Pending : e < next + 1
         /\ 1..(next + 1) = (1..next) \cup {next + 1}
BY DEF TypeOK, NothingLost

\* A new event that joins the pending ones breaks no account.
LEMMA AccountPosted ==
  ASSUME TypeOK, NothingLost, next' = next + 1,
         UNCHANGED <<worker, executing, ran, superseded>>,
         Pending' = Pending \cup {next + 1}
  PROVE  NothingLost'
<1>1. Executing' = Executing
  BY DEF Executing
<1>2. QED
  BY <1>1, NextIsNew DEF NothingLost

LEMMA EnqueueEnters ==
  ASSUME TypeOK, LaneOrder, NothingLost, Enqueue
  PROVE  Entered
<1> USE DEF Nil
<1>1. /\ events \in Lane /\ controls \in Lane /\ next + 1 \in Nat \ {0}
      /\ events' = Append(events, next + 1) /\ next' = next + 1
      /\ UNCHANGED <<controls, critical, superseded, worker, executing, ran>>
  BY NextIsNew DEF Enqueue, accept, workers, TypeOK, Lane
<1>2. Range(events') = Range(events) \cup {next + 1}
  BY <1>1, RangeAppend
<1>3. \A e \in Range(events) \cup Range(controls) : e \in Pending
  BY <1>1, RangeType DEF Pending
<1>4. Increasing(events')
  BY <1>1, <1>3, NextIsNew, IncreasingAppend DEF LaneOrder
<1>5. \A s \in Slots : critical[s] # next + 1
  <2>1. \A s \in Slots : critical[s] # Nil => critical[s] \in Pending
    BY DEF TypeOK, Range, Pending
  <2>2. QED
    BY <1>1, <2>1, NextIsNew
<1>6. next + 1 \notin Range(controls)
  BY <1>3, NextIsNew
<1>7. LaneOrder'
  BY <1>1, <1>2, <1>4, <1>5, <1>6 DEF LaneOrder
<1>8. Pending' = Pending \cup {next + 1}
  BY <1>1, <1>2 DEF Pending
<1>9. NothingLost'
  BY <1>1, <1>8, AccountPosted
<1>10. events' \in Lane /\ Len(events') <= Capacity /\ events' # <<>>
  BY <1>1, QueueAssumption DEF Enqueue, HasRoom, Lane
<1>11. QED
  BY <1>1, <1>7, <1>9, <1>10 DEF Entered, TypeOK, HasWork

LEMMA ControlEnters ==
  ASSUME TypeOK, LaneOrder, NothingLost, postControl
  PROVE  Entered
<1> USE DEF Nil
<1>1. /\ events \in Lane /\ controls \in Lane /\ next + 1 \in Nat \ {0}
      /\ controls' = Append(controls, next + 1) /\ next' = next + 1
      /\ UNCHANGED <<events, critical, superseded, worker, executing, ran>>
  BY NextIsNew DEF postControl, accept, workers, TypeOK, Lane
<1>2. Range(controls') = Range(controls) \cup {next + 1}
  BY <1>1, RangeAppend
<1>3. \A e \in Range(events) \cup Range(controls) : e \in Pending
  BY <1>1, RangeType DEF Pending
<1>4. Increasing(controls')
  BY <1>1, <1>3, NextIsNew, IncreasingAppend DEF LaneOrder
<1>5. \A s \in Slots : critical[s] # next + 1
  <2>1. \A s \in Slots : critical[s] # Nil => critical[s] \in Pending
    BY DEF TypeOK, Range, Pending
  <2>2. QED
    BY <1>1, <2>1, NextIsNew
<1>6. next + 1 \notin Range(events)
  BY <1>3, NextIsNew
<1>7. LaneOrder'
  BY <1>1, <1>2, <1>4, <1>5, <1>6 DEF LaneOrder
<1>8. Pending' = Pending \cup {next + 1}
  BY <1>1, <1>2 DEF Pending
<1>9. NothingLost'
  BY <1>1, <1>8, AccountPosted
<1>10. /\ controls' \in Lane /\ Len(controls') <= ControlCapacity
       /\ controls' # <<>>
  BY <1>1, QueueAssumption DEF postControl, HasRoom, Lane
<1>11. QED
  BY <1>1, <1>7, <1>9, <1>10 DEF Entered, TypeOK, Lane, HasWork

\* A latest state that waits is accounted for as superseded.
LEMMA CriticalEnters ==
  ASSUME TypeOK, LaneOrder, NothingLost, NEW slot \in Slots, postCritical(slot)
  PROVE  Entered
<1> USE DEF Nil
<1> DEFINE old == critical[slot]
<1>1. /\ next + 1 \in Nat \ {0} /\ next' = next + 1
      /\ critical' \in [Slots -> Nat]
      /\ \A s \in Slots : critical'[s] = IF s = slot THEN next + 1 ELSE critical[s]
      /\ superseded' = superseded \cup ({old} \ {Nil})
      /\ UNCHANGED <<events, controls, worker, executing, ran>>
  BY NextIsNew DEF postCritical, accept, workers, TypeOK
<1>2. DOMAIN critical = Slots /\ DOMAIN critical' = Slots /\ old \in Nat
  BY <1>1 DEF TypeOK
<1>3. /\ events \in Lane /\ controls \in Lane
      /\ \A e \in Range(events) \cup Range(controls) : e \in Pending
  BY RangeType DEF Pending, TypeOK, Lane
<1>4. \A s \in Slots : critical[s] # Nil => critical[s] \in Pending
  BY <1>2 DEF Range, Pending
<1>5. /\ next + 1 \notin Range(events) \cup Range(controls)
      /\ \A s \in Slots : critical[s] # next + 1
  BY <1>1, <1>3, <1>4, NextIsNew
<1>6. LaneOrder'
  BY <1>1, <1>5 DEF LaneOrder
<1>7. \A s \in Slots : critical[s] = old /\ old # Nil => s = slot
  BY DEF LaneOrder
<1>8. Range(critical') \ {Nil} = ((Range(critical) \ {Nil}) \ {old}) \cup {next + 1}
  BY <1>1, <1>2, <1>7 DEF Range
<1>9. old # Nil => old \notin Range(events) \cup Range(controls)
  BY DEF LaneOrder
<1>10. Nil \notin Range(events) \cup Range(controls)
  BY <1>3, RangeType
<1>11. Pending' = (Pending \ {old}) \cup {next + 1}
  BY <1>1, <1>8, <1>9, <1>10 DEF Pending
<1>12. old \in Pending \cup {Nil} /\ Nil \notin Pending
  BY <1>4 DEF Pending
<1>13. Executing' = Executing
  BY <1>1 DEF Executing
<1>14. NothingLost'
  <2>1. 1..next' = Pending' \cup Executing' \cup ran' \cup superseded'
    BY <1>1, <1>11, <1>12, <1>13, NextIsNew DEF NothingLost
  <2>2. /\ Pending' \cap (Executing' \cup ran' \cup superseded') = {}
        /\ Executing' \cap (ran' \cup superseded') = {}
        /\ ran' \cap superseded' = {}
    BY <1>1, <1>11, <1>12, <1>13, NextIsNew DEF NothingLost
  <2>3. QED
    BY <2>1, <2>2 DEF NothingLost
<1>15. HasWork'
  BY <1>1 DEF HasWork, hasCritical
<1>16. superseded' \in SUBSET Nat
  BY <1>1, <1>2 DEF TypeOK
<1>17. Len(events') <= Capacity /\ Len(controls') <= ControlCapacity
  BY <1>1 DEF TypeOK
<1>18. QED
  BY <1>1, <1>3, <1>6, <1>14, <1>15, <1>16, <1>17 DEF Entered

-----------------------------------------------------------------------------
(* The steps *)

\* An accepted post wakes one sleeper, and that is the worker if it sleeps.
LEMMA PostStep ==
  ASSUME IInv, Entered, accept,
         op' \in [Callers -> {"none", "reliable", "waitIdle", "close"}],
         \A c \in Callers : op'[c] = "close" => op[c] = "close"
  PROVE  IInv'
<1>1. /\ UNCHANGED <<active, stopped, worker, executing, ran, closed>>
      /\ ~closed /\ next' = next + 1 /\ asleep' \subseteq asleep
  BY SignalType DEF accept, workers
<1>2. TypeOK'
  BY <1>1 DEF IInv, TypeOK, Entered, Lane, Nil
<1>3. SleepFacts'
  BY <1>1 DEF IInv, SleepFacts, Entered
<1>4. Worker \notin asleep'
  <2>1. CASE Worker \in asleep
    <3>1. asleep = {Worker}
      BY <2>1 DEF IInv, WorkerSleepsAlone
    <3>2. QED
      BY <3>1 DEF accept, Signal
  <2>2. CASE Worker \notin asleep
    BY <2>2, <1>1
  <2>3. QED
    BY <2>1, <2>2
<1>5. QED
  BY <1>2, <1>3, <1>4 DEF IInv, Entered, WorkerSleepsAlone

\* What has been executed is accounted for as run.
LEMMA RunAccount ==
  ASSUME TypeOK, NothingLost, ran' = ran \cup Executing,
         UNCHANGED <<next, superseded>>,
         \/ /\ worker' = "callback" /\ executing' \in Pending
            /\ Pending' = Pending \ {executing'}
         \/ worker' # "callback" /\ Pending' = Pending
  PROVE  NothingLost' /\ ran' \in SUBSET Nat
<1>1. ran' \in SUBSET Nat
  BY DEF TypeOK, Executing
<1>2. CASE /\ worker' = "callback" /\ executing' \in Pending
           /\ Pending' = Pending \ {executing'}
  <2>1. Executing' = {executing'}
    BY <1>2 DEF Executing
  <2>2. QED
    BY <1>1, <1>2, <2>1 DEF NothingLost
<1>3. CASE worker' # "callback" /\ Pending' = Pending
  <2>1. Executing' = {}
    BY <1>3 DEF Executing
  <2>2. QED
    BY <1>1, <1>3, <2>1 DEF NothingLost
<1>4. QED
  BY <1>2, <1>3

LEMMA ActiveNow ==
  ASSUME TypeOK, SleepFacts, Resume
  PROVE  activeNow = 0
BY DEF TypeOK, SleepFacts, Resume, activeNow

LEMMA RunStep ==
  ASSUME IInv, Run
  PROVE  IInv'
<1>1. /\ TypeOK /\ SleepFacts /\ WorkerSleepsAlone /\ LaneOrder /\ NothingLost
      /\ Worker \notin Callers /\ worker # "done" /\ ~stopped
  BY QueueAssumption DEF IInv, Run, runTake, runWait, runStop, Resume, SleepFacts
<1>2. CASE runTake
  <2>1. /\ Take /\ active' = 1 /\ worker' = "callback" /\ asleep' = {}
        /\ ran' = ran \cup Executing
        /\ UNCHANGED <<stopped, closed, op, next, superseded>>
    BY <1>1, <1>2, ActiveNow DEF runTake, Take, Broadcast
  <2>2. /\ executing' \in Pending /\ Pending' = Pending \ {executing'}
        /\ events' \in Lane /\ Len(events') <= Len(events)
        /\ controls' \in Lane /\ Len(controls') <= Len(controls)
        /\ critical' \in [Slots -> Nat]
        /\ LaneOrder'
    BY <1>1, <2>1, TakeRemoves
  <2>3. NothingLost' /\ ran' \in SUBSET Nat
    BY <1>1, <2>1, <2>2, RunAccount
  <2>4. executing' \in Nat
    BY <1>1, <2>2, PendingType
  <2>5. Len(events') <= Capacity /\ Len(controls') <= ControlCapacity
    BY <1>1, <2>2, QueueAssumption DEF TypeOK, Lane
  <2>6. TypeOK'
    BY <1>1, <2>1, <2>2, <2>3, <2>4, <2>5 DEF TypeOK, Lane, Nil
  <2>7. SleepFacts' /\ WorkerSleepsAlone'
    BY <1>1, <2>1 DEF SleepFacts, WorkerSleepsAlone
  <2>8. QED
    BY <2>2, <2>3, <2>6, <2>7 DEF IInv
<1>3. CASE runWait
  <2>1. /\ active' = 0 /\ worker' = "waiting" /\ ~HasWork /\ ~closed
        /\ ran' = ran \cup Executing
        /\ asleep' = (IF worker = "callback" THEN {} ELSE asleep) \cup {Worker}
        /\ UNCHANGED <<events, controls, critical, stopped, executing, closed,
                       op, next, superseded>>
    BY <1>1, <1>3, ActiveNow DEF runWait, lanes
  <2>2. Pending' = Pending /\ HasWork' = HasWork /\ LaneOrder'
    BY <1>1, <2>1 DEF Pending, HasWork, hasCritical, LaneOrder
  <2>3. NothingLost' /\ ran' \in SUBSET Nat
    BY <1>1, <2>1, <2>2, RunAccount
  <2>4. asleep' = {Worker}
    BY <1>1, <2>1 DEF SleepFacts, TypeOK
  <2>5. TypeOK'
    BY <1>1, <2>1, <2>3, <2>4 DEF TypeOK
  <2>6. SleepFacts' /\ WorkerSleepsAlone'
    BY <1>1, <2>1, <2>2, <2>4 DEF SleepFacts, WorkerSleepsAlone
  <2>7. QED
    BY <2>2, <2>3, <2>5, <2>6 DEF IInv
<1>4. CASE runStop
  <2>1. /\ active' = 0 /\ worker' = "done" /\ ~HasWork /\ closed /\ stopped'
        /\ ran' = ran \cup Executing
        /\ asleep' = {}
        /\ UNCHANGED <<events, controls, critical, executing, closed, op, next,
                       superseded>>
    BY <1>1, <1>4, ActiveNow DEF runStop, lanes, Broadcast
  <2>2. Pending' = Pending /\ HasWork' = HasWork /\ LaneOrder'
    BY <1>1, <2>1 DEF Pending, HasWork, hasCritical, LaneOrder
  <2>3. NothingLost' /\ ran' \in SUBSET Nat
    BY <1>1, <2>1, <2>2, RunAccount
  <2>4. stopped' \in BOOLEAN
    BY <1>4 DEF runStop
  <2>5. TypeOK'
    BY <1>1, <2>1, <2>3, <2>4 DEF TypeOK
  <2>6. SleepFacts' /\ WorkerSleepsAlone'
    BY <1>1, <2>1, <2>2 DEF SleepFacts, WorkerSleepsAlone
  <2>7. QED
    BY <2>2, <2>3, <2>5, <2>6 DEF IInv
<1>5. QED
  BY <1>2, <1>3, <1>4 DEF Run

\* A call that only goes to sleep or returns.  It may sleep only where the
\* worker is awake: with work, in a callback, or once the queue is closed.
LEMMA CallStep ==
  ASSUME IInv, UNCHANGED <<lanes, workers, closed, next, superseded>>,
         op' \in [Callers -> {"none", "reliable", "waitIdle", "close"}],
         \A c \in Callers : op'[c] = "close" => op[c] = "close",
         \/ asleep' = asleep
         \/ /\ \E c \in Callers : asleep' = asleep \cup {c}
            /\ HasWork \/ worker = "callback" \/ closed
  PROVE  IInv'
<1>1. UNCHANGED <<events, controls, critical, active, stopped, worker, executing,
                  ran, closed, next, superseded>>
  BY DEF lanes, workers
<1>2. /\ HasWork' = HasWork /\ Pending' = Pending /\ LaneOrder'
      /\ Executing' = Executing
  BY <1>1 DEF HasWork, hasCritical, Pending, Executing, IInv, LaneOrder
<1>3. NothingLost'
  BY <1>1, <1>2 DEF IInv, NothingLost
<1>4. TypeOK'
  BY <1>1 DEF IInv, TypeOK
<1>5. Worker \in asleep' <=> Worker \in asleep
  BY QueueAssumption
<1>6. SleepFacts'
  <2>1. (\E c \in Callers : c \in asleep) => HasWork \/ worker = "callback" \/ closed
    BY DEF IInv, SleepFacts
  <2>2. (\E c \in Callers : c \in asleep') => HasWork \/ worker = "callback" \/ closed
    BY <2>1
  <2>3. QED
    BY <1>1, <1>2, <1>5, <2>2 DEF IInv, SleepFacts
<1>7. WorkerSleepsAlone'
  <2>1. ASSUME Worker \in asleep
        PROVE  ~HasWork /\ worker # "callback" /\ ~closed
    BY <2>1 DEF IInv, SleepFacts, WorkerSleepsAlone
  <2>2. Worker \in asleep' => asleep' = asleep
    BY <1>5, <2>1
  <2>3. QED
    BY <1>1, <1>2, <1>5, <2>2 DEF IInv, WorkerSleepsAlone
<1>8. QED
  BY <1>2, <1>3, <1>4, <1>6, <1>7 DEF IInv

LEMMA CloseStep ==
  ASSUME IInv, NEW c \in Callers, close(c)
  PROVE  IInv'
<1>1. /\ UNCHANGED <<events, controls, critical, active, stopped, worker,
                     executing, ran, next, superseded>>
      /\ closed' = TRUE /\ asleep' = {c} /\ ~stopped
      /\ op' = [op EXCEPT ![c] = "close"]
  BY DEF close, lanes, workers
<1>2. /\ HasWork' = HasWork /\ Pending' = Pending /\ LaneOrder'
      /\ Executing' = Executing
  BY <1>1 DEF HasWork, hasCritical, Pending, Executing, IInv, LaneOrder
<1>3. NothingLost'
  BY <1>1, <1>2 DEF IInv, NothingLost
<1>4. TypeOK'
  BY <1>1 DEF IInv, TypeOK
<1>5. Worker \notin asleep'
  BY <1>1, QueueAssumption
<1>6. SleepFacts' /\ WorkerSleepsAlone'
  BY <1>1, <1>5 DEF IInv, SleepFacts, WorkerSleepsAlone
<1>7. QED
  BY <1>2, <1>3, <1>4, <1>6 DEF IInv

LEMMA BlockedStep ==
  ASSUME IInv, NEW c \in Callers, Blocked(c)
  PROVE  IInv'
<1>1. TypeOK /\ SleepFacts /\ LaneOrder /\ NothingLost
  BY DEF IInv
<1>2. ASSUME NEW kind \in {"none", "reliable", "waitIdle"},
             op' = [op EXCEPT ![c] = kind]
      PROVE  /\ op' \in [Callers -> {"none", "reliable", "waitIdle", "close"}]
             /\ \A x \in Callers : op'[x] = "close" => op[x] = "close"
  BY <1>1, <1>2 DEF TypeOK
<1>3. CASE postReliableWait(c)
  <2>1. HasWork
    BY <1>1, <1>3, QueueAssumption DEF postReliableWait, HasRoom, HasWork, TypeOK
  <2>2. op' = [op EXCEPT ![c] = "reliable"] /\ asleep' = asleep \cup {c}
        /\ UNCHANGED <<lanes, workers, closed, next, superseded>>
    BY <1>3 DEF postReliableWait
  <2>3. QED
    BY <1>2, <2>1, <2>2, CallStep
<1>4. CASE postReliableAccept(c)
  <2>1. Enqueue /\ accept /\ op' = [op EXCEPT ![c] = "none"]
    BY <1>4 DEF postReliableAccept, Enqueue
  <2>2. Entered
    BY <1>1, <2>1, EnqueueEnters
  <2>3. QED
    BY <1>2, <2>1, <2>2, PostStep
<1>5. CASE postReliableRefused(c) \/ waitIdleReturn(c) \/ closeReturn(c)
  <2>1. op' = [op EXCEPT ![c] = "none"] /\ asleep' = asleep
        /\ UNCHANGED <<lanes, workers, closed, next, superseded>>
    BY <1>5 DEF postReliableRefused, waitIdleReturn, closeReturn
  <2>2. QED
    BY <1>2, <2>1, CallStep
<1>6. CASE waitIdleWait(c)
  <2>1. HasWork \/ worker = "callback"
    BY <1>1, <1>6 DEF waitIdleWait, idle, SleepFacts
  <2>2. op' = [op EXCEPT ![c] = "waitIdle"] /\ asleep' = asleep \cup {c}
        /\ UNCHANGED <<lanes, workers, closed, next, superseded>>
    BY <1>6 DEF waitIdleWait
  <2>3. QED
    BY <1>2, <2>1, <2>2, CallStep
<1>7. CASE closeWait(c)
  <2>1. closed /\ op' = op /\ asleep' = asleep \cup {c}
        /\ UNCHANGED <<lanes, workers, closed, next, superseded>>
    BY <1>1, <1>7 DEF closeWait, SleepFacts
  <2>2. op' \in [Callers -> {"none", "reliable", "waitIdle", "close"}]
    BY <1>1, <2>1 DEF TypeOK
  <2>3. QED
    BY <2>1, <2>2, CallStep
<1>8. QED
  BY <1>3, <1>4, <1>5, <1>6, <1>7 DEF Blocked

LEMMA InitIInv == Init => IInv
<1> SUFFICES ASSUME Init PROVE IInv
  OBVIOUS
<1> USE DEF Nil
<1>1. Range(events) = {} /\ Range(controls) = {} /\ Range(critical) \subseteq {Nil}
  BY DEF Init, Range
<1>2. Pending = {} /\ ~HasWork
  BY <1>1 DEF Init, Pending, HasWork, hasCritical
<1>3. TypeOK
  <2>1. /\ events \in Seq(Nat \ {Nil}) /\ Len(events) <= Capacity
        /\ controls \in Seq(Nat \ {Nil}) /\ Len(controls) <= ControlCapacity
    BY QueueAssumption DEF Init
  <2>2. /\ critical \in [Slots -> Nat]
        /\ op \in [Callers -> {"none", "reliable", "waitIdle", "close"}]
    BY DEF Init
  <2>3. QED
    BY <2>1, <2>2 DEF Init, TypeOK
<1>4. SleepFacts /\ WorkerSleepsAlone
  BY DEF Init, SleepFacts, WorkerSleepsAlone
<1>5. LaneOrder
  BY <1>1 DEF Init, LaneOrder, Increasing
<1>6. NothingLost
  BY <1>2 DEF Init, NothingLost, Executing
<1>7. QED
  BY <1>3, <1>4, <1>5, <1>6 DEF IInv

-----------------------------------------------------------------------------
(* The theorems *)

\* The inductive invariant holds in every reachable state of the queue.
THEOREM QueueInvariance == Spec => []IInv
<1>1. ASSUME IInv, Next
      PROVE  IInv'
  <2>1. TypeOK /\ LaneOrder /\ NothingLost
    BY <1>1 DEF IInv
  <2>2. CASE Post
    <3>1. op' = op /\ accept
      BY <2>2 DEF Post, post, postControl, postCritical
    <3>2. Entered
      BY <2>1, <2>2, EnqueueEnters, ControlEnters, CriticalEnters
      DEF Post, post, Enqueue
    <3>3. op' \in [Callers -> {"none", "reliable", "waitIdle", "close"}]
      BY <2>1, <3>1 DEF TypeOK
    <3>4. QED
      BY <1>1, <3>1, <3>2, <3>3, PostStep
  <2>3. QED
    BY <1>1, <2>2, RunStep, BlockedStep, CloseStep DEF Next
<1>2. ASSUME IInv, UNCHANGED vars
      PROVE  IInv'
  <2>1. /\ UNCHANGED <<lanes, workers, closed, next, superseded>>
        /\ op' = op /\ asleep' = asleep
    BY <1>2 DEF vars
  <2>2. op' \in [Callers -> {"none", "reliable", "waitIdle", "close"}]
    BY <1>2, <2>1 DEF IInv, TypeOK
  <2>3. QED
    BY <1>2, <2>1, <2>2, CallStep
<1>3. QED
  BY <1>1, <1>2, InitIInv, PTL DEF Spec

\* Signal, which wakes one sleeper, always reaches a sleeping worker: the worker
\* sleeps alone (storage/queue.go:45-121).
THEOREM SignalReachesWorker == Spec => []WorkerSleepsAlone
<1>1. IInv => WorkerSleepsAlone
  BY DEF IInv
<1>2. QED
  BY <1>1, QueueInvariance, PTL

\* No accepted event is lost, none runs twice (storage/queue.go:45-154).
THEOREM QueueLosesNothing == Spec => []NothingLost
<1>1. IInv => NothingLost
  BY DEF IInv
<1>2. QED
  BY <1>1, QueueInvariance, PTL

\* When the worker has stopped, every accepted event has run: close drains the
\* queue (storage/queue.go:114-154, 195-204).
THEOREM CloseDrainsQueue == Spec => []CloseDrains
<1>1. IInv => CloseDrains
  <2>1. SUFFICES ASSUME IInv, stopped PROVE closed /\ 1..next = ran \cup superseded
    BY DEF CloseDrains
  <2>2. closed /\ ~HasWork /\ worker = "done" /\ Pending = {}
    BY <2>1, NothingPending DEF IInv, SleepFacts
  <2>3. Executing = {}
    BY <2>2 DEF Executing
  <2>4. QED
    BY <2>1, <2>2, <2>3 DEF IInv, NothingLost
<1>2. QED
  BY <1>1, QueueInvariance, PTL

\* Ordinary events are taken in the order in which they were accepted, whoever
\* posted them (storage/queue.go:137-142).
THEOREM OrdinaryInOrder == Spec => OrdinaryFIFO
<1> DEFINE Ordered == \A e, f \in Range(events) :
                        e < f /\ f \notin Range(events') => e \notin Range(events')
<1>1. ASSUME IInv, Next
      PROVE  Ordered
  <2>1. /\ events \in Lane /\ Increasing(events) /\ next + 1 \in Nat \ {0}
    BY <1>1, NextIsNew DEF IInv, TypeOK, LaneOrder, Lane, Nil
  <2>2. CASE Range(events) \subseteq Range(events')
    BY <2>2
  <2>3. CASE takeEvent
    <3>1. Range(events') = Range(events) \ {events[1]} /\ events # <<>>
      BY <2>1, <2>3, TailOfLane DEF takeEvent
    <3>2. /\ \A e \in Range(events) : events[1] <= e /\ e \in Nat
          /\ events[1] \in Range(events)
      BY <2>1, <3>1, HeadIsOldest, RangeType
    <3>3. QED
      BY <3>1, <3>2
  <2>4. CASE events' = Append(events, next + 1)
    <3>1. Range(events') = Range(events) \cup {next + 1}
      BY <2>1, <2>4, RangeAppend
    <3>2. QED
      BY <3>1
  <2>5. CASE events' = events
    BY <2>5
  <2>6. \/ takeEvent
        \/ events' = Append(events, next + 1)
        \/ events' = events
    BY <1>1 DEF Next, Post, post, postControl, postCritical, Run, runTake, runWait,
                runStop, takeCritical, takeControl, Blocked, postReliableWait,
                postReliableAccept, postReliableRefused, waitIdleWait,
                waitIdleReturn, closeWait, closeReturn, close, lanes
  <2>7. QED
    BY <2>3, <2>4, <2>5, <2>6
<1>2. IInv /\ [Next]_vars => [Ordered]_vars
  BY <1>1
<1>3. QED
  BY <1>2, QueueInvariance, PTL DEF Spec, OrdinaryFIFO

\* The lanes stay within their capacities, and every variable has its type
\* (storage/queue.go:14-29, 57-95).
THEOREM QueueTypes == Spec => []TypeOK
<1>1. IInv => TypeOK
  BY DEF IInv
<1>2. QED
  BY <1>1, QueueInvariance, PTL

-----------------------------------------------------------------------------
(* The queue is a DrainingExecutor *)

\* What waits, pair by pair.
LEMMA WaitingPairs ==
  /\ \A w \in waiting : w = <<w[1], w[2]>>
  /\ \A u, e : <<u, e>> \in waiting <=>
       \/ u \in Slots /\ critical[u] # Nil /\ e = critical[u]
       \/ u = Control /\ e \in Range(controls)
       \/ u = Ordinary /\ e \in Range(events)
BY DEF waiting

LEMMA WaitingPairsNext ==
  /\ \A w \in waiting' : w = <<w[1], w[2]>>
  /\ \A u, e : <<u, e>> \in waiting' <=>
       \/ u \in Slots /\ critical'[u] # Nil /\ e = critical'[u]
       \/ u = Control /\ e \in Range(controls')
       \/ u = Ordinary /\ e \in Range(events')
BY DEF waiting

\* Slots, controls and ordinary events do not share an urgency.
LEMMA UrgenciesDiffer ==
  /\ Control \notin Slots /\ Ordinary \notin Slots /\ Control # Ordinary
  /\ LatestState \in Slots
  /\ \A s \in Slots : s \in Nat /\ s < Control /\ s < Ordinary
  /\ Control < Ordinary /\ Control \in Nat /\ Ordinary \in Nat
BY DEF Slots, TerminalState, Error, LatestState, Control, Ordinary

LEMMA NothingWaits ==
  ASSUME TypeOK, ~HasWork
  PROVE  waiting = {}
<1>1. Range(events) = {} /\ Range(controls) = {}
  BY DEF HasWork, Range
<1>2. \A s \in Slots : critical[s] = Nil
  BY DEF HasWork, hasCritical
<1>3. QED
  BY <1>1, <1>2 DEF waiting

LEMMA QueueBegins == Init => Contract!Init
<1> SUFFICES ASSUME Init PROVE Contract!Init
  OBVIOUS
<1>1. /\ next = 0 /\ Executing = {} /\ queuePhase = "open"
      /\ events = <<>> /\ controls = <<>> /\ \A s \in Slots : critical[s] = Nil
  BY DEF Init, Executing, queuePhase
<1>2. Range(events) = {} /\ Range(controls) = {}
  BY <1>1 DEF Range
<1>3. waiting = {}
  BY <1>1, <1>2 DEF waiting
<1>4. QED
  BY <1>1, <1>3 DEF Contract!Init

\* An accepted post leaves the worker, its callback and the phase alone.
LEMMA AcceptLeaves ==
  ASSUME IInv, accept
  PROVE  /\ next' = next + 1 /\ Executing' = Executing
         /\ queuePhase' = queuePhase /\ queuePhase = "open"
<1>1. ~closed /\ ~stopped
  BY DEF accept, IInv, SleepFacts
<1>2. QED
  BY <1>1 DEF accept, workers, Executing, queuePhase

\* A post to one of the two lanes.
LEMMA LaneAccepts ==
  ASSUME IInv, accept, UNCHANGED critical,
         \/ events' = Append(events, next + 1) /\ UNCHANGED controls
         \/ controls' = Append(controls, next + 1) /\ UNCHANGED events
  PROVE  \E u \in {Control, Ordinary} : Contract!Accept(u)
<1>1. events \in Lane /\ controls \in Lane /\ next + 1 \in Nat \ {0}
  BY NextIsNew DEF IInv, TypeOK, Lane, Nil
<1>2. CASE events' = Append(events, next + 1) /\ UNCHANGED controls
  <2>1. Range(events') = Range(events) \cup {next + 1}
    BY <1>1, <1>2, RangeAppend
  <2>2. waiting' = waiting \cup {<<Ordinary, next + 1>>}
    BY <1>2, <2>1 DEF waiting
  <2>3. Contract!Accept(Ordinary)
    BY <2>2, AcceptLeaves, UrgenciesDiffer DEF Contract!Accept
  <2>4. QED
    BY <2>3
<1>3. CASE controls' = Append(controls, next + 1) /\ UNCHANGED events
  <2>1. Range(controls') = Range(controls) \cup {next + 1}
    BY <1>1, <1>3, RangeAppend
  <2>2. waiting' = waiting \cup {<<Control, next + 1>>}
    BY <1>3, <2>1 DEF waiting
  <2>3. Contract!Accept(Control)
    BY <2>2, AcceptLeaves, UrgenciesDiffer DEF Contract!Accept
  <2>4. QED
    BY <2>3
<1>4. QED
  BY <1>2, <1>3

\* A post to a slot that is empty, or whose latest state it replaces.
LEMMA SlotAccepts ==
  ASSUME IInv, NEW slot \in Slots, postCritical(slot)
  PROVE  Contract!Accept(slot)
<1>1. /\ next + 1 # Nil /\ accept
      /\ \A s \in Slots : critical'[s] = IF s = slot THEN next + 1 ELSE critical[s]
      /\ critical[slot] = Nil \/ slot = LatestState
      /\ UNCHANGED <<events, controls>>
  BY NextIsNew DEF postCritical, IInv, TypeOK, Nil
<1>2. Contract!Of(slot) = {w \in waiting : w[1] = slot}
  BY DEF Contract!Of
<1>3. \A u, e : <<u, e>> \in waiting' <=>
          (u # slot /\ <<u, e>> \in waiting) \/ (u = slot /\ e = next + 1)
  <2>1. SUFFICES ASSUME NEW u, NEW e
                 PROVE  <<u, e>> \in waiting' <=>
                           \/ u # slot /\ <<u, e>> \in waiting
                           \/ u = slot /\ e = next + 1
    OBVIOUS
  <2>2. CASE u = slot
    <3>1. critical'[u] = next + 1 /\ u # Control /\ u # Ordinary
      BY <1>1, <2>2, UrgenciesDiffer
    <3>2. QED
      BY <1>1, <2>2, <3>1, WaitingPairsNext
  <2>3. CASE u # slot
    <3>1. u \in Slots => critical'[u] = critical[u]
      BY <1>1, <2>3
    <3>2. <<u, e>> \in waiting' <=> <<u, e>> \in waiting
      BY <1>1, <3>1, WaitingPairs, WaitingPairsNext
    <3>3. QED
      BY <2>3, <3>2
  <2>4. QED
    BY <2>2, <2>3
<1>4. waiting' = (waiting \ Contract!Of(slot)) \cup {<<slot, next + 1>>}
  <2>1. ASSUME NEW w \in waiting'
        PROVE  w \in (waiting \ Contract!Of(slot)) \cup {<<slot, next + 1>>}
    <3>1. w = <<w[1], w[2]>>
      BY <2>1, WaitingPairsNext
    <3>2. (w[1] # slot /\ w \in waiting) \/ (w[1] = slot /\ w[2] = next + 1)
      BY <1>3, <2>1, <3>1
    <3>3. QED
      BY <1>2, <3>1, <3>2
  <2>2. ASSUME NEW w \in waiting \ Contract!Of(slot)
        PROVE  w \in waiting'
    <3>1. w = <<w[1], w[2]>> /\ w[1] # slot
      BY <1>2, <2>2, WaitingPairs
    <3>2. QED
      BY <1>3, <2>2, <3>1
  <2>3. <<slot, next + 1>> \in waiting'
    BY <1>3
  <2>4. QED
    BY <2>1, <2>2, <2>3
<1>5. slot # LatestState => Contract!Of(slot) = {}
  <2>1. SUFFICES ASSUME slot # LatestState, NEW w \in waiting, w[1] = slot
                 PROVE  FALSE
    BY <1>2
  <2>2. critical[slot] # Nil
    BY <2>1, WaitingPairs, UrgenciesDiffer
  <2>3. QED
    BY <1>1, <2>1, <2>2
<1>6. QED
  BY <1>1, <1>4, <1>5, AcceptLeaves DEF Contract!Accept

\* What the worker takes waits, and nothing that waits goes before it.
LEMMA TakesFirst ==
  ASSUME IInv, Take
  PROVE  \E u \in Slots \cup {Control, Ordinary} :
            /\ <<u, executing'>> \in waiting
            /\ waiting' = waiting \ {<<u, executing'>>}
            /\ \A w \in waiting : Contract!Before(<<u, executing'>>, w)
<1>1. /\ events \in Lane /\ controls \in Lane
      /\ Increasing(events) /\ Increasing(controls)
      /\ critical \in [Slots -> Nat]
  BY DEF IInv, TypeOK, LaneOrder, Lane, Nil
<1>2. ASSUME NEW slot \in Slots, takeCritical(slot)
      PROVE  /\ <<slot, executing'>> \in waiting
             /\ waiting' = waiting \ {<<slot, executing'>>}
             /\ \A w \in waiting : Contract!Before(<<slot, executing'>>, w)
  <2>1. /\ executing' = critical[slot] /\ critical[slot] # Nil
        /\ \A s \in Slots : critical[s] # Nil => slot <= s
        /\ \A s \in Slots : critical'[s] = IF s = slot THEN Nil ELSE critical[s]
        /\ UNCHANGED <<events, controls>>
    BY <1>1, <1>2 DEF takeCritical, firstCritical
  <2>2. <<slot, executing'>> \in waiting
    BY <2>1, WaitingPairs
  <2>3. \A u, e : <<u, e>> \in waiting' <=> u # slot /\ <<u, e>> \in waiting
    <3>1. SUFFICES ASSUME NEW u, NEW e
                   PROVE  <<u, e>> \in waiting' <=> u # slot /\ <<u, e>> \in waiting
      OBVIOUS
    <3>2. CASE u = slot
      <4>1. critical'[u] = Nil /\ u # Control /\ u # Ordinary
        BY <2>1, <3>2, UrgenciesDiffer
      <4>2. QED
        BY <3>2, <4>1, WaitingPairsNext
    <3>3. CASE u # slot
      <4>1. u \in Slots => critical'[u] = critical[u]
        BY <2>1, <3>3
      <4>2. <<u, e>> \in waiting' <=> <<u, e>> \in waiting
        BY <2>1, <4>1, WaitingPairs, WaitingPairsNext
      <4>3. QED
        BY <3>3, <4>2
    <3>4. QED
      BY <3>2, <3>3
  <2>4. \A e : <<slot, e>> \in waiting => e = executing'
    BY <2>1, WaitingPairs, UrgenciesDiffer
  <2>5. \A w \in waiting' : w \in waiting \ {<<slot, executing'>>}
    BY <2>3, WaitingPairsNext
  <2>6. \A w \in waiting \ {<<slot, executing'>>} : w \in waiting'
    BY <2>3, <2>4, WaitingPairs
  <2>7. ASSUME NEW w \in waiting
        PROVE  slot < w[1] \/ (slot = w[1] /\ executing' <= w[2])
    <3>1. w = <<w[1], w[2]>>
      BY WaitingPairs
    <3>2. CASE w[1] = slot
      BY <1>1, <2>1, <2>4, <3>1, <3>2
    <3>3. CASE w[1] \in Slots \ {slot}
      <4>1. critical[w[1]] # Nil
        BY <3>1, <3>3, WaitingPairs, UrgenciesDiffer
      <4>2. QED
        BY <2>1, <3>3, <4>1, UrgenciesDiffer
    <3>4. CASE w[1] \in {Control, Ordinary}
      BY <3>4, UrgenciesDiffer
    <3>5. QED
      BY <3>1, <3>2, <3>3, <3>4, WaitingPairs
  <2>8. QED
    BY <2>2, <2>5, <2>6, <2>7 DEF Contract!Before
<1>3. ASSUME takeControl
      PROVE  /\ <<Control, executing'>> \in waiting
             /\ waiting' = waiting \ {<<Control, executing'>>}
             /\ \A w \in waiting : Contract!Before(<<Control, executing'>>, w)
  <2>1. /\ controls # <<>> /\ executing' = controls[1] /\ controls' = Tail(controls)
        /\ UNCHANGED <<events, critical>>
        /\ \A s \in Slots : critical[s] = Nil
    BY <1>3 DEF takeControl, hasCritical
  <2>2. /\ Range(controls') = Range(controls) \ {executing'}
        /\ executing' \in Range(controls)
        /\ \A e \in Range(controls) : executing' <= e
    BY <1>1, <2>1, TailOfLane, HeadIsOldest
  <2>3. <<Control, executing'>> \in waiting
    BY <2>2, WaitingPairs
  <2>4. \A u, e : <<u, e>> \in waiting' <=>
            <<u, e>> \in waiting /\ <<u, e>> # <<Control, executing'>>
    BY <2>1, <2>2, WaitingPairs, WaitingPairsNext, UrgenciesDiffer
  <2>5. waiting' = waiting \ {<<Control, executing'>>}
    BY <2>4, WaitingPairs, WaitingPairsNext
  <2>6. ASSUME NEW w \in waiting
        PROVE  Control < w[1] \/ (Control = w[1] /\ executing' <= w[2])
    <3>1. (w[1] = Control /\ w[2] \in Range(controls)) \/ w[1] = Ordinary
      BY <2>1, WaitingPairs
    <3>2. QED
      BY <2>2, <3>1, UrgenciesDiffer
  <2>7. QED
    BY <2>3, <2>5, <2>6 DEF Contract!Before
<1>4. ASSUME takeEvent
      PROVE  /\ <<Ordinary, executing'>> \in waiting
             /\ waiting' = waiting \ {<<Ordinary, executing'>>}
             /\ \A w \in waiting : Contract!Before(<<Ordinary, executing'>>, w)
  <2>1. /\ events # <<>> /\ executing' = events[1] /\ events' = Tail(events)
        /\ UNCHANGED <<controls, critical>> /\ controls = <<>>
        /\ \A s \in Slots : critical[s] = Nil
    BY <1>4 DEF takeEvent, hasCritical
  <2>2. /\ Range(events') = Range(events) \ {executing'}
        /\ executing' \in Range(events)
        /\ \A e \in Range(events) : executing' <= e
        /\ Range(controls) = {}
    <3>1. Range(controls) = {}
      BY <2>1 DEF Range
    <3>2. QED
      BY <1>1, <2>1, <3>1, TailOfLane, HeadIsOldest
  <2>3. <<Ordinary, executing'>> \in waiting
    BY <2>2, WaitingPairs
  <2>4. \A u, e : <<u, e>> \in waiting' <=>
            <<u, e>> \in waiting /\ <<u, e>> # <<Ordinary, executing'>>
    BY <2>1, <2>2, WaitingPairs, WaitingPairsNext, UrgenciesDiffer
  <2>5. waiting' = waiting \ {<<Ordinary, executing'>>}
    BY <2>4, WaitingPairs, WaitingPairsNext
  <2>6. \A w \in waiting : w[1] = Ordinary /\ w[2] \in Range(events)
    BY <2>1, <2>2, WaitingPairs
  <2>7. QED
    BY <2>2, <2>3, <2>5, <2>6 DEF Contract!Before
<1>5. QED
  BY <1>2, <1>3, <1>4 DEF Take

LEMMA RunDrains ==
  ASSUME IInv, Run
  PROVE  Contract!Next \/ UNCHANGED Contract!vars
<1>1. TypeOK /\ ~stopped
  BY DEF IInv, Run, runTake, runWait, runStop, Resume, SleepFacts
<1>2. CASE runTake
  <2>1. Take /\ UNCHANGED <<stopped, closed, next>> /\ Executing' = {executing'}
    BY <1>2 DEF runTake, Take, Executing
  <2>2. PICK u \in Slots \cup {Control, Ordinary} :
            /\ <<u, executing'>> \in waiting
            /\ waiting' = waiting \ {<<u, executing'>>}
            /\ \A w \in waiting : Contract!Before(<<u, executing'>>, w)
    BY <2>1, TakesFirst
  <2>3. queuePhase # "stopped" /\ queuePhase' = queuePhase
    BY <1>1, <2>1 DEF queuePhase
  <2>4. Contract!Start(<<u, executing'>>)
    BY <2>1, <2>2, <2>3 DEF Contract!Start
  <2>5. QED
    BY <2>2, <2>4 DEF Contract!Next
<1>3. CASE runWait
  <2>1. /\ waiting' = waiting /\ queuePhase' = queuePhase /\ next' = next
        /\ Executing' = {}
    BY <1>3 DEF runWait, lanes, waiting, queuePhase, Executing
  <2>2. QED
    BY <2>1 DEF Contract!Next, Contract!Return
<1>4. CASE runStop
  <2>1. /\ waiting' = waiting /\ next' = next /\ Executing' = {}
        /\ ~HasWork /\ closed /\ stopped'
    BY <1>4 DEF runStop, lanes, waiting, Executing
  <2>2. queuePhase = "closing" /\ queuePhase' = "stopped" /\ waiting = {}
    BY <1>1, <2>1, NothingWaits DEF queuePhase
  <2>3. QED
    BY <2>1, <2>2 DEF Contract!Next, Contract!Stop
<1>5. QED
  BY <1>2, <1>3, <1>4 DEF Run

\* Calls that sleep or return are not seen by the callbacks.
LEMMA CallUnseen ==
  ASSUME UNCHANGED <<lanes, workers, closed, next>>
  PROVE  UNCHANGED Contract!vars
BY DEF Contract!vars, lanes, workers, waiting, Executing, queuePhase

LEMMA CloseBegins ==
  ASSUME NEW c \in Callers, close(c)
  PROVE  Contract!Next \/ UNCHANGED Contract!vars
<1>1. /\ waiting' = waiting /\ next' = next /\ Executing' = Executing
      /\ ~stopped /\ ~stopped' /\ closed'
  BY DEF close, lanes, workers, waiting, Executing
<1>2. CASE closed
  BY <1>1, <1>2 DEF Contract!vars, queuePhase
<1>3. CASE ~closed
  <2>1. queuePhase = "open" /\ queuePhase' = "closing"
    BY <1>1, <1>3 DEF queuePhase
  <2>2. QED
    BY <1>1, <2>1 DEF Contract!Next, Contract!Close
<1>4. QED
  BY <1>2, <1>3

\* The queue implements the DrainingExecutor, whatever its capacities, posters,
\* waiters and closers (storage/queue.go:44-204).
THEOREM QueueDrains == Spec => ImplementsDrainingExecutor
<1>1. ASSUME IInv, Next
      PROVE  Contract!Next \/ UNCHANGED Contract!vars
  <2> DEFINE Urgent == Slots \cup {Control, Ordinary}
  <2>1. ASSUME NEW u \in Urgent, Contract!Accept(u)
        PROVE  Contract!Next
    BY <2>1 DEF Contract!Next
  <2> HIDE DEF Urgent
  <2>2. Slots \subseteq Urgent /\ {Control, Ordinary} \subseteq Urgent
    BY DEF Urgent
  <2>3. CASE Post
    <3>1. CASE post
      BY <1>1, <2>1, <2>2, <3>1, LaneAccepts DEF post
    <3>2. CASE postControl
      BY <1>1, <2>1, <2>2, <3>2, LaneAccepts DEF postControl
    <3>3. ASSUME NEW slot \in Slots, postCritical(slot)
          PROVE  Contract!Next
      BY <1>1, <2>1, <2>2, <3>3, SlotAccepts
    <3>4. QED
      BY <2>3, <3>1, <3>2, <3>3 DEF Post
  <2>4. CASE Run
    BY <1>1, <2>4, RunDrains
  <2>5. ASSUME NEW c \in Callers, Blocked(c)
        PROVE  Contract!Next \/ UNCHANGED Contract!vars
    <3>1. CASE postReliableAccept(c)
      BY <1>1, <2>1, <2>2, <3>1, LaneAccepts DEF postReliableAccept
    <3>2. CASE UNCHANGED <<lanes, workers, closed, next>>
      BY <3>2, CallUnseen
    <3>3. QED
      BY <2>5, <3>1, <3>2
         DEF Blocked, postReliableWait, postReliableRefused, waitIdleWait,
             waitIdleReturn, closeWait, closeReturn
  <2>6. ASSUME NEW c \in Callers, close(c)
        PROVE  Contract!Next \/ UNCHANGED Contract!vars
    BY <2>6, CloseBegins
  <2>7. QED
    BY <1>1, <2>3, <2>4, <2>5, <2>6 DEF Next
<1>2. UNCHANGED vars => UNCHANGED Contract!vars
  BY CallUnseen DEF vars
<1>3. IInv /\ [Next]_vars => [Contract!Next]_(Contract!vars)
  BY <1>1, <1>2
<1>4. QED
  BY <1>3, QueueBegins, QueueInvariance, PTL
     DEF Spec, ImplementsDrainingExecutor, Contract!Spec

-----------------------------------------------------------------------------
(* The Storage client *)

Handles == {"none", "live", "terminal", "destroying", "leaked", "destroyed"}
DeviceStates == {"none", "open", "leaked", "closed"}
CallPlaces == {"idle", "waiting", "cancelled", "closing", "leaving", "done"}

ClientKnown ==
  /\ ClientTypeOK
  /\ closer \in [Closers -> {Step("idle"), Step("closing"), Step("native")}
                            \cup {"cancelling", "awaiting"} \X Calls]
  /\ replay \in [Actors -> {NoReplay} \cup {"draining", "unregistered"} \X Replays]

\* How far a list call has come.
CallKnown(c) ==
  /\ gate = c => call[c] = "idle" /\ device[c] = "open"
  /\ call[c] \in {"waiting", "cancelled", "closing"} => device[c] = "open"
  /\ call[c] = "idle" => handle[c] = "none" /\ (device[c] = "open" => gate = c)
  /\ call[c] = "closing" => handle[c] \in {"destroying", "leaked", "destroyed"}
  /\ call[c] \in {"leaving", "done"} =>
       /\ device[c] \in {"leaked", "closed"}
       /\ handle[c] \in {"none", "leaked", "destroyed"}

\* One actor closes it; until that actor has come to the device, this is open.
ReplayKnown(r) ==
  /\ handle[r] \in {"none", "live", "destroyed"}
  /\ gate = r => handle[r] = "none" /\ device[r] = "open"
  /\ device[r] = "none" => handle[r] = "none"
  /\ handle[r] = "none" /\ device[r] = "open" => gate = r
  /\ handle[r] = "live" => device[r] = "open"
  /\ handle[r] = "destroyed" /\ device[r] = "open" => \E x \in Actors : closesReplay(x, r)
  /\ \A x \in Actors : closesReplay(x, r) =>
       /\ handle[r] = "destroyed" /\ device[r] = "open"
       /\ \A y \in Actors \ {x} : ~closesReplay(y, r)

ObjectsKnown == /\ \A c \in Calls : CallKnown(c)
                /\ \A r \in Replays : ReplayKnown(r)

\* What the native client must outlive.
Active == {c \in Calls : call[c] \notin {"idle", "done"}}
          \cup {r \in Replays : handle[r] = "live"}

\* From its snapshot on a close knows everything that is active, and nothing
\* else becomes active.
CloseKnows ==
  /\ Active \subseteq children
  /\ \A k \in Closers : closer[k] # Step("idle") =>
       /\ closing /\ ~clientClosed /\ gate \notin Objects /\ Active \subseteq todo[k]
       /\ \A j \in Closers \ {k} : closer[j] = Step("idle")
  /\ \A k \in Closers : closer[k] = Step("native") => todo[k] = {}
  /\ clientClosed => Active = {} /\ gate \notin Objects
  /\ native = "closed" => clientClosed

ClientIInv == ClientKnown /\ ObjectsKnown /\ CloseKnows

USE DEF DeviceStates

-----------------------------------------------------------------------------
LEMMA StepsDiffer ==
  /\ Step("idle") # Step("closing") /\ Step("idle") # Step("native")
  /\ Step("closing") # Step("native")
  /\ \A name \in {"cancelling", "awaiting"}, c \in Calls :
       /\ <<name, c>> \notin {Step("idle"), Step("closing"), Step("native")}
BY DEF Step

LEMMA ClientNames == /\ Free \notin Objects \cup Closers
                     /\ \A k \in Closers : k \notin Objects
                     /\ \A c \in Calls : c \in Objects /\ c \notin Replays
                     /\ \A r \in Replays : r \in Objects /\ r \notin Calls
                     /\ \A o \in Objects : o \in Calls \/ o \in Replays
BY ClientAssumption DEF Objects

LEMMA ClientInitHolds == ClientInit => ClientIInv
<1> SUFFICES ASSUME ClientInit PROVE ClientIInv
  OBVIOUS
<1>1. ClientKnown
  <2>1. \A k \in Closers : ~(gate = k) /\ ~(closer[k] = Step("native"))
    BY ClientNames, StepsDiffer DEF ClientInit
  <2>2. ClientTypeOK
    BY <2>1 DEF ClientInit, ClientTypeOK
  <2>3. QED
    BY <2>2 DEF ClientInit, ClientKnown
<1>2. ObjectsKnown
  BY ClientNames DEF ClientInit, ObjectsKnown, CallKnown, ReplayKnown, Objects, closesReplay,
                     NoReplay
<1>3. Active = {}
  BY DEF ClientInit, Active, Objects
<1>4. CloseKnows
  BY <1>3, ClientNames, StepsDiffer DEF ClientInit, CloseKnows
<1>5. QED
  BY <1>1, <1>2, <1>4 DEF ClientIInv

-----------------------------------------------------------------------------
(* Creating children *)

\* What is known of a replay, when one other than it makes a step.
LEMMA ReplayStands ==
  ASSUME NEW r \in Replays, ReplayKnown(r), UNCHANGED replay,
         handle'[r] = handle[r], device'[r] = device[r], gate' = r <=> gate = r
  PROVE  ReplayKnown(r)'
BY DEF ReplayKnown, closesReplay

\* Nothing new while a client is closing or closed.
LEMMA OpenStep ==
  ASSUME ClientIInv, NEW o \in Objects, openDeviceLocked(o)
  PROVE  ClientIInv'
<1>1. /\ gate = Free /\ device[o] = "none" /\ (o \in Calls => call[o] = "idle")
      /\ ~clientClosed /\ ~closing /\ gate' = o
      /\ device' = [device EXCEPT ![o] = "open"]
      /\ UNCHANGED <<closing, clientClosed, children, native, handle, callVars, actorVars>>
  BY DEF openDeviceLocked, refusesChildren
<1> USE DEF callVars, actorVars
<1>2. \A k \in Closers : closer[k] = Step("idle")
  BY <1>1 DEF ClientIInv, CloseKnows
<1>3. ClientKnown'
  <2>1. \A k \in Closers : ~(gate' = k) /\ ~(closer'[k] = Step("native"))
    BY <1>1, <1>2, ClientNames, StepsDiffer
  <2>2. QED
    BY <1>1, <2>1 DEF ClientIInv, ClientKnown, ClientTypeOK
<1>4. ObjectsKnown'
  <2>1. \A c \in Calls : CallKnown(c)'
    BY <1>1, ClientNames DEF ClientIInv, ClientKnown, ClientTypeOK, ObjectsKnown, CallKnown
  <2>2. ASSUME NEW r \in Replays PROVE ReplayKnown(r)'
    <3>1. CASE r = o
      <4>1. ReplayKnown(r) /\ device[r] = "none"
        BY <1>1, <3>1 DEF ClientIInv, ObjectsKnown
      <4>2. /\ handle[r] = "none" /\ handle'[r] = "none"
            /\ device'[r] = "open" /\ gate' = r /\ replay' = replay
            /\ \A x \in Actors : ~closesReplay(x, r)
        BY <1>1, <3>1, <4>1 DEF ReplayKnown, ClientIInv, ClientKnown, ClientTypeOK
      <4>3. QED
        BY <4>2 DEF ReplayKnown, closesReplay
    <3>2. CASE r # o
      BY <1>1, <3>2, ReplayStands, ClientNames
         DEF ClientIInv, ClientKnown, ClientTypeOK, ObjectsKnown
    <3>3. QED
      BY <3>1, <3>2
  <2>3. QED
    BY <1>1, <2>1, <2>2 DEF ClientIInv, ObjectsKnown
<1>5. CloseKnows'
  BY <1>1, <1>2 DEF ClientIInv, CloseKnows, Active
<1>6. QED
  BY <1>3, <1>4, <1>5 DEF ClientIInv

\* The gate's holder is a child that the client does not know yet.
LEMMA CreatorAlone ==
  ASSUME ClientIInv, NEW o \in Objects, gate = o
  PROVE  /\ \A k \in Closers : closer[k] = Step("idle")
         /\ ~clientClosed /\ native = "open"
BY DEF ClientIInv, ClientKnown, ClientTypeOK, CloseKnows

LEMMA StartStep ==
  ASSUME ClientIInv, NEW o \in Objects, startChild(o) \/ startFailed(o)
  PROVE  ClientIInv'
<1>1. /\ gate = o /\ gate' = Free
      /\ UNCHANGED <<closing, clientClosed, native, cancelling, cancelled, actorVars>>
      /\ \/ /\ handle' = [handle EXCEPT ![o] = "live"]
            /\ children' = children \cup {o}
            /\ call' = [c \in Calls |-> IF c = o THEN "waiting" ELSE call[c]]
            /\ UNCHANGED device
         \/ /\ \E result \in {"closed", "leaked"} : device' = [device EXCEPT ![o] = result]
            /\ call' = [c \in Calls |-> IF c = o THEN "done" ELSE call[c]]
            /\ UNCHANGED <<handle, children>>
  BY DEF startChild, startFailed, closeDevice
<1> USE DEF actorVars
<1>2. \A k \in Closers : closer[k] = Step("idle")
  BY <1>1, CreatorAlone
<1>3. ~clientClosed /\ native = "open"
  BY <1>1, CreatorAlone
<1>4. ClientKnown'
  <2>1. \A k \in Closers : ~(gate' = k) /\ ~(closer'[k] = Step("native"))
    BY <1>1, <1>2, ClientNames, StepsDiffer
  <2>2. /\ handle' \in [Objects -> Handles]
        /\ device' \in [Objects -> DeviceStates]
        /\ call' \in [Calls -> CallPlaces] /\ children' \in SUBSET Objects
    BY <1>1 DEF ClientIInv, ClientKnown, ClientTypeOK, Handles, CallPlaces
  <2>3. QED
    BY <1>1, <2>1, <2>2 DEF ClientIInv, ClientKnown, ClientTypeOK, Handles, CallPlaces
<1>5. ObjectsKnown'
  <2>1. \A c \in Calls : CallKnown(c)'
    BY <1>1, ClientNames DEF ClientIInv, ClientKnown, ClientTypeOK, ObjectsKnown, CallKnown
  <2>2. ASSUME NEW r \in Replays PROVE ReplayKnown(r)'
    <3>1. CASE r = o
      <4>1. ReplayKnown(r) /\ gate = r
        BY <1>1, <3>1 DEF ClientIInv, ObjectsKnown
      <4>2. /\ gate' # r /\ replay' = replay
            /\ \/ handle'[r] = "live" /\ device'[r] = "open"
               \/ handle'[r] = "none" /\ device'[r] \in {"closed", "leaked"}
            /\ \A x \in Actors : ~closesReplay(x, r)
        BY <1>1, <3>1, <4>1, ClientNames DEF ReplayKnown, ClientIInv, ClientKnown, ClientTypeOK
      <4>3. QED
        BY <4>2 DEF ReplayKnown, closesReplay
    <3>2. CASE r # o
      BY <1>1, <3>2, ReplayStands, ClientNames
         DEF ClientIInv, ClientKnown, ClientTypeOK, ObjectsKnown
    <3>3. QED
      BY <3>1, <3>2
  <2>3. QED
    BY <1>1, <2>1, <2>2 DEF ObjectsKnown
<1>6. Active' \subseteq children'
  <2>1. Active' \subseteq Active \cup (children' \cap {o})
    BY <1>1, ClientNames DEF ClientIInv, ClientKnown, ClientTypeOK, Active
  <2>2. children \subseteq children'
    BY <1>1
  <2>3. QED
    BY <2>1, <2>2 DEF ClientIInv, CloseKnows
<1>7. CloseKnows'
  BY <1>1, <1>2, <1>3, <1>6, StepsDiffer DEF CloseKnows
<1>8. QED
  BY <1>4, <1>5, <1>7 DEF ClientIInv

-----------------------------------------------------------------------------
(* List calls *)

\* A child that goes on or leaves, while the closes stand still.
LEMMA ClosesStand ==
  ASSUME CloseKnows, UNCHANGED <<gate, closing, clientClosed, native, todo, closer>>,
         Active' \subseteq Active, Active' \subseteq children'
  PROVE  CloseKnows'
BY DEF CloseKnows

LEMMA ListCallStep ==
  ASSUME ClientIInv, NEW c \in Calls,
         requestEnds(c) \/ contextCancels(c) \/ ListCall(c)
  PROVE  ClientIInv'
<1>1. /\ UNCHANGED <<gate, closing, clientClosed, native, actorVars>>
      /\ cancelling' \subseteq cancelling \cup {<<c, c>>}
      /\ cancelled' \in {cancelled, cancelled \cup {c}}
  BY DEF requestEnds, contextCancels, ListCall, contextCancelReturns, destroyRequest,
         requestDestroyed, closeCallDevice, closeDevice, leaveCall, callVars, lifeVars,
         requestCancel
<1> USE DEF actorVars
<1>2. PICK place \in CallPlaces, h \in Handles, d \in DeviceStates :
        /\ call' = [call EXCEPT ![c] = place]
        /\ handle' = [handle EXCEPT ![c] = h]
        /\ device' = [device EXCEPT ![c] = d]
        /\ \/ place = call[c] /\ d = device[c] /\ handle[c] = "live" /\ h = "terminal"
           \/ place = call[c] /\ d = device[c] /\ handle[c] = "destroying"
              /\ h \in {"destroyed", "leaked"}
           \/ place = call[c] /\ d = device[c] /\ h = handle[c]
           \/ call[c] = "waiting" /\ place = "cancelled" /\ d = device[c] /\ h = handle[c]
           \/ call[c] \in {"waiting", "cancelled"} /\ place = "closing" /\ d = device[c]
              /\ h = "destroying"
           \/ call[c] = "closing" /\ place = "leaving" /\ d \in {"leaked", "closed"}
              /\ h = handle[c] /\ h # "destroying"
           \/ call[c] = "leaving" /\ place = "done" /\ d = device[c] /\ h = handle[c]
        /\ children' = children \/ (place = "done" /\ children' = children \ {c})
  <2> USE DEF ClientIInv, ClientKnown, ClientTypeOK, CallPlaces, Handles, callVars, lifeVars
  <2>1. handle[c] \in Handles /\ call[c] \in CallPlaces
        /\ device[c] \in DeviceStates
        /\ call = [call EXCEPT ![c] = call[c]] /\ handle = [handle EXCEPT ![c] = handle[c]]
        /\ device = [device EXCEPT ![c] = device[c]]
    BY ClientNames
  <2>2. CASE requestEnds(c)
    BY <2>1, <2>2 DEF requestEnds
  <2>3. CASE contextCancels(c) \/ contextCancelReturns(c)
    BY <2>1, <2>3 DEF contextCancels, contextCancelReturns
  <2>4. CASE destroyRequest(c)
    BY <2>1, <2>4 DEF destroyRequest
  <2>5. CASE requestDestroyed(c)
    BY <2>1, <2>5 DEF requestDestroyed
  <2>6. CASE closeCallDevice(c)
    BY <2>1, <2>6 DEF closeCallDevice, closeDevice
  <2>7. CASE leaveCall(c)
    BY <2>1, <2>7 DEF leaveCall, unregisterChild
  <2>8. QED
    BY <2>2, <2>3, <2>4, <2>5, <2>6, <2>7 DEF ListCall
<1>3. /\ call' \in [Calls -> CallPlaces] /\ handle' \in [Objects -> Handles]
      /\ device' \in [Objects -> DeviceStates]
      /\ call'[c] = place /\ handle'[c] = h /\ device'[c] = d
      /\ \A b \in Calls \ {c} : call'[b] = call[b]
      /\ \A o \in Objects \ {c} : handle'[o] = handle[o] /\ device'[o] = device[o]
  BY <1>2, ClientNames DEF ClientIInv, ClientKnown, ClientTypeOK, CallPlaces, Handles
<1>4. ClientKnown'
  <2>1. cancelling' \in SUBSET ((Calls \cup Closers) \X Calls) /\ cancelled' \in SUBSET Calls
        /\ children' \in SUBSET Objects
    BY <1>1, <1>2 DEF ClientIInv, ClientKnown, ClientTypeOK
  <2>2. QED
    BY <1>1, <1>3, <2>1 DEF ClientIInv, ClientKnown, ClientTypeOK, Handles, CallPlaces
<1>5. ObjectsKnown'
  <2>1. CallKnown(c)'
    BY <1>1, <1>2, <1>3 DEF ClientIInv, ObjectsKnown, CallKnown
  <2>2. \A b \in Calls \ {c} : CallKnown(b)'
    BY <1>1, <1>3, ClientNames DEF ClientIInv, ObjectsKnown, CallKnown
  <2>3. \A r \in Replays : handle'[r] = handle[r] /\ device'[r] = device[r]
    BY <1>3, ClientNames
  <2>4. \A r \in Replays : ReplayKnown(r)'
    BY <1>1, <2>3 DEF ClientIInv, ObjectsKnown, ReplayKnown, closesReplay
  <2>5. QED
    BY <1>1, <2>1, <2>2, <2>4 DEF ObjectsKnown
<1>6. Active' \subseteq Active \ (IF place = "done" THEN {c} ELSE {})
  <2>1. \A r \in Replays : handle'[r] = handle[r] /\ r # c
    BY <1>3, ClientNames
  <2>2. call[c] \in {"idle", "done"} => place = call[c]
    BY <1>2 DEF ClientIInv, ObjectsKnown, CallKnown
  <2>3. QED
    BY <1>3, <2>1, <2>2 DEF Active
<1>7. CloseKnows'
  <2>1. Active' \subseteq Active /\ Active' \subseteq children'
    BY <1>2, <1>6 DEF ClientIInv, CloseKnows
  <2>2. QED
    BY <1>1, <2>1, ClosesStand DEF ClientIInv
<1>8. QED
  BY <1>4, <1>5, <1>7 DEF ClientIInv

-----------------------------------------------------------------------------
(* Replay.Close *)

\* Whoever closes a replay has destroyed it, so that it is nothing active.
LEMMA ClosedReplay ==
  ASSUME ClientIInv, NEW x \in Actors, replay[x] # NoReplay
  PROVE  /\ replay[x][2] \in Replays /\ replay[x][2] \notin Active
         /\ replay[x][1] \in {"draining", "unregistered"}
         /\ replay[x] = <<replay[x][1], replay[x][2]>>
         /\ closesReplay(x, replay[x][2])
         /\ handle[replay[x][2]] = "destroyed" /\ device[replay[x][2]] = "open"
<1>1. /\ replay[x][2] \in Replays /\ replay[x][1] \in {"draining", "unregistered"}
      /\ replay[x] = <<replay[x][1], replay[x][2]>>
  BY DEF ClientIInv, ClientKnown
<1>2. closesReplay(x, replay[x][2])
  BY <1>1 DEF closesReplay
<1>3. handle[replay[x][2]] = "destroyed" /\ device[replay[x][2]] = "open"
  BY <1>1, <1>2 DEF ClientIInv, ObjectsKnown, ReplayKnown
<1>4. QED
  BY <1>1, <1>2, <1>3, ClientNames DEF Active

\* Only the step of the actor that closes a replay changes who closes it.
LEMMA OthersClose ==
  ASSUME ClientKnown, NEW x \in Actors, NEW r \in Replays, NEW place,
         replay' = [replay EXCEPT ![x] = place],
         replay[x] \in {NoReplay} \cup {"draining", "unregistered"} \X {r},
         place \in {NoReplay} \cup {"draining", "unregistered"} \X {r}
  PROVE  /\ \A y \in Actors \ {x}, s \in Replays : closesReplay(y, s)' <=> closesReplay(y, s)
         /\ \A s \in Replays \ {r} : ~closesReplay(x, s) /\ ~closesReplay(x, s)'
         /\ closesReplay(x, r)' <=> place # NoReplay
BY DEF ClientKnown, closesReplay, NoReplay

LEMMA CloseReplayStep ==
  ASSUME ClientIInv, NEW x \in Actors, NEW r \in Replays, closeReplay(x, r)
  PROVE  ClientIInv'
<1>1. /\ handle[r] = "live" /\ handle' = [handle EXCEPT ![r] = "destroyed"]
      /\ replay[x] = NoReplay
      /\ replay' = [replay EXCEPT ![x] = <<"draining", r>>]
      /\ UNCHANGED <<lifeVars, device, callVars, todo, closer>>
  BY DEF closeReplay, MayCloseReplay
<1> USE DEF lifeVars, callVars
<1>2. ClientKnown'
  <2>1. handle' \in [Objects -> Handles]
    BY <1>1 DEF ClientIInv, ClientKnown, ClientTypeOK, Handles
  <2>2. replay' \in [Actors -> {NoReplay} \cup {"draining", "unregistered"} \X Replays]
    BY <1>1 DEF ClientIInv, ClientKnown
  <2>3. QED
    BY <1>1, <2>1, <2>2 DEF ClientIInv, ClientKnown, ClientTypeOK, Handles
<1>3. ObjectsKnown'
  <2>1. \A c \in Calls : CallKnown(c)'
    BY <1>1, ClientNames DEF ClientIInv, ClientKnown, ClientTypeOK, ObjectsKnown, CallKnown
  <2>2. /\ \A y \in Actors \ {x}, s \in Replays : closesReplay(y, s)' <=> closesReplay(y, s)
        /\ \A s \in Replays \ {r} : ~closesReplay(x, s) /\ ~closesReplay(x, s)'
        /\ closesReplay(x, r)'
    <3>1. /\ replay[x] \in {NoReplay} \cup {"draining", "unregistered"} \X {r}
          /\ <<"draining", r>> \in {NoReplay} \cup {"draining", "unregistered"} \X {r}
          /\ <<"draining", r>> # NoReplay
      BY <1>1 DEF NoReplay
    <3>2. QED
      BY <1>1, <3>1, OthersClose DEF ClientIInv
  <2>3. /\ handle'[r] = "destroyed" /\ device[r] = "open" /\ gate # r
        /\ \A y \in Actors : ~closesReplay(y, r)
        /\ \A s \in Replays \ {r} : handle'[s] = handle[s]
    BY <1>1, ClientNames
       DEF ClientIInv, ClientKnown, ClientTypeOK, ObjectsKnown, ReplayKnown
  <2>4. ReplayKnown(r)'
    BY <1>1, <2>2, <2>3 DEF ReplayKnown
  <2>5. \A s \in Replays \ {r} : ReplayKnown(s)'
    BY <1>1, <2>2, <2>3 DEF ClientIInv, ObjectsKnown, ReplayKnown
  <2>6. QED
    BY <2>1, <2>4, <2>5 DEF ObjectsKnown
<1>4. CloseKnows'
  <2>1. Active' \subseteq Active
    BY <1>1, ClientNames DEF ClientIInv, ClientKnown, ClientTypeOK, Active
  <2>2. QED
    BY <1>1, <2>1, ClosesStand DEF ClientIInv, CloseKnows
<1>5. QED
  BY <1>2, <1>3, <1>4 DEF ClientIInv

LEMMA UnregisterStep ==
  ASSUME ClientIInv, NEW x \in Actors, unregisterReplay(x)
  PROVE  ClientIInv'
<1>1. /\ replay[x][1] = "draining"
      /\ children' = children \ {replay[x][2]}
      /\ replay' = [replay EXCEPT ![x][1] = "unregistered"]
      /\ UNCHANGED <<gate, closing, clientClosed, native, objectVars, todo, closer>>
  BY DEF unregisterReplay, unregisterChild
<1> USE DEF objectVars, callVars
<1>2. replay[x] # NoReplay
  BY <1>1 DEF NoReplay
<1>3. replay[x][2] \in Replays \ Active
  BY <1>2, ClosedReplay
<1>4. /\ replay' \in [Actors -> {NoReplay} \cup {"draining", "unregistered"} \X Replays]
      /\ replay'[x] = <<"unregistered", replay[x][2]>>
      /\ \A y \in Actors \ {x} : replay'[y] = replay[y]
  BY <1>1, <1>2, ClosedReplay DEF ClientIInv, ClientKnown
<1>5. ClientKnown'
  BY <1>1, <1>4 DEF ClientIInv, ClientKnown, ClientTypeOK
<1>6. ObjectsKnown'
  <2>1. \A y \in Actors, r \in Replays : closesReplay(y, r)' <=> closesReplay(y, r)
    <3>1. \A r \in Replays : closesReplay(x, r)' <=> closesReplay(x, r)
      <4>1. replay[x] = <<"draining", replay[x][2]>>
        BY <1>1, <1>2, ClosedReplay
      <4>2. QED
        BY <1>3, <1>4, <4>1 DEF closesReplay
    <3>2. \A y \in Actors \ {x}, r \in Replays : closesReplay(y, r)' <=> closesReplay(y, r)
      BY <1>4 DEF closesReplay
    <3>3. QED
      BY <3>1, <3>2
  <2>2. \A r \in Replays : ReplayKnown(r)'
    BY <1>1, <2>1 DEF ClientIInv, ObjectsKnown, ReplayKnown
  <2>3. \A c \in Calls : CallKnown(c)'
    BY <1>1 DEF ClientIInv, ObjectsKnown, CallKnown
  <2>4. QED
    BY <2>2, <2>3 DEF ObjectsKnown
<1>7. CloseKnows'
  <2>1. Active' = Active
    BY <1>1 DEF Active
  <2>2. QED
    BY <1>1, <1>3, <2>1, ClosesStand DEF ClientIInv, CloseKnows
<1>8. QED
  BY <1>5, <1>6, <1>7 DEF ClientIInv

\* Taking out what is not active leaves a close with all it has to know.
LEMMA TodoShrinks ==
  ASSUME CloseKnows, UNCHANGED <<gate, closing, clientClosed, children, native>>,
         Active' = Active,
         \A k \in Closers : /\ todo'[k] \subseteq todo[k]
                            /\ Active \cap todo[k] \subseteq todo'[k]
                            /\ closer'[k] = Step("idle") <=> closer[k] = Step("idle")
                            /\ closer'[k] = Step("native") <=> closer[k] = Step("native")
  PROVE  CloseKnows'
BY DEF CloseKnows

LEMMA CloseDeviceStep ==
  ASSUME ClientIInv, NEW x \in Actors, closeReplayDevice(x)
  PROVE  ClientIInv'
<1>0. replay[x] # NoReplay
  BY DEF closeReplayDevice, NoReplay
<1>1. PICK r \in Replays : r = replay[x][2]
  BY <1>0, ClosedReplay
<1>2. /\ \E result \in {"closed", "leaked"} : device' = [device EXCEPT ![r] = result]
      /\ replay' = [replay EXCEPT ![x] = NoReplay]
      /\ todo' = [k \in Closers |-> IF k = x THEN todo[k] \ {r} ELSE todo[k]]
      /\ UNCHANGED <<lifeVars, handle, callVars, closer>>
  BY <1>1 DEF closeReplayDevice, closeDevice
<1> USE DEF lifeVars, callVars
<1>3. /\ r \in Replays \ Active /\ handle[r] = "destroyed" /\ closesReplay(x, r)
      /\ replay[x] \in {"draining", "unregistered"} \X {r}
  BY <1>0, <1>1, ClosedReplay
<1>4. /\ replay' \in [Actors -> {NoReplay} \cup {"draining", "unregistered"} \X Replays]
      /\ replay'[x] = NoReplay
      /\ \A y \in Actors \ {x} : replay'[y] = replay[y]
  BY <1>2 DEF ClientIInv, ClientKnown
<1>5. ClientKnown'
  <2>1. device' \in [Objects -> DeviceStates] /\ todo' \in [Closers -> SUBSET Objects]
    BY <1>2, ClientNames DEF ClientIInv, ClientKnown, ClientTypeOK
  <2>2. QED
    BY <1>2, <1>4, <2>1 DEF ClientIInv, ClientKnown, ClientTypeOK
<1>6. ObjectsKnown'
  <2>1. \A c \in Calls : CallKnown(c)'
    BY <1>2, <1>3, ClientNames DEF ClientIInv, ClientKnown, ClientTypeOK, ObjectsKnown, CallKnown
  <2>2. /\ \A y \in Actors \ {x}, s \in Replays : closesReplay(y, s)' <=> closesReplay(y, s)
        /\ \A s \in Replays \ {r} : ~closesReplay(x, s) /\ ~closesReplay(x, s)'
        /\ ~closesReplay(x, r)'
    <3>1. \A s \in Replays \ {r} : ~closesReplay(x, s)
      BY <1>3 DEF closesReplay
    <3>2. \A s \in Replays : ~closesReplay(x, s)'
      BY <1>4 DEF closesReplay, NoReplay
    <3>3. \A y \in Actors \ {x}, s \in Replays : closesReplay(y, s)' <=> closesReplay(y, s)
      BY <1>4 DEF closesReplay
    <3>4. QED
      BY <3>1, <3>2, <3>3
  <2>3. /\ device'[r] \in {"leaked", "closed"} /\ gate # r
        /\ \A y \in Actors \ {x} : ~closesReplay(y, r)
        /\ \A s \in Replays \ {r} : device'[s] = device[s]
    BY <1>2, <1>3, ClientNames
       DEF ClientIInv, ClientKnown, ClientTypeOK, ObjectsKnown, ReplayKnown
  <2>4. ReplayKnown(r)'
    BY <1>2, <1>3, <2>2, <2>3 DEF ReplayKnown
  <2>5. \A s \in Replays \ {r} : ReplayKnown(s)'
    BY <1>2, <2>2, <2>3 DEF ClientIInv, ObjectsKnown, ReplayKnown
  <2>6. QED
    BY <2>1, <2>4, <2>5 DEF ObjectsKnown
<1>7. CloseKnows'
  <2>1. Active' = Active
    BY <1>2 DEF Active
  <2>2. QED
    BY <1>2, <1>3, <2>1, TodoShrinks DEF ClientIInv
<1>8. QED
  BY <1>5, <1>6, <1>7 DEF ClientIInv

-----------------------------------------------------------------------------
(* Client.Close *)

\* What a close does changes no child; ObjectsKnown is about children only.
LEMMA ChildrenStand ==
  ASSUME ObjectsKnown, UNCHANGED <<device, handle, call, replay>>,
         gate' = gate \/ gate' \notin Objects,
         gate \notin Objects \/ gate' = gate
  PROVE  ObjectsKnown' /\ Active' = Active
BY ClientNames DEF ObjectsKnown, CallKnown, ReplayKnown, Active, closesReplay

LEMMA SkipStep ==
  ASSUME ClientIInv, NEW k \in Closers, NEW r \in Replays, skipClosedReplay(k, r)
  PROVE  ClientIInv'
<1>1. /\ handle[r] = "destroyed" /\ todo' = [todo EXCEPT ![k] = @ \ {r}]
      /\ UNCHANGED <<lifeVars, objectVars, closer, replay>>
  BY DEF skipClosedReplay
<1> USE DEF lifeVars, objectVars, callVars
<1>2. ClientKnown'
  BY <1>1 DEF ClientIInv, ClientKnown, ClientTypeOK
<1>3. r \notin Active
  BY <1>1, ClientNames DEF Active
<1>4. ObjectsKnown' /\ Active' = Active
  BY <1>1, ChildrenStand DEF ClientIInv
<1>5. CloseKnows'
  <2>1. \A j \in Closers : todo'[j] = todo[j] \/ todo'[j] = todo[j] \ {r}
    BY <1>1 DEF ClientIInv, ClientKnown, ClientTypeOK
  <2>2. QED
    BY <1>1, <1>3, <1>4, <2>1, TodoShrinks DEF ClientIInv
<1>6. QED
  BY <1>2, <1>4, <1>5 DEF ClientIInv

LEMMA BeginCloseStep ==
  ASSUME ClientIInv, NEW k \in Closers, beginClose(k)
  PROVE  ClientIInv'
<1>1. /\ gate = Free /\ ~clientClosed /\ ~closing /\ closing' = TRUE
      /\ closer[k] = Step("idle")
      /\ todo' = [todo EXCEPT ![k] = children]
      /\ closer' = [closer EXCEPT ![k] = Step("closing")]
      /\ UNCHANGED <<gate, clientClosed, children, native, objectVars, replay>>
  BY DEF beginClose, mayClose
<1> USE DEF objectVars, callVars
<1>2. \A j \in Closers : closer[j] = Step("idle")
  BY <1>1 DEF ClientIInv, CloseKnows
<1>3. /\ closer'[k] = Step("closing") /\ todo'[k] = children
      /\ \A j \in Closers \ {k} : closer'[j] = Step("idle")
  BY <1>1, <1>2 DEF ClientIInv, ClientKnown, ClientTypeOK
<1>4. ClientKnown'
  <2>1. \A j \in Closers : ~(gate' = j) /\ ~(closer'[j] = Step("native"))
    BY <1>1, <1>3, ClientNames, StepsDiffer
  <2>2. /\ closer' \in [Closers -> {Step("idle"), Step("closing"), Step("native")}
                                   \cup {"cancelling", "awaiting"} \X Calls]
        /\ todo' \in [Closers -> SUBSET Objects]
    BY <1>1 DEF ClientIInv, ClientKnown, ClientTypeOK
  <2>3. QED
    BY <1>1, <2>1, <2>2 DEF ClientIInv, ClientKnown, ClientTypeOK
<1>5. ObjectsKnown' /\ Active' = Active
  BY <1>1, ChildrenStand DEF ClientIInv
<1>6. CloseKnows'
  BY <1>1, <1>3, <1>5, ClientNames, StepsDiffer DEF ClientIInv, CloseKnows
<1>7. QED
  BY <1>4, <1>5, <1>6 DEF ClientIInv

\* Cancelling a call and waiting for it.
LEMMA CloseCallStep ==
  ASSUME ClientIInv, NEW k \in Closers, NEW c \in Calls,
         cancelCall(k, c) \/ cancelReturns(k, c) \/ awaitCall(k, c)
  PROVE  ClientIInv'
<1>1. /\ UNCHANGED <<lifeVars, device, handle, call, replay>>
      /\ cancelling' \subseteq cancelling \cup {<<k, c>>}
      /\ cancelled' \in {cancelled, cancelled \cup {c}}
  BY DEF cancelCall, cancelReturns, awaitCall, objectVars, callVars, requestCancel
<1> USE DEF lifeVars
<1>2. PICK place \in {Step("closing")} \cup {"cancelling", "awaiting"} \X {c} :
        /\ closer' = [closer EXCEPT ![k] = place]
        /\ closer[k] \notin {Step("idle"), Step("native")}
        /\ todo' = todo \/ (call[c] = "done" /\ todo' = [todo EXCEPT ![k] = @ \ {c}])
  BY StepsDiffer DEF cancelCall, cancelReturns, awaitCall, callDone
<1>3. place \notin {Step("idle"), Step("native")}
  BY <1>2, StepsDiffer
<1>4. closer' \in [Closers -> {Step("idle"), Step("closing"), Step("native")}
                              \cup {"cancelling", "awaiting"} \X Calls]
  BY <1>2 DEF ClientIInv, ClientKnown
<1>5. \A j \in Closers : /\ closer'[j] = Step("idle") <=> closer[j] = Step("idle")
                         /\ closer'[j] = Step("native") <=> closer[j] = Step("native")
  BY <1>2, <1>3 DEF ClientIInv, ClientKnown
<1>6. ClientKnown'
  <2>1. /\ cancelling' \in SUBSET ((Calls \cup Closers) \X Calls)
        /\ cancelled' \in SUBSET Calls
    BY <1>1 DEF ClientIInv, ClientKnown, ClientTypeOK
  <2>2. todo' \in [Closers -> SUBSET Objects]
    BY <1>2 DEF ClientIInv, ClientKnown, ClientTypeOK
  <2>3. QED
    BY <1>1, <1>4, <1>5, <2>1, <2>2 DEF ClientIInv, ClientKnown, ClientTypeOK
<1>7. ObjectsKnown' /\ Active' = Active
  BY <1>1, ChildrenStand DEF ClientIInv
<1>8. CloseKnows'
  <2>1. call[c] = "done" => c \notin Active
    BY ClientNames DEF Active
  <2>2. \A j \in Closers : todo'[j] = todo[j] \/ (c \notin Active /\ todo'[j] = todo[j] \ {c})
    BY <1>2, <2>1 DEF ClientIInv, ClientKnown, ClientTypeOK
  <2>3. QED
    BY <1>1, <1>5, <1>7, <2>2, TodoShrinks DEF ClientIInv
<1>9. QED
  BY <1>6, <1>7, <1>8 DEF ClientIInv

LEMMA RefusedStep ==
  ASSUME ClientIInv, NEW k \in Closers, closeRefused(k)
  PROVE  ClientIInv'
<1>1. /\ closer[k] = Step("closing") /\ closing' = FALSE
      /\ todo' = [todo EXCEPT ![k] = {}]
      /\ closer' = [closer EXCEPT ![k] = Step("idle")]
      /\ UNCHANGED <<gate, clientClosed, children, native, objectVars, replay>>
  BY DEF closeRefused
<1> USE DEF objectVars, callVars
<1>2. \A j \in Closers : closer'[j] = Step("idle")
  BY <1>1, StepsDiffer DEF ClientIInv, ClientKnown, CloseKnows
<1>3. gate \notin Closers
  BY <1>1, <1>2, StepsDiffer DEF ClientIInv, ClientKnown, ClientTypeOK
<1>4. ClientKnown'
  <2>1. \A j \in Closers : ~(gate' = j) /\ ~(closer'[j] = Step("native"))
    BY <1>1, <1>2, <1>3, StepsDiffer
  <2>2. /\ closer' \in [Closers -> {Step("idle"), Step("closing"), Step("native")}
                                   \cup {"cancelling", "awaiting"} \X Calls]
        /\ todo' \in [Closers -> SUBSET Objects]
    BY <1>1 DEF ClientIInv, ClientKnown, ClientTypeOK
  <2>3. QED
    BY <1>1, <2>1, <2>2 DEF ClientIInv, ClientKnown, ClientTypeOK
<1>5. ObjectsKnown' /\ Active' = Active
  BY <1>1, ChildrenStand DEF ClientIInv
<1>6. CloseKnows'
  BY <1>1, <1>2, <1>5, StepsDiffer DEF ClientIInv, CloseKnows
<1>7. QED
  BY <1>4, <1>5, <1>6 DEF ClientIInv

LEMMA BeginNativeStep ==
  ASSUME ClientIInv, NEW k \in Closers, beginNativeClose(k)
  PROVE  ClientIInv'
<1>1. /\ closer[k] = Step("closing") /\ todo[k] = {} /\ gate = Free /\ gate' = k
      /\ closer' = [closer EXCEPT ![k] = Step("native")]
      /\ UNCHANGED <<closing, clientClosed, children, native, objectVars, todo, replay>>
  BY DEF beginNativeClose
<1> USE DEF objectVars, callVars
<1>2. /\ closer'[k] = Step("native") /\ closer[k] # Step("idle")
      /\ \A j \in Closers \ {k} : closer'[j] = Step("idle") /\ closer[j] = Step("idle")
  BY <1>1, StepsDiffer DEF ClientIInv, ClientKnown, CloseKnows
<1>3. ClientKnown'
  <2>1. closer' \in [Closers -> {Step("idle"), Step("closing"), Step("native")}
                                \cup {"cancelling", "awaiting"} \X Calls]
    BY <1>1 DEF ClientIInv, ClientKnown
  <2>2. \A j \in Closers : gate' = j <=> closer'[j] = Step("native")
    BY <1>1, <1>2, StepsDiffer
  <2>3. QED
    BY <1>1, <2>1, <2>2 DEF ClientIInv, ClientKnown, ClientTypeOK
<1>4. gate \notin Objects /\ gate' \notin Objects
  BY <1>1, ClientNames
<1>5. ObjectsKnown' /\ Active' = Active
  BY <1>1, <1>4, ChildrenStand DEF ClientIInv
<1>6. CloseKnows'
  BY <1>1, <1>2, <1>4, <1>5, StepsDiffer DEF ClientIInv, CloseKnows
<1>7. QED
  BY <1>3, <1>5, <1>6 DEF ClientIInv

LEMMA EndNativeStep ==
  ASSUME ClientIInv, NEW k \in Closers, EndNativeClose(k)
  PROVE  ClientIInv'
<1>1. /\ closer[k] = Step("native") /\ closing' = FALSE /\ gate' = Free
      /\ closer' = [closer EXCEPT ![k] = Step("idle")]
      /\ UNCHANGED <<children, objectVars, todo, replay>>
      /\ \/ UNCHANGED <<clientClosed, native>>
         \/ clientClosed' = TRUE /\ native' = "closed"
  BY DEF EndNativeClose, nativeCloseFailed, nativeClosed
<1> USE DEF objectVars, callVars
<1>2. \A j \in Closers : closer'[j] = Step("idle")
  BY <1>1, StepsDiffer DEF ClientIInv, ClientKnown, CloseKnows
<1>3. ClientKnown'
  <2>1. closer' \in [Closers -> {Step("idle"), Step("closing"), Step("native")}
                                \cup {"cancelling", "awaiting"} \X Calls]
    BY <1>1 DEF ClientIInv, ClientKnown
  <2>2. \A j \in Closers : ~(gate' = j) /\ ~(closer'[j] = Step("native"))
    BY <1>1, <1>2, ClientNames, StepsDiffer
  <2>3. QED
    BY <1>1, <2>1, <2>2 DEF ClientIInv, ClientKnown, ClientTypeOK
<1>4. gate \notin Objects /\ gate' \notin Objects /\ Active = {}
  BY <1>1, ClientNames, StepsDiffer DEF ClientIInv, CloseKnows
<1>5. ObjectsKnown' /\ Active' = Active
  BY <1>1, <1>4, ChildrenStand DEF ClientIInv
<1>6. CloseKnows'
  BY <1>1, <1>2, <1>4, <1>5, StepsDiffer DEF ClientIInv, CloseKnows
<1>7. QED
  BY <1>3, <1>5, <1>6 DEF ClientIInv

-----------------------------------------------------------------------------
LEMMA ClientStep == ClientIInv /\ [ClientNext]_clientVars => ClientIInv'
<1> SUFFICES ASSUME ClientIInv, [ClientNext]_clientVars PROVE ClientIInv'
  OBVIOUS
<1>0. Apps \subseteq Actors /\ Closers \subseteq Actors
  BY DEF Actors
<1>1. ASSUME NEW o \in Objects, NewChild(o) PROVE ClientIInv'
  BY <1>1, OpenStep, StartStep DEF NewChild
<1>2. ASSUME NEW c \in Calls, requestEnds(c) \/ contextCancels(c) \/ ListCall(c)
      PROVE  ClientIInv'
  BY <1>2, ListCallStep
<1>3. ASSUME NEW x \in Actors, FinishReplayClose(x) \/ \E r \in Replays : closeReplay(x, r)
      PROVE  ClientIInv'
  BY <1>3, CloseReplayStep, UnregisterStep, CloseDeviceStep DEF FinishReplayClose
<1>4. ASSUME NEW k \in Closers, beginClose(k) \/ closeRefused(k) \/ CloseClient(k)
      PROVE  ClientIInv'
  <2>1. CASE CloseChild(k)
    BY <1>0, <1>3, <2>1, CloseCallStep, SkipStep DEF CloseChild
  <2>2. CASE ~CloseChild(k)
    BY <1>4, <2>2, BeginCloseStep, RefusedStep, BeginNativeStep, EndNativeStep
       DEF CloseClient
  <2>3. QED
    BY <2>1, <2>2
<1>5. CASE UNCHANGED clientVars
  BY <1>5 DEF clientVars, lifeVars, objectVars, callVars, actorVars, ClientIInv,
              ClientKnown, ClientTypeOK,
              ObjectsKnown, CallKnown, ReplayKnown, CloseKnows, Active, closesReplay
<1>6. QED
  BY <1>0, <1>1, <1>2, <1>3, <1>4, <1>5 DEF ClientNext

LEMMA ClientHolds == ClientSpec => []ClientIInv
BY ClientInitHolds, ClientStep, PTL DEF ClientSpec

\* Types of the client's state; the gate belongs to whoever is in the native close
\* (storage/storage.go:14-40, 306-365).
THEOREM ClientTypes == ClientSpec => []ClientTypeOK
<1>1. ClientIInv => ClientTypeOK
  BY DEF ClientIInv, ClientKnown
<1>2. QED
  BY <1>1, ClientHolds, PTL

LEMMA NothingActive ==
  ASSUME ClientIInv, Active = {}, gate \notin Objects
  PROVE  /\ \A c \in Calls : call[c] \in {"idle", "done"} /\ device[c] # "open"
         /\ \A o \in Objects :
              /\ handle[o] \notin {"live", "terminal", "destroying"}
              /\ device[o] = "open" => \E x \in Actors : closesReplay(x, o)
<1>1. \A c \in Calls : call[c] \in {"idle", "done"}
  BY DEF Active
<1>2. \A c \in Calls : device[c] # "open" /\ handle[c] \in {"none", "leaked", "destroyed"}
  BY <1>1, ClientNames DEF ClientIInv, ObjectsKnown, CallKnown
<1>3. \A r \in Replays :
        /\ handle[r] \in {"none", "destroyed"}
        /\ device[r] = "open" => \E x \in Actors : closesReplay(x, r)
  BY ClientNames DEF ClientIInv, ObjectsKnown, ReplayKnown, Active
<1>4. QED
  BY <1>1, <1>2, <1>3, ClientNames

\* During Client.Close's native close, and in a closed client, every list call has
\* left, and nothing is alive but what a destroy that failed has left behind and
\* devices that the goroutine closing their replay will close next, whatever is
\* created or closed meanwhile (storage.go:75-99, 142-145, 167-168, 306-347).
THEOREM ChildrenAlwaysLeaveFirst == ClientSpec => []ChildrenLeaveFirst
<1>1. ClientIInv => ChildrenLeaveFirst
  <2> SUFFICES ASSUME ClientIInv PROVE ChildrenLeaveFirst
    OBVIOUS
  <2>1. ASSUME NEW k \in Closers, closer[k] = Step("native")
        PROVE  Active = {} /\ gate \notin Objects
    BY <2>1, StepsDiffer DEF ClientIInv, CloseKnows
  <2>2. native = "closed" => Active = {} /\ gate \notin Objects
    BY DEF ClientIInv, CloseKnows
  <2>3. QED
    BY <2>1, <2>2, NothingActive DEF ChildrenLeaveFirst
<1>2. QED
  BY <1>1, ClientHolds, PTL

-----------------------------------------------------------------------------
(* The rules of ownership *)

liveDevices == Tagged("device", deviceIs("open") \cup deviceIs("leaked"))
liveHandles == Tagged("handle", inUse \cup handleIn({"leaked"}))
goneDevices == Tagged("device", deviceIs("closed"))
goneHandles == Tagged("handle", handleIn({"destroyed"}))
liveObjects == liveDevices \cup liveHandles
                 \cup (IF native = "open" THEN theClient ELSE {})
goneObjects == goneDevices \cup goneHandles
                 \cup (IF native = "open" THEN {} ELSE theClient)
ofClient == Tagged("handle", inUse) \X theClient
ofDevice == {<< <<"handle", o>>, <<"device", o>> >> : o \in inUse}
deviceOfClient == Tagged("device", Calls \cap deviceIs("open")) \X theClient
uses == ofClient \cup ofDevice \cup deviceOfClient

LEMMA ClientTags ==
  /\ \A kind, S, other, y : <<other, y>> \in Tagged(kind, S) <=> other = kind /\ y \in S
  /\ \A kind, S, T : Tagged(kind, S \cup T) = Tagged(kind, S) \cup Tagged(kind, T)
  /\ \A kind, S, T : Tagged(kind, S \ T) = Tagged(kind, S) \ Tagged(kind, T)
  /\ \A kind, x : Tagged(kind, {x}) = {<<kind, x>>}
  /\ theClient = {<<"client", "none">>}
BY DEF Tagged, theClient, Step

LEMMA ClientStutters ==
  ASSUME UNCHANGED <<native, device, inUse, handleIn({"leaked"}), handleIn({"destroyed"})>>
  PROVE  UNCHANGED Own!vars
BY DEF Own!vars, Tagged, deviceIs

\* What a step does to the devices leaves the handles alone, and the reverse.
LEMMA HandlesStand ==
  ASSUME UNCHANGED handle
  PROVE  UNCHANGED <<inUse, liveHandles, goneHandles, ofClient, ofDevice>>
BY DEF liveHandles, goneHandles, ofClient, ofDevice, inUse, handleIn, Tagged

LEMMA DevicesStand ==
  ASSUME UNCHANGED device
  PROVE  UNCHANGED <<liveDevices, goneDevices, deviceOfClient>>
BY DEF liveDevices, goneDevices, deviceOfClient, deviceIs, Tagged

\* A device is opened under the client, or for a replay beside it.
LEMMA DeviceOpens ==
  ASSUME NEW o \in Objects, device \in [Objects -> DeviceStates],
         device[o] = "none", native = "open",
         device' = [device EXCEPT ![o] = "open"], UNCHANGED <<native, handle>>
  PROVE  Own!Next
<1> DEFINE x == <<"device", o>>
           owners == IF o \in Calls THEN theClient ELSE {}
<1>1. /\ deviceIs("open")' = deviceIs("open") \cup {o}
      /\ deviceIs("leaked")' = deviceIs("leaked")
      /\ deviceIs("closed")' = deviceIs("closed")
      /\ (Calls \cap deviceIs("open"))' =
           (Calls \cap deviceIs("open")) \cup (IF o \in Calls THEN {o} ELSE {})
      /\ o \notin deviceIs("open") \cup deviceIs("leaked") \cup deviceIs("closed")
  BY DEF deviceIs
<1>2. x \notin liveObjects \cup goneObjects
  BY <1>1, ClientTags
     DEF liveObjects, goneObjects, liveDevices, liveHandles, goneDevices, goneHandles
<1>3. /\ liveDevices' = liveDevices \cup {x} /\ goneDevices' = goneDevices
      /\ Tagged("device", Calls \cap deviceIs("open"))' =
           Tagged("device", Calls \cap deviceIs("open"))
             \cup (IF o \in Calls THEN {x} ELSE {})
      /\ UNCHANGED <<liveHandles, goneHandles, ofClient, ofDevice>>
  BY <1>1, ClientTags, HandlesStand DEF Tagged, liveDevices, goneDevices
<1>4. liveObjects' = liveObjects \cup {x} /\ goneObjects' = goneObjects
  BY <1>3 DEF liveObjects, goneObjects
<1>5. deviceOfClient' = deviceOfClient \cup ({x} \X owners)
  BY <1>3 DEF deviceOfClient
<1>6. uses' = uses \cup ({x} \X owners)
  BY <1>3, <1>5 DEF uses
<1>7. owners \in SUBSET liveObjects
  BY DEF liveObjects
<1>8. Own!Create(x)
  BY <1>2, <1>4, <1>6, <1>7
     DEF Own!Create, liveObjects, goneObjects, liveDevices, liveHandles, goneDevices,
         goneHandles, uses, ofClient, ofDevice, deviceOfClient
<1>9. x \in Tagged("device", Objects)
  BY ClientTags
<1>10. QED
  BY <1>8, <1>9 DEF Own!Next

\* A request or replay is opened on its device.
LEMMA HandleOpens ==
  ASSUME NEW o \in Objects, handle \in [Objects -> Handles], handle[o] = "none",
         device[o] = "open", native = "open",
         handle' = [handle EXCEPT ![o] = "live"], UNCHANGED <<native, device>>
  PROVE  Own!Next
<1> DEFINE x == <<"handle", o>>
           owners == theClient \cup {<<"device", o>>}
<1>1. /\ inUse' = inUse \cup {o}
      /\ UNCHANGED <<handleIn({"leaked"}), handleIn({"destroyed"})>>
      /\ o \notin inUse \cup handleIn({"leaked"}) \cup handleIn({"destroyed"})
      /\ o \in deviceIs("open")
  BY DEF inUse, handleIn, Handles, deviceIs
<1>2. x \notin liveObjects \cup goneObjects
  BY <1>1, ClientTags
     DEF liveObjects, goneObjects, liveDevices, liveHandles, goneDevices, goneHandles
<1>3. /\ Tagged("handle", inUse)' = Tagged("handle", inUse) \cup {x}
      /\ liveHandles' = liveHandles \cup {x} /\ goneHandles' = goneHandles
      /\ UNCHANGED <<liveDevices, goneDevices, deviceOfClient>>
  BY <1>1, ClientTags, DevicesStand DEF Tagged, liveHandles, goneHandles
<1>4. liveObjects' = liveObjects \cup {x} /\ goneObjects' = goneObjects
  BY <1>3 DEF liveObjects, goneObjects
<1>5. /\ ofClient' = ofClient \cup ({x} \X theClient)
      /\ ofDevice' = ofDevice \cup ({x} \X {<<"device", o>>})
  <2>1. ofClient' = ofClient \cup ({x} \X theClient)
    BY <1>3 DEF ofClient
  <2>2. ofDevice' = ofDevice \cup {<<x, <<"device", o>> >>}
    BY <1>1 DEF ofDevice
  <2>3. QED
    BY <2>1, <2>2
<1>6. uses' = uses \cup ({x} \X owners)
  BY <1>3, <1>5 DEF uses
<1>7. owners \in SUBSET liveObjects
  BY <1>1, ClientTags DEF liveObjects, liveDevices
<1>8. Own!Create(x)
  BY <1>2, <1>4, <1>6, <1>7
     DEF Own!Create, liveObjects, goneObjects, liveDevices, liveHandles, goneDevices,
         goneHandles, uses, ofClient, ofDevice, deviceOfClient
<1>9. x \in Tagged("handle", Objects)
  BY ClientTags
<1>10. QED
  BY <1>8, <1>9 DEF Own!Next

\* A request or replay goes; a request may leak instead.
LEMMA HandleGoes ==
  ASSUME NEW o \in Objects, handle \in [Objects -> Handles], o \in inUse,
         NEW result \in {"leaked", "destroyed"}, result = "leaked" => o \in Calls,
         handle' = [handle EXCEPT ![o] = result], UNCHANGED <<native, device>>
  PROVE  Own!Next
<1> DEFINE x == <<"handle", o>>
<1>1. /\ inUse' = inUse \ {o}
      /\ handleIn({result})' = handleIn({result}) \cup {o}
      /\ \A other \in {"leaked", "destroyed"} \ {result} :
           handleIn({other})' = handleIn({other})
      /\ o \notin handleIn({"leaked"}) \cup handleIn({"destroyed"})
  BY DEF inUse, handleIn, Handles
<1>2. x \in liveObjects /\ \A use \in uses : use[2] # x
  BY ClientTags DEF liveObjects, liveHandles, uses, ofClient, ofDevice, deviceOfClient
<1>3. /\ Tagged("handle", inUse)' = Tagged("handle", inUse) \ {x}
      /\ UNCHANGED <<liveDevices, goneDevices, deviceOfClient>>
  BY <1>1, ClientTags, DevicesStand DEF Tagged
<1>4. /\ ofClient' = {use \in ofClient : use[1] # x}
      /\ ofDevice' = {use \in ofDevice : use[1] # x}
      /\ deviceOfClient = {use \in deviceOfClient : use[1] # x}
  BY <1>1, <1>3, ClientTags DEF ofClient, ofDevice, deviceOfClient
<1>5. uses' = {use \in uses : use[1] # x}
  BY <1>3, <1>4 DEF uses
<1>6. CASE result = "destroyed"
  <2>1. (inUse \cup handleIn({"leaked"}))' = (inUse \cup handleIn({"leaked"})) \ {o}
    BY <1>1, <1>6
  <2>2. liveHandles' = liveHandles \ {x} /\ goneHandles' = goneHandles \cup {x}
    BY <1>1, <1>6, <2>1, ClientTags DEF liveHandles, goneHandles, Tagged
  <2>3. liveObjects' = liveObjects \ {x} /\ goneObjects' = goneObjects \cup {x}
    BY <1>3, <2>2, ClientTags DEF liveObjects, goneObjects, liveDevices
  <2>4. Own!Destroy(x)
    BY <1>2, <1>5, <2>3
       DEF Own!Destroy, liveObjects, goneObjects, liveDevices, liveHandles, goneDevices,
         goneHandles, uses, ofClient, ofDevice, deviceOfClient
  <2>5. x \in Tagged("handle", Objects)
    BY ClientTags
  <2>6. QED
    BY <2>4, <2>5 DEF Own!Next
<1>7. CASE result = "leaked"
  <2>1. (inUse \cup handleIn({"leaked"}))' = inUse \cup handleIn({"leaked"})
    BY <1>1, <1>7
  <2>2. liveHandles' = liveHandles /\ goneHandles' = goneHandles
    BY <1>1, <1>7, <2>1 DEF liveHandles, goneHandles, Tagged
  <2>3. liveObjects' = liveObjects /\ goneObjects' = goneObjects
    BY <1>3, <2>2 DEF liveObjects, goneObjects
  <2>4. Own!Leak(x)
    BY <1>2, <1>5, <2>3
       DEF Own!Leak, liveObjects, goneObjects, liveDevices, liveHandles, goneDevices,
         goneHandles, uses, ofClient, ofDevice, deviceOfClient
  <2>5. x \in Tagged("handle", Calls)
    BY <1>7, ClientTags
  <2>6. QED
    BY <2>4, <2>5 DEF Own!Next
<1>8. QED
  BY <1>6, <1>7

\* A device goes after the request or replay on it, or leaks.
LEMMA DeviceGoes ==
  ASSUME NEW o \in Objects, device \in [Objects -> DeviceStates],
         device[o] = "open", o \notin inUse, NEW result \in {"leaked", "closed"},
         device' = [device EXCEPT ![o] = result], UNCHANGED <<native, handle>>
  PROVE  Own!Next
<1> DEFINE x == <<"device", o>>
<1>1. /\ deviceIs("open")' = deviceIs("open") \ {o}
      /\ deviceIs(result)' = deviceIs(result) \cup {o}
      /\ \A other \in {"leaked", "closed"} \ {result} : deviceIs(other)' = deviceIs(other)
      /\ (Calls \cap deviceIs("open"))' = (Calls \cap deviceIs("open")) \ {o}
      /\ o \in deviceIs("open") /\ o \notin deviceIs("leaked") \cup deviceIs("closed")
  BY DEF deviceIs
<1>2. x \in liveObjects /\ \A use \in uses : use[2] # x
  BY <1>1, ClientTags DEF liveObjects, liveDevices, uses, ofClient, ofDevice, deviceOfClient
<1>3. /\ Tagged("device", Calls \cap deviceIs("open"))' =
           Tagged("device", Calls \cap deviceIs("open")) \ {x}
      /\ UNCHANGED <<liveHandles, goneHandles, ofClient, ofDevice>>
  BY <1>1, ClientTags, HandlesStand DEF Tagged
<1>4. /\ ofClient = {use \in ofClient : use[1] # x}
      /\ ofDevice = {use \in ofDevice : use[1] # x}
  BY ClientTags DEF ofClient, ofDevice
<1>5. deviceOfClient' = {use \in deviceOfClient : use[1] # x}
  BY <1>3 DEF deviceOfClient
<1>6. uses' = {use \in uses : use[1] # x}
  BY <1>3, <1>4, <1>5 DEF uses
<1>7. CASE result = "closed"
  <2>1. (deviceIs("open") \cup deviceIs("leaked"))' =
          (deviceIs("open") \cup deviceIs("leaked")) \ {o}
    BY <1>1, <1>7
  <2>2. liveDevices' = liveDevices \ {x} /\ goneDevices' = goneDevices \cup {x}
    BY <1>1, <1>7, <2>1, ClientTags DEF liveDevices, goneDevices, Tagged
  <2>3. liveObjects' = liveObjects \ {x} /\ goneObjects' = goneObjects \cup {x}
    BY <1>3, <2>2, ClientTags DEF liveObjects, goneObjects, liveHandles
  <2>4. Own!Destroy(x)
    BY <1>2, <1>6, <2>3
       DEF Own!Destroy, liveObjects, goneObjects, liveDevices, liveHandles, goneDevices,
         goneHandles, uses, ofClient, ofDevice, deviceOfClient
  <2>5. x \in Tagged("device", Objects)
    BY ClientTags
  <2>6. QED
    BY <2>4, <2>5 DEF Own!Next
<1>8. CASE result = "leaked"
  <2>1. (deviceIs("open") \cup deviceIs("leaked"))' = deviceIs("open") \cup deviceIs("leaked")
    BY <1>1, <1>8
  <2>2. liveDevices' = liveDevices /\ goneDevices' = goneDevices
    BY <1>1, <1>8, <2>1 DEF liveDevices, goneDevices, Tagged
  <2>3. liveObjects' = liveObjects /\ goneObjects' = goneObjects
    BY <1>3, <2>2 DEF liveObjects, goneObjects
  <2>4. Own!Leak(x)
    BY <1>2, <1>6, <2>3
       DEF Own!Leak, liveObjects, goneObjects, liveDevices, liveHandles, goneDevices,
         goneHandles, uses, ofClient, ofDevice, deviceOfClient
  <2>5. x \in Tagged("device", Objects)
    BY ClientTags
  <2>6. QED
    BY <2>4, <2>5 DEF Own!Next
<1>9. QED
  BY <1>7, <1>8

LEMMA ClientGoes ==
  ASSUME inUse = {}, Calls \cap deviceIs("open") = {}, native = "open", native' = "closed",
         UNCHANGED <<device, handle>>
  PROVE  Own!Next
<1> DEFINE x == Step("client")
<1>1. x \in liveObjects /\ uses = {}
  BY DEF liveObjects, theClient, uses, ofClient, ofDevice, deviceOfClient, Tagged
<1>2. uses' = uses
  BY DEF uses, ofClient, ofDevice, deviceOfClient, Tagged, inUse, handleIn, deviceIs
<1>3. UNCHANGED <<liveDevices, goneDevices, liveHandles, goneHandles>>
  BY HandlesStand, DevicesStand
<1>4. liveObjects' = liveObjects \ {x} /\ goneObjects' = goneObjects \cup {x}
  BY <1>3, ClientTags DEF liveObjects, goneObjects, liveDevices, liveHandles, Step
<1>5. Own!Destroy(x)
  BY <1>1, <1>2, <1>4
     DEF Own!Destroy, liveObjects, goneObjects, liveDevices, liveHandles, goneDevices,
         goneHandles, uses, ofClient, ofDevice, deviceOfClient
<1>6. QED
  BY <1>5 DEF Own!Next, theClient

LEMMA ChildOpens ==
  ASSUME ClientIInv, NEW o \in Objects, NewChild(o)
  PROVE  Own!Next \/ UNCHANGED Own!vars
<1> USE DEF lifeVars, objectVars, callVars, actorVars
<1>1. /\ device \in [Objects -> DeviceStates]
      /\ handle \in [Objects -> Handles] /\ native \in {"open", "closed"}
  BY DEF ClientIInv, ClientKnown, ClientTypeOK, Handles
<1>2. gate = o => handle[o] = "none" /\ device[o] = "open" /\ native = "open"
  BY CreatorAlone, ClientNames DEF ClientIInv, ObjectsKnown, CallKnown, ReplayKnown
<1>3. CASE openDeviceLocked(o)
  <2>1. native = "open"
    BY <1>1, <1>3 DEF openDeviceLocked, refusesChildren, ClientIInv, CloseKnows
  <2>2. QED
    BY <1>1, <1>3, <2>1, DeviceOpens DEF openDeviceLocked
<1>4. CASE startChild(o)
  BY <1>1, <1>2, <1>4, HandleOpens DEF startChild
<1>5. CASE startFailed(o)
  <2>1. o \notin inUse
    BY <1>2, <1>5 DEF startFailed, inUse, handleIn
  <2>2. QED
    BY <1>1, <1>2, <1>5, <2>1, DeviceGoes DEF startFailed, closeDevice
<1>6. QED
  BY <1>3, <1>4, <1>5 DEF NewChild

LEMMA CallGoesOn ==
  ASSUME ClientIInv, NEW c \in Calls, requestEnds(c) \/ contextCancels(c) \/ ListCall(c)
  PROVE  Own!Next \/ UNCHANGED Own!vars
<1> USE DEF lifeVars, objectVars, callVars, actorVars
<1>1. /\ device \in [Objects -> DeviceStates]
      /\ handle \in [Objects -> Handles] /\ c \in Objects
  BY ClientNames DEF ClientIInv, ClientKnown, ClientTypeOK, Handles
<1>2. CallKnown(c)
  BY DEF ClientIInv, ObjectsKnown
<1>3. CASE requestEnds(c) \/ destroyRequest(c)
  <2>1. inUse' = inUse /\ UNCHANGED <<native, device, handleIn({"leaked"}), handleIn({"destroyed"})>>
    BY <1>1, <1>3 DEF requestEnds, destroyRequest, inUse, handleIn
  <2>2. QED
    BY <2>1, ClientStutters
<1>4. CASE requestDestroyed(c)
  <2>1. PICK result \in {"destroyed", "leaked"} : handle' = [handle EXCEPT ![c] = result]
    BY <1>4 DEF requestDestroyed
  <2>2. c \in inUse /\ UNCHANGED <<native, device>>
    BY <1>1, <1>4 DEF requestDestroyed, inUse, handleIn
  <2>3. QED
    BY <1>1, <2>1, <2>2, HandleGoes
<1>5. CASE closeCallDevice(c)
  <2>1. c \notin inUse /\ device[c] = "open"
    BY <1>2, <1>5 DEF closeCallDevice, CallKnown, inUse, handleIn
  <2>2. QED
    BY <1>1, <1>5, <2>1, DeviceGoes DEF closeCallDevice, closeDevice
<1>6. CASE contextCancels(c) \/ contextCancelReturns(c) \/ leaveCall(c)
  BY <1>6, ClientStutters DEF contextCancels, contextCancelReturns, leaveCall, inUse, handleIn
<1>7. QED
  BY <1>3, <1>4, <1>5, <1>6 DEF ListCall

LEMMA ReplayCloses ==
  ASSUME ClientIInv, NEW x \in Actors,
         FinishReplayClose(x) \/ \E r \in Replays : closeReplay(x, r)
  PROVE  Own!Next \/ UNCHANGED Own!vars
<1> USE DEF lifeVars, objectVars, callVars, actorVars
<1>1. /\ device \in [Objects -> DeviceStates]
      /\ handle \in [Objects -> Handles] /\ Replays \subseteq Objects
  BY ClientNames DEF ClientIInv, ClientKnown, ClientTypeOK, Handles
<1>2. CASE unregisterReplay(x)
  BY <1>2, ClientStutters DEF unregisterReplay, inUse, handleIn
<1>3. ASSUME NEW r \in Replays, closeReplay(x, r) PROVE Own!Next
  <2>1. r \in inUse
    BY <1>1, <1>3 DEF closeReplay, inUse, handleIn
  <2>2. QED
    BY <1>1, <1>3, <2>1, HandleGoes DEF closeReplay
<1>4. CASE closeReplayDevice(x)
  <2>1. replay[x] # NoReplay
    BY <1>4 DEF closeReplayDevice, NoReplay
  <2>2. PICK r \in Replays : r = replay[x][2]
    BY <2>1, ClosedReplay
  <2>3. handle[r] = "destroyed" /\ device[r] = "open"
    BY <2>1, <2>2, ClosedReplay
  <2>4. PICK result \in {"leaked", "closed"} : device' = [device EXCEPT ![r] = result]
    BY <1>4, <2>2 DEF closeReplayDevice, closeDevice
  <2>5. r \notin inUse /\ UNCHANGED <<native, handle>>
    BY <1>4, <2>3 DEF closeReplayDevice, inUse, handleIn
  <2>6. QED
    BY <1>1, <2>3, <2>4, <2>5, DeviceGoes
<1>5. QED
  BY <1>2, <1>3, <1>4 DEF FinishReplayClose

LEMMA CloseGoesOn ==
  ASSUME ClientIInv, NEW k \in Closers, beginClose(k) \/ closeRefused(k) \/ CloseClient(k)
  PROVE  Own!Next \/ UNCHANGED Own!vars
<1> USE DEF lifeVars, objectVars, callVars, actorVars
<1>1. CASE nativeClosed(k)
  <2>1. Active = {} /\ gate \notin Objects
    BY <1>1, StepsDiffer DEF nativeClosed, ClientIInv, CloseKnows
  <2>2. inUse = {} /\ Calls \cap deviceIs("open") = {}
    BY <2>1, NothingActive, ClientNames DEF inUse, handleIn, deviceIs
  <2>3. native \in {"open", "closed"} /\ native' = "closed" /\ UNCHANGED <<device, handle>>
    BY <1>1 DEF nativeClosed, ClientIInv, ClientKnown, ClientTypeOK
  <2>4. QED
    BY <2>2, <2>3, ClientGoes, ClientStutters DEF inUse, handleIn
<1>2. CASE \/ \E c \in Calls : cancelCall(k, c) \/ cancelReturns(k, c) \/ awaitCall(k, c)
           \/ \E r \in Replays : skipClosedReplay(k, r)
  BY <1>2, ClientStutters
     DEF cancelCall, cancelReturns, awaitCall, skipClosedReplay, inUse, handleIn
<1>3. CASE \/ \E r \in Replays : closeReplay(k, r)
           \/ FinishReplayClose(k)
  BY <1>3, ReplayCloses DEF Actors
<1>4. CASE beginClose(k) \/ closeRefused(k) \/ beginNativeClose(k) \/ nativeCloseFailed(k)
  BY <1>4, ClientStutters
     DEF beginClose, closeRefused, beginNativeClose, nativeCloseFailed, inUse, handleIn
<1>5. QED
  BY <1>1, <1>2, <1>3, <1>4 DEF CloseClient, EndNativeClose, CloseChild

LEMMA ClientOwnership == ClientIInv /\ [ClientNext]_clientVars => [Own!Next]_Own!vars
<1> SUFFICES ASSUME ClientIInv, [ClientNext]_clientVars PROVE Own!Next \/ UNCHANGED Own!vars
  OBVIOUS
<1>1. CASE UNCHANGED clientVars
  BY <1>1, ClientStutters DEF clientVars, lifeVars, objectVars, inUse, handleIn
<1>2. CASE ClientNext
  BY <1>2, ChildOpens, CallGoesOn, ReplayCloses, CloseGoesOn DEF ClientNext, Actors
<1>3. QED
  BY <1>1, <1>2

LEMMA ClientOwnershipInit == ClientInit => Own!Init
BY DEF ClientInit, Own!Init, Tagged, deviceIs, handleIn, inUse

\* Client, devices, requests and replays follow the rules of ownership: what is
\* started is started under a client that native still has; a device goes, or leaks,
\* when its request or replay has gone or leaked, and the client goes when the same is
\* true of every request, every replay and the device of every list call, however
\* creation, cancellation and closes that fail race
\* (storage.go:75-99, 142-145, 167-168, 306-347).
THEOREM ClientOwns == ClientSpec => ImplementsOwnership
<1>1. ClientInit => Own!Init
  BY ClientOwnershipInit
<1>2. ClientIInv /\ [ClientNext]_clientVars => [Own!Next]_Own!vars
  BY ClientOwnership
<1>3. QED
  BY <1>1, <1>2, ClientHolds, PTL DEF ClientSpec, ImplementsOwnership, Own!Spec
=============================================================================
