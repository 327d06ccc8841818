-------------------------- MODULE RtcOutputProofs --------------------------
(***************************************************************************)
(* Proofs about RtcOutput, for any number of goroutines and connections,   *)
(* any capacities and bounds: nothing uses a destroyed output, attachments *)
(* follow the rules of Ownership, and missing frames are marked.           *)
(***************************************************************************)
EXTENDS RtcOutput, TLAPS

Detaching == {"detaching", "detached", "notifying", "unbound"}
ClosingSteps == Detaching \cup {"destroying", "destroyed"}

\* Where a caller is, by its operation.
Place(u) ==
  /\ op[u] = "none" => at[u] = "out"
  /\ op[u] = "Attach" => at[u] \in {"entering", "attaching", "attached"}
                         /\ target[u] \in Connections
  /\ op[u] = "Detach" => at[u] \in {"entering"} \cup Detaching
  /\ op[u] = "detachFromClient" => at[u] \in {"entering", "waitIdle"} \cup Detaching
  /\ op[u] = "TakeSnapshot" => at[u] \in {"entering", "snapshot"}
  /\ op[u] = "Close" => at[u] \in {"entering", "locked"} \cup ClosingSteps

CallTypes ==
  /\ opMu \in Callers \cup {Free}
  /\ op \in [Callers -> Operations \cup {"none"}]
  /\ at \in [Callers -> Holding \cup {"out", "entering", "snapshot", "waitIdle"}]
  /\ target \in [Callers -> Connections \cup {Unbound}]
  /\ \A u \in Callers : (opMu = u <=> at[u] \in Holding) /\ Place(u)

ObjectTypes ==
  /\ bound \in Connections \cup {Unbound}
  /\ closed \in BOOLEAN
  /\ state \in {"Idle", "Delivering"}
  /\ callback \in {"none", "Idle", "Delivering"}
  /\ snapshots \in {0, 1}
  /\ native \in {"open", "closed"}
  /\ attached \subseteq Connections /\ released \subseteq Connections

Callbacks == [kind : {"none", "state", "error", "stop", "frame"},
              frame : 0 .. MaxFrames, marked : BOOLEAN]

EventTypes ==
  /\ dropped \in BOOLEAN /\ cleared \in BOOLEAN
  /\ frame \in {"none", "plain", "marked"}
  /\ frameNumber \in 0 .. MaxFrames /\ lastFrame \in 0 .. frameNumber
  /\ what \in [1 .. MaxEvents -> Callbacks]
  /\ accepted \in 0 .. MaxEvents /\ pending \subseteq 1 .. accepted
  /\ phase \in {"open", "closing", "closed"}

Types == CallTypes /\ ObjectTypes /\ EventTypes

\* One snapshot at a time.
Snapshots ==
  \A u, v \in Callers :
    at[u] = "snapshot" => snapshots = 1 /\ (at[v] = "snapshot" => u = v)

\* The holder of opMu changes o.bound and the connection's dependencies in two
\* steps; when nobody holds it, they agree.
AttachmentAt(u) ==
  /\ at[u] = "attaching" => bound = Unbound /\ attached = {}
  /\ at[u] = "attached" => bound = Unbound /\ attached = {target[u]}
  /\ at[u] = "detaching" => bound # Unbound /\ attached = {bound}
  /\ at[u] = "detached" => bound # Unbound /\ attached = {}
  /\ at[u] = "locked" => attached = {bound} \ {Unbound}
  /\ at[u] \in {"notifying", "unbound", "destroying", "destroyed"} =>
       bound = Unbound /\ attached = {}

Attachment == /\ opMu = Free => attached = {bound} \ {Unbound}
              /\ \A u \in Callers : AttachmentAt(u)

\* What the caller of a close has made sure of; who holds opMu of a destroyed
\* output is about to finish its close, or finds it closed.
CloseKnowsAt(u) ==
  /\ at[u] \in Holding \ {"locked", "destroyed"} => native = "open"
  /\ at[u] = "destroyed" => native = "closed"
  /\ op[u] = "Close" /\ at[u] \in ClosingSteps => phase = "closing" /\ snapshots = 0

Destroyed ==
  /\ phase # "open" => pending = {} /\ running = {}
  /\ closed => native = "closed"
  /\ native = "closed" => /\ snapshots = 0 /\ attached = {} /\ phase # "open"
                          /\ callback = "none" /\ frame = "none"
                          /\ closed \/ \E u \in Callers : at[u] = "destroyed"

CloseKnows == Destroyed /\ \A u \in Callers : CloseKnowsAt(u)

\* An unmarked frame follows the one queued before it, or the one handled last.
Frames == Carrying("frame")

Follows(e) == \/ what[e].marked
              \/ \E f \in Frames : f < e /\ what[f].frame + 1 = what[e].frame
              \/ /\ \A f \in Frames : e <= f
                 /\ cleared \/ what[e].frame = lastFrame + 1

\* Nothing is missing after frame n, but for what a close has dropped.
IsLast(n) == \/ \E f \in Frames : what[f].frame = n
             \/ Frames = {} /\ (cleared \/ lastFrame = n)

\* A frame on its way is not marked only if it follows the last one.
Marks ==
  /\ \A e \in Frames : /\ what[e].frame <= frameNumber
                       /\ frame # "none" => what[e].frame < frameNumber
                       /\ Follows(e)
  /\ \A e, f \in Frames : e < f => what[e].frame < what[f].frame
  /\ frame # "none" => lastFrame < frameNumber
  /\ frame = "none" => dropped \/ IsLast(frameNumber)
  /\ frame = "plain" => IsLast(frameNumber - 1)

IInv == Types /\ Snapshots /\ Attachment /\ CloseKnows /\ Marks

-----------------------------------------------------------------------------
(* Frames and their marks *)

\* What leaves the queued frames and their neighbours alone leaves the marks alone.
LEMMA MarksKept ==
  ASSUME Marks, Frames' = Frames, \A e \in Frames : what'[e] = what[e],
         UNCHANGED frameVars
  PROVE  Marks'
<1>1. UNCHANGED <<dropped, frame, frameNumber, lastFrame, cleared>>
  BY DEF frameVars
<1>2. \A e \in Frames : Follows(e) => Follows(e)'
  BY <1>1 DEF Follows
<1>3. /\ IsLast(frameNumber) => IsLast(frameNumber)'
      /\ IsLast(frameNumber - 1) => IsLast(frameNumber - 1)'
  BY <1>1 DEF IsLast
<1>4. QED
  BY <1>1, <1>2, <1>3 DEF Marks

\* A callback is accepted, gets the next number and may supersede others.
LEMMA Accepted ==
  ASSUME EventTypes, NEW new \in Callbacks, NEW superseded, Accept(new, superseded)
  PROVE  /\ phase = "open" /\ UNCHANGED <<running, phase>>
         /\ accepted' \in 1 .. MaxEvents
         /\ \A e \in pending : e < accepted' /\ e \in 1 .. MaxEvents
         /\ pending' = (pending \ superseded) \cup {accepted'}
         /\ pending' \subseteq 1 .. accepted'
         /\ what' \in [1 .. MaxEvents -> Callbacks]
         /\ \A e \in 1 .. MaxEvents :
              what'[e] = IF e \in superseded THEN Nothing
                         ELSE IF e = accepted' THEN new ELSE what[e]
<1> USE OutputAssumption
<1>1. /\ accepted' = accepted + 1 /\ accepted' \in 1 .. MaxEvents /\ accepted \in Nat
      /\ phase = "open" /\ UNCHANGED <<running, phase>>
      /\ pending' = (pending \ superseded) \cup {accepted'}
  BY DEF Accept, Mailbox!Accept, EventTypes
<1>2. \A e \in pending : e < accepted' /\ e \in 1 .. MaxEvents /\ e \in 1 .. accepted'
  BY <1>1 DEF EventTypes
<1>3. Nothing \in Callbacks
  BY DEF Nothing, Callback, Callbacks
<1>4. /\ what' \in [1 .. MaxEvents -> Callbacks]
      /\ \A e \in 1 .. MaxEvents :
           what'[e] = IF e \in superseded THEN Nothing
                      ELSE IF e = accepted' THEN new ELSE what[e]
  BY <1>3 DEF Accept, EventTypes
<1>5. pending' \subseteq 1 .. accepted'
  BY <1>1, <1>2
<1>6. QED
  BY <1>1, <1>2, <1>4, <1>5

\* States, errors and stop requests take no frame with them.
LEMMA AcceptOther ==
  ASSUME EventTypes, Marks, NEW new \in Callbacks, NEW superseded,
         new.kind # "frame", superseded \cap Frames = {},
         Accept(new, superseded), UNCHANGED frameVars
  PROVE  Marks' /\ EventTypes' /\ UNCHANGED <<running, phase>> /\ phase = "open"
<1>1. UNCHANGED <<dropped, frame, frameNumber, lastFrame, cleared>>
  BY DEF frameVars
<1>2. /\ phase = "open" /\ UNCHANGED <<running, phase>> /\ accepted' \in 1 .. MaxEvents
      /\ pending' \subseteq 1 .. accepted' /\ what' \in [1 .. MaxEvents -> Callbacks]
      /\ \A e \in pending : e < accepted' /\ e \in 1 .. MaxEvents
      /\ pending' = (pending \ superseded) \cup {accepted'}
      /\ \A e \in 1 .. MaxEvents :
           what'[e] = IF e \in superseded THEN Nothing
                      ELSE IF e = accepted' THEN new ELSE what[e]
  BY Accepted
<1>3. EventTypes'
  BY <1>1, <1>2 DEF EventTypes
<1>4. \A e \in Frames : e \in pending /\ e \in 1 .. MaxEvents /\ e # accepted'
                        /\ e \notin superseded /\ what'[e] = what[e]
  BY <1>2 DEF Frames, Carrying, EventTypes
<1>5. Frames' \subseteq Frames
  <2>1. ASSUME NEW e \in pending', what'[e].kind = "frame" PROVE e \in Frames
    <3>1. e \in pending \ superseded \/ e = accepted'
      BY <1>2
    <3>2. e = accepted' => \/ e \in superseded /\ what'[e] = Nothing
                           \/ what'[e] = new
      BY <1>2
    <3>3. e # accepted'
      BY <2>1, <3>2 DEF Nothing, Callback
    <3>4. what'[e] = what[e] /\ e \in pending
      BY <1>2, <3>1, <3>3
    <3>5. QED
      BY <2>1, <3>4 DEF Frames, Carrying
  <2>2. QED
    BY <2>1 DEF Frames, Carrying
<1>6. Frames \subseteq Frames'
  <2>1. \A e \in Frames : e \in pending' /\ what'[e].kind = "frame"
    BY <1>2, <1>4 DEF Frames, Carrying
  <2>2. QED
    BY <2>1 DEF Frames, Carrying
<1>7. QED
  BY <1>2, <1>3, <1>4, <1>5, <1>6, MarksKept

LEMMA SupersedeOther ==
  ASSUME EventTypes, Marks, NEW kind \in {"state", "stop"}, Supersede(kind),
         UNCHANGED frameVars
  PROVE  Marks' /\ EventTypes' /\ UNCHANGED <<running, phase>> /\ phase = "open"
<1>1. Callback(kind, 0, FALSE) \in Callbacks /\ Callback(kind, 0, FALSE).kind # "frame"
  BY OutputAssumption DEF Callback, Callbacks
<1>2. Carrying(kind) \cap Frames = {}
  BY DEF Carrying, Frames
<1>3. QED
  BY <1>1, <1>2, AcceptOther DEF Supersede

\* A frame enters the queue: it is the last one now, and follows the last one
\* before, unless it is marked.
LEMMA FrameQueued ==
  ASSUME EventTypes, Marks, frame # "none", frame' = "none",
         UNCHANGED <<dropped, frameNumber, lastFrame, cleared>>,
         Enqueue(Callback("frame", frameNumber, frame = "marked"))
  PROVE  Marks' /\ EventTypes' /\ UNCHANGED <<running, phase>> /\ phase = "open"
<1> USE OutputAssumption
<1> DEFINE new == Callback("frame", frameNumber, frame = "marked")
<1>1. /\ new \in Callbacks /\ new.kind = "frame" /\ new.frame = frameNumber
      /\ new.marked <=> frame = "marked"
  BY DEF EventTypes, Callback, Callbacks
<1>2. Accept(new, {})
  BY DEF Enqueue
<1> HIDE DEF new
<1> PICK last : last = accepted'
  OBVIOUS
<1>3. /\ phase = "open" /\ UNCHANGED <<running, phase>> /\ last \in 1 .. MaxEvents
      /\ pending' \subseteq 1 .. last /\ what' \in [1 .. MaxEvents -> Callbacks]
      /\ \A e \in pending : e < last /\ e \in 1 .. MaxEvents
      /\ pending' = pending \cup {last}
      /\ \A e \in 1 .. MaxEvents : what'[e] = IF e = last THEN new ELSE what[e]
  BY <1>1, <1>2, Accepted
<1>4. EventTypes'
  BY <1>3 DEF EventTypes
<1>5. /\ Frames' = Frames \cup {last} /\ what'[last] = new /\ last \in Nat
      /\ \A e \in Frames : e < last /\ e \in Nat /\ what'[e] = what[e]
  <2>1. last \in Nat /\ what'[last] = new
    BY <1>3
  <2>2. \A e \in pending : e # last /\ e < last /\ e \in Nat /\ what'[e] = what[e]
    BY <1>3
  <2>3. QED
    BY <1>1, <1>3, <2>1, <2>2 DEF Frames, Carrying
<1>6. \A e \in Frames : what[e].frame < frameNumber /\ what[e].frame \in Nat
  <2>1. \A e \in Frames : e \in 1 .. MaxEvents
    BY <1>3 DEF Frames, Carrying
  <2>2. \A e \in Frames : what[e].frame \in Nat
    BY <2>1 DEF EventTypes, Callbacks
  <2>3. QED
    BY <2>2 DEF Marks
<1>7. \A e \in Frames : Follows(e)'
  BY <1>3, <1>5 DEF Marks, Follows
<1>8. Follows(last)'
  <2>1. CASE frame = "marked"
    BY <1>1, <1>5, <2>1 DEF Follows
  <2>2. CASE frame = "plain"
    <3>1. IsLast(frameNumber - 1)
      BY <2>2 DEF Marks
    <3>2. CASE \E f \in Frames : what[f].frame = frameNumber - 1
      BY <1>1, <1>5, <1>6, <3>2 DEF Follows, EventTypes
    <3>3. CASE Frames = {} /\ (cleared \/ lastFrame = frameNumber - 1)
      BY <1>1, <1>5, <3>3 DEF Follows, EventTypes
    <3>4. QED
      BY <3>1, <3>2, <3>3 DEF IsLast
  <2>3. QED
    BY <2>1, <2>2 DEF EventTypes
<1>9. IsLast(frameNumber)'
  BY <1>1, <1>5 DEF IsLast
<1>10. \A e, f \in Frames' : e < f => what'[e].frame < what'[f].frame
  BY <1>1, <1>5, <1>6 DEF Marks
<1>11. \A e \in Frames' : what'[e].frame <= frameNumber
  BY <1>1, <1>5, <1>6 DEF EventTypes
<1>12. QED
  BY <1>3, <1>4, <1>5, <1>7, <1>8, <1>9, <1>10, <1>11 DEF Marks

\* A callback starts that carries no frame.
LEMMA OtherStarted ==
  ASSUME EventTypes, Marks, NEW e \in pending, what[e].kind # "frame",
         Mailbox!Start(e), Forget({e}), UNCHANGED frameVars
  PROVE  Marks' /\ EventTypes'
<1>1. /\ pending' = pending \ {e} /\ UNCHANGED <<accepted, phase>>
      /\ what' = [f \in 1 .. MaxEvents |-> IF f = e THEN Nothing ELSE what[f]]
  BY DEF Mailbox!Start, Forget
<1>2. \A f \in pending : f \in 1 .. MaxEvents
  BY OutputAssumption DEF EventTypes
<1>3. Nothing \in Callbacks /\ Nothing.kind # "frame"
  BY OutputAssumption DEF Nothing, Callback, Callbacks
<1>4. Frames' = Frames /\ \A f \in Frames : what'[f] = what[f]
  BY <1>1, <1>2, <1>3 DEF Frames, Carrying
<1>5. EventTypes'
  BY <1>1, <1>3 DEF EventTypes, frameVars
<1>6. QED
  BY <1>4, <1>5, MarksKept

\* The first frame of the queue is shown; the next one follows it.
LEMMA FrameStarted ==
  ASSUME EventTypes, Marks, NEW e \in pending, what[e].kind = "frame",
         IsNext(e), Mailbox!Start(e), Forget({e}),
         lastFrame' = what[e].frame, cleared' = FALSE,
         UNCHANGED <<dropped, frame, frameNumber>>
  PROVE  Marks' /\ EventTypes'
<1>1. /\ pending' = pending \ {e} /\ UNCHANGED <<accepted, phase>>
      /\ what' = [f \in 1 .. MaxEvents |-> IF f = e THEN Nothing ELSE what[f]]
  BY DEF Mailbox!Start, Forget
<1>2. /\ \A f \in pending : f \in 1 .. MaxEvents /\ f \in Nat
      /\ \A f \in Frames : what[f].frame \in Nat
  BY OutputAssumption DEF EventTypes, Frames, Carrying, Callbacks
<1>3. Nothing \in Callbacks /\ Nothing.kind # "frame"
  BY OutputAssumption DEF Nothing, Callback, Callbacks
<1>4. /\ Frames' = Frames \ {e} /\ e \in Frames
      /\ \A f \in Frames \ {e} : what'[f] = what[f] /\ e < f
  BY <1>1, <1>2, <1>3 DEF Frames, Carrying, IsNext
<1>5. \A f \in Frames \ {e} : what[e].frame < what[f].frame
  BY <1>4 DEF Marks
<1>6. ASSUME NEW f \in Frames' PROVE Follows(f)'
  <2>1. f \in Frames \ {e} /\ e < f /\ Follows(f)
    BY <1>4 DEF Marks
  <2>2. CASE what[f].marked
    BY <1>4, <2>1, <2>2 DEF Follows
  <2>3. ASSUME NEW g \in Frames, g < f, what[g].frame + 1 = what[f].frame
        PROVE  Follows(f)'
    <3>1. CASE g # e
      BY <1>4, <2>1, <2>3, <3>1 DEF Follows
    <3>2. CASE g = e
      <4>1. what'[f].frame = lastFrame' + 1
        BY <1>4, <2>1, <2>3, <3>2
      <4>2. ASSUME NEW h \in Frames' PROVE f <= h
        <5>1. h \in Frames \ {e} /\ what[e].frame < what[h].frame
          BY <1>4, <1>5
        <5>2. h < f => what[h].frame < what[f].frame
          BY <2>1, <5>1 DEF Marks
        <5>3. h \in Nat /\ f \in Nat /\ what[h].frame \in Nat /\ what[e].frame \in Nat
          BY <1>2, <1>4, <2>1, <5>1 DEF Frames, Carrying
        <5>4. QED
          BY <2>3, <3>2, <5>1, <5>2, <5>3
      <4>3. QED
        BY <4>1, <4>2 DEF Follows
    <3>3. QED
      BY <3>1, <3>2
  <2>4. ~(\A g \in Frames : f <= g)
    BY <1>2, <1>4, <2>1 DEF Frames, Carrying
  <2>5. QED
    BY <2>1, <2>2, <2>3, <2>4 DEF Follows
<1>7. \A n \in Nat : (\A f \in Frames : what[f].frame <= n) /\ IsLast(n) => IsLast(n)'
  <2> SUFFICES ASSUME NEW n \in Nat, \A f \in Frames : what[f].frame <= n, IsLast(n)
               PROVE  IsLast(n)'
    OBVIOUS
  <2>1. PICK g \in Frames : what[g].frame = n
    BY <1>4 DEF IsLast
  <2>2. CASE g # e
    BY <1>4, <2>1, <2>2 DEF IsLast
  <2>3. CASE g = e
    <3>1. Frames' = {}
      BY <1>2, <1>4, <1>5, <2>1, <2>3
    <3>2. QED
      BY <2>1, <2>3, <3>1 DEF IsLast
  <2>4. QED
    BY <2>2, <2>3
<1>8. EventTypes'
  <2>1. what[e].frame \in 0 .. frameNumber
    BY <1>2, <1>4 DEF EventTypes, Marks
  <2>2. pending' \subseteq 1 .. accepted' /\ accepted' \in 0 .. MaxEvents
    BY <1>1 DEF EventTypes
  <2>3. what' \in [1 .. MaxEvents -> Callbacks]
    BY <1>1, <1>3 DEF EventTypes
  <2>4. QED
    BY <1>1, <2>1, <2>2, <2>3 DEF EventTypes
<1>9. /\ frame = "none" => dropped \/ IsLast(frameNumber)'
      /\ frame = "plain" => IsLast(frameNumber - 1)'
  <2>1. frameNumber \in Nat /\ (frame # "none" => frameNumber - 1 \in Nat)
    BY DEF EventTypes, Marks
  <2>2. frame # "none" => \A f \in Frames : what[f].frame <= frameNumber - 1
    BY <1>2, <2>1 DEF Marks
  <2>3. frame = "none" => dropped \/ IsLast(frameNumber)'
    BY <1>7, <2>1 DEF Marks, IsLast
  <2>4. frame = "plain" => IsLast(frameNumber - 1)'
    BY <1>7, <2>1, <2>2 DEF Marks, IsLast
  <2>5. QED
    BY <2>3, <2>4
<1>10. /\ \A f \in Frames' : /\ what'[f].frame <= frameNumber
                             /\ frame # "none" => what'[f].frame < frameNumber
       /\ \A f, g \in Frames' : f < g => what'[f].frame < what'[g].frame
       /\ frame # "none" => lastFrame' < frameNumber
  BY <1>4 DEF Marks
<1>11. QED
  BY <1>6, <1>8, <1>9, <1>10 DEF Marks

-----------------------------------------------------------------------------
(* Native callbacks and handlers *)

\* Callers, the attachment and what closes know, while callbacks come and go.
LEMMA CallsLeft ==
  ASSUME IInv, EventTypes', ObjectTypes', Destroyed', Marks',
         UNCHANGED <<opMu, callVars, snapshots, bound, native, attached, phase>>
  PROVE  IInv'
<1> USE DEF callVars
<1>1. CallTypes' /\ Snapshots' /\ Attachment'
  BY DEF IInv, Types, CallTypes, Place, Snapshots, Attachment, AttachmentAt
<1>2. CloseKnows'
  BY DEF IInv, CloseKnows, CloseKnowsAt
<1>3. QED
  BY <1>1, <1>2 DEF IInv, Types

\* A state or stop request is posted, or refused by a closing mailbox.
LEMMA PostStep ==
  ASSUME IInv, postState \/ OnError
  PROVE  IInv'
<1> USE DEF IInv, Types
<1>1. /\ UNCHANGED <<opMu, callVars, snapshots, objectVars, frameVars, state>>
      /\ callback' \in {"none", callback}
      /\ \/ Supersede("state") \/ Supersede("stop")
         \/ Enqueue(Callback("error", 0, FALSE))
         \/ UNCHANGED <<what, mailboxVars>>
  BY DEF postState, postLatest, OnError
<1>2. /\ Marks' /\ EventTypes' /\ UNCHANGED <<running, phase>>
      /\ phase = "open" \/ UNCHANGED pending
  <2>1. CASE Supersede("state") \/ Supersede("stop")
    BY <1>1, <2>1, SupersedeOther
  <2>2. CASE Enqueue(Callback("error", 0, FALSE))
    <3>1. /\ Callback("error", 0, FALSE) \in Callbacks
          /\ Callback("error", 0, FALSE).kind # "frame"
      BY OutputAssumption DEF Callback, Callbacks
    <3>2. Accept(Callback("error", 0, FALSE), {}) /\ {} \cap Frames = {}
      BY <2>2 DEF Enqueue
    <3>3. QED
      BY <1>1, <3>1, <3>2, AcceptOther
  <2>3. CASE UNCHANGED <<what, mailboxVars>>
    <3>1. Frames' = Frames
      BY <2>3 DEF Frames, Carrying, mailboxVars
    <3>2. Marks'
      BY <1>1, <2>3, <3>1, MarksKept
    <3>3. QED
      BY <1>1, <2>3, <3>2 DEF EventTypes, mailboxVars, frameVars
  <2>4. QED
    BY <1>1, <2>1, <2>2, <2>3
<1>3. Destroyed'
  BY <1>1, <1>2 DEF CloseKnows, Destroyed, objectVars, callVars, frameVars
<1>4. ObjectTypes'
  BY <1>1 DEF ObjectTypes, objectVars
<1>5. UNCHANGED <<opMu, callVars, snapshots, bound, native, attached, phase>>
  BY <1>1, <1>2 DEF objectVars
<1> HIDE DEF IInv, Types
<1>6. QED
  BY <1>2, <1>3, <1>4, <1>5, CallsLeft

\* Native delivers only while the output is attached, hence not destroyed.
LEMMA DeliveryStep ==
  ASSUME IInv,
         \/ \E s \in {"Idle", "Delivering"} : OnState(s)
         \/ \E skip \in {0, 1} : OnFrame(skip)
  PROVE  IInv'
<1>1. /\ native = "open"
      /\ UNCHANGED <<opMu, callVars, snapshots, objectVars, mailboxVars, what>>
  BY DEF OnState, OnFrame, Delivering
<1>2. Destroyed'
  BY <1>1 DEF IInv, CloseKnows, Destroyed, objectVars, mailboxVars
<1>3. Frames' = Frames /\ \A e \in Frames : what'[e] = what[e]
  BY <1>1 DEF Frames, Carrying, mailboxVars
<1>4. ObjectTypes' /\ Marks' /\ EventTypes'
  <2>1. ASSUME NEW s \in {"Idle", "Delivering"}, OnState(s)
        PROVE  ObjectTypes' /\ Marks' /\ EventTypes'
    <3>1. UNCHANGED frameVars /\ state' = s /\ callback' = s
      BY <2>1 DEF OnState
    <3>2. Marks'
      BY <1>3, <3>1, MarksKept DEF IInv
    <3>3. QED
      BY <1>1, <3>1, <3>2 DEF IInv, Types, ObjectTypes, EventTypes, objectVars,
                              mailboxVars, frameVars
  <2>2. ASSUME NEW skip \in {0, 1}, OnFrame(skip)
        PROVE  ObjectTypes' /\ Marks' /\ EventTypes'
    <3>1. /\ frame = "none" /\ frameNumber' = frameNumber + skip + 1
          /\ frame' = IF dropped \/ skip > 0 THEN "marked" ELSE "plain"
          /\ dropped' = FALSE /\ frameNumber + skip < MaxFrames
          /\ UNCHANGED <<lastFrame, cleared, state, callback>>
      BY <2>2 DEF OnFrame
    <3>2. EventTypes' /\ ObjectTypes'
      <4>1. EventTypes /\ ObjectTypes
        BY DEF IInv, Types
      <4>2. frameNumber' \in 0 .. MaxFrames /\ lastFrame' \in 0 .. frameNumber'
        BY <3>1, <4>1, OutputAssumption DEF EventTypes
      <4>3. UNCHANGED <<what, accepted, pending, phase, snapshots, native, closed,
                        bound, attached, released>>
        BY <1>1 DEF objectVars, mailboxVars
      <4>4. QED
        BY <3>1, <4>1, <4>2, <4>3 DEF EventTypes, ObjectTypes
    <3>3. \A e \in Frames : Follows(e)' /\ what'[e].frame < frameNumber'
                            /\ what[e].frame \in Nat
      <4>1. \A e \in Frames : Follows(e)'
        BY <1>3, <3>1 DEF IInv, Marks, Follows
      <4>2. \A e \in Frames : e \in 1 .. MaxEvents
        BY OutputAssumption DEF IInv, Types, EventTypes, Frames, Carrying
      <4>3. \A e \in Frames : what[e].frame \in Nat /\ what[e].frame <= frameNumber
        BY <4>2 DEF IInv, Types, EventTypes, Callbacks, Marks
      <4>4. QED
        BY <1>3, <3>1, <4>1, <4>3 DEF IInv, Types, EventTypes
    <3>4. frame' = "plain" => IsLast(frameNumber - 1)'
      <4>1. frame' = "plain" => ~dropped /\ frameNumber' - 1 = frameNumber
        BY <3>1 DEF IInv, Types, EventTypes
      <4>2. ~dropped => \/ \E f \in Frames' : what'[f].frame = frameNumber
                        \/ Frames' = {} /\ (cleared' \/ lastFrame' = frameNumber)
        BY <1>3, <3>1 DEF IInv, Marks, IsLast
      <4>3. QED
        BY <4>1, <4>2 DEF IsLast
    <3>5. lastFrame' < frameNumber'
      BY <3>1 DEF IInv, Types, EventTypes
    <3>6. QED
      BY <1>3, <3>1, <3>2, <3>3, <3>4, <3>5 DEF IInv, Marks
  <2>3. QED
    BY <2>1, <2>2
<1>5. QED
  BY <1>1, <1>2, <1>4, CallsLeft DEF objectVars, mailboxVars

\* A frame finds no room, or a closing mailbox: the next one will be marked.
LEMMA PostFrameStep ==
  ASSUME IInv, postFrame
  PROVE  IInv'
<1>1. /\ UNCHANGED <<opMu, callVars, snapshots, objectVars, state, callback>>
      /\ UNCHANGED <<frameNumber, lastFrame, cleared>>
      /\ frame # "none" /\ frame' = "none"
      /\ \/ /\ Enqueue(Callback("frame", frameNumber, frame = "marked"))
            /\ UNCHANGED dropped
         \/ dropped' = TRUE /\ UNCHANGED <<what, mailboxVars>>
  BY DEF postFrame, markDropped
<1>2. EventTypes /\ ObjectTypes /\ Marks /\ Destroyed
  BY DEF IInv, Types, CloseKnows
<1>3. /\ Marks' /\ EventTypes' /\ UNCHANGED <<running, phase>>
      /\ phase = "open" \/ UNCHANGED pending
  <2>1. CASE /\ Enqueue(Callback("frame", frameNumber, frame = "marked"))
             /\ UNCHANGED dropped
    BY <1>1, <1>2, <2>1, FrameQueued
  <2>2. CASE dropped' = TRUE /\ UNCHANGED <<what, mailboxVars>>
    <3>1. /\ UNCHANGED <<what, pending, accepted, running, phase>>
          /\ Frames' = Frames
      BY <2>2 DEF mailboxVars, Frames, Carrying
    <3>2. \A e \in Frames : Follows(e) => Follows(e)'
      BY <1>1, <3>1 DEF Follows
    <3>3. Marks'
      BY <1>1, <1>2, <2>2, <3>1, <3>2 DEF Marks
    <3>4. EventTypes'
      BY <1>1, <1>2, <2>2, <3>1 DEF EventTypes
    <3>5. QED
      BY <3>1, <3>3, <3>4
  <2>3. QED
    BY <1>1, <2>1, <2>2
<1>4. Destroyed' /\ ObjectTypes'
  BY <1>1, <1>2, <1>3 DEF Destroyed, ObjectTypes, objectVars, callVars
<1>5. QED
  BY <1>1, <1>3, <1>4, CallsLeft DEF objectVars

\* A handler returns, or a connection without this output is closed.
LEMMA ElsewhereStep ==
  ASSUME IInv, endHandler \/ \E c \in Connections : connectionCloses(c)
  PROVE  IInv'
<1>1. /\ UNCHANGED <<opMu, callVars, snapshots, state, callback, bound, closed, native,
                     attached, frameVars, what, accepted, pending, phase>>
      /\ running' \in {{}, running} /\ released' \subseteq Connections
  BY DEF endHandler, Mailbox!Return, connectionCloses, objectVars, mailboxVars,
         IInv, Types, ObjectTypes
<1>2. Destroyed'
  BY <1>1 DEF IInv, CloseKnows, Destroyed, callVars, frameVars
<1>3. ObjectTypes' /\ EventTypes'
  BY <1>1 DEF IInv, Types, ObjectTypes, EventTypes, frameVars
<1>4. Marks'
  <2>1. Frames' = Frames
    BY <1>1 DEF Frames, Carrying
  <2>2. QED
    BY <1>1, <2>1, MarksKept DEF IInv
<1>5. QED
  BY <1>1, <1>2, <1>3, <1>4, CallsLeft

-----------------------------------------------------------------------------
(* Callers *)

\* A caller goes from one place to another, together with its operation.
Goes(u) ==
  /\ at' = [at EXCEPT ![u] = at'[u]]
  /\ op' = [op EXCEPT ![u] = op'[u]]
  /\ target' = [target EXCEPT ![u] = target'[u]]
  /\ op'[u] \in Operations \cup {"none"} /\ target'[u] \in Connections \cup {Unbound}
  /\ at'[u] \in Holding \cup {"out", "entering", "snapshot", "waitIdle"}
  /\ Place(u)'

\* A caller that neither has nor takes opMu: who has it goes on unharmed.
LEMMA Outside ==
  ASSUME IInv, NEW u \in Callers, Goes(u), at[u] \notin Holding, at'[u] \notin Holding,
         UNCHANGED <<opMu, bound, native, attached, phase>>,
         snapshots' = snapshots \/ opMu = Free
  PROVE  /\ CallTypes' /\ Attachment' /\ \A v \in Callers : CloseKnowsAt(v)'
         /\ (\E v \in Callers : at[v] = "destroyed") => \E v \in Callers : at'[v] = "destroyed"
<1>1. /\ \A v \in Callers \ {u} : at'[v] = at[v] /\ op'[v] = op[v] /\ target'[v] = target[v]
      /\ op' \in [Callers -> Operations \cup {"none"}]
      /\ at' \in [Callers -> Holding \cup {"out", "entering", "snapshot", "waitIdle"}]
      /\ target' \in [Callers -> Connections \cup {Unbound}]
  BY DEF IInv, Types, CallTypes, Goes
<1>2. \A v \in Callers : Place(v)'
  BY <1>1 DEF IInv, Types, CallTypes, Goes, Place
<1>3. CallTypes'
  BY <1>1, <1>2 DEF IInv, Types, CallTypes
<1>4. Attachment'
  BY <1>1 DEF IInv, Attachment, AttachmentAt, Holding
<1>5. \A v \in Callers : CloseKnowsAt(v)'
  <2> SUFFICES ASSUME NEW v \in Callers, at'[v] \in Holding PROVE CloseKnowsAt(v)'
    BY DEF CloseKnowsAt, Holding, ClosingSteps, Detaching
  <2>1. v # u /\ at[v] \in Holding /\ CloseKnowsAt(v)
    BY <1>1 DEF IInv, CloseKnows
  <2>2. snapshots' = snapshots
    BY <2>1, OutputAssumption DEF IInv, Types, CallTypes
  <2>3. QED
    BY <1>1, <2>1, <2>2 DEF CloseKnowsAt
<1>6. (\E v \in Callers : at[v] = "destroyed") => \E v \in Callers : at'[v] = "destroyed"
  BY <1>1 DEF Holding
<1>7. QED
  BY <1>3, <1>4, <1>5, <1>6

\* Beginning and ending a call without opMu, and waiting in it.
LEMMA OutsideStep ==
  ASSUME IInv, NEW u \in Callers,
         \/ \E name \in Operations : call(u, name)
         \/ preflightClose(u) \/ refused(u) \/ waitIdle(u)
  PROVE  IInv'
<1>1. /\ at[u] \in {"out", "entering", "waitIdle"} /\ at'[u] \in {"out", "entering"}
      /\ Goes(u)
  <2>1. \/ /\ at[u] = "out" /\ at' = [at EXCEPT ![u] = "entering"]
           /\ \E name \in Operations :
                /\ op' = [op EXCEPT ![u] = name]
                /\ \/ name = "Attach" /\ \E c \in Connections : target' = [target EXCEPT ![u] = c]
                   \/ name # "Attach" /\ UNCHANGED target
        \/ at[u] \in {"entering", "waitIdle"} /\ Return(u)
    BY DEF call, Call, preflightClose, refused, waitIdle, IInv, Types, CallTypes, Place, Operations
  <2>2. CASE at[u] \in {"entering", "waitIdle"} /\ Return(u)
    BY <2>2 DEF Return, Goes, Place, IInv, Types, CallTypes, Operations
  <2>3. ASSUME NEW name \in Operations, at[u] = "out", at' = [at EXCEPT ![u] = "entering"],
               op' = [op EXCEPT ![u] = name],
               \/ name = "Attach" /\ \E c \in Connections : target' = [target EXCEPT ![u] = c]
               \/ name # "Attach" /\ UNCHANGED target
        PROVE  Goes(u)
    BY <2>3 DEF Goes, Place, IInv, Types, CallTypes, Operations
  <2>4. QED
    BY <2>1, <2>2, <2>3 DEF Return, IInv, Types, CallTypes
<1>2. /\ UNCHANGED <<opMu, state, snapshots, callback, bound, closed, native, attached,
                     released, frameVars, what, accepted, pending, running, phase>>
  BY DEF call, preflightClose, refused, waitIdle, objectVars, mailboxVars
<1>3. /\ CallTypes' /\ Attachment' /\ \A v \in Callers : CloseKnowsAt(v)'
      /\ (\E v \in Callers : at[v] = "destroyed") => \E v \in Callers : at'[v] = "destroyed"
  BY <1>1, <1>2, Outside DEF Holding
<1>4. Destroyed'
  BY <1>2, <1>3 DEF IInv, CloseKnows, Destroyed, frameVars
<1>5. Snapshots'
  BY <1>1, <1>2 DEF IInv, Types, CallTypes, Snapshots, Goes
<1>6. ObjectTypes' /\ EventTypes'
  BY <1>2 DEF IInv, Types, ObjectTypes, EventTypes, frameVars
<1>7. Marks'
  <2>1. Frames' = Frames
    BY <1>2 DEF Frames, Carrying
  <2>2. QED
    BY <1>2, <2>1, MarksKept DEF IInv
<1>8. QED
  BY <1>3, <1>4, <1>5, <1>6, <1>7 DEF IInv, Types, CloseKnows

\* A snapshot begins and ends while nobody holds opMu.
LEMMA SnapshotStep ==
  ASSUME IInv, NEW u \in Callers, beginSnapshot(u) \/ endSnapshot(u)
  PROVE  IInv'
<1>1. /\ at[u] \in {"entering", "snapshot"} /\ at'[u] \in {"out", "snapshot"}
      /\ Goes(u) /\ opMu = Free
  <2>1. CASE beginSnapshot(u)
    BY <2>1 DEF beginSnapshot, Step, Goes, Place, IInv, Types, CallTypes, Operations
  <2>2. CASE endSnapshot(u)
    BY <2>2 DEF endSnapshot, Return, Goes, Place, IInv, Types, CallTypes, Operations
  <2>3. QED
    BY <2>1, <2>2
<1>2. /\ UNCHANGED <<opMu, state, callback, bound, closed, native, attached,
                     released, frameVars, what, accepted, pending, running, phase>>
  BY DEF beginSnapshot, endSnapshot, objectVars, mailboxVars
<1>3. /\ CallTypes' /\ Attachment' /\ \A v \in Callers : CloseKnowsAt(v)'
      /\ (\E v \in Callers : at[v] = "destroyed") => \E v \in Callers : at'[v] = "destroyed"
  BY <1>1, <1>2, Outside DEF Holding
<1>4. closed \/ native = "open"
  <2>1. \A v \in Callers : at[v] # "destroyed"
    BY <1>1, OutputAssumption DEF IInv, Types, CallTypes, Holding
  <2>2. QED
    BY <2>1 DEF IInv, CloseKnows, Destroyed, Types, ObjectTypes
<1>5. Snapshots' /\ snapshots' \in {0, 1} /\ (native = "closed" => snapshots' = 0)
  <2>1. CASE beginSnapshot(u)
    <3>1. /\ snapshots = 0 /\ snapshots' = 1 /\ ~closed
          /\ at' = [at EXCEPT ![u] = "snapshot"] 
      BY <2>1 DEF beginSnapshot, Step
    <3>2. QED
      BY <1>4, <3>1 DEF IInv, Types, CallTypes, Snapshots
  <2>2. CASE endSnapshot(u)
    <3>1. snapshots = 1 /\ snapshots' = 0 /\ at[u] = "snapshot"
      BY <2>2 DEF endSnapshot, IInv, Snapshots
    <3>2. at' = [at EXCEPT ![u] = "out"]
      BY <2>2 DEF endSnapshot, Return
    <3>3. QED
      BY <3>1, <3>2 DEF IInv, Types, CallTypes, Snapshots
  <2>3. QED
    BY <2>1, <2>2
<1>6. Destroyed'
  BY <1>2, <1>3, <1>5 DEF IInv, CloseKnows, Destroyed, frameVars
<1>7. ObjectTypes' /\ EventTypes'
  BY <1>2, <1>5 DEF IInv, Types, ObjectTypes, EventTypes, frameVars
<1>8. Marks'
  <2>1. Frames' = Frames
    BY <1>2 DEF Frames, Carrying
  <2>2. QED
    BY <1>2, <2>1, MarksKept DEF IInv
<1>9. QED
  BY <1>3, <1>5, <1>6, <1>7, <1>8 DEF IInv, Types, CloseKnows

\* A handler starts while the mailbox is open; a stop request is a Detach.
LEMMA StartStep ==
  ASSUME IInv, NEW e \in pending, startHandler(e)
  PROVE  IInv'
<1>1. /\ UNCHANGED <<opMu, state, snapshots, callback, bound, closed, native, attached,
                     released, dropped, frame, frameNumber, phase>>
      /\ Mailbox!Start(e) /\ Forget({e}) /\ IsNext(e) /\ phase = "open"
  BY DEF startHandler, objectVars, Mailbox!Start
<1>2. Marks' /\ EventTypes'
  <2>1. CASE what[e].kind = "frame"
    <3>1. lastFrame' = what[e].frame /\ cleared' = FALSE
      BY <2>1 DEF startHandler
    <3>2. QED
      BY <1>1, <2>1, <3>1, FrameStarted DEF IInv, Types
  <2>2. CASE what[e].kind # "frame"
    <3>1. UNCHANGED frameVars
      BY <2>2 DEF startHandler, frameVars
    <3>2. QED
      BY <1>1, <2>2, <3>1, OtherStarted DEF IInv, Types
  <2>3. QED
    BY <2>1, <2>2
<1>3. Destroyed'
  BY <1>1 DEF IInv, CloseKnows, Destroyed
<1>4. ObjectTypes'
  BY <1>1 DEF IInv, Types, ObjectTypes
<1>5. CASE UNCHANGED callVars
  BY <1>1, <1>2, <1>3, <1>4, <1>5, CallsLeft
<1>6. CASE Call(Handler, "Detach") /\ UNCHANGED target
  <2>1. Handler \in Callers
    BY DEF Callers
  <2>2. /\ at[Handler] = "out" /\ at' = [at EXCEPT ![Handler] = "entering"]
        /\ op' = [op EXCEPT ![Handler] = "Detach"] /\ UNCHANGED target
    BY <1>6, <2>1 DEF Call, IInv, Types, CallTypes, Place
  <2>3. Goes(Handler)
    BY <2>1, <2>2 DEF Goes, Place, IInv, Types, CallTypes, Operations
  <2>4. CallTypes' /\ Attachment' /\ \A v \in Callers : CloseKnowsAt(v)'
    <3>1. at'[Handler] = "entering"
      BY <2>1, <2>2 DEF IInv, Types, CallTypes
    <3>2. QED
      BY <1>1, <2>1, <2>2, <2>3, <3>1, Outside DEF Holding
  <2>5. Snapshots'
    BY <1>1, <2>2 DEF IInv, Types, CallTypes, Snapshots
  <2>6. QED
    BY <1>2, <1>3, <1>4, <2>4, <2>5 DEF IInv, Types, CloseKnows
<1>7. QED
  BY <1>5, <1>6 DEF startHandler

-----------------------------------------------------------------------------
(* Operations under opMu *)

\* Whoever has or takes opMu is alone: only its own place has to be right.
LEMMA UnderMutex ==
  ASSUME IInv, NEW u \in Callers, Goes(u), opMu \in {u, Free},
         opMu' = (IF at'[u] \in Holding THEN u ELSE Free),
         at[u] # "snapshot", at'[u] # "snapshot", UNCHANGED snapshots,
         ObjectTypes', EventTypes', Marks', Destroyed',
         AttachmentAt(u)', CloseKnowsAt(u)',
         opMu' = Free => attached' = {bound'} \ {Unbound}
  PROVE  IInv'
<1> USE OutputAssumption
<1>1. /\ \A v \in Callers \ {u} : /\ at'[v] = at[v] /\ op'[v] = op[v] /\ target'[v] = target[v]
                                  /\ at[v] \notin Holding
      /\ op' \in [Callers -> Operations \cup {"none"}]
      /\ at' \in [Callers -> Holding \cup {"out", "entering", "snapshot", "waitIdle"}]
      /\ target' \in [Callers -> Connections \cup {Unbound}]
  BY DEF IInv, Types, CallTypes, Goes
<1>2. \A v \in Callers : Place(v)'
  BY <1>1 DEF IInv, Types, CallTypes, Goes, Place
<1>3. CallTypes'
  BY <1>1, <1>2 DEF IInv, Types, CallTypes
<1>4. Attachment'
  BY <1>1 DEF Attachment, AttachmentAt, Holding
<1>5. \A v \in Callers : CloseKnowsAt(v)'
  BY <1>1 DEF CloseKnowsAt, Holding, ClosingSteps, Detaching
<1>6. Snapshots'
  BY <1>1 DEF IInv, Snapshots
<1>7. QED
  BY <1>3, <1>4, <1>5, <1>6 DEF IInv, Types, CloseKnows

\* Most of its steps leave the mailbox and the frames alone.
LEMMA EventsLeft ==
  ASSUME IInv, UNCHANGED <<frameVars, what, accepted, pending>>,
         phase' \in {"open", "closing", "closed"}
  PROVE  EventTypes' /\ Marks'
<1>1. EventTypes'
  BY DEF IInv, Types, EventTypes, frameVars
<1>2. Frames' = Frames
  BY DEF Frames, Carrying
<1>3. QED
  BY <1>1, <1>2, MarksKept DEF IInv

\* Nobody destroys the output while another one is under opMu.
LEMMA StillOpen ==
  ASSUME IInv, opMu = Free \/ \E u \in Callers : opMu = u /\ at[u] # "destroyed"
  PROVE  native = "open" \/ closed
<1>1. \A v \in Callers : at[v] # "destroyed"
  BY OutputAssumption DEF IInv, Types, CallTypes, Holding
<1>2. QED
  BY <1>1 DEF IInv, CloseKnows, Destroyed, Types, ObjectTypes

\* Entering: Attach finds the output unbound, Detach finds it bound.
LEMMA EnterStep ==
  ASSUME IInv, NEW u \in Callers, enter(u)
  PROVE  IInv'
<1>1. /\ opMu = Free /\ opMu' = u /\ at[u] = "entering" /\ UNCHANGED <<op, target>>
      /\ at' = [at EXCEPT ![u] = at'[u]]
      /\ UNCHANGED <<state, snapshots, callback, objectVars, frameVars, what, mailboxVars>>
  BY DEF enter, Lock, Step, IInv, Types, CallTypes
<1>2. \/ op[u] = "Attach" /\ at'[u] = "attaching" /\ bound = Unbound /\ ~closed
      \/ /\ op[u] \in {"Detach", "detachFromClient"} /\ at'[u] = "detaching"
         /\ bound # Unbound /\ ~closed
      \/ op[u] = "Close" /\ at'[u] = "locked"
  BY DEF enter, Lock, Step, mayAttach, mayDetach, IInv, Types, CallTypes
<1>3. Goes(u) /\ at'[u] \in Holding /\ at'[u] # "snapshot"
  BY <1>1, <1>2 DEF Goes, Place, IInv, Types, CallTypes, Holding, Detaching
<1>4. EventTypes' /\ Marks'
  BY <1>1, EventsLeft DEF IInv, Types, EventTypes, mailboxVars
<1>5. ObjectTypes'
  BY <1>1 DEF IInv, Types, ObjectTypes, objectVars
<1>6. native = "open" \/ closed
  BY <1>1, StillOpen
<1>7. Destroyed'
  BY <1>1, <1>6 DEF IInv, CloseKnows, Destroyed, objectVars, mailboxVars, frameVars
<1>8. AttachmentAt(u)' /\ CloseKnowsAt(u)'
  BY <1>1, <1>2, <1>6 DEF IInv, Types, CallTypes, Attachment, AttachmentAt, CloseKnowsAt,
                          ClosingSteps, Detaching, objectVars
<1>9. QED
  BY <1>1, <1>3, <1>4, <1>5, <1>7, <1>8, UnderMutex, OutputAssumption
     DEF IInv, Types, CallTypes

\* attach, bind and the two ways to fail.
LEMMA AttachStep ==
  ASSUME IInv, NEW u \in Callers, Attach(u)
  PROVE  IInv'
<1>1. /\ at[u] \in {"attaching", "attached"} /\ opMu = u /\ op[u] = "Attach"
      /\ target[u] \in Connections /\ native = "open" /\ ~closed
  BY DEF Attach, attach, attachFails, bind, Step, IInv, Types, CallTypes, Place, Holding,
         CloseKnows, CloseKnowsAt, Destroyed, Operations, ClosingSteps, Detaching
<1>2. /\ UNCHANGED <<state, snapshots, callback, closed, native, released, frameVars, what,
                     accepted, pending, running, phase>>
      /\ at'[u] \in {"attached", "out"} /\ Goes(u)
      /\ opMu' = IF at'[u] \in Holding THEN u ELSE Free
  <2>1. CASE attach(u)
    BY <1>1, <2>1 DEF attach, Step, Goes, Place, Holding, mailboxVars, IInv, Types, CallTypes
  <2>2. CASE attachFails(u)
    BY <1>1, <2>2 DEF attachFails, Return, Goes, Place, Holding, mailboxVars, objectVars,
                      IInv, Types, CallTypes
  <2>3. CASE bind(u)
    BY <1>1, <2>3 DEF bind, Return, Goes, Place, Holding, mailboxVars, IInv, Types, CallTypes
  <2>4. QED
    BY <2>1, <2>2, <2>3 DEF Attach
<1>3. EventTypes' /\ Marks'
  BY <1>2, EventsLeft DEF IInv, Types, EventTypes
<1>4. /\ bound' \in Connections \cup {Unbound} /\ attached' \subseteq Connections
      /\ AttachmentAt(u)' /\ (opMu' = Free => attached' = {bound'} \ {Unbound})
  <2>1. CASE attach(u)
    <3>1. at' = [at EXCEPT ![u] = "attached"] /\ attached' = attached \cup {target[u]}
          /\ bound' = bound /\ target' = target /\ at[u] = "attaching" /\ opMu' = u
      BY <1>1, <2>1 DEF attach, Step
    <3>2. at'[u] = "attached" /\ bound = Unbound /\ attached = {}
      BY <3>1 DEF IInv, Types, CallTypes, Attachment, AttachmentAt
    <3>3. QED
      BY <1>1, <3>1, <3>2, OutputAssumption DEF AttachmentAt, IInv, Types, ObjectTypes
  <2>2. CASE attachFails(u) \/ bind(u)
    <3>1. at' = [at EXCEPT ![u] = "out"] /\ attached' = attached
          /\ bound' = IF at[u] = "attached" THEN target[u] ELSE bound
      BY <2>2 DEF attachFails, bind, Return, objectVars
    <3>2. at'[u] = "out"
      BY <3>1 DEF IInv, Types, CallTypes
    <3>3. QED
      BY <1>1, <3>1, <3>2, OutputAssumption
         DEF IInv, Types, ObjectTypes, Attachment, AttachmentAt
  <2>3. QED
    BY <2>1, <2>2 DEF Attach
<1>5. ObjectTypes' /\ Destroyed' /\ CloseKnowsAt(u)'
  BY <1>1, <1>2, <1>4 DEF IInv, Types, ObjectTypes, CloseKnows, Destroyed, CloseKnowsAt,
                          ClosingSteps, Detaching
<1>6. QED
  BY <1>1, <1>2, <1>3, <1>4, <1>5, UnderMutex

\* The connection forgets the output, then the output the connection.
LEMMA DetachStep ==
  ASSUME IInv, NEW u \in Callers, detach(u) \/ unbind(u)
  PROVE  IInv'
<1>1. /\ at[u] \in {"detaching", "detached"} /\ opMu = u /\ native = "open" /\ ~closed
      /\ op[u] \in {"Detach", "detachFromClient", "Close"}
      /\ AttachmentAt(u) /\ CloseKnowsAt(u) /\ bound \in Connections
  BY DEF detach, unbind, Step, IInv, Types, CallTypes, ObjectTypes, Place, Holding,
         Attachment, AttachmentAt, CloseKnows, CloseKnowsAt, Destroyed, Operations
<1>2. /\ UNCHANGED <<opMu, op, target, snapshots, callback, closed, native, released,
                     frameVars, what, accepted, pending, running, phase>>
      /\ at' = [at EXCEPT ![u] = at'[u]]
      /\ at'[u] = IF at[u] = "detaching" THEN "detached"
                  ELSE IF state = "Idle" THEN "unbound" ELSE "notifying"
      /\ attached' = attached \ {bound}
      /\ bound' = (IF at[u] = "detaching" THEN bound ELSE Unbound)
      /\ state' \in {state, "Idle"}
  <2>1. CASE detach(u)
    BY <2>1 DEF detach, Step, mailboxVars, IInv, Types, CallTypes
  <2>2. CASE unbind(u)
    BY <1>1, <2>2 DEF unbind, Step, mailboxVars, IInv, Types, CallTypes, AttachmentAt
  <2>3. QED
    BY <2>1, <2>2
<1>3. Goes(u) /\ at'[u] \in Detaching /\ opMu' = u
  <2>1. at'[u] \in Detaching /\ Place(u)'
    BY <1>1, <1>2 DEF Place, ClosingSteps, Detaching
  <2>2. QED
    BY <1>1, <1>2, <2>1 DEF Goes, IInv, Types, CallTypes, Holding, Detaching
<1>4. EventTypes' /\ Marks'
  BY <1>2, EventsLeft DEF IInv, Types, EventTypes
<1>5. AttachmentAt(u)' /\ CloseKnowsAt(u)'
  BY <1>1, <1>2 DEF AttachmentAt, CloseKnowsAt, ClosingSteps, Detaching
<1>6. ObjectTypes' /\ Destroyed'
  BY <1>1, <1>2 DEF IInv, Types, ObjectTypes, CloseKnows, Destroyed
<1>7. at'[u] \in Holding /\ opMu' # Free /\ at[u] # "snapshot" /\ at'[u] # "snapshot"
  BY <1>1, <1>3, OutputAssumption DEF Holding, Detaching
<1>8. QED
  BY <1>1, <1>2, <1>3, <1>4, <1>5, <1>6, <1>7, UnderMutex

\* Idle is told, or refused by the closing mailbox.
LEMMA PostIdleStep ==
  ASSUME IInv, NEW u \in Callers, postIdle(u)
  PROVE  IInv'
<1>1. /\ at[u] = "notifying" /\ opMu = u
      /\ op[u] \in {"Detach", "detachFromClient", "Close"}
      /\ AttachmentAt(u) /\ CloseKnowsAt(u)
  BY DEF postIdle, Step, IInv, Types, CallTypes, Place, Holding, Attachment,
         CloseKnows, Operations
<1>2. /\ UNCHANGED <<opMu, op, target, state, snapshots, callback, objectVars, frameVars>>
      /\ at' = [at EXCEPT ![u] = "unbound"] /\ at'[u] = "unbound"
      /\ postLatest
  BY DEF postIdle, Step, IInv, Types, CallTypes
<1>3. /\ Marks' /\ EventTypes' /\ UNCHANGED <<running, phase>>
      /\ phase = "open" \/ UNCHANGED pending
  <2>1. CASE Supersede("state")
    BY <1>2, <2>1, SupersedeOther DEF IInv, Types
  <2>2. CASE UNCHANGED <<what, mailboxVars>>
    BY <1>2, <2>2, EventsLeft DEF IInv, Types, EventTypes, mailboxVars
  <2>3. QED
    BY <1>2, <2>1, <2>2 DEF postLatest
<1>4. Goes(u) /\ at'[u] \in Holding /\ opMu' = u
  <2>1. at'[u] \in Holding /\ Place(u)'
    BY <1>1, <1>2 DEF Place, ClosingSteps, Detaching, Holding
  <2>2. QED
    BY <1>1, <1>2, <2>1 DEF Goes, IInv, Types, CallTypes
<1>5. AttachmentAt(u)' /\ CloseKnowsAt(u)'
  BY <1>1, <1>2, <1>3 DEF AttachmentAt, CloseKnowsAt, ClosingSteps, Detaching, objectVars, Holding
<1>6. ObjectTypes'
  BY <1>2 DEF IInv, Types, ObjectTypes, objectVars
<1>7. Destroyed'
  <2>1. native = "open"
    BY <1>1 DEF CloseKnowsAt, Holding
  <2>2. QED
    BY <1>2, <1>3, <2>1 DEF IInv, CloseKnows, Destroyed, objectVars
<1>8. QED
  BY <1>1, <1>2, <1>3, <1>4, <1>5, <1>6, <1>7, UnderMutex, OutputAssumption

\* An operation ends, or detachFromClient goes on without opMu, or Close with it.
LEMMA AfterDetachStep ==
  ASSUME IInv, NEW u \in Callers, afterDetach(u)
  PROVE  IInv'
<1>1. /\ at[u] = "unbound" /\ opMu = u /\ AttachmentAt(u) /\ CloseKnowsAt(u)
  BY DEF afterDetach, IInv, Types, CallTypes, Holding, Attachment, CloseKnows
<1>2. /\ UNCHANGED <<state, snapshots, callback, bound, closed, native, attached, released,
                     frameVars, what, accepted, pending, running, phase>>
      /\ at'[u] \in {"out", "waitIdle", "destroying"} /\ Goes(u)
      /\ opMu' = (IF at'[u] \in Holding THEN u ELSE Free)
      /\ at'[u] = "destroying" => op[u] = "Close" /\ op'[u] = "Close"
  <2>1. CASE op[u] = "Detach"
    BY <1>1, <2>1 DEF afterDetach, Return, Goes, Place, Holding, mailboxVars, objectVars,
                      IInv, Types, CallTypes, Operations
  <2>2. CASE op[u] = "detachFromClient"
    BY <1>1, <2>2 DEF afterDetach, Step, Goes, Place, Holding, mailboxVars, objectVars,
                      IInv, Types, CallTypes, Operations
  <2>3. CASE op[u] = "Close"
    BY <1>1, <2>3 DEF afterDetach, Step, Goes, Place, Holding, ClosingSteps, mailboxVars,
                      objectVars, IInv, Types, CallTypes, Operations
  <2>4. QED
    BY <2>1, <2>2, <2>3 DEF afterDetach
<1>3. EventTypes' /\ Marks'
  BY <1>2, EventsLeft DEF IInv, Types, EventTypes
<1>4. /\ AttachmentAt(u)' /\ CloseKnowsAt(u)'
      /\ opMu' = Free => attached' = {bound'} \ {Unbound}
  BY <1>1, <1>2 DEF AttachmentAt, CloseKnowsAt, ClosingSteps, Detaching, Holding
<1>5. ObjectTypes' /\ Destroyed'
  BY <1>1, <1>2 DEF IInv, Types, ObjectTypes, CloseKnows, CloseKnowsAt, Destroyed, Holding
<1>6. QED
  BY <1>1, <1>2, <1>3, <1>4, <1>5, UnderMutex

\* Detaching or destroying fails: the output stays as it was, and a close is taken back.
LEMMA NativeFailsStep ==
  ASSUME IInv, NEW u \in Callers, nativeFails(u)
  PROVE  IInv'
<1>1. /\ at[u] \in {"detaching", "destroying"} /\ opMu = u
      /\ AttachmentAt(u) /\ CloseKnowsAt(u) /\ native = "open"
  BY DEF nativeFails, IInv, Types, CallTypes, Holding, Attachment, CloseKnows, CloseKnowsAt
<1>2. /\ UNCHANGED <<state, snapshots, callback, bound, closed, native, attached, released,
                     frameVars, what, accepted, pending, running>>
      /\ phase' \in {phase, "open"} /\ opMu' = Free
  BY DEF nativeFails, cancelClose, Mailbox!EndClose, mailboxVars, objectVars
<1>3. at'[u] = "out" /\ Goes(u)
  BY DEF nativeFails, Return, Goes, Place, IInv, Types, CallTypes, Operations
<1>4. EventTypes' /\ Marks'
  BY <1>2, EventsLeft DEF IInv, Types, EventTypes
<1>5. /\ AttachmentAt(u)' /\ CloseKnowsAt(u)' /\ attached' = {bound'} \ {Unbound}
  BY <1>1, <1>2, <1>3 DEF AttachmentAt, CloseKnowsAt, ClosingSteps, Detaching, Holding
<1>6. ObjectTypes' /\ Destroyed'
  BY <1>1, <1>2 DEF IInv, Types, ObjectTypes, CloseKnows, Destroyed
<1>7. at'[u] \notin Holding
  BY <1>3 DEF Holding
<1>8. QED
  BY <1>1, <1>2, <1>3, <1>4, <1>5, <1>6, <1>7, UnderMutex

\* A place under opMu tells the operation.
LEMMA WhoseStep ==
  ASSUME CallTypes, NEW u \in Callers, at[u] \in {"locked", "destroying", "destroyed"}
  PROVE  op[u] = "Close" /\ opMu = u
<1>1. op[u] \in Operations \cup {"none"} /\ Place(u) /\ opMu = u
  BY DEF CallTypes, Holding
<1>2. QED
  BY <1>1 DEF Place, Operations, Detaching

\* The close has looked at snapshots and handlers, and shuts the mailbox.
LEMMA BeginCloseStep ==
  ASSUME IInv, NEW u \in Callers, beginClose(u)
  PROVE  IInv'
<1>1. /\ at[u] = "locked" /\ opMu = u /\ op[u] = "Close" /\ AttachmentAt(u)
      /\ bound \in Connections \cup {Unbound}
  BY WhoseStep DEF beginClose, Step, IInv, Types, ObjectTypes, Attachment
<1>2. /\ UNCHANGED <<opMu, op, target, state, snapshots, callback, objectVars, dropped,
                     frame, frameNumber, lastFrame, accepted, running>>
      /\ at' = [at EXCEPT ![u] = at'[u]]
      /\ at'[u] = IF bound = Unbound THEN "destroying" ELSE "detaching"
      /\ phase = "open" /\ phase' = "closing" /\ pending' = {} /\ running = {}
      /\ snapshots = 0 /\ ~closed
      /\ cleared' = (cleared \/ Frames # {})
  BY DEF beginClose, Step, mayClose, Mailbox!BeginClose, Frames, IInv, Types, CallTypes
<1>3. what' \in [1 .. MaxEvents -> Callbacks]
  <2>1. Nothing \in Callbacks
    BY OutputAssumption DEF Nothing, Callback, Callbacks
  <2>2. QED
    BY <2>1 DEF beginClose, Forget, IInv, Types, EventTypes
<1>4. Frames' = {}
  BY <1>2 DEF Frames, Carrying
<1>5. EventTypes'
  BY <1>2, <1>3 DEF IInv, Types, EventTypes
<1>6. Marks'
  <2>1. \A n : IsLast(n) => Frames # {} \/ cleared \/ lastFrame = n
    BY DEF IsLast
  <2>2. /\ frame = "none" => dropped \/ cleared' \/ lastFrame = frameNumber
        /\ frame = "plain" => cleared' \/ lastFrame = frameNumber - 1
    BY <1>2, <2>1 DEF IInv, Marks
  <2>3. QED
    BY <1>2, <1>4, <2>2 DEF IInv, Marks, IsLast
<1>7. at'[u] \in Holding /\ Goes(u)
  <2>1. at'[u] \in Holding /\ Place(u)'
    BY <1>1, <1>2 DEF Place, ClosingSteps, Detaching, Holding
  <2>2. QED
    BY <1>1, <1>2, <2>1 DEF Goes, IInv, Types, CallTypes
<1>8. native = "open"
  BY <1>1, <1>2, StillOpen
<1>9. AttachmentAt(u)' /\ CloseKnowsAt(u)'
  BY <1>1, <1>2, <1>8 DEF AttachmentAt, CloseKnowsAt, objectVars
<1>10. ObjectTypes' /\ Destroyed'
  BY <1>2, <1>8 DEF IInv, Types, ObjectTypes, CloseKnows, Destroyed, objectVars
<1>11. opMu' # Free /\ at'[u] # "snapshot"
  BY <1>1, <1>2, OutputAssumption
<1>12. QED
  BY <1>1, <1>2, <1>5, <1>6, <1>7, <1>9, <1>10, <1>11, UnderMutex

\* Another close came first, or a snapshot or a handler: nothing has happened.
LEMMA BeginCloseRefusedStep ==
  ASSUME IInv, NEW u \in Callers, beginCloseRefused(u)
  PROVE  IInv'
<1>1. at[u] = "locked" /\ opMu = u /\ AttachmentAt(u)
  BY DEF beginCloseRefused, IInv, Types, CallTypes, Holding, Attachment
<1>2. /\ UNCHANGED <<state, snapshots, callback, bound, closed, native, attached, released,
                     frameVars, what, accepted, pending, running, phase>>
      /\ opMu' = Free
  BY DEF beginCloseRefused, mailboxVars, objectVars
<1>3. at'[u] = "out" /\ Goes(u)
  BY DEF beginCloseRefused, Return, Goes, Place, IInv, Types, CallTypes, Operations
<1>4. EventTypes' /\ Marks'
  BY <1>2, EventsLeft DEF IInv, Types, EventTypes
<1>5. native = "open" \/ closed
  BY <1>1, StillOpen
<1>6. /\ AttachmentAt(u)' /\ CloseKnowsAt(u)' /\ attached' = {bound'} \ {Unbound}
  BY <1>1, <1>2, <1>3 DEF AttachmentAt, CloseKnowsAt, ClosingSteps, Detaching, Holding
<1>7. ObjectTypes' /\ Destroyed'
  BY <1>2, <1>5 DEF IInv, Types, ObjectTypes, CloseKnows, Destroyed, frameVars
<1>8. at'[u] \notin Holding
  BY <1>3 DEF Holding
<1>9. QED
  BY <1>1, <1>2, <1>3, <1>4, <1>6, <1>7, <1>8, UnderMutex

\* Native destroys the output; the close then says so.
LEMMA DestroyStep ==
  ASSUME IInv, NEW u \in Callers, destroy(u) \/ finishClose(u)
  PROVE  IInv'
<1>1. /\ at[u] \in {"destroying", "destroyed"} /\ opMu = u /\ op[u] = "Close"
      /\ bound = Unbound /\ attached = {} /\ phase = "closing" /\ snapshots = 0
      /\ pending = {} /\ running = {}
      /\ at[u] = "destroyed" => native = "closed"
  <2>1. at[u] \in {"destroying", "destroyed"}
    BY DEF destroy, finishClose, Step
  <2>2. QED
    BY <2>1, WhoseStep DEF IInv, Types, Attachment, AttachmentAt, CloseKnows, CloseKnowsAt,
                           Destroyed, ClosingSteps
<1>2. /\ UNCHANGED <<state, snapshots, callback, bound, attached, released, frameVars, what,
                     accepted, pending, running>>
      /\ native' = "closed" /\ callback = "none" /\ frame = "none"
      /\ \/ /\ at'[u] = "destroyed" /\ op'[u] = "Close" /\ opMu' = u
            /\ UNCHANGED <<phase, closed>>
         \/ at'[u] = "out" /\ opMu' = Free /\ phase' = "closed" /\ closed' = TRUE
      /\ Goes(u)
  <2>1. CASE destroy(u)
    BY <1>1, <2>1 DEF destroy, Step, Goes, Place, Holding, ClosingSteps, mailboxVars,
                      IInv, Types, CallTypes, Operations
  <2>2. CASE finishClose(u)
    BY <1>1, <2>2 DEF finishClose, Mailbox!EndClose, Return, Goes, Place, IInv, Types,
                      CallTypes, Operations, CloseKnows, Destroyed
  <2>3. QED
    BY <2>1, <2>2
<1>3. EventTypes' /\ Marks'
  BY <1>1, <1>2, EventsLeft
<1>4. AttachmentAt(u)' /\ CloseKnowsAt(u)' /\ attached' = {bound'} \ {Unbound}
  BY <1>1, <1>2 DEF AttachmentAt, CloseKnowsAt, Holding, ClosingSteps, Detaching
<1>5. ObjectTypes' /\ Destroyed'
  BY <1>1, <1>2 DEF IInv, Types, ObjectTypes, Destroyed, frameVars
<1>6. opMu' = (IF at'[u] \in Holding THEN u ELSE Free) /\ at'[u] # "snapshot"
  BY <1>2 DEF Holding
<1>7. QED
  BY <1>1, <1>2, <1>3, <1>4, <1>5, <1>6, UnderMutex

LEMMA OperateStep ==
  ASSUME IInv, NEW u \in Callers, Operate(u)
  PROVE  IInv'
BY EnterStep, OutsideStep, SnapshotStep, AttachStep, DetachStep, PostIdleStep,
   AfterDetachStep, BeginCloseStep, BeginCloseRefusedStep, DestroyStep, NativeFailsStep
   DEF Operate, Detach, Close

-----------------------------------------------------------------------------
LEMMA InitHolds == Init => IInv
<1> SUFFICES ASSUME Init PROVE IInv
  OBVIOUS
<1> USE OutputAssumption
<1>1. /\ opMu = Free /\ bound = Unbound /\ attached = {} /\ native = "open"
      /\ closed = FALSE /\ frame = "none" /\ frameNumber = 0 /\ lastFrame = 0
      /\ pending = {} /\ running = {} /\ phase = "open" /\ accepted = 0
  BY DEF Init, Mailbox!Init
<1>2. \A u \in Callers : op[u] = "none" /\ at[u] = "out"
  BY DEF Init
<1>3. CallTypes
  BY <1>1, <1>2 DEF Init, CallTypes, Place, Holding
<1>4. ObjectTypes
  BY DEF Init, ObjectTypes
<1>5. EventTypes
  <2>1. Nothing \in Callbacks
    BY DEF Nothing, Callback, Callbacks
  <2>2. what \in [1 .. MaxEvents -> Callbacks]
    BY <2>1 DEF Init
  <2>3. dropped = FALSE /\ cleared = FALSE
    BY DEF Init
  <2>4. frameNumber \in 0 .. MaxFrames /\ lastFrame \in 0 .. frameNumber
        /\ accepted \in 0 .. MaxEvents /\ pending \subseteq 1 .. accepted
    BY <1>1
  <2>5. QED
    BY <1>1, <2>2, <2>3, <2>4 DEF EventTypes
<1>6. Snapshots /\ Attachment /\ CloseKnows
  BY <1>1, <1>2 DEF Snapshots, Attachment, AttachmentAt, CloseKnows, CloseKnowsAt, Destroyed,
                    ClosingSteps, Detaching, Holding
<1>7. Marks
  BY <1>1 DEF Marks, IsLast, Frames, Carrying
<1>8. QED
  BY <1>3, <1>4, <1>5, <1>6, <1>7 DEF IInv, Types

LEMMA InvariantStep == IInv /\ [Next]_vars => IInv'
<1> SUFFICES ASSUME IInv, [Next]_vars PROVE IInv'
  OBVIOUS
<1>1. ASSUME NEW u \in Callers,
             (\E name \in Operations : call(u, name)) \/ preflightClose(u) \/ Operate(u)
      PROVE  IInv'
  BY <1>1, OutsideStep, OperateStep
<1>2. CASE \/ \E s \in {"Idle", "Delivering"} : OnState(s)
           \/ OnError \/ \E skip \in {0, 1} : OnFrame(skip)
  BY <1>2, DeliveryStep, PostStep
<1>3. CASE Deliver
  BY <1>3, PostStep, PostFrameStep DEF Deliver
<1>4. CASE Handle \/ \E c \in Connections : connectionCloses(c)
  BY <1>4, StartStep, ElsewhereStep DEF Handle
<1>5. CASE UNCHANGED vars
  <2>1. /\ UNCHANGED <<opMu, callVars, snapshots, bound, closed, native, attached, released,
                       state, callback, frameVars, what, accepted, pending, running, phase>>
    BY <1>5 DEF vars, objectVars, mailboxVars
  <2>2. EventTypes' /\ Marks'
    BY <2>1, EventsLeft DEF IInv, Types, EventTypes
  <2>3. ObjectTypes' /\ Destroyed'
    BY <2>1 DEF IInv, Types, ObjectTypes, CloseKnows, Destroyed, callVars, frameVars
  <2>4. QED
    BY <2>1, <2>2, <2>3, CallsLeft
<1>6. QED
  BY <1>1, <1>2, <1>3, <1>4, <1>5 DEF Next

LEMMA InvariantHolds == Spec => []IInv
BY InitHolds, InvariantStep, PTL DEF Spec

\* o.opMu is held by the caller that is between two steps under it, and by no
\* other (output.go: Attach, Detach, Close, TakeSnapshot).
THEOREM OutputTypes == Spec => []TypeOK
<1>1. IInv => TypeOK
  BY DEF IInv, Types, CallTypes, ObjectTypes, EventTypes, TypeOK
<1>2. QED
  BY <1>1, InvariantHolds, PTL

\* The native output is destroyed when nothing uses it any more, whatever began
\* between the looks of Close (output.go:413-466).
THEOREM DestroyedIsUnused == Spec => []NothingUsesDestroyed
<1>1. IInv => NothingUsesDestroyed
  BY DEF IInv, CloseKnows, Destroyed, NothingUsesDestroyed
<1>2. QED
  BY <1>1, InvariantHolds, PTL

\* Only startHandler starts handlers.
LEMMA OnlyHandlersStart ==
  ASSUME Next, NEW e \in running' \ running
  PROVE  startHandler(e) /\ e \in pending
<1>1. ASSUME NEW u \in Callers PROVE /\ ~(\E name \in Operations : call(u, name))
                                     /\ ~preflightClose(u) /\ ~Operate(u)
  BY DEF call, preflightClose, Operate, enter, refused, beginSnapshot, endSnapshot, Attach,
         attach, attachFails, bind, Detach, detach, unbind, postIdle, afterDetach, postLatest,
         Supersede, Accept, Mailbox!Accept, Close, beginClose, Mailbox!BeginClose,
         beginCloseRefused, destroy, finishClose, nativeFails, cancelClose, Mailbox!EndClose,
         waitIdle, mailboxVars
<1>2. /\ ~(\E s \in {"Idle", "Delivering"} : OnState(s)) /\ ~OnError
      /\ ~(\E skip \in {0, 1} : OnFrame(skip)) /\ ~Deliver
      /\ ~endHandler /\ ~(\E c \in Connections : connectionCloses(c))
  BY DEF OnState, OnError, OnFrame, Deliver, postState, postFrame, postLatest, Supersede,
         Enqueue, Accept, Mailbox!Accept, endHandler, Mailbox!Return, connectionCloses,
         mailboxVars
<1>3. PICK f \in pending : startHandler(f)
  BY <1>1, <1>2 DEF Next, Handle
<1>4. f = e
  BY <1>3 DEF startHandler, Mailbox!Start
<1>5. QED
  BY <1>3, <1>4

\* When frames are missing between two that the application is given, the second
\* is marked, unless a close that failed has dropped some (output.go:66-73, 278-286).
THEOREM GapsMarkedCorrect == Spec => GapsMarked
<1> DEFINE Marked == \A e \in running' \ running :
                       what[e].kind = "frame" => \/ what[e].frame = lastFrame + 1
                                                 \/ what[e].marked
                                                 \/ cleared
<1>1. IInv /\ [Next]_vars => [Marked]_vars
  <2> SUFFICES ASSUME IInv, Next, NEW e \in running' \ running, what[e].kind = "frame"
               PROVE  what[e].frame = lastFrame + 1 \/ what[e].marked \/ cleared
    OBVIOUS
  <2>1. IsNext(e) /\ e \in Frames
    BY OnlyHandlersStart DEF startHandler, Frames, Carrying
  <2>2. \A f \in Frames : e <= f /\ f \in Nat /\ e \in Nat
    BY <2>1, OutputAssumption
       DEF IsNext, Frames, Carrying, IInv, Types, EventTypes
  <2>3. Follows(e) /\ ~(\E f \in Frames : f < e)
    BY <2>1, <2>2 DEF IInv, Marks
  <2>4. QED
    BY <2>3 DEF Follows
<1>2. QED
  BY <1>1, InvariantHolds, PTL DEF Spec, GapsMarked

-----------------------------------------------------------------------------
(* The rules of ownership *)

liveObjects == connectionsOf(Connections \ released)
                 \cup (IF native = "open" THEN {theOutput} ELSE {})
goneObjects == connectionsOf(released) \cup (IF native = "open" THEN {} ELSE {theOutput})
attachments == {theOutput} \X connectionsOf(attached)

LEMMA Names ==
  /\ \A c : <<"connection", c>> # theOutput
  /\ \A S : theOutput \notin connectionsOf(S)
  /\ \A c, S : <<"connection", c>> \in connectionsOf(S) <=> c \in S
BY DEF theOutput, connectionsOf

\* Steps that the mapping does not see.
LEMMA Unseen ==
  ASSUME UNCHANGED <<attached, released, native>>
  PROVE  UNCHANGED Own!vars
BY DEF Own!vars, connectionsOf

LEMMA AttachesOwned ==
  ASSUME IInv, NEW u \in Callers, attach(u)
  PROVE  Own!Next
<1> DEFINE connection == <<"connection", target[u]>>
<1>1. op[u] \in Operations \cup {"none"} /\ Place(u) /\ at[u] = "attaching"
  BY DEF attach, Step, IInv, Types, CallTypes
<1>2. target[u] \in Connections
  BY <1>1 DEF Place, Operations, Detaching, ClosingSteps
<1>3. /\ target[u] \in Connections \ released /\ attached = {} /\ native = "open"
      /\ attached' = {target[u]} /\ UNCHANGED <<released, native>>
  BY <1>1, <1>2
     DEF attach, IInv, Attachment, AttachmentAt, CloseKnows, CloseKnowsAt, Holding
<1>4. {theOutput, connection} \subseteq liveObjects
  BY <1>3, Names DEF liveObjects
<1>5. attachments = {} /\ attachments' = {<<theOutput, connection>>}
  BY <1>3 DEF attachments, connectionsOf
<1>6. UNCHANGED <<liveObjects, goneObjects>>
  BY <1>3 DEF liveObjects, goneObjects, connectionsOf
<1>7. Own!Attach(theOutput, connection)
  BY <1>4, <1>5, <1>6 DEF Own!Attach, liveObjects, goneObjects, attachments
<1>8. QED
  BY <1>4, <1>7 DEF Own!Next, liveObjects

LEMMA DetachesOwned ==
  ASSUME IInv, NEW u \in Callers, detach(u)
  PROVE  Own!Next
<1> DEFINE use == <<theOutput, <<"connection", bound>>>>
<1>1. /\ attached = {bound} /\ attached' = {} /\ UNCHANGED <<released, native>>
  BY DEF detach, Step, IInv, Attachment, AttachmentAt
<1>2. attachments = {use} /\ attachments' = {}
  BY <1>1 DEF attachments, connectionsOf
<1>3. UNCHANGED <<liveObjects, goneObjects>>
  BY <1>1 DEF liveObjects, goneObjects, connectionsOf
<1>4. Own!Detach(use)
  BY <1>2, <1>3 DEF Own!Detach, liveObjects, goneObjects, attachments
<1>5. QED
  BY <1>2, <1>4 DEF Own!Next, attachments

LEMMA DestroysOwned ==
  ASSUME IInv, NEW u \in Callers, destroy(u)
  PROVE  Own!Next
<1>1. /\ attached = {} /\ native = "open" /\ native' = "closed"
      /\ UNCHANGED <<attached, released>>
  BY DEF destroy, Step, IInv, Attachment, AttachmentAt, CloseKnows, CloseKnowsAt, Holding
<1>2. attachments = {} /\ attachments' = {}
  BY <1>1 DEF attachments, connectionsOf
<1>3. theOutput \in liveObjects
  BY <1>1 DEF liveObjects
<1>4. liveObjects' = liveObjects \ {theOutput} /\ goneObjects' = goneObjects \cup {theOutput}
  BY <1>1, Names DEF liveObjects, goneObjects, connectionsOf
<1>5. Own!Destroy(theOutput)
  BY <1>2, <1>3, <1>4 DEF Own!Destroy, liveObjects, goneObjects, attachments
<1>6. QED
  BY <1>5 DEF Own!Next

LEMMA ConnectionGoes ==
  ASSUME NEW c \in Connections, connectionCloses(c)
  PROVE  Own!Next
<1> DEFINE connection == <<"connection", c>>
<1>1. /\ c \in Connections \ released /\ c \notin attached
      /\ released' = released \cup {c} /\ UNCHANGED <<attached, native>>
  BY DEF connectionCloses
<1>2. connection \in liveObjects
  BY <1>1, Names DEF liveObjects
<1>3. \A use \in attachments : use[1] # connection /\ use[2] # connection
  BY <1>1, Names DEF attachments, connectionsOf
<1>4. liveObjects' = liveObjects \ {connection} /\ goneObjects' = goneObjects \cup {connection}
  <2>1. /\ connectionsOf(Connections \ released)'
             = connectionsOf(Connections \ released) \ {connection}
        /\ connectionsOf(released)' = connectionsOf(released) \cup {connection}
    BY <1>1 DEF connectionsOf
  <2>2. QED
    BY <1>1, <2>1, Names DEF liveObjects, goneObjects
<1>5. attachments' = attachments
  BY <1>1 DEF attachments, connectionsOf
<1>6. Own!Destroy(connection)
  BY <1>2, <1>3, <1>4, <1>5 DEF Own!Destroy, liveObjects, goneObjects, attachments
<1>7. connection \in connectionsOf(Connections)
  BY Names
<1>8. QED
  BY <1>6, <1>7 DEF Own!Next

LEMMA OwnershipStep == IInv /\ [Next]_vars => [Own!Next]_Own!vars
<1> SUFFICES ASSUME IInv, [Next]_vars PROVE Own!Next \/ UNCHANGED Own!vars
  OBVIOUS
<1> DEFINE Out == UNCHANGED <<attached, released, native>>
<1>1. ASSUME NEW u \in Callers, Operate(u) PROVE Own!Next \/ Out
  <2>1. CASE attach(u)
    BY <2>1, AttachesOwned
  <2>2. CASE detach(u)
    BY <2>2, DetachesOwned
  <2>3. CASE destroy(u)
    BY <2>3, DestroysOwned
  <2>4. CASE \/ enter(u) \/ refused(u) \/ beginSnapshot(u) \/ endSnapshot(u)
             \/ nativeFails(u) \/ waitIdle(u)
    BY <2>4 DEF enter, refused, beginSnapshot, endSnapshot, nativeFails, waitIdle, objectVars
  <2>5. CASE attachFails(u) \/ bind(u)
    BY <2>5 DEF attachFails, bind, objectVars
  <2>6. CASE unbind(u) \/ postIdle(u) \/ afterDetach(u)
    BY <2>6 DEF unbind, postIdle, afterDetach, objectVars
  <2>7. CASE beginClose(u) \/ beginCloseRefused(u) \/ finishClose(u)
    BY <2>7 DEF beginClose, beginCloseRefused, finishClose, objectVars
  <2>8. QED
    BY <1>1, <2>1, <2>2, <2>3, <2>4, <2>5, <2>6, <2>7 DEF Operate, Attach, Detach, Close
<1>2. ASSUME NEW u \in Callers,
             (\E name \in Operations : call(u, name)) \/ preflightClose(u)
      PROVE  Out
  BY <1>2 DEF call, preflightClose, objectVars
<1>3. ASSUME \/ \E s \in {"Idle", "Delivering"} : OnState(s)
             \/ OnError \/ \E skip \in {0, 1} : OnFrame(skip)
             \/ Deliver \/ Handle
      PROVE  Out
  BY <1>3 DEF OnState, OnError, OnFrame, Deliver, postState, postFrame, Handle,
              startHandler, endHandler, objectVars
<1>4. CASE UNCHANGED vars
  BY <1>4, Unseen DEF vars, objectVars
<1>5. ASSUME Out PROVE UNCHANGED Own!vars
  BY <1>5, Unseen
<1>6. QED
  BY <1>1, <1>2, <1>3, <1>4, <1>5, ConnectionGoes DEF Next

\* Where the output is a dependency follows the rules of ownership, however Attach,
\* Detach, Close and the detach of a stop request overlap (output.go:293-466).
THEOREM OutputOwns == Spec => ImplementsOwnership
<1>1. Init => Own!Init
  BY Names DEF Init, Own!Init, connectionsOf
<1>2. IInv /\ [Next]_vars => [Own!Next]_Own!vars
  BY OwnershipStep
<1>3. QED
  BY <1>1, <1>2, InvariantHolds, PTL DEF Spec, ImplementsOwnership, Own!Spec
=============================================================================
