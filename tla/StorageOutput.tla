---------------------------- MODULE StorageOutput ----------------------------
(***************************************************************************)
(* A cloud storage output (storage/output.go) that several replays share:  *)
(* Attach, Detach, TakeSnapshot, Close, the client's detachFromClient, and *)
(* the state, error and frame callbacks of native.  The module is          *)
(* VideoOutput; the three others are the same code without snapshots.      *)
(*                                                                         *)
(* An operation asks for the replay's gate, then for the output's (o.op),  *)
(* and holds them over its native call; o.mu guards single steps.  What    *)
(* native reports does not ask for a gate.  The queue is reduced to the    *)
(* lanes the output uses (postCritical and post; see CallbackQueue).  Left *)
(* out: channels, nil handlers, the content of frames, and handlers of the *)
(* replay, which only try its gate (see Replay).                           *)
(***************************************************************************)
EXTENDS Naturals, Sequences

CONSTANTS Replays,
          Users,      \* goroutines that use the output
          Capacity,   \* callbackQueueCapacity
          MaxEvents   \* bound on calls and native callbacks; none in the code

Worker == "worker"    \* the goroutine of the output's queue, in a handler
Actors == Users \cup {Worker}
Free == "free"
Unbound == "unbound"

ASSUME StorageOutputAssumption == /\ Capacity \in Nat \ {0}
                                  /\ MaxEvents \in Nat
                                  /\ Free \notin Users
                                  /\ Unbound \notin Replays

Terminal == {"Completed", "Failed"}
\* Buffering and Paused are like Delivering.
NativeStates == Terminal \cup {"Idle", "Delivering"}
Operations == {"Attach", "Detach", "TakeSnapshot", "Close", "detachFromClient"}

VARIABLES gate,         \* the actor that holds each replay's op, or Free
          op,           \* the actor that holds o.op, or Free
          bound,        \* o.bound
          attached,     \* the replay native has the output attached to
          deps,         \* the replays that have it in r.deps
          released,     \* the replays that are closed
          closed,       \* o.closed
          native,       \* the native output: "open" or "closed"
          state, dropped,
          terminalSlot, errorSlot, latestSlot,  \* q.critical
          frames,       \* q.events
          shut,         \* q.closed
          handling,     \* the queue's goroutine is in a handler
          callback,     \* the state that OnState has set and not yet posted
          frame,        \* the mark of the frame in OnFrame, or "none"
          frameNumber,  \* number of the frame native delivered last
          told,         \* history: the state the application was told last
          overtaken,    \* history: an older notification comes after it
          shown,        \* history: number of the frame it was given last
          job, at, target,  \* operation, place in it and replay of each actor
          happened      \* calls and native callbacks so far

gates == <<gate, op>>
bindings == <<bound, attached, deps, released>>
objectVars == <<closed, native, state, dropped>>
queueVars == <<terminalSlot, errorSlot, latestSlot, frames, shut, handling>>
callbackVars == <<callback, frame, frameNumber>>
historyVars == <<told, overtaken, shown>>
callVars == <<job, at, target, happened>>
vars == <<gates, bindings, objectVars, queueVars, callbackVars, historyVars,
          callVars>>

Init == /\ gate = [r \in Replays |-> Free] /\ op = Free
        /\ bound = Unbound /\ attached = Unbound
        /\ deps = {} /\ released = {}
        /\ closed = FALSE /\ native = "open"
        /\ state = "Idle" /\ dropped = FALSE
        /\ terminalSlot = "none" /\ errorSlot = FALSE /\ latestSlot = "none"
        /\ frames = <<>> /\ shut = FALSE /\ handling = FALSE
        /\ callback = "none" /\ frame = "none"
        /\ frameNumber = 0
        /\ told = "Idle" /\ overtaken = FALSE /\ shown = 0
        /\ job = [a \in Actors |-> "none"] /\ at = [a \in Actors |-> "out"]
        /\ target = [a \in Actors |-> Unbound]
        /\ happened = 0

HasEvents == \/ terminalSlot # "none" \/ errorSlot \/ latestSlot # "none"
             \/ frames # <<>>
Idle == ~handling /\ ~HasEvents

-----------------------------------------------------------------------------
(* Calls *)

Counted == happened < MaxEvents /\ happened' = happened + 1

At(a, jobs, place) == job[a] \in jobs /\ at[a] = place

GoTo(a, place) == /\ at' = [at EXCEPT ![a] = place]
                  /\ UNCHANGED <<job, target, happened>>

Return(a) == /\ job' = [job EXCEPT ![a] = "none"]
             /\ at' = [at EXCEPT ![a] = "out"]
             /\ target' = [target EXCEPT ![a] = Unbound]
             /\ UNCHANGED happened

\* Mutant: only the replay's gate is left.
keepsOp(a) == /\ gate' = [r \in Replays |-> IF gate[r] = a THEN Free ELSE gate[r]]
              /\ UNCHANGED op

Leave(a) == /\ gate' = [r \in Replays |-> IF gate[r] = a THEN Free ELSE gate[r]]
            /\ op' = IF op = a THEN Free ELSE op

\* Where Close and the client's detachFromClient begin, which refuse while a
\* callback waits or runs: Client.Close asks that of all its outputs first.
Start(name) == IF name \in {"Close", "detachFromClient"} THEN "preflight" ELSE "start"

call(a, name) ==
  /\ a = Worker => handling /\ name # "detachFromClient"
  /\ job[a] = "none"
  /\ Counted
  /\ job' = [job EXCEPT ![a] = name]
  /\ at' = [at EXCEPT ![a] = Start(name)]
  /\ \E r \in IF name = "Attach" THEN Replays ELSE {Unbound} :
       target' = [target EXCEPT ![a] = r]
  /\ UNCHANGED <<gates, bindings, objectVars, queueVars, callbackVars, historyVars>>

\* Close then looks whether there is something to detach.
preflight(a) ==
  /\ at[a] = "preflight"
  /\ \/ ~Idle /\ Return(a)
     \/ Idle /\ GoTo(a, IF job[a] = "Close" THEN "look" ELSE "start")
  /\ UNCHANGED <<gates, bindings, objectVars, queueVars, callbackVars, historyVars>>

lookClose(a) ==
  /\ at[a] = "look"
  /\ GoTo(a, IF bound = Unbound THEN "closing" ELSE "start")
  /\ UNCHANGED <<gates, bindings, objectVars, queueVars, callbackVars, historyVars>>

Detaching == {"Detach", "Close", "detachFromClient"}

\* What a Detach that found nothing to do leads to.
DetachRefused(a) == IF job[a] = "detachFromClient" THEN GoTo(a, "waitIdle")
                                                  ELSE Return(a)

\* Detach looks at o.bound before it has a gate, to know which one to ask for.
lookBound(a) ==
  /\ At(a, Detaching, "start")
  /\ \/ /\ closed \/ bound = Unbound
        /\ DetachRefused(a)
     \/ /\ ~closed /\ bound # Unbound
        /\ at' = [at EXCEPT ![a] = "looked"]
        /\ target' = [target EXCEPT ![a] = bound]
        /\ UNCHANGED <<job, happened>>
  /\ UNCHANGED <<gates, bindings, objectVars, queueVars, callbackVars, historyVars>>

enterNative(a) ==
  /\ At(a, {"Attach"}, "start") \/ At(a, Detaching, "looked")
  /\ gate[target[a]] = Free
  /\ gate' = [gate EXCEPT ![target[a]] = a]
  /\ GoTo(a, "gated")
  /\ UNCHANGED <<op, bindings, objectVars, queueVars, callbackVars, historyVars>>

-----------------------------------------------------------------------------
(* Attach *)

\* Mutant: nobody looks whether the replay is closed.
attachesAnyway(a) == ~closed /\ bound = Unbound

mayAttach(a) == ~closed /\ bound = Unbound /\ target[a] \notin released

beginAttach(a) ==
  /\ At(a, {"Attach"}, "gated")
  /\ op = Free
  /\ \/ ~mayAttach(a) /\ Leave(a) /\ Return(a)
     \/ mayAttach(a) /\ op' = a /\ GoTo(a, "attaching") /\ UNCHANGED gate
  /\ UNCHANGED <<bindings, objectVars, queueVars, callbackVars, historyVars>>

nativeAttach(a) ==
  /\ at[a] = "attaching"
  /\ attached' = target[a]
  /\ GoTo(a, "attached")
  /\ UNCHANGED <<gates, bound, deps, released, objectVars, queueVars,
                 callbackVars, historyVars>>

\* o.bound and r.deps, one after the other: who reads r.deps has the gate.
bind(a) ==
  /\ at[a] = "attached"
  /\ bound' = target[a]
  /\ deps' = deps \cup {target[a]}
  /\ Leave(a)
  /\ Return(a)
  /\ UNCHANGED <<attached, released, objectVars, queueVars, callbackVars,
                 historyVars>>

-----------------------------------------------------------------------------
(* Detach, alone, in a Close or for the client *)

\* Mutant: what was seen before the gates is not looked at again.
stillAttached(a) == ~closed /\ bound # Unbound

mayDetach(a) == ~closed /\ bound = target[a]

beginDetach(a) ==
  /\ At(a, Detaching, "gated")
  /\ op = Free
  /\ \/ ~mayDetach(a) /\ Leave(a) /\ DetachRefused(a)
     \/ mayDetach(a) /\ op' = a /\ GoTo(a, "detaching") /\ UNCHANGED gate
  /\ UNCHANGED <<bindings, objectVars, queueVars, callbackVars, historyVars>>

nativeDetach(a) ==
  /\ at[a] = "detaching"
  /\ attached' = Unbound
  /\ GoTo(a, "detached")
  /\ UNCHANGED <<gates, bound, deps, released, objectVars, queueVars,
                 callbackVars, historyVars>>

\* Attach, detach, snapshot or destruction fails: an error for the caller.
nativeFails(a) ==
  /\ at[a] \in {"attaching", "detaching", "destroying"}
  /\ Leave(a)
  /\ Return(a)
  /\ UNCHANGED <<bindings, objectVars, queueVars, callbackVars, historyVars>>

\* The first frame after the next Attach does not follow the last one.
unbind(a) ==
  /\ at[a] = "detached"
  /\ bound' = Unbound
  /\ dropped' = TRUE
  /\ deps' = deps \ {target[a]}
  /\ Leave(a)
  /\ GoTo(a, "left")
  /\ UNCHANGED <<attached, released, closed, native, state, queueVars,
                 callbackVars, historyVars>>

\* Where the operation goes on after Detach.
AfterDetach(a) == \/ job[a] = "Detach" /\ Return(a)
                  \/ job[a] = "Close" /\ GoTo(a, "closing")
                  \/ job[a] = "detachFromClient" /\ GoTo(a, "waitIdle")

\* The state changes when the gates are left.
setIdle(a) ==
  /\ at[a] = "left"
  /\ \/ state = "Idle" /\ AfterDetach(a)
     \/ state # "Idle" /\ GoTo(a, "notifying")
  /\ state' = "Idle"
  /\ UNCHANGED <<gates, bindings, closed, native, dropped, queueVars,
                 callbackVars, historyVars>>

-----------------------------------------------------------------------------
(* Notifications *)

postOutputError ==
  /\ errorSlot' = (errorSlot \/ ~shut)
  /\ UNCHANGED <<terminalSlot, latestSlot, frames, shut, handling>>

\* Mutant: the latest-state slot keeps the first notification, as the others do.
keepsFirst(s) == /\ latestSlot' = IF shut \/ latestSlot # "none" THEN latestSlot ELSE s
                 /\ UNCHANGED terminalSlot

replacesLatest(s) == /\ latestSlot' = IF shut THEN latestSlot ELSE s
                     /\ UNCHANGED terminalSlot

keepsTerminal(s) ==
  /\ terminalSlot' = IF shut \/ terminalSlot # "none" THEN terminalSlot ELSE s
  /\ UNCHANGED latestSlot

\* A notification that will not be the last one the application gets: the state
\* has changed meanwhile, or it goes before an older one, or instead of it.
Overtaken(s) == \/ s # state
                \/ s \in Terminal /\ \/ latestSlot # "none"
                                     \/ terminalSlot \notin {"none", s}

postOutputState(s) ==
  /\ \/ s \in Terminal /\ keepsTerminal(s)
     \/ s \notin Terminal /\ replacesLatest(s)
  /\ overtaken' = Overtaken(s)
  /\ UNCHANGED <<errorSlot, frames, shut, handling, told, shown>>

postIdle(a) ==
  /\ at[a] = "notifying"
  /\ postOutputState("Idle")
  /\ AfterDetach(a)
  /\ UNCHANGED <<gates, bindings, objectVars, callbackVars>>

Delivering == native = "open" /\ attached # Unbound

\* setState in OnState; a repeated state ends there.
OnState(s) ==
  /\ Delivering
  /\ callback = "none"
  /\ s # state
  /\ state' = s
  /\ callback' = s
  /\ Counted
  /\ UNCHANGED <<gates, bindings, closed, native, dropped, queueVars, frame,
                 frameNumber, historyVars, job, at, target>>

postState ==
  /\ callback # "none"
  /\ callback' = "none"
  /\ postOutputState(callback)
  /\ UNCHANGED <<gates, bindings, objectVars, frame, frameNumber, callVars>>

OnError ==
  /\ Delivering
  /\ postOutputError
  /\ Counted
  /\ UNCHANGED <<gates, bindings, objectVars, callback, frame, frameNumber,
                 historyVars, job, at, target>>

-----------------------------------------------------------------------------
(* Frames *)

\* The callback takes the mark left by a dropped frame or a Detach.  Native sets
\* Discontinuity itself when it leaves out a frame.
discontinuity(value) == /\ frame' = IF value \/ dropped THEN "marked" ELSE "plain"
                        /\ dropped' = FALSE

OnFrame(skip) ==
  /\ Delivering
  /\ frame = "none"
  /\ Counted
  /\ frameNumber' = frameNumber + skip + 1
  /\ discontinuity(skip > 0)
  /\ UNCHANGED <<gates, bindings, closed, native, state, queueVars, callback,
                 historyVars, job, at, target>>

\* Mutant: a frame that is dropped leaves no mark.
forgetDropped == UNCHANGED dropped

markDropped == dropped' = TRUE

postFrame ==
  /\ frame # "none"
  /\ frame' = "none"
  /\ \/ /\ ~shut /\ Len(frames) < Capacity
        /\ frames' = Append(frames, [number |-> frameNumber,
                                     marked |-> frame = "marked"])
        /\ UNCHANGED dropped
     \/ /\ shut \/ Len(frames) = Capacity
        /\ markDropped
        /\ UNCHANGED frames
  /\ UNCHANGED <<gates, bindings, closed, native, state, terminalSlot, errorSlot,
                 latestSlot, shut, handling, callback, frameNumber,
                 historyVars, callVars>>

-----------------------------------------------------------------------------
(* Handlers: critical slots in their order, then frames *)

tell(s) == told' = s /\ UNCHANGED <<overtaken, shown>>

runTerminal ==
  /\ terminalSlot # "none"
  /\ terminalSlot' = "none"
  /\ tell(terminalSlot)
  /\ UNCHANGED <<errorSlot, latestSlot, frames>>

runError ==
  /\ terminalSlot = "none" /\ errorSlot
  /\ errorSlot' = FALSE
  /\ UNCHANGED <<terminalSlot, latestSlot, frames, historyVars>>

runLatest ==
  /\ terminalSlot = "none" /\ ~errorSlot /\ latestSlot # "none"
  /\ latestSlot' = "none"
  /\ tell(latestSlot)
  /\ UNCHANGED <<terminalSlot, errorSlot, frames>>

runFrame ==
  /\ terminalSlot = "none" /\ ~errorSlot /\ latestSlot = "none" /\ frames # <<>>
  /\ frames' = Tail(frames)
  /\ shown' = Head(frames).number
  /\ UNCHANGED <<terminalSlot, errorSlot, latestSlot, told, overtaken>>

run == /\ ~handling
       /\ handling' = TRUE
       /\ runTerminal \/ runError \/ runLatest \/ runFrame
       /\ UNCHANGED <<gates, bindings, objectVars, shut, callbackVars, callVars>>

handlerReturns ==
  /\ handling /\ job[Worker] = "none"
  /\ handling' = FALSE
  /\ UNCHANGED <<gates, bindings, objectVars, terminalSlot, errorSlot, latestSlot,
                 frames, shut, callbackVars, historyVars, callVars>>

-----------------------------------------------------------------------------
(* TakeSnapshot and Close *)

beginSnapshot(a) ==
  /\ At(a, {"TakeSnapshot"}, "start")
  /\ op = Free
  /\ \/ closed /\ Return(a) /\ UNCHANGED op
     \/ ~closed /\ op' = a /\ GoTo(a, "snapshot")
  /\ UNCHANGED <<gate, bindings, objectVars, queueVars, callbackVars, historyVars>>

endSnapshot(a) ==
  /\ at[a] = "snapshot"
  /\ Leave(a)
  /\ Return(a)
  /\ UNCHANGED <<bindings, objectVars, queueVars, callbackVars, historyVars>>

preclose == ~closed /\ bound = Unbound /\ Idle

beginClose(a) ==
  /\ at[a] = "closing"
  /\ op = Free
  /\ \/ ~preclose /\ Return(a) /\ UNCHANGED op
     \/ preclose /\ op' = a /\ GoTo(a, "destroying")
  /\ UNCHANGED <<gate, bindings, objectVars, queueVars, callbackVars, historyVars>>

\* Native refuses while a callback has not returned.
destroy(a) ==
  /\ at[a] = "destroying"
  /\ callback = "none" /\ frame = "none"
  /\ native' = "closed"
  /\ GoTo(a, "destroyed")
  /\ UNCHANGED <<gates, bindings, closed, state, dropped, queueVars, callbackVars,
                 historyVars>>

leaveClosed(a) ==
  /\ at[a] = "destroyed"
  /\ closed' = TRUE
  /\ Leave(a)
  /\ GoTo(a, "drain")
  /\ UNCHANGED <<bindings, native, state, dropped, queueVars, callbackVars,
                 historyVars>>

closeQueue(a) ==
  /\ at[a] = "drain"
  /\ shut' = TRUE
  /\ GoTo(a, "draining")
  /\ UNCHANGED <<gates, bindings, objectVars, terminalSlot, errorSlot, latestSlot,
                 frames, handling, callbackVars, historyVars>>

\* The end of queue.close, and waitIdle in detachFromClient.
waitIdle(a) ==
  /\ at[a] \in {"draining", "waitIdle"}
  /\ Idle
  /\ Return(a)
  /\ UNCHANGED <<gates, bindings, objectVars, queueVars, callbackVars, historyVars>>

\* Replay.Close, under the replay's gate: refused while it has dependencies.
replayCloses(r) ==
  /\ gate[r] = Free
  /\ r \notin deps \cup released
  /\ released' = released \cup {r}
  /\ UNCHANGED <<gates, bound, attached, deps, objectVars, queueVars,
                 callbackVars, historyVars, callVars>>

-----------------------------------------------------------------------------
Attach(a) == beginAttach(a) \/ nativeAttach(a) \/ bind(a)

Detach(a) == \/ lookBound(a) \/ beginDetach(a) \/ nativeDetach(a) \/ unbind(a)
             \/ setIdle(a) \/ postIdle(a)

Close(a) == \/ preflight(a) \/ lookClose(a) \/ beginClose(a) \/ destroy(a)
            \/ leaveClosed(a) \/ closeQueue(a) \/ waitIdle(a)

TakeSnapshot(a) == beginSnapshot(a) \/ endSnapshot(a)

Operate(a) == \/ enterNative(a) \/ Attach(a) \/ Detach(a) \/ Close(a)
              \/ TakeSnapshot(a) \/ nativeFails(a)

Next == \/ \E a \in Actors : \/ \E name \in Operations : call(a, name)
                             \/ Operate(a)
        \/ \E s \in NativeStates : OnState(s)
        \/ postState \/ OnError
        \/ \E skip \in {0, 1} : OnFrame(skip)
        \/ postFrame
        \/ run \/ handlerReturns
        \/ \E r \in Replays : replayCloses(r)

Spec == Init /\ [][Next]_vars

-----------------------------------------------------------------------------
(* Properties *)

Gated == {"gated", "attaching", "attached", "detaching", "detached"}
Locked == (Gated \ {"gated"}) \cup {"snapshot", "destroying", "destroyed"}

\* Types, and who holds the gates: whoever is between two steps under them.
TypeOK ==
  /\ bound \in Replays \cup {Unbound} /\ attached \in Replays \cup {Unbound}
  /\ deps \in SUBSET Replays /\ released \in SUBSET Replays
  /\ closed \in BOOLEAN /\ native \in {"open", "closed"}
  /\ state \in NativeStates /\ told \in NativeStates
  /\ dropped \in BOOLEAN /\ overtaken \in BOOLEAN
  /\ terminalSlot \in Terminal \cup {"none"} /\ errorSlot \in BOOLEAN
  /\ latestSlot \in {"none", "Idle", "Delivering"}
  /\ frames \in Seq([number : 1 .. frameNumber, marked : BOOLEAN])
  /\ Len(frames) <= Capacity
  /\ shut \in BOOLEAN /\ handling \in BOOLEAN
  /\ callback \in NativeStates \cup {"none"}
  /\ frame \in {"none", "plain", "marked"}
  /\ frameNumber \in Nat /\ shown \in 0 .. frameNumber
  /\ happened \in 0 .. MaxEvents
  /\ \A a \in Actors :
       /\ job[a] \in Operations \cup {"none"}
       /\ at[a] \in Locked <=> op = a
       /\ \A r \in Replays : gate[r] = a <=> at[a] \in Gated /\ target[a] = r

\* Output and replays agree on where the output is attached whenever nobody is
\* inside an operation, and that replay is open; native detaches from the replay
\* whose gate is held, also when the output moved to another one while a Detach
\* waited for the gates; and an output is destroyed only when it is attached
\* nowhere (output.go:91-186, 389-426).
BindingsAgree ==
  /\ op = Free => /\ bound = attached
                  /\ deps = {bound} \ {Unbound}
                  /\ bound \notin released
  /\ \A a \in Actors : at[a] = "detaching" => gate[attached] = a
  /\ native = "closed" => attached = Unbound /\ bound = Unbound /\ deps = {}

\* The output and the replays, and what native has attached it to.
theOutput == <<"output", "native">>
replaysOf(S) == {<<"replay", r>> : r \in S}

Own == INSTANCE Ownership WITH
         Objects <- {theOutput} \cup replaysOf(Replays),
         Attachable <- {theOutput},
         Leakable <- {},
         live <- replaysOf(Replays \ released)
                   \cup (IF native = "open" THEN {theOutput} ELSE {}),
         gone <- replaysOf(released)
                   \cup (IF native = "open" THEN {} ELSE {theOutput}),
         owned <- {},
         attached <- {theOutput} \X replaysOf({attached} \ {Unbound})

\* Native attaches the output to one replay at a time, which is open, and neither
\* that replay nor the output is destroyed before it is detached, also when a Detach
\* has waited for its gates while the output moved (output.go:91-186, 389-426).
ImplementsOwnership == Own!Spec

Quiet == /\ ~shut /\ ~HasEvents /\ callback = "none"
         /\ \A a \in Actors : at[a] # "notifying"

\* When all notifications have run, the application has last been told the state
\* that State() returns, unless one of them was overtaken: it was posted after the
\* state had changed again, or it is a terminal one that goes before a waiting
\* transitional one or finds another terminal one waiting (output.go:43-48,
\* 358-370, 308-319).
StateTold == Quiet /\ ~overtaken => told = state

\* README.md:51: when frames are missing between two that the application is
\* given, the second has Discontinuity set (output.go:77-90, 328-340).
GapsMarked ==
  [][shown' # shown => Head(frames).number = shown + 1 \/ Head(frames).marked]_vars
=============================================================================
