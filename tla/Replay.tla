------------------------------- MODULE Replay -------------------------------
(***************************************************************************)
(* A replay (storage/replay.go) and what depends on it: outputs attached   *)
(* to it (storage/output.go), recordings (RecordingTask.Stop in task.go)   *)
(* and raw dumps (raw_dump.go).  r.op and the outputs' o.op are held over  *)
(* the native calls of an operation; the other mutexes guard single steps, *)
(* except t.mu and d.mu, which are held while their object is "closing".   *)
(*                                                                         *)
(* An operation is the sequence of the steps still to do: Client.Close     *)
(* turns into the closing of every child it saw, an output's Close into a  *)
(* Detach and its own destruction.  Callers are goroutines and handlers;   *)
(* the goroutine of an output's queue has the name of the output.  Queues  *)
(* are reduced to what CallbackQueue shows of them.  Left out: arguments,  *)
(* results, TakeSnapshot, the speed, what NewReplay does before the replay *)
(* is returned, and the device (see StorageClient).                        *)
(***************************************************************************)
EXTENDS Naturals, FiniteSets, Sequences, Functions

CONSTANTS Users,       \* goroutines of the application
          Outputs, Recordings, Dumps,
          Capacity,    \* callbackQueueCapacity
          MaxTasks,    \* bound on native tasks; no bound in the code
          MaxCalls     \* bound on calls; no bound in the code

Worker == "worker"     \* the goroutine of the replay's queue
Actors == Users \cup Outputs \cup {Worker}
Free == "free"

ASSUME ReplayAssumption ==
  /\ Capacity \in Nat /\ MaxTasks \in Nat /\ MaxCalls \in Nat
  /\ IsFiniteSet(Outputs) /\ IsFiniteSet(Recordings) /\ IsFiniteSet(Dumps)
  /\ Recordings \cap Dumps = {}
  /\ Worker \notin Users \cup Outputs /\ Free \notin Actors

VARIABLES gate,          \* the actor that holds r.op, or Free
          outputGate,    \* the actor that holds each output's o.op, or Free
          closed,        \* r.closed: the native replay is destroyed
          shut,          \* r.queue is closed
          finished,      \* history: a Replay.Close has returned nil
          bound,         \* outputs with o.bound = r
          deps,          \* r.deps
          recording, tasks, dump, dumps,  \* objects, and the sets r knows
          outputClosed, outputShut,
          waiting,       \* outputs with something in their queue
          sent, queued, executed,  \* native tasks: how many so far or now
          handling,      \* queue goroutines that are in a user handler
          todo,          \* the steps each actor has before it
          at,            \* where in the first one it is
          calls          \* calls made so far

gates == <<gate, outputGate>>
replayVars == <<closed, shut, finished>>
bindings == <<bound, deps>>
objects == <<recording, tasks, dump, dumps>>
outputVars == <<outputClosed, outputShut, waiting>>
taskVars == <<sent, queued, executed>>
queueVars == <<outputVars, taskVars, handling>>
callVars == <<todo, at, calls>>
vars == <<gates, replayVars, bindings, objects, queueVars, callVars>>

Init == /\ gate = Free
        /\ outputGate = [o \in Outputs |-> Free]
        /\ closed = FALSE /\ shut = FALSE /\ finished = FALSE
        /\ bound = {} /\ deps = {}
        /\ recording = [r \in Recordings |-> "none"]
        /\ dump = [d \in Dumps |-> "none"]
        /\ tasks = {} /\ dumps = {}
        /\ outputClosed = {} /\ outputShut = {} /\ waiting = {}
        /\ sent = 0 /\ queued = 0 /\ executed = 0
        /\ handling = {}
        /\ todo = [a \in Actors |-> <<>>]
        /\ at = [a \in Actors |-> "start"]
        /\ calls = 0

QueueIdle == queued = 0 /\ Worker \notin handling
OutputIdle(o) == o \notin waiting \cup handling

-----------------------------------------------------------------------------
(* Operations as sequences of steps *)

\* A step and the output, recording or dump that it is about.
Do(name) == <<name, "replay">>
On(name, object) == <<name, object>>
Each(name, seq) == [i \in DOMAIN seq |-> On(name, seq[i])]

\* The orders in which the members of a set may be visited.
Orders(S) == {seq \in [1 .. Cardinality(S) -> S] : Range(seq) = S}

Doing(a, names, place) == /\ todo[a] # <<>>
                          /\ Head(todo[a])[1] \in names
                          /\ at[a] = place
Object(a) == Head(todo[a])[2]

GoOn(a, place) == at' = [at EXCEPT ![a] = place] /\ UNCHANGED <<todo, calls>>

Continue(a, steps) == /\ todo' = [todo EXCEPT ![a] = steps]
                      /\ at' = [at EXCEPT ![a] = "start"]
                      /\ UNCHANGED calls

StepDone(a) == Continue(a, Tail(todo[a]))
Fail(a) == Continue(a, <<>>)

\* Leaves the gates that a holds.
Leave(a) == /\ gate' = IF gate = a THEN Free ELSE gate
            /\ outputGate' = [o \in Outputs |->
                                IF outputGate[o] = a THEN Free ELSE outputGate[o]]

\* "use" is any native call, "play" one that may wait for handlers; only in the
\* replay's handlers is there more to the difference than how long it takes.
\* Client.Close inside a handler is left out.
Operations(a) ==
  {<<Do(name)>> : name \in {"play", "record", "capture", "close"}}
  \cup {<<Do("use")>> : x \in {a} \cap {Worker}}
  \cup {<<On(name, o)>> : name \in {"attach", "detach", "closeOutput"}, o \in Outputs}
  \cup {<<On("stop", r)>> : r \in {r \in Recordings : recording[r] # "none"}}
  \cup {<<On("closeDump", d)>> : d \in {d \in Dumps : dump[d] # "none"}}
  \cup (IF a \in Users THEN {<<Do("preflight"), Do("collect")>>} ELSE {})

call(a) == /\ todo[a] = <<>>
           /\ a \in Users \cup handling
           /\ calls < MaxCalls
           /\ \E steps \in Operations(a) : todo' = [todo EXCEPT ![a] = steps]
           /\ calls' = calls + 1
           /\ UNCHANGED <<gates, replayVars, bindings, objects, queueVars, at>>

-----------------------------------------------------------------------------
(* The gate *)

Native == {"use", "play", "record", "capture"}
Detaching == {"detach", "detachFromClient"}

\* Mutant: handlers wait for the gate as everybody does.
everybodyWaits(a) == TRUE

\* A handler of the replay only tries the lock.
mayWait(a) == a # Worker

\* detach looks at o.bound before it asks for the gate.
lookBound(a) ==
  /\ Doing(a, Detaching, "start")
  /\ Object(a) \in bound \ outputClosed
  /\ GoOn(a, "looked")
  /\ UNCHANGED <<gates, replayVars, bindings, objects, queueVars>>

AtGate(a) == \/ Doing(a, Native \cup {"attach", "close"}, "start")
             \/ Doing(a, Detaching, "looked")

enterNative(a) ==
  /\ AtGate(a)
  /\ ~(a = Worker /\ Doing(a, {"play"}, "start"))
  /\ gate = Free
  /\ gate' = a
  /\ GoOn(a, "gated")
  /\ UNCHANGED <<outputGate, replayVars, bindings, objects, queueVars>>

\* Play, Seek and Stop are refused to handlers outright.
enterRefused(a) ==
  /\ \/ AtGate(a) /\ gate # Free /\ ~mayWait(a)
     \/ a = Worker /\ Doing(a, {"play"}, "start")
  /\ Fail(a)
  /\ UNCHANGED <<gates, replayVars, bindings, objects, queueVars>>

\* withNative: the native call returns with success or an error.
nativeReturns(a) ==
  /\ Doing(a, {"use", "play"}, "gated")
  /\ Leave(a) /\ StepDone(a)
  /\ UNCHANGED <<replayVars, bindings, objects, queueVars>>

closedRefuses(a) ==
  /\ Doing(a, {"record", "capture"}, "gated")
  /\ Leave(a) /\ Fail(a)
  /\ UNCHANGED <<replayVars, bindings, objects, queueVars>>

StartRecording(a) ==
  /\ Doing(a, {"record"}, "gated")
  /\ ~closed
  /\ \E r \in Recordings : /\ recording[r] = "none"
                           /\ recording' = [recording EXCEPT ![r] = "live"]
                           /\ tasks' = tasks \cup {r}
  /\ Leave(a) /\ StepDone(a)
  /\ UNCHANGED <<replayVars, bindings, dump, dumps, queueVars>>

StartRawDump(a) ==
  /\ Doing(a, {"capture"}, "gated")
  /\ ~closed
  /\ \E d \in Dumps : /\ dump[d] = "none"
                      /\ dump' = [dump EXCEPT ![d] = "live"]
                      /\ dumps' = dumps \cup {d}
  /\ Leave(a) /\ StepDone(a)
  /\ UNCHANGED <<replayVars, bindings, recording, tasks, queueVars>>

-----------------------------------------------------------------------------
(* Attach and detach, under both gates *)

enterOutput(a) ==
  /\ \/ Doing(a, Detaching \cup {"attach"}, "gated")
     \/ Doing(a, {"destroyOutput"}, "start")
  /\ outputGate[Object(a)] = Free
  /\ outputGate' = [outputGate EXCEPT ![Object(a)] = a]
  /\ GoOn(a, "both")
  /\ UNCHANGED <<gate, replayVars, bindings, objects, queueVars>>

\* Closed, bound already, or refused by native.
attachFails(a) ==
  /\ Doing(a, {"attach"}, "both")
  /\ Leave(a) /\ Fail(a)
  /\ UNCHANGED <<replayVars, bindings, objects, queueVars>>

attach(a) ==
  /\ Doing(a, {"attach"}, "both")
  /\ ~closed
  /\ Object(a) \notin bound \cup outputClosed
  /\ bound' = bound \cup {Object(a)}
  /\ GoOn(a, "bound")
  /\ UNCHANGED <<gates, replayVars, deps, objects, queueVars>>

\* Mutant: the gates are left before the output is among the dependencies.
linkOutside(a) ==
  \/ /\ Doing(a, {"attach"}, "bound")
     /\ Leave(a) /\ GoOn(a, "left")
     /\ UNCHANGED <<replayVars, bindings, objects, queueVars>>
  \/ /\ Doing(a, {"attach"}, "left")
     /\ deps' = deps \cup {Object(a)}
     /\ StepDone(a)
     /\ UNCHANGED <<gates, replayVars, bound, objects, queueVars>>

link(a) ==
  /\ Doing(a, {"attach"}, "bound")
  /\ deps' = deps \cup {Object(a)}
  /\ Leave(a) /\ StepDone(a)
  /\ UNCHANGED <<replayVars, bound, objects, queueVars>>

\* Closed or unbound, seen before or under the gates: for the client that is
\* success (normalizeStorageDetach).
notBound(a) ==
  /\ Doing(a, Detaching, "start") \/ Doing(a, Detaching, "both")
  /\ Object(a) \notin bound \ outputClosed
  /\ Leave(a)
  /\ \/ Doing(a, {"detach"}, at[a]) /\ Fail(a)
     \/ Doing(a, {"detachFromClient"}, at[a]) /\ GoOn(a, "posted")
  /\ UNCHANGED <<replayVars, bindings, objects, queueVars>>

detachFails(a) ==
  /\ Doing(a, Detaching, "both")
  /\ Leave(a) /\ Fail(a)
  /\ UNCHANGED <<replayVars, bindings, objects, queueVars>>

detach(a) ==
  /\ Doing(a, Detaching, "both")
  /\ Object(a) \in bound \ outputClosed
  /\ bound' = bound \ {Object(a)}
  /\ GoOn(a, "unbound")
  /\ UNCHANGED <<gates, replayVars, deps, objects, queueVars>>

unlink(a) ==
  /\ Doing(a, Detaching, "unbound")
  /\ deps' = deps \ {Object(a)}
  /\ Leave(a) /\ GoOn(a, "detached")
  /\ UNCHANGED <<replayVars, bound, objects, queueVars>>

\* After the gates: setState(OutputIdle) and, if that is new, postOutputState.
postIdle(a) ==
  /\ Doing(a, Detaching, "detached")
  /\ waiting' \in {waiting, waiting \cup ({Object(a)} \ outputShut)}
  /\ \/ Doing(a, {"detach"}, at[a]) /\ StepDone(a)
     \/ Doing(a, {"detachFromClient"}, at[a]) /\ GoOn(a, "posted")
  /\ UNCHANGED <<gates, replayVars, bindings, objects, outputClosed, outputShut,
                 taskVars, handling>>

waitIdle(a) ==
  /\ Doing(a, {"detachFromClient"}, "posted")
  /\ OutputIdle(Object(a))
  /\ StepDone(a)
  /\ UNCHANGED <<gates, replayVars, bindings, objects, queueVars>>

-----------------------------------------------------------------------------
(* Closing an output *)

closeOutput(a) ==
  /\ Doing(a, {"closeOutput"}, "start")
  /\ IF OutputIdle(Object(a))
     THEN Continue(a, (IF Object(a) \in bound THEN <<On("detach", Object(a))>> ELSE <<>>)
                      \o <<On("destroyOutput", Object(a))>>)
     ELSE Fail(a)
  /\ UNCHANGED <<gates, replayVars, bindings, objects, queueVars>>

\* preclose refuses, or native does; an output closed already is no error.
destroyOutputFails(a) ==
  /\ Doing(a, {"destroyOutput"}, "both")
  /\ Leave(a) /\ Fail(a)
  /\ UNCHANGED <<replayVars, bindings, objects, queueVars>>

destroyOutput(a) ==
  /\ Doing(a, {"destroyOutput"}, "both")
  /\ Object(a) \notin bound \cup outputClosed
  /\ OutputIdle(Object(a))
  /\ outputClosed' = outputClosed \cup {Object(a)}
  /\ Leave(a) /\ GoOn(a, "draining")
  /\ UNCHANGED <<replayVars, bindings, objects, outputShut, waiting, taskVars,
                 handling>>

shutOutput(a) ==
  /\ Doing(a, {"destroyOutput"}, "draining")
  /\ outputShut' = outputShut \cup {Object(a)}
  /\ GoOn(a, "shut")
  /\ UNCHANGED <<gates, replayVars, bindings, objects, outputClosed, waiting,
                 taskVars, handling>>

outputDrained(a) ==
  /\ Doing(a, {"destroyOutput"}, "shut")
  /\ OutputIdle(Object(a))
  /\ StepDone(a)
  /\ UNCHANGED <<gates, replayVars, bindings, objects, queueVars>>

-----------------------------------------------------------------------------
(* Recordings and raw dumps, by their own calls or by a close *)

beginStop(a) ==
  /\ Doing(a, {"stop"}, "start")
  /\ recording[Object(a)] = "live"
  /\ recording' = [recording EXCEPT ![Object(a)] = "closing"]
  /\ GoOn(a, "native")
  /\ UNCHANGED <<gates, replayVars, bindings, tasks, dump, dumps, queueVars>>

beginCloseDump(a) ==
  /\ Doing(a, {"closeDump"}, "start")
  /\ dump[Object(a)] = "live"
  /\ dump' = [dump EXCEPT ![Object(a)] = "closing"]
  /\ GoOn(a, "native")
  /\ UNCHANGED <<gates, replayVars, bindings, recording, tasks, dumps, queueVars>>

\* Mutant: a Stop that native refuses lets go of the replay.
keptUnknown(a) ==
  /\ Doing(a, {"stop", "closeDump"}, "native")
  /\ recording' = [r \in Recordings |-> IF r = Object(a) THEN "live" ELSE recording[r]]
  /\ dump' = [d \in Dumps |-> IF d = Object(a) THEN "live" ELSE dump[d]]
  /\ tasks' = tasks \ {Object(a)}
  /\ Leave(a) /\ Fail(a)
  /\ UNCHANGED <<replayVars, bindings, dumps, queueVars>>

\* Native keeps the object: the call, and a close it is part of, may be retried.
kept(a) ==
  /\ Doing(a, {"stop", "closeDump"}, "native")
  /\ recording' = [r \in Recordings |-> IF r = Object(a) THEN "live" ELSE recording[r]]
  /\ dump' = [d \in Dumps |-> IF d = Object(a) THEN "live" ELSE dump[d]]
  /\ Leave(a) /\ Fail(a)
  /\ UNCHANGED <<replayVars, bindings, tasks, dumps, queueVars>>

stopped(a) ==
  /\ Doing(a, {"stop"}, "native")
  /\ recording' = [recording EXCEPT ![Object(a)] = "done"]
  /\ tasks' = tasks \ {Object(a)}
  /\ StepDone(a)
  /\ UNCHANGED <<gates, replayVars, bindings, dump, dumps, queueVars>>

dumpClosed(a) ==
  /\ Doing(a, {"closeDump"}, "native")
  /\ dump' = [dump EXCEPT ![Object(a)] = "done"]
  /\ GoOn(a, "closed")
  /\ UNCHANGED <<gates, replayVars, bindings, recording, tasks, dumps, queueVars>>

forgetDump(a) ==
  /\ Doing(a, {"closeDump"}, "closed")
  /\ dumps' = dumps \ {Object(a)}
  /\ StepDone(a)
  /\ UNCHANGED <<gates, replayVars, bindings, recording, tasks, dump, queueVars>>

doneBefore(a) ==
  /\ \/ Doing(a, {"stop"}, "start") /\ recording[Object(a)] = "done"
     \/ Doing(a, {"closeDump"}, "start") /\ dump[Object(a)] = "done"
  /\ StepDone(a)
  /\ UNCHANGED <<gates, replayVars, bindings, objects, queueVars>>

-----------------------------------------------------------------------------
(* Replay.Close, and Client.Close for this replay *)

\* Mutant: a second Close looks at closed only.
readyAnyway == closed \/ QueueIdle

replayCloseReady == QueueIdle

mayClose == deps = {} /\ tasks = {}

closeRefused(a) ==
  /\ Doing(a, {"close"}, "gated")
  /\ ~replayCloseReady \/ (~closed /\ ~mayClose)
  /\ Leave(a) /\ Fail(a)
  /\ UNCHANGED <<replayVars, bindings, objects, queueVars>>

closedAlready(a) ==
  /\ Doing(a, {"close"}, "gated")
  /\ replayCloseReady /\ closed
  /\ finished' = TRUE
  /\ Leave(a) /\ StepDone(a)
  /\ UNCHANGED <<closed, shut, bindings, objects, queueVars>>

\* Under the gate the raw dumps are closed, then the native replay.
closeDumps(a) ==
  /\ Doing(a, {"close"}, "gated")
  /\ replayCloseReady /\ ~closed /\ mayClose
  /\ \E ds \in Orders(dumps) :
       Continue(a, Each("closeDump", ds) \o <<Do("destroy")>>)
  /\ UNCHANGED <<gates, replayVars, bindings, objects, queueVars>>

destroyFails(a) ==
  /\ Doing(a, {"destroy"}, "start")
  /\ Leave(a) /\ Fail(a)
  /\ UNCHANGED <<replayVars, bindings, objects, queueVars>>

destroyed(a) ==
  /\ Doing(a, {"destroy"}, "start")
  /\ closed' = TRUE
  /\ Leave(a) /\ GoOn(a, "draining")
  /\ UNCHANGED <<shut, finished, bindings, objects, queueVars>>

\* finishNativeClose: the gate is left before the queue closes and drains.
finishNativeClose(a) ==
  /\ Doing(a, {"destroy"}, "draining")
  /\ shut' = TRUE
  /\ GoOn(a, "shut")
  /\ UNCHANGED <<gates, closed, finished, bindings, objects, queueVars>>

drained(a) ==
  /\ Doing(a, {"destroy"}, "shut")
  /\ QueueIdle
  /\ finished' = TRUE
  /\ StepDone(a)
  /\ UNCHANGED <<gates, closed, shut, bindings, objects, queueVars>>

preflightClientClose(a) ==
  /\ Doing(a, {"preflight"}, "start")
  /\ IF QueueIdle /\ \A o \in deps : OutputIdle(o) THEN StepDone(a) ELSE Fail(a)
  /\ UNCHANGED <<gates, replayVars, bindings, objects, queueVars>>

\* closeFromClient: dumps, recordings, outputs seen now, and then Close.
closeFromClient(a) ==
  /\ Doing(a, {"collect"}, "start")
  /\ \E ds \in Orders(dumps), rs \in Orders(tasks), os \in Orders(deps) :
       Continue(a, Each("closeDump", ds) \o Each("stop", rs)
                   \o Each("detachFromClient", os) \o <<Do("close")>>)
  /\ UNCHANGED <<gates, replayVars, bindings, objects, queueVars>>

-----------------------------------------------------------------------------
(* Native tasks and output callbacks *)

\* Tasks in the dispatcher, before the queue has taken or refused them.
Dispatching == sent - executed - queued - (IF Worker \in handling THEN 1 ELSE 0)

dispatch ==
  /\ ~closed
  /\ sent < MaxTasks
  /\ sent' = sent + 1
  /\ UNCHANGED <<gates, replayVars, bindings, objects, outputVars, queued, executed,
                 handling, callVars>>

postReliable ==
  /\ Dispatching > 0
  /\ ~shut /\ queued < Capacity
  /\ queued' = queued + 1
  /\ UNCHANGED <<gates, replayVars, bindings, objects, outputVars, sent, executed,
                 handling, callVars>>

\* The queue refuses the task: the dispatcher runs it.
runRefused ==
  /\ Dispatching > 0
  /\ shut
  /\ executed' = executed + 1
  /\ UNCHANGED <<gates, replayVars, bindings, objects, outputVars, sent, queued,
                 handling, callVars>>

\* The task runs a user handler unless native suppresses it, as it does at the
\* latest when the replay is destroyed.
runTask ==
  /\ queued > 0
  /\ Worker \notin handling
  /\ queued' = queued - 1
  /\ \/ ~closed /\ handling' = handling \cup {Worker} /\ UNCHANGED executed
     \/ executed' = executed + 1 /\ UNCHANGED handling
  /\ UNCHANGED <<gates, replayVars, bindings, objects, outputVars, sent, callVars>>

handlerReturns(a) ==
  /\ a \in handling
  /\ todo[a] = <<>>
  /\ handling' = handling \ {a}
  /\ executed' = IF a = Worker THEN executed + 1 ELSE executed
  /\ UNCHANGED <<gates, replayVars, bindings, objects, outputVars, sent, queued,
                 callVars>>

\* A state, an error or a frame for the output.
deliver(o) ==
  /\ o \in bound \ outputShut
  /\ waiting' = waiting \cup {o}
  /\ UNCHANGED <<gates, replayVars, bindings, objects, outputClosed, outputShut,
                 taskVars, handling, callVars>>

runEvent(o) ==
  /\ o \in waiting \ handling
  /\ waiting' = waiting \ {o}
  /\ handling' = handling \cup {o}
  /\ UNCHANGED <<gates, replayVars, bindings, objects, outputClosed, outputShut,
                 taskVars, callVars>>

-----------------------------------------------------------------------------
Attaching(a) == attachFails(a) \/ attach(a) \/ link(a)

Detach(a) == \/ lookBound(a)
             \/ notBound(a)
             \/ detachFails(a)
             \/ detach(a)
             \/ unlink(a)
             \/ postIdle(a)

CloseOutput(a) == \/ closeOutput(a)
                  \/ destroyOutputFails(a)
                  \/ destroyOutput(a)
                  \/ shutOutput(a)
                  \/ outputDrained(a)

CloseObject(a) == \/ beginStop(a)
                  \/ beginCloseDump(a)
                  \/ kept(a)
                  \/ stopped(a)
                  \/ dumpClosed(a)
                  \/ forgetDump(a)
                  \/ doneBefore(a)

Close(a) == \/ closeRefused(a)
            \/ closedAlready(a)
            \/ closeDumps(a)
            \/ finishNativeClose(a)
            \/ drained(a)

ManagedClose(a) == preflightClientClose(a) \/ closeFromClient(a) \/ waitIdle(a)

DestroyReturns(a) == destroyFails(a) \/ destroyed(a)

Operate(a) == \/ enterNative(a) \/ enterRefused(a) \/ enterOutput(a)
              \/ nativeReturns(a) \/ closedRefuses(a)
              \/ StartRecording(a) \/ StartRawDump(a)
              \/ Attaching(a) \/ Detach(a) \/ CloseOutput(a) \/ CloseObject(a)
              \/ Close(a) \/ ManagedClose(a) \/ DestroyReturns(a)

Dispatcher == postReliable \/ runRefused

Next == \/ \E a \in Actors : call(a) \/ Operate(a) \/ handlerReturns(a)
        \/ dispatch \/ Dispatcher \/ runTask
        \/ \E o \in Outputs : deliver(o) \/ runEvent(o)

Spec == Init /\ [][Next]_vars

(***************************************************************************)
(* Goroutines run on and native calls return, but Play, Seek, Stop and the *)
(* destruction of the replay need not do so before the tasks that were     *)
(* dispatched have run.  In the end native has nothing more to deliver to  *)
(* the outputs: an output that is attached again after Client.Close has    *)
(* detached it could otherwise keep the waitIdle of that Close from ever   *)
(* seeing its queue empty.  One condition stands for all callers, since    *)
(* they make finitely many steps: nothing depends on who is scheduled.     *)
(***************************************************************************)
Draining(a) == Doing(a, {"play"}, "gated") \/ Doing(a, {"destroy"}, "start")
TasksHaveRun == sent = executed

Fairness ==
  /\ WF_vars(\E a \in Actors : (Draining(a) => TasksHaveRun) /\ Operate(a))
  /\ \A a \in Outputs \cup {Worker} : WF_vars(handlerReturns(a))
  /\ WF_vars(Dispatcher)
  /\ WF_vars(runTask)
  /\ \A o \in Outputs : WF_vars(runEvent(o)) /\ <>[][~deliver(o)]_vars

FairSpec == Spec /\ Fairness

-----------------------------------------------------------------------------
(* Properties *)

\* Types, and at most one actor is past each gate, the one that holds it.
TypeOK ==
  /\ gate \in Actors \cup {Free}
  /\ outputGate \in [Outputs -> Actors \cup {Free}]
  /\ closed \in BOOLEAN /\ shut \in BOOLEAN /\ finished \in BOOLEAN
  /\ bound \in SUBSET Outputs /\ deps \in SUBSET Outputs
  /\ recording \in [Recordings -> {"none", "live", "closing", "done"}]
  /\ dump \in [Dumps -> {"none", "live", "closing", "done"}]
  /\ tasks = {r \in Recordings : recording[r] \in {"live", "closing"}}
  /\ dumps \in SUBSET Dumps
  /\ outputClosed \in SUBSET Outputs /\ outputShut \in SUBSET outputClosed
  /\ waiting \in SUBSET Outputs
  /\ sent \in 0 .. MaxTasks /\ queued \in 0 .. Capacity /\ executed \in 0 .. sent
  /\ Dispatching \in Nat
  /\ handling \in SUBSET (Outputs \cup {Worker})
  /\ calls \in 0 .. MaxCalls
  /\ \A a \in Actors : /\ at[a] = "gated" => gate = a
                       /\ at[a] = "both" => outputGate[Object(a)] = a

\* The native replay is stopped and destroyed only when no output is attached
\* to it and no recording or raw dump of it is alive, whatever attached, started
\* or failed to stop while a Close was on its way (replay.go:231-276).
ChildrenFirst ==
  closed \/ (\E a \in Actors : Doing(a, {"destroy"}, "start")) =>
    /\ bound = {}
    /\ \A r \in Recordings : recording[r] \in {"none", "done"}
    /\ \A d \in Dumps : dump[d] \in {"none", "done"}

\* What exists natively, who was made under the replay and what is attached to it.
alive == {r \in Recordings : recording[r] \in {"live", "closing"}}
           \cup {d \in Dumps : dump[d] \in {"live", "closing"}}
ended == {r \in Recordings : recording[r] = "done"} \cup {d \in Dumps : dump[d] = "done"}
root == {Do("replay")}
Tagged(kind, S) == {On(kind, x) : x \in S}

Own == INSTANCE Ownership WITH
         Objects <- Tagged("child", Recordings \cup Dumps) \cup Tagged("output", Outputs)
                      \cup root,
         Attachable <- Tagged("output", Outputs),
         Leakable <- {},
         live <- Tagged("child", alive) \cup Tagged("output", Outputs \ outputClosed)
                   \cup (IF closed THEN {} ELSE root),
         gone <- Tagged("child", ended) \cup Tagged("output", outputClosed)
                   \cup (IF closed THEN root ELSE {}),
         owned <- Tagged("child", alive) \X root,
         attached <- Tagged("output", bound) \X root

\* Recordings, raw dumps and the attachments of outputs obey the rules of ownership
\* whatever attaches, starts, closes or fails meanwhile: nothing is made under or
\* attached to a replay that native has destroyed, and that happens after the last
\* of them has ended (replay.go:231-276, output.go:190-230).
ImplementsOwnership == Own!Spec

\* Once a Replay.Close has returned success no handler of the replay runs: the
\* close barrier, also for a Close that finds another one's work
\* (operation_gate.go:12-17).
CloseBarrier == finished => Worker \notin handling

\* No operation waits for ever, from a goroutine or a handler, although Play and
\* Close may wait, holding the gate, for the handlers (replay.go:91-98); and every
\* task that native dispatches is run, also when the queue is full or closes
\* meanwhile (replay.go:46-52).  (MaxCalls and MaxTasks bound both: it is enough
\* that some day no operation is under way and no task is left.)
OperationsReturn ==
  <>[](executed = sent /\ \A a \in Actors : todo[a] = <<>>)
=============================================================================
