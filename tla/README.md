# TLA+ models of the TiRTC Go SDK

The SDK is a thin, concurrent Go layer over a native (C) runtime. What it adds of
its own is not media processing but *discipline*: callbacks of native threads
become serial application handlers, native handles are destroyed only when
nothing uses them, operations from many goroutines and from handlers are
serialised without deadlock, and a close that native refuses leaves the object
usable. These models are about that discipline. The native runtime itself is
external and appears as nondeterminism within the contract of its headers
(`internal/native/artifacts/*/include/ti/*.h`).

## 1. The system

### Components

| Component | State it keeps | Operations | Talks to |
| --- | --- | --- | --- |
| RTC mailbox `mailbox.go` | data and control lanes, latest / terminal / stop slots, `draining`, `inHandler`, `closing`, `closed` | `post*`, drain goroutine, `preflightClose`, `beginClose`, `cancelClose`, `finishClose`, `waitIdle` | handlers of its owner |
| RTC connection `conn.go` | native handle, `state`, `deps`, `tasks`, `dumps`, `connectDone`, `closed`; `opMu` over operations, `mu` over fields | `Connect`, `Disconnect`, sends, subscriptions, `Close`; native `OnState`, `OnCommand`, `OnMessage` | its mailbox, outputs, recordings, raw dumps, the client's registry |
| RTC outputs `output.go` (four kinds) | `bound`, `state`, `dropped`, `snapshot`, `closed` | `Attach`, `Detach`, `TakeSnapshot`, `Close`, `detachFromClient`; native state, error, frame | its mailbox, `attachDependency` / `detachDependency` of a connection |
| RTC recording `recording.go`, raw dump `raw_dump.go` | `stopping`, `finished`, `archive`, `closed` | `Stop`, `Close` | the connection's sets |
| RTC client `runtime.go` | connections, `closing`, `closed` | `NewConnection`, `UploadLogs`, `Close` | all its connections, their children |
| Storage queue `storage/queue.go` | events, controls, three critical slots, `active`, `closed`, `stopped`, one condition variable | `post`, `postControl`, `postCritical`, `postReliable`, `waitIdle`, `close`, worker | handlers of its owner |
| Storage client `storage/storage.go` | operation gate `op`, children, `closing`, `closed` | list calls, `NewReplay`, `ExportRecording`, `UploadLogs`, `Close` | children (calls, replays, exports), native devices and requests |
| Export task `storage/task.go` | gate, native task, `progress`, `cancelled`, `contextErr`, `terminal`, result | `Cancel`, `Progress`, `Wait`, context callback; native progress and gap | its queue, its client |
| Replay `storage/replay.go` | gate, `deps`, `tasks`, `dumps`, dispatcher, `closed` | playback, recordings, raw dumps, `Close`; dispatched native tasks | its queue, client, device, children |
| Storage outputs `storage/output.go` (four kinds) | gate `op`, `bound`, `state`, `dropped`, `closed` | `Attach`, `Detach`, `TakeSnapshot`, `Close`, `detachFromClient`; native state, error, frame | its queue, the gates and `deps` of the replays it is attached to in turn |
| Native bridge `internal/native` | C pointers, cgo handles | one Go call per C call, `destroyAfterTerminal` (retries a busy destroy for two seconds) | the C runtime |

`errors.go`, `types.go`, logging, `buildidentity`, the build tool and the
examples keep no state worth a model; `runtimelease` is imported by no package.

### What is hard here

* Handlers run on a goroutine of the SDK and call back into the object, so every
  lock an operation holds while it waits is a possible deadlock.
* Each callback is several critical sections: state first, notification later.
* Close is a protocol: look, lock, look again, shut the mailbox, disconnect,
  destroy; every step can fail, and each failure must leave a usable object.
* Creation races close, children leave while their parent counts them, and two
  goroutines close the same object.
* One condition variable serves sleepers of four kinds with `Signal`.
* A cancelled context races the natural end of the work it cancels.

Correctness therefore means, per component: *mailbox and queue* — one handler at
a time, in order of acceptance, nothing stranded, nothing lost but by a close
(queue: nothing lost at all), waits end; *connection, output* — nothing uses a
destroyed native object, registrations agree, state and notifications agree,
a failed close is undone, every close returns; *RTC client, recordings, raw dumps*
— nothing is destroyed under something that uses it, however many Stops, Closes
and retries meet; *storage outputs* — output, replays and native agree on the
attachment, the last state is told, gaps are marked; *storage client and export* —
children leave before their parent, one result for all, cancellation reported as
such, no native call during a destroy, no deadlock between gate and queue.

## 2. Modules

| Module | Models | Composition |
| --- | --- | --- |
| `SerialExecutor` | the abstract promise: callbacks run one at a time, each at most once, none while closing; a close drops what waits and may be cancelled | implemented by `Mailbox`; INSTANCEd as the mailbox of `Connection` and `RtcOutput` |
| `DrainingExecutor` | the abstract promise of the storage queue: callbacks run one at a time, each once, the most urgent and then the oldest first; a close stops when all have run | implemented by `CallbackQueue` |
| `Ownership` | the abstract promise about native objects: nothing is made under an object that is gone, nothing goes before what was made under it or is attached to it; what an object's only destroyer failed to destroy is named as leaked | implemented by `Replay`, `StorageClient`, `ManagedClose`, `RtcOutput` and `StorageOutput` |
| `Mailbox` | `mailbox.go` | refines `SerialExecutor` |
| `MailboxProofs` | proofs about `Mailbox`: safety of its goroutines and closes; order and refinement | extends `Mailbox` |
| `Connection` | `conn.go` | uses `SerialExecutor` |
| `RtcOutput` | `output.go` | uses `SerialExecutor`, refines `Ownership` |
| `ConnectionProofs`, `RtcOutputProofs` | proofs about `Connection` and `RtcOutput` | extend these |
| `CallbackQueue` | `storage/queue.go` | refines `DrainingExecutor` |
| `StorageClient` | `storage/storage.go`, creation and `Close` of `storage/replay.go` | refines `Ownership` |
| `ExportTask` | `ExportRecording` and `ExportTask` of `storage/task.go` | its queue is reduced to a counter and a handler, as `CallbackQueue` justifies |
| `Replay` | `storage/replay.go`, its gate and its dependents: outputs (`storage/output.go`), recordings (`RecordingTask` of `storage/task.go`), raw dumps (`storage/raw_dump.go`) | refines `Ownership`; the client's side of its close is `StorageClient` |
| `ManagedClose` | `runtime.go`, the creation and managed close of `conn.go`, `recording.go`, `raw_dump.go`, `detachFromClient` of `output.go` | refines `Ownership`; what `Connection` does inside one connection is a step here |
| `StorageOutput` | `storage/output.go`, with the replays' gates, `deps` and `Close` | refines `Ownership`; its handlers as `CallbackQueue` runs them; that its operations and handlers end is in `Replay` |
| `StorageOutputProofs` | proofs about `StorageOutput` | extends `StorageOutput` |
| `StorageProofs` | proofs about `CallbackQueue` and `StorageClient` | extends both |
| `ExportTaskProofs`, `ReplayProofs`, `ManagedCloseProofs` | proofs about `ExportTask`, `Replay` and `ManagedClose` | extend these |
| `*MC` | constants and symmetry for TLC; those of `Replay`, `ManagedClose` and `StorageOutput` also a populated initial state | |

A module has one action per critical section of the code: what happens between
two lock operations, or before and after a native call, is one step, and
everything else may come between. A mutex that guards single steps (`mu`) does
not appear; one that is held over several steps (`opMu`, the operation gate) is a
variable holding its owner. A native call has a beginning and an end if
anything can happen meanwhile. Where the code waits for a channel, a condition
variable or a `sync.Once`, the action's guard is the condition waited for.
Operators whose comment begins with "Mutant" are plausible mistakes; no
specification uses them. They show that each property can fail.

**The abstractions.** `SerialExecutor` and `DrainingExecutor` differ where the two
packages do: the RTC mailbox drops on a close what has not run, and a close can
be taken back; the storage queue runs everything and its close is final, and it has
urgencies, of which the three critical slots hold one callback each. `Ownership`
knows objects that live and are gone, who was made under whom and what is
attached to what; it is one specification for three parents (replay, storage
client, RTC client with its connections) and for the outputs that move between parents, each
of which says which of its variables are these. An object whose only destroyer has failed
*leaks*: it stays alive for ever, and what it was made under no longer waits for it.
That is allowed only when it could have been destroyed then, and only for the kinds of objects that
the user of `Ownership` names (`Leakable`): the requests and devices of the storage client, none elsewhere.
Nothing in the code is written like `Ownership`: it is what the code's gates, snapshots
and `closing` flags are for.

**Mailbox.** An event is its sequence number; the lanes are sequences of numbers,
a slot holds a number or 0. A drain goroutine is `"none"`, `"loop"` or
`"handler"`; there are two identities, so that a second drain goroutine *could*
start. Sleepers of `waitIdle` are woken only by a broadcast. A closer goes
through `preflightClose`, `beginClose` and, depending on native, `finishClose` or
`cancelClose`.

**CallbackQueue.** Posts of all four kinds, blocked producers, `waitIdle` and
`close` callers and the worker share the set `asleep`; `Signal` wakes an arbitrary
sleeper, `Broadcast` all, and who is woken looks at its condition again.

**Connection.** The handler goroutine is a caller like the others. Connect's
attempt has a completion and a handle: closing a handle that native still uses
starts a reaper, and native refuses to destroy the connection until the handle is
`dropped`: destroyed, or given up after another error.
Close waits for the Connect it has seen without holding `opMu`, then looks again.
Outputs and recordings are children with a native call between the two steps
under `opMu`. A state callback takes three steps: entering, assigning, posting.

**RtcOutput.** `VideoOutput`; the other three outputs repeat its code without
`TakeSnapshot`. Operations share the steps of `detachLocked`, `op` tells
whose they are. The frame callback takes the mark in one step and posts in the
next; frame numbers let the model say which frames the application was not
given. `OnError` turns into a stop request when the control lane is full, and its
handler is a `Detach`.

**StorageClient.** A list call is an object with a request handle, a device and a
goroutine; a replay is created and closed by the application or by the client.
`Client.Close` takes a snapshot of the children and closes them one by one; it
may run twice at a time and again after a failure. A destroy may give up after
the two seconds of `destroyAfterTerminal`, or fail otherwise, and so may the closing of a device, which a list
call, a creation that fails and `Replay.Close` try once, dropping or returning the
error (`storage.go:93-99`, `replay.go:292`). What fails so is `leaked`: it is alive in native, Go has
forgotten it, and `Client.Close` goes on, also after a replay whose device has failed
(`released`, `storage.go:335-346`). Native is taken at its least here: it may, but need not,
refuse to destroy the client or a device while something made from it is alive.

**ExportTask.** The gate `op`, the `sync.Once` of `Wait`, the context's goroutine,
native progress and gap callbacks, handlers that call the task, and a queue that
blocks gap callbacks when full.

**Replay.** An operation is the sequence of the steps an actor still has to do, so
that a close can put the closing of children before its own: `Client.Close` becomes
`closeDump`, `stop` and `detachFromClient` of what it saw, then `close`;
`close` becomes `closeDump` and `destroy`, with the gate held all along. Actors are
goroutines, the replay's handler (`Worker`, which only tries the gate) and each
output's handler (which waits for it like anybody else). `Play`, `Seek`, `Stop`
(`play`) and `destroy` may wait for the tasks that native has dispatched; that
is why handlers must not wait for them. A task is only counted: in the
dispatcher, queued, in the handler, executed. Of an output's callbacks the model
keeps that one waits or runs. One replay; frames, states, `TakeSnapshot` and
`RawDump.Stop`'s archive are left out.

**ManagedClose.** Built as `Replay` is: `closeClient` becomes the preflight of each
connection and of its outputs, `closeFromClient` of each connection, `destroyClient`
and `settle`; `closeFromClient` becomes `closeDump`, `stop` and `detachFromClient` of
what it sees then, `close`, and `connReleased`; `close` becomes the dumps' `closeDump`
and `destroyConn`. `closeDump` stops the dump first, as `RawDump.Close` does, and goes
on whatever that has come to. A step that fails drops the steps after it up to the next *recovery
step*, which is what the code does there: `connReleased` goes on when the
connection is closed in spite of the error (`runtime.go:93-97`), `settle` takes
`closing` back. Mutexes are taken in the order output, connection, raw dump or
recording, fields, so `opMu` and the dumps' `d.mu` are the ones that are waited
for. Native is taken at its least: it never refuses to destroy an object that
others still use, so that only the Go code can prevent it.

**StorageOutput.** The module is `VideoOutput`; the other kinds repeat its code
without `TakeSnapshot`. `job` tells whose step it is, `at` where it stands, `target` which
replay it is about. `Detach` reads `o.bound` and then waits for that replay's gate
and for its own, after which the output may be elsewhere. `postCritical` and the
lane are reduced to three slots and a sequence of frames. The native output does
not close while one of its callbacks has not returned. A detach does not wait
for a frame that is on its way, so that this frame may take the mark that
`Detach` leaves for the next one; the mark is then early, not lost.

## 3. Runs

Every passing run ends by itself with all actions fired. "Live" means that the
run checks liveness under the fairness named below.

| Run | Asks | Bounds |
| --- | --- | --- |
| `mailbox` (live) | one drainer, no stranded event, order, settling, `waitIdle`, refinement of `SerialExecutor` (which includes that a close excludes handlers) | four events, a data lane of two places and a control lane of one, two closers, one waiter, two drain identities |
| `queue` (live) | does `Signal` reach the worker, is anything lost, does everybody return, refinement of `DrainingExecutor` (which includes the order and that `close` drains) | three callers in any operation, three events, lane of two, control lane of one |
| `storage_client` (live) | creation against close, order of the destructions, closes and device closes that fail and what is leaked then, does Close return, refinement of `Ownership` | two list calls, one replay, one application goroutine, two closers |
| `export` (live) | native calls against destroy, drain before Wait returns, one result, cancellation reported, does `Wait` return | two waiters and the handler, one progress, three gaps, queue of one |
| `connection_close` (live) | Connect against Close, what attaches meanwhile, does Close return | two connecters, two closers, one output, one recording, one other caller |
| `connection_events` | callbacks against a Close that may fail | one closer, one recording, one caller and the handler, three callbacks |
| `output` | registration, snapshots, close, deadlock, marks | two users and the handler, two connections, two accepted callbacks, frame numbers up to three |
| `replay` (live) | children before the replay (refinement of `Ownership`), the close barrier, do operations and handlers end, does every task run | two goroutines, the replay's and one output's handler; one recording, one dump, two tasks, queue of one; two calls, from a new replay or one with all children |
| `managed_close` (live) | what is destroyed while something uses it, what a failed close leaves behind, do operations end | two goroutines and the handlers of two connections and an output; one recording, one dump; three calls, from a client with one connection that has all children |
| `storage_output` | attachments (also as a refinement of `Ownership`), the last state, marks | two goroutines and the handler, two replays, queue of one; four calls and native callbacks together, from a new output or an attached one |
| `storage_cancel_race` | finding 1 | one list call, one replay, one application goroutine, one closer |
| `connection_lost_disconnect` | finding 2 | one connecter, one closer, three callbacks |

*Why these bounds are enough to meet the cases:* a lane of one or two places is
full after as many posts, and one event more overflows or blocks; two goroutines
of a kind are needed for a race between equals, a third in the queue so that a
producer, `waitIdle` and `close` sleep together; three callbacks are one running,
one waiting and one arriving; three frames are one delivered, one dropped and one
marked; handles, devices and closes are reused after failures without a bound.
In `export` the handler, the context and two `Wait`s contend for the gate already;
an application goroutine beside them adds no step that the handler does not make,
and checking liveness with it takes too long. A third gap finds the
queue full behind a running handler. Four calls or callbacks in
`storage_output` are, for example, `Attach`, `Detach`, `Attach` elsewhere and a `Detach`
that has looked before all of them, or a terminal state behind two others.
`MaxPosts`, `MaxEvents`, `MaxFrames`, `MaxProgress`, `MaxGaps`, `MaxTasks`, `MaxCalls`
bound what the code does not; all other loops close on themselves. Deadlock is checked for the
mailbox, whose closers can always go on; elsewhere a closed object may stop.

*Fairness.* Weak fairness says that a goroutine that can run does, that native
calls and handlers return (the SDK requires it of applications), that native
ends an attempt or request that has been cancelled. Strong fairness is used where
a goroutine asks for a mutex again and again taken by others: Go's `sync.Mutex`
goes over to first come, first served after a millisecond. Nobody is
obliged to post, call, cancel or close. Native need not return from `Play`,
`Seek`, `Stop` or the destruction of a replay before the dispatched tasks have run
(`replay.go:90`). In `replay` and `managed_close` one condition for all callers is
enough, as they make finitely many steps there; native ends its deliveries to
outputs some day, without which `waitIdle` need not end (`output.go:380`).

*Two calls in `replay`* are a lot: one `Client.Close` closes a dump, stops a
recording, detaches an output and closes the replay, and races the other call,
which may be a handler's, at each of its steps. Starting also from a replay with
all its children (three uncontended calls later) keeps the two calls for the race.

### Findings

1. `storage_cancel_race`: `Client.Close` calls `request.Cancel` for a list call it
   knows while that call is inside `request.Close` (`storage.go:45`, `:167`),
   against `operation_gate.go:5-6`. The Go side of it is an unsynchronised access
   to the request's pointer.
2. `connection_lost_disconnect`: a `Close` that native refuses has already dropped
   a waiting `Disconnected` notification (`mailbox.go:246-251`); the connection goes
   on, and the application is not told (`README.md:47`).

Two properties name the same loss as an exception: `StateReported` (`stateLost`)
and `GapsMarked` of `RtcOutput` (`cleared`, frames dropped by a close that fails).

Four observations without a run, since no document promises otherwise:

* `Replay.Close` unregisters the replay before it closes its device
  (`replay.go:291-292`), so a `Client.Close` at that moment does not cover the
  device, and the device may be closed after the client. List calls and exports do it in
  the other order.
* Nothing in the SDK can try again to destroy a request or to close a device that native has refused to
  give up (`storage.go:167-168`, `:135`, `replay.go:292`). `ChildrenLeaveFirst` names them
  as what may outlive the client. If native refuses to destroy a client that has such a
  device, as it may, no later `Client.Close` can succeed.
* `StateTold` names what may come between a state and the last notification
  (`overtaken`): a terminal state goes before a transitional one that waits, a
  second terminal one is not posted while one waits, and `Detach` posts `Idle` after
  it has left its gates, when another `Attach` may have led to a new state.
* An output may be detached from a connection or replay that another client
  owns, if the application moves it after `closeFromClient` has looked.

## 4. Proofs

TLAPS proves the following for all capacities, all sets of goroutines (drain
goroutines, closers, waiters, callers, handlers), connections, replays, outputs,
recordings and raw dumps, and any number of posts, calls and tasks.

| Module | Theorem | Says |
| --- | --- | --- |
| `MailboxProofs` | `TypeCorrect` | types, and lanes within their capacities |
| | `OneDrainer` | `SingleDrainer`: handlers of an object never overlap |
| | `NoEventStranded` | `NoLostWakeup`: an open mailbox with an event has a goroutine for it |
| | `CloseIsExclusive` | `CloseExcludesHandler`, with one owner of a close |
| | `RunInOrder` | `OrdinaryOrder`: what waits is newer than what ran |
| | `MailboxIsSerial` | the mailbox implements `SerialExecutor` |
| `StorageProofs` | `SignalReachesWorker` | `WorkerSleepsAlone`: `Signal` cannot wake the wrong sleeper |
| | `QueueLosesNothing` | `NothingLost`: every accepted event in exactly one place |
| | `CloseDrainsQueue` | `CloseDrains`: a stopped queue has run what it accepted |
| | `OrdinaryInOrder` | `OrdinaryFIFO`, an action property |
| | `QueueTypes` | `TypeOK`: types, and lanes within their capacities |
| | `QueueDrains` | the queue implements `DrainingExecutor` |
| | `ClientTypes` | `ClientTypeOK` |
| | `ChildrenAlwaysLeaveFirst` | `ChildrenLeaveFirst`: when native is closed, no list call is active and only what native refused to give up, or a replay's device about to be closed, is alive |
| | `ClientOwns` | the storage client implements `Ownership`, with requests and devices that may leak |
| `StorageOutputProofs` | `BindingsCorrect` | `BindingsAgree`: output, replays and native agree on the attachment |
| | `StateToldCorrect` | `StateTold`: the last state that is not overtaken is told |
| | `GapsMarkedCorrect` | `GapsMarked`, an action property |
| | `OutputTypes` | `TypeOK`: types, the lane within its capacity, and who holds the gates |
| | `OutputOwns` | the output implements `Ownership` |
| `ExportTaskProofs` | `ExportTypes` | `TypeOK`: types, and the queue within its capacity |
| | `CallsAvoidClose` | `NoCallDuringClose`: no call is inside the native task when it is destroyed |
| | `WaitKeepsContract` | `WaitContract`: what a returned `Wait` stands for |
| `ConnectionProofs` | `ConnectionTypes` | `TypeOK`: types, and a close holds `opMu` exactly between its steps under it |
| | `ClosedHasNoChildren` | `ClosedIsEmpty`: a connection is destroyed when none of its children is left or on its way |
| | `StateIsReported` | `StateReported`: the application is told the state that `State()` returns |
| `RtcOutputProofs` | `OutputTypes` | `TypeOK`: types, the lane within its capacity, and who holds `opMu` |
| | `DestroyedIsUnused` | `NothingUsesDestroyed`: a destroyed output is attached nowhere, nothing is under way on it, nothing begins |
| | `GapsMarkedCorrect` | `GapsMarked`, an action property |
| | `OutputOwns` | the output implements `Ownership` |
| `ReplayProofs` | `ReplayTypes` | `TypeOK`: types, the queue within its capacity, and who holds the gates |
| | `ChildrenLeaveFirst` | `ChildrenFirst`: a replay is destroyed when none of its children is attached or alive |
| | `CloseIsBarrier` | `CloseBarrier`: after a close no handler runs |
| | `ReplayOwns` | the replay implements `Ownership` |
| `ManagedCloseProofs` | `TypesHold` | `TypeOK`: types, the recordings a connection knows, and who holds `d.mu` |
| | `LifetimesHold` | `NativeLifetimes`: native objects are destroyed after what uses them, once and by one actor |
| | `RefusedCloseIsUndone` | `RefusedCloseRestores`: what a failed close leaves locked, shut or closing has an actor that undoes it |
| | `ClientOwns` | the RTC client implements `Ownership` |

`CloseExcludesHandler`, `CloseDrains`, `OrdinaryFIFO` and `ChildrenFirst` are proved
directly and appear in no run: the abstraction of their module, which the run
checks, says as much. The refinements of `Ownership` by `ManagedClose` and `RtcOutput`
are proved and in no run either: TLC finds them to hold as a further
`PROPERTY` of `ManagedClose.cfg` and `RtcOutput.cfg`, but the first makes its run a third
longer, and both ask of the model what a run asks of another one already.

Assumptions: `MailboxAssumption`, `QueueAssumption`, `StorageOutputAssumption`,
`ClientAssumption`, `ExportAssumption`, `ConnectionAssumption`, `OutputAssumption`,
`ReplayAssumption` and `ManagedAssumption` (capacities are positive, bounds are natural
numbers, different roles have different names, "nobody" is no goroutine and "no replay"
or "no connection" none of them; children are finitely many, since a close puts them in
a sequence).

*The mailbox.* One inductive invariant, `IInv`, is `TypeOK /\ SingleDrainer /\
NoLostWakeup /\ CloseExcludesHandler /\ CloseIsOwned`. None of its parts is
inductive alone. That a close excludes handlers needs `SingleDrainer` (the count
`inHandler` is what `beginClose` reads; it must be the truth) and `CloseIsOwned`
(otherwise a second closer could cancel the first one's close and let a handler
start). `NoLostWakeup` needs `CloseIsOwned`: `cancelClose` finds an empty mailbox,
since nothing is accepted while closing; and it needs `SingleDrainer` for a
goroutine that is about to exit. The proofs have one step per action of `Next`.

*Its order.* `OrdinaryOrder` is not inductive: `takeNextLocked` compares only the
heads, so the lanes must be sorted, and a slot that is emptied or replaced must not
hold an event that is elsewhere too. `EventOrder` adds both. With `EventOrder`, a
step takes exactly the event it runs from the pending ones (`TakeRemoves`), which
is also what the refinement needs: an accepted post is `Accept`, superseding the
old content of a latest-wins slot; taking is `Start`, `run` is `Return`; `beginClose`
is `BeginClose`; `finishClose` and `cancelClose` are `EndClose`, or no step when the
mailbox was closed already; everything else is no step. `Connection` and
`RtcOutput` use `SerialExecutor` as their mailbox; this theorem is what entitles
them to.

*The queue.* Posts call `Signal` although producers, `waitIdle` and `close` sleep on
the same condition variable. `WorkerSleepsAlone` is why that is right, and
`SleepFacts` is why it holds: a caller asleep on an open queue has seen work or a
callback; the worker sleeps only when there is neither, and has broadcast after its
last callback. `LaneOrder` says that no event is in two places, so that taking one
leaves the rest (`TakeRemoves`); the accounts of `NothingLost` balance by it.
For the refinement, `waiting` pairs what is in a slot or lane with its urgency. An
accepted post is `Accept` (`LaneAccepts`, `SlotAccepts`: a slot that is full takes
nothing unless it is the latest state's, and then gives up exactly its old pair); what
the worker takes is the first of `waiting`, since slots are searched in order,
lanes are increasing (`LaneOrder`) and each is looked at when those before it are
empty (`TakesFirst`). The worker keeps the lock between two callbacks, so the
end of one and the start of the next are one `Start`; going to sleep is `Return`; it stops on
an empty closed queue, which is `Stop`. Calls that sleep, wake or return are no step.

*The storage output.* `BindingsAgree` speaks of the moments when nobody holds the
output's gate. `IInv` says what is true in between: `GatesAreHeld` (an actor is at a
place under a gate exactly when it holds that gate, so at most one actor is) and
`Progress` (which of `bound`, native and `deps` the holder has changed by then). The
second look at `o.bound`, under both gates (`mayDetach`), is what makes `bound =
target` true for `nativeDetach`; dropping it is the mutant of `BindingsAgree`. Actors
that hold no gate are judged by nothing, so most steps are covered by a few
lemmas about moves outside (`GoToOutside`, `ReturnOutside`). For `StateTold` it is
enough that whoever has changed the state is about to post it (`NewsCorrect`):
`LastNews`, the state the application will have been told when the slots are empty,
is then the state. For `GapsMarked`, `Marks` relates each queued frame to the one
before it, and the last one to `dropped`: an unmarked frame on its way follows the
last one queued, and without the mark the last one queued is the last delivered.
`OutputOwns` needs `Progress` at the three steps in native, whose guards say nothing of
what they find there, and one fact about the replays: one whose gate is free and whose
`deps` do not have the output is not the one it is attached to
(`FreeReplayIsUnattached`), so that looking at `deps` is enough for `Replay.Close`.

*The storage client.* `ChildrenLeaveFirst` speaks of the moment of the native close,
many steps after the snapshot the close works from. `CloseKnows` carries the argument:
whatever is active is registered, and from its snapshot on a close has everything
active still on its list, since a creation holds the gate until it has registered
and refuses when it finds `closing`. `ObjectsKnown` says how far each call and replay has
come, so that one that has left its list is known to have destroyed its handle and device or
to have leaked them. A replay can leave it with its device still open; then `ReplayKnown` says
that exactly one actor is in its `Close` and will come to the device.
`clientClosed` is set under the gate by the close that has emptied its list; a close that
fails gives `closing` back with whatever is left still registered.
`ClientOwns` needs more than that: a step that opens a device or makes a request must find
the client alive. It is, because the maker holds the gate or is registered, and
`CallKnown` says how far each call has come with its device, its handle and the gate; a
destruction of the client finds everything inactive (`NothingActive`). Closing a device is
`Destroy` or `Leak`, and so is the end of `request.Close`; both ask that nothing made under
the object is left but what has leaked itself, which `CallKnown` and `ReplayKnown` give, since a
device comes after its request or replay. What leaked stays in `live` for ever.

*The export.* `OneFinisher` makes `sync.Once` usable: a single thread is anywhere in
`finishWait`, and `Stage` says how far native, the context's goroutine and the queue are
at each of its places. `Gates` identifies the gate's holder with a call that is
inside native, hence `NoCallDuringClose`: the finisher closes under the gate, and callers
look at `native` under it. `Responsible` is about who stopped the export: `contextErr`
is set exactly when the context's goroutine has reached its native call or is done, and `finishWait`
has joined that goroutine before it reads the field, so the verdict it publishes can
no longer become wrong.

*The connection.* Both theorems speak of a `Close` that leaves `opMu` half-way to wait for
a Connect. `Holders` says that whoever is in a native call under `opMu` is its owner
and that a child on its way to being attached is one of them. `CloseKnows` then says
that from its look at the children under `opMu` to the destruction a close finds
`children` empty and the connection not yet closed: the one place where it gives the
mutex away, it looks again afterwards. For `StateReported`, `News` follows a state from
the callback that has assigned it and not yet posted it, over the one pending
notification that carries it, to the handler; a new callback enters only when the
previous one has posted, and only a close that native refuses can drop a
notification (`stateLost`).

*The RTC output.* `Place` ties an operation to the places it passes, and a caller is at
a place under `opMu` exactly when it holds it, so at most one is. `Attachment` says
at each of these places how far `o.bound` and the connection's dependencies have been
changed, and that they agree when nobody holds `opMu`. `CloseKnows` is what a close has
made sure of: from its preflight on no snapshot is in native and the mailbox accepts
nothing; once native is destroyed, the only one who may still be past the check of
`o.closed` is the closer itself. `Marks` is the invariant of `GapsMarked`, built as in the
storage output but for a lane that overflows and a mailbox that a failing close
clears: `IsLast(n)` says that no frame is missing after `n`, and the callback that takes
the frame unmarked may do so only then. For `OutputOwns`, `Attachment` says what
`attach`, `detach` and `destroy` find, and `CloseKnows` that native is still open then.

*The replay.* Calls are sequences of steps, and a close prepends the closing of its
children to its own, so the invariant speaks of plans. `Closing`: an actor whose plan
still contains `destroy` holds the gate; before `destroy` there are only `closeDump`
steps, one for each dump alive; nothing is bound, registered or recording. Attaching and
starting ask for the gate, so this lasts until the destruction, unless a step
fails, which drops the plan and releases the gate. `Children` says that an output
is bound before it is registered only by the gate's holder, which is why the empty
`deps` that the close reads means that nothing is bound. A dump or a recording leaves
`closing` by one actor at a time (`OneCloser`), so what has been found done stays done.
`AfterClose` is the same for the time after: `closed` refuses whatever would attach or
start, and native runs no handler for a task of a replay it has destroyed (the generation check
of `replay.go:48-49`), so the handler that the close has waited for was the last. Two facts about
sequences carry the plans: what the head and the tail contain (`HeadAndTail`), and what a
concatenation contains when one part is put before another. For `ReplayOwns`, each of the native calls is one step of
`Ownership`: a start is `Create`, the end of a recording or dump `Destroy`, the native half
of `Attach` and `Detach` the step of that name, the Go half none. `QuietAtDestroy`
gathers what `Closing` says at the one step where the replay itself goes.

*The managed close.* The plans are those of the replay on three levels, with recovery
steps among them. `Shape` says what every plan looks like: the work inside one
connection comes first and ends with its `close` or `destroyConn`; a walk of the client
ends with `settle`; `connReleased` stands directly after what it judges. This is what
makes the recovery right: what a failure leaves has no work in it, still holds `settle`, and has every
connection the walk has not come to (`RecoveredPlan`). `ClosesConn` says
that a plan with a `destroyConn` still in it holds `opMu` of that connection, that
nothing is attached to it or recorded on it, and that every raw dump alive has its
`closeDump` ahead; attaching and starting ask for `opMu`, so this lasts. `ClosesClient`
says the same of the client: while `closing` is set nobody makes a connection, and
whoever will destroy the client has every open one still ahead of it. An open connection may
leave that list only where `closed` has been seen set. `AtStep`, `OneStopper` and `OneClient` say
that one actor at a time is in native for a recording, a dump or the client; `ConnOK`
keeps what is true of a connection after its end. `RefusedCloseRestores` follows
from the parts of `OneClient`, `ConnOK` and `Objects` that name the actor responsible;
it is not inductive by itself, since whether a failing step drops the rest of the plan
together with what it holds depends on the shape of that plan (`Fails`). For `ClientOwns`,
the connections are made under the client, recordings and raw dumps under a
connection, and outputs are attached to one; `ClosesConn` and `ClosesClient` at the
head of a plan are the guards of `Destroy`, and whoever creates or attaches finds its
parent alive, because it holds the `opMu` under which that parent would go, or has seen
`closing` unset.

Model-checked only: liveness (`EventsSettle`, `QueueSettles`, `CloseReturns`, `WaitReturns`,
`OperationsReturn`: fairness is out of the prover's reach) and `HolderGoesOn`, which uses ENABLED. Every other
property of a passing run is a theorem. The two properties of the runs that expect a
violation are false.

## 5. Not modelled

* Data: media, messages, parameters, file names, error wording, log lines.
* The test-only `paused` switch of the mailbox, nil callbacks, and panics of handlers: the
  mailbox panics again (`mailbox.go:143-146`), which ends the process; the storage queue
  recovers (`storage/queue.go:147`), which is the handler returning in the models.
* `UploadLogs`: one native call that changes no state of the SDK.
* `Client.Close` of the RTC package called inside a handler of an output: its
  preflight refuses if the output is attached then, but if another goroutine detaches
  it before and attaches it again after that, the close waits for the handler it runs
  in (`output.go:380`).
* `Client.Close` of the storage package called inside a handler of an output: if
  another goroutine attaches that output during the close, the close waits for
  the queue whose handler it runs in (`storage/output.go:680`), and does not return.
  Neither the README nor a comment says whether it may be called there.
* Memory effects below the Go memory model, except where finding 1 says so.
* The C runtime beyond its contract: callbacks come from any thread, destroying
  is refused while a callback has not returned, may be refused while a child lives (only
  `Connection` relies on it, for the handle of a Connect), and every operation may fail.

## 6. Plan

Done, in this order: `Mailbox` with its abstraction and proofs, `CallbackQueue` with proofs,
`StorageClient` and `ExportTask`, `Connection`, `RtcOutput` and `Replay`, `ManagedClose`,
`StorageOutput`, each with proofs; then `Ownership` and `DrainingExecutor`, and that the
three parents, the outputs and the queue implement them.

Next, most important first:

1. Exports as children of the storage client, in `StorageClient`, under the same
   `Ownership`.
2. The late `Idle` of `Detach` for the RTC outputs, as in `StorageOutput`.
