--------------------------- MODULE StorageClient ---------------------------
(***************************************************************************)
(* The storage client's lifecycle (storage/storage.go) with two kinds of   *)
(* children: blocking list calls (ListRecordings, ListRecordingDays) and   *)
(* replays (storage/replay.go).  Creating a child holds the client's       *)
(* operation gate c.op; Client.Close takes the gate for its snapshot and   *)
(* for the native close, and in between cancels, waits for and closes the  *)
(* children it saw.  c.mu only guards single steps and so is not a state.  *)
(*                                                                         *)
(* A native call that another goroutine can overlap is two actions, begin  *)
(* and end.  Left out: argument checks, results, UploadLogs, the client's  *)
(* own queue (nothing is ever posted to it), exports (see ExportTask), and *)
(* what a replay owns, any of which may make its Close refuse.             *)
(*                                                                         *)
(* Some names begin with Client: StorageProofs extends CallbackQueue, too. *)
(***************************************************************************)
EXTENDS Naturals

CONSTANTS Calls,     \* list calls, each made once
          Replays,   \* replays, each created at most once
          Apps,      \* goroutines that close replays
          Closers    \* goroutines in Client.Close

Objects == Calls \cup Replays
Actors == Apps \cup Closers
Free == "free"

ASSUME ClientAssumption == /\ Calls \cap Replays = {}
                           /\ Objects \cap Closers = {}
                           /\ Free \notin Objects \cup Closers

VARIABLES gate,       \* holder of c.op across two steps, or Free
          closing, clientClosed,
          children,   \* registered clientChild values
          native,     \* the native client: "open" or "closed"
          device,     \* each object's device: "none", "open", "leaked", "closed"
          handle,     \* its request or replay: "none", "live", "terminal",
                      \* "destroying", "leaked", "destroyed"; what is leaked is
                      \* alive in native, and nobody in Go will destroy it
          call,       \* where each list call is
          cancelling, \* <<goroutine, call>> pairs in request.Cancel
          cancelled,  \* calls whose request has been told to end
          todo,       \* children each closer still has to close
          closer,     \* where each closer is: <<step, call it closes>>
          replay      \* where each actor is in Replay.Close: <<step, replay>>

lifeVars == <<gate, closing, clientClosed, children, native>>
callVars == <<call, cancelling, cancelled>>
objectVars == <<device, handle, callVars>>
actorVars == <<todo, closer, replay>>
clientVars == <<lifeVars, objectVars, actorVars>>

NoReplay == <<"none", "none">>
Step(name) == <<name, "none">>

ClientInit == /\ gate = Free
              /\ closing = FALSE
              /\ clientClosed = FALSE
              /\ children = {}
              /\ native = "open"
              /\ device = [o \in Objects |-> "none"]
              /\ handle = [o \in Objects |-> "none"]
              /\ call = [c \in Calls |-> "idle"]
              /\ cancelling = {}
              /\ cancelled = {}
              /\ todo = [k \in Closers |-> {}]
              /\ closer = [k \in Closers |-> Step("idle")]
              /\ replay = [x \in Actors |-> NoReplay]

-----------------------------------------------------------------------------
(* Creating children *)

\* One call of native's destroy: who closes a device drops or reports an error, and
\* never tries again.
closeDevice(o) ==
  \E result \in {"closed", "leaked"} : device' = [device EXCEPT ![o] = result]

\* Mutant: only a finished close refuses new children.
isClosed == clientClosed

refusesChildren == clientClosed \/ closing

\* c.op.enter and openDeviceLocked; the gate stays held for the second half.
openDeviceLocked(o) ==
  /\ gate = Free
  /\ device[o] = "none"
  /\ o \in Calls => call[o] = "idle"
  /\ ~refusesChildren
  /\ gate' = o
  /\ device' = [device EXCEPT ![o] = "open"]
  /\ UNCHANGED <<closing, clientClosed, children, native, handle, callVars,
                 actorVars>>

\* StartList or NewReplay, registerChildLocked, c.op.leave.
startChild(o) ==
  /\ gate = o
  /\ handle' = [handle EXCEPT ![o] = "live"]
  /\ children' = children \cup {o}
  /\ call' = [c \in Calls |-> IF c = o THEN "waiting" ELSE call[c]]
  /\ gate' = Free
  /\ UNCHANGED <<closing, clientClosed, native, device, cancelling, cancelled,
                 actorVars>>

\* The native start failed: the device is closed under the gate, the error dropped.
startFailed(o) ==
  /\ gate = o
  /\ closeDevice(o)
  /\ call' = [c \in Calls |-> IF c = o THEN "done" ELSE call[c]]
  /\ gate' = Free
  /\ UNCHANGED <<closing, clientClosed, children, native, handle, cancelling, cancelled,
                 actorVars>>

-----------------------------------------------------------------------------
(* A list call after its request has started *)

\* Native reports the end of the request, by itself or because of a cancel.
requestEnds(c) ==
  /\ handle[c] = "live"
  /\ handle' = [handle EXCEPT ![c] = "terminal"]
  /\ UNCHANGED <<lifeVars, device, callVars, actorVars>>

\* Mutant: there is no cancel function to call.
noCancel(c) == UNCHANGED cancelled

requestCancel(c) == cancelled' = cancelled \cup {c}

\* ctx.Done wins the select: the caller cancels its own request, then waits.
contextCancels(c) ==
  /\ call[c] = "waiting"
  /\ call' = [call EXCEPT ![c] = "cancelled"]
  /\ cancelling' = cancelling \cup {<<c, c>>}
  /\ requestCancel(c)
  /\ UNCHANGED <<lifeVars, device, handle, actorVars>>

contextCancelReturns(c) ==
  /\ <<c, c>> \in cancelling
  /\ cancelling' = cancelling \ {<<c, c>>}
  /\ UNCHANGED <<lifeVars, device, handle, call, cancelled, actorVars>>

destroyRequest(c) ==
  /\ call[c] \in {"waiting", "cancelled"}
  /\ <<c, c>> \notin cancelling
  /\ handle[c] = "terminal"
  /\ call' = [call EXCEPT ![c] = "closing"]
  /\ handle' = [handle EXCEPT ![c] = "destroying"]
  /\ UNCHANGED <<lifeVars, device, cancelling, cancelled, actorVars>>

\* destroyAfterTerminal succeeds, gives up on IN_USE, or fails with another code.
requestDestroyed(c) ==
  /\ handle[c] = "destroying"
  /\ \E result \in {"destroyed", "leaked"} : handle' = [handle EXCEPT ![c] = result]
  /\ UNCHANGED <<lifeVars, device, callVars, actorVars>>

\* Mutant: the device is closed without waiting for request.Close.
closeDeviceEarly(c) ==
  /\ call[c] = "closing"
  /\ closeDevice(c)
  /\ call' = [call EXCEPT ![c] = "leaving"]
  /\ UNCHANGED <<lifeVars, handle, cancelling, cancelled, actorVars>>

\* Whatever has come of the request, the device is closed next.
closeCallDevice(c) ==
  /\ call[c] = "closing"
  /\ handle[c] # "destroying"
  /\ closeDevice(c)
  /\ call' = [call EXCEPT ![c] = "leaving"]
  /\ UNCHANGED <<lifeVars, handle, cancelling, cancelled, actorVars>>

unregisterChild(o) == children' = children \ {o}

\* The deferred unregisterChild and close(call.done).
leaveCall(c) ==
  /\ call[c] = "leaving"
  /\ unregisterChild(c)
  /\ call' = [call EXCEPT ![c] = "done"]
  /\ UNCHANGED <<gate, closing, clientClosed, native, device, handle, cancelling,
                 cancelled, actorVars>>

-----------------------------------------------------------------------------
(* Replay.Close, by the application or by Client.Close *)

\* The replay is destroyed, its device not yet.
closesReplay(x, r) == replay[x] \in {"draining", "unregistered"} \X {r}

MayCloseReplay(x, r) ==
  /\ replay[x] = NoReplay
  /\ handle[r] \in {"live", "destroyed"}
  /\ x \in Closers => closer[x] = Step("closing") /\ r \in todo[x]

\* Under r.op: stop and destroy the native replay, mark the replay closed.
closeReplay(x, r) ==
  /\ MayCloseReplay(x, r)
  /\ handle[r] = "live"
  /\ handle' = [handle EXCEPT ![r] = "destroyed"]
  /\ replay' = [replay EXCEPT ![x] = <<"draining", r>>]
  /\ UNCHANGED <<lifeVars, device, callVars, todo, closer>>

\* finishNativeClose has left r.op; now the queue drains and the replay leaves.
unregisterReplay(x) ==
  /\ replay[x][1] = "draining"
  /\ unregisterChild(replay[x][2])
  /\ replay' = [replay EXCEPT ![x][1] = "unregistered"]
  /\ UNCHANGED <<gate, closing, clientClosed, native, objectVars, todo, closer>>

\* If this fails, Client.Close finds the replay released() and goes on.
closeReplayDevice(x) ==
  /\ replay[x][1] = "unregistered"
  /\ closeDevice(replay[x][2])
  /\ replay' = [replay EXCEPT ![x] = NoReplay]
  /\ todo' = [k \in Closers |-> IF k = x THEN todo[k] \ {replay[x][2]} ELSE todo[k]]
  /\ UNCHANGED <<lifeVars, handle, callVars, closer>>

\* Somebody else has closed the replay: Client.Close takes that for success.
skipClosedReplay(k, r) ==
  /\ MayCloseReplay(k, r)
  /\ handle[r] = "destroyed"
  /\ todo' = [todo EXCEPT ![k] = @ \ {r}]
  /\ UNCHANGED <<lifeVars, objectVars, closer, replay>>

-----------------------------------------------------------------------------
(* Client.Close *)

mayClose(k) == ~clientClosed /\ ~closing

beginClose(k) ==
  /\ closer[k] = Step("idle")
  /\ gate = Free
  /\ mayClose(k)
  /\ closing' = TRUE
  /\ todo' = [todo EXCEPT ![k] = children]
  /\ closer' = [closer EXCEPT ![k] = Step("closing")]
  /\ UNCHANGED <<gate, clientClosed, children, native, objectVars, replay>>

\* clientCall.closeFromClient: cancel the request, then wait for the call.
cancelCall(k, c) ==
  /\ closer[k] = Step("closing")
  /\ replay[k] = NoReplay
  /\ c \in todo[k]
  /\ cancelling' = cancelling \cup {<<k, c>>}
  /\ requestCancel(c)
  /\ closer' = [closer EXCEPT ![k] = <<"cancelling", c>>]
  /\ UNCHANGED <<lifeVars, device, handle, call, todo, replay>>

cancelReturns(k, c) ==
  /\ closer[k] = <<"cancelling", c>>
  /\ cancelling' = cancelling \ {<<k, c>>}
  /\ closer' = [closer EXCEPT ![k] = <<"awaiting", c>>]
  /\ UNCHANGED <<lifeVars, device, handle, call, cancelled, todo, replay>>

callDone(c) == call[c] = "done"

awaitCall(k, c) ==
  /\ closer[k] = <<"awaiting", c>>
  /\ callDone(c)
  /\ todo' = [todo EXCEPT ![k] = @ \ {c}]
  /\ closer' = [closer EXCEPT ![k] = Step("closing")]
  /\ UNCHANGED <<lifeVars, objectVars, replay>>

\* A child refuses, in its preflight or in its Close: the client stays open.  A
\* closed replay does so, too, while its queue drains (preflightClientClose).
closeRefused(k) ==
  /\ closer[k] = Step("closing")
  /\ replay[k] = NoReplay
  /\ \E r \in todo[k] \cap Replays :
       handle[r] = "live" \/ \E x \in Actors : replay[x] = <<"draining", r>>
  /\ closing' = FALSE
  /\ todo' = [todo EXCEPT ![k] = {}]
  /\ closer' = [closer EXCEPT ![k] = Step("idle")]
  /\ UNCHANGED <<gate, clientClosed, children, native, objectVars, replay>>

beginNativeClose(k) ==
  /\ closer[k] = Step("closing")
  /\ replay[k] = NoReplay
  /\ todo[k] = {}
  /\ gate = Free
  /\ gate' = k
  /\ closer' = [closer EXCEPT ![k] = Step("native")]
  /\ UNCHANGED <<closing, clientClosed, children, native, objectVars, todo, replay>>

\* Mutant: the error path forgets to leave the gate.
nativeCloseFailedHoldingGate(k) ==
  /\ closer[k] = Step("native")
  /\ closing' = FALSE
  /\ closer' = [closer EXCEPT ![k] = Step("idle")]
  /\ UNCHANGED <<gate, clientClosed, children, native, objectVars, todo, replay>>

nativeCloseFailed(k) ==
  /\ closer[k] = Step("native")
  /\ gate' = Free
  /\ closing' = FALSE
  /\ closer' = [closer EXCEPT ![k] = Step("idle")]
  /\ UNCHANGED <<clientClosed, children, native, objectVars, todo, replay>>

\* Native is taken at its least: it may, but need not, refuse to destroy the client,
\* or above a device, while something made from it is alive.
nativeClosed(k) ==
  /\ closer[k] = Step("native")
  /\ native' = "closed"
  /\ clientClosed' = TRUE
  /\ closing' = FALSE
  /\ gate' = Free
  /\ closer' = [closer EXCEPT ![k] = Step("idle")]
  /\ UNCHANGED <<children, objectVars, todo, replay>>

-----------------------------------------------------------------------------
NewChild(o) == openDeviceLocked(o) \/ startChild(o) \/ startFailed(o)

ListCall(c) == \/ contextCancelReturns(c)
               \/ destroyRequest(c)
               \/ requestDestroyed(c)
               \/ closeCallDevice(c)
               \/ leaveCall(c)

FinishReplayClose(x) == unregisterReplay(x) \/ closeReplayDevice(x)

CloseChild(k) == \/ \E c \in Calls : \/ cancelCall(k, c)
                                     \/ cancelReturns(k, c)
                                     \/ awaitCall(k, c)
                 \/ \E r \in Replays : closeReplay(k, r) \/ skipClosedReplay(k, r)
                 \/ FinishReplayClose(k)

EndNativeClose(k) == nativeCloseFailed(k) \/ nativeClosed(k)

CloseClient(k) == \/ CloseChild(k)
                  \/ beginNativeClose(k)
                  \/ EndNativeClose(k)

ClientNext == \/ \E o \in Objects : NewChild(o)
              \/ \E c \in Calls : requestEnds(c) \/ contextCancels(c) \/ ListCall(c)
              \/ \E a \in Apps : \/ \E r \in Replays : closeReplay(a, r)
                                 \/ FinishReplayClose(a)
              \/ \E k \in Closers : beginClose(k) \/ closeRefused(k) \/ CloseClient(k)

ClientSpec == ClientInit /\ [][ClientNext]_clientVars

(***************************************************************************)
(* Goroutines run on, native calls return, and Native ends a request that  *)
(* was cancelled; a request nobody cancels may take for ever, and nobody   *)
(* has to create, cancel or close anything.                                *)
(***************************************************************************)
ClientFairness ==
  /\ \A o \in Objects : WF_clientVars(startChild(o) \/ startFailed(o))
  /\ \A c \in Calls : /\ WF_clientVars(ListCall(c))
                      /\ WF_clientVars(c \in cancelled /\ requestEnds(c))
  /\ \A x \in Actors : WF_clientVars(FinishReplayClose(x))
  /\ \A k \in Closers : WF_clientVars(CloseClient(k))

ClientFairSpec == ClientSpec /\ ClientFairness

-----------------------------------------------------------------------------
(* Properties *)

\* Types, and the gate is held exactly by whoever is between two steps under it.
ClientTypeOK ==
  /\ gate \in Objects \cup Closers \cup {Free}
  /\ closing \in BOOLEAN /\ clientClosed \in BOOLEAN
  /\ children \in SUBSET Objects
  /\ native \in {"open", "closed"}
  /\ device \in [Objects -> {"none", "open", "leaked", "closed"}]
  /\ handle \in [Objects -> {"none", "live", "terminal", "destroying", "leaked",
                             "destroyed"}]
  /\ call \in [Calls -> {"idle", "waiting", "cancelled", "closing", "leaving",
                         "done"}]
  /\ cancelling \in SUBSET ((Calls \cup Closers) \X Calls)
  /\ cancelled \in SUBSET Calls
  /\ todo \in [Closers -> SUBSET Objects]
  /\ \A k \in Closers : gate = k <=> closer[k] = Step("native")

\* While Client.Close is in the native close, and for ever once that has succeeded,
\* every list call has left or has never begun, and what is still alive in native is
\* what native refused to give up (leaked), besides the device of a replay that
\* another goroutine has closed and whose device it will close next; this however
\* creation raced the close and whatever failed before
\* (storage.go:75-99, 142-145, 167-168, 306-347, replay.go:289-292).
ChildrenLeaveFirst ==
  native = "closed" \/ (\E k \in Closers : closer[k] = Step("native")) =>
    /\ \A c \in Calls : call[c] \in {"idle", "done"}
    /\ \A o \in Objects :
         /\ handle[o] \notin {"live", "terminal", "destroying"}
         /\ device[o] = "open" => \E x \in Actors : closesReplay(x, o)

\* What native has: the client, devices, and the requests and replays opened on
\* them.  What is leaked is alive, but protects its owners no more.  A replay's device
\* is protected by the replay (and by the gate before there is one) and may be closed
\* after the client: see ChildrenLeaveFirst.
theClient == {Step("client")}
Tagged(kind, S) == {<<kind, o>> : o \in S}
deviceIs(state) == {o \in Objects : device[o] = state}
handleIn(states) == {o \in Objects : handle[o] \in states}
inUse == handleIn({"live", "terminal", "destroying"})

Own == INSTANCE Ownership WITH
         Objects <- Tagged("device", Objects) \cup Tagged("handle", Objects) \cup theClient,
         Attachable <- {},
         Leakable <- Tagged("device", Objects) \cup Tagged("handle", Calls),
         live <- Tagged("device", deviceIs("open") \cup deviceIs("leaked"))
                   \cup Tagged("handle", inUse \cup handleIn({"leaked"}))
                   \cup (IF native = "open" THEN theClient ELSE {}),
         gone <- Tagged("device", deviceIs("closed"))
                   \cup Tagged("handle", handleIn({"destroyed"}))
                   \cup (IF native = "open" THEN {} ELSE theClient),
         owned <- (Tagged("handle", inUse) \X theClient)
                    \cup {<< <<"handle", o>>, <<"device", o>> >> : o \in inUse}
                    \cup (Tagged("device", Calls \cap deviceIs("open")) \X theClient),
         attached <- {}

\* Requests, replays and the devices of calls are made under a client that native
\* has, and a device; the client and the devices go when all of theirs have gone
\* or have been given up by an attempt that failed when its turn had come, however
\* creation, cancellation and failing closes race
\* (storage.go:75-99, 142-145, 167-168, 306-347).
ImplementsOwnership == Own!Spec

\* Client.Close returns, with success or an error: the cancel it sends ends the
\* calls it waits for (storage.go:42-49, 335-364).
CloseReturns == \A k \in Closers : closer[k] # Step("idle") ~> closer[k] = Step("idle")

\* Claimed by operation_gate.go:5-6: "serializes every native handle use with
\* Close": no goroutine is inside request.Cancel once request.Close has begun.
CancelSerializedWithDestroy ==
  \A c \in Calls : handle[c] \in {"destroying", "destroyed", "leaked"} =>
    \A x \in Calls \cup Closers : <<x, c>> \notin cancelling
=============================================================================
