----------------------------- MODULE RtcOutput -----------------------------
(***************************************************************************)
(* An RTC media output (output.go): attaching to and detaching from a      *)
(* connection, snapshots, Close, the client's detachFromClient, and the    *)
(* native state, error and frame callbacks, one of which can turn into a   *)
(* Detach of its own.  The module is VideoOutput; the three others are the *)
(* same code without snapshots.                                            *)
(*                                                                         *)
(* o.opMu is held over the steps of an operation; o.mu guards single       *)
(* steps, and so do the connection's locks.  As in Connection, the mailbox *)
(* is the SerialExecutor that Mailbox implements.  Left out: nil handlers, *)
(* argument checks and the content of frames.                              *)
(***************************************************************************)
EXTENDS Naturals, FiniteSets

CONSTANTS Connections,      \* connections the output may be attached to
          Users,            \* goroutines that use the output
          Handler,          \* the goroutine of the output's mailbox
          Capacity,         \* mailboxDataCapacity
          ControlCapacity,  \* mailboxControlCapacity
          MaxEvents,        \* bound on accepted callbacks; no bound in the code
          MaxFrames         \* bound on frame numbers; no bound in the code

Callers == Users \cup {Handler}
Free == "free"
Unbound == "unbound"

ASSUME OutputAssumption == /\ Capacity \in Nat \ {0}
                           /\ ControlCapacity \in Nat \ {0}
                           /\ MaxEvents \in Nat /\ MaxFrames \in Nat
                           /\ Free \notin Callers /\ Unbound \notin Connections

Operations == {"Attach", "Detach", "Close", "detachFromClient", "TakeSnapshot"}

VARIABLES opMu,         \* the caller that holds o.opMu, or Free
          bound,        \* o.bound
          closed, state, dropped,
          snapshots,    \* o.snapshot
          native,       \* the native output: "open" or "closed"
          attached,     \* connections that have it among their dependencies
          released,     \* connections that have been closed
          op,           \* the operation each caller is in, or "none"
          at,           \* where in it the caller is
          target,       \* the connection it attaches to
          callback,     \* the state a native state callback is about to post
          frame,        \* the frame callback: "none", "plain" or "marked"
          frameNumber,  \* number of the frame native delivered last
          what,         \* what each pending callback is for
          lastFrame,    \* history: number of the last frame handled
          cleared,      \* history: a close has dropped a frame since then
          accepted, pending, running, phase  \* the mailbox

Mailbox == INSTANCE SerialExecutor

\* A callback: its kind, and a frame's number and Discontinuity.
Callback(kind, frameNo, mark) == [kind |-> kind, frame |-> frameNo, marked |-> mark]
Nothing == Callback("none", 0, FALSE)

mailboxVars == <<accepted, pending, running, phase>>
objectVars == <<bound, closed, native, attached, released>>
callVars == <<op, at, target>>
frameVars == <<dropped, frame, frameNumber, lastFrame, cleared>>
vars == <<opMu, state, snapshots, callback, objectVars, callVars, frameVars, what,
          mailboxVars>>

Init == /\ opMu = Free
        /\ bound = Unbound
        /\ closed = FALSE
        /\ state = "Idle"
        /\ dropped = FALSE
        /\ snapshots = 0
        /\ native = "open"
        /\ attached = {}
        /\ released = {}
        /\ op = [u \in Callers |-> "none"]
        /\ at = [u \in Callers |-> "out"]
        /\ target = [u \in Callers |-> Unbound]
        /\ callback = "none"
        /\ frame = "none"
        /\ frameNumber = 0
        /\ what = [e \in 1 .. MaxEvents |-> Nothing]
        /\ lastFrame = 0
        /\ cleared = FALSE
        /\ Mailbox!Init

-----------------------------------------------------------------------------
(* Calls *)

\* A caller goes on from one place to another inside its operation.
Step(u, from, to) == /\ at[u] = from
                     /\ at' = [at EXCEPT ![u] = to]
                     /\ UNCHANGED <<op, target>>

Return(u) == /\ op' = [op EXCEPT ![u] = "none"]
             /\ at' = [at EXCEPT ![u] = "out"]
             /\ target' = [target EXCEPT ![u] = Unbound]

Call(u, name) == /\ op[u] = "none"
                 /\ op' = [op EXCEPT ![u] = name]
                 /\ at' = [at EXCEPT ![u] = "entering"]

\* Handlers call too; Client.Close refuses to run inside one.
call(u, name) ==
  /\ u = Handler => running # {} /\ name # "detachFromClient"
  /\ name # "Close"
  /\ Call(u, name)
  /\ \/ name = "Attach" /\ \E c \in Connections : target' = [target EXCEPT ![u] = c]
     \/ name # "Attach" /\ UNCHANGED target
  /\ UNCHANGED <<opMu, state, snapshots, callback, objectVars, frameVars,
                 what, mailboxVars>>

\* Close looks first without opMu, and gives up inside a handler.
preflightClose(u) ==
  /\ ~closed
  /\ snapshots = 0
  /\ running = {} /\ phase # "closing"
  /\ Call(u, "Close")
  /\ UNCHANGED <<opMu, state, snapshots, callback, objectVars, target, frameVars,
                 what, mailboxVars>>

Lock(u, to) == /\ opMu = Free
               /\ opMu' = u
               /\ Step(u, "entering", to)

mayAttach == ~closed /\ bound = Unbound /\ snapshots = 0

mayDetach == ~closed /\ bound # Unbound /\ snapshots = 0

enter(u) ==
  /\ \/ op[u] = "Attach" /\ mayAttach /\ Lock(u, "attaching")
     \/ op[u] \in {"Detach", "detachFromClient"} /\ mayDetach /\ Lock(u, "detaching")
     \/ op[u] = "Close" /\ Lock(u, "locked")
  /\ UNCHANGED <<state, snapshots, callback, objectVars, frameVars, what,
                 mailboxVars>>

\* ErrClosed, ErrInUse or ErrNotBound.
refused(u) ==
  /\ at[u] = "entering"
  /\ opMu = Free
  /\ \/ op[u] = "Attach" /\ ~mayAttach
     \/ op[u] \in {"Detach", "detachFromClient"} /\ ~mayDetach
     \/ op[u] = "TakeSnapshot" /\ (closed \/ snapshots # 0)
  /\ Return(u)
  /\ UNCHANGED <<opMu, state, snapshots, callback, objectVars, frameVars,
                 what, mailboxVars>>

-----------------------------------------------------------------------------
(* Attach *)

\* attachDependency, under the connection's own opMu.
attach(u) ==
  /\ Step(u, "attaching", "attached")
  /\ target[u] \notin released
  /\ attached' = attached \cup {target[u]}
  /\ UNCHANGED <<opMu, state, snapshots, callback, bound, closed, native,
                 released, frameVars, what, mailboxVars>>

\* The connection is closed, or native refuses.
attachFails(u) ==
  /\ at[u] = "attaching"
  /\ opMu' = Free
  /\ Return(u)
  /\ UNCHANGED <<state, snapshots, callback, objectVars, frameVars, what,
                 mailboxVars>>

bind(u) ==
  /\ at[u] = "attached"
  /\ bound' = target[u]
  /\ opMu' = Free
  /\ Return(u)
  /\ UNCHANGED <<state, snapshots, callback, closed, native, attached, released,
                 frameVars, what, mailboxVars>>

-----------------------------------------------------------------------------
(* Detach: detachLocked, also inside Close *)

detach(u) ==
  /\ Step(u, "detaching", "detached")
  /\ bound \notin released
  /\ attached' = attached \ {bound}
  /\ UNCHANGED <<opMu, state, snapshots, callback, bound, closed, native,
                 released, frameVars, what, mailboxVars>>

cancelClose == Mailbox!EndClose /\ phase' = "open"

\* Mutant: opMu stays locked.
nativeFailsLocked(u) ==
  /\ at[u] \in {"detaching", "destroying"}
  /\ Return(u)
  /\ UNCHANGED <<opMu, state, snapshots, callback, objectVars, frameVars, what,
                 mailboxVars>>

\* Detaching or destroying fails: a Close reopens the mailbox.
nativeFails(u) ==
  /\ at[u] \in {"detaching", "destroying"}
  /\ opMu' = Free
  /\ \/ op[u] = "Close" /\ cancelClose
     \/ op[u] # "Close" /\ UNCHANGED mailboxVars
  /\ Return(u)
  /\ UNCHANGED <<state, snapshots, callback, objectVars, frameVars, what>>

\* bound is cleared and the state is Idle; its notification is still to come.
unbind(u) ==
  /\ Step(u, "detached", IF state = "Idle" THEN "unbound" ELSE "notifying")
  /\ bound' = Unbound
  /\ state' = "Idle"
  /\ UNCHANGED <<opMu, snapshots, callback, closed, native, attached, released,
                 frameVars, what, mailboxVars>>

Carrying(kind) == {e \in pending : what[e].kind = kind}

\* What has run, was superseded or dropped is forgotten.
Accept(new, superseded) ==
  /\ accepted < MaxEvents
  /\ Mailbox!Accept
  /\ pending' = (pending \ superseded) \cup {accepted'}
  /\ what' = [e \in 1 .. MaxEvents |-> IF e \in superseded THEN Nothing
                                      ELSE IF e = accepted' THEN new ELSE what[e]]

Enqueue(new) == Accept(new, {})

\* A newer state or stop request takes the place of the one that waits.
Supersede(kind) == Accept(Callback(kind, 0, FALSE), Carrying(kind))

Forget(events) ==
  what' = [e \in 1 .. MaxEvents |-> IF e \in events THEN Nothing ELSE what[e]]

postLatest == \/ Supersede("state")
              \/ phase # "open" /\ UNCHANGED <<what, mailboxVars>>

postIdle(u) ==
  /\ Step(u, "notifying", "unbound")
  /\ postLatest
  /\ UNCHANGED <<opMu, state, snapshots, callback, objectVars, frameVars>>

\* Detach returns; detachFromClient goes on to waitIdle, Close to native.
afterDetach(u) ==
  /\ at[u] = "unbound"
  /\ \/ op[u] = "Detach" /\ opMu' = Free /\ Return(u)
     \/ op[u] = "detachFromClient" /\ opMu' = Free /\ Step(u, "unbound", "waitIdle")
     \/ op[u] = "Close" /\ Step(u, "unbound", "destroying") /\ UNCHANGED opMu
  /\ UNCHANGED <<state, snapshots, callback, objectVars, frameVars, what,
                 mailboxVars>>

waitIdle(u) ==
  /\ at[u] = "waitIdle"
  /\ pending = {} /\ running = {}
  /\ Return(u)
  /\ UNCHANGED <<opMu, state, snapshots, callback, objectVars, frameVars,
                 what, mailboxVars>>

-----------------------------------------------------------------------------
(* Snapshots: opMu is not held during the native call *)

beginSnapshot(u) ==
  /\ op[u] = "TakeSnapshot"
  /\ Step(u, "entering", "snapshot")
  /\ opMu = Free
  /\ ~closed /\ snapshots = 0
  /\ snapshots' = snapshots + 1
  /\ UNCHANGED <<opMu, state, callback, objectVars, frameVars, what,
                 mailboxVars>>

endSnapshot(u) ==
  /\ at[u] = "snapshot"
  /\ opMu = Free
  /\ snapshots' = snapshots - 1
  /\ Return(u)
  /\ UNCHANGED <<opMu, state, callback, objectVars, frameVars, what,
                 mailboxVars>>

-----------------------------------------------------------------------------
(* Close *)

\* Mutants: no second look at snapshots; a handler is waited for.
mayCloseAnyway == ~closed /\ running = {}
closeBusy == closed \/ snapshots # 0

mayClose == ~closed /\ snapshots = 0 /\ running = {}
closeRefused == closed \/ snapshots # 0 \/ running # {}

beginClose(u) ==
  /\ Step(u, "locked", IF bound = Unbound THEN "destroying" ELSE "detaching")
  /\ mayClose
  /\ Mailbox!BeginClose
  /\ cleared' = (cleared \/ Carrying("frame") # {})
  /\ Forget(pending)
  /\ UNCHANGED <<opMu, state, snapshots, callback, objectVars, dropped, frame,
                 frameNumber, lastFrame>>

\* Another Close came first, or a snapshot or a handler started meanwhile.
beginCloseRefused(u) ==
  /\ at[u] = "locked"
  /\ closeRefused
  /\ opMu' = Free
  /\ Return(u)
  /\ UNCHANGED <<state, snapshots, callback, objectVars, frameVars, what,
                 mailboxVars>>

\* Native refuses while a callback has not returned.
destroy(u) ==
  /\ Step(u, "destroying", "destroyed")
  /\ callback = "none" /\ frame = "none"
  /\ native' = "closed"
  /\ UNCHANGED <<opMu, state, snapshots, callback, bound, closed, attached,
                 released, frameVars, what, mailboxVars>>

finishClose(u) ==
  /\ at[u] = "destroyed"
  /\ closed' = TRUE
  /\ Mailbox!EndClose /\ phase' = "closed"
  /\ opMu' = Free
  /\ Return(u)
  /\ UNCHANGED <<state, snapshots, callback, bound, native, attached, released,
                 frameVars, what>>

-----------------------------------------------------------------------------
(* Native callbacks, and the handlers they become *)

Delivering == native = "open" /\ attached # {}

\* setState in OnState; a repeated state ends there.
OnState(s) ==
  /\ Delivering
  /\ callback = "none"
  /\ state # s
  /\ state' = s
  /\ callback' = s
  /\ UNCHANGED <<opMu, snapshots, objectVars, callVars, frameVars, what,
                 mailboxVars>>

postState ==
  /\ callback # "none"
  /\ callback' = "none"
  /\ postLatest
  /\ UNCHANGED <<opMu, state, snapshots, objectVars, callVars, frameVars>>

\* An error that finds the control lane full becomes a request to detach.
OnError ==
  /\ Delivering
  /\ IF Cardinality(Carrying("error")) < ControlCapacity
     THEN Enqueue(Callback("error", 0, FALSE))
     ELSE Supersede("stop")
  /\ UNCHANGED <<opMu, state, snapshots, callback, objectVars, callVars,
                 frameVars>>

\* The callback takes the mark that a dropped frame has left.  Native sets
\* Discontinuity itself when it leaves out a frame.
OnFrame(skip) ==
  /\ Delivering
  /\ frame = "none"
  /\ frameNumber + skip < MaxFrames
  /\ frameNumber' = frameNumber + skip + 1
  /\ frame' = IF dropped \/ skip > 0 THEN "marked" ELSE "plain"
  /\ dropped' = FALSE
  /\ UNCHANGED <<opMu, state, snapshots, callback, objectVars, callVars,
                 lastFrame, cleared, what, mailboxVars>>

\* Mutant: no mark is left.
forgetDropped == UNCHANGED dropped

markDropped == dropped' = TRUE

hasRoom == Cardinality(Carrying("frame")) < Capacity

postFrame ==
  /\ frame # "none"
  /\ frame' = "none"
  /\ \/ /\ hasRoom
        /\ Enqueue(Callback("frame", frameNumber, frame = "marked"))
        /\ UNCHANGED dropped
     \/ /\ phase # "open" \/ ~hasRoom
        /\ markDropped
        /\ UNCHANGED <<what, mailboxVars>>
  /\ UNCHANGED <<opMu, state, snapshots, callback, objectVars, callVars,
                 frameNumber, lastFrame, cleared>>

\* The stop request goes first, then the oldest callback (Mailbox).
IsNext(e) == \/ what[e].kind = "stop"
             \/ Carrying("stop") = {} /\ \A f \in pending : e <= f

\* A frame shows its number; a stop request calls Detach.
startHandler(e) ==
  /\ IsNext(e)
  /\ Mailbox!Start(e)
  /\ Forget({e})
  /\ \/ /\ what[e].kind = "stop"
        /\ Call(Handler, "Detach")
        /\ UNCHANGED <<target, lastFrame, cleared>>
     \/ /\ what[e].kind = "frame"
        /\ lastFrame' = what[e].frame
        /\ cleared' = FALSE
        /\ UNCHANGED callVars
     \/ /\ what[e].kind \in {"state", "error"}
        /\ UNCHANGED <<callVars, lastFrame, cleared>>
  /\ UNCHANGED <<opMu, state, snapshots, callback, objectVars, dropped, frame,
                 frameNumber>>

endHandler ==
  /\ op[Handler] = "none"
  /\ Mailbox!Return
  /\ UNCHANGED <<opMu, state, snapshots, callback, objectVars, callVars,
                 frameVars, what>>

\* Conn.Close: refused while the connection has dependencies.
connectionCloses(c) ==
  /\ c \notin attached \cup released
  /\ released' = released \cup {c}
  /\ UNCHANGED <<opMu, state, snapshots, callback, bound, closed, native,
                 attached, callVars, frameVars, what, mailboxVars>>

-----------------------------------------------------------------------------
Attach(u) == attach(u) \/ attachFails(u) \/ bind(u)

Detach(u) == detach(u) \/ unbind(u) \/ postIdle(u) \/ afterDetach(u)

Close(u) == beginClose(u) \/ beginCloseRefused(u) \/ destroy(u) \/ finishClose(u)

Operate(u) == \/ enter(u) \/ refused(u) \/ beginSnapshot(u) \/ endSnapshot(u)
              \/ Attach(u) \/ Detach(u) \/ Close(u) \/ nativeFails(u) \/ waitIdle(u)

Deliver == postState \/ postFrame

Handle == endHandler \/ \E e \in pending : startHandler(e)

Next == \/ \E u \in Callers : \/ \E name \in Operations : call(u, name)
                              \/ preflightClose(u)
                              \/ Operate(u)
        \/ \E s \in {"Idle", "Delivering"} : OnState(s)
        \/ OnError \/ \E skip \in {0, 1} : OnFrame(skip)
        \/ Deliver \/ Handle
        \/ \E c \in Connections : connectionCloses(c)

Spec == Init /\ [][Next]_vars

-----------------------------------------------------------------------------
(* Properties *)

Holding == {"attaching", "attached", "detaching", "detached", "notifying",
            "unbound", "locked", "destroying", "destroyed"}

\* Types; o.opMu is held exactly by the caller that is between two locked steps.
TypeOK ==
  /\ opMu \in Callers \cup {Free}
  /\ bound \in Connections \cup {Unbound}
  /\ closed \in BOOLEAN /\ dropped \in BOOLEAN /\ cleared \in BOOLEAN
  /\ state \in {"Idle", "Delivering"}
  /\ callback \in {"none", "Idle", "Delivering"}
  /\ snapshots \in {0, 1}
  /\ native \in {"open", "closed"}
  /\ attached \subseteq Connections /\ released \subseteq Connections
  /\ op \in [Callers -> Operations \cup {"none"}]
  /\ target \in [Callers -> Connections \cup {Unbound}]
  /\ frame \in {"none", "plain", "marked"}
  /\ frameNumber \in 0 .. MaxFrames /\ lastFrame \in 0 .. frameNumber
  /\ accepted \in 0 .. MaxEvents /\ phase \in {"open", "closing", "closed"}
  /\ \A u \in Callers : opMu = u <=> at[u] \in Holding

\* The native output is destroyed only when no snapshot is being taken, nothing
\* is attached and no handler runs: none that started between the preflight and
\* the lock is overlooked (output.go:413-466).
NothingUsesDestroyed ==
  native = "closed" => /\ snapshots = 0 /\ attached = {} /\ running = {}
                       /\ callback = "none" /\ frame = "none"

\* The output and the connections, and where it is a dependency.
theOutput == <<"output", "native">>
connectionsOf(S) == {<<"connection", c>> : c \in S}

Own == INSTANCE Ownership WITH
         Objects <- {theOutput} \cup connectionsOf(Connections),
         Attachable <- {theOutput},
         Leakable <- {},
         live <- connectionsOf(Connections \ released)
                   \cup (IF native = "open" THEN {theOutput} ELSE {}),
         gone <- connectionsOf(released)
                   \cup (IF native = "open" THEN {} ELSE {theOutput}),
         owned <- {},
         attached <- {theOutput} \X connectionsOf(attached)

\* An output is a dependency of one connection at a time, which is open, and
\* neither of them is destroyed before that has ended, whatever Attach, Detach,
\* Close and the detach of a stop request overlap (output.go:293-466).
ImplementsOwnership == Own!Spec

\* README.md:51: when frames are missing between two that the application is
\* given, the second has Discontinuity set, unless a Close that failed dropped
\* some of them (output.go:66-73, 278-286).
GapsMarked ==
  [][\A e \in running' \ running :
       what[e].kind = "frame" => \/ what[e].frame = lastFrame + 1
                                 \/ what[e].marked
                                 \/ cleared]_vars

\* Whoever holds opMu can go on whatever the others do: a Close that finds a
\* handler running gives up and does not wait, for that handler may itself be
\* waiting for opMu in a Detach (output.go:191-203, 427-447).  The last callback
\* the model has room for is left out: a notification may wait for its number.
HolderGoesOn ==
  accepted < MaxEvents => \A u \in Callers : opMu = u => ENABLED Operate(u)
=============================================================================
