----------------------------- MODULE Connection -----------------------------
(***************************************************************************)
(* One RTC connection (conn.go): Connect with its native attempt, calls    *)
(* under the operation mutex opMu, outputs attaching and recordings        *)
(* starting, native state and command callbacks, and Close with its two    *)
(* looks at the dependencies, its wait for a pending Connect and its error *)
(* paths.  c.mu guards single steps, and Connect's start as a whole.       *)
(*                                                                         *)
(* The mailbox is used through what Mailbox is shown to implement, the     *)
(* SerialExecutor, whose steps are conjuncts of the actions here.  Left    *)
(* out: raw dumps (closed between Close's steps), the client's registry,   *)
(* argument checks and the data of calls.                                  *)
(***************************************************************************)
EXTENDS Naturals

CONSTANTS Connecters,  \* Connect calls; a name is used again after its attempt
          Closers,     \* goroutines in Close
          Outputs,     \* outputs that attach to the connection
          Recordings,  \* recording tasks, each started at most once
          Users,       \* goroutines in other native calls, such as Disconnect
          Handler,     \* the goroutine of the mailbox
          MaxEvents    \* bound on accepted callbacks; no bound in the code

Children == Outputs \cup Recordings
Callers == Users \cup {Handler}
Free == "free"
NoOne == "none"

ASSUME ConnectionAssumption ==
  /\ MaxEvents \in Nat
  /\ Callers \cap Children = {} /\ Callers \cap Closers = {} /\ Children \cap Closers = {}
  /\ Free \notin Callers \cup Children \cup Closers
  /\ NoOne \notin Connecters

States == {"Connecting", "Connected", "Disconnected"}
Live == {"Connecting", "Connected"}

VARIABLES opMu,        \* the holder of c.opMu over several steps, or Free
          native,      \* the native connection: "open" or "closed"
          closed,
          state,       \* c.state
          children,    \* c.deps and c.tasks
          attaching,   \* children inside their native attach, detach or start
          connectDone, \* the Connect that is pending, or NoOne
          connect,     \* where each connecter is
          attempt,     \* its native attempt: "none", "pending", "over"
          handle,      \* its handle: "none", "live", "reaping", or "dropped":
                       \* destroyed, or nobody will try to destroy it again
          interrupted, \* attempts that have been told to end
          closer,      \* where each closer is
          awaited,     \* the connectDone channel Close waits for, while it is open
          snapshot,    \* the state that Close has read
          call,        \* where each caller is
          callback,    \* the state callback native is in: "none", "entered", a state
          carries,     \* the state or command each accepted callback is for
          reported,    \* history: the last state given to the application
          stateLost,   \* history: a close has dropped a state since then
          accepted, pending, running, phase  \* the mailbox

Mailbox == INSTANCE SerialExecutor

mailboxVars == <<accepted, pending, running, phase>>
connectVars == <<connectDone, connect, attempt, handle>>
closeVars == <<closer, awaited, snapshot>>
childVars == <<children, attaching>>
eventVars == <<callback, carries, reported, stateLost>>
vars == <<opMu, native, closed, state, childVars, connectVars, interrupted,
          closeVars, call, eventVars, mailboxVars>>

Init == /\ opMu = Free
        /\ native = "open"
        /\ closed = FALSE
        /\ state = "Idle"
        /\ children = {}
        /\ attaching = {}
        /\ connectDone = NoOne
        /\ connect = [c \in Connecters |-> "idle"]
        /\ attempt = [c \in Connecters |-> "none"]
        /\ handle = [c \in Connecters |-> "none"]
        /\ interrupted = {}
        /\ closer = [k \in Closers |-> "idle"]
        /\ awaited = [k \in Closers |-> NoOne]
        /\ snapshot = [k \in Closers |-> "Idle"]
        /\ call = [u \in Callers |-> "idle"]
        /\ callback = "none"
        /\ carries = [e \in 1 .. MaxEvents |-> "none"]
        /\ reported = "Idle"
        /\ stateLost = FALSE
        /\ Mailbox!Init

-----------------------------------------------------------------------------
(* Connect *)

mayConnect == ~closed /\ connectDone = NoOne

\* ConnectManaged, under opMu and c.mu.
Connect(c) ==
  /\ connect[c] = "idle"
  /\ handle[c] = "none"
  /\ opMu = Free
  /\ mayConnect
  /\ connect' = [connect EXCEPT ![c] = "waiting"]
  /\ attempt' = [attempt EXCEPT ![c] = "pending"]
  /\ handle' = [handle EXCEPT ![c] = "live"]
  /\ connectDone' = c
  /\ UNCHANGED <<opMu, native, closed, state, childVars, interrupted,
                 closeVars, call, eventVars, mailboxVars>>

attemptEnds(c) ==
  /\ attempt[c] = "pending"
  /\ attempt' = [attempt EXCEPT ![c] = "over"]
  /\ UNCHANGED <<opMu, native, closed, state, childVars, connectDone, connect,
                 handle, interrupted, closeVars, call, eventVars, mailboxVars>>

\* Mutant: nothing tells the attempt to end.
interruptNothing(attempts) == UNCHANGED interrupted

\* What native Cancel and Disconnect do to pending attempts.
interrupt(attempts) == interrupted' = interrupted \cup attempts

contextCancels(c) ==
  /\ connect[c] = "waiting"
  /\ connect' = [connect EXCEPT ![c] = "cancelled"]
  /\ interrupt({c})
  /\ UNCHANGED <<opMu, native, closed, state, childVars, connectDone, attempt,
                 handle, closeVars, call, eventVars, mailboxVars>>

\* attempt.Close; a reaper takes over on IN_USE, when the cleanup barrier is not
\* passed yet.  After any other error the handle is dropped as after a success.
closeAttempt(c) ==
  /\ connect[c] \in {"waiting", "cancelled"}
  /\ attempt[c] = "over"
  /\ connect' = [connect EXCEPT ![c] = "finishing"]
  /\ \E result \in {"dropped", "reaping"} :
       handle' = [handle EXCEPT ![c] = result]
  /\ UNCHANGED <<opMu, native, closed, state, childVars, connectDone, attempt,
                 interrupted, closeVars, call, eventVars, mailboxVars>>

clearConnectDone(c) == connectDone' = IF connectDone = c THEN NoOne ELSE connectDone

connectReturns(c) ==
  /\ connect[c] = "finishing"
  /\ clearConnectDone(c)
  /\ awaited' = [k \in Closers |-> IF awaited[k] = c THEN NoOne ELSE awaited[k]]
  /\ connect' = [connect EXCEPT ![c] = "idle"]
  /\ UNCHANGED <<opMu, native, closed, state, childVars, attempt, handle,
                 interrupted, closer, snapshot, call, eventVars, mailboxVars>>

\* The reaper's Close succeeds, or fails with an error other than IN_USE.
reapConnectAttempt(c) ==
  /\ handle[c] = "reaping"
  /\ handle' = [handle EXCEPT ![c] = "dropped"]
  /\ UNCHANGED <<opMu, native, closed, state, childVars, connectDone, connect,
                 attempt, interrupted, closeVars, call, eventVars, mailboxVars>>

\* Nothing is left of the attempt: its name may stand for another Connect.
forgetAttempt(c) ==
  /\ handle[c] = "dropped"
  /\ connect[c] = "idle"
  /\ handle' = [handle EXCEPT ![c] = "none"]
  /\ interrupted' = interrupted \ {c}
  /\ UNCHANGED <<opMu, native, closed, state, childVars, connectDone, connect,
                 attempt, closeVars, call, eventVars, mailboxVars>>

interruptConnect == interrupt({c \in Connecters : attempt[c] = "pending"})

-----------------------------------------------------------------------------
(* Native calls under opMu *)

notClosed == ~closed

\* withNative, here for Disconnect, by the application or by a handler.
withNative(u) ==
  /\ call[u] = "idle"
  /\ u = Handler => running # {}
  /\ opMu = Free
  /\ notClosed
  /\ opMu' = u
  /\ call' = [call EXCEPT ![u] = "native"]
  /\ interruptConnect
  /\ UNCHANGED <<native, closed, state, childVars, connectVars, closeVars,
                 eventVars, mailboxVars>>

callReturns(u) ==
  /\ call[u] = "native"
  /\ opMu' = Free
  /\ call' = [call EXCEPT ![u] = "idle"]
  /\ UNCHANGED <<native, closed, state, childVars, connectVars, interrupted,
                 closeVars, eventVars, mailboxVars>>

\* attachDependency, detachDependency or StartRecording begins its native call.
beginAttach(d) ==
  /\ d \in Recordings => d \notin children
  /\ opMu = Free
  /\ notClosed
  /\ opMu' = d
  /\ attaching' = attaching \cup {d}
  /\ UNCHANGED <<native, closed, state, children, connectVars, interrupted,
                 closeVars, call, eventVars, mailboxVars>>

\* The native call succeeded or failed; success registers or removes the child.
endAttach(d) ==
  /\ d \in attaching
  /\ attaching' = attaching \ {d}
  /\ \/ children' = (children \cup {d}) \ (children \cap {d})
     \/ children' = children
  /\ opMu' = Free
  /\ UNCHANGED <<native, closed, state, connectVars, interrupted, closeVars,
                 call, eventVars, mailboxVars>>

\* RecordingTask.Stop removes its task without opMu.
recordingStops(d) ==
  /\ d \in Recordings \cap children
  /\ children' = children \ {d}
  /\ UNCHANGED <<opMu, native, closed, state, attaching, connectVars,
                 interrupted, closeVars, call, eventVars, mailboxVars>>

-----------------------------------------------------------------------------
(* Native callbacks and the mailbox *)

Room == accepted + (IF callback = "none" THEN 0 ELSE 1) < MaxEvents

\* Native calls OnState, which has not reached c.mu yet.
enterOnState ==
  /\ native = "open"
  /\ callback = "none"
  /\ Room
  /\ callback' = "entered"
  /\ UNCHANGED <<opMu, native, closed, state, childVars, connectVars,
                 interrupted, closeVars, call, carries, reported, stateLost,
                 mailboxVars>>

stateIsCurrent == ~closed

\* Mutant: the comparison comes after the assignment.
neverChanged(s) == FALSE

changed(s) == s # state

\* OnState's critical section; an unchanged state is only posted with an error.
OnState(s) ==
  /\ callback = "entered"
  /\ state' = IF stateIsCurrent THEN s ELSE state
  /\ callback' \in IF ~closed THEN {s} \cup (IF changed(s) THEN {} ELSE {"none"})
                              ELSE {"none"}
  /\ UNCHANGED <<opMu, native, closed, childVars, connectVars, interrupted,
                 closeVars, call, carries, reported, stateLost,
                 mailboxVars>>

\* A pending state is replaced: only the latest one is kept.
supersede == pending' = {e \in pending : carries[e] \notin States} \cup {accepted + 1}

\* postLatest, refused while the mailbox is closing or closed.
postState ==
  /\ callback \in States
  /\ callback' = "none"
  /\ \/ Mailbox!Accept /\ supersede /\ carries' = [carries EXCEPT ![accepted'] = callback]
     \/ phase # "open" /\ UNCHANGED <<mailboxVars, carries>>
  /\ stateLost' = (phase # "open")
  /\ UNCHANGED <<opMu, native, closed, state, childVars, connectVars,
                 interrupted, closeVars, call, reported>>

\* OnCommand or OnMessage: the event, or the stop request if the lane is full.
OnCommand ==
  /\ native = "open"
  /\ Room
  /\ Mailbox!Accept
  /\ pending' = pending \cup {accepted'}
  /\ carries' = [carries EXCEPT ![accepted'] = "command"]
  /\ UNCHANGED <<opMu, native, closed, state, childVars, connectVars,
                 interrupted, closeVars, call, callback, reported, stateLost>>

startHandler(e) ==
  /\ Mailbox!Start(e)
  /\ reported' = IF carries[e] \in States THEN carries[e] ELSE reported
  /\ UNCHANGED <<opMu, native, closed, state, childVars, connectVars,
                 interrupted, closeVars, call, callback, carries, stateLost>>

endHandler ==
  /\ call[Handler] = "idle"
  /\ Mailbox!Return
  /\ UNCHANGED <<opMu, native, closed, state, childVars, connectVars,
                 interrupted, closeVars, call, eventVars>>

-----------------------------------------------------------------------------
(* Close *)

At(k, from, to) == /\ closer[k] = from
                   /\ closer' = [closer EXCEPT ![k] = to]

objectVars == <<native, closed, state, childVars, connectVars, call>>

closeUnchanged == UNCHANGED <<objectVars, eventVars>>

\* The checks before any lock.
preflightClose(k) ==
  /\ At(k, "idle", "checked")
  /\ ~closed
  /\ children = {}
  /\ phase # "closing" /\ running = {}
  /\ UNCHANGED <<opMu, interrupted, awaited, snapshot, mailboxVars>>
  /\ closeUnchanged

\* Mutant: the dependencies are not looked at again under opMu.
mayCloseAnyway == ~closed

mayClose == ~closed /\ children = {}

\* Under opMu and c.mu: the first look, with a Connect pending or not.
lockForClose(k) ==
  /\ opMu = Free
  /\ mayClose
  /\ opMu' = k
  /\ snapshot' = [snapshot EXCEPT ![k] = state]
  /\ awaited' = [awaited EXCEPT ![k] = connectDone]
  /\ At(k, "checked", IF connectDone = NoOne THEN "locked" ELSE "interrupting")
  /\ UNCHANGED <<interrupted, mailboxVars>>
  /\ closeUnchanged

closeGivesUp(k) ==
  /\ opMu = Free
  /\ ~mayClose
  /\ closer[k] \in {"checked", "awaited"}
  /\ closer' = [closer EXCEPT ![k] = "idle"]
  /\ UNCHANGED <<opMu, interrupted, awaited, snapshot, mailboxVars>>
  /\ closeUnchanged

\* Disconnect, then opMu is left for the wait.
interruptForClose(k) ==
  /\ At(k, "interrupting", "awaiting")
  /\ interruptConnect
  /\ opMu' = Free
  /\ UNCHANGED <<awaited, snapshot, mailboxVars>>
  /\ closeUnchanged

\* Mutant: the error path keeps opMu.
interruptFailsLocked(k) ==
  /\ At(k, "interrupting", "idle")
  /\ UNCHANGED <<opMu, interrupted, awaited, snapshot, mailboxVars>>
  /\ closeUnchanged

interruptFails(k) ==
  /\ At(k, "interrupting", "idle")
  /\ opMu' = Free
  /\ UNCHANGED <<interrupted, awaited, snapshot, mailboxVars>>
  /\ closeUnchanged

\* <-connectDone: the Connect that was seen has returned.
connectAwaited(k) ==
  /\ At(k, "awaiting", "awaited")
  /\ awaited[k] = NoOne
  /\ UNCHANGED <<opMu, interrupted, awaited, snapshot, mailboxVars>>
  /\ closeUnchanged

\* The second look, after the wait.
lockAgain(k) ==
  /\ opMu = Free
  /\ mayClose
  /\ opMu' = k
  /\ snapshot' = [snapshot EXCEPT ![k] = state]
  /\ At(k, "awaited", "locked")
  /\ UNCHANGED <<interrupted, awaited, mailboxVars>>
  /\ closeUnchanged

beginClose(k) ==
  /\ At(k, "locked", "begun")
  /\ Mailbox!BeginClose
  /\ stateLost' = (stateLost \/ \E e \in pending : carries[e] \in States)
  /\ UNCHANGED <<opMu, interrupted, awaited, snapshot, objectVars, callback,
                 carries, reported>>

beginCloseRefused(k) ==
  /\ At(k, "locked", "idle")
  /\ running # {}
  /\ opMu' = Free
  /\ UNCHANGED <<interrupted, awaited, snapshot, mailboxVars>>
  /\ closeUnchanged

\* A connection that was connecting or connected is disconnected first.
disconnect(k) ==
  /\ At(k, "begun", "disconnected")
  /\ IF snapshot[k] \in Live THEN interruptConnect ELSE UNCHANGED interrupted
  /\ UNCHANGED <<opMu, awaited, snapshot, mailboxVars>>
  /\ closeUnchanged

cancelClose == Mailbox!EndClose /\ phase' = "open"

\* Disconnect or the native close fails: everything is as before, but for the
\* callbacks that beginClose has dropped.
closeFails(k) ==
  /\ closer[k] \in {"begun", "disconnected"}
  /\ closer' = [closer EXCEPT ![k] = "idle"]
  /\ cancelClose
  /\ opMu' = Free
  /\ UNCHANGED <<interrupted, awaited, snapshot>>
  /\ closeUnchanged

\* Native refuses while an attempt is in use (cleanup barrier); it need not refuse
\* because of a handle that it did not destroy for another reason.
closeNative(k) ==
  /\ At(k, "disconnected", "closed")
  /\ \A c \in Connecters : handle[c] \notin {"live", "reaping"}
  /\ native' = "closed"
  /\ closed' = TRUE
  /\ state' = "Disconnected"
  /\ UNCHANGED <<opMu, childVars, connectVars, interrupted, awaited, snapshot,
                 call, eventVars, mailboxVars>>

finishClose(k) ==
  /\ At(k, "closed", "idle")
  /\ Mailbox!EndClose /\ phase' = "closed"
  /\ opMu' = Free
  /\ UNCHANGED <<interrupted, awaited, snapshot>>
  /\ closeUnchanged

-----------------------------------------------------------------------------
Connecting(c) == contextCancels(c) \/ closeAttempt(c) \/ connectReturns(c)

ReturnChild(d) == endAttach(d)

Close(k) == \/ lockForClose(k) \/ closeGivesUp(k)
            \/ interruptForClose(k) \/ interruptFails(k)
            \/ connectAwaited(k) \/ lockAgain(k)
            \/ beginClose(k) \/ beginCloseRefused(k)
            \/ disconnect(k) \/ closeFails(k)
            \/ closeNative(k) \/ finishClose(k)

Event == \/ enterOnState
         \/ \E s \in States : OnState(s)
         \/ postState
         \/ OnCommand
         \/ \E e \in pending : startHandler(e)
         \/ endHandler

Next == \/ \E c \in Connecters : \/ Connect(c) \/ attemptEnds(c)
                                 \/ Connecting(c)
                                 \/ reapConnectAttempt(c) \/ forgetAttempt(c)
        \/ \E u \in Callers : withNative(u) \/ callReturns(u)
        \/ \E d \in Children : beginAttach(d) \/ ReturnChild(d) \/ recordingStops(d)
        \/ \E k \in Closers : preflightClose(k) \/ Close(k)
        \/ Event

Spec == Init /\ [][Next]_vars

(***************************************************************************)
(* Native calls and handlers return, goroutines run on, sync.Mutex serves  *)
(* those who keep asking (strong fairness), and native ends an attempt     *)
(* that was cancelled or whose connection was disconnected.                *)
(***************************************************************************)
Fairness ==
  /\ \A c \in Connecters : /\ WF_vars(c \in interrupted /\ attemptEnds(c))
                           /\ WF_vars(closeAttempt(c)) /\ WF_vars(connectReturns(c))
                           /\ WF_vars(reapConnectAttempt(c))
  /\ \A u \in Callers : WF_vars(callReturns(u))
  /\ \A d \in Children : WF_vars(endAttach(d))
  /\ \A k \in Closers : SF_vars(Close(k))

FairSpec == Spec /\ Fairness

-----------------------------------------------------------------------------
(* Properties *)

ConnectSteps == {"idle", "waiting", "cancelled", "finishing"}
UnlockedSteps == {"idle", "checked", "awaiting", "awaited"}

\* Types, and who holds opMu: whoever is between two steps under it.
TypeOK ==
  /\ opMu \in Callers \cup Children \cup Closers \cup {Free}
  /\ native \in {"open", "closed"} /\ closed \in BOOLEAN
  /\ state \in States \cup {"Idle"} /\ reported \in States \cup {"Idle"}
  /\ children \in SUBSET Children /\ attaching \in SUBSET Children
  /\ connectDone \in Connecters \cup {NoOne}
  /\ connect \in [Connecters -> ConnectSteps]
  /\ attempt \in [Connecters -> {"none", "pending", "over"}]
  /\ handle \in [Connecters -> {"none", "live", "reaping", "dropped"}]
  /\ interrupted \in SUBSET Connecters
  /\ awaited \in [Closers -> Connecters \cup {NoOne}]
  /\ call \in [Callers -> {"idle", "native"}]
  /\ callback \in States \cup {"none", "entered"}
  /\ carries \in [1 .. MaxEvents -> States \cup {"none", "command"}]
  /\ stateLost \in BOOLEAN
  /\ accepted \in 0 .. MaxEvents /\ phase \in {"open", "closing", "closed"}
  /\ \A k \in Closers : opMu = k <=> closer[k] \notin UnlockedSteps

\* A closed connection has no outputs or recordings, whoever attached while
\* Close was waiting for a Connect (conn.go:295, 331).
ClosedIsEmpty == native = "closed" => children = {} /\ attaching = {}

Quiet == phase = "open" /\ callback = "none" /\ pending = {} /\ running = {}

\* When all callbacks have run, the application has last been told the state
\* that State() returns, unless a failed Close has dropped the notification.
StateReported == Quiet /\ ~stateLost => reported = state

\* Close returns: the Connect it waits for is told to end (conn.go:317-323).
CloseReturns == \A k \in Closers : closer[k] # "idle" /\ closer[k] # "checked"
                                     ~> closer[k] = "idle"

\* Claimed by README.md:47: after a successful connect, disconnections are
\* reported through the state callback, so that an application whose callbacks
\* have all run does not take a disconnected connection for connected.
DisconnectReported == Quiet /\ state = "Disconnected" => reported # "Connected"
=============================================================================
