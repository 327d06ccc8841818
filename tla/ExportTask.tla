----------------------------- MODULE ExportTask -----------------------------
(***************************************************************************)
(* One cloud export from ExportRecording's return on (storage/task.go):    *)
(* the native export and its callbacks, any number of goroutines in Wait,  *)
(* Cancel and Progress, the goroutine context.AfterFunc starts when the    *)
(* context ends, and the callback queue whose handlers may call back.      *)
(*                                                                         *)
(* The gate t.op is held over a native call, which is therefore two        *)
(* actions; t.mu only guards single steps.  The queue is reduced to what   *)
(* CallbackQueue establishes: a bounded number of accepted events, one     *)
(* handler at a time, and a close that refuses new events and waits for    *)
(* the accepted ones.  Client.Close calls Cancel and then Wait, as a user  *)
(* and a waiter.  Left out: the contents of the report, gaps and files.    *)
(***************************************************************************)
EXTENDS Naturals

CONSTANTS Waiters,      \* goroutines that call Wait
          Users,        \* goroutines that call Cancel and Progress
          Worker,       \* the queue's goroutine: runs handlers, which may call
          Capacity,     \* callbackQueueCapacity (256 in the code)
          MaxProgress,  \* bound on progress callbacks; the fraction, in steps
          MaxGaps       \* bound on gap callbacks

Callers == Users \cup {Worker}
Threads == Waiters \cup {Worker}
Free == "free"
ContextThread == "context"

ASSUME ExportAssumption ==
  /\ Capacity \in Nat \ {0} /\ MaxProgress \in Nat /\ MaxGaps \in Nat
  /\ Waiters \cap Callers = {}
  /\ {Free, ContextThread} \cap (Waiters \cup Callers) = {}

VARIABLES gate,         \* the holder of t.op, or Free
          native,       \* "running", "ended", "closing", "closed", "leaked"
          outcome,      \* what native Wait reports
          told,         \* native Cancel has been called
          fraction,     \* native progress
          delivery,     \* the callback native is in: "none", "progress",
                      \* "post" (its second half) or "gap"
          gaps,         \* number of gap callbacks so far
          progress, terminal, cancelled, contextErr, result,
          context,      \* "armed", "stopped", "firing", "cancelling", "finished"
          once,         \* waitOnce: "open", "running" or "done"
          wait,         \* where each thread is in Wait
          call,         \* where each caller is in Cancel or Progress
          sample,       \* the native progress a caller has read
          queued, running, queueClosed,
          registered    \* the task is among the client's children

nativeVars == <<native, outcome, told>>
callbackVars == <<fraction, delivery, gaps>>
queueVars == <<queued, running, queueClosed>>
cancelVars == <<cancelled, contextErr, context>>
resultVars == <<terminal, result, registered>>
waitVars == <<once, wait>>
callVars == <<call, sample>>
vars == <<gate, nativeVars, callbackVars, progress, queueVars, cancelVars,
          resultVars, waitVars, callVars>>

Init == /\ gate = Free
        /\ native = "running" /\ outcome = "none" /\ told = FALSE
        /\ fraction = 0 /\ delivery = "none" /\ gaps = 0
        /\ progress = 0
        /\ queued = 0 /\ running = FALSE /\ queueClosed = FALSE
        /\ cancelled = FALSE /\ contextErr = FALSE /\ context = "armed"
        /\ terminal = FALSE /\ result = "none" /\ registered = TRUE
        /\ once = "open"
        /\ wait = [t \in Threads |-> "idle"]
        /\ call = [u \in Callers |-> "idle"]
        /\ sample = [u \in Callers |-> 0]

-----------------------------------------------------------------------------
(* Native callbacks and the end of the export *)

beginProgress ==
  /\ native = "running"
  /\ delivery = "none"
  /\ fraction < MaxProgress
  /\ fraction' = fraction + 1
  /\ delivery' = "progress"
  /\ UNCHANGED <<gate, nativeVars, gaps, progress, queueVars, cancelVars,
                 resultVars, waitVars, callVars>>

newProgress == ~terminal /\ fraction >= progress

OnProgress ==
  /\ delivery = "progress"
  /\ delivery' = "post"
  /\ progress' = IF newProgress THEN fraction ELSE progress
  /\ UNCHANGED <<gate, nativeVars, fraction, gaps, queueVars, cancelVars,
                 resultVars, waitVars, callVars>>

\* queue.post: dropped when the queue is full or closed.
postProgress ==
  /\ delivery = "post"
  /\ delivery' = "none"
  /\ queued' = IF ~queueClosed /\ queued < Capacity THEN queued + 1 ELSE queued
  /\ UNCHANGED <<gate, nativeVars, fraction, gaps, progress, running,
                 queueClosed, cancelVars, resultVars, waitVars, callVars>>

OnGap ==
  /\ native = "running"
  /\ delivery = "none"
  /\ gaps < MaxGaps
  /\ gaps' = gaps + 1
  /\ delivery' = "gap"
  /\ UNCHANGED <<gate, nativeVars, fraction, progress, queueVars, cancelVars,
                 resultVars, waitVars, callVars>>

\* Mutant: a closed queue accepts.
admitAlways == TRUE

admits == ~queueClosed

\* queue.postReliable: blocks native while the queue is full and open.
postGap ==
  /\ delivery = "gap"
  /\ \/ admits /\ queued < Capacity /\ queued' = queued + 1
     \/ ~admits /\ queued' = queued
  /\ delivery' = "none"
  /\ UNCHANGED <<gate, nativeVars, fraction, gaps, progress, running,
                 queueClosed, cancelVars, resultVars, waitVars, callVars>>

\* The export is terminal; a callback may still be on its way.
nativeEnds ==
  /\ native = "running"
  /\ native' = "ended"
  /\ outcome' \in {"file", "failed"} \cup (IF told THEN {"stopped"} ELSE {})
  /\ UNCHANGED <<gate, told, callbackVars, progress, queueVars, cancelVars,
                 resultVars, waitVars, callVars>>

-----------------------------------------------------------------------------
(* The callback queue's worker *)

startHandler ==
  /\ ~running
  /\ queued > 0
  /\ queued' = queued - 1
  /\ running' = TRUE
  /\ UNCHANGED <<gate, nativeVars, callbackVars, progress, queueClosed,
                 cancelVars, resultVars, waitVars, callVars>>

endHandler ==
  /\ running
  /\ call[Worker] = "idle"
  /\ wait[Worker] \in {"idle", "returned"}
  /\ running' = FALSE
  /\ UNCHANGED <<gate, nativeVars, callbackVars, progress, queued,
                 queueClosed, cancelVars, resultVars, waitVars, callVars>>

-----------------------------------------------------------------------------
(* Cancel, Progress and the end of the context *)

\* Somebody calls Cancel or Progress and heads for the gate.
callTask(u) ==
  /\ call[u] = "idle"
  /\ u = Worker => running /\ wait[u] = "idle"
  /\ \E method \in {"Cancel", "Progress"} : call' = [call EXCEPT ![u] = method]
  /\ UNCHANGED <<gate, nativeVars, callbackVars, progress, queueVars,
                 cancelVars, resultVars, waitVars, sample>>

\* Mutant: the native call does not wait for the gate.
gateIgnored == TRUE

gateFree == gate = Free

\* Mutant: the flag that tells a cancelled export from a stopped one is lost.
markNothing == UNCHANGED cancelled

markCancelled == cancelled' = TRUE

Cancel(u) ==
  /\ call[u] = "Cancel"
  /\ gateFree
  /\ ~terminal
  /\ gate' = u
  /\ markCancelled
  /\ told' = TRUE
  /\ call' = [call EXCEPT ![u] = "cancelling"]
  /\ UNCHANGED <<native, outcome, callbackVars, progress, queueVars,
                 contextErr, context, resultVars, waitVars, sample>>

Progress(u) ==
  /\ call[u] = "Progress"
  /\ gateFree
  /\ ~terminal
  /\ gate' = u
  /\ sample' = [sample EXCEPT ![u] = fraction]
  /\ call' = [call EXCEPT ![u] = "reading"]
  /\ UNCHANGED <<nativeVars, callbackVars, progress, queueVars, cancelVars,
                 resultVars, waitVars>>

\* The export is over: nil from Cancel, the last progress from Progress.
callTooLate(u) ==
  /\ call[u] \in {"Cancel", "Progress"}
  /\ gateFree
  /\ terminal
  /\ call' = [call EXCEPT ![u] = "idle"]
  /\ UNCHANGED <<gate, nativeVars, callbackVars, progress, queueVars,
                 cancelVars, resultVars, waitVars, sample>>

storeSample(u) == progress' = IF terminal THEN progress ELSE sample[u]

callReturns(u) ==
  /\ \/ call[u] = "cancelling" /\ progress' = progress
     \/ call[u] = "reading" /\ storeSample(u)
  /\ gate' = Free
  /\ call' = [call EXCEPT ![u] = "idle"]
  /\ UNCHANGED <<nativeVars, callbackVars, queueVars, cancelVars, resultVars,
                 waitVars, sample>>

\* The context ends and AfterFunc's goroutine starts.
contextEnds ==
  /\ context = "armed"
  /\ context' = "firing"
  /\ UNCHANGED <<gate, nativeVars, callbackVars, progress, queueVars,
                 cancelled, contextErr, resultVars, waitVars, callVars>>

contextCancels ==
  /\ context = "firing"
  /\ gateFree
  /\ ~terminal
  /\ gate' = ContextThread
  /\ contextErr' = TRUE
  /\ markCancelled
  /\ told' = TRUE
  /\ context' = "cancelling"
  /\ UNCHANGED <<native, outcome, callbackVars, progress, queueVars,
                 resultVars, waitVars, callVars>>

contextReturns ==
  /\ context = "cancelling"
  /\ context' = "finished"
  /\ gate' = Free
  /\ UNCHANGED <<nativeVars, callbackVars, progress, queueVars, cancelled,
                 contextErr, resultVars, waitVars, callVars>>

-----------------------------------------------------------------------------
(* Wait *)

Advance(t, from, to) ==
  /\ wait[t] = from
  /\ wait' = [wait EXCEPT ![t] = to]

mayWait(t) == t # Worker

\* waitOnce.Do: the first caller runs finishWait, the others wait for it.
enterWait(t) ==
  /\ mayWait(t)
  /\ t = Worker => running /\ call[t] = "idle"
  /\ \/ once = "open" /\ Advance(t, "idle", "native") /\ once' = "running"
     \/ once # "open" /\ Advance(t, "idle", "once") /\ once' = once
  /\ UNCHANGED <<gate, nativeVars, callbackVars, progress, queueVars,
                 cancelVars, resultVars, callVars>>

nativeWait(t) ==
  /\ native = "ended"
  /\ Advance(t, "native", "stopping")
  /\ UNCHANGED <<gate, nativeVars, callbackVars, progress, queueVars,
                 cancelVars, resultVars, once, callVars>>

stopContext(t) ==
  /\ Advance(t, "stopping", "context")
  /\ context' = IF context = "armed" THEN "stopped" ELSE context
  /\ UNCHANGED <<gate, nativeVars, callbackVars, progress, queueVars,
                 cancelled, contextErr, resultVars, once, callVars>>

\* Mutant: the context's goroutine is not joined.
contextIgnored == TRUE

contextDone == context \in {"stopped", "finished"}

\* <-t.contextDone, then the gate, Report, and Close begins.
beginNativeClose(t) ==
  /\ Advance(t, "context", "closing")
  /\ contextDone
  /\ gate = Free
  /\ gate' = t
  /\ native' = "closing"
  /\ UNCHANGED <<outcome, told, callbackVars, progress, queueVars, cancelVars,
                 resultVars, once, callVars>>

\* destroyAfterTerminal: refused while a callback is delivered, for 2 s at most.
nativeClose ==
  /\ native = "closing"
  /\ \/ delivery = "none" /\ native' = "closed"
     \/ native' = "leaked"
  /\ UNCHANGED <<gate, outcome, told, callbackVars, progress, queueVars,
                 cancelVars, resultVars, waitVars, callVars>>

verdict ==
  CASE outcome = "stopped" /\ contextErr -> "contextCancelled"
    [] outcome = "stopped" /\ ~contextErr /\ cancelled -> "cancelled"
    [] outcome = "file" /\ native = "leaked" -> "closeFailed"
    [] OTHER -> outcome

\* Mutant: the gate is kept until the handlers have drained.
keepGate(t) == gate' = gate

leaveGate(t) == gate' = Free

\* The device is closed and the result published before the gate is left.
publish(t) ==
  /\ native \in {"closed", "leaked"}
  /\ Advance(t, "closing", "published")
  /\ result' = verdict
  /\ terminal' = TRUE
  /\ leaveGate(t)
  /\ UNCHANGED <<nativeVars, callbackVars, progress, queueVars, cancelVars,
                 registered, once, callVars>>

closeQueue(t) ==
  /\ Advance(t, "published", "draining")
  /\ queueClosed' = TRUE
  /\ UNCHANGED <<gate, nativeVars, callbackVars, progress, queued, running,
                 cancelVars, resultVars, once, callVars>>

drained == queued = 0 /\ ~running

\* queue.close returns; the task leaves the client; the once is done.
leaveClient(t) ==
  /\ Advance(t, "draining", "once")
  /\ drained
  /\ registered' = FALSE
  /\ once' = "done"
  /\ UNCHANGED <<gate, nativeVars, callbackVars, progress, queueVars,
                 cancelVars, terminal, result, callVars>>

onceDone == once = "done"

waitReturns(t) ==
  /\ onceDone
  /\ Advance(t, "once", "returned")
  /\ UNCHANGED <<gate, nativeVars, callbackVars, progress, queueVars,
                 cancelVars, resultVars, once, callVars>>

-----------------------------------------------------------------------------
Deliver == OnProgress \/ postProgress \/ postGap

Handle == startHandler \/ endHandler

EnterGate(u) == Cancel(u) \/ Progress(u) \/ callTooLate(u)

Context == contextCancels \/ contextReturns

Wait(t) == \/ nativeWait(t)
           \/ stopContext(t)
           \/ beginNativeClose(t)
           \/ publish(t)
           \/ closeQueue(t)
           \/ leaveClient(t)
           \/ waitReturns(t)

Next == \/ beginProgress \/ OnGap \/ nativeEnds \/ nativeClose \/ contextEnds
        \/ Deliver \/ Handle \/ Context
        \/ \E u \in Callers : callTask(u) \/ EnterGate(u) \/ callReturns(u)
        \/ \E t \in Threads : enterWait(t) \/ Wait(t)

Spec == Init /\ [][Next]_vars

(***************************************************************************)
(* Exports end, native calls and handlers return, goroutines run on, and   *)
(* sync.Mutex hands the gate to whoever keeps asking (its starvation mode  *)
(* makes it first come first served after 1 ms), hence strong fairness.    *)
(***************************************************************************)
Fairness ==
  /\ WF_vars(nativeEnds) /\ WF_vars(nativeClose)
  /\ WF_vars(Deliver) /\ WF_vars(startHandler) /\ SF_vars(endHandler)
  /\ SF_vars(contextCancels) /\ WF_vars(contextReturns)
  /\ \A u \in Callers : SF_vars(EnterGate(u)) /\ WF_vars(callReturns(u))
  /\ \A t \in Threads : SF_vars(Wait(t))

FairSpec == Spec /\ Fairness

-----------------------------------------------------------------------------
(* Properties *)

TypeOK ==
  /\ gate \in Callers \cup Waiters \cup {ContextThread, Free}
  /\ native \in {"running", "ended", "closing", "closed", "leaked"}
  /\ outcome \in {"none", "file", "failed", "stopped"}
  /\ told \in BOOLEAN /\ terminal \in BOOLEAN /\ cancelled \in BOOLEAN
  /\ contextErr \in BOOLEAN /\ running \in BOOLEAN /\ queueClosed \in BOOLEAN
  /\ registered \in BOOLEAN
  /\ fraction \in 0 .. MaxProgress /\ progress \in 0 .. MaxProgress
  /\ gaps \in 0 .. MaxGaps /\ queued \in 0 .. Capacity
  /\ delivery \in {"none", "progress", "post", "gap"}
  /\ context \in {"armed", "stopped", "firing", "cancelling", "finished"}
  /\ once \in {"open", "running", "done"}
  /\ result \in {"none", "file", "failed", "stopped", "cancelled",
                 "contextCancelled", "closeFailed"}
  /\ \A u \in Callers : /\ call[u] \in {"idle", "Cancel", "Progress",
                                        "cancelling", "reading"}
                        /\ call[u] \in {"cancelling", "reading"} <=> gate = u

InNativeCall == \/ context = "cancelling"
                \/ \E u \in Callers : call[u] \in {"cancelling", "reading"}

\* No Cancel or Progress is inside the native task once its Close has begun,
\* also not the one of the context (task.go:173-186, 198-236, 253-285).
NoCallDuringClose ==
  InNativeCall => native \notin {"closing", "closed", "leaked"}

\* What a Wait promises.  README.md:53, "Wait drains the accepted user callbacks":
\* when a Wait has returned, and when the client no longer knows the task, no
\* handler runs or is queued, and none ever will (task.go:286-287).  A cancelled
\* export is reported as cancelled, with the context's error exactly if the context
\* has ended it: its goroutine cannot come after the result (task.go:181, 227,
\* 249-252, 274-280).
WaitContract ==
  /\ (~registered \/ \E t \in Threads : wait[t] = "returned") =>
       terminal /\ queueClosed /\ queued = 0 /\ ~running
  /\ terminal /\ outcome = "stopped" =>
       result = IF context \in {"firing", "cancelling", "finished"}
                THEN "contextCancelled" ELSE "cancelled"

\* Wait returns, although handlers, blocked callbacks and other goroutines
\* compete for the gate and the queue (task.go:285-287, 311-314).
\* (Each thread waits once: it is enough that some day no Wait is under way.)
WaitReturns == <>[](\A t \in Threads : wait[t] \in {"idle", "returned"})

=============================================================================
