-------------------------- MODULE ExportTaskProofs --------------------------
(***************************************************************************)
(* Proofs about ExportTask, for any number of goroutines and callbacks: no *)
(* call is inside the native task when it is closed, and what a Wait that  *)
(* has returned stands for.                                                *)
(***************************************************************************)
EXTENDS ExportTask, TLAPS

\* Where the thread is that runs finishWait.
Finishing == {"native", "stopping", "context", "closing", "published", "draining"}

Types == /\ TypeOK
         /\ wait \in [Threads -> Finishing \cup {"idle", "once", "returned"}]
         /\ call \in [Callers -> {"idle", "Cancel", "Progress", "cancelling", "reading"}]
         /\ sample \in [Callers -> 0 .. MaxProgress]

\* The gate's holder is in a native call.  A handler never gets past the first
\* look of Wait.
Gates == /\ wait[Worker] = "idle"
         /\ \A t \in Waiters : wait[t] = "closing" <=> gate = t
         /\ context = "cancelling" <=> gate = ContextThread

Closed == {"closed", "leaked"}

\* How far native and the queue are when the finisher has come to a place.
Stage(t) ==
  /\ wait[t] = "native" => native \in {"running", "ended"}
  /\ wait[t] \in {"stopping", "context"} => native = "ended"
  /\ wait[t] = "closing" => native \in Closed \cup {"closing"} /\ ~terminal /\ contextDone
  /\ wait[t] \in {"published", "draining"} => terminal
  /\ wait[t] = "draining" => queueClosed
  /\ wait[t] = "returned" => once = "done"

\* Only one thread finishes, and native is closed under its gate.
OneFinisher ==
  \A t \in Threads : wait[t] \in Finishing =>
    once = "running" /\ \A s \in Threads \ {t} : wait[s] \notin Finishing

NativeCloses ==
  /\ \A t \in Threads : Stage(t)
  /\ terminal => native \in Closed /\ contextDone /\ once # "open"
  /\ native \in Closed \cup {"closing"} => terminal \/ gate \in Waiters
  /\ gate \in Callers \cup {ContextThread} => native \in {"running", "ended"}

Drained == /\ once = "done" => terminal /\ queueClosed /\ queued = 0 /\ ~running
           /\ ~registered => once = "done"

\* Who is responsible for an export that was stopped.
Responsible ==
  /\ outcome = "stopped" => told
  /\ told => cancelled
  /\ contextErr <=> context \in {"cancelling", "finished"}
  /\ terminal /\ outcome = "stopped" =>
       result = IF contextErr THEN "contextCancelled" ELSE "cancelled"

IInv == Types /\ Gates /\ OneFinisher /\ NativeCloses /\ Drained /\ Responsible

-----------------------------------------------------------------------------
(* Names *)

LEMMA Names == /\ Worker \in Callers \cap Threads /\ Waiters \cap Callers = {}
               /\ Waiters \subseteq Threads /\ Threads = Waiters \cup {Worker}
               /\ Free \notin Callers \cup Waiters \cup {ContextThread}
               /\ ContextThread \notin Callers \cup Waiters
BY ExportAssumption DEF Callers, Threads, Free, ContextThread

LEMMA InitHolds == Init => IInv
<1> SUFFICES ASSUME Init PROVE IInv
  OBVIOUS
<1>1. Types
  <2>1. \A u \in Callers : /\ call[u] = "idle"
                            /\ call[u] \in {"cancelling", "reading"} <=> gate = u
    BY Names DEF Init
  <2>2. gate \in Callers \cup Waiters \cup {ContextThread, Free}
    BY DEF Init
  <2>3. /\ fraction \in 0 .. MaxProgress /\ progress \in 0 .. MaxProgress
        /\ gaps \in 0 .. MaxGaps /\ queued \in 0 .. Capacity
    BY ExportAssumption DEF Init
  <2>4. TypeOK
    BY <2>1, <2>2, <2>3 DEF Init, TypeOK
  <2>5. QED
    BY <2>4, ExportAssumption DEF Init, Types
<1>2. Gates /\ OneFinisher
  BY Names DEF Init, Gates, OneFinisher, Finishing
<1>3. NativeCloses /\ Drained /\ Responsible
  BY Names DEF Init, NativeCloses, Stage, Closed, Drained, Responsible
<1>4. QED
  BY <1>1, <1>2, <1>3 DEF IInv

-----------------------------------------------------------------------------
(* Native callbacks and handlers: only the queue and the progress change *)

Calls == beginProgress \/ OnGap \/ Deliver \/ Handle

LEMMA CallbackStep == IInv /\ Calls => IInv'
<1> SUFFICES ASSUME IInv, Calls PROVE IInv'
  OBVIOUS
<1>1. UNCHANGED <<gate, nativeVars, queueClosed, cancelVars, resultVars, waitVars, callVars>>
  BY DEF Calls, beginProgress, OnGap, Deliver, Handle, OnProgress, postProgress, postGap,
         startHandler, endHandler, queueVars
<1> USE DEF nativeVars, cancelVars, resultVars, waitVars, callVars
<1>2. /\ fraction' \in 0 .. MaxProgress /\ progress' \in 0 .. MaxProgress
      /\ gaps' \in 0 .. MaxGaps /\ delivery' \in {"none", "progress", "post", "gap"}
  BY ExportAssumption
     DEF IInv, Types, TypeOK, Calls, beginProgress, OnGap, Deliver, Handle, OnProgress,
         postProgress, postGap, startHandler, endHandler, queueVars, callbackVars
<1>3. queued' \in 0 .. Capacity /\ (queueClosed => queued' <= queued)
  <2>1. queued \in 0 .. Capacity /\ Capacity \in Nat
    BY ExportAssumption DEF IInv, Types, TypeOK
  <2>2. \/ queued' = queued
        \/ queued' = queued + 1 /\ ~queueClosed /\ queued < Capacity
        \/ queued' = queued - 1 /\ queued > 0
    BY DEF Calls, beginProgress, OnGap, Deliver, Handle, OnProgress, postProgress, postGap,
           admits, startHandler, endHandler, queueVars
  <2>3. QED
    BY <2>1, <2>2
<1>r. running' \in BOOLEAN /\ (queued = 0 /\ ~running => ~running')
  <2>1. CASE startHandler
    BY <2>1 DEF startHandler, IInv, Types, TypeOK
  <2>2. CASE endHandler
    BY <2>2 DEF endHandler
  <2>3. CASE beginProgress \/ OnGap \/ Deliver
    BY <2>3 DEF beginProgress, OnGap, Deliver, OnProgress, postProgress, postGap, queueVars,
                IInv, Types, TypeOK
  <2>4. QED
    BY <2>1, <2>2, <2>3 DEF Calls, Handle
<1>4. Types'
  BY <1>1, <1>2, <1>3, <1>r DEF IInv, Types, TypeOK
<1>5. Drained'
  BY <1>1, <1>3, <1>r DEF IInv, Types, TypeOK, Drained
<1>6. Gates' /\ OneFinisher' /\ NativeCloses' /\ Responsible'
  BY <1>1 DEF IInv, Gates, OneFinisher, NativeCloses, Stage, contextDone, Responsible
<1>7. QED
  BY <1>4, <1>5, <1>6 DEF IInv

-----------------------------------------------------------------------------
(* Native *)

LEMMA NativeStep == IInv /\ (nativeEnds \/ nativeClose) => IInv'
<1> SUFFICES ASSUME IInv, nativeEnds \/ nativeClose PROVE IInv'
  OBVIOUS
<1>1. UNCHANGED <<gate, told, callbackVars, progress, queueVars, cancelVars, resultVars,
                  waitVars, callVars>>
  BY DEF nativeEnds, nativeClose
<1>2. \/ /\ native = "running" /\ native' = "ended"
         /\ outcome' \in {"file", "failed"} \cup (IF told THEN {"stopped"} ELSE {})
      \/ native = "closing" /\ native' \in Closed /\ UNCHANGED outcome
  BY DEF nativeEnds, nativeClose, Closed
<1> USE DEF callbackVars, queueVars, cancelVars, resultVars, waitVars, callVars
<1>3. Types' /\ Gates' /\ OneFinisher' /\ Drained'
  BY <1>1, <1>2 DEF IInv, Types, TypeOK, Closed, Gates, OneFinisher, Drained
<1>4. ~terminal
  BY <1>2 DEF IInv, NativeCloses, Closed
<1>5. Responsible'
  BY <1>1, <1>2, <1>4 DEF IInv, Responsible
<1>6. NativeCloses'
  BY <1>1, <1>2, <1>4, Names DEF IInv, Types, NativeCloses, Stage, Closed, contextDone
<1>7. QED
  BY <1>3, <1>5, <1>6 DEF IInv

-----------------------------------------------------------------------------
(* Cancel, Progress and the context *)

LEMMA CallerStep ==
  ASSUME IInv, NEW u \in Callers, callTask(u) \/ callTooLate(u) \/ callReturns(u)
  PROVE  IInv'
<1>1. /\ UNCHANGED <<nativeVars, callbackVars, queueVars, cancelVars, resultVars,
                     waitVars, sample>>
      /\ call' \in [Callers -> {"idle", "Cancel", "Progress", "cancelling", "reading"}]
      /\ progress' \in 0 .. MaxProgress
  BY DEF callTask, callTooLate, callReturns, storeSample, callVars, IInv, Types, TypeOK
<1> USE DEF nativeVars, callbackVars, queueVars, cancelVars, resultVars, waitVars
<1>2. \/ UNCHANGED gate /\ gate # u
      \/ gate = u /\ gate' = Free
  BY DEF callTask, callTooLate, callReturns, IInv, Types, TypeOK
<1>3. /\ call'[u] \notin {"cancelling", "reading"}
      /\ \A v \in Callers \ {u} : call'[v] = call[v]
  BY DEF callTask, callTooLate, callReturns, IInv, Types
<1>4. TypeOK'
  BY <1>1, <1>2, <1>3, Names DEF IInv, Types, TypeOK
<1>5. gate' # gate => gate \in Callers /\ gate' = Free
  BY <1>2
<1>6. Gates'
  <2>1. ASSUME NEW t \in Waiters PROVE wait'[t] = "closing" <=> gate' = t
    BY <1>1, <1>5, Names DEF IInv, Gates
  <2>2. context' = "cancelling" <=> gate' = ContextThread
    BY <1>1, <1>5, Names DEF IInv, Gates
  <2>3. QED
    BY <1>1, <2>1, <2>2 DEF IInv, Gates
<1>7. NativeCloses'
  BY <1>1, <1>5, Names DEF IInv, NativeCloses, Stage, contextDone, Closed
<1>8. QED
  BY <1>1, <1>4, <1>6, <1>7 DEF IInv, Types, OneFinisher, Drained, Responsible

LEMMA NotOver == IInv /\ gate = Free /\ ~terminal => native \in {"running", "ended"}
BY Names DEF IInv, Types, TypeOK, NativeCloses, Closed

\* A call that has the gate finds native alive.
LEMMA EnterStep ==
  ASSUME IInv, NEW u \in Callers, Cancel(u) \/ Progress(u)
  PROVE  IInv'
<1>1. /\ gate = Free /\ gate' = u /\ ~terminal
      /\ UNCHANGED <<native, outcome, callbackVars, progress, queueVars, contextErr,
                     context, resultVars, waitVars>>
  BY DEF Cancel, Progress, gateFree, markCancelled, nativeVars, cancelVars, IInv, Types,
         TypeOK
<1>c. /\ told' \in BOOLEAN /\ cancelled' \in BOOLEAN
      /\ told => told'
      /\ told' => cancelled'
  <2>1. CASE Cancel(u)
    BY <2>1 DEF Cancel, markCancelled
  <2>2. CASE Progress(u)
    BY <2>2 DEF Progress, nativeVars, cancelVars, IInv, Types, TypeOK, Responsible
  <2>3. QED
    BY <2>1, <2>2
<1> USE DEF callbackVars, queueVars, resultVars, waitVars
<1>2. /\ call' \in [Callers -> {"idle", "Cancel", "Progress", "cancelling", "reading"}]
      /\ call'[u] \in {"cancelling", "reading"}
      /\ \A v \in Callers \ {u} : call'[v] = call[v]
      /\ sample' \in [Callers -> 0 .. MaxProgress]
  BY DEF Cancel, Progress, IInv, Types, TypeOK
<1>3. Types'
  BY <1>1, <1>c, <1>2, Names DEF IInv, Types, TypeOK
<1>4. Gates'
  <2>1. ASSUME NEW t \in Waiters PROVE wait'[t] = "closing" <=> gate' = t
    BY <1>1, Names DEF IInv, Gates
  <2>2. context' = "cancelling" <=> gate' = ContextThread
    BY <1>1, Names DEF IInv, Gates
  <2>3. QED
    BY <1>1, <2>1, <2>2 DEF IInv, Gates
<1>5. NativeCloses'
  BY <1>1, NotOver, Names DEF IInv, NativeCloses, Stage, contextDone, Closed
<1>6. QED
  BY <1>1, <1>c, <1>3, <1>4, <1>5 DEF IInv, OneFinisher, Drained, Responsible

LEMMA ContextStep == IInv /\ (contextEnds \/ Context) => IInv'
<1> SUFFICES ASSUME IInv, contextEnds \/ Context PROVE IInv'
  OBVIOUS
<1>1. UNCHANGED <<native, outcome, callbackVars, progress, queueVars, resultVars, waitVars,
                  callVars>>
  BY DEF contextEnds, Context, contextCancels, contextReturns, nativeVars
<1> USE DEF callbackVars, queueVars, resultVars, waitVars, callVars
<1>2. CASE contextEnds
  <2>1. /\ context = "armed" /\ context' = "firing"
        /\ UNCHANGED <<gate, told, cancelled, contextErr>>
    BY <1>2 DEF contextEnds, nativeVars
  <2>2. Types'
    BY <1>1, <2>1 DEF IInv, Types, TypeOK
  <2>3. QED
    BY <1>1, <2>1, <2>2
       DEF IInv, Gates, OneFinisher, NativeCloses, Stage, contextDone, Drained, Responsible
<1>3. CASE contextCancels
  <2>1. /\ context = "firing" /\ gate = Free /\ ~terminal
        /\ gate' = ContextThread /\ context' = "cancelling"
        /\ contextErr' = TRUE /\ cancelled' = TRUE /\ told' = TRUE
    BY <1>3 DEF contextCancels, gateFree, markCancelled
  <2>2. Types'
    BY <1>1, <2>1, Names DEF IInv, Types, TypeOK
  <2>3. Gates' /\ NativeCloses'
    BY <1>1, <2>1, NotOver, Names
       DEF IInv, Gates, NativeCloses, Stage, contextDone, Closed
  <2>4. QED
    BY <1>1, <2>1, <2>2, <2>3 DEF IInv, OneFinisher, Drained, Responsible
<1>4. CASE contextReturns
  <2>1. /\ context = "cancelling" /\ gate = ContextThread
        /\ context' = "finished" /\ gate' = Free
        /\ UNCHANGED <<told, cancelled, contextErr>>
    BY <1>4 DEF contextReturns, nativeVars, IInv, Gates
  <2>2. Types'
    BY <1>1, <2>1, Names DEF IInv, Types, TypeOK
  <2>3. Gates' /\ NativeCloses'
    BY <1>1, <2>1, Names DEF IInv, Gates, NativeCloses, Stage, contextDone, Closed
  <2>4. QED
    BY <1>1, <2>1, <2>2, <2>3 DEF IInv, OneFinisher, Drained, Responsible
<1>5. QED
  BY <1>2, <1>3, <1>4 DEF Context

-----------------------------------------------------------------------------
(* Wait *)

LEMMA Advanced ==
  ASSUME IInv, NEW t \in Threads, NEW from, NEW to, Advance(t, from, to),
         to \in Finishing \cup {"idle", "once", "returned"}
  PROVE  /\ wait' \in [Threads -> Finishing \cup {"idle", "once", "returned"}]
         /\ wait[t] = from /\ wait'[t] = to
         /\ \A s \in Threads \ {t} : wait'[s] = wait[s]
BY DEF Advance, IInv, Types

\* A thread goes on inside finishWait, where it is alone.
LEMMA FinisherAdvances ==
  ASSUME IInv, NEW t \in Threads, NEW from \in Finishing, NEW to \in Finishing,
         Advance(t, from, to), UNCHANGED once
  PROVE  /\ OneFinisher' /\ t \in Waiters /\ once = "running"
         /\ wait' \in [Threads -> Finishing \cup {"idle", "once", "returned"}]
         /\ wait[t] = from /\ wait'[t] = to
         /\ \A s \in Threads \ {t} : wait'[s] = wait[s] /\ wait'[s] \notin Finishing
         /\ wait'[Worker] = "idle"
<1>1. /\ wait' \in [Threads -> Finishing \cup {"idle", "once", "returned"}]
      /\ wait[t] = from /\ wait'[t] = to
      /\ \A s \in Threads \ {t} : wait'[s] = wait[s]
  BY Advanced
<1>2. once = "running" /\ \A s \in Threads \ {t} : wait[s] \notin Finishing
  BY <1>1 DEF IInv, OneFinisher
<1>3. t # Worker /\ t \in Waiters
  BY <1>1, Names DEF IInv, Gates, Finishing
<1>4. OneFinisher'
  BY <1>1, <1>2 DEF OneFinisher
<1>5. QED
  BY <1>1, <1>2, <1>3, <1>4, Names DEF IInv, Gates

\* What is known of the threads that do not finish stays known.
LEMMA OthersStage ==
  ASSUME IInv, NEW s \in Threads, wait'[s] = wait[s], wait'[s] \notin Finishing,
         once = "done" => once' = "done"
  PROVE  Stage(s)'
BY DEF IInv, NativeCloses, Stage, Finishing

LEMMA EnterWaitStep ==
  ASSUME IInv, NEW t \in Threads, enterWait(t)
  PROVE  IInv'
<1>1. /\ t # Worker
      /\ UNCHANGED <<gate, nativeVars, callbackVars, progress, queueVars, cancelVars,
                     resultVars, callVars>>
      /\ \/ once = "open" /\ Advance(t, "idle", "native") /\ once' = "running"
         \/ once # "open" /\ Advance(t, "idle", "once") /\ UNCHANGED once
  BY DEF enterWait, mayWait
<1>2. PICK to \in {"native", "once"} : Advance(t, "idle", to) /\ (to = "native" <=> once = "open")
  BY <1>1
<1>3. /\ wait' \in [Threads -> Finishing \cup {"idle", "once", "returned"}]
      /\ wait[t] = "idle" /\ wait'[t] = to
      /\ \A s \in Threads \ {t} : wait'[s] = wait[s]
  BY <1>2, Advanced DEF Finishing
<1> USE DEF nativeVars, callbackVars, queueVars, cancelVars, resultVars, callVars
<1>4. Types' /\ Responsible'
  BY <1>1, <1>3 DEF IInv, Types, TypeOK, Responsible
<1>5. Gates'
  <2>1. ASSUME NEW w \in Waiters PROVE wait'[w] = "closing" <=> gate' = w
    BY <1>1, <1>3, Names DEF IInv, Gates
  <2>2. QED
    BY <1>1, <1>3, <2>1, Names DEF IInv, Gates
<1>6. once = "open" => \A s \in Threads : wait[s] \notin Finishing
  BY DEF IInv, OneFinisher
<1>7. OneFinisher'
  BY <1>1, <1>2, <1>3, <1>6 DEF IInv, OneFinisher, Finishing
<1>8. once = "open" => native \in {"running", "ended"} /\ ~terminal /\ registered
  <2>1. gate \in Waiters => once # "open"
    BY <1>6, Names DEF IInv, Gates, Finishing
  <2>2. QED
    BY <2>1 DEF IInv, Types, TypeOK, NativeCloses, Closed, Drained
<1>9. NativeCloses'
  <2>1. ASSUME NEW s \in Threads PROVE Stage(s)'
    <3>1. CASE s = t
      BY <1>1, <1>2, <1>3, <1>8, <3>1 DEF Stage
    <3>2. CASE s # t
      BY <1>1, <1>2, <1>3, <3>2 DEF IInv, NativeCloses, Stage, contextDone
    <3>3. QED
      BY <3>1, <3>2
  <2>2. QED
    BY <1>1, <2>1 DEF IInv, NativeCloses, contextDone
<1>10. Drained'
  BY <1>1, <1>8 DEF IInv, Drained
<1>11. QED
  BY <1>4, <1>5, <1>7, <1>9, <1>10 DEF IInv

\* The steps before the gate: native has ended, the context is stopped or joined.
LEMMA PrepareStep ==
  ASSUME IInv, NEW t \in Threads, nativeWait(t) \/ stopContext(t)
  PROVE  IInv'
<1>1. /\ UNCHANGED <<gate, nativeVars, callbackVars, progress, queueVars, cancelled,
                     contextErr, resultVars, once, callVars>>
      /\ context' = context \/ (context = "armed" /\ context' = "stopped")
  BY DEF nativeWait, stopContext, cancelVars
<1> USE DEF nativeVars, callbackVars, queueVars, resultVars, callVars
<1>2. PICK from \in {"native", "stopping"}, to \in {"stopping", "context"} :
        Advance(t, from, to) /\ (from = "native" => native = "ended")
  BY DEF nativeWait, stopContext
<1>3. from \in Finishing /\ to \in Finishing /\ from # "closing" /\ to # "closing"
  BY DEF Finishing
<1>4. /\ OneFinisher' /\ t \in Waiters
      /\ wait' \in [Threads -> Finishing \cup {"idle", "once", "returned"}]
      /\ wait[t] = from /\ wait'[t] = to
      /\ \A s \in Threads \ {t} : wait'[s] = wait[s] /\ wait'[s] \notin Finishing
      /\ wait'[Worker] = "idle"
  BY <1>1, <1>2, <1>3, FinisherAdvances
<1>5. Types' /\ Drained' /\ Responsible'
  BY <1>1, <1>4 DEF IInv, Types, TypeOK, Drained, Responsible
<1>6. Gates'
  <2>1. ASSUME NEW w \in Waiters PROVE wait'[w] = "closing" <=> gate' = w
    BY <1>1, <1>3, <1>4, Names DEF IInv, Gates
  <2>2. QED
    BY <1>1, <1>4, <2>1 DEF IInv, Gates
<1>7. native = "ended"
  BY <1>2, <1>4 DEF IInv, NativeCloses, Stage
<1>8. NativeCloses'
  <2>1. Stage(t)'
    BY <1>1, <1>2, <1>4, <1>7 DEF Stage
  <2>2. \A s \in Threads : Stage(s)'
    BY <1>1, <1>4, <2>1, OthersStage
  <2>3. QED
    BY <1>1, <1>7, <2>2 DEF IInv, NativeCloses, contextDone, Closed
<1>9. QED
  BY <1>4, <1>5, <1>6, <1>8 DEF IInv

LEMMA BeginCloseStep ==
  ASSUME IInv, NEW t \in Threads, beginNativeClose(t)
  PROVE  IInv'
<1>1. /\ UNCHANGED <<outcome, told, callbackVars, progress, queueVars, cancelVars,
                     resultVars, once, callVars>>
      /\ contextDone /\ gate = Free /\ gate' = t /\ native' = "closing"
      /\ Advance(t, "context", "closing")
  BY DEF beginNativeClose
<1> USE DEF callbackVars, queueVars, cancelVars, resultVars, callVars
<1>2. {"context", "closing"} \subseteq Finishing
  BY DEF Finishing
<1>3. /\ OneFinisher' /\ t \in Waiters
      /\ wait' \in [Threads -> Finishing \cup {"idle", "once", "returned"}]
      /\ wait[t] = "context" /\ wait'[t] = "closing"
      /\ \A s \in Threads \ {t} : wait'[s] = wait[s] /\ wait'[s] \notin Finishing
      /\ wait'[Worker] = "idle"
  BY <1>1, <1>2, FinisherAdvances
<1>4. Types' /\ Drained' /\ Responsible'
  BY <1>1, <1>3, Names DEF IInv, Types, TypeOK, Drained, Responsible
<1>5. Gates'
  <2>1. ASSUME NEW w \in Waiters PROVE wait'[w] = "closing" <=> gate' = w
    BY <1>1, <1>2, <1>3, Names
  <2>2. context' # "cancelling" /\ gate' # ContextThread
    BY <1>1, <1>3, Names DEF contextDone
  <2>3. QED
    BY <1>3, <2>1, <2>2 DEF Gates
<1>6. ~terminal
  BY <1>3 DEF IInv, NativeCloses, Stage, Closed
<1>7. NativeCloses'
  <2>1. Stage(t)'
    BY <1>1, <1>3, <1>6 DEF Stage, contextDone
  <2>2. \A s \in Threads : Stage(s)'
    BY <1>1, <1>3, <2>1, OthersStage
  <2>3. QED
    BY <1>1, <1>3, <1>6, <2>2, Names DEF NativeCloses
<1>8. QED
  BY <1>3, <1>4, <1>5, <1>7 DEF IInv

\* The verdict: who is responsible is settled, because the context is joined.
LEMMA PublishStep ==
  ASSUME IInv, NEW t \in Threads, publish(t)
  PROVE  IInv'
<1>1. /\ UNCHANGED <<nativeVars, callbackVars, progress, queueVars, cancelVars, registered,
                     once, callVars>>
      /\ native \in Closed /\ Advance(t, "closing", "published")
      /\ result' = verdict /\ terminal' = TRUE /\ gate' = Free
  BY DEF publish, leaveGate, Closed
<1> USE DEF nativeVars, callbackVars, queueVars, cancelVars, callVars
<1>2. {"published", "closing"} \subseteq Finishing
  BY DEF Finishing
<1>3. /\ OneFinisher' /\ t \in Waiters /\ once = "running"
      /\ wait' \in [Threads -> Finishing \cup {"idle", "once", "returned"}]
      /\ wait[t] = "closing" /\ wait'[t] = "published"
      /\ \A s \in Threads \ {t} : wait'[s] = wait[s] /\ wait'[s] \notin Finishing
      /\ wait'[Worker] = "idle"
  BY <1>1, <1>2, FinisherAdvances
<1>4. contextDone /\ gate = t
  BY <1>3 DEF IInv, NativeCloses, Stage, Gates
<1>5. result' \in {"none", "file", "failed", "stopped", "cancelled", "contextCancelled",
                   "closeFailed"}
  BY <1>1 DEF verdict, IInv, Types, TypeOK
<1>6. outcome = "stopped" => result' = IF contextErr THEN "contextCancelled" ELSE "cancelled"
  <2>1. outcome = "stopped" => cancelled
    BY DEF IInv, Responsible
  <2>2. QED
    BY <1>1, <2>1 DEF verdict, IInv, Types, TypeOK
<1>7. Types'
  BY <1>1, <1>3, <1>4, <1>5, Names DEF IInv, Types, TypeOK
<1>8. Gates'
  <2>1. ASSUME NEW w \in Waiters PROVE wait'[w] # "closing" /\ gate' # w
    BY <1>1, <1>2, <1>3, Names DEF Finishing
  <2>2. context' # "cancelling" /\ gate' # ContextThread
    BY <1>1, <1>4, Names DEF contextDone
  <2>3. QED
    BY <1>3, <2>1, <2>2 DEF Gates
<1>9. NativeCloses'
  <2>1. Stage(t)'
    BY <1>1, <1>3 DEF Stage
  <2>2. \A s \in Threads : Stage(s)'
    BY <1>1, <1>3, <2>1, OthersStage
  <2>3. QED
    BY <1>1, <1>3, <1>4, <2>2, Names DEF NativeCloses, contextDone
<1>10. Drained' /\ Responsible'
  BY <1>1, <1>3, <1>6 DEF IInv, Drained, Responsible
<1>11. QED
  BY <1>3, <1>7, <1>8, <1>9, <1>10 DEF IInv

LEMMA CloseQueueStep ==
  ASSUME IInv, NEW t \in Threads, closeQueue(t)
  PROVE  IInv'
<1>1. /\ UNCHANGED <<gate, nativeVars, callbackVars, progress, queued, running, cancelVars,
                     resultVars, once, callVars>>
      /\ queueClosed' = TRUE /\ Advance(t, "published", "draining")
  BY DEF closeQueue
<1> USE DEF nativeVars, callbackVars, cancelVars, resultVars, callVars
<1>2. {"published", "draining"} \subseteq Finishing
  BY DEF Finishing
<1>3. /\ OneFinisher' /\ t \in Waiters /\ once = "running"
      /\ wait' \in [Threads -> Finishing \cup {"idle", "once", "returned"}]
      /\ wait[t] = "published" /\ wait'[t] = "draining"
      /\ \A s \in Threads \ {t} : wait'[s] = wait[s] /\ wait'[s] \notin Finishing
      /\ wait'[Worker] = "idle"
  BY <1>1, <1>2, FinisherAdvances
<1>4. Types' /\ Drained' /\ Responsible'
  BY <1>1, <1>3 DEF IInv, Types, TypeOK, Drained, Responsible
<1>5. Gates'
  <2>1. ASSUME NEW w \in Waiters PROVE wait'[w] = "closing" <=> gate' = w
    BY <1>1, <1>3, Names DEF IInv, Gates
  <2>2. QED
    BY <1>1, <1>3, <2>1 DEF IInv, Gates
<1>6. NativeCloses'
  <2>1. Stage(t)'
    BY <1>1, <1>3 DEF IInv, NativeCloses, Stage
  <2>2. \A s \in Threads : Stage(s)'
    BY <1>1, <1>3, <2>1, OthersStage
  <2>3. QED
    BY <1>1, <2>2 DEF IInv, NativeCloses, contextDone
<1>7. QED
  BY <1>3, <1>4, <1>5, <1>6 DEF IInv

LEMMA LeaveClientStep ==
  ASSUME IInv, NEW t \in Threads, leaveClient(t)
  PROVE  IInv'
<1>1. /\ UNCHANGED <<gate, nativeVars, callbackVars, progress, queueVars, cancelVars,
                     terminal, result, callVars>>
      /\ drained /\ registered' = FALSE /\ once' = "done"
      /\ Advance(t, "draining", "once")
  BY DEF leaveClient
<1> USE DEF nativeVars, callbackVars, queueVars, cancelVars, callVars
<1>2. /\ wait' \in [Threads -> Finishing \cup {"idle", "once", "returned"}]
      /\ wait[t] = "draining" /\ wait'[t] = "once"
      /\ \A s \in Threads \ {t} : wait'[s] = wait[s]
  BY <1>1, Advanced
<1>3. \A s \in Threads : wait'[s] \notin Finishing
  BY <1>2 DEF IInv, OneFinisher, Finishing
<1>4. t \in Waiters /\ wait'[Worker] = "idle"
  BY <1>2, Names DEF IInv, Gates
<1>5. OneFinisher' /\ Types' /\ Responsible'
  <2>1. registered' \in BOOLEAN /\ once' \in {"open", "running", "done"}
    BY <1>1
  <2>2. Types'
    BY <1>1, <1>2, <2>1 DEF IInv, Types, TypeOK
  <2>3. QED
    BY <1>1, <1>3, <2>2 DEF IInv, OneFinisher, Responsible
<1>6. Gates'
  <2>1. ASSUME NEW w \in Waiters PROVE wait'[w] = "closing" <=> gate' = w
    BY <1>1, <1>2, Names DEF IInv, Gates
  <2>2. QED
    BY <1>1, <1>4, <2>1 DEF IInv, Gates
<1>7. NativeCloses'
  <2>1. \A s \in Threads : Stage(s)'
    BY <1>1, <1>3 DEF Stage, Finishing
  <2>2. QED
    BY <1>1, <2>1 DEF IInv, NativeCloses, contextDone
<1>8. Drained'
  BY <1>1, <1>2 DEF IInv, NativeCloses, Stage, Drained, drained
<1>9. QED
  BY <1>5, <1>6, <1>7, <1>8 DEF IInv

LEMMA ReturnStep ==
  ASSUME IInv, NEW t \in Threads, waitReturns(t)
  PROVE  IInv'
<1>1. /\ UNCHANGED <<gate, nativeVars, callbackVars, progress, queueVars, cancelVars,
                     resultVars, once, callVars>>
      /\ once = "done" /\ Advance(t, "once", "returned")
  BY DEF waitReturns, onceDone
<1> USE DEF nativeVars, callbackVars, queueVars, cancelVars, resultVars, callVars
<1>2. /\ wait' \in [Threads -> Finishing \cup {"idle", "once", "returned"}]
      /\ wait[t] = "once" /\ wait'[t] = "returned"
      /\ \A s \in Threads \ {t} : wait'[s] = wait[s]
  BY <1>1, Advanced
<1>3. \A s \in Threads : wait'[s] \notin Finishing
  BY <1>1, <1>2 DEF IInv, OneFinisher, Finishing
<1>4. t \in Waiters /\ wait'[Worker] = "idle"
  BY <1>2, Names DEF IInv, Gates
<1>5. OneFinisher' /\ Types' /\ Responsible' /\ Drained'
  BY <1>1, <1>2, <1>3 DEF IInv, Types, TypeOK, OneFinisher, Responsible, Drained
<1>6. Gates'
  <2>1. ASSUME NEW w \in Waiters PROVE wait'[w] = "closing" <=> gate' = w
    BY <1>1, <1>2, Names DEF IInv, Gates
  <2>2. QED
    BY <1>1, <1>4, <2>1 DEF IInv, Gates
<1>7. NativeCloses'
  <2>1. \A s \in Threads : Stage(s)'
    BY <1>1, <1>3 DEF Stage, Finishing
  <2>2. QED
    BY <1>1, <2>1 DEF IInv, NativeCloses, contextDone
<1>8. QED
  BY <1>5, <1>6, <1>7 DEF IInv

-----------------------------------------------------------------------------
LEMMA InvariantStep == IInv /\ [Next]_vars => IInv'
<1> SUFFICES ASSUME IInv, [Next]_vars PROVE IInv'
  OBVIOUS
<1>1. CASE Calls
  BY <1>1, CallbackStep
<1>2. CASE nativeEnds \/ nativeClose
  BY <1>2, NativeStep
<1>3. CASE contextEnds \/ Context
  BY <1>3, ContextStep
<1>4. ASSUME NEW u \in Callers, callTask(u) \/ EnterGate(u) \/ callReturns(u) PROVE IInv'
  BY <1>4, CallerStep, EnterStep DEF EnterGate
<1>5. ASSUME NEW t \in Threads, enterWait(t) \/ Wait(t) PROVE IInv'
  BY <1>5, EnterWaitStep, PrepareStep, BeginCloseStep, PublishStep, CloseQueueStep,
     LeaveClientStep, ReturnStep DEF Wait
<1>6. CASE UNCHANGED vars
  BY <1>6 DEF vars, nativeVars, callbackVars, queueVars, cancelVars, resultVars, waitVars,
              callVars, IInv, Types, TypeOK, Gates, OneFinisher, NativeCloses, Stage,
              contextDone, Drained, Responsible
<1>7. QED
  BY <1>1, <1>2, <1>3, <1>4, <1>5, <1>6 DEF Next, Calls

LEMMA InvariantHolds == Spec => []IInv
BY InitHolds, InvariantStep, PTL DEF Spec

\* Types and bounds of the export, and the gate's holder among the callers
\* (task.go:62-79).
THEOREM ExportTypes == Spec => []TypeOK
<1>1. IInv => TypeOK
  BY DEF IInv, Types
<1>2. QED
  BY <1>1, InvariantHolds, PTL

\* Neither Cancel nor Progress nor the context's goroutine is inside the native
\* task once its Close has begun (task.go:173-186, 198-236, 253-285).
THEOREM CallsAvoidClose == Spec => []NoCallDuringClose
<1>1. IInv => NoCallDuringClose
  <2> SUFFICES ASSUME IInv, InNativeCall PROVE native \in {"running", "ended"}
    BY DEF NoCallDuringClose
  <2>1. gate \in Callers \cup {ContextThread}
    BY DEF InNativeCall, IInv, Types, TypeOK, Gates
  <2>2. QED
    BY <2>1 DEF IInv, NativeCloses
<1>2. QED
  BY <1>1, InvariantHolds, PTL

\* A Wait that has returned leaves no handler behind, and a cancelled export is
\* reported as what cancelled it (task.go:181, 227, 249-252, 274-287).
THEOREM WaitKeepsContract == Spec => []WaitContract
<1>1. IInv => WaitContract
  <2> SUFFICES ASSUME IInv PROVE WaitContract
    OBVIOUS
  <2>1. ~registered \/ (\E t \in Threads : wait[t] = "returned") => once = "done"
    BY DEF IInv, NativeCloses, Stage, Drained
  <2>2. terminal => context \in {"stopped", "finished"}
    BY DEF IInv, NativeCloses, contextDone
  <2>3. QED
    BY <2>1, <2>2 DEF IInv, Drained, Responsible, WaitContract
<1>2. QED
  BY <1>1, InvariantHolds, PTL
=============================================================================
