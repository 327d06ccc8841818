---------------------------- MODULE ManagedClose ----------------------------
(***************************************************************************)
(* An RTC client (runtime.go) and what it owns: connections (conn.go),     *)
(* their recordings (recording.go) and raw dumps (raw_dump.go), and the    *)
(* outputs attached to them.  Client.Close closes all of it, bottom up,    *)
(* while goroutines and handlers go on creating, stopping and closing the  *)
(* same objects; any native call may fail and leave the rest for a retry.  *)
(*                                                                         *)
(* As in Replay, an operation is the sequence of the steps still to do.    *)
(* c.opMu and d.mu are held over steps; the client's, the connections' and *)
(* the tasks' mutexes guard single steps, and what is done under opMu      *)
(* alone, such as Attach, is one step.  Native is taken at its least: it   *)
(* never refuses to destroy an object because of its children.  Left out:  *)
(* Connect and the state (Connection), an output's own Close (RtcOutput),  *)
(* and Client.Close inside an output's handler.                            *)
(***************************************************************************)
EXTENDS Naturals, FiniteSets, Sequences, Functions

CONSTANTS Users,       \* goroutines of the application
          Connections, Outputs, Recordings, Dumps,
          MaxCalls     \* bound on calls; no bound in the code

\* The goroutine of a mailbox has the name of its connection or output.
Actors == Users \cup Connections \cup Outputs
Free == "free"
NoOne == "none"

ASSUME ManagedAssumption ==
  /\ MaxCalls \in Nat
  /\ IsFiniteSet(Connections) /\ IsFiniteSet(Outputs)
  /\ IsFiniteSet(Recordings) /\ IsFiniteSet(Dumps)
  /\ Connections \cap Outputs = {} /\ Recordings \cap Dumps = {}
  /\ NoOne \notin Connections /\ Free \notin Actors

VARIABLES closing, clientClosed,  \* c.closing and c.closed
          client,      \* the native client: "open" or "destroyed"
          registry,    \* c.connections
          conn,        \* native connections: "none", "open" or "destroyed"
          connClosed,  \* connections with closed set
          shut,        \* connections whose mailbox is closing or closed
          opMu,        \* the actor that holds each connection's opMu, or Free
          bound,       \* the connection each output is among the deps of, or NoOne
          parent,      \* the connection each recording and raw dump was started on
          recording,   \* "none", "live", "stopping", "done"
          tasks,       \* recordings their connection knows
          dump,        \* native raw dumps: "none", "live", "destroyed"
          dumpMu,      \* the actor that holds each d.mu, or Free
          archived,    \* raw dumps with d.archive
          dumps,       \* raw dumps their connection knows
          waiting,     \* outputs with something in their mailbox
          handling,    \* mailboxes in a user handler
          todo,        \* the steps each actor has before it
          at,          \* where in the first one it is
          calls        \* calls made so far

clientVars == <<closing, clientClosed, client, registry>>
connVars == <<conn, connClosed, shut>>
recordingVars == <<recording, tasks>>
dumpVars == <<dump, dumpMu, archived, dumps>>
eventVars == <<waiting, handling>>
callVars == <<todo, at, calls>>
objects == <<recordingVars, dumpVars>>
tree == <<clientVars, connVars, bound, parent, eventVars>>
vars == <<tree, opMu, objects, callVars>>

Init == /\ closing = FALSE /\ clientClosed = FALSE /\ client = "open"
        /\ registry = {}
        /\ conn = [c \in Connections |-> "none"]
        /\ connClosed = {} /\ shut = {}
        /\ opMu = [c \in Connections |-> Free]
        /\ bound = [o \in Outputs |-> NoOne]
        /\ parent = [x \in Recordings \cup Dumps |-> NoOne]
        /\ recording = [r \in Recordings |-> "none"] /\ tasks = {}
        /\ dump = [d \in Dumps |-> "none"] /\ dumps = {} /\ archived = {}
        /\ dumpMu = [d \in Dumps |-> Free]
        /\ waiting = {} /\ handling = {}
        /\ todo = [a \in Actors |-> <<>>]
        /\ at = [a \in Actors |-> "start"]
        /\ calls = 0

DepsOf(c) == {o \in Outputs : bound[o] = c}
TasksOf(c) == {r \in tasks : parent[r] = c}
DumpsOf(c) == {d \in dumps : parent[d] = c}

\* mailbox.preflightClose: a handler runs, or a close is under way.
ConnBusy(c) == c \in handling \/ (c \in shut /\ c \notin connClosed)

-----------------------------------------------------------------------------
(* Operations as sequences of steps *)

\* A step and the object that it is about.
Do(name) == <<name, "client">>
On(name, object) == <<name, object>>
Each(name, seq) == [i \in DOMAIN seq |-> On(name, seq[i])]

\* The orders in which the members of a set may be visited.
Orders(S) == {seq \in [1 .. Cardinality(S) -> S] : Range(seq) = S}

\* Recovery steps: an operation that fails goes on at the next one.
Recovery == {"connReleased", "settle"}

Doing(a, name, place) == /\ todo[a] # <<>>
                         /\ Head(todo[a])[1] = name
                         /\ at[a] = place
Object(a) == Head(todo[a])[2]

GoOn(a, place) == at' = [at EXCEPT ![a] = place] /\ UNCHANGED <<todo, calls>>

Proceed(a, steps, place) == /\ todo' = [todo EXCEPT ![a] = steps]
                            /\ at' = [at EXCEPT ![a] = place]
                            /\ UNCHANGED calls

Continue(a, steps) == Proceed(a, steps, "start")
StepDone(a) == Continue(a, Tail(todo[a]))

Unlock(a) == opMu' = [c \in Connections |-> IF opMu[c] = a THEN Free ELSE opMu[c]]

Recover(a) ==
  LET places == {i \in DOMAIN todo[a] : todo[a][i][1] \in Recovery}
  IN \/ places = {} /\ Continue(a, <<>>)
     \/ \E next \in places :
          /\ \A i \in places : next <= i
          /\ Proceed(a, SubSeq(todo[a], next, Len(todo[a])), "failed")

Fail(a) == Unlock(a) /\ Recover(a)

Operations(a) ==
  {<<Do("closeClient")>> : x \in {a} \ Outputs}
  \cup {<<On("close", c)>> : c \in {c \in Connections : conn[c] # "none"}}
  \cup {<<On("stop", r)>> : r \in {r \in Recordings : recording[r] # "none"}}
  \cup {<<On(name, d)>> : name \in {"stopDump", "closeDump"},
                          d \in {d \in Dumps : dump[d] # "none"}}

MayCall(a) == /\ todo[a] = <<>>
              /\ a \in Users \cup handling
              /\ calls < MaxCalls
              /\ calls' = calls + 1

call(a) == /\ MayCall(a)
           /\ \E steps \in Operations(a) : todo' = [todo EXCEPT ![a] = steps]
           /\ UNCHANGED <<tree, opMu, objects, at>>

-----------------------------------------------------------------------------
(* Creating objects; where native refuses nothing changes *)

\* Mutant: a client that is closing still makes connections.
mayCreateWhileClosing == ~clientClosed

mayCreate == ~clientClosed /\ ~closing

NewConnection(c) ==
  /\ mayCreate
  /\ conn[c] = "none"
  /\ conn' = [conn EXCEPT ![c] = "open"]
  /\ registry' = registry \cup {c}
  /\ UNCHANGED <<closing, clientClosed, client, connClosed, shut, bound, parent,
                 objects, waiting>>

\* The connection admits an operation, which holds opMu while it runs.
Admits(c) == conn[c] # "none" /\ c \notin connClosed /\ opMu[c] = Free

attach(o, c) ==
  /\ Admits(c)
  /\ bound[o] = NoOne
  /\ bound' = [bound EXCEPT ![o] = c]
  /\ UNCHANGED <<clientVars, connVars, parent, objects, waiting>>

\* Becoming Idle may be news to the application.
detach(o, c) ==
  /\ Admits(c)
  /\ bound[o] = c
  /\ bound' = [bound EXCEPT ![o] = NoOne]
  /\ waiting' \in {waiting, waiting \cup {o}}
  /\ UNCHANGED <<clientVars, connVars, parent, objects>>

StartRecording(r, c) ==
  /\ Admits(c)
  /\ recording[r] = "none"
  /\ recording' = [recording EXCEPT ![r] = "live"]
  /\ parent' = [parent EXCEPT ![r] = c]
  /\ tasks' = tasks \cup {r}
  /\ UNCHANGED <<clientVars, connVars, bound, dumpVars, waiting>>

StartRawDump(d, c) ==
  /\ Admits(c)
  /\ dump[d] = "none"
  /\ dump' = [dump EXCEPT ![d] = "live"]
  /\ parent' = [parent EXCEPT ![d] = c]
  /\ dumps' = dumps \cup {d}
  /\ UNCHANGED <<clientVars, connVars, bound, recordingVars, dumpMu, archived,
                 waiting>>

\* Calls that are one step, because opMu or c.mu is held all the while.
shortCall(a) ==
  /\ MayCall(a)
  /\ \E c \in Connections : \/ NewConnection(c)
                            \/ \E o \in Outputs : attach(o, c) \/ detach(o, c)
                            \/ \E r \in Recordings : StartRecording(r, c)
                            \/ \E d \in Dumps : StartRawDump(d, c)
  /\ UNCHANGED <<opMu, handling, todo, at>>

-----------------------------------------------------------------------------
(* RecordingTask.Stop *)

\* While another Stop is in native, this one waits for it and looks again.
mayStop(r) == recording[r] = "live"

beginStop(a) ==
  /\ Doing(a, "stop", "start")
  /\ mayStop(Object(a))
  /\ recording' = [recording EXCEPT ![Object(a)] = "stopping"]
  /\ GoOn(a, "native")
  /\ UNCHANGED <<tree, opMu, tasks, dumpVars>>

\* Native has destroyed the task, whatever it says of the file.
stopped(a) ==
  /\ Doing(a, "stop", "native")
  /\ recording' = [recording EXCEPT ![Object(a)] = "done"]
  /\ tasks' = tasks \ {Object(a)}
  /\ StepDone(a)
  /\ UNCHANGED <<tree, opMu, dumpVars>>

\* Mutant: a Stop that failed lets go of the connection.
keptUnknown(a) ==
  /\ Doing(a, "stop", "native")
  /\ recording' = [recording EXCEPT ![Object(a)] = "live"]
  /\ tasks' = tasks \ {Object(a)}
  /\ GoOn(a, "kept")
  /\ UNCHANGED <<tree, opMu, dumpVars>>

\* Native keeps the task: Stop fails and may be called again.
keptRecording(a) ==
  /\ Doing(a, "stop", "native")
  /\ recording' = [recording EXCEPT ![Object(a)] = "live"]
  /\ GoOn(a, "kept")
  /\ UNCHANGED <<tree, opMu, tasks, dumpVars>>

\* Another Stop has finished it before, or since this one failed.
stoppedBefore(a) ==
  /\ Doing(a, "stop", "start") \/ Doing(a, "stop", "kept")
  /\ IF recording[Object(a)] = "done" THEN StepDone(a) /\ UNCHANGED opMu
     ELSE at[a] = "kept" /\ Fail(a)
  /\ UNCHANGED <<tree, objects>>

-----------------------------------------------------------------------------
(* RawDump.Stop and Close; d.mu is held during their native calls *)

Stopping(a, place) == Doing(a, "stopDump", place) \/ Doing(a, "closeDump", place)

\* Close goes on after its Stop, whether that succeeded or not.
AfterStop(a) == \/ Doing(a, "stopDump", at[a]) /\ StepDone(a)
                \/ Doing(a, "closeDump", at[a]) /\ GoOn(a, "stopped")

lockDump(a) ==
  /\ dumpMu[Object(a)] = Free
  /\ dump[Object(a)] = "live"
  /\ dumpMu' = [dumpMu EXCEPT ![Object(a)] = a]
  /\ UNCHANGED <<tree, opMu, recordingVars, dump, archived, dumps>>

\* Mutant: the call returns without it.
neverUnlocks(a) == UNCHANGED dumpMu

unlockDump(a) == dumpMu' = [dumpMu EXCEPT ![Object(a)] = Free]

stopDump(a) ==
  /\ Stopping(a, "start")
  /\ Object(a) \notin archived
  /\ lockDump(a)
  /\ GoOn(a, "stopping")

dumpStopped(a) ==
  /\ Stopping(a, "stopping")
  /\ archived' \in {archived, archived \cup {Object(a)}}
  /\ unlockDump(a)
  /\ AfterStop(a)
  /\ UNCHANGED <<tree, opMu, recordingVars, dump, dumps>>

\* The archive is there already, or a Close has destroyed the dump.
dumpStoppedBefore(a) ==
  /\ Stopping(a, "start")
  /\ Object(a) \in archived \/ dump[Object(a)] = "destroyed"
  /\ dumpMu[Object(a)] = Free
  /\ AfterStop(a)
  /\ UNCHANGED <<tree, opMu, objects>>

destroyDump(a) ==
  /\ Doing(a, "closeDump", "stopped")
  /\ lockDump(a)
  /\ GoOn(a, "destroying")

\* Another Close has destroyed it before, or since this one failed.
dumpDestroyedBefore(a) ==
  /\ Doing(a, "closeDump", "stopped") \/ Doing(a, "closeDump", "kept")
  /\ dump[Object(a)] = "destroyed"
  /\ dumpMu[Object(a)] = Free
  /\ StepDone(a)
  /\ UNCHANGED <<tree, opMu, objects>>

\* After five seconds of retries (closeRawDumpNative) or another error.
keptDump(a) ==
  /\ Doing(a, "closeDump", "destroying")
  /\ unlockDump(a)
  /\ GoOn(a, "kept")
  /\ UNCHANGED <<tree, opMu, recordingVars, dump, archived, dumps>>

dumpNotReleased(a) ==
  /\ Doing(a, "closeDump", "kept")
  /\ dumpMu[Object(a)] = Free
  /\ dump[Object(a)] = "live"
  /\ Fail(a)
  /\ UNCHANGED <<tree, objects>>

dumpDestroyed(a) ==
  /\ Doing(a, "closeDump", "destroying")
  /\ dump' = [dump EXCEPT ![Object(a)] = "destroyed"]
  /\ unlockDump(a)
  /\ GoOn(a, "destroyed")
  /\ UNCHANGED <<tree, opMu, recordingVars, archived, dumps>>

forgetDump(a) ==
  /\ Doing(a, "closeDump", "destroyed")
  /\ dumps' = dumps \ {Object(a)}
  /\ StepDone(a)
  /\ UNCHANGED <<tree, opMu, recordingVars, dump, dumpMu, archived>>

-----------------------------------------------------------------------------
(* Conn.Close *)

\* Without opMu: c.mu and then the mailbox are looked at.
lookClose(a) ==
  /\ Doing(a, "close", "start")
  /\ LET c == Object(a) IN
       IF c \in connClosed THEN StepDone(a) /\ UNCHANGED opMu
       ELSE IF DepsOf(c) \cup TasksOf(c) # {} \/ ConnBusy(c) THEN Fail(a)
       ELSE GoOn(a, "looked") /\ UNCHANGED opMu
  /\ UNCHANGED <<tree, objects>>

mayClose(c) == DepsOf(c) \cup TasksOf(c) = {}

\* The second look, under opMu, which is kept while the raw dumps are closed.
lockClose(a) ==
  /\ Doing(a, "close", "looked")
  /\ opMu[Object(a)] = Free
  /\ LET c == Object(a) IN
       \/ c \in connClosed /\ StepDone(a) /\ UNCHANGED opMu
       \/ c \notin connClosed /\ ~mayClose(c) /\ Fail(a)
       \/ /\ c \notin connClosed /\ mayClose(c)
          /\ opMu' = [opMu EXCEPT ![c] = a]
          /\ \E ds \in Orders(DumpsOf(c)) :
               Continue(a, Each("closeDump", ds) \o <<On("destroyConn", c)>>
                           \o Tail(todo[a]))
  /\ UNCHANGED <<tree, objects>>

beginClose(a) ==
  /\ Doing(a, "destroyConn", "start")
  /\ IF Object(a) \in handling
     THEN Fail(a) /\ UNCHANGED shut
     ELSE shut' = shut \cup {Object(a)} /\ GoOn(a, "begun") /\ UNCHANGED opMu
  /\ UNCHANGED <<clientVars, conn, connClosed, bound, parent, objects,
                 eventVars>>

\* Mutant: the mailbox stays closed when native fails.
staysShut(a) ==
  /\ Doing(a, "destroyConn", "begun")
  /\ Fail(a)
  /\ UNCHANGED <<tree, objects>>

\* Disconnect or the destruction fails: cancelClose.
connKept(a) ==
  /\ Doing(a, "destroyConn", "begun")
  /\ shut' = shut \ {Object(a)}
  /\ Fail(a)
  /\ UNCHANGED <<clientVars, conn, connClosed, bound, parent, objects,
                 eventVars>>

connDestroyed(a) ==
  /\ Doing(a, "destroyConn", "begun")
  /\ conn' = [conn EXCEPT ![Object(a)] = "destroyed"]
  /\ GoOn(a, "destroyed")
  /\ UNCHANGED <<clientVars, connClosed, shut, opMu, bound, parent, objects,
                 eventVars>>

\* c.closed, and finishClose.
finishClose(a) ==
  /\ Doing(a, "destroyConn", "destroyed")
  /\ connClosed' = connClosed \cup {Object(a)}
  /\ GoOn(a, "closed")
  /\ UNCHANGED <<clientVars, conn, shut, opMu, bound, parent, objects,
                 eventVars>>

forgetConn(a) ==
  /\ Doing(a, "destroyConn", "closed")
  /\ registry' = registry \ {Object(a)}
  /\ Unlock(a) /\ StepDone(a)
  /\ UNCHANGED <<closing, clientClosed, client, connVars, bound, parent,
                 objects, eventVars>>

-----------------------------------------------------------------------------
(* Client.Close *)

\* A client that is closed is no error, one that is closing is ErrInUse.
beginClientClose(a) ==
  /\ Doing(a, "closeClient", "start")
  /\ \/ clientClosed /\ StepDone(a) /\ UNCHANGED <<opMu, closing>>
     \/ ~clientClosed /\ closing /\ Fail(a) /\ UNCHANGED closing
     \/ /\ ~clientClosed /\ ~closing
        /\ closing' = TRUE
        /\ \E cs \in Orders(registry) :
             Continue(a, Each("preflight", cs) \o Each("closeFromClient", cs)
                         \o <<Do("destroyClient"), Do("settle")>>)
        /\ UNCHANGED opMu
  /\ UNCHANGED <<clientClosed, client, registry, connVars, bound, parent,
                 objects, eventVars>>

\* Of the connection, and then of the outputs it has now.  A refusal ends the
\* whole close: the recovery of a connection is not for preflight.
preflightClientClose(a) ==
  /\ Doing(a, "preflight", "start") \/ Doing(a, "preflightOutput", "start")
  /\ LET x == Object(a) IN
       IF x \in handling \/ (x \in Connections /\ ConnBusy(x))
       THEN Proceed(a, <<Do("settle")>>, "failed")
       ELSE IF x \in Outputs THEN StepDone(a)
       ELSE \E os \in Orders(DepsOf(x)) :
              Continue(a, Each("preflightOutput", os) \o Tail(todo[a]))
  /\ UNCHANGED <<tree, opMu, objects>>

\* closeFromClient: dumps, recordings and outputs seen now, and then Close;
\* what its failure means is for Client.Close to see.
closeFromClient(a) ==
  /\ Doing(a, "closeFromClient", "start")
  /\ LET c == Object(a) IN
       \E ds \in Orders(DumpsOf(c)), rs \in Orders(TasksOf(c)),
          os \in Orders(DepsOf(c)) :
         Continue(a, Each("closeDump", ds) \o Each("stop", rs)
                     \o Each("detachFromClient", os)
                     \o <<On("close", c), On("connReleased", c)>> \o Tail(todo[a]))
  /\ UNCHANGED <<tree, opMu, objects>>

\* From whatever connection it is attached to now; ErrNotBound is success.
detachFromClient(a) ==
  /\ Doing(a, "detachFromClient", "start")
  /\ LET o == Object(a) IN
       \/ bound[o] = NoOne /\ StepDone(a) /\ UNCHANGED <<bound, waiting>>
       \/ /\ bound[o] # NoOne /\ opMu[bound[o]] = Free
          /\ bound' = [bound EXCEPT ![o] = NoOne]
          /\ waiting' \in {waiting, waiting \cup {o}}
          /\ GoOn(a, "waitIdle")
  /\ UNCHANGED <<clientVars, connVars, opMu, parent, objects, handling>>

detachFails(a) ==
  /\ Doing(a, "detachFromClient", "start")
  /\ bound[Object(a)] # NoOne /\ opMu[bound[Object(a)]] = Free
  /\ Fail(a)
  /\ UNCHANGED <<tree, objects>>

waitIdle(a) ==
  /\ Doing(a, "detachFromClient", "waitIdle")
  /\ Object(a) \notin waiting \cup handling
  /\ StepDone(a)
  /\ UNCHANGED <<tree, opMu, objects>>

\* closeFromClient failed, but is the connection closed in spite of that?
released(c) == c \in connClosed

connReleased(a) ==
  /\ \E place \in {"start", "failed"} :
       /\ Doing(a, "connReleased", place)
       /\ IF place = "start" \/ released(Object(a))
          THEN StepDone(a)
          ELSE Proceed(a, <<Do("settle")>>, "failed")
  /\ UNCHANGED <<tree, opMu, objects>>

destroyClient(a) ==
  /\ Doing(a, "destroyClient", "start")
  /\ \/ client' = "destroyed" /\ StepDone(a) /\ UNCHANGED opMu
     \/ UNCHANGED client /\ Fail(a)
  /\ UNCHANGED <<closing, clientClosed, registry, connVars, bound, parent,
                 objects, eventVars>>

settle(a) ==
  /\ \/ Doing(a, "settle", "start") /\ clientClosed' = TRUE
     \/ Doing(a, "settle", "failed") /\ UNCHANGED clientClosed
  /\ closing' = FALSE
  /\ StepDone(a)
  /\ UNCHANGED <<client, registry, connVars, opMu, bound, parent, objects,
                 eventVars>>

-----------------------------------------------------------------------------
(* Mailboxes *)

\* A callback of the connection gets to the application.
connHandler(c) ==
  /\ conn[c] = "open" /\ c \notin shut \cup handling
  /\ handling' = handling \cup {c}
  /\ UNCHANGED <<clientVars, connVars, opMu, bound, parent, objects, waiting,
                 callVars>>

\* A state, an error or a frame for the output.
deliver(o) ==
  /\ bound[o] # NoOne /\ o \notin waiting
  /\ waiting' = waiting \cup {o}
  /\ UNCHANGED <<clientVars, connVars, opMu, bound, parent, objects, handling,
                 callVars>>

outputHandler(o) ==
  /\ o \in waiting \ handling
  /\ waiting' = waiting \ {o}
  /\ handling' = handling \cup {o}
  /\ UNCHANGED <<clientVars, connVars, opMu, bound, parent, objects, callVars>>

handlerReturns(x) ==
  /\ x \in handling
  /\ todo[x] = <<>>
  /\ handling' = handling \ {x}
  /\ UNCHANGED <<clientVars, connVars, opMu, bound, parent, objects, waiting,
                 callVars>>

-----------------------------------------------------------------------------
StopRecording(a) == \/ beginStop(a)
                    \/ stopped(a)
                    \/ keptRecording(a)
                    \/ stoppedBefore(a)

CloseRawDump(a) == \/ stopDump(a)
                   \/ dumpStopped(a)
                   \/ dumpStoppedBefore(a)
                   \/ destroyDump(a)
                   \/ dumpDestroyedBefore(a)
                   \/ keptDump(a)
                   \/ dumpNotReleased(a)
                   \/ dumpDestroyed(a)
                   \/ forgetDump(a)

CloseConn(a) == \/ lookClose(a)
                \/ lockClose(a)
                \/ beginClose(a)
                \/ connKept(a)
                \/ connDestroyed(a)
                \/ finishClose(a)
                \/ forgetConn(a)

CloseClient(a) == \/ beginClientClose(a)
                  \/ preflightClientClose(a)
                  \/ closeFromClient(a)
                  \/ detachFromClient(a)
                  \/ detachFails(a)
                  \/ waitIdle(a)
                  \/ connReleased(a)
                  \/ destroyClient(a)
                  \/ settle(a)

Operate(a) == StopRecording(a) \/ CloseRawDump(a) \/ CloseConn(a) \/ CloseClient(a)

Next == \/ \E a \in Actors : call(a) \/ shortCall(a) \/ Operate(a)
        \/ \E x \in Connections \cup Outputs : handlerReturns(x)
        \/ \E c \in Connections : connHandler(c)
        \/ \E o \in Outputs : deliver(o) \/ outputHandler(o)

Spec == Init /\ [][Next]_vars

(***************************************************************************)
(* Goroutines and handlers run on and native calls return; the outputs     *)
(* have nothing more to deliver some day, which waitIdle depends on.  As   *)
(* in Replay one condition stands for all callers: they make finitely many *)
(* steps, so nothing depends on who is scheduled.                          *)
(***************************************************************************)
Fairness == /\ WF_vars(\E a \in Actors : Operate(a))
            /\ \A x \in Connections \cup Outputs : WF_vars(handlerReturns(x))
            /\ \A o \in Outputs : /\ WF_vars(outputHandler(o))
                                  /\ <>[][~deliver(o)]_vars

-----------------------------------------------------------------------------
(* Properties *)

ClosingClient(a) == \E i \in DOMAIN todo[a] : todo[a][i][1] = "settle"
InDump(a) == Stopping(a, "stopping") \/ Doing(a, "closeDump", "destroying")

About(name, place, object) ==
  \E a \in Actors : Doing(a, name, place) /\ Object(a) = object

Types ==
  /\ closing \in BOOLEAN /\ clientClosed \in BOOLEAN
  /\ client \in {"open", "destroyed"}
  /\ conn \in [Connections -> {"none", "open", "destroyed"}]
  /\ registry \subseteq {c \in Connections : conn[c] # "none"}
  /\ connClosed \subseteq shut /\ shut \in SUBSET Connections
  /\ opMu \in [Connections -> Actors \cup {Free}]
  /\ bound \in [Outputs -> Connections \cup {NoOne}]
  /\ parent \in [Recordings \cup Dumps -> Connections \cup {NoOne}]
  /\ recording \in [Recordings -> {"none", "live", "stopping", "done"}]
  /\ tasks = {r \in Recordings : recording[r] \in {"live", "stopping"}}
  /\ dump \in [Dumps -> {"none", "live", "destroyed"}]
  /\ dumpMu \in [Dumps -> Actors \cup {Free}]
  /\ archived \in SUBSET Dumps /\ dumps \in SUBSET Dumps
  /\ waiting \in SUBSET Outputs /\ handling \in SUBSET (Connections \cup Outputs)
  /\ calls \in 0 .. MaxCalls

\* Types; what the connections know of their recordings; who is in a native call
\* on a raw dump holds its d.mu.
TypeOK == Types /\ \A a \in Actors : InDump(a) => dumpMu[Object(a)] = a

\* The client is destroyed when no connection is left, a connection when no
\* recording, no raw dump and no output is left that uses it and no handler of it
\* runs, whatever is created while Client.Close walks down; and native is asked to
\* stop or destroy an object by one actor at a time and never after it is gone,
\* however many Stops, Closes and retries meet (runtime.go:55-106,
\* conn.go:273-380, recording.go:53-96, raw_dump.go:115-162).
NativeLifetimes ==
  /\ client = "destroyed" \/ About("destroyClient", "start", "client") =>
       \A c \in Connections : conn[c] # "open"
  /\ \A c \in Connections :
       conn[c] = "destroyed" \/ About("destroyConn", "begun", c) =>
         /\ DepsOf(c) = {} /\ c \notin handling
         /\ \A r \in Recordings : parent[r] = c => recording[r] = "done"
         /\ \A d \in Dumps : parent[d] = c => dump[d] = "destroyed"
  /\ \A a \in Actors :
       /\ Doing(a, "stop", "native") =>
            /\ recording[Object(a)] = "stopping"
            /\ \A b \in Actors \ {a} :
                 Doing(b, "stop", "native") => Object(b) # Object(a)
       /\ InDump(a) => dump[Object(a)] = "live"

\* A close that fails half-way can be tried again: nothing stays closing, shut
\* or locked without an actor that is going to undo it (runtime.go:76-103,
\* conn.go:308-366, raw_dump.go:140-161).
RefusedCloseRestores ==
  /\ closing => \E a \in Actors : ClosingClient(a)
  /\ \A c \in shut \ connClosed :
       \E a \in Actors : todo[a] # <<>> /\ Head(todo[a]) = On("destroyConn", c)
  /\ \A c \in Connections : opMu[c] # Free =>
       On("destroyConn", c) \in Range(todo[opMu[c]])
  /\ \A d \in Dumps : dumpMu[d] # Free =>
       InDump(dumpMu[d]) /\ Object(dumpMu[d]) = d

\* What native has.  Outputs are alive all the time here, and attached to one
\* connection or none.
theClient == {Do("client")}
Tagged(kind, S) == {On(kind, x) : x \in S}
connIs(state) == {c \in Connections : conn[c] = state}
children == {r \in Recordings : recording[r] \in {"live", "stopping"}}
              \cup {d \in Dumps : dump[d] = "live"}
ended == {r \in Recordings : recording[r] = "done"}
           \cup {d \in Dumps : dump[d] = "destroyed"}
attachedOutputs == {o \in Outputs : bound[o] # NoOne}

Own == INSTANCE Ownership WITH
         Objects <- Tagged("conn", Connections) \cup Tagged("child", Recordings \cup Dumps)
                      \cup Tagged("output", Outputs) \cup theClient,
         Attachable <- Tagged("output", Outputs),
         Leakable <- {},
         live <- Tagged("conn", connIs("open")) \cup Tagged("child", children)
                   \cup Tagged("output", Outputs)
                   \cup (IF client = "open" THEN theClient ELSE {}),
         gone <- Tagged("conn", connIs("destroyed")) \cup Tagged("child", ended)
                   \cup (IF client = "open" THEN {} ELSE theClient),
         owned <- (Tagged("conn", connIs("open")) \X theClient)
                    \cup {<<On("child", x), On("conn", parent[x])>> : x \in children},
         attached <- {<<On("output", o), On("conn", bound[o])>> : o \in attachedOutputs}

\* The client, its connections, their recordings and raw dumps and the attachments
\* of outputs obey the rules of ownership, whatever is created, attached, stopped
\* and retried while Client.Close walks down and fails on its way: nothing is made
\* under an object that is gone, and nothing goes before what was made under it
\* (runtime.go:55-106, conn.go:44-66, 273-420).
ImplementsOwnership == Own!Spec

\* No operation waits for ever, however Stops, Closes and handlers wait for each
\* other (recording.go:58-70, raw_dump.go:119-162, output.go:374-383).
\* (MaxCalls bounds the calls: it is enough that some day none is under way.)
OperationsReturn == <>[](\A a \in Actors : todo[a] = <<>>)
=============================================================================
