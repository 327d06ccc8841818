---------------------------- MODULE ReplayProofs ----------------------------
(***************************************************************************)
(* Proofs about Replay, for any number of goroutines, outputs, recordings, *)
(* raw dumps, tasks and calls: the native replay is destroyed after what   *)
(* depends on it, and a close that has returned leaves no handler running. *)
(***************************************************************************)
EXTENDS Replay, FiniteSetTheorems, SequenceTheorems, TLAPS

ReplaySteps == {Do(name) : name \in Native \cup {"close", "destroy", "preflight", "collect"}}
OutputSteps ==
  {On(name, o) : name \in Detaching \cup {"attach", "closeOutput", "destroyOutput"},
                 o \in Outputs}
RecordingSteps == {On("stop", r) : r \in Recordings}
DumpSteps == {On("closeDump", d) : d \in Dumps}
Steps == ReplaySteps \cup OutputSteps \cup RecordingSteps \cup DumpSteps

Places == {"start", "gated", "looked", "both", "bound", "unbound", "detached", "posted",
           "native", "closed", "draining", "shut"}

QueueTypes ==
  /\ outputClosed \in SUBSET Outputs /\ outputShut \in SUBSET outputClosed
  /\ waiting \in SUBSET Outputs
  /\ sent \in 0 .. MaxTasks /\ queued \in 0 .. Capacity /\ executed \in 0 .. sent
  /\ Dispatching \in Nat
  /\ handling \in SUBSET (Outputs \cup {Worker})

ObjectTypes ==
  /\ closed \in BOOLEAN /\ shut \in BOOLEAN /\ finished \in BOOLEAN
  /\ bound \in SUBSET Outputs /\ deps \in SUBSET Outputs
  /\ recording \in [Recordings -> {"none", "live", "closing", "done"}]
  /\ dump \in [Dumps -> {"none", "live", "closing", "done"}]
  /\ tasks = {r \in Recordings : recording[r] \in {"live", "closing"}}
  /\ dumps \in SUBSET Dumps

CallTypes ==
  /\ gate \in Actors \cup {Free}
  /\ outputGate \in [Outputs -> Actors \cup {Free}]
  /\ todo \in [Actors -> Seq(Steps)]
  /\ at \in [Actors -> Places]
  /\ calls \in 0 .. MaxCalls

Types == QueueTypes /\ ObjectTypes /\ CallTypes

\* What an actor's place tells of the gates, and that a detach has the gate until
\* the replay no longer knows the output.
Gated(a) ==
  /\ todo[a] = <<>> => at[a] = "start"
  /\ at[a] = "gated" => gate = a
  /\ at[a] = "both" => Object(a) \in Outputs /\ outputGate[Object(a)] = a
  /\ Doing(a, Detaching \cup {"attach"}, "both") => gate = a
  /\ Doing(a, {"attach"}, "bound") => gate = a
  /\ Doing(a, Detaching, "unbound") => gate = a /\ Object(a) \notin bound

\* Who closes an object knows how far it is.
ObjectClosing(a) ==
  /\ Doing(a, {"stop"}, "native") => recording[Object(a)] = "closing"
  /\ Doing(a, {"closeDump"}, "native") => dump[Object(a)] = "closing"
  /\ Doing(a, {"closeDump"}, "closed") => dump[Object(a)] = "done"
  /\ Doing(a, {"destroyOutput"}, "draining") => Object(a) \in outputClosed

Live(d) == dump[d] \in {"live", "closing"}
Destroyed(a) == Doing(a, {"destroy"}, "draining") \/ Doing(a, {"destroy"}, "shut")

\* A close that has still to destroy the replay holds the gate, so nothing
\* attaches or starts, and it still has every raw dump before it.
Closing(a) ==
  Do("destroy") \in Range(todo[a]) =>
    /\ Range(todo[a]) \subseteq DumpSteps \cup {Do("destroy")}
    /\ \A i \in DOMAIN todo[a] : todo[a][i] = Do("destroy") => i = Len(todo[a])
    /\ IF Destroyed(a)
       THEN closed
       ELSE /\ gate = a /\ deps = {} /\ bound = {} /\ tasks = {}
            /\ \A d \in Dumps : Live(d) => On("closeDump", d) \in Range(todo[a])

Local(a) == Gated(a) /\ ObjectClosing(a) /\ Closing(a)

InNative(a) == Doing(a, {"stop", "closeDump"}, "native")

\* An object is closed by one actor at a time.
OneCloser == \A a, b \in Actors :
               InNative(a) /\ InNative(b) /\ Object(a) = Object(b) => a = b

\* An output is bound before the replay knows it, by who holds the gate.
Linking(o) == \E a \in Actors : Doing(a, {"attach"}, "bound") /\ Object(a) = o

Children ==
  /\ \A o \in bound \ deps : Linking(o)
  /\ \A d \in Dumps : Live(d) => d \in dumps

Quiet == /\ bound = {} /\ tasks = {}
         /\ \A d \in Dumps : ~Live(d)

AfterClose == /\ closed => Quiet
              /\ finished => closed /\ Worker \notin handling

IInv == Types /\ (\A a \in Actors : Local(a)) /\ OneCloser /\ Children /\ AfterClose

-----------------------------------------------------------------------------
(* Plans *)

LEMMA HeadAndTail ==
  ASSUME NEW plan \in Seq(Steps), plan # <<>>
  PROVE  /\ Head(plan) \in Steps /\ Tail(plan) \in Seq(Steps)
         /\ Range(plan) = {Head(plan)} \cup Range(Tail(plan))
         /\ Len(Tail(plan)) = Len(plan) - 1 /\ Len(plan) \in Nat /\ Len(plan) # 0
         /\ \A i \in DOMAIN Tail(plan) : i + 1 \in DOMAIN plan /\ Tail(plan)[i] = plan[i + 1]
<1> DEFINE rest == Tail(plan)
<1>1. /\ Head(plan) \in Steps /\ rest \in Seq(Steps) /\ Len(rest) = Len(plan) - 1
      /\ \A i \in 1 .. Len(rest) : rest[i] = plan[i + 1]
      /\ Len(plan) \in Nat /\ Len(plan) # 0 /\ DOMAIN plan = 1 .. Len(plan)
      /\ DOMAIN rest = 1 .. Len(rest) /\ Head(plan) = plan[1]
  BY HeadTailProperties, EmptySeq
<1>2. \A i \in DOMAIN rest : i + 1 \in DOMAIN plan /\ rest[i] = plan[i + 1]
  BY <1>1
<1>3. \A i \in DOMAIN plan : i = 1 \/ (i - 1 \in DOMAIN rest /\ plan[i] = rest[i - 1])
  BY <1>1
<1>4. Range(plan) = {Head(plan)} \cup Range(rest)
  <2> HIDE DEF rest
  <2>1. Range(plan) \subseteq {Head(plan)} \cup Range(rest)
    BY <1>1, <1>3 DEF Range
  <2>2. {Head(plan)} \cup Range(rest) \subseteq Range(plan)
    BY <1>1, <1>2 DEF Range
  <2>3. QED
    BY <2>1, <2>2
<1>5. QED
  BY <1>1, <1>2, <1>4

\* What a step is about.
LEMMA HeadNames ==
  ASSUME Types, NEW a \in Actors, todo[a] # <<>>
  PROVE  /\ Head(todo[a])[1] \in Detaching \cup {"attach", "closeOutput", "destroyOutput"} =>
              Object(a) \in Outputs
         /\ Head(todo[a])[1] = "stop" => Object(a) \in Recordings
         /\ Head(todo[a])[1] = "closeDump" =>
              Object(a) \in Dumps /\ Head(todo[a]) = On("closeDump", Object(a))
         /\ Head(todo[a])[1] = "destroy" <=> Head(todo[a]) = Do("destroy")
         /\ Head(todo[a]) \in DumpSteps => Head(todo[a])[1] = "closeDump"
<1>1. Head(todo[a]) \in Steps
  BY HeadAndTail DEF Types, CallTypes
<1>2. QED
  BY <1>1 DEF Steps, ReplaySteps, OutputSteps, RecordingSteps, DumpSteps, Do, On, Object,
              Detaching, Native

\* Only the closing of raw dumps and the destruction itself are steps of a plan
\* that destroys the replay.
LEMMA NotDestroying ==
  ASSUME Types, NEW a \in Actors, Closing(a), todo[a] # <<>>,
         Head(todo[a])[1] \notin {"closeDump", "destroy"}
  PROVE  Do("destroy") \notin Range(todo[a]) /\ Do("destroy") \notin Range(Tail(todo[a]))
<1>1. Head(todo[a]) \in Range(todo[a]) /\ Range(Tail(todo[a])) \subseteq Range(todo[a])
  BY HeadAndTail DEF Types, CallTypes
<1>2. Head(todo[a]) \notin DumpSteps \cup {Do("destroy")}
  BY HeadNames
<1>3. QED
  BY <1>1, <1>2 DEF Closing

-----------------------------------------------------------------------------
(* What a step of one actor leaves to the others *)

Moves(b) == \A a \in Actors \ {b} : todo'[a] = todo[a] /\ at'[a] = at[a]

GatesOf(b) ==
  /\ gate' \in Actors \cup {Free}
  /\ outputGate' \in [Outputs -> Actors \cup {Free}]
  /\ \A a \in Actors \ {b} :
       /\ gate' = a <=> gate = a
       /\ \A o \in Outputs : outputGate'[o] = a <=> outputGate[o] = a

Objects(b) ==
  /\ gate # b => /\ bound' = bound /\ deps' = deps
                 /\ tasks' \subseteq tasks
                 /\ \A d \in Dumps : Live(d)' => Live(d)
  /\ closed => closed'
  /\ outputClosed \subseteq outputClosed'
  /\ \A r \in Recordings : recording[r] = "closing" =>
       recording'[r] = "closing" \/ (Doing(b, {"stop"}, "native") /\ Object(b) = r)
  /\ \A d \in Dumps :
       /\ dump[d] = "closing" =>
            dump'[d] = "closing" \/ (Doing(b, {"closeDump"}, "native") /\ Object(b) = d)
       /\ dump[d] = "done" => dump'[d] = "done"

LEMMA GoesOn ==
  ASSUME Types, NEW b \in Actors, NEW place \in Places, GoOn(b, place)
  PROVE  /\ Moves(b) /\ todo' = todo /\ at'[b] = place /\ todo'[b] = todo[b]
         /\ todo' \in [Actors -> Seq(Steps)] /\ at' \in [Actors -> Places]
         /\ calls' \in 0 .. MaxCalls
  BY DEF GoOn, Moves, Types, CallTypes

LEMMA Continues ==
  ASSUME Types, NEW b \in Actors, NEW plan \in Seq(Steps), Continue(b, plan)
  PROVE  /\ Moves(b) /\ todo'[b] = plan /\ at'[b] = "start"
         /\ todo' \in [Actors -> Seq(Steps)] /\ at' \in [Actors -> Places]
         /\ calls' \in 0 .. MaxCalls
<1> DEFINE Plans == Seq(Steps)
<1>1. todo \in [Actors -> Plans] /\ plan \in Plans
  BY DEF Types, CallTypes
<1> HIDE DEF Plans
<1>2. Moves(b) /\ todo'[b] = plan /\ todo' \in [Actors -> Plans]
  BY <1>1 DEF Continue, Moves, Types, CallTypes
<1>3. at'[b] = "start" /\ at' \in [Actors -> Places] /\ calls' \in 0 .. MaxCalls
  BY DEF Continue, Types, CallTypes, Places
<1>4. QED
  BY <1>2, <1>3 DEF Plans

LEMMA Leaves ==
  ASSUME Types, NEW b \in Actors, Leave(b) \/ UNCHANGED gates
  PROVE  GatesOf(b)
<1>1. CASE Leave(b)
  BY <1>1, ReplayAssumption DEF Leave, GatesOf, Types, CallTypes
<1>2. CASE UNCHANGED gates
  BY <1>2 DEF gates, GatesOf, Types, CallTypes
<1>3. QED
  BY <1>1, <1>2

\* The others' part of the invariant.
LEMMA OthersHold ==
  ASSUME IInv, NEW b \in Actors, Moves(b), GatesOf(b), Objects(b), NEW a \in Actors \ {b}
  PROVE  Local(a)'
<1>1. Local(a) /\ Types
  BY DEF IInv
<1>2. /\ todo'[a] = todo[a] /\ at'[a] = at[a] /\ Object(a)' = Object(a)
      /\ \A names, place : Doing(a, names, place)' <=> Doing(a, names, place)
  BY DEF Moves, Object, Doing
<1>3. gate' = a <=> gate = a
  BY DEF GatesOf
<1>4. gate = a => /\ bound' = bound /\ deps' = deps /\ tasks' \subseteq tasks
                  /\ \A d \in Dumps : Live(d)' => Live(d)
  BY DEF Objects
<1>5. Gated(a)'
  BY <1>1, <1>2, <1>3, <1>4 DEF Local, Gated, GatesOf
<1>6. ObjectClosing(a)'
  <2>1. Doing(a, {"stop"}, "native") => recording'[Object(a)] = "closing"
    <3> SUFFICES ASSUME Doing(a, {"stop"}, "native")
                 PROVE  recording'[Object(a)] = "closing"
      OBVIOUS
    <3>1. Object(a) \in Recordings /\ recording[Object(a)] = "closing"
      BY <1>1, HeadNames DEF Local, ObjectClosing, Doing
    <3>2. ~(Doing(b, {"stop"}, "native") /\ Object(b) = Object(a))
      BY DEF IInv, OneCloser, InNative, Doing
    <3>3. QED
      BY <3>1, <3>2 DEF Objects
  <2>2. Doing(a, {"closeDump"}, "native") => dump'[Object(a)] = "closing"
    <3> SUFFICES ASSUME Doing(a, {"closeDump"}, "native")
                 PROVE  dump'[Object(a)] = "closing"
      OBVIOUS
    <3>1. Object(a) \in Dumps /\ dump[Object(a)] = "closing"
      BY <1>1, HeadNames DEF Local, ObjectClosing, Doing
    <3>2. ~(Doing(b, {"closeDump"}, "native") /\ Object(b) = Object(a))
      BY DEF IInv, OneCloser, InNative, Doing
    <3>3. QED
      BY <3>1, <3>2 DEF Objects
  <2>3. Doing(a, {"closeDump"}, "closed") => dump'[Object(a)] = "done"
    BY <1>1, HeadNames DEF Local, ObjectClosing, Doing, Objects
  <2>4. Doing(a, {"destroyOutput"}, "draining") => Object(a) \in outputClosed'
    BY <1>1 DEF Local, ObjectClosing, Objects
  <2>5. QED
    BY <1>2, <2>1, <2>2, <2>3, <2>4 DEF ObjectClosing
<1>7. Closing(a)'
  <2>1. Destroyed(a)' <=> Destroyed(a)
    BY <1>2 DEF Destroyed
  <2>2. tasks = {} /\ gate = a => tasks' = {}
    BY <1>4
  <2>3. closed => closed'
    BY DEF Objects
  <2>4. Closing(a)
    BY <1>1 DEF Local
  <2>5. QED
    BY <1>2, <1>3, <1>4, <2>1, <2>2, <2>3, <2>4 DEF Closing
<1>8. QED
  BY <1>5, <1>6, <1>7 DEF Local

LEMMA OneCloserStays ==
  ASSUME OneCloser, NEW b \in Actors, Moves(b), ~InNative(b)'
  PROVE  OneCloser'
<1>1. \A a \in Actors \ {b} : (InNative(a)' <=> InNative(a)) /\ Object(a)' = Object(a)
  BY DEF Moves, InNative, Doing, Object
<1>2. QED
  BY <1>1 DEF OneCloser

\* A step that changes what its actor does, and of the replay nothing.
LEMMA OwnStep ==
  ASSUME IInv, NEW b \in Actors, Moves(b), GatesOf(b),
         todo' \in [Actors -> Seq(Steps)], at' \in [Actors -> Places],
         calls' \in 0 .. MaxCalls,
         UNCHANGED <<closed, bindings, objects, handling>>,
         shut' \in BOOLEAN, finished' \in BOOLEAN,
         finished' => finished \/ (closed /\ Worker \notin handling),
         outputClosed \subseteq outputClosed', QueueTypes',
         ~Doing(b, {"attach"}, "bound"), ~InNative(b)', Local(b)'
  PROVE  IInv'
<1>1. Types'
  BY DEF IInv, Types, ObjectTypes, CallTypes, bindings, objects, GatesOf
<1>2. \A a \in Actors : Local(a)'
  <2>1. Objects(b)
    BY DEF Objects, bindings, objects, Live
  <2>2. QED
    BY <2>1, OthersHold
<1>3. \A a \in Actors \ {b} :
         /\ Object(a)' = Object(a)
         /\ Doing(a, {"attach"}, "bound")' <=> Doing(a, {"attach"}, "bound")
  BY DEF Moves, Doing, Object
<1>4. OneCloser'
  BY OneCloserStays DEF IInv
<1>5. Children'
  <2>1. \A o : Linking(o) => Linking(o)'
    BY <1>3 DEF Linking
  <2>2. QED
    BY <2>1 DEF IInv, Children, Live, bindings, objects
<1>6. AfterClose'
  BY DEF IInv, AfterClose, Quiet, Live, bindings, objects
<1>7. QED
  BY <1>1, <1>2, <1>4, <1>5, <1>6 DEF IInv

\* An actor that begins the next step of a plan, or has no plan left.
LEMMA Begins ==
  ASSUME NEW b \in Actors, at'[b] = "start", Do("destroy") \notin Range(todo'[b])
  PROVE  Local(b)' /\ ~InNative(b)'
  BY DEF Local, Gated, ObjectClosing, Closing, Doing, InNative

\* An actor that goes on with a step which is no part of a close.
LEMMA StaysOpen ==
  ASSUME Types, NEW b \in Actors, Closing(b), todo[b] # <<>>,
         Head(todo[b])[1] \notin {"closeDump", "destroy"}, todo'[b] = todo[b],
         Gated(b)', ObjectClosing(b)'
  PROVE  Local(b)'
  BY NotDestroying DEF Local, Closing

\* Calls that end here or go on with another step, the replay being as it was.
LEMMA Ends ==
  ASSUME IInv, NEW b \in Actors, NEW plan \in Seq(Steps), Continue(b, plan),
         Leave(b) \/ UNCHANGED gates,
         UNCHANGED <<replayVars, bindings, objects, handling, outputClosed>>, QueueTypes',
         ~Doing(b, {"attach"}, "bound"), Do("destroy") \notin Range(plan)
  PROVE  IInv'
<1>1. Types
  BY DEF IInv
<1>2. /\ Moves(b) /\ todo'[b] = plan /\ at'[b] = "start"
      /\ todo' \in [Actors -> Seq(Steps)] /\ at' \in [Actors -> Places]
      /\ calls' \in 0 .. MaxCalls
  BY <1>1, Continues
<1>3. GatesOf(b)
  BY <1>1, Leaves
<1>4. Local(b)' /\ ~InNative(b)'
  BY <1>2, Begins
<1>5. QED
  BY <1>1, <1>2, <1>3, <1>4, OwnStep DEF Types, ObjectTypes, replayVars

LEMMA Fails ==
  ASSUME IInv, NEW b \in Actors, Fail(b), Leave(b) \/ UNCHANGED gates,
         UNCHANGED <<replayVars, bindings, objects, queueVars>>,
         ~Doing(b, {"attach"}, "bound")
  PROVE  IInv'
<1>1. <<>> \in Seq(Steps) /\ Range(<<>>) = {}
  BY DEF Range
<1>2. Continue(b, <<>>)
  BY DEF Fail
<1>3. QueueTypes' /\ UNCHANGED <<handling, outputClosed>>
  BY DEF IInv, Types, QueueTypes, queueVars, outputVars, taskVars, Dispatching
<1>4. QED
  BY <1>1, <1>2, <1>3, Ends

LEMMA GoesToNext ==
  ASSUME IInv, NEW b \in Actors, StepDone(b), Leave(b) \/ UNCHANGED gates,
         UNCHANGED <<replayVars, bindings, objects, handling, outputClosed>>, QueueTypes',
         ~Doing(b, {"attach"}, "bound"), todo[b] # <<>>,
         Head(todo[b])[1] \notin {"closeDump", "destroy"}
  PROVE  IInv'
<1>1. Types /\ Closing(b)
  BY DEF IInv, Local
<1>2. Tail(todo[b]) \in Seq(Steps)
  BY <1>1, HeadAndTail DEF Types, CallTypes
<1>3. Do("destroy") \notin Range(Tail(todo[b]))
  BY <1>1, NotDestroying
<1>4. Continue(b, Tail(todo[b]))
  BY DEF StepDone
<1>5. QED
  BY <1>2, <1>3, <1>4, Ends

LEMMA GoesAlong ==
  ASSUME IInv, NEW b \in Actors, NEW place \in Places, GoOn(b, place), place # "native",
         GatesOf(b), UNCHANGED <<replayVars, bindings, objects, handling>>,
         outputClosed \subseteq outputClosed', QueueTypes',
         ~Doing(b, {"attach"}, "bound"), todo[b] # <<>>,
         Head(todo[b])[1] \notin {"closeDump", "destroy"}, Gated(b)', ObjectClosing(b)'
  PROVE  IInv'
<1>1. Types /\ Closing(b)
  BY DEF IInv, Local
<1>2. /\ Moves(b) /\ at'[b] = place /\ todo'[b] = todo[b]
      /\ todo' \in [Actors -> Seq(Steps)] /\ at' \in [Actors -> Places]
      /\ calls' \in 0 .. MaxCalls
  BY <1>1, GoesOn
<1>3. Local(b)'
  BY <1>1, <1>2, StaysOpen
<1>4. ~InNative(b)'
  BY <1>2 DEF InNative, Doing
<1>5. QED
  BY <1>1, <1>2, <1>3, <1>4, OwnStep DEF Types, ObjectTypes, replayVars

\* A raw dump is closed: the close it is part of has one less before it.
LEMMA NextOfClose ==
  ASSUME Types, NEW b \in Actors, Closing(b), todo[b] # <<>>, Head(todo[b])[1] = "closeDump",
         todo'[b] = Tail(todo[b]), at'[b] = "start",
         gate' = gate, bound' = bound, deps' = deps, tasks' = tasks,
         \A d \in Dumps : Live(d)' => Live(d) /\ d # Object(b)
  PROVE  Local(b)'
<1>1. Head(todo[b]) = On("closeDump", Object(b)) /\ Head(todo[b]) # Do("destroy")
  BY HeadNames DEF On, Do
<1>2. /\ Range(todo[b]) = {Head(todo[b])} \cup Range(Tail(todo[b]))
      /\ Len(Tail(todo[b])) = Len(todo[b]) - 1 /\ Len(todo[b]) \in Nat
      /\ \A i \in DOMAIN Tail(todo[b]) :
           i + 1 \in DOMAIN todo[b] /\ Tail(todo[b])[i] = todo[b][i + 1]
  BY HeadAndTail DEF Types, CallTypes
<1>3. DOMAIN Tail(todo[b]) \subseteq Nat
  BY HeadAndTail DEF Types, CallTypes
<1>4. ~Destroyed(b) /\ ~Destroyed(b)'
  BY DEF Destroyed, Doing
<1>5. Closing(b)'
  <2> SUFFICES ASSUME Do("destroy") \in Range(Tail(todo[b]))
               PROVE  Closing(b)'
    BY DEF Closing
  <2>1. /\ Range(todo[b]) \subseteq DumpSteps \cup {Do("destroy")}
        /\ \A i \in DOMAIN todo[b] : todo[b][i] = Do("destroy") => i = Len(todo[b])
        /\ gate = b /\ deps = {} /\ bound = {} /\ tasks = {}
        /\ \A d \in Dumps : Live(d) => On("closeDump", d) \in Range(todo[b])
    BY <1>2, <1>4 DEF Closing
  <2>2. \A i \in DOMAIN Tail(todo[b]) :
          Tail(todo[b])[i] = Do("destroy") => i = Len(Tail(todo[b]))
    <3> TAKE i \in DOMAIN Tail(todo[b])
    <3> HAVE Tail(todo[b])[i] = Do("destroy")
    <3>1. i + 1 = Len(todo[b]) /\ i \in Nat
      BY <1>2, <1>3, <2>1
    <3>2. QED
      BY <1>2, <3>1
  <2>3. \A d \in Dumps : Live(d)' => On("closeDump", d) \in Range(Tail(todo[b]))
    BY <1>1, <1>2, <2>1 DEF On
  <2>4. QED
    BY <1>2, <1>4, <2>1, <2>2, <2>3 DEF Closing
<1>6. QED
  BY <1>5 DEF Local, Gated, ObjectClosing, Doing

-----------------------------------------------------------------------------
(* Calls and the gate *)

LEMMA QueuesStay ==
  ASSUME IInv, UNCHANGED queueVars
  PROVE  QueueTypes' /\ UNCHANGED <<handling, outputClosed>>
  BY DEF IInv, Types, QueueTypes, queueVars, outputVars, taskVars, Dispatching

LEMMA OneStep ==
  ASSUME NEW step \in Steps
  PROVE  <<step>> \in Seq(Steps) /\ Range(<<step>>) = {step}
  BY DEF Range

LEMMA Joined ==
  ASSUME NEW first \in Seq(Steps), NEW second \in Seq(Steps)
  PROVE  /\ first \o second \in Seq(Steps)
         /\ Range(first \o second) = Range(first) \cup Range(second)
  BY ConcatProperties, RangeConcatenation

LEMMA CallsArePlans ==
  ASSUME Types, NEW a \in Actors, NEW plan \in Operations(a)
  PROVE  plan \in Seq(Steps) /\ Do("destroy") \notin Range(plan)
<1>1. CASE plan = <<Do("preflight"), Do("collect")>>
  <2>1. Do("preflight") \in Steps /\ Do("collect") \in Steps
    BY DEF Steps, ReplaySteps
  <2>2. Range(<<Do("preflight"), Do("collect")>>) = {Do("preflight"), Do("collect")}
    BY DEF Range
  <2>3. QED
    BY <1>1, <2>1, <2>2 DEF Do
<1>2. CASE plan # <<Do("preflight"), Do("collect")>>
  <2>1. PICK step : plan = <<step>> /\ step \in Steps /\ step # Do("destroy")
    <3>1. ASSUME NEW name \in {"play", "record", "capture", "close", "use"},
                 plan = <<Do(name)>>
          PROVE  Do(name) \in Steps /\ Do(name) # Do("destroy")
      BY <3>1 DEF Steps, ReplaySteps, Native, Do
    <3>2. ASSUME NEW name \in {"attach", "detach", "closeOutput"}, NEW o \in Outputs
          PROVE  On(name, o) \in Steps /\ On(name, o) # Do("destroy")
      BY <3>2 DEF Steps, OutputSteps, Detaching, Do, On
    <3>3. ASSUME NEW r \in Recordings
          PROVE  On("stop", r) \in Steps /\ On("stop", r) # Do("destroy")
      BY <3>3 DEF Steps, RecordingSteps, Do, On
    <3>4. ASSUME NEW d \in Dumps
          PROVE  On("closeDump", d) \in Steps /\ On("closeDump", d) # Do("destroy")
      BY <3>4 DEF Steps, DumpSteps, Do, On
    <3>5. \/ \E name \in {"play", "record", "capture", "close", "use"} : plan = <<Do(name)>>
          \/ \E name \in {"attach", "detach", "closeOutput"}, o \in Outputs :
               plan = <<On(name, o)>>
          \/ \E r \in Recordings : plan = <<On("stop", r)>>
          \/ \E d \in Dumps : plan = <<On("closeDump", d)>>
      BY <1>2 DEF Operations
    <3>6. QED
      BY <3>1, <3>2, <3>3, <3>4, <3>5
  <2>2. QED
    BY <2>1, OneStep
<1>3. QED
  BY <1>1, <1>2

LEMMA Calls ==
  ASSUME IInv, NEW b \in Actors, call(b)
  PROVE  IInv'
<1>1. PICK plan \in Operations(b) : todo' = [todo EXCEPT ![b] = plan]
  BY DEF call
<1>2. plan \in Seq(Steps) /\ Do("destroy") \notin Range(plan)
  BY CallsArePlans DEF IInv
<1>3. at[b] = "start"
  BY DEF IInv, Local, Gated, call
<1>4. Moves(b) /\ todo'[b] = plan /\ at'[b] = "start" /\ todo' \in [Actors -> Seq(Steps)]
  BY <1>1, <1>2, <1>3 DEF call, Moves, IInv, Types, CallTypes
<1>5. at' \in [Actors -> Places] /\ calls' \in 0 .. MaxCalls
  BY ReplayAssumption DEF call, IInv, Types, CallTypes
<1>6. GatesOf(b)
  BY Leaves DEF call, IInv
<1>7. QueueTypes' /\ UNCHANGED <<handling, outputClosed>>
  BY QueuesStay DEF call
<1>8. ~Doing(b, {"attach"}, "bound")
  BY DEF call, Doing
<1>9. Local(b)' /\ ~InNative(b)'
  BY <1>2, <1>4, Begins
<1>10. QED
  BY <1>4, <1>5, <1>6, <1>7, <1>8, <1>9, OwnStep
     DEF call, IInv, Types, ObjectTypes, replayVars

LEMMA EnterNative ==
  ASSUME IInv, NEW b \in Actors, enterNative(b)
  PROVE  IInv'
<1>1. Types /\ Local(b)
  BY DEF IInv
<1>2. GatesOf(b) /\ gate' = b
  BY <1>1, ReplayAssumption DEF enterNative, GatesOf, Types, CallTypes
<1>3. /\ todo[b] # <<>> /\ Head(todo[b])[1] \notin {"closeDump", "destroy"}
      /\ ~Doing(b, {"attach"}, "bound")
  BY DEF enterNative, AtGate, Doing, Native, Detaching
<1>4. todo'[b] = todo[b] /\ at'[b] = "gated" /\ GoOn(b, "gated")
  BY <1>1, GoesOn DEF enterNative, Places
<1>5. Gated(b)' /\ ObjectClosing(b)'
  BY <1>2, <1>3, <1>4 DEF Gated, ObjectClosing, Doing
<1>6. QueueTypes' /\ UNCHANGED <<handling, outputClosed>>
  BY QueuesStay DEF enterNative
<1>7. QED
  BY <1>2, <1>3, <1>4, <1>5, <1>6, GoesAlong DEF enterNative, Places

LEMMA EnterRefused ==
  ASSUME IInv, NEW b \in Actors, enterRefused(b)
  PROVE  IInv'
<1>1. ~Doing(b, {"attach"}, "bound")
  BY DEF enterRefused, AtGate, Doing
<1>2. QED
  BY <1>1, Fails DEF enterRefused

LEMMA NativeReturns ==
  ASSUME IInv, NEW b \in Actors, nativeReturns(b)
  PROVE  IInv'
<1>1. /\ todo[b] # <<>> /\ Head(todo[b])[1] \notin {"closeDump", "destroy"}
      /\ ~Doing(b, {"attach"}, "bound")
  BY DEF nativeReturns, Doing
<1>2. QED
  BY <1>1, GoesToNext, QueuesStay DEF nativeReturns

LEMMA ClosedRefuses ==
  ASSUME IInv, NEW b \in Actors, closedRefuses(b)
  PROVE  IInv'
<1>1. ~Doing(b, {"attach"}, "bound")
  BY DEF closedRefuses, Doing
<1>2. QED
  BY <1>1, Fails DEF closedRefuses

LEMMA EnterOutput ==
  ASSUME IInv, NEW b \in Actors, enterOutput(b)
  PROVE  IInv'
<1>1. Types /\ Local(b)
  BY DEF IInv
<1>2. /\ todo[b] # <<>> /\ Head(todo[b])[1] \notin {"closeDump", "destroy"}
      /\ ~Doing(b, {"attach"}, "bound")
      /\ Head(todo[b])[1] \in Detaching \cup {"attach", "closeOutput", "destroyOutput"}
  BY DEF enterOutput, Doing, Native, Detaching
<1>3. Object(b) \in Outputs
  BY <1>1, <1>2, HeadNames
<1>4. GatesOf(b) /\ outputGate'[Object(b)] = b /\ gate' = gate
  BY <1>1, <1>3, ReplayAssumption DEF enterOutput, GatesOf, Types, CallTypes
<1>5. todo'[b] = todo[b] /\ at'[b] = "both" /\ GoOn(b, "both")
  BY <1>1, GoesOn DEF enterOutput, Places
<1>6. Head(todo[b])[1] \in Detaching \cup {"attach"} => gate = b
  BY <1>1 DEF enterOutput, Local, Gated, Doing, Detaching
<1>7. Object(b)' = Object(b)
  BY <1>5 DEF Object
<1>8. Gated(b)' /\ ObjectClosing(b)'
  BY <1>2, <1>3, <1>4, <1>5, <1>6, <1>7 DEF Gated, ObjectClosing, Doing
<1>9. QueueTypes' /\ UNCHANGED <<handling, outputClosed>>
  BY QueuesStay DEF enterOutput
<1>10. QED
  BY <1>2, <1>4, <1>5, <1>8, <1>9, GoesAlong DEF enterOutput, Places

-----------------------------------------------------------------------------
(* Attach and detach *)

LEMMA AttachFails ==
  ASSUME IInv, NEW b \in Actors, attachFails(b)
  PROVE  IInv'
<1>1. ~Doing(b, {"attach"}, "bound")
  BY DEF attachFails, Doing
<1>2. QED
  BY <1>1, Fails DEF attachFails

LEMMA DetachFails ==
  ASSUME IInv, NEW b \in Actors, detachFails(b)
  PROVE  IInv'
<1>1. ~Doing(b, {"attach"}, "bound")
  BY DEF detachFails, Doing
<1>2. QED
  BY <1>1, Fails DEF detachFails

\* An actor that leaves the gates for a place that needs none.
LEMMA GoesOut ==
  ASSUME IInv, NEW b \in Actors, NEW place \in {"looked", "detached", "posted", "shut"},
         GoOn(b, place), Leave(b) \/ UNCHANGED gates,
         UNCHANGED <<replayVars, bindings, objects, handling>>,
         outputClosed \subseteq outputClosed', QueueTypes',
         ~Doing(b, {"attach"}, "bound"), todo[b] # <<>>,
         Head(todo[b])[1] \notin {"closeDump", "destroy"}
  PROVE  IInv'
<1>1. Types
  BY DEF IInv
<1>2. todo'[b] = todo[b] /\ at'[b] = place /\ place \in Places
  BY <1>1, GoesOn DEF Places
<1>3. Gated(b)' /\ ObjectClosing(b)'
  BY <1>2 DEF Gated, ObjectClosing, Doing
<1>4. QED
  BY <1>1, <1>2, <1>3, Leaves, GoesAlong

LEMMA LookBound ==
  ASSUME IInv, NEW b \in Actors, lookBound(b)
  PROVE  IInv'
<1>1. /\ todo[b] # <<>> /\ Head(todo[b])[1] \notin {"closeDump", "destroy"}
      /\ ~Doing(b, {"attach"}, "bound")
  BY DEF lookBound, Doing, Detaching
<1>2. QED
  BY <1>1, GoesOut, QueuesStay DEF lookBound

LEMMA NotBound ==
  ASSUME IInv, NEW b \in Actors, notBound(b)
  PROVE  IInv'
<1>1. /\ todo[b] # <<>> /\ Head(todo[b])[1] \notin {"closeDump", "destroy"}
      /\ ~Doing(b, {"attach"}, "bound")
  BY DEF notBound, Doing, Detaching
<1>2. CASE Fail(b)
  BY <1>1, <1>2, Fails DEF notBound
<1>3. CASE GoOn(b, "posted")
  BY <1>1, <1>3, GoesOut, QueuesStay DEF notBound
<1>4. QED
  BY <1>2, <1>3 DEF notBound

LEMMA PostIdle ==
  ASSUME IInv, NEW b \in Actors, postIdle(b)
  PROVE  IInv'
<1>1. /\ todo[b] # <<>> /\ Head(todo[b])[1] \notin {"closeDump", "destroy"}
      /\ ~Doing(b, {"attach"}, "bound") /\ Head(todo[b])[1] \in Detaching
  BY DEF postIdle, Doing, Detaching
<1>2. Object(b) \in Outputs
  BY <1>1, HeadNames DEF IInv
<1>3. QueueTypes' /\ UNCHANGED <<handling, outputClosed>>
  BY <1>2 DEF postIdle, IInv, Types, QueueTypes, taskVars, Dispatching
<1>4. CASE StepDone(b)
  BY <1>1, <1>3, <1>4, GoesToNext DEF postIdle
<1>5. CASE GoOn(b, "posted")
  BY <1>1, <1>3, <1>5, GoesOut DEF postIdle
<1>6. QED
  BY <1>4, <1>5 DEF postIdle

LEMMA WaitIdle ==
  ASSUME IInv, NEW b \in Actors, waitIdle(b)
  PROVE  IInv'
<1>1. /\ todo[b] # <<>> /\ Head(todo[b])[1] \notin {"closeDump", "destroy"}
      /\ ~Doing(b, {"attach"}, "bound")
  BY DEF waitIdle, Doing
<1>2. QED
  BY <1>1, GoesToNext, QueuesStay DEF waitIdle

\* Under the gate nobody else is between two steps of an attach, nor in a close.
LEMMA HolderAlone ==
  ASSUME IInv, NEW b \in Actors, gate = b, NEW a \in Actors \ {b}
  PROVE  /\ ~Doing(a, {"attach"}, "bound")
         /\ Do("destroy") \in Range(todo[a]) => Destroyed(a) /\ closed
<1>1. Local(a) /\ gate # a
  BY DEF IInv
<1>2. QED
  BY <1>1 DEF Local, Gated, Closing

\* A step under the gate that changes what is attached.
LEMMA UnderGate ==
  ASSUME IInv, NEW b \in Actors, gate = b, Moves(b), GatesOf(b),
         todo' \in [Actors -> Seq(Steps)], at' \in [Actors -> Places],
         calls' \in 0 .. MaxCalls,
         UNCHANGED <<replayVars, objects, queueVars>>,
         bound' \in SUBSET Outputs, deps' \in SUBSET Outputs,
         closed => bound' \subseteq bound,
         \A o \in bound' \ deps' : Doing(b, {"attach"}, "bound")' /\ Object(b)' = o,
         ~InNative(b)', Local(b)'
  PROVE  IInv'
<1>1. QueueTypes' /\ UNCHANGED <<handling, outputClosed>>
  BY QueuesStay
<1>2. Types'
  BY <1>1 DEF IInv, Types, ObjectTypes, CallTypes, replayVars, objects, GatesOf
<1>3. \A a \in Actors : Local(a)'
  <2>1. Objects(b)
    BY <1>1 DEF Objects, replayVars, objects, Live
  <2>2. QED
    BY <2>1, OthersHold
<1>4. OneCloser'
  BY OneCloserStays DEF IInv
<1>5. Children'
  BY DEF Children, IInv, Live, Linking, objects
<1>6. AfterClose'
  BY <1>1 DEF IInv, AfterClose, Quiet, Live, replayVars, objects
<1>7. QED
  BY <1>2, <1>3, <1>4, <1>5, <1>6 DEF IInv

LEMMA Attach ==
  ASSUME IInv, NEW b \in Actors, attach(b)
  PROVE  IInv'
<1>1. Types /\ Local(b)
  BY DEF IInv
<1>2. /\ todo[b] # <<>> /\ Head(todo[b])[1] = "attach" /\ Object(b) \in Outputs
      /\ gate = b
  BY <1>1, HeadNames DEF attach, Doing, Local, Gated
<1>3. /\ Moves(b) /\ at'[b] = "bound" /\ todo'[b] = todo[b]
      /\ todo' \in [Actors -> Seq(Steps)] /\ at' \in [Actors -> Places]
      /\ calls' \in 0 .. MaxCalls
  BY <1>1, GoesOn DEF attach, Places
<1>4. Object(b)' = Object(b) /\ GatesOf(b) /\ gate' = gate
  BY <1>1, <1>3, Leaves DEF attach, Object, gates
<1>5. bound \subseteq deps
  BY <1>2, HolderAlone DEF IInv, Children, Linking, attach, Doing
<1>6. \A o \in bound' \ deps' : Doing(b, {"attach"}, "bound")' /\ Object(b)' = o
  BY <1>2, <1>3, <1>4, <1>5 DEF attach, Doing
<1>7. Local(b)' /\ ~InNative(b)'
  <2>1. Gated(b)' /\ ObjectClosing(b)'
    BY <1>2, <1>3, <1>4 DEF Gated, ObjectClosing, Doing, Detaching
  <2>2. QED
    BY <1>1, <1>2, <1>3, <2>1, StaysOpen DEF Local, InNative, Doing
<1>8. QED
  BY <1>1, <1>2, <1>3, <1>4, <1>6, <1>7, UnderGate
     DEF attach, Types, ObjectTypes

LEMMA Link ==
  ASSUME IInv, NEW b \in Actors, link(b)
  PROVE  IInv'
<1>1. Types /\ Local(b)
  BY DEF IInv
<1>2. /\ todo[b] # <<>> /\ Head(todo[b])[1] = "attach" /\ Object(b) \in Outputs
      /\ gate = b
  BY <1>1, HeadNames DEF link, Doing, Local, Gated
<1>3. Tail(todo[b]) \in Seq(Steps) /\ Do("destroy") \notin Range(Tail(todo[b]))
  BY <1>1, <1>2, HeadAndTail, NotDestroying DEF Types, CallTypes, Local
<1>4. /\ Moves(b) /\ at'[b] = "start" /\ todo'[b] = Tail(todo[b])
      /\ todo' \in [Actors -> Seq(Steps)] /\ at' \in [Actors -> Places]
      /\ calls' \in 0 .. MaxCalls
  BY <1>1, <1>3, Continues DEF link, StepDone
<1>5. GatesOf(b)
  BY <1>1, Leaves DEF link
<1>6. bound' \subseteq deps'
  BY <1>2, HolderAlone DEF IInv, Children, Linking, link, Doing
<1>7. Local(b)' /\ ~InNative(b)'
  BY <1>3, <1>4, Begins
<1>8. QED
  BY <1>1, <1>2, <1>4, <1>5, <1>6, <1>7, UnderGate DEF link, Types, ObjectTypes

LEMMA Detached ==
  ASSUME IInv, NEW b \in Actors, detach(b)
  PROVE  IInv'
<1>1. Types /\ Local(b)
  BY DEF IInv
<1>2. /\ todo[b] # <<>> /\ Head(todo[b])[1] \in Detaching /\ Object(b) \in Outputs
      /\ gate = b /\ Head(todo[b])[1] \notin {"closeDump", "destroy", "attach"}
  BY <1>1, HeadNames DEF detach, Doing, Local, Gated, Detaching
<1>3. /\ Moves(b) /\ at'[b] = "unbound" /\ todo'[b] = todo[b]
      /\ todo' \in [Actors -> Seq(Steps)] /\ at' \in [Actors -> Places]
      /\ calls' \in 0 .. MaxCalls
  BY <1>1, GoesOn DEF detach, Places
<1>4. Object(b)' = Object(b) /\ GatesOf(b) /\ gate' = gate
  BY <1>1, <1>3, Leaves DEF detach, Object, gates
<1>5. bound' \subseteq deps'
  BY <1>2, HolderAlone DEF IInv, Children, Linking, detach, Doing
<1>6. Local(b)' /\ ~InNative(b)'
  <2>1. Gated(b)' /\ ObjectClosing(b)'
    BY <1>2, <1>3, <1>4 DEF detach, Gated, ObjectClosing, Doing
  <2>2. QED
    BY <1>1, <1>2, <1>3, <2>1, StaysOpen DEF Local, InNative, Doing
<1>7. QED
  BY <1>1, <1>2, <1>3, <1>4, <1>5, <1>6, UnderGate DEF detach, Types, ObjectTypes

LEMMA Unlink ==
  ASSUME IInv, NEW b \in Actors, unlink(b)
  PROVE  IInv'
<1>1. Types /\ Local(b)
  BY DEF IInv
<1>2. /\ todo[b] # <<>> /\ gate = b /\ Object(b) \notin bound
      /\ Head(todo[b])[1] \notin {"closeDump", "destroy", "attach"}
  BY <1>1 DEF unlink, Doing, Local, Gated, Detaching
<1>3. /\ Moves(b) /\ at'[b] = "detached" /\ todo'[b] = todo[b]
      /\ todo' \in [Actors -> Seq(Steps)] /\ at' \in [Actors -> Places]
      /\ calls' \in 0 .. MaxCalls
  BY <1>1, GoesOn DEF unlink, Places
<1>4. GatesOf(b)
  BY <1>1, Leaves DEF unlink
<1>5. bound' \subseteq deps'
  BY <1>2, HolderAlone DEF IInv, Children, Linking, unlink, Doing
<1>6. Local(b)' /\ ~InNative(b)'
  <2>1. Gated(b)' /\ ObjectClosing(b)'
    BY <1>2, <1>3 DEF Gated, ObjectClosing, Doing
  <2>2. QED
    BY <1>1, <1>2, <1>3, <2>1, StaysOpen DEF Local, InNative, Doing
<1>7. QED
  BY <1>1, <1>2, <1>3, <1>4, <1>5, <1>6, UnderGate DEF unlink, Types, ObjectTypes

-----------------------------------------------------------------------------
(* Recordings and raw dumps *)

\* A step that changes recordings or raw dumps.
LEMMA ObjectStep ==
  ASSUME IInv, NEW b \in Actors, Moves(b), GatesOf(b), Objects(b),
         todo' \in [Actors -> Seq(Steps)], at' \in [Actors -> Places],
         calls' \in 0 .. MaxCalls,
         UNCHANGED <<replayVars, bindings, queueVars>>, ObjectTypes',
         closed => tasks' = {} /\ \A d \in Dumps : ~Live(d)',
         \A d \in Dumps : Live(d)' => d \in dumps',
         ~Doing(b, {"attach"}, "bound"), OneCloser', Local(b)'
  PROVE  IInv'
<1>1. QueueTypes' /\ UNCHANGED <<handling, outputClosed>>
  BY QueuesStay
<1>2. Types'
  BY <1>1 DEF IInv, Types, CallTypes, GatesOf
<1>3. \A a \in Actors : Local(a)'
  BY OthersHold
<1>4. Children'
  <2>1. \A a \in Actors \ {b} :
          /\ Object(a)' = Object(a)
          /\ Doing(a, {"attach"}, "bound")' <=> Doing(a, {"attach"}, "bound")
    BY DEF Moves, Doing, Object
  <2>2. \A o : Linking(o) => Linking(o)'
    BY <2>1 DEF Linking
  <2>3. QED
    BY <2>2 DEF IInv, Children, bindings
<1>5. AfterClose'
  BY <1>1 DEF IInv, AfterClose, Quiet, replayVars, bindings
<1>6. QED
  BY <1>2, <1>3, <1>4, <1>5 DEF IInv

\* A start is a call of its own that has the gate.
LEMMA Starting ==
  ASSUME IInv, NEW b \in Actors, Doing(b, {"record", "capture"}, "gated"),
         Leave(b), StepDone(b)
  PROVE  /\ gate = b /\ GatesOf(b) /\ Moves(b) /\ ~Doing(b, {"attach"}, "bound")
         /\ todo' \in [Actors -> Seq(Steps)] /\ at' \in [Actors -> Places]
         /\ calls' \in 0 .. MaxCalls
         /\ Local(b)' /\ ~InNative(b)'
<1>1. Types /\ Local(b)
  BY DEF IInv
<1>2. todo[b] # <<>> /\ Head(todo[b])[1] \notin {"closeDump", "destroy"} /\ gate = b
  BY <1>1 DEF Doing, Local, Gated
<1>3. Tail(todo[b]) \in Seq(Steps) /\ Do("destroy") \notin Range(Tail(todo[b]))
  BY <1>1, <1>2, HeadAndTail, NotDestroying DEF Types, CallTypes, Local
<1>4. /\ Moves(b) /\ at'[b] = "start" /\ todo'[b] = Tail(todo[b])
      /\ todo' \in [Actors -> Seq(Steps)] /\ at' \in [Actors -> Places]
      /\ calls' \in 0 .. MaxCalls
  BY <1>1, <1>3, Continues DEF StepDone
<1>5. Local(b)' /\ ~InNative(b)'
  BY <1>3, <1>4, Begins
<1>6. GatesOf(b)
  BY <1>1, Leaves
<1>7. QED
  BY <1>2, <1>4, <1>5, <1>6 DEF Doing

LEMMA RecordingStarts ==
  ASSUME IInv, NEW b \in Actors, StartRecording(b)
  PROVE  IInv'
<1>1. PICK r \in Recordings : /\ recording[r] = "none"
                              /\ recording' = [recording EXCEPT ![r] = "live"]
                              /\ tasks' = tasks \cup {r}
  BY DEF StartRecording
<1>2. Doing(b, {"record", "capture"}, "gated") /\ Leave(b) /\ StepDone(b)
  BY DEF StartRecording, Doing
<1>3. UNCHANGED <<replayVars, bindings, dump, dumps, queueVars>> /\ ~closed
  BY DEF StartRecording
<1>4. ObjectTypes'
  BY <1>1, <1>3 DEF IInv, Types, ObjectTypes, replayVars, bindings
<1>5. Objects(b)
  BY <1>1, <1>2, <1>3, Starting
     DEF Objects, IInv, Types, ObjectTypes, replayVars, queueVars, outputVars
<1>6. OneCloser'
  BY <1>2, Starting, OneCloserStays DEF IInv
<1>7. QED
  BY <1>2, <1>3, <1>4, <1>5, <1>6, Starting, ObjectStep DEF IInv, Children, Live

LEMMA DumpStarts ==
  ASSUME IInv, NEW b \in Actors, StartRawDump(b)
  PROVE  IInv'
<1>1. PICK d \in Dumps : /\ dump[d] = "none"
                         /\ dump' = [dump EXCEPT ![d] = "live"]
                         /\ dumps' = dumps \cup {d}
  BY DEF StartRawDump
<1>2. Doing(b, {"record", "capture"}, "gated") /\ Leave(b) /\ StepDone(b)
  BY DEF StartRawDump, Doing
<1>3. UNCHANGED <<replayVars, bindings, recording, tasks, queueVars>> /\ ~closed
  BY DEF StartRawDump
<1>4. ObjectTypes'
  BY <1>1, <1>3 DEF IInv, Types, ObjectTypes, replayVars, bindings
<1>5. Objects(b)
  BY <1>1, <1>2, <1>3, Starting
     DEF Objects, IInv, Types, ObjectTypes, replayVars, queueVars, outputVars
<1>6. OneCloser'
  BY <1>2, Starting, OneCloserStays DEF IInv
<1>7. \A e \in Dumps : Live(e)' => e \in dumps'
  BY <1>1 DEF IInv, Types, ObjectTypes, Children, Live
<1>8. QED
  BY <1>2, <1>3, <1>4, <1>5, <1>6, <1>7, Starting, ObjectStep DEF IInv, Children, Live

\* What a step that closes an object is about.
LEMMA ClosingWhat ==
  ASSUME IInv, NEW b \in Actors, NEW place \in Places
  PROVE  /\ Doing(b, {"stop"}, place) =>
              /\ Object(b) \in Recordings /\ Object(b) \notin Dumps /\ todo[b] # <<>>
              /\ Head(todo[b])[1] = "stop"
         /\ Doing(b, {"closeDump"}, place) =>
              /\ Object(b) \in Dumps /\ Object(b) \notin Recordings /\ todo[b] # <<>>
              /\ Head(todo[b])[1] = "closeDump"
         /\ Doing(b, {"stop", "closeDump"}, place) <=>
              Doing(b, {"stop"}, place) \/ Doing(b, {"closeDump"}, place)
         /\ Doing(b, {"stop", "closeDump"}, place) => ~Doing(b, {"attach"}, "bound")
BY HeadNames, ReplayAssumption DEF Doing, IInv

\* A recording or dump that is live is in nobody's hands.
LEMMA FirstCloser ==
  ASSUME IInv, NEW b \in Actors, Moves(b), Object(b)' = Object(b),
         \/ Object(b) \in Recordings /\ recording[Object(b)] = "live"
         \/ Object(b) \in Dumps /\ dump[Object(b)] = "live"
  PROVE  OneCloser'
<1>1. \A a \in Actors \ {b} : (InNative(a)' <=> InNative(a)) /\ Object(a)' = Object(a)
  BY DEF Moves, InNative, Doing, Object
<1>2. ASSUME NEW a \in Actors \ {b}, InNative(a) PROVE Object(a) # Object(b)
  <2>1. \/ Doing(a, {"stop"}, "native") /\ Object(a) \in Recordings
        \/ Doing(a, {"closeDump"}, "native") /\ Object(a) \in Dumps
    BY <1>2, ClosingWhat DEF InNative, Places
  <2>2. ObjectClosing(a)
    BY DEF IInv, Local
  <2>3. QED
    BY <2>1, <2>2, ReplayAssumption DEF ObjectClosing
<1>3. QED
  BY <1>1, <1>2 DEF IInv, OneCloser

\* A close that goes on with a raw dump keeps what it has made sure of.
LEMMA KeepsClosing ==
  ASSUME IInv, NEW b \in Actors, todo[b] # <<>>, Head(todo[b])[1] = "closeDump",
         todo'[b] = todo[b],
         gate' = gate, bound' = bound, deps' = deps, tasks' = tasks,
         \A d \in Dumps : Live(d)' => Live(d)
  PROVE  Closing(b)'
<1>1. Closing(b) /\ ~Destroyed(b) /\ ~Destroyed(b)'
  BY DEF IInv, Local, Destroyed, Doing
<1>2. QED
  BY <1>1 DEF Closing

LEMMA BeginStop ==
  ASSUME IInv, NEW b \in Actors, beginStop(b)
  PROVE  IInv'
<1>1. Types /\ Local(b)
  BY DEF IInv
<1>2. /\ Object(b) \in Recordings /\ todo[b] # <<>> /\ Head(todo[b])[1] = "stop"
      /\ ~Doing(b, {"attach"}, "bound")
  BY ClosingWhat DEF beginStop, Doing, Places
<1>3. /\ Moves(b) /\ at'[b] = "native" /\ todo'[b] = todo[b]
      /\ todo' \in [Actors -> Seq(Steps)] /\ at' \in [Actors -> Places]
      /\ calls' \in 0 .. MaxCalls
  BY <1>1, GoesOn DEF beginStop, Places
<1>4. Object(b)' = Object(b) /\ GatesOf(b)
  BY <1>1, <1>3, Leaves DEF beginStop, Object
<1>5. recording'[Object(b)] = "closing" /\ ObjectTypes' /\ tasks' = tasks
  BY <1>1, <1>2 DEF beginStop, Types, ObjectTypes, replayVars, bindings
<1>6. Objects(b)
  BY <1>1, <1>2 DEF beginStop, Objects, Types, ObjectTypes, replayVars, bindings, queueVars,
                    outputVars, Live
<1>7. OneCloser'
  BY <1>2, <1>3, <1>4, FirstCloser DEF beginStop
<1>8. Local(b)'
  <2>1. Gated(b)' /\ ObjectClosing(b)'
    BY <1>2, <1>3, <1>4, <1>5 DEF Gated, ObjectClosing, Doing
  <2>2. QED
    BY <1>1, <1>2, <1>3, <2>1, StaysOpen DEF Local
<1>9. QED
  BY <1>2, <1>3, <1>4, <1>5, <1>6, <1>7, <1>8, ObjectStep
     DEF beginStop, IInv, Children, AfterClose, Quiet, Live

LEMMA BeginCloseDump ==
  ASSUME IInv, NEW b \in Actors, beginCloseDump(b)
  PROVE  IInv'
<1>1. Types /\ Local(b)
  BY DEF IInv
<1>2. /\ Object(b) \in Dumps /\ todo[b] # <<>> /\ Head(todo[b])[1] = "closeDump"
      /\ ~Doing(b, {"attach"}, "bound")
  BY ClosingWhat DEF beginCloseDump, Doing, Places
<1>3. /\ Moves(b) /\ at'[b] = "native" /\ todo'[b] = todo[b]
      /\ todo' \in [Actors -> Seq(Steps)] /\ at' \in [Actors -> Places]
      /\ calls' \in 0 .. MaxCalls
  BY <1>1, GoesOn DEF beginCloseDump, Places
<1>4. Object(b)' = Object(b) /\ GatesOf(b)
  BY <1>1, <1>3, Leaves DEF beginCloseDump, Object
<1>5. dump'[Object(b)] = "closing" /\ ObjectTypes' /\ \A d \in Dumps : Live(d)' <=> Live(d)
  BY <1>1, <1>2 DEF beginCloseDump, Types, ObjectTypes, replayVars, bindings, Live
<1>6. Objects(b)
  BY <1>1, <1>2, <1>5 DEF beginCloseDump, Objects, Types, ObjectTypes, replayVars, bindings,
                    queueVars, outputVars
<1>7. OneCloser'
  BY <1>2, <1>3, <1>4, FirstCloser DEF beginCloseDump
<1>8. Local(b)'
  <2>1. Gated(b)' /\ ObjectClosing(b)'
    BY <1>2, <1>3, <1>4, <1>5 DEF Gated, ObjectClosing, Doing
  <2>2. Closing(b)'
    BY <1>2, <1>3, <1>5, KeepsClosing DEF beginCloseDump, gates, bindings
  <2>3. QED
    BY <2>1, <2>2 DEF Local
<1>9. QED
  BY <1>2, <1>3, <1>4, <1>5, <1>6, <1>7, <1>8, ObjectStep
     DEF beginCloseDump, IInv, Children, AfterClose, Quiet

LEMMA Kept ==
  ASSUME IInv, NEW b \in Actors, kept(b)
  PROVE  IInv'
<1>1. Types /\ Local(b) /\ InNative(b) /\ Continue(b, <<>>)
  BY DEF kept, IInv, InNative, Fail
<1>2. /\ Object(b) \in Recordings => recording[Object(b)] = "closing"
      /\ Object(b) \in Dumps => dump[Object(b)] = "closing"
      /\ ~Doing(b, {"attach"}, "bound")
  BY <1>1, ClosingWhat DEF Local, ObjectClosing, InNative, Places
<1>3. <<>> \in Seq(Steps) /\ Range(<<>>) = {}
  BY DEF Range
<1>4. /\ Moves(b) /\ at'[b] = "start" /\ todo'[b] = <<>>
      /\ todo' \in [Actors -> Seq(Steps)] /\ at' \in [Actors -> Places]
      /\ calls' \in 0 .. MaxCalls
  BY <1>1, <1>3, Continues
<1>5. Local(b)' /\ ~InNative(b)'
  BY <1>3, <1>4, Begins
<1>6. GatesOf(b) /\ OneCloser'
  BY <1>1, <1>4, <1>5, Leaves, OneCloserStays DEF kept, IInv
<1>7. /\ ObjectTypes' /\ tasks' = tasks /\ \A d \in Dumps : Live(d)' <=> Live(d)
  BY <1>1, <1>2 DEF kept, Types, ObjectTypes, replayVars, bindings, Live
<1>8. Objects(b)
  <2>1. \A r \in Recordings : recording[r] = "closing" =>
          recording'[r] = "closing" \/ (Doing(b, {"stop"}, "native") /\ Object(b) = r)
    BY <1>1, ClosingWhat DEF kept, Types, ObjectTypes, InNative, Places
  <2>2. \A d \in Dumps :
          /\ dump[d] = "closing" =>
               dump'[d] = "closing" \/ (Doing(b, {"closeDump"}, "native") /\ Object(b) = d)
          /\ dump[d] = "done" => dump'[d] = "done"
    BY <1>1, <1>2, ClosingWhat DEF kept, Types, ObjectTypes, InNative, Places
  <2>3. QED
    BY <1>7, <2>1, <2>2 DEF kept, Objects, replayVars, bindings, queueVars, outputVars
<1>9. QED
  BY <1>2, <1>4, <1>5, <1>6, <1>7, <1>8, ObjectStep
     DEF kept, IInv, Children, AfterClose, Quiet

LEMMA Stopped ==
  ASSUME IInv, NEW b \in Actors, stopped(b)
  PROVE  IInv'
<1>1. Types /\ Local(b) /\ InNative(b) /\ Doing(b, {"stop"}, "native")
  BY DEF stopped, IInv, InNative, Doing
<1>2. /\ Object(b) \in Recordings /\ todo[b] # <<>> /\ Head(todo[b])[1] = "stop"
      /\ ~Doing(b, {"attach"}, "bound")
  BY <1>1, ClosingWhat DEF Doing, Places
<1>3. Tail(todo[b]) \in Seq(Steps) /\ Do("destroy") \notin Range(Tail(todo[b]))
  BY <1>1, <1>2, HeadAndTail, NotDestroying DEF Types, CallTypes, Local
<1>4. /\ Moves(b) /\ at'[b] = "start" /\ todo'[b] = Tail(todo[b])
      /\ todo' \in [Actors -> Seq(Steps)] /\ at' \in [Actors -> Places]
      /\ calls' \in 0 .. MaxCalls
  BY <1>1, <1>3, Continues DEF stopped, StepDone
<1>5. Local(b)' /\ ~InNative(b)'
  BY <1>3, <1>4, Begins
<1>6. GatesOf(b) /\ OneCloser'
  BY <1>1, <1>4, <1>5, Leaves, OneCloserStays DEF stopped, IInv
<1>7. ObjectTypes'
  BY <1>1, <1>2 DEF stopped, Types, ObjectTypes, replayVars, bindings
<1>8. Objects(b)
  BY <1>1, <1>2 DEF stopped, Types, ObjectTypes, Objects, replayVars, bindings, queueVars,
                    outputVars, Live
<1>9. QED
  BY <1>2, <1>4, <1>5, <1>6, <1>7, <1>8, ObjectStep
     DEF stopped, IInv, Children, AfterClose, Quiet, Live

LEMMA DumpClosed ==
  ASSUME IInv, NEW b \in Actors, dumpClosed(b)
  PROVE  IInv'
<1>1. Types /\ Local(b) /\ Doing(b, {"closeDump"}, "native")
  BY DEF dumpClosed, IInv
<1>2. /\ Object(b) \in Dumps /\ todo[b] # <<>> /\ Head(todo[b])[1] = "closeDump"
      /\ ~Doing(b, {"attach"}, "bound")
  BY <1>1, ClosingWhat DEF Doing, Places
<1>3. /\ Moves(b) /\ at'[b] = "closed" /\ todo'[b] = todo[b]
      /\ todo' \in [Actors -> Seq(Steps)] /\ at' \in [Actors -> Places]
      /\ calls' \in 0 .. MaxCalls
  BY <1>1, GoesOn DEF dumpClosed, Places
<1>4. Object(b)' = Object(b) /\ GatesOf(b)
  BY <1>1, <1>3, Leaves DEF dumpClosed, Object
<1>5. dump'[Object(b)] = "done" /\ ObjectTypes' /\ \A d \in Dumps : Live(d)' => Live(d)
  BY <1>1, <1>2 DEF dumpClosed, Types, ObjectTypes, replayVars, bindings, Live
<1>6. Objects(b)
  BY <1>1, <1>2, <1>5 DEF dumpClosed, Objects, Types, ObjectTypes, replayVars, bindings,
                          queueVars, outputVars
<1>7. OneCloser'
  BY <1>3, OneCloserStays DEF IInv, InNative, Doing
<1>8. Local(b)'
  <2>1. Gated(b)' /\ ObjectClosing(b)'
    BY <1>2, <1>3, <1>4, <1>5 DEF Gated, ObjectClosing, Doing
  <2>2. Closing(b)'
    BY <1>2, <1>3, <1>5, KeepsClosing DEF dumpClosed, gates, bindings
  <2>3. QED
    BY <2>1, <2>2 DEF Local
<1>9. QED
  BY <1>2, <1>3, <1>4, <1>5, <1>6, <1>7, <1>8, ObjectStep
     DEF dumpClosed, IInv, Children, AfterClose, Quiet

\* The raw dump that the actor was about is closed, by this actor or before.
LEMMA DumpDone ==
  ASSUME IInv, NEW b \in Actors, StepDone(b), todo[b] # <<>>,
         Head(todo[b])[1] = "closeDump", dump[Object(b)] = "done",
         UNCHANGED <<gates, bindings, tasks, dump>>
  PROVE  /\ Moves(b) /\ GatesOf(b) /\ Local(b)' /\ ~InNative(b)'
         /\ todo' \in [Actors -> Seq(Steps)] /\ at' \in [Actors -> Places]
         /\ calls' \in 0 .. MaxCalls
<1>1. Types /\ Closing(b)
  BY DEF IInv, Local
<1>2. Tail(todo[b]) \in Seq(Steps)
  BY <1>1, HeadAndTail DEF Types, CallTypes
<1>3. /\ Moves(b) /\ at'[b] = "start" /\ todo'[b] = Tail(todo[b])
      /\ todo' \in [Actors -> Seq(Steps)] /\ at' \in [Actors -> Places]
      /\ calls' \in 0 .. MaxCalls
  BY <1>1, <1>2, Continues DEF StepDone
<1>4. \A d \in Dumps : Live(d)' => Live(d) /\ d # Object(b)
  BY DEF Live
<1>5. Local(b)'
  BY <1>1, <1>3, <1>4, NextOfClose DEF gates, bindings
<1>6. QED
  BY <1>1, <1>3, <1>5, Leaves DEF InNative, Doing

LEMMA ForgetDump ==
  ASSUME IInv, NEW b \in Actors, forgetDump(b)
  PROVE  IInv'
<1>1. /\ todo[b] # <<>> /\ Head(todo[b])[1] = "closeDump" /\ dump[Object(b)] = "done"
      /\ ~Doing(b, {"attach"}, "bound")
  BY DEF forgetDump, IInv, Local, ObjectClosing, Doing
<1>2. /\ Moves(b) /\ GatesOf(b) /\ Local(b)' /\ ~InNative(b)'
      /\ todo' \in [Actors -> Seq(Steps)] /\ at' \in [Actors -> Places]
      /\ calls' \in 0 .. MaxCalls
  BY <1>1, DumpDone DEF forgetDump
<1>3. ObjectTypes' /\ \A d \in Dumps : Live(d)' => Live(d) /\ d \in dumps'
  BY <1>1 DEF forgetDump, IInv, Types, ObjectTypes, Children, replayVars, bindings, Live
<1>4. Objects(b)
  BY <1>3 DEF forgetDump, Objects, replayVars, bindings, queueVars, outputVars, Live
<1>5. QED
  BY <1>1, <1>2, <1>3, <1>4, ObjectStep, OneCloserStays
     DEF forgetDump, IInv, AfterClose, Quiet

LEMMA DoneBefore ==
  ASSUME IInv, NEW b \in Actors, doneBefore(b)
  PROVE  IInv'
<1>1. CASE Doing(b, {"stop"}, "start")
  BY <1>1, GoesToNext, QueuesStay DEF doneBefore, Doing
<1>2. CASE Doing(b, {"closeDump"}, "start") /\ dump[Object(b)] = "done"
  <2>1. /\ todo[b] # <<>> /\ Head(todo[b])[1] = "closeDump" /\ ~Doing(b, {"attach"}, "bound")
    BY <1>2 DEF Doing
  <2>2. /\ Moves(b) /\ GatesOf(b) /\ Local(b)' /\ ~InNative(b)'
        /\ todo' \in [Actors -> Seq(Steps)] /\ at' \in [Actors -> Places]
        /\ calls' \in 0 .. MaxCalls
    BY <1>2, <2>1, DumpDone DEF doneBefore, objects
  <2>3. QED
    BY <2>1, <2>2, QueuesStay, OwnStep
       DEF doneBefore, gates, IInv, Types, ObjectTypes, replayVars
<1>3. QED
  BY <1>1, <1>2 DEF doneBefore

-----------------------------------------------------------------------------
(* Outputs *)

LEMMA CloseOutputs ==
  ASSUME IInv, NEW b \in Actors, closeOutput(b)
  PROVE  IInv'
<1>1. ~Doing(b, {"attach"}, "bound") /\ Object(b) \in Outputs
  BY HeadNames DEF closeOutput, Doing, IInv
<1>2. CASE Fail(b)
  BY <1>1, <1>2, Fails DEF closeOutput
<1>3. ASSUME NEW detaching \in {<<On("detach", Object(b))>>, <<>>},
             Continue(b, detaching \o <<On("destroyOutput", Object(b))>>)
      PROVE  IInv'
  <2> DEFINE first == On("detach", Object(b))
             second == On("destroyOutput", Object(b))
             plan == detaching \o <<second>>
  <2>1. /\ first \in Steps /\ second \in Steps
        /\ first # Do("destroy") /\ second # Do("destroy")
    BY <1>1 DEF Steps, OutputSteps, Detaching, On, Do
  <2> HIDE DEF first, second
  <2>2. detaching \in Seq(Steps) /\ Range(detaching) \subseteq {first}
    <3>1. CASE detaching = <<first>>
      BY <2>1, <3>1, OneStep
    <3>2. CASE detaching = <<>>
      BY <3>2 DEF Range
    <3>3. QED
      BY <1>3, <3>1, <3>2 DEF first
  <2>3. plan \in Seq(Steps) /\ Range(plan) \subseteq {first, second}
    BY <2>1, <2>2, OneStep, Joined
  <2>4. Continue(b, plan)
    BY <1>3 DEF second
  <2> HIDE DEF plan
  <2>5. QED
    BY <1>1, <2>1, <2>3, <2>4, Ends, QueuesStay DEF closeOutput
<1>4. QED
  BY <1>2, <1>3 DEF closeOutput

LEMMA DestroyOutputFails ==
  ASSUME IInv, NEW b \in Actors, destroyOutputFails(b)
  PROVE  IInv'
<1>1. ~Doing(b, {"attach"}, "bound")
  BY DEF destroyOutputFails, Doing
<1>2. QED
  BY <1>1, Fails DEF destroyOutputFails

LEMMA DestroyOutput ==
  ASSUME IInv, NEW b \in Actors, destroyOutput(b)
  PROVE  IInv'
<1>1. Types
  BY DEF IInv
<1>2. /\ todo[b] # <<>> /\ Head(todo[b])[1] = "destroyOutput"
      /\ ~Doing(b, {"attach"}, "bound") /\ Object(b) \in Outputs
  BY <1>1, HeadNames DEF destroyOutput, Doing
<1>3. todo'[b] = todo[b] /\ at'[b] = "draining" /\ Object(b)' = Object(b)
  BY <1>1, GoesOn DEF destroyOutput, Places, Object
<1>4. /\ QueueTypes' /\ handling' = handling /\ outputClosed \subseteq outputClosed'
      /\ Object(b) \in outputClosed'
  BY <1>1, <1>2 DEF destroyOutput, Types, QueueTypes, taskVars, Dispatching
<1>5. Gated(b)' /\ ObjectClosing(b)'
  BY <1>2, <1>3, <1>4 DEF Gated, ObjectClosing, Doing
<1>6. QED
  BY <1>1, <1>2, <1>4, <1>5, Leaves, GoesAlong DEF destroyOutput, Places

LEMMA ShutOutput ==
  ASSUME IInv, NEW b \in Actors, shutOutput(b)
  PROVE  IInv'
<1>1. /\ todo[b] # <<>> /\ Head(todo[b])[1] = "destroyOutput"
      /\ ~Doing(b, {"attach"}, "bound") /\ Object(b) \in outputClosed
  BY DEF shutOutput, Doing, IInv, Local, ObjectClosing
<1>2. QueueTypes' /\ UNCHANGED <<handling, outputClosed>>
  BY <1>1 DEF shutOutput, IInv, Types, QueueTypes, taskVars, Dispatching
<1>3. QED
  BY <1>1, <1>2, GoesOut DEF shutOutput

LEMMA OutputDrained ==
  ASSUME IInv, NEW b \in Actors, outputDrained(b)
  PROVE  IInv'
<1>1. /\ todo[b] # <<>> /\ Head(todo[b])[1] \notin {"closeDump", "destroy"}
      /\ ~Doing(b, {"attach"}, "bound")
  BY DEF outputDrained, Doing
<1>2. QED
  BY <1>1, GoesToNext, QueuesStay DEF outputDrained

-----------------------------------------------------------------------------
(* The close of the replay *)

LEMMA Ordered ==
  ASSUME NEW S, IsFiniteSet(S), NEW seq \in Orders(S)
  PROVE  seq \in Seq(S) /\ Range(seq) = S
<1>1. Cardinality(S) \in Nat
  BY FS_CardinalityType
<1>2. QED
  BY <1>1, SeqDef DEF Orders

\* One step for each of some objects.
LEMMA EachIsPlan ==
  ASSUME NEW S, NEW seq \in Seq(S), NEW name, \A x \in S : On(name, x) \in Steps
  PROVE  /\ Each(name, seq) \in Seq(Steps)
         /\ Range(Each(name, seq)) = {On(name, x) : x \in Range(seq)}
<1>1. Len(seq) \in Nat /\ DOMAIN seq = 1 .. Len(seq) /\ \A i \in DOMAIN seq : seq[i] \in S
  BY ElementOfSeq
<1>2. Each(name, seq) \in [1 .. Len(seq) -> Steps]
  BY <1>1 DEF Each
<1>3. Each(name, seq) \in Seq(Steps)
  BY <1>1, <1>2, SeqDef
<1>4. QED
  BY <1>1, <1>3 DEF Each, Range

LEMMA CloseRefused ==
  ASSUME IInv, NEW b \in Actors, closeRefused(b)
  PROVE  IInv'
<1>1. ~Doing(b, {"attach"}, "bound")
  BY DEF closeRefused, Doing
<1>2. QED
  BY <1>1, Fails DEF closeRefused

LEMMA DestroyFails ==
  ASSUME IInv, NEW b \in Actors, destroyFails(b)
  PROVE  IInv'
<1>1. ~Doing(b, {"attach"}, "bound")
  BY DEF destroyFails, Doing
<1>2. QED
  BY <1>1, Fails DEF destroyFails

LEMMA ClosedAlready ==
  ASSUME IInv, NEW b \in Actors, closedAlready(b)
  PROVE  IInv'
<1>1. Types /\ Local(b)
  BY DEF IInv
<1>2. /\ todo[b] # <<>> /\ Head(todo[b])[1] \notin {"closeDump", "destroy"}
      /\ ~Doing(b, {"attach"}, "bound")
  BY DEF closedAlready, Doing
<1>3. Tail(todo[b]) \in Seq(Steps) /\ Do("destroy") \notin Range(Tail(todo[b]))
  BY <1>1, <1>2, HeadAndTail, NotDestroying DEF Types, CallTypes, Local
<1>4. /\ Moves(b) /\ at'[b] = "start" /\ todo'[b] = Tail(todo[b])
      /\ todo' \in [Actors -> Seq(Steps)] /\ at' \in [Actors -> Places]
      /\ calls' \in 0 .. MaxCalls
  BY <1>1, <1>3, Continues DEF closedAlready, StepDone
<1>5. Local(b)' /\ ~InNative(b)'
  BY <1>3, <1>4, Begins
<1>6. GatesOf(b) /\ QueueTypes' /\ UNCHANGED <<handling, outputClosed>>
  BY <1>1, Leaves, QueuesStay DEF closedAlready
<1>7. shut' \in BOOLEAN /\ finished' \in BOOLEAN /\ closed /\ Worker \notin handling
  BY <1>1 DEF closedAlready, replayCloseReady, QueueIdle, Types, ObjectTypes
<1>8. QED
  BY <1>2, <1>4, <1>5, <1>6, <1>7, OwnStep DEF closedAlready

\* What Close has made sure of when it begins with the raw dumps.
LEMMA CloseDumpsFirst ==
  ASSUME IInv, NEW b \in Actors, closeDumps(b)
  PROVE  IInv'
<1>1. Types /\ Local(b) /\ gate = b /\ ~Doing(b, {"attach"}, "bound")
  BY DEF IInv, closeDumps, Local, Gated, Doing
<1>2. deps = {} /\ tasks = {} /\ bound = {}
  BY <1>1, HolderAlone DEF IInv, Children, Linking, closeDumps, mayClose
<1>3. PICK ds \in Orders(dumps) :
        Continue(b, Each("closeDump", ds) \o <<Do("destroy")>>)
  BY DEF closeDumps
<1> DEFINE first == Each("closeDump", ds)
           plan == first \o <<Do("destroy")>>
<1>4. ds \in Seq(dumps) /\ Range(ds) = dumps /\ dumps \subseteq Dumps
  BY <1>1, <1>3, Ordered, FS_Subset, ReplayAssumption DEF Types, ObjectTypes
<1>5. first \in Seq(Steps) /\ Range(first) = {On("closeDump", d) : d \in dumps}
  BY <1>4, EachIsPlan DEF Steps, DumpSteps
<1>6. Do("destroy") \in Steps /\ \A d : On("closeDump", d) # Do("destroy")
  BY DEF Steps, ReplaySteps, Do, On
<1> HIDE DEF first
<1>7. plan \in Seq(Steps) /\ Range(plan) = Range(first) \cup {Do("destroy")}
  BY <1>5, <1>6, OneStep, Joined
<1>8. \A i \in DOMAIN plan : plan[i] = Do("destroy") => i = Len(plan)
  <2>1. /\ Len(plan) = Len(first) + 1 /\ DOMAIN plan = 1 .. Len(plan)
        /\ \A i \in 1 .. Len(first) : plan[i] = first[i] /\ first[i] \in Range(first)
        /\ Len(first) \in Nat
    BY <1>5, <1>6 DEF Range
  <2>2. QED
    BY <1>5, <1>6, <2>1
<1>9. Continue(b, plan)
  BY <1>3 DEF first
<1> HIDE DEF plan
<1>10. /\ Moves(b) /\ at'[b] = "start" /\ todo'[b] = plan
       /\ todo' \in [Actors -> Seq(Steps)] /\ at' \in [Actors -> Places]
       /\ calls' \in 0 .. MaxCalls
  BY <1>1, <1>7, <1>9, Continues
<1>11. GatesOf(b) /\ QueueTypes' /\ UNCHANGED <<handling, outputClosed>>
  BY <1>1, Leaves, QueuesStay DEF closeDumps
<1>12. Local(b)' /\ ~InNative(b)'
  <2>1. \A d \in Dumps : Live(d)' => On("closeDump", d) \in Range(plan)
    BY <1>5, <1>7 DEF IInv, Children, Live, closeDumps, objects
  <2>2. gate' = b /\ deps' = {} /\ bound' = {} /\ tasks' = {}
    BY <1>1, <1>2 DEF closeDumps, gates, bindings, objects
  <2>3. Range(plan) \subseteq DumpSteps \cup {Do("destroy")}
    BY <1>4, <1>5, <1>7 DEF DumpSteps
  <2>4. Closing(b)'
    BY <1>8, <1>10, <2>1, <2>2, <2>3 DEF Closing, Destroyed, Doing
  <2>5. QED
    BY <1>10, <2>4 DEF Local, Gated, ObjectClosing, InNative, Doing
<1>13. QED
  BY <1>1, <1>10, <1>11, <1>12, OwnStep DEF closeDumps, Types, ObjectTypes, replayVars

LEMMA DestroyIsLast ==
  ASSUME IInv, NEW b \in Actors, todo[b] # <<>>, Head(todo[b])[1] = "destroy"
  PROVE  /\ Head(todo[b]) = Do("destroy") /\ Range(todo[b]) = {Do("destroy")}
         /\ Tail(todo[b]) \in Seq(Steps) /\ Range(Tail(todo[b])) = {}
<1>1. Types /\ Closing(b)
  BY DEF IInv, Local
<1>2. Head(todo[b]) = Do("destroy")
  BY <1>1, HeadNames
<1>3. /\ Tail(todo[b]) \in Seq(Steps)
      /\ Range(todo[b]) = {Head(todo[b])} \cup Range(Tail(todo[b]))
      /\ Len(Tail(todo[b])) = Len(todo[b]) - 1
  BY <1>1, HeadAndTail DEF Types, CallTypes
<1>4. 1 \in DOMAIN todo[b] /\ todo[b][1] = Head(todo[b])
  BY <1>1, EmptySeq DEF Types, CallTypes
<1>5. Len(todo[b]) = 1
  BY <1>1, <1>2, <1>3, <1>4 DEF Closing
<1>6. Range(Tail(todo[b])) = {}
  BY <1>3, <1>5 DEF Range
<1>7. QED
  BY <1>2, <1>3, <1>6

LEMMA ReplayDestroyed ==
  ASSUME IInv, NEW b \in Actors, destroyed(b)
  PROVE  IInv'
<1>1. Types /\ Closing(b)
  BY DEF IInv, Local
<1>2. todo[b] # <<>> /\ Head(todo[b])[1] = "destroy" /\ at[b] = "start"
  BY DEF destroyed, Doing
<1>3. Quiet
  BY <1>1, <1>2, DestroyIsLast DEF Closing, Destroyed, Doing, Quiet, Do, On
<1>4. /\ Moves(b) /\ at'[b] = "draining" /\ todo'[b] = todo[b]
      /\ todo' \in [Actors -> Seq(Steps)] /\ at' \in [Actors -> Places]
      /\ calls' \in 0 .. MaxCalls
  BY <1>1, GoesOn DEF destroyed, Places
<1>5. GatesOf(b) /\ QueueTypes' /\ UNCHANGED <<handling, outputClosed>>
  BY <1>1, Leaves, QueuesStay DEF destroyed
<1>6. Types'
  BY <1>1, <1>4, <1>5
     DEF destroyed, Types, ObjectTypes, CallTypes, bindings, objects, GatesOf
<1>7. Local(b)' /\ ~InNative(b)'
  <2>1. Closing(b)'
    BY <1>1, <1>2, <1>4 DEF Closing, Destroyed, Doing, destroyed
  <2>2. QED
    BY <1>2, <1>4, <2>1 DEF Local, Gated, ObjectClosing, InNative, Doing
<1>8. \A a \in Actors : Local(a)'
  <2>1. Objects(b)
    BY <1>5 DEF Objects, destroyed, bindings, objects, Live
  <2>2. QED
    BY <1>4, <1>5, <1>7, <2>1, OthersHold
<1>9. OneCloser' /\ Children'
  <2>1. Children'
    BY <1>3 DEF IInv, Children, Quiet, Live, destroyed, bindings, objects
  <2>2. QED
    BY <1>4, <1>7, <2>1, OneCloserStays DEF IInv
<1>10. AfterClose'
  BY <1>3, <1>5 DEF IInv, AfterClose, Quiet, Live, destroyed, bindings, objects
<1>11. QED
  BY <1>6, <1>8, <1>9, <1>10 DEF IInv

LEMMA FinishNativeClose ==
  ASSUME IInv, NEW b \in Actors, finishNativeClose(b)
  PROVE  IInv'
<1>1. Types /\ Closing(b) /\ closed
  BY DestroyIsLast DEF IInv, Local, Closing, Destroyed, Doing, finishNativeClose
<1>2. todo[b] # <<>> /\ Head(todo[b])[1] = "destroy" /\ ~Doing(b, {"attach"}, "bound")
  BY DEF finishNativeClose, Doing
<1>3. /\ Moves(b) /\ at'[b] = "shut" /\ todo'[b] = todo[b]
      /\ todo' \in [Actors -> Seq(Steps)] /\ at' \in [Actors -> Places]
      /\ calls' \in 0 .. MaxCalls
  BY <1>1, GoesOn DEF finishNativeClose, Places
<1>4. GatesOf(b) /\ QueueTypes' /\ UNCHANGED <<handling, outputClosed>>
  BY <1>1, Leaves, QueuesStay DEF finishNativeClose
<1>5. Local(b)' /\ ~InNative(b)'
  <2>1. Closing(b)'
    BY <1>1, <1>2, <1>3 DEF Closing, Destroyed, Doing, finishNativeClose
  <2>2. QED
    BY <1>2, <1>3, <2>1 DEF Local, Gated, ObjectClosing, InNative, Doing
<1>6. QED
  BY <1>1, <1>2, <1>3, <1>4, <1>5, OwnStep DEF finishNativeClose, Types, ObjectTypes

LEMMA Drained ==
  ASSUME IInv, NEW b \in Actors, drained(b)
  PROVE  IInv'
<1>1. Types /\ closed
  BY DestroyIsLast DEF IInv, Local, Closing, Destroyed, Doing, drained
<1>2. todo[b] # <<>> /\ Head(todo[b])[1] = "destroy" /\ ~Doing(b, {"attach"}, "bound")
  BY DEF drained, Doing
<1>3. Tail(todo[b]) \in Seq(Steps) /\ Do("destroy") \notin Range(Tail(todo[b]))
  BY <1>2, DestroyIsLast
<1>4. /\ Moves(b) /\ at'[b] = "start" /\ todo'[b] = Tail(todo[b])
      /\ todo' \in [Actors -> Seq(Steps)] /\ at' \in [Actors -> Places]
      /\ calls' \in 0 .. MaxCalls
  BY <1>1, <1>3, Continues DEF drained, StepDone
<1>5. Local(b)' /\ ~InNative(b)'
  BY <1>3, <1>4, Begins
<1>6. GatesOf(b) /\ QueueTypes' /\ UNCHANGED <<handling, outputClosed>>
  BY <1>1, Leaves, QueuesStay DEF drained
<1>7. Worker \notin handling /\ shut' \in BOOLEAN /\ finished' \in BOOLEAN
  BY <1>1 DEF drained, QueueIdle, Types, ObjectTypes
<1>8. QED
  BY <1>1, <1>2, <1>4, <1>5, <1>6, <1>7, OwnStep DEF drained

LEMMA Preflight ==
  ASSUME IInv, NEW b \in Actors, preflightClientClose(b)
  PROVE  IInv'
<1>1. /\ todo[b] # <<>> /\ Head(todo[b])[1] \notin {"closeDump", "destroy"}
      /\ ~Doing(b, {"attach"}, "bound")
  BY DEF preflightClientClose, Doing
<1>2. CASE StepDone(b)
  BY <1>1, <1>2, GoesToNext, QueuesStay DEF preflightClientClose
<1>3. CASE Fail(b)
  BY <1>1, <1>3, Fails DEF preflightClientClose
<1>4. QED
  BY <1>2, <1>3 DEF preflightClientClose

LEMMA CloseFromClient ==
  ASSUME IInv, NEW b \in Actors, closeFromClient(b)
  PROVE  IInv'
<1>1. PICK ds \in Orders(dumps), rs \in Orders(tasks), os \in Orders(deps) :
        Continue(b, Each("closeDump", ds) \o Each("stop", rs)
                    \o Each("detachFromClient", os) \o <<Do("close")>>)
  BY DEF closeFromClient
<1> DEFINE first == Each("closeDump", ds)
           second == Each("stop", rs)
           third == Each("detachFromClient", os)
<1>2. dumps \subseteq Dumps /\ tasks \subseteq Recordings /\ deps \subseteq Outputs
  BY DEF IInv, Types, ObjectTypes
<1>3. ds \in Seq(dumps) /\ rs \in Seq(tasks) /\ os \in Seq(deps)
  BY <1>2, Ordered, FS_Subset, ReplayAssumption
<1>4. \A name, x : On(name, x) = Do("destroy") => name = "destroy"
  BY DEF On, Do
<1>5. first \in Seq(Steps) /\ Do("destroy") \notin Range(first)
  BY <1>2, <1>3, <1>4, EachIsPlan DEF Steps, DumpSteps
<1>6. second \in Seq(Steps) /\ Do("destroy") \notin Range(second)
  BY <1>2, <1>3, <1>4, EachIsPlan DEF Steps, RecordingSteps
<1>7. third \in Seq(Steps) /\ Do("destroy") \notin Range(third)
  BY <1>2, <1>3, <1>4, EachIsPlan DEF Steps, OutputSteps, Detaching
<1>8. <<Do("close")>> \in Seq(Steps) /\ Do("destroy") \notin Range(<<Do("close")>>)
  <2>1. Do("close") \in Steps /\ Do("close") # Do("destroy")
    BY DEF Steps, ReplaySteps, Do
  <2>2. QED
    BY <2>1, OneStep
<1> HIDE DEF first, second, third
<1>9. /\ first \o second \in Seq(Steps) /\ Do("destroy") \notin Range(first \o second)
  BY <1>5, <1>6, Joined
<1> DEFINE children == first \o second \o third
<1>10. children \in Seq(Steps) /\ Do("destroy") \notin Range(children)
  BY <1>7, <1>9, Joined
<1> HIDE DEF children
<1> DEFINE plan == children \o <<Do("close")>>
<1>11. plan \in Seq(Steps) /\ Do("destroy") \notin Range(plan)
  BY <1>8, <1>10, Joined
<1>12. Continue(b, plan)
  BY <1>1 DEF first, second, third, children
<1> HIDE DEF plan
<1>13. ~Doing(b, {"attach"}, "bound")
  BY DEF closeFromClient, Doing
<1>14. QED
  BY <1>11, <1>12, <1>13, Ends, QueuesStay DEF closeFromClient

-----------------------------------------------------------------------------
(* Tasks and events *)

LEMMA QueueStep ==
  ASSUME IInv, UNCHANGED <<gates, replayVars, bindings, objects, outputClosed, callVars>>,
         QueueTypes', closed /\ Worker \in handling' => Worker \in handling
  PROVE  IInv'
<1> USE DEF gates, replayVars, bindings, objects, callVars
<1>1. Types'
  BY DEF IInv, Types, ObjectTypes, CallTypes
<1>2. /\ \A a, names, place : Doing(a, names, place)' <=> Doing(a, names, place)
      /\ \A a : Object(a)' = Object(a)
  BY DEF Doing, Object
<1>3. \A a \in Actors : Local(a)'
  <2> SUFFICES ASSUME NEW a \in Actors PROVE Local(a)'
    OBVIOUS
  <2>1. Local(a)
    BY DEF IInv
  <2>2. Gated(a)' /\ ObjectClosing(a)'
    BY <1>2, <2>1 DEF Local, Gated, ObjectClosing
  <2>3. Closing(a)'
    BY <1>2, <2>1 DEF Local, Closing, Destroyed, Live
  <2>4. QED
    BY <2>2, <2>3 DEF Local
<1>4. OneCloser' /\ Children'
  BY <1>2 DEF IInv, OneCloser, InNative, Children, Linking, Live
<1>5. AfterClose'
  BY DEF IInv, AfterClose, Quiet, Live
<1>6. QED
  BY <1>1, <1>3, <1>4, <1>5 DEF IInv

\* Every task is in one place: with the dispatcher, in the queue, in the handler
\* or executed.
LEMMA TaskSteps ==
  ASSUME IInv, dispatch \/ Dispatcher \/ runTask
  PROVE  IInv'
<1> USE ReplayAssumption DEF Dispatching
<1>1. QueueTypes
  BY DEF IInv, Types
<1>2. CASE dispatch
  <2>1. QueueTypes' /\ UNCHANGED <<handling, outputClosed>>
    BY <1>1, <1>2 DEF dispatch, QueueTypes, outputVars
  <2>2. QED
    BY <1>2, <2>1, QueueStep DEF dispatch
<1>3. CASE postReliable
  <2>1. QueueTypes' /\ UNCHANGED <<handling, outputClosed>>
    BY <1>1, <1>3 DEF postReliable, QueueTypes, outputVars
  <2>2. QED
    BY <1>3, <2>1, QueueStep DEF postReliable
<1>4. CASE runRefused
  <2>1. QueueTypes' /\ UNCHANGED <<handling, outputClosed>>
    BY <1>1, <1>4 DEF runRefused, QueueTypes, outputVars
  <2>2. QED
    BY <1>4, <2>1, QueueStep DEF runRefused
<1>5. CASE runTask
  <2>1. QueueTypes' /\ UNCHANGED outputClosed
    BY <1>1, <1>5 DEF runTask, QueueTypes, outputVars
  <2>2. closed /\ Worker \in handling' => Worker \in handling
    BY <1>5 DEF runTask
  <2>3. QED
    BY <1>5, <2>1, <2>2, QueueStep DEF runTask
<1>6. QED
  BY <1>2, <1>3, <1>4, <1>5 DEF Dispatcher

LEMMA HandlerReturns ==
  ASSUME IInv, NEW b \in Actors, handlerReturns(b)
  PROVE  IInv'
<1>1. QueueTypes
  BY DEF IInv, Types
<1>2. QueueTypes' /\ UNCHANGED outputClosed
  <2>1. handling' \in SUBSET (Outputs \cup {Worker})
    BY <1>1 DEF handlerReturns, QueueTypes
  <2>2. Dispatching' = Dispatching /\ executed' \in 0 .. sent
    BY <1>1, ReplayAssumption DEF handlerReturns, QueueTypes, Dispatching
  <2>3. QED
    BY <1>1, <2>1, <2>2 DEF handlerReturns, QueueTypes, outputVars
<1>3. QED
  BY <1>2, QueueStep DEF handlerReturns

LEMMA EventSteps ==
  ASSUME IInv, NEW o \in Outputs, deliver(o) \/ runEvent(o)
  PROVE  IInv'
<1> USE ReplayAssumption DEF Dispatching
<1>1. QueueTypes
  BY DEF IInv, Types
<1>2. CASE deliver(o)
  <2>1. QueueTypes' /\ UNCHANGED <<handling, outputClosed>>
    BY <1>1, <1>2 DEF deliver, QueueTypes, taskVars
  <2>2. QED
    BY <1>2, <2>1, QueueStep DEF deliver
<1>3. CASE runEvent(o)
  <2>1. QueueTypes' /\ UNCHANGED outputClosed /\ (Worker \in handling' <=> Worker \in handling)
    BY <1>1, <1>3 DEF runEvent, QueueTypes, taskVars
  <2>2. QED
    BY <1>3, <2>1, QueueStep DEF runEvent
<1>4. QED
  BY <1>2, <1>3

-----------------------------------------------------------------------------
(* The invariant, and what follows from it *)

LEMMA InitHolds == Init => IInv
<1> SUFFICES ASSUME Init PROVE IInv
  OBVIOUS
<1> USE ReplayAssumption
<1>1. Types
  <2>1. QueueTypes
    BY DEF Init, QueueTypes, Dispatching
  <2>2. ObjectTypes
    BY DEF Init, ObjectTypes
  <2>3. CallTypes
    <3>1. <<>> \in Seq(Steps) /\ "start" \in Places
      BY DEF Places
    <3>2. QED
      BY <3>1 DEF Init, CallTypes
  <2>4. QED
    BY <2>1, <2>2, <2>3 DEF Types
<1>2. \A a \in Actors : todo[a] = <<>> /\ at[a] = "start" /\ Range(todo[a]) = {}
  BY DEF Init, Range
<1>3. \A a \in Actors : Local(a)
  BY <1>2 DEF Local, Gated, ObjectClosing, Closing, Doing
<1>4. OneCloser /\ Children /\ AfterClose
  BY <1>2 DEF Init, OneCloser, InNative, Doing, Children, AfterClose, Live
<1>5. QED
  BY <1>1, <1>3, <1>4 DEF IInv

LEMMA OperationHolds ==
  ASSUME IInv, NEW b \in Actors, Operate(b)
  PROVE  IInv'
<1>1. CASE Attaching(b)
  BY <1>1, AttachFails, Attach, Link DEF Attaching
<1>2. CASE Detach(b)
  BY <1>2, LookBound, NotBound, DetachFails, Detached, Unlink, PostIdle DEF Detach
<1>3. CASE CloseOutput(b)
  BY <1>3, CloseOutputs, DestroyOutputFails, DestroyOutput, ShutOutput, OutputDrained
     DEF CloseOutput
<1>4. CASE CloseObject(b)
  BY <1>4, BeginStop, BeginCloseDump, Kept, Stopped, DumpClosed, ForgetDump, DoneBefore
     DEF CloseObject
<1>5. CASE Close(b)
  BY <1>5, CloseRefused, ClosedAlready, CloseDumpsFirst, FinishNativeClose, Drained DEF Close
<1>6. CASE ManagedClose(b)
  BY <1>6, Preflight, CloseFromClient, WaitIdle DEF ManagedClose
<1>7. CASE DestroyReturns(b)
  BY <1>7, DestroyFails, ReplayDestroyed DEF DestroyReturns
<1>8. QED
  BY <1>1, <1>2, <1>3, <1>4, <1>5, <1>6, <1>7, EnterNative, EnterRefused, EnterOutput,
     NativeReturns, ClosedRefuses, RecordingStarts, DumpStarts DEF Operate

LEMMA NextHolds == IInv /\ [Next]_vars => IInv'
<1> SUFFICES ASSUME IInv, [Next]_vars PROVE IInv'
  OBVIOUS
<1>1. CASE UNCHANGED vars
  <2>1. QueueTypes' /\ UNCHANGED <<handling, outputClosed>>
    BY <1>1, QueuesStay DEF vars
  <2>2. QED
    BY <1>1, <2>1, QueueStep DEF vars
<1>2. CASE Next
  BY <1>2, Calls, OperationHolds, HandlerReturns, TaskSteps, EventSteps DEF Next
<1>3. QED
  BY <1>1, <1>2

LEMMA InvariantHolds == Spec => []IInv
BY InitHolds, NextHolds, PTL DEF Spec

\* Types hold, and whoever is past a gate holds it (replay.go:99-122,
\* output.go:99-174).
THEOREM ReplayTypes == Spec => []TypeOK
<1>1. IInv => TypeOK
  BY DEF IInv, Types, QueueTypes, ObjectTypes, CallTypes, Local, Gated, TypeOK
<1>2. QED
  BY <1>1, InvariantHolds, PTL

LEMMA QuietAtDestroy ==
  ASSUME IInv, NEW a \in Actors, Doing(a, {"destroy"}, "start")
  PROVE  Quiet
<1>1. Range(todo[a]) = {Do("destroy")} /\ Closing(a) /\ ~Destroyed(a)
  BY DestroyIsLast DEF IInv, Local, Destroyed, Doing
<1>2. \A d : On("closeDump", d) # Do("destroy")
  BY DEF On, Do
<1>3. QED
  BY <1>1, <1>2 DEF Closing, Quiet

\* The native replay is destroyed when nothing is attached to it and no recording
\* or raw dump of it is alive, whatever attached, started or refused to stop on
\* the way to it (replay.go:231-276).
THEOREM ChildrenLeaveFirst == Spec => []ChildrenFirst
<1>1. IInv => ChildrenFirst
  <2> SUFFICES ASSUME IInv,
                      closed \/ (\E a \in Actors : Doing(a, {"destroy"}, "start"))
               PROVE  Quiet
    BY DEF ChildrenFirst, Quiet, Live, IInv, Types, ObjectTypes
  <2>1. QED
    BY QuietAtDestroy DEF IInv, AfterClose
<1>2. QED
  BY <1>1, InvariantHolds, PTL

\* When a Close has returned success no handler of the replay runs, nor will one,
\* also if another Close did the work (operation_gate.go:12-17).
THEOREM CloseIsBarrier == Spec => []CloseBarrier
<1>1. IInv => CloseBarrier
  BY DEF IInv, AfterClose, CloseBarrier
<1>2. QED
  BY <1>1, InvariantHolds, PTL

-----------------------------------------------------------------------------
(* The rules of ownership *)

\* All that the mapping reads.
view == <<recording, dump, closed, outputClosed, bound>>

liveObjects == Tagged("child", alive) \cup Tagged("output", Outputs \ outputClosed)
                 \cup (IF closed THEN {} ELSE root)
goneObjects == Tagged("child", ended) \cup Tagged("output", outputClosed)
                 \cup (IF closed THEN root ELSE {})

LEMMA Tags ==
  /\ \A kind, x, other, y : On(kind, x) = On(other, y) <=> kind = other /\ x = y
  /\ \A kind, S, other, y : On(other, y) \in Tagged(kind, S) <=> other = kind /\ y \in S
  /\ \A kind, S, T : Tagged(kind, S \cup T) = Tagged(kind, S) \cup Tagged(kind, T)
  /\ \A kind, S, T : Tagged(kind, S \ T) = Tagged(kind, S) \ Tagged(kind, T)
  /\ \A kind, x : Tagged(kind, {x}) = {On(kind, x)}
  /\ root = {On("replay", "replay")}
BY DEF On, Tagged, root, Do

LEMMA Unseen ==
  ASSUME UNCHANGED <<alive, ended, closed, outputClosed, bound>>
  PROVE  UNCHANGED Own!vars
BY DEF Own!vars, Tagged

LEMMA Creates ==
  ASSUME NEW x \in Recordings \cup Dumps, x \notin alive \cup ended, ~closed,
         alive' = alive \cup {x}, UNCHANGED <<ended, closed, outputClosed, bound>>
  PROVE  Own!Next
<1> DEFINE child == On("child", x)
<1>1. child \notin liveObjects \cup goneObjects
  BY Tags DEF liveObjects, goneObjects
<1>2. /\ Tagged("child", alive)' = Tagged("child", alive) \cup {child}
      /\ UNCHANGED <<Tagged("child", ended), Tagged("output", outputClosed),
                     Tagged("output", Outputs \ outputClosed), Tagged("output", bound)>>
  BY Tags DEF Tagged
<1>3. liveObjects' = liveObjects \cup {child} /\ goneObjects' = goneObjects
  BY <1>2 DEF liveObjects, goneObjects
<1>4. Tagged("child", alive)' \X root = (Tagged("child", alive) \X root) \cup ({child} \X root)
  BY <1>2
<1>5. root \in SUBSET liveObjects
  BY DEF liveObjects
<1>6. Own!Create(child)
  BY <1>1, <1>2, <1>3, <1>4, <1>5 DEF Own!Create, liveObjects, goneObjects
<1>7. child \in Tagged("child", Recordings \cup Dumps)
  BY DEF Tagged
<1>8. QED
  BY <1>6, <1>7 DEF Own!Next

LEMMA Attaches ==
  ASSUME NEW o \in Outputs \ outputClosed, o \notin bound, ~closed,
         bound' = bound \cup {o}, UNCHANGED <<alive, ended, closed, outputClosed>>
  PROVE  Own!Next
<1> DEFINE output == On("output", o)  replay == Do("replay")
<1>1. {output, replay} \subseteq liveObjects
  BY DEF liveObjects, Tagged, root
<1>2. \A use \in Tagged("output", bound) \X root : use[1] # output
  BY Tags
<1>3. Tagged("output", bound)' \X root = (Tagged("output", bound) \X root) \cup {<<output, replay>>}
  <2>1. Tagged("output", bound)' = Tagged("output", bound) \cup {output}
    BY Tags DEF Tagged
  <2>2. QED
    BY <2>1 DEF root
<1>4. UNCHANGED <<liveObjects, goneObjects, Tagged("child", alive) \X root>>
  BY DEF liveObjects, goneObjects, Tagged
<1>5. Own!Attach(output, replay)
  BY <1>1, <1>2, <1>3, <1>4 DEF Own!Attach, liveObjects, goneObjects
<1>6. output \in Tagged("output", Outputs)
  BY Tags
<1>7. QED
  BY <1>1, <1>5, <1>6 DEF Own!Next, liveObjects

LEMMA Detaches ==
  ASSUME NEW o \in bound, bound' = bound \ {o},
         UNCHANGED <<alive, ended, closed, outputClosed>>
  PROVE  Own!Next
<1> DEFINE use == <<On("output", o), Do("replay")>>
<1>1. use \in Tagged("output", bound) \X root
  BY DEF Tagged, root
<1>2. Tagged("output", bound)' \X root = (Tagged("output", bound) \X root) \ {use}
  <2>1. Tagged("output", bound)' = Tagged("output", bound) \ {On("output", o)}
    BY Tags DEF Tagged
  <2>2. QED
    BY <2>1 DEF root
<1>3. UNCHANGED <<liveObjects, goneObjects, Tagged("child", alive) \X root>>
  BY DEF liveObjects, goneObjects, Tagged
<1>4. Own!Detach(use)
  BY <1>2, <1>3 DEF Own!Detach, liveObjects, goneObjects
<1>5. QED
  BY <1>1, <1>4 DEF Own!Next

LEMMA ChildGoes ==
  ASSUME NEW x \in Recordings \cup Dumps, x \in alive, alive' = alive \ {x},
         ended' = ended \cup {x}, UNCHANGED <<closed, outputClosed, bound>>
  PROVE  Own!Next
<1> DEFINE child == On("child", x)
<1>1. child \in liveObjects
  BY DEF liveObjects, Tagged
<1>2. \A use \in (Tagged("child", alive) \X root) \cup (Tagged("output", bound) \X root) :
        use[2] # child
  BY Tags
<1>3. \A use \in Tagged("output", bound) \X root : use[1] # child
  BY Tags
<1>4. /\ Tagged("child", alive)' = Tagged("child", alive) \ {child}
      /\ Tagged("child", ended)' = Tagged("child", ended) \cup {child}
      /\ UNCHANGED <<Tagged("output", outputClosed),
                     Tagged("output", Outputs \ outputClosed), Tagged("output", bound)>>
  BY Tags DEF Tagged
<1>5. liveObjects' = liveObjects \ {child} /\ goneObjects' = goneObjects \cup {child}
  BY <1>4, Tags DEF liveObjects, goneObjects
<1>6. Tagged("child", alive)' \X root = {use \in Tagged("child", alive) \X root : use[1] # child}
  BY <1>4
<1>7. Own!Destroy(child)
  BY <1>1, <1>2, <1>3, <1>4, <1>5, <1>6 DEF Own!Destroy, liveObjects, goneObjects
<1>8. child \in Tagged("child", Recordings \cup Dumps)
  BY DEF Tagged
<1>9. QED
  BY <1>7, <1>8 DEF Own!Next

LEMMA OutputGoes ==
  ASSUME NEW o \in Outputs, o \notin bound \cup outputClosed,
         outputClosed' = outputClosed \cup {o}, UNCHANGED <<alive, ended, closed, bound>>
  PROVE  Own!Next
<1> DEFINE output == On("output", o)
<1>1. output \in liveObjects
  BY DEF liveObjects, Tagged
<1>2. \A use \in (Tagged("child", alive) \X root) \cup (Tagged("output", bound) \X root) :
        use[2] # output
  BY Tags
<1>3. /\ \A use \in Tagged("output", bound) \X root : use[1] # output
      /\ {use \in Tagged("child", alive) \X root : use[1] # output} = Tagged("child", alive) \X root
  BY Tags
<1>4. /\ Tagged("output", Outputs \ outputClosed)' = Tagged("output", Outputs \ outputClosed) \ {output}
      /\ Tagged("output", outputClosed)' = Tagged("output", outputClosed) \cup {output}
      /\ UNCHANGED <<Tagged("child", alive), Tagged("child", ended), Tagged("output", bound)>>
  BY Tags DEF Tagged
<1>5. liveObjects' = liveObjects \ {output} /\ goneObjects' = goneObjects \cup {output}
  BY <1>4, Tags DEF liveObjects, goneObjects
<1>6. Own!Destroy(output)
  BY <1>1, <1>2, <1>3, <1>4, <1>5 DEF Own!Destroy, liveObjects, goneObjects
<1>7. output \in Tagged("output", Outputs)
  BY DEF Tagged
<1>8. QED
  BY <1>6, <1>7 DEF Own!Next

LEMMA ReplayGoes ==
  ASSUME ~closed, closed', alive = {}, bound = {},
         UNCHANGED <<alive, ended, outputClosed, bound>>
  PROVE  Own!Next
<1> DEFINE replay == Do("replay")
<1>1. replay \in liveObjects
  BY DEF liveObjects, root
<1>2. Tagged("child", alive) \X root = {} /\ Tagged("output", bound) \X root = {}
  BY DEF Tagged
<1>3. UNCHANGED <<Tagged("child", alive), Tagged("child", ended), Tagged("output", bound),
                  Tagged("output", outputClosed), Tagged("output", Outputs \ outputClosed)>>
  BY DEF Tagged
<1>4. liveObjects' = liveObjects \ {replay} /\ goneObjects' = goneObjects \cup {replay}
  BY <1>3, Tags DEF liveObjects, goneObjects, Do, On
<1>5. Own!Destroy(replay)
  BY <1>1, <1>2, <1>3, <1>4 DEF Own!Destroy, liveObjects, goneObjects
<1>6. QED
  BY <1>5 DEF Own!Next, root

\* Steps that the mapping does not see.
LEMMA Stutters ==
  ASSUME UNCHANGED view
  PROVE  UNCHANGED Own!vars
BY Unseen DEF view, alive, ended

LEMMA ChildrenStart ==
  ASSUME IInv, NEW b \in Actors, StartRecording(b) \/ StartRawDump(b)
  PROVE  Own!Next
<1> USE ReplayAssumption
<1>1. ObjectTypes
  BY DEF IInv, Types
<1>2. CASE StartRecording(b)
  <2>1. PICK r \in Recordings : /\ recording[r] = "none"
                                /\ recording' = [recording EXCEPT ![r] = "live"]
    BY <1>2 DEF StartRecording
  <2>2. /\ r \notin alive \cup ended /\ alive' = alive \cup {r}
        /\ UNCHANGED <<ended, closed, outputClosed, bound>>
    BY <1>1, <1>2, <2>1
       DEF StartRecording, alive, ended, ObjectTypes, replayVars, bindings, queueVars,
           outputVars
  <2>3. QED
    BY <1>2, <2>2, Creates DEF StartRecording
<1>3. CASE StartRawDump(b)
  <2>1. PICK d \in Dumps : /\ dump[d] = "none"
                           /\ dump' = [dump EXCEPT ![d] = "live"]
    BY <1>3 DEF StartRawDump
  <2>2. /\ d \notin alive \cup ended /\ alive' = alive \cup {d}
        /\ UNCHANGED <<ended, closed, outputClosed, bound>>
    BY <1>1, <1>3, <2>1
       DEF StartRawDump, alive, ended, ObjectTypes, replayVars, bindings, queueVars,
           outputVars
  <2>3. QED
    BY <1>3, <2>2, Creates DEF StartRawDump
<1>4. QED
  BY <1>2, <1>3

\* An object that is being closed is still there, and is kept or goes.
LEMMA ChildrenClose ==
  ASSUME IInv, NEW b \in Actors, CloseObject(b)
  PROVE  Own!Next \/ UNCHANGED Own!vars
<1> USE ReplayAssumption
<1>1. ObjectTypes /\ ObjectClosing(b)
  BY DEF IInv, Types, Local
<1>2. /\ todo[b] # <<>> /\ Head(todo[b])[1] = "stop" => Object(b) \in Recordings
      /\ todo[b] # <<>> /\ Head(todo[b])[1] = "closeDump" => Object(b) \in Dumps
  BY HeadNames DEF IInv
<1>3. CASE beginStop(b)
  <2>1. UNCHANGED <<alive, ended, closed, outputClosed, bound>>
    BY <1>1, <1>2, <1>3
       DEF beginStop, Doing, alive, ended, ObjectTypes, replayVars, bindings, queueVars,
           outputVars
  <2>2. QED
    BY <2>1, Unseen
<1>4. CASE beginCloseDump(b)
  <2>1. UNCHANGED <<alive, ended, closed, outputClosed, bound>>
    BY <1>1, <1>2, <1>4
       DEF beginCloseDump, Doing, alive, ended, ObjectTypes, replayVars, bindings,
           queueVars, outputVars
  <2>2. QED
    BY <2>1, Unseen
<1>5. CASE kept(b)
  <2>1. \/ Doing(b, {"stop"}, "native") /\ Object(b) \in Recordings
                                        /\ recording[Object(b)] = "closing"
        \/ Doing(b, {"closeDump"}, "native") /\ Object(b) \in Dumps
                                             /\ dump[Object(b)] = "closing"
    BY <1>1, <1>2, <1>5 DEF kept, Doing, ObjectClosing
  <2>2. UNCHANGED <<alive, ended, closed, outputClosed, bound>>
    BY <1>1, <1>5, <2>1
       DEF kept, alive, ended, ObjectTypes, replayVars, bindings, queueVars, outputVars
  <2>3. QED
    BY <2>2, Unseen
<1>6. CASE stopped(b)
  <2>1. Object(b) \in Recordings /\ recording[Object(b)] = "closing"
    BY <1>1, <1>2, <1>6 DEF stopped, Doing, ObjectClosing
  <2>2. /\ Object(b) \in alive /\ alive' = alive \ {Object(b)}
        /\ ended' = ended \cup {Object(b)} /\ UNCHANGED <<closed, outputClosed, bound>>
    BY <1>1, <1>6, <2>1
       DEF stopped, alive, ended, ObjectTypes, replayVars, bindings, queueVars, outputVars
  <2>3. QED
    BY <2>1, <2>2, ChildGoes
<1>7. CASE dumpClosed(b)
  <2>1. Object(b) \in Dumps /\ dump[Object(b)] = "closing"
    BY <1>1, <1>2, <1>7 DEF dumpClosed, Doing, ObjectClosing
  <2>2. /\ Object(b) \in alive /\ alive' = alive \ {Object(b)}
        /\ ended' = ended \cup {Object(b)} /\ UNCHANGED <<closed, outputClosed, bound>>
    BY <1>1, <1>7, <2>1
       DEF dumpClosed, alive, ended, ObjectTypes, replayVars, bindings, queueVars,
           outputVars
  <2>3. QED
    BY <2>1, <2>2, ChildGoes
<1>8. CASE forgetDump(b) \/ doneBefore(b)
  BY <1>8, Stutters
     DEF view, forgetDump, doneBefore, objects, replayVars, bindings, queueVars, outputVars
<1>9. QED
  BY <1>3, <1>4, <1>5, <1>6, <1>7, <1>8 DEF CloseObject

LEMMA OutputsMove ==
  ASSUME IInv, NEW b \in Actors, Attaching(b) \/ Detach(b) \/ CloseOutput(b)
  PROVE  Own!Next \/ UNCHANGED Own!vars
<1> USE DEF replayVars, bindings, objects, queueVars, outputVars
<1>1. ObjectTypes
  BY DEF IInv, Types
<1>2. todo[b] # <<>> /\ Head(todo[b])[1] \in Detaching \cup {"attach", "destroyOutput"} =>
        Object(b) \in Outputs
  BY HeadNames DEF IInv
<1>3. CASE attach(b)
  BY <1>2, <1>3, Attaches DEF attach, Doing, alive, ended
<1>4. CASE detach(b)
  BY <1>4, Detaches DEF detach, alive, ended
<1>5. CASE destroyOutput(b)
  BY <1>2, <1>5, OutputGoes DEF destroyOutput, Doing, alive, ended
<1>6. CASE \/ attachFails(b) \/ link(b) \/ lookBound(b) \/ notBound(b) \/ detachFails(b)
           \/ unlink(b) \/ postIdle(b)
  BY <1>6, Stutters
     DEF view, attachFails, link, lookBound, notBound, detachFails, unlink, postIdle
<1>7. CASE closeOutput(b) \/ destroyOutputFails(b) \/ shutOutput(b) \/ outputDrained(b)
  BY <1>7, Stutters DEF view, closeOutput, destroyOutputFails, shutOutput, outputDrained
<1>8. QED
  BY <1>3, <1>4, <1>5, <1>6, <1>7 DEF Attaching, Detach, CloseOutput

\* The replay goes when its gate is held and nothing depends on it.
LEMMA ReplayEnds ==
  ASSUME IInv, NEW b \in Actors, DestroyReturns(b)
  PROVE  Own!Next \/ UNCHANGED Own!vars
<1> USE DEF replayVars, bindings, objects, queueVars, outputVars
<1>1. CASE destroyFails(b)
  BY <1>1, Stutters DEF view, destroyFails
<1>2. CASE destroyed(b)
  <2>1. UNCHANGED <<alive, ended, outputClosed, bound>> /\ closed'
    BY <1>2 DEF destroyed, alive, ended
  <2>2. Doing(b, {"destroy"}, "start")
    BY <1>2 DEF destroyed
  <2>3. Quiet
    BY <2>2, QuietAtDestroy
  <2>4. alive = {} /\ bound = {}
    BY <2>3 DEF IInv, Types, ObjectTypes, Quiet, Live, alive
  <2>5. closed \in BOOLEAN
    BY DEF IInv, Types, ObjectTypes
  <2>6. QED
    BY <2>1, <2>4, <2>5, ReplayGoes, Unseen
<1>3. QED
  BY <1>1, <1>2 DEF DestroyReturns

LEMMA OwnershipStep == IInv /\ [Next]_vars => [Own!Next]_Own!vars
<1> SUFFICES ASSUME IInv, [Next]_vars PROVE Own!Next \/ UNCHANGED Own!vars
  OBVIOUS
<1> USE Stutters DEF view, replayVars, bindings, objects, queueVars, outputVars
<1>1. CASE UNCHANGED vars
  BY <1>1 DEF vars
<1>2. ASSUME NEW a \in Actors, call(a) \/ handlerReturns(a)
      PROVE  UNCHANGED Own!vars
  BY <1>2 DEF call, handlerReturns
<1>3. ASSUME dispatch \/ Dispatcher \/ runTask PROVE UNCHANGED Own!vars
  BY <1>3 DEF dispatch, Dispatcher, postReliable, runRefused, runTask
<1>4. ASSUME NEW o \in Outputs, deliver(o) \/ runEvent(o) PROVE UNCHANGED Own!vars
  BY <1>4 DEF deliver, runEvent
<1>5. ASSUME NEW a \in Actors, Operate(a)
      PROVE  Own!Next \/ UNCHANGED Own!vars
  <2>1. CASE \/ enterNative(a) \/ enterRefused(a) \/ enterOutput(a) \/ nativeReturns(a)
             \/ closedRefuses(a)
    BY <2>1 DEF enterNative, enterRefused, enterOutput, nativeReturns, closedRefuses
  <2>2. CASE Close(a)
    BY <2>2 DEF Close, closeRefused, closedAlready, closeDumps, finishNativeClose, drained
  <2>3. CASE ManagedClose(a)
    BY <2>3 DEF ManagedClose, preflightClientClose, closeFromClient, waitIdle
  <2>4. QED
    BY <1>5, <2>1, <2>2, <2>3, ChildrenStart, ChildrenClose, OutputsMove, ReplayEnds
       DEF Operate
<1>6. QED
  BY <1>1, <1>2, <1>3, <1>4, <1>5 DEF Next

LEMMA OwnershipInit == Init => Own!Init
BY ReplayAssumption DEF Init, Own!Init, alive, ended, Tagged, On, root, Do

\* Attachments, recordings and raw dumps of a replay follow the rules of ownership:
\* every step of the replay, its outputs and its children is a step that Ownership
\* allows, or one it does not see (replay.go:231-276, output.go:190-230).
THEOREM ReplayOwns == Spec => ImplementsOwnership
<1>1. Init => Own!Init
  BY OwnershipInit
<1>2. IInv /\ [Next]_vars => [Own!Next]_Own!vars
  BY OwnershipStep
<1>3. QED
  BY <1>1, <1>2, InvariantHolds, PTL DEF Spec, ImplementsOwnership, Own!Spec

=============================================================================
