------------------------ MODULE StorageOutputProofs ------------------------
(***************************************************************************)
(* Proofs about StorageOutput, for any number of replays and goroutines:   *)
(* output, replays and native agree on where the output is attached, which *)
(* follows the rules of Ownership; the last state reaches the application, *)
(* and a missing frame is marked.                                          *)
(***************************************************************************)
EXTENDS StorageOutput, SequenceTheorems, TLAPS

Places == Gated \cup Locked \cup
          {"out", "preflight", "look", "start", "looked", "left", "notifying",
           "waitIdle", "closing", "drain", "draining"}

\* What every actor is doing, and that it knows a replay where it needs one.
CallsMakeSense ==
  /\ job \in [Actors -> Operations \cup {"none"}] /\ at \in [Actors -> Places]
  /\ target \in [Actors -> Replays \cup {Unbound}]
  /\ \A a \in Actors :
       /\ job[a] = "none" => at[a] = "out"
       /\ at[a] \in {"preflight", "look"} => job[a] # "Attach"
       /\ at[a] \in Gated \cup {"looked"} => target[a] \in Replays
       /\ job[a] = "Attach" /\ at[a] = "start" => target[a] \in Replays

\* Who is between two steps under a gate holds it, and nobody else does.
GatesAreHeld ==
  /\ gate \in [Replays -> Actors \cup {Free}] /\ op \in Actors \cup {Free}
  /\ \A a \in Actors :
       /\ at[a] \in Locked <=> op = a
       /\ \A r \in Replays : gate[r] = a <=> at[a] \in Gated /\ target[a] = r

Nowhere == bound = Unbound /\ attached = Unbound /\ deps = {}

Agree == /\ bound = attached
         /\ deps = {bound} \ {Unbound}
         /\ bound \notin released

\* What an actor that holds o.op has done so far, and what it has not.
Progress(a) ==
  /\ at[a] \in {"snapshot", "destroying"} => Agree
  /\ at[a] \in {"destroying", "destroyed"} => Nowhere
  /\ at[a] \in {"attaching", "attached"} => bound = Unbound /\ deps = {}
  /\ at[a] = "attaching" => attached = Unbound
  /\ at[a] = "attached" => attached = target[a]
  /\ at[a] \in {"detaching", "detached"} => bound = target[a] /\ deps = {target[a]}
  /\ at[a] = "detaching" => attached = target[a]
  /\ at[a] = "detached" => attached = Unbound
  /\ at[a] \in {"attaching", "attached", "detaching"} => target[a] \notin released
  /\ at[a] \in Locked \ {"destroyed"} => native # "closed"

\* Without a holder the three agree; a destroyed output is attached nowhere, and
\* is known to be closed as soon as its destroyer lets go of it.
Bindings ==
  /\ released \subseteq Replays /\ bound \in Replays \cup {Unbound}
  /\ op = Free => Agree /\ (native = "closed" => closed)
  /\ native = "closed" => Nowhere
  /\ \A a \in Actors : Progress(a)

IInv == CallsMakeSense /\ GatesAreHeld /\ Bindings

-----------------------------------------------------------------------------
(* Steps of operations *)

LEMMA NobodyIsFree == Free \notin Actors
BY StorageOutputAssumption DEF Actors, Worker, Free

\* Only one actor goes on.
Alone(a) == \A b \in Actors \ {a} : at'[b] = at[b] /\ target'[b] = target[b]

\* A step of an actor that neither holds a gate nor takes one.
LEMMA GatesUntouched ==
  ASSUME IInv, NEW a \in Actors, Alone(a),
         at[a] \notin Gated \cup Locked, at'[a] \notin Gated \cup Locked,
         UNCHANGED gates
  PROVE  GatesAreHeld'
BY DEF IInv, GatesAreHeld, gates, Alone

\* What an actor does that does not hold o.op does not touch the bindings.
LEMMA BindingsUntouched ==
  ASSUME IInv, NEW a \in Actors, Alone(a),
         at[a] \notin Locked, at'[a] \notin Locked,
         UNCHANGED <<op, bindings, closed, native>>
  PROVE  Bindings'
<1>1. \A b \in Actors : Progress(b)'
  BY DEF IInv, Bindings, Progress, bindings, Alone, Agree, Nowhere, Gated, Locked
<1>2. QED
  BY <1>1 DEF IInv, Bindings, bindings, Agree, Nowhere

\* Actors that do not hold o.op may be anywhere: what they do is not judged.
LEMMA StepUnderGate ==
  ASSUME IInv, NEW a \in Actors, Alone(a), op = a \/ op = Free,
         released' \subseteq Replays, bound' \in Replays \cup {Unbound},
         op' \in {a, Free}, op' = Free => Agree' /\ (native' = "closed" => closed'),
         native' = "closed" => Nowhere',
         Progress(a)', at'[a] \in Locked <=> op' = a
  PROVE  Bindings'
<1>1. \A b \in Actors \ {a} : at[b] \notin Locked
  BY NobodyIsFree DEF IInv, GatesAreHeld
<1>2. \A b \in Actors \ {a} : Progress(b)'
  BY <1>1 DEF Alone, Progress, Locked, Gated
<1>3. QED
  BY <1>2 DEF Bindings

\* Where an operation may go on, and that it may always return.
LEMMA GoToAlone ==
  ASSUME CallsMakeSense, NEW a \in Actors, NEW place \in Places,
         GoTo(a, place), at[a] # "out",
         place \in {"preflight", "look"} => job[a] # "Attach",
         place \in Gated \cup {"looked"} => target[a] \in Replays,
         place = "start" => job[a] # "Attach"
  PROVE  CallsMakeSense' /\ Alone(a) /\ at'[a] = place /\ UNCHANGED target
BY DEF GoTo, CallsMakeSense, Alone

LEMMA ReturnAlone ==
  ASSUME CallsMakeSense, NEW a \in Actors, Return(a)
  PROVE  CallsMakeSense' /\ Alone(a) /\ at'[a] = "out"
<1>1. /\ Alone(a) /\ at'[a] = "out" /\ job'[a] = "none"
      /\ \A b \in Actors \ {a} : job'[b] = job[b]
  BY DEF Return, CallsMakeSense, Alone
<1>2. "out" \in Places
  BY DEF Places
<1>3. /\ job' \in [Actors -> Operations \cup {"none"}] /\ at' \in [Actors -> Places]
      /\ target' \in [Actors -> Replays \cup {Unbound}]
  BY <1>2 DEF Return, CallsMakeSense
<1>4. QED
  BY <1>1, <1>3 DEF CallsMakeSense, Alone, Gated

LEMMA LeaveGates ==
  ASSUME IInv, NEW a \in Actors, Leave(a), Alone(a), at'[a] \notin Gated \cup Locked
  PROVE  /\ GatesAreHeld'
         /\ op = a => op' = Free
         /\ op # a => op' = op
BY NobodyIsFree DEF IInv, CallsMakeSense, GatesAreHeld, Leave, Alone

Outside == Places \ (Gated \cup Locked)

LEMMA GoToOutside ==
  ASSUME IInv, NEW a \in Actors, NEW place \in Outside,
         at[a] \in Outside \ {"out"}, GoTo(a, place),
         place = "look" => job[a] # "Attach",
         place = "start" => job[a] # "Attach", place \notin {"preflight", "looked"},
         UNCHANGED <<gates, bindings, closed, native>>
  PROVE  IInv'
<1>1. CallsMakeSense' /\ Alone(a) /\ at'[a] = place
  BY GoToAlone DEF IInv, Outside
<1>2. GatesAreHeld' /\ Bindings'
  BY <1>1, GatesUntouched, BindingsUntouched DEF Outside, gates
<1>3. QED
  BY <1>1, <1>2 DEF IInv

LEMMA ReturnOutside ==
  ASSUME IInv, NEW a \in Actors, at[a] \in Outside, Return(a),
         UNCHANGED <<gates, bindings, closed, native>>
  PROVE  IInv'
<1>1. CallsMakeSense' /\ Alone(a) /\ at'[a] = "out"
  BY ReturnAlone DEF IInv
<1>2. GatesAreHeld' /\ Bindings'
  BY <1>1, GatesUntouched, BindingsUntouched DEF Outside, gates, Gated, Locked
<1>3. QED
  BY <1>1, <1>2 DEF IInv

\* An operation that has the replay's gate and finds nothing to do.
LEMMA RefusedUnderGate ==
  ASSUME IInv, NEW a \in Actors, at[a] = "gated", Leave(a),
         Return(a) \/ GoTo(a, "waitIdle"),
         UNCHANGED <<bindings, closed, native>>
  PROVE  IInv'
<1>1. CallsMakeSense' /\ Alone(a) /\ at'[a] \in {"out", "waitIdle"}
  BY ReturnAlone, GoToAlone DEF IInv, Gated, Places
<1>2. GatesAreHeld' /\ UNCHANGED op
  BY <1>1, LeaveGates DEF IInv, GatesAreHeld, Gated, Locked
<1>3. Bindings'
  BY <1>1, <1>2, BindingsUntouched DEF Gated, Locked
<1>4. QED
  BY <1>1, <1>2, <1>3 DEF IInv

\* A step under o.op, or one that takes or leaves it, with the gate as before.
LEMMA GateKept ==
  ASSUME IInv, NEW a \in Actors, Alone(a), UNCHANGED gate,
         target'[a] = target[a], at[a] \in Gated <=> at'[a] \in Gated,
         op \in {a, Free}, op' \in {a, Free}, op' = a <=> at'[a] \in Locked
  PROVE  GatesAreHeld'
BY NobodyIsFree DEF IInv, GatesAreHeld, Alone

-----------------------------------------------------------------------------
(* Operations *)

LEMMA CallStep ==
  ASSUME IInv, NEW a \in Actors, NEW name \in Operations, call(a, name)
  PROVE  IInv'
<1>1. at[a] = "out"
  BY DEF call, IInv, CallsMakeSense
<1>2. Start(name) \in {"preflight", "start"} /\ Start(name) \in Places
  BY DEF Start, Places
<1>3. /\ job' = [job EXCEPT ![a] = name]
      /\ at' = [at EXCEPT ![a] = Start(name)]
      /\ \E r \in IF name = "Attach" THEN Replays ELSE {Unbound} :
           target' = [target EXCEPT ![a] = r]
      /\ UNCHANGED <<gates, bindings, closed, native>>
  BY DEF call, objectVars
<1>4. /\ job' \in [Actors -> Operations \cup {"none"}] /\ at' \in [Actors -> Places]
      /\ target' \in [Actors -> Replays \cup {Unbound}]
  BY <1>2, <1>3 DEF IInv, CallsMakeSense
<1>5. /\ job'[a] = name /\ at'[a] = Start(name) /\ Alone(a)
      /\ name = "Attach" => target'[a] \in Replays
      /\ \A b \in Actors \ {a} : job'[b] = job[b]
  BY <1>3 DEF IInv, CallsMakeSense, Alone
<1>6. name = "Attach" => at'[a] = "start"
  BY <1>5 DEF Start
<1>7. CallsMakeSense'
  BY <1>2, <1>4, <1>5, <1>6 DEF IInv, CallsMakeSense, Alone, Operations, Gated
<1>8. GatesAreHeld' /\ Bindings'
  BY <1>1, <1>2, <1>3, <1>5, GatesUntouched, BindingsUntouched DEF Gated, Locked, gates
<1>9. QED
  BY <1>7, <1>8 DEF IInv

LEMMA LookStep ==
  ASSUME IInv, NEW a \in Actors, preflight(a) \/ lookClose(a)
  PROVE  IInv'
<1>1. UNCHANGED <<gates, bindings, closed, native>>
  BY DEF preflight, lookClose, objectVars
<1>2. {"out", "start", "look", "closing", "preflight"} \subseteq Outside
  BY DEF Outside, Places, Gated, Locked
<1>3. /\ at[a] \in {"preflight", "look"} /\ job[a] # "Attach"
      /\ \/ Return(a)
         \/ \E place \in {"start", "look", "closing"} : GoTo(a, place)
  BY DEF preflight, lookClose, IInv, CallsMakeSense
<1>4. QED
  BY <1>1, <1>2, <1>3, ReturnOutside, GoToOutside

LEMMA LookBoundStep ==
  ASSUME IInv, NEW a \in Actors, lookBound(a)
  PROVE  IInv'
<1>1. UNCHANGED <<gates, bindings, closed, native>>
  BY DEF lookBound, objectVars
<1>2. {"out", "start", "waitIdle", "looked"} \subseteq Outside
  BY DEF Outside, Places, Gated, Locked
<1>3. at[a] = "start" /\ job[a] # "Attach"
  BY DEF lookBound, At, Detaching
<1>4. CASE DetachRefused(a)
  BY <1>1, <1>2, <1>3, <1>4, ReturnOutside, GoToOutside DEF DetachRefused
<1>5. ASSUME bound # Unbound, at' = [at EXCEPT ![a] = "looked"],
             target' = [target EXCEPT ![a] = bound], UNCHANGED job
      PROVE  IInv'
  <2>1. bound \in Replays
    BY <1>5 DEF IInv, Bindings
  <2>2. at' \in [Actors -> Places] /\ target' \in [Actors -> Replays \cup {Unbound}]
    BY <1>2, <1>5, <2>1 DEF IInv, CallsMakeSense, Outside
  <2>3. Alone(a) /\ at'[a] = "looked" /\ target'[a] \in Replays
    BY <1>5, <2>1 DEF IInv, CallsMakeSense, Alone
  <2>4. CallsMakeSense'
    BY <1>3, <1>5, <2>2, <2>3 DEF IInv, CallsMakeSense, Alone
  <2>5. GatesAreHeld' /\ Bindings'
    BY <1>1, <1>2, <1>3, <2>3, GatesUntouched, BindingsUntouched DEF Outside, gates
  <2>6. QED
    BY <2>4, <2>5 DEF IInv
<1>6. QED
  BY <1>4, <1>5 DEF lookBound

LEMMA EnterNativeStep ==
  ASSUME IInv, NEW a \in Actors, enterNative(a)
  PROVE  IInv'
<1>1. target[a] \in Replays /\ at[a] \in {"start", "looked"} /\ gate[target[a]] = Free
  BY DEF enterNative, At, IInv, CallsMakeSense
<1>2. /\ gate' = [gate EXCEPT ![target[a]] = a] /\ GoTo(a, "gated")
      /\ UNCHANGED <<op, bindings, closed, native>>
  BY DEF enterNative, objectVars
<1>3. "gated" \in Places \cap Gated /\ "gated" \notin Locked
  BY DEF Places, Gated, Locked
<1>4. CallsMakeSense' /\ Alone(a) /\ at'[a] = "gated" /\ UNCHANGED target
  BY <1>1, <1>2, <1>3, GoToAlone DEF IInv
<1>5. at[a] \notin Gated \cup Locked
  BY <1>1 DEF Gated, Locked
<1>6. GatesAreHeld'
  BY <1>1, <1>2, <1>3, <1>4, <1>5, NobodyIsFree DEF IInv, GatesAreHeld, Alone
<1>7. Bindings'
  BY <1>2, <1>3, <1>4, <1>5, BindingsUntouched
<1>8. QED
  BY <1>4, <1>6, <1>7 DEF IInv

LEMMA BeginStep ==
  ASSUME IInv, NEW a \in Actors, beginAttach(a) \/ beginDetach(a)
  PROVE  IInv'
<1>1. /\ at[a] = "gated" /\ op = Free
      /\ UNCHANGED <<bindings, closed, native>>
      /\ target[a] \in Replays
  BY DEF beginAttach, beginDetach, At, objectVars, IInv, CallsMakeSense, Gated
<1>2. CASE Leave(a) /\ (Return(a) \/ DetachRefused(a))
  BY <1>1, <1>2, RefusedUnderGate DEF DetachRefused
<1>3. ASSUME NEW place \in {"attaching", "detaching"}, GoTo(a, place),
             place = "attaching" => mayAttach(a), place = "detaching" => mayDetach(a),
             op' = a, UNCHANGED gate
      PROVE  IInv'
  <2>1. place \in Places \cap Gated \cap Locked /\ at[a] \in Gated \ Locked
    BY <1>1 DEF Places, Gated, Locked
  <2>2. CallsMakeSense' /\ Alone(a) /\ at'[a] = place /\ UNCHANGED target
    BY <1>1, <1>3, <2>1, GoToAlone DEF IInv
  <2>3. GatesAreHeld'
    BY <1>1, <1>3, <2>1, <2>2, GateKept
  <2>4. Agree /\ (native = "closed" => closed)
    BY <1>1 DEF IInv, Bindings
  <2>5. Progress(a)'
    <3>1. CASE place = "attaching"
      BY <1>1, <1>3, <2>2, <2>4, <3>1 DEF Progress, Agree, mayAttach, bindings
    <3>2. CASE place = "detaching"
      BY <1>1, <1>3, <2>2, <2>4, <3>2, StorageOutputAssumption
         DEF Progress, Agree, mayDetach, bindings
    <3>3. QED
      BY <3>1, <3>2
  <2>6. Bindings'
    BY <1>1, <1>3, <2>1, <2>2, <2>5, StepUnderGate, NobodyIsFree
       DEF IInv, Bindings, bindings, Nowhere
  <2>7. QED
    BY <2>2, <2>3, <2>6 DEF IInv
<1>4. QED
  BY <1>2, <1>3 DEF beginAttach, beginDetach

LEMMA NativeStep ==
  ASSUME IInv, NEW a \in Actors, nativeAttach(a) \/ nativeDetach(a)
  PROVE  IInv'
<1>1. /\ at[a] \in {"attaching", "detaching"} /\ op = a
      /\ UNCHANGED <<gates, bound, deps, released, closed, native>>
  BY DEF nativeAttach, nativeDetach, objectVars, IInv, GatesAreHeld, Locked, Gated
<1>2. PICK place \in {"attached", "detached"} :
        /\ GoTo(a, place)
        /\ place = "attached" => at[a] = "attaching" /\ attached' = target[a]
        /\ place = "detached" => at[a] = "detaching" /\ attached' = Unbound
  BY DEF nativeAttach, nativeDetach
<1>3. place \in Places \cap Gated \cap Locked /\ at[a] \in Gated \cap Locked
  BY <1>1 DEF Places, Gated, Locked
<1>4. target[a] \in Replays
  BY <1>3 DEF IInv, CallsMakeSense
<1>5. CallsMakeSense' /\ Alone(a) /\ at'[a] = place /\ UNCHANGED target
  BY <1>1, <1>2, <1>3, <1>4, GoToAlone DEF IInv
<1>6. GatesAreHeld'
  BY <1>1, <1>3, <1>5, GateKept DEF gates
<1>7. Progress(a)' /\ native # "closed"
  BY <1>1, <1>2, <1>5 DEF IInv, Bindings, Progress, Locked, Gated
<1>8. Bindings'
  BY <1>1, <1>3, <1>5, <1>7, StepUnderGate, NobodyIsFree DEF IInv, Bindings, gates
<1>9. QED
  BY <1>5, <1>6, <1>8 DEF IInv

LEMMA LeaveUnderGate ==
  ASSUME IInv, NEW a \in Actors, op = a, Leave(a), CallsMakeSense', Alone(a),
         at'[a] \in Outside,
         released' \subseteq Replays, bound' \in Replays \cup {Unbound}, Agree',
         native' = "closed" => closed' /\ Nowhere'
  PROVE  IInv'
<1>1. GatesAreHeld' /\ op' = Free
  BY LeaveGates DEF Outside
<1>2. Progress(a)'
  BY DEF Progress, Outside, Gated, Locked
<1>3. Bindings'
  BY <1>1, <1>2, StepUnderGate, NobodyIsFree DEF Outside
<1>4. QED
  BY <1>1, <1>3 DEF IInv

LEMMA BindStep ==
  ASSUME IInv, NEW a \in Actors, bind(a)
  PROVE  IInv'
<1>1. /\ at[a] = "attached" /\ op = a /\ target[a] \in Replays
      /\ attached = target[a] /\ deps = {} /\ target[a] \notin released
      /\ native # "closed"
  BY DEF bind, IInv, CallsMakeSense, GatesAreHeld, Bindings, Progress, Locked, Gated
<1>2. /\ Leave(a) /\ Return(a)
      /\ bound' = target[a] /\ deps' = {target[a]}
      /\ UNCHANGED <<attached, released, closed, native>>
  BY <1>1 DEF bind, objectVars
<1>3. CallsMakeSense' /\ Alone(a) /\ at'[a] \in Outside
  BY <1>2, ReturnAlone DEF IInv, Outside, Places, Gated, Locked
<1>4. Agree'
  BY <1>1, <1>2, StorageOutputAssumption DEF Agree
<1>5. QED
  BY <1>1, <1>2, <1>3, <1>4, LeaveUnderGate DEF IInv, Bindings

LEMMA NativeFailsStep ==
  ASSUME IInv, NEW a \in Actors, nativeFails(a)
  PROVE  IInv'
<1>1. /\ at[a] \in {"attaching", "detaching", "destroying"} /\ op = a
      /\ Leave(a) /\ Return(a) /\ native # "closed"
      /\ UNCHANGED <<bindings, closed, native>>
  BY DEF nativeFails, objectVars, IInv, GatesAreHeld, Bindings, Progress, Locked, Gated
<1>2. CallsMakeSense' /\ Alone(a) /\ at'[a] \in Outside
  BY <1>1, ReturnAlone DEF IInv, Outside, Places, Gated, Locked
<1>3. Agree
  <2>1. CASE at[a] = "attaching"
    BY <2>1, StorageOutputAssumption DEF IInv, Bindings, Progress, Agree
  <2>2. CASE at[a] = "detaching"
    <3>1. target[a] \in Replays
      BY <2>2 DEF IInv, CallsMakeSense, Gated
    <3>2. QED
      BY <2>2, <3>1, StorageOutputAssumption DEF IInv, Bindings, Progress, Agree
  <2>3. CASE at[a] = "destroying"
    BY <2>3 DEF IInv, Bindings, Progress
  <2>4. QED
    BY <1>1, <2>1, <2>2, <2>3
<1>4. QED
  BY <1>1, <1>2, <1>3, LeaveUnderGate DEF IInv, Bindings, bindings, Agree

LEMMA UnbindStep ==
  ASSUME IInv, NEW a \in Actors, unbind(a)
  PROVE  IInv'
<1>1. /\ at[a] = "detached" /\ op = a
      /\ deps = {target[a]} /\ attached = Unbound /\ native # "closed"
  BY DEF unbind, IInv, GatesAreHeld, Bindings, Progress, Locked, Gated
<1>2. /\ Leave(a) /\ GoTo(a, "left")
      /\ bound' = Unbound /\ deps' = {}
      /\ UNCHANGED <<attached, released, closed, native>>
  BY <1>1 DEF unbind
<1>3. "left" \in Outside
  BY DEF Outside, Places, Gated, Locked
<1>4. CallsMakeSense' /\ Alone(a) /\ at'[a] = "left"
  BY <1>1, <1>2, <1>3, GoToAlone DEF IInv, Outside
<1>5. Agree'
  BY <1>1, <1>2, StorageOutputAssumption DEF IInv, Bindings, Agree
<1>6. QED
  BY <1>1, <1>2, <1>3, <1>4, <1>5, LeaveUnderGate DEF IInv, Bindings

LEMMA IdleStep ==
  ASSUME IInv, NEW a \in Actors, setIdle(a) \/ postIdle(a)
  PROVE  IInv'
<1>1. /\ at[a] \in {"left", "notifying"}
      /\ UNCHANGED <<gates, bindings, closed, native>>
      /\ AfterDetach(a) \/ GoTo(a, "notifying")
  BY DEF setIdle, postIdle, objectVars
<1>2. {"left", "notifying", "closing", "waitIdle"} \subseteq Outside
  BY DEF Outside, Places, Gated, Locked
<1>3. QED
  BY <1>1, <1>2, ReturnOutside, GoToOutside DEF AfterDetach

LEMMA DrainStep ==
  ASSUME IInv, NEW a \in Actors, closeQueue(a) \/ waitIdle(a)
  PROVE  IInv'
<1>1. /\ at[a] \in {"drain", "draining", "waitIdle"}
      /\ UNCHANGED <<gates, bindings, closed, native>>
      /\ Return(a) \/ GoTo(a, "draining")
  BY DEF closeQueue, waitIdle, objectVars
<1>2. {"drain", "draining", "waitIdle"} \subseteq Outside
  BY DEF Outside, Places, Gated, Locked
<1>3. QED
  BY <1>1, <1>2, ReturnOutside, GoToOutside

LEMMA TakeOpStep ==
  ASSUME IInv, NEW a \in Actors, beginClose(a) \/ beginSnapshot(a)
  PROVE  IInv'
<1>1. /\ at[a] \in {"closing", "start"} /\ op = Free
      /\ UNCHANGED <<gate, bindings, closed, native>>
  BY DEF beginClose, beginSnapshot, At, objectVars
<1>2. at[a] \in Outside
  BY <1>1 DEF Outside, Places, Gated, Locked
<1>3. CASE Return(a) /\ UNCHANGED op
  BY <1>1, <1>2, <1>3, ReturnOutside DEF gates
<1>4. ASSUME NEW place \in {"destroying", "snapshot"}, GoTo(a, place), op' = a,
             ~closed, place = "destroying" => bound = Unbound
      PROVE  IInv'
  <2>1. place \in Places \cap Locked /\ place \notin Gated
    BY DEF Places, Gated, Locked
  <2>2. CallsMakeSense' /\ Alone(a) /\ at'[a] = place /\ UNCHANGED target
    BY <1>1, <1>4, <2>1, GoToAlone DEF IInv
  <2>3. GatesAreHeld'
    BY <1>1, <1>2, <1>4, <2>1, <2>2, GateKept DEF Outside
  <2>4. Agree /\ native # "closed"
    BY <1>1, <1>4 DEF IInv, Bindings
  <2>5. Progress(a)'
    BY <1>1, <1>4, <2>2, <2>4 DEF Progress, Agree, Nowhere, bindings
  <2>6. Bindings'
    BY <1>1, <1>4, <2>1, <2>2, <2>4, <2>5, StepUnderGate, NobodyIsFree
       DEF IInv, Bindings, bindings
  <2>7. QED
    BY <2>2, <2>3, <2>6 DEF IInv
<1>5. QED
  BY <1>3, <1>4 DEF beginClose, beginSnapshot, preclose

LEMMA DestroyStep ==
  ASSUME IInv, NEW a \in Actors, destroy(a)
  PROVE  IInv'
<1>1. /\ at[a] = "destroying" /\ op = a /\ Nowhere
      /\ native' = "closed" /\ GoTo(a, "destroyed")
      /\ UNCHANGED <<gates, bindings, closed>>
  BY DEF destroy, IInv, GatesAreHeld, Bindings, Progress, Locked, Gated
<1>2. "destroyed" \in Places \cap Locked /\ {"destroying", "destroyed"} \cap Gated = {}
  BY DEF Places, Gated, Locked
<1>3. CallsMakeSense' /\ Alone(a) /\ at'[a] = "destroyed" /\ UNCHANGED target
  BY <1>1, <1>2, GoToAlone DEF IInv
<1>4. GatesAreHeld'
  BY <1>1, <1>2, <1>3, GateKept DEF gates
<1>5. Progress(a)' /\ Nowhere'
  BY <1>1, <1>3 DEF Progress, Nowhere, bindings
<1>6. Bindings'
  BY <1>1, <1>2, <1>3, <1>5, StepUnderGate, NobodyIsFree DEF IInv, Bindings, bindings, gates
<1>7. QED
  BY <1>3, <1>4, <1>6 DEF IInv

LEMMA LeaveStep ==
  ASSUME IInv, NEW a \in Actors, leaveClosed(a) \/ endSnapshot(a)
  PROVE  IInv'
<1>1. /\ at[a] \in {"destroyed", "snapshot"} /\ op = a /\ Leave(a)
      /\ UNCHANGED <<bindings, native>>
      /\ \/ at[a] = "destroyed" /\ closed' = TRUE /\ GoTo(a, "drain")
         \/ at[a] = "snapshot" /\ UNCHANGED closed /\ Return(a)
  BY DEF leaveClosed, endSnapshot, objectVars, IInv, GatesAreHeld, Locked
<1>2. {"drain", "out"} \subseteq Outside
  BY DEF Outside, Places, Gated, Locked
<1>3. CallsMakeSense' /\ Alone(a) /\ at'[a] \in Outside
  BY <1>1, <1>2, GoToAlone, ReturnAlone DEF IInv, Outside
<1>4. Agree /\ (native = "closed" => closed' /\ Nowhere)
  <2>1. CASE at[a] = "snapshot"
    BY <2>1 DEF IInv, Bindings, Progress, Locked
  <2>2. CASE at[a] = "destroyed"
    BY <1>1, <2>2, StorageOutputAssumption DEF IInv, Bindings, Progress, Agree, Nowhere
  <2>3. QED
    BY <1>1, <2>1, <2>2
<1>5. QED
  BY <1>1, <1>3, <1>4, LeaveUnderGate DEF IInv, Bindings, bindings, Agree, Nowhere

-----------------------------------------------------------------------------
(* Native, the handlers and the replays *)

\* Callbacks and handlers ask for no gate and attach nothing.
Elsewhere == \/ \E s \in NativeStates : OnState(s)
             \/ postState \/ OnError
             \/ \E skip \in {0, 1} : OnFrame(skip)
             \/ postFrame
             \/ run \/ handlerReturns

LEMMA ElsewhereStep == IInv /\ Elsewhere => IInv'
<1>1. Elsewhere => UNCHANGED <<gates, bindings, closed, native, job, at, target>>
  <2>1. \A s \in NativeStates :
          OnState(s) => UNCHANGED <<gates, bindings, closed, native, job, at, target>>
    BY DEF OnState
  <2>2. postState \/ OnError \/ postFrame \/ run \/ handlerReturns =>
          UNCHANGED <<gates, bindings, closed, native, job, at, target>>
    BY DEF postState, OnError, postFrame, run, handlerReturns, objectVars, callVars
  <2>3. \A skip \in {0, 1} :
          OnFrame(skip) => UNCHANGED <<gates, bindings, closed, native, job, at, target>>
    BY DEF OnFrame
  <2>4. QED
    BY <2>1, <2>2, <2>3 DEF Elsewhere
<1>2. QED
  BY <1>1 DEF IInv, CallsMakeSense, GatesAreHeld, Bindings, Progress, Agree, Nowhere,
              gates, bindings

LEMMA ReplayStep ==
  ASSUME IInv, NEW r \in Replays, replayCloses(r)
  PROVE  IInv'
<1>1. /\ gate[r] = Free /\ r \notin deps
      /\ released' = released \cup {r}
      /\ UNCHANGED <<gates, bound, attached, deps, closed, native, job, at, target>>
  BY DEF replayCloses, objectVars, callVars
<1>2. CallsMakeSense' /\ GatesAreHeld'
  BY <1>1 DEF IInv, CallsMakeSense, GatesAreHeld, gates
<1>3. \A a \in Actors : at[a] \in Gated => target[a] # r
  BY <1>1, NobodyIsFree DEF IInv, GatesAreHeld
<1>4. Agree => Agree'
  BY <1>1, StorageOutputAssumption DEF Agree
<1>5. \A a \in Actors : Progress(a)'
  BY <1>1, <1>3, <1>4 DEF IInv, Bindings, Progress, Nowhere, Gated, Locked
<1>6. Bindings'
  BY <1>1, <1>4, <1>5 DEF IInv, Bindings, Nowhere, gates
<1>7. QED
  BY <1>2, <1>6 DEF IInv

LEMMA InitHolds == Init => IInv
<1> SUFFICES ASSUME Init PROVE IInv
  OBVIOUS
<1>1. "out" \in Outside
  BY DEF Outside, Places, Gated, Locked
<1>2. CallsMakeSense
  BY <1>1 DEF Init, CallsMakeSense, Outside
<1>3. GatesAreHeld
  BY <1>1, NobodyIsFree DEF Init, GatesAreHeld, Outside
<1>4. Bindings
  BY <1>1, StorageOutputAssumption
     DEF Init, Bindings, Progress, Agree, Nowhere, Outside, Gated, Locked
<1>5. QED
  BY <1>2, <1>3, <1>4 DEF IInv

\* One step of the specification, whoever makes it.
LEMMA InvariantStep == IInv /\ [Next]_vars => IInv'
<1> SUFFICES ASSUME IInv, [Next]_vars PROVE IInv'
  OBVIOUS
<1>1. ASSUME NEW a \in Actors, NEW name \in Operations, call(a, name) PROVE IInv'
  BY <1>1, CallStep
<1>2. ASSUME NEW a \in Actors, Operate(a) PROVE IInv'
  <2>1. CASE Attach(a) \/ enterNative(a) \/ nativeFails(a)
    BY <2>1, EnterNativeStep, NativeFailsStep, BeginStep, NativeStep, BindStep DEF Attach
  <2>2. CASE Detach(a)
    BY <2>2, LookBoundStep, BeginStep, NativeStep, UnbindStep, IdleStep DEF Detach
  <2>3. CASE Close(a)
    BY <2>3, LookStep, TakeOpStep, DestroyStep, LeaveStep, DrainStep DEF Close
  <2>4. CASE TakeSnapshot(a)
    BY <2>4, TakeOpStep, LeaveStep DEF TakeSnapshot
  <2>5. QED
    BY <1>2, <2>1, <2>2, <2>3, <2>4 DEF Operate
<1>3. CASE Elsewhere
  BY <1>3, ElsewhereStep
<1>4. ASSUME NEW r \in Replays, replayCloses(r) PROVE IInv'
  BY <1>4, ReplayStep
<1>5. CASE UNCHANGED vars
  BY <1>5 DEF vars, IInv, CallsMakeSense, GatesAreHeld, Bindings, Progress, Agree,
              Nowhere, gates, bindings, objectVars, callVars
<1>6. QED
  BY <1>1, <1>2, <1>3, <1>4, <1>5 DEF Next, Elsewhere

LEMMA InvariantHolds == Spec => []IInv
BY InitHolds, InvariantStep, PTL DEF Spec

\* Output, replays and native agree on the attachment whenever no operation is
\* between two of its steps, native detaches only from the replay whose gate is
\* held, and only an output that is attached nowhere is destroyed (output.go:91-186,
\* 389-426).
THEOREM BindingsCorrect == Spec => []BindingsAgree
<1>1. IInv => BindingsAgree
  <2> SUFFICES ASSUME IInv PROVE BindingsAgree
    OBVIOUS
  <2>1. ASSUME NEW a \in Actors, at[a] = "detaching" PROVE gate[attached] = a
    BY <2>1 DEF IInv, CallsMakeSense, GatesAreHeld, Bindings, Progress, Gated
  <2>2. QED
    BY <2>1 DEF IInv, Bindings, BindingsAgree, Agree, Nowhere
<1>2. QED
  BY <1>1, InvariantHolds, PTL

-----------------------------------------------------------------------------
(* The last state *)

\* The state the application will have been told when its handlers have run.
LastNews == IF latestSlot # "none" THEN latestSlot
            ELSE IF terminalSlot # "none" THEN terminalSlot ELSE told

\* Nobody is about to post a state.
NothingToPost == callback = "none" /\ \A a \in Actors : at[a] # "notifying"

NewsCorrect == ~shut /\ ~overtaken /\ NothingToPost => state = LastNews

LEMMA PostedNews ==
  ASSUME NEW s \in NativeStates, postOutputState(s), UNCHANGED state
  PROVE  ~shut' /\ ~overtaken' => state' = LastNews'
BY DEF postOutputState, Overtaken, keepsTerminal, replacesLatest, LastNews,
       NativeStates, Terminal

\* What every other step does to the notifications: nothing, but for a state that
\* its actor is about to post.
Silent == /\ UNCHANGED <<latestSlot, terminalSlot, told, overtaken, callback>>
          /\ shut => shut'

OthersStay(a) == \A b \in Actors \ {a} : at'[b] = at[b]

LEMMA SilentCall ==
  ASSUME CallsMakeSense, NEW a \in Actors, NEW name \in Operations, call(a, name)
  PROVE  Silent /\ UNCHANGED state /\ OthersStay(a) /\ at[a] # "notifying"
<1>1. at[a] = "out" /\ at' = [at EXCEPT ![a] = Start(name)]
  BY DEF call, CallsMakeSense
<1>2. QED
  BY <1>1 DEF call, CallsMakeSense, OthersStay, Silent, objectVars, queueVars,
              callbackVars, historyVars

\* The steps whose only part here is that they leave the notifications alone.
SilentStep(a) == \/ enterNative(a) \/ Attach(a) \/ Close(a) \/ TakeSnapshot(a)
                 \/ nativeFails(a)
                 \/ lookBound(a) \/ beginDetach(a) \/ nativeDetach(a) \/ unbind(a)

LEMMA SilentMove ==
  ASSUME CallsMakeSense, NEW a \in Actors, SilentStep(a)
  PROVE  OthersStay(a) /\ at[a] # "notifying"
<1>1. ASSUME Return(a) \/ \E place \in Places : GoTo(a, place) PROVE OthersStay(a)
  BY <1>1 DEF Return, GoTo, CallsMakeSense, OthersStay
<1> USE DEF Places, Gated, Locked
<1>2. CASE enterNative(a) \/ nativeFails(a)
  BY <1>1, <1>2 DEF enterNative, nativeFails, At
<1>3. CASE Attach(a)
  BY <1>1, <1>3 DEF Attach, beginAttach, nativeAttach, bind, At
<1>4. CASE TakeSnapshot(a)
  BY <1>1, <1>4 DEF TakeSnapshot, beginSnapshot, endSnapshot, At
<1>5. CASE Close(a)
  BY <1>1, <1>5 DEF Close, preflight, lookClose, beginClose, destroy, leaveClosed,
                    closeQueue, waitIdle
<1>6. CASE lookBound(a)
  BY <1>1, <1>6 DEF lookBound, DetachRefused, At, CallsMakeSense, OthersStay
<1>7. CASE beginDetach(a) \/ nativeDetach(a) \/ unbind(a)
  BY <1>1, <1>7 DEF beginDetach, nativeDetach, unbind, DetachRefused, At
<1>8. QED
  BY <1>2, <1>3, <1>4, <1>5, <1>6, <1>7 DEF SilentStep

LEMMA SilentEffect ==
  ASSUME NEW a \in Actors, SilentStep(a)
  PROVE  Silent /\ UNCHANGED state
<1> USE DEF Silent, objectVars, queueVars, callbackVars, historyVars
<1>1. CASE enterNative(a) \/ nativeFails(a)
  BY <1>1 DEF enterNative, nativeFails
<1>2. CASE Attach(a) \/ TakeSnapshot(a)
  BY <1>2 DEF Attach, beginAttach, nativeAttach, bind, TakeSnapshot, beginSnapshot,
              endSnapshot
<1>3. CASE Close(a)
  BY <1>3 DEF Close, preflight, lookClose, beginClose, destroy, leaveClosed,
              closeQueue, waitIdle
<1>4. CASE lookBound(a) \/ beginDetach(a) \/ nativeDetach(a) \/ unbind(a)
  BY <1>4 DEF lookBound, beginDetach, nativeDetach, unbind
<1>5. QED
  BY <1>1, <1>2, <1>3, <1>4 DEF SilentStep

\* Who makes such a step leaves no notification unposted behind.
LEMMA SilentKeepsNews ==
  ASSUME NewsCorrect, NEW a \in Actors, Silent, OthersStay(a), at[a] # "notifying",
         UNCHANGED state
  PROVE  NewsCorrect'
BY DEF NewsCorrect, NothingToPost, Silent, OthersStay, LastNews

\* Detach: the state, and then what the application is told of it.
LEMMA IdleKeepsNews ==
  ASSUME CallsMakeSense, NewsCorrect, NEW a \in Actors, setIdle(a) \/ postIdle(a)
  PROVE  NewsCorrect'
<1>1. CASE setIdle(a)
  <2>1. Silent /\ at[a] = "left"
    BY <1>1 DEF setIdle, Silent, queueVars, callbackVars, historyVars
  <2>2. CASE state # "Idle"
    BY <1>1, <2>2 DEF setIdle, GoTo, CallsMakeSense, NewsCorrect, NothingToPost
  <2>3. CASE state = "Idle"
    <3>1. UNCHANGED state /\ OthersStay(a)
      BY <1>1, <2>3 DEF setIdle, AfterDetach, GoTo, Return, CallsMakeSense, OthersStay
    <3>2. QED
      BY <2>1, <3>1, SilentKeepsNews
  <2>4. QED
    BY <2>2, <2>3
<1>2. CASE postIdle(a)
  BY <1>2, PostedNews DEF postIdle, objectVars, NewsCorrect, NativeStates
<1>3. QED
  BY <1>1, <1>2

CallbackKnown == callback \in NativeStates \cup {"none"}

\* A handler that runs tells what was the last news anyway.
LEMMA RunKeepsNews == NewsCorrect /\ run => NewsCorrect'
<1> SUFFICES ASSUME NewsCorrect, run PROVE NewsCorrect'
  OBVIOUS
<1>1. /\ UNCHANGED <<state, shut, overtaken, callback, at>>
      /\ runTerminal \/ runError \/ runLatest \/ runFrame
  BY DEF run, objectVars, callbackVars, callVars, runTerminal, runError, runLatest,
         runFrame, tell, historyVars
<1>2. LastNews' = LastNews
  BY <1>1 DEF runTerminal, runError, runLatest, runFrame, tell, historyVars, LastNews
<1>3. QED
  BY <1>1, <1>2 DEF NewsCorrect, NothingToPost

\* Native and the handlers: a new state is about to be posted.
LEMMA ElsewhereKeepsNews ==
  ASSUME NewsCorrect, CallbackKnown, Elsewhere
  PROVE  NewsCorrect' /\ CallbackKnown'
<1>1. ASSUME NEW s \in NativeStates, OnState(s) PROVE NewsCorrect' /\ CallbackKnown'
  BY <1>1 DEF OnState, NewsCorrect, NothingToPost, CallbackKnown, NativeStates, Terminal
<1>2. CASE postState
  BY <1>2, PostedNews DEF postState, objectVars, NewsCorrect, CallbackKnown
<1>3. CASE OnError \/ postFrame \/ handlerReturns \/ \E skip \in {0, 1} : OnFrame(skip)
  <2>1. UNCHANGED <<state, shut, overtaken, callback, at, latestSlot, terminalSlot, told>>
    BY <1>3 DEF OnError, postOutputError, postFrame, handlerReturns, OnFrame, objectVars,
                queueVars, callbackVars, historyVars, callVars
  <2>2. QED
    BY <2>1 DEF NewsCorrect, NothingToPost, LastNews, CallbackKnown
<1>4. CASE run
  BY <1>4, RunKeepsNews DEF run, callbackVars, CallbackKnown
<1>5. QED
  BY <1>1, <1>2, <1>3, <1>4 DEF Elsewhere

NewsInv == IInv /\ CallbackKnown /\ NewsCorrect

LEMMA NewsStep == NewsInv /\ [Next]_vars => NewsInv'
<1> SUFFICES ASSUME NewsInv, [Next]_vars PROVE CallbackKnown' /\ NewsCorrect'
  BY InvariantStep DEF NewsInv
<1> USE DEF NewsInv, IInv
<1>1. ASSUME NEW a \in Actors, NEW name \in Operations, call(a, name)
      PROVE  CallbackKnown' /\ NewsCorrect'
  BY <1>1, SilentCall, SilentKeepsNews DEF Silent, CallbackKnown
<1>2. ASSUME NEW a \in Actors, Operate(a) PROVE CallbackKnown' /\ NewsCorrect'
  <2>1. CASE SilentStep(a)
    BY <2>1, SilentMove, SilentEffect, SilentKeepsNews DEF Silent, CallbackKnown
  <2>2. CASE setIdle(a) \/ postIdle(a)
    BY <2>2, IdleKeepsNews
       DEF setIdle, postIdle, callbackVars, CallbackKnown
  <2>3. QED
    BY <1>2, <2>1, <2>2 DEF Operate, Detach, SilentStep
<1>3. CASE Elsewhere
  BY <1>3, ElsewhereKeepsNews
<1>4. ASSUME NEW r \in Replays, replayCloses(r) PROVE CallbackKnown' /\ NewsCorrect'
  BY <1>4 DEF replayCloses, objectVars, queueVars, callbackVars, historyVars, callVars,
              CallbackKnown, NewsCorrect, NothingToPost, LastNews
<1>5. CASE UNCHANGED vars
  BY <1>5 DEF vars, objectVars, queueVars, callbackVars, historyVars, callVars,
              CallbackKnown, NewsCorrect, NothingToPost, LastNews
<1>6. QED
  BY <1>1, <1>2, <1>3, <1>4, <1>5 DEF Next, Elsewhere

\* Once all notifications have run the application knows the state that State()
\* returns, unless one of them was overtaken (output.go:43-48, 308-319, 358-370).
THEOREM StateToldCorrect == Spec => []StateTold
<1>1. Init => NewsInv
  BY InitHolds DEF Init, NewsInv, CallbackKnown, NewsCorrect, LastNews
<1>2. NewsInv => StateTold
  BY DEF NewsInv, NewsCorrect, StateTold, Quiet, HasEvents, NothingToPost, LastNews
<1>3. QED
  BY <1>1, <1>2, NewsStep, PTL DEF Spec

-----------------------------------------------------------------------------
(* Gaps *)

\* The number of the frame the application has before it gets frames[i].
Before(i) == IF i = 1 THEN shown ELSE frames[i - 1].number

LastNumber == IF frames = <<>> THEN shown ELSE frames[Len(frames)].number

Frame == [number : Nat, marked : BOOLEAN]

\* A frame that does not follow the one before it is marked; so is the next one
\* that native delivers, or will be, unless it follows the last one queued.
Marks == /\ frames \in Seq(Frame)
         /\ frameNumber \in Nat /\ shown \in Nat /\ dropped \in BOOLEAN
         /\ frame \in {"none", "plain", "marked"}
         /\ \A i \in 1 .. Len(frames) :
              frames[i].marked \/ frames[i].number = Before(i) + 1
         /\ frame = "none" => dropped \/ LastNumber = frameNumber
         /\ frame = "plain" => LastNumber + 1 = frameNumber

LEMMA FrameArrives ==
  ASSUME Marks, NEW skip \in {0, 1}, OnFrame(skip)
  PROVE  Marks'
<1>1. /\ frame = "none" /\ UNCHANGED <<frames, shown>> /\ dropped' = FALSE
      /\ frameNumber' = frameNumber + skip + 1
      /\ frame' = IF skip > 0 \/ dropped THEN "marked" ELSE "plain"
  BY DEF OnFrame, discontinuity, queueVars, historyVars
<1>2. LastNumber' = LastNumber /\ \A i \in 1 .. Len(frames) : Before(i)' = Before(i)
  BY <1>1 DEF LastNumber, Before
<1>3. frame' = "plain" => LastNumber' + 1 = frameNumber'
  BY <1>1, <1>2 DEF Marks
<1>4. frameNumber' \in Nat /\ frame' # "none" /\ frame' \in {"none", "plain", "marked"}
  BY <1>1 DEF Marks
<1>5. \A i \in 1 .. Len(frames') :
        frames'[i].marked \/ frames'[i].number = Before(i)' + 1
  BY <1>1, <1>2 DEF Marks
<1>6. QED
  BY <1>1, <1>3, <1>4, <1>5 DEF Marks

LEMMA FramePosted ==
  ASSUME Marks, postFrame
  PROVE  Marks'
<1>1. /\ frame # "none" /\ frame' = "none" /\ UNCHANGED <<frameNumber, shown>>
      /\ \/ dropped' = TRUE /\ UNCHANGED frames
         \/ /\ UNCHANGED dropped
            /\ frames' = Append(frames, [number |-> frameNumber,
                                         marked |-> frame = "marked"])
  BY DEF postFrame, markDropped, historyVars
<1>2. CASE dropped' = TRUE /\ UNCHANGED frames
  BY <1>1, <1>2 DEF Marks, Before, LastNumber
<1>3. CASE /\ UNCHANGED dropped
           /\ frames' = Append(frames, [number |-> frameNumber,
                                        marked |-> frame = "marked"])
  <2> DEFINE new == [number |-> frameNumber, marked |-> frame = "marked"]
  <2>n. PICK n \in Nat : n = Len(frames)
    BY DEF Marks
  <2>1. new \in Frame
    BY DEF Marks, Frame
  <2> HIDE DEF new
  <2>2. /\ frames' \in Seq(Frame) /\ Len(frames') = n + 1
        /\ frames'[n + 1] = new /\ \A i \in 1 .. n : frames'[i] = frames[i]
    BY <1>3, <2>n, <2>1 DEF Marks, new
  <2>3. LastNumber' = frameNumber
    BY <2>n, <2>2, EmptySeq DEF LastNumber, new
  <2>4. Before(n + 1)' = LastNumber
    <3>1. CASE n = 0
      <4>1. frames = <<>>
        BY <2>n, <3>1, EmptySeq DEF Marks
      <4>2. QED
        BY <1>1, <3>1, <4>1 DEF Before, LastNumber
    <3>2. CASE n # 0
      BY <2>n, <2>2, <3>2 DEF Before, LastNumber, Marks
    <3>3. QED
      BY <3>1, <3>2
  <2>5. \A i \in 1 .. n : Before(i)' = Before(i)
    BY <1>1, <2>2 DEF Before
  <2>6. new.marked \/ new.number = Before(n + 1)' + 1
    BY <1>1, <2>4 DEF Marks, new
  <2>7. \A i \in 1 .. n + 1 : frames'[i].marked \/ frames'[i].number = Before(i)' + 1
    <3>1. ASSUME NEW i \in 1 .. n
          PROVE  frames'[i].marked \/ frames'[i].number = Before(i)' + 1
      BY <2>n, <2>2, <2>5 DEF Marks
    <3>2. QED
      BY <2>2, <2>6, <3>1
  <2>8. QED
    BY <1>1, <1>3, <2>2, <2>3, <2>7 DEF Marks
<1>4. QED
  BY <1>1, <1>2, <1>3

LEMMA FrameShown ==
  ASSUME Marks, runFrame, UNCHANGED <<frameNumber, frame, dropped>>
  PROVE  Marks' /\ (Head(frames).number = shown + 1 \/ Head(frames).marked)
<1>n. PICK n \in Nat : n = Len(frames)
  BY DEF Marks
<1>0. frames # <<>> /\ frames' = Tail(frames) /\ shown' = Head(frames).number
  BY DEF runFrame
<1>1. /\ n # 0 /\ Head(frames) = frames[1]
      /\ frames[1] \in Frame
  <2>1. n # 0
    BY <1>n, <1>0, EmptySeq DEF Marks
  <2>2. QED
    BY <1>n, <1>0, <2>1 DEF Marks
<1>2. /\ Len(frames') = n - 1 /\ \A i \in 1 .. n - 1 : frames'[i] = frames[i + 1]
      /\ frames' \in Seq(Frame)
  BY <1>n, <1>0, <1>1 DEF Marks
<1>3. \A i \in 1 .. n - 1 : Before(i)' = Before(i + 1)
  BY <1>0, <1>1, <1>2 DEF Before
<1>4. LastNumber' = LastNumber
  <2>1. CASE n = 1
    BY <1>n, <1>0, <1>1, <1>2, <2>1 DEF LastNumber
  <2>2. CASE n # 1
    <3>1. frames' # <<>> /\ n - 1 \in 1 .. n - 1 /\ (n - 1) + 1 = n
      BY <1>1, <1>2, <2>2
    <3>2. frames'[n - 1] = frames[n]
      BY <1>2, <3>1
    <3>3. QED
      BY <1>n, <1>0, <1>2, <3>1, <3>2 DEF LastNumber
  <2>3. QED
    BY <2>1, <2>2
<1>5. frames[1].marked \/ frames[1].number = shown + 1
  BY <1>n, <1>1 DEF Marks, Before
<1>6. \A i \in 1 .. n - 1 : frames'[i].marked \/ frames'[i].number = Before(i)' + 1
  <2>1. ASSUME NEW i \in 1 .. n - 1
        PROVE  frames'[i].marked \/ frames'[i].number = Before(i)' + 1
    BY <1>n, <1>2, <1>3 DEF Marks
  <2>2. QED
    BY <2>1
<1>7. shown' \in Nat
  BY <1>0, <1>1 DEF Frame
<1>8. QED
  BY <1>1, <1>2, <1>4, <1>5, <1>6, <1>7 DEF Marks

\* Whatever else happens: a frame may only be marked more than it has to be.
LEMMA MarksKept ==
  ASSUME Marks, UNCHANGED <<frames, frameNumber, frame, shown>>,
         dropped' \in {dropped, TRUE}
  PROVE  Marks'
BY DEF Marks, Before, LastNumber

\* A frame that is not run leaves shown alone.
LEMMA OtherRuns ==
  ASSUME run, ~runFrame
  PROVE  UNCHANGED <<frames, frameNumber, frame, shown, dropped>>
BY DEF run, runTerminal, runError, runLatest, tell, historyVars, objectVars, callbackVars

LEMMA OperationsDropNothing ==
  ASSUME NEW a \in Actors, Operate(a)
  PROVE  UNCHANGED <<frames, frameNumber, frame, shown>> /\ dropped' \in {dropped, TRUE}
<1> USE DEF objectVars, queueVars, callbackVars, historyVars
<1>1. CASE enterNative(a) \/ nativeFails(a)
  BY <1>1 DEF enterNative, nativeFails
<1>2. CASE Attach(a) \/ TakeSnapshot(a)
  BY <1>2 DEF Attach, beginAttach, nativeAttach, bind, TakeSnapshot, beginSnapshot,
              endSnapshot
<1>3. CASE Close(a)
  BY <1>3 DEF Close, preflight, lookClose, beginClose, destroy, leaveClosed,
              closeQueue, waitIdle
<1>4. CASE Detach(a)
  BY <1>4 DEF Detach, lookBound, beginDetach, nativeDetach, unbind, setIdle, postIdle,
              postOutputState
<1>5. QED
  BY <1>1, <1>2, <1>3, <1>4 DEF Operate

GapMarked == shown' # shown => Head(frames).number = shown + 1 \/ Head(frames).marked

LEMMA MarksStep == Marks /\ [Next]_vars => Marks' /\ GapMarked
<1> SUFFICES ASSUME Marks, [Next]_vars PROVE Marks' /\ GapMarked
  OBVIOUS
<1> DEFINE Quietly == /\ UNCHANGED <<frames, frameNumber, frame, shown>>
                      /\ dropped' \in {dropped, TRUE}
<1>1. CASE Quietly
  BY <1>1, MarksKept DEF GapMarked
<1>2. ASSUME NEW a \in Actors, NEW name \in Operations, call(a, name) PROVE Quietly
  BY <1>2 DEF call, objectVars, queueVars, callbackVars, historyVars
<1>3. ASSUME NEW a \in Actors, Operate(a) PROVE Quietly
  BY <1>3, OperationsDropNothing
<1>4. ASSUME NEW s \in NativeStates, OnState(s) PROVE Quietly
  BY <1>4 DEF OnState, queueVars, historyVars
<1>5. ASSUME postState \/ OnError \/ handlerReturns PROVE Quietly
  BY <1>5 DEF postState, postOutputState, OnError, postOutputError, handlerReturns,
              objectVars, historyVars, callbackVars
<1>6. ASSUME NEW skip \in {0, 1}, OnFrame(skip) PROVE Marks' /\ GapMarked
  BY <1>6, FrameArrives DEF OnFrame, historyVars, GapMarked
<1>7. CASE postFrame
  BY <1>7, FramePosted DEF postFrame, historyVars, GapMarked
<1>8. CASE run
  <2>1. CASE runFrame
    BY <1>8, <2>1, FrameShown DEF run, objectVars, callbackVars, GapMarked
  <2>2. CASE ~runFrame
    BY <1>1, <1>8, <2>2, OtherRuns
  <2>3. QED
    BY <2>1, <2>2
<1>9. ASSUME NEW r \in Replays, replayCloses(r) PROVE Quietly
  BY <1>9 DEF replayCloses, objectVars, queueVars, callbackVars, historyVars
<1>10. CASE UNCHANGED vars
  BY <1>1, <1>10 DEF vars, objectVars, queueVars, callbackVars, historyVars
<1>11. QED
  BY <1>1, <1>2, <1>3, <1>4, <1>5, <1>6, <1>7, <1>8, <1>9, <1>10 DEF Next

LEMMA InitialMarks == Init => Marks
<1> SUFFICES ASSUME Init PROVE Marks
  OBVIOUS
<1>1. frames \in Seq(Frame) /\ Len(frames) = 0
  BY EmptySeq DEF Init
<1>2. LastNumber = frameNumber
  BY DEF Init, LastNumber
<1>3. \A i \in 1 .. Len(frames) :
        frames[i].marked \/ frames[i].number = Before(i) + 1
  BY <1>1
<1>4. /\ frameNumber \in Nat /\ shown \in Nat /\ dropped \in BOOLEAN
      /\ frame = "none"
  BY DEF Init
<1>5. QED
  BY <1>1, <1>2, <1>3, <1>4 DEF Marks

\* When the application is given a frame that does not follow the one before it, the
\* frame has Discontinuity set, whoever left out the ones between: native, a full
\* queue, or a Detach (README.md:51, output.go:77-90, 328-340).
THEOREM GapsMarkedCorrect == Spec => GapsMarked
<1>1. Init => Marks
  BY InitialMarks
<1>2. Marks /\ [Next]_vars => [GapMarked]_vars
  BY MarksStep
<1>3. QED
  BY <1>1, <1>2, MarksStep, PTL DEF Spec, GapsMarked, GapMarked

-----------------------------------------------------------------------------
(* Types *)

ObjectTypes ==
  /\ attached \in Replays \cup {Unbound} /\ deps \in SUBSET Replays
  /\ closed \in BOOLEAN /\ native \in {"open", "closed"}
  /\ state \in NativeStates /\ happened \in 0 .. MaxEvents

NewsTypes ==
  /\ told \in NativeStates /\ overtaken \in BOOLEAN
  /\ terminalSlot \in Terminal \cup {"none"} /\ errorSlot \in BOOLEAN
  /\ latestSlot \in {"none", "Idle", "Delivering"}
  /\ shut \in BOOLEAN /\ handling \in BOOLEAN
  /\ callback \in NativeStates \cup {"none"}

\* Frames have the numbers that native has given.
FrameTypes ==
  /\ Len(frames) <= Capacity
  /\ \A i \in 1 .. Len(frames) : frames[i].number \in 1 .. frameNumber
  /\ shown \in 0 .. frameNumber
  /\ frame # "none" => frameNumber # 0

TypesInv == IInv /\ Marks /\ ObjectTypes /\ NewsTypes /\ FrameTypes

LEMMA ObjectStep == IInv /\ ObjectTypes /\ [Next]_vars => ObjectTypes'
<1> SUFFICES ASSUME IInv, ObjectTypes, [Next]_vars PROVE ObjectTypes'
  OBVIOUS
<1> USE StorageOutputAssumption
<1> USE DEF ObjectTypes, bindings, objectVars, callVars
<1>0. ASSUME Counted PROVE happened' \in 0 .. MaxEvents
  BY <1>0 DEF Counted
<1>1. ASSUME NEW a \in Actors, NEW name \in Operations, call(a, name) PROVE ObjectTypes'
  BY <1>0, <1>1 DEF call
<1>2. ASSUME NEW a \in Actors, Operate(a) PROVE ObjectTypes'
  <2> USE DEF GoTo, Return, AfterDetach, DetachRefused
  <2>1. CASE enterNative(a) \/ nativeFails(a) \/ TakeSnapshot(a)
    BY <2>1 DEF enterNative, nativeFails, TakeSnapshot, beginSnapshot, endSnapshot
  <2>2. CASE Attach(a)
    <3>1. at[a] \in Gated => target[a] \in Replays
      BY DEF IInv, CallsMakeSense
    <3>2. QED
      BY <2>2, <3>1 DEF Attach, beginAttach, nativeAttach, bind, Gated
  <2>3. CASE Detach(a)
    BY <2>3 DEF Detach, lookBound, beginDetach, nativeDetach, unbind, setIdle, postIdle,
                NativeStates
  <2>4. CASE Close(a)
    BY <2>4 DEF Close, preflight, lookClose, beginClose, destroy, leaveClosed,
                closeQueue, waitIdle
  <2>5. QED
    BY <1>2, <2>1, <2>2, <2>3, <2>4 DEF Operate
<1>3. ASSUME NEW s \in NativeStates, OnState(s) PROVE ObjectTypes'
  BY <1>0, <1>3 DEF OnState
<1>4. ASSUME NEW skip \in {0, 1}, OnFrame(skip) PROVE ObjectTypes'
  BY <1>0, <1>4 DEF OnFrame
<1>5. CASE postState \/ OnError \/ postFrame \/ run \/ handlerReturns
  BY <1>0, <1>5 DEF postState, OnError, postFrame, run, handlerReturns
<1>6. ASSUME NEW r \in Replays, replayCloses(r) PROVE ObjectTypes'
  BY <1>6 DEF replayCloses
<1>7. CASE UNCHANGED vars
  BY <1>7 DEF vars
<1>8. QED
  BY <1>1, <1>2, <1>3, <1>4, <1>5, <1>6, <1>7 DEF Next

\* A notification goes into the slot of its kind.
LEMMA PostTypes ==
  ASSUME NewsTypes, NEW s \in NativeStates, postOutputState(s),
         callback' \in NativeStates \cup {"none"}
  PROVE  NewsTypes'
BY DEF NewsTypes, postOutputState, keepsTerminal, replacesLatest, Overtaken,
       NativeStates, Terminal

LEMMA NewsTypesStep == NewsTypes /\ [Next]_vars => NewsTypes'
<1> SUFFICES ASSUME NewsTypes, [Next]_vars PROVE NewsTypes'
  OBVIOUS
<1> USE DEF queueVars, callbackVars, historyVars
<1>1. ASSUME NEW a \in Actors, NEW name \in Operations, call(a, name) PROVE NewsTypes'
  BY <1>1 DEF call, NewsTypes
<1>2. ASSUME NEW a \in Actors, Operate(a) PROVE NewsTypes'
  <2>1. CASE enterNative(a) \/ nativeFails(a) \/ TakeSnapshot(a)
    BY <2>1 DEF enterNative, nativeFails, TakeSnapshot, beginSnapshot, endSnapshot,
                NewsTypes
  <2>2. CASE Attach(a)
    BY <2>2 DEF Attach, beginAttach, nativeAttach, bind, NewsTypes
  <2>3. CASE postIdle(a)
    BY <2>3, PostTypes DEF postIdle, NewsTypes, NativeStates
  <2>4. CASE Detach(a) /\ ~postIdle(a)
    BY <2>4 DEF Detach, lookBound, beginDetach, nativeDetach, unbind, setIdle, NewsTypes
  <2>5. CASE Close(a)
    BY <2>5 DEF Close, preflight, lookClose, beginClose, destroy, leaveClosed,
                closeQueue, waitIdle, NewsTypes
  <2>6. QED
    BY <1>2, <2>1, <2>2, <2>3, <2>4, <2>5 DEF Operate
<1>3. ASSUME NEW s \in NativeStates, OnState(s) PROVE NewsTypes'
  BY <1>3 DEF OnState, NewsTypes
<1>4. ASSUME NEW skip \in {0, 1}, OnFrame(skip) PROVE NewsTypes'
  BY <1>4 DEF OnFrame, NewsTypes
<1>5. CASE postState
  <2>1. callback \in NativeStates
    BY <1>5 DEF postState, NewsTypes
  <2>2. QED
    BY <1>5, <2>1, PostTypes DEF postState
<1>6. CASE OnError \/ postFrame \/ handlerReturns
  BY <1>6 DEF OnError, postOutputError, postFrame, handlerReturns, NewsTypes
<1>7. CASE run
  BY <1>7 DEF run, runTerminal, runError, runLatest, runFrame, tell, NewsTypes,
              NativeStates, Terminal
<1>8. ASSUME NEW r \in Replays, replayCloses(r) PROVE NewsTypes'
  BY <1>8 DEF replayCloses, NewsTypes
<1>9. CASE UNCHANGED vars
  BY <1>9 DEF vars, NewsTypes
<1>10. QED
  BY <1>1, <1>2, <1>3, <1>4, <1>5, <1>6, <1>7, <1>8, <1>9 DEF Next

LEMMA FrameTypesStep == Marks /\ FrameTypes /\ [Next]_vars => FrameTypes'
<1> SUFFICES ASSUME Marks, FrameTypes, [Next]_vars PROVE FrameTypes'
  OBVIOUS
<1> DEFINE Quietly == UNCHANGED <<frames, frameNumber, frame, shown>>
<1>1. CASE Quietly
  BY <1>1 DEF FrameTypes
<1>2. ASSUME NEW a \in Actors, NEW name \in Operations, call(a, name) PROVE Quietly
  BY <1>2 DEF call, queueVars, callbackVars, historyVars
<1>3. ASSUME NEW a \in Actors, Operate(a) PROVE Quietly
  BY <1>3, OperationsDropNothing
<1>4. ASSUME NEW s \in NativeStates, OnState(s) PROVE Quietly
  BY <1>4 DEF OnState, queueVars, historyVars
<1>5. ASSUME postState \/ OnError \/ handlerReturns PROVE Quietly
  BY <1>5 DEF postState, postOutputState, OnError, postOutputError, handlerReturns,
              historyVars, callbackVars
<1>6. ASSUME NEW skip \in {0, 1}, OnFrame(skip) PROVE FrameTypes'
  <2>1. /\ UNCHANGED <<frames, shown>>
        /\ frameNumber' = frameNumber + skip + 1
    BY <1>6 DEF OnFrame, queueVars, historyVars
  <2>2. frameNumber' \in Nat /\ frameNumber' > frameNumber /\ frameNumber \in Nat
    BY <2>1 DEF Marks
  <2>3. QED
    BY <2>1, <2>2 DEF FrameTypes
<1>7. CASE postFrame
  <2> DEFINE new == [number |-> frameNumber, marked |-> frame = "marked"]
  <2>1. /\ frame # "none" /\ frame' = "none" /\ UNCHANGED <<frameNumber, shown>>
        /\ \/ UNCHANGED frames
           \/ Len(frames) < Capacity /\ frames' = Append(frames, new)
    BY <1>7 DEF postFrame, historyVars
  <2>2. CASE UNCHANGED frames
    BY <2>1, <2>2 DEF FrameTypes
  <2>3. CASE Len(frames) < Capacity /\ frames' = Append(frames, new)
    <3>n. PICK n \in Nat : n = Len(frames)
      BY DEF Marks
    <3>1. new \in Frame /\ new.number \in 1 .. frameNumber
      BY <2>1 DEF Marks, Frame, FrameTypes
    <3> HIDE DEF new
    <3>2. /\ Len(frames') = n + 1 /\ frames'[n + 1] = new
          /\ \A i \in 1 .. n : frames'[i] = frames[i]
      BY <2>3, <3>n, <3>1 DEF Marks
    <3>3. ASSUME NEW i \in 1 .. n + 1 PROVE frames'[i].number \in 1 .. frameNumber
      <4>1. CASE i = n + 1
        BY <3>1, <3>2, <4>1
      <4>2. CASE i # n + 1
        BY <3>n, <3>2, <4>2 DEF FrameTypes
      <4>3. QED
        BY <4>1, <4>2
    <3>4. Len(frames') <= Capacity
      BY <2>3, <3>n, <3>2, StorageOutputAssumption
    <3>5. QED
      BY <2>1, <3>2, <3>3, <3>4 DEF FrameTypes
  <2>4. QED
    BY <2>1, <2>2, <2>3
<1>8. CASE run
  <2>1. CASE runFrame
    <3>n. PICK n \in Nat : n = Len(frames)
      BY DEF Marks
    <3>1. /\ frames # <<>> /\ frames' = Tail(frames) /\ shown' = Head(frames).number
          /\ UNCHANGED <<frameNumber, frame>>
      BY <1>8, <2>1 DEF run, runFrame, callbackVars
    <3>2. n # 0
      BY <3>n, <3>1, EmptySeq DEF Marks
    <3>3. /\ Head(frames) = frames[1] /\ Len(frames') = n - 1
          /\ \A i \in 1 .. n - 1 : frames'[i] = frames[i + 1]
      BY <3>n, <3>1, <3>2 DEF Marks
    <3>4. ASSUME NEW i \in 1 .. n - 1 PROVE frames'[i].number \in 1 .. frameNumber
      <4>1. i + 1 \in 1 .. n
        OBVIOUS
      <4>2. QED
        BY <3>n, <3>3, <4>1 DEF FrameTypes
    <3>5. shown' \in 0 .. frameNumber
      BY <3>n, <3>1, <3>2, <3>3 DEF FrameTypes
    <3>6. Len(frames') <= Capacity
      BY <3>n, <3>3, StorageOutputAssumption DEF FrameTypes
    <3>7. QED
      BY <3>1, <3>3, <3>4, <3>5, <3>6 DEF FrameTypes
  <2>2. CASE ~runFrame
    BY <1>1, <1>8, <2>2, OtherRuns
  <2>3. QED
    BY <2>1, <2>2
<1>9. ASSUME NEW r \in Replays, replayCloses(r) PROVE Quietly
  BY <1>9 DEF replayCloses, queueVars, callbackVars, historyVars
<1>10. CASE UNCHANGED vars
  BY <1>1, <1>10 DEF vars, queueVars, callbackVars, historyVars
<1>11. QED
  BY <1>1, <1>2, <1>3, <1>4, <1>5, <1>6, <1>7, <1>8, <1>9, <1>10 DEF Next

\* The output's fields have their types, its queue keeps within its capacity, and
\* its gates belong to the operations between two steps (output.go:43-90, 298-340).
THEOREM OutputTypes == Spec => []TypeOK
<1>1. Init => TypesInv
  <2> SUFFICES ASSUME Init PROVE TypesInv
    OBVIOUS
  <2>1. Marks /\ Len(frames) = 0
    BY InitialMarks, EmptySeq DEF Init
  <2>2. ObjectTypes
    <3>1. deps \in SUBSET Replays /\ happened \in 0 .. MaxEvents
      BY StorageOutputAssumption DEF Init
    <3>2. QED
      BY <3>1 DEF Init, ObjectTypes, NativeStates
  <2>5. NewsTypes
    BY DEF Init, NewsTypes, NativeStates
  <2>3. FrameTypes
    BY <2>1, StorageOutputAssumption DEF Init, FrameTypes
  <2>4. QED
    BY <2>1, <2>2, <2>3, <2>5, InitHolds DEF TypesInv
<1>2. TypesInv /\ [Next]_vars => TypesInv'
  BY InvariantStep, MarksStep, ObjectStep, NewsTypesStep, FrameTypesStep DEF TypesInv
<1>3. TypesInv => TypeOK
  <2> SUFFICES ASSUME TypesInv PROVE TypeOK
    OBVIOUS
  <2>1. frames \in Seq([number : 1 .. frameNumber, marked : BOOLEAN])
    <3>n. PICK n \in Nat : n = Len(frames)
      BY DEF TypesInv, Marks
    <3>1. ASSUME NEW i \in 1 .. n
          PROVE  frames[i] \in [number : 1 .. frameNumber, marked : BOOLEAN]
      <4>1. frames[i] \in Frame /\ frames[i].number \in 1 .. frameNumber
        BY <3>n DEF TypesInv, Marks, FrameTypes
      <4>2. QED
        BY <4>1 DEF Frame
    <3>2. frames \in [1 .. n -> [number : 1 .. frameNumber, marked : BOOLEAN]]
      <4>1. frames \in [1 .. n -> Frame]
        BY <3>n, LenProperties DEF TypesInv, Marks
      <4>2. QED
        BY <3>1, <4>1
    <3>3. QED
      BY <3>2, SeqDef
  <2>2. /\ bound \in Replays \cup {Unbound} /\ released \in SUBSET Replays
        /\ \A a \in Actors :
             /\ job[a] \in Operations \cup {"none"}
             /\ at[a] \in Locked <=> op = a
             /\ \A r \in Replays : gate[r] = a <=> at[a] \in Gated /\ target[a] = r
    BY DEF TypesInv, IInv, CallsMakeSense, GatesAreHeld, Bindings
  <2>3. /\ Len(frames) <= Capacity /\ dropped \in BOOLEAN
        /\ frame \in {"none", "plain", "marked"}
        /\ frameNumber \in Nat /\ shown \in 0 .. frameNumber
    BY DEF TypesInv, Marks, FrameTypes
  <2>4. QED
    BY <2>1, <2>2, <2>3 DEF TypesInv, ObjectTypes, NewsTypes, TypeOK
<1>4. QED
  BY <1>1, <1>2, <1>3, PTL DEF Spec

-----------------------------------------------------------------------------
(* The rules of ownership *)

liveObjects == replaysOf(Replays \ released)
                 \cup (IF native = "open" THEN {theOutput} ELSE {})
goneObjects == replaysOf(released) \cup (IF native = "open" THEN {} ELSE {theOutput})
attachments == {theOutput} \X replaysOf({attached} \ {Unbound})

LEMMA Names ==
  /\ \A r : <<"replay", r>> # theOutput
  /\ \A S : theOutput \notin replaysOf(S)
  /\ \A r, S : <<"replay", r>> \in replaysOf(S) <=> r \in S
BY DEF theOutput, replaysOf

\* Steps that the mapping does not see.
LEMMA Unseen ==
  ASSUME UNCHANGED <<attached, released, native>>
  PROVE  UNCHANGED Own!vars
BY DEF Own!vars, replaysOf

LEMMA AttachesOwned ==
  ASSUME IInv, native = "open", NEW a \in Actors, nativeAttach(a)
  PROVE  Own!Next
<1> DEFINE replay == <<"replay", target[a]>>
<1>1. /\ target[a] \in Replays \ released /\ attached = Unbound
      /\ attached' = target[a] /\ UNCHANGED <<released, native>>
  BY DEF nativeAttach, objectVars, IInv, CallsMakeSense, Bindings, Progress, Gated
<1>2. {theOutput, replay} \subseteq liveObjects
  BY <1>1, Names DEF liveObjects
<1>3. attachments = {} /\ attachments' = {<<theOutput, replay>>}
  BY <1>1, StorageOutputAssumption DEF attachments, replaysOf
<1>4. UNCHANGED <<liveObjects, goneObjects>>
  BY <1>1 DEF liveObjects, goneObjects, replaysOf
<1>5. Own!Attach(theOutput, replay)
  BY <1>2, <1>3, <1>4 DEF Own!Attach, liveObjects, goneObjects, attachments
<1>6. QED
  BY <1>2, <1>5 DEF Own!Next, liveObjects

LEMMA DetachesOwned ==
  ASSUME IInv, NEW a \in Actors, nativeDetach(a)
  PROVE  Own!Next
<1> DEFINE use == <<theOutput, <<"replay", attached>>>>
<1>1. /\ attached \in Replays
      /\ attached' = Unbound /\ UNCHANGED <<released, native>>
  BY DEF nativeDetach, objectVars, IInv, CallsMakeSense, Bindings, Progress, Gated
<1>2. attachments = {use} /\ attachments' = {}
  BY <1>1, StorageOutputAssumption DEF attachments, replaysOf
<1>3. UNCHANGED <<liveObjects, goneObjects>>
  BY <1>1 DEF liveObjects, goneObjects, replaysOf
<1>4. Own!Detach(use)
  BY <1>2, <1>3 DEF Own!Detach, liveObjects, goneObjects, attachments
<1>5. QED
  BY <1>2, <1>4 DEF Own!Next, attachments

LEMMA DestroysOwned ==
  ASSUME IInv, native = "open", NEW a \in Actors, destroy(a)
  PROVE  Own!Next
<1>1. attached = Unbound /\ native' = "closed" /\ UNCHANGED <<attached, released>>
  BY DEF destroy, bindings, IInv, Bindings, Progress, Nowhere
<1>2. attachments = {} /\ attachments' = {}
  BY <1>1 DEF attachments, replaysOf
<1>3. theOutput \in liveObjects
  BY DEF liveObjects
<1>4. liveObjects' = liveObjects \ {theOutput} /\ goneObjects' = goneObjects \cup {theOutput}
  BY <1>1, Names DEF liveObjects, goneObjects, replaysOf
<1>5. Own!Destroy(theOutput)
  BY <1>2, <1>3, <1>4 DEF Own!Destroy, liveObjects, goneObjects, attachments
<1>6. QED
  BY <1>5 DEF Own!Next

\* Whoever has the output attached without its gate: nobody.
LEMMA FreeReplayIsUnattached ==
  ASSUME IInv, NEW r \in Replays, gate[r] = Free, r \notin deps
  PROVE  attached # r
<1>1. \A a \in Actors : at[a] \in Gated => target[a] # r
  BY NobodyIsFree DEF IInv, GatesAreHeld
<1>2. CASE op = Free
  BY <1>2, StorageOutputAssumption DEF IInv, Bindings, Agree
<1>3. CASE op # Free
  <2>1. op \in Actors /\ at[op] \in Locked
    BY <1>3 DEF IInv, GatesAreHeld
  <2>2. QED
    BY <1>1, <2>1, StorageOutputAssumption
       DEF IInv, Bindings, Progress, Agree, Nowhere, Locked, Gated
<1>4. QED
  BY <1>2, <1>3

LEMMA ReplayGoes ==
  ASSUME IInv, NEW r \in Replays, replayCloses(r)
  PROVE  Own!Next
<1> DEFINE replay == <<"replay", r>>
<1>1. /\ r \in Replays \ released /\ attached # r
      /\ released' = released \cup {r} /\ UNCHANGED <<attached, native>>
  BY FreeReplayIsUnattached DEF replayCloses, objectVars
<1>2. replay \in liveObjects
  BY <1>1, Names DEF liveObjects
<1>3. \A use \in attachments : use[1] # replay /\ use[2] # replay
  BY <1>1, Names DEF attachments, replaysOf
<1>4. liveObjects' = liveObjects \ {replay} /\ goneObjects' = goneObjects \cup {replay}
  <2>1. /\ replaysOf(Replays \ released)' = replaysOf(Replays \ released) \ {replay}
        /\ replaysOf(released)' = replaysOf(released) \cup {replay}
    BY <1>1 DEF replaysOf
  <2>2. QED
    BY <1>1, <2>1, Names DEF liveObjects, goneObjects
<1>5. attachments' = attachments
  BY <1>1 DEF attachments, replaysOf
<1>6. Own!Destroy(replay)
  BY <1>2, <1>3, <1>4, <1>5 DEF Own!Destroy, liveObjects, goneObjects, attachments
<1>7. replay \in replaysOf(Replays)
  BY Names
<1>8. QED
  BY <1>6, <1>7 DEF Own!Next

LEMMA OwnershipStep == IInv /\ TypeOK /\ [Next]_vars => [Own!Next]_Own!vars
<1> SUFFICES ASSUME IInv, TypeOK, [Next]_vars PROVE Own!Next \/ UNCHANGED Own!vars
  OBVIOUS
<1> DEFINE Out == UNCHANGED <<attached, released, native>>
<1>1. ASSUME NEW a \in Actors, Operate(a) PROVE Own!Next \/ Out
  <2>1. at[a] \in {"attaching", "destroying"} => native = "open"
    BY DEF TypeOK, IInv, Bindings, Progress, Locked, Gated
  <2>2. CASE nativeAttach(a)
    BY <2>1, <2>2, AttachesOwned DEF nativeAttach
  <2>3. CASE nativeDetach(a)
    BY <2>3, DetachesOwned
  <2>4. CASE destroy(a)
    BY <2>1, <2>4, DestroysOwned DEF destroy
  <2>5. CASE beginAttach(a) \/ bind(a) \/ enterNative(a) \/ nativeFails(a)
    BY <2>5 DEF beginAttach, bind, enterNative, nativeFails, bindings, objectVars
  <2>6. CASE lookBound(a) \/ beginDetach(a) \/ unbind(a) \/ setIdle(a) \/ postIdle(a)
    BY <2>6 DEF lookBound, beginDetach, unbind, setIdle, postIdle, bindings, objectVars
  <2>7. CASE \/ preflight(a) \/ lookClose(a) \/ beginClose(a) \/ leaveClosed(a)
             \/ closeQueue(a) \/ waitIdle(a) \/ TakeSnapshot(a)
    BY <2>7 DEF preflight, lookClose, beginClose, leaveClosed, closeQueue, waitIdle,
                TakeSnapshot, beginSnapshot, endSnapshot, bindings, objectVars
  <2>8. QED
    BY <1>1, <2>2, <2>3, <2>4, <2>5, <2>6, <2>7 DEF Operate, Attach, Detach, Close
<1>2. ASSUME NEW a \in Actors, NEW name \in Operations, call(a, name) PROVE Out
  BY <1>2 DEF call, bindings, objectVars
<1>3. ASSUME NEW s \in NativeStates, OnState(s) PROVE Out
  BY <1>3 DEF OnState, bindings
<1>4. ASSUME NEW skip \in {0, 1}, OnFrame(skip) PROVE Out
  BY <1>4 DEF OnFrame, bindings
<1>5. ASSUME postState \/ OnError \/ postFrame \/ run \/ handlerReturns PROVE Out
  BY <1>5 DEF postState, OnError, postFrame, run, handlerReturns, bindings, objectVars
<1>6. CASE UNCHANGED vars
  BY <1>6, Unseen DEF vars, bindings, objectVars
<1>7. ASSUME Out PROVE UNCHANGED Own!vars
  BY <1>7, Unseen
<1>8. QED
  BY <1>1, <1>2, <1>3, <1>4, <1>5, <1>6, <1>7, ReplayGoes DEF Next

\* What native has attached the output to follows the rules of ownership, however
\* Attach, Detach, Close and the closes of the replays overlap (output.go:91-186,
\* 389-426; replay.go:231-276).
THEOREM OutputOwns == Spec => ImplementsOwnership
<1>1. Init => Own!Init
  BY Names DEF Init, Own!Init, replaysOf
<1>2. IInv /\ TypeOK /\ [Next]_vars => [Own!Next]_Own!vars
  BY OwnershipStep
<1>3. QED
  BY <1>1, <1>2, InvariantHolds, OutputTypes, PTL DEF Spec, ImplementsOwnership, Own!Spec
=============================================================================
