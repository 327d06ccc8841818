------------------------- MODULE ManagedCloseProofs -------------------------
(***************************************************************************)
(* Proofs about ManagedClose, for any number of goroutines, connections,   *)
(* outputs, recordings, raw dumps and calls: native objects are destroyed  *)
(* after what depends on them and by one actor at a time, and a close that *)
(* fails leaves nothing behind.                                            *)
(***************************************************************************)
EXTENDS ManagedClose, FiniteSetTheorems, SequenceTheorems, TLAPS

-----------------------------------------------------------------------------
(* Plans *)

\* The steps inside one connection, and those of the client's walk.
Work == {"stop", "stopDump", "closeDump", "detachFromClient", "close", "destroyConn"}
Walk == {"preflight", "preflightOutput", "closeFromClient", "connReleased",
         "destroyClient"}

ClientSteps == {Do(name) : name \in {"closeClient", "destroyClient", "settle"}}
ConnSteps == {On(name, c) : name \in {"preflight", "closeFromClient", "connReleased",
                                      "close", "destroyConn"},
                            c \in Connections}
OutputSteps == {On(name, o) : name \in {"preflightOutput", "detachFromClient"},
                              o \in Outputs}
RecordingSteps == {On("stop", r) : r \in Recordings}
DumpSteps == {On(name, d) : name \in {"stopDump", "closeDump"}, d \in Dumps}
Steps == ClientSteps \cup ConnSteps \cup OutputSteps \cup RecordingSteps \cup DumpSteps

Places == {"start", "failed", "native", "kept", "stopping", "stopped", "destroying",
           "destroyed", "looked", "begun", "closed", "waitIdle"}

\* The work inside a connection comes first and ends with its close.
WorkFirst(plan) ==
  \A i, j \in DOMAIN plan : i < j /\ plan[j][1] \in Work =>
    plan[i][1] \in Work \ {"close", "destroyConn"}

\* The walk over the connections ends with settle; what a connection's close has
\* come to is looked at directly after it.
WalkLast(plan) ==
  /\ \A i, j \in DOMAIN plan : i < j => plan[i] # Do("settle")
  /\ \A i \in DOMAIN plan : plan[i][1] \in Walk => Do("settle") \in Range(plan)
  /\ \A i, j \in DOMAIN plan : i < j /\ plan[i] = Do("destroyClient") => plan[j] = Do("settle")
  /\ \A j \in DOMAIN plan, c \in Connections :
       j > 1 /\ plan[j] = On("connReleased", c) =>
         plan[j - 1] \in {On("close", c), On("destroyConn", c)}

Shape(plan) == WorkFirst(plan) /\ WalkLast(plan)

Ahead(a) == Range(todo[a])

-----------------------------------------------------------------------------
(* The invariant *)

CallTypes == /\ todo \in [Actors -> Seq(Steps)]
             /\ at \in [Actors -> Places]

Destroyed(a) == Doing(a, "destroyConn", "destroyed") \/ Doing(a, "destroyConn", "closed")

\* Who is at a step knows how far its object is.
AtStep(a) ==
  /\ todo[a] = <<>> => at[a] = "start"
  /\ Doing(a, "connReleased", "start") => Object(a) \in connClosed
  /\ Doing(a, "stop", "native") => recording[Object(a)] = "stopping"
  /\ InDump(a) => dumpMu[Object(a)] = a /\ dump[Object(a)] = "live"
  /\ Doing(a, "closeDump", "destroyed") => dump[Object(a)] = "destroyed"

Live(d, c) == dump[d] = "live" /\ parent[d] = c

\* A close that has still to destroy a connection holds its opMu, so nothing
\* attaches or starts, and has every raw dump that is alive before it.
ClosesConn(a) ==
  \A c \in Connections : On("destroyConn", c) \in Ahead(a) =>
    /\ opMu[c] = a
    /\ DepsOf(c) = {} /\ TasksOf(c) = {}
    /\ \A d \in Dumps : Live(d, c) => On("closeDump", d) \in Ahead(a)
    /\ conn[c] = IF Destroyed(a) THEN "destroyed" ELSE "open"
    /\ c \in connClosed <=> Doing(a, "destroyConn", "closed")
    /\ Doing(a, "destroyConn", "begun") \/ Destroyed(a) => c \in shut

\* A close of the client has every connection that is open before it.
ClosesClient(a) ==
  /\ Do("settle") \in Ahead(a) => closing
  /\ Do("destroyClient") \in Ahead(a) =>
       \A c \in Connections : conn[c] = "open" =>
         On("closeFromClient", c) \in Ahead(a) \/ On("connReleased", c) \in Ahead(a)

\* What is closed has been made.
Known(a) ==
  \A c \in Connections : On("close", c) \in Ahead(a) \/ On("closeFromClient", c) \in Ahead(a) =>
    conn[c] # "none"

Local(a) == Shape(todo[a]) /\ AtStep(a) /\ ClosesConn(a) /\ ClosesClient(a) /\ Known(a)

\* One actor at a time is in the native Stop of a recording.
OneStopper ==
  \A a, b \in Actors :
    Doing(a, "stop", "native") /\ Doing(b, "stop", "native") /\ Object(a) = Object(b) => a = b

OneClient ==
  /\ \A a, b \in Actors : Do("settle") \in Ahead(a) /\ Do("settle") \in Ahead(b) => a = b
  /\ closing => \E a \in Actors : Do("settle") \in Ahead(a)
  /\ client = "destroyed" => /\ clientClosed \/ \E a \in Actors : Doing(a, "settle", "start")
                             /\ \A c \in Connections : conn[c] # "open"

Objects ==
  /\ \A r \in Recordings : recording[r] = "none" => parent[r] = NoOne
  /\ \A d \in Dumps : /\ dump[d] = "none" => parent[d] = NoOne
                      /\ dump[d] = "live" => d \in dumps
                      /\ dumpMu[d] # Free => InDump(dumpMu[d]) /\ Object(dumpMu[d]) = d

\* Nothing is left of a connection that is destroyed, and a mailbox that has
\* been shut belongs to the one who closes the connection.
ConnOK(c) ==
  /\ conn[c] = "open" => c \in registry
  /\ c \in connClosed => conn[c] = "destroyed"
  /\ c \in shut => c \notin handling
  /\ opMu[c] # Free => On("destroyConn", c) \in Ahead(opMu[c])
  /\ c \in shut \ connClosed =>
       /\ opMu[c] # Free
       /\ todo[opMu[c]] # <<>> /\ Head(todo[opMu[c]]) = On("destroyConn", c)
  /\ conn[c] = "destroyed" =>
       /\ c \in shut /\ DepsOf(c) = {} /\ TasksOf(c) = {}
       /\ \A d \in Dumps : ~Live(d, c)

IInv == /\ Types /\ CallTypes
        /\ \A a \in Actors : Local(a)
        /\ OneStopper /\ OneClient /\ Objects
        /\ \A c \in Connections : ConnOK(c)

-----------------------------------------------------------------------------
(* Facts about plans *)

LEMMA HeadAndTail ==
  ASSUME NEW plan \in Seq(Steps), plan # <<>>
  PROVE  /\ Head(plan) \in Steps /\ Tail(plan) \in Seq(Steps)
         /\ Head(plan) = plan[1] /\ 1 \in DOMAIN plan
         /\ Range(plan) = {Head(plan)} \cup Range(Tail(plan))
         /\ Len(Tail(plan)) = Len(plan) - 1 /\ Len(plan) \in Nat /\ Len(plan) # 0
         /\ DOMAIN plan = 1 .. Len(plan) /\ DOMAIN Tail(plan) = 1 .. (Len(plan) - 1)
         /\ \A i \in DOMAIN Tail(plan) : Tail(plan)[i] = plan[i + 1]
<1> DEFINE rest == Tail(plan)
<1>1. /\ Head(plan) \in Steps /\ rest \in Seq(Steps) /\ Len(rest) = Len(plan) - 1
      /\ \A i \in 1 .. Len(rest) : rest[i] = plan[i + 1]
      /\ Len(plan) \in Nat /\ Len(plan) # 0 /\ DOMAIN plan = 1 .. Len(plan)
      /\ DOMAIN rest = 1 .. Len(rest) /\ Head(plan) = plan[1]
  BY HeadTailProperties, EmptySeq
<1>2. \A i \in DOMAIN rest : i + 1 \in DOMAIN plan /\ rest[i] = plan[i + 1]
  BY <1>1
<1>3. \A i \in DOMAIN plan : i = 1 \/ (i - 1 \in DOMAIN rest /\ plan[i] = rest[i - 1])
  BY <1>1
<1>4. Range(plan) = {Head(plan)} \cup Range(rest)
  <2> HIDE DEF rest
  <2>1. Range(plan) \subseteq {Head(plan)} \cup Range(rest)
    BY <1>1, <1>3 DEF Range
  <2>2. {Head(plan)} \cup Range(rest) \subseteq Range(plan)
    BY <1>1, <1>2 DEF Range
  <2>3. QED
    BY <2>1, <2>2
<1>5. QED
  BY <1>1, <1>2, <1>4

\* A plan without its first n steps.
Suffix(rest, plan, n) ==
  /\ Len(plan) \in Nat /\ n \in Nat /\ n <= Len(plan)
  /\ DOMAIN plan = 1 .. Len(plan) /\ DOMAIN rest = 1 .. (Len(plan) - n)
  /\ \A i \in DOMAIN rest : rest[i] = plan[i + n]

LEMMA SuffixShape ==
  ASSUME NEW plan, NEW rest, NEW n, Suffix(rest, plan, n), Shape(plan)
  PROVE  /\ Shape(rest)
         /\ Range(rest) \subseteq Range(plan)
         /\ Do("settle") \in Range(plan) /\ rest # <<>> => Do("settle") \in Range(rest)
<1>1. \A i \in DOMAIN rest : i \in Nat /\ i + n \in DOMAIN plan /\ rest[i] = plan[i + n]
  BY DEF Suffix
<1>2. \A i, j \in DOMAIN rest : i < j => i + n < j + n
  BY DEF Suffix
<1>3. Range(rest) \subseteq Range(plan)
  BY <1>1 DEF Range
<1>4. ASSUME Do("settle") \in Range(plan), NEW i \in DOMAIN rest
      PROVE  Do("settle") \in Range(rest)
  <2>1. PICK k \in DOMAIN plan : plan[k] = Do("settle")
    BY <1>4 DEF Range
  <2>2. ~(k < i + n)
    BY <1>1, <1>4, <2>1 DEF Shape, WalkLast
  <2>3. k - n \in DOMAIN rest /\ (k - n) + n = k
    BY <2>2, <1>4 DEF Suffix
  <2>4. QED
    BY <1>1, <2>1, <2>3 DEF Range
<1>5. WorkFirst(rest)
  BY <1>1, <1>2 DEF Shape, WorkFirst
<1>6. WalkLast(rest)
  <2>1. \A i, j \in DOMAIN rest : i < j => rest[i] # Do("settle")
    BY <1>1, <1>2 DEF Shape, WalkLast
  <2>2. \A i \in DOMAIN rest : rest[i][1] \in Walk => Do("settle") \in Range(rest)
    BY <1>1, <1>4 DEF Shape, WalkLast
  <2>3. \A i, j \in DOMAIN rest :
          i < j /\ rest[i] = Do("destroyClient") => rest[j] = Do("settle")
    BY <1>1, <1>2 DEF Shape, WalkLast
  <2>4. ASSUME NEW j \in DOMAIN rest, NEW c \in Connections, j > 1,
               rest[j] = On("connReleased", c)
        PROVE  rest[j - 1] \in {On("close", c), On("destroyConn", c)}
    <3>1. /\ j + n \in DOMAIN plan /\ j + n > 1 /\ plan[j + n] = On("connReleased", c)
          /\ j - 1 \in DOMAIN rest /\ (j - 1) + n = (j + n) - 1
      BY <1>1, <2>4 DEF Suffix
    <3>2. QED
      BY <1>1, <3>1 DEF Shape, WalkLast
  <2>5. QED
    BY <2>1, <2>2, <2>3, <2>4 DEF WalkLast
<1>7. rest # <<>> => DOMAIN rest # {}
  BY DEF Suffix
<1>8. QED
  BY <1>3, <1>4, <1>5, <1>6, <1>7 DEF Shape

LEMMA TailShape ==
  ASSUME NEW plan \in Seq(Steps), plan # <<>>, Shape(plan)
  PROVE  /\ Shape(Tail(plan)) /\ Tail(plan) \in Seq(Steps)
         /\ Range(plan) = {Head(plan)} \cup Range(Tail(plan))
<1>1. Suffix(Tail(plan), plan, 1)
  BY HeadAndTail DEF Suffix
<1>2. QED
  BY <1>1, SuffixShape, HeadAndTail

NoWork(plan) == \A i \in DOMAIN plan : plan[i][1] \notin Work

\* An operation that fails goes on where it recovers: the rest of its plan has no
\* work in it, and every connection that it has not come to.
RecoversTo(rest, plan) ==
  /\ rest \in Seq(Steps) /\ rest # <<>> /\ Head(rest)[1] \in Recovery
  /\ Shape(rest) /\ NoWork(rest)
  /\ Range(rest) \subseteq Range(plan)
  /\ Do("settle") \in Range(plan) => Do("settle") \in Range(rest)
  /\ Do("destroyClient") \in Range(rest) =>
       \A c \in Connections :
         /\ On("closeFromClient", c) \in Range(plan) => On("closeFromClient", c) \in Range(rest)
         /\ On("connReleased", c) \in Range(plan) => On("connReleased", c) \in Range(rest)

LEMMA RecoveredPlan ==
  ASSUME NEW plan \in Seq(Steps), Shape(plan), plan # <<>>,
         Head(plan)[1] \notin Recovery \cup {"closeFromClient"},
         NEW next \in DOMAIN plan, plan[next][1] \in Recovery,
         \A i \in DOMAIN plan : plan[i][1] \in Recovery => next <= i,
         NEW rest, rest = SubSeq(plan, next, Len(plan))
  PROVE  RecoversTo(rest, plan)
<1>1. /\ Len(plan) \in Nat /\ DOMAIN plan = 1 .. Len(plan) /\ next \in 1 .. Len(plan)
      /\ \A i \in DOMAIN plan : plan[i] \in Steps
  BY LenProperties
<1>2. /\ rest \in Seq(Steps) /\ Len(rest) = Len(plan) - next + 1
      /\ \A i \in 1 .. Len(plan) - next + 1 : rest[i] = plan[next + i - 1]
  BY <1>1, SubSeqProperties
<1>3. DOMAIN rest = 1 .. (Len(plan) - (next - 1))
  BY <1>2, LenProperties
<1>4. Suffix(rest, plan, next - 1)
  BY <1>1, <1>2, <1>3 DEF Suffix
<1>5. /\ rest # <<>> /\ rest[1] = plan[next] /\ Head(rest) = rest[1]
  BY <1>1, <1>2, <1>3, HeadAndTail
<1>6. Shape(rest) /\ Range(rest) \subseteq Range(plan)
      /\ (Do("settle") \in Range(plan) => Do("settle") \in Range(rest))
  BY <1>4, <1>5, SuffixShape
<1>7. NoWork(rest)
  <2>1. 1 \in DOMAIN rest /\ rest[1][1] \notin Work
    BY <1>1, <1>3, <1>5 DEF Recovery, Work
  <2>2. \A i \in DOMAIN rest : i = 1 \/ 1 < i
    BY <1>3
  <2>3. QED
    BY <1>6, <2>1, <2>2 DEF Shape, WorkFirst, NoWork
<1>8. ASSUME Do("destroyClient") \in Range(rest), NEW i \in DOMAIN plan,
             plan[i][1] \in {"closeFromClient", "connReleased"}
      PROVE  plan[i] \in Range(rest)
  <2>1. i >= next
    <3>1. CASE plan[i][1] = "connReleased"
      BY <3>1 DEF Recovery
    <3>2. CASE plan[i][1] = "closeFromClient" /\ plan[next][1] = "settle"
      <4>1. plan[next] = Do("settle")
        BY <1>1, <3>2 DEF Steps, ClientSteps, ConnSteps, OutputSteps, RecordingSteps,
                          DumpSteps, Do, On
      <4>2. \A j \in DOMAIN rest : rest[j] = plan[j + (next - 1)] /\ j + (next - 1) \in DOMAIN plan
        BY <1>4 DEF Suffix
      <4>3. \A j \in DOMAIN rest : j = 1 \/ 1 < j
        BY <1>3
      <4>4. ASSUME NEW j \in DOMAIN rest PROVE j = 1
        <5>1. 1 \in DOMAIN rest /\ rest[1] = Do("settle")
          BY <1>3, <1>1, <1>5, <4>1
        <5>2. ~(1 < j)
          BY <1>6, <5>1 DEF Shape, WalkLast
        <5>3. QED
          BY <4>3, <5>2
      <4>5. Do("destroyClient") = rest[1]
        BY <1>8, <4>4 DEF Range
      <4>6. QED
        BY <1>5, <4>1, <4>5 DEF Do
    <3>3. CASE plan[i][1] = "closeFromClient" /\ plan[next][1] = "connReleased"
      <4>1. PICK c \in Connections : plan[next] = On("connReleased", c)
        BY <1>1, <3>3 DEF Steps, ClientSteps, ConnSteps, OutputSteps, RecordingSteps,
                          DumpSteps, Do, On
      <4>2. next > 1
        <5>1. plan[1] = Head(plan)
          BY HeadAndTail
        <5>2. QED
          BY <1>1, <5>1
      <4>3. plan[next - 1][1] \in Work /\ next - 1 \in DOMAIN plan
        BY <1>1, <4>1, <4>2 DEF Shape, WalkLast, Work, On
      <4>4. \A j \in DOMAIN plan : j < next - 1 => plan[j][1] \in Work
        BY <4>3 DEF Shape, WorkFirst
      <4>5. plan[i][1] \notin Work
        BY <3>3 DEF Work
      <4>6. QED
        BY <1>1, <4>3, <4>4, <4>5
    <3>4. QED
      BY <1>8, <3>1, <3>2, <3>3 DEF Recovery
  <2>2. i - (next - 1) \in DOMAIN rest /\ rest[i - (next - 1)] = plan[i]
    BY <1>1, <1>4, <2>1 DEF Suffix
  <2>3. QED
    BY <2>2 DEF Range
<1>9. ASSUME Do("destroyClient") \in Range(rest), NEW c \in Connections,
             NEW name \in {"closeFromClient", "connReleased"}, On(name, c) \in Range(plan)
      PROVE  On(name, c) \in Range(rest)
  <2>1. PICK i \in DOMAIN plan : plan[i] = On(name, c)
    BY <1>9 DEF Range
  <2>2. plan[i][1] = name
    BY <2>1 DEF On
  <2>3. QED
    BY <1>8, <1>9, <2>1, <2>2
<1>10. Head(rest)[1] \in Recovery
  BY <1>5
<1>11. Do("destroyClient") \in Range(rest) =>
         \A c \in Connections :
           /\ On("closeFromClient", c) \in Range(plan) =>
                On("closeFromClient", c) \in Range(rest)
           /\ On("connReleased", c) \in Range(plan) =>
                On("connReleased", c) \in Range(rest)
  BY <1>9
<1>12. QED
  BY <1>2, <1>5, <1>6, <1>7, <1>10, <1>11 DEF RecoversTo

-----------------------------------------------------------------------------
(* Longer plans *)

\* Where the steps of a plan come from that has been put together of two.
IsJoin(plan, first, rest) ==
  /\ plan \in Seq(Steps)
  /\ Range(plan) = Range(first) \cup Range(rest)
  /\ Len(first) \in Nat /\ DOMAIN first = 1 .. Len(first)
  /\ Len(rest) \in Nat /\ DOMAIN rest = 1 .. Len(rest)
  /\ DOMAIN plan = 1 .. (Len(first) + Len(rest))
  /\ \A i \in DOMAIN plan :
       \/ i \in DOMAIN first /\ plan[i] = first[i]
       \/ i - Len(first) \in DOMAIN rest /\ plan[i] = rest[i - Len(first)]
  /\ \A i \in DOMAIN first : i \in DOMAIN plan /\ plan[i] = first[i]
  /\ \A i \in DOMAIN rest : /\ i + Len(first) \in DOMAIN plan
                            /\ plan[i + Len(first)] = rest[i]

LEMMA Joined ==
  ASSUME NEW first \in Seq(Steps), NEW rest \in Seq(Steps), NEW plan, plan = first \o rest
  PROVE  IsJoin(plan, first, rest)
<1>1. /\ Len(first) \in Nat /\ DOMAIN first = 1 .. Len(first)
      /\ Len(rest) \in Nat /\ DOMAIN rest = 1 .. Len(rest)
  BY LenProperties
<1>2. /\ plan \in Seq(Steps) /\ Len(plan) = Len(first) + Len(rest)
      /\ \A i \in 1 .. Len(first) + Len(rest) :
           plan[i] = IF i <= Len(first) THEN first[i] ELSE rest[i - Len(first)]
  BY ConcatProperties
<1>3. DOMAIN plan = 1 .. (Len(first) + Len(rest))
  BY <1>2, LenProperties
<1>4. \A i \in DOMAIN plan :
              \/ i \in DOMAIN first /\ plan[i] = first[i]
              \/ i - Len(first) \in DOMAIN rest /\ plan[i] = rest[i - Len(first)]
  BY <1>1, <1>2, <1>3
<1>5. \A i \in DOMAIN first : i \in DOMAIN plan /\ plan[i] = first[i]
  BY <1>1, <1>2, <1>3
<1>6. \A i \in DOMAIN rest : i + Len(first) \in DOMAIN plan /\ plan[i + Len(first)] = rest[i]
  <2> SUFFICES ASSUME NEW i \in DOMAIN rest
               PROVE  i + Len(first) \in DOMAIN plan /\ plan[i + Len(first)] = rest[i]
    OBVIOUS
  <2>1. /\ i \in Nat /\ i + Len(first) \in 1 .. Len(first) + Len(rest)
        /\ ~(i + Len(first) <= Len(first)) /\ (i + Len(first)) - Len(first) = i
    BY <1>1
  <2>2. QED
    BY <1>2, <1>3, <2>1
<1>7. Range(plan) = Range(first) \cup Range(rest)
  <2>1. \A x : x \in Range(plan) => x \in Range(first) \cup Range(rest)
    BY <1>4 DEF Range
  <2>2. \A x : x \in Range(first) \cup Range(rest) => x \in Range(plan)
    BY <1>5, <1>6 DEF Range
  <2>3. QED
    BY <2>1, <2>2
<1>8. QED
  BY <1>1, <1>2, <1>3, <1>4, <1>5, <1>6, <1>7 DEF IsJoin

\* Work before the rest of a plan, or steps of the walk before the rest of the walk.
Visits == {"preflight", "preflightOutput", "closeFromClient"}

LEMMA Prepended ==
  ASSUME NEW first \in Seq(Steps), NEW rest \in Seq(Steps), Shape(rest),
         1 \in DOMAIN rest => rest[1][1] # "connReleased",
         \/ \A i \in DOMAIN first : first[i][1] \in {"stop", "closeDump", "detachFromClient"}
         \/ /\ \A i \in DOMAIN first : first[i][1] \in Visits
            /\ NoWork(rest) /\ Do("settle") \in Range(rest),
         NEW plan, plan = first \o rest
  PROVE  /\ plan \in Seq(Steps) /\ Shape(plan)
         /\ Range(plan) = Range(first) \cup Range(rest)
         /\ (\A i \in DOMAIN first : first[i][1] \in Visits) /\ NoWork(rest) => NoWork(plan)
         /\ 1 \in DOMAIN plan => plan[1][1] # "connReleased"
<1>0. IsJoin(plan, first, rest)
  BY Joined
<1>1. /\ plan \in Seq(Steps) /\ Range(plan) = Range(first) \cup Range(rest)
      /\ Len(first) \in Nat /\ DOMAIN first = 1 .. Len(first)
      /\ Len(rest) \in Nat /\ DOMAIN rest = 1 .. Len(rest)
      /\ DOMAIN plan = 1 .. (Len(first) + Len(rest))
      /\ \A i \in DOMAIN plan :
           \/ i \in DOMAIN first /\ plan[i] = first[i]
           \/ i - Len(first) \in DOMAIN rest /\ plan[i] = rest[i - Len(first)]
      /\ \A i \in DOMAIN rest : i + Len(first) \in DOMAIN plan /\ plan[i + Len(first)] = rest[i]
  BY <1>0 DEF IsJoin
<1> DEFINE n == Len(first)
<1>2. /\ \A i \in DOMAIN first : /\ first[i][1] \notin {"close", "destroyConn", "settle"}
                                 /\ first[i][1] \notin {"destroyClient", "connReleased"}
      /\ \A c : On("connReleased", c)[1] = "connReleased"
      /\ Do("settle")[1] = "settle" /\ Do("destroyClient")[1] = "destroyClient"
  BY DEF On, Do, Visits
<1>3. \A i, j \in DOMAIN plan : i < j =>
        \/ i \in DOMAIN first /\ j \in DOMAIN first
        \/ i \in DOMAIN first /\ j - n \in DOMAIN rest /\ plan[j] = rest[j - n]
        \/ i - n \in DOMAIN rest /\ j - n \in DOMAIN rest /\ i - n < j - n
           /\ plan[i] = rest[i - n] /\ plan[j] = rest[j - n]
  BY <1>1
<1>4. \A i \in DOMAIN first : i \in DOMAIN plan /\ plan[i] = first[i]
  BY <1>0 DEF IsJoin
<1>5. WorkFirst(plan)
  <2> SUFFICES ASSUME NEW i \in DOMAIN plan, NEW j \in DOMAIN plan, i < j, plan[j][1] \in Work
               PROVE  plan[i][1] \in Work \ {"close", "destroyConn"}
    BY DEF WorkFirst
  <2>1. CASE i - n \in DOMAIN rest /\ j - n \in DOMAIN rest /\ i - n < j - n
             /\ plan[i] = rest[i - n] /\ plan[j] = rest[j - n]
    BY <2>1 DEF Shape, WorkFirst
  <2>2. CASE i \in DOMAIN first /\ \A k \in DOMAIN first : first[k][1] \in Work
    BY <1>2, <1>4, <2>2
  <2>3. CASE i \in DOMAIN first /\ ~ \A k \in DOMAIN first : first[k][1] \in Work
    <3>1. (\A k \in DOMAIN first : first[k][1] \in Visits) /\ NoWork(rest)
      BY <2>3 DEF Work
    <3>2. j \in DOMAIN first \/ (j - n \in DOMAIN rest /\ plan[j] = rest[j - n])
      BY <1>1
    <3>3. plan[j][1] \notin Work
      BY <1>4, <3>1, <3>2 DEF NoWork, Work, Visits
    <3>4. QED
      BY <3>3
  <2>4. QED
    BY <1>3, <2>1, <2>2, <2>3
<1>6. WalkLast(plan)
  <2>1. \A i, j \in DOMAIN plan : i < j => plan[i] # Do("settle")
    BY <1>2, <1>3, <1>4 DEF Shape, WalkLast
  <2>2. \A i \in DOMAIN plan : plan[i][1] \in Walk => Do("settle") \in Range(plan)
    <3>1. \A i \in DOMAIN rest : rest[i][1] \in Walk => Do("settle") \in Range(plan)
      BY <1>1 DEF Shape, WalkLast
    <3>2. \A i \in DOMAIN first : first[i][1] \in Walk => Do("settle") \in Range(plan)
      BY <1>1 DEF Walk
    <3>3. QED
      BY <1>1, <3>1, <3>2
  <2>3. \A i, j \in DOMAIN plan :
          i < j /\ plan[i] = Do("destroyClient") => plan[j] = Do("settle")
    BY <1>2, <1>3, <1>4 DEF Shape, WalkLast
  <2>4. ASSUME NEW j \in DOMAIN plan, NEW c \in Connections, j > 1,
               plan[j] = On("connReleased", c)
        PROVE  plan[j - 1] \in {On("close", c), On("destroyConn", c)}
    <3>1. j - n \in DOMAIN rest /\ plan[j] = rest[j - n]
      BY <1>1, <1>2, <2>4
    <3>2. j - n # 1
      BY <1>2, <2>4, <3>1
    <3>3. /\ j - n > 1 /\ (j - n) - 1 \in DOMAIN rest
          /\ ((j - n) - 1) + n = j - 1
      BY <1>1, <3>1, <3>2
    <3>4. rest[(j - n) - 1] = plan[j - 1]
      BY <1>1, <3>3
    <3>5. rest[(j - n) - 1] \in {On("close", c), On("destroyConn", c)}
      BY <2>4, <3>1, <3>3 DEF Shape, WalkLast
    <3>6. QED
      BY <3>4, <3>5
  <2>5. QED
    BY <2>1, <2>2, <2>3, <2>4 DEF WalkLast
<1>7. (\A i \in DOMAIN first : first[i][1] \in Visits) /\ NoWork(rest) => NoWork(plan)
  BY <1>1 DEF NoWork, Work, Visits
<1>8. 1 \in DOMAIN plan => plan[1][1] # "connReleased"
  <2>1. 1 \in DOMAIN first \/ n = 0
    BY <1>1
  <2>2. n = 0 /\ 1 \in DOMAIN plan => 1 \in DOMAIN rest /\ plan[1] = rest[1]
    BY <1>1
  <2>3. QED
    BY <1>2, <1>4, <2>1, <2>2
<1>9. QED
  BY <1>1, <1>5, <1>6, <1>7, <1>8 DEF Shape

\* The close of a connection before a plan that has nothing more to do in one.
LEMMA CloseAhead ==
  ASSUME NEW rest \in Seq(Steps), Shape(rest), NoWork(rest),
         NEW c \in Connections, NEW step \in {On("close", c), On("destroyConn", c)},
         \A k \in Connections :
           1 \in DOMAIN rest /\ rest[1] = On("connReleased", k) => k = c,
         NEW plan, plan = <<step>> \o rest
  PROVE  /\ plan \in Seq(Steps) /\ Shape(plan) /\ plan # <<>> /\ Head(plan) = step
         /\ Range(plan) = {step} \cup Range(rest)
         /\ 1 \in DOMAIN plan => plan[1][1] # "connReleased"
<1>1. /\ step \in Steps /\ step[1] \in {"close", "destroyConn"}
      /\ \A k : On("connReleased", k)[1] = "connReleased"
      /\ Do("settle")[1] = "settle" /\ Do("destroyClient")[1] = "destroyClient"
  BY DEF Steps, ConnSteps, On, Do
<1>2. <<step>> \in Seq(Steps) /\ Len(<<step>>) = 1 /\ <<step>>[1] = step
      /\ DOMAIN <<step>> = {1} /\ Range(<<step>>) = {step}
  BY <1>1 DEF Range
<1>3. /\ plan \in Seq(Steps) /\ Range(plan) = {step} \cup Range(rest)
      /\ Len(rest) \in Nat /\ DOMAIN rest = 1 .. Len(rest)
      /\ DOMAIN plan = 1 .. (1 + Len(rest)) /\ plan[1] = step
      /\ \A i \in DOMAIN plan : i = 1 \/ (i - 1 \in DOMAIN rest /\ plan[i] = rest[i - 1])
      /\ \A i \in DOMAIN rest : i + 1 \in DOMAIN plan /\ plan[i + 1] = rest[i]
  <2>1. IsJoin(plan, <<step>>, rest)
    BY <1>2, Joined
  <2>2. QED
    BY <1>2, <2>1 DEF IsJoin
<1>4. \A i, j \in DOMAIN plan : i < j =>
        /\ j - 1 \in DOMAIN rest /\ plan[j] = rest[j - 1]
        /\ i = 1 \/ (i - 1 \in DOMAIN rest /\ plan[i] = rest[i - 1] /\ i - 1 < j - 1)
  BY <1>3
<1>5. plan # <<>> /\ Head(plan) = step
  <2>1. plan # <<>>
    BY <1>3
  <2>2. QED
    BY <1>3, <2>1, HeadAndTail
<1>6. WorkFirst(plan)
  BY <1>4 DEF NoWork, WorkFirst
<1>7. WalkLast(plan)
  <2>1. \A i, j \in DOMAIN plan : i < j => plan[i] # Do("settle")
    BY <1>1, <1>3, <1>4 DEF Shape, WalkLast
  <2>2. \A i \in DOMAIN plan : plan[i][1] \in Walk => Do("settle") \in Range(plan)
    BY <1>1, <1>3 DEF Shape, WalkLast, Walk
  <2>3. \A i, j \in DOMAIN plan :
          i < j /\ plan[i] = Do("destroyClient") => plan[j] = Do("settle")
    BY <1>1, <1>3, <1>4 DEF Shape, WalkLast
  <2>4. ASSUME NEW j \in DOMAIN plan, NEW k \in Connections, j > 1,
               plan[j] = On("connReleased", k)
        PROVE  plan[j - 1] \in {On("close", k), On("destroyConn", k)}
    <3>1. j - 1 \in DOMAIN rest /\ plan[j] = rest[j - 1]
      BY <1>3, <2>4
    <3>2. CASE j - 1 = 1
      BY <1>3, <2>4, <3>1, <3>2
    <3>3. CASE j - 1 # 1
      <4>1. j - 1 > 1 /\ (j - 1) - 1 \in DOMAIN rest /\ ((j - 1) - 1) + 1 = j - 1
        BY <1>3, <3>1, <3>3
      <4>2. rest[(j - 1) - 1] = plan[j - 1]
        BY <1>3, <4>1
      <4>3. QED
        BY <2>4, <3>1, <4>1, <4>2 DEF Shape, WalkLast
    <3>4. QED
      BY <3>2, <3>3
  <2>5. QED
    BY <2>1, <2>2, <2>3, <2>4 DEF WalkLast
<1>8. QED
  BY <1>1, <1>3, <1>5, <1>6, <1>7 DEF Shape

-----------------------------------------------------------------------------
(* What a step leaves alone *)

AtDestroy(b, c) == todo[b] # <<>> /\ Head(todo[b]) = On("destroyConn", c)

Moves(b) == \A a \in Actors \ {b} : todo'[a] = todo[a] /\ at'[a] = at[a]

\* A connection that is locked is changed by the one who destroys it only, and
\* loses children at most.
LockedStay(b) ==
  \A c \in Connections : opMu[c] # Free /\ ~AtDestroy(b, c) =>
    /\ conn'[c] = conn[c]
    /\ c \in connClosed' <=> c \in connClosed
    /\ c \in shut' <=> c \in shut
    /\ DepsOf(c)' \subseteq DepsOf(c) /\ TasksOf(c)' \subseteq TasksOf(c)
    /\ \A d \in Dumps : Live(d, c)' => Live(d, c)

\* What others hold and are in the middle of stays as it is.
OthersStay(b) ==
  /\ connClosed \subseteq connClosed'
  /\ \A c \in Connections : conn'[c] = "none" => conn[c] = "none"
  /\ \A c \in Connections : opMu[c] \notin {Free, b} => opMu'[c] = opMu[c]
  /\ \A d \in Dumps : dump[d] = "destroyed" => dump'[d] = "destroyed"
  /\ \A d \in Dumps : dumpMu[d] \notin {Free, b} =>
       dumpMu'[d] = dumpMu[d] /\ dump'[d] = dump[d]
  /\ \A r \in Recordings :
       recording[r] = "stopping" /\ ~(Doing(b, "stop", "native") /\ Object(b) = r) =>
         recording'[r] = "stopping"

\* No connection is made while a client is closing.
ClientStays(b) ==
  /\ closing /\ Do("settle") \notin Ahead(b) => closing'
  /\ closing => \A c \in Connections : conn'[c] = "open" => conn[c] = "open"

World(b) == LockedStay(b) /\ OthersStay(b) /\ ClientStays(b)

LEMMA NamesDiffer ==
  /\ \A c \in Connections : c \in Actors /\ c # NoOne /\ c \notin Outputs
  /\ \A o \in Outputs : o \in Actors
  /\ \A u \in Users : u \in Actors
  /\ \A a \in Actors : a # Free
  /\ \A r \in Recordings : r \notin Dumps /\ r \in Recordings \cup Dumps
  /\ \A d \in Dumps : d \in Recordings \cup Dumps
BY ManagedAssumption DEF Actors

\* What a step is about.
LEMMA HeadNames ==
  ASSUME CallTypes, NEW a \in Actors, todo[a] # <<>>
  PROVE  /\ Head(todo[a]) = On(Head(todo[a])[1], Object(a))
         /\ Head(todo[a])[1] \in {"preflight", "closeFromClient", "connReleased", "close",
                                  "destroyConn"} => Object(a) \in Connections
         /\ Head(todo[a])[1] \in {"preflightOutput", "detachFromClient"} =>
              Object(a) \in Outputs
         /\ Head(todo[a])[1] = "stop" => Object(a) \in Recordings
         /\ Head(todo[a])[1] \in {"stopDump", "closeDump"} => Object(a) \in Dumps
         /\ Head(todo[a])[1] \in {"closeClient", "destroyClient", "settle"} =>
              Head(todo[a]) = Do(Head(todo[a])[1])
         /\ Head(todo[a]) \in Ahead(a)
<1>1. Head(todo[a]) \in Steps /\ Head(todo[a]) \in Ahead(a)
  BY HeadAndTail DEF CallTypes, Ahead
<1>2. QED
  BY <1>1 DEF Object, On, Do, Steps, ClientSteps, ConnSteps, OutputSteps, RecordingSteps,
              DumpSteps

\* The names of steps tell them apart.
LEMMA StepNames ==
  /\ \A x, y, v, w : On(x, v) = On(y, w) <=> x = y /\ v = w
  /\ \A x, y : Do(x) = Do(y) <=> x = y
  /\ \A x, y, v : On(x, v) = Do(y) <=> x = y /\ v = "client"
  /\ \A x, v : On(x, v)[1] = x /\ Do(x)[1] = x
BY DEF On, Do

\* One who holds an opMu does not lose it to another.
LEMMA LocksApart ==
  ASSUME IInv, NEW a \in Actors, NEW b \in Actors \ {a}, NEW c \in Connections,
         On("destroyConn", c) \in Ahead(a)
  PROVE  opMu[c] = a /\ opMu[c] \notin {Free, b} /\ ~AtDestroy(b, c)
<1>1. opMu[c] = a
  BY DEF IInv, Local, ClosesConn
<1>2. ASSUME AtDestroy(b, c) PROVE FALSE
  <2>1. On("destroyConn", c) \in Ahead(b)
    BY <1>2, HeadNames DEF AtDestroy, IInv
  <2>2. QED
    BY <1>1, <2>1 DEF IInv, Local, ClosesConn
<1>3. QED
  BY <1>1, <1>2, NamesDiffer

LEMMA OthersHold ==
  ASSUME IInv, NEW b \in Actors, Moves(b), World(b), NEW a \in Actors \ {b}
  PROVE  Local(a)'
<1>1. todo'[a] = todo[a] /\ at'[a] = at[a] /\ Local(a) /\ CallTypes /\ a \in Actors
  BY DEF Moves, IInv
<1>2. /\ Ahead(a)' = Ahead(a) /\ Object(a)' = Object(a) /\ InDump(a)' = InDump(a)
      /\ Destroyed(a)' = Destroyed(a)
      /\ \A name, place : Doing(a, name, place)' = Doing(a, name, place)
  BY <1>1 DEF Ahead, Object, InDump, Stopping, Destroyed, Doing
<1>3. Shape(todo[a])'
  BY <1>1 DEF Local
<1>4. AtStep(a)'
  <2>1. Doing(a, "connReleased", "start") => Object(a) \in connClosed'
    BY <1>1 DEF Local, AtStep, World, OthersStay
  <2>2. Doing(a, "stop", "native") => recording'[Object(a)] = "stopping"
    <3> SUFFICES ASSUME Doing(a, "stop", "native")
                 PROVE  recording'[Object(a)] = "stopping"
      OBVIOUS
    <3>1. Object(a) \in Recordings /\ recording[Object(a)] = "stopping"
      BY <1>1, HeadNames DEF Local, AtStep, Doing
    <3>2. ~(Doing(b, "stop", "native") /\ Object(b) = Object(a))
      BY DEF IInv, OneStopper
    <3>3. QED
      BY <3>1, <3>2 DEF World, OthersStay
  <2>3. InDump(a) => dumpMu'[Object(a)] = a /\ dump'[Object(a)] = "live"
    <3> SUFFICES ASSUME InDump(a)
                 PROVE  dumpMu'[Object(a)] = a /\ dump'[Object(a)] = "live"
      OBVIOUS
    <3>1. Object(a) \in Dumps
      BY <1>1, HeadNames DEF InDump, Stopping, Doing
    <3>2. dumpMu[Object(a)] = a /\ dump[Object(a)] = "live"
      BY <1>1 DEF Local, AtStep
    <3>3. QED
      BY <3>1, <3>2, NamesDiffer DEF World, OthersStay
  <2>4. Doing(a, "closeDump", "destroyed") => dump'[Object(a)] = "destroyed"
    BY <1>1, HeadNames DEF Local, AtStep, World, OthersStay, Doing
  <2>5. QED
    BY <1>1, <1>2, <2>1, <2>2, <2>3, <2>4 DEF Local, AtStep
<1>5. ClosesConn(a)'
  <2> SUFFICES ASSUME NEW c \in Connections, On("destroyConn", c) \in Ahead(a)
               PROVE  /\ opMu'[c] = a
                      /\ DepsOf(c)' = {} /\ TasksOf(c)' = {}
                      /\ \A d \in Dumps : Live(d, c)' => On("closeDump", d) \in Ahead(a)
                      /\ conn'[c] = IF Destroyed(a) THEN "destroyed" ELSE "open"
                      /\ c \in connClosed' <=> Doing(a, "destroyConn", "closed")
                      /\ Doing(a, "destroyConn", "begun") \/ Destroyed(a) => c \in shut'
    BY <1>2 DEF ClosesConn
  <2>1. opMu[c] = a /\ opMu[c] \notin {Free, b} /\ ~AtDestroy(b, c)
    BY LocksApart
  <2>2. /\ opMu'[c] = a /\ conn'[c] = conn[c] /\ (c \in connClosed' <=> c \in connClosed)
        /\ (c \in shut' <=> c \in shut)
        /\ DepsOf(c)' \subseteq DepsOf(c) /\ TasksOf(c)' \subseteq TasksOf(c)
        /\ \A d \in Dumps : Live(d, c)' => Live(d, c)
    BY <2>1 DEF World, LockedStay, OthersStay
  <2>3. QED
    BY <1>1, <2>2 DEF Local, ClosesConn
<1>6. ClosesClient(a)'
  <2>1. Do("settle") \in Ahead(a) => closing /\ Do("settle") \notin Ahead(b)
    BY <1>1 DEF Local, ClosesClient, IInv, OneClient
  <2>2. Do("settle") \in Ahead(a) => closing'
    BY <2>1 DEF World, ClientStays
  <2>3. Do("destroyClient") \in Ahead(a) => Do("settle") \in Ahead(a)
    BY <1>1, StepNames DEF Local, Shape, WalkLast, Ahead, Walk, Range
  <2>4. Do("destroyClient") \in Ahead(a) =>
          \A c \in Connections : conn'[c] = "open" => conn[c] = "open"
    BY <2>1, <2>3 DEF World, ClientStays
  <2>5. QED
    BY <1>1, <1>2, <2>2, <2>4 DEF Local, ClosesClient
<1>7. Known(a)'
  BY <1>1, <1>2 DEF Known, Local, World, OthersStay
<1>8. QED
  BY <1>3, <1>4, <1>5, <1>6, <1>7 DEF Local

LEMMA OneStopperStays ==
  ASSUME IInv, NEW b \in Actors, Moves(b), ~Doing(b, "stop", "native")'
  PROVE  OneStopper'
<1>1. \A a \in Actors : Doing(a, "stop", "native")' =>
        a # b /\ Doing(a, "stop", "native") /\ Object(a)' = Object(a)
  BY DEF Moves, Doing, Object
<1>2. QED
  BY <1>1 DEF IInv, OneStopper

\* Who closes the client goes on closing it.
LEMMA OneClientStays ==
  ASSUME IInv, NEW b \in Actors, Moves(b), ClientStays(b),
         Do("settle") \in Ahead(b)' <=> Do("settle") \in Ahead(b),
         ~Doing(b, "settle", "start"),
         UNCHANGED <<closing, client, clientClosed>>,
         clientClosed => \A c \in Connections : conn'[c] = "open" => conn[c] = "open"
  PROVE  OneClient'
<1>1. \A a \in Actors : Do("settle") \in Ahead(a)' <=> Do("settle") \in Ahead(a)
  BY DEF Moves, Ahead
<1>2. \A a \in Actors : Doing(a, "settle", "start") =>
        a # b /\ Doing(a, "settle", "start")' /\ Do("settle") \in Ahead(a)
  <2> SUFFICES ASSUME NEW a \in Actors, Doing(a, "settle", "start")
               PROVE  a # b /\ Doing(a, "settle", "start")' /\ Do("settle") \in Ahead(a)
    OBVIOUS
  <2>1. Do("settle") \in Ahead(a)
    BY HeadNames DEF IInv, Doing
  <2>2. QED
    BY <2>1 DEF Moves, Doing
<1>3. (\E a \in Actors : Doing(a, "settle", "start")) => closing
  BY <1>2 DEF IInv, Local, ClosesClient
<1>4. client = "destroyed" => \A c \in Connections : conn'[c] # "open"
  BY <1>3 DEF IInv, OneClient, ClientStays
<1>5. QED
  BY <1>1, <1>2, <1>4 DEF IInv, OneClient

\* d.mu is held by who is in a native call on the raw dump.
LEMMA NobodysDump ==
  ASSUME IInv, NEW b \in Actors, ~InDump(b), NEW d \in Dumps
  PROVE  dumpMu[d] # b
BY NamesDiffer DEF IInv, Objects

-----------------------------------------------------------------------------
(* Steps that leave the connections and the client alone *)

Elsewhere(b) == todo[b] # <<>> => Head(todo[b])[1] # "destroyConn"

ChildrenShrink ==
  \A c \in Connections : /\ DepsOf(c)' \subseteq DepsOf(c) /\ TasksOf(c)' \subseteq TasksOf(c)
                         /\ \A d \in Dumps : Live(d, c)' => Live(d, c)

ObjectsStay(b) ==
  /\ \A d \in Dumps : dump[d] = "destroyed" => dump'[d] = "destroyed"
  /\ \A d \in Dumps : dumpMu[d] \notin {Free, b} =>
       dumpMu'[d] = dumpMu[d] /\ dump'[d] = dump[d]
  /\ \A r \in Recordings :
       recording[r] = "stopping" /\ ~(Doing(b, "stop", "native") /\ Object(b) = r) =>
         recording'[r] = "stopping"

LocksStay(b) ==
  \A c \in Connections : /\ opMu[c] \notin {Free, b} => opMu'[c] = opMu[c]
                         /\ opMu'[c] \in {opMu[c], b, Free}

Quiet(b) == /\ UNCHANGED <<clientVars, connVars, handling>>
            /\ ChildrenShrink /\ ObjectsStay(b) /\ LocksStay(b)

LEMMA QuietWorld ==
  ASSUME NEW b \in Actors, Quiet(b)
  PROVE  World(b)
BY DEF Quiet, ChildrenShrink, ObjectsStay, LocksStay, World, LockedStay, OthersStay,
       ClientStays, clientVars, connVars

\* Nothing but the goroutine has moved.
LEMMA StillWorld ==
  ASSUME NEW b \in Actors, UNCHANGED <<tree, objects>>, LocksStay(b)
  PROVE  Quiet(b)
BY DEF Quiet, ChildrenShrink, ObjectsStay, tree, objects, eventVars, recordingVars,
       dumpVars, DepsOf, TasksOf, Live

LEMMA ElsewhereConns ==
  ASSUME IInv, NEW b \in Actors, Elsewhere(b), Moves(b), World(b),
         UNCHANGED <<connClosed, shut, handling>>,
         \A c \in Connections : conn'[c] = "open" => c \in registry',
         \A c \in Connections :
           conn'[c] = conn[c] \/ (conn[c] = "none" /\ conn'[c] = "open"),
         LocksStay(b),
         \A c \in Connections : opMu'[c] = b => On("destroyConn", c) \in Ahead(b)',
         \A c \in Connections : conn[c] = "destroyed" =>
           /\ DepsOf(c)' \subseteq DepsOf(c) /\ TasksOf(c)' \subseteq TasksOf(c)
           /\ \A d \in Dumps : Live(d, c)' => Live(d, c),
         NEW c \in Connections
  PROVE  ConnOK(c)'
<1>1. ConnOK(c)
  BY DEF IInv
<1>2. opMu'[c] # Free => On("destroyConn", c) \in Range(todo'[opMu'[c]])
  <2>1. CASE opMu'[c] = b
    BY <2>1 DEF Ahead
  <2>2. CASE opMu'[c] # b /\ opMu'[c] # Free
    <3>1. opMu'[c] = opMu[c] /\ opMu[c] # Free
      BY <2>2 DEF LocksStay
    <3>2. opMu[c] \in Actors \ {b}
      BY <2>2, <3>1 DEF IInv, Types
    <3>3. QED
      BY <1>1, <3>1, <3>2 DEF ConnOK, Ahead, Moves
  <2>3. QED
    BY <2>1, <2>2
<1>3. c \in shut \ connClosed =>
       /\ opMu'[c] # Free
       /\ todo'[opMu'[c]] # <<>> /\ Head(todo'[opMu'[c]]) = On("destroyConn", c)
  <2> SUFFICES ASSUME c \in shut \ connClosed
               PROVE  /\ opMu'[c] # Free
                      /\ todo'[opMu'[c]] # <<>>
                      /\ Head(todo'[opMu'[c]]) = On("destroyConn", c)
    OBVIOUS
  <2>1. /\ opMu[c] # Free
        /\ todo[opMu[c]] # <<>> /\ Head(todo[opMu[c]]) = On("destroyConn", c)
    BY <1>1 DEF ConnOK
  <2>2. opMu[c] \in Actors \ {b}
    BY <2>1, StepNames DEF Elsewhere, IInv, Types
  <2>3. opMu'[c] = opMu[c] /\ todo'[opMu[c]] = todo[opMu[c]]
    BY <2>1, <2>2 DEF LocksStay, Moves
  <2>4. QED
    BY <2>1, <2>3
<1>4. QED
  BY <1>1, <1>2, <1>3 DEF ConnOK, Ahead

LEMMA QuietStep ==
  ASSUME IInv, NEW b \in Actors, Elsewhere(b), Quiet(b), Moves(b),
         Types', CallTypes', Local(b)', OneStopper', Objects',
         Do("settle") \in Ahead(b)' <=> Do("settle") \in Ahead(b),
         ~Doing(b, "settle", "start"),
         \A c \in Connections : opMu'[c] = b => On("destroyConn", c) \in Ahead(b)'
  PROVE  IInv'
<1>1. World(b)
  BY QuietWorld
<1>2. \A a \in Actors : Local(a)'
  BY <1>1, OthersHold
<1>3. UNCHANGED <<closing, client, clientClosed, registry, conn, connClosed, shut, handling>>
  BY DEF Quiet, clientVars, connVars
<1>4. OneClient'
  BY <1>1, <1>3, OneClientStays DEF World
<1>5. \A c \in Connections : conn'[c] = "open" => c \in registry'
  BY <1>3 DEF IInv, ConnOK
<1>6. \A c \in Connections : ConnOK(c)'
  BY <1>1, <1>3, <1>5, ElsewhereConns DEF Quiet, ChildrenShrink
<1>7. QED
  BY <1>2, <1>4, <1>6 DEF IInv

LEMMA Proceeds ==
  ASSUME CallTypes, NEW b \in Actors, NEW steps \in Seq(Steps), NEW place \in Places,
         Proceed(b, steps, place)
  PROVE  /\ CallTypes' /\ Moves(b) /\ calls' = calls
         /\ todo'[b] = steps /\ at'[b] = place
BY DEF CallTypes, Moves, Proceed

LEMMA GoesOn ==
  ASSUME CallTypes, NEW b \in Actors, NEW place \in Places, GoOn(b, place)
  PROVE  /\ CallTypes' /\ Moves(b) /\ calls' = calls
         /\ todo' = todo /\ at'[b] = place /\ Object(b)' = Object(b)
BY DEF CallTypes, Moves, GoOn, Object

\* Who is not at destroyConn keeps the connections it is going to destroy.
LEMMA KeepsConns ==
  ASSUME IInv, NEW b \in Actors, Elsewhere(b), World(b),
         NEW c \in Connections, On("destroyConn", c) \in Ahead(b), opMu'[c] = b
  PROVE  /\ DepsOf(c)' = {} /\ TasksOf(c)' = {} /\ conn'[c] = "open"
         /\ c \notin connClosed'
         /\ \A d \in Dumps : Live(d, c)' => On("closeDump", d) \in Ahead(b)
<1>1. ClosesConn(b) /\ opMu[c] = b /\ b # Free
  BY NamesDiffer DEF IInv, Local, ClosesConn
<1>2. ~Destroyed(b) /\ ~Doing(b, "destroyConn", "closed") /\ ~AtDestroy(b, c)
  BY StepNames DEF Elsewhere, Destroyed, Doing, AtDestroy
<1>3. QED
  BY <1>1, <1>2 DEF ClosesConn, World, LockedStay

LEMMA GoesOnLocal ==
  ASSUME IInv, NEW b \in Actors, Elsewhere(b), World(b), todo'[b] = todo[b],
         AtStep(b)', UNCHANGED opMu,
         Do("settle") \in Ahead(b) => closing',
         \A c \in Connections : conn'[c] = "open" => conn[c] = "open"
  PROVE  Local(b)'
<1>1. Local(b) /\ Ahead(b)' = Ahead(b)
  BY DEF IInv, Ahead
<1>2. ~Destroyed(b)' /\ ~Doing(b, "destroyConn", "closed")' /\ ~Doing(b, "destroyConn", "begun")'
  BY DEF Elsewhere, Destroyed, Doing
<1>3. ClosesConn(b)'
  <2> SUFFICES ASSUME NEW c \in Connections, On("destroyConn", c) \in Ahead(b)
               PROVE  /\ opMu'[c] = b
                      /\ DepsOf(c)' = {} /\ TasksOf(c)' = {} /\ conn'[c] = "open"
                      /\ c \notin connClosed'
                      /\ \A d \in Dumps : Live(d, c)' => On("closeDump", d) \in Ahead(b)
    BY <1>1, <1>2 DEF ClosesConn
  <2>1. opMu'[c] = b
    BY <1>1 DEF Local, ClosesConn
  <2>2. QED
    BY <2>1, KeepsConns
<1>4. ClosesClient(b)'
  BY <1>1 DEF Local, ClosesClient
<1>5. Known(b)'
  BY <1>1 DEF Local, Known, World, OthersStay
<1>6. QED
  BY <1>1, <1>3, <1>4, <1>5 DEF Local

LEMMA QuietGo ==
  ASSUME IInv, NEW b \in Actors, Elsewhere(b), Quiet(b), NEW place \in Places,
         GoOn(b, place), Types', OneStopper', Objects', AtStep(b)', UNCHANGED opMu,
         ~Doing(b, "settle", "start")
  PROVE  IInv'
<1>1. CallTypes' /\ Moves(b) /\ todo' = todo /\ Ahead(b)' = Ahead(b)
  BY GoesOn DEF IInv, Ahead
<1>2. /\ UNCHANGED <<closing, conn>>
      /\ Do("settle") \in Ahead(b) => closing
      /\ \A c \in Connections : opMu[c] = b => On("destroyConn", c) \in Ahead(b)
  BY NamesDiffer DEF IInv, Local, ClosesClient, ConnOK, Quiet, clientVars, connVars
<1>3. Local(b)'
  BY <1>1, <1>2, QuietWorld, GoesOnLocal
<1>4. QED
  BY <1>1, <1>2, <1>3, QuietStep

LEMMA ObjectsKept ==
  ASSUME IInv, NEW b \in Actors, Moves(b), ~InDump(b), UNCHANGED <<parent, dumpVars>>,
         \A r \in Recordings : recording'[r] = "none" => recording[r] = "none"
  PROVE  Objects'
<1>1. \A d \in Dumps : dumpMu[d] # Free =>
        dumpMu[d] \in Actors \ {b} /\ InDump(dumpMu[d]) /\ Object(dumpMu[d]) = d
  BY NobodysDump DEF IInv, Objects, Types
<1>2. \A a \in Actors \ {b} : InDump(a)' = InDump(a) /\ Object(a)' = Object(a)
  BY DEF Moves, InDump, Stopping, Doing, Object
<1>3. QED
  BY <1>1, <1>2 DEF IInv, Objects, dumpVars

-----------------------------------------------------------------------------
(* Steps that are done, and operations that fail *)

LEMMA TailFacts ==
  ASSUME IInv, NEW b \in Actors, todo[b] # <<>>
  PROVE  /\ Tail(todo[b]) \in Seq(Steps) /\ Shape(Tail(todo[b]))
         /\ Ahead(b) = {Head(todo[b])} \cup Range(Tail(todo[b]))
         /\ \A x \in Range(Tail(todo[b])) :
              x[1] \in Work => Head(todo[b])[1] \in Work \ {"close", "destroyConn"}
         /\ Head(todo[b]) = Do("settle") => Tail(todo[b]) = <<>>
         /\ Head(todo[b])[1] \in Walk => Do("settle") \in Range(Tail(todo[b]))
         /\ Head(todo[b]) = Do("destroyClient") =>
              \A x \in Range(Tail(todo[b])) : x = Do("settle")
         /\ \A c \in Connections :
              1 \in DOMAIN Tail(todo[b]) /\ Tail(todo[b])[1] = On("connReleased", c) =>
                Head(todo[b]) \in {On("close", c), On("destroyConn", c)}
<1> DEFINE plan == todo[b]
           rest == Tail(plan)
<1>1. plan \in Seq(Steps) /\ Shape(plan) /\ plan # <<>>
  BY DEF IInv, CallTypes, Local
<1>2. /\ rest \in Seq(Steps) /\ Head(plan) = plan[1] /\ 1 \in DOMAIN plan
      /\ Range(plan) = {Head(plan)} \cup Range(rest)
      /\ Len(plan) \in Nat /\ DOMAIN plan = 1 .. Len(plan)
      /\ DOMAIN rest = 1 .. (Len(plan) - 1)
      /\ \A i \in DOMAIN rest : rest[i] = plan[i + 1]
  BY <1>1, HeadAndTail
<1>3. Shape(rest)
  BY <1>1, TailShape
<1> HIDE DEF plan
<1>4. \A i \in DOMAIN rest : i + 1 \in DOMAIN plan /\ 1 < i + 1 /\ rest[i] = plan[i + 1]
  BY <1>2
<1>5. \A i \in DOMAIN rest : rest[i][1] \in Work => Head(plan)[1] \in Work \ {"close", "destroyConn"}
  BY <1>1, <1>2, <1>4 DEF Shape, WorkFirst
<1>6. Head(plan) = Do("settle") => DOMAIN rest = {}
  BY <1>1, <1>2, <1>4 DEF Shape, WalkLast
<1>7. Head(plan) = Do("destroyClient") => \A i \in DOMAIN rest : rest[i] = Do("settle")
  BY <1>1, <1>2, <1>4 DEF Shape, WalkLast
<1>8. Head(plan)[1] \in Walk => Do("settle") \in Range(rest)
  <2>1. Head(plan)[1] \in Walk => Do("settle") \in Range(plan)
    BY <1>1, <1>2 DEF Shape, WalkLast
  <2>2. Do("settle")[1] \notin Walk
    BY DEF Do, Walk
  <2>3. QED
    BY <1>2, <2>1, <2>2
<1>9. ASSUME NEW c \in Connections, 1 \in DOMAIN rest, rest[1] = On("connReleased", c)
      PROVE  Head(plan) \in {On("close", c), On("destroyConn", c)}
  <2>1. 2 \in DOMAIN plan /\ plan[2] = On("connReleased", c)
    BY <1>2, <1>4, <1>9
  <2>2. \A j \in DOMAIN plan : j > 1 /\ plan[j] = On("connReleased", c) =>
          plan[j - 1] \in {On("close", c), On("destroyConn", c)}
    BY <1>1 DEF Shape, WalkLast
  <2>3. plan[2 - 1] \in {On("close", c), On("destroyConn", c)}
    BY <2>1, <2>2
  <2>4. QED
    BY <1>2, <2>3
<1>10. DOMAIN rest = {} => rest = <<>>
  BY <1>2, EmptySeq, LenProperties
<1>11. QED
  BY <1>2, <1>3, <1>5, <1>6, <1>7, <1>8, <1>9, <1>10 DEF plan, Range, Ahead

LEMMA DoneLocal ==
  ASSUME IInv, NEW b \in Actors, todo[b] # <<>>, World(b),
         todo'[b] = Tail(todo[b]), at'[b] = "start",
         Head(todo[b])[1] # "destroyConn" => UNCHANGED opMu,
         Head(todo[b])[1] # "closeFromClient",
         Head(todo[b])[1] = "closeDump" => dump'[Object(b)] # "live",
         Head(todo[b])[1] \in {"close", "destroyConn", "connReleased"} =>
           Object(b) \in connClosed',
         Head(todo[b])[1] = "connReleased" => conn[Object(b)] # "open",
         Do("settle") \in Range(Tail(todo[b])) => closing',
         \A c \in Connections : conn'[c] = "open" => conn[c] = "open"
  PROVE  Local(b)'
<1> DEFINE rest == Tail(todo[b])
<1>1. /\ rest \in Seq(Steps) /\ Shape(rest) /\ Ahead(b)' = Range(rest)
      /\ Ahead(b) = {Head(todo[b])} \cup Range(rest)
      /\ Head(todo[b]) = On(Head(todo[b])[1], Object(b))
      /\ Local(b)
  BY TailFacts, HeadNames DEF Ahead, IInv
<1>2. AtStep(b)'
  <2>1. Doing(b, "connReleased", "start")' => Object(b)' \in connClosed'
    <3> SUFFICES ASSUME rest # <<>>, Head(rest)[1] = "connReleased"
                 PROVE  Head(rest)[2] \in connClosed'
      BY DEF Doing, Object
    <3>1. 1 \in DOMAIN rest /\ Head(rest) = rest[1] /\ Head(rest) \in Steps
      BY <1>1, HeadAndTail
    <3>2. PICK c \in Connections : rest[1] = On("connReleased", c)
      BY <3>1 DEF Steps, ClientSteps, ConnSteps, OutputSteps, RecordingSteps, DumpSteps,
                  Do, On
    <3>3. Head(todo[b]) \in {On("close", c), On("destroyConn", c)}
      BY <3>1, <3>2, TailFacts
    <3>4. Object(b) = c /\ Head(rest)[2] = c
      BY <3>1, <3>2, <3>3 DEF Object, On
    <3>5. QED
      BY <3>3, <3>4, StepNames
  <2>2. QED
    BY <2>1 DEF AtStep, Doing, InDump, Stopping
<1>3. ClosesConn(b)'
  <2> SUFFICES ASSUME NEW c \in Connections, On("destroyConn", c) \in Range(rest)
               PROVE  /\ opMu'[c] = b
                      /\ DepsOf(c)' = {} /\ TasksOf(c)' = {} /\ conn'[c] = "open"
                      /\ c \notin connClosed'
                      /\ \A d \in Dumps : Live(d, c)' => On("closeDump", d) \in Range(rest)
    BY <1>1 DEF ClosesConn, Destroyed, Doing
  <2>1. Head(todo[b])[1] \in Work \ {"close", "destroyConn"}
    BY TailFacts, StepNames DEF Work
  <2>2. Elsewhere(b) /\ On("destroyConn", c) \in Ahead(b)
    BY <1>1, <2>1 DEF Elsewhere
  <2>3. opMu'[c] = b
    BY <1>1, <2>1, <2>2 DEF Local, ClosesConn
  <2>4. \A d \in Dumps : Live(d, c)' => On("closeDump", d) # Head(todo[b])
    BY <1>1, StepNames DEF Live
  <2>5. QED
    BY <1>1, <2>2, <2>3, <2>4, KeepsConns
<1>4. ClosesClient(b)'
  <2> SUFFICES ASSUME Do("destroyClient") \in Range(rest),
                      NEW c \in Connections, conn'[c] = "open"
               PROVE  \/ On("closeFromClient", c) \in Range(rest)
                      \/ On("connReleased", c) \in Range(rest)
    BY <1>1 DEF ClosesClient
  <2>1. conn[c] = "open" /\ Do("destroyClient") \in Ahead(b)
    BY <1>1
  <2>2. \/ On("closeFromClient", c) \in Ahead(b)
        \/ On("connReleased", c) \in Ahead(b)
    BY <1>1, <2>1 DEF Local, ClosesClient
  <2>3. Head(todo[b]) \notin {On("closeFromClient", c), On("connReleased", c)}
    BY <1>1, <2>1, StepNames
  <2>4. QED
    BY <1>1, <2>2, <2>3
<1>5. Known(b)'
  BY <1>1 DEF Local, Known, World, OthersStay
<1>6. QED
  BY <1>1, <1>2, <1>3, <1>4, <1>5 DEF Local

LEMMA QuietDone ==
  ASSUME IInv, NEW b \in Actors, todo[b] # <<>>, Elsewhere(b), Quiet(b), StepDone(b),
         Types', Objects', UNCHANGED opMu,
         Head(todo[b])[1] \notin {"closeFromClient", "settle"},
         Head(todo[b])[1] = "closeDump" => dump'[Object(b)] # "live",
         Head(todo[b])[1] \in {"close", "connReleased"} => Object(b) \in connClosed
  PROVE  IInv'
<1>1. /\ Tail(todo[b]) \in Seq(Steps) /\ Ahead(b) = {Head(todo[b])} \cup Range(Tail(todo[b]))
      /\ "start" \in Places
  BY TailFacts DEF Places
<1>2. /\ CallTypes' /\ Moves(b) /\ todo'[b] = Tail(todo[b]) /\ at'[b] = "start"
  BY <1>1, Proceeds DEF StepDone, Continue, IInv
<1>3. World(b) /\ UNCHANGED <<closing, conn, connClosed>>
  BY QuietWorld DEF Quiet, clientVars, connVars
<1>4. Do("settle") \in Ahead(b) => closing
  BY DEF IInv, Local, ClosesClient
<1>5. Head(todo[b])[1] = "connReleased" => conn[Object(b)] # "open"
  BY HeadNames DEF IInv, ConnOK, Types
<1>6. Local(b)'
  BY <1>1, <1>2, <1>3, <1>4, <1>5, DoneLocal DEF Elsewhere
<1>7. Do("settle") # Head(todo[b]) /\ ~Doing(b, "settle", "start")
  BY StepNames DEF Doing
<1>8. \A c \in Connections : opMu'[c] = b => On("destroyConn", c) \in Ahead(b)'
  <2> SUFFICES ASSUME NEW c \in Connections, opMu[c] = b
               PROVE  On("destroyConn", c) \in Range(Tail(todo[b]))
    BY <1>2 DEF Ahead
  <2>1. On("destroyConn", c) \in Ahead(b)
    BY NamesDiffer DEF IInv, ConnOK
  <2>2. On("destroyConn", c) # Head(todo[b])
    BY StepNames DEF Elsewhere
  <2>3. QED
    BY <1>1, <2>1, <2>2
<1>9. OneStopper'
  BY <1>2, OneStopperStays DEF Doing
<1>10. QED
  BY <1>1, <1>2, <1>6, <1>7, <1>8, <1>9, QuietStep DEF Ahead

\* What a failed operation leaves: where it recovers, with no connection locked.
Recovered(b) ==
  /\ CallTypes' /\ Moves(b) /\ calls' = calls
  /\ Shape(todo'[b]) /\ NoWork(todo'[b])
  /\ todo'[b] = <<>> => at'[b] = "start"
  /\ todo'[b] # <<>> => Head(todo'[b])[1] \in Recovery /\ at'[b] = "failed"
  /\ Do("settle") \in Ahead(b)' <=> Do("settle") \in Ahead(b)
  /\ Do("destroyClient") \in Ahead(b)' =>
       /\ Do("destroyClient") \in Ahead(b)
       /\ \A c \in Connections :
            /\ On("closeFromClient", c) \in Ahead(b) => On("closeFromClient", c) \in Ahead(b)'
            /\ On("connReleased", c) \in Ahead(b) => On("connReleased", c) \in Ahead(b)'
  /\ Ahead(b)' \subseteq Ahead(b)

LEMMA EmptyPlan == Shape(<<>>) /\ NoWork(<<>>) /\ Range(<<>>) = {} /\ <<>> \in Seq(Steps)
<1>1. DOMAIN <<>> = {} /\ <<>> \in Seq(Steps)
  OBVIOUS
<1>2. QED
  BY <1>1 DEF Shape, WorkFirst, WalkLast, NoWork, Range

LEMMA Recovers ==
  ASSUME IInv, NEW b \in Actors, todo[b] # <<>>, Recover(b),
         Head(todo[b])[1] \notin Recovery \cup {"closeFromClient"}
  PROVE  Recovered(b)
<1> DEFINE places == {i \in DOMAIN todo[b] : todo[b][i][1] \in Recovery}
<1>1. CallTypes /\ todo[b] \in Seq(Steps) /\ Shape(todo[b])
  BY DEF IInv, CallTypes, Local
<1>2. "start" \in Places /\ "failed" \in Places
  BY DEF Places
<1>3. CASE places = {} /\ Continue(b, <<>>)
  <2>1. CallTypes' /\ Moves(b) /\ calls' = calls /\ todo'[b] = <<>> /\ at'[b] = "start"
    BY <1>1, <1>2, <1>3, EmptyPlan, Proceeds DEF Continue
  <2>2. Do("settle") \notin Ahead(b)
    BY <1>3, StepNames DEF Ahead, Range, Recovery
  <2>3. QED
    BY <2>1, <2>2, EmptyPlan DEF Recovered, Ahead
<1>4. CASE \E next \in places :
             /\ \A i \in places : next <= i
             /\ Proceed(b, SubSeq(todo[b], next, Len(todo[b])), "failed")
  <2>1. PICK next \in places :
          /\ \A i \in places : next <= i
          /\ Proceed(b, SubSeq(todo[b], next, Len(todo[b])), "failed")
    BY <1>4
  <2> DEFINE rest == SubSeq(todo[b], next, Len(todo[b]))
  <2> HIDE DEF rest
  <2>2. RecoversTo(rest, todo[b])
    <3>1. /\ next \in DOMAIN todo[b] /\ todo[b][next][1] \in Recovery
          /\ \A i \in DOMAIN todo[b] : todo[b][i][1] \in Recovery => next <= i
      BY <2>1
    <3>2. rest = SubSeq(todo[b], next, Len(todo[b]))
      BY DEF rest
    <3>3. QED
      BY <1>1, <3>1, <3>2, RecoveredPlan
  <2>3. Proceed(b, rest, "failed")
    BY <2>1 DEF rest
  <2>4. CallTypes' /\ Moves(b) /\ calls' = calls /\ todo'[b] = rest /\ at'[b] = "failed"
    BY <1>1, <1>2, <2>2, <2>3, Proceeds DEF RecoversTo
  <2>5. Ahead(b)' = Range(rest)
    BY <2>4 DEF Ahead
  <2>6. QED
    BY <2>2, <2>4, <2>5 DEF Recovered, RecoversTo, Ahead
<1>5. QED
  BY <1>3, <1>4 DEF Recover

LEMMA RecoveredLocal ==
  ASSUME IInv, NEW b \in Actors, Recovered(b),
         closing' = closing, conn' = conn
  PROVE  /\ Local(b)' /\ OneStopper'
         /\ \A c \in Connections : On("destroyConn", c) \notin Ahead(b)'
<1>1. \A c \in Connections : On("destroyConn", c) \notin Ahead(b)'
  BY StepNames DEF Recovered, NoWork, Ahead, Range, Work
<1>2. AtStep(b)' /\ ~Doing(b, "stop", "native")'
  BY DEF Recovered, AtStep, Doing, InDump, Stopping, Recovery
<1>3. ClosesConn(b)'
  BY <1>1 DEF ClosesConn
<1>4. ClosesClient(b)'
  BY DEF IInv, Local, ClosesClient, Recovered
<1>5. OneStopper'
  BY <1>2, OneStopperStays DEF Recovered
<1>6. Known(b)'
  BY DEF IInv, Local, Known, Recovered
<1>7. QED
  BY <1>1, <1>2, <1>3, <1>4, <1>5, <1>6 DEF Local, Recovered

LEMMA Unlocks ==
  ASSUME Types, NEW b \in Actors, Unlock(b)
  PROVE  /\ opMu' \in [Connections -> Actors \cup {Free}]
         /\ LocksStay(b)
         /\ \A c \in Connections : opMu'[c] # b
BY NamesDiffer DEF Types, Unlock, LocksStay

\* Nothing changes but that the connections the actor holds are unlocked.
LEMMA Fails ==
  ASSUME IInv, NEW b \in Actors, todo[b] # <<>>, Elsewhere(b), Fail(b),
         UNCHANGED <<tree, objects>>, ~InDump(b),
         Head(todo[b])[1] \notin Recovery \cup {"closeFromClient"}
  PROVE  IInv'
<1>1. Recovered(b)
  BY Recovers DEF Fail
<1>2. LocksStay(b) /\ opMu' \in [Connections -> Actors \cup {Free}]
      /\ \A c \in Connections : opMu'[c] # b
  BY Unlocks DEF Fail, IInv
<1>3. Quiet(b)
  BY <1>2, StillWorld
<1>4. Types'
  BY <1>1, <1>2 DEF IInv, Types, Recovered, tree, clientVars, connVars, eventVars, objects,
                    recordingVars, dumpVars
<1>5. UNCHANGED <<closing, conn, parent, recording, dumpVars>>
  BY DEF tree, clientVars, connVars, objects, recordingVars
<1>6. Local(b)' /\ OneStopper'
  BY <1>1, <1>5, RecoveredLocal
<1>7. Objects'
  BY <1>1, <1>5, ObjectsKept DEF Recovered
<1>8. ~Doing(b, "settle", "start")
  BY DEF Doing, Recovery
<1>9. QED
  BY <1>1, <1>2, <1>3, <1>4, <1>6, <1>7, <1>8, QuietStep DEF Recovered

LEMMA LocksAsBefore ==
  ASSUME NEW b \in Actors, UNCHANGED opMu
  PROVE  LocksStay(b)
BY DEF LocksStay

LEMMA StillDone ==
  ASSUME IInv, NEW b \in Actors, todo[b] # <<>>, Elsewhere(b), StepDone(b),
         UNCHANGED <<tree, opMu, objects>>, ~InDump(b),
         Head(todo[b])[1] \notin {"closeFromClient", "settle"},
         Head(todo[b])[1] = "closeDump" => dump[Object(b)] # "live",
         Head(todo[b])[1] \in {"close", "connReleased"} => Object(b) \in connClosed
  PROVE  IInv'
<1>1. Quiet(b)
  BY LocksAsBefore, StillWorld
<1>2. "start" \in Places /\ Tail(todo[b]) \in Seq(Steps)
  BY TailFacts DEF Places
<1>3. Moves(b) /\ calls' = calls
  BY <1>2, Proceeds DEF StepDone, Continue, IInv
<1>4. Types'
  BY <1>3 DEF IInv, Types, tree, clientVars, connVars, eventVars, objects, recordingVars,
              dumpVars
<1>5. Objects' /\ dump' = dump
  BY <1>3, ObjectsKept DEF tree, objects, recordingVars, dumpVars
<1>6. QED
  BY <1>1, <1>4, <1>5, QuietDone

LEMMA StillGo ==
  ASSUME IInv, NEW b \in Actors, todo[b] # <<>>, Elsewhere(b), NEW place \in Places,
         GoOn(b, place), UNCHANGED <<tree, opMu, objects>>, ~InDump(b),
         AtStep(b)', ~Doing(b, "stop", "native")', Head(todo[b])[1] # "settle"
  PROVE  IInv'
<1>1. Quiet(b)
  BY LocksAsBefore, StillWorld
<1>2. Moves(b) /\ calls' = calls
  BY GoesOn DEF IInv
<1>3. Types'
  BY <1>2 DEF IInv, Types, tree, clientVars, connVars, eventVars, objects, recordingVars,
              dumpVars
<1>4. Objects' /\ OneStopper'
  BY <1>2, ObjectsKept, OneStopperStays DEF tree, objects, recordingVars, dumpVars
<1>5. ~Doing(b, "settle", "start")
  BY DEF Doing
<1>6. QED
  BY <1>1, <1>3, <1>4, <1>5, QuietGo

-----------------------------------------------------------------------------
(* RecordingTask.Stop *)

\* A step of Stop, which changes what is known of its recording.
LEMMA RecordingQuiet ==
  ASSUME IInv, NEW b \in Actors, Doing(b, "stop", "start") \/ Doing(b, "stop", "native"),
         UNCHANGED <<tree, opMu, dumpVars, calls>>, tasks' \subseteq tasks,
         NEW now \in {"live", "stopping", "done"},
         recording' = [recording EXCEPT ![Object(b)] = now],
         recording[Object(b)] = "stopping" => Doing(b, "stop", "native"),
         tasks' = {r \in Recordings : recording'[r] \in {"live", "stopping"}}
  PROVE  /\ todo[b] # <<>> /\ Head(todo[b])[1] = "stop" /\ Object(b) \in Recordings
         /\ Elsewhere(b) /\ Quiet(b) /\ Types' /\ ~InDump(b) /\ ~Doing(b, "settle", "start")
         /\ UNCHANGED <<parent, dumpVars, dump>>
         /\ \A r \in Recordings : recording'[r] = "none" => recording[r] = "none"
<1>1. todo[b] # <<>> /\ Head(todo[b])[1] = "stop" /\ Object(b) \in Recordings
  BY HeadNames DEF Doing, IInv
<1>2. Elsewhere(b) /\ ~InDump(b) /\ ~Doing(b, "settle", "start")
  BY <1>1 DEF Elsewhere, InDump, Stopping, Doing
<1>3. Types'
  BY <1>1 DEF IInv, Types, tree, clientVars, connVars, eventVars, dumpVars
<1>4. LocksStay(b)
  BY LocksAsBefore
<1>5. ChildrenShrink
  BY DEF ChildrenShrink, DepsOf, TasksOf, Live, tree, dumpVars
<1>6. ObjectsStay(b)
  BY <1>1 DEF ObjectsStay, dumpVars, IInv, Types
<1>7. Quiet(b)
  BY <1>4, <1>5, <1>6 DEF Quiet, tree, eventVars
<1>8. \A r \in Recordings : recording'[r] = "none" => recording[r] = "none"
  BY <1>1 DEF IInv, Types
<1>9. QED
  BY <1>1, <1>2, <1>3, <1>7, <1>8 DEF tree, dumpVars

LEMMA BeginStop ==
  ASSUME IInv, NEW b \in Actors, beginStop(b)
  PROVE  IInv'
<1>1. /\ Doing(b, "stop", "start") /\ recording[Object(b)] = "live" /\ GoOn(b, "native")
      /\ recording' = [recording EXCEPT ![Object(b)] = "stopping"]
      /\ UNCHANGED <<tree, opMu, tasks, dumpVars>>
  BY DEF beginStop, mayStop
<1>2. "native" \in Places /\ CallTypes
  BY DEF Places, IInv
<1>3. CallTypes' /\ Moves(b) /\ todo' = todo /\ at'[b] = "native" /\ Object(b)' = Object(b)
      /\ calls' = calls
  BY <1>1, <1>2, GoesOn
<1>4. Object(b) \in Recordings
  BY <1>1, <1>2, HeadNames DEF Doing
<1>5. tasks' = {r \in Recordings : recording'[r] \in {"live", "stopping"}}
  BY <1>1, <1>4 DEF IInv, Types
<1>6. /\ todo[b] # <<>> /\ Head(todo[b])[1] = "stop"
      /\ Elsewhere(b) /\ Quiet(b) /\ Types' /\ ~InDump(b) /\ ~Doing(b, "settle", "start")
      /\ UNCHANGED <<parent, dumpVars>>
      /\ \A r \in Recordings : recording'[r] = "none" => recording[r] = "none"
  BY <1>1, <1>3, <1>5, RecordingQuiet
<1>7. Objects'
  BY <1>3, <1>6, ObjectsKept
<1>8. OneStopper'
  <2>1. \A a \in Actors \ {b} : Doing(a, "stop", "native")' =>
          /\ Doing(a, "stop", "native") /\ Object(a)' = Object(a)
          /\ Object(a) # Object(b)
    BY <1>1, <1>3 DEF Moves, Doing, Object, IInv, Local, AtStep
  <2>2. QED
    BY <1>3, <2>1 DEF IInv, OneStopper
<1>9. AtStep(b)'
  BY <1>1, <1>3, <1>4, <1>6 DEF AtStep, Doing, InDump, Stopping, IInv, Types
<1>10. QED
  BY <1>1, <1>2, <1>6, <1>7, <1>8, <1>9, QuietGo

LEMMA RecordingKept ==
  ASSUME IInv, NEW b \in Actors, keptRecording(b)
  PROVE  IInv'
<1>1. /\ Doing(b, "stop", "native") /\ GoOn(b, "kept")
      /\ recording' = [recording EXCEPT ![Object(b)] = "live"]
      /\ UNCHANGED <<tree, opMu, tasks, dumpVars>>
  BY DEF keptRecording
<1>2. "kept" \in Places /\ CallTypes /\ recording[Object(b)] = "stopping"
  BY <1>1 DEF Places, IInv, Local, AtStep
<1>3. CallTypes' /\ Moves(b) /\ todo' = todo /\ at'[b] = "kept" /\ calls' = calls
  BY <1>1, <1>2, GoesOn
<1>4. Object(b) \in Recordings
  BY <1>1, <1>2, HeadNames DEF Doing
<1>5. tasks' = {r \in Recordings : recording'[r] \in {"live", "stopping"}}
  BY <1>1, <1>2, <1>4 DEF IInv, Types
<1>6. /\ todo[b] # <<>> /\ Head(todo[b])[1] = "stop"
      /\ Elsewhere(b) /\ Quiet(b) /\ Types' /\ ~InDump(b) /\ ~Doing(b, "settle", "start")
      /\ UNCHANGED <<parent, dumpVars>>
      /\ \A r \in Recordings : recording'[r] = "none" => recording[r] = "none"
  BY <1>1, <1>3, <1>5, RecordingQuiet
<1>7. Objects'
  BY <1>3, <1>6, ObjectsKept
<1>8. OneStopper'
  BY <1>3, OneStopperStays DEF Doing
<1>9. AtStep(b)'
  BY <1>1, <1>3, <1>6 DEF AtStep, Doing, InDump, Stopping
<1>10. QED
  BY <1>1, <1>2, <1>6, <1>7, <1>8, <1>9, QuietGo

LEMMA RecordingStopped ==
  ASSUME IInv, NEW b \in Actors, stopped(b)
  PROVE  IInv'
<1>1. /\ Doing(b, "stop", "native") /\ StepDone(b)
      /\ recording' = [recording EXCEPT ![Object(b)] = "done"]
      /\ tasks' = tasks \ {Object(b)}
      /\ UNCHANGED <<tree, opMu, dumpVars>>
  BY DEF stopped
<1>2. "start" \in Places /\ CallTypes /\ todo[b] # <<>> /\ Tail(todo[b]) \in Seq(Steps)
  BY <1>1, TailFacts DEF Places, IInv, Doing
<1>3. Moves(b) /\ calls' = calls
  BY <1>1, <1>2, Proceeds DEF StepDone, Continue
<1>4. Object(b) \in Recordings
  BY <1>1, <1>2, HeadNames DEF Doing
<1>5. tasks' = {r \in Recordings : recording'[r] \in {"live", "stopping"}}
  BY <1>1, <1>4 DEF IInv, Types
<1>6. /\ Head(todo[b])[1] = "stop"
      /\ Elsewhere(b) /\ Quiet(b) /\ Types' /\ ~InDump(b)
      /\ UNCHANGED <<parent, dumpVars>>
      /\ \A r \in Recordings : recording'[r] = "none" => recording[r] = "none"
  BY <1>1, <1>3, <1>5, RecordingQuiet
<1>7. Objects'
  BY <1>3, <1>6, ObjectsKept
<1>8. QED
  BY <1>1, <1>2, <1>6, <1>7, QuietDone

LEMMA StoppedBefore ==
  ASSUME IInv, NEW b \in Actors, stoppedBefore(b)
  PROVE  IInv'
<1>1. /\ todo[b] # <<>> /\ Head(todo[b])[1] = "stop" /\ Elsewhere(b) /\ ~InDump(b)
      /\ UNCHANGED <<tree, objects>>
      /\ (StepDone(b) /\ UNCHANGED opMu) \/ Fail(b)
  BY DEF stoppedBefore, Doing, Elsewhere, InDump, Stopping
<1>2. Head(todo[b])[1] \notin Recovery \cup {"closeFromClient"}
  BY <1>1 DEF Recovery
<1>3. QED
  BY <1>1, <1>2, StillDone, Fails DEF Recovery


-----------------------------------------------------------------------------
(* RawDump.Stop and Close *)

\* A step of a Stop or Close changes its own raw dump, which no other is in native
\* with, and has d.mu afterwards if it is in native itself.
DumpStep(b) ==
  /\ todo[b] # <<>> /\ Head(todo[b])[1] \in {"stopDump", "closeDump"}
  /\ UNCHANGED <<tree, opMu, recordingVars, calls>>
  /\ dump' \in [Dumps -> {"none", "live", "destroyed"}]
  /\ dumpMu' \in [Dumps -> Actors \cup {Free}]
  /\ archived' \in SUBSET Dumps /\ dumps' \in SUBSET Dumps
  /\ dumpMu[Object(b)] \in {Free, b}
  /\ \A d \in Dumps \ {Object(b)} :
       dumpMu'[d] = dumpMu[d] /\ dump'[d] = dump[d] /\ (d \in dumps => d \in dumps')
  /\ dump'[Object(b)] \in {dump[Object(b)], "destroyed"}
  /\ dump'[Object(b)] = "live" => Object(b) \in dumps'
  /\ dumpMu'[Object(b)] # Free =>
       dumpMu'[Object(b)] = b /\ InDump(b)' /\ Object(b)' = Object(b)

LEMMA DumpQuiet ==
  ASSUME IInv, NEW b \in Actors, DumpStep(b), Moves(b), ~Doing(b, "stop", "native")'
  PROVE  /\ Elsewhere(b) /\ Quiet(b) /\ Types' /\ Objects' /\ ~Doing(b, "settle", "start")
         /\ Object(b) \in Dumps /\ OneStopper'
<1>1. Object(b) \in Dumps
  BY HeadNames DEF DumpStep, IInv
<1>2. Elsewhere(b) /\ ~Doing(b, "settle", "start") /\ ~Doing(b, "stop", "native")
  BY DEF Elsewhere, Doing, DumpStep
<1>3. Types'
  BY DEF DumpStep, IInv, Types, tree, clientVars, connVars, eventVars, recordingVars
<1>4. \A d \in Dumps : /\ dump'[d] = "live" => dump[d] = "live"
                       /\ dump'[d] = "none" => dump[d] = "none"
                       /\ dump[d] = "destroyed" => dump'[d] = "destroyed"
  BY <1>1 DEF DumpStep
<1>5. Quiet(b)
  <2>1. ObjectsStay(b)
    BY <1>1, <1>2, <1>4 DEF DumpStep, ObjectsStay, recordingVars
  <2>2. ChildrenShrink
    BY <1>4 DEF DumpStep, ChildrenShrink, DepsOf, TasksOf, Live, tree, recordingVars
  <2>3. UNCHANGED <<clientVars, connVars, handling>> /\ LocksStay(b)
    BY LocksAsBefore DEF DumpStep, tree, eventVars
  <2>4. QED
    BY <2>1, <2>2, <2>3 DEF Quiet
<1>6. Objects'
  <2>1. parent' = parent /\ recording' = recording
    BY DEF DumpStep, tree, recordingVars
  <2>2. \A d \in Dumps : dumpMu'[d] # Free =>
          \E a \in Actors : dumpMu'[d] = a /\ InDump(a)' /\ Object(a)' = d
    <3> SUFFICES ASSUME NEW d \in Dumps, dumpMu'[d] # Free
                 PROVE  \E a \in Actors : dumpMu'[d] = a /\ InDump(a)' /\ Object(a)' = d
      OBVIOUS
    <3>1. CASE d = Object(b)
      BY <3>1 DEF DumpStep
    <3>2. CASE d # Object(b)
      <4>1. /\ dumpMu'[d] = dumpMu[d] /\ dumpMu[d] \in Actors
            /\ InDump(dumpMu[d]) /\ Object(dumpMu[d]) = d
        BY <3>2 DEF DumpStep, IInv, Objects, Types
      <4>2. \A a \in Actors \ {b} : InDump(a)' = InDump(a) /\ Object(a)' = Object(a)
        BY DEF Moves, InDump, Stopping, Doing, Object
      <4>3. dumpMu[d] # b
        BY <3>2, <4>1
      <4>4. PICK a \in Actors \ {b} : a = dumpMu[d] /\ InDump(a) /\ Object(a) = d
        BY <4>1, <4>3
      <4>5. QED
        BY <4>1, <4>2, <4>4
    <3>3. QED
      BY <3>1, <3>2
  <2>4. \A d \in Dumps : dump'[d] = "live" => d \in dumps'
    BY <1>4 DEF DumpStep, IInv, Objects
  <2>5. QED
    BY <1>4, <2>1, <2>2, <2>4 DEF IInv, Objects
<1>7. OneStopper'
  BY OneStopperStays
<1>8. QED
  BY <1>1, <1>2, <1>3, <1>5, <1>6, <1>7

LEMMA LockDump ==
  ASSUME IInv, NEW b \in Actors, NEW place \in {"stopping", "destroying"}, lockDump(b),
         GoOn(b, place), todo[b] # <<>>, at[b] \in {"start", "stopped"},
         Head(todo[b])[1] = "closeDump" \/ (Head(todo[b])[1] = "stopDump" /\ place = "stopping")
  PROVE  IInv'
<1>1. /\ dumpMu[Object(b)] = Free /\ dump[Object(b)] = "live"
      /\ dumpMu' = [dumpMu EXCEPT ![Object(b)] = b]
      /\ UNCHANGED <<tree, opMu, recordingVars, dump, archived, dumps>>
  BY DEF lockDump
<1>2. place \in Places /\ CallTypes
  BY DEF Places, IInv
<1>3. Moves(b) /\ todo' = todo /\ at'[b] = place /\ Object(b)' = Object(b) /\ calls' = calls
  BY <1>2, GoesOn
<1>4. InDump(b)' /\ ~InDump(b) /\ ~Doing(b, "stop", "native")'
  BY <1>3 DEF InDump, Stopping, Doing
<1>5. Object(b) \in Dumps
  BY <1>2, HeadNames
<1>6. DumpStep(b)
  BY <1>1, <1>3, <1>4, <1>5 DEF DumpStep, IInv, Types, Objects
<1>7. Elsewhere(b) /\ Quiet(b) /\ Types' /\ Objects' /\ ~Doing(b, "settle", "start")
      /\ OneStopper'
  BY <1>3, <1>4, <1>6, DumpQuiet
<1>8. AtStep(b)'
  BY <1>1, <1>3, <1>5 DEF AtStep, Doing, IInv, Types
<1>9. QED
  BY <1>1, <1>2, <1>7, <1>8, QuietGo

LEMMA DumpStopped ==
  ASSUME IInv, NEW b \in Actors, dumpStopped(b)
  PROVE  IInv'
<1>1. /\ Stopping(b, "stopping") /\ InDump(b) /\ AfterStop(b)
      /\ archived' \in {archived, archived \cup {Object(b)}}
      /\ dumpMu' = [dumpMu EXCEPT ![Object(b)] = Free]
      /\ UNCHANGED <<tree, opMu, recordingVars, dump, dumps>>
  BY DEF dumpStopped, unlockDump, InDump
<1>2. /\ todo[b] # <<>> /\ Head(todo[b])[1] \in {"stopDump", "closeDump"} /\ CallTypes
      /\ dumpMu[Object(b)] = b /\ Object(b) \in Dumps
      /\ "start" \in Places /\ "stopped" \in Places /\ Tail(todo[b]) \in Seq(Steps)
  <2>1. todo[b] # <<>> /\ Head(todo[b])[1] \in {"stopDump", "closeDump"} /\ CallTypes
    BY <1>1 DEF Stopping, Doing, IInv
  <2>2. dumpMu[Object(b)] = b
    BY <1>1 DEF IInv, Local, AtStep
  <2>3. QED
    BY <2>1, <2>2, HeadNames, TailFacts DEF Places
<1>3. dumpMu'[Object(b)] = Free
  BY <1>1, <1>2 DEF IInv, Types
<1>4. Moves(b) /\ calls' = calls => DumpStep(b)
  BY <1>1, <1>2, <1>3 DEF DumpStep, IInv, Types, Objects
<1>5. CASE Head(todo[b])[1] = "stopDump" /\ StepDone(b)
  <2>1. Moves(b) /\ calls' = calls /\ at'[b] = "start"
    BY <1>2, <1>5, Proceeds DEF StepDone, Continue
  <2>2. Elsewhere(b) /\ Quiet(b) /\ Types' /\ Objects'
    BY <1>4, <2>1, DumpQuiet DEF Doing
  <2>3. UNCHANGED opMu
    BY <1>1
  <2>4. QED
    BY <1>2, <1>5, <2>2, <2>3, QuietDone
<1>6. CASE Head(todo[b])[1] = "closeDump" /\ GoOn(b, "stopped")
  <2>1. Moves(b) /\ calls' = calls /\ at'[b] = "stopped" /\ todo' = todo
    BY <1>2, <1>6, GoesOn
  <2>2. Elsewhere(b) /\ Quiet(b) /\ Types' /\ Objects' /\ OneStopper'
        /\ ~Doing(b, "settle", "start")
    BY <1>4, <2>1, DumpQuiet DEF Doing
  <2>3. UNCHANGED opMu
    BY <1>1
  <2>4. AtStep(b)'
    BY <1>2, <1>6, <2>1 DEF AtStep, Doing, InDump, Stopping
  <2>5. QED
    BY <1>2, <1>6, <2>2, <2>3, <2>4, QuietGo
<1>7. QED
  BY <1>1, <1>5, <1>6 DEF AfterStop, Doing

LEMMA DumpStoppedBefore ==
  ASSUME IInv, NEW b \in Actors, dumpStoppedBefore(b)
  PROVE  IInv'
<1>1. /\ todo[b] # <<>> /\ Head(todo[b])[1] \in {"stopDump", "closeDump"} /\ at[b] = "start"
      /\ UNCHANGED <<tree, opMu, objects>> /\ AfterStop(b)
  BY DEF dumpStoppedBefore, Stopping, Doing
<1>2. Elsewhere(b) /\ ~InDump(b) /\ Head(todo[b])[1] \notin {"closeFromClient", "settle"}
      /\ Head(todo[b])[1] \notin {"close", "connReleased"} /\ "stopped" \in Places
  BY <1>1 DEF Elsewhere, InDump, Stopping, Doing, Places
<1>3. CASE Head(todo[b])[1] = "stopDump" /\ StepDone(b)
  BY <1>1, <1>2, <1>3, StillDone
<1>4. CASE Head(todo[b])[1] = "closeDump" /\ GoOn(b, "stopped")
  <2>1. at'[b] = "stopped" /\ todo' = todo
    BY <1>2, <1>4, GoesOn DEF IInv
  <2>2. AtStep(b)' /\ ~Doing(b, "stop", "native")'
    BY <1>1, <1>4, <2>1 DEF AtStep, Doing, InDump, Stopping
  <2>3. QED
    BY <1>1, <1>2, <1>4, <2>2, StillGo
<1>5. QED
  BY <1>1, <1>3, <1>4 DEF AfterStop, Doing

LEMMA DumpKept ==
  ASSUME IInv, NEW b \in Actors, keptDump(b)
  PROVE  IInv'
<1>1. /\ todo[b] # <<>> /\ Head(todo[b])[1] = "closeDump" /\ InDump(b) /\ GoOn(b, "kept")
      /\ dumpMu' = [dumpMu EXCEPT ![Object(b)] = Free]
      /\ UNCHANGED <<tree, opMu, recordingVars, dump, archived, dumps>>
  BY DEF keptDump, unlockDump, InDump, Doing
<1>2. /\ CallTypes /\ dumpMu[Object(b)] = b /\ Object(b) \in Dumps /\ "kept" \in Places
  BY <1>1, HeadNames DEF IInv, Local, AtStep, Places
<1>3. Moves(b) /\ calls' = calls /\ at'[b] = "kept" /\ todo' = todo
  BY <1>1, <1>2, GoesOn
<1>4. dumpMu'[Object(b)] = Free
  BY <1>1, <1>2 DEF IInv, Types
<1>5. DumpStep(b)
  BY <1>1, <1>2, <1>3, <1>4 DEF DumpStep, IInv, Types, Objects
<1>6. Elsewhere(b) /\ Quiet(b) /\ Types' /\ Objects' /\ OneStopper'
      /\ ~Doing(b, "settle", "start")
  BY <1>3, <1>5, DumpQuiet DEF Doing
<1>7. AtStep(b)'
  BY <1>1, <1>3 DEF AtStep, Doing, InDump, Stopping
<1>8. UNCHANGED opMu
  BY <1>1
<1>9. QED
  BY <1>1, <1>2, <1>6, <1>7, <1>8, QuietGo

LEMMA DumpDestroyed ==
  ASSUME IInv, NEW b \in Actors, dumpDestroyed(b)
  PROVE  IInv'
<1>1. /\ todo[b] # <<>> /\ Head(todo[b])[1] = "closeDump" /\ InDump(b)
      /\ GoOn(b, "destroyed")
      /\ dump' = [dump EXCEPT ![Object(b)] = "destroyed"]
      /\ dumpMu' = [dumpMu EXCEPT ![Object(b)] = Free]
      /\ UNCHANGED <<tree, opMu, recordingVars, archived, dumps>>
  BY DEF dumpDestroyed, unlockDump, InDump, Doing
<1>2. /\ CallTypes /\ dumpMu[Object(b)] = b /\ Object(b) \in Dumps /\ "destroyed" \in Places
  BY <1>1, HeadNames DEF IInv, Local, AtStep, Places
<1>3. Moves(b) /\ calls' = calls /\ at'[b] = "destroyed" /\ todo' = todo
      /\ Object(b)' = Object(b)
  BY <1>1, <1>2, GoesOn
<1>4. dumpMu'[Object(b)] = Free /\ dump'[Object(b)] = "destroyed"
  BY <1>1, <1>2 DEF IInv, Types
<1>5. DumpStep(b)
  BY <1>1, <1>2, <1>3, <1>4 DEF DumpStep, IInv, Types
<1>6. Elsewhere(b) /\ Quiet(b) /\ Types' /\ Objects' /\ OneStopper'
      /\ ~Doing(b, "settle", "start")
  BY <1>3, <1>5, DumpQuiet DEF Doing
<1>7. AtStep(b)'
  BY <1>1, <1>3, <1>4 DEF AtStep, Doing, InDump, Stopping
<1>8. UNCHANGED opMu
  BY <1>1
<1>9. QED
  BY <1>1, <1>2, <1>6, <1>7, <1>8, QuietGo

LEMMA DumpForgotten ==
  ASSUME IInv, NEW b \in Actors, forgetDump(b)
  PROVE  IInv'
<1>1. /\ Doing(b, "closeDump", "destroyed") /\ StepDone(b)
      /\ dumps' = dumps \ {Object(b)}
      /\ UNCHANGED <<tree, opMu, recordingVars, dump, dumpMu, archived>>
  BY DEF forgetDump
<1>2. /\ CallTypes /\ Object(b) \in Dumps /\ dump[Object(b)] = "destroyed"
      /\ todo[b] # <<>> /\ Head(todo[b])[1] = "closeDump"
      /\ "start" \in Places /\ Tail(todo[b]) \in Seq(Steps)
  <2>1. CallTypes /\ todo[b] # <<>> /\ Head(todo[b])[1] = "closeDump"
        /\ dump[Object(b)] = "destroyed"
    BY <1>1 DEF IInv, Local, AtStep, Doing
  <2>2. QED
    BY <2>1, HeadNames, TailFacts DEF Places
<1>3. Moves(b) /\ calls' = calls /\ at'[b] = "start"
  BY <1>1, <1>2, Proceeds DEF StepDone, Continue
<1>4. dumpMu[Object(b)] = Free
  <2>1. ASSUME dumpMu[Object(b)] # Free PROVE FALSE
    <3>1. PICK a \in Actors : InDump(a) /\ Object(a) = Object(b)
      BY <1>2, <2>1 DEF IInv, Objects, Types
    <3>2. dump[Object(a)] = "live"
      BY <3>1 DEF IInv, Local, AtStep
    <3>3. QED
      BY <1>2, <3>1, <3>2
  <2>2. QED
    BY <2>1
<1>5. DumpStep(b)
  BY <1>1, <1>2, <1>3, <1>4 DEF DumpStep, IInv, Types
<1>6. Elsewhere(b) /\ Quiet(b) /\ Types' /\ Objects'
  BY <1>3, <1>5, DumpQuiet DEF Doing
<1>7. UNCHANGED <<opMu, dump>>
  BY <1>1
<1>8. QED
  BY <1>1, <1>2, <1>6, <1>7, QuietDone

LEMMA CloseRawDumpKeeps ==
  ASSUME IInv, NEW b \in Actors, CloseRawDump(b)
  PROVE  IInv'
<1>1. CASE stopDump(b)
  <2>1. /\ todo[b] # <<>> /\ Head(todo[b])[1] \in {"stopDump", "closeDump"} /\ at[b] = "start"
        /\ lockDump(b) /\ GoOn(b, "stopping")
    BY <1>1 DEF stopDump, Stopping, Doing
  <2>2. QED
    BY <2>1, LockDump
<1>2. CASE destroyDump(b)
  <2>1. /\ todo[b] # <<>> /\ Head(todo[b])[1] = "closeDump" /\ at[b] = "stopped"
        /\ lockDump(b) /\ GoOn(b, "destroying")
    BY <1>2 DEF destroyDump, Doing
  <2>2. QED
    BY <2>1, LockDump
<1>3. CASE dumpDestroyedBefore(b)
  <2>1. /\ todo[b] # <<>> /\ Head(todo[b])[1] = "closeDump" /\ at[b] \in {"stopped", "kept"}
        /\ dump[Object(b)] = "destroyed" /\ StepDone(b) /\ UNCHANGED <<tree, opMu, objects>>
    BY <1>3 DEF dumpDestroyedBefore, Doing
  <2>2. Elsewhere(b) /\ ~InDump(b)
    BY <2>1 DEF Elsewhere, InDump, Stopping, Doing
  <2>3. QED
    BY <2>1, <2>2, StillDone
<1>4. CASE dumpNotReleased(b)
  <2>1. /\ todo[b] # <<>> /\ Head(todo[b])[1] = "closeDump" /\ at[b] = "kept"
        /\ Fail(b) /\ UNCHANGED <<tree, objects>>
    BY <1>4 DEF dumpNotReleased, Doing
  <2>2. Elsewhere(b) /\ ~InDump(b) /\ Head(todo[b])[1] \notin Recovery \cup {"closeFromClient"}
    BY <2>1 DEF Elsewhere, InDump, Stopping, Doing, Recovery
  <2>3. QED
    BY <2>1, <2>2, Fails
<1>5. QED
  BY <1>1, <1>2, <1>3, <1>4, DumpStopped, DumpStoppedBefore, DumpKept, DumpDestroyed,
     DumpForgotten DEF CloseRawDump

LEMMA StopRecordingKeeps ==
  ASSUME IInv, NEW b \in Actors, StopRecording(b)
  PROVE  IInv'
BY BeginStop, RecordingStopped, RecordingKept, StoppedBefore DEF StopRecording

-----------------------------------------------------------------------------
(* Conn.Close, until it holds the opMu *)

LEMMA Ordered ==
  ASSUME NEW S, IsFiniteSet(S), NEW seq \in Orders(S)
  PROVE  seq \in Seq(S) /\ Range(seq) = S
<1>1. Cardinality(S) \in Nat
  BY FS_CardinalityType
<1>2. QED
  BY <1>1, SeqDef DEF Orders

\* One step for each of some objects.
LEMMA EachIsPlan ==
  ASSUME NEW S, NEW seq \in Seq(S), NEW name, \A x \in S : On(name, x) \in Steps
  PROVE  /\ Each(name, seq) \in Seq(Steps)
         /\ Range(Each(name, seq)) = {On(name, x) : x \in Range(seq)}
         /\ \A i \in DOMAIN Each(name, seq) : Each(name, seq)[i][1] = name
<1>1. Len(seq) \in Nat /\ DOMAIN seq = 1 .. Len(seq) /\ \A i \in DOMAIN seq : seq[i] \in S
  BY ElementOfSeq
<1>2. Each(name, seq) \in [1 .. Len(seq) -> Steps]
  BY <1>1 DEF Each
<1>3. Each(name, seq) \in Seq(Steps)
  BY <1>1, <1>2, SeqDef
<1>4. \A i \in DOMAIN Each(name, seq) : Each(name, seq)[i][1] = name
  BY DEF Each, On
<1>5. QED
  BY <1>1, <1>3, <1>4 DEF Each, Range

\* After the close of a connection, and in the walk of the client, there is no work
\* to do in a connection, and none is locked but the one that is being destroyed.
LEMMA NoWorkLeft ==
  ASSUME IInv, NEW b \in Actors, todo[b] # <<>>,
         Head(todo[b])[1] \notin Work \ {"close", "destroyConn"}
  PROVE  /\ NoWork(Tail(todo[b]))
         /\ \A c \in Connections : On("destroyConn", c) \notin Range(Tail(todo[b]))
         /\ \A c \in Connections : opMu[c] = b => Head(todo[b]) = On("destroyConn", c)
<1>1. \A x \in Range(Tail(todo[b])) : x[1] \notin Work
  BY TailFacts
<1>2. NoWork(Tail(todo[b]))
  BY <1>1 DEF NoWork, Range
<1>3. \A c \in Connections : On("destroyConn", c) \notin Range(Tail(todo[b]))
  BY <1>1, StepNames DEF Work
<1>4. \A c \in Connections : opMu[c] = b => On("destroyConn", c) \in Ahead(b)
  BY NamesDiffer DEF IInv, ConnOK
<1>5. Ahead(b) = {Head(todo[b])} \cup Range(Tail(todo[b]))
  BY TailFacts
<1>6. QED
  BY <1>2, <1>3, <1>4, <1>5

\* The close of a connection that has done what comes before opMu.
LEMMA CloseLooks ==
  ASSUME IInv, NEW b \in Actors, Doing(b, "close", "start") \/ Doing(b, "close", "looked"),
         UNCHANGED <<tree, objects>>,
         \/ Object(b) \in connClosed /\ StepDone(b) /\ UNCHANGED opMu
         \/ Fail(b)
         \/ GoOn(b, "looked") /\ UNCHANGED opMu
  PROVE  IInv'
<1>1. /\ todo[b] # <<>> /\ Head(todo[b])[1] = "close" /\ Elsewhere(b) /\ ~InDump(b)
      /\ Head(todo[b])[1] \notin Recovery \cup {"closeFromClient"}
      /\ Head(todo[b])[1] \notin {"closeFromClient", "settle", "closeDump", "connReleased"}
  BY DEF Doing, Elsewhere, InDump, Stopping, Recovery
<1>2. CASE Object(b) \in connClosed /\ StepDone(b) /\ UNCHANGED opMu
  BY <1>1, <1>2, StillDone
<1>3. CASE Fail(b)
  BY <1>1, <1>3, Fails
<1>4. CASE GoOn(b, "looked") /\ UNCHANGED opMu
  <2>1. "looked" \in Places
    BY DEF Places
  <2>2. at'[b] = "looked" /\ todo' = todo
    BY <1>4, <2>1, GoesOn DEF IInv
  <2>3. AtStep(b)' /\ ~Doing(b, "stop", "native")'
    BY <1>1, <2>2 DEF AtStep, Doing, InDump, Stopping
  <2>4. QED
    BY <1>1, <1>4, <2>1, <2>3, StillGo
<1>5. QED
  BY <1>2, <1>3, <1>4

\* What is before an actor that has locked a connection.
LEMMA ClosePlan ==
  ASSUME IInv, NEW b \in Actors, todo[b] # <<>>, Head(todo[b])[1] = "close",
         NEW ds \in Orders(DumpsOf(Object(b))), NEW plan,
         plan = Each("closeDump", ds) \o <<On("destroyConn", Object(b))>> \o Tail(todo[b])
  PROVE  /\ plan \in Seq(Steps) /\ Shape(plan)
         /\ Range(plan) = {On("closeDump", d) : d \in DumpsOf(Object(b))}
                          \cup {On("destroyConn", Object(b))} \cup Range(Tail(todo[b]))
         /\ 1 \in DOMAIN plan => plan[1][1] # "connReleased"
<1> DEFINE c == Object(b)
           rest == Tail(todo[b])
           first == Each("closeDump", ds)
           last == <<On("destroyConn", c)>> \o rest
<1>1. /\ Head(todo[b]) = On("close", c) /\ c \in Connections
      /\ rest \in Seq(Steps) /\ Shape(rest) /\ NoWork(rest)
      /\ \A k \in Connections : 1 \in DOMAIN rest /\ rest[1] = On("connReleased", k) => k = c
  <2>1. Head(todo[b]) = On("close", c) /\ c \in Connections
    BY HeadNames DEF IInv
  <2>2. NoWork(rest)
    BY NoWorkLeft
  <2>3. \A k \in Connections : 1 \in DOMAIN rest /\ rest[1] = On("connReleased", k) =>
          Head(todo[b]) \in {On("close", k), On("destroyConn", k)}
    BY TailFacts
  <2>4. QED
    BY <2>1, <2>2, <2>3, TailFacts, StepNames
<1> HIDE DEF c, rest
<1>2. IsFiniteSet(DumpsOf(c)) /\ DumpsOf(c) \subseteq Dumps
  <2>1. DumpsOf(c) \subseteq Dumps
    BY DEF DumpsOf, IInv, Types
  <2>2. QED
    BY <2>1, FS_Subset, ManagedAssumption
<1>3. ds \in Seq(DumpsOf(c)) /\ Range(ds) = DumpsOf(c)
  BY <1>2, Ordered DEF c
<1>4. /\ first \in Seq(Steps) /\ Range(first) = {On("closeDump", d) : d \in DumpsOf(c)}
      /\ \A i \in DOMAIN first : first[i][1] = "closeDump"
  <2>1. \A d \in DumpsOf(c) : On("closeDump", d) \in Steps
    BY <1>2 DEF Steps, DumpSteps
  <2>2. QED
    BY <1>3, <2>1, EachIsPlan
<1>5. /\ last \in Seq(Steps) /\ Shape(last)
      /\ Range(last) = {On("destroyConn", c)} \cup Range(rest)
      /\ 1 \in DOMAIN last => last[1][1] # "connReleased"
  BY <1>1, CloseAhead
<1>6. plan = first \o last
  <2>1. plan = (first \o <<On("destroyConn", c)>>) \o rest
    BY DEF c, rest
  <2> HIDE DEF first
  <2>2. <<On("destroyConn", c)>> \in Seq(Steps)
    BY <1>1 DEF Steps, ConnSteps
  <2>3. (first \o <<On("destroyConn", c)>>) \o rest = first \o (<<On("destroyConn", c)>> \o rest)
    BY <1>1, <1>4, <2>2, ConcatAssociative
  <2>4. QED
    BY <2>1, <2>3
<1> HIDE DEF first, last
<1>7. /\ plan \in Seq(Steps) /\ Shape(plan) /\ Range(plan) = Range(first) \cup Range(last)
      /\ 1 \in DOMAIN plan => plan[1][1] # "connReleased"
  BY <1>4, <1>5, <1>6, Prepended
<1>8. QED
  BY <1>4, <1>5, <1>7 DEF c, rest

LEMMA ConnLocked ==
  ASSUME IInv, NEW b \in Actors, Doing(b, "close", "looked"),
         Object(b) \notin connClosed, mayClose(Object(b)), opMu[Object(b)] = Free,
         opMu' = [opMu EXCEPT ![Object(b)] = b],
         NEW ds \in Orders(DumpsOf(Object(b))),
         Continue(b, Each("closeDump", ds) \o <<On("destroyConn", Object(b))>>
                     \o Tail(todo[b])),
         UNCHANGED <<tree, objects>>
  PROVE  IInv'
<1>1. /\ todo[b] # <<>> /\ Head(todo[b])[1] = "close" /\ Head(todo[b]) = On("close", Object(b))
      /\ Object(b) \in Connections /\ Elsewhere(b) /\ ~InDump(b) /\ ~Doing(b, "settle", "start")
      /\ On("close", Object(b)) \in Ahead(b) /\ "start" \in Places
  <2>1. /\ todo[b] # <<>> /\ Head(todo[b])[1] = "close" /\ CallTypes
        /\ Elsewhere(b) /\ ~InDump(b) /\ ~Doing(b, "settle", "start")
    BY DEF Doing, Elsewhere, InDump, Stopping, IInv
  <2>2. QED
    BY <2>1, HeadNames DEF Places
<1>0. PICK c \in Connections : c = Object(b)
  BY <1>1
<1>2. PICK plan \in Seq(Steps) :
        /\ plan = Each("closeDump", ds) \o <<On("destroyConn", Object(b))>> \o Tail(todo[b])
        /\ Shape(plan)
        /\ Range(plan) = {On("closeDump", d) : d \in DumpsOf(c)}
                         \cup {On("destroyConn", c)} \cup Range(Tail(todo[b]))
        /\ 1 \in DOMAIN plan => plan[1][1] # "connReleased"
  BY <1>0, <1>1, ClosePlan
<1>3. Proceed(b, plan, "start")
  BY <1>2 DEF Continue
<1>4. CallTypes' /\ Moves(b) /\ calls' = calls /\ todo'[b] = plan /\ at'[b] = "start"
      /\ Ahead(b)' = Range(plan)
  <2>1. CallTypes' /\ Moves(b) /\ calls' = calls /\ todo'[b] = plan /\ at'[b] = "start"
    BY <1>1, <1>2, <1>3, Proceeds DEF IInv
  <2>2. QED
    BY <2>1 DEF Ahead
<1>5. /\ Ahead(b) = {On("close", c)} \cup Range(Tail(todo[b]))
      /\ \A k \in Connections : On("destroyConn", k) \notin Range(Tail(todo[b])) /\ opMu[k] # b
  <2>1. Ahead(b) = {On("close", c)} \cup Range(Tail(todo[b]))
    BY <1>0, <1>1, TailFacts
  <2>2. Head(todo[b])[1] \notin Work \ {"close", "destroyConn"}
    BY <1>1
  <2>3. \A k \in Connections : On("destroyConn", k) # Head(todo[b])
    BY <1>1, StepNames
  <2>4. QED
    BY <1>1, <2>1, <2>2, <2>3, NoWorkLeft
<1>6. LocksStay(b) /\ opMu'[c] = b /\ opMu' \in [Connections -> Actors \cup {Free}]
      /\ \A k \in Connections \ {c} : opMu'[k] # b
  BY <1>0, <1>1, <1>5 DEF LocksStay, IInv, Types
<1>7. Quiet(b)
  BY <1>6, StillWorld
<1>8. /\ UNCHANGED <<closing, client, clientClosed, registry, conn, connClosed, shut, bound,
                     parent, waiting, handling, recording, tasks, dump, dumpMu, archived, dumps>>
  BY DEF tree, objects, clientVars, connVars, eventVars, recordingVars, dumpVars
<1>9. Types' /\ Objects' /\ OneStopper'
  <2>1. Types'
    BY <1>4, <1>6, <1>8 DEF IInv, Types
  <2>2. ~Doing(b, "stop", "native")'
    BY <1>4 DEF Doing
  <2>3. Objects'
    BY <1>1, <1>4, <1>8, ObjectsKept DEF dumpVars
  <2>4. QED
    BY <1>4, <2>1, <2>2, <2>3, OneStopperStays
<1>10. Do("settle") \in Ahead(b)' <=> Do("settle") \in Ahead(b)
  BY <1>2, <1>4, <1>5, StepNames
<1>11. Local(b)'
  <2>1. AtStep(b)'
    <3>1. plan # <<>> => Head(plan) = plan[1] /\ 1 \in DOMAIN plan
      BY <1>2, HeadAndTail
    <3>2. ~Doing(b, "connReleased", "start")'
      BY <1>2, <1>4, <3>1 DEF Doing
    <3>3. QED
      BY <1>4, <3>2 DEF AtStep, Doing, InDump, Stopping
  <2>2. ClosesConn(b)'
    <3>1. \A k \in Connections : On("destroyConn", k) \in Ahead(b)' => k = c
      BY <1>2, <1>4, <1>5, StepNames
    <3>2. conn[c] = "open"
      BY <1>0, <1>1 DEF IInv, Local, Known, ConnOK, Types
    <3>3. DepsOf(c)' = {} /\ TasksOf(c)' = {}
      BY <1>0, <1>8 DEF mayClose, DepsOf, TasksOf
    <3>4. \A d \in Dumps : Live(d, c)' => On("closeDump", d) \in Ahead(b)'
      BY <1>2, <1>4, <1>8 DEF Live, DumpsOf, IInv, Objects
    <3>5. ~Destroyed(b)' /\ ~Doing(b, "destroyConn", "begun")' /\ ~Doing(b, "destroyConn", "closed")'
      BY <1>4 DEF Destroyed, Doing
    <3>6. c \notin connClosed' /\ opMu'[c] = b /\ conn'[c] = "open"
      BY <1>0, <1>6, <1>8, <3>2
    <3>7. QED
      BY <3>1, <3>3, <3>4, <3>5, <3>6 DEF ClosesConn
  <2>3. ClosesClient(b)'
    <3>1. ClosesClient(b)
      BY DEF IInv, Local
    <3>2. \A k \in Connections, name \in {"closeFromClient", "connReleased"} :
            On(name, k) \in Ahead(b) => On(name, k) \in Ahead(b)'
      BY <1>2, <1>4, <1>5, StepNames
    <3>3. Do("destroyClient") \in Ahead(b)' => Do("destroyClient") \in Ahead(b)
      BY <1>2, <1>4, <1>5, StepNames
    <3>4. QED
      BY <1>8, <1>10, <3>1, <3>2, <3>3 DEF ClosesClient
  <2>4. Known(b)'
    <3>1. \A k \in Connections, name \in {"close", "closeFromClient"} :
            On(name, k) \in Ahead(b)' => On(name, k) \in Ahead(b)
      BY <1>2, <1>4, <1>5, StepNames
    <3>2. QED
      BY <1>8, <3>1 DEF Known, IInv, Local
  <2>5. QED
    BY <1>2, <1>4, <2>1, <2>2, <2>3, <2>4 DEF Local
<1>12. \A k \in Connections : opMu'[k] = b => On("destroyConn", k) \in Ahead(b)'
  BY <1>2, <1>4, <1>6
<1>13. QED
  BY <1>1, <1>4, <1>7, <1>9, <1>10, <1>11, <1>12, QuietStep

-----------------------------------------------------------------------------
(* The destruction of a connection, under its opMu *)

\* Who destroys a connection holds it, and has nothing left of it before it.
LEMMA AtDestroyConn ==
  ASSUME IInv, NEW b \in Actors, todo[b] # <<>>, Head(todo[b])[1] = "destroyConn"
  PROVE  /\ Object(b) \in Connections /\ Head(todo[b]) = On("destroyConn", Object(b))
         /\ Head(todo[b]) \in Ahead(b) /\ opMu[Object(b)] = b
         /\ DepsOf(Object(b)) = {} /\ TasksOf(Object(b)) = {}
         /\ \A d \in Dumps : ~Live(d, Object(b))
         /\ \A k \in Connections : On("destroyConn", k) \in Ahead(b) => k = Object(b)
         /\ \A k \in Connections : opMu[k] = b => k = Object(b)
         /\ conn[Object(b)] = IF Destroyed(b) THEN "destroyed" ELSE "open"
         /\ Object(b) \in connClosed <=> at[b] = "closed"
         /\ at[b] \in {"begun", "destroyed", "closed"} => Object(b) \in shut
         /\ Ahead(b) = {Head(todo[b])} \cup Range(Tail(todo[b]))
         /\ ~InDump(b) /\ Tail(todo[b]) \in Seq(Steps)
<1>1. /\ Object(b) \in Connections /\ Head(todo[b]) = On("destroyConn", Object(b))
      /\ Head(todo[b]) \in Ahead(b)
  BY HeadNames DEF IInv
<1>2. /\ opMu[Object(b)] = b /\ DepsOf(Object(b)) = {} /\ TasksOf(Object(b)) = {}
      /\ \A d \in Dumps : Live(d, Object(b)) => On("closeDump", d) \in Ahead(b)
      /\ conn[Object(b)] = IF Destroyed(b) THEN "destroyed" ELSE "open"
      /\ Object(b) \in connClosed <=> at[b] = "closed"
      /\ at[b] \in {"begun", "destroyed", "closed"} => Object(b) \in shut
  BY <1>1 DEF IInv, Local, ClosesConn, Destroyed, Doing
<1>3. /\ Ahead(b) = {Head(todo[b])} \cup Range(Tail(todo[b]))
      /\ NoWork(Tail(todo[b]))
      /\ \A k \in Connections : On("destroyConn", k) \notin Range(Tail(todo[b]))
      /\ \A k \in Connections : opMu[k] = b => Head(todo[b]) = On("destroyConn", k)
      /\ Tail(todo[b]) \in Seq(Steps)
  BY TailFacts, NoWorkLeft
<1>4. \A k \in Connections : On("destroyConn", k) \in Ahead(b) => k = Object(b)
  BY <1>1, <1>3, StepNames
<1>5. \A k \in Connections : opMu[k] = b => k = Object(b)
  BY <1>1, <1>3, StepNames
<1>6. \A d \in Dumps : On("closeDump", d) \notin Ahead(b)
  <2>1. \A d \in Dumps : On("closeDump", d) \notin Range(Tail(todo[b]))
    BY <1>3, StepNames DEF NoWork, Range, Work
  <2>2. QED
    BY <1>1, <1>3, <2>1, StepNames
<1>7. ~InDump(b)
  BY DEF InDump, Stopping, Doing
<1>8. QED
  BY <1>1, <1>2, <1>3, <1>4, <1>5, <1>6, <1>7

\* A step of the destruction changes its own connection.
DestroyStep(b, c) ==
  /\ todo[b] # <<>> /\ Head(todo[b])[1] = "destroyConn" /\ Object(b) = c
  /\ UNCHANGED <<closing, clientClosed, client, bound, parent, objects, eventVars, calls>>
  /\ \A k \in Connections \ {c} :
       /\ conn'[k] = conn[k] /\ opMu'[k] = opMu[k]
       /\ k \in connClosed' <=> k \in connClosed
       /\ k \in shut' <=> k \in shut
       /\ k \in registry => k \in registry'
  /\ conn'[c] \in {conn[c], "destroyed"} /\ opMu'[c] \in {b, Free}
  /\ c \in connClosed => c \in connClosed'
  /\ Moves(b) /\ ~Doing(b, "stop", "native")'

LEMMA DestroyWorld ==
  ASSUME IInv, NEW b \in Actors, NEW c \in Connections, DestroyStep(b, c)
  PROVE  /\ World(b) /\ Objects' /\ OneStopper'
         /\ \A k \in Connections : conn'[k] = "open" => conn[k] = "open"
         /\ DepsOf(c)' = {} /\ TasksOf(c)' = {} /\ \A d \in Dumps : ~Live(d, c)'
<1>1. /\ Head(todo[b]) = On("destroyConn", c) /\ opMu[c] = b /\ conn[c] # "none"
      /\ DepsOf(c) = {} /\ TasksOf(c) = {} /\ (\A d \in Dumps : ~Live(d, c)) /\ ~InDump(b)
  BY AtDestroyConn DEF DestroyStep
<1>2. /\ \A k \in Connections : DepsOf(k)' = DepsOf(k) /\ TasksOf(k)' = TasksOf(k)
      /\ \A k \in Connections, d \in Dumps : Live(d, k)' = Live(d, k)
  BY DEF DestroyStep, DepsOf, TasksOf, Live, objects, recordingVars, dumpVars
<1>3. \A k \in Connections : conn'[k] = "open" => conn[k] = "open"
  BY DEF DestroyStep
<1>4. LockedStay(b)
  BY <1>1, <1>2 DEF LockedStay, AtDestroy, DestroyStep
<1>5. OthersStay(b)
  <2>1. connClosed \subseteq connClosed'
    BY DEF DestroyStep, IInv, Types
  <2>2. \A k \in Connections : conn'[k] = "none" => conn[k] = "none"
    BY <1>1 DEF DestroyStep
  <2>3. \A k \in Connections : opMu[k] \notin {Free, b} => opMu'[k] = opMu[k]
    BY <1>1 DEF DestroyStep
  <2>4. UNCHANGED <<dump, dumpMu, recording>>
    BY DEF DestroyStep, objects, recordingVars, dumpVars
  <2>5. QED
    BY <2>1, <2>2, <2>3, <2>4 DEF OthersStay
<1>6. ClientStays(b)
  BY <1>3 DEF ClientStays, DestroyStep
<1>7. Objects'
  BY <1>1, ObjectsKept DEF DestroyStep, objects, recordingVars
<1>8. OneStopper'
  BY OneStopperStays DEF DestroyStep
<1>9. QED
  BY <1>1, <1>2, <1>3, <1>4, <1>5, <1>6, <1>7, <1>8 DEF World

LEMMA DestroyKeeps ==
  ASSUME IInv, NEW b \in Actors, NEW c \in Connections, DestroyStep(b, c),
         Types', CallTypes', Local(b)', ConnOK(c)',
         Do("settle") \in Ahead(b)' <=> Do("settle") \in Ahead(b)
  PROVE  IInv'
<1>1. /\ World(b) /\ Objects' /\ OneStopper' /\ Moves(b)
      /\ \A k \in Connections : conn'[k] = "open" => conn[k] = "open"
      /\ UNCHANGED <<closing, clientClosed, client, bound, parent, objects, eventVars, calls>>
  BY DestroyWorld DEF DestroyStep
<1>2. \A a \in Actors : Local(a)'
  BY <1>1, OthersHold
<1>3. OneClient'
  <2>1. ~Doing(b, "settle", "start")
    BY DEF DestroyStep, Doing
  <2>2. QED
    BY <1>1, <2>1, OneClientStays DEF World
<1>4. ASSUME NEW k \in Connections \ {c} PROVE ConnOK(k)'
  <2>1. ConnOK(k) /\ opMu[k] # b
    BY AtDestroyConn DEF IInv, DestroyStep
  <2>2. /\ conn'[k] = conn[k] /\ opMu'[k] = opMu[k]
        /\ (k \in connClosed' <=> k \in connClosed) /\ (k \in shut' <=> k \in shut)
        /\ (k \in registry => k \in registry')
    BY DEF DestroyStep
  <2>3. opMu[k] # Free => todo'[opMu[k]] = todo[opMu[k]]
    BY <1>1, <2>1 DEF Moves, IInv, Types
  <2>4. /\ DepsOf(k)' = DepsOf(k) /\ TasksOf(k)' = TasksOf(k) /\ handling' = handling
        /\ \A d \in Dumps : Live(d, k)' = Live(d, k)
    BY <1>1 DEF DepsOf, TasksOf, Live, objects, recordingVars, dumpVars, eventVars
  <2>5. QED
    BY <2>1, <2>2, <2>3, <2>4 DEF ConnOK, Ahead
<1>5. QED
  BY <1>1, <1>2, <1>3, <1>4 DEF IInv

\* A destruction that goes on.
LEMMA DestroyGoes ==
  ASSUME IInv, NEW b \in Actors, NEW c \in Connections, DestroyStep(b, c), Types',
         NEW place \in {"begun", "destroyed", "closed"}, GoOn(b, place), opMu'[c] = b,
         c \in shut', c \notin handling, registry' = registry,
         conn'[c] = IF place = "begun" THEN "open" ELSE "destroyed",
         c \in connClosed' <=> place = "closed"
  PROVE  IInv'
<1>1. /\ Head(todo[b]) = On("destroyConn", c) /\ Head(todo[b]) \in Ahead(b)
      /\ \A k \in Connections : On("destroyConn", k) \in Ahead(b) => k = c
  BY AtDestroyConn DEF DestroyStep
<1>2. place \in Places
  BY DEF Places
<1>3. /\ CallTypes' /\ todo' = todo /\ at'[b] = place /\ Object(b)' = Object(b)
      /\ Ahead(b)' = Ahead(b)
  BY <1>2, GoesOn DEF IInv, Ahead
<1>4. /\ todo[b] # <<>> /\ Head(todo[b])[1] = "destroyConn"
      /\ UNCHANGED <<closing, bound, parent, objects, eventVars>>
  BY DEF DestroyStep
<1>5. /\ World(b) /\ DepsOf(c)' = {} /\ TasksOf(c)' = {} /\ (\A d \in Dumps : ~Live(d, c)')
      /\ \A k \in Connections : conn'[k] = "open" => conn[k] = "open"
  BY DestroyWorld
<1>6. ConnOK(c)'
  <2>1. /\ opMu'[c] # Free /\ todo'[b] # <<>> /\ Head(todo'[b]) = On("destroyConn", c)
        /\ On("destroyConn", c) \in Range(todo'[b])
    BY <1>1, <1>3, <1>4, NamesDiffer DEF Ahead
  <2>2. conn'[c] = "open" => c \in registry'
    BY <1>5 DEF IInv, ConnOK
  <2>3. QED
    BY <1>4, <1>5, <2>1, <2>2 DEF ConnOK, Ahead, eventVars
<1>7. Local(b)'
  <2>1. Local(b)
    BY DEF IInv
  <2>2. /\ Doing(b, "destroyConn", "begun")' <=> place = "begun"
        /\ Doing(b, "destroyConn", "closed")' <=> place = "closed"
        /\ Destroyed(b)' <=> place # "begun"
    BY <1>3, <1>4 DEF Doing, Destroyed
  <2>3. ClosesConn(b)'
    <3>1. conn'[c] = IF Destroyed(b)' THEN "destroyed" ELSE "open"
      BY <2>2
    <3>2. QED
      BY <1>1, <1>3, <1>5, <2>2, <3>1 DEF ClosesConn
  <2>4. AtStep(b)'
    BY <1>3, <1>4 DEF AtStep, Doing, InDump, Stopping
  <2>5. ClosesClient(b)'
    BY <1>3, <1>4, <1>5, <2>1 DEF Local, ClosesClient
  <2>6. Known(b)'
    BY <1>3, <1>5, <2>1 DEF Local, Known, World, OthersStay
  <2>7. QED
    BY <1>3, <2>1, <2>3, <2>4, <2>5, <2>6 DEF Local
<1>8. QED
  BY <1>3, <1>6, <1>7, DestroyKeeps

\* A destruction that fails opens the mailbox again.
LEMMA DestroyRefused ==
  ASSUME IInv, NEW b \in Actors, NEW c \in Connections, todo[b] # <<>>,
         Head(todo[b])[1] = "destroyConn", Object(b) = c, Fail(b),
         at[b] = "begun" \/ c \notin shut, ~Destroyed(b), c \notin connClosed,
         shut' = shut \ {c},
         UNCHANGED <<clientVars, conn, connClosed, bound, parent, objects, eventVars>>
  PROVE  IInv'
<1>1. Head(todo[b])[1] \notin Recovery \cup {"closeFromClient"}
  BY DEF Recovery
<1>2. Recovered(b)
  BY <1>1, Recovers DEF Fail
<1>3. opMu' \in [Connections -> Actors \cup {Free}] /\ LocksStay(b)
      /\ \A k \in Connections : opMu'[k] # b
  BY Unlocks DEF Fail, IInv
<1>4. /\ opMu[c] = b /\ conn[c] = "open" /\ DepsOf(c) = {} /\ TasksOf(c) = {}
      /\ \A k \in Connections : opMu[k] = b => k = c
  BY AtDestroyConn
<1>5. CallTypes' /\ Moves(b) /\ calls' = calls /\ ~Doing(b, "stop", "native")'
  BY <1>2 DEF Recovered, Doing, Recovery
<1>6. opMu'[c] = Free /\ \A k \in Connections \ {c} : opMu'[k] = opMu[k]
  BY <1>4 DEF Fail, Unlock, IInv, Types
<1>7. DestroyStep(b, c)
  BY <1>5, <1>6 DEF DestroyStep, clientVars
<1>8. Types'
  BY <1>3, <1>5 DEF IInv, Types, clientVars, objects, recordingVars, dumpVars, eventVars
<1>9. Local(b)'
  BY <1>2, RecoveredLocal DEF clientVars
<1>10. ConnOK(c)'
  <2>1. ConnOK(c)
    BY DEF IInv
  <2>2. UNCHANGED <<registry, conn, connClosed, handling>>
    BY DEF clientVars, eventVars
  <2>3. QED
    BY <1>4, <1>6, <2>1, <2>2 DEF ConnOK
<1>11. QED
  BY <1>2, <1>5, <1>7, <1>8, <1>9, <1>10, DestroyKeeps DEF Recovered

LEMMA ConnForgotten ==
  ASSUME IInv, NEW b \in Actors, forgetConn(b)
  PROVE  IInv'
<1>1. /\ todo[b] # <<>> /\ Head(todo[b])[1] = "destroyConn" /\ at[b] = "closed"
      /\ Destroyed(b) /\ Unlock(b) /\ StepDone(b) /\ registry' = registry \ {Object(b)}
      /\ UNCHANGED <<closing, clientClosed, client, connVars, bound, parent, objects, eventVars>>
  BY DEF forgetConn, Doing, Destroyed
<1>2. PICK c \in Connections : c = Object(b) /\ Head(todo[b]) = On("destroyConn", c)
  BY <1>1, AtDestroyConn
<1>3. /\ opMu[c] = b /\ conn[c] = "destroyed" /\ c \in connClosed /\ c \in shut
      /\ (\A k \in Connections : opMu[k] = b => k = c)
      /\ Ahead(b) = {Head(todo[b])} \cup Range(Tail(todo[b]))
      /\ Tail(todo[b]) \in Seq(Steps) /\ "start" \in Places /\ CallTypes
  BY <1>1, <1>2, AtDestroyConn DEF Places, IInv
<1>4. CallTypes' /\ Moves(b) /\ calls' = calls /\ todo'[b] = Tail(todo[b]) /\ at'[b] = "start"
      /\ Ahead(b)' = Range(Tail(todo[b]))
  <2>1. CallTypes' /\ Moves(b) /\ calls' = calls /\ todo'[b] = Tail(todo[b]) /\ at'[b] = "start"
    <3>1. Proceed(b, Tail(todo[b]), "start")
      BY <1>1 DEF StepDone, Continue
    <3>2. QED
      BY <1>3, <3>1, Proceeds
  <2>2. QED
    BY <2>1 DEF Ahead
<1>5. opMu' \in [Connections -> Actors \cup {Free}] /\ opMu'[c] = Free
      /\ \A k \in Connections \ {c} : opMu'[k] = opMu[k]
  BY <1>1, <1>3, Unlocks DEF Unlock, IInv, Types
<1>6. DestroyStep(b, c)
  <2>1. ~Doing(b, "stop", "native")'
    BY <1>4 DEF Doing
  <2>2. QED
    BY <1>1, <1>2, <1>4, <1>5, <2>1 DEF DestroyStep, connVars
<1>7. Types'
  BY <1>1, <1>4, <1>5 DEF IInv, Types, connVars, objects, recordingVars, dumpVars, eventVars
<1>8. /\ World(b) /\ DepsOf(c)' = {} /\ TasksOf(c)' = {} /\ (\A d \in Dumps : ~Live(d, c)')
      /\ \A k \in Connections : conn'[k] = "open" => conn[k] = "open"
  BY <1>6, DestroyWorld
<1>9. Local(b)'
  <2>1. Do("settle") \in Range(Tail(todo[b])) => closing'
    BY <1>1, <1>3 DEF IInv, Local, ClosesClient
  <2>2. Object(b) \in connClosed'
    BY <1>1, <1>2, <1>3 DEF connVars
  <2>3. QED
    BY <1>1, <1>4, <1>8, <2>1, <2>2, DoneLocal
<1>10. ConnOK(c)'
  <2>1. ConnOK(c)
    BY DEF IInv
  <2>2. QED
    BY <1>1, <1>3, <1>5, <1>8, <2>1 DEF ConnOK, connVars, eventVars
<1>11. Do("settle") \in Ahead(b)' <=> Do("settle") \in Ahead(b)
  BY <1>2, <1>3, <1>4, StepNames
<1>12. QED
  BY <1>4, <1>6, <1>7, <1>9, <1>10, <1>11, DestroyKeeps

LEMMA CloseConnKeeps ==
  ASSUME IInv, NEW b \in Actors, CloseConn(b)
  PROVE  IInv'
<1>1. CASE lookClose(b)
  BY <1>1, CloseLooks DEF lookClose
<1>2. CASE lockClose(b)
  <2>1. /\ Doing(b, "close", "looked") /\ opMu[Object(b)] = Free /\ UNCHANGED <<tree, objects>>
    BY <1>2 DEF lockClose
  <2>2. CASE Object(b) \in connClosed /\ StepDone(b) /\ UNCHANGED opMu
    BY <2>1, <2>2, CloseLooks
  <2>3. CASE Fail(b)
    BY <2>1, <2>3, CloseLooks
  <2>4. CASE /\ Object(b) \notin connClosed /\ mayClose(Object(b))
             /\ opMu' = [opMu EXCEPT ![Object(b)] = b]
             /\ \E ds \in Orders(DumpsOf(Object(b))) :
                  Continue(b, Each("closeDump", ds) \o <<On("destroyConn", Object(b))>>
                              \o Tail(todo[b]))
    BY <2>1, <2>4, ConnLocked
  <2>5. QED
    BY <1>2, <2>2, <2>3, <2>4 DEF lockClose
<1>3. ASSUME todo[b] # <<>>, Head(todo[b])[1] = "destroyConn",
             beginClose(b) \/ connKept(b) \/ connDestroyed(b) \/ finishClose(b)
      PROVE  IInv'
  <2>1. PICK c \in Connections : c = Object(b)
    BY <1>3, AtDestroyConn
  <2>2. /\ opMu[c] = b /\ (c \in connClosed <=> at[b] = "closed")
        /\ conn[c] = (IF Destroyed(b) THEN "destroyed" ELSE "open")
        /\ at[b] \in {"begun", "destroyed", "closed"} => c \in shut
        /\ c \in shut => c \notin handling
    <3>1. ConnOK(c)
      BY DEF IInv
    <3>2. QED
      BY <1>3, <2>1, <3>1, AtDestroyConn DEF ConnOK
  <2>3. CASE beginClose(b) /\ c \in handling
    <3>1. /\ Fail(b) /\ UNCHANGED shut /\ at[b] = "start" /\ c \notin shut
          /\ UNCHANGED <<clientVars, conn, connClosed, bound, parent, objects, eventVars>>
      BY <2>1, <2>2, <2>3 DEF beginClose, Doing
    <3>2. ~Destroyed(b) /\ shut' = shut \ {c} /\ c \notin connClosed
      BY <2>2, <3>1 DEF Destroyed, Doing
    <3>3. QED
      BY <1>3, <2>1, <3>1, <3>2, DestroyRefused
  <2>4. CASE connKept(b)
    <3>1. /\ Fail(b) /\ shut' = shut \ {c} /\ at[b] = "begun"
          /\ UNCHANGED <<clientVars, conn, connClosed, bound, parent, objects, eventVars>>
      BY <2>1, <2>4 DEF connKept, Doing
    <3>2. ~Destroyed(b) /\ c \notin connClosed
      BY <2>2, <3>1 DEF Destroyed, Doing
    <3>3. QED
      BY <1>3, <2>1, <3>1, <3>2, DestroyRefused
  <2>5. ASSUME NEW place \in {"begun", "destroyed", "closed"}, GoOn(b, place), UNCHANGED opMu,
               c \notin handling, c \in shut',
               UNCHANGED <<clientVars, bound, parent, objects, eventVars>>,
               conn' \in {conn, [conn EXCEPT ![c] = "destroyed"]},
               connClosed' \in {connClosed, connClosed \cup {c}},
               shut' \in {shut, shut \cup {c}},
               conn'[c] = IF place = "begun" THEN "open" ELSE "destroyed",
               c \in connClosed' <=> place = "closed"
        PROVE  IInv'
    <3>1. place \in Places
      BY DEF Places
    <3>2. Moves(b) /\ calls' = calls /\ todo' = todo
      BY <2>5, <3>1, GoesOn DEF IInv
    <3>3. DestroyStep(b, c)
      BY <1>3, <2>1, <2>2, <2>5, <3>2 DEF DestroyStep, clientVars, Doing, IInv, Types
    <3>4. Types'
      BY <2>5, <3>2 DEF IInv, Types, clientVars, objects, recordingVars, dumpVars, eventVars
    <3>5. opMu'[c] = b /\ registry' = registry
      BY <2>2, <2>5 DEF clientVars
    <3>6. QED
      BY <2>5, <3>3, <3>4, <3>5, DestroyGoes
  <2>6. CASE beginClose(b) /\ c \notin handling
    BY <2>1, <2>2, <2>5, <2>6 DEF beginClose, Doing, Destroyed
  <2>7. CASE connDestroyed(b)
    BY <2>1, <2>2, <2>5, <2>7 DEF connDestroyed, Doing, IInv, Types
  <2>8. CASE finishClose(b)
    BY <2>1, <2>2, <2>5, <2>8 DEF finishClose, Doing, Destroyed
  <2>9. QED
    BY <1>3, <2>3, <2>4, <2>6, <2>7, <2>8
<1>4. beginClose(b) \/ connKept(b) \/ connDestroyed(b) \/ finishClose(b) =>
        todo[b] # <<>> /\ Head(todo[b])[1] = "destroyConn"
  BY DEF beginClose, connKept, connDestroyed, finishClose, Doing
<1>5. QED
  BY <1>1, <1>2, <1>3, <1>4, ConnForgotten DEF CloseConn

-----------------------------------------------------------------------------
(* Client.Close: the walk over the connections *)

\* A walk that goes on with a longer plan.
LEMMA WalksOn ==
  ASSUME IInv, NEW b \in Actors, todo[b] # <<>>,
         Head(todo[b])[1] \in {"preflight", "closeFromClient"},
         NEW plan \in Seq(Steps), Shape(plan), Continue(b, plan),
         UNCHANGED <<tree, opMu, objects>>,
         1 \in DOMAIN plan => plan[1][1] # "connReleased",
         Range(Tail(todo[b])) \subseteq Range(plan),
         \A x \in Range(plan) :
           \/ x \in Range(Tail(todo[b]))
           \/ x[1] \in {"preflightOutput", "closeDump", "stop", "detachFromClient"}
           \/ /\ Head(todo[b])[1] = "closeFromClient"
              /\ x \in {On("close", Object(b)), On("connReleased", Object(b))},
         Head(todo[b])[1] = "closeFromClient" => On("connReleased", Object(b)) \in Range(plan)
  PROVE  IInv'
<1>1. /\ Head(todo[b]) = On(Head(todo[b])[1], Object(b)) /\ Object(b) \in Connections
      /\ Ahead(b) = {Head(todo[b])} \cup Range(Tail(todo[b]))
      /\ "start" \in Places /\ CallTypes
  BY HeadNames, TailFacts DEF IInv, Places
<1>2. /\ Elsewhere(b) /\ ~InDump(b) /\ ~Doing(b, "settle", "start")
      /\ Head(todo[b])[1] \notin Work \ {"close", "destroyConn"}
  BY DEF Elsewhere, InDump, Stopping, Doing, Work
<1>3. /\ \A c \in Connections : On("destroyConn", c) \notin Range(Tail(todo[b]))
      /\ \A c \in Connections : opMu[c] # b
  BY <1>2, NoWorkLeft, StepNames
<1>4. CallTypes' /\ Moves(b) /\ calls' = calls /\ todo'[b] = plan /\ at'[b] = "start"
      /\ Ahead(b)' = Range(plan)
  <2>1. CallTypes' /\ Moves(b) /\ calls' = calls /\ todo'[b] = plan /\ at'[b] = "start"
    BY <1>1, Proceeds DEF Continue
  <2>2. QED
    BY <2>1 DEF Ahead
<1>5. Quiet(b)
  BY LocksAsBefore, StillWorld
<1>6. UNCHANGED <<closing, client, clientClosed, registry, conn, connClosed, shut, bound, parent,
                  waiting, handling, recording, tasks, dump, dumpMu, archived, dumps>>
  BY DEF tree, objects, clientVars, connVars, eventVars, recordingVars, dumpVars
<1>7. Types' /\ Objects' /\ OneStopper'
  <2>1. Types'
    BY <1>4, <1>6 DEF IInv, Types
  <2>2. ~Doing(b, "stop", "native")'
    BY <1>4 DEF Doing
  <2>3. Objects'
    BY <1>2, <1>4, <1>6, ObjectsKept DEF dumpVars
  <2>4. QED
    BY <1>4, <2>1, <2>2, <2>3, OneStopperStays
<1>8. \A x \in Range(plan) :
        \/ x \in Ahead(b)
        \/ x[1] \in {"preflightOutput", "closeDump", "stop", "detachFromClient"}
        \/ /\ On("closeFromClient", Object(b)) \in Ahead(b)
           /\ x \in {On("close", Object(b)), On("connReleased", Object(b))}
  BY <1>1
<1>9. /\ Do("settle") \in Ahead(b)' <=> Do("settle") \in Ahead(b)
      /\ Do("destroyClient") \in Ahead(b)' => Do("destroyClient") \in Ahead(b)
      /\ \A c \in Connections : On("destroyConn", c) \notin Ahead(b)'
  <2>1. \A x \in Range(plan) : x[1] \in {"settle", "destroyClient", "destroyConn"} =>
          x \in Range(Tail(todo[b]))
    BY StepNames
  <2>2. Do("settle") \in Ahead(b) => Do("settle") \in Range(Tail(todo[b]))
    BY <1>1, StepNames
  <2>3. QED
    BY <1>1, <1>3, <1>4, <2>1, <2>2, StepNames
<1>10. Local(b)'
  <2>1. Local(b)
    BY DEF IInv
  <2>2. AtStep(b)'
    <3>1. plan # <<>> => Head(plan) = plan[1] /\ 1 \in DOMAIN plan
      BY HeadAndTail
    <3>2. ~Doing(b, "connReleased", "start")'
      BY <1>4, <3>1 DEF Doing
    <3>3. QED
      BY <1>4, <3>2 DEF AtStep, Doing, InDump, Stopping
  <2>3. ClosesConn(b)'
    BY <1>9 DEF ClosesConn
  <2>4. ClosesClient(b)'
    <3> SUFFICES ASSUME Do("destroyClient") \in Ahead(b)',
                        NEW c \in Connections, conn'[c] = "open"
                 PROVE  \/ On("closeFromClient", c) \in Ahead(b)'
                        \/ On("connReleased", c) \in Ahead(b)'
      BY <1>6, <1>9, <2>1 DEF Local, ClosesClient
    <3>1. On("closeFromClient", c) \in Ahead(b) \/ On("connReleased", c) \in Ahead(b)
      BY <1>6, <1>9, <2>1 DEF Local, ClosesClient
    <3>2. CASE Head(todo[b]) = On("closeFromClient", c)
      BY <1>1, <1>4, <3>2, StepNames
    <3>3. CASE Head(todo[b]) # On("closeFromClient", c)
      BY <1>1, <1>4, <3>1, <3>3, StepNames
    <3>4. QED
      BY <3>2, <3>3
  <2>5. Known(b)'
    <3> SUFFICES ASSUME NEW c \in Connections,
                        On("close", c) \in Range(plan) \/ On("closeFromClient", c) \in Range(plan)
                 PROVE  conn[c] # "none"
      BY <1>4, <1>6 DEF Known
    <3>1. \/ On("close", c) \in Ahead(b) \/ On("closeFromClient", c) \in Ahead(b)
          \/ On("closeFromClient", Object(b)) \in Ahead(b) /\ Object(b) = c
      BY <1>8, StepNames
    <3>2. QED
      BY <2>1, <3>1 DEF Local, Known
  <2>6. QED
    BY <1>4, <2>2, <2>3, <2>4, <2>5 DEF Local
<1>11. \A c \in Connections : opMu'[c] = b => On("destroyConn", c) \in Ahead(b)'
  BY <1>3
<1>12. QED
  BY <1>2, <1>4, <1>5, <1>7, <1>9, <1>10, <1>11, QuietStep

\* A walk that is given up is settled.
LEMMA GivesUp ==
  ASSUME IInv, NEW b \in Actors, todo[b] # <<>>, Head(todo[b])[1] \in Walk,
         Proceed(b, <<Do("settle")>>, "failed"), UNCHANGED <<tree, opMu, objects>>
  PROVE  IInv'
<1> DEFINE plan == <<Do("settle")>>
<1>1. /\ plan \in Seq(Steps) /\ plan # <<>> /\ Head(plan) = Do("settle")
      /\ DOMAIN plan = {1} /\ plan[1] = Do("settle") /\ Range(plan) = {Do("settle")}
  BY DEF Steps, ClientSteps, Range
<1>2. Proceed(b, plan, "failed")
  OBVIOUS
<1> HIDE DEF plan
<1>3. Shape(plan) /\ NoWork(plan)
  BY <1>1, StepNames DEF Shape, WorkFirst, WalkLast, NoWork, Work, Walk
<1>4. /\ Elsewhere(b) /\ ~InDump(b) /\ ~Doing(b, "settle", "start")
      /\ Head(todo[b])[1] \notin Work \ {"close", "destroyConn"} /\ Do("settle") \in Ahead(b)
      /\ "failed" \in Places /\ CallTypes
  <2>1. Do("settle") \in Ahead(b)
    BY TailFacts
  <2>2. QED
    BY <2>1 DEF Elsewhere, InDump, Stopping, Doing, Work, Walk, Places, IInv
<1>5. \A c \in Connections : opMu[c] # b
  BY <1>4, NoWorkLeft, StepNames DEF Walk
<1>6. CallTypes' /\ Moves(b) /\ calls' = calls /\ todo'[b] = plan /\ at'[b] = "failed"
  BY <1>1, <1>2, <1>4, Proceeds
<1>7. Ahead(b)' = {Do("settle")}
  BY <1>1, <1>6 DEF Ahead
<1>8. Recovered(b)
  BY <1>1, <1>3, <1>4, <1>6, <1>7, StepNames DEF Recovered, Recovery
<1>9. Quiet(b)
  BY LocksAsBefore, StillWorld
<1>10. UNCHANGED <<closing, conn, parent, recording, dumpVars>>
  BY DEF tree, clientVars, connVars, objects, recordingVars
<1>11. Local(b)' /\ OneStopper'
  BY <1>8, <1>10, RecoveredLocal
<1>12. Types'
  BY <1>6 DEF IInv, Types, tree, clientVars, connVars, eventVars, objects, recordingVars, dumpVars
<1>13. Objects'
  BY <1>4, <1>6, <1>10, ObjectsKept
<1>14. Do("settle") \in Ahead(b)' <=> Do("settle") \in Ahead(b)
  BY <1>4, <1>7
<1>15. \A c \in Connections : opMu'[c] = b => On("destroyConn", c) \in Ahead(b)'
  BY <1>5
<1>16. QED
  BY <1>4, <1>6, <1>9, <1>11, <1>12, <1>13, <1>14, <1>15, QuietStep

\* The rest of a walk, which may be prepended to.
LEMMA WalkTail ==
  ASSUME IInv, NEW b \in Actors, todo[b] # <<>>, Head(todo[b])[1] \in {"preflight", "closeFromClient"}
  PROVE  /\ Tail(todo[b]) \in Seq(Steps) /\ Shape(Tail(todo[b])) /\ NoWork(Tail(todo[b]))
         /\ Do("settle") \in Range(Tail(todo[b]))
         /\ 1 \in DOMAIN Tail(todo[b]) => Tail(todo[b])[1][1] # "connReleased"
<1> DEFINE rest == Tail(todo[b])
<1>1. rest \in Seq(Steps) /\ Shape(rest) /\ Do("settle") \in Range(rest)
  BY TailFacts DEF Walk
<1>2. NoWork(rest)
  BY NoWorkLeft DEF Work
<1>3. ASSUME 1 \in DOMAIN rest, rest[1][1] = "connReleased" PROVE FALSE
  <2>1. rest[1] \in Steps
    BY <1>1, <1>3, HeadAndTail
  <2>2. PICK c \in Connections : rest[1] = On("connReleased", c)
    BY <1>3, <2>1 DEF Steps, ClientSteps, ConnSteps, OutputSteps, RecordingSteps, DumpSteps,
                      Do, On
  <2>3. Head(todo[b]) \in {On("close", c), On("destroyConn", c)}
    BY <1>3, <2>2, TailFacts
  <2>4. QED
    BY <2>3, StepNames
<1>4. QED
  BY <1>1, <1>2, <1>3

LEMMA Preflight ==
  ASSUME IInv, NEW b \in Actors, preflightClientClose(b)
  PROVE  IInv'
<1>1. /\ todo[b] # <<>> /\ Head(todo[b])[1] \in {"preflight", "preflightOutput"}
      /\ UNCHANGED <<tree, opMu, objects>>
  BY DEF preflightClientClose, Doing
<1>2. CASE Proceed(b, <<Do("settle")>>, "failed")
  BY <1>1, <1>2, GivesUp DEF Walk
<1>3. CASE StepDone(b)
  <2>1. Elsewhere(b) /\ ~InDump(b)
    BY <1>1 DEF Elsewhere, InDump, Stopping, Doing
  <2>2. QED
    BY <1>1, <1>3, <2>1, StillDone
<1>4. ASSUME Object(b) \notin Outputs, NEW os \in Orders(DepsOf(Object(b))),
             Continue(b, Each("preflightOutput", os) \o Tail(todo[b]))
      PROVE  IInv'
  <2> DEFINE first == Each("preflightOutput", os)
             rest == Tail(todo[b])
             plan == first \o rest
  <2>1. Head(todo[b])[1] = "preflight"
    BY <1>1, <1>4, HeadNames DEF IInv
  <2>2. /\ rest \in Seq(Steps) /\ Shape(rest) /\ NoWork(rest) /\ Do("settle") \in Range(rest)
        /\ 1 \in DOMAIN rest => rest[1][1] # "connReleased"
    BY <1>1, <2>1, WalkTail
  <2>3. /\ first \in Seq(Steps) /\ Range(first) = {On("preflightOutput", o) : o \in DepsOf(Object(b))}
        /\ \A i \in DOMAIN first : first[i][1] = "preflightOutput"
    <3>1. DepsOf(Object(b)) \subseteq Outputs
      BY DEF DepsOf
    <3>2. IsFiniteSet(DepsOf(Object(b)))
      BY <3>1, FS_Subset, ManagedAssumption
    <3>3. os \in Seq(DepsOf(Object(b))) /\ Range(os) = DepsOf(Object(b))
      BY <1>4, <3>2, Ordered
    <3>4. \A o \in DepsOf(Object(b)) : On("preflightOutput", o) \in Steps
      BY <3>1 DEF Steps, OutputSteps
    <3>5. QED
      BY <3>3, <3>4, EachIsPlan
  <2>4. Continue(b, plan) /\ plan = first \o rest
    BY <1>4
  <2> HIDE DEF plan, first
  <2>5. /\ plan \in Seq(Steps) /\ Shape(plan) /\ Range(plan) = Range(first) \cup Range(rest)
        /\ 1 \in DOMAIN plan => plan[1][1] # "connReleased"
    <3>1. \A i \in DOMAIN first : first[i][1] \in Visits
      BY <2>3 DEF Visits
    <3> HIDE DEF rest
    <3>2. QED
      BY <2>2, <2>3, <2>4, <3>1, Prepended
  <2>6. \A x \in Range(plan) : x \in Range(rest) \/ x[1] = "preflightOutput"
    BY <2>3, <2>5, StepNames
  <2>7. QED
    BY <1>1, <2>1, <2>4, <2>5, <2>6, WalksOn
<1>5. QED
  BY <1>2, <1>3, <1>4 DEF preflightClientClose

\* What a connection's close has come to is looked at after it.
IsReleased(plan, c, rest) ==
  /\ plan \in Seq(Steps) /\ Shape(plan) /\ NoWork(plan)
  /\ Range(plan) = {On("connReleased", c)} \cup Range(rest)
  /\ \A k \in Connections : 1 \in DOMAIN plan /\ plan[1] = On("connReleased", k) => k = c

LEMMA ReleasedAhead ==
  ASSUME NEW rest \in Seq(Steps), Shape(rest), NoWork(rest), Do("settle") \in Range(rest),
         1 \in DOMAIN rest => rest[1][1] # "connReleased", NEW c \in Connections,
         NEW plan, plan = <<On("connReleased", c)>> \o rest
  PROVE  IsReleased(plan, c, rest)
<1> DEFINE step == On("connReleased", c)
<1>1. /\ step \in Steps /\ step[1] = "connReleased"
      /\ step # Do("settle") /\ step # Do("destroyClient")
      /\ \A k : On("connReleased", k)[1] = "connReleased"
      /\ \A k : step = On("connReleased", k) => k = c
  BY StepNames DEF Steps, ConnSteps
<1> HIDE DEF step
<1>2. <<step>> \in Seq(Steps) /\ Len(<<step>>) = 1 /\ <<step>>[1] = step
      /\ DOMAIN <<step>> = {1} /\ Range(<<step>>) = {step}
  BY <1>1 DEF Range
<1>3. /\ plan \in Seq(Steps) /\ Range(plan) = {step} \cup Range(rest)
      /\ Len(rest) \in Nat /\ DOMAIN rest = 1 .. Len(rest)
      /\ DOMAIN plan = 1 .. (1 + Len(rest)) /\ plan[1] = step
      /\ \A i \in DOMAIN plan : i = 1 \/ (i - 1 \in DOMAIN rest /\ plan[i] = rest[i - 1])
  <2>1. IsJoin(plan, <<step>>, rest)
    BY <1>2, Joined DEF step
  <2>2. QED
    BY <1>2, <2>1 DEF IsJoin
<1>4. \A i, j \in DOMAIN plan : i < j =>
        /\ j - 1 \in DOMAIN rest /\ plan[j] = rest[j - 1]
        /\ i = 1 \/ (i - 1 \in DOMAIN rest /\ plan[i] = rest[i - 1] /\ i - 1 < j - 1)
  BY <1>3
<1>5. NoWork(plan)
  BY <1>1, <1>3 DEF NoWork, Work
<1>6. WorkFirst(plan)
  BY <1>5 DEF NoWork, WorkFirst
<1>7. WalkLast(plan)
  <2>1. \A i, j \in DOMAIN plan : i < j => plan[i] # Do("settle")
    BY <1>1, <1>3, <1>4 DEF Shape, WalkLast
  <2>2. Do("settle") \in Range(plan)
    BY <1>3
  <2>3. \A i, j \in DOMAIN plan :
          i < j /\ plan[i] = Do("destroyClient") => plan[j] = Do("settle")
    BY <1>1, <1>3, <1>4 DEF Shape, WalkLast
  <2>4. ASSUME NEW j \in DOMAIN plan, NEW k \in Connections, j > 1,
               plan[j] = On("connReleased", k)
        PROVE  plan[j - 1] \in {On("close", k), On("destroyConn", k)}
    <3>1. j - 1 \in DOMAIN rest /\ plan[j] = rest[j - 1]
      BY <1>3, <2>4
    <3>2. j - 1 # 1
      BY <1>1, <2>4, <3>1
    <3>3. j - 1 > 1 /\ (j - 1) - 1 \in DOMAIN rest /\ ((j - 1) - 1) + 1 = j - 1 /\ j - 1 \in DOMAIN plan
      BY <1>3, <3>1, <3>2
    <3>4. rest[(j - 1) - 1] = plan[j - 1]
      BY <1>3, <3>3
    <3>5. QED
      BY <2>4, <3>1, <3>3, <3>4 DEF Shape, WalkLast
  <2>5. QED
    BY <2>1, <2>2, <2>3, <2>4 DEF WalkLast
<1>8. QED
  BY <1>1, <1>3, <1>5, <1>6, <1>7 DEF IsReleased, Shape, step

\* Sequences may be put together in any grouping.
Regroups(s, t, u) == (s \o t) \o u = s \o (t \o u)

LEMMA Regrouped ==
  ASSUME NEW s \in Seq(Steps), NEW t \in Seq(Steps), NEW u \in Seq(Steps)
  PROVE  Regroups(s, t, u)
BY ConcatAssociative DEF Regroups

LEMMA JoinedNames ==
  ASSUME NEW first \in Seq(Steps), NEW rest \in Seq(Steps), NEW Names,
         \A i \in DOMAIN first : first[i][1] \in Names,
         \A i \in DOMAIN rest : rest[i][1] \in Names,
         NEW plan, plan = first \o rest
  PROVE  plan \in Seq(Steps) /\ \A i \in DOMAIN plan : plan[i][1] \in Names
<1>1. IsJoin(plan, first, rest)
  BY Joined
<1>2. QED
  BY <1>1 DEF IsJoin

\* What is before an actor that closes a connection of its client.
ClosesFromClient(plan, c, rest) ==
  /\ plan \in Seq(Steps) /\ Shape(plan)
  /\ 1 \in DOMAIN plan => plan[1][1] # "connReleased"
  /\ Range(rest) \cup {On("connReleased", c)} \subseteq Range(plan)
  /\ \A x \in Range(plan) :
       \/ x \in Range(rest) \cup {On("close", c), On("connReleased", c)}
       \/ x[1] \in {"closeDump", "stop", "detachFromClient"}

LEMMA ClientConnPlan ==
  ASSUME IInv, NEW b \in Actors, todo[b] # <<>>, Head(todo[b])[1] = "closeFromClient",
         NEW c \in Connections, NEW ds \in Orders(DumpsOf(c)), NEW rs \in Orders(TasksOf(c)),
         NEW os \in Orders(DepsOf(c)), NEW plan,
         plan = Each("closeDump", ds) \o Each("stop", rs) \o Each("detachFromClient", os)
                \o <<On("close", c), On("connReleased", c)>> \o Tail(todo[b])
  PROVE  ClosesFromClient(plan, c, Tail(todo[b]))
<1> DEFINE rest == Tail(todo[b])
<1>1. PICK dumpPlan \in Seq(Steps) :
        /\ dumpPlan = Each("closeDump", ds)
        /\ \A i \in DOMAIN dumpPlan : dumpPlan[i][1] = "closeDump"
  <2>1. DumpsOf(c) \subseteq Dumps
    BY DEF DumpsOf, IInv, Types
  <2>2. IsFiniteSet(DumpsOf(c))
    BY <2>1, FS_Subset, ManagedAssumption
  <2>3. ds \in Seq(DumpsOf(c))
    BY <2>2, Ordered
  <2>4. \A d \in DumpsOf(c) : On("closeDump", d) \in Steps
    BY <2>1 DEF Steps, DumpSteps
  <2>5. QED
    BY <2>3, <2>4, EachIsPlan
<1>2. PICK stopPlan \in Seq(Steps) :
        /\ stopPlan = Each("stop", rs)
        /\ \A i \in DOMAIN stopPlan : stopPlan[i][1] = "stop"
  <2>1. TasksOf(c) \subseteq Recordings
    BY DEF TasksOf, IInv, Types
  <2>2. IsFiniteSet(TasksOf(c))
    BY <2>1, FS_Subset, ManagedAssumption
  <2>3. rs \in Seq(TasksOf(c))
    BY <2>2, Ordered
  <2>4. \A r \in TasksOf(c) : On("stop", r) \in Steps
    BY <2>1 DEF Steps, RecordingSteps
  <2>5. QED
    BY <2>3, <2>4, EachIsPlan
<1>3. PICK detachPlan \in Seq(Steps) :
        /\ detachPlan = Each("detachFromClient", os)
        /\ \A i \in DOMAIN detachPlan : detachPlan[i][1] = "detachFromClient"
  <2>1. DepsOf(c) \subseteq Outputs
    BY DEF DepsOf
  <2>2. IsFiniteSet(DepsOf(c))
    BY <2>1, FS_Subset, ManagedAssumption
  <2>3. os \in Seq(DepsOf(c))
    BY <2>2, Ordered
  <2>4. \A o \in DepsOf(c) : On("detachFromClient", o) \in Steps
    BY <2>1 DEF Steps, OutputSteps
  <2>5. QED
    BY <2>3, <2>4, EachIsPlan
<1>4. /\ rest \in Seq(Steps) /\ Shape(rest) /\ NoWork(rest) /\ Do("settle") \in Range(rest)
      /\ 1 \in DOMAIN rest => rest[1][1] # "connReleased"
  BY WalkTail
<1> HIDE DEF rest
<1>5. PICK looking : looking = <<On("connReleased", c)>> \o rest
  OBVIOUS
<1>6. /\ looking \in Seq(Steps) /\ Shape(looking) /\ NoWork(looking)
      /\ Range(looking) = {On("connReleased", c)} \cup Range(rest)
      /\ \A k \in Connections : 1 \in DOMAIN looking /\ looking[1] = On("connReleased", k) => k = c
  <2>1. IsReleased(looking, c, rest)
    BY <1>4, <1>5, ReleasedAhead
  <2>2. QED
    BY <2>1 DEF IsReleased
<1>7. PICK last : last = <<On("close", c)>> \o looking
  OBVIOUS
<1>8. /\ last \in Seq(Steps) /\ Shape(last) /\ Range(last) = {On("close", c)} \cup Range(looking)
      /\ 1 \in DOMAIN last => last[1][1] # "connReleased"
  BY <1>6, <1>7, CloseAhead
<1>9. PICK pair : pair = dumpPlan \o stopPlan
  OBVIOUS
<1>10. PICK first : first = pair \o detachPlan
  OBVIOUS
<1>11. /\ first \in Seq(Steps)
       /\ \A i \in DOMAIN first : first[i][1] \in {"stop", "closeDump", "detachFromClient"}
  <2> DEFINE Names == {"stop", "closeDump", "detachFromClient"}
  <2>1. pair \in Seq(Steps) /\ \A i \in DOMAIN pair : pair[i][1] \in Names
    <3>1. /\ \A i \in DOMAIN dumpPlan : dumpPlan[i][1] \in Names
          /\ \A i \in DOMAIN stopPlan : stopPlan[i][1] \in Names
      BY <1>1, <1>2
    <3> HIDE DEF Names
    <3>2. QED
      BY <1>9, <3>1, JoinedNames
  <2>2. \A i \in DOMAIN detachPlan : detachPlan[i][1] \in Names
    BY <1>3
  <2>3. first \in Seq(Steps) /\ \A i \in DOMAIN first : first[i][1] \in Names
    <3> HIDE DEF Names
    <3>1. QED
      BY <1>10, <2>1, <2>2, JoinedNames
  <2>4. QED
    BY <2>3
<1>12. plan = first \o last
  <2> DEFINE one == <<On("close", c)>>
             other == <<On("connReleased", c)>>
             both == <<On("close", c), On("connReleased", c)>>
  <2>1. one \in Seq(Steps) /\ other \in Seq(Steps) /\ both \in Seq(Steps) /\ both = one \o other
    BY DEF Steps, ConnSteps
  <2>2. plan = ((pair \o detachPlan) \o both) \o rest
    BY <1>1, <1>2, <1>3, <1>9 DEF rest
  <2>3. looking = other \o rest /\ last = one \o looking
    BY <1>5, <1>7
  <2> HIDE DEF one, other, both
  <2>4. plan = (first \o both) \o rest
    BY <1>10, <2>2
  <2>5. Regroups(first, both, rest) /\ Regroups(one, other, rest)
    BY <1>4, <1>11, <2>1, Regrouped
  <2>6. (first \o both) \o rest = first \o (both \o rest)
    BY <2>5, Zenon DEF Regroups
  <2>7. both \o rest = last
    BY <2>1, <2>3, <2>5, Zenon DEF Regroups
  <2>8. QED
    BY <2>4, <2>6, <2>7, Zenon
<1>13. /\ plan \in Seq(Steps) /\ Shape(plan) /\ Range(plan) = Range(first) \cup Range(last)
       /\ 1 \in DOMAIN plan => plan[1][1] # "connReleased"
  BY <1>8, <1>11, <1>12, Prepended
<1>14. \A x \in Range(first) : x[1] \in {"stop", "closeDump", "detachFromClient"}
  BY <1>11 DEF Range
<1>15. Range(plan) = Range(first) \cup {On("close", c), On("connReleased", c)} \cup Range(rest)
  BY <1>6, <1>8, <1>13
<1>16. QED
  BY <1>13, <1>14, <1>15 DEF rest, ClosesFromClient

LEMMA ClosedFromClient ==
  ASSUME IInv, NEW b \in Actors, closeFromClient(b)
  PROVE  IInv'
<1>1. /\ todo[b] # <<>> /\ Head(todo[b])[1] = "closeFromClient"
      /\ UNCHANGED <<tree, opMu, objects>>
  BY DEF closeFromClient, Doing
<1>2. PICK c \in Connections : c = Object(b)
  BY <1>1, HeadNames DEF IInv
<1>3. PICK ds \in Orders(DumpsOf(c)), rs \in Orders(TasksOf(c)), os \in Orders(DepsOf(c)) :
        Continue(b, Each("closeDump", ds) \o Each("stop", rs) \o Each("detachFromClient", os)
                    \o <<On("close", c), On("connReleased", c)>> \o Tail(todo[b]))
  BY <1>2 DEF closeFromClient
<1> DEFINE plan == Each("closeDump", ds) \o Each("stop", rs) \o Each("detachFromClient", os)
                   \o <<On("close", c), On("connReleased", c)>> \o Tail(todo[b])
<1>4. /\ plan \in Seq(Steps) /\ Shape(plan)
      /\ 1 \in DOMAIN plan => plan[1][1] # "connReleased"
      /\ Range(Tail(todo[b])) \cup {On("connReleased", c)} \subseteq Range(plan)
      /\ \A x \in Range(plan) :
           \/ x \in Range(Tail(todo[b])) \cup {On("close", c), On("connReleased", c)}
           \/ x[1] \in {"closeDump", "stop", "detachFromClient"}
  <2>1. ClosesFromClient(plan, c, Tail(todo[b]))
    BY <1>1, ClientConnPlan
  <2> HIDE DEF plan
  <2>2. QED
    BY <2>1 DEF ClosesFromClient
<1>5. Continue(b, plan)
  BY <1>3
<1> HIDE DEF plan
<1>6. QED
  BY <1>1, <1>2, <1>4, <1>5, WalksOn

\* Taken from whatever connection it is attached to.
LEMMA DetachedFromClient ==
  ASSUME IInv, NEW b \in Actors, detachFromClient(b)
  PROVE  IInv'
<1>1. /\ todo[b] # <<>> /\ Head(todo[b])[1] = "detachFromClient" /\ at[b] = "start"
      /\ UNCHANGED <<clientVars, connVars, opMu, parent, objects, handling>>
  BY DEF detachFromClient, Doing
<1>2. /\ Elsewhere(b) /\ ~InDump(b) /\ ~Doing(b, "settle", "start") /\ "waitIdle" \in Places
      /\ Object(b) \in Outputs
  <2>1. Object(b) \in Outputs
    BY <1>1, HeadNames DEF IInv
  <2>2. QED
    BY <1>1, <2>1 DEF Elsewhere, InDump, Stopping, Doing, Places
<1>3. CASE StepDone(b) /\ UNCHANGED <<bound, waiting>>
  <2>1. UNCHANGED <<tree, opMu, objects>>
    BY <1>1, <1>3 DEF tree, eventVars
  <2>2. QED
    BY <1>1, <1>2, <1>3, <2>1, StillDone
<1>4. CASE /\ bound' = [bound EXCEPT ![Object(b)] = NoOne]
           /\ waiting' \in {waiting, waiting \cup {Object(b)}}
           /\ GoOn(b, "waitIdle")
  <2>1. CallTypes' /\ Moves(b) /\ todo' = todo /\ at'[b] = "waitIdle" /\ calls' = calls
    BY <1>2, <1>4, GoesOn DEF IInv
  <2>2. \A c \in Connections : DepsOf(c)' \subseteq DepsOf(c)
    BY <1>2, <1>4, NamesDiffer DEF DepsOf, IInv, Types
  <2>3. ChildrenShrink
    BY <1>1, <2>2 DEF ChildrenShrink, TasksOf, Live, objects, recordingVars, dumpVars
  <2>4. ObjectsStay(b)
    BY <1>1 DEF ObjectsStay, objects, recordingVars, dumpVars
  <2>5. Quiet(b)
    BY <1>1, <2>3, <2>4, LocksAsBefore DEF Quiet
  <2>6. Types'
    BY <1>1, <1>2, <1>4, <2>1 DEF IInv, Types, clientVars, connVars, objects, recordingVars,
                                  dumpVars
  <2>7. Objects'
    BY <1>1, <1>2, <2>1, ObjectsKept DEF objects, recordingVars
  <2>8. OneStopper'
    BY <2>1, OneStopperStays DEF Doing
  <2>9. AtStep(b)'
    BY <1>1, <2>1 DEF AtStep, Doing, InDump, Stopping
  <2>10. UNCHANGED opMu
    BY <1>1
  <2>11. QED
    BY <1>2, <1>4, <2>5, <2>6, <2>7, <2>8, <2>9, <2>10, QuietGo
<1>5. QED
  BY <1>3, <1>4 DEF detachFromClient

-----------------------------------------------------------------------------
(* Client.Close: its beginning and its end *)

\* A step that changes the client but none of its connections.
ClientStep(b) ==
  /\ todo[b] # <<>> /\ Head(todo[b])[1] \in {"closeClient", "destroyClient", "settle"}
  /\ UNCHANGED <<registry, connVars, opMu, bound, parent, objects, eventVars, calls>>
  /\ closing' \in BOOLEAN /\ clientClosed' \in BOOLEAN /\ client' \in {"open", "destroyed"}
  /\ Do("settle") \in Ahead(b) \/ (closing => closing')
  /\ CallTypes' /\ Moves(b) /\ at'[b] = "start"

LEMMA ClientWorld ==
  ASSUME IInv, NEW b \in Actors, ClientStep(b)
  PROVE  /\ World(b) /\ Types' /\ Objects' /\ OneStopper' /\ conn' = conn
         /\ \A c \in Connections : opMu[c] # b
         /\ \A c \in Connections : On("destroyConn", c) \notin Ahead(b)
<1>1. UNCHANGED <<registry, conn, connClosed, shut, opMu, bound, parent, waiting, handling,
                  recording, tasks, dump, dumpMu, archived, dumps, calls>>
  BY DEF ClientStep, objects, connVars, eventVars, recordingVars, dumpVars
<1>2. Types'
  BY <1>1 DEF ClientStep, IInv, Types
<1>3. World(b)
  BY <1>1 DEF ClientStep, World, LockedStay, OthersStay, ClientStays, DepsOf, TasksOf, Live
<1>4. ~InDump(b) /\ ~Doing(b, "stop", "native")' /\ Moves(b)
  BY DEF ClientStep, InDump, Stopping, Doing
<1>5. Objects' /\ OneStopper'
  BY <1>1, <1>4, ObjectsKept, OneStopperStays DEF dumpVars
<1>6. /\ todo[b] # <<>> /\ Head(todo[b])[1] \notin Work \ {"close", "destroyConn"}
      /\ \A c \in Connections : Head(todo[b]) # On("destroyConn", c)
      /\ Ahead(b) = {Head(todo[b])} \cup Range(Tail(todo[b]))
  <2>1. todo[b] # <<>> /\ Head(todo[b])[1] \in {"closeClient", "destroyClient", "settle"}
    BY DEF ClientStep
  <2>2. QED
    BY <2>1, StepNames, TailFacts DEF Work
<1>7. QED
  BY <1>1, <1>2, <1>3, <1>5, <1>6, NoWorkLeft

LEMMA ClientKeeps ==
  ASSUME IInv, NEW b \in Actors, ClientStep(b), Local(b)', OneClient'
  PROVE  IInv'
<1>1. /\ World(b) /\ Types' /\ Objects' /\ OneStopper' /\ conn' = conn
      /\ \A c \in Connections : opMu[c] # b
  BY ClientWorld
<1>2. UNCHANGED <<registry, connClosed, shut, handling, opMu>> /\ Moves(b) /\ CallTypes'
      /\ Elsewhere(b)
  BY DEF ClientStep, connVars, eventVars, Elsewhere
<1>3. \A a \in Actors : Local(a)'
  BY <1>1, <1>2, OthersHold
<1>4. /\ LocksStay(b)
      /\ \A c \in Connections : conn'[c] = "open" => c \in registry'
      /\ \A c \in Connections : opMu'[c] = b => On("destroyConn", c) \in Ahead(b)'
  BY <1>1, <1>2 DEF LocksStay, IInv, ConnOK
<1>5. ChildrenShrink
  BY DEF ChildrenShrink, DepsOf, TasksOf, Live, ClientStep, objects, recordingVars, dumpVars
<1>6. \A c \in Connections : ConnOK(c)'
  BY <1>1, <1>2, <1>4, <1>5, ElsewhereConns DEF ChildrenShrink
<1>7. QED
  BY <1>1, <1>2, <1>3, <1>6 DEF IInv

LEMMA ClientDestroyed ==
  ASSUME IInv, NEW b \in Actors, Doing(b, "destroyClient", "start"), client' = "destroyed",
         StepDone(b),
         UNCHANGED <<closing, clientClosed, registry, connVars, opMu, bound, parent, objects,
                     eventVars>>
  PROVE  IInv'
<1> DEFINE rest == Tail(todo[b])
<1>1. /\ todo[b] # <<>> /\ Head(todo[b]) = Do("destroyClient")
      /\ Head(todo[b])[1] = "destroyClient" /\ "start" \in Places /\ CallTypes
  BY HeadNames DEF Doing, IInv, Places
<1>2. /\ rest \in Seq(Steps) /\ Ahead(b) = {Do("destroyClient")} \cup Range(rest)
      /\ Do("settle") \in Range(rest) /\ \A x \in Range(rest) : x = Do("settle")
  BY <1>1, TailFacts DEF Walk
<1>3. CallTypes' /\ Moves(b) /\ calls' = calls /\ todo'[b] = rest /\ at'[b] = "start"
      /\ Ahead(b)' = Range(rest)
  <2>1. Proceed(b, rest, "start")
    BY DEF StepDone, Continue
  <2> HIDE DEF rest
  <2>2. CallTypes' /\ Moves(b) /\ calls' = calls /\ todo'[b] = rest /\ at'[b] = "start"
    BY <1>1, <1>2, <2>1, Proceeds
  <2>3. QED
    BY <2>2 DEF Ahead
<1> HIDE DEF rest
<1>4. closing /\ \A c \in Connections : conn[c] # "open"
  <2>1. ClosesClient(b)
    BY DEF IInv, Local
  <2>2. \A x \in Ahead(b) : x[1] \in {"destroyClient", "settle"}
    BY <1>2, StepNames
  <2>3. QED
    BY <1>2, <2>1, <2>2, StepNames DEF ClosesClient
<1>5. ClientStep(b)
  BY <1>1, <1>3 DEF ClientStep, IInv, Types
<1>6. World(b) /\ conn' = conn
  BY <1>5, ClientWorld
<1>7. Local(b)'
  <2>1. UNCHANGED opMu /\ closing'
    BY <1>4
  <2>2. QED
    BY <1>1, <1>3, <1>6, <2>1, DoneLocal DEF rest
<1>8. Doing(b, "settle", "start")'
  <2>1. rest # <<>> /\ Head(rest) \in Range(rest)
    <3>1. rest # <<>>
      BY <1>2, EmptyPlan
    <3>2. QED
      BY <1>2, <3>1, HeadAndTail
  <2>2. QED
    BY <1>2, <1>3, <2>1, StepNames DEF Doing
<1>9. OneClient'
  <2>1. \A a \in Actors : Do("settle") \in Ahead(a)' <=> Do("settle") \in Ahead(a)
    BY <1>2, <1>3 DEF Moves, Ahead
  <2>2. QED
    BY <1>4, <1>6, <1>8, <2>1 DEF IInv, OneClient
<1>10. QED
  BY <1>5, <1>7, <1>9, ClientKeeps

LEMMA ClientSettled ==
  ASSUME IInv, NEW b \in Actors, settle(b)
  PROVE  IInv'
<1>1. /\ todo[b] # <<>> /\ Head(todo[b]) = Do("settle") /\ Head(todo[b])[1] = "settle"
      /\ (at[b] = "start" /\ clientClosed' = TRUE) \/ (at[b] = "failed" /\ UNCHANGED clientClosed)
      /\ closing' = FALSE /\ StepDone(b) /\ "start" \in Places /\ CallTypes
      /\ UNCHANGED <<client, registry, connVars, opMu, bound, parent, objects, eventVars>>
  BY HeadNames DEF settle, Doing, IInv, Places
<1>2. Tail(todo[b]) = <<>> /\ Do("settle") \in Ahead(b)
  BY <1>1, TailFacts
<1>3. CallTypes' /\ Moves(b) /\ calls' = calls /\ todo'[b] = <<>> /\ at'[b] = "start"
  <2>1. Proceed(b, <<>>, "start")
    BY <1>1, <1>2 DEF StepDone, Continue
  <2>2. QED
    BY <1>1, <2>1, EmptyPlan, Proceeds
<1>4. Ahead(b)' = {}
  BY <1>3, EmptyPlan DEF Ahead
<1>5. ClientStep(b)
  BY <1>1, <1>2, <1>3 DEF ClientStep, IInv, Types
<1>6. conn' = conn
  BY <1>5, ClientWorld
<1>7. Local(b)'
  <2>1. AtStep(b)'
    BY <1>3 DEF AtStep, Doing, InDump, Stopping
  <2>2. QED
    BY <1>3, <1>4, <2>1, EmptyPlan DEF Local, ClosesConn, ClosesClient, Known
<1>8. OneClient'
  <2>1. \A a \in Actors : Do("settle") \notin Ahead(a)'
    BY <1>2, <1>3, <1>4 DEF IInv, OneClient, Moves, Ahead
  <2>2. client = "destroyed" => clientClosed'
    <3>1. \A a \in Actors : Doing(a, "settle", "start") => a = b
      BY <1>2, HeadNames DEF Doing, IInv, OneClient
    <3>2. QED
      BY <1>1, <3>1 DEF IInv, OneClient, Doing
  <2>3. QED
    BY <1>1, <1>6, <2>1, <2>2 DEF IInv, OneClient
<1>9. QED
  BY <1>5, <1>7, <1>8, ClientKeeps

LEMMA LastSteps ==
  ASSUME NEW plan, plan = <<Do("destroyClient"), Do("settle")>>
  PROVE  /\ plan \in Seq(Steps) /\ Shape(plan) /\ NoWork(plan)
         /\ Range(plan) = {Do("destroyClient"), Do("settle")}
         /\ 1 \in DOMAIN plan => plan[1][1] # "connReleased"
<1>1. /\ plan \in Seq(Steps) /\ DOMAIN plan = {1, 2}
      /\ plan[1] = Do("destroyClient") /\ plan[2] = Do("settle")
  BY DEF Steps, ClientSteps
<1>2. /\ Do("destroyClient") # Do("settle")
      /\ Do("destroyClient")[1] = "destroyClient" /\ Do("settle")[1] = "settle"
      /\ \A c : On("connReleased", c)[1] = "connReleased"
  BY StepNames
<1>3. Range(plan) = {Do("destroyClient"), Do("settle")}
  BY <1>1 DEF Range
<1>4. \A i \in DOMAIN plan : plan[i][1] \in {"destroyClient", "settle"}
  BY <1>1, <1>2
<1>5. NoWork(plan) /\ WorkFirst(plan)
  BY <1>4 DEF NoWork, WorkFirst, Work
<1>6. \A i, j \in DOMAIN plan : i < j => i = 1 /\ j = 2
  BY <1>1
<1>7. WalkLast(plan)
  <2>1. \A i, j \in DOMAIN plan : i < j => plan[i] # Do("settle")
    BY <1>1, <1>2, <1>6
  <2>2. \A i, j \in DOMAIN plan : i < j /\ plan[i] = Do("destroyClient") => plan[j] = Do("settle")
    BY <1>1, <1>6
  <2>3. \A j \in DOMAIN plan, c \in Connections : plan[j] # On("connReleased", c)
    BY <1>2, <1>4
  <2>4. QED
    BY <1>3, <2>1, <2>2, <2>3 DEF WalkLast
<1>8. QED
  BY <1>1, <1>3, <1>4, <1>5, <1>7 DEF Shape

\* What is before an actor that begins to close a client.
ClosesAll(plan) ==
  /\ plan \in Seq(Steps) /\ Shape(plan) /\ NoWork(plan)
  /\ 1 \in DOMAIN plan => plan[1][1] # "connReleased"
  /\ Do("settle") \in Range(plan)
  /\ \A c \in registry : On("closeFromClient", c) \in Range(plan)
  /\ \A c \in Connections : On("closeFromClient", c) \in Range(plan) => c \in registry
  /\ \A c : On("close", c) \notin Range(plan) /\ On("destroyConn", c) \notin Range(plan)

LEMMA ClosingPlan ==
  ASSUME IInv, NEW cs \in Orders(registry), NEW plan,
         plan = Each("preflight", cs) \o Each("closeFromClient", cs)
                \o <<Do("destroyClient"), Do("settle")>>
  PROVE  ClosesAll(plan)
<1>1. registry \subseteq Connections
  BY DEF IInv, Types
<1>2. cs \in Seq(registry) /\ Range(cs) = registry
  <2>1. IsFiniteSet(registry)
    BY <1>1, FS_Subset, ManagedAssumption
  <2>2. QED
    BY <2>1, Ordered
<1>3. \A c \in registry : On("preflight", c) \in Steps /\ On("closeFromClient", c) \in Steps
  BY <1>1 DEF Steps, ConnSteps
<1>4. PICK first \in Seq(Steps) :
        /\ first = Each("preflight", cs) /\ Range(first) = {On("preflight", c) : c \in registry}
        /\ \A i \in DOMAIN first : first[i][1] = "preflight"
  BY <1>2, <1>3, EachIsPlan
<1>5. PICK second \in Seq(Steps) :
        /\ second = Each("closeFromClient", cs)
        /\ Range(second) = {On("closeFromClient", c) : c \in registry}
        /\ \A i \in DOMAIN second : second[i][1] = "closeFromClient"
  BY <1>2, <1>3, EachIsPlan
<1>6. PICK last : last = <<Do("destroyClient"), Do("settle")>>
  OBVIOUS
<1>7. /\ last \in Seq(Steps) /\ Shape(last) /\ NoWork(last)
      /\ Range(last) = {Do("destroyClient"), Do("settle")}
      /\ 1 \in DOMAIN last => last[1][1] # "connReleased"
  BY <1>6, LastSteps
<1>8. PICK rest : rest = second \o last
  OBVIOUS
<1>9. /\ rest \in Seq(Steps) /\ Shape(rest) /\ NoWork(rest)
      /\ Range(rest) = Range(second) \cup Range(last)
      /\ 1 \in DOMAIN rest => rest[1][1] # "connReleased"
  <2>1. (\A i \in DOMAIN second : second[i][1] \in Visits) /\ Do("settle") \in Range(last)
    BY <1>5, <1>7 DEF Visits
  <2>2. QED
    BY <1>7, <1>8, <2>1, Prepended
<1>10. plan = first \o rest
  <2>1. plan = (first \o second) \o last
    BY <1>4, <1>5, <1>6
  <2>2. Regroups(first, second, last)
    BY <1>7, Regrouped
  <2>3. QED
    BY <1>8, <2>1, <2>2, Zenon DEF Regroups
<1>11. /\ plan \in Seq(Steps) /\ Shape(plan) /\ NoWork(plan)
       /\ Range(plan) = Range(first) \cup Range(rest)
       /\ 1 \in DOMAIN plan => plan[1][1] # "connReleased"
  <2>1. (\A i \in DOMAIN first : first[i][1] \in Visits) /\ Do("settle") \in Range(rest)
    BY <1>4, <1>7, <1>9 DEF Visits
  <2>2. QED
    BY <1>9, <1>10, <2>1, Prepended
<1>12. Range(plan) = {On("preflight", c) : c \in registry}
                     \cup {On("closeFromClient", c) : c \in registry}
                     \cup {Do("destroyClient"), Do("settle")}
  BY <1>4, <1>5, <1>7, <1>9, <1>11
<1>13. /\ Do("settle") \in Range(plan)
       /\ \A c \in registry : On("closeFromClient", c) \in Range(plan)
       /\ \A c \in Connections : On("closeFromClient", c) \in Range(plan) => c \in registry
       /\ \A c : On("close", c) \notin Range(plan) /\ On("destroyConn", c) \notin Range(plan)
  <2>1. /\ Do("settle") \in Range(plan)
        /\ \A c \in registry : On("closeFromClient", c) \in Range(plan)
    BY <1>12
  <2>2. \A c : Do("destroyClient") # On("closeFromClient", c) /\ Do("settle") # On("closeFromClient", c)
    BY StepNames
  <2>3. \A c, k : On("preflight", k) # On("closeFromClient", c)
    BY StepNames
  <2>4. \A c, k : On("closeFromClient", k) = On("closeFromClient", c) => k = c
    BY StepNames
  <2>5. \A c \in Connections : On("closeFromClient", c) \in Range(plan) => c \in registry
    BY <1>12, <2>2, <2>3, <2>4
  <2>6. \A x \in Range(plan) : x[1] \in {"preflight", "closeFromClient", "destroyClient", "settle"}
    BY <1>12 DEF On, Do
  <2>7. \A c : On("close", c)[1] = "close" /\ On("destroyConn", c)[1] = "destroyConn"
    BY StepNames
  <2>8. QED
    BY <2>1, <2>5, <2>6, <2>7
<1>14. QED
  BY <1>11, <1>13 DEF ClosesAll

LEMMA ClientCloseBegun ==
  ASSUME IInv, NEW b \in Actors, beginClientClose(b)
  PROVE  IInv'
<1>1. /\ todo[b] # <<>> /\ Head(todo[b])[1] = "closeClient"
      /\ UNCHANGED <<clientClosed, client, registry, connVars, bound, parent, objects, eventVars>>
  BY DEF beginClientClose, Doing
<1>2. /\ Elsewhere(b) /\ ~InDump(b) /\ Head(todo[b])[1] \notin Recovery \cup {"closeFromClient"}
  BY <1>1 DEF Elsewhere, InDump, Stopping, Doing, Recovery
<1>3. UNCHANGED closing => UNCHANGED <<tree, objects>>
  BY <1>1 DEF tree, clientVars
<1>4. CASE StepDone(b) /\ UNCHANGED <<opMu, closing>>
  BY <1>1, <1>2, <1>3, <1>4, StillDone
<1>5. CASE Fail(b) /\ UNCHANGED closing
  BY <1>1, <1>2, <1>3, <1>5, Fails
<1>6. ASSUME ~clientClosed, ~closing, closing' = TRUE, UNCHANGED opMu,
             NEW cs \in Orders(registry),
             Continue(b, Each("preflight", cs) \o Each("closeFromClient", cs)
                         \o <<Do("destroyClient"), Do("settle")>>)
      PROVE  IInv'
  <2>1. PICK plan : plan = Each("preflight", cs) \o Each("closeFromClient", cs)
                           \o <<Do("destroyClient"), Do("settle")>>
    OBVIOUS
  <2>2. ClosesAll(plan)
    BY <1>6, <2>1, ClosingPlan
  <2>3. Proceed(b, plan, "start")
    BY <1>6, <2>1 DEF Continue
  <2>4. plan \in Seq(Steps) /\ CallTypes /\ "start" \in Places
    BY <2>2 DEF ClosesAll, IInv, Places
  <2>5. CallTypes' /\ Moves(b) /\ calls' = calls /\ todo'[b] = plan /\ at'[b] = "start"
        /\ Ahead(b)' = Range(plan)
    <3>1. CallTypes' /\ Moves(b) /\ calls' = calls /\ todo'[b] = plan /\ at'[b] = "start"
      BY <2>3, <2>4, Proceeds
    <3>2. QED
      BY <3>1 DEF Ahead
  <2>6. ClientStep(b)
    BY <1>1, <1>6, <2>5 DEF ClientStep, IInv, Types
  <2>7. conn' = conn
    BY <2>6, ClientWorld
  <2>8. \A a \in Actors : Do("settle") \notin Ahead(a)
    BY <1>6 DEF IInv, Local, ClosesClient
  <2>9. Local(b)'
    <3>1. AtStep(b)'
      <4>1. plan # <<>> => Head(plan) = plan[1] /\ 1 \in DOMAIN plan
        BY <2>4, HeadAndTail
      <4>2. ~Doing(b, "connReleased", "start")'
        BY <2>2, <2>5, <4>1 DEF Doing, ClosesAll
      <4>3. QED
        BY <2>5, <4>2 DEF AtStep, Doing, InDump, Stopping
    <3>2. ClosesConn(b)'
      BY <2>2, <2>5 DEF ClosesConn, ClosesAll
    <3>3. ClosesClient(b)'
      BY <1>6, <2>2, <2>5, <2>7 DEF ClosesClient, ClosesAll, IInv, ConnOK
    <3>4. Known(b)'
      BY <2>2, <2>5, <2>7 DEF Known, ClosesAll, IInv, Types
    <3>5. QED
      BY <2>2, <2>5, <3>1, <3>2, <3>3, <3>4 DEF Local, ClosesAll
  <2>10. OneClient'
    <3>1. \A a \in Actors : Do("settle") \in Ahead(a)' <=> a = b
      BY <2>2, <2>5, <2>8 DEF Moves, Ahead, ClosesAll
    <3>2. client # "destroyed"
      <4>1. \A a \in Actors : ~Doing(a, "settle", "start")
        BY <2>4, <2>8, HeadNames DEF Doing
      <4>2. QED
        BY <1>6, <4>1 DEF IInv, OneClient
    <3>3. client' # "destroyed"
      BY <1>1, <3>2
    <3>4. QED
      BY <3>1, <3>3 DEF OneClient
  <2>11. QED
    BY <2>6, <2>9, <2>10, ClientKeeps
<1>7. QED
  BY <1>4, <1>5, <1>6 DEF beginClientClose

LEMMA CloseClientKeeps ==
  ASSUME IInv, NEW b \in Actors, CloseClient(b)
  PROVE  IInv'
<1>1. CASE detachFails(b)
  <2>1. /\ todo[b] # <<>> /\ Head(todo[b])[1] = "detachFromClient" /\ Fail(b)
        /\ UNCHANGED <<tree, objects>>
    BY <1>1 DEF detachFails, Doing
  <2>2. Elsewhere(b) /\ ~InDump(b) /\ Head(todo[b])[1] \notin Recovery \cup {"closeFromClient"}
    BY <2>1 DEF Elsewhere, InDump, Stopping, Doing, Recovery
  <2>3. QED
    BY <2>1, <2>2, Fails
<1>2. CASE waitIdle(b)
  <2>1. /\ todo[b] # <<>> /\ Head(todo[b])[1] = "detachFromClient" /\ StepDone(b)
        /\ UNCHANGED <<tree, opMu, objects>>
    BY <1>2 DEF waitIdle, Doing
  <2>2. Elsewhere(b) /\ ~InDump(b)
    BY <2>1 DEF Elsewhere, InDump, Stopping, Doing
  <2>3. QED
    BY <2>1, <2>2, StillDone
<1>3. CASE connReleased(b)
  <2>1. /\ todo[b] # <<>> /\ Head(todo[b])[1] = "connReleased"
        /\ UNCHANGED <<tree, opMu, objects>>
        /\ \/ StepDone(b) /\ Object(b) \in connClosed
           \/ Proceed(b, <<Do("settle")>>, "failed")
    BY <1>3 DEF connReleased, released, Doing, IInv, Local, AtStep
  <2>2. Elsewhere(b) /\ ~InDump(b)
    BY <2>1 DEF Elsewhere, InDump, Stopping, Doing
  <2>3. CASE StepDone(b) /\ Object(b) \in connClosed
    BY <2>1, <2>2, <2>3, StillDone
  <2>4. CASE Proceed(b, <<Do("settle")>>, "failed")
    BY <2>1, <2>4, GivesUp DEF Walk
  <2>5. QED
    BY <2>1, <2>3, <2>4
<1>4. CASE destroyClient(b)
  <2>1. /\ Doing(b, "destroyClient", "start")
        /\ UNCHANGED <<closing, clientClosed, registry, connVars, bound, parent, objects,
                       eventVars>>
    BY <1>4 DEF destroyClient
  <2>2. CASE client' = "destroyed" /\ StepDone(b) /\ UNCHANGED opMu
    BY <2>1, <2>2, ClientDestroyed
  <2>3. CASE UNCHANGED client /\ Fail(b)
    <3>1. todo[b] # <<>> /\ Head(todo[b])[1] = "destroyClient" /\ UNCHANGED <<tree, objects>>
      BY <2>1, <2>3 DEF Doing, tree, clientVars
    <3>2. Elsewhere(b) /\ ~InDump(b) /\ Head(todo[b])[1] \notin Recovery \cup {"closeFromClient"}
      BY <3>1 DEF Elsewhere, InDump, Stopping, Doing, Recovery
    <3>3. QED
      BY <2>3, <3>1, <3>2, Fails
  <2>4. QED
    BY <1>4, <2>2, <2>3 DEF destroyClient
<1>5. QED
  BY <1>1, <1>2, <1>3, <1>4, ClientCloseBegun, Preflight, ClosedFromClient, DetachedFromClient,
     ClientSettled DEF CloseClient

-----------------------------------------------------------------------------
(* Calls and handlers *)

LEMMA OneStep ==
  ASSUME NEW step \in Steps, step[1] \notin Walk, step # Do("settle"), NEW plan, plan = <<step>>
  PROVE  /\ plan \in Seq(Steps) /\ Shape(plan) /\ Range(plan) = {step}
         /\ plan # <<>> /\ Head(plan) = step
<1>1. plan \in Seq(Steps) /\ plan # <<>> /\ Head(plan) = step /\ DOMAIN plan = {1} /\ plan[1] = step
  OBVIOUS
<1>2. Range(plan) = {step}
  BY <1>1 DEF Range
<1>3. Shape(plan)
  BY <1>1 DEF Shape, WorkFirst, WalkLast
<1>4. QED
  BY <1>1, <1>2, <1>3

LEMMA CallKeeps ==
  ASSUME IInv, NEW b \in Actors, call(b)
  PROVE  IInv'
<1>1. /\ todo[b] = <<>> /\ calls < MaxCalls /\ calls' = calls + 1 /\ CallTypes
      /\ UNCHANGED <<tree, opMu, objects, at>>
  BY DEF call, MayCall, IInv
<1>2. PICK plan \in Operations(b) : todo' = [todo EXCEPT ![b] = plan]
  BY DEF call
<1>3. PICK step \in Steps :
        /\ plan = <<step>>
        /\ step[1] \in {"closeClient", "close", "stop", "stopDump", "closeDump"}
        /\ \A c \in Connections : step = On("close", c) => conn[c] # "none"
  <2>1. CASE plan = <<Do("closeClient")>>
    BY <2>1, StepNames DEF Steps, ClientSteps
  <2>2. CASE \E c \in Connections : conn[c] # "none" /\ plan = <<On("close", c)>>
    <3>1. PICK c \in Connections : conn[c] # "none" /\ plan = <<On("close", c)>>
      BY <2>2
    <3>2. On("close", c) \in Steps
      BY DEF Steps, ConnSteps
    <3>3. QED
      BY <3>1, <3>2, StepNames
  <2>3. CASE \E r \in Recordings : plan = <<On("stop", r)>>
    <3>1. PICK r \in Recordings : plan = <<On("stop", r)>>
      BY <2>3
    <3>2. On("stop", r) \in Steps
      BY DEF Steps, RecordingSteps
    <3>3. QED
      BY <3>1, <3>2, StepNames
  <2>4. CASE \E name \in {"stopDump", "closeDump"}, d \in Dumps : plan = <<On(name, d)>>
    <3>1. PICK name \in {"stopDump", "closeDump"}, d \in Dumps : plan = <<On(name, d)>>
      BY <2>4
    <3>2. On(name, d) \in Steps
      BY DEF Steps, DumpSteps
    <3>3. QED
      BY <3>1, <3>2, StepNames
  <2>5. QED
    BY <1>2, <2>1, <2>2, <2>3, <2>4 DEF Operations
<1>4. /\ plan \in Seq(Steps) /\ Shape(plan) /\ Range(plan) = {step}
      /\ plan # <<>> /\ Head(plan) = step /\ step # Do("settle")
  <2>1. step[1] \notin Walk /\ step # Do("settle")
    BY <1>3, StepNames DEF Walk
  <2>2. QED
    BY <1>3, <2>1, OneStep
<1>5. /\ CallTypes' /\ Moves(b) /\ todo'[b] = plan /\ at'[b] = at[b] /\ Ahead(b)' = {step}
      /\ Ahead(b) = {}
  <2>1. CallTypes' /\ Moves(b) /\ todo'[b] = plan /\ at'[b] = at[b]
    BY <1>1, <1>2, <1>4 DEF CallTypes, Moves
  <2>2. QED
    BY <1>1, <1>4, <2>1, EmptyPlan DEF Ahead
<1>6. at[b] = "start"
  BY <1>1 DEF IInv, Local, AtStep
<1>7. /\ Elsewhere(b) /\ ~InDump(b) /\ ~Doing(b, "settle", "start")
      /\ ~Doing(b, "stop", "native")'
  BY <1>1, <1>5, <1>6 DEF Elsewhere, InDump, Stopping, Doing
<1>8. Quiet(b)
  BY <1>1, LocksAsBefore, StillWorld
<1>9. Types'
  BY <1>1, ManagedAssumption DEF IInv, Types, tree, clientVars, connVars, eventVars, objects,
                                 recordingVars, dumpVars
<1>10. Objects' /\ OneStopper'
  BY <1>1, <1>5, <1>7, ObjectsKept, OneStopperStays DEF tree, objects, recordingVars
<1>11. /\ Do("settle") \notin Ahead(b)' /\ Do("destroyClient") \notin Ahead(b)'
       /\ \A c \in Connections : On("destroyConn", c) \notin Ahead(b)' /\ opMu[c] # b
       /\ \A c \in Connections : On("closeFromClient", c) \notin Ahead(b)'
  <2>1. \A c \in Connections : opMu[c] # b
    BY <1>5, NamesDiffer DEF IInv, ConnOK
  <2>2. QED
    BY <1>3, <1>4, <1>5, <2>1, StepNames
<1>12. Local(b)'
  <2>1. AtStep(b)'
    BY <1>3, <1>4, <1>5, <1>6 DEF AtStep, Doing, InDump, Stopping
  <2>2. ClosesConn(b)' /\ ClosesClient(b)'
    BY <1>11 DEF ClosesConn, ClosesClient
  <2>3. Known(b)'
    BY <1>1, <1>3, <1>5, <1>11 DEF Known, tree, connVars
  <2>4. QED
    BY <1>4, <1>5, <2>1, <2>2, <2>3 DEF Local
<1>13. \A c \in Connections : opMu'[c] = b => On("destroyConn", c) \in Ahead(b)'
  BY <1>1, <1>11
<1>14. QED
  BY <1>5, <1>7, <1>8, <1>9, <1>10, <1>11, <1>12, <1>13, QuietStep

\* A call that is one step, by an actor with nothing else before it.
LEMMA ShortKeeps ==
  ASSUME IInv, NEW b \in Actors, todo[b] = <<>>,
         UNCHANGED <<opMu, handling, todo, at, connClosed, shut, closing, client, clientClosed>>,
         Types', World(b),
         \A r \in Recordings : recording'[r] = "none" => parent'[r] = NoOne,
         \A d \in Dumps : dump'[d] = "none" => parent'[d] = NoOne,
         \A d \in Dumps : dump'[d] = "live" => d \in dumps',
         dumpMu' = dumpMu,
         \A c \in Connections : conn'[c] = "open" => c \in registry',
         \A c \in Connections :
           conn'[c] = conn[c] \/ (conn[c] = "none" /\ conn'[c] = "open" /\ ~clientClosed),
         \A c \in Connections : conn[c] = "destroyed" =>
           /\ DepsOf(c)' \subseteq DepsOf(c) /\ TasksOf(c)' \subseteq TasksOf(c)
           /\ \A d \in Dumps : Live(d, c)' => Live(d, c)
  PROVE  IInv'
<1>1. Moves(b) /\ CallTypes' /\ Ahead(b) = {} /\ Ahead(b)' = {} /\ at[b] = "start"
      /\ Elsewhere(b)
  BY EmptyPlan DEF IInv, CallTypes, Local, AtStep, Moves, Ahead, Elsewhere
<1>2. Local(b)'
  <2>1. AtStep(b)'
    BY <1>1 DEF AtStep, Doing, InDump, Stopping
  <2>2. QED
    BY <1>1, <2>1, EmptyPlan DEF Local, ClosesConn, ClosesClient, Known
<1>3. \A a \in Actors : Local(a)'
  BY <1>1, <1>2, OthersHold
<1>4. OneStopper'
  BY <1>1, OneStopperStays DEF Doing
<1>5. OneClient'
  <2>1. ~Doing(b, "settle", "start")
    BY DEF Doing
  <2>2. QED
    BY <1>1, <2>1, OneClientStays DEF World
<1>6. Objects'
  <2>1. \A a : InDump(a)' = InDump(a) /\ Object(a)' = Object(a)
    BY DEF InDump, Stopping, Doing, Object
  <2>2. QED
    BY <2>1 DEF Objects, IInv
<1>7. /\ LocksStay(b) /\ \A c \in Connections : opMu'[c] # b
  BY <1>1, NamesDiffer DEF LocksStay, IInv, ConnOK
<1>8. \A c \in Connections : ConnOK(c)'
  BY <1>1, <1>7, ElsewhereConns
<1>9. QED
  BY <1>1, <1>3, <1>4, <1>5, <1>6, <1>8 DEF IInv

\* The connection that admits an operation is open.
LEMMA Admitted ==
  ASSUME IInv, NEW c \in Connections, Admits(c)
  PROVE  conn[c] = "open" /\ opMu[c] = Free
BY DEF IInv, ConnOK, Types, Admits

LEMMA ConnectionMade ==
  ASSUME IInv, NEW b \in Actors, MayCall(b), NEW c \in Connections, NewConnection(c),
         UNCHANGED <<opMu, handling, todo, at>>
  PROVE  IInv'
<1>1. /\ ~clientClosed /\ ~closing /\ conn[c] = "none"
      /\ conn' = [conn EXCEPT ![c] = "open"] /\ registry' = registry \cup {c}
      /\ UNCHANGED <<closing, clientClosed, client, connClosed, shut, bound, parent,
                     recording, tasks, dump, dumpMu, archived, dumps, waiting>>
      /\ todo[b] = <<>> /\ calls < MaxCalls /\ calls' = calls + 1
  BY DEF NewConnection, mayCreate, MayCall, objects, recordingVars, dumpVars
<1>2. Types'
  BY <1>1, ManagedAssumption DEF IInv, Types
<1>3. \A k \in Connections : /\ conn'[k] = IF k = c THEN "open" ELSE conn[k]
                             /\ DepsOf(k)' = DepsOf(k) /\ TasksOf(k)' = TasksOf(k)
                             /\ \A d \in Dumps : Live(d, k)' = Live(d, k)
  BY <1>1 DEF IInv, Types, DepsOf, TasksOf, Live
<1>4. opMu[c] = Free
  <2>1. ASSUME opMu[c] # Free PROVE FALSE
    <3>1. opMu[c] \in Actors /\ On("destroyConn", c) \in Ahead(opMu[c])
      BY <2>1 DEF IInv, ConnOK, Types
    <3>2. ClosesConn(opMu[c])
      BY <3>1 DEF IInv, Local
    <3>3. QED
      BY <1>1, <3>1, <3>2 DEF ClosesConn
  <2>2. QED
    BY <2>1
<1>5. World(b)
  <2>1. LockedStay(b)
    BY <1>1, <1>3, <1>4 DEF LockedStay
  <2>2. OthersStay(b)
    BY <1>1, <1>3 DEF OthersStay
  <2>3. ClientStays(b)
    BY <1>1 DEF ClientStays
  <2>4. QED
    BY <2>1, <2>2, <2>3 DEF World
<1>6. \A k \in Connections : conn'[k] = "open" => k \in registry'
  BY <1>1, <1>3 DEF IInv, ConnOK
<1>7. /\ \A k \in Connections :
           conn'[k] = conn[k] \/ (conn[k] = "none" /\ conn'[k] = "open" /\ ~clientClosed)
      /\ \A k \in Connections : conn[k] = "destroyed" =>
           /\ DepsOf(k)' \subseteq DepsOf(k) /\ TasksOf(k)' \subseteq TasksOf(k)
           /\ \A d \in Dumps : Live(d, k)' => Live(d, k)
      /\ \A r \in Recordings : recording'[r] = "none" => parent'[r] = NoOne
      /\ \A d \in Dumps : dump'[d] = "none" => parent'[d] = NoOne
      /\ \A d \in Dumps : dump'[d] = "live" => d \in dumps'
  BY <1>1, <1>3 DEF IInv, Objects
<1>8. QED
  BY <1>1, <1>2, <1>5, <1>6, <1>7, ShortKeeps

\* An operation that a connection admits changes what is on it alone.
LEMMA AdmittedKeeps ==
  ASSUME IInv, NEW b \in Actors, MayCall(b), NEW c \in Connections, Admits(c),
         UNCHANGED <<clientVars, connVars, opMu, handling, todo, at, dumpMu>>, Types',
         \A k \in Connections \ {c} :
           /\ DepsOf(k)' \subseteq DepsOf(k) /\ TasksOf(k)' \subseteq TasksOf(k)
           /\ \A d \in Dumps : Live(d, k)' => Live(d, k),
         \A r \in Recordings : recording'[r] = recording[r] \/ recording[r] = "none",
         \A d \in Dumps : dump'[d] = dump[d] \/ dump[d] = "none",
         \A r \in Recordings : recording'[r] = "none" => parent'[r] = NoOne,
         \A d \in Dumps : dump'[d] = "none" => parent'[d] = NoOne,
         \A d \in Dumps : dump'[d] = "live" => d \in dumps'
  PROVE  IInv'
<1>1. conn[c] = "open" /\ opMu[c] = Free /\ todo[b] = <<>>
  BY Admitted DEF MayCall
<1>2. UNCHANGED <<closing, clientClosed, client, registry, conn, connClosed, shut>>
  BY DEF clientVars, connVars
<1>3. LockedStay(b)
  BY <1>1, <1>2 DEF LockedStay
<1>4. \A d \in Dumps : dumpMu[d] # Free => dump[d] = "live"
  <2> SUFFICES ASSUME NEW d \in Dumps, dumpMu[d] # Free
               PROVE  dump[d] = "live"
    OBVIOUS
  <2>1. PICK a \in Actors : InDump(a) /\ Object(a) = d
    BY DEF IInv, Objects, Types
  <2>2. QED
    BY <2>1 DEF IInv, Local, AtStep
<1>5. OthersStay(b) /\ ClientStays(b)
  BY <1>2, <1>4 DEF OthersStay, ClientStays
<1>6. World(b)
  BY <1>3, <1>5 DEF World
<1>7. \A k \in Connections : conn'[k] = "open" => k \in registry'
  BY <1>2 DEF IInv, ConnOK
<1>8. QED
  BY <1>1, <1>2, <1>6, <1>7, ShortKeeps

LEMMA ShortCallKeeps ==
  ASSUME IInv, NEW b \in Actors, shortCall(b)
  PROVE  IInv'
<1>1. MayCall(b) /\ UNCHANGED <<opMu, handling, todo, at>> /\ calls < MaxCalls /\ calls' = calls + 1
  BY DEF shortCall, MayCall
<1>2. calls' \in 0 .. MaxCalls
  BY <1>1, ManagedAssumption DEF IInv, Types
<1>3. ASSUME NEW c \in Connections, NEW o \in Outputs, attach(o, c) PROVE IInv'
  <2>1. Admits(c) /\ bound' = [bound EXCEPT ![o] = c]
        /\ UNCHANGED <<clientVars, connVars, parent, objects, waiting>>
    BY <1>3 DEF attach
  <2>2. UNCHANGED <<dumpMu, recording, dump, dumps, tasks>>
    BY <2>1 DEF objects, recordingVars, dumpVars
  <2>3. Types'
    BY <1>1, <1>2, <2>1 DEF IInv, Types, clientVars, connVars, objects, recordingVars, dumpVars
  <2>4. \A k \in Connections \ {c} :
          /\ DepsOf(k)' \subseteq DepsOf(k) /\ TasksOf(k)' \subseteq TasksOf(k)
          /\ \A d \in Dumps : Live(d, k)' => Live(d, k)
    BY <2>1, <2>2 DEF DepsOf, TasksOf, Live, IInv, Types
  <2>5. /\ \A r \in Recordings : recording'[r] = "none" => parent'[r] = NoOne
        /\ \A d \in Dumps : dump'[d] = "none" => parent'[d] = NoOne
        /\ \A d \in Dumps : dump'[d] = "live" => d \in dumps'
    BY <2>1, <2>2 DEF IInv, Objects
  <2>6. QED
    BY <1>1, <2>1, <2>2, <2>3, <2>4, <2>5, AdmittedKeeps
<1>4. ASSUME NEW c \in Connections, NEW o \in Outputs, detach(o, c) PROVE IInv'
  <2>1. Admits(c) /\ bound' = [bound EXCEPT ![o] = NoOne]
        /\ waiting' \in {waiting, waiting \cup {o}}
        /\ UNCHANGED <<clientVars, connVars, parent, objects>>
    BY <1>4 DEF detach
  <2>2. UNCHANGED <<dumpMu, recording, dump, dumps, tasks>>
    BY <2>1 DEF objects, recordingVars, dumpVars
  <2>3. Types'
    BY <1>1, <1>2, <2>1 DEF IInv, Types, clientVars, connVars, objects, recordingVars, dumpVars
  <2>4. \A k \in Connections \ {c} :
          /\ DepsOf(k)' \subseteq DepsOf(k) /\ TasksOf(k)' \subseteq TasksOf(k)
          /\ \A d \in Dumps : Live(d, k)' => Live(d, k)
    BY <2>1, <2>2, NamesDiffer DEF DepsOf, TasksOf, Live, IInv, Types
  <2>5. /\ \A r \in Recordings : recording'[r] = "none" => parent'[r] = NoOne
        /\ \A d \in Dumps : dump'[d] = "none" => parent'[d] = NoOne
        /\ \A d \in Dumps : dump'[d] = "live" => d \in dumps'
    BY <2>1, <2>2 DEF IInv, Objects
  <2>6. QED
    BY <1>1, <2>1, <2>2, <2>3, <2>4, <2>5, AdmittedKeeps
<1>5. ASSUME NEW c \in Connections, NEW r \in Recordings, StartRecording(r, c) PROVE IInv'
  <2>1. Admits(c) /\ recording[r] = "none" /\ recording' = [recording EXCEPT ![r] = "live"]
        /\ parent' = [parent EXCEPT ![r] = c] /\ tasks' = tasks \cup {r}
        /\ UNCHANGED <<clientVars, connVars, bound, dumpVars, waiting>>
    BY <1>5 DEF StartRecording
  <2>2. UNCHANGED <<dumpMu, dump, dumps>>
    BY <2>1 DEF dumpVars
  <2>3. Types'
    BY <1>1, <1>2, <2>1, NamesDiffer DEF IInv, Types, clientVars, connVars, dumpVars
  <2>4. /\ \A x \in Recordings : /\ recording'[x] = IF x = r THEN "live" ELSE recording[x]
                                 /\ parent'[x] = IF x = r THEN c ELSE parent[x]
        /\ \A d \in Dumps : parent'[d] = parent[d]
    BY <2>1, NamesDiffer DEF IInv, Types
  <2>5. \A k \in Connections \ {c} :
          /\ DepsOf(k)' \subseteq DepsOf(k) /\ TasksOf(k)' \subseteq TasksOf(k)
          /\ \A d \in Dumps : Live(d, k)' => Live(d, k)
    BY <2>1, <2>2, <2>4 DEF DepsOf, TasksOf, Live, IInv, Types
  <2>6. /\ \A x \in Recordings : recording'[x] = "none" => parent'[x] = NoOne
        /\ \A x \in Recordings : recording'[x] = recording[x] \/ recording[x] = "none"
        /\ \A d \in Dumps : dump'[d] = "none" => parent'[d] = NoOne
        /\ \A d \in Dumps : dump'[d] = "live" => d \in dumps'
    BY <2>1, <2>2, <2>4 DEF IInv, Objects
  <2>7. QED
    BY <1>1, <2>1, <2>2, <2>3, <2>5, <2>6, AdmittedKeeps
<1>6. ASSUME NEW c \in Connections, NEW d \in Dumps, StartRawDump(d, c) PROVE IInv'
  <2>1. Admits(c) /\ dump[d] = "none" /\ dump' = [dump EXCEPT ![d] = "live"]
        /\ parent' = [parent EXCEPT ![d] = c] /\ dumps' = dumps \cup {d}
        /\ UNCHANGED <<clientVars, connVars, bound, recordingVars, dumpMu, archived, waiting>>
    BY <1>6 DEF StartRawDump
  <2>2. UNCHANGED <<recording, tasks>>
    BY <2>1 DEF recordingVars
  <2>3. Types'
    BY <1>1, <1>2, <2>1, NamesDiffer DEF IInv, Types, clientVars, connVars, recordingVars
  <2>4. /\ \A x \in Dumps : /\ dump'[x] = IF x = d THEN "live" ELSE dump[x]
                            /\ parent'[x] = IF x = d THEN c ELSE parent[x]
        /\ \A r \in Recordings : parent'[r] = parent[r]
    BY <2>1, NamesDiffer DEF IInv, Types
  <2>5. \A k \in Connections \ {c} :
          /\ DepsOf(k)' \subseteq DepsOf(k) /\ TasksOf(k)' \subseteq TasksOf(k)
          /\ \A x \in Dumps : Live(x, k)' => Live(x, k)
    BY <2>1, <2>2, <2>4 DEF DepsOf, TasksOf, Live, IInv, Types
  <2>6. /\ \A r \in Recordings : recording'[r] = "none" => parent'[r] = NoOne
        /\ \A x \in Dumps : dump'[x] = dump[x] \/ dump[x] = "none"
        /\ \A x \in Dumps : dump'[x] = "none" => parent'[x] = NoOne
        /\ \A x \in Dumps : dump'[x] = "live" => x \in dumps'
    BY <2>1, <2>2, <2>4 DEF IInv, Objects
  <2>7. QED
    BY <1>1, <2>1, <2>2, <2>3, <2>5, <2>6, AdmittedKeeps
<1>7. QED
  BY <1>1, <1>3, <1>4, <1>5, <1>6, ConnectionMade DEF shortCall

\* Handlers and deliveries touch nothing of what is closed.
LEMMA MailboxKeeps ==
  ASSUME IInv,
         UNCHANGED <<clientVars, connVars, opMu, bound, parent, objects, callVars>>,
         waiting' \in SUBSET Outputs, handling' \in SUBSET (Connections \cup Outputs),
         \A c \in Connections : c \in shut => c \notin handling'
  PROVE  IInv'
<1>1. UNCHANGED <<closing, clientClosed, client, registry, conn, connClosed, shut, opMu, bound,
                  parent, recording, tasks, dump, dumpMu, archived, dumps, todo, at, calls>>
  BY DEF clientVars, connVars, objects, recordingVars, dumpVars, callVars
<1>2. Types' /\ CallTypes'
  BY <1>1 DEF IInv, Types, CallTypes
<1>3. /\ \A a, name, place : Doing(a, name, place)' = Doing(a, name, place)
      /\ \A a : Object(a)' = Object(a) /\ Ahead(a)' = Ahead(a)
      /\ \A c : DepsOf(c)' = DepsOf(c) /\ TasksOf(c)' = TasksOf(c)
      /\ \A d, c : Live(d, c)' = Live(d, c)
  BY <1>1 DEF Doing, Object, Ahead, DepsOf, TasksOf, Live
<1>4. \A a : InDump(a)' = InDump(a) /\ Destroyed(a)' = Destroyed(a)
  BY <1>1 DEF InDump, Stopping, Destroyed, Doing
<1>5. \A a \in Actors : Local(a)'
  <2> SUFFICES ASSUME NEW a \in Actors PROVE Local(a)'
    OBVIOUS
  <2>1. Local(a)
    BY DEF IInv
  <2>2. AtStep(a)' /\ Shape(todo[a])'
    BY <1>1, <1>3, <1>4, <2>1 DEF Local, AtStep
  <2>3. ClosesConn(a)'
    BY <1>1, <1>3, <1>4, <2>1 DEF Local, ClosesConn
  <2>4. ClosesClient(a)' /\ Known(a)'
    BY <1>1, <1>3, <2>1 DEF Local, ClosesClient, Known
  <2>5. QED
    BY <2>2, <2>3, <2>4 DEF Local
<1>6. OneStopper' /\ OneClient' /\ Objects'
  BY <1>1, <1>3, <1>4 DEF IInv, OneStopper, OneClient, Objects
<1>7. \A c \in Connections : ConnOK(c)'
  <2> SUFFICES ASSUME NEW c \in Connections PROVE ConnOK(c)'
    OBVIOUS
  <2>1. ConnOK(c)
    BY DEF IInv
  <2>2. QED
    BY <1>1, <1>3, <2>1 DEF ConnOK
<1>8. QED
  BY <1>2, <1>5, <1>6, <1>7 DEF IInv

LEMMA HandlersKeep ==
  ASSUME IInv,
         \/ \E x \in Connections \cup Outputs : handlerReturns(x)
         \/ \E c \in Connections : connHandler(c)
         \/ \E o \in Outputs : deliver(o) \/ outputHandler(o)
  PROVE  IInv'
<1>1. Types /\ \A c \in Connections : c \in shut => c \notin handling
  BY DEF IInv, ConnOK
<1>2. ASSUME NEW x \in Connections \cup Outputs, handlerReturns(x) PROVE IInv'
  BY <1>1, <1>2, MailboxKeeps DEF handlerReturns, Types
<1>3. ASSUME NEW c \in Connections, connHandler(c) PROVE IInv'
  BY <1>1, <1>3, MailboxKeeps DEF connHandler, Types
<1>4. ASSUME NEW o \in Outputs, deliver(o) PROVE IInv'
  BY <1>1, <1>4, MailboxKeeps DEF deliver, Types
<1>5. ASSUME NEW o \in Outputs, outputHandler(o) PROVE IInv'
  BY <1>1, <1>5, MailboxKeeps, NamesDiffer DEF outputHandler, Types
<1>6. QED
  BY <1>2, <1>3, <1>4, <1>5

-----------------------------------------------------------------------------
(* The invariant holds *)

LEMMA InitHolds == Init => IInv
<1> SUFFICES ASSUME Init PROVE IInv
  OBVIOUS
<1>1. Types
  <2>1. /\ conn \in [Connections -> {"none", "open", "destroyed"}]
        /\ recording \in [Recordings -> {"none", "live", "stopping", "done"}]
        /\ tasks = {r \in Recordings : recording[r] \in {"live", "stopping"}}
        /\ dump \in [Dumps -> {"none", "live", "destroyed"}]
    BY DEF Init
  <2>2. /\ opMu \in [Connections -> Actors \cup {Free}]
        /\ bound \in [Outputs -> Connections \cup {NoOne}]
        /\ parent \in [Recordings \cup Dumps -> Connections \cup {NoOne}]
        /\ dumpMu \in [Dumps -> Actors \cup {Free}]
    BY DEF Init
  <2>3. /\ closing \in BOOLEAN /\ clientClosed \in BOOLEAN /\ client \in {"open", "destroyed"}
        /\ registry \subseteq {c \in Connections : conn[c] # "none"}
        /\ connClosed \subseteq shut /\ shut \in SUBSET Connections
        /\ archived \in SUBSET Dumps /\ dumps \in SUBSET Dumps
        /\ waiting \in SUBSET Outputs /\ handling \in SUBSET (Connections \cup Outputs)
    BY DEF Init
  <2>4. calls \in 0 .. MaxCalls
    BY ManagedAssumption DEF Init
  <2>5. QED
    BY <2>1, <2>2, <2>3, <2>4 DEF Types
<1>2. /\ \A a \in Actors : todo[a] = <<>> /\ at[a] = "start" /\ Ahead(a) = {}
      /\ CallTypes
  BY EmptyPlan DEF Init, Ahead, CallTypes, Places
<1>3. \A a \in Actors : \A name, place : ~Doing(a, name, place)
  BY <1>2 DEF Doing
<1>4. \A a \in Actors : ~InDump(a)
  BY <1>3 DEF InDump, Stopping
<1>5. \A a \in Actors : Local(a)
  <2> SUFFICES ASSUME NEW a \in Actors PROVE Local(a)
    OBVIOUS
  <2>1. Shape(todo[a])
    BY <1>2, EmptyPlan
  <2>2. AtStep(a)
    BY <1>2, <1>3, <1>4 DEF AtStep
  <2>3. ClosesConn(a) /\ ClosesClient(a) /\ Known(a)
    BY <1>2 DEF ClosesConn, ClosesClient, Known
  <2>4. QED
    BY <2>1, <2>2, <2>3 DEF Local
<1>6. OneStopper /\ OneClient
  BY <1>2, <1>3 DEF OneStopper, OneClient, Init
<1>7. Objects
  BY NamesDiffer DEF Objects, Init
<1>8. \A c \in Connections : ConnOK(c)
  BY DEF ConnOK, Init
<1>9. QED
  BY <1>1, <1>2, <1>5, <1>6, <1>7, <1>8 DEF IInv

LEMMA NextHolds == IInv /\ [Next]_vars => IInv'
<1> SUFFICES ASSUME IInv, [Next]_vars PROVE IInv'
  OBVIOUS
<1>1. CASE Next
  <2>1. ASSUME NEW a \in Actors, Operate(a) PROVE IInv'
    BY <2>1, StopRecordingKeeps, CloseRawDumpKeeps, CloseConnKeeps, CloseClientKeeps DEF Operate
  <2>2. QED
    BY <1>1, <2>1, CallKeeps, ShortCallKeeps, HandlersKeep DEF Next
<1>2. CASE UNCHANGED vars
  <2>1. UNCHANGED <<clientVars, connVars, opMu, bound, parent, objects, callVars, waiting,
                    handling>>
    BY <1>2 DEF vars, tree, eventVars
  <2>2. Types /\ \A c \in Connections : c \in shut => c \notin handling
    BY DEF IInv, ConnOK
  <2>3. waiting' \in SUBSET Outputs /\ handling' \in SUBSET (Connections \cup Outputs)
    BY <2>1, <2>2 DEF Types
  <2>4. QED
    BY <2>1, <2>2, <2>3, MailboxKeeps
<1>3. QED
  BY <1>1, <1>2

\* The inductive invariant: what each actor may rely on while it walks down, and
\* what is left of a connection that is destroyed (runtime.go:55-106,
\* conn.go:273-380, recording.go:53-96, raw_dump.go:115-162).
THEOREM InvariantHolds == Spec => []IInv
BY InitHolds, NextHolds, PTL DEF Spec

\* Every variable keeps its type, a connection knows exactly the recordings that
\* native has, and who is in a native call on a raw dump holds its d.mu
\* (recording.go:53-96, raw_dump.go:115-162).
THEOREM TypesHold == Spec => []TypeOK
<1>1. IInv => TypeOK
  BY DEF IInv, TypeOK, Local, AtStep
<1>2. QED
  BY <1>1, InvariantHolds, PTL

\* The client is destroyed when no connection is left.
LEMMA ClientLast ==
  ASSUME IInv, client = "destroyed" \/ About("destroyClient", "start", "client"),
         NEW c \in Connections
  PROVE  conn[c] # "open"
<1>1. CASE client = "destroyed"
  BY <1>1 DEF IInv, OneClient
<1>2. CASE About("destroyClient", "start", "client")
  <2>1. PICK b \in Actors : Doing(b, "destroyClient", "start")
    BY <1>2 DEF About
  <2>2. /\ todo[b] # <<>> /\ Head(todo[b]) = Do("destroyClient")
        /\ Head(todo[b])[1] = "destroyClient" /\ CallTypes
    BY <2>1, HeadNames DEF Doing, IInv
  <2>3. /\ Ahead(b) = {Do("destroyClient")} \cup Range(Tail(todo[b]))
        /\ \A x \in Range(Tail(todo[b])) : x = Do("settle")
    BY <2>2, TailFacts DEF Walk
  <2>4. On("closeFromClient", c) \notin Ahead(b) /\ On("connReleased", c) \notin Ahead(b)
    BY <2>3, StepNames
  <2>5. QED
    BY <2>3, <2>4 DEF IInv, Local, ClosesClient
<1>3. QED
  BY <1>1, <1>2

\* A connection is destroyed after all that was made on it.
LEMMA ConnAfterChildren ==
  ASSUME IInv, NEW c \in Connections, conn[c] = "destroyed" \/ About("destroyConn", "begun", c)
  PROVE  /\ DepsOf(c) = {} /\ c \notin handling
         /\ \A r \in Recordings : parent[r] = c => recording[r] = "done"
         /\ \A d \in Dumps : parent[d] = c => dump[d] = "destroyed"
<1>1. Types /\ Objects /\ ConnOK(c) /\ c # NoOne
  BY NamesDiffer DEF IInv
<1>2. DepsOf(c) = {} /\ c \in shut /\ TasksOf(c) = {} /\ \A d \in Dumps : ~Live(d, c)
  <2>1. CASE conn[c] = "destroyed"
    BY <1>1, <2>1 DEF ConnOK
  <2>2. CASE About("destroyConn", "begun", c)
    <3>1. PICK b \in Actors : Doing(b, "destroyConn", "begun") /\ Object(b) = c
      BY <2>2 DEF About
    <3>2. todo[b] # <<>> /\ Head(todo[b])[1] = "destroyConn" /\ at[b] = "begun"
      BY <3>1 DEF Doing
    <3>3. QED
      BY <3>1, <3>2, AtDestroyConn
  <2>3. QED
    BY <2>1, <2>2
<1>3. c \notin handling
  BY <1>1, <1>2 DEF ConnOK
<1>4. ASSUME NEW r \in Recordings, parent[r] = c PROVE recording[r] = "done"
  <2>1. recording[r] # "none"
    BY <1>1, <1>4 DEF Objects
  <2>2. r \notin tasks
    BY <1>2, <1>4 DEF TasksOf
  <2>3. QED
    BY <1>1, <2>1, <2>2 DEF Types
<1>5. ASSUME NEW d \in Dumps, parent[d] = c PROVE dump[d] = "destroyed"
  <2>1. dump[d] # "none" /\ dump[d] # "live"
    BY <1>1, <1>2, <1>5 DEF Objects, Live
  <2>2. QED
    BY <1>1, <2>1 DEF Types
<1>6. QED
  BY <1>2, <1>3, <1>4, <1>5

\* Native objects are destroyed after all that depends on them and by one actor
\* at a time, whatever is created, stopped and retried while the client and its
\* connections are closed (runtime.go:55-106, conn.go:273-380,
\* recording.go:53-96, raw_dump.go:115-162).
THEOREM LifetimesHold == Spec => []NativeLifetimes
<1>1. IInv => NativeLifetimes
  <2> SUFFICES ASSUME IInv PROVE NativeLifetimes
    OBVIOUS
  <2>1. ASSUME NEW a \in Actors
        PROVE  /\ Doing(a, "stop", "native") =>
                    /\ recording[Object(a)] = "stopping"
                    /\ \A b \in Actors \ {a} :
                         Doing(b, "stop", "native") => Object(b) # Object(a)
               /\ InDump(a) => dump[Object(a)] = "live"
    BY DEF IInv, Local, AtStep, OneStopper
  <2>2. QED
    BY <2>1, ClientLast, ConnAfterChildren DEF NativeLifetimes
<1>2. QED
  BY <1>1, InvariantHolds, PTL

\* A close that fails half-way leaves nothing closing, shut or locked without an
\* actor that is going to undo it (runtime.go:76-103, conn.go:308-366,
\* raw_dump.go:140-161).
THEOREM RefusedCloseIsUndone == Spec => []RefusedCloseRestores
<1>1. IInv => RefusedCloseRestores
  <2> SUFFICES ASSUME IInv PROVE RefusedCloseRestores
    OBVIOUS
  <2>1. ASSUME closing PROVE \E a \in Actors : ClosingClient(a)
    <3>1. PICK a \in Actors : Do("settle") \in Ahead(a)
      BY <2>1 DEF IInv, OneClient
    <3>2. PICK i \in DOMAIN todo[a] : todo[a][i] = Do("settle")
      BY <3>1 DEF Ahead, Range
    <3>3. QED
      BY <3>2 DEF ClosingClient, Do
  <2>2. ASSUME NEW c \in shut \ connClosed
        PROVE  \E a \in Actors : todo[a] # <<>> /\ Head(todo[a]) = On("destroyConn", c)
    <3>1. c \in Connections
      BY DEF IInv, Types
    <3>2. ConnOK(c) /\ opMu[c] \in Actors \cup {Free}
      BY <3>1 DEF IInv, Types
    <3>3. QED
      BY <3>2 DEF ConnOK
  <2>3. \A c \in Connections : opMu[c] # Free => On("destroyConn", c) \in Range(todo[opMu[c]])
    BY DEF IInv, ConnOK, Ahead
  <2>4. \A d \in Dumps : dumpMu[d] # Free => InDump(dumpMu[d]) /\ Object(dumpMu[d]) = d
    BY DEF IInv, Objects
  <2>5. QED
    BY <2>1, <2>2, <2>3, <2>4 DEF RefusedCloseRestores
<1>2. QED
  BY <1>1, InvariantHolds, PTL

-----------------------------------------------------------------------------
(* The rules of ownership *)

liveObjects == Tagged("conn", connIs("open")) \cup Tagged("child", children)
                 \cup Tagged("output", Outputs)
                 \cup (IF client = "open" THEN theClient ELSE {})
goneObjects == Tagged("conn", connIs("destroyed")) \cup Tagged("child", ended)
                 \cup (IF client = "open" THEN {} ELSE theClient)
madeUnder == {<<On("child", x), On("conn", parent[x])>> : x \in children}
uses == (Tagged("conn", connIs("open")) \X theClient) \cup madeUnder
attachments == {<<On("output", o), On("conn", bound[o])>> : o \in attachedOutputs}

LEMMA Tags ==
  /\ \A kind, x, other, y : On(kind, x) = On(other, y) <=> kind = other /\ x = y
  /\ \A kind, S, other, y : On(other, y) \in Tagged(kind, S) <=> other = kind /\ y \in S
  /\ \A kind, S, T : Tagged(kind, S \cup T) = Tagged(kind, S) \cup Tagged(kind, T)
  /\ \A kind, S, T : Tagged(kind, S \ T) = Tagged(kind, S) \ Tagged(kind, T)
  /\ \A kind, x : Tagged(kind, {x}) = {On(kind, x)}
  /\ theClient = {On("client", "client")}
BY DEF On, Tagged, theClient, Do

\* Steps that the mapping does not see.
LEMMA Stutters ==
  ASSUME UNCHANGED <<client, conn, bound, parent, children, ended>>
  PROVE  UNCHANGED Own!vars
BY DEF Own!vars, Tagged, connIs, attachedOutputs

LEMMA ConnCreated ==
  ASSUME NEW c \in Connections, conn \in [Connections -> {"none", "open", "destroyed"}],
         conn[c] = "none", client = "open", conn' = [conn EXCEPT ![c] = "open"],
         UNCHANGED <<client, bound, parent, children, ended>>
  PROVE  Own!Next
<1> DEFINE x == On("conn", c)
<1>1. /\ connIs("open")' = connIs("open") \cup {c}
      /\ connIs("destroyed")' = connIs("destroyed")
      /\ c \notin connIs("open") \cup connIs("destroyed")
  BY DEF connIs
<1>2. x \notin liveObjects \cup goneObjects
  BY <1>1, Tags DEF liveObjects, goneObjects
<1>3. /\ Tagged("conn", connIs("open"))' = Tagged("conn", connIs("open")) \cup {x}
      /\ UNCHANGED <<Tagged("conn", connIs("destroyed")), Tagged("child", children),
                     Tagged("child", ended), madeUnder, attachments>>
  BY <1>1, Tags DEF Tagged, madeUnder, attachments, attachedOutputs
<1>4. liveObjects' = liveObjects \cup {x} /\ goneObjects' = goneObjects
  BY <1>3 DEF liveObjects, goneObjects
<1>5. uses' = uses \cup ({x} \X theClient)
  BY <1>3 DEF uses
<1>6. theClient \in SUBSET liveObjects
  BY DEF liveObjects
<1>7. Own!Create(x)
  BY <1>2, <1>3, <1>4, <1>5, <1>6
     DEF Own!Create, liveObjects, goneObjects, uses, madeUnder, attachments
<1>8. x \in Tagged("conn", Connections)
  BY Tags
<1>9. QED
  BY <1>7, <1>8 DEF Own!Next

LEMMA ChildCreated ==
  ASSUME NEW x \in Recordings \cup Dumps, x \notin children \cup ended,
         NEW c \in Connections, conn[c] = "open",
         children' = children \cup {x}, parent' = [parent EXCEPT ![x] = c],
         parent \in [Recordings \cup Dumps -> Connections \cup {NoOne}],
         UNCHANGED <<client, conn, bound, ended>>
  PROVE  Own!Next
<1> DEFINE child == On("child", x)  owners == {On("conn", c)}
<1>1. child \notin liveObjects \cup goneObjects
  BY Tags DEF liveObjects, goneObjects
<1>2. /\ Tagged("child", children)' = Tagged("child", children) \cup {child}
      /\ UNCHANGED <<Tagged("conn", connIs("open")), Tagged("conn", connIs("destroyed")),
                     Tagged("child", ended), attachments>>
  BY Tags DEF Tagged, connIs, attachments, attachedOutputs
<1>3. liveObjects' = liveObjects \cup {child} /\ goneObjects' = goneObjects
  BY <1>2 DEF liveObjects, goneObjects
<1>4. madeUnder' = madeUnder \cup ({child} \X owners)
  <2>1. children \subseteq Recordings \cup Dumps
    BY DEF children
  <2>2. parent'[x] = c /\ \A y \in children : parent'[y] = parent[y]
    BY <2>1
  <2>3. QED
    BY <2>2 DEF madeUnder
<1>5. uses' = uses \cup ({child} \X owners)
  BY <1>2, <1>4 DEF uses
<1>6. owners \in SUBSET liveObjects
  BY Tags DEF liveObjects, connIs
<1>7. Own!Create(child)
  BY <1>1, <1>2, <1>3, <1>5, <1>6
     DEF Own!Create, liveObjects, goneObjects, uses, madeUnder, attachments
<1>8. child \in Tagged("child", Recordings \cup Dumps)
  BY Tags
<1>9. QED
  BY <1>7, <1>8 DEF Own!Next

LEMMA OutputAttached ==
  ASSUME NEW o \in Outputs, bound \in [Outputs -> Connections \cup {NoOne}],
         bound[o] = NoOne, NEW c \in Connections, conn[c] = "open",
         bound' = [bound EXCEPT ![o] = c],
         UNCHANGED <<client, conn, parent, children, ended>>
  PROVE  Own!Next
<1> DEFINE output == On("output", o)  owner == On("conn", c)
<1>1. {output, owner} \subseteq liveObjects
  BY Tags DEF liveObjects, connIs
<1>2. \A use \in attachments : use[1] # output
  BY Tags DEF attachments, attachedOutputs
<1>3. attachments' = attachments \cup {<<output, owner>>}
  <2>1. /\ attachedOutputs' = attachedOutputs \cup {o} /\ bound'[o] = c
        /\ \A p \in attachedOutputs : bound'[p] = bound[p]
    BY NamesDiffer DEF attachedOutputs
  <2>2. QED
    BY <2>1 DEF attachments
<1>4. UNCHANGED <<liveObjects, goneObjects, uses>>
  BY DEF liveObjects, goneObjects, uses, madeUnder, Tagged, connIs
<1>5. Own!Attach(output, owner)
  BY <1>1, <1>2, <1>3, <1>4
     DEF Own!Attach, liveObjects, goneObjects, uses, madeUnder, attachments
<1>6. output \in Tagged("output", Outputs)
  BY Tags
<1>7. QED
  BY <1>1, <1>5, <1>6 DEF Own!Next, liveObjects

LEMMA OutputDetached ==
  ASSUME NEW o \in Outputs, bound \in [Outputs -> Connections \cup {NoOne}],
         bound[o] # NoOne, bound' = [bound EXCEPT ![o] = NoOne],
         UNCHANGED <<client, conn, parent, children, ended>>
  PROVE  Own!Next
<1> DEFINE use == <<On("output", o), On("conn", bound[o])>>
<1>1. use \in attachments
  BY DEF attachments, attachedOutputs
<1>2. attachments' = attachments \ {use}
  <2>1. /\ attachedOutputs' = attachedOutputs \ {o}
        /\ \A p \in attachedOutputs \ {o} : bound'[p] = bound[p]
    BY DEF attachedOutputs
  <2>2. QED
    BY <2>1, Tags DEF attachments
<1>3. UNCHANGED <<liveObjects, goneObjects, uses>>
  BY DEF liveObjects, goneObjects, uses, madeUnder, Tagged, connIs
<1>4. Own!Detach(use)
  BY <1>2, <1>3 DEF Own!Detach, liveObjects, goneObjects, uses, madeUnder, attachments
<1>5. QED
  BY <1>1, <1>4 DEF Own!Next, attachments

LEMMA ChildGone ==
  ASSUME NEW x \in Recordings \cup Dumps, x \in children, children' = children \ {x},
         ended' = ended \cup {x}, UNCHANGED <<client, conn, bound, parent>>
  PROVE  Own!Next
<1> DEFINE child == On("child", x)
<1>1. child \in liveObjects
  BY Tags DEF liveObjects
<1>2. \A use \in uses \cup attachments : use[2] # child
  BY Tags DEF uses, madeUnder, attachments
<1>3. \A use \in attachments : use[1] # child
  BY Tags DEF attachments
<1>4. /\ Tagged("child", children)' = Tagged("child", children) \ {child}
      /\ Tagged("child", ended)' = Tagged("child", ended) \cup {child}
      /\ UNCHANGED <<Tagged("conn", connIs("open")), Tagged("conn", connIs("destroyed")),
                     attachments>>
  BY Tags DEF Tagged, connIs, attachments, attachedOutputs
<1>5. liveObjects' = liveObjects \ {child} /\ goneObjects' = goneObjects \cup {child}
  BY <1>4, Tags DEF liveObjects, goneObjects
<1>6. madeUnder' = {use \in madeUnder : use[1] # child}
  BY Tags DEF madeUnder
<1>7. uses' = {use \in uses : use[1] # child}
  BY <1>4, <1>6, Tags DEF uses
<1>8. Own!Destroy(child)
  BY <1>1, <1>2, <1>3, <1>4, <1>5, <1>7
     DEF Own!Destroy, liveObjects, goneObjects, uses, madeUnder, attachments
<1>9. child \in Tagged("child", Recordings \cup Dumps)
  BY Tags
<1>10. QED
  BY <1>8, <1>9 DEF Own!Next

LEMMA ConnGone ==
  ASSUME NEW c \in Connections, conn \in [Connections -> {"none", "open", "destroyed"}],
         conn[c] = "open", conn' = [conn EXCEPT ![c] = "destroyed"],
         \A x \in children : parent[x] # c, \A o \in Outputs : bound[o] # c,
         UNCHANGED <<client, bound, parent, children, ended>>
  PROVE  Own!Next
<1> DEFINE x == On("conn", c)
<1>1. /\ connIs("open")' = connIs("open") \ {c}
      /\ connIs("destroyed")' = connIs("destroyed") \cup {c}
      /\ c \in connIs("open")
  BY DEF connIs
<1>2. x \in liveObjects
  BY <1>1, Tags DEF liveObjects
<1>3. \A use \in uses \cup attachments : use[2] # x
  BY Tags DEF uses, madeUnder, attachments, attachedOutputs
<1>4. \A use \in attachments : use[1] # x
  BY Tags DEF attachments
<1>5. /\ Tagged("conn", connIs("open"))' = Tagged("conn", connIs("open")) \ {x}
      /\ Tagged("conn", connIs("destroyed"))' = Tagged("conn", connIs("destroyed")) \cup {x}
      /\ UNCHANGED <<Tagged("child", children), Tagged("child", ended), madeUnder,
                     attachments>>
  BY <1>1, Tags DEF Tagged, madeUnder, attachments, attachedOutputs
<1>6. liveObjects' = liveObjects \ {x} /\ goneObjects' = goneObjects \cup {x}
  BY <1>5, Tags DEF liveObjects, goneObjects
<1>7. madeUnder = {use \in madeUnder : use[1] # x}
  BY Tags DEF madeUnder
<1>8. uses' = {use \in uses : use[1] # x}
  BY <1>5, <1>7 DEF uses
<1>9. Own!Destroy(x)
  BY <1>2, <1>3, <1>4, <1>5, <1>6, <1>8
     DEF Own!Destroy, liveObjects, goneObjects, uses, madeUnder, attachments
<1>10. x \in Tagged("conn", Connections)
  BY Tags
<1>11. QED
  BY <1>9, <1>10 DEF Own!Next

LEMMA ClientGone ==
  ASSUME client = "open", client' = "destroyed", connIs("open") = {},
         UNCHANGED <<conn, bound, parent, children, ended>>
  PROVE  Own!Next
<1> DEFINE x == Do("client")
<1>1. x \in liveObjects
  BY DEF liveObjects, theClient
<1>2. /\ \A use \in uses \cup attachments : use[2] # x
      /\ \A use \in attachments \cup uses : use[1] # x
  BY Tags DEF uses, madeUnder, attachments, Tagged, theClient
<1>3. UNCHANGED <<Tagged("conn", connIs("open")), Tagged("conn", connIs("destroyed")),
                  Tagged("child", children), Tagged("child", ended), uses, attachments>>
  BY DEF Tagged, connIs, uses, madeUnder, attachments, attachedOutputs
<1>4. liveObjects' = liveObjects \ {x} /\ goneObjects' = goneObjects \cup {x}
  BY <1>3, Tags DEF liveObjects, goneObjects, Do, On
<1>5. uses' = {use \in uses : use[1] # x}
  BY <1>2, <1>3
<1>6. Own!Destroy(x)
  BY <1>1, <1>2, <1>3, <1>4, <1>5
     DEF Own!Destroy, liveObjects, goneObjects, uses, madeUnder, attachments
<1>7. QED
  BY <1>6 DEF Own!Next, theClient

\* Steps that leave every native object as it is.
LEMMA ViewStutters ==
  ASSUME UNCHANGED <<client, conn, bound, parent, recording, dump>>
  PROVE  UNCHANGED Own!vars
BY Stutters DEF children, ended

LEMMA ObjectsMade ==
  ASSUME IInv, NEW b \in Actors, shortCall(b)
  PROVE  Own!Next \/ UNCHANGED Own!vars
<1> USE ManagedAssumption
<1>1. Types /\ OneClient
  BY DEF IInv
<1>2. ASSUME NEW c \in Connections, NewConnection(c) PROVE Own!Next
  <2>1. /\ ~clientClosed /\ ~closing /\ conn[c] = "none"
        /\ conn' = [conn EXCEPT ![c] = "open"]
        /\ UNCHANGED <<client, bound, parent, recording, dump>>
    BY <1>2 DEF NewConnection, mayCreate, objects, recordingVars, dumpVars
  <2>2. \A a \in Actors : ~Doing(a, "settle", "start")
    <3>1. ASSUME NEW a \in Actors, Doing(a, "settle", "start") PROVE FALSE
      <4>1. todo[a] # <<>> /\ Head(todo[a])[1] = "settle" /\ CallTypes
        BY <3>1 DEF Doing, IInv
      <4>2. Do("settle") \in Ahead(a)
        BY <4>1, HeadNames
      <4>3. QED
        BY <2>1, <4>2 DEF IInv, Local, ClosesClient
    <3>2. QED
      BY <3>1
  <2>3. client = "open"
    BY <1>1, <2>1, <2>2 DEF Types, OneClient
  <2>4. QED
    BY <1>1, <2>1, <2>3, ConnCreated DEF Types, children, ended
<1>3. ASSUME NEW c \in Connections, NEW o \in Outputs, attach(o, c) PROVE Own!Next
  BY <1>1, <1>3, Admitted, OutputAttached
     DEF attach, Types, clientVars, connVars, objects, recordingVars, dumpVars, children, ended
<1>4. ASSUME NEW c \in Connections, NEW o \in Outputs, detach(o, c) PROVE Own!Next
  <2>1. c # NoOne
    OBVIOUS
  <2>2. QED
    BY <1>1, <1>4, <2>1, OutputDetached
       DEF detach, Types, clientVars, connVars, objects, recordingVars, dumpVars, children,
           ended
<1>5. ASSUME NEW c \in Connections, NEW r \in Recordings, StartRecording(r, c)
      PROVE  Own!Next
  <2>1. /\ recording[r] = "none" /\ recording' = [recording EXCEPT ![r] = "live"]
        /\ parent' = [parent EXCEPT ![r] = c] /\ conn[c] = "open"
        /\ UNCHANGED <<client, conn, bound, dump>>
    BY <1>5, Admitted DEF StartRecording, clientVars, connVars, dumpVars
  <2>2. /\ r \notin children \cup ended /\ children' = children \cup {r} /\ ended' = ended
    BY <1>1, <2>1 DEF Types, children, ended
  <2>3. QED
    BY <1>1, <2>1, <2>2, ChildCreated DEF Types
<1>6. ASSUME NEW c \in Connections, NEW d \in Dumps, StartRawDump(d, c)
      PROVE  Own!Next
  <2>1. /\ dump[d] = "none" /\ dump' = [dump EXCEPT ![d] = "live"]
        /\ parent' = [parent EXCEPT ![d] = c] /\ conn[c] = "open"
        /\ UNCHANGED <<client, conn, bound, recording>>
    BY <1>6, Admitted DEF StartRawDump, clientVars, connVars, recordingVars
  <2>2. /\ d \notin children \cup ended /\ children' = children \cup {d} /\ ended' = ended
    BY <1>1, <2>1 DEF Types, children, ended
  <2>3. QED
    BY <1>1, <2>1, <2>2, ChildCreated DEF Types
<1>7. QED
  BY <1>2, <1>3, <1>4, <1>5, <1>6 DEF shortCall

\* A recording or raw dump goes when native has ended it; its owner still has it.
LEMMA ChildrenEnd ==
  ASSUME IInv, NEW b \in Actors, StopRecording(b) \/ CloseRawDump(b)
  PROVE  Own!Next \/ UNCHANGED Own!vars
<1> USE ManagedAssumption DEF tree, clientVars, connVars, recordingVars, dumpVars, objects
<1>1. Types /\ CallTypes /\ AtStep(b)
  BY DEF IInv, Local
<1>2. /\ todo[b] # <<>> /\ Head(todo[b])[1] = "stop" => Object(b) \in Recordings
      /\ todo[b] # <<>> /\ Head(todo[b])[1] = "closeDump" => Object(b) \in Dumps
  BY <1>1, HeadNames
<1>3. CASE beginStop(b) \/ keptRecording(b)
  <2>1. /\ Object(b) \in Recordings /\ recording[Object(b)] \in {"live", "stopping"}
        /\ \E phase \in {"live", "stopping"} :
             recording' = [recording EXCEPT ![Object(b)] = phase]
        /\ UNCHANGED <<client, conn, bound, parent, dump>>
    BY <1>1, <1>2, <1>3 DEF beginStop, keptRecording, mayStop, Doing, AtStep
  <2>2. children' = children /\ ended' = ended
    BY <1>1, <2>1 DEF Types, children, ended
  <2>3. QED
    BY <2>1, <2>2, Stutters
<1>4. CASE stopped(b)
  <2>1. /\ Object(b) \in Recordings /\ recording[Object(b)] = "stopping"
        /\ recording' = [recording EXCEPT ![Object(b)] = "done"]
        /\ UNCHANGED <<client, conn, bound, parent, dump>>
    BY <1>1, <1>2, <1>4 DEF stopped, Doing, AtStep
  <2>2. /\ Object(b) \in children /\ children' = children \ {Object(b)}
        /\ ended' = ended \cup {Object(b)}
    BY <1>1, <2>1 DEF Types, children, ended
  <2>3. QED
    BY <2>1, <2>2, ChildGone
<1>5. CASE dumpDestroyed(b)
  <2>1. /\ Object(b) \in Dumps /\ dump[Object(b)] = "live"
        /\ dump' = [dump EXCEPT ![Object(b)] = "destroyed"]
        /\ UNCHANGED <<client, conn, bound, parent, recording>>
    BY <1>1, <1>2, <1>5 DEF dumpDestroyed, Doing, AtStep, InDump
  <2>2. /\ Object(b) \in children /\ children' = children \ {Object(b)}
        /\ ended' = ended \cup {Object(b)}
    BY <1>1, <2>1 DEF Types, children, ended
  <2>3. QED
    BY <2>1, <2>2, ChildGone
<1>6. CASE stoppedBefore(b)
  BY <1>6, ViewStutters DEF stoppedBefore
<1>7. CASE \/ stopDump(b) \/ dumpStopped(b) \/ dumpStoppedBefore(b) \/ destroyDump(b)
           \/ dumpDestroyedBefore(b) \/ keptDump(b) \/ dumpNotReleased(b) \/ forgetDump(b)
  BY <1>7, ViewStutters
     DEF stopDump, dumpStopped, dumpStoppedBefore, destroyDump, dumpDestroyedBefore, keptDump,
         dumpNotReleased, forgetDump, lockDump
<1>8. QED
  BY <1>3, <1>4, <1>5, <1>6, <1>7 DEF StopRecording, CloseRawDump

\* A connection goes when the close that holds its opMu has come to its end.
LEMMA ConnEnds ==
  ASSUME IInv, NEW b \in Actors, CloseConn(b)
  PROVE  Own!Next \/ UNCHANGED Own!vars
<1> USE DEF tree, clientVars, connVars, recordingVars, dumpVars, objects
<1>1. CASE connDestroyed(b)
  <2> DEFINE c == Object(b)
  <2>1. /\ todo[b] # <<>> /\ Head(todo[b])[1] = "destroyConn" /\ at[b] = "begun"
        /\ conn' = [conn EXCEPT ![c] = "destroyed"]
        /\ UNCHANGED <<client, bound, parent, recording, dump>>
    BY <1>1 DEF connDestroyed, Doing
  <2>2. /\ c \in Connections /\ conn[c] = IF Destroyed(b) THEN "destroyed" ELSE "open"
        /\ DepsOf(c) = {} /\ TasksOf(c) = {} /\ \A d \in Dumps : ~Live(d, c)
    BY <2>1, AtDestroyConn
  <2>3. ~Destroyed(b)
    BY <2>1 DEF Destroyed, Doing
  <2> HIDE DEF c
  <2>4. /\ \A x \in children : parent[x] # c
        /\ \A o \in Outputs : bound[o] # c
    BY <2>2 DEF IInv, Types, children, DepsOf, TasksOf, Live
  <2>5. QED
    BY <2>1, <2>2, <2>3, <2>4, ConnGone DEF IInv, Types, children, ended
<1>2. CASE \/ lookClose(b) \/ lockClose(b) \/ beginClose(b) \/ connKept(b) \/ finishClose(b)
           \/ forgetConn(b)
  BY <1>2, ViewStutters
     DEF lookClose, lockClose, beginClose, connKept, finishClose, forgetConn
<1>3. QED
  BY <1>1, <1>2 DEF CloseConn

LEMMA ClientEnds ==
  ASSUME IInv, NEW b \in Actors, CloseClient(b)
  PROVE  Own!Next \/ UNCHANGED Own!vars
<1> USE DEF tree, clientVars, connVars, recordingVars, dumpVars, objects
<1>1. CASE detachFromClient(b)
  <2> DEFINE o == Object(b)
  <2>1. o \in Outputs
    <3>1. todo[b] # <<>> /\ Head(todo[b])[1] = "detachFromClient" /\ CallTypes
      BY <1>1 DEF detachFromClient, Doing, IInv
    <3>2. QED
      BY <3>1, HeadNames
  <2>2. UNCHANGED <<client, conn, parent, recording, dump>>
    BY <1>1 DEF detachFromClient
  <2>3. UNCHANGED bound \/ (bound[o] # NoOne /\ bound' = [bound EXCEPT ![o] = NoOne])
    BY <1>1 DEF detachFromClient
  <2> HIDE DEF o
  <2>4. CASE UNCHANGED bound
    BY <2>2, <2>4, ViewStutters
  <2>5. CASE bound[o] # NoOne /\ bound' = [bound EXCEPT ![o] = NoOne]
    BY <2>1, <2>2, <2>5, OutputDetached DEF IInv, Types, children, ended
  <2>6. QED
    BY <2>3, <2>4, <2>5
<1>2. CASE destroyClient(b)
  <2>1. /\ UNCHANGED <<conn, bound, parent, recording, dump>>
        /\ client' = "destroyed" \/ UNCHANGED client
    BY <1>2 DEF destroyClient
  <2>2. CASE UNCHANGED client
    BY <2>1, <2>2, ViewStutters
  <2>3. CASE client = "open" /\ client' = "destroyed"
    <3>1. Object(b) = "client" /\ Doing(b, "destroyClient", "start")
      <4>1. todo[b] # <<>> /\ Head(todo[b])[1] = "destroyClient" /\ CallTypes
        BY <1>2 DEF destroyClient, Doing, IInv
      <4>2. Head(todo[b]) = Do("destroyClient")
        BY <4>1, HeadNames
      <4>3. QED
        BY <1>2, <4>2 DEF destroyClient, Object, Do
    <3>2. connIs("open") = {}
      BY <3>1, ClientLast DEF About, connIs
    <3>3. QED
      BY <2>1, <2>3, <3>2, ClientGone DEF children, ended
  <2>4. QED
    BY <2>1, <2>2, <2>3 DEF IInv, Types
<1>3. CASE \/ beginClientClose(b) \/ preflightClientClose(b) \/ closeFromClient(b)
           \/ detachFails(b) \/ waitIdle(b) \/ connReleased(b) \/ settle(b)
  BY <1>3, ViewStutters
     DEF beginClientClose, preflightClientClose, closeFromClient, detachFails, waitIdle,
         connReleased, settle
<1>4. QED
  BY <1>1, <1>2, <1>3 DEF CloseClient

LEMMA OwnershipStep == IInv /\ [Next]_vars => [Own!Next]_Own!vars
<1> SUFFICES ASSUME IInv, [Next]_vars PROVE Own!Next \/ UNCHANGED Own!vars
  OBVIOUS
<1> USE ViewStutters DEF tree, clientVars, connVars, recordingVars, dumpVars, objects
<1>1. CASE UNCHANGED vars
  BY <1>1 DEF vars
<1>2. ASSUME NEW a \in Actors, call(a) PROVE UNCHANGED Own!vars
  BY <1>2 DEF call
<1>3. ASSUME NEW a \in Actors, Operate(a) PROVE Own!Next \/ UNCHANGED Own!vars
  BY <1>3, ChildrenEnd, ConnEnds, ClientEnds DEF Operate
<1>4. ASSUME NEW x \in Connections \cup Outputs,
             handlerReturns(x) \/ connHandler(x) \/ deliver(x) \/ outputHandler(x)
      PROVE  UNCHANGED Own!vars
  BY <1>4 DEF handlerReturns, connHandler, deliver, outputHandler
<1>5. QED
  BY <1>1, <1>2, <1>3, <1>4, ObjectsMade DEF Next

LEMMA OwnershipInit == Init => Own!Init
BY DEF Init, Own!Init, Tagged, connIs, children, ended, attachedOutputs

\* Every step of the client, its connections, recordings, raw dumps and outputs is a
\* step that Ownership allows, or one it does not see: nothing is made under an
\* object that is gone and nothing goes before what was made under it, also where
\* Client.Close fails half-way and is called again (runtime.go:55-106,
\* conn.go:44-66, 273-420).
THEOREM ClientOwns == Spec => ImplementsOwnership
<1>1. Init => Own!Init
  BY OwnershipInit
<1>2. IInv /\ [Next]_vars => [Own!Next]_Own!vars
  BY OwnershipStep
<1>3. QED
  BY <1>1, <1>2, InvariantHolds, PTL DEF Spec, ImplementsOwnership, Own!Spec
=============================================================================
