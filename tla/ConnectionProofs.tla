-------------------------- MODULE ConnectionProofs --------------------------
(***************************************************************************)
(* Proofs about Connection, for any number of Connects, closes, callers    *)
(* and children: a closed connection has none of its children left, and    *)
(* the application knows the state when its callbacks have run.            *)
(***************************************************************************)
EXTENDS Connection, TLAPS

LockedSteps == {"interrupting", "locked", "begun", "disconnected", "closed"}

\* Event numbers are taken in turn; a state callback has one kept for it.
Types ==
  /\ TypeOK
  /\ closer \in [Closers -> UnlockedSteps \cup LockedSteps]
  /\ snapshot \in [Closers -> States \cup {"Idle"}]
  /\ pending \subseteq 1 .. accepted
  /\ callback # "none" => accepted < MaxEvents

\* Whoever is in a native call under opMu holds it.
Holders ==
  /\ \A u \in Callers : opMu = u <=> call[u] = "native"
  /\ \A d \in Children : opMu = d <=> d \in attaching

\* What a close knows that has looked at the children under opMu, and what a
\* closed connection is.
CloseKnows ==
  /\ closed <=> native = "closed"
  /\ closed => phase # "open" /\ children = {} /\ attaching = {}
  /\ \A k \in Closers :
       /\ closer[k] \in {"locked", "begun", "disconnected"} => ~closed /\ children = {}
       /\ closer[k] \in {"begun", "disconnected", "closed"} => phase = "closing"

\* The state is what the next or the last notification says.
News ==
  ~closed =>
    /\ callback \in States => callback = state
    /\ callback \notin States /\ ~stateLost =>
         /\ \A e \in pending : carries[e] \in States => carries[e] = state
         /\ (\A e \in pending : carries[e] \notin States) => reported = state

IInv == Types /\ Holders /\ CloseKnows /\ News

-----------------------------------------------------------------------------
(* Connects, calls and children *)

LEMMA InitHolds == Init => IInv
<1> SUFFICES ASSUME Init PROVE IInv
  OBVIOUS
<1> USE ConnectionAssumption
<1>1. /\ opMu = Free /\ native = "open" /\ closed = FALSE
      /\ accepted = 0 /\ pending = {} /\ running = {} /\ phase = "open"
  BY DEF Init, Mailbox!Init
<1>2. /\ \A k \in Closers : opMu # k /\ closer[k] = "idle"
      /\ \A u \in Callers : opMu # u /\ call[u] = "idle"
      /\ \A d \in Children : opMu # d /\ d \notin attaching
  BY <1>1 DEF Init
<1>3. Types
  <2>1. \A k \in Closers : opMu = k <=> closer[k] \notin UnlockedSteps
    BY <1>2 DEF UnlockedSteps
  <2>2. /\ opMu \in Callers \cup Children \cup Closers \cup {Free}
        /\ state \in States \cup {"Idle"} /\ reported \in States \cup {"Idle"}
        /\ children \in SUBSET Children /\ attaching \in SUBSET Children
        /\ callback \in States \cup {"none", "entered"} /\ stateLost \in BOOLEAN
        /\ interrupted \in SUBSET Connecters
    BY <1>1 DEF Init
  <2>3. /\ connectDone \in Connecters \cup {NoOne}
        /\ connect \in [Connecters -> ConnectSteps]
        /\ attempt \in [Connecters -> {"none", "pending", "over"}]
        /\ handle \in [Connecters -> {"none", "live", "reaping", "dropped"}]
        /\ call \in [Callers -> {"idle", "native"}]
        /\ carries \in [1 .. MaxEvents -> States \cup {"none", "command"}]
    BY DEF Init, ConnectSteps
  <2>4. /\ closer \in [Closers -> UnlockedSteps \cup LockedSteps]
        /\ snapshot \in [Closers -> States \cup {"Idle"}]
        /\ awaited \in [Closers -> Connecters \cup {NoOne}]
        /\ callback = "none"
    BY DEF Init, UnlockedSteps
  <2>5. accepted \in 0 .. MaxEvents /\ pending \subseteq 1 .. accepted
    BY <1>1
  <2>6. QED
    BY <1>1, <2>1, <2>2, <2>3, <2>4, <2>5 DEF Types, TypeOK
<1>4. Holders /\ CloseKnows
  BY <1>1, <1>2 DEF Holders, CloseKnows
<1>5. News
  BY <1>1 DEF Init, News, States
<1>6. QED
  BY <1>3, <1>4, <1>5 DEF IInv

\* What a Connect does changes nothing but its own records, and what closes wait for.
Connects(c) == \/ Connect(c) \/ attemptEnds(c) \/ Connecting(c)
               \/ reapConnectAttempt(c) \/ forgetAttempt(c)

LEMMA ConnectStep ==
  ASSUME IInv, NEW c \in Connecters, Connects(c)
  PROVE  IInv'
<1>1. UNCHANGED <<opMu, native, closed, state, childVars, closer, snapshot, call,
                  eventVars, mailboxVars>>
  BY DEF Connects, Connect, attemptEnds, Connecting, contextCancels, closeAttempt,
         connectReturns, reapConnectAttempt, forgetAttempt, closeVars
<1>2. /\ connectDone' \in Connecters \cup {NoOne}
      /\ connect' \in [Connecters -> ConnectSteps]
      /\ attempt' \in [Connecters -> {"none", "pending", "over"}]
      /\ handle' \in [Connecters -> {"none", "live", "reaping", "dropped"}]
      /\ interrupted' \in SUBSET Connecters
      /\ awaited' \in [Closers -> Connecters \cup {NoOne}]
  BY DEF IInv, Types, TypeOK, Connects, Connect, attemptEnds, Connecting,
         contextCancels, closeAttempt, connectReturns, reapConnectAttempt,
         forgetAttempt, closeVars, interrupt, clearConnectDone, ConnectSteps
<1> USE DEF childVars, eventVars, mailboxVars
<1>3. Types'
  BY <1>1, <1>2 DEF IInv, Types, TypeOK
<1>4. Holders' /\ CloseKnows' /\ News'
  BY <1>1 DEF IInv, Holders, CloseKnows, News
<1>5. QED
  BY <1>3, <1>4 DEF IInv

\* A step of somebody who is not closing: who holds opMu afterwards is in a native
\* call, and a closed connection is left alone.
LEMMA UnderMutexStep ==
  ASSUME IInv, Holders',
         UNCHANGED <<native, closed, state, connectVars, closeVars, eventVars,
                     mailboxVars>>,
         opMu' \in Callers \cup Children \cup {Free},
         \A k \in Closers : opMu # k,
         children' \in SUBSET Children, attaching' \in SUBSET Children,
         interrupted' \in SUBSET Connecters, call' \in [Callers -> {"idle", "native"}],
         closed => children' = {} /\ attaching' = {}
  PROVE  IInv'
<1> USE ConnectionAssumption DEF connectVars, closeVars, eventVars, mailboxVars
<1>1. \A k \in Closers : opMu' # k /\ closer[k] \in UnlockedSteps
  BY DEF IInv, Types, TypeOK
<1>2. Types'
  BY <1>1 DEF IInv, Types, TypeOK
<1>3. CloseKnows'
  BY <1>1 DEF IInv, CloseKnows, UnlockedSteps
<1>4. News'
  BY DEF IInv, News
<1>5. QED
  BY <1>2, <1>3, <1>4 DEF IInv

LEMMA CallStep ==
  ASSUME IInv, NEW u \in Callers, withNative(u) \/ callReturns(u)
  PROVE  IInv'
<1> USE ConnectionAssumption DEF childVars
<1>1. /\ opMu' \in Callers \cup {Free} /\ \A k \in Closers : opMu # k
      /\ call' \in [Callers -> {"idle", "native"}]
      /\ interrupted' \in SUBSET Connecters
      /\ UNCHANGED <<native, closed, state, children, attaching, connectVars,
                     closeVars, eventVars, mailboxVars>>
  BY DEF IInv, Types, TypeOK, Holders, withNative, callReturns, interruptConnect, interrupt
<1>2. Holders'
  BY DEF IInv, Types, TypeOK, Holders, withNative, callReturns
<1>3. QED
  BY <1>1, <1>2, UnderMutexStep DEF IInv, Types, TypeOK, CloseKnows

LEMMA ChildStep ==
  ASSUME IInv, NEW d \in Children, beginAttach(d) \/ endAttach(d)
  PROVE  IInv'
<1> USE ConnectionAssumption
<1>1. /\ opMu' \in Children \cup {Free} /\ \A k \in Closers : opMu # k
      /\ children' \in SUBSET Children /\ attaching' \in SUBSET Children
      /\ UNCHANGED <<native, closed, state, call, interrupted, connectVars,
                     closeVars, eventVars, mailboxVars>>
  BY DEF IInv, Types, TypeOK, Holders, beginAttach, endAttach
<1>2. Holders'
  BY DEF IInv, Types, TypeOK, Holders, beginAttach, endAttach
<1>3. closed => children' = {} /\ attaching' = {}
  BY DEF IInv, CloseKnows, beginAttach, notClosed, endAttach
<1>4. QED
  BY <1>1, <1>2, <1>3, UnderMutexStep DEF IInv, Types, TypeOK

\* A recording that stops asks for no opMu: a close may be going on.
LEMMA RecordingStep ==
  ASSUME IInv, NEW d \in Children, recordingStops(d)
  PROVE  IInv'
<1> USE DEF connectVars, closeVars, eventVars, mailboxVars
<1>1. /\ children' \subseteq children
      /\ UNCHANGED <<opMu, native, closed, state, attaching, interrupted, call,
                     connectVars, closeVars, eventVars, mailboxVars>>
  BY DEF recordingStops
<1>2. Types'
  BY <1>1 DEF IInv, Types, TypeOK
<1>3. Holders' /\ CloseKnows' /\ News'
  BY <1>1 DEF IInv, Holders, CloseKnows, News
<1>4. QED
  BY <1>2, <1>3 DEF IInv

-----------------------------------------------------------------------------
(* Callbacks *)

\* Callbacks and handlers touch neither opMu nor the children; the state changes
\* only while the connection is open.
LEMMA EventLeaves ==
  ASSUME Event
  PROVE  UNCHANGED <<opMu, native, closed, childVars, connectVars, interrupted,
                     closeVars, call, phase>>
BY DEF Event, enterOnState, OnState, postState, OnCommand, startHandler, endHandler,
       mailboxVars, Mailbox!Accept, Mailbox!Start, Mailbox!Return

\* An accepted callback gets the next number.
LEMMA AcceptedNumber ==
  ASSUME IInv, accepted < MaxEvents, Mailbox!Accept
  PROVE  /\ accepted' = accepted + 1 /\ accepted' \in 1 .. MaxEvents
         /\ accepted' \notin pending /\ pending \subseteq 1 .. MaxEvents
         /\ UNCHANGED <<running, phase>> /\ phase = "open"
BY ConnectionAssumption DEF IInv, Types, TypeOK, Mailbox!Accept

\* What callbacks change, with its types.
EventFields ==
  /\ state \in States \cup {"Idle"} /\ reported \in States \cup {"Idle"}
  /\ callback \in States \cup {"none", "entered"}
  /\ carries \in [1 .. MaxEvents -> States \cup {"none", "command"}]
  /\ stateLost \in BOOLEAN
  /\ accepted \in 0 .. MaxEvents /\ pending \subseteq 1 .. accepted
  /\ callback # "none" => accepted < MaxEvents

LEMMA EventTypes ==
  ASSUME IInv, Event
  PROVE  EventFields'
<1> USE ConnectionAssumption DEF mailboxVars
<1>1. EventFields
  BY DEF IInv, Types, TypeOK, EventFields
<1>2. CASE enterOnState
  BY <1>1, <1>2 DEF enterOnState, Room, EventFields
<1>3. ASSUME NEW s \in States, OnState(s) PROVE EventFields'
  BY <1>1, <1>3 DEF OnState, EventFields, States
<1>4. CASE postState
  <2>1. CASE UNCHANGED mailboxVars /\ UNCHANGED carries
    BY <1>1, <1>4, <2>1 DEF postState, EventFields
  <2>2. CASE Mailbox!Accept /\ supersede
    <3>1. accepted' = accepted + 1 /\ accepted' \in 1 .. MaxEvents
      BY <1>1, <1>4, <2>2, AcceptedNumber DEF postState, EventFields, States
    <3>2. pending' \subseteq 1 .. accepted'
      <4>1. \A e \in pending' : e \in pending \/ e = accepted'
        BY <2>2, <3>1 DEF supersede
      <4>2. \A e \in pending : e \in 1 .. accepted'
        BY <1>1, <3>1 DEF EventFields
      <4>3. QED
        BY <3>1, <4>1, <4>2
    <3>3. carries' \in [1 .. MaxEvents -> States \cup {"none", "command"}]
      BY <1>1, <1>4, <3>1 DEF postState, EventFields
    <3>4. QED
      BY <1>1, <1>4, <3>1, <3>2, <3>3 DEF postState, EventFields
  <2>3. QED
    BY <1>4, <2>1, <2>2 DEF postState
<1>5. CASE OnCommand
  <2>1. accepted' = accepted + 1 /\ accepted' \in 1 .. MaxEvents
    BY <1>1, <1>5, AcceptedNumber DEF OnCommand, Room, EventFields
  <2>2. callback # "none" => accepted' < MaxEvents
    BY <1>1, <1>5, <2>1 DEF OnCommand, Room, EventFields
  <2>3. carries' \in [1 .. MaxEvents -> States \cup {"none", "command"}]
    BY <1>1, <1>5, <2>1 DEF OnCommand, EventFields
  <2>4. QED
    BY <1>1, <1>5, <2>1, <2>2, <2>3 DEF OnCommand, EventFields
<1>6. ASSUME NEW e \in pending, startHandler(e) PROVE EventFields'
  BY <1>1, <1>6 DEF startHandler, Mailbox!Start, EventFields
<1>7. CASE endHandler
  BY <1>1, <1>7 DEF endHandler, Mailbox!Return, eventVars, EventFields
<1>8. QED
  BY <1>2, <1>3, <1>4, <1>5, <1>6, <1>7 DEF Event

LEMMA EventNews ==
  ASSUME IInv, Event
  PROVE  News'
<1> SUFFICES ASSUME ~closed PROVE News'
  BY EventLeaves DEF News
<1> USE ConnectionAssumption DEF mailboxVars
<1>1. News /\ Types
  BY DEF IInv
<1>2. CASE enterOnState
  BY <1>1, <1>2 DEF enterOnState, News, States
<1>3. ASSUME NEW s \in States, OnState(s) PROVE News'
  <2>1. state' = s /\ UNCHANGED <<closed, carries, reported, stateLost, mailboxVars>>
    BY <1>3 DEF OnState, stateIsCurrent
  <2>2. callback = "entered" /\ (callback' = s \/ (callback' = "none" /\ s = state))
    BY <1>3 DEF OnState, changed
  <2>3. QED
    BY <1>1, <2>1, <2>2 DEF News, States
<1>4. CASE postState
  <2>1. callback = state /\ callback \in States /\ callback' = "none"
        /\ UNCHANGED <<state, closed, reported>>
    BY <1>1, <1>4 DEF postState, News
  <2>2. CASE phase # "open"
    BY <1>4, <2>1, <2>2 DEF postState, News, States
  <2>3. CASE phase = "open"
    <3>1. /\ Mailbox!Accept /\ supersede
          /\ carries' = [carries EXCEPT ![accepted'] = callback]
      BY <1>4, <2>3 DEF postState
    <3>2. /\ accepted' = accepted + 1 /\ accepted' \in 1 .. MaxEvents
          /\ accepted' \notin pending /\ pending \subseteq 1 .. MaxEvents
      BY <1>1, <2>1, <3>1, AcceptedNumber DEF Types, States
    <3>3. carries'[accepted'] = state /\ \A e \in pending : carries'[e] = carries[e]
      BY <1>1, <2>1, <3>1, <3>2 DEF Types, TypeOK
    <3>4. /\ \A e \in pending' : carries'[e] \in States => carries'[e] = state
          /\ accepted' \in pending' /\ carries'[accepted'] \in States
      BY <2>1, <3>1, <3>2, <3>3 DEF supersede
    <3>5. QED
      BY <2>1, <3>4 DEF News, States
  <2>4. QED
    BY <2>2, <2>3
<1>5. CASE OnCommand
  <2>1. /\ carries' = [carries EXCEPT ![accepted'] = "command"]
        /\ pending' = pending \cup {accepted'}
        /\ UNCHANGED <<state, closed, callback, reported, stateLost>>
    BY <1>5 DEF OnCommand
  <2>2. /\ accepted' \in 1 .. MaxEvents
        /\ accepted' \notin pending /\ pending \subseteq 1 .. MaxEvents
    BY <1>1, <1>5, AcceptedNumber DEF OnCommand, Room, Types, TypeOK
  <2>3. carries'[accepted'] = "command" /\ \A e \in pending : carries'[e] = carries[e]
    BY <1>1, <2>1, <2>2 DEF Types, TypeOK
  <2>4. QED
    BY <1>1, <2>1, <2>3 DEF News, States
<1>6. ASSUME NEW e \in pending, startHandler(e) PROVE News'
  <2>1. /\ pending' = pending \ {e}
        /\ reported' = IF carries[e] \in States THEN carries[e] ELSE reported
        /\ UNCHANGED <<state, closed, callback, carries, stateLost>>
    BY <1>6 DEF startHandler, Mailbox!Start
  <2>2. QED
    BY <1>1, <2>1 DEF News
<1>7. CASE endHandler
  BY <1>1, <1>7 DEF endHandler, Mailbox!Return, eventVars, News
<1>8. QED
  BY <1>2, <1>3, <1>4, <1>5, <1>6, <1>7 DEF Event

LEMMA EventStep == IInv /\ Event => IInv'
<1> SUFFICES ASSUME IInv, Event PROVE IInv'
  OBVIOUS
<1> USE DEF childVars, connectVars, closeVars
<1>1. UNCHANGED <<opMu, native, closed, childVars, connectVars, interrupted,
                  closeVars, call, phase>>
  BY EventLeaves
<1>2. Types'
  BY <1>1, EventTypes DEF EventFields, IInv, Types, TypeOK
<1>3. Holders' /\ CloseKnows'
  BY <1>1 DEF IInv, Holders, CloseKnows
<1>4. QED
  BY <1>2, <1>3, EventNews DEF IInv

-----------------------------------------------------------------------------
(* Close *)

\* A close makes its steps alone; the next place says whether it holds opMu.
CloseMoves(k) ==
  /\ closer' = [closer EXCEPT ![k] = closer'[k]]
  /\ closer'[k] \in UnlockedSteps \cup LockedSteps
  /\ opMu' = IF closer'[k] \in UnlockedSteps THEN Free ELSE k

LEMMA CloserAlone ==
  ASSUME IInv, NEW k \in Closers, CloseMoves(k), opMu \in {k, Free}
  PROVE  /\ closer' \in [Closers -> UnlockedSteps \cup LockedSteps]
         /\ opMu' \in {k, Free}
         /\ \A j \in Closers : opMu' = j <=> closer'[j] \notin UnlockedSteps
         /\ \A j \in Closers \ {k} : closer'[j] = closer[j] /\ closer[j] \in UnlockedSteps
         /\ attaching = {} /\ \A u \in Callers : call[u] # "native"
<1>1. /\ opMu \in {k, Free} /\ opMu' \in {k, Free}
      /\ \A j \in Closers : opMu = j <=> closer[j] \notin UnlockedSteps
      /\ closer \in [Closers -> UnlockedSteps \cup LockedSteps]
  BY DEF IInv, Types, TypeOK, CloseMoves
<1>2. \A x \in Callers \cup Children \cup (Closers \ {k}) : x # k /\ x # Free
  BY ConnectionAssumption
<1>3. /\ closer' \in [Closers -> UnlockedSteps \cup LockedSteps]
      /\ \A j \in Closers \ {k} : closer'[j] = closer[j]
  BY <1>1 DEF CloseMoves
<1>4. \A j \in Closers \ {k} : closer[j] \in UnlockedSteps
  BY <1>1, <1>2
<1>5. \A j \in Closers : opMu' = j <=> closer'[j] \notin UnlockedSteps
  <2>1. opMu' = k <=> closer'[k] \notin UnlockedSteps
    BY ConnectionAssumption DEF CloseMoves
  <2>2. \A j \in Closers \ {k} : opMu' # j /\ closer'[j] \in UnlockedSteps
    BY <1>1, <1>2, <1>3, <1>4
  <2>3. QED
    BY <2>1, <2>2
<1>6. attaching = {} /\ \A u \in Callers : call[u] # "native"
  BY <1>1, <1>2 DEF IInv, Types, TypeOK, Holders
<1>7. QED
  BY <1>1, <1>3, <1>4, <1>5, <1>6

\* A step of a close that only moves on.
LEMMA CloseQuietly ==
  ASSUME IInv, NEW k \in Closers, CloseMoves(k), opMu \in {k, Free},
         UNCHANGED <<objectVars, eventVars, mailboxVars>>,
         snapshot' \in [Closers -> States \cup {"Idle"}],
         awaited' \in [Closers -> Connecters \cup {NoOne}],
         interrupted' \in SUBSET Connecters,
         closer'[k] \in {"locked", "begun", "disconnected"} => ~closed /\ children = {},
         closer'[k] \in {"begun", "disconnected", "closed"} => phase = "closing"
  PROVE  IInv'
<1> USE ConnectionAssumption
<1> USE DEF objectVars, childVars, connectVars, eventVars, mailboxVars
<1>1. /\ closer' \in [Closers -> UnlockedSteps \cup LockedSteps]
      /\ opMu' \in {k, Free}
      /\ \A j \in Closers : opMu' = j <=> closer'[j] \notin UnlockedSteps
      /\ \A j \in Closers \ {k} : closer'[j] = closer[j]
      /\ attaching = {} /\ \A u \in Callers : call[u] # "native"
  BY CloserAlone
<1>2. Types'
  BY <1>1 DEF IInv, Types, TypeOK
<1>3. Holders'
  BY <1>1 DEF IInv, Holders
<1>4. CloseKnows'
  BY <1>1 DEF IInv, CloseKnows
<1>5. News'
  BY DEF IInv, News
<1>6. QED
  BY <1>2, <1>3, <1>4, <1>5 DEF IInv

\* The steps of a close that it makes without opMu, which another may hold.
LEMMA CloseWithoutMutex ==
  ASSUME IInv, NEW k \in Closers,
         preflightClose(k) \/ closeGivesUp(k) \/ connectAwaited(k)
  PROVE  IInv'
<1> USE DEF At, closeUnchanged
<1> USE DEF objectVars, childVars, connectVars, eventVars, mailboxVars
<1>1. closer[k] \in UnlockedSteps /\ closer' \in [Closers -> UnlockedSteps \cup LockedSteps]
  BY DEF preflightClose, closeGivesUp, connectAwaited, IInv, Types, UnlockedSteps
<1>2. closer'[k] \in UnlockedSteps /\ \A j \in Closers \ {k} : closer'[j] = closer[j]
  BY DEF preflightClose, closeGivesUp, connectAwaited, IInv, Types, UnlockedSteps
<1>3. UNCHANGED <<opMu, snapshot, awaited, interrupted, mailboxVars, objectVars, eventVars>>
  BY DEF preflightClose, closeGivesUp, connectAwaited
<1>4. Types'
  BY <1>1, <1>2, <1>3 DEF IInv, Types, TypeOK
<1>5. CloseKnows'
  BY <1>2, <1>3 DEF IInv, CloseKnows, UnlockedSteps
<1>6. Holders' /\ News'
  BY <1>3 DEF IInv, Holders, News
<1>7. QED
  BY <1>4, <1>5, <1>6 DEF IInv

\* The steps with opMu that leave the connection and its mailbox as they are.
LEMMA CloseUnderMutex ==
  ASSUME IInv, NEW k \in Closers,
         \/ lockForClose(k) \/ lockAgain(k) \/ interruptForClose(k)
         \/ interruptFails(k) \/ beginCloseRefused(k) \/ disconnect(k)
  PROVE  IInv'
<1> USE ConnectionAssumption DEF At, closeUnchanged
<1>1. CASE lockForClose(k) \/ lockAgain(k)
  <2>1. /\ CloseMoves(k) /\ opMu = Free
        /\ closer'[k] \in {"locked", "interrupting"} /\ ~closed /\ children = {}
    BY <1>1 DEF lockForClose, lockAgain, mayClose, CloseMoves, IInv, Types,
                UnlockedSteps, LockedSteps
  <2>2. /\ snapshot' \in [Closers -> States \cup {"Idle"}]
        /\ awaited' \in [Closers -> Connecters \cup {NoOne}]
        /\ interrupted' \in SUBSET Connecters
        /\ UNCHANGED <<objectVars, eventVars, mailboxVars>>
    BY <1>1 DEF lockForClose, lockAgain, IInv, Types, TypeOK
  <2>3. QED
    BY <2>1, <2>2, CloseQuietly
<1>2. CASE interruptForClose(k) \/ interruptFails(k) \/ beginCloseRefused(k) \/ disconnect(k)
  <2>1. closer[k] \in {"interrupting", "locked", "begun"}
    BY <1>2 DEF interruptForClose, interruptFails, beginCloseRefused, disconnect
  <2>2. opMu = k
    BY <2>1 DEF IInv, Types, TypeOK, UnlockedSteps
  <2>3. CloseMoves(k) /\ closer'[k] \in {"awaiting", "idle", "disconnected"}
    BY <1>2, <2>2 DEF interruptForClose, interruptFails, beginCloseRefused, disconnect,
                      CloseMoves, IInv, Types, UnlockedSteps, LockedSteps
  <2>4. /\ UNCHANGED <<snapshot, awaited, objectVars, eventVars, mailboxVars>>
        /\ interrupted' \in SUBSET Connecters
    BY <1>2 DEF interruptForClose, interruptFails, beginCloseRefused, disconnect,
                interruptConnect, interrupt, IInv, Types, TypeOK
  <2>5. closer'[k] = "disconnected" => ~closed /\ children = {} /\ phase = "closing"
    BY <1>2 DEF interruptForClose, interruptFails, beginCloseRefused, disconnect,
                IInv, Types, CloseKnows
  <2>6. QED
    BY <2>2, <2>3, <2>4, <2>5, CloseQuietly DEF IInv, Types, TypeOK
<1>3. QED
  BY <1>1, <1>2

\* The mailbox begins to close: what it drops is lost, so that nothing is promised.
LEMMA BeginCloseStep ==
  ASSUME IInv, NEW k \in Closers, beginClose(k)
  PROVE  IInv'
<1> USE ConnectionAssumption DEF objectVars, childVars, connectVars
<1>1. /\ closer[k] = "locked" /\ closer'[k] = "begun"
      /\ closer' = [closer EXCEPT ![k] = "begun"]
      /\ phase' = "closing" /\ pending' = {} /\ UNCHANGED <<accepted, running>>
      /\ stateLost' = (stateLost \/ \E e \in pending : carries[e] \in States)
      /\ UNCHANGED <<opMu, interrupted, awaited, snapshot, objectVars, callback,
                     carries, reported>>
  BY DEF beginClose, At, Mailbox!BeginClose, IInv, Types
<1>2. opMu = k /\ ~closed /\ children = {} /\ News
  BY <1>1 DEF IInv, Types, TypeOK, CloseKnows, UnlockedSteps
<1>3. CloseMoves(k)
  BY <1>1, <1>2 DEF CloseMoves, UnlockedSteps, LockedSteps
<1>4. /\ closer' \in [Closers -> UnlockedSteps \cup LockedSteps]
      /\ \A j \in Closers : opMu' = j <=> closer'[j] \notin UnlockedSteps
      /\ \A j \in Closers \ {k} : closer'[j] = closer[j] /\ closer[j] \in UnlockedSteps
  BY <1>2, <1>3, CloserAlone
<1>5. stateLost' \in BOOLEAN
  BY <1>1
<1>6. Types'
  BY <1>1, <1>4, <1>5 DEF IInv, Types, TypeOK
<1>7. Holders'
  BY <1>1 DEF IInv, Holders
<1>8. CloseKnows'
  BY <1>1, <1>2, <1>4 DEF IInv, CloseKnows, UnlockedSteps
<1>9. News'
  BY <1>1, <1>2 DEF News
<1>10. QED
  BY <1>6, <1>7, <1>8, <1>9 DEF IInv

\* The close is over, and opMu free: given up, with the mailbox open again, or
\* done, with the mailbox closed like the connection.
LEMMA EndCloseStep ==
  ASSUME IInv, NEW k \in Closers, closeFails(k) \/ finishClose(k)
  PROVE  IInv'
<1> USE ConnectionAssumption
<1> USE DEF closeUnchanged, objectVars, childVars, connectVars, eventVars
<1>1. /\ closer[k] \in {"begun", "disconnected", "closed"} /\ closer'[k] = "idle"
      /\ closer' = [closer EXCEPT ![k] = "idle"] /\ opMu' = Free
      /\ phase' \in {"open", "closed"} /\ UNCHANGED <<accepted, pending, running>>
      /\ UNCHANGED <<interrupted, awaited, snapshot, objectVars, eventVars>>
  BY DEF closeFails, cancelClose, finishClose, At, Mailbox!EndClose, IInv, Types
<1>2. opMu = k
  BY <1>1 DEF IInv, Types, TypeOK, UnlockedSteps
<1>3. CloseMoves(k)
  BY <1>1 DEF CloseMoves, UnlockedSteps
<1>4. /\ closer' \in [Closers -> UnlockedSteps \cup LockedSteps]
      /\ \A j \in Closers : opMu' = j <=> closer'[j] \notin UnlockedSteps
      /\ \A j \in Closers \ {k} : closer'[j] = closer[j] /\ closer[j] \in UnlockedSteps
      /\ attaching = {} /\ \A u \in Callers : call[u] # "native"
  BY <1>2, <1>3, CloserAlone
<1>5. closed => phase' # "open"
  BY <1>1 DEF closeFails, cancelClose, finishClose, At, IInv, CloseKnows
<1>6. Types'
  BY <1>1, <1>4 DEF IInv, Types, TypeOK
<1>7. Holders'
  BY <1>1, <1>4 DEF IInv, Holders
<1>8. CloseKnows'
  BY <1>1, <1>4, <1>5 DEF IInv, CloseKnows, UnlockedSteps
<1>9. News'
  BY <1>1 DEF IInv, News
<1>10. QED
  BY <1>6, <1>7, <1>8, <1>9 DEF IInv

\* The native connection is closed: nobody else is under opMu, so that no child
\* is there and none is coming.
LEMMA CloseNativeStep ==
  ASSUME IInv, NEW k \in Closers, closeNative(k)
  PROVE  IInv'
<1> USE ConnectionAssumption
<1> USE DEF childVars, connectVars, eventVars, mailboxVars
<1>1. /\ closer[k] = "disconnected" /\ closer'[k] = "closed"
      /\ closer' = [closer EXCEPT ![k] = "closed"]
      /\ native' = "closed" /\ closed' = TRUE /\ state' = "Disconnected"
      /\ UNCHANGED <<opMu, childVars, connectVars, interrupted, awaited, snapshot,
                     call, eventVars, mailboxVars>>
  BY DEF closeNative, At, IInv, Types
<1>2. opMu = k /\ children = {} /\ phase = "closing"
  BY <1>1 DEF IInv, Types, TypeOK, CloseKnows, UnlockedSteps
<1>3. CloseMoves(k)
  BY <1>1, <1>2 DEF CloseMoves, UnlockedSteps, LockedSteps
<1>4. /\ closer' \in [Closers -> UnlockedSteps \cup LockedSteps]
      /\ \A j \in Closers : opMu' = j <=> closer'[j] \notin UnlockedSteps
      /\ \A j \in Closers \ {k} : closer'[j] = closer[j] /\ closer[j] \in UnlockedSteps
      /\ attaching = {}
  BY <1>2, <1>3, CloserAlone
<1>5. Types'
  BY <1>1, <1>4 DEF IInv, Types, TypeOK, States
<1>6. Holders' /\ News'
  BY <1>1 DEF IInv, Holders, News
<1>7. CloseKnows'
  BY <1>1, <1>2, <1>4 DEF CloseKnows, UnlockedSteps
<1>8. QED
  BY <1>5, <1>6, <1>7 DEF IInv

LEMMA CloseStep ==
  ASSUME IInv, NEW k \in Closers, preflightClose(k) \/ Close(k)
  PROVE  IInv'
BY CloseWithoutMutex, CloseUnderMutex, BeginCloseStep, EndCloseStep, CloseNativeStep
   DEF Close

-----------------------------------------------------------------------------
LEMMA InvariantStep == IInv /\ [Next]_vars => IInv'
<1> SUFFICES ASSUME IInv, [Next]_vars PROVE IInv'
  OBVIOUS
<1>1. ASSUME NEW c \in Connecters, Connects(c) PROVE IInv'
  BY <1>1, ConnectStep
<1>2. ASSUME NEW u \in Callers, withNative(u) \/ callReturns(u) PROVE IInv'
  BY <1>2, CallStep
<1>3. ASSUME NEW d \in Children, beginAttach(d) \/ ReturnChild(d) \/ recordingStops(d)
      PROVE  IInv'
  BY <1>3, ChildStep, RecordingStep DEF ReturnChild
<1>4. ASSUME NEW k \in Closers, preflightClose(k) \/ Close(k) PROVE IInv'
  BY <1>4, CloseStep
<1>5. CASE Event
  BY <1>5, EventStep
<1>6. CASE UNCHANGED vars
  <2>1. Types'
    BY <1>6 DEF IInv, Types, TypeOK, vars, childVars, connectVars, closeVars,
                eventVars, mailboxVars
  <2>2. Holders' /\ CloseKnows' /\ News'
    BY <1>6 DEF IInv, Holders, CloseKnows, News, vars, childVars, connectVars,
                closeVars, eventVars, mailboxVars
  <2>3. QED
    BY <2>1, <2>2 DEF IInv
<1>7. QED
  BY <1>1, <1>2, <1>3, <1>4, <1>5, <1>6 DEF Next, Connects

LEMMA InvariantHolds == Spec => []IInv
BY InitHolds, InvariantStep, PTL DEF Spec

\* opMu has one holder at a time: the close, call or child that is between two
\* steps under it (conn.go: withNative, Close, attachDependency).
THEOREM ConnectionTypes == Spec => []TypeOK
<1>1. IInv => TypeOK
  BY DEF IInv, Types
<1>2. QED
  BY <1>1, InvariantHolds, PTL

\* A connection whose native object is closed has no output and no recording, and
\* none on its way, whoever attached while Close had left opMu (conn.go:295, 331).
THEOREM ClosedHasNoChildren == Spec => []ClosedIsEmpty
<1>1. IInv => ClosedIsEmpty
  BY DEF IInv, CloseKnows, ClosedIsEmpty
<1>2. QED
  BY <1>1, InvariantHolds, PTL

\* When all callbacks have run, the application was last told the state that
\* State() returns, unless a close that failed dropped it (conn.go:69-87, 354).
THEOREM StateIsReported == Spec => []StateReported
<1>1. IInv => StateReported
  BY DEF IInv, CloseKnows, News, Quiet, StateReported, States
<1>2. QED
  BY <1>1, InvariantHolds, PTL
=============================================================================
