--------------------------- MODULE SerialExecutor ---------------------------
(***************************************************************************)
(* What an SDK object promises about its callbacks, with no queue, lock or *)
(* goroutine in sight: accepted callbacks run one at a time, each at most  *)
(* once; none starts while the object is closing or closed; a close starts *)
(* only between callbacks and drops whatever has not run.  Callbacks are   *)
(* named by the order in which they were accepted.                         *)
(***************************************************************************)
EXTENDS Naturals

VARIABLES accepted,   \* number of callbacks accepted so far
          pending,    \* accepted, neither started nor dropped
          running,    \* callbacks being executed
          phase       \* "open", "closing" or "closed"

vars == <<accepted, pending, running, phase>>

Init == /\ accepted = 0
        /\ pending = {}
        /\ running = {}
        /\ phase = "open"

\* A new callback may supersede one that is still pending (latest wins).
Accept == \E old \in {{}} \cup {{e} : e \in pending} :
            /\ phase = "open"
            /\ accepted' = accepted + 1
            /\ pending' = (pending \ old) \cup {accepted + 1}
            /\ UNCHANGED <<running, phase>>

Start(e) == /\ phase = "open"
            /\ running = {}
            /\ running' = {e}
            /\ pending' = pending \ {e}
            /\ UNCHANGED <<accepted, phase>>

Return == /\ running # {}
          /\ running' = {}
          /\ UNCHANGED <<accepted, pending, phase>>

BeginClose == /\ phase = "open"
              /\ running = {}
              /\ phase' = "closing"
              /\ pending' = {}
              /\ UNCHANGED <<accepted, running>>

EndClose == /\ phase = "closing"
            /\ phase' \in {"open", "closed"}
            /\ UNCHANGED <<accepted, pending, running>>

Next == \/ Accept
        \/ \E e \in pending : Start(e)
        \/ Return
        \/ BeginClose
        \/ EndClose

Spec == Init /\ [][Next]_vars
=============================================================================
