-------------------------- MODULE DrainingExecutor --------------------------
(***************************************************************************)
(* What the storage package promises about the callbacks it is given, with *)
(* no lane, lock or worker in sight: accepted callbacks run one at a time, *)
(* each once, the most urgent first and among equally urgent ones the      *)
(* oldest; a close accepts no more, but stops only when all that were      *)
(* accepted have run.  Of some urgencies one callback at most waits: a     *)
(* further one is not accepted, or replaces the one that waits.            *)
(***************************************************************************)
EXTENDS Naturals

CONSTANTS Urgencies,    \* numbers; 0 is the most urgent
          Single,       \* urgencies of which one callback at most waits
          Replaceable   \* those of Single whose waiting callback is replaced

VARIABLES accepted,   \* number of callbacks accepted so far
          pending,    \* pairs <<urgency, number>> of those that wait
          running,    \* numbers of those being executed
          phase       \* "open", "closing" or "stopped"

vars == <<accepted, pending, running, phase>>

Of(u) == {e \in pending : e[1] = u}

Before(e, f) == e[1] < f[1] \/ (e[1] = f[1] /\ e[2] <= f[2])

Init == /\ accepted = 0
        /\ pending = {}
        /\ running = {}
        /\ phase = "open"

Accept(u) ==
  /\ phase = "open"
  /\ u \in Single \ Replaceable => Of(u) = {}
  /\ accepted' = accepted + 1
  /\ pending' = (IF u \in Replaceable THEN pending \ Of(u) ELSE pending)
                  \cup {<<u, accepted + 1>>}
  /\ UNCHANGED <<running, phase>>

\* The callback before, if one is running, ends here.
Start(e) == /\ phase # "stopped"
            /\ \A f \in pending : Before(e, f)
            /\ pending' = pending \ {e}
            /\ running' = {e[2]}
            /\ UNCHANGED <<accepted, phase>>

Return == /\ running' = {}
          /\ UNCHANGED <<accepted, pending, phase>>

Close == /\ phase = "open"
         /\ phase' = "closing"
         /\ UNCHANGED <<accepted, pending, running>>

Stop == /\ phase = "closing"
        /\ pending = {}
        /\ phase' = "stopped"
        /\ running' = {}
        /\ UNCHANGED <<accepted, pending>>

Next == \/ \E u \in Urgencies : Accept(u)
        \/ \E e \in pending : Start(e)
        \/ Return
        \/ Close
        \/ Stop

Spec == Init /\ [][Next]_vars
=============================================================================
