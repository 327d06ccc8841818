----------------------------- MODULE Ownership -----------------------------
(***************************************************************************)
(* What the SDK promises about its native objects, with no lock, handle    *)
(* set or close in sight.  An object is made under owners that are alive   *)
(* and never comes back; it may be attached to another one and detached    *)
(* again; it is destroyed when nothing that is alive was made under it or  *)
(* is attached to it, and is itself attached to nothing.  If an attempt to *)
(* destroy it is made then, fails and is the last one, it has leaked: it   *)
(* lives on, and what it was made under need not wait for it.              *)
(***************************************************************************)

CONSTANTS Objects,
          Attachable,  \* objects that may be attached to others
          Leakable     \* objects that somebody destroys with a single attempt

VARIABLES live,      \* objects that exist
          gone,      \* objects that have existed
          owned,     \* pairs <<object, owner>>, both alive
          attached   \* pairs <<object, what it is attached to>>, both alive

vars == <<live, gone, owned, attached>>

\* Some objects may exist already.
Init == /\ live \cap gone = {}
        /\ owned \cup attached \subseteq live \X live

Create(x) == /\ x \notin live \cup gone
             /\ live' = live \cup {x}
             /\ \E owners \in SUBSET live : owned' = owned \cup ({x} \X owners)
             /\ UNCHANGED <<gone, attached>>

Attach(x, y) == /\ {x, y} \subseteq live
                /\ \A use \in attached : use[1] # x
                /\ attached' = attached \cup {<<x, y>>}
                /\ UNCHANGED <<live, gone, owned>>

Detach(use) == /\ attached' = attached \ {use}
               /\ UNCHANGED <<live, gone, owned>>

Destroy(x) == /\ x \in live
              /\ \A use \in owned \cup attached : use[2] # x
              /\ \A use \in attached : use[1] # x
              /\ live' = live \ {x}
              /\ gone' = gone \cup {x}
              /\ owned' = {use \in owned : use[1] # x}
              /\ UNCHANGED attached

Leak(x) == /\ x \in live
           /\ \A use \in owned \cup attached : use[2] # x
           /\ \A use \in attached : use[1] # x
           /\ owned' = {use \in owned : use[1] # x}
           /\ UNCHANGED <<live, gone, attached>>

Next == \/ \E x \in Objects : Create(x) \/ Destroy(x)
        \/ \E x \in Attachable, y \in live : Attach(x, y)
        \/ \E use \in attached : Detach(use)
        \/ \E x \in Leakable : Leak(x)

Spec == Init /\ [][Next]_vars
=============================================================================
