--------------------------- MODULE StorageOutputMC ---------------------------
(* An output that is new, or that one Attach has attached to a replay. *)
EXTENDS StorageOutput, TLC

CONSTANTS u1, u2, r1, r2

MCSymmetry == Permutations({u1, u2}) \cup Permutations({r1, r2})

MCInit == /\ bound \in Replays \cup {Unbound}
          /\ attached = bound
          /\ deps = {bound} \ {Unbound} /\ released = {}
          /\ gate = [r \in Replays |-> Free] /\ op = Free
          /\ closed = FALSE /\ native = "open"
          /\ state = "Idle" /\ dropped = FALSE
          /\ terminalSlot = "none" /\ errorSlot = FALSE /\ latestSlot = "none"
          /\ frames = <<>> /\ shut = FALSE /\ handling = FALSE
          /\ callback = "none" /\ frame = "none"
          /\ frameNumber = 0
          /\ told = "Idle" /\ overtaken = FALSE /\ shown = 0
          /\ job = [a \in Actors |-> "none"] /\ at = [a \in Actors |-> "out"]
          /\ target = [a \in Actors |-> Unbound]
          /\ happened = 0

MCSpec == MCInit /\ [][Next]_vars
=============================================================================
