------------------------------ MODULE ReplayMC ------------------------------
(* A replay with one output, one recording and one raw dump, either new or  *)
(* after three calls that have attached and started them one by one.        *)
EXTENDS Replay

CONSTANTS u1, u2, o1, r1, d1

Populated == /\ bound = Outputs /\ deps = Outputs
             /\ recording = [r \in Recordings |-> "live"] /\ tasks = Recordings
             /\ dump = [d \in Dumps |-> "live"] /\ dumps = Dumps

MCInit ==
  /\ \/ Populated
     \/ /\ bound = {} /\ deps = {} /\ tasks = {} /\ dumps = {}
        /\ recording = [r \in Recordings |-> "none"]
        /\ dump = [d \in Dumps |-> "none"]
  /\ gate = Free
  /\ outputGate = [o \in Outputs |-> Free]
  /\ closed = FALSE /\ shut = FALSE /\ finished = FALSE
  /\ outputClosed = {} /\ outputShut = {} /\ waiting = {}
  /\ sent = 0 /\ queued = 0 /\ executed = 0
  /\ handling = {}
  /\ todo = [a \in Actors |-> <<>>]
  /\ at = [a \in Actors |-> "start"]
  /\ calls = 0

MCSpec == MCInit /\ [][Next]_vars /\ Fairness
=============================================================================
