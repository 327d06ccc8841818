--------------------------- MODULE ManagedCloseMC ---------------------------
(* A client with one connection that has an output, a recording and a raw    *)
(* dump, attached and started by earlier calls, and a name for a second one. *)
EXTENDS ManagedClose

CONSTANTS u1, u2, n1, n2, o1, r1, d1

MCInit ==
  /\ closing = FALSE /\ clientClosed = FALSE /\ client = "open"
  /\ conn = [c \in Connections |-> IF c = n1 THEN "open" ELSE "none"]
  /\ registry = {n1}
  /\ connClosed = {} /\ shut = {}
  /\ opMu = [c \in Connections |-> Free]
  /\ bound = [o \in Outputs |-> n1]
  /\ parent = [x \in Recordings \cup Dumps |-> n1]
  /\ recording = [r \in Recordings |-> "live"] /\ tasks = Recordings
  /\ dump = [d \in Dumps |-> "live"] /\ dumps = Dumps /\ archived = {}
  /\ dumpMu = [d \in Dumps |-> Free]
  /\ waiting = {} /\ handling = {}
  /\ todo = [a \in Actors |-> <<>>]
  /\ at = [a \in Actors |-> "start"]
  /\ calls = 0

MCSpec == MCInit /\ [][Next]_vars /\ Fairness
=============================================================================
