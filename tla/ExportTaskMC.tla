---------------------------- MODULE ExportTaskMC ----------------------------
(* An export with two Waits; its handlers call Cancel, Progress and Wait.   *)
EXTENDS ExportTask

CONSTANTS w1, w2
=============================================================================
