------------------------ MODULE MCReportCompilation -------------------------
(* Instances of ReportCompilation for TLC. *)
EXTENDS ReportCompilation

CONSTANTS a1, j1, j2    \* a reviewer and two requests

SameActor == [j \in Jobs |-> a1]
=============================================================================
