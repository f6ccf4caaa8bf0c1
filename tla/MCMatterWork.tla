---------------------------- MODULE MCMatterWork ----------------------------
(* Instances of MatterWork for TLC. *)
EXTENDS MatterWork

CONSTANTS o, m          \* the owner and a member
CONSTANTS q1, q2, q3    \* requests

Team == {o, m}

\* An answer, an investigation and one more investigation: a second request or
\* the continuation of the first.
MixedKinds  == [j \in Jobs |-> IF j = q1 THEN "answer" ELSE "research"]
MixedActors == [j \in Jobs |-> IF j = q1 THEN m ELSE o]

\* The kinds that are fenced by their attempt.
FencedKinds  == [j \in Jobs |-> IF j = q1 THEN "context" ELSE "synthesis"]
FencedActors == [j \in Jobs |-> m]
=============================================================================
