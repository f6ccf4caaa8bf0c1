------------------------ MODULE MCTranscriptDelivery ------------------------
(* Instances of TranscriptDelivery for TLC. *)
EXTENDS TranscriptDelivery, TLC

AllEvents == {"links", "edits", "retries", "failures", "restarts"}

\* The allotment that has so much of the named events and nothing of the rest.
Of(some) == [e \in AllEvents |-> IF e \in DOMAIN some THEN some[e] ELSE 0]

Some == {Of([links |-> 2, edits |-> 2]),
         Of([links |-> 2, retries |-> 1]),
         Of([links |-> 2, restarts |-> 1]),
         Of([links |-> 1, edits |-> 2, retries |-> 1]),
         Of([links |-> 1, edits |-> 2, failures |-> 1, restarts |-> 1]),
         Of([links |-> 1, edits |-> 1, retries |-> 1, failures |-> 1])}

Alike == Permutations(Servers) \cup Permutations(Links)
=============================================================================
