---------------------------- MODULE MCWorkbench -----------------------------
(* Instances of Workbench for TLC. *)
EXTENDS Workbench, TLC

CONSTANTS p, q,       \* a recording and a document that are searchable
          n, m, k     \* a source that is registered, sources that are uploaded

ASSUME Docs = {p, q, n, m, k}

AllEvents == {"uploads", "removals", "corrections", "errors", "downs",
              "selected_passages", "full_text", "cancels", "retries", "deletions",
              "saves", "access", "sessions"}

RangesOf == p :> 2 @@ q :> 1 @@ n :> 1 @@ m :> 1 @@ k :> 1

\* The allotment that has so much of the named events and nothing of the rest.
Of(some) == [e \in AllEvents |-> IF e \in DOMAIN some THEN some[e] ELSE 0]

Some ==
    {Of([sessions |-> 1, downs |-> 1]),
     Of([sessions |-> 1, errors |-> 1]),
     Of([sessions |-> 1, removals |-> 1]),
     Of([uploads |-> 1, errors |-> 1, removals |-> 1, downs |-> 2]),
     Of([uploads |-> 1, selected_passages |-> 1]),
     Of([selected_passages |-> 1, cancels |-> 1, downs |-> 1]),
     Of([selected_passages |-> 1, corrections |-> 1, downs |-> 1]),
     Of([selected_passages |-> 1, corrections |-> 1, saves |-> 1]),
     Of([selected_passages |-> 1, saves |-> 2]),
     Of([full_text |-> 1, downs |-> 1]),
     Of([full_text |-> 1, corrections |-> 1, access |-> 1]),
     Of([full_text |-> 1, retries |-> 1, access |-> 2]),
     Of([full_text |-> 1, retries |-> 2, cancels |-> 2]),
     Of([full_text |-> 1, removals |-> 1, deletions |-> 1])}

Alike == Permutations(Bases) \cup Permutations(ReviewWorkers)
=============================================================================
