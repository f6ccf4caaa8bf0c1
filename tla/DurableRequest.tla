--------------------------- MODULE DurableRequest ---------------------------
(***************************************************************************)
(* What a durable job table of the workbench promises the reviewer who     *)
(* asked: a request that was admitted stays open until it is answered or   *)
(* ends without an answer, it is answered once, never after it was asked   *)
(* to stop, it can be opened again only when there is no answer, and only  *)
(* one that is over can be erased, which is for good.  How often it is     *)
(* claimed, lost and taken up again is not visible here.                   *)
(***************************************************************************)

CONSTANT Requests

VARIABLE request

Request == [state  : {"none", "open", "answered", "ended", "erased"},
            stop   : BOOLEAN,      \* the reviewer wants an open request to end
            answer : BOOLEAN]      \* its answer is there

Fresh == [state |-> "open", stop |-> FALSE, answer |-> FALSE]

Init == request = [r \in Requests |-> [Fresh EXCEPT !.state = "none"]]

Admit(a, b)    == a.state = "none" /\ b = Fresh
AskToStop(a, b) == a.state = "open" /\ b = [a EXCEPT !.stop = TRUE]
Answer(a, b)   == /\ a.state = "open" /\ ~a.stop
                  /\ b = [a EXCEPT !.state = "answered", !.answer = TRUE]
End(a, b)      == a.state = "open" /\ b = [Fresh EXCEPT !.state = "ended"]
Discard(a, b)  == a.state = "answered" /\ b = [a EXCEPT !.answer = FALSE]
Reopen(a, b)   == a.state \in {"ended", "answered"} /\ ~a.answer /\ b = Fresh
Erase(a, b)    == a.state \in {"answered", "ended"} /\ b = [Fresh EXCEPT !.state = "erased"]

\* One transaction may move several requests, each by one of these steps.
Next ==
    \A r \in Requests :
      LET a == request[r]
          b == request'[r]
      IN  \/ b = a
          \/ Admit(a, b) \/ AskToStop(a, b) \/ Answer(a, b) \/ End(a, b)
          \/ Discard(a, b) \/ Reopen(a, b) \/ Erase(a, b)

Spec == Init /\ [][Next]_request
=============================================================================
