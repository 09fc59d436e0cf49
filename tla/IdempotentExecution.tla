------------------------ MODULE IdempotentExecution ------------------------
(***************************************************************************)
(* What an idempotency key promises on an account: it stands for one       *)
(* attempt to place one order, however often it is used.  The attempt is   *)
(* recorded before it is made, it is made at most once, and the answer of  *)
(* the database becomes final only when the attempt has ended, and then    *)
(* says how.                                                               *)
(***************************************************************************)
VARIABLES
    attempt,    \* what has become of the order, in the world
    answer      \* what the database says of it

vars == <<attempt, answer>>

\* How an order on the exchange ends, as a query reports it; UNKNOWN is an end the
\* service has no word for.
Finals == {"FILLED", "CANCELED", "EXPIRED", "REJECTED"}
Ends == Finals \cup {"UNKNOWN"}

Init == attempt = "unused" /\ answer = "none"

\* A paper order is an answer without an attempt.
Paper == /\ attempt = "unused" /\ attempt' = "paper"
         /\ answer' = "paper"

\* The attempt is on record, with an open answer, before anything leaves the daemon.
Record == /\ attempt = "unused" /\ attempt' = "recorded"
          /\ answer' = "open"

\* The one request for the order is under way ...
Send == /\ attempt = "recorded" /\ attempt' = "underway"
        /\ UNCHANGED answer

\* ... and creates the order, which may end at once, or never will.
Arrive == /\ attempt = "underway" /\ attempt' \in {"live", "gone"} \cup Ends
          /\ UNCHANGED answer

End == /\ attempt = "live" /\ attempt' \in Ends
       /\ UNCHANGED answer

\* The answer becomes final: the end of the order, or REJECTED when there is none and
\* never will be.
Publish == /\ answer = "open"
           /\ answer' \in Finals
           /\ answer' = attempt \/ (answer' = "REJECTED" /\ attempt = "gone")
           /\ UNCHANGED attempt

Next == Paper \/ Record \/ Send \/ Arrive \/ End \/ Publish

Spec == Init /\ [][Next]_vars
=============================================================================
