----------------------------- MODULE Connection -----------------------------
(***************************************************************************)
(* What one connection of a peer promises to the server that accepted it:  *)
(* tasks are made only while its stream is read, a connection that ends by *)
(* itself leaves no task behind, and one that is dropped makes no more of  *)
(* them.  Handler implements it; Server has several of them.               *)
(***************************************************************************)
EXTENDS Naturals

VARIABLES life,  \* of the connection: see Lives
          busy   \* its tasks that have not ended
vars == <<life, busy>>

\* "draining": the stream has ended and the tasks are awaited; "dropped": the
\* coroutine of the RPC was cancelled, or it returned without awaiting them.
Lives == {"none", "open", "draining", "closed", "dropped"}

Init == life \in {"none", "open"} /\ busy = 0

Accept == life = "none" /\ life' = "open" /\ UNCHANGED busy

Begin == life = "open" /\ busy' = busy + 1 /\ UNCHANGED life

End == busy > 0 /\ busy' = busy - 1 /\ UNCHANGED life

Drain == life = "open" /\ life' = (IF busy > 0 THEN "draining" ELSE "closed") /\ UNCHANGED busy

Close == life = "draining" /\ busy = 0 /\ life' = "closed" /\ UNCHANGED busy

\* A drop cancels the tasks only if they are being awaited.
Drop == /\ life \in {"open", "draining"}
        /\ life' = "dropped"
        /\ busy' = IF life = "draining" THEN 0 ELSE busy

Next == Accept \/ Begin \/ End \/ Drain \/ Close \/ Drop

Spec == Init /\ [][Next]_vars
=============================================================================
