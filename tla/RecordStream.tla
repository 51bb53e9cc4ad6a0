---------------------------- MODULE RecordStream ----------------------------
(***************************************************************************)
(* What fabric_shim/iterators.py promises to chaincode: the records of a   *)
(* query in order, without a trace of pages, requests or closes.           *)
(***************************************************************************)
EXTENDS Naturals, Sequences

CONSTANT Size     \* how many records the query has

VARIABLES taken,  \* the records returned so far
          closed, \* someone has closed the stream
          over    \* it has said that it is at its end
vars == <<taken, closed, over>>

Init == taken = <<>> /\ closed = FALSE /\ over = FALSE

\* The next record is returned, also after a close: pages are fetched ahead.
Take == /\ ~over /\ Len(taken) < Size
        /\ taken' = Append(taken, Len(taken) + 1)
        /\ UNCHANGED <<closed, over>>

\* The stream is at its end once all records have been returned.  It may break off
\* before if someone has closed it.
Finish == /\ ~over /\ over' = TRUE
          /\ closed \/ Len(taken) = Size
          /\ UNCHANGED <<taken, closed>>

Close == /\ ~closed /\ closed' = TRUE
         /\ UNCHANGED <<taken, over>>

Next == Take \/ Finish \/ Close

Spec == Init /\ [][Next]_vars
=============================================================================
