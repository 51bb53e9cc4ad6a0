------------------------------- MODULE TxRpc -------------------------------
(***************************************************************************)
(* What the shim promises to chaincode: every transaction has a line of    *)
(* its own, the peer sees the requests of a line one at a time and in the  *)
(* order they were asked, and the answer to a request is the one the peer  *)
(* gave to that very request.  A request can be abandoned (its caller was  *)
(* cancelled, or its write failed); it is then never answered.             *)
(***************************************************************************)
EXTENDS Sequences

CONSTANTS Tx,     \* transaction contexts: channel_id + txid
          Req,    \* calls of a shim API that asks the peer
          TxOf,   \* the transaction context a request belongs to
          Kinds   \* kinds of answer of the peer: RESPONSE, ERROR

VARIABLES line,     \* requests of a transaction that have no answer, in order
          served,   \* requests the peer has seen
          outcome   \* what became of a request
vars == <<line, served, outcome>>

Unasked   == [status |-> "unasked"]
Waiting   == [status |-> "waiting"]
Abandoned == [status |-> "abandoned"]
Answered(r, k) == [status |-> "answered", to |-> r, kind |-> k]

Init == /\ line = [t \in Tx |-> <<>>]
        /\ served = {}
        /\ outcome = [r \in Req |-> Unasked]

Ask(r) == /\ outcome[r] = Unasked
          /\ outcome' = [outcome EXCEPT ![r] = Waiting]
          /\ line' = [line EXCEPT ![TxOf[r]] = Append(@, r)]
          /\ UNCHANGED served

Serve(t) == /\ line[t] # <<>>
            /\ Head(line[t]) \notin served
            /\ served' = served \cup {Head(line[t])}
            /\ UNCHANGED <<line, outcome>>

Answer(t, k) == LET r == Head(line[t]) IN
                /\ line[t] # <<>>
                /\ r \in served
                /\ outcome[r] = Waiting
                /\ outcome' = [outcome EXCEPT ![r] = Answered(r, k)]
                /\ line' = [line EXCEPT ![t] = Tail(@)]
                /\ UNCHANGED served

Abandon(r) == /\ outcome[r] = Waiting
              /\ outcome' = [outcome EXCEPT ![r] = Abandoned]
              /\ UNCHANGED <<line, served>>

Next == \/ \E r \in Req : Ask(r) \/ Abandon(r)
        \/ \E t \in Tx : Serve(t) \/ \E k \in Kinds : Answer(t, k)

Spec == Init /\ [][Next]_vars
=============================================================================
