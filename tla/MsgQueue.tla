------------------------------ MODULE MsgQueue ------------------------------
(***************************************************************************)
(* fabric_shim/msg_queue_handler.py, and the one function that uses it,    *)
(* Handler.__ask_peer_and_listen of fabric_shim/handler.py.                *)
(*                                                                         *)
(* Chaincode coroutines ask the peer (get_state, put_state, ...).  All of  *)
(* them share one gRPC stream; a response names only its transaction, so   *)
(* the handler keeps a queue of requests per transaction, puts the head on *)
(* the wire and gives the next response of that transaction to the head.   *)
(*                                                                         *)
(* Coroutines of one event loop run atomically between suspension points;  *)
(* here these are `await self.context.write(...)` and `await fut`.  So an  *)
(* action is a coroutine's run from one suspension to the next one.        *)
(***************************************************************************)
EXTENDS Sequences, FiniteSets, Naturals

CONSTANTS Tx,          \* transaction contexts: channel_id + txid
          Req,         \* calls of __ask_peer_and_listen
          TxOf,        \* the transaction context of a call
          Kinds,       \* types of a peer's answer: "RESPONSE", "ERROR"
          NoReq,       \* what an unsolicited frame answers
          FaultKinds,  \* the faults allowed: "write", "cancel", "stray"
          MaxFaults    \* bound on the faults of a behaviour

ASSUME TxOfAssumption == TxOf \in [Req -> Tx]
ASSUME NoReqAssumption == NoReq \notin Req

VARIABLES
  keys,        \* the keys of self.tx_queues
  txQueues,    \* the list under a key of self.tx_queues; <<>> without a key
  future,      \* state of the asyncio.Future of a request
  value,       \* the response a future was resolved with
  pc,          \* where the coroutine that asked is
  taskWrites,  \* requests whose write a response task is suspended in
  wire,        \* how far a request is on its way to the peer and back
  inbox,       \* answers of the peer that no task has handled yet
  hurt         \* history: the faults so far, <<kind, transaction>>

vars == <<keys, txQueues, future, value, pc, taskWrites, wire, inbox, hurt>>

Frames == [tx : Tx, req : Req \cup {NoReq}, kind : Kinds]
NoFrame == [tx |-> "none", req |-> NoReq, kind |-> "none"]

TypeOK ==
  /\ keys \in SUBSET Tx
  /\ txQueues \in [Tx -> Seq(Req)]
  /\ future \in [Req -> {"none", "pending", "result", "exception", "cancelled"}]
  /\ value \in [Req -> Frames \cup {NoFrame}]
  /\ pc \in [Req -> {"idle", "writing", "awaiting", "returned", "raised", "cancelled"}]
  /\ taskWrites \in SUBSET Req
  /\ wire \in [Req -> {"none", "writing", "sent", "failed", "answered"}]
  /\ inbox \in SUBSET Frames
  /\ hurt \in SUBSET (FaultKinds \X Tx)

Init ==
  /\ keys = {}
  /\ txQueues = [t \in Tx |-> <<>>]
  /\ future = [r \in Req |-> "none"]
  /\ value = [r \in Req |-> NoFrame]
  /\ pc = [r \in Req |-> "idle"]
  /\ taskWrites = {}
  /\ wire = [r \in Req |-> "none"]
  /\ inbox = {}
  /\ hurt = {}

\* A fault of this kind may hit this transaction now (once per behaviour).
MayHurt(kind, t) ==
  /\ kind \in FaultKinds
  /\ <<kind, t>> \notin hurt
  /\ Cardinality(hurt) < MaxFaults
  /\ hurt' = hurt \cup {<<kind, t>>}

\* Mutant: takes the newest message.
Current_Newest(t) == txQueues[t][Len(txQueues[t])]
\* __get_current_msg: the request at the top of a transaction's queue.
Current(t) == Head(txQueues[t])

(***************************************************************************)
(* The coroutine that asks.                                                *)
(***************************************************************************)

\* Mutants: the test of len(msg_queue) is dropped; it is made before the append.
SendsAtOnce_Always(r) == TRUE
SendsAtOnce_LenIsOne(r) == Len(txQueues[TxOf[r]]) = 1
\* queue_msg sends a message itself only if the queue held nothing else.
SendsAtOnce(r) == Len(txQueues[TxOf[r]]) = 0

\* __ask_peer_and_listen: a new future, then queue_msg, up to the write of
\* an empty queue's only message or, behind others, up to `await fut`.
Ask(r) ==
  /\ pc[r] = "idle"
  /\ future' = [future EXCEPT ![r] = "pending"]
  /\ keys' = keys \cup {TxOf[r]}
  /\ txQueues' = [txQueues EXCEPT ![TxOf[r]] = Append(@, r)]
  /\ IF SendsAtOnce(r)
       THEN /\ pc' = [pc EXCEPT ![r] = "writing"]
            /\ wire' = [wire EXCEPT ![r] = "writing"]
       ELSE /\ pc' = [pc EXCEPT ![r] = "awaiting"]
            /\ UNCHANGED wire
  /\ UNCHANGED <<value, taskWrites, inbox, hurt>>

\* How `await fut` ends once the future is done.
Settled(r) == IF future[r] = "result" THEN "returned" ELSE "raised"

\* The caller's own write returns; `await fut` suspends only on a future that
\* is not done: the answer may have been handled before the write returned.
CallerWriteReturns(r) ==
  /\ pc[r] = "writing"
  /\ wire[r] # "writing"
  /\ pc' = [pc EXCEPT ![r] = IF future[r] = "pending" THEN "awaiting" ELSE Settled(r)]
  /\ UNCHANGED <<keys, txQueues, future, value, taskWrites, wire, inbox, hurt>>

\* Mutant: fail() marks the future in a way of its own.
Fail_Unknown(r) == future' = [future EXCEPT ![r] = "failed"]
\* msg.fail(e): set_exception; on a future that is done it raises
\* InvalidStateError and changes nothing.
Fail(r) == future' = IF future[r] = "pending" THEN [future EXCEPT ![r] = "exception"]
                                              ELSE future

\* The caller's own write raises: __send_msg fails the future and leaves the
\* message in the queue.  The caller ends with the future's exception, or
\* with the InvalidStateError of fail().
CallerWriteRaises(r) ==
  /\ pc[r] = "writing"
  /\ wire[r] = "writing"
  /\ MayHurt("write", TxOf[r])
  /\ wire' = [wire EXCEPT ![r] = "failed"]
  /\ Fail(r)
  /\ pc' = [pc EXCEPT ![r] = "raised"]
  /\ UNCHANGED <<keys, txQueues, value, taskWrites, inbox>>

\* `await fut` resumes.
CallerResumes(r) ==
  /\ pc[r] = "awaiting"
  /\ future[r] \in {"result", "exception"}
  /\ pc' = [pc EXCEPT ![r] = Settled(r)]
  /\ UNCHANGED <<keys, txQueues, future, value, taskWrites, wire, inbox, hurt>>

\* Chaincode cancels the call, say with asyncio.wait_for.  Suspended in
\* `await fut` this cancels the future; suspended in the write it does not
\* (`except Exception` does not catch CancelledError), and gRPC still sends.
Cancel(r) ==
  /\ pc[r] \in {"writing", "awaiting"}
  /\ MayHurt("cancel", TxOf[r])
  /\ pc' = [pc EXCEPT ![r] = "cancelled"]
  /\ future' = IF pc[r] = "awaiting" /\ future[r] = "pending"
                 THEN [future EXCEPT ![r] = "cancelled"] ELSE future
  /\ UNCHANGED <<keys, txQueues, value, taskWrites, wire, inbox>>

(***************************************************************************)
(* The task that handles a response: handle_msg_response.                  *)
(***************************************************************************)

\* The future takes the response.
Succeed(r, m) == /\ future' = [future EXCEPT ![r] = "result"]
                 /\ value' = [value EXCEPT ![r] = m]

\* Mutants: the next message is not sent; the key is deleted although messages
\* are left, or never; pop() for pop(0).
RemoveCurrentAndSendNext_NoSend(t) ==
  /\ txQueues' = [txQueues EXCEPT ![t] = Tail(@)]
  /\ keys' = IF Len(txQueues[t]) = 1 THEN keys \ {t} ELSE keys
  /\ UNCHANGED <<wire, taskWrites>>
RemoveCurrentAndSendNext_DeleteKey(t) ==
  /\ txQueues' = [txQueues EXCEPT ![t] = <<>>]
  /\ keys' = keys \ {t}
  /\ UNCHANGED <<wire, taskWrites>>
RemoveCurrentAndSendNext_NoDelete(t) ==
  LET rest == Tail(txQueues[t]) IN
  /\ txQueues' = [txQueues EXCEPT ![t] = rest]
  /\ IF rest = <<>>
       THEN UNCHANGED <<keys, wire, taskWrites>>
       ELSE /\ wire' = [wire EXCEPT ![Head(rest)] = "writing"]
            /\ taskWrites' = taskWrites \cup {Head(rest)}
            /\ UNCHANGED keys
RemoveCurrentAndSendNext_PopLast(t) ==
  /\ txQueues' = [txQueues EXCEPT ![t] = SubSeq(@, 1, Len(@) - 1)]
  /\ UNCHANGED <<keys, wire, taskWrites>>
\* __remove_current_and_send_next: an emptied list loses its key; otherwise up
\* to the write of the next message.
RemoveCurrentAndSendNext(t) ==
  LET rest == Tail(txQueues[t]) IN
  /\ txQueues' = [txQueues EXCEPT ![t] = rest]
  /\ IF rest = <<>>
       THEN /\ keys' = keys \ {t}
            /\ UNCHANGED <<wire, taskWrites>>
       ELSE /\ wire' = [wire EXCEPT ![Head(rest)] = "writing"]
            /\ taskWrites' = taskWrites \cup {Head(rest)}
            /\ UNCHANGED keys

\* The current message of the frame's transaction gets the response.
HandleResponse(m) ==
  /\ m \in inbox
  /\ txQueues[m.tx] # <<>>
  /\ future[Current(m.tx)] = "pending"
  /\ Succeed(Current(m.tx), m)
  /\ RemoveCurrentAndSendNext(m.tx)
  /\ inbox' = inbox \ {m}
  /\ UNCHANGED <<pc, hurt>>

\* Its future is done (its caller was cancelled or its write failed): success
\* and then fail raise InvalidStateError, which ends the task before the
\* message is removed.
HandleResponseOfDoneFuture(m) ==
  /\ m \in inbox
  /\ txQueues[m.tx] # <<>>
  /\ future[Current(m.tx)] # "pending"
  /\ inbox' = inbox \ {m}
  /\ UNCHANGED <<keys, txQueues, future, value, pc, taskWrites, wire, hurt>>

\* 'No queued message found for tx_context_id'
HandleUnknownResponse(m) ==
  /\ m \in inbox
  /\ txQueues[m.tx] = <<>>
  /\ inbox' = inbox \ {m}
  /\ UNCHANGED <<keys, txQueues, future, value, pc, taskWrites, wire, hurt>>

\* The write of the next message returns, and the task ends.
TaskWriteReturns(r) ==
  /\ r \in taskWrites
  /\ wire[r] # "writing"
  /\ taskWrites' = taskWrites \ {r}
  /\ UNCHANGED <<keys, txQueues, future, value, pc, wire, inbox, hurt>>

\* The write of the next message raises: its future fails, it stays queued.
TaskWriteRaises(r) ==
  /\ r \in taskWrites
  /\ wire[r] = "writing"
  /\ MayHurt("write", TxOf[r])
  /\ wire' = [wire EXCEPT ![r] = "failed"]
  /\ Fail(r)
  /\ taskWrites' = taskWrites \ {r}
  /\ UNCHANGED <<keys, txQueues, value, pc, inbox>>

(***************************************************************************)
(* External: the gRPC stream and the peer.                                 *)
(***************************************************************************)

\* gRPC delivers a message that is being written.
WireSend(r) ==
  /\ wire[r] = "writing"
  /\ wire' = [wire EXCEPT ![r] = "sent"]
  /\ UNCHANGED <<keys, txQueues, future, value, pc, taskWrites, inbox, hurt>>

\* The peer answers a request it has seen, in any order, once.
PeerAnswers(r, k) ==
  /\ wire[r] = "sent"
  /\ wire' = [wire EXCEPT ![r] = "answered"]
  /\ inbox' = inbox \cup {[tx |-> TxOf[r], req |-> r, kind |-> k]}
  /\ UNCHANGED <<keys, txQueues, future, value, pc, taskWrites, hurt>>

\* A frame that answers nothing (duplicated, or of an unknown request).
StrayFrame(t, k) ==
  /\ MayHurt("stray", t)
  /\ inbox' = inbox \cup {[tx |-> t, req |-> NoReq, kind |-> k]}
  /\ UNCHANGED <<keys, txQueues, future, value, pc, taskWrites, wire>>

(***************************************************************************)
(* The specification.                                                      *)
(***************************************************************************)
Handle(m) == \/ HandleResponse(m)
             \/ HandleResponseOfDoneFuture(m)
             \/ HandleUnknownResponse(m)

Next ==
  \/ \E r \in Req : \/ Ask(r)
                    \/ CallerWriteReturns(r)
                    \/ CallerWriteRaises(r)
                    \/ CallerResumes(r)
                    \/ Cancel(r)
                    \/ TaskWriteReturns(r)
                    \/ TaskWriteRaises(r)
                    \/ WireSend(r)
                    \/ \E k \in Kinds : PeerAnswers(r, k)
  \/ \E m \in inbox : Handle(m)
  \/ \E t \in Tx, k \in Kinds : StrayFrame(t, k)

Spec == Init /\ [][Next]_vars

\* The event loop runs every ready coroutine, gRPC delivers, the peer answers.
\* Chaincode need not ask, and no fault need happen.
Fairness ==
  /\ \A r \in Req : /\ WF_vars(CallerWriteReturns(r))
                    /\ WF_vars(CallerResumes(r))
                    /\ WF_vars(TaskWriteReturns(r))
                    /\ WF_vars(WireSend(r))
                    /\ WF_vars(\E k \in Kinds : PeerAnswers(r, k))
  /\ WF_vars(\E m \in inbox : Handle(m))

FairSpec == Spec /\ Fairness

(***************************************************************************)
(* Properties.                                                             *)
(***************************************************************************)

\* No unsolicited frame came for the transaction; no fault at all hit it.
Solicited(t) == <<"stray", t>> \notin hurt
Healthy(t) == \A kind \in FaultKinds : <<kind, t>> \notin hurt

\* The peer is owed or owes something for this request.
Outstanding(r) == \/ wire[r] \in {"writing", "sent"}
                  \/ \E m \in inbox : m.req = r

Queued(t) == {txQueues[t][i] : i \in DOMAIN txQueues[t]}

\* The peer refuses a second request of a transaction it is still serving, and
\* a response names only its transaction: whatever the interleaving of asking
\* coroutines, response tasks, failed writes and cancelled callers, at most one
\* request of a transaction is between its write and its response's handling,
\* and it is the head of the queue (msg_queue_handler.py:41-42, 82-84).
OneOutstanding ==
  \A r \in Req : Outstanding(r) /\ Solicited(TxOf[r]) =>
    txQueues[TxOf[r]] # <<>> /\ r = Current(TxOf[r])

\* A caller gets the answer the peer gave to its own request, never that of an
\* earlier request that was cancelled or failed (msg_queue_handler.py:53-65).
AnswersMatch ==
  \A r \in Req : future[r] = "result" /\ Solicited(TxOf[r]) => value[r].req = r

\* No coroutine waits for a future that nobody can resolve any more: the
\* request of a pending future is in its transaction's queue, even after faults
\* and unsolicited frames (msg_queue_handler.py:36-42, 78-90).
NoLostWaiter ==
  \A r \in Req : future[r] = "pending" => r \in Queued(TxOf[r])

\* A queue that is not empty moves: its head is being sent, is with the peer,
\* or its response is about to be handled ("send the next message in the queue
\* if there is one", msg_queue_handler.py:79).
HeadInFlight(t) == txQueues[t] = <<>> \/ Outstanding(Current(t))

\* ... in a transaction that no fault has hit, whatever hits the others.
HealthyHeadInFlight == \A t \in Tx : Healthy(t) => HeadInFlight(t)

\* ... and so it is after a caller was cancelled or a write failed: "Remove the
\* current message and send the next message in the queue if there is one"
\* (msg_queue_handler.py:79) knows no exception.
QueueMovesOn == \A t \in Tx : Solicited(t) => HeadInFlight(t)

\* A transaction that no fault has hit has a key in tx_queues exactly while it
\* has calls that wait, and its list holds exactly these: with the last answer
\* the key goes ("remove empty queue to free memory", msg_queue_handler.py:86-90),
\* and no answer takes the key from under a request that was just appended.
QueueFreed ==
  \A t \in Tx : Healthy(t) =>
    LET waiting == {r \in Req : TxOf[r] = t /\ future[r] = "pending"} IN
    /\ Queued(t) = waiting
    /\ t \in keys <=> waiting # {}

\* Does not hold, no run checks it.  "GetState returns the value of the specified
\* `key` from the ledger" (interfaces.py:32): a call returns a value only if the peer
\* answered RESPONSE.  The frame's type is not looked at (msg_queue_handler.py:57-62).
ReturnsOnlyResponses ==
  \A r \in Req : pc[r] = "returned" => value[r].kind = "RESPONSE"

\* Every call of a transaction that stays healthy ends, although calls of other
\* transactions on the same stream fail, hang or are cancelled.
Ended(r) == pc[r] \in {"returned", "raised", "cancelled"}
HealthyCallsEnd ==
  \A r \in Req : pc[r] # "idle" ~> Ended(r) \/ ~Healthy(TxOf[r])

(***************************************************************************)
(* Refinement: the queue implements the promise of TxRpc.                  *)
(***************************************************************************)
Served == {r \in Req : wire[r] \in {"sent", "answered"}}

\* What became of a request whose future is in state f, with value v.
Outcome(f, v) ==
  CASE f = "none" -> [status |-> "unasked"]
    [] f = "pending" -> [status |-> "waiting"]
    [] f = "result" -> [status |-> "answered", to |-> v.req, kind |-> v.kind]
    [] OTHER -> [status |-> "abandoned"]

Rpc == INSTANCE TxRpc WITH
         line <- txQueues,
         served <- Served,
         outcome <- [r \in Req |-> Outcome(future[r], value[r])]

\* Until an unsolicited frame comes, every step is a step of the per-transaction
\* channel or a stutter, also with failed writes and cancelled callers
\* (handler.py:329-336, msg_queue_handler.py:36-90).
ImplementsRpc ==
  Rpc!Init /\ [][(\A t \in Tx : Solicited(t))' => Rpc!Next]_(Rpc!vars)

(***************************************************************************)
(* The inductive invariant behind the safety properties.                   *)
(***************************************************************************)

\* A key is there exactly while its list is not empty (inductive by itself).
KeysHaveQueues == \A t \in Tx : t \in keys <=> txQueues[t] # <<>>

\* A queue holds requests of its transaction, each at most once.
QueuesWellFormed ==
  \A t \in Tx :
    /\ \A i \in DOMAIN txQueues[t] :
         TxOf[txQueues[t][i]] = t /\ future[txQueues[t][i]] # "none"
    /\ \A i, j \in DOMAIN txQueues[t] : txQueues[t][i] = txQueues[t][j] => i = j

\* A request that nobody made has left no trace.
UnaskedLeavesNoTrace ==
  \A r \in Req : /\ (pc[r] = "idle") <=> (future[r] = "none")
                 /\ future[r] = "none" => wire[r] = "none"

\* Nothing behind the head of a queue has been written.
OnlyHeadWritten ==
  \A t \in Tx : \A i \in DOMAIN txQueues[t] : i # 1 => wire[txQueues[t][i]] = "none"

\* A frame in the inbox is unsolicited, or the only answer to a request.
FramesAnswerOnce ==
  /\ \A m \in inbox :
       IF m.req = NoReq THEN ~Solicited(m.tx)
                        ELSE m.tx = TxOf[m.req] /\ wire[m.req] = "answered"
  /\ \A m, n \in inbox : m.req = n.req /\ m.req # NoReq => m = n

\* The queue of a healthy transaction holds only requests that wait.
HealthyQueuePending ==
  \A t \in Tx : Healthy(t) =>
    \A i \in DOMAIN txQueues[t] : future[txQueues[t][i]] = "pending"

IInv == /\ TypeOK
        /\ QueuesWellFormed
        /\ UnaskedLeavesNoTrace
        /\ OnlyHeadWritten
        /\ FramesAnswerOnce
        /\ OneOutstanding
        /\ AnswersMatch
        /\ NoLostWaiter
        /\ HealthyQueuePending
        /\ HealthyHeadInFlight
=============================================================================
