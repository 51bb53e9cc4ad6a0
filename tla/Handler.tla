------------------------------- MODULE Handler -------------------------------
(***************************************************************************)
(* One connection of a peer: Handler of fabric_shim/handler.py.            *)
(*                                                                         *)
(* chat_with_peer registers, reads the stream and makes a task of every    *)
(* message.  The event loop starts tasks in the order they were made; a    *)
(* task runs atomically up to its next suspension point (a write, or the   *)
(* answer of a request).  An invocation asks the peer for one thing at a   *)
(* time, through the queue that module MsgQueue is about: what MsgQueue    *)
(* implements, TxRpc, is all this module needs of it.                      *)
(***************************************************************************)
EXTENDS Naturals, Sequences, FiniteSets

CONSTANTS Tx,        \* transaction contexts the peer invokes
          NoTx,      \* the transaction of a frame that belongs to none
          Silent,    \* transactions whose requests the peer never answers
          Outcomes,  \* how chaincode may go on: "ask", "ok", "error", "nothing", "raise"
          Ends,      \* how the stream may end: "eof", "nil", "cancel"
          OddTypes,  \* types of the frames a peer may send out of place
          MaxAsks,   \* bound on the requests of an invocation
          MaxOdd     \* bound on the frames out of place

ASSUME NoTxAssumption == NoTx \notin Tx
ASSUME SilentAssumption == Silent \subseteq Tx
ASSUME BoundsAssumption == MaxAsks \in Nat /\ MaxOdd \in Nat
ASSUME OddTypesAssumption == OddTypes \cap {"INIT", "TRANSACTION"} = {}

VARIABLES
  conn,       \* where chat_with_peer is
  state,      \* self.state
  spawned,    \* tasks made and not started, in order: the message of each
  pc,         \* where the invocation of a transaction is
  resp,       \* the status of the response an invocation has returned
  refusing,   \* tasks suspended in the write of an ERROR message
  stream,     \* external: frames of the peer the handler has not read
  owed,       \* external: transactions the peer owes an answer
  shake,      \* external: handshake messages the peer has sent, of 2
  gone,       \* external: the peer has closed its side of the stream
  odd,        \* external: frames out of place the peer has sent
  asks,       \* history: requests of an invocation
  completed,  \* history: COMPLETED messages of a transaction
  refused     \* history: ERROR messages written

shim == <<conn, state, spawned, pc, resp, refusing>>
peer == <<stream, owed, shake, gone, odd>>
vars == <<shim, peer, asks, completed, refused>>

States == {"created", "established", "ready"}
Statuses == {"ok", "error"}
InvokeTypes == {"INIT", "TRANSACTION"}
AnswerTypes == {"RESPONSE", "ERROR"}
Types == InvokeTypes \cup AnswerTypes \cup {"REGISTERED", "READY", "KEEPALIVE"} \cup OddTypes
Frames == [type : Types, tx : Tx \cup {NoTx}]

TypeOK ==
  /\ conn \in {"registering", "reading", "gathering", "returned", "nil", "cancelled"}
  /\ state \in States
  /\ spawned \in Seq(Frames)
  /\ pc \in [Tx -> {"none", "sent", "spawned", "awaiting", "answered", "completing",
                    "done", "failed", "refused", "cancelled"}]
  /\ resp \in [Tx -> Statuses \cup {"none"}]
  /\ refusing \in Nat
  /\ stream \in Seq(Frames)
  /\ owed \in SUBSET Tx
  /\ shake \in 0 .. 2
  /\ gone \in BOOLEAN
  /\ odd \in 0 .. MaxOdd
  /\ asks \in [Tx -> 0 .. MaxAsks]
  /\ completed \in [Tx -> Seq(Statuses)]
  /\ refused \in Nat

Init ==
  /\ conn = "registering" /\ state = "created"
  /\ spawned = <<>> /\ stream = <<>>
  /\ pc = [t \in Tx |-> "none"] /\ resp = [t \in Tx |-> "none"]
  /\ refusing = 0 /\ owed = {} /\ shake = 0 /\ gone = FALSE /\ odd = 0
  /\ asks = [t \in Tx |-> 0] /\ completed = [t \in Tx |-> <<>>] /\ refused = 0

\* The RPC lives: what the handler writes can reach the peer.
Open == conn \in {"registering", "reading", "gathering"}

\* Invocations whose task has started and not ended.
Live == {"awaiting", "answered", "completing"}

\* A task was made and is not done yet.  Which of the done tasks their callback
\* has discarded from self._pending_tasks makes no difference: gathering a done
\* task waits for nothing.
Undone == \/ spawned # <<>>
          \/ refusing > 0
          \/ \E t \in Tx : pc[t] \in Live

(***************************************************************************)
(* chat_with_peer                                                          *)
(***************************************************************************)

\* `await self.context.write(cm)` of the REGISTER message returns.
Registered ==
  /\ conn = "registering"
  /\ conn' = "reading"
  /\ UNCHANGED <<state, spawned, pc, resp, refusing, peer, asks, completed, refused>>

\* Mutant: the reader awaits handle_message instead of making a task of it.
ReaderFree_Awaits == \A t \in Tx : pc[t] \notin Live
\* The reader never waits for the tasks it has made.
ReaderFree == TRUE

\* Mutant: the task made last starts first.
Spawn_First(m) == spawned' = <<m>> \o spawned
\* asyncio.create_task: the task starts after those made before it.
Spawn(m) == spawned' = Append(spawned, m)

\* A message arrives: _track_task makes a task of its handling.
Read ==
  /\ conn = "reading" /\ stream # <<>> /\ ReaderFree
  /\ stream' = Tail(stream)
  /\ Spawn(Head(stream))
  /\ pc' = [t \in Tx |-> IF Head(stream).tx = t /\ Head(stream).type \in InvokeTypes
                         THEN "spawned" ELSE pc[t]]
  /\ UNCHANGED <<conn, state, resp, refusing, owed, shake, gone, odd,
                 asks, completed, refused>>

\* Mutant: the function returns without gathering its tasks.
AfterStream_NoGather == "returned"
\* `if self._pending_tasks: await asyncio.gather(...)`
AfterStream == IF Undone THEN "gathering" ELSE "returned"

\* The peer has closed its side and every message is read.
EndOfStream ==
  /\ "eof" \in Ends
  /\ conn = "reading" /\ stream = <<>> /\ gone
  /\ conn' = AfterStream
  /\ UNCHANGED <<state, spawned, pc, resp, refusing, peer, asks, completed, refused>>

\* "received nil message, ending chaincode stream": nothing is gathered.
NilMessage ==
  /\ "nil" \in Ends
  /\ conn = "reading"
  /\ conn' = "nil"
  /\ UNCHANGED <<state, spawned, pc, resp, refusing, peer, asks, completed, refused>>

\* asyncio.gather(..., return_exceptions=True) returns once every task it was
\* given is done, however it ended; none is made meanwhile.
Gathered ==
  /\ conn = "gathering" /\ ~Undone
  /\ conn' = "returned"
  /\ UNCHANGED <<state, spawned, pc, resp, refusing, peer, asks, completed, refused>>

\* gRPC cancels the RPC's coroutine; Connect swallows CancelledError.  The tasks
\* are cancelled with it only when they are being gathered.
RpcCancelled ==
  /\ "cancel" \in Ends
  /\ Open
  /\ conn' = "cancelled"
  /\ IF conn = "gathering"
       THEN /\ spawned' = <<>> /\ refusing' = 0
            /\ pc' = [t \in Tx |-> IF pc[t] \in Live \cup {"spawned"}
                                   THEN "cancelled" ELSE pc[t]]
       ELSE UNCHANGED <<spawned, refusing, pc>>
  /\ UNCHANGED <<state, resp, peer, asks, completed, refused>>

(***************************************************************************)
(* A task starts: handle_message, up to its first suspension point.        *)
(***************************************************************************)

\* The event loop starts tasks first in, first out.
NextTask == Head(spawned)
Starts == /\ spawned # <<>>
          /\ spawned' = Tail(spawned)

IgnoreKeepalive ==
  /\ Starts /\ NextTask.type = "KEEPALIVE"
  /\ UNCHANGED <<conn, state, pc, resp, refusing, peer, asks, completed, refused>>

\* handle_message_created and handle_message_established accept one type each.
Advances(type) == \/ state = "created" /\ type = "REGISTERED"
                  \/ state = "established" /\ type = "READY"

AdvanceState ==
  /\ Starts /\ Advances(NextTask.type)
  /\ state' = IF NextTask.type = "READY" THEN "ready" ELSE "established"
  /\ UNCHANGED <<conn, pc, resp, refusing, peer, asks, completed, refused>>

\* handle_message_ready: MsgQueueHandler.handle_msg_response wakes the call that
\* waits, if there is one.
DeliverAnswer ==
  /\ Starts /\ state = "ready" /\ NextTask.type \in AnswerTypes
  /\ LET t == NextTask.tx IN
     pc' = IF t \in Tx /\ pc[t] = "awaiting" THEN [pc EXCEPT ![t] = "answered"] ELSE pc
  /\ UNCHANGED <<conn, state, resp, refusing, peer, asks, completed, refused>>

\* new_error_msg: any other message is refused; the task suspends in the write.
\* A refused INIT or TRANSACTION has had its answer.
Refuse ==
  /\ Starts
  /\ LET type == NextTask.type IN
     /\ type # "KEEPALIVE" /\ ~Advances(type)
     /\ ~(state = "ready" /\ type \in AnswerTypes \cup InvokeTypes)
     /\ pc' = [t \in Tx |-> IF NextTask.tx = t /\ type \in InvokeTypes
                            THEN "refused" ELSE pc[t]]
  /\ refusing' = refusing + 1
  /\ UNCHANGED <<conn, state, resp, peer, asks, completed, refused>>

\* The write of an ERROR message returns, or raises when the RPC is over.
RefusalEnds ==
  /\ refusing > 0
  /\ refusing' = refusing - 1
  /\ refused' = IF Open THEN refused + 1 ELSE refused
  /\ UNCHANGED <<conn, state, spawned, pc, resp, peer, asks, completed>>

(***************************************************************************)
(* handle_stub_interaction                                                 *)
(***************************************************************************)

\* Chaincode runs, up to its next request (sent at once, its queue is empty) or
\* its end.  A response that is missing or without status counts as an error;
\* an exception ends the task, and _done_callback only logs it.
ChaincodeRuns(t, outcome) ==
  \/ /\ outcome = "ask" /\ Open /\ asks[t] < MaxAsks
     /\ pc' = [pc EXCEPT ![t] = "awaiting"]
     /\ asks' = [asks EXCEPT ![t] = @ + 1]
     /\ owed' = owed \cup {t}
     /\ UNCHANGED resp
  \/ /\ outcome \in {"ok", "error", "nothing"}
     /\ pc' = [pc EXCEPT ![t] = "completing"]
     /\ resp' = [resp EXCEPT ![t] = IF outcome = "ok" THEN "ok" ELSE "error"]
     /\ UNCHANGED <<asks, owed>>
  \/ /\ outcome = "raise"
     /\ pc' = [pc EXCEPT ![t] = "failed"]
     /\ UNCHANGED <<asks, owed, resp>>

\* handle_message_ready: INIT and TRANSACTION start an invocation.
Invoke ==
  /\ Starts /\ state = "ready" /\ NextTask.type \in InvokeTypes
  /\ \E outcome \in Outcomes : ChaincodeRuns(NextTask.tx, outcome)
  /\ UNCHANGED <<conn, state, refusing, stream, shake, gone, odd, completed, refused>>

\* The answer has come and chaincode goes on.
Resume(t) ==
  /\ pc[t] = "answered"
  /\ \E outcome \in Outcomes : ChaincodeRuns(t, outcome)
  /\ UNCHANGED <<conn, state, spawned, refusing, stream, shake, gone, odd, completed, refused>>

\* Mutant: the missing response is not replaced.
Completed_NoDefault(t) == "none"
\* The COMPLETED message: its payload is the response, here its status.  The
\* event of stub.set_event is left out, as the code leaves it out.
Completed(t) == resp[t]

\* Mutant: an error response is sent as well as the COMPLETED message that
\* follows it.
Complete_Twice(t) ==
  completed' = [completed EXCEPT ![t] = IF resp[t] = "error"
                  THEN @ \o <<Completed(t), Completed(t)>> ELSE Append(@, Completed(t))]
\* Either branch of handle_stub_interaction writes one message.
Complete(t) == completed' = [completed EXCEPT ![t] = Append(@, Completed(t))]

\* The write of COMPLETED returns, and the task ends.
CompletedWritten(t) ==
  /\ pc[t] = "completing" /\ Open
  /\ Complete(t)
  /\ pc' = [pc EXCEPT ![t] = "done"]
  /\ UNCHANGED <<conn, state, spawned, resp, refusing, peer, asks, refused>>

\* It raises, the RPC being over, and the exception ends the task.
CompletedRaises(t) ==
  /\ pc[t] = "completing" /\ ~Open
  /\ pc' = [pc EXCEPT ![t] = "failed"]
  /\ UNCHANGED <<conn, state, spawned, resp, refusing, peer, asks, completed, refused>>

(***************************************************************************)
(* External: the peer.                                                     *)
(***************************************************************************)
Send(type, t) == stream' = Append(stream, [type |-> type, tx |-> t])

\* REGISTERED, then READY, once it has the REGISTER message.
PeerHandshake ==
  /\ ~gone /\ shake < 2
  /\ shake' = shake + 1
  /\ Send(IF shake = 0 THEN "REGISTERED" ELSE "READY", NoTx)
  /\ UNCHANGED <<shim, owed, gone, odd, asks, completed, refused>>

\* A transaction, once; it follows READY at once or at any later time.
PeerInvokes(t, type) ==
  /\ ~gone /\ shake = 2 /\ pc[t] = "none"
  /\ pc' = [pc EXCEPT ![t] = "sent"]
  /\ Send(type, t)
  /\ UNCHANGED <<conn, state, spawned, resp, refusing, owed, shake, gone, odd,
                 asks, completed, refused>>

\* The same, before the handshake is over: a frame out of place.
PeerInvokesEarly(t, type) ==
  /\ ~gone /\ shake < 2 /\ pc[t] = "none"
  /\ odd < MaxOdd /\ odd' = odd + 1
  /\ pc' = [pc EXCEPT ![t] = "sent"]
  /\ Send(type, t)
  /\ UNCHANGED <<conn, state, spawned, resp, refusing, owed, shake, gone,
                 asks, completed, refused>>

PeerAnswers(t, type) ==
  /\ ~gone /\ t \in owed \ Silent
  /\ owed' = owed \ {t}
  /\ Send(type, t)
  /\ UNCHANGED <<shim, shake, gone, odd, asks, completed, refused>>

PeerKeepsAlive ==
  /\ ~gone /\ odd < MaxOdd /\ odd' = odd + 1
  /\ Send("KEEPALIVE", NoTx)
  /\ UNCHANGED <<shim, owed, shake, gone, asks, completed, refused>>

\* A frame out of place: a repeated or early handshake, an unknown type.
PeerStrays(type) ==
  /\ ~gone /\ odd < MaxOdd /\ odd' = odd + 1
  /\ Send(type, NoTx)
  /\ UNCHANGED <<shim, owed, shake, gone, asks, completed, refused>>

PeerCloses ==
  /\ ~gone /\ Open
  /\ gone' = TRUE
  /\ UNCHANGED <<shim, stream, owed, shake, odd, asks, completed, refused>>

(***************************************************************************)
(* The specification.                                                      *)
(***************************************************************************)
StartTask == \/ IgnoreKeepalive
             \/ AdvanceState
             \/ DeliverAnswer
             \/ Refuse
             \/ Invoke

Next ==
  \/ Registered
  \/ Read
  \/ EndOfStream
  \/ NilMessage
  \/ Gathered
  \/ RpcCancelled
  \/ StartTask
  \/ RefusalEnds
  \/ \E t \in Tx : Resume(t) \/ CompletedWritten(t) \/ CompletedRaises(t)
  \/ PeerHandshake
  \/ \E t \in Tx : \E type \in InvokeTypes : PeerInvokes(t, type) \/ PeerInvokesEarly(t, type)
  \/ \E t \in Tx : \E type \in AnswerTypes : PeerAnswers(t, type)
  \/ PeerKeepsAlive
  \/ \E type \in OddTypes : PeerStrays(type)
  \/ PeerCloses

Spec == Init /\ [][Next]_vars

\* The event loop runs what is ready, the peer registers the chaincode and
\* answers the requests it does answer.
FairSpec ==
  /\ Spec
  /\ WF_vars(Registered) /\ WF_vars(Read) /\ WF_vars(EndOfStream) /\ WF_vars(Gathered)
  /\ WF_vars(StartTask) /\ WF_vars(RefusalEnds)
  /\ WF_vars(PeerHandshake)
  /\ \A t \in Tx : /\ WF_vars(Resume(t))
                   /\ WF_vars(CompletedWritten(t)) /\ WF_vars(CompletedRaises(t))
                   /\ WF_vars(\E type \in AnswerTypes : PeerAnswers(t, type))

(***************************************************************************)
(* Properties.                                                             *)
(***************************************************************************)

\* A peer that keeps the protocol is never refused, even when READY and the
\* first transactions follow REGISTERED in one burst: only frames out of place
\* cost an ERROR.  It needs the tasks to start in order and every state change
\* to precede its task's first suspension (handler.py:127-163, 182-192).
OnlyOddFramesRefused == refused + refusing <= odd

\* The peer gets one COMPLETED per invocation that ends, with the status of its
\* response, and none while it runs or once it has failed (handler.py:72-109).
CompletedOnce ==
  \A t \in Tx : /\ Len(completed[t]) = IF pc[t] = "done" THEN 1 ELSE 0
                /\ pc[t] = "done" => completed[t][1] = resp[t]

\* A connection makes tasks only while it reads, ends by itself only when no task
\* is left, whatever the order in which they end, and otherwise is dropped
\* (handler.py:182-200, server.py:32-39).  It is what Server rests on.
Tasks == Len(spawned) + refusing + Cardinality({t \in Tx : pc[t] \in Live})
Life == CASE conn \in {"registering", "reading"} -> "open"
          [] conn = "gathering" -> "draining"
          [] conn = "returned" -> "closed"
          [] conn \in {"nil", "cancelled"} -> "dropped"
Link == INSTANCE Connection WITH life <- Life, busy <- Tasks
ImplementsConnection == Link!Spec

\* The reader goes on while invocations wait ("so the stream can continue
\* receiving response frames needed by in-flight request futures",
\* handler.py:190-191): a transaction whose requests are answered ends, although
\* the peer is silent about another one and chaincode of a third has raised.
Finished(t) == pc[t] \in {"done", "failed", "refused", "cancelled"}
AnsweredTransactionsFinish ==
  \A t \in Tx \ Silent : pc[t] = "sent" ~> Finished(t) \/ gone \/ ~Open

\* When the peer closes its side, what it sent before is still read and used, and
\* the connection ends, unless an invocation waits for an answer the peer has not
\* given and cannot give any more (handler.py:182-200, 329-336).
ClosedConnectionEnds ==
  gone ~> ~Open \/ \E t \in owed : pc[t] = "awaiting"
=============================================================================
