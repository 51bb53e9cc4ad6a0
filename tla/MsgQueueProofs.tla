--------------------------- MODULE MsgQueueProofs ---------------------------
(***************************************************************************)
(* Theorems about MsgQueue, for any transactions, requests and faults.     *)
(***************************************************************************)
EXTENDS MsgQueue, TLAPS

(***************************************************************************)
(* Sequences as queues.                                                    *)
(***************************************************************************)

\* What remains of a queue once its head is popped.
LEMMA TailOfQueue ==
  ASSUME NEW S, NEW q \in Seq(S), q # <<>>
  PROVE  /\ Head(q) \in S /\ Head(q) = q[1] /\ 1 \in DOMAIN q
         /\ Tail(q) \in Seq(S)
         /\ DOMAIN q = 1 .. Len(q) /\ Len(q) \in Nat
         /\ DOMAIN Tail(q) = 1 .. Len(q) - 1
         /\ \A i \in DOMAIN Tail(q) : i + 1 \in DOMAIN q /\ Tail(q)[i] = q[i + 1]
         /\ Tail(q) # <<>> => /\ 2 \in DOMAIN q /\ Head(Tail(q)) = q[2]
                              /\ Head(Tail(q)) \in S
<1>1. Len(q) \in Nat /\ Len(q) # 0
  OBVIOUS
<1>2. Head(q) \in S /\ Head(q) = q[1] /\ 1 \in DOMAIN q /\ DOMAIN q = 1 .. Len(q)
  BY <1>1
<1>3. Tail(q) \in Seq(S) /\ Len(Tail(q)) = Len(q) - 1
  BY <1>1
<1>4. DOMAIN Tail(q) = 1 .. Len(q) - 1
  BY <1>3
<1>5. \A i \in DOMAIN Tail(q) : i + 1 \in DOMAIN q /\ Tail(q)[i] = q[i + 1]
  BY <1>1, <1>2, <1>4
<1>6. Tail(q) # <<>> => 2 \in DOMAIN q /\ Head(Tail(q)) = q[2] /\ Head(Tail(q)) \in S
  BY <1>1, <1>2, <1>3, <1>4, <1>5
<1> QED
  BY <1>1, <1>2, <1>3, <1>4, <1>5, <1>6

\* A queue with one more message.
LEMMA AppendToQueue ==
  ASSUME NEW S, NEW q \in Seq(S), NEW e \in S
  PROVE  /\ Append(q, e) \in Seq(S) /\ Append(q, e) # <<>>
         /\ Len(q) \in Nat /\ DOMAIN q = 1 .. Len(q)
         /\ DOMAIN Append(q, e) = 1 .. Len(q) + 1
         /\ \A i \in DOMAIN q : Append(q, e)[i] = q[i]
         /\ Append(q, e)[Len(q) + 1] = e
         /\ Head(Append(q, e)) = Append(q, e)[1]
OBVIOUS

(***************************************************************************)
(* Type correctness.                                                       *)
(***************************************************************************)

\* Every variable keeps its type, for any number of requests and faults.
THEOREM TypeCorrect == Spec => []TypeOK
<1>1. Init => TypeOK
  BY DEF Init, TypeOK
<1>2. TypeOK /\ [Next]_vars => TypeOK'
  <2> SUFFICES ASSUME TypeOK, [Next]_vars PROVE TypeOK'
    OBVIOUS
  <2> USE TxOfAssumption
  <2>1. ASSUME NEW r \in Req, Ask(r) PROVE TypeOK'
    <3>1. Append(txQueues[TxOf[r]], r) \in Seq(Req)
      BY DEF TypeOK
    <3> QED
      BY <2>1, <3>1 DEF TypeOK, Ask
  <2>2. ASSUME NEW r \in Req, CallerWriteReturns(r) PROVE TypeOK'
    BY <2>2 DEF TypeOK, CallerWriteReturns, Settled
  <2>3. ASSUME NEW r \in Req, CallerWriteRaises(r) PROVE TypeOK'
    BY <2>3 DEF TypeOK, CallerWriteRaises, MayHurt, Fail
  <2>4. ASSUME NEW r \in Req, CallerResumes(r) PROVE TypeOK'
    BY <2>4 DEF TypeOK, CallerResumes, Settled
  <2>5. ASSUME NEW r \in Req, Cancel(r) PROVE TypeOK'
    BY <2>5 DEF TypeOK, Cancel, MayHurt
  <2>6. ASSUME NEW r \in Req, TaskWriteReturns(r) PROVE TypeOK'
    BY <2>6 DEF TypeOK, TaskWriteReturns
  <2>7. ASSUME NEW r \in Req, TaskWriteRaises(r) PROVE TypeOK'
    BY <2>7 DEF TypeOK, TaskWriteRaises, MayHurt, Fail
  <2>8. ASSUME NEW r \in Req, WireSend(r) PROVE TypeOK'
    BY <2>8 DEF TypeOK, WireSend
  <2>9. ASSUME NEW r \in Req, NEW k \in Kinds, PeerAnswers(r, k) PROVE TypeOK'
    BY <2>9 DEF TypeOK, PeerAnswers, Frames
  <2>10. ASSUME NEW m \in inbox, HandleResponse(m) PROVE TypeOK'
    <3> DEFINE q == txQueues[m.tx]
    <3>1. m \in Frames /\ m.tx \in Tx /\ q \in Seq(Req) /\ q # <<>>
      BY <2>10 DEF TypeOK, HandleResponse, Frames
    <3>2. Head(q) \in Req /\ Tail(q) \in Seq(Req) /\ (Tail(q) # <<>> => Head(Tail(q)) \in Req)
      BY <3>1, TailOfQueue
    <3> QED
      BY <2>10, <3>1, <3>2
      DEF TypeOK, HandleResponse, Succeed, Current, RemoveCurrentAndSendNext
  <2>11. ASSUME NEW m \in inbox, HandleResponseOfDoneFuture(m) PROVE TypeOK'
    BY <2>11 DEF TypeOK, HandleResponseOfDoneFuture
  <2>12. ASSUME NEW m \in inbox, HandleUnknownResponse(m) PROVE TypeOK'
    BY <2>12 DEF TypeOK, HandleUnknownResponse
  <2>13. ASSUME NEW t \in Tx, NEW k \in Kinds, StrayFrame(t, k) PROVE TypeOK'
    BY <2>13 DEF TypeOK, StrayFrame, MayHurt, Frames
  <2>14. CASE UNCHANGED vars
    BY <2>14 DEF TypeOK, vars
  <2> QED
    BY <2>1, <2>2, <2>3, <2>4, <2>5, <2>6, <2>7, <2>8, <2>9, <2>10, <2>11, <2>12,
       <2>13, <2>14 DEF Next, Handle
<1> QED
  BY <1>1, <1>2, PTL DEF Spec

(***************************************************************************)
(* The inductive invariant, one lemma per step that moves a request.       *)
(***************************************************************************)

\* A transaction no fault has hit got no unsolicited frame either; and no step
\* heals a transaction.
LEMMA HealthyIsSolicited ==
  ASSUME TypeOK, NEW t \in Tx, Healthy(t) PROVE Solicited(t)
BY DEF TypeOK, Healthy, Solicited

\* A transaction that is healthy after a step was so before it.
LEMMA HurtForEver ==
  ASSUME hurt \subseteq hurt', NEW t
  PROVE  (Healthy(t)' => Healthy(t)) /\ (Solicited(t)' => Solicited(t))
BY DEF Healthy, Solicited

\* The invariant holds before the first request.
LEMMA InitIInv == Init => IInv
<1> SUFFICES ASSUME Init PROVE IInv
  OBVIOUS
<1>1. TypeOK
  BY DEF Init, TypeOK
<1>2. \A t \in Tx : DOMAIN txQueues[t] = {}
  BY DEF Init
<1>3. QueuesWellFormed /\ OnlyHeadWritten /\ HealthyQueuePending
  BY <1>2 DEF QueuesWellFormed, OnlyHeadWritten, HealthyQueuePending
<1>4. UnaskedLeavesNoTrace /\ FramesAnswerOnce /\ OneOutstanding /\ AnswersMatch /\ NoLostWaiter
  BY DEF Init, UnaskedLeavesNoTrace, FramesAnswerOnce, OneOutstanding, Outstanding,
         AnswersMatch, NoLostWaiter
<1>5. HealthyHeadInFlight
  BY DEF Init, HealthyHeadInFlight, HeadInFlight
<1> QED
  BY <1>1, <1>3, <1>4, <1>5 DEF IInv

\* Only the asking coroutine's position changes.
LEMMA MoveCaller ==
  ASSUME IInv, TypeOK', UNCHANGED <<txQueues, future, value, wire, inbox, hurt>>,
         \A r \in Req : (pc'[r] = "idle") <=> (pc[r] = "idle")
  PROVE  IInv'
<1>1. \A t : (Healthy(t)' <=> Healthy(t)) /\ (Solicited(t)' <=> Solicited(t))
  BY DEF Healthy, Solicited
<1>2. \A r : Outstanding(r)' <=> Outstanding(r)
  BY DEF Outstanding
<1>3. QueuesWellFormed' /\ OnlyHeadWritten' /\ NoLostWaiter'
  BY DEF IInv, QueuesWellFormed, OnlyHeadWritten, NoLostWaiter, Queued
<1>4. UnaskedLeavesNoTrace'
  BY DEF IInv, UnaskedLeavesNoTrace
<1>5. FramesAnswerOnce' /\ AnswersMatch' /\ HealthyQueuePending'
  BY <1>1 DEF IInv, FramesAnswerOnce, AnswersMatch, HealthyQueuePending
<1>6. OneOutstanding' /\ HealthyHeadInFlight'
  BY <1>1, <1>2 DEF IInv, OneOutstanding, HealthyHeadInFlight, HeadInFlight, Current
<1> QED
  BY <1>3, <1>4, <1>5, <1>6 DEF IInv

\* A request is queued, and written at once if the queue was empty.
LEMMA AskStep ==
  ASSUME IInv, TypeOK', NEW r \in Req, Ask(r) PROVE IInv'
<1> DEFINE T == TxOf[r]  q == txQueues[T]  Q == Append(q, r)
<1> USE TxOfAssumption, NoReqAssumption
<1>0. TypeOK /\ T \in Tx /\ q \in Seq(Req)
  BY DEF IInv, TypeOK
<1>1. /\ txQueues' = [txQueues EXCEPT ![T] = Q]
      /\ future' = [future EXCEPT ![r] = "pending"]
      /\ \A s \in Req : s # r => wire'[s] = wire[s] /\ pc'[s] = pc[s]
      /\ pc'[r] # "idle"
      /\ wire'[r] = IF q = <<>> THEN "writing" ELSE wire[r]
      /\ UNCHANGED <<value, inbox, hurt>>
  BY <1>0 DEF Ask, SendsAtOnce, TypeOK
<1>2. future[r] = "none" /\ wire[r] = "none" /\ wire'[r] # "answered"
  BY <1>1 DEF IInv, UnaskedLeavesNoTrace, Ask
<1>3. /\ Len(q) \in Nat /\ DOMAIN q = 1 .. Len(q) /\ DOMAIN Q = 1 .. Len(q) + 1
      /\ Q # <<>> /\ Head(Q) = Q[1] /\ Q[Len(q) + 1] = r
      /\ \A i \in DOMAIN q : Q[i] = q[i]
  BY <1>0, AppendToQueue
<1>4. txQueues'[T] = Q /\ \A t \in Tx : t # T => txQueues'[t] = txQueues[t]
  BY <1>0, <1>1 DEF TypeOK
<1>5. \A t \in Tx : \A i \in DOMAIN txQueues[t] : txQueues[t][i] \in Req /\ txQueues[t][i] # r
  <2> SUFFICES ASSUME NEW t \in Tx, NEW i \in DOMAIN txQueues[t]
               PROVE  txQueues[t][i] \in Req /\ txQueues[t][i] # r
    OBVIOUS
  <2>1. txQueues[t] \in Seq(Req)
    BY <1>0 DEF TypeOK
  <2>2. txQueues[t][i] \in Req
    BY <2>1
  <2>3. future[txQueues[t][i]] # "none"
    BY DEF IInv, QueuesWellFormed
  <2> QED
    BY <2>2, <2>3, <1>2
<1>6. \A t : (Healthy(t)' <=> Healthy(t)) /\ (Solicited(t)' <=> Solicited(t))
  BY <1>1 DEF Healthy, Solicited
<1>7. ~ \E m \in inbox : m.req = r
  BY <1>2 DEF IInv, FramesAnswerOnce
<1>8. \A s \in Req : future'[s] = IF s = r THEN "pending" ELSE future[s]
  BY <1>0, <1>1 DEF TypeOK
<1>9. QueuesWellFormed'
  <2>1. ASSUME NEW t \in Tx, NEW i \in DOMAIN txQueues'[t]
        PROVE  TxOf[txQueues'[t][i]] = t /\ future'[txQueues'[t][i]] # "none"
    BY <1>3, <1>4, <1>5, <1>8 DEF IInv, QueuesWellFormed
  <2>2. ASSUME NEW t \in Tx, NEW i \in DOMAIN txQueues'[t], NEW j \in DOMAIN txQueues'[t],
               txQueues'[t][i] = txQueues'[t][j]
        PROVE  i = j
    <3>1. CASE t # T
      BY <3>1, <2>2, <1>4 DEF IInv, QueuesWellFormed
    <3>2. CASE t = T
      <4>1. ASSUME NEW l \in DOMAIN Q, l \notin DOMAIN q PROVE l = Len(q) + 1
        BY <4>1, <1>3
      <4>2. ASSUME NEW l \in DOMAIN q PROVE Q[l] = q[l] /\ q[l] # r
        BY <1>0, <1>3, <1>5
      <4> QED
        BY <4>1, <4>2, <3>2, <2>2, <1>0, <1>3, <1>4 DEF IInv, QueuesWellFormed
    <3> QED
      BY <3>1, <3>2
  <2> QED
    BY <2>1, <2>2 DEF QueuesWellFormed
<1>10. UnaskedLeavesNoTrace'
  BY <1>1, <1>8 DEF IInv, UnaskedLeavesNoTrace
<1>11. OnlyHeadWritten'
  <2> SUFFICES ASSUME NEW t \in Tx, NEW i \in DOMAIN txQueues'[t], i # 1
               PROVE  wire'[txQueues'[t][i]] = "none"
    BY DEF OnlyHeadWritten
  <2>1. CASE i \in DOMAIN txQueues[t]
    BY <2>1, <1>1, <1>3, <1>4, <1>5 DEF IInv, OnlyHeadWritten
  <2>2. CASE i \notin DOMAIN txQueues[t]
    <3>1. t = T /\ i = Len(q) + 1
      BY <2>2, <1>3, <1>4
    <3>2. q # <<>>
      BY <3>1, <1>3
    <3> QED
      BY <3>1, <3>2, <1>1, <1>2, <1>3, <1>4
  <2> QED
    BY <2>1, <2>2
<1>12. FramesAnswerOnce'
  BY <1>1, <1>6, <1>7 DEF IInv, FramesAnswerOnce, TypeOK, Frames
<1>13. q # <<>> => Head(Q) = Head(q)
  BY <1>0, <1>3, TailOfQueue
<1>14. OneOutstanding'
  <2> SUFFICES ASSUME NEW s \in Req, Outstanding(s)', Solicited(TxOf[s])'
               PROVE  txQueues'[TxOf[s]] # <<>> /\ s = Head(txQueues'[TxOf[s]])
    BY DEF OneOutstanding, Current
  <2>1. CASE s = r
    BY <2>1, <1>1, <1>2, <1>3, <1>4, <1>7 DEF Outstanding
  <2>2. CASE s # r
    <3>1. Outstanding(s) /\ Solicited(TxOf[s])
      BY <2>2, <1>1, <1>6 DEF Outstanding
    <3>2. txQueues[TxOf[s]] # <<>> /\ s = Head(txQueues[TxOf[s]])
      BY <3>1 DEF IInv, OneOutstanding, Current
    <3> QED
      BY <3>2, <1>3, <1>4, <1>13
  <2> QED
    BY <2>1, <2>2
<1>15. AnswersMatch'
  BY <1>1, <1>6, <1>8 DEF IInv, AnswersMatch
<1>16. NoLostWaiter'
  <2> SUFFICES ASSUME NEW s \in Req, future'[s] = "pending"
               PROVE  \E i \in DOMAIN txQueues'[TxOf[s]] : s = txQueues'[TxOf[s]][i]
    BY DEF NoLostWaiter, Queued
  <2>1. CASE s = r
    BY <2>1, <1>3, <1>4
  <2>2. CASE s # r
    <3>1. PICK i \in DOMAIN txQueues[TxOf[s]] : s = txQueues[TxOf[s]][i]
      BY <2>2, <1>8 DEF IInv, NoLostWaiter, Queued
    <3> QED
      BY <3>1, <1>3, <1>4
  <2> QED
    BY <2>1, <2>2
<1>17. HealthyQueuePending'
  BY <1>3, <1>4, <1>5, <1>6, <1>8 DEF IInv, HealthyQueuePending
<1>18. HealthyHeadInFlight'
  <2> SUFFICES ASSUME NEW t \in Tx, Healthy(t)', txQueues'[t] # <<>>
               PROVE  Outstanding(Current(t))'
    BY DEF HealthyHeadInFlight, HeadInFlight
  <2>1. CASE t = T /\ q = <<>>
    <3>1. Head(Q) = r
      BY <2>1, <1>3
    <3> QED
      BY <3>1, <2>1, <1>1, <1>4 DEF Outstanding, Current
  <2>2. CASE ~(t = T /\ q = <<>>)
    <3>1. txQueues[t] # <<>> /\ Head(txQueues'[t]) = Head(txQueues[t])
      BY <2>2, <1>4, <1>13
    <3>2. Outstanding(Head(txQueues[t]))
      BY <3>1, <1>6 DEF IInv, HealthyHeadInFlight, HeadInFlight, Current
    <3>3. Head(txQueues[t]) # r /\ Head(txQueues[t]) \in Req
      BY <3>1, <1>0, <1>5, TailOfQueue DEF TypeOK
    <3> QED
      BY <3>1, <3>2, <3>3, <1>1 DEF Outstanding, Current
  <2> QED
    BY <2>1, <2>2
<1> QED
  BY <1>9, <1>10, <1>11, <1>12, <1>14, <1>15, <1>16, <1>17, <1>18 DEF IInv

\* A queued request is a request, and the head of a queue is queued.
LEMMA QueuedAreRequests ==
  ASSUME TypeOK, NEW t \in Tx
  PROVE  /\ \A i \in DOMAIN txQueues[t] : txQueues[t][i] \in Req
         /\ txQueues[t] # <<>> => /\ Current(t) \in Req
                                  /\ 1 \in DOMAIN txQueues[t]
                                  /\ Current(t) = txQueues[t][1]
<1>1. txQueues[t] \in Seq(Req)
  BY DEF TypeOK
<1>2. \A i \in DOMAIN txQueues[t] : txQueues[t][i] \in Req
  BY <1>1
<1>3. txQueues[t] # <<>> => /\ Current(t) \in Req
                            /\ 1 \in DOMAIN txQueues[t]
                            /\ Current(t) = txQueues[t][1]
  BY <1>1, TailOfQueue DEF Current
<1> QED
  BY <1>2, <1>3

\* A write raises or a caller is cancelled: a fault hits the transaction, the
\* future may end, the write may end, and the queue stays as it is.
LEMMA FaultStep ==
  ASSUME IInv, TypeOK', NEW r \in Req, NEW kind \in FaultKinds,
         NEW end \in {"exception", "cancelled"},
         hurt' = hurt \cup {<<kind, TxOf[r]>>},
         UNCHANGED <<txQueues, value, inbox>>,
         \A s \in Req : (pc'[s] = "idle") <=> (pc[s] = "idle"),
         \/ UNCHANGED future
         \/ future[r] = "pending" /\ future' = [future EXCEPT ![r] = end],
         \/ UNCHANGED wire
         \/ wire[r] = "writing" /\ wire' = [wire EXCEPT ![r] = "failed"]
  PROVE  IInv'
<1>1. \A t \in Tx : /\ Healthy(t)' => Healthy(t) /\ t # TxOf[r]
                    /\ Solicited(t)' => Solicited(t)
  BY DEF Healthy, Solicited
<1>2. \A s \in Req : /\ s # r => future'[s] = future[s] /\ wire'[s] = wire[s]
                     /\ future'[s] \in {"none", "pending", "result"} => future'[s] = future[s]
                     /\ future'[s] = "none" <=> future[s] = "none"
                     /\ wire'[s] = "none" <=> wire[s] = "none"
                     /\ wire'[s] = "answered" <=> wire[s] = "answered"
                     /\ wire'[s] \in {"writing", "sent"} => wire'[s] = wire[s]
  BY DEF IInv, TypeOK
<1>3. QueuesWellFormed' /\ OnlyHeadWritten'
  <2>1. ASSUME NEW t \in Tx PROVE \A i \in DOMAIN txQueues[t] : txQueues[t][i] \in Req
    BY QueuedAreRequests DEF IInv
  <2> QED
    BY <1>2, <2>1 DEF IInv, QueuesWellFormed, OnlyHeadWritten
<1>4. UnaskedLeavesNoTrace'
  BY <1>2 DEF IInv, UnaskedLeavesNoTrace
<1>5. FramesAnswerOnce'
  <2>1. ASSUME NEW m \in inbox
        PROVE  m.tx \in Tx /\ m.req \in Req \cup {NoReq}
    BY DEF IInv, TypeOK, Frames
  <2> QED
    BY <1>1, <1>2, <2>1 DEF IInv, FramesAnswerOnce
<1>6. OneOutstanding' /\ AnswersMatch' /\ NoLostWaiter'
  <2>1. \A s \in Req : TxOf[s] \in Tx
    BY TxOfAssumption
  <2>2. OneOutstanding'
    BY <1>1, <1>2, <2>1 DEF IInv, OneOutstanding, Outstanding, Current
  <2>3. AnswersMatch'
    BY <1>1, <1>2, <2>1 DEF IInv, AnswersMatch
  <2>4. NoLostWaiter'
    BY <1>2 DEF IInv, NoLostWaiter, Queued
  <2> QED
    BY <2>2, <2>3, <2>4
<1>7. HealthyQueuePending' /\ HealthyHeadInFlight'
  <2> SUFFICES ASSUME NEW t \in Tx, Healthy(t)'
               PROVE  /\ \A i \in DOMAIN txQueues[t] : future'[txQueues[t][i]] = "pending"
                      /\ HeadInFlight(t)'
    BY DEF HealthyQueuePending, HealthyHeadInFlight
  <2>1. \A i \in DOMAIN txQueues[t] :
          txQueues[t][i] \in Req /\ txQueues[t][i] # r /\ future[txQueues[t][i]] = "pending"
    BY <1>1, QueuedAreRequests DEF IInv, QueuesWellFormed, HealthyQueuePending
  <2>2. txQueues[t] # <<>> => Current(t) \in Req /\ Current(t) # r /\ Outstanding(Current(t))
    BY <1>1, <2>1, QueuedAreRequests DEF IInv, HealthyHeadInFlight, HeadInFlight
  <2>3. \A i \in DOMAIN txQueues[t] : future'[txQueues[t][i]] = "pending"
    BY <1>2, <2>1
  <2>4. HeadInFlight(t)'
    BY <1>2, <2>2 DEF HeadInFlight, Outstanding, Current
  <2> QED
    BY <2>3, <2>4
<1> QED
  BY <1>3, <1>4, <1>5, <1>6, <1>7 DEF IInv

\* gRPC delivers a message, or the peer answers it.
LEMMA PeerStep ==
  ASSUME IInv, TypeOK', NEW r \in Req,
         UNCHANGED <<txQueues, future, value, pc, hurt>>,
         \/ wire[r] = "writing" /\ wire' = [wire EXCEPT ![r] = "sent"] /\ UNCHANGED inbox
         \/ /\ wire[r] = "sent" /\ wire' = [wire EXCEPT ![r] = "answered"]
            /\ \E k : inbox' = inbox \cup {[tx |-> TxOf[r], req |-> r, kind |-> k]}
  PROVE  IInv'
<1> USE NoReqAssumption, TxOfAssumption
<1>1. \A t : (Healthy(t)' <=> Healthy(t)) /\ (Solicited(t)' <=> Solicited(t))
  BY DEF Healthy, Solicited
<1>2. \A s \in Req : /\ s # r => wire'[s] = wire[s]
                     /\ wire'[s] = "none" <=> wire[s] = "none"
                     /\ wire[s] = "answered" => s # r
  BY DEF IInv, TypeOK
<1>3. \A s \in Req : Outstanding(s)' <=> Outstanding(s)
  <2> SUFFICES ASSUME NEW s \in Req PROVE Outstanding(s)' <=> Outstanding(s)
    OBVIOUS
  <2>1. wire \in [Req -> {"none", "writing", "sent", "failed", "answered"}]
    BY DEF IInv, TypeOK
  <2>2. CASE wire[r] = "writing" /\ wire' = [wire EXCEPT ![r] = "sent"] /\ UNCHANGED inbox
    BY <2>1, <2>2 DEF Outstanding
  <2>3. ASSUME NEW k, inbox' = inbox \cup {[tx |-> TxOf[r], req |-> r, kind |-> k]},
               wire[r] = "sent", wire' = [wire EXCEPT ![r] = "answered"]
        PROVE  Outstanding(s)' <=> Outstanding(s)
    <3> DEFINE f == [tx |-> TxOf[r], req |-> r, kind |-> k]
    <3>1. CASE s = r
      <4>1. f \in inbox' /\ f.req = s
        BY <3>1, <2>3
      <4> QED
        BY <4>1, <3>1, <2>3 DEF Outstanding
    <3>2. CASE s # r
      BY <3>2, <2>1, <2>3 DEF Outstanding
    <3> QED
      BY <3>1, <3>2
  <2> QED
    BY <2>2, <2>3
<1>4. QueuesWellFormed' /\ OnlyHeadWritten' /\ NoLostWaiter'
  <2>1. ASSUME NEW t \in Tx PROVE \A i \in DOMAIN txQueues[t] : txQueues[t][i] \in Req
    BY QueuedAreRequests DEF IInv
  <2> QED
    BY <1>2, <2>1 DEF IInv, QueuesWellFormed, OnlyHeadWritten, NoLostWaiter, Queued
<1>5. UnaskedLeavesNoTrace'
  BY <1>2 DEF IInv, UnaskedLeavesNoTrace
<1>6. FramesAnswerOnce'
  <2>1. ASSUME NEW m \in inbox PROVE m.req \in Req \cup {NoReq}
    BY DEF IInv, TypeOK, Frames
  <2>2. \A m \in inbox : m.req # r
    BY <1>2 DEF IInv, FramesAnswerOnce
  <2>3. CASE UNCHANGED inbox
    BY <1>1, <1>2, <2>1, <2>2, <2>3 DEF IInv, FramesAnswerOnce
  <2>4. ASSUME NEW k, inbox' = inbox \cup {[tx |-> TxOf[r], req |-> r, kind |-> k]},
               wire'[r] = "answered"
        PROVE  FramesAnswerOnce'
    <3> DEFINE f == [tx |-> TxOf[r], req |-> r, kind |-> k]
    <3>1. ASSUME NEW m \in inbox'
          PROVE  IF m.req = NoReq THEN ~Solicited(m.tx)'
                                  ELSE m.tx = TxOf[m.req] /\ wire'[m.req] = "answered"
      <4>1. CASE m = f
        BY <4>1, <2>4
      <4>2. CASE m \in inbox
        BY <4>2, <2>1, <2>2, <1>1, <1>2 DEF IInv, FramesAnswerOnce
      <4> QED
        BY <4>1, <4>2, <2>4
    <3>2. ASSUME NEW m \in inbox', NEW n \in inbox', m.req = n.req, m.req # NoReq
          PROVE  m = n
      BY <3>2, <2>2, <2>4 DEF IInv, FramesAnswerOnce
    <3> QED
      BY <3>1, <3>2, <1>1 DEF FramesAnswerOnce
  <2> QED
    BY <2>3, <2>4 DEF IInv, TypeOK
<1>7. OneOutstanding' /\ HealthyHeadInFlight'
  <2>1. \A t \in Tx : txQueues[t] # <<>> => Current(t) \in Req
    BY QueuedAreRequests DEF IInv
  <2> QED
    BY <1>1, <1>3, <2>1 DEF IInv, OneOutstanding, HealthyHeadInFlight, HeadInFlight, Current
<1>8. AnswersMatch' /\ HealthyQueuePending'
  BY <1>1 DEF IInv, AnswersMatch, HealthyQueuePending
<1> QED
  BY <1>4, <1>5, <1>6, <1>7, <1>8 DEF IInv

\* A frame is dropped: nothing is queued for it, or a fault blocks the queue.
LEMMA DropFrame ==
  ASSUME IInv, TypeOK', NEW m \in inbox, inbox' = inbox \ {m},
         txQueues[m.tx] = <<>> \/ ~Healthy(m.tx),
         UNCHANGED <<txQueues, future, value, pc, wire, hurt>>
  PROVE  IInv'
<1>1. \A t : (Healthy(t)' <=> Healthy(t)) /\ (Solicited(t)' <=> Solicited(t))
  BY DEF Healthy, Solicited
<1>2. QueuesWellFormed' /\ UnaskedLeavesNoTrace' /\ OnlyHeadWritten' /\ NoLostWaiter'
  BY DEF IInv, QueuesWellFormed, UnaskedLeavesNoTrace, OnlyHeadWritten, NoLostWaiter, Queued
<1>3. FramesAnswerOnce' /\ AnswersMatch' /\ HealthyQueuePending'
  BY <1>1 DEF IInv, FramesAnswerOnce, AnswersMatch, HealthyQueuePending
<1>4. OneOutstanding'
  BY <1>1 DEF IInv, OneOutstanding, Outstanding, Current
<1>5. HealthyHeadInFlight'
  <2> SUFFICES ASSUME NEW t \in Tx, Healthy(t), txQueues[t] # <<>>
               PROVE  Outstanding(Current(t))'
    BY <1>1 DEF HealthyHeadInFlight, HeadInFlight
  <2>1. Outstanding(Current(t)) /\ m.tx # t
    BY DEF IInv, HealthyHeadInFlight, HeadInFlight
  <2>2. Current(t) \in Req /\ TxOf[Current(t)] = t
    BY QueuedAreRequests DEF IInv, QueuesWellFormed
  <2>3. m.req # Current(t)
    BY <2>1, <2>2, NoReqAssumption DEF IInv, FramesAnswerOnce
  <2> QED
    BY <2>1, <2>3 DEF Outstanding, Current
<1> QED
  BY <1>2, <1>3, <1>4, <1>5 DEF IInv

\* An unsolicited frame comes for transaction t.
LEMMA StrayStep ==
  ASSUME IInv, TypeOK', NEW t \in Tx, NEW k \in Kinds, StrayFrame(t, k) PROVE IInv'
<1> DEFINE f == [tx |-> t, req |-> NoReq, kind |-> k]
<1> USE NoReqAssumption
<1>1. /\ hurt' = hurt \cup {<<"stray", t>>} /\ "stray" \in FaultKinds
      /\ inbox' = inbox \cup {f}
      /\ UNCHANGED <<txQueues, future, value, pc, wire>>
  BY DEF StrayFrame, MayHurt
<1>2. \A u : /\ Healthy(u)' => Healthy(u) /\ u # t
             /\ Solicited(u)' => Solicited(u) /\ u # t
  BY <1>1 DEF Healthy, Solicited
<1>3. \A r \in Req : Outstanding(r)' <=> Outstanding(r)
  BY <1>1 DEF Outstanding
<1>4. QueuesWellFormed' /\ UnaskedLeavesNoTrace' /\ OnlyHeadWritten' /\ NoLostWaiter'
  BY <1>1 DEF IInv, QueuesWellFormed, UnaskedLeavesNoTrace, OnlyHeadWritten, NoLostWaiter, Queued
<1>5. FramesAnswerOnce'
  <2>1. f.req = NoReq /\ f.tx = t
    OBVIOUS
  <2>2. ASSUME NEW m \in inbox'
        PROVE  IF m.req = NoReq THEN ~Solicited(m.tx)'
                                ELSE m.tx = TxOf[m.req] /\ wire'[m.req] = "answered"
    <3>1. CASE m = f
      BY <3>1, <2>1, <1>2
    <3>2. CASE m \in inbox
      BY <3>2, <1>1, <1>2 DEF IInv, FramesAnswerOnce
    <3> QED
      BY <3>1, <3>2, <1>1
  <2>3. ASSUME NEW m \in inbox', NEW n \in inbox', m.req = n.req, m.req # NoReq
        PROVE  m = n
    BY <2>1, <2>3, <1>1 DEF IInv, FramesAnswerOnce
  <2> QED
    BY <2>2, <2>3 DEF FramesAnswerOnce
<1>6. OneOutstanding' /\ HealthyHeadInFlight'
  <2>1. \A u \in Tx : txQueues[u] # <<>> => Current(u) \in Req
    BY QueuedAreRequests DEF IInv
  <2> QED
    BY <1>1, <1>2, <1>3, <2>1
    DEF IInv, OneOutstanding, HealthyHeadInFlight, HeadInFlight, Current
<1>7. AnswersMatch' /\ HealthyQueuePending'
  BY <1>1, <1>2 DEF IInv, AnswersMatch, HealthyQueuePending
<1> QED
  BY <1>4, <1>5, <1>6, <1>7 DEF IInv

\* The head gets a response, is removed, and the next message is written.
LEMMA ResponseStep ==
  ASSUME IInv, TypeOK', NEW m \in inbox, HandleResponse(m) PROVE IInv'
<1> DEFINE T == m.tx  q == txQueues[T]  h == Head(q)  rest == Tail(q)
<1> USE NoReqAssumption, TxOfAssumption
<1>0. TypeOK /\ T \in Tx /\ q \in Seq(Req) /\ q # <<>>
  BY DEF IInv, TypeOK, Frames, HandleResponse
<1>1. /\ future[h] = "pending"
      /\ future' = [future EXCEPT ![h] = "result"]
      /\ value' = [value EXCEPT ![h] = m]
      /\ txQueues' = [txQueues EXCEPT ![T] = rest]
      /\ inbox' = inbox \ {m}
      /\ UNCHANGED <<pc, hurt>>
  BY DEF HandleResponse, Succeed, Current, RemoveCurrentAndSendNext
<1>2. IF rest = <<>> THEN wire' = wire ELSE wire' = [wire EXCEPT ![Head(rest)] = "writing"]
  BY DEF HandleResponse, RemoveCurrentAndSendNext
<1>3. /\ h \in Req /\ h = q[1] /\ 1 \in DOMAIN q /\ DOMAIN q = 1 .. Len(q) /\ Len(q) \in Nat
      /\ DOMAIN rest = 1 .. Len(q) - 1
      /\ \A i \in DOMAIN rest : i + 1 \in DOMAIN q /\ rest[i] = q[i + 1]
      /\ rest # <<>> => 2 \in DOMAIN q /\ Head(rest) = q[2] /\ Head(rest) \in Req
  BY <1>0, TailOfQueue
<1>4. txQueues'[T] = rest /\ \A t \in Tx : t # T => txQueues'[t] = txQueues[t]
  BY <1>0, <1>1 DEF TypeOK
<1>5. \A t \in Tx : \A i \in DOMAIN txQueues[t] :
        txQueues[t][i] \in Req /\ TxOf[txQueues[t][i]] = t /\ future[txQueues[t][i]] # "none"
  BY <1>0, QueuedAreRequests DEF IInv, QueuesWellFormed
<1>6. \A i \in DOMAIN rest : rest[i] \in Req /\ TxOf[rest[i]] = T /\ rest[i] # h
  BY <1>0, <1>3, <1>5 DEF IInv, QueuesWellFormed
<1>7. rest # <<>> => /\ wire[Head(rest)] = "none" /\ Head(rest) # h
                     /\ TxOf[Head(rest)] = T /\ Head(rest) = rest[1] /\ 1 \in DOMAIN rest
  BY <1>0, <1>3, <1>5 DEF IInv, OnlyHeadWritten, QueuesWellFormed
<1>8. \A t : (Healthy(t)' <=> Healthy(t)) /\ (Solicited(t)' <=> Solicited(t))
  BY <1>1 DEF Healthy, Solicited
<1>9. \A s \in Req : future'[s] = IF s = h THEN "result" ELSE future[s]
  BY <1>0, <1>1 DEF TypeOK
<1>10. \A s \in Req : ~(rest # <<>> /\ s = Head(rest)) => wire'[s] = wire[s]
  <2>1. DOMAIN wire = Req
    BY <1>0 DEF TypeOK
  <2> QED
    BY <2>1, <1>2
<1>11. rest # <<>> => wire'[Head(rest)] = "writing"
  <2>1. DOMAIN wire = Req
    BY <1>0 DEF TypeOK
  <2> QED
    BY <2>1, <1>2, <1>3
<1>12. TxOf[h] = T
  BY <1>0, <1>3, <1>5
<1>13. Solicited(T) => m.req = h
  <2> SUFFICES ASSUME Solicited(T) PROVE m.req = h
    OBVIOUS
  <2>1. m.req \in Req /\ TxOf[m.req] = T
    BY DEF IInv, FramesAnswerOnce, TypeOK, Frames
  <2>2. Outstanding(m.req)
    BY <2>1 DEF Outstanding
  <2> QED
    BY <2>1, <2>2 DEF IInv, OneOutstanding, Current
<1>14. QueuesWellFormed'
  <2>1. ASSUME NEW t \in Tx, NEW i \in DOMAIN txQueues'[t]
        PROVE  TxOf[txQueues'[t][i]] = t /\ future'[txQueues'[t][i]] # "none"
    <3>1. CASE t # T
      BY <3>1, <1>4, <1>5, <1>9
    <3>2. CASE t = T
      <4>1. i \in DOMAIN rest /\ txQueues'[t][i] = rest[i] /\ rest[i] = q[i + 1]
        BY <3>2, <1>3, <1>4
      <4>2. future[rest[i]] # "none"
        BY <4>1, <1>0, <1>3, <1>5
      <4> QED
        BY <3>2, <4>1, <4>2, <1>6, <1>9
    <3> QED
      BY <3>1, <3>2
  <2>2. ASSUME NEW t \in Tx, NEW i \in DOMAIN txQueues'[t], NEW j \in DOMAIN txQueues'[t],
               txQueues'[t][i] = txQueues'[t][j]
        PROVE  i = j
    <3>1. CASE t # T
      BY <3>1, <2>2, <1>4 DEF IInv, QueuesWellFormed
    <3>2. CASE t = T
      <4>1. i + 1 \in DOMAIN q /\ j + 1 \in DOMAIN q /\ q[i + 1] = q[j + 1]
        BY <3>2, <2>2, <1>3, <1>4
      <4>2. i + 1 = j + 1
        BY <4>1, <1>0 DEF IInv, QueuesWellFormed
      <4> QED
        BY <4>2, <3>2, <1>3, <1>4
    <3> QED
      BY <3>1, <3>2
  <2> QED
    BY <2>1, <2>2 DEF QueuesWellFormed
<1>15. UnaskedLeavesNoTrace'
  <2>1. future[h] # "none" /\ (rest # <<>> => future[Head(rest)] # "none")
    BY <1>0, <1>1, <1>3, <1>5
  <2> QED
    BY <2>1, <1>1, <1>3, <1>9, <1>10 DEF IInv, UnaskedLeavesNoTrace
<1>16. OnlyHeadWritten'
  <2> SUFFICES ASSUME NEW t \in Tx, NEW i \in DOMAIN txQueues'[t], i # 1
               PROVE  wire'[txQueues'[t][i]] = "none"
    BY DEF OnlyHeadWritten
  <2>1. CASE t # T
    <3>1. txQueues[t][i] \in Req /\ TxOf[txQueues[t][i]] = t /\ wire[txQueues[t][i]] = "none"
      BY <2>1, <1>4, <1>5 DEF IInv, OnlyHeadWritten
    <3> QED
      BY <2>1, <3>1, <1>4, <1>7, <1>10
  <2>2. CASE t = T
    <3>1. i \in DOMAIN rest /\ rest[i] = q[i + 1] /\ i + 1 \in DOMAIN q /\ i + 1 # 1 /\ i + 1 # 2
      BY <2>2, <1>3, <1>4
    <3>2. wire[rest[i]] = "none"
      BY <3>1, <1>0 DEF IInv, OnlyHeadWritten
    <3>3. rest # <<>> => rest[i] # Head(rest)
      BY <3>1, <1>0, <1>3 DEF IInv, QueuesWellFormed
    <3> QED
      BY <2>2, <3>1, <3>2, <3>3, <1>4, <1>6, <1>10
  <2> QED
    BY <2>1, <2>2
<1>17. FramesAnswerOnce'
  <2>1. ASSUME NEW n \in inbox, n.req # NoReq
        PROVE  n.req \in Req /\ wire'[n.req] = wire[n.req]
    <3>1. n.req \in Req /\ wire[n.req] = "answered"
      BY <2>1, <1>0 DEF TypeOK, Frames, IInv, FramesAnswerOnce
    <3> QED
      BY <3>1, <1>7, <1>10
  <2> QED
    BY <2>1, <1>1, <1>8 DEF IInv, FramesAnswerOnce
<1>18. \A s \in Req : Outstanding(s)' => Outstanding(s) \/ (rest # <<>> /\ s = Head(rest))
  BY <1>1, <1>10 DEF Outstanding
<1>19. \A s \in Req : Solicited(T) /\ s = h => ~Outstanding(s)'
  <2> SUFFICES ASSUME Solicited(T), NEW s \in Req, s = h PROVE ~Outstanding(s)'
    OBVIOUS
  <2>1. wire[h] = "answered" /\ \A n \in inbox : n.req = h => n = m
    BY <1>3, <1>13 DEF IInv, FramesAnswerOnce
  <2>2. wire'[h] = "answered"
    BY <2>1, <1>3, <1>7, <1>10
  <2> QED
    BY <2>1, <2>2, <1>1 DEF Outstanding
<1>20. OneOutstanding'
  <2> SUFFICES ASSUME NEW s \in Req, Outstanding(s)', Solicited(TxOf[s])
               PROVE  txQueues'[TxOf[s]] # <<>> /\ s = Head(txQueues'[TxOf[s]])
    BY <1>8 DEF OneOutstanding, Current
  <2>1. CASE rest # <<>> /\ s = Head(rest)
    BY <2>1, <1>4, <1>7
  <2>2. CASE ~(rest # <<>> /\ s = Head(rest))
    <3>1. txQueues[TxOf[s]] # <<>> /\ s = Head(txQueues[TxOf[s]])
      BY <2>2, <1>18 DEF IInv, OneOutstanding, Current
    <3>2. TxOf[s] # T
      BY <3>1, <1>19
    <3> QED
      BY <3>1, <3>2, <1>4
  <2> QED
    BY <2>1, <2>2
<1>21. AnswersMatch'
  <2> SUFFICES ASSUME NEW s \in Req, future'[s] = "result", Solicited(TxOf[s])
               PROVE  value'[s].req = s
    BY <1>8 DEF AnswersMatch
  <2>1. CASE s = h
    <3>1. value'[h] = m
      BY <1>0, <1>1, <1>3 DEF TypeOK
    <3> QED
      BY <2>1, <3>1, <1>12, <1>13
  <2>2. CASE s # h
    <3>1. value'[s] = value[s]
      BY <2>2, <1>0, <1>1 DEF TypeOK
    <3> QED
      BY <2>2, <3>1, <1>9 DEF IInv, AnswersMatch
  <2> QED
    BY <2>1, <2>2
<1>22. NoLostWaiter'
  <2> SUFFICES ASSUME NEW s \in Req, future'[s] = "pending"
               PROVE  \E i \in DOMAIN txQueues'[TxOf[s]] : s = txQueues'[TxOf[s]][i]
    BY DEF NoLostWaiter, Queued
  <2>1. s # h
    BY <1>9
  <2>2. PICK i \in DOMAIN txQueues[TxOf[s]] : s = txQueues[TxOf[s]][i]
    BY <2>1, <1>9 DEF IInv, NoLostWaiter, Queued
  <2>3. CASE TxOf[s] # T
    BY <2>2, <2>3, <1>4
  <2>4. CASE TxOf[s] = T
    <3>1. i # 1 /\ i \in 1 .. Len(q)
      BY <2>1, <2>2, <2>4, <1>3
    <3>2. i - 1 \in DOMAIN rest /\ rest[i - 1] = q[i]
      BY <3>1, <1>3
    <3> QED
      BY <3>2, <2>2, <2>4, <1>4
  <2> QED
    BY <2>3, <2>4
<1>23. HealthyQueuePending'
  <2> SUFFICES ASSUME NEW t \in Tx, Healthy(t), NEW i \in DOMAIN txQueues'[t]
               PROVE  future'[txQueues'[t][i]] = "pending"
    BY <1>8 DEF HealthyQueuePending
  <2>1. CASE t # T
    <3>1. txQueues[t][i] \in Req /\ txQueues[t][i] # h /\ future[txQueues[t][i]] = "pending"
      BY <2>1, <1>4, <1>5, <1>12 DEF IInv, HealthyQueuePending
    <3> QED
      BY <2>1, <3>1, <1>4, <1>9
  <2>2. CASE t = T
    BY <2>2, <1>3, <1>4, <1>6, <1>9 DEF IInv, HealthyQueuePending
  <2> QED
    BY <2>1, <2>2
<1>24. HealthyHeadInFlight'
  <2> SUFFICES ASSUME NEW t \in Tx, Healthy(t), txQueues'[t] # <<>>
               PROVE  Outstanding(Current(t))'
    BY <1>8 DEF HealthyHeadInFlight, HeadInFlight
  <2>1. CASE t = T
    BY <2>1, <1>4, <1>11 DEF Outstanding, Current
  <2>2. CASE t # T
    <3>1. /\ txQueues[t] # <<>> /\ Current(t) \in Req /\ TxOf[Current(t)] = t
          /\ Outstanding(Current(t))
      BY <2>2, <1>0, <1>4, <1>5, QueuedAreRequests DEF IInv, HealthyHeadInFlight, HeadInFlight
    <3>2. m.req # Current(t)
      BY <2>2, <3>1 DEF IInv, FramesAnswerOnce
    <3>3. wire'[Current(t)] = wire[Current(t)]
      BY <2>2, <3>1, <1>7, <1>10
    <3> QED
      BY <2>2, <3>1, <3>2, <3>3, <1>1, <1>4 DEF Outstanding, Current
  <2> QED
    BY <2>1, <2>2
<1> QED
  BY <1>14, <1>15, <1>16, <1>17, <1>20, <1>21, <1>22, <1>23, <1>24 DEF IInv

(***************************************************************************)
(* The theorems.                                                           *)
(***************************************************************************)

\* Every step keeps the inductive invariant.
LEMMA NextIInv == IInv /\ TypeOK' /\ [Next]_vars => IInv'
<1> SUFFICES ASSUME IInv, TypeOK', [Next]_vars PROVE IInv'
  OBVIOUS
<1>0. TypeOK /\ TxOf \in [Req -> Tx]
  BY TxOfAssumption DEF IInv
<1>1. ASSUME NEW r \in Req, Ask(r) PROVE IInv'
  BY <1>1, AskStep
<1>2. ASSUME NEW r \in Req, CallerWriteReturns(r) PROVE IInv'
  <2>1. \A s \in Req : (pc'[s] = "idle") <=> (pc[s] = "idle")
    BY <1>0, <1>2 DEF CallerWriteReturns, Settled, TypeOK
  <2> QED
    BY <1>2, <2>1, MoveCaller DEF CallerWriteReturns
<1>3. ASSUME NEW r \in Req, CallerResumes(r) PROVE IInv'
  <2>1. \A s \in Req : (pc'[s] = "idle") <=> (pc[s] = "idle")
    BY <1>0, <1>3 DEF CallerResumes, Settled, TypeOK
  <2> QED
    BY <1>3, <2>1, MoveCaller DEF CallerResumes
<1>4. ASSUME NEW r \in Req, TaskWriteReturns(r) PROVE IInv'
  BY <1>4, MoveCaller DEF TaskWriteReturns
<1>5. ASSUME NEW r \in Req, CallerWriteRaises(r) PROVE IInv'
  <2>1. \A s \in Req : (pc'[s] = "idle") <=> (pc[s] = "idle")
    BY <1>0, <1>5 DEF CallerWriteRaises, TypeOK
  <2>2. "write" \in FaultKinds /\ hurt' = hurt \cup {<<"write", TxOf[r]>>}
    BY <1>5 DEF CallerWriteRaises, MayHurt
  <2>3. \/ UNCHANGED future
        \/ future[r] = "pending" /\ future' = [future EXCEPT ![r] = "exception"]
    BY <1>5 DEF CallerWriteRaises, Fail
  <2> QED
    BY <1>5, <2>1, <2>2, <2>3, FaultStep DEF CallerWriteRaises
<1>6. ASSUME NEW r \in Req, TaskWriteRaises(r) PROVE IInv'
  <2>1. "write" \in FaultKinds /\ hurt' = hurt \cup {<<"write", TxOf[r]>>}
    BY <1>6 DEF TaskWriteRaises, MayHurt
  <2>2. \/ UNCHANGED future
        \/ future[r] = "pending" /\ future' = [future EXCEPT ![r] = "exception"]
    BY <1>6 DEF TaskWriteRaises, Fail
  <2> QED
    BY <1>6, <2>1, <2>2, FaultStep DEF TaskWriteRaises
<1>7. ASSUME NEW r \in Req, Cancel(r) PROVE IInv'
  <2>1. \A s \in Req : (pc'[s] = "idle") <=> (pc[s] = "idle")
    BY <1>0, <1>7 DEF Cancel, TypeOK
  <2>2. "cancel" \in FaultKinds /\ hurt' = hurt \cup {<<"cancel", TxOf[r]>>}
    BY <1>7 DEF Cancel, MayHurt
  <2>3. \/ UNCHANGED future
        \/ future[r] = "pending" /\ future' = [future EXCEPT ![r] = "cancelled"]
    BY <1>7 DEF Cancel
  <2> QED
    BY <1>7, <2>1, <2>2, <2>3, FaultStep DEF Cancel
<1>8. ASSUME NEW r \in Req, WireSend(r) PROVE IInv'
  BY <1>8, PeerStep DEF WireSend
<1>9. ASSUME NEW r \in Req, NEW k \in Kinds, PeerAnswers(r, k) PROVE IInv'
  BY <1>9, PeerStep DEF PeerAnswers
<1>10. ASSUME NEW m \in inbox, HandleResponse(m) PROVE IInv'
  BY <1>10, ResponseStep
<1>11. ASSUME NEW m \in inbox, HandleResponseOfDoneFuture(m) PROVE IInv'
  <2>1. m.tx \in Tx
    BY <1>0 DEF TypeOK, Frames
  <2>2. ~Healthy(m.tx)
    BY <1>0, <1>11, <2>1, QueuedAreRequests
    DEF HandleResponseOfDoneFuture, IInv, HealthyQueuePending
  <2> QED
    BY <1>11, <2>2, DropFrame DEF HandleResponseOfDoneFuture
<1>12. ASSUME NEW m \in inbox, HandleUnknownResponse(m) PROVE IInv'
  BY <1>12, DropFrame DEF HandleUnknownResponse
<1>13. ASSUME NEW t \in Tx, NEW k \in Kinds, StrayFrame(t, k) PROVE IInv'
  BY <1>13, StrayStep
<1>14. CASE UNCHANGED vars
  BY <1>14, MoveCaller DEF vars
<1> QED
  BY <1>1, <1>2, <1>3, <1>4, <1>5, <1>6, <1>7, <1>8, <1>9, <1>10, <1>11, <1>12,
     <1>13, <1>14 DEF Next, Handle

\* The inductive invariant holds in every reachable state.
THEOREM Invariance == Spec => []IInv
BY InitIInv, NextIInv, TypeCorrect, PTL DEF Spec

\* At most one request of a transaction is with the peer, the queue's head.
THEOREM OneOutstandingHolds == Spec => []OneOutstanding
<1>1. IInv => OneOutstanding
  BY DEF IInv
<1> QED
  BY <1>1, Invariance, PTL

\* A caller gets the answer to its own request, whatever fails or is cancelled.
THEOREM AnswersMatchHolds == Spec => []AnswersMatch
<1>1. IInv => AnswersMatch
  BY DEF IInv
<1> QED
  BY <1>1, Invariance, PTL

\* Whoever waits is still queued: no wake-up is lost by the queue's bookkeeping.
THEOREM NoLostWaiterHolds == Spec => []NoLostWaiter
<1>1. IInv => NoLostWaiter
  BY DEF IInv
<1> QED
  BY <1>1, Invariance, PTL

\* In a transaction no fault has hit, a queue that is not empty is moving.
THEOREM HealthyHeadInFlightHolds == Spec => []HealthyHeadInFlight
<1>1. IInv => HealthyHeadInFlight
  BY DEF IInv
<1> QED
  BY <1>1, Invariance, PTL

\* No step leaves a key without messages, or messages without a key.
LEMMA KeysStep == TypeOK /\ KeysHaveQueues /\ [Next]_vars => KeysHaveQueues'
<1> SUFFICES ASSUME TypeOK, KeysHaveQueues, [Next]_vars PROVE KeysHaveQueues'
  OBVIOUS
<1>1. CASE UNCHANGED <<keys, txQueues>>
  BY <1>1 DEF KeysHaveQueues
<1>2. ASSUME NEW r \in Req, Ask(r) PROVE KeysHaveQueues'
  <2>1. TxOf[r] \in Tx /\ txQueues[TxOf[r]] \in Seq(Req)
    BY TxOfAssumption DEF TypeOK
  <2>2. Append(txQueues[TxOf[r]], r) # <<>>
    BY <2>1, AppendToQueue
  <2> QED
    BY <1>2, <2>1, <2>2 DEF Ask, KeysHaveQueues, TypeOK
<1>3. ASSUME NEW m \in inbox, HandleResponse(m) PROVE KeysHaveQueues'
  <2>1. m.tx \in Tx
    BY DEF TypeOK, Frames
  <2> QED
    BY <1>3, <2>1
    DEF HandleResponse, RemoveCurrentAndSendNext, KeysHaveQueues, TypeOK
<1>4. ASSUME NEW r \in Req,
             \/ CallerWriteReturns(r) \/ CallerWriteRaises(r) \/ CallerResumes(r)
             \/ Cancel(r) \/ TaskWriteReturns(r) \/ TaskWriteRaises(r) \/ WireSend(r)
             \/ \E k \in Kinds : PeerAnswers(r, k)
      PROVE  UNCHANGED <<keys, txQueues>>
  BY <1>4 DEF CallerWriteReturns, CallerWriteRaises, CallerResumes, Cancel,
              TaskWriteReturns, TaskWriteRaises, WireSend, PeerAnswers
<1>5. ASSUME NEW m \in inbox, HandleResponseOfDoneFuture(m) \/ HandleUnknownResponse(m)
      PROVE  UNCHANGED <<keys, txQueues>>
  BY <1>5 DEF HandleResponseOfDoneFuture, HandleUnknownResponse
<1>6. ASSUME NEW t \in Tx, NEW k \in Kinds, StrayFrame(t, k)
      PROVE  UNCHANGED <<keys, txQueues>>
  BY <1>6 DEF StrayFrame
<1>7. ASSUME UNCHANGED vars PROVE UNCHANGED <<keys, txQueues>>
  BY <1>7 DEF vars
<1> QED
  BY <1>1, <1>2, <1>3, <1>4, <1>5, <1>6, <1>7 DEF Next, Handle

\* A key of tx_queues and its list come and go together, also when calls fail,
\* are cancelled or get unsolicited answers.
THEOREM KeysHaveQueuesHolds == Spec => []KeysHaveQueues
<1>1. Init => KeysHaveQueues
  BY DEF Init, KeysHaveQueues
<1> QED
  BY <1>1, KeysStep, TypeCorrect, PTL DEF Spec

\* The list of such a transaction holds exactly the calls that still wait, and
\* its key is there exactly while there are any: the last answer deletes it.
THEOREM QueueFreedHolds == Spec => []QueueFreed
<1>1. IInv /\ KeysHaveQueues => QueueFreed
  <2> SUFFICES ASSUME IInv, KeysHaveQueues, NEW t \in Tx, Healthy(t)
               PROVE  LET waiting == {r \in Req : TxOf[r] = t /\ future[r] = "pending"} IN
                      /\ Queued(t) = waiting
                      /\ t \in keys <=> waiting # {}
    BY DEF QueueFreed
  <2> DEFINE waiting == {r \in Req : TxOf[r] = t /\ future[r] = "pending"}
  <2>1. ASSUME NEW r \in Queued(t)
        PROVE  r \in Req /\ TxOf[r] = t /\ future[r] = "pending"
    BY QueuedAreRequests DEF Queued, IInv, QueuesWellFormed, HealthyQueuePending
  <2>2. ASSUME NEW r \in Req, TxOf[r] = t, future[r] = "pending" PROVE r \in Queued(t)
    BY <2>2 DEF IInv, NoLostWaiter
  <2>3. Queued(t) = waiting
    BY <2>1, <2>2
  <2>4. txQueues[t] # <<>> <=> Queued(t) # {}
    <3>1. txQueues[t] # <<>> => Current(t) \in Queued(t)
      BY QueuedAreRequests DEF Queued, IInv
    <3>2. txQueues[t] = <<>> => Queued(t) = {}
      BY DEF Queued
    <3> QED
      BY <3>1, <3>2
  <2> QED
    BY <2>3, <2>4 DEF KeysHaveQueues
<1> QED
  BY <1>1, Invariance, KeysHaveQueuesHolds, PTL

(***************************************************************************)
(* The refinement: MsgQueue implements TxRpc.  Until an unsolicited frame  *)
(* comes, a behaviour maps, step by step, to a behaviour of the            *)
(* per-transaction channel.                                                *)
(***************************************************************************)

Outcomes == [r \in Req |-> Outcome(future[r], value[r])]

\* Nothing of the channel's state changes.
LEMMA Stutter ==
  ASSUME UNCHANGED txQueues, UNCHANGED Served, UNCHANGED Outcomes
  PROVE  [Rpc!Next]_(Rpc!vars)
BY DEF Rpc!vars, Outcomes

\* Who is solicited after a step was so before it.
LEMMA SolicitedBefore ==
  ASSUME hurt \subseteq hurt', (\A t \in Tx : Solicited(t))'
  PROVE  \A t \in Tx : Solicited(t)
BY HurtForEver

\* One request's future fails or is cancelled: the request is abandoned.
LEMMA AbandonStep ==
  ASSUME TypeOK, NEW r \in Req, NEW s \in {"exception", "cancelled"},
         future[r] = "pending", future' = [future EXCEPT ![r] = s],
         UNCHANGED <<txQueues, value>>, UNCHANGED Served
  PROVE  Rpc!Abandon(r)
<1>1. Outcomes[r] = Rpc!Waiting
  BY DEF Outcomes, Outcome, Rpc!Waiting
<1>2. Outcomes' = [Outcomes EXCEPT ![r] = Rpc!Abandoned]
  BY DEF Outcomes, Outcome, Rpc!Abandoned, TypeOK
<1> QED
  BY <1>1, <1>2 DEF Rpc!Abandon, Outcomes

\* Every step of the queue is a step of the channel or a stutter.
LEMMA StepRefines ==
  ASSUME IInv, IInv', [Next]_vars, (\A t \in Tx : Solicited(t))'
  PROVE  [Rpc!Next]_(Rpc!vars)
<1> USE TxOfAssumption, NoReqAssumption
<1>0. TypeOK /\ OneOutstanding /\ QueuesWellFormed /\ FramesAnswerOnce /\ UnaskedLeavesNoTrace
  BY DEF IInv
<1>a. \A t \in Tx : Solicited(t)
  <2>1. hurt \subseteq hurt'
    BY DEF Next, vars, Handle, Ask, CallerWriteReturns, CallerWriteRaises, CallerResumes,
           Cancel, TaskWriteReturns, TaskWriteRaises, WireSend, PeerAnswers, StrayFrame,
           HandleResponse, HandleResponseOfDoneFuture, HandleUnknownResponse, MayHurt
  <2> QED
    BY <2>1, SolicitedBefore
<1>1. ASSUME NEW r \in Req, Ask(r) PROVE Rpc!Ask(r)
  <2>1. future[r] = "none"
    BY <1>0, <1>1 DEF Ask, UnaskedLeavesNoTrace
  <2>2. Outcomes[r] = Rpc!Unasked
    BY <2>1 DEF Outcomes, Outcome, Rpc!Unasked
  <2>3. Outcomes' = [Outcomes EXCEPT ![r] = Rpc!Waiting]
    BY <1>0, <1>1 DEF Ask, Outcomes, Outcome, Rpc!Waiting, TypeOK
  <2>4. UNCHANGED Served
    <3>1. wire[r] = "none"
      BY <1>0, <2>1 DEF UnaskedLeavesNoTrace
    <3>2. wire' = wire \/ wire' = [wire EXCEPT ![r] = "writing"]
      BY <1>1 DEF Ask
    <3> QED
      BY <1>0, <3>1, <3>2 DEF Served, TypeOK
  <2> QED
    BY <1>1, <2>2, <2>3, <2>4 DEF Ask, Rpc!Ask, Outcomes
<1>2. ASSUME NEW r \in Req, CallerWriteReturns(r) \/ CallerResumes(r) \/ TaskWriteReturns(r)
      PROVE  [Rpc!Next]_(Rpc!vars)
  BY <1>2, Stutter DEF CallerWriteReturns, CallerResumes, TaskWriteReturns, Outcomes, Served
<1>3. ASSUME NEW r \in Req, CallerWriteRaises(r) \/ TaskWriteRaises(r)
      PROVE  [Rpc!Next]_(Rpc!vars)
  <2>1. UNCHANGED <<txQueues, value>> /\ wire[r] = "writing"
        /\ wire' = [wire EXCEPT ![r] = "failed"] /\ Fail(r)
    BY <1>3 DEF CallerWriteRaises, TaskWriteRaises
  <2>2. UNCHANGED Served
    BY <1>0, <2>1 DEF Served, TypeOK
  <2>3. CASE future[r] = "pending"
    BY <1>0, <2>1, <2>2, <2>3, AbandonStep DEF Fail, Rpc!Next
  <2>4. CASE future[r] # "pending"
    BY <2>1, <2>2, <2>4, Stutter DEF Fail, Outcomes
  <2> QED
    BY <2>3, <2>4
<1>4. ASSUME NEW r \in Req, Cancel(r) PROVE [Rpc!Next]_(Rpc!vars)
  <2>1. UNCHANGED <<txQueues, value>> /\ UNCHANGED Served
    BY <1>4 DEF Cancel, Served
  <2>2. CASE pc[r] = "awaiting" /\ future[r] = "pending"
    BY <1>0, <1>4, <2>1, <2>2, AbandonStep DEF Cancel, Rpc!Next
  <2>3. CASE ~(pc[r] = "awaiting" /\ future[r] = "pending")
    BY <1>4, <2>1, <2>3, Stutter DEF Cancel, Outcomes
  <2> QED
    BY <2>2, <2>3
<1>5. ASSUME NEW r \in Req, WireSend(r) PROVE Rpc!Serve(TxOf[r])
  <2>1. TxOf[r] \in Tx /\ Solicited(TxOf[r])
    BY <1>0, <1>a
  <2>2. txQueues[TxOf[r]] # <<>> /\ r = Head(txQueues[TxOf[r]])
    BY <1>0, <1>5, <2>1 DEF WireSend, OneOutstanding, Outstanding, Current
  <2>3. r \notin Served /\ Served' = Served \cup {r}
    BY <1>0, <1>5 DEF WireSend, Served, TypeOK
  <2> QED
    BY <1>5, <2>2, <2>3 DEF WireSend, Rpc!Serve, Outcomes
<1>6. ASSUME NEW r \in Req, NEW k \in Kinds, PeerAnswers(r, k) PROVE [Rpc!Next]_(Rpc!vars)
  <2>1. UNCHANGED Served
    BY <1>0, <1>6 DEF PeerAnswers, Served, TypeOK
  <2> QED
    BY <1>6, <2>1, Stutter DEF PeerAnswers, Outcomes
<1>7. ASSUME NEW m \in inbox, HandleResponse(m) PROVE Rpc!Answer(m.tx, m.kind)
  <2> DEFINE c == Head(txQueues[m.tx])
  <2>1. m \in Frames /\ m.tx \in Tx /\ Solicited(m.tx)
    BY <1>0, <1>a DEF TypeOK, Frames
  <2>2. m.req # NoReq /\ m.req \in Req /\ TxOf[m.req] = m.tx /\ wire[m.req] = "answered"
    BY <1>0, <2>1 DEF FramesAnswerOnce, Frames
  <2>3. m.req = c /\ txQueues[m.tx] # <<>>
    BY <1>0, <2>1, <2>2 DEF OneOutstanding, Outstanding, Current
  <2>4. future[c] = "pending" /\ future' = [future EXCEPT ![c] = "result"]
        /\ value' = [value EXCEPT ![c] = m] /\ c \in Req
    BY <1>7, <2>2, <2>3 DEF HandleResponse, Succeed, Current
  <2>5. Outcomes[c] = Rpc!Waiting /\ Outcomes' = [Outcomes EXCEPT ![c] = Rpc!Answered(c, m.kind)]
    BY <1>0, <2>1, <2>3, <2>4 DEF Outcomes, Outcome, Rpc!Waiting, Rpc!Answered, TypeOK
  <2>6. txQueues' = [txQueues EXCEPT ![m.tx] = Tail(@)]
    BY <1>7 DEF HandleResponse, RemoveCurrentAndSendNext
  <2>7. UNCHANGED Served
    <3> DEFINE rest == Tail(txQueues[m.tx])
    <3>1. CASE rest = <<>>
      BY <1>7, <3>1 DEF HandleResponse, RemoveCurrentAndSendNext, Served
    <3>2. CASE rest # <<>>
      <4>1. txQueues[m.tx] \in Seq(Req)
        BY <1>0, <2>1 DEF TypeOK
      <4>2. 2 \in DOMAIN txQueues[m.tx] /\ Head(rest) = txQueues[m.tx][2] /\ Head(rest) \in Req
        BY <2>3, <3>2, <4>1, TailOfQueue
      <4>3. wire[Head(rest)] = "none"
        BY <2>1, <4>2 DEF IInv, OnlyHeadWritten
      <4>4. wire' = [wire EXCEPT ![Head(rest)] = "writing"]
        BY <1>7, <3>2 DEF HandleResponse, RemoveCurrentAndSendNext
      <4> QED
        BY <1>0, <4>2, <4>3, <4>4 DEF Served, TypeOK
    <3> QED
      BY <3>1, <3>2
  <2>8. c \in Served
    BY <2>2, <2>3 DEF Served
  <2> QED
    BY <2>3, <2>5, <2>6, <2>7, <2>8 DEF Rpc!Answer, Outcomes
<1>8. ASSUME NEW m \in inbox, HandleResponseOfDoneFuture(m) \/ HandleUnknownResponse(m)
      PROVE  [Rpc!Next]_(Rpc!vars)
  BY <1>8, Stutter DEF HandleResponseOfDoneFuture, HandleUnknownResponse, Outcomes, Served
<1>9. ASSUME NEW t \in Tx, NEW k \in Kinds, StrayFrame(t, k) PROVE FALSE
  BY <1>9 DEF StrayFrame, MayHurt, Solicited
<1>10. CASE UNCHANGED vars
  BY <1>10, Stutter DEF vars, Outcomes, Served
<1>11. \A m \in inbox : m.tx \in Tx /\ m.kind \in Kinds
  BY <1>0 DEF TypeOK, Frames
<1>12. \A r \in Req : Ask(r) \/ WireSend(r) => Rpc!Next
  BY <1>1, <1>5 DEF Rpc!Next
<1>13. \A m \in inbox : HandleResponse(m) => Rpc!Next
  BY <1>7, <1>11 DEF Rpc!Next
<1> QED
  BY <1>2, <1>3, <1>4, <1>6, <1>8, <1>9, <1>10, <1>12, <1>13 DEF Next, Handle

\* A transaction's calls are served one at a time and in the order they were
\* made, and each gets the peer's answer to itself or is abandoned, for any
\* number of transactions, concurrent calls, failed writes and cancelled callers
\* (handler.py:329-336, msg_queue_handler.py:36-90).
THEOREM Refinement == Spec => ImplementsRpc
<1>1. Init => Rpc!Init
  BY DEF Init, Rpc!Init, Served, Outcome, Rpc!Unasked
<1>2. IInv /\ IInv' /\ [Next]_vars => [(\A t \in Tx : Solicited(t))' => Rpc!Next]_(Rpc!vars)
  BY StepRefines
<1> QED
  BY <1>1, <1>2, Invariance, PTL DEF Spec, ImplementsRpc
=============================================================================
