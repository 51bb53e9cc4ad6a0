--------------------------- MODULE HandlerProofs ---------------------------
(***************************************************************************)
(* Theorems about Handler, for any transactions, chaincode, ends of the    *)
(* stream and frames out of place.                                         *)
(***************************************************************************)
EXTENDS Handler, SequenceTheorems, FiniteSetTheorems, TLAPS

(***************************************************************************)
(* The inductive invariant.                                                *)
(***************************************************************************)

\* Frames of q that invoke belong to transactions of T, one to each at most.
Once(q, T) ==
  \A i \in 1 .. Len(q) : q[i].type \in InvokeTypes =>
    /\ q[i].tx \in T
    /\ \A j \in 1 .. Len(q) : q[j].type \in InvokeTypes /\ q[j].tx = q[i].tx => i = j

At(place) == {t \in Tx : pc[t] = place}

\* An invocation is where its frame is.
InvokedOnce == Once(stream, At("sent")) /\ Once(spawned, At("spawned"))

\* COMPLETED is written when the invocation ends, from a response it has.
CompletedSoFar ==
  \A t \in Tx : /\ completed[t] = IF pc[t] = "done" THEN <<Completed(t)>> ELSE <<>>
                /\ pc[t] \in {"completing", "done"} => resp[t] \in Statuses

\* A connection has started finitely many tasks.
LiveTx == {t \in Tx : pc[t] \in Live}
FewLive == IsFiniteSet(LiveTx)

IInv == TypeOK /\ InvokedOnce /\ CompletedSoFar /\ FewLive

Places == {"none", "sent", "spawned", "awaiting", "answered", "completing", "done", "failed",
           "refused", "cancelled"}

(***************************************************************************)
(* Queues of frames.                                                       *)
(***************************************************************************)

\* The frame that invokes at the head of a list is of a transaction that may have one.
LEMMA OnceHead ==
  ASSUME NEW q \in Seq(Frames), NEW T, Once(q, T), q # <<>>, Head(q).type \in InvokeTypes
  PROVE  Head(q).tx \in T
<1>1. Len(q) \in Nat \ {0}
  BY EmptySeq
<1>2. Head(q) = q[1] /\ 1 \in 1 .. Len(q)
  BY <1>1
<1> QED
  BY <1>2 DEF Once

\* More transactions may have one as well.
LEMMA OnceMono ==
  ASSUME NEW q, NEW S, NEW T, Once(q, S), S \subseteq T
  PROVE  Once(q, T)
BY DEF Once

\* The frames behind the head belong to other transactions.
LEMMA OnceTail ==
  ASSUME NEW q \in Seq(Frames), NEW S, NEW T, Once(q, S), q # <<>>,
         \A t \in S : t \in T \/ (t = Head(q).tx /\ Head(q).type \in InvokeTypes)
  PROVE  Once(Tail(q), T)
<1>1. Len(q) \in Nat \ {0}
  BY EmptySeq
<1>2. Head(q) = q[1] /\ 1 \in 1 .. Len(q)
  BY <1>1
<1>3. /\ Len(Tail(q)) = Len(q) - 1
      /\ \A i \in 1 .. Len(Tail(q)) : Tail(q)[i] = q[i + 1]
  BY HeadTailProperties
<1>4. \A i \in 1 .. Len(Tail(q)) : i + 1 \in 1 .. Len(q) /\ i + 1 # 1
  BY <1>1, <1>3
<1>5. ASSUME NEW i \in 1 .. Len(Tail(q)), Tail(q)[i].type \in InvokeTypes
      PROVE  /\ Tail(q)[i].tx \in T
             /\ \A j \in 1 .. Len(Tail(q)) :
                  Tail(q)[j].type \in InvokeTypes /\ Tail(q)[j].tx = Tail(q)[i].tx => i = j
  <2>1. q[i + 1].type \in InvokeTypes /\ q[i + 1].tx \in S
    BY <1>3, <1>4, <1>5 DEF Once
  <2>2. ~(q[i + 1].tx = Head(q).tx /\ Head(q).type \in InvokeTypes)
    BY <1>2, <1>4, <2>1 DEF Once
  <2>3. Tail(q)[i].tx \in T
    BY <1>3, <2>1, <2>2
  <2>4. ASSUME NEW j \in 1 .. Len(Tail(q)),
               Tail(q)[j].type \in InvokeTypes /\ Tail(q)[j].tx = Tail(q)[i].tx
        PROVE  i = j
    <3>1. i + 1 = j + 1
      BY <1>3, <1>4, <2>1, <2>4 DEF Once
    <3> QED
      BY <3>1
  <2> QED
    BY <2>3, <2>4
<1> QED
  BY <1>5 DEF Once

\* A frame of a transaction that has none is appended.
LEMMA OnceAppend ==
  ASSUME NEW q \in Seq(Frames), NEW f \in Frames, NEW S, NEW T, Once(q, S), S \subseteq T,
         f.type \in InvokeTypes => f.tx \in T /\ f.tx \notin S
  PROVE  Once(Append(q, f), T)
<1>1. /\ Len(q) \in Nat /\ Len(Append(q, f)) = Len(q) + 1 /\ Append(q, f)[Len(q) + 1] = f
      /\ \A i \in 1 .. Len(q) : Append(q, f)[i] = q[i]
  BY AppendProperties, LenProperties
<1>2. \A i \in 1 .. Len(q) + 1 : i \in 1 .. Len(q) \/ i = Len(q) + 1
  BY <1>1
<1>3. \A i \in 1 .. Len(q) : q[i].type \in InvokeTypes => q[i].tx \in S
  BY DEF Once
<1> QED
  BY <1>1, <1>2, <1>3 DEF Once

\* The empty list invokes nothing.
LEMMA OnceEmpty ==
  ASSUME NEW T
  PROVE  Once(<<>>, T)
BY DEF Once

\* A list of frames without its first,
LEMMA QueueTail ==
  ASSUME NEW q \in Seq(Frames), q # <<>>
  PROVE  Head(q) \in Frames /\ Tail(q) \in Seq(Frames) /\ Len(q) \in Nat /\ Len(Tail(q)) = Len(q) - 1
BY HeadTailProperties, LenProperties

\* and with one more.
LEMMA QueueAppend ==
  ASSUME NEW q \in Seq(Frames), NEW f \in Frames
  PROVE  Append(q, f) \in Seq(Frames) /\ Len(q) \in Nat /\ Len(Append(q, f)) = Len(q) + 1
BY AppendProperties, LenProperties

(***************************************************************************)
(* The initial state.                                                      *)
(***************************************************************************)

\* The invariant holds before the stream begins.
LEMMA InitIInv == Init => IInv
<1> SUFFICES ASSUME Init PROVE IInv
  OBVIOUS
<1>1. TypeOK
  <2>1. <<>> \in Seq(Frames) /\ <<>> \in Seq(Statuses)
    BY EmptySeq
  <2>2. 0 \in 0 .. MaxOdd /\ 0 \in 0 .. MaxAsks
    BY BoundsAssumption
  <2>3. /\ pc \in [Tx -> Places] /\ resp \in [Tx -> Statuses \cup {"none"}]
        /\ asks \in [Tx -> 0 .. MaxAsks]
        /\ completed \in [Tx -> Seq(Statuses)]
    BY <2>1, <2>2 DEF Init, Places
  <2>4. /\ conn \in {"registering", "reading", "gathering", "returned", "nil", "cancelled"}
        /\ state \in States /\ spawned \in Seq(Frames) /\ stream \in Seq(Frames)
        /\ owed \in SUBSET Tx /\ gone \in BOOLEAN
    BY <2>1 DEF Init, States
  <2>5. refusing \in Nat /\ refused \in Nat /\ shake \in 0 .. 2 /\ odd \in 0 .. MaxOdd
    BY <2>2 DEF Init
  <2> QED
    BY <2>3, <2>4, <2>5 DEF TypeOK, Statuses, Places
<1>2. InvokedOnce
  BY OnceEmpty DEF Init, InvokedOnce
<1>3. CompletedSoFar
  BY DEF Init, CompletedSoFar
<1>4. FewLive
  <2>1. LiveTx = {}
    BY DEF Init, LiveTx, Live
  <2> QED
    BY <2>1, FS_EmptySet DEF FewLive
<1> QED
  BY <1>1, <1>2, <1>3, <1>4 DEF IInv

(***************************************************************************)
(* What the steps do.                                                      *)
(***************************************************************************)

\* A frame is taken from the spawned tasks; one that invokes has its invocation.
LEMMA StartsEffect ==
  ASSUME IInv, Starts
  PROVE  /\ NextTask \in Frames /\ spawned' \in Seq(Frames)
         /\ Len(spawned) \in Nat /\ Len(spawned') = Len(spawned) - 1
         /\ NextTask.type \in InvokeTypes => NextTask.tx \in At("spawned")
<1>1. spawned \in Seq(Frames) /\ spawned # <<>> /\ spawned' = Tail(spawned)
  BY DEF IInv, TypeOK, Starts
<1> QED
  BY <1>1, QueueTail, OnceHead DEF NextTask, IInv, InvokedOnce

\* An invocation moves.
LEMMA Moves ==
  ASSUME TypeOK, NEW t \in Tx, NEW p \in Places, pc' = [pc EXCEPT ![t] = p]
  PROVE  /\ pc' \in [Tx -> Places] /\ pc'[t] = p
         /\ \A u \in Tx : u # t => pc'[u] = pc[u]
BY DEF TypeOK, Places

\* Chaincode suspends in a request or in the write of COMPLETED, or has raised.
LEMMA ChaincodeEffect ==
  ASSUME TypeOK, NEW t \in Tx, NEW outcome,
         ChaincodeRuns(t, outcome)
  PROVE  /\ pc'[t] \in {"awaiting", "completing", "failed"}
         /\ \A u \in Tx : u # t => pc'[u] = pc[u] /\ resp'[u] = resp[u]
         /\ pc'[t] = "completing" => resp'[t] \in Statuses
         /\ pc' \in [Tx -> Places]
         /\ resp' \in [Tx -> Statuses \cup {"none"}]
         /\ asks' \in [Tx -> 0 .. MaxAsks]
         /\ owed' \in SUBSET Tx
<1>1. CASE /\ asks[t] < MaxAsks
           /\ pc' = [pc EXCEPT ![t] = "awaiting"]
           /\ asks' = [asks EXCEPT ![t] = @ + 1]
           /\ owed' = owed \cup {t}
           /\ UNCHANGED resp
  <2>1. asks[t] + 1 \in 0 .. MaxAsks
    BY <1>1, BoundsAssumption DEF TypeOK
  <2>2. asks' \in [Tx -> 0 .. MaxAsks] /\ owed' \in SUBSET Tx
    BY <1>1, <2>1 DEF TypeOK
  <2>3. pc' \in [Tx -> Places] /\ pc'[t] = "awaiting" /\ \A u \in Tx : u # t => pc'[u] = pc[u]
    BY <1>1, Moves DEF Places
  <2> QED
    BY <1>1, <2>2, <2>3 DEF TypeOK
<1>2. CASE /\ pc' = [pc EXCEPT ![t] = "completing"]
           /\ resp' = [resp EXCEPT ![t] = IF outcome = "ok" THEN "ok" ELSE "error"]
           /\ UNCHANGED <<asks, owed>>
  <2>1. pc' \in [Tx -> Places] /\ pc'[t] = "completing" /\ \A u \in Tx : u # t => pc'[u] = pc[u]
    BY <1>2, Moves DEF Places
  <2>2. /\ resp'[t] \in Statuses /\ \A u \in Tx : u # t => resp'[u] = resp[u]
        /\ resp' \in [Tx -> Statuses \cup {"none"}]
    BY <1>2 DEF TypeOK, Statuses
  <2> QED
    BY <1>2, <2>1, <2>2 DEF TypeOK
<1>3. CASE pc' = [pc EXCEPT ![t] = "failed"] /\ UNCHANGED <<asks, owed, resp>>
  <2>1. pc' \in [Tx -> Places] /\ pc'[t] = "failed" /\ \A u \in Tx : u # t => pc'[u] = pc[u]
    BY <1>3, Moves DEF Places
  <2> QED
    BY <1>3, <2>1 DEF TypeOK
<1> QED
  BY <1>1, <1>2, <1>3 DEF ChaincodeRuns

\* A frame of the peer joins the stream.
LEMMA SendEffect ==
  ASSUME TypeOK, NEW type \in Types, NEW t \in Tx \cup {NoTx}, Send(type, t)
  PROVE  /\ [type |-> type, tx |-> t] \in Frames
         /\ stream' = Append(stream, [type |-> type, tx |-> t])
         /\ stream' \in Seq(Frames)
<1>1. [type |-> type, tx |-> t] \in Frames /\ stream \in Seq(Frames)
  BY DEF Frames, TypeOK
<1> QED
  BY <1>1, QueueAppend DEF Send

\* A frame goes from the stream to the spawned tasks.
LEMMA ReadEffect ==
  ASSUME IInv, Read
  PROVE  /\ Head(stream) \in Frames /\ spawned' = Append(spawned, Head(stream))
         /\ stream' \in Seq(Frames) /\ spawned' \in Seq(Frames)
         /\ Len(spawned) \in Nat /\ Len(spawned') = Len(spawned) + 1
         /\ Head(stream).type \in InvokeTypes => Head(stream).tx \in At("sent")
         /\ \A t \in Tx : \/ pc'[t] = pc[t]
                          \/ /\ Head(stream).type \in InvokeTypes /\ Head(stream).tx = t
                             /\ pc[t] = "sent" /\ pc'[t] = "spawned"
         /\ Head(stream).type \in InvokeTypes => pc'[Head(stream).tx] = "spawned"
         /\ pc' \in [Tx -> Places]
<1>1. stream \in Seq(Frames) /\ stream # <<>> /\ stream' = Tail(stream) /\ spawned \in Seq(Frames)
  BY DEF Read, IInv, TypeOK
<1>2. Head(stream) \in Frames /\ stream' \in Seq(Frames)
  BY <1>1, QueueTail
<1>3. spawned' = Append(spawned, Head(stream))
  BY DEF Read, Spawn
<1>4. Head(stream).type \in InvokeTypes => Head(stream).tx \in At("sent")
  BY <1>1, OnceHead DEF IInv, InvokedOnce
<1>5. pc' = [t \in Tx |-> IF Head(stream).tx = t /\ Head(stream).type \in InvokeTypes
                          THEN "spawned" ELSE pc[t]]
  BY DEF Read
<1>6. pc' \in [Tx -> Places]
  BY <1>5 DEF IInv, TypeOK, Places
<1>7. /\ \A t \in Tx : \/ pc'[t] = pc[t]
                       \/ /\ Head(stream).type \in InvokeTypes /\ Head(stream).tx = t
                          /\ pc[t] = "sent" /\ pc'[t] = "spawned"
      /\ Head(stream).type \in InvokeTypes => pc'[Head(stream).tx] = "spawned"
  BY <1>4, <1>5 DEF At
<1> QED
  BY <1>1, <1>2, <1>3, <1>4, <1>6, <1>7, QueueAppend

(***************************************************************************)
(* Types.                                                                  *)
(***************************************************************************)

\* Every step keeps the types.
LEMMA TypeStep == IInv /\ [Next]_vars => TypeOK'
<1> SUFFICES ASSUME IInv, [Next]_vars PROVE TypeOK'
  OBVIOUS
<1>0. TypeOK
  BY DEF IInv
<1> USE DEF shim, peer, Places
<1>1. CASE Registered
  BY <1>0, <1>1 DEF Registered, TypeOK
<1>2. CASE Read
  BY <1>0, <1>2, ReadEffect DEF Read, TypeOK
<1>3. CASE EndOfStream
  BY <1>0, <1>3 DEF EndOfStream, AfterStream, TypeOK
<1>4. CASE NilMessage
  BY <1>0, <1>4 DEF NilMessage, TypeOK
<1>5. CASE Gathered
  BY <1>0, <1>5 DEF Gathered, TypeOK
<1>6. CASE RpcCancelled
  <2>1. /\ spawned' \in Seq(Frames) /\ refusing' \in Nat
        /\ pc' \in [Tx -> Places]
    <3>1. CASE conn = "gathering"
      <4>1. pc' = [t \in Tx |-> IF pc[t] \in Live \cup {"spawned"} THEN "cancelled" ELSE pc[t]]
        BY <1>6, <3>1 DEF RpcCancelled
      <4>2. pc' \in [Tx -> Places]
        BY <1>0, <4>1 DEF TypeOK
      <4> QED
        BY <1>6, <3>1, <4>2, EmptySeq DEF RpcCancelled
    <3>2. CASE conn # "gathering"
      BY <1>0, <1>6, <3>2 DEF RpcCancelled, TypeOK
    <3> QED
      BY <3>1, <3>2
  <2> QED
    BY <1>0, <1>6, <2>1 DEF RpcCancelled, TypeOK
<1>7. CASE IgnoreKeepalive
  BY <1>0, <1>7, StartsEffect DEF IgnoreKeepalive, TypeOK
<1>8. CASE AdvanceState
  BY <1>0, <1>8, StartsEffect DEF AdvanceState, TypeOK, States
<1>9. CASE DeliverAnswer
  <2>1. pc' \in [Tx -> Places]
    BY <1>0, <1>9 DEF DeliverAnswer, TypeOK
  <2> QED
    BY <1>0, <1>9, <2>1, StartsEffect DEF DeliverAnswer, TypeOK
<1>10. CASE Refuse
  <2>1. pc' \in [Tx -> Places]
    BY <1>0, <1>10 DEF Refuse, TypeOK
  <2>2. refusing' \in Nat /\ spawned' \in Seq(Frames)
    BY <1>0, <1>10, StartsEffect DEF Refuse, TypeOK
  <2> QED
    BY <1>0, <1>10, <2>1, <2>2 DEF Refuse, TypeOK
<1>11. CASE Invoke
  <2>1. PICK outcome \in Outcomes : ChaincodeRuns(NextTask.tx, outcome)
    BY <1>11 DEF Invoke
  <2>2. NextTask.tx \in Tx /\ spawned' \in Seq(Frames)
    BY <1>11, StartsEffect DEF Invoke, At
  <2>3. /\ pc' \in [Tx -> Places] /\ resp' \in [Tx -> Statuses \cup {"none"}]
        /\ asks' \in [Tx -> 0 .. MaxAsks]
        /\ owed' \in SUBSET Tx
    BY <1>0, <2>1, <2>2, ChaincodeEffect
  <2> QED
    BY <1>0, <1>11, <2>2, <2>3 DEF Invoke, TypeOK
<1>12. CASE RefusalEnds
  <2>1. refusing' \in Nat /\ refused' \in Nat
    BY <1>0, <1>12 DEF RefusalEnds, TypeOK
  <2> QED
    BY <1>0, <1>12, <2>1 DEF RefusalEnds, TypeOK
<1>13. ASSUME NEW t \in Tx, Resume(t) PROVE TypeOK'
  <2>1. PICK outcome \in Outcomes : ChaincodeRuns(t, outcome)
    BY <1>13 DEF Resume
  <2>2. /\ pc' \in [Tx -> Places] /\ resp' \in [Tx -> Statuses \cup {"none"}]
        /\ asks' \in [Tx -> 0 .. MaxAsks]
        /\ owed' \in SUBSET Tx
    BY <1>0, <2>1, ChaincodeEffect
  <2> QED
    BY <1>0, <1>13, <2>2 DEF Resume, TypeOK
<1>14. ASSUME NEW t \in Tx, CompletedWritten(t) PROVE TypeOK'
  <2>1. Completed(t) \in Statuses
    BY <1>14 DEF IInv, CompletedSoFar, Completed, Statuses, CompletedWritten
  <2>2. Append(completed[t], Completed(t)) \in Seq(Statuses)
    BY <1>0, <2>1, AppendProperties DEF TypeOK, Statuses
  <2>3. completed' \in [Tx -> Seq(Statuses)] /\ pc' \in [Tx -> Places]
    BY <1>0, <1>14, <2>2 DEF CompletedWritten, Complete, TypeOK, Statuses
  <2> QED
    BY <1>0, <1>14, <2>3 DEF CompletedWritten, TypeOK, Statuses
<1>15. ASSUME NEW t \in Tx, CompletedRaises(t) PROVE TypeOK'
  BY <1>0, <1>15 DEF CompletedRaises, TypeOK
<1>16. CASE PeerHandshake
  <2>1. stream' \in Seq(Frames) /\ shake' \in 0 .. 2
    <3>1. PICK type \in Types : Send(type, NoTx)
      BY <1>16 DEF PeerHandshake, Types
    <3>2. stream' \in Seq(Frames)
      BY <1>0, <3>1, SendEffect
    <3>3. shake' \in 0 .. 2
      BY <1>0, <1>16 DEF PeerHandshake, TypeOK
    <3> QED
      BY <3>2, <3>3
  <2> QED
    BY <1>0, <1>16, <2>1 DEF PeerHandshake, TypeOK
<1>17. ASSUME NEW t \in Tx, NEW type \in InvokeTypes,
              PeerInvokes(t, type) \/ PeerInvokesEarly(t, type)
       PROVE  TypeOK'
  <2>1. stream' \in Seq(Frames) /\ pc' \in [Tx -> Places]
    BY <1>0, <1>17, SendEffect DEF PeerInvokes, PeerInvokesEarly, Types, TypeOK
  <2>2. odd' \in 0 .. MaxOdd
    BY <1>0, <1>17, BoundsAssumption DEF PeerInvokes, PeerInvokesEarly, TypeOK
  <2> QED
    BY <1>0, <1>17, <2>1, <2>2 DEF PeerInvokes, PeerInvokesEarly, TypeOK
<1>18. ASSUME NEW t \in Tx, NEW type \in AnswerTypes, PeerAnswers(t, type) PROVE TypeOK'
  <2>1. stream' \in Seq(Frames) /\ owed' \in SUBSET Tx
    BY <1>0, <1>18, SendEffect DEF PeerAnswers, Types, TypeOK
  <2> QED
    BY <1>0, <1>18, <2>1 DEF PeerAnswers, TypeOK
<1>19. CASE PeerKeepsAlive \/ \E type \in OddTypes : PeerStrays(type)
  <2>1. PICK type \in Types : Send(type, NoTx)
    BY <1>19 DEF PeerKeepsAlive, PeerStrays, Types
  <2>2. stream' \in Seq(Frames)
    BY <1>0, <2>1, SendEffect
  <2>3. odd' \in 0 .. MaxOdd
    BY <1>0, <1>19, BoundsAssumption DEF PeerKeepsAlive, PeerStrays, TypeOK
  <2> QED
    BY <1>0, <1>19, <2>2, <2>3 DEF PeerKeepsAlive, PeerStrays, TypeOK
<1>20. CASE PeerCloses
  BY <1>0, <1>20 DEF PeerCloses, TypeOK
<1>21. CASE UNCHANGED vars
  BY <1>0, <1>21 DEF vars, TypeOK
<1> QED
  BY <1>1, <1>2, <1>3, <1>4, <1>5, <1>6, <1>7, <1>8, <1>9, <1>10, <1>11, <1>12, <1>13, <1>14,
     <1>15, <1>16, <1>17, <1>18, <1>19, <1>20, <1>21 DEF Next, StartTask

(***************************************************************************)
(* Invocations and their frames.                                           *)
(***************************************************************************)

\* The frame that starts a task is gone, and its invocation with it or not.
LEMMA StartsOnce ==
  ASSUME IInv, Starts, stream' = stream,
         \A t \in Tx : \/ pc'[t] = pc[t]
                       \/ pc[t] \notin {"sent", "spawned"}
                       \/ pc[t] = "spawned" /\ t = NextTask.tx /\ NextTask.type \in InvokeTypes,
         pc' \in [Tx -> Places],
         \A t \in Tx : pc[t] \notin {"sent", "spawned"} => pc'[t] \notin {"sent", "spawned"}
  PROVE  InvokedOnce'
<1>1. /\ Once(stream, At("sent")) /\ Once(spawned, At("spawned"))
      /\ spawned \in Seq(Frames) /\ spawned # <<>> /\ spawned' = Tail(spawned)
  BY DEF IInv, InvokedOnce, TypeOK, Starts
<1>2. At("sent") \subseteq {t \in Tx : pc'[t] = "sent"}
  BY DEF At
<1>3. Once(stream, {t \in Tx : pc'[t] = "sent"})
  BY <1>1, <1>2, OnceMono
<1>4. \A t \in At("spawned") : \/ t \in {u \in Tx : pc'[u] = "spawned"}
                               \/ t = Head(spawned).tx /\ Head(spawned).type \in InvokeTypes
  BY DEF At, NextTask
<1>5. Once(Tail(spawned), {t \in Tx : pc'[t] = "spawned"})
  BY <1>1, <1>4, OnceTail
<1> QED
  BY <1>1, <1>3, <1>5 DEF InvokedOnce, At

\* No frame moves and no invocation that waits for its start.
LEMMA StaysOnce ==
  ASSUME InvokedOnce, UNCHANGED <<stream, spawned>>,
         \A t \in Tx : pc[t] \in {"sent", "spawned"} => pc'[t] = pc[t]
  PROVE  InvokedOnce'
<1>1. At("sent") \subseteq {t \in Tx : pc'[t] = "sent"}
  BY DEF At
<1>2. At("spawned") \subseteq {t \in Tx : pc'[t] = "spawned"}
  BY DEF At
<1>3. Once(stream, {t \in Tx : pc'[t] = "sent"}) /\ Once(spawned, {t \in Tx : pc'[t] = "spawned"})
  BY <1>1, <1>2, OnceMono DEF InvokedOnce
<1> QED
  BY <1>3 DEF InvokedOnce, At

\* The peer sends a frame; if it invokes, it is the transaction's first.
LEMMA SendsOnce ==
  ASSUME IInv, NEW type \in Types, NEW t \in Tx \cup {NoTx}, Send(type, t), spawned' = spawned,
         type \in InvokeTypes => t \in Tx /\ pc[t] = "none" /\ pc'[t] = "sent",
         \A u \in Tx : u # t \/ type \notin InvokeTypes => pc'[u] = pc[u]
  PROVE  InvokedOnce'
<1> DEFINE f == [type |-> type, tx |-> t]
           S == {u \in Tx : pc'[u] = "sent"}
<1>1. /\ f \in Frames /\ stream' = Append(stream, f)
      /\ stream \in Seq(Frames) /\ Once(stream, At("sent")) /\ Once(spawned, At("spawned"))
  BY SendEffect DEF IInv, InvokedOnce, TypeOK
<1>2. At("sent") \subseteq S /\ (type \in InvokeTypes => t \in S /\ t \notin At("sent"))
  BY DEF At
<1>3. Once(Append(stream, f), S)
  BY <1>1, <1>2, OnceAppend
<1>4. At("spawned") \subseteq {u \in Tx : pc'[u] = "spawned"}
  BY DEF At
<1>5. Once(spawned, {u \in Tx : pc'[u] = "spawned"})
  BY <1>1, <1>4, OnceMono
<1> QED
  BY <1>1, <1>3, <1>5 DEF InvokedOnce, At

\* Every step keeps a frame that invokes in one place.
LEMMA InvokedOnceStep == IInv /\ [Next]_vars => InvokedOnce'
<1> SUFFICES ASSUME IInv, [Next]_vars PROVE InvokedOnce'
  OBVIOUS
<1>0. TypeOK /\ InvokedOnce
  BY DEF IInv
<1> USE DEF shim, peer
<1>1. CASE UNCHANGED <<stream, spawned, pc>>
  BY <1>0, <1>1, StaysOnce
<1>2. CASE Read
  <2> DEFINE f == Head(stream)
             S == {t \in Tx : pc'[t] = "sent"}
             W == {t \in Tx : pc'[t] = "spawned"}
  <2>1. /\ Once(stream, At("sent")) /\ Once(spawned, At("spawned"))
        /\ spawned \in Seq(Frames) /\ stream \in Seq(Frames)
        /\ stream # <<>> /\ stream' = Tail(stream)
    BY <1>0, <1>2 DEF InvokedOnce, TypeOK, Read
  <2>2. \A t \in At("sent") : t \in S \/ (t = f.tx /\ f.type \in InvokeTypes)
    BY <1>2, ReadEffect DEF At
  <2>3. Once(Tail(stream), S)
    BY <2>1, <2>2, OnceTail
  <2>4. /\ At("spawned") \subseteq W /\ (f.type \in InvokeTypes => f.tx \in W /\ f.tx \notin At("spawned"))
        /\ f \in Frames /\ spawned' = Append(spawned, f)
    BY <1>2, ReadEffect DEF At
  <2>5. Once(Append(spawned, f), W)
    BY <2>1, <2>4, OnceAppend
  <2> QED
    BY <2>1, <2>3, <2>4, <2>5 DEF InvokedOnce, At
<1>3. CASE RpcCancelled
  <2>1. CASE conn = "gathering"
    <3>1. /\ spawned' = <<>> /\ stream' = stream
          /\ \A t \in Tx : pc[t] = "sent" => pc'[t] = pc[t]
      BY <1>3, <2>1 DEF RpcCancelled, Live
    <3>2. At("sent") \subseteq {t \in Tx : pc'[t] = "sent"}
      BY <3>1 DEF At
    <3>3. Once(stream, {t \in Tx : pc'[t] = "sent"})
      BY <1>0, <3>2, OnceMono DEF InvokedOnce
    <3>4. Once(<<>>, {t \in Tx : pc'[t] = "spawned"})
      BY OnceEmpty
    <3> QED
      BY <3>1, <3>3, <3>4 DEF InvokedOnce, At
  <2>2. CASE conn # "gathering"
    BY <1>0, <1>3, <2>2, StaysOnce DEF RpcCancelled
  <2> QED
    BY <2>1, <2>2
<1>4. CASE IgnoreKeepalive \/ AdvanceState
  BY <1>0, <1>4, StartsOnce DEF IgnoreKeepalive, AdvanceState, TypeOK, Places
<1>5. CASE DeliverAnswer
  <2>1. Starts /\ stream' = stream /\ pc' \in [Tx -> Places]
    BY <1>0, <1>5 DEF DeliverAnswer, TypeOK, Places
  <2>2. \A t \in Tx : pc'[t] = pc[t] \/ (pc[t] = "awaiting" /\ pc'[t] = "answered")
    BY <1>0, <1>5 DEF DeliverAnswer, TypeOK
  <2> QED
    BY <2>1, <2>2, StartsOnce
<1>6. CASE Refuse
  <2>1. Starts /\ stream' = stream /\ pc' \in [Tx -> Places]
    BY <1>0, <1>6 DEF Refuse, TypeOK, Places
  <2>2. \A t \in Tx : \/ pc'[t] = pc[t]
                      \/ /\ t = NextTask.tx /\ NextTask.type \in InvokeTypes
                         /\ pc[t] = "spawned" /\ pc'[t] = "refused"
    <3>1. NextTask.type \in InvokeTypes => pc[NextTask.tx] = "spawned"
      BY <2>1, StartsEffect DEF At
    <3> QED
      BY <1>6, <3>1 DEF Refuse
  <2> QED
    BY <2>1, <2>2, StartsOnce
<1>7. CASE Invoke
  <2>1. PICK outcome \in Outcomes : ChaincodeRuns(NextTask.tx, outcome)
    BY <1>7 DEF Invoke
  <2>2. /\ Starts /\ stream' = stream /\ NextTask.type \in InvokeTypes
        /\ NextTask.tx \in Tx /\ pc[NextTask.tx] = "spawned"
    BY <1>7, StartsEffect DEF Invoke, At
  <2>3. /\ pc' \in [Tx -> Places] /\ pc'[NextTask.tx] \in {"awaiting", "completing", "failed"}
        /\ \A u \in Tx : u # NextTask.tx => pc'[u] = pc[u]
    BY <1>0, <2>1, <2>2, ChaincodeEffect
  <2> QED
    BY <2>2, <2>3, StartsOnce
<1>8. ASSUME NEW t \in Tx, Resume(t) PROVE InvokedOnce'
  <2>1. PICK outcome \in Outcomes : ChaincodeRuns(t, outcome)
    BY <1>8 DEF Resume
  <2>2. \A u \in Tx : u # t => pc'[u] = pc[u]
    BY <1>0, <2>1, ChaincodeEffect
  <2> QED
    BY <1>0, <1>8, <2>2, StaysOnce DEF Resume
<1>9. ASSUME NEW t \in Tx, CompletedWritten(t) \/ CompletedRaises(t) PROVE InvokedOnce'
  <2>1. /\ pc[t] = "completing" /\ UNCHANGED <<stream, spawned>>
        /\ \A u \in Tx : u # t => pc'[u] = pc[u]
    BY <1>0, <1>9 DEF CompletedWritten, CompletedRaises, TypeOK
  <2> QED
    BY <1>0, <2>1, StaysOnce
<1>10. CASE PeerHandshake \/ PeerKeepsAlive \/ \E type \in OddTypes : PeerStrays(type)
  <2>1. PICK type \in Types : Send(type, NoTx) /\ type \notin InvokeTypes
    <3>1. CASE PeerHandshake \/ PeerKeepsAlive
      <4>1. PICK type \in {"REGISTERED", "READY", "KEEPALIVE"} : Send(type, NoTx)
        BY <3>1 DEF PeerHandshake, PeerKeepsAlive
      <4> QED
        BY <4>1 DEF Types, InvokeTypes
    <3>2. ASSUME NEW type \in OddTypes, PeerStrays(type)
          PROVE  Send(type, NoTx) /\ type \in Types /\ type \notin InvokeTypes
      BY <3>2, OddTypesAssumption DEF PeerStrays, Types, InvokeTypes
    <3> QED
      BY <1>10, <3>1, <3>2
  <2>2. spawned' = spawned /\ pc' = pc
    BY <1>10 DEF PeerHandshake, PeerKeepsAlive, PeerStrays
  <2> QED
    BY <2>1, <2>2, SendsOnce
<1>11. ASSUME NEW t \in Tx, NEW type \in AnswerTypes, PeerAnswers(t, type) PROVE InvokedOnce'
  <2>1. Send(type, t) /\ type \in Types /\ type \notin InvokeTypes
    BY <1>11 DEF PeerAnswers, Types, AnswerTypes, InvokeTypes
  <2>2. spawned' = spawned /\ pc' = pc
    BY <1>11 DEF PeerAnswers
  <2> QED
    BY <2>1, <2>2, SendsOnce
<1>12. ASSUME NEW t \in Tx, NEW type \in InvokeTypes,
              PeerInvokes(t, type) \/ PeerInvokesEarly(t, type)
       PROVE  InvokedOnce'
  <2>1. /\ Send(type, t) /\ type \in Types /\ spawned' = spawned
        /\ pc[t] = "none" /\ pc'[t] = "sent"
        /\ \A u \in Tx : u # t => pc'[u] = pc[u]
    BY <1>0, <1>12 DEF PeerInvokes, PeerInvokesEarly, Types, TypeOK
  <2> QED
    BY <2>1, SendsOnce
<1>13. CASE Registered \/ EndOfStream \/ NilMessage \/ Gathered \/ RefusalEnds \/ PeerCloses
            \/ UNCHANGED vars
  BY <1>1, <1>13
  DEF Registered, EndOfStream, NilMessage, Gathered, RefusalEnds, PeerCloses, vars
<1> QED
  BY <1>2, <1>3, <1>4, <1>5, <1>6, <1>7, <1>8, <1>9, <1>10, <1>11, <1>12, <1>13
  DEF Next, StartTask

(***************************************************************************)
(* COMPLETED messages.                                                     *)
(***************************************************************************)

\* No message is written and no invocation comes to its end.
LEMMA KeepsCompleted ==
  ASSUME CompletedSoFar, UNCHANGED <<completed, resp>>,
         \A t \in Tx : \/ pc'[t] = pc[t]
                       \/ pc[t] # "done" /\ pc'[t] \notin {"completing", "done"}
  PROVE  CompletedSoFar'
BY DEF CompletedSoFar, Completed

\* Chaincode that runs leaves the response that COMPLETED will have.
LEMMA ChaincodeCompleted ==
  ASSUME TypeOK, CompletedSoFar, NEW t \in Tx, NEW outcome,
         ChaincodeRuns(t, outcome), pc[t] # "done", completed' = completed
  PROVE  CompletedSoFar'
<1>1. /\ pc'[t] \in {"awaiting", "completing", "failed"}
      /\ \A u \in Tx : u # t => pc'[u] = pc[u] /\ resp'[u] = resp[u]
      /\ pc'[t] = "completing" => resp'[t] \in Statuses
  BY ChaincodeEffect
<1>2. ASSUME NEW u \in Tx
      PROVE  /\ completed'[u] = IF pc'[u] = "done" THEN <<Completed(u)'>> ELSE <<>>
             /\ pc'[u] \in {"completing", "done"} => resp'[u] \in Statuses
  <2>1. CASE u = t
    BY <1>1, <2>1 DEF CompletedSoFar
  <2>2. CASE u # t
    BY <1>1, <2>2 DEF CompletedSoFar, Completed
  <2> QED
    BY <2>1, <2>2
<1> QED
  BY <1>2 DEF CompletedSoFar

\* Every step keeps what has been completed, and the response of what will be.
LEMMA CompletedSoFarStep == IInv /\ [Next]_vars => CompletedSoFar'
<1> SUFFICES ASSUME IInv, [Next]_vars PROVE CompletedSoFar'
  OBVIOUS
<1>0. TypeOK /\ CompletedSoFar
  BY DEF IInv
<1> USE DEF shim, peer
<1>1. CASE UNCHANGED <<completed, resp, pc>>
  BY <1>0, <1>1, KeepsCompleted
<1>2. CASE Read
  BY <1>0, <1>2, ReadEffect, KeepsCompleted DEF Read
<1>3. CASE RpcCancelled
  <2>1. \A t \in Tx : pc'[t] = pc[t] \/ (pc[t] # "done" /\ pc'[t] = "cancelled")
    <3>1. CASE conn = "gathering"
      BY <1>3, <3>1 DEF RpcCancelled, Live
    <3>2. CASE conn # "gathering"
      BY <1>3, <3>2 DEF RpcCancelled
    <3> QED
      BY <3>1, <3>2
  <2>2. UNCHANGED <<completed, resp>>
    BY <1>3 DEF RpcCancelled
  <2> QED
    BY <1>0, <2>1, <2>2, KeepsCompleted
<1>4. CASE DeliverAnswer
  <2>1. \A t \in Tx : pc'[t] = pc[t] \/ (pc[t] = "awaiting" /\ pc'[t] = "answered")
    BY <1>0, <1>4 DEF DeliverAnswer, TypeOK
  <2> QED
    BY <1>0, <1>4, <2>1, KeepsCompleted DEF DeliverAnswer
<1>5. CASE Refuse
  <2>1. NextTask.type \in InvokeTypes => pc[NextTask.tx] = "spawned"
    BY <1>5, StartsEffect DEF Refuse, At
  <2>2. \A t \in Tx : pc'[t] = pc[t] \/ (pc[t] = "spawned" /\ pc'[t] = "refused")
    BY <1>5, <2>1 DEF Refuse
  <2> QED
    BY <1>0, <1>5, <2>2, KeepsCompleted DEF Refuse
<1>6. CASE Invoke
  <2>1. PICK outcome \in Outcomes : ChaincodeRuns(NextTask.tx, outcome)
    BY <1>6 DEF Invoke
  <2>2. NextTask.tx \in Tx /\ pc[NextTask.tx] = "spawned" /\ completed' = completed
    BY <1>6, StartsEffect DEF Invoke, At
  <2> QED
    BY <1>0, <2>1, <2>2, ChaincodeCompleted
<1>7. ASSUME NEW t \in Tx, Resume(t) PROVE CompletedSoFar'
  <2>1. PICK outcome \in Outcomes : ChaincodeRuns(t, outcome)
    BY <1>7 DEF Resume
  <2> QED
    BY <1>0, <1>7, <2>1, ChaincodeCompleted DEF Resume
<1>8. ASSUME NEW t \in Tx, CompletedWritten(t) PROVE CompletedSoFar'
  <2>1. /\ pc[t] = "completing" /\ pc'[t] = "done" /\ resp' = resp
        /\ \A u \in Tx : u # t => pc'[u] = pc[u] /\ completed'[u] = completed[u]
        /\ completed'[t] = Append(completed[t], Completed(t))
    BY <1>0, <1>8 DEF CompletedWritten, Complete, TypeOK
  <2>2. completed[t] = <<>> /\ resp[t] \in Statuses
    BY <1>0, <2>1 DEF CompletedSoFar
  <2>3. completed'[t] = <<Completed(t)>>
    BY <2>1, <2>2
  <2>4. ASSUME NEW u \in Tx
        PROVE  /\ completed'[u] = IF pc'[u] = "done" THEN <<Completed(u)'>> ELSE <<>>
               /\ pc'[u] \in {"completing", "done"} => resp'[u] \in Statuses
    <3>1. CASE u = t
      BY <2>1, <2>2, <2>3, <3>1 DEF Completed
    <3>2. CASE u # t
      BY <1>0, <2>1, <3>2 DEF CompletedSoFar, Completed
    <3> QED
      BY <3>1, <3>2
  <2> QED
    BY <2>4 DEF CompletedSoFar
<1>9. ASSUME NEW t \in Tx, CompletedRaises(t) PROVE CompletedSoFar'
  <2>1. \A u \in Tx : pc'[u] = pc[u] \/ (pc[u] = "completing" /\ pc'[u] = "failed")
    BY <1>0, <1>9 DEF CompletedRaises, TypeOK
  <2> QED
    BY <1>0, <1>9, <2>1, KeepsCompleted DEF CompletedRaises
<1>10. ASSUME NEW t \in Tx, NEW type \in InvokeTypes,
              PeerInvokes(t, type) \/ PeerInvokesEarly(t, type)
       PROVE  CompletedSoFar'
  <2>1. \A u \in Tx : pc'[u] = pc[u] \/ (pc[u] = "none" /\ pc'[u] = "sent")
    BY <1>0, <1>10 DEF PeerInvokes, PeerInvokesEarly, TypeOK
  <2> QED
    BY <1>0, <1>10, <2>1, KeepsCompleted DEF PeerInvokes, PeerInvokesEarly
<1>11. CASE \/ Registered \/ EndOfStream \/ NilMessage \/ Gathered \/ IgnoreKeepalive
            \/ AdvanceState \/ RefusalEnds \/ PeerHandshake
            \/ \E t \in Tx : \E type \in AnswerTypes : PeerAnswers(t, type)
            \/ PeerKeepsAlive \/ \E type \in OddTypes : PeerStrays(type)
            \/ PeerCloses \/ UNCHANGED vars
  BY <1>1, <1>11
  DEF Registered, EndOfStream, NilMessage, Gathered, IgnoreKeepalive, AdvanceState, RefusalEnds,
      PeerHandshake, PeerAnswers, PeerKeepsAlive, PeerStrays, PeerCloses, vars
<1> QED
  BY <1>2, <1>3, <1>4, <1>5, <1>6, <1>7, <1>8, <1>9, <1>10, <1>11 DEF Next, StartTask

(***************************************************************************)
(* Tasks of the connection.                                                *)
(***************************************************************************)

\* The number of pending tasks is a number.
LEMMA TasksType ==
  ASSUME TypeOK, FewLive
  PROVE  /\ Len(spawned) \in Nat /\ refusing \in Nat /\ Cardinality(LiveTx) \in Nat
         /\ Tasks = Len(spawned) + refusing + Cardinality(LiveTx) /\ Tasks \in Nat
<1>1. Len(spawned) \in Nat /\ refusing \in Nat
  BY LenProperties DEF TypeOK
<1>2. Cardinality(LiveTx) \in Nat
  BY FS_CardinalityType DEF FewLive
<1> QED
  BY <1>1, <1>2 DEF Tasks, LiveTx

\* Some task is not done exactly while their number is not 0.
LEMMA UndoneTasks ==
  ASSUME TypeOK, FewLive
  PROVE  Undone <=> Tasks > 0
<1>1. Len(spawned) = 0 <=> spawned = <<>>
  BY EmptySeq DEF TypeOK
<1>2. Cardinality(LiveTx) = 0 <=> LiveTx = {}
  BY FS_EmptySet DEF FewLive
<1>3. LiveTx = {} <=> ~ \E t \in Tx : pc[t] \in Live
  BY DEF LiveTx
<1> QED
  BY <1>1, <1>2, <1>3, TasksType DEF Undone

\* The live invocations are the same ones when none begins or ends,
LEMMA LiveSame ==
  ASSUME FewLive, \A t \in Tx : pc'[t] \in Live <=> pc[t] \in Live
  PROVE  FewLive' /\ LiveTx' = LiveTx /\ Cardinality(LiveTx') = Cardinality(LiveTx)
<1>1. LiveTx' = LiveTx
  BY DEF LiveTx
<1> QED
  BY <1>1 DEF FewLive

\* one more when one begins,
LEMMA LiveMore ==
  ASSUME FewLive, NEW t \in Tx, pc[t] \notin Live, pc'[t] \in Live,
         \A u \in Tx : u # t => pc'[u] = pc[u]
  PROVE  FewLive' /\ Cardinality(LiveTx') = Cardinality(LiveTx) + 1
<1>1. LiveTx' = LiveTx \cup {t} /\ t \notin LiveTx
  BY DEF LiveTx
<1> QED
  BY <1>1, FS_AddElement DEF FewLive

\* one fewer when one ends,
LEMMA LiveLess ==
  ASSUME FewLive, NEW t \in Tx, pc[t] \in Live, pc'[t] \notin Live,
         \A u \in Tx : u # t => pc'[u] = pc[u]
  PROVE  FewLive' /\ Cardinality(LiveTx') = Cardinality(LiveTx) - 1
<1>1. LiveTx' = LiveTx \ {t} /\ t \in LiveTx
  BY DEF LiveTx
<1> QED
  BY <1>1, FS_RemoveElement DEF FewLive

\* and none when all end.
LEMMA LiveNone ==
  ASSUME \A t \in Tx : pc'[t] \notin Live
  PROVE  FewLive' /\ Cardinality(LiveTx') = 0
<1>1. LiveTx' = {}
  BY DEF LiveTx
<1> QED
  BY <1>1, FS_EmptySet DEF FewLive

(***************************************************************************)
(* The connection.                                                         *)
(***************************************************************************)

\* The pending tasks after a step.
LEMMA TasksNext == Tasks' = Len(spawned') + refusing' + Cardinality(LiveTx')
BY DEF Tasks, LiveTx

\* No task begins or ends, or one does.
LEMMA LinkStays ==
  ASSUME Life' = Life, Tasks' = Tasks
  PROVE  [Link!Next]_(Link!vars)
BY DEF Link!vars

\* A task more is a step of Connection,
LEMMA LinkBegin ==
  ASSUME Life = "open", Life' = Life, Tasks' = Tasks + 1
  PROVE  [Link!Next]_(Link!vars)
BY DEF Link!Next, Link!Begin

\* and so is a task fewer,
LEMMA LinkEnd ==
  ASSUME Tasks > 0, Life' = Life, Tasks' = Tasks - 1
  PROVE  [Link!Next]_(Link!vars)
BY DEF Link!Next, Link!End

\* and an end of the stream that does not wait.
LEMMA LinkDrop ==
  ASSUME Life \in {"open", "draining"}, Life' = "dropped",
         Tasks' = IF Life = "draining" THEN 0 ELSE Tasks
  PROVE  [Link!Next]_(Link!vars)
BY DEF Link!Next, Link!Drop

\* The life of the connection is that of the reader.
LEMMA LifeStays ==
  ASSUME conn' = conn
  PROVE  Life' = Life
BY DEF Life

\* A step of the tasks, chaincode and the peer: the set of live invocations stays.
LEMMA LinkSteady ==
  ASSUME TypeOK, FewLive, UNCHANGED <<conn, spawned, refusing>>,
         \A t \in Tx : pc'[t] \in Live <=> pc[t] \in Live
  PROVE  FewLive' /\ [Link!Next]_(Link!vars)
BY LiveSame, TasksType, TasksNext, LifeStays, LinkStays

\* A spawned task starts and ends at once.
LEMMA LinkStartEnds ==
  ASSUME IInv, Starts, UNCHANGED <<conn, refusing>>,
         \A t \in Tx : pc'[t] \in Live <=> pc[t] \in Live
  PROVE  FewLive' /\ [Link!Next]_(Link!vars)
<1>1. TypeOK /\ FewLive
  BY DEF IInv
<1>2. Len(spawned') = Len(spawned) - 1 /\ Len(spawned) \in Nat /\ Len(spawned) > 0
  BY <1>1, StartsEffect, EmptySeq DEF Starts, TypeOK
<1>3. FewLive' /\ Cardinality(LiveTx') = Cardinality(LiveTx)
  BY <1>1, LiveSame
<1>4. Tasks > 0 /\ Tasks' = Tasks - 1
  BY <1>1, <1>2, <1>3, TasksType, TasksNext
<1> QED
  BY <1>3, <1>4, LifeStays, LinkEnd

\* Every step of the handler is one of Connection, or a stutter.
LEMMA LinkStep == IInv /\ [Next]_vars => FewLive' /\ [Link!Next]_(Link!vars)
<1> SUFFICES ASSUME IInv, [Next]_vars PROVE FewLive' /\ [Link!Next]_(Link!vars)
  OBVIOUS
<1>0. TypeOK /\ FewLive
  BY DEF IInv
<1> USE DEF shim, peer
<1>1. ASSUME UNCHANGED <<spawned, pc, refusing>>
      PROVE  FewLive' /\ Tasks' = Tasks
  BY <1>0, <1>1, LiveSame, TasksType, TasksNext
<1>2. CASE Registered
  <2>1. Life = "open" /\ Life' = "open" /\ UNCHANGED <<spawned, pc, refusing>>
    BY <1>2 DEF Registered, Life
  <2> QED
    BY <1>1, <2>1, LinkStays
<1>3. CASE Read
  <2>1. \A t \in Tx : pc'[t] \in Live <=> pc[t] \in Live
    BY <1>3, ReadEffect DEF Live
  <2>2. FewLive' /\ Cardinality(LiveTx') = Cardinality(LiveTx)
    BY <1>0, <2>1, LiveSame
  <2>3. Len(spawned') = Len(spawned) + 1 /\ refusing' = refusing
    BY <1>3, ReadEffect DEF Read
  <2>4. Tasks' = Tasks + 1
    BY <1>0, <2>2, <2>3, TasksType, TasksNext
  <2>5. Life = "open" /\ Life' = Life
    BY <1>3, LifeStays DEF Read, Life
  <2> QED
    BY <2>2, <2>4, <2>5, LinkBegin
<1>4. CASE EndOfStream
  <2>1. /\ Life = "open" /\ UNCHANGED <<spawned, pc, refusing>>
        /\ conn' = IF Undone THEN "gathering" ELSE "returned"
    BY <1>4 DEF EndOfStream, AfterStream, Life
  <2>2. Life' = IF Tasks > 0 THEN "draining" ELSE "closed"
    BY <1>0, <2>1, UndoneTasks DEF Life
  <2>3. FewLive' /\ Tasks' = Tasks
    BY <1>1, <2>1
  <2> QED
    BY <2>1, <2>2, <2>3 DEF Link!Next, Link!Drain
<1>5. CASE NilMessage
  <2>1. Life = "open" /\ Life' = "dropped" /\ UNCHANGED <<spawned, pc, refusing>>
    BY <1>5 DEF NilMessage, Life
  <2> QED
    BY <1>1, <2>1, LinkDrop
<1>6. CASE Gathered
  <2>1. Life = "draining" /\ Life' = "closed" /\ ~Undone /\ UNCHANGED <<spawned, pc, refusing>>
    BY <1>6 DEF Gathered, Life
  <2>2. Tasks = 0
    BY <1>0, <2>1, UndoneTasks, TasksType
  <2>3. FewLive' /\ Tasks' = Tasks
    BY <1>1, <2>1
  <2> QED
    BY <2>1, <2>2, <2>3 DEF Link!Next, Link!Close
<1>7. CASE RpcCancelled
  <2>1. Life' = "dropped"
    BY <1>7 DEF RpcCancelled, Life
  <2>2. CASE conn = "gathering"
    <3>1. Life = "draining" /\ spawned' = <<>> /\ refusing' = 0
      BY <1>7, <2>2 DEF RpcCancelled, Life
    <3>2. \A t \in Tx : pc'[t] \notin Live
      BY <1>7, <2>2 DEF RpcCancelled, Live
    <3>3. FewLive' /\ Tasks' = 0
      <4>1. FewLive' /\ Cardinality(LiveTx') = 0
        BY <3>2, LiveNone
      <4>2. Len(spawned') = 0
        BY <3>1
      <4> QED
        BY <3>1, <4>1, <4>2, TasksNext
    <3> QED
      BY <2>1, <3>1, <3>3, LinkDrop
  <2>3. CASE conn # "gathering"
    <3>1. Life = "open" /\ UNCHANGED <<spawned, pc, refusing>>
      BY <1>7, <2>3 DEF RpcCancelled, Open, Life
    <3> QED
      BY <1>1, <2>1, <3>1, LinkDrop
  <2> QED
    BY <2>2, <2>3
<1>8. CASE IgnoreKeepalive \/ AdvanceState
  BY <1>8, LinkStartEnds DEF IgnoreKeepalive, AdvanceState
<1>9. CASE DeliverAnswer
  <2>1. \A t \in Tx : pc'[t] = pc[t] \/ (pc[t] = "awaiting" /\ pc'[t] = "answered")
    BY <1>0, <1>9 DEF DeliverAnswer, TypeOK
  <2>2. \A t \in Tx : pc'[t] \in Live <=> pc[t] \in Live
    BY <2>1 DEF Live
  <2> QED
    BY <1>9, <2>2, LinkStartEnds DEF DeliverAnswer
<1>10. CASE Refuse
  <2>1. NextTask.type \in InvokeTypes => pc[NextTask.tx] = "spawned"
    BY <1>10, StartsEffect DEF Refuse, At
  <2>2. \A t \in Tx : pc'[t] \in Live <=> pc[t] \in Live
    BY <1>10, <2>1 DEF Refuse, Live
  <2>3. FewLive' /\ Cardinality(LiveTx') = Cardinality(LiveTx)
    BY <1>0, <2>2, LiveSame
  <2>4. Len(spawned') = Len(spawned) - 1 /\ refusing' = refusing + 1 /\ conn' = conn
    BY <1>10, StartsEffect DEF Refuse
  <2>5. Tasks' = Tasks
    BY <1>0, <2>3, <2>4, TasksType, TasksNext
  <2> QED
    BY <2>3, <2>4, <2>5, LifeStays, LinkStays
<1>11. CASE Invoke
  <2> DEFINE t == NextTask.tx
  <2>1. PICK outcome \in Outcomes : ChaincodeRuns(t, outcome)
    BY <1>11 DEF Invoke
  <2>2. /\ t \in Tx /\ pc[t] = "spawned" /\ UNCHANGED <<conn, refusing>>
        /\ Len(spawned') = Len(spawned) - 1
    BY <1>11, StartsEffect DEF Invoke, At
  <2>3. /\ pc'[t] \in {"awaiting", "completing", "failed"}
        /\ \A u \in Tx : u # t => pc'[u] = pc[u]
    BY <1>0, <2>1, <2>2, ChaincodeEffect
  <2>4. CASE pc'[t] = "failed"
    <3>1. \A u \in Tx : pc'[u] \in Live <=> pc[u] \in Live
      BY <2>2, <2>3, <2>4 DEF Live
    <3> QED
      BY <1>11, <2>2, <3>1, LinkStartEnds DEF Invoke
  <2>5. CASE pc'[t] # "failed"
    <3>1. pc[t] \notin Live /\ pc'[t] \in Live
      BY <2>2, <2>3, <2>5 DEF Live
    <3>2. FewLive' /\ Cardinality(LiveTx') = Cardinality(LiveTx) + 1
      BY <1>0, <2>2, <2>3, <3>1, LiveMore
    <3>3. Tasks' = Tasks
      BY <1>0, <2>2, <3>2, TasksType, TasksNext
    <3> QED
      BY <2>2, <3>2, <3>3, LifeStays, LinkStays
  <2> QED
    BY <2>4, <2>5
<1>12. CASE RefusalEnds
  <2>1. refusing > 0 /\ refusing' = refusing - 1 /\ UNCHANGED <<conn, spawned, pc>>
    BY <1>12 DEF RefusalEnds
  <2>2. FewLive' /\ Cardinality(LiveTx') = Cardinality(LiveTx)
    BY <1>0, <2>1, LiveSame
  <2>3. Tasks > 0 /\ Tasks' = Tasks - 1
    BY <1>0, <2>1, <2>2, TasksType, TasksNext
  <2> QED
    BY <2>1, <2>2, <2>3, LifeStays, LinkEnd
<1>13. ASSUME NEW t \in Tx, pc[t] \in Live, pc'[t] \notin Live,
              \A u \in Tx : u # t => pc'[u] = pc[u], UNCHANGED <<conn, spawned, refusing>>
       PROVE  FewLive' /\ [Link!Next]_(Link!vars)
  <2>1. FewLive' /\ Cardinality(LiveTx') = Cardinality(LiveTx) - 1
    BY <1>0, <1>13, LiveLess
  <2>2. Cardinality(LiveTx) > 0
    <3>1. LiveTx # {}
      BY <1>13 DEF LiveTx
    <3> QED
      BY <1>0, <3>1, FS_EmptySet, TasksType DEF FewLive
  <2>3. Tasks > 0 /\ Tasks' = Tasks - 1
    BY <1>0, <1>13, <2>1, <2>2, TasksType, TasksNext
  <2> QED
    BY <1>13, <2>1, <2>3, LifeStays, LinkEnd
<1>14. ASSUME NEW t \in Tx, Resume(t) PROVE FewLive' /\ [Link!Next]_(Link!vars)
  <2>1. PICK outcome \in Outcomes : ChaincodeRuns(t, outcome)
    BY <1>14 DEF Resume
  <2>2. /\ pc[t] = "answered" /\ pc'[t] \in {"awaiting", "completing", "failed"}
        /\ \A u \in Tx : u # t => pc'[u] = pc[u]
        /\ UNCHANGED <<conn, spawned, refusing>>
    BY <1>0, <1>14, <2>1, ChaincodeEffect DEF Resume
  <2>3. CASE pc'[t] = "failed"
    BY <1>13, <2>2, <2>3 DEF Live
  <2>4. CASE pc'[t] # "failed"
    BY <1>0, <2>2, <2>4, LinkSteady DEF Live
  <2> QED
    BY <2>3, <2>4
<1>15. ASSUME NEW t \in Tx, CompletedWritten(t) \/ CompletedRaises(t)
       PROVE  FewLive' /\ [Link!Next]_(Link!vars)
  <2>1. /\ pc[t] = "completing" /\ pc'[t] \in {"done", "failed"}
        /\ \A u \in Tx : u # t => pc'[u] = pc[u]
        /\ UNCHANGED <<conn, spawned, refusing>>
    BY <1>0, <1>15 DEF CompletedWritten, CompletedRaises, TypeOK
  <2> QED
    BY <1>13, <2>1 DEF Live
<1>16. ASSUME NEW t \in Tx, NEW type \in InvokeTypes,
              PeerInvokes(t, type) \/ PeerInvokesEarly(t, type)
       PROVE  FewLive' /\ [Link!Next]_(Link!vars)
  <2>1. /\ \A u \in Tx : pc'[u] = pc[u] \/ (pc[u] = "none" /\ pc'[u] = "sent")
        /\ UNCHANGED <<conn, spawned, refusing>>
    BY <1>0, <1>16 DEF PeerInvokes, PeerInvokesEarly, TypeOK
  <2> QED
    BY <1>0, <2>1, LinkSteady DEF Live
<1>17. CASE \/ PeerHandshake \/ \E t \in Tx : \E type \in AnswerTypes : PeerAnswers(t, type)
            \/ PeerKeepsAlive \/ \E type \in OddTypes : PeerStrays(type)
            \/ PeerCloses \/ UNCHANGED vars
  <2>1. UNCHANGED <<conn, spawned, refusing, pc>>
    BY <1>17 DEF PeerHandshake, PeerAnswers, PeerKeepsAlive, PeerStrays, PeerCloses, vars
  <2> QED
    BY <1>0, <2>1, LinkSteady
<1> QED
  BY <1>2, <1>3, <1>4, <1>5, <1>6, <1>7, <1>8, <1>9, <1>10, <1>11, <1>12, <1>14, <1>15, <1>16,
     <1>17 DEF Next, StartTask

(***************************************************************************)
(* The theorems.                                                           *)
(***************************************************************************)

\* IInv holds in every reachable state of a connection and its peer.
THEOREM Invariance == Spec => []IInv
<1>1. IInv /\ [Next]_vars => IInv'
  BY TypeStep, InvokedOnceStep, CompletedSoFarStep, LinkStep DEF IInv
<1> QED
  BY <1>1, InitIInv, PTL DEF Spec

\* Every variable keeps its type.
THEOREM TypeCorrect == Spec => []TypeOK
<1>1. IInv => TypeOK
  BY DEF IInv
<1> QED
  BY <1>1, Invariance, PTL

\* An invocation that ends gets one COMPLETED, with the status of its response,
\* and no other gets one, whatever the order of the tasks and of the peer's
\* messages (handler.py:72-109).
THEOREM CompletedOnceHolds == Spec => []CompletedOnce
<1>1. ASSUME IInv, NEW t \in Tx
      PROVE  /\ Len(completed[t]) = IF pc[t] = "done" THEN 1 ELSE 0
             /\ pc[t] = "done" => completed[t][1] = resp[t]
  <2>1. CASE pc[t] = "done"
    <3>1. completed[t] = <<Completed(t)>> /\ Completed(t) = resp[t]
      BY <1>1, <2>1 DEF IInv, CompletedSoFar, Completed
    <3> QED
      BY <2>1, <3>1
  <2>2. CASE pc[t] # "done"
    <3>1. completed[t] = <<>>
      BY <1>1, <2>2 DEF IInv, CompletedSoFar
    <3> QED
      BY <2>2, <3>1
  <2> QED
    BY <2>1, <2>2
<1>2. IInv => CompletedOnce
  BY <1>1 DEF CompletedOnce
<1> QED
  BY <1>2, Invariance, PTL

\* A connection is one of Connection: it makes tasks only while it reads, and ends
\* by itself only when no task is left (handler.py:182-200).
THEOREM Refinement == Spec => ImplementsConnection
<1>1. Init => Link!Init
  <2> SUFFICES ASSUME Init PROVE Link!Init
    OBVIOUS
  <2>1. Life = "open"
    BY DEF Init, Life
  <2>2. Len(spawned) = 0 /\ refusing = 0 /\ Cardinality(LiveTx) = 0
    <3>1. LiveTx = {} /\ spawned = <<>> /\ refusing = 0
      BY DEF Init, LiveTx, Live
    <3> QED
      BY <3>1, FS_EmptySet
  <2>3. Tasks = 0
    BY <2>2 DEF Tasks, LiveTx
  <2> QED
    BY <2>1, <2>3 DEF Link!Init
<1>2. IInv /\ [Next]_vars => [Link!Next]_(Link!vars)
  BY LinkStep
<1> QED
  BY <1>1, <1>2, Invariance, PTL DEF Spec, ImplementsConnection, Link!Spec

(***************************************************************************)
(* A peer that keeps the protocol is never refused: OnlyOddFramesRefused   *)
(* of Handler, for any transactions, chaincode, ends of the stream and     *)
(* frames out of place.                                                    *)
(*                                                                         *)
(* The frames on their way are handled in the order in which they were     *)
(* sent.  From the state of the handler and this queue it is known which   *)
(* of them will be refused and how far the handshake will have come; the   *)
(* proof counts both against the frames that the peer has sent.            *)
(***************************************************************************)

(***************************************************************************)
(* The queue and what becomes of it.                                       *)
(***************************************************************************)

\* The frames that the handler has not begun to handle, in order.
Queue == spawned \o stream

\* In state s, once the frames of q before position i are handled, the state is
\* established or ready.
Established(s, q, i) == \/ s # "created"
                        \/ \E j \in 1 .. Len(q) : j < i /\ q[j].type = "REGISTERED"
\* It is ready.
ReadyAt(s, q, i) ==
  \/ s = "ready"
  \/ \E j \in 1 .. Len(q) : j < i /\ q[j].type = "READY" /\ Established(s, q, j)

\* The frame at position i will be refused.
Doomed(s, q, i) ==
  /\ q[i].type # "KEEPALIVE"
  /\ ~(q[i].type = "REGISTERED" /\ ~Established(s, q, i))
  /\ ~(q[i].type = "READY" /\ Established(s, q, i) /\ ~ReadyAt(s, q, i))
  /\ ~(q[i].type \in AnswerTypes \cup InvokeTypes /\ ReadyAt(s, q, i))
DoomedOf(s, q) == {i \in 1 .. Len(q) : Doomed(s, q, i)}

\* How far the handshake will have come when q is handled.
Stage(s, q) == IF ReadyAt(s, q, Len(q) + 1) THEN 2
               ELSE IF Established(s, q, Len(q) + 1) THEN 1 ELSE 0

(***************************************************************************)
(* The inductive invariant.                                                *)
(***************************************************************************)

\* Chaincode has run only since the handler is ready.
AsksWhenReady ==
  /\ owed # {} => state = "ready"
  /\ \A t \in Tx : pc[t] \in Live => state = "ready"

\* The refusals so far and those to come, and the advances of the state, are paid by
\* the peer's handshake and by frames out of place.
Paid == /\ shake <= Stage(state, Queue)
        /\ refused + refusing + Cardinality(DoomedOf(state, Queue)) + Stage(state, Queue)
             <= odd + shake

\* The tasks were cancelled while they were gathered: nothing is handled any more.
Dropped == conn = "cancelled" /\ gone /\ spawned = <<>> /\ refusing = 0

RefusalsRight ==
  /\ AsksWhenReady
  /\ conn = "gathering" => gone
  /\ Paid \/ (Dropped /\ refused <= odd)

RInv == IInv /\ RefusalsRight

(***************************************************************************)
(* The queue.                                                              *)
(***************************************************************************)

\* The task made first is the head of the queue, and is taken from it.
LEMMA QueueStarts ==
  ASSUME NEW p \in Seq(Frames), NEW q \in Seq(Frames), p # <<>>
  PROVE  /\ p \o q \in Seq(Frames) /\ p \o q # <<>> /\ (p \o q)[1] = Head(p)
         /\ Tail(p) \o q = Tail(p \o q)
<1>1. /\ Len(p) \in Nat \ {0} /\ Len(q) \in Nat
  BY EmptySeq, LenProperties
<1>2. /\ Head(p) = p[1] /\ Tail(p) \in Seq(Frames) /\ Len(Tail(p)) = Len(p) - 1
      /\ \A i \in 1 .. Len(Tail(p)) : Tail(p)[i] = p[i + 1]
  BY <1>1, HeadTailProperties
<1>3. /\ p \o q \in Seq(Frames) /\ Len(p \o q) = Len(p) + Len(q)
      /\ \A i \in 1 .. Len(p) + Len(q) :
           (p \o q)[i] = IF i <= Len(p) THEN p[i] ELSE q[i - Len(p)]
  BY ConcatProperties, Zenon
<1> DEFINE r == p \o q
<1>4. r \in Seq(Frames) /\ r # <<>> /\ Len(r) = Len(p) + Len(q)
  BY <1>1, <1>3
<1>5. /\ Tail(r) \in Seq(Frames) /\ Len(Tail(r)) = Len(r) - 1
      /\ \A i \in 1 .. Len(Tail(r)) : Tail(r)[i] = r[i + 1]
  BY <1>4, HeadTailProperties, Zenon
<1> DEFINE tp == Tail(p)
<1>6. /\ tp \o q \in Seq(Frames) /\ Len(tp \o q) = Len(tp) + Len(q)
      /\ \A i \in 1 .. Len(tp) + Len(q) :
           (tp \o q)[i] = IF i <= Len(tp) THEN tp[i] ELSE q[i - Len(tp)]
  BY <1>2, ConcatProperties, Zenon
<1> HIDE DEF r, tp
<1>7. r = p \o q /\ tp = Tail(p)
  BY DEF r, tp
<1>8. Len(tp \o q) = Len(Tail(r))
  BY <1>1, <1>2, <1>4, <1>5, <1>6, <1>7
<1>9. ASSUME NEW i \in 1 .. Len(tp \o q) PROVE (tp \o q)[i] = Tail(r)[i]
  <2>1. i + 1 \in 1 .. Len(p) + Len(q) /\ i \in 1 .. Len(Tail(r))
    BY <1>1, <1>2, <1>4, <1>5, <1>6, <1>7
  <2>2. Tail(r)[i] = IF i + 1 <= Len(p) THEN p[i + 1] ELSE q[i + 1 - Len(p)]
    BY <1>3, <1>5, <1>7, <2>1
  <2>3. (tp \o q)[i] = IF i <= Len(p) - 1 THEN p[i + 1] ELSE q[i - (Len(p) - 1)]
    BY <1>1, <1>2, <1>6, <1>7
  <2>4. i \in Nat /\ Len(p) \in Nat
    BY <1>1, <2>1
  <2>5. CASE i + 1 <= Len(p)
    <3>1. i <= Len(p) - 1
      BY <2>4, <2>5
    <3> QED
      BY <2>2, <2>3, <2>5, <3>1
  <2>6. CASE ~(i + 1 <= Len(p))
    <3>1. ~(i <= Len(p) - 1) /\ i + 1 - Len(p) = i - (Len(p) - 1)
      BY <2>4, <2>6
    <3> QED
      BY <2>2, <2>3, <2>6, <3>1, Zenon
  <2> QED
    BY <2>5, <2>6
<1>10. tp \o q = Tail(r)
  BY <1>5, <1>6, <1>8, <1>9, SeqEqual, Zenon
<1>11. r[1] = Head(p)
  BY <1>1, <1>2, <1>3, <1>7
<1> QED
  BY <1>4, <1>7, <1>10, <1>11

\* A frame that is read stays where it is in the queue.
LEMMA QueueReads ==
  ASSUME NEW p \in Seq(Frames), NEW q \in Seq(Frames), q # <<>>
  PROVE  Append(p, Head(q)) \o Tail(q) = p \o q
<1> DEFINE h == Head(q)
           t == Tail(q)
<1>1. h \in Frames /\ t \in Seq(Frames) /\ <<h>> \in Seq(Frames)
  BY HeadTailProperties
<1>2. <<h>> \o t = q
  BY HeadTailProperties
<1>3. Append(p, h) = p \o <<h>>
  BY <1>1, AppendIsConcat
<1> HIDE DEF h, t
<1>4. (p \o <<h>>) \o t = p \o (<<h>> \o t)
  BY <1>1, ConcatAssociative
<1> QED
  BY <1>2, <1>3, <1>4 DEF h, t

\* A frame that is sent is the last of the queue.
LEMMA QueueSends ==
  ASSUME NEW p \in Seq(Frames), NEW q \in Seq(Frames), NEW f \in Frames
  PROVE  p \o q \in Seq(Frames) /\ p \o Append(q, f) = Append(p \o q, f)
<1>1. p \o q \in Seq(Frames) /\ <<f>> \in Seq(Frames)
  BY ConcatProperties
<1>2. Append(q, f) = q \o <<f>>
  BY AppendIsConcat
<1>3. (p \o q) \o <<f>> = p \o (q \o <<f>>)
  BY <1>1, ConcatAssociative
<1> DEFINE r == p \o q
<1> HIDE DEF r
<1>4. r \in Seq(Frames) => Append(r, f) = r \o <<f>>
  BY AppendIsConcat
<1> QED
  BY <1>1, <1>2, <1>3, <1>4 DEF r

(***************************************************************************)
(* A frame is sent.                                                        *)
(***************************************************************************)

\* What becomes of a frame that joins the queue, and of those before it.
LEMMA SentCounts ==
  ASSUME NEW q \in Seq(Frames), NEW f \in Frames, NEW s \in States
  PROVE  LET r == Append(q, f)
             n == Len(q) + 1 IN
         /\ r \in Seq(Frames) /\ Len(q) \in Nat /\ Len(r) = n /\ r[n] = f
         /\ \A i \in 1 .. n : /\ Established(s, r, i) <=> Established(s, q, i)
                              /\ ReadyAt(s, r, i) <=> ReadyAt(s, q, i)
         /\ \A i \in 1 .. Len(q) : Doomed(s, r, i) <=> Doomed(s, q, i)
         /\ Established(s, r, n + 1) <=> Established(s, q, n) \/ f.type = "REGISTERED"
         /\ ReadyAt(s, r, n + 1) <=> \/ ReadyAt(s, q, n)
                                     \/ f.type = "READY" /\ Established(s, q, n)
<1> DEFINE r == Append(q, f)
           n == Len(q) + 1
<1>1. /\ r \in Seq(Frames) /\ Len(q) \in Nat /\ Len(r) = n /\ r[n] = f
      /\ \A i \in 1 .. Len(q) : r[i] = q[i]
  BY AppendProperties, LenProperties
<1> HIDE DEF r
<1>2. \A i \in 1 .. n : \A j \in 1 .. n : j < i => j \in 1 .. Len(q) /\ r[j] = q[j]
  BY <1>1
<1>3. \A j \in 1 .. Len(q) : j \in 1 .. n /\ j < n /\ j # n /\ j < n + 1
  BY <1>1
<1>4. \A i \in 1 .. n : Established(s, r, i) <=> Established(s, q, i)
  BY <1>1, <1>2, <1>3 DEF Established
<1>5. \A i \in 1 .. n : ReadyAt(s, r, i) <=> ReadyAt(s, q, i)
  BY <1>1, <1>2, <1>3, <1>4 DEF ReadyAt
<1>6. \A i \in 1 .. Len(q) : Doomed(s, r, i) <=> Doomed(s, q, i)
  BY <1>1, <1>3, <1>4, <1>5 DEF Doomed
<1>7. \A j \in 1 .. n : j \in 1 .. Len(q) \/ j = n
  BY <1>1
<1>8. n \in 1 .. n /\ n < n + 1
  BY <1>1
<1>9. Established(s, r, n + 1) <=> Established(s, q, n) \/ f.type = "REGISTERED"
  BY <1>1, <1>3, <1>7, <1>8 DEF Established
<1>10. ReadyAt(s, r, n + 1) <=> \/ ReadyAt(s, q, n)
                                \/ f.type = "READY" /\ Established(s, q, n)
  BY <1>1, <1>3, <1>4, <1>7, <1>8 DEF ReadyAt
<1> QED
  BY <1>1, <1>4, <1>5, <1>6, <1>9, <1>10 DEF r

\* The frames that will be refused are finitely many.
LEMMA DoomedFinite ==
  ASSUME NEW q \in Seq(Frames), NEW s
  PROVE  IsFiniteSet(DoomedOf(s, q)) /\ Cardinality(DoomedOf(s, q)) \in Nat
<1>1. Len(q) \in Nat
  BY LenProperties
<1>2. IsFiniteSet(1 .. Len(q))
  BY <1>1, FS_Interval
<1>3. DoomedOf(s, q) \in SUBSET (1 .. Len(q))
  BY DEF DoomedOf
<1>4. IsFiniteSet(DoomedOf(s, q))
  BY <1>2, <1>3, FS_Subset
<1> QED
  BY <1>4, FS_CardinalityType

\* What a queue is still to cost.
Cost(s, q) == Cardinality(DoomedOf(s, q)) + Stage(s, q)

\* A frame costs one more at most, and a frame in place that does not advance the
\* state costs nothing.
LEMMA SentCost ==
  ASSUME NEW q \in Seq(Frames), NEW f \in Frames, NEW s \in States
  PROVE  LET r == Append(q, f)
             n == Len(q) + 1 IN
         /\ Cost(s, q) \in Nat /\ Cost(s, r) \in Nat
         /\ Cost(s, r) <= Cost(s, q) + 1
         /\ Stage(s, q) \in 0 .. 2 /\ Stage(s, r) \in 0 .. 2 /\ Stage(s, q) <= Stage(s, r)
         /\ f.type = "REGISTERED" => Stage(s, r) >= 1
         /\ f.type = "READY" /\ Stage(s, q) >= 1 => Stage(s, r) = 2
         /\ f.type \in AnswerTypes \cup InvokeTypes /\ Stage(s, q) = 2 =>
              Cost(s, r) = Cost(s, q)
<1> DEFINE r == Append(q, f)
           n == Len(q) + 1
           D == DoomedOf(s, q)
           E == DoomedOf(s, r)
<1>1. /\ r \in Seq(Frames) /\ Len(q) \in Nat /\ Len(r) = n /\ r[n] = f
      /\ \A i \in 1 .. n : /\ Established(s, r, i) <=> Established(s, q, i)
                           /\ ReadyAt(s, r, i) <=> ReadyAt(s, q, i)
      /\ \A i \in 1 .. Len(q) : Doomed(s, r, i) <=> Doomed(s, q, i)
      /\ Established(s, r, n + 1) <=> Established(s, q, n) \/ f.type = "REGISTERED"
      /\ ReadyAt(s, r, n + 1) <=> \/ ReadyAt(s, q, n)
                                  \/ f.type = "READY" /\ Established(s, q, n)
  BY SentCounts
<1> HIDE DEF r
<1>2. IsFiniteSet(D) /\ Cardinality(D) \in Nat /\ IsFiniteSet(E) /\ Cardinality(E) \in Nat
  BY <1>1, DoomedFinite
<1>3. /\ n \in 1 .. n /\ n \notin 1 .. Len(q)
      /\ \A i \in 1 .. n : i \in 1 .. Len(q) \/ i = n
      /\ \A i \in 1 .. Len(q) : i \in 1 .. n
  BY <1>1
<1>4. E = IF Doomed(s, r, n) THEN D \cup {n} ELSE D
  BY <1>1, <1>3 DEF DoomedOf
<1>5. n \notin D
  BY <1>3 DEF DoomedOf
<1>6. Cardinality(E) = Cardinality(D) + (IF Doomed(s, r, n) THEN 1 ELSE 0)
  BY <1>2, <1>4, <1>5, FS_AddElement
<1>7. ReadyAt(s, q, n) => Established(s, q, n)
  <2>1. s = "ready" => s # "created"
    OBVIOUS
  <2>2. ASSUME NEW j \in 1 .. Len(q), Established(s, q, j) PROVE Established(s, q, n)
    BY <1>1, <2>2 DEF Established
  <2> QED
    BY <2>1, <2>2 DEF ReadyAt, Established
<1>8. Doomed(s, r, n) <=>
        /\ f.type # "KEEPALIVE"
        /\ ~(f.type = "REGISTERED" /\ ~Established(s, q, n))
        /\ ~(f.type = "READY" /\ Established(s, q, n) /\ ~ReadyAt(s, q, n))
        /\ ~(f.type \in AnswerTypes \cup InvokeTypes /\ ReadyAt(s, q, n))
  <2>1. /\ r[n] = f
        /\ Established(s, r, n) <=> Established(s, q, n)
        /\ ReadyAt(s, r, n) <=> ReadyAt(s, q, n)
    BY <1>1, <1>3, Zenon
  <2> HIDE DEF n
  <2> QED
    BY <2>1 DEF Doomed
<1>9. Stage(s, q) = IF ReadyAt(s, q, n) THEN 2 ELSE IF Established(s, q, n) THEN 1 ELSE 0
  BY DEF Stage
<1>10. Stage(s, r) = IF ReadyAt(s, r, n + 1) THEN 2 ELSE IF Established(s, r, n + 1) THEN 1 ELSE 0
  BY <1>1 DEF Stage
<1> HIDE DEF n, D, E
<1>11. Cost(s, q) = Cardinality(D) + Stage(s, q) /\ Cost(s, r) = Cardinality(E) + Stage(s, r)
  BY DEF Cost, D, E
<1>12. /\ Cost(s, q) \in Nat /\ Cost(s, r) \in Nat /\ Cost(s, r) <= Cost(s, q) + 1
       /\ Stage(s, q) \in 0 .. 2 /\ Stage(s, r) \in 0 .. 2 /\ Stage(s, q) <= Stage(s, r)
       /\ f.type = "REGISTERED" => Stage(s, r) >= 1
       /\ f.type = "READY" /\ Stage(s, q) >= 1 => Stage(s, r) = 2
       /\ f.type \in AnswerTypes \cup InvokeTypes /\ Stage(s, q) = 2 =>
            Cost(s, r) = Cost(s, q)
  BY <1>1, <1>2, <1>6, <1>7, <1>8, <1>9, <1>10, <1>11 DEF AnswerTypes, InvokeTypes
<1> QED
  BY <1>12 DEF r

(***************************************************************************)
(* A frame is handled.                                                     *)
(***************************************************************************)

\* The state after a frame is handled.
After(s, f) == IF s = "created" /\ f.type = "REGISTERED" THEN "established"
               ELSE IF s = "established" /\ f.type = "READY" THEN "ready" ELSE s

\* What becomes of the frames behind the head of the queue.
LEMMA HandledCounts ==
  ASSUME NEW q \in Seq(Frames), q # <<>>, NEW s \in States
  PROVE  LET t == Tail(q)
             u == After(s, q[1]) IN
         /\ t \in Seq(Frames) /\ Len(q) \in Nat \ {0} /\ Len(t) = Len(q) - 1 /\ u \in States
         /\ \A i \in 1 .. Len(q) : /\ Established(u, t, i) <=> Established(s, q, i + 1)
                                   /\ ReadyAt(u, t, i) <=> ReadyAt(s, q, i + 1)
         /\ \A i \in 1 .. Len(t) : Doomed(u, t, i) <=> Doomed(s, q, i + 1)
<1> DEFINE t == Tail(q)
           h == q[1]
           u == After(s, h)
<1>1. /\ t \in Seq(Frames) /\ Len(q) \in Nat \ {0} /\ Len(t) = Len(q) - 1
      /\ \A i \in 1 .. Len(t) : t[i] = q[i + 1]
  BY EmptySeq, LenProperties, HeadTailProperties
<1>2. /\ u \in States
      /\ u # "created" <=> s # "created" \/ h.type = "REGISTERED"
      /\ u = "ready" <=> s = "ready" \/ (h.type = "READY" /\ s # "created")
  BY DEF After, States
<1> HIDE DEF t, h, u
<1>3. /\ \A j \in 1 .. Len(t) : j + 1 \in 1 .. Len(q) /\ t[j] = q[j + 1]
      /\ \A j \in 1 .. Len(q) : j = 1 \/ (j - 1 \in 1 .. Len(t) /\ (j - 1) + 1 = j)
      /\ 1 \in 1 .. Len(q) /\ h = q[1]
  BY <1>1 DEF h
<1>4. ASSUME NEW i \in 1 .. Len(q) PROVE Established(u, t, i) <=> Established(s, q, i + 1)
  <2>1. ASSUME NEW j \in 1 .. Len(t), j < i, t[j].type = "REGISTERED"
        PROVE  Established(s, q, i + 1)
    <3>1. j + 1 \in 1 .. Len(q) /\ j + 1 < i + 1 /\ q[j + 1].type = "REGISTERED"
      BY <1>1, <1>3, <2>1
    <3> QED
      BY <3>1 DEF Established
  <2>2. ASSUME NEW j \in 1 .. Len(q), j < i + 1, q[j].type = "REGISTERED"
        PROVE  Established(u, t, i)
    <3>1. CASE j = 1
      BY <1>2, <1>3, <2>2, <3>1 DEF Established
    <3>2. CASE j # 1
      <4>1. /\ j - 1 \in 1 .. Len(t) /\ j - 1 < i /\ (j - 1) + 1 = j
        BY <1>1, <1>3, <2>2, <3>2
      <4>2. t[j - 1].type = "REGISTERED"
        BY <1>3, <2>2, <4>1
      <4> QED
        BY <4>1, <4>2 DEF Established
    <3> QED
      BY <3>1, <3>2
  <2>3. h.type = "REGISTERED" => Established(s, q, i + 1)
    <3>1. 1 < i + 1
      BY <1>1
    <3> QED
      BY <1>3, <3>1 DEF Established
  <2> QED
    BY <1>2, <2>1, <2>2, <2>3 DEF Established
<1>5. Established(s, q, 1) <=> s # "created"
  BY <1>1 DEF Established
<1>6. ASSUME NEW i \in 1 .. Len(q) PROVE ReadyAt(u, t, i) <=> ReadyAt(s, q, i + 1)
  <2>1. ASSUME NEW j \in 1 .. Len(t), j < i, t[j].type = "READY", Established(u, t, j)
        PROVE  ReadyAt(s, q, i + 1)
    <3>1. /\ j + 1 \in 1 .. Len(q) /\ j + 1 < i + 1 /\ q[j + 1].type = "READY"
          /\ j \in 1 .. Len(q)
      BY <1>1, <1>3, <2>1
    <3>2. Established(s, q, j + 1)
      BY <1>4, <2>1, <3>1
    <3> QED
      BY <3>1, <3>2 DEF ReadyAt
  <2>2. ASSUME NEW j \in 1 .. Len(q), j < i + 1, q[j].type = "READY", Established(s, q, j)
        PROVE  ReadyAt(u, t, i)
    <3>1. CASE j = 1
      BY <1>2, <1>3, <1>5, <2>2, <3>1 DEF ReadyAt
    <3>2. CASE j # 1
      <4>1. /\ j - 1 \in 1 .. Len(t) /\ j - 1 < i /\ (j - 1) + 1 = j /\ j - 1 \in 1 .. Len(q)
        BY <1>1, <1>3, <2>2, <3>2
      <4>2. t[j - 1].type = "READY" /\ Established(u, t, j - 1)
        BY <1>3, <1>4, <2>2, <4>1
      <4> QED
        BY <4>1, <4>2 DEF ReadyAt
    <3> QED
      BY <3>1, <3>2
  <2>3. h.type = "READY" /\ s # "created" => ReadyAt(s, q, i + 1)
    <3>1. 1 < i + 1
      BY <1>1
    <3> QED
      BY <1>3, <1>5, <3>1 DEF ReadyAt
  <2> QED
    BY <1>2, <2>1, <2>2, <2>3 DEF ReadyAt
<1>7. ASSUME NEW i \in 1 .. Len(t) PROVE Doomed(u, t, i) <=> Doomed(s, q, i + 1)
  <2>1. i \in 1 .. Len(q) /\ t[i] = q[i + 1]
    BY <1>1, <1>3
  <2>2. /\ Established(u, t, i) <=> Established(s, q, i + 1)
        /\ ReadyAt(u, t, i) <=> ReadyAt(s, q, i + 1)
    BY <1>4, <1>6, <2>1
  <2> QED
    BY <2>1, <2>2 DEF Doomed
<1>8. /\ t \in Seq(Frames) /\ Len(q) \in Nat \ {0} /\ Len(t) = Len(q) - 1 /\ u \in States
      /\ \A i \in 1 .. Len(q) : /\ Established(u, t, i) <=> Established(s, q, i + 1)
                                /\ ReadyAt(u, t, i) <=> ReadyAt(s, q, i + 1)
      /\ \A i \in 1 .. Len(t) : Doomed(u, t, i) <=> Doomed(s, q, i + 1)
  BY <1>1, <1>2, <1>4, <1>6, <1>7
<1> QED
  BY <1>8, Zenon DEF t, h, u

\* Is a frame refused in state s?
Refusable(s, f) ==
  /\ f.type # "KEEPALIVE"
  /\ After(s, f) = s
  /\ ~(s = "ready" /\ f.type \in AnswerTypes \cup InvokeTypes)

\* A set of positions and the same set one further on.
LEMMA Shifted ==
  ASSUME NEW S \in SUBSET Nat, NEW T \in SUBSET Nat, IsFiniteSet(S),
         T = {i + 1 : i \in S}
  PROVE  IsFiniteSet(T) /\ Cardinality(T) = Cardinality(S)
<1> DEFINE f == [i \in S |-> i + 1]
<1>1. f \in [S -> T] /\ \A i, j \in S : f[i] = f[j] => i = j
  OBVIOUS
<1>2. \A k \in T : \E i \in S : f[i] = k
  OBVIOUS
<1>3. f \in Bijection(S, T)
  BY <1>1, <1>2 DEF Bijection, Injection, Surjection, IsInjective
<1>4. ExistsBijection(S, T)
  BY <1>3 DEF ExistsBijection
<1> QED
  BY <1>4, FS_Bijection

\* What is still to come gets less by the refusal of the head, if it is refused.
LEMMA HandledCost ==
  ASSUME NEW q \in Seq(Frames), q # <<>>, NEW s \in States
  PROVE  LET t == Tail(q)
             u == After(s, q[1]) IN
         /\ Stage(u, t) = Stage(s, q)
         /\ Cardinality(DoomedOf(u, t)) \in Nat /\ Cardinality(DoomedOf(s, q)) \in Nat
         /\ Cardinality(DoomedOf(s, q))
              = Cardinality(DoomedOf(u, t)) + IF Refusable(s, q[1]) THEN 1 ELSE 0
<1> DEFINE t == Tail(q)
           u == After(s, q[1])
           D == DoomedOf(s, q)
           E == DoomedOf(u, t)
           F == {i + 1 : i \in E}
<1>1. /\ t \in Seq(Frames) /\ Len(q) \in Nat \ {0} /\ Len(t) = Len(q) - 1 /\ u \in States
      /\ \A i \in 1 .. Len(q) : /\ Established(u, t, i) <=> Established(s, q, i + 1)
                                /\ ReadyAt(u, t, i) <=> ReadyAt(s, q, i + 1)
      /\ \A i \in 1 .. Len(t) : Doomed(u, t, i) <=> Doomed(s, q, i + 1)
  BY HandledCounts, Zenon
<1>2. Doomed(s, q, 1) <=> Refusable(s, q[1])
  <2>1. Established(s, q, 1) <=> s # "created"
    BY <1>1 DEF Established
  <2>2. ReadyAt(s, q, 1) <=> s = "ready"
    BY <1>1 DEF ReadyAt
  <2> QED
    BY <2>1, <2>2 DEF Doomed, Refusable, After, States
<1> HIDE DEF t, u
<1>3. Stage(u, t) = Stage(s, q)
  <2>1. Len(t) + 1 = Len(q) /\ Len(q) \in 1 .. Len(q)
    BY <1>1
  <2> QED
    BY <1>1, <2>1 DEF Stage
<1>4. IsFiniteSet(E) /\ Cardinality(E) \in Nat /\ Cardinality(D) \in Nat
  BY <1>1, DoomedFinite
<1>5. E \in SUBSET Nat /\ F \in SUBSET Nat /\ 1 \notin F
  BY <1>1 DEF DoomedOf
<1>6. IsFiniteSet(F) /\ Cardinality(F) = Cardinality(E)
  <2> HIDE DEF E
  <2> QED
    BY <1>4, <1>5, Shifted
<1>7. D = IF Doomed(s, q, 1) THEN F \cup {1} ELSE F
  <2>1. \A i \in 1 .. Len(t) : i + 1 \in 1 .. Len(q) /\ i + 1 # 1
    BY <1>1
  <2>2. \A i \in 1 .. Len(q) : i = 1 \/ (i - 1 \in 1 .. Len(t) /\ (i - 1) + 1 = i)
    BY <1>1
  <2>3. 1 \in 1 .. Len(q)
    BY <1>1
  <2>4. ASSUME NEW i \in 1 .. Len(q), i # 1 PROVE i \in F <=> Doomed(s, q, i)
    <3>1. i - 1 \in 1 .. Len(t) /\ (i - 1) + 1 = i
      BY <2>2, <2>4
    <3>2. Doomed(u, t, i - 1) <=> Doomed(s, q, i)
      BY <1>1, <3>1
    <3>3. i \in F <=> i - 1 \in E
      BY <1>5, <3>1
    <3> QED
      BY <3>1, <3>2, <3>3 DEF DoomedOf
  <2>5. F \subseteq 1 .. Len(q)
    BY <2>1 DEF DoomedOf
  <2>6. \A i \in 1 .. Len(q) : i \in D <=> Doomed(s, q, i)
    BY DEF DoomedOf
  <2>7. D \subseteq 1 .. Len(q)
    BY DEF DoomedOf
  <2> HIDE DEF D, F
  <2> QED
    BY <1>5, <2>3, <2>4, <2>5, <2>6, <2>7
<1> HIDE DEF D, E, F
<1>8. Cardinality(D) = Cardinality(E) + IF Refusable(s, q[1]) THEN 1 ELSE 0
  <2>1. CASE Doomed(s, q, 1)
    <3>1. D = F \cup {1}
      BY <1>7, <2>1
    <3>2. Cardinality(F \cup {1}) = Cardinality(F) + 1
      BY <1>5, <1>6, FS_AddElement
    <3> QED
      BY <1>2, <1>6, <2>1, <3>1, <3>2
  <2>2. CASE ~Doomed(s, q, 1)
    BY <1>2, <1>4, <1>6, <1>7, <2>2
  <2> QED
    BY <2>1, <2>2
<1> QED
  BY <1>3, <1>4, <1>8, Zenon DEF t, u, D, E

(***************************************************************************)
(* The initial state.                                                      *)
(***************************************************************************)

\* The types of the queue and of the counts.
LEMMA QueueOK ==
  ASSUME TypeOK
  PROVE  /\ spawned \in Seq(Frames) /\ stream \in Seq(Frames) /\ Queue \in Seq(Frames)
         /\ state \in States /\ odd \in Nat /\ shake \in 0 .. 2
         /\ refused \in Nat /\ refusing \in Nat
<1>1. spawned \in Seq(Frames) /\ stream \in Seq(Frames)
  BY DEF TypeOK
<1>2. Queue \in Seq(Frames)
  BY <1>1, ConcatProperties DEF Queue
<1> QED
  BY <1>1, <1>2, BoundsAssumption DEF TypeOK

\* The invariant of the refusals holds before the stream begins.
LEMMA InitRInv == Init => RInv
<1> SUFFICES ASSUME Init PROVE RInv
  OBVIOUS
<1>1. IInv
  BY InitIInv
<1>2. AsksWhenReady
  BY DEF Init, AsksWhenReady, Live
<1>3. conn # "gathering"
  BY DEF Init
<1>4. Paid
  <2>1. Queue = <<>> /\ Len(Queue) = 0
    <3>1. <<>> \in Seq(Frames)
      BY EmptySeq
    <3>2. <<>> \o <<>> = <<>>
      BY <3>1, ConcatEmptySeq
    <3> QED
      BY <3>2, EmptySeq DEF Init, Queue
  <2>2. DoomedOf(state, Queue) = {}
    BY <2>1 DEF DoomedOf
  <2>3. Cardinality(DoomedOf(state, Queue)) = 0
    BY <2>2, FS_EmptySet
  <2>4. Stage(state, Queue) = 0
    BY <2>1 DEF Stage, ReadyAt, Established, Init
  <2> QED
    BY <2>3, <2>4 DEF Paid, Init
<1> QED
  BY <1>1, <1>2, <1>3, <1>4 DEF RInv, RefusalsRight

(***************************************************************************)
(* What is paid stays paid.                                                *)
(***************************************************************************)

\* The debt as one sum.
LEMMA PaidSum ==
  ASSUME TypeOK
  PROVE  /\ Cost(state, Queue) \in Nat
         /\ Stage(state, Queue) \in 0 .. 2
         /\ Paid <=> /\ shake <= Stage(state, Queue)
                     /\ refused + refusing + Cost(state, Queue) <= odd + shake
         /\ Paid => refused + refusing <= odd
<1>1. /\ Queue \in Seq(Frames) /\ state \in States
      /\ odd \in Nat /\ shake \in 0 .. 2 /\ refused \in Nat /\ refusing \in Nat
  BY QueueOK
<1>2. Cardinality(DoomedOf(state, Queue)) \in Nat
  BY <1>1, DoomedFinite
<1>3. Stage(state, Queue) \in 0 .. 2
  BY DEF Stage
<1> QED
  BY <1>1, <1>2, <1>3 DEF Cost, Paid

\* A step that leaves the queue and the peer alone and does not add to the refusals.
LEMMA PaidIdle ==
  ASSUME TypeOK, refused' \in Nat, refusing' \in Nat, Paid,
         state' = state, Queue' = Queue, shake' = shake, odd' = odd,
         refused' + refusing' <= refused + refusing
  PROVE  Paid'
<1> DEFINE d == Cardinality(DoomedOf(state, Queue))
           g == Stage(state, Queue)
<1>1. d \in Nat /\ g \in 0 .. 2
  BY QueueOK, DoomedFinite DEF Stage
<1>2. /\ odd \in Nat /\ shake \in 0 .. 2 /\ refused \in Nat /\ refusing \in Nat
  BY QueueOK
<1>3. shake <= g /\ refused + refusing + d + g <= odd + shake
  BY DEF Paid
<1> HIDE DEF d, g
<1>4. ASSUME NEW a \in Nat, NEW b \in Nat, a + b <= refused + refusing
      PROVE  a + b + d + g <= odd + shake
  BY <1>1, <1>2, <1>3, <1>4
<1>5. refused' + refusing' + d + g <= odd + shake
  BY <1>4
<1> QED
  BY <1>3, <1>5 DEF Paid, d, g

\* A task starts: its frame leaves the queue.
LEMMA PaidStarts ==
  ASSUME TypeOK, Paid, Starts, stream' = stream, shake' = shake, odd' = odd, refused' = refused,
         state' = After(state, NextTask),
         refusing' = refusing + IF Refusable(state, NextTask) THEN 1 ELSE 0
  PROVE  Paid'
<1>1. /\ Queue # <<>> /\ Queue[1] = NextTask /\ Queue' = Tail(Queue) /\ Queue \in Seq(Frames)
  BY QueueOK, QueueStarts DEF Starts, NextTask, Queue
<1>2. /\ Stage(state', Queue') = Stage(state, Queue)
      /\ Cardinality(DoomedOf(state', Queue')) \in Nat
      /\ Cardinality(DoomedOf(state, Queue)) \in Nat
      /\ Cardinality(DoomedOf(state, Queue))
           = Cardinality(DoomedOf(state', Queue')) + IF Refusable(state, NextTask) THEN 1 ELSE 0
  BY <1>1, QueueOK, HandledCost
<1>3. /\ odd \in Nat /\ shake \in 0 .. 2 /\ refused \in Nat /\ refusing \in Nat
      /\ Stage(state, Queue) \in 0 .. 2
  BY QueueOK DEF Stage
<1> DEFINE d == Cardinality(DoomedOf(state, Queue))
           e == Cardinality(DoomedOf(state', Queue'))
           g == Stage(state, Queue)
<1>4. shake <= g /\ refused + refusing + d + g <= odd + shake
  BY DEF Paid
<1> HIDE DEF d, e, g
<1>5. refused + refusing' + e + g <= odd + shake
  BY <1>2, <1>3, <1>4 DEF d, e, g
<1> QED
  BY <1>2, <1>4, <1>5 DEF Paid, d, e, g

\* The peer sends a frame: out of place, as a step of the handshake, or in place
\* once the handshake is over.
LEMMA PaidSends ==
  ASSUME TypeOK, Paid, NEW type \in Types, NEW t \in Tx \cup {NoTx}, Send(type, t),
         spawned' = spawned, state' = state, refused' = refused, refusing' = refusing,
         \/ odd' = odd + 1 /\ shake' = shake
         \/ /\ odd' = odd /\ shake' = shake + 1 /\ shake \in 0 .. 1
            /\ type = IF shake = 0 THEN "REGISTERED" ELSE "READY"
         \/ /\ odd' = odd /\ shake' = shake /\ Stage(state, Queue) = 2
            /\ type \in AnswerTypes \cup InvokeTypes
  PROVE  Paid'
<1> DEFINE f == [type |-> type, tx |-> t]
           r == Append(Queue, f)
<1>1. f \in Frames /\ stream' = Append(stream, f)
  BY SendEffect
<1>2. Queue \in Seq(Frames) /\ Queue' = r
  BY <1>1, QueueOK, QueueSends DEF Queue
<1>3. f.type = type
  OBVIOUS
<1>4. /\ odd \in Nat /\ shake \in 0 .. 2 /\ refused \in Nat /\ refusing \in Nat
      /\ state \in States
  BY QueueOK
<1> HIDE DEF f
<1>5. /\ Cost(state, Queue) \in Nat /\ Cost(state, r) \in Nat
      /\ Cost(state, r) <= Cost(state, Queue) + 1
      /\ Stage(state, Queue) \in 0 .. 2 /\ Stage(state, r) \in 0 .. 2
      /\ Stage(state, Queue) <= Stage(state, r)
      /\ type = "REGISTERED" => Stage(state, r) >= 1
      /\ type = "READY" /\ Stage(state, Queue) >= 1 => Stage(state, r) = 2
      /\ type \in AnswerTypes \cup InvokeTypes /\ Stage(state, Queue) = 2 =>
           Cost(state, r) = Cost(state, Queue)
  BY <1>1, <1>2, <1>3, <1>4, SentCost
<1>6. /\ shake <= Stage(state, Queue)
      /\ refused + refusing + Cost(state, Queue) <= odd + shake
  BY PaidSum
<1>7. Cardinality(DoomedOf(state, r)) \in Nat
  <2>1. r \in Seq(Frames)
    BY <1>1, <1>2, QueueAppend
  <2> QED
    BY <2>1, DoomedFinite
<1>8. Cost(state, r) = Cardinality(DoomedOf(state, r)) + Stage(state, r)
  BY DEF Cost
<1>9. state' = state /\ refused' = refused /\ refusing' = refusing /\ Queue' = r
  BY <1>2
<1> HIDE DEF r
<1>10. shake' <= Stage(state, r) /\ refused + refusing + Cost(state, r) <= odd' + shake'
  <2>1. CASE odd' = odd + 1 /\ shake' = shake
    BY <1>4, <1>5, <1>6, <2>1
  <2>2. CASE /\ odd' = odd /\ shake' = shake + 1 /\ shake \in 0 .. 1
             /\ type = IF shake = 0 THEN "REGISTERED" ELSE "READY"
    BY <1>4, <1>5, <1>6, <2>2
  <2>3. CASE /\ odd' = odd /\ shake' = shake /\ Stage(state, Queue) = 2
             /\ type \in AnswerTypes \cup InvokeTypes
    BY <1>4, <1>5, <1>6, <2>3
  <2> QED
    BY <2>1, <2>2, <2>3
<1> QED
  BY <1>4, <1>5, <1>7, <1>8, <1>9, <1>10 DEF Paid

(***************************************************************************)
(* The invariant is inductive.                                             *)
(***************************************************************************)

\* Every step keeps that chaincode runs only in a ready handler.
LEMMA AsksStep == IInv /\ AsksWhenReady /\ [Next]_vars => AsksWhenReady'
<1> SUFFICES ASSUME IInv, AsksWhenReady, [Next]_vars PROVE AsksWhenReady'
  OBVIOUS
<1>0. TypeOK
  BY DEF IInv
<1> USE DEF shim, peer
\* Steps after which no other invocation runs and nothing more is owed.
<1>1. ASSUME owed' \subseteq owed, state' = state,
             \A t \in Tx : pc'[t] \in Live => pc[t] \in Live
      PROVE  AsksWhenReady'
  BY <1>1 DEF AsksWhenReady
<1>2. CASE Read
  BY <1>1, <1>2, ReadEffect DEF Read, Live
<1>3. CASE RpcCancelled
  <2>1. \A t \in Tx : pc'[t] \in Live => pc[t] \in Live
    BY <1>3 DEF RpcCancelled, Live
  <2> QED
    BY <1>1, <1>3, <2>1 DEF RpcCancelled
<1>4. CASE AdvanceState
  <2>1. state # "ready"
    BY <1>4 DEF AdvanceState, Advances
  <2> QED
    BY <1>4, <2>1 DEF AdvanceState, AsksWhenReady
<1>5. CASE DeliverAnswer
  <2>1. \A t \in Tx : pc'[t] \in Live => pc[t] \in Live
    BY <1>0, <1>5 DEF DeliverAnswer, Live, TypeOK
  <2> QED
    BY <1>1, <1>5, <2>1 DEF DeliverAnswer
<1>6. CASE Refuse
  <2>1. \A t \in Tx : pc'[t] \in Live => pc[t] \in Live
    BY <1>6 DEF Refuse, Live
  <2> QED
    BY <1>1, <1>6, <2>1 DEF Refuse
<1>7. CASE Invoke
  BY <1>7 DEF Invoke, AsksWhenReady
<1>8. ASSUME NEW t \in Tx, Resume(t) PROVE AsksWhenReady'
  BY <1>8 DEF Resume, AsksWhenReady, Live
<1>9. ASSUME NEW t \in Tx, CompletedWritten(t) \/ CompletedRaises(t) PROVE AsksWhenReady'
  <2>1. \A u \in Tx : pc'[u] \in Live => pc[u] \in Live
    BY <1>0, <1>9 DEF CompletedWritten, CompletedRaises, Live, TypeOK
  <2> QED
    BY <1>1, <1>9, <2>1 DEF CompletedWritten, CompletedRaises
<1>10. ASSUME NEW t \in Tx, NEW type \in InvokeTypes,
              PeerInvokes(t, type) \/ PeerInvokesEarly(t, type)
       PROVE  AsksWhenReady'
  <2>1. \A u \in Tx : pc'[u] \in Live => pc[u] \in Live
    BY <1>0, <1>10 DEF PeerInvokes, PeerInvokesEarly, Live, TypeOK
  <2> QED
    BY <1>1, <1>10, <2>1 DEF PeerInvokes, PeerInvokesEarly
<1>11. ASSUME NEW t \in Tx, NEW type \in AnswerTypes, PeerAnswers(t, type) PROVE AsksWhenReady'
  BY <1>1, <1>11 DEF PeerAnswers
<1>12. ASSUME UNCHANGED <<pc, state, owed>> PROVE AsksWhenReady'
  BY <1>12 DEF AsksWhenReady
<1>13. CASE Registered \/ EndOfStream \/ NilMessage \/ Gathered
  BY <1>12, <1>13 DEF Registered, EndOfStream, NilMessage, Gathered
<1>14. CASE IgnoreKeepalive \/ RefusalEnds
  BY <1>12, <1>14 DEF IgnoreKeepalive, RefusalEnds
<1>15. CASE PeerHandshake \/ PeerKeepsAlive \/ PeerCloses \/ \E type \in OddTypes : PeerStrays(type)
  BY <1>12, <1>15 DEF PeerHandshake, PeerKeepsAlive, PeerCloses, PeerStrays
<1>16. CASE UNCHANGED vars
  BY <1>12, <1>16 DEF vars
<1> QED
  BY <1>2, <1>3, <1>4, <1>5, <1>6, <1>7, <1>8, <1>9, <1>10, <1>11, <1>13, <1>14, <1>15, <1>16
     DEF Next, StartTask

\* Every step keeps that the tasks are gathered only once the peer has closed its side.
LEMMA GatheringStep ==
  (conn = "gathering" => gone) /\ [Next]_vars => (conn = "gathering" => gone)'
BY DEF Next, StartTask, vars, shim, peer, Registered, Read, EndOfStream, NilMessage, Gathered,
       RpcCancelled, IgnoreKeepalive, AdvanceState, DeliverAnswer, Refuse, Invoke, RefusalEnds,
       Resume, CompletedWritten, CompletedRaises, PeerHandshake, PeerInvokes, PeerInvokesEarly,
       PeerAnswers, PeerKeepsAlive, PeerStrays, PeerCloses

\* Once the tasks are dropped nothing is refused any more.
LEMMA DroppedStep == Dropped /\ [Next]_vars => Dropped' /\ refused' = refused /\ odd' = odd
<1> SUFFICES ASSUME Dropped, [Next]_vars PROVE Dropped' /\ refused' = refused /\ odd' = odd
  OBVIOUS
<1>1. conn = "cancelled" /\ gone /\ spawned = <<>> /\ refusing = 0 /\ ~Open
  BY DEF Dropped, Open
<1> USE DEF shim, peer
<1>2. /\ ~Registered /\ ~Read /\ ~EndOfStream /\ ~NilMessage /\ ~Gathered /\ ~RpcCancelled
  BY <1>1 DEF Registered, Read, EndOfStream, NilMessage, Gathered, RpcCancelled
<1>3. ~StartTask /\ ~RefusalEnds
  BY <1>1 DEF StartTask, IgnoreKeepalive, AdvanceState, DeliverAnswer, Refuse, Invoke, Starts,
              RefusalEnds
<1>4. \A t \in Tx : \A type \in Types :
        ~PeerInvokes(t, type) /\ ~PeerInvokesEarly(t, type) /\ ~PeerAnswers(t, type)
  BY <1>1 DEF PeerInvokes, PeerInvokesEarly, PeerAnswers
<1>5. ~PeerHandshake /\ ~PeerKeepsAlive /\ ~PeerCloses /\ \A type \in OddTypes : ~PeerStrays(type)
  BY <1>1 DEF PeerHandshake, PeerKeepsAlive, PeerCloses, PeerStrays
<1>6. CASE \E t \in Tx : Resume(t) \/ CompletedWritten(t) \/ CompletedRaises(t)
  BY <1>6 DEF Resume, CompletedWritten, CompletedRaises, Dropped
<1>7. CASE UNCHANGED vars
  BY <1>7 DEF vars, Dropped
<1> QED
  BY <1>2, <1>3, <1>4, <1>5, <1>6, <1>7 DEF Next, Types

\* The handshake is over once the peer is owed an answer or has sent both messages.
LEMMA ReadyStage ==
  ASSUME TypeOK, Paid, state = "ready" \/ shake = 2
  PROVE  Stage(state, Queue) = 2
<1>1. CASE state = "ready"
  BY <1>1 DEF Stage, ReadyAt
<1>2. CASE shake = 2
  BY <1>2, PaidSum
<1> QED
  BY <1>1, <1>2

\* Every step pays its refusals, or drops the tasks.
LEMMA PaidStep ==
  ASSUME RInv, Paid, [Next]_vars, TypeOK'
  PROVE  Paid' \/ (Dropped' /\ refused' <= odd')
<1>0. TypeOK /\ IInv /\ AsksWhenReady /\ (conn = "gathering" => gone)
  BY DEF RInv, RefusalsRight, IInv
<1> USE DEF shim, peer
<1>1. /\ refused \in Nat /\ refusing \in Nat /\ refused' \in Nat /\ refusing' \in Nat
  BY <1>0 DEF TypeOK
<1>2. ASSUME UNCHANGED <<state, spawned, stream, shake, odd, refused, refusing>> PROVE Paid'
  <2>1. Queue' = Queue /\ refused' + refusing' <= refused + refusing
    BY <1>1, <1>2 DEF Queue
  <2> QED
    BY <1>0, <1>1, <1>2, <2>1, PaidIdle
<1>3. CASE Read
  <2>1. stream # <<>> /\ stream' = Tail(stream) /\ spawned' = Append(spawned, Head(stream))
    BY <1>3 DEF Read, Spawn
  <2>2. Queue' = Queue
    BY <1>0, <2>1, QueueOK, QueueReads DEF Queue
  <2>3. UNCHANGED <<state, shake, odd, refused, refusing>>
    BY <1>3 DEF Read
  <2>4. refused' + refusing' <= refused + refusing
    BY <1>1, <2>3
  <2> QED
    BY <1>0, <1>1, <2>2, <2>3, <2>4, PaidIdle
<1>4. CASE RpcCancelled
  <2>1. CASE conn = "gathering"
    <3>1. Dropped'
      BY <1>0, <1>4, <2>1 DEF RpcCancelled, Dropped
    <3>2. refused + refusing <= odd
      BY <1>0, PaidSum
    <3>3. odd \in Nat
      BY <1>0, QueueOK
    <3>4. refused <= odd
      BY <1>1, <3>2, <3>3
    <3> QED
      BY <1>4, <3>1, <3>4 DEF RpcCancelled
  <2>2. CASE conn # "gathering"
    BY <1>2, <1>4, <2>2 DEF RpcCancelled
  <2> QED
    BY <2>1, <2>2
<1>5. CASE StartTask
  <2>1. Starts /\ UNCHANGED <<stream, shake, odd, refused>>
    <3>1. CASE Invoke
      BY <3>1 DEF Invoke
    <3> QED
      BY <1>5, <3>1 DEF StartTask, IgnoreKeepalive, AdvanceState, DeliverAnswer, Refuse
  <2>2. /\ state' = After(state, NextTask)
        /\ refusing' = refusing + IF Refusable(state, NextTask) THEN 1 ELSE 0
    <3>0. state \in States /\ refusing + 0 = refusing
      BY <1>0, <1>1, QueueOK
    <3>1. CASE IgnoreKeepalive
      BY <3>0, <3>1 DEF IgnoreKeepalive, After, Refusable
    <3>2. CASE AdvanceState
      BY <3>0, <3>2 DEF AdvanceState, Advances, After, Refusable
    <3>3. CASE DeliverAnswer
      BY <3>0, <3>3 DEF DeliverAnswer, After, Refusable, AnswerTypes
    <3>4. CASE Refuse
      BY <3>0, <3>4 DEF Refuse, Advances, After, Refusable
    <3>5. CASE Invoke
      BY <3>0, <3>5 DEF Invoke, After, Refusable, InvokeTypes
    <3> QED
      BY <1>5, <3>1, <3>2, <3>3, <3>4, <3>5 DEF StartTask
  <2> QED
    BY <1>0, <2>1, <2>2, PaidStarts
<1>6. CASE RefusalEnds
  <2>1. refusing > 0 /\ refusing' = refusing - 1 /\ refused' = IF Open THEN refused + 1 ELSE refused
    BY <1>6 DEF RefusalEnds
  <2>2. refused' + refusing' <= refused + refusing
    BY <1>1, <2>1
  <2>3. UNCHANGED <<state, spawned, stream, shake, odd>>
    BY <1>6 DEF RefusalEnds
  <2> QED
    BY <1>0, <1>1, <2>2, <2>3, PaidIdle DEF Queue
<1>7. CASE PeerHandshake
  <2>1. shake \in 0 .. 1 /\ shake' = shake + 1
    BY <1>0, <1>7 DEF PeerHandshake, TypeOK
  <2>2. PICK type \in Types : /\ Send(type, NoTx)
                              /\ type = IF shake = 0 THEN "REGISTERED" ELSE "READY"
    BY <1>7 DEF PeerHandshake, Types
  <2>3. UNCHANGED <<spawned, state, refused, refusing, odd>>
    BY <1>7 DEF PeerHandshake
  <2> QED
    BY <1>0, <2>1, <2>2, <2>3, PaidSends
<1>8. ASSUME NEW t \in Tx, NEW type \in InvokeTypes, PeerInvokes(t, type) PROVE Paid'
  <2>1. Stage(state, Queue) = 2
    BY <1>0, <1>8, ReadyStage DEF PeerInvokes
  <2>2. Send(type, t) /\ UNCHANGED <<spawned, state, refused, refusing, odd, shake>>
    BY <1>8 DEF PeerInvokes
  <2>3. type \in Types /\ type \in AnswerTypes \cup InvokeTypes
    BY DEF Types
  <2> QED
    BY <1>0, <2>1, <2>2, <2>3, PaidSends
<1>9. ASSUME NEW t \in Tx, NEW type \in AnswerTypes, PeerAnswers(t, type) PROVE Paid'
  <2>1. Stage(state, Queue) = 2
    BY <1>0, <1>9, ReadyStage DEF PeerAnswers, AsksWhenReady
  <2>2. Send(type, t) /\ UNCHANGED <<spawned, state, refused, refusing, odd, shake>>
    BY <1>9 DEF PeerAnswers
  <2>3. type \in Types /\ type \in AnswerTypes \cup InvokeTypes
    BY DEF Types
  <2> QED
    BY <1>0, <2>1, <2>2, <2>3, PaidSends
<1>10. ASSUME NEW type \in Types, NEW t \in Tx \cup {NoTx}, Send(type, t), odd' = odd + 1,
              UNCHANGED <<spawned, state, refused, refusing, shake>>
       PROVE  Paid'
  BY <1>0, <1>10, PaidSends
<1>11. ASSUME NEW t \in Tx, NEW type \in InvokeTypes, PeerInvokesEarly(t, type) PROVE Paid'
  BY <1>10, <1>11 DEF PeerInvokesEarly, Types
<1>12. CASE PeerKeepsAlive
  BY <1>10, <1>12 DEF PeerKeepsAlive, Types
<1>13. ASSUME NEW type \in OddTypes, PeerStrays(type) PROVE Paid'
  BY <1>10, <1>13 DEF PeerStrays, Types
<1>14. CASE Registered \/ EndOfStream \/ NilMessage \/ Gathered \/ PeerCloses
  BY <1>2, <1>14 DEF Registered, EndOfStream, NilMessage, Gathered, PeerCloses
<1>15. ASSUME NEW t \in Tx, Resume(t) \/ CompletedWritten(t) \/ CompletedRaises(t) PROVE Paid'
  BY <1>2, <1>15 DEF Resume, CompletedWritten, CompletedRaises
<1>16. CASE UNCHANGED vars
  BY <1>2, <1>16 DEF vars
<1> QED
  BY <1>3, <1>4, <1>5, <1>6, <1>7, <1>8, <1>9, <1>11, <1>12, <1>13, <1>14, <1>15, <1>16 DEF Next

\* Every step keeps the refusals paid for.
LEMMA RefusalsStep == RInv /\ [Next]_vars => RInv'
<1> SUFFICES ASSUME RInv, [Next]_vars PROVE RInv'
  OBVIOUS
<1>1. IInv' /\ TypeOK'
  BY TypeStep, InvokedOnceStep, CompletedSoFarStep, LinkStep DEF RInv, IInv
<1>2. AsksWhenReady' /\ (conn = "gathering" => gone)'
  BY AsksStep, GatheringStep DEF RInv, RefusalsRight
<1>3. (Paid \/ (Dropped /\ refused <= odd))'
  <2>1. CASE Paid
    BY <1>1, <2>1, PaidStep
  <2>2. CASE Dropped /\ refused <= odd
    BY <2>2, DroppedStep
  <2> QED
    BY <2>1, <2>2 DEF RInv, RefusalsRight
<1> QED
  BY <1>1, <1>2, <1>3 DEF RInv, RefusalsRight

\* Handler's OnlyOddFramesRefused, for any transactions, chaincode and peer: a peer
\* that keeps the protocol is never refused (handler.py:127-163, 182-192).
THEOREM OnlyOddFramesRefusedHolds == Spec => []OnlyOddFramesRefused
<1>1. RInv => OnlyOddFramesRefused
  <2> SUFFICES ASSUME RInv PROVE OnlyOddFramesRefused
    OBVIOUS
  <2>1. CASE Paid
    BY <2>1, PaidSum DEF RInv, IInv, OnlyOddFramesRefused
  <2>2. CASE Dropped /\ refused <= odd
    BY <2>2, QueueOK DEF RInv, IInv, Dropped, OnlyOddFramesRefused
  <2> QED
    BY <2>1, <2>2 DEF RInv, RefusalsRight
<1> QED
  BY <1>1, InitRInv, RefusalsStep, PTL DEF Spec
=============================================================================
