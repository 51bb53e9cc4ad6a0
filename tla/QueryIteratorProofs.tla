------------------------ MODULE QueryIteratorProofs ------------------------
(***************************************************************************)
(* Theorems about QueryIterator, for any result, pages and coroutines.     *)
(***************************************************************************)
EXTENDS QueryIterator, SequenceTheorems, TLAPS

Responses == [records : Seq(1 .. Records), more : BOOLEAN, ok : BOOLEAN]
Requests == [by : Coroutines, op : {"next", "close"}, future : {"awaited", "left", "done"}]
Positions == {"idle", "fetching", "fetched", "closing", "closed", "stopping", "ending"}

(***************************************************************************)
(* The inductive invariant.                                                *)
(***************************************************************************)

\* No __anext__ has been cancelled as it waited for a page.
NoLoss == "fetch" \notin faults

PageArrived == pc[Consumer] = "fetched" /\ response.ok
Arriving == IF PageArrived THEN response.records ELSE <<>>

\* Delivered, buffered and arriving records are the first ones, in order.
Numbered ==
  /\ Len(delivered) + Len(buffer) + Len(Arriving) = cursor
  /\ \A i \in 1 .. Len(delivered) : delivered[i] = i
  /\ \A i \in 1 .. Len(buffer) : buffer[i] = Len(delivered) + i
  /\ \A i \in 1 .. Len(Arriving) : Arriving[i] = Len(delivered) + Len(buffer) + i

\* A page is asked for when the buffer is empty.
FetchesWhenEmpty == pc[Consumer] \in {"fetching", "fetched"} => buffer = <<>>

\* A request whose future is awaited has its coroutine waiting, and for it alone.
Waits(q) == \/ q.op = "next" /\ q.by = Consumer /\ pc[q.by] = "fetching"
            \/ q.op = "close" /\ pc[q.by] \in {"closing", "stopping"}
Live(i) == requests[i].future = "awaited"
RequestsAwaited ==
  \A i \in 1 .. Len(requests) : Live(i) =>
    /\ Waits(requests[i])
    /\ \A j \in 1 .. Len(requests) : Live(j) /\ requests[i].by = requests[j].by => i = j

\* While the queue moves, a page asked for is awaited.
NextAwaited ==
  ~broken => \A i \in 1 .. Len(requests) : requests[i].op = "next" => Live(i)

\* The flag is set with the one request.
ClosedWithRequest == closes = IF closed THEN 1 ELSE 0

\* The close of a closed iterator has been handled, or is on its way.
CloseSent ==
  closed => ~open \/ broken \/ \E i \in 1 .. Len(requests) : requests[i].op = "close"

\* If the newest page announces no other, the peer has sent the last record.
LastWord == (IF PageArrived THEN response.more ELSE hasMore) \/ cursor = Records

\* The transaction's oldest request closes the query, or nothing can come for it.
NoPageToCome == ~open \/ broken \/ (requests # <<>> /\ requests[1].op = "close")

\* The end of the iteration leaves nothing behind that could be returned.
Ended == stopped \/ pc[Consumer] \in {"stopping", "ending"}
QuietEnd == Ended => closed /\ buffer = <<>> /\ ~PageArrived /\ NoPageToCome

Lossless ==
  NoLoss => /\ NextAwaited /\ FetchesWhenEmpty /\ Numbered /\ LastWord /\ QuietEnd

IInv == TypeOK /\ RequestsAwaited /\ ClosedWithRequest /\ CloseSent /\ Lossless

(***************************************************************************)
(* Pages and requests.                                                     *)
(***************************************************************************)

\* A page holds the records that follow those already sent.
LEMMA PageProperties ==
  ASSUME NEW from \in Nat, NEW n \in Nat, NEW more \in BOOLEAN, from + n <= Records
  PROVE  /\ Page(from, n, more) \in Responses
         /\ Page(from, n, more).ok /\ Page(from, n, more).more = more
         /\ Len(Page(from, n, more).records) = n
         /\ \A i \in 1 .. n : Page(from, n, more).records[i] = from + i
<1> DEFINE r == Upto(from + 1, from + n)
<1>1. r = [i \in 1 .. n |-> from + i]
  BY DEF Upto
<1>2. \A i \in 1 .. n : from + i \in 1 .. Records
  BY PagesAssumption
<1>3. r \in [1 .. n -> 1 .. Records]
  BY <1>1, <1>2
<1>4. r \in Seq(1 .. Records)
  BY <1>3, SeqDef
<1>5. 1 .. Len(r) = 1 .. n /\ Len(r) \in Nat
  BY <1>3, <1>4, LenProperties
<1>6. Len(r) = n
  BY <1>5
<1>7. \A i \in 1 .. n : r[i] = from + i
  BY <1>1
<1> QED
  BY <1>4, <1>6, <1>7 DEF Page, Responses

\* Coroutines that close have a position as the consumer has.
LEMMA ConsumerIsCoroutine == Consumer \in Coroutines
BY DEF Coroutines

\* An ERROR carries no records.
LEMMA ErrorProperties ==
  /\ Error \in Responses
  /\ ~Error.ok
<1>1. <<>> \in Seq(1 .. Records)
  BY EmptySeq
<1> QED
  BY <1>1 DEF Error, Responses

\* The requests of the channel, by position.
LEMMA RequestsIn ==
  ASSUME TypeOK
  PROVE  /\ requests \in Seq(Requests) /\ Len(requests) \in Nat
         /\ requests # <<>> => 1 \in 1 .. Len(requests)
         /\ DOMAIN requests = 1 .. Len(requests)
         /\ \A i \in 1 .. Len(requests) : requests[i] \in Requests
<1>1. requests \in Seq(Requests)
  BY DEF TypeOK, Requests
<1> QED
  BY <1>1, EmptySeq, LenProperties, ElementOfSeq

\* The request that the peer gets is the transaction's oldest.
LEMMA HeadRequest ==
  ASSUME TypeOK, requests # <<>>
  PROVE  /\ Head(requests) = requests[1] /\ requests[1] \in Requests
         /\ Len(requests) \in Nat /\ Len(requests) >= 1
         /\ Tail(requests) \in Seq(Requests)
         /\ Len(Tail(requests)) = Len(requests) - 1
         /\ \A i \in 1 .. Len(Tail(requests)) : Tail(requests)[i] = requests[i + 1]
<1>1. requests \in Seq(Requests)
  BY DEF TypeOK, Requests
<1>2. Len(requests) \in Nat \ {0}
  BY <1>1, EmptySeq
<1> QED
  BY <1>1, <1>2, HeadTailProperties, ElementOfSeq

\* A step moves one coroutine.
LEMMA Moves ==
  ASSUME TypeOK, NEW c \in Coroutines, NEW p \in Positions, pc' = [pc EXCEPT ![c] = p]
  PROVE  /\ pc' \in [Coroutines -> Positions] /\ pc'[c] = p
         /\ \A d \in Coroutines : d # c => pc'[d] = pc[d]
BY DEF TypeOK, Positions

\* A request whose future alone changes keeps its sender and what it asks.
LEMMA Marked ==
  ASSUME TypeOK, NEW i \in 1 .. Len(requests), NEW f \in {"left", "done"},
         requests' = [requests EXCEPT ![i].future = f]
  PROVE  /\ requests' \in Seq(Requests) /\ Len(requests') = Len(requests)
         /\ requests # <<>> /\ requests' # <<>>
         /\ requests'[i].future = f
         /\ \A j \in 1 .. Len(requests) :
              /\ requests'[j].op = requests[j].op /\ requests'[j].by = requests[j].by
              /\ j # i => requests'[j] = requests[j]
<1> DEFINE q == [requests[i] EXCEPT !.future = f]
<1>1. requests' = [requests EXCEPT ![i] = q]
  OBVIOUS
<1>2. requests \in Seq(Requests) /\ requests[i] \in Requests /\ Len(requests) \in Nat
  BY RequestsIn
<1>3. q \in Requests /\ q.future = f /\ q.op = requests[i].op /\ q.by = requests[i].by
  BY <1>2 DEF Requests
<1> HIDE DEF q
<1>4. /\ requests' \in Seq(Requests) /\ Len(requests') = Len(requests)
      /\ requests'[i] = q
      /\ \A j \in 1 .. Len(requests) : j # i => requests'[j] = requests[j]
  BY <1>1, <1>2, <1>3, ExceptSeq
<1>5. requests # <<>> /\ requests' # <<>>
  BY <1>2, <1>4, EmptySeq
<1> QED
  BY <1>3, <1>4, <1>5

\* The end of the oldest request moves the coroutine that awaits it, and no other.
LEMMA ResolvedEffect ==
  ASSUME TypeOK, RequestsAwaited, requests # <<>>, NEW a \in Responses, Resolved(a)
  PROVE  /\ pc' \in [Coroutines -> Positions] /\ response' \in Responses
         /\ Head(requests).by \in Coroutines
         /\ \A d \in Coroutines : d # Head(requests).by => pc'[d] = pc[d]
         /\ IF Live(1)
              THEN /\ response' = a /\ Waits(Head(requests))
                   /\ pc'[Head(requests).by] = Resumed[pc[Head(requests).by]]
              ELSE response' = response /\ pc' = pc
<1> DEFINE q == Head(requests)
<1>1. q = requests[1] /\ q \in Requests /\ 1 \in 1 .. Len(requests)
  BY HeadRequest
<1>2. q.by \in Coroutines
  BY <1>1 DEF Requests
<1>3. response \in Responses /\ pc \in [Coroutines -> Positions]
  BY DEF TypeOK, Responses, Positions
<1>4. CASE Live(1)
  <2>1. Waits(q)
    BY <1>1, <1>4 DEF RequestsAwaited
  <2>2. Resumed[pc[q.by]] \in Positions
    BY <2>1 DEF Waits, Resumed, Positions
  <2>3. response' = a /\ pc' = [pc EXCEPT ![q.by] = Resumed[pc[q.by]]]
    BY <1>1, <1>4 DEF Resolved, Live
  <2> QED
    BY <1>2, <1>4, <2>1, <2>2, <2>3, Moves
<1>5. CASE ~Live(1)
  BY <1>1, <1>2, <1>3, <1>5 DEF Resolved, Live
<1> QED
  BY <1>4, <1>5

\* What the peer answers: the end of a close, a page or an error.
AnswerIs(a) ==
  \/ Head(requests).op = "close" /\ a = response /\ ~open' /\ cursor' = cursor
  \/ /\ Head(requests).op = "next" /\ open
     /\ \E n \in Nat, more \in BOOLEAN :
          /\ cursor + n <= Records /\ (more \/ cursor + n = Records)
          /\ a = Page(cursor, n, more) /\ cursor' = cursor + n /\ open' = more
  \/ Head(requests).op = "next" /\ a = Error /\ UNCHANGED <<cursor, open>>

\* An answer of the peer meets the oldest request.
LEMMA PeerAnswersEffect ==
  ASSUME TypeOK, PeerAnswers
  PROVE  /\ requests # <<>> /\ ~broken /\ UNCHANGED <<iterator, histories>>
         /\ cursor' \in 0 .. Records /\ open' \in BOOLEAN
         /\ \E a \in Responses : Answered(a) /\ AnswerIs(a)
<1>1. requests # <<>> /\ ~broken /\ UNCHANGED <<iterator, histories>>
  BY DEF PeerAnswers
<1>2. response \in Responses /\ cursor \in 0 .. Records /\ open \in BOOLEAN /\ Records \in Nat
  BY PagesAssumption DEF TypeOK, Responses
<1>3. CASE Head(requests).op = "close" /\ open' = FALSE /\ Answered(response) /\ cursor' = cursor
  BY <1>1, <1>2, <1>3 DEF AnswerIs
<1>4. CASE /\ Head(requests).op = "next" /\ open
           /\ \E n \in 0 .. MaxPage, announced \in BOOLEAN :
                /\ IsPage(cursor, n, announced)
                /\ cursor' = cursor + n
                /\ open' = announced
                /\ Answered(Page(cursor, n, announced))
  <2>1. PICK n \in 0 .. MaxPage, announced \in BOOLEAN :
                /\ IsPage(cursor, n, announced)
                /\ cursor' = cursor + n
                /\ open' = announced
                /\ Answered(Page(cursor, n, announced))
    BY <1>4
  <2>2. n \in Nat /\ cursor \in Nat /\ cursor + n <= Records
        /\ (announced \/ cursor + n = Records)
    BY <1>2, <2>1, PagesAssumption DEF IsPage
  <2>3. Page(cursor, n, announced) \in Responses
    BY <2>2, PageProperties
  <2>4. AnswerIs(Page(cursor, n, announced))
    BY <1>4, <2>1, <2>2 DEF AnswerIs
  <2>5. cursor' \in 0 .. Records
    BY <1>2, <2>1, <2>2
  <2> QED
    BY <1>1, <2>1, <2>3, <2>4, <2>5
<1>5. CASE Head(requests).op = "next" /\ Answered(Error) /\ UNCHANGED <<cursor, open>>
  BY <1>1, <1>2, <1>5, ErrorProperties DEF AnswerIs
<1> QED
  BY <1>3, <1>4, <1>5 DEF PeerAnswers

\* A write that fails ends the oldest request, which stays.
LEMMA WriteFailsEffect ==
  ASSUME TypeOK, RequestsAwaited, WriteFails
  PROVE  /\ requests # <<>> /\ ~broken /\ broken'
         /\ UNCHANGED <<iterator, cursor, open, delivered, stopped, acloses, closes>>
         /\ faults' = faults \cup {"write"}
         /\ requests' = [requests EXCEPT ![1].future = "done"] /\ 1 \in 1 .. Len(requests)
         /\ \E a \in Responses : Resolved(a) /\ (a = Error \/ a = response)
<1>1. response \in Responses
  BY DEF TypeOK, Responses
<1> QED
  BY <1>1, ErrorProperties, RequestsIn DEF WriteFails

\* A coroutine that is cancelled leaves its request behind.
LEMMA CancelEffect ==
  ASSUME TypeOK, NEW c \in Coroutines, CancelWaiting(c) \/ CancelResumed(c)
  PROVE  /\ pc' \in [Coroutines -> Positions] /\ pc'[c] = "idle"
         /\ \A d \in Coroutines : d # c => pc'[d] = pc[d]
         /\ requests' \in Seq(Requests) /\ Len(requests') = Len(requests)
         /\ requests' # <<>> <=> requests # <<>>
         /\ \A i \in 1 .. Len(requests) : requests'[i].op = requests[i].op
         /\ faults \subseteq faults' /\ faults' \subseteq {"write", "fetch", "close"}
         /\ NoLoss' => pc[c] \notin {"fetching", "fetched"}
         /\ UNCHANGED <<iterator, response, peer, delivered, stopped, acloses, closes>>
<1>1. Cancel(c)
  BY DEF CancelWaiting, CancelResumed
<1>2. /\ pc' = [pc EXCEPT ![c] = "idle"]
      /\ UNCHANGED <<iterator, response, peer, delivered, stopped, acloses, closes>>
      /\ faults' = faults \cup {IF pc[c] \in {"fetching", "fetched"} THEN "fetch" ELSE "close"}
  BY <1>1 DEF Cancel
<1>3. /\ faults \subseteq faults' /\ faults' \subseteq {"write", "fetch", "close"}
      /\ NoLoss' => pc[c] \notin {"fetching", "fetched"}
  BY <1>2 DEF TypeOK, NoLoss
<1>4. /\ requests' \in Seq(Requests) /\ Len(requests') = Len(requests)
      /\ requests' # <<>> <=> requests # <<>>
      /\ \A i \in 1 .. Len(requests) : requests'[i].op = requests[i].op
  <2>1. CASE CancelWaiting(c)
    <3>1. PICK i \in 1 .. Len(requests), f \in {"left", "done"} :
             requests' = [requests EXCEPT ![i].future = f]
      BY <2>1, RequestsIn DEF CancelWaiting
    <3> QED
      BY <3>1, Marked
  <2>2. CASE CancelResumed(c)
    BY <2>2, RequestsIn DEF CancelResumed
  <2> QED
    BY <2>1, <2>2
<1> QED
  BY <1>2, <1>3, <1>4, Moves DEF Positions

\* _close leaves its coroutine at `waiting` with a request, or at `after`.
LEMMA CloseEffect ==
  ASSUME NEW c, NEW waiting, NEW after, Close(c, waiting, after), TypeOK,
         c \in Coroutines
  PROVE  /\ closed' = TRUE
         /\ \/ /\ closed /\ pc' = [pc EXCEPT ![c] = after]
               /\ requests' = requests /\ closes' = closes
            \/ /\ ~closed /\ pc' = [pc EXCEPT ![c] = waiting]
               /\ requests' = Append(requests, [by |-> c, op |-> "close", future |-> "awaited"])
               /\ closes' = closes + 1
         /\ requests' \in Seq(Requests) /\ closes' \in Nat
<1>1. [by |-> c, op |-> "close", future |-> "awaited"] \in Requests /\ requests \in Seq(Requests)
  BY DEF TypeOK, Requests
<1>2. Append(requests, [by |-> c, op |-> "close", future |-> "awaited"]) \in Seq(Requests)
  BY <1>1, AppendProperties
<1>3. closed' = TRUE /\ closes \in Nat
  BY DEF Close, MarkClosed, TypeOK
<1>4. CASE closed
  BY <1>1, <1>3, <1>4 DEF Close
<1>5. CASE ~closed
  BY <1>2, <1>3, <1>5 DEF Close, Ask
<1> QED
  BY <1>4, <1>5

\* A close keeps the types,
LEMMA CloseType ==
  ASSUME TypeOK, NEW c \in Coroutines, NEW waiting \in Positions, NEW after \in Positions,
         Close(c, waiting, after)
  PROVE  /\ closed' = TRUE /\ requests' \in Seq(Requests) /\ closes' \in Nat
         /\ pc' \in [Coroutines -> Positions]
<1>1. /\ closed' = TRUE /\ requests' \in Seq(Requests) /\ closes' \in Nat
      /\ pc' = [pc EXCEPT ![c] = after] \/ pc' = [pc EXCEPT ![c] = waiting]
  BY CloseEffect
<1> QED
  BY <1>1, Moves

\* __anext__ ends, or asks for a page.
LEMMA StopType ==
  ASSUME TypeOK, Stop
  PROVE  /\ closed' = TRUE /\ requests' \in Seq(Requests) /\ closes' \in Nat
         /\ pc' \in [Coroutines -> Positions] /\ stopped' \in BOOLEAN
<1>1. stopped' \in BOOLEAN
  BY DEF Stop, TypeOK
<1> QED
  <2>1. "stopping" \in Positions /\ "idle" \in Positions /\ Close(Consumer, "stopping", "idle")
    BY DEF Stop, Positions
  <2> QED
    BY <1>1, <2>1, ConsumerIsCoroutine, CloseType

\* and a fetch puts one request behind the others.
LEMMA FetchEffect ==
  ASSUME TypeOK, NextFetches
  PROVE  /\ requests' = Append(requests, [by |-> Consumer, op |-> "next", future |-> "awaited"])
         /\ requests' \in Seq(Requests)
         /\ pc' = [pc EXCEPT ![Consumer] = "fetching"]
         /\ pc' \in [Coroutines -> Positions]
<1>1. [by |-> Consumer, op |-> "next", future |-> "awaited"] \in Requests /\ requests \in Seq(Requests)
  BY ConsumerIsCoroutine DEF TypeOK, Requests
<1> QED
  BY <1>1, ConsumerIsCoroutine, Moves, AppendProperties DEF NextFetches, Ask, Positions

(***************************************************************************)
(* The invariant holds initially.                                          *)
(***************************************************************************)

\* The invariant holds when the query has been answered.
LEMMA InitIInv == Init => IInv
<1> SUFFICES ASSUME Init PROVE IInv
  OBVIOUS
<1>1. PICK n \in 0 .. MaxPage, more \in BOOLEAN :
        /\ IsPage(0, n, more) /\ response = Page(0, n, more)
        /\ buffer = response.records /\ hasMore = more /\ closed = FALSE
        /\ cursor = n /\ open = more
  BY DEF Init
<1>2. n \in Nat /\ 0 + n <= Records /\ Records \in Nat /\ n \in 0 .. Records /\ 0 \in Nat
      /\ (more \/ n = Records)
  BY <1>1, PagesAssumption DEF IsPage
<1>3. /\ pc = [c \in Coroutines |-> "idle"] /\ requests = <<>> /\ broken = FALSE
      /\ delivered = <<>> /\ stopped = FALSE /\ acloses = FALSE /\ closes = 0
      /\ faults = {} /\ pc[Consumer] = "idle"
  BY ConsumerIsCoroutine DEF Init
<1>4. /\ buffer \in Seq(1 .. Records) /\ Len(buffer) = n
      /\ \A i \in 1 .. n : buffer[i] = 0 + i
      /\ response \in Responses
  <2>1. /\ Page(0, n, more).records \in Seq(1 .. Records) /\ Len(Page(0, n, more).records) = n
        /\ \A i \in 1 .. n : Page(0, n, more).records[i] = 0 + i
        /\ Page(0, n, more) \in Responses
    BY <1>2, PageProperties DEF Responses
  <2> QED
    BY <1>1, <2>1
<1>5. TypeOK
  <2>1. <<>> \in Seq(1 .. Records) /\ <<>> \in Seq(Requests)
    BY EmptySeq
  <2>2. pc \in [Coroutines -> Positions]
    BY <1>3 DEF Positions
  <2>3. closes \in Nat /\ ~(closes > 0)
    BY <1>3
  <2> QED
    BY <1>1, <1>2, <1>3, <1>4, <2>1, <2>2, <2>3
    DEF TypeOK, Responses, Requests, Positions
<1>6. Numbered
  <2>1. Len(delivered) = 0 /\ Arriving = <<>> /\ Len(Arriving) = 0
    BY <1>3 DEF Arriving, PageArrived
  <2> QED
    BY <1>1, <1>2, <1>4, <2>1 DEF Numbered
<1>7. LastWord
  BY <1>1, <1>2, <1>3 DEF LastWord, PageArrived
<1>8. Len(requests) = 0
  BY <1>3
<1>9. RequestsAwaited /\ NextAwaited
  BY <1>8 DEF RequestsAwaited, NextAwaited
<1>10. FetchesWhenEmpty /\ ClosedWithRequest /\ CloseSent /\ QuietEnd
  BY <1>1, <1>3 DEF FetchesWhenEmpty, ClosedWithRequest, CloseSent, QuietEnd, Ended
<1> QED
  BY <1>5, <1>6, <1>7, <1>9, <1>10 DEF IInv, Lossless

(***************************************************************************)
(* Type correctness.                                                       *)
(***************************************************************************)

\* Every step keeps the types.
LEMMA TypeStep == TypeOK /\ RequestsAwaited /\ [Next]_vars => TypeOK'
<1> SUFFICES ASSUME TypeOK, RequestsAwaited, [Next]_vars PROVE TypeOK'
  OBVIOUS
<1> USE DEF iterator, peer, histories
<1>1. CASE PeerAnswers
  <2>1. PICK a \in Responses : Answered(a)
    BY <1>1, PeerAnswersEffect
  <2>2. pc' \in [Coroutines -> Positions] /\ response' \in Responses
    BY <1>1, <2>1, PeerAnswersEffect, ResolvedEffect DEF Answered
  <2>3. broken' \in BOOLEAN /\ requests' \in Seq(Requests)
    BY <1>1, <2>1, PeerAnswersEffect, HeadRequest, RequestsIn DEF Answered
  <2>4. cursor' \in 0 .. Records /\ open' \in BOOLEAN /\ UNCHANGED <<iterator, histories>>
    BY <1>1, PeerAnswersEffect
  <2> QED
    BY <2>2, <2>3, <2>4 DEF TypeOK, Positions, Requests, Responses
<1>2. CASE WriteFails
  <2>1. PICK a \in Responses : Resolved(a)
    BY <1>2, WriteFailsEffect
  <2>2. pc' \in [Coroutines -> Positions] /\ response' \in Responses
    BY <1>2, <2>1, WriteFailsEffect, ResolvedEffect
  <2>3. requests' \in Seq(Requests)
    BY <1>2, WriteFailsEffect, Marked
  <2> QED
    BY <1>2, <2>2, <2>3, WriteFailsEffect DEF TypeOK, Positions, Responses, Requests
<1>3. CASE NextBuffered
  <2>1. Head(buffer) \in 1 .. Records /\ buffer' \in Seq(1 .. Records)
    BY <1>3, HeadTailProperties DEF NextBuffered, TypeOK
  <2>2. delivered' \in Seq(1 .. Records)
    BY <1>3, <2>1, AppendProperties DEF NextBuffered, TypeOK
  <2> QED
    BY <1>3, <2>1, <2>2 DEF NextBuffered, TypeOK
<1>4. CASE NextStops
  BY <1>4, StopType DEF NextStops, TypeOK, Positions, Requests
<1>5. CASE StopReturns
  BY <1>5 DEF StopReturns, TypeOK
<1>6. CASE NextFetches
  <2>1. requests' \in Seq(Requests) /\ pc' \in [Coroutines -> Positions]
    BY <1>6, FetchEffect DEF NextFetches, Positions
  <2> QED
    BY <1>6, <2>1 DEF NextFetches, TypeOK, Positions, Requests
<1>7. CASE FetchReturns
  <2>1. /\ response.records \in Seq(1 .. Records) /\ response.records # <<>>
        /\ response.more \in BOOLEAN
    BY <1>7 DEF FetchReturns, TypeOK
  <2>2. buffer' \in Seq(1 .. Records) /\ delivered' \in Seq(1 .. Records)
    BY <1>7, <2>1, HeadTailProperties, AppendProperties DEF FetchReturns, PopPage, TypeOK
  <2> QED
    BY <1>7, <2>1, <2>2 DEF FetchReturns, Consume, TypeOK
<1>8. CASE FetchStops
  BY <1>8, StopType DEF FetchStops, Consume, TypeOK, Positions, Requests
<1>9. CASE FetchRaises
  BY <1>9 DEF FetchRaises, TypeOK
<1>10. ASSUME NEW c \in Coroutines, Aclose(c) PROVE TypeOK'
  <2>1. /\ closed' = TRUE /\ requests' \in Seq(Requests) /\ closes' \in Nat
        /\ pc' \in [Coroutines -> Positions]
    <3>1. "closing" \in Positions /\ "idle" \in Positions /\ Close(c, "closing", "idle")
      BY <1>10 DEF Aclose, Positions
    <3> QED
      BY <3>1, CloseType
  <2> QED
    BY <1>10, <2>1 DEF Aclose, TypeOK, Positions, Requests
<1>11. ASSUME NEW c \in Coroutines, AcloseReturns(c) PROVE TypeOK'
  BY <1>11 DEF AcloseReturns, TypeOK
<1>12. ASSUME NEW c \in Coroutines, CancelWaiting(c) \/ CancelResumed(c) PROVE TypeOK'
  BY <1>12, CancelEffect DEF TypeOK, Positions, Requests
<1>13. CASE UNCHANGED vars
  BY <1>13 DEF vars, TypeOK
<1> QED
  BY <1>1, <1>2, <1>3, <1>4, <1>5, <1>6, <1>7, <1>8, <1>9, <1>10, <1>11, <1>12, <1>13 DEF Next

(***************************************************************************)
(* The queue of the transaction.                                           *)
(***************************************************************************)

\* A request and its coroutine after a step.
WillWait(q) == \/ q.op = "next" /\ q.by = Consumer /\ pc'[q.by] = "fetching"
               \/ q.op = "close" /\ pc'[q.by] \in {"closing", "stopping"}
WillLive(i) == requests'[i].future = "awaited"
StaysAwaited(i) ==
  WillLive(i) => /\ WillWait(requests'[i])
                 /\ \A j \in 1 .. Len(requests') :
                      WillLive(j) /\ requests'[i].by = requests'[j].by => i = j

\* What a step must keep.
LEMMA AwaitedAfter ==
  ASSUME \A i \in 1 .. Len(requests') : StaysAwaited(i)
  PROVE  RequestsAwaited'
BY DEF StaysAwaited, RequestsAwaited, Waits, WillWait, Live, WillLive

\* A live request and its coroutine.
LEMMA LiveRequest ==
  ASSUME TypeOK, RequestsAwaited, NEW i \in 1 .. Len(requests), Live(i)
  PROVE  /\ requests[i] \in Requests /\ requests[i].by \in Coroutines
         /\ Waits(requests[i]) /\ pc[requests[i].by] \in {"fetching", "closing", "stopping"}
<1>1. requests[i] \in Requests
  BY RequestsIn
<1> QED
  BY <1>1 DEF RequestsAwaited, Waits, Requests

\* A coroutine that waits for no answer moves.
LEMMA MovesAwaited ==
  ASSUME TypeOK, RequestsAwaited, NEW c \in Coroutines,
         pc[c] \notin {"fetching", "closing", "stopping"},
         \A d \in Coroutines : d # c => pc'[d] = pc[d], requests' = requests
  PROVE  RequestsAwaited'
<1> SUFFICES ASSUME NEW i \in 1 .. Len(requests), Live(i)
             PROVE  StaysAwaited(i)
  BY AwaitedAfter DEF StaysAwaited, Live, WillLive
<1>1. Waits(requests[i]) /\ requests[i].by \in Coroutines /\ requests[i].by # c
  BY LiveRequest
<1>2. WillWait(requests[i])
  BY <1>1 DEF Waits, WillWait
<1> QED
  BY <1>2 DEF RequestsAwaited, StaysAwaited, Live, WillLive

\* A coroutine that waits for no answer asks.
LEMMA AsksAwaited ==
  ASSUME TypeOK, RequestsAwaited, NEW c \in Coroutines, NEW op \in {"next", "close"},
         pc[c] \notin {"fetching", "closing", "stopping"},
         \A d \in Coroutines : d # c => pc'[d] = pc[d],
         \/ op = "next" /\ c = Consumer /\ pc'[c] = "fetching"
         \/ op = "close" /\ pc'[c] \in {"closing", "stopping"},
         requests' = Append(requests, [by |-> c, op |-> op, future |-> "awaited"])
  PROVE  RequestsAwaited'
<1> DEFINE q == [by |-> c, op |-> op, future |-> "awaited"]
           n == Len(requests)
<1>1. /\ n \in Nat /\ Len(requests') = n + 1 /\ requests'[n + 1] = q
      /\ \A i \in 1 .. n : requests'[i] = requests[i]
  <2>1. requests \in Seq(Requests) /\ q \in Requests
    BY DEF TypeOK, Requests
  <2> QED
    BY <2>1, AppendProperties, LenProperties
<1>2. \A i \in 1 .. n : Live(i) => requests[i].by # c /\ WillWait(requests[i])
  BY LiveRequest DEF Waits, WillWait
<1>3. WillWait(q) /\ q.by = c
  BY DEF WillWait
<1> SUFFICES ASSUME NEW i \in 1 .. n + 1
             PROVE  StaysAwaited(i)
  BY <1>1, AwaitedAfter
<1>4. CASE i = n + 1
  BY <1>1, <1>2, <1>3, <1>4 DEF StaysAwaited, Live, WillLive
<1>5. CASE i \in 1 .. n
  BY <1>1, <1>2, <1>3, <1>5 DEF StaysAwaited, Live, WillLive, RequestsAwaited
<1> QED
  BY <1>1, <1>4, <1>5

\* The oldest request is removed.
LEMMA RemovedAwaited ==
  ASSUME TypeOK, RequestsAwaited, requests # <<>>, requests' = Tail(requests),
         \A d \in Coroutines : d # requests[1].by => pc'[d] = pc[d],
         Live(1) \/ pc' = pc
  PROVE  RequestsAwaited'
<1>1. /\ Len(requests) \in Nat /\ Len(requests') = Len(requests) - 1
      /\ \A i \in 1 .. Len(requests') : requests'[i] = requests[i + 1]
      /\ 1 \in 1 .. Len(requests)
  BY HeadRequest
<1> SUFFICES ASSUME NEW i \in 1 .. Len(requests'), WillLive(i)
             PROVE  StaysAwaited(i)
  BY AwaitedAfter DEF StaysAwaited
<1>2. i + 1 \in 1 .. Len(requests) /\ i + 1 # 1 /\ Live(i + 1)
  BY <1>1 DEF Live, WillLive
<1>3. Waits(requests[i + 1]) /\ requests[i + 1].by \in Coroutines
  BY <1>2, LiveRequest
<1>4. Live(1) => requests[i + 1].by # requests[1].by
  BY <1>1, <1>2 DEF RequestsAwaited
<1>5. WillWait(requests'[i])
  BY <1>1, <1>3, <1>4 DEF Waits, WillWait
<1>6. ASSUME NEW j \in 1 .. Len(requests'), WillLive(j), requests'[i].by = requests'[j].by
      PROVE  i = j
  <2>1. j + 1 \in 1 .. Len(requests) /\ Live(j + 1) /\ requests[i + 1].by = requests[j + 1].by
    BY <1>1, <1>6 DEF Live, WillLive
  <2>2. i + 1 = j + 1
    BY <1>2, <2>1 DEF RequestsAwaited
  <2> QED
    BY <2>2
<1> QED
  BY <1>5, <1>6 DEF StaysAwaited

\* A request is no longer awaited, and its coroutine moves.
LEMMA MarkedAwaited ==
  ASSUME TypeOK, RequestsAwaited, NEW k \in 1 .. Len(requests), NEW f \in {"left", "done"},
         requests' = [requests EXCEPT ![k].future = f],
         \A d \in Coroutines : d # requests[k].by => pc'[d] = pc[d],
         Live(k) \/ pc' = pc
  PROVE  RequestsAwaited'
<1>1. /\ Len(requests') = Len(requests) /\ requests'[k].future = f
      /\ \A j \in 1 .. Len(requests) : j # k => requests'[j] = requests[j]
  BY Marked
<1> SUFFICES ASSUME NEW i \in 1 .. Len(requests), WillLive(i)
             PROVE  StaysAwaited(i)
  BY <1>1, AwaitedAfter DEF StaysAwaited
<1>2. i # k /\ Live(i) /\ requests'[i] = requests[i]
  BY <1>1 DEF Live, WillLive
<1>3. Waits(requests[i]) /\ requests[i].by \in Coroutines
  BY <1>2, LiveRequest
<1>4. Live(k) => requests[i].by # requests[k].by
  BY <1>2 DEF RequestsAwaited
<1>5. WillWait(requests'[i])
  BY <1>2, <1>3, <1>4 DEF Waits, WillWait
<1>6. ASSUME NEW j \in 1 .. Len(requests), WillLive(j), requests'[i].by = requests'[j].by
      PROVE  i = j
  <2>1. j # k /\ Live(j) /\ requests'[j] = requests[j]
    BY <1>1, <1>6 DEF Live, WillLive
  <2> QED
    BY <1>2, <1>6, <2>1 DEF RequestsAwaited
<1> QED
  BY <1>1, <1>5, <1>6 DEF StaysAwaited

\* _close by a coroutine that waits for no answer.
LEMMA CloseAwaited ==
  ASSUME TypeOK, RequestsAwaited, NEW c \in Coroutines, NEW waiting \in {"closing", "stopping"},
         pc[c] \in {"idle", "fetched"}, Close(c, waiting, "idle")
  PROVE  /\ RequestsAwaited'
         /\ \A d \in Coroutines : d # c => pc'[d] = pc[d]
         /\ pc'[c] = IF closed THEN "idle" ELSE waiting
<1>1. waiting \in Positions /\ "idle" \in Positions
  BY DEF Positions
<1>2. CASE closed
  <2>1. pc' = [pc EXCEPT ![c] = "idle"] /\ requests' = requests
    BY <1>2, CloseEffect
  <2>2. pc'[c] = "idle" /\ \A d \in Coroutines : d # c => pc'[d] = pc[d]
    BY <1>1, <2>1, Moves
  <2> QED
    BY <1>2, <2>1, <2>2, MovesAwaited
<1>3. CASE ~closed
  <2>1. /\ pc' = [pc EXCEPT ![c] = waiting]
        /\ requests' = Append(requests, [by |-> c, op |-> "close", future |-> "awaited"])
    BY <1>3, CloseEffect
  <2>2. pc'[c] = waiting /\ \A d \in Coroutines : d # c => pc'[d] = pc[d]
    BY <1>1, <2>1, Moves
  <2> QED
    BY <1>3, <2>1, <2>2, AsksAwaited
<1> QED
  BY <1>2, <1>3

\* The consumer's move back to "idle".
LEMMA ConsumerMoves ==
  ASSUME TypeOK, NEW p \in Positions, pc' = [pc EXCEPT ![Consumer] = p]
  PROVE  pc'[Consumer] = p /\ \A d \in Coroutines : d # Consumer => pc'[d] = pc[d]
BY ConsumerIsCoroutine, Moves

\* Every step keeps each awaited request with the coroutine that waits for it.
LEMMA RequestsAwaitedStep == TypeOK /\ RequestsAwaited /\ [Next]_vars => RequestsAwaited'
<1> SUFFICES ASSUME TypeOK, RequestsAwaited, [Next]_vars PROVE RequestsAwaited'
  OBVIOUS
<1> USE DEF iterator, peer, histories
<1>1. CASE PeerAnswers
  <2>1. PICK a \in Responses : Answered(a)
    BY <1>1, PeerAnswersEffect
  <2>2. /\ requests # <<>> /\ Head(requests) = requests[1]
        /\ \A d \in Coroutines : d # requests[1].by => pc'[d] = pc[d]
        /\ Live(1) \/ pc' = pc
    BY <1>1, <2>1, PeerAnswersEffect, HeadRequest, ResolvedEffect DEF Answered
  <2>3. CASE requests' = Tail(requests)
    BY <2>2, <2>3, RemovedAwaited
  <2>4. CASE requests[1].future = "done" /\ requests' = requests
    BY <2>2, <2>4 DEF RequestsAwaited, Live, Waits
  <2> QED
    BY <2>1, <2>2, <2>3, <2>4 DEF Answered
<1>2. CASE WriteFails
  <2>1. PICK a \in Responses : Resolved(a)
    BY <1>2, WriteFailsEffect
  <2>2. /\ \A d \in Coroutines : d # requests[1].by => pc'[d] = pc[d]
        /\ Live(1) \/ pc' = pc
    BY <1>2, <2>1, WriteFailsEffect, HeadRequest, ResolvedEffect
  <2> QED
    BY <1>2, <2>2, WriteFailsEffect, MarkedAwaited
<1>3. CASE NextBuffered
  BY <1>3 DEF NextBuffered, RequestsAwaited, Waits, Live
<1>4. CASE NextStops
  BY <1>4, ConsumerIsCoroutine, CloseAwaited DEF NextStops, Stop
<1>5. CASE StopReturns
  BY <1>5, ConsumerIsCoroutine, ConsumerMoves, MovesAwaited DEF StopReturns, Positions
<1>6. CASE NextFetches
  <2>1. /\ requests' = Append(requests, [by |-> Consumer, op |-> "next", future |-> "awaited"])
        /\ pc' = [pc EXCEPT ![Consumer] = "fetching"]
        /\ pc[Consumer] = "idle"
    BY <1>6, FetchEffect DEF NextFetches
  <2>2. /\ pc'[Consumer] = "fetching"
        /\ \A d \in Coroutines : d # Consumer => pc'[d] = pc[d]
    BY <2>1, ConsumerMoves DEF Positions
  <2> QED
    BY <2>1, <2>2, ConsumerIsCoroutine, AsksAwaited
<1>7. CASE FetchReturns
  BY <1>7, ConsumerIsCoroutine, ConsumerMoves, MovesAwaited DEF FetchReturns, Positions
<1>8. CASE FetchStops
  BY <1>8, ConsumerIsCoroutine, CloseAwaited DEF FetchStops, Stop
<1>9. CASE FetchRaises
  BY <1>9, ConsumerIsCoroutine, ConsumerMoves, MovesAwaited DEF FetchRaises, Positions
<1>10. ASSUME NEW c \in Coroutines, Aclose(c) PROVE RequestsAwaited'
  BY <1>10, CloseAwaited DEF Aclose
<1>11. ASSUME NEW c \in Coroutines, AcloseReturns(c) PROVE RequestsAwaited'
  <2>1. \A d \in Coroutines : d # c => pc'[d] = pc[d]
    BY <1>11, Moves DEF AcloseReturns, Positions
  <2> QED
    BY <1>11, <2>1, MovesAwaited DEF AcloseReturns
<1>12. ASSUME NEW c \in Coroutines, CancelWaiting(c) PROVE RequestsAwaited'
  <2>1. PICK i \in 1 .. Len(requests), f \in {"left", "done"} :
          requests[i].by = c /\ Live(i) /\ requests' = [requests EXCEPT ![i].future = f]
    BY <1>12, RequestsIn DEF CancelWaiting, Live
  <2> QED
    BY <1>12, <2>1, CancelEffect, MarkedAwaited
<1>13. ASSUME NEW c \in Coroutines, CancelResumed(c) PROVE RequestsAwaited'
  BY <1>13, CancelEffect, MovesAwaited DEF CancelResumed
<1>14. CASE UNCHANGED vars
  BY <1>14 DEF vars, RequestsAwaited, Waits, Live
<1> QED
  BY <1>1, <1>2, <1>3, <1>4, <1>5, <1>6, <1>7, <1>8, <1>9, <1>10, <1>11, <1>12, <1>13, <1>14
  DEF Next

\* The flag and the count of the requests change together.
LEMMA ClosedWithRequestStep ==
  TypeOK /\ ClosedWithRequest /\ [Next]_vars => ClosedWithRequest'
<1> SUFFICES ASSUME TypeOK, ClosedWithRequest, [Next]_vars PROVE ClosedWithRequest'
  OBVIOUS
<1>1. ASSUME NEW c \in Coroutines, NEW waiting, NEW after, Close(c, waiting, after)
      PROVE  ClosedWithRequest'
  <2>1. closed' = TRUE
    BY <1>1, CloseEffect
  <2>2. closes' = 1
    <3>1. CASE closed
      BY <1>1, <3>1 DEF Close, ClosedWithRequest
    <3>2. CASE ~closed
      BY <1>1, <3>2 DEF Close, ClosedWithRequest
    <3> QED
      BY <3>1, <3>2
  <2> QED
    BY <2>1, <2>2 DEF ClosedWithRequest
<1>2. CASE NextStops \/ FetchStops
  BY <1>1, <1>2, ConsumerIsCoroutine DEF NextStops, FetchStops, Stop
<1>3. ASSUME NEW c \in Coroutines, Aclose(c) PROVE ClosedWithRequest'
  BY <1>1, <1>3 DEF Aclose
<1>4. ASSUME UNCHANGED <<closed, closes>> PROVE ClosedWithRequest'
  BY <1>4 DEF ClosedWithRequest
<1> QED
  BY <1>2, <1>3, <1>4
  DEF Next, PeerAnswers, WriteFails, NextBuffered, StopReturns, NextFetches, FetchReturns,
      FetchRaises, AcloseReturns, CancelWaiting, CancelResumed, Cancel, vars, iterator, histories

\* A request that joins the queue.
LEMMA JoinsQueue ==
  ASSUME TypeOK, NEW q \in Requests, requests' = Append(requests, q),
         open' = open, broken' = broken
  PROVE  /\ requests' # <<>> /\ requests'[1] = (IF requests = <<>> THEN q ELSE requests[1])
         /\ NoPageToCome => NoPageToCome'
         /\ (\E i \in 1 .. Len(requests) : requests[i].op = "close") \/ q.op = "close" =>
              \E i \in 1 .. Len(requests') : requests'[i].op = "close"
<1>1. /\ Len(requests) \in Nat /\ Len(requests') = Len(requests) + 1
      /\ requests'[Len(requests) + 1] = q /\ requests' \in Seq(Requests)
      /\ \A i \in 1 .. Len(requests) : requests'[i] = requests[i]
  BY RequestsIn, AppendProperties
<1>2. requests' # <<>>
  BY <1>1, EmptySeq
<1>3. requests'[1] = IF requests = <<>> THEN q ELSE requests[1]
  <2>1. CASE requests = <<>>
    BY <1>1, <2>1
  <2>2. CASE requests # <<>>
    BY <1>1, <2>2, RequestsIn
  <2> QED
    BY <2>1, <2>2
<1>4. /\ Len(requests) + 1 \in 1 .. Len(requests')
      /\ \A i \in 1 .. Len(requests) : i \in 1 .. Len(requests')
  BY <1>1
<1> QED
  BY <1>1, <1>2, <1>3, <1>4 DEF NoPageToCome

\* _close sends the request of a closed iterator.
LEMMA CloseSends ==
  ASSUME TypeOK, CloseSent, NEW c \in Coroutines, NEW waiting, NEW after,
         Close(c, waiting, after), open' = open, broken' = broken
  PROVE  CloseSent' /\ (NoPageToCome => NoPageToCome')
<1>1. CASE closed /\ requests' = requests
  BY <1>1 DEF CloseSent, NoPageToCome
<1>2. CASE requests' = Append(requests, [by |-> c, op |-> "close", future |-> "awaited"])
  <2>1. [by |-> c, op |-> "close", future |-> "awaited"] \in Requests
    BY DEF Requests
  <2> QED
    BY <1>2, <2>1, JoinsQueue DEF CloseSent
<1> QED
  BY <1>1, <1>2, CloseEffect

\* Every step keeps that the close of a closed iterator is on its way, handled or lost.
LEMMA CloseSentStep == TypeOK /\ RequestsAwaited /\ CloseSent /\ [Next]_vars => CloseSent'
<1> SUFFICES ASSUME TypeOK, RequestsAwaited, CloseSent, [Next]_vars PROVE CloseSent'
  OBVIOUS
<1> USE DEF iterator, peer, histories
<1>1. CASE PeerAnswers
  <2>1. PICK a \in Responses : Answered(a) /\ AnswerIs(a)
    BY <1>1, PeerAnswersEffect
  <2>2. /\ requests # <<>> /\ ~broken /\ requests[1] = Head(requests) /\ closed' = closed
    BY <1>1, PeerAnswersEffect, HeadRequest
  <2>3. CASE ~open' \/ broken'
    BY <2>2, <2>3 DEF CloseSent
  <2>4. CASE open' /\ ~broken'
    <3>1. requests' = Tail(requests) /\ requests[1].op # "close" /\ open
      BY <2>1, <2>2, <2>4 DEF Answered, AnswerIs
    <3>2. ASSUME NEW i \in 1 .. Len(requests), requests[i].op = "close"
          PROVE  \E j \in 1 .. Len(requests') : requests'[j].op = "close"
      <4>1. i # 1
        BY <3>1, <3>2
      <4>2. i - 1 \in 1 .. Len(requests') /\ requests'[i - 1] = requests[(i - 1) + 1]
        BY <2>2, <3>1, <4>1, HeadRequest
      <4>3. (i - 1) + 1 = i
        OBVIOUS
      <4> QED
        BY <3>2, <4>2, <4>3
    <3> QED
      BY <2>2, <3>1, <3>2 DEF CloseSent
  <2> QED
    BY <2>3, <2>4
<1>2. CASE WriteFails
  BY <1>2 DEF WriteFails, CloseSent
<1>3. CASE NextStops \/ FetchStops
  BY <1>3, ConsumerIsCoroutine, CloseSends DEF NextStops, FetchStops, Stop
<1>4. CASE NextFetches
  <2>1. [by |-> Consumer, op |-> "next", future |-> "awaited"] \in Requests
    BY ConsumerIsCoroutine DEF Requests
  <2>2. UNCHANGED <<closed, open, broken>>
    BY <1>4 DEF NextFetches
  <2> QED
    BY <1>4, <2>1, <2>2, FetchEffect, JoinsQueue DEF CloseSent
<1>5. ASSUME NEW c \in Coroutines, Aclose(c) PROVE CloseSent'
  BY <1>5, CloseSends DEF Aclose
<1>6. ASSUME UNCHANGED <<closed, open, broken, requests>> PROVE CloseSent'
  BY <1>6 DEF CloseSent
<1>7. ASSUME NEW c \in Coroutines, CancelWaiting(c) \/ CancelResumed(c) PROVE CloseSent'
  BY <1>7, CancelEffect DEF CloseSent
<1> QED
  BY <1>1, <1>2, <1>3, <1>4, <1>5, <1>6, <1>7
  DEF Next, NextBuffered, StopReturns, FetchReturns, FetchRaises, AcloseReturns, vars

(***************************************************************************)
(* While no __anext__ has been cancelled as it waited.                     *)
(***************************************************************************)

\* An answer, or a write that fails: a page or an error comes to a consumer that
\* fetches, or a coroutine that closes goes on, if it still waits.
PageComes ==
  /\ pc[Consumer] = "fetching" /\ pc'[Consumer] = "fetched" /\ open
  /\ \E n \in Nat, more \in BOOLEAN :
       /\ cursor + n <= Records /\ (more \/ cursor + n = Records)
       /\ response' = Page(cursor, n, more) /\ cursor' = cursor + n
ErrorComes ==
  /\ pc[Consumer] = "fetching" /\ pc'[Consumer] = "fetched"
  /\ ~response'.ok /\ cursor' = cursor
  /\ (open' = open /\ broken' = broken) \/ broken'
CloseComes ==
  /\ \A d \in Coroutines : \/ pc'[d] = pc[d]
                           \/ pc[d] = "closing" /\ pc'[d] = "closed"
                           \/ pc[d] = "stopping" /\ pc'[d] = "ending"
  /\ UNCHANGED <<response, cursor>>
  /\ ~open' \/ broken'

\* An answer to a close, or to a fetch.
LEMMA AnswerKinds ==
  ASSUME TypeOK, RequestsAwaited, NextAwaited, PeerAnswers \/ WriteFails
  PROVE  /\ requests # <<>> /\ ~broken
         /\ requests[1].op \in {"next", "close"}
         /\ IF requests[1].op = "close" THEN CloseComes ELSE PageComes \/ ErrorComes
<1> DEFINE q == requests[1]
<1>1. requests # <<>> /\ ~broken
  BY DEF PeerAnswers, WriteFails
<1>2. q.op \in {"next", "close"} /\ q = Head(requests) /\ 1 \in 1 .. Len(requests)
  BY <1>1, RequestsIn, HeadRequest DEF Requests
<1>3. CASE q.op = "close"
  <2>1. ASSUME NEW a \in Responses, Resolved(a), a = response \/ ~Live(1), ~open' \/ broken',
               cursor' = cursor
        PROVE  CloseComes
    <3>1. /\ \A d \in Coroutines : d # q.by => pc'[d] = pc[d]
          /\ response' = response
          /\ Live(1) => Waits(q) /\ pc'[q.by] = Resumed[pc[q.by]]
          /\ ~Live(1) => pc' = pc
      BY <1>1, <1>2, <2>1, ResolvedEffect
    <3>2. Live(1) => \/ pc[q.by] = "closing" /\ pc'[q.by] = "closed"
                     \/ pc[q.by] = "stopping" /\ pc'[q.by] = "ending"
      BY <1>3, <3>1 DEF Waits, Resumed
    <3> QED
      BY <2>1, <3>1, <3>2 DEF CloseComes
  <2>2. CASE PeerAnswers
    <3>1. PICK a \in Responses : Answered(a) /\ AnswerIs(a)
      BY <2>2, PeerAnswersEffect
    <3>2. a = response /\ ~open' /\ cursor' = cursor
      BY <1>2, <1>3, <3>1 DEF AnswerIs
    <3>3. CloseComes
      BY <2>1, <3>1, <3>2 DEF Answered
    <3> QED
      BY <1>1, <1>2, <1>3, <3>3
  <2>3. CASE WriteFails
    <3>1. response \in Responses
      BY DEF TypeOK, Responses
    <3> QED
      BY <1>2, <1>3, <2>1, <2>3, <3>1 DEF WriteFails
  <2> QED
    BY <1>1, <1>2, <1>3, <2>2, <2>3
<1>4. CASE q.op = "next"
  <2>1. Live(1)
    BY <1>1, <1>2, <1>4 DEF NextAwaited
  <2>2. ASSUME NEW a \in Responses, Resolved(a)
        PROVE  response' = a /\ pc[Consumer] = "fetching" /\ pc'[Consumer] = "fetched"
    <3>1. response' = a /\ Waits(q) /\ pc'[q.by] = Resumed[pc[q.by]]
      BY <1>1, <1>2, <2>1, <2>2, ResolvedEffect
    <3> QED
      BY <1>4, <3>1 DEF Waits, Resumed
  <2>3. CASE PeerAnswers
    <3>1. PICK a \in Responses : Answered(a) /\ AnswerIs(a)
      BY <2>3, PeerAnswersEffect
    <3>2. /\ response' = a /\ pc[Consumer] = "fetching" /\ pc'[Consumer] = "fetched"
          /\ broken' = broken
      BY <1>1, <1>2, <2>1, <2>2, <3>1 DEF Answered, Live, TypeOK
    <3>3. \/ /\ open
             /\ \E n \in Nat, more \in BOOLEAN :
                  /\ cursor + n <= Records /\ (more \/ cursor + n = Records)
                  /\ a = Page(cursor, n, more) /\ cursor' = cursor + n
          \/ a = Error /\ UNCHANGED <<cursor, open>>
      BY <1>2, <1>4, <3>1 DEF AnswerIs
    <3> QED
      BY <1>1, <1>2, <1>4, <3>2, <3>3, ErrorProperties DEF PageComes, ErrorComes
  <2>4. CASE WriteFails
    <3>1. Resolved(Error) /\ broken' /\ cursor' = cursor
      BY <1>2, <1>4, <2>4 DEF WriteFails
    <3> QED
      BY <1>1, <1>2, <1>4, <2>2, <3>1, ErrorProperties DEF ErrorComes
  <2> QED
    BY <2>3, <2>4
<1> QED
  BY <1>2, <1>3, <1>4

\* A step that leaves records, cursor and the arriving page alone.
LEMMA KeepsNumbered ==
  ASSUME Numbered, PageArrived' <=> PageArrived, response' = response,
         UNCHANGED <<delivered, buffer, cursor>>
  PROVE  Numbered'
BY DEF Numbered, Arriving

\* The answer does not change what is buffered or delivered.
LEMMA AnswerKeeps ==
  ASSUME PeerAnswers \/ WriteFails
  PROVE  UNCHANGED <<buffer, hasMore, closed, delivered, stopped, acloses, closes>>
BY DEF PeerAnswers, WriteFails, iterator, histories

\* The end of a close changes nothing for the consumer.
LEMMA CloseComesKeeps ==
  ASSUME CloseComes
  PROVE  /\ pc'[Consumer] = "fetching" <=> pc[Consumer] = "fetching"
         /\ pc'[Consumer] = "fetched" <=> pc[Consumer] = "fetched"
         /\ PageArrived' <=> PageArrived
BY ConsumerIsCoroutine DEF CloseComes, PageArrived

\* What is at hand when a page or an error has come.
LEMMA ErrorComesKeeps ==
  ASSUME ErrorComes
  PROVE  ~PageArrived /\ ~PageArrived'
BY DEF ErrorComes, PageArrived

\* A page has the records that come next, and says whether there are more.
LEMMA PageComesGives ==
  ASSUME TypeOK, PageComes
  PROVE  /\ ~PageArrived /\ PageArrived'
         /\ response'.records \in Seq(1 .. Records)
         /\ cursor' = cursor + Len(response'.records) /\ Len(response'.records) \in Nat
         /\ \A i \in 1 .. Len(response'.records) : response'.records[i] = cursor + i
         /\ response'.more \/ cursor' = Records
<1>1. PICK n \in Nat, more \in BOOLEAN :
         /\ cursor + n <= Records /\ (more \/ cursor + n = Records)
         /\ response' = Page(cursor, n, more) /\ cursor' = cursor + n
  BY DEF PageComes
<1>2. cursor \in Nat
  BY PagesAssumption DEF TypeOK
<1>3. /\ Page(cursor, n, more) \in Responses
      /\ Page(cursor, n, more).ok /\ Page(cursor, n, more).more = more
      /\ Len(Page(cursor, n, more).records) = n
      /\ \A i \in 1 .. n : Page(cursor, n, more).records[i] = cursor + i
  BY <1>1, <1>2, PageProperties
<1>4. ~PageArrived /\ PageArrived'
  BY <1>1, <1>3 DEF PageComes, PageArrived
<1> QED
  BY <1>1, <1>3, <1>4 DEF Responses

\* Between its fetches the consumer is where no page is at hand.
LEMMA ConsumerAway ==
  ASSUME pc'[Consumer] # "fetched"
  PROVE  ~PageArrived' /\ Arriving' = <<>>
BY DEF PageArrived, Arriving

\* Where _close leaves the consumer when the iteration ends.
LEMMA StopMoves ==
  ASSUME TypeOK, Stop
  PROVE  pc'[Consumer] = (IF closed THEN "idle" ELSE "stopping")
<1>1. CASE closed
  <2>1. pc' = [pc EXCEPT ![Consumer] = "idle"]
    BY <1>1 DEF Stop, Close
  <2> QED
    BY <1>1, <2>1, ConsumerMoves DEF Positions
<1>2. CASE ~closed
  <2>1. pc' = [pc EXCEPT ![Consumer] = "stopping"]
    BY <1>2 DEF Stop, Close
  <2> QED
    BY <1>2, <2>1, ConsumerMoves DEF Positions
<1> QED
  BY <1>1, <1>2

\* A call of aclose, or the cancellation of one.
Aside(c) == Aclose(c) \/ AcloseReturns(c) \/ CancelWaiting(c) \/ CancelResumed(c)

\* It changes nothing for a consumer that fetches or has a page.
LEMMA AsideMoves ==
  ASSUME TypeOK, NEW c \in Coroutines, Aside(c), NoLoss'
  PROVE  /\ pc'[Consumer] = "fetching" <=> pc[Consumer] = "fetching"
         /\ pc'[Consumer] = "fetched" <=> pc[Consumer] = "fetched"
         /\ PageArrived' <=> PageArrived
         /\ Ended' => Ended
         /\ UNCHANGED <<buffer, hasMore, response, cursor, open, broken, delivered, stopped>>
<1>1. UNCHANGED <<buffer, hasMore, response, cursor, open, broken, delivered, stopped>>
  BY DEF Aside, Aclose, AcloseReturns, CancelWaiting, CancelResumed, Cancel, iterator, peer,
         histories
<1>2. /\ pc'[c] \in {"idle", "closing"} /\ pc[c] \notin {"fetching", "fetched"}
      /\ \A d \in Coroutines : d # c => pc'[d] = pc[d]
  <2>1. CASE Aclose(c) \/ AcloseReturns(c)
    <3>1. PICK p \in {"idle", "closing"} : pc' = [pc EXCEPT ![c] = p]
      BY <2>1, CloseEffect DEF Aclose, AcloseReturns
    <3>2. pc[c] \in {"idle", "closed"}
      BY <2>1 DEF Aclose, AcloseReturns
    <3> QED
      BY <3>1, <3>2, Moves DEF Positions
  <2>2. CASE CancelWaiting(c) \/ CancelResumed(c)
    BY <2>2, CancelEffect
  <2> QED
    BY <2>1, <2>2 DEF Aside
<1> QED
  BY <1>1, <1>2, ConsumerIsCoroutine DEF PageArrived, Ended

\* What has been cancelled stays so.
LEMMA NoLossBefore ==
  ASSUME TypeOK, [Next]_vars, NoLoss'
  PROVE  NoLoss
<1>1. faults \subseteq faults'
  BY CancelEffect
  DEF Next, PeerAnswers, WriteFails, NextBuffered, NextStops, StopReturns, NextFetches,
      FetchReturns, FetchStops, FetchRaises, Aclose, AcloseReturns, vars, histories
<1> QED
  BY <1>1 DEF NoLoss

\* The first record at hand is the next one.
LEMMA DeliversNext ==
  ASSUME NEW d \in Seq(1 .. Records), NEW e \in Seq(1 .. Records), NEW x \in 1 .. Records,
         \A i \in 1 .. Len(d) : d[i] = i, x = Len(d) + 1, e = Append(d, x)
  PROVE  Len(e) = Len(d) + 1 /\ \A i \in 1 .. Len(e) : e[i] = i
<1>1. Len(d) \in Nat
  BY LenProperties
<1>2. /\ Len(e) = Len(d) + 1 /\ e[Len(d) + 1] = x
      /\ \A i \in 1 .. Len(d) : e[i] = d[i]
  BY AppendProperties
<1>3. \A i \in 1 .. Len(d) + 1 : i \in 1 .. Len(d) \/ i = Len(d) + 1
  BY <1>1
<1> QED
  BY <1>2, <1>3

\* A page of records, its first one and the others.
LEMMA FirstAndRest ==
  ASSUME NEW r \in Seq(1 .. Records), r # <<>>
  PROVE  /\ Head(r) = r[1] /\ Head(r) \in 1 .. Records
         /\ Len(r) \in Nat /\ Len(r) > 0 /\ Len(Tail(r)) = Len(r) - 1
         /\ \A i \in 1 .. Len(Tail(r)) : Tail(r)[i] = r[i + 1]
<1>1. Len(r) \in Nat \ {0}
  BY EmptySeq
<1>2. Head(r) = r[1]
  BY <1>1
<1>3. /\ Head(r) \in 1 .. Records /\ Len(Tail(r)) = Len(r) - 1
      /\ \A i \in 1 .. Len(Tail(r)) : Tail(r)[i] = r[i + 1]
  BY HeadTailProperties
<1> QED
  BY <1>1, <1>2, <1>3

\* Every step keeps that a page asked for is awaited,
LEMMA NextAwaitedStep ==
  TypeOK /\ RequestsAwaited /\ NextAwaited /\ [Next]_vars /\ NoLoss' => NextAwaited'
<1> SUFFICES ASSUME TypeOK, RequestsAwaited, NextAwaited, [Next]_vars, NoLoss', ~broken'
             PROVE  \A i \in 1 .. Len(requests') : requests'[i].op = "next" => WillLive(i)
  BY DEF NextAwaited, WillLive, Live
<1> USE DEF iterator, peer, histories
<1>1. CASE PeerAnswers
  <2>1. requests # <<>> /\ ~broken /\ requests' = Tail(requests)
    BY <1>1, PeerAnswersEffect DEF Answered
  <2>2. /\ Len(requests) \in Nat /\ Len(requests') = Len(requests) - 1
        /\ \A i \in 1 .. Len(requests') : requests'[i] = requests[i + 1]
    BY <2>1, HeadRequest
  <2>3. \A i \in 1 .. Len(requests') : i + 1 \in 1 .. Len(requests)
    BY <2>2
  <2> QED
    BY <2>1, <2>2, <2>3 DEF NextAwaited, WillLive, Live
<1>2. CASE WriteFails
  BY <1>2 DEF WriteFails
<1>3. ASSUME NEW c \in Coroutines, NEW op \in {"next", "close"}, broken' = broken,
             requests' = Append(requests, [by |-> c, op |-> op, future |-> "awaited"])
      PROVE  \A i \in 1 .. Len(requests') : requests'[i].op = "next" => WillLive(i)
  <2> DEFINE q == [by |-> c, op |-> op, future |-> "awaited"]
  <2>1. q \in Requests /\ requests \in Seq(Requests) /\ Len(requests) \in Nat
    BY RequestsIn DEF Requests
  <2>2. /\ Len(requests') = Len(requests) + 1 /\ requests'[Len(requests) + 1] = q
        /\ \A i \in 1 .. Len(requests) : requests'[i] = requests[i]
    BY <1>3, <2>1, AppendProperties
  <2>3. \A i \in 1 .. Len(requests) + 1 : i \in 1 .. Len(requests) \/ i = Len(requests) + 1
    BY <2>1
  <2> QED
    BY <1>3, <2>2, <2>3 DEF NextAwaited, WillLive, Live
<1>4. ASSUME UNCHANGED <<requests, broken>>
      PROVE  \A i \in 1 .. Len(requests') : requests'[i].op = "next" => WillLive(i)
  BY <1>4 DEF NextAwaited, WillLive, Live
<1>5. ASSUME NEW c \in Coroutines, NEW waiting, NEW after, Close(c, waiting, after),
             broken' = broken
      PROVE  \A i \in 1 .. Len(requests') : requests'[i].op = "next" => WillLive(i)
  BY <1>3, <1>4, <1>5, CloseEffect
<1>6. CASE NextStops \/ FetchStops
  BY <1>5, <1>6, ConsumerIsCoroutine DEF NextStops, FetchStops, Stop
<1>7. CASE NextFetches
  <2>1. broken' = broken
    BY <1>7 DEF NextFetches
  <2> QED
    BY <1>3, <1>7, <2>1, ConsumerIsCoroutine, FetchEffect
<1>8. ASSUME NEW c \in Coroutines, Aclose(c)
      PROVE  \A i \in 1 .. Len(requests') : requests'[i].op = "next" => WillLive(i)
  BY <1>5, <1>8 DEF Aclose
<1>9. ASSUME NEW c \in Coroutines, CancelWaiting(c)
      PROVE  \A i \in 1 .. Len(requests') : requests'[i].op = "next" => WillLive(i)
  <2>1. PICK k \in 1 .. Len(requests), f \in {"left", "done"} :
          requests[k].by = c /\ Live(k) /\ requests' = [requests EXCEPT ![k].future = f]
    BY <1>9, RequestsIn DEF CancelWaiting, Live
  <2>2. /\ Len(requests') = Len(requests)
        /\ \A j \in 1 .. Len(requests) : /\ requests'[j].op = requests[j].op
                                         /\ j # k => requests'[j] = requests[j]
    BY <2>1, Marked
  <2>3. pc[c] # "fetching" /\ broken' = broken
    BY <1>9, CancelEffect
  <2>4. requests[k].op # "next"
    BY <2>1, <2>3, LiveRequest DEF Waits
  <2>5. ASSUME NEW i \in 1 .. Len(requests), requests'[i].op = "next" PROVE WillLive(i)
    <3>1. requests'[i].op = requests[i].op /\ (i # k => requests'[i] = requests[i])
      BY <2>2
    <3>2. requests[i].op = "next"
      BY <2>5, <3>1
    <3>3. i # k
      BY <2>4, <3>2
    <3>4. Live(i)
      BY <2>3, <3>2 DEF NextAwaited
    <3> QED
      BY <3>1, <3>3, <3>4 DEF WillLive, Live
  <2> QED
    BY <2>2, <2>5
<1> QED
  BY <1>1, <1>2, <1>4, <1>6, <1>7, <1>8, <1>9
  DEF Next, NextBuffered, StopReturns, FetchReturns, FetchRaises, AcloseReturns, CancelResumed,
      Cancel, vars

\* that it is asked for with an empty buffer,
LEMMA FetchesWhenEmptyStep ==
  TypeOK /\ RequestsAwaited /\ NextAwaited /\ FetchesWhenEmpty /\ [Next]_vars /\ NoLoss' =>
    FetchesWhenEmpty'
<1> SUFFICES ASSUME TypeOK, RequestsAwaited, NextAwaited, FetchesWhenEmpty, [Next]_vars, NoLoss'
             PROVE  FetchesWhenEmpty'
  OBVIOUS
<1> USE ConsumerIsCoroutine DEF FetchesWhenEmpty, iterator, peer, histories
<1>1. CASE PeerAnswers \/ WriteFails
  <2>1. pc[Consumer] \in {"fetching", "fetched"} \/ pc'[Consumer] \notin {"fetching", "fetched"}
    BY <1>1, AnswerKinds, CloseComesKeeps DEF PageComes, ErrorComes
  <2> QED
    BY <1>1, <2>1, AnswerKeeps
<1>2. CASE NextBuffered
  BY <1>2 DEF NextBuffered
<1>3. CASE NextStops \/ FetchStops
  <2>1. pc'[Consumer] \in {"idle", "stopping"}
    BY <1>3, StopMoves DEF NextStops, FetchStops
  <2> QED
    BY <2>1
<1>4. CASE NextFetches
  BY <1>4 DEF NextFetches
<1>5. CASE StopReturns \/ FetchReturns \/ FetchRaises
  <2>1. pc'[Consumer] = "idle"
    BY <1>5, ConsumerMoves DEF StopReturns, FetchReturns, FetchRaises, Positions
  <2> QED
    BY <2>1
<1>6. ASSUME NEW c \in Coroutines, Aside(c) PROVE FetchesWhenEmpty'
  BY <1>6, AsideMoves
<1>7. CASE UNCHANGED vars
  BY <1>7 DEF vars
<1> QED
  BY <1>1, <1>2, <1>3, <1>4, <1>5, <1>6, <1>7 DEF Next, Aside

\* that has_more is false only at the end of the result,
LEMMA LastWordStep ==
  TypeOK /\ RequestsAwaited /\ NextAwaited /\ LastWord /\ [Next]_vars /\ NoLoss' => LastWord'
<1> SUFFICES ASSUME TypeOK, RequestsAwaited, NextAwaited, LastWord, [Next]_vars, NoLoss'
             PROVE  LastWord'
  OBVIOUS
<1> USE DEF LastWord, iterator, peer, histories
<1>1. CASE PeerAnswers \/ WriteFails
  <2>1. CASE PageComes
    BY <2>1, PageComesGives
  <2>2. CASE ErrorComes
    BY <1>1, <2>2, ErrorComesKeeps, AnswerKeeps DEF ErrorComes
  <2>3. CASE CloseComes
    BY <1>1, <2>3, CloseComesKeeps, AnswerKeeps DEF CloseComes
  <2> QED
    BY <1>1, <2>1, <2>2, <2>3, AnswerKinds
<1>2. CASE NextBuffered
  BY <1>2 DEF NextBuffered, PageArrived
<1>3. CASE NextStops
  <2>1. ~PageArrived /\ ~PageArrived' /\ UNCHANGED <<hasMore, cursor>>
    BY <1>3, StopMoves DEF NextStops, PageArrived
  <2> QED
    BY <2>1
<1>4. CASE FetchReturns \/ FetchStops
  <2>1. PageArrived /\ hasMore' = response.more /\ cursor' = cursor
    BY <1>4 DEF FetchReturns, FetchStops, Consume, PageArrived
  <2>2. ~PageArrived'
    <3>1. CASE FetchReturns
      BY <3>1, ConsumerMoves DEF FetchReturns, PageArrived, Positions
    <3>2. CASE FetchStops
      BY <3>2, StopMoves DEF FetchStops, PageArrived
    <3> QED
      BY <1>4, <3>1, <3>2
  <2> QED
    BY <2>1, <2>2
<1>5. CASE StopReturns \/ NextFetches \/ FetchRaises
  <2>1. ~PageArrived /\ UNCHANGED <<hasMore, cursor>>
    BY <1>5 DEF StopReturns, NextFetches, FetchRaises, PageArrived
  <2>2. pc'[Consumer] \in {"idle", "fetching"}
    BY <1>5, FetchEffect, ConsumerMoves DEF StopReturns, FetchRaises, Positions
  <2> QED
    BY <2>1, <2>2 DEF PageArrived
<1>6. ASSUME NEW c \in Coroutines, Aside(c) PROVE LastWord'
  BY <1>6, AsideMoves
<1>7. CASE UNCHANGED vars
  BY <1>7 DEF vars, PageArrived
<1> QED
  BY <1>1, <1>2, <1>3, <1>4, <1>5, <1>6, <1>7 DEF Next, Aside

\* that the records are numbered through,
LEMMA NumberedStep ==
  TypeOK /\ RequestsAwaited /\ NextAwaited /\ FetchesWhenEmpty /\ Numbered /\ [Next]_vars
    /\ NoLoss' => Numbered'
<1> SUFFICES ASSUME TypeOK, RequestsAwaited, NextAwaited, FetchesWhenEmpty, Numbered, [Next]_vars,
                    NoLoss'
             PROVE  Numbered'
  OBVIOUS
<1> USE DEF iterator, peer, histories
<1>0. /\ buffer \in Seq(1 .. Records) /\ delivered \in Seq(1 .. Records)
      /\ Len(buffer) \in Nat /\ Len(delivered) \in Nat /\ cursor \in Nat
  BY LenProperties, PagesAssumption DEF TypeOK
<1>1. CASE PeerAnswers \/ WriteFails
  <2>1. UNCHANGED <<buffer, delivered>>
    BY <1>1, AnswerKeeps
  <2>2. CASE PageComes
    <3>1. Arriving = <<>> /\ Arriving' = response'.records /\ buffer = <<>>
      BY <2>2, PageComesGives DEF Arriving, FetchesWhenEmpty, PageComes
    <3>2. Len(buffer) = 0 /\ Len(delivered) = cursor
      BY <1>0, <3>1 DEF Numbered
    <3>3. /\ Len(delivered) + Len(buffer) + Len(Arriving') = cursor'
          /\ \A i \in 1 .. Len(Arriving') : Arriving'[i] = Len(delivered) + Len(buffer) + i
      BY <1>0, <2>2, <3>1, <3>2, PageComesGives
    <3> QED
      BY <2>1, <3>3 DEF Numbered
  <2>3. CASE ErrorComes
    <3>1. Arriving = <<>> /\ Arriving' = <<>> /\ cursor' = cursor
      BY <2>3, ErrorComesKeeps DEF Arriving, ErrorComes
    <3> QED
      BY <2>1, <3>1 DEF Numbered
  <2>4. CASE CloseComes
    BY <2>1, <2>4, CloseComesKeeps, KeepsNumbered DEF CloseComes
  <2> QED
    BY <1>1, <2>2, <2>3, <2>4, AnswerKinds
<1>2. CASE NextBuffered
  <2>1. /\ buffer # <<>> /\ Arriving = <<>> /\ Arriving' = <<>> /\ cursor' = cursor
        /\ delivered' = Append(delivered, Head(buffer)) /\ buffer' = Tail(buffer)
    BY <1>2 DEF NextBuffered, Arriving, PageArrived
  <2>2. /\ Head(buffer) = buffer[1] /\ Head(buffer) \in 1 .. Records
        /\ Len(buffer') = Len(buffer) - 1 /\ Len(buffer) > 0
        /\ \A i \in 1 .. Len(buffer') : buffer'[i] = buffer[i + 1]
    BY <1>0, <2>1, FirstAndRest
  <2> QED
    BY <1>0, <2>1, <2>2, DeliversNext DEF Numbered
<1>3. CASE NextStops
  <2>1. ~PageArrived /\ ~PageArrived' /\ UNCHANGED <<delivered, buffer, cursor, response>>
    BY <1>3, StopMoves DEF NextStops, PageArrived
  <2> QED
    BY <2>1, KeepsNumbered
<1>4. CASE FetchReturns
  <2>1. /\ buffer = <<>> /\ Arriving = response.records /\ cursor' = cursor
        /\ response.records \in Seq(1 .. Records) /\ response.records # <<>>
        /\ delivered' = Append(delivered, Head(response.records))
        /\ buffer' = Tail(response.records)
    BY <1>4 DEF FetchReturns, PopPage, FetchesWhenEmpty, Arriving, PageArrived, TypeOK
  <2>2. Arriving' = <<>>
    BY <1>4, ConsumerMoves DEF FetchReturns, Arriving, PageArrived, Positions
  <2>3. /\ Head(Arriving) = Arriving[1] /\ Head(Arriving) \in 1 .. Records
        /\ Len(buffer') = Len(Arriving) - 1 /\ Len(Arriving) > 0 /\ Len(Arriving) \in Nat
        /\ \A i \in 1 .. Len(buffer') : buffer'[i] = Arriving[i + 1]
    BY <2>1, FirstAndRest
  <2> QED
    <3>1. Len(buffer) = 0 /\ Len(delivered) + Len(Arriving) = cursor
      BY <1>0, <2>1, <2>3 DEF Numbered
    <3>2. Head(Arriving) = Len(delivered) + 1
      BY <2>3, <3>1 DEF Numbered
    <3>3. /\ Len(delivered') = Len(delivered) + 1
          /\ \A i \in 1 .. Len(delivered') : delivered'[i] = i
      BY <1>0, <2>1, <2>3, <3>2, DeliversNext DEF Numbered
    <3>4. \A i \in 1 .. Len(buffer') : buffer'[i] = Len(delivered') + i
      BY <1>0, <2>3, <3>1, <3>3 DEF Numbered
    <3>5. Len(Arriving') = 0
      BY <2>2
    <3>6. Len(delivered') + Len(buffer') + Len(Arriving') = cursor'
      <4>1. cursor' = cursor /\ Len(buffer') = Len(Arriving) - 1 /\ Len(Arriving) \in Nat
        BY <2>1, <2>3
      <4>2. Len(delivered') = Len(delivered) + 1 /\ Len(delivered) \in Nat
        BY <1>0, <3>3
      <4> QED
        BY <3>1, <3>5, <4>1, <4>2
    <3> QED
      BY <3>3, <3>4, <3>5, <3>6 DEF Numbered
<1>5. CASE FetchStops
  <2>1. /\ Arriving = <<>> /\ UNCHANGED <<delivered, buffer, cursor>>
    BY <1>5 DEF FetchStops, Arriving
  <2>2. Arriving' = <<>>
    BY <1>5, StopMoves DEF FetchStops, Arriving, PageArrived
  <2> QED
    BY <2>1, <2>2 DEF Numbered
<1>6. CASE StopReturns \/ NextFetches \/ FetchRaises
  <2>1. ~PageArrived /\ UNCHANGED <<delivered, buffer, cursor, response>>
    BY <1>6 DEF StopReturns, NextFetches, FetchRaises, PageArrived
  <2>2. pc'[Consumer] \in {"idle", "fetching"}
    BY <1>6, FetchEffect, ConsumerMoves DEF StopReturns, FetchRaises, Positions
  <2> QED
    BY <2>1, <2>2, KeepsNumbered DEF PageArrived
<1>7. ASSUME NEW c \in Coroutines, Aside(c) PROVE Numbered'
  BY <1>7, AsideMoves, KeepsNumbered
<1>8. CASE UNCHANGED vars
  BY <1>8, KeepsNumbered DEF vars, PageArrived
<1> QED
  BY <1>1, <1>2, <1>3, <1>4, <1>5, <1>6, <1>7, <1>8 DEF Next, Aside

(***************************************************************************)
(* The end of the iteration.                                               *)
(***************************************************************************)

\* A request of a consumer that does not fetch closes the query.
LEMMA OnlyCloses ==
  ASSUME TypeOK, RequestsAwaited, NextAwaited, ~broken, pc[Consumer] # "fetching",
         NEW i \in 1 .. Len(requests)
  PROVE  requests[i].op = "close"
BY RequestsIn DEF NextAwaited, RequestsAwaited, Waits, Requests

\* __anext__ ends: what is on its way closes the query, and nothing else is.
LEMMA StopIsQuiet ==
  ASSUME TypeOK, RequestsAwaited, NextAwaited, CloseSent, Stop, pc[Consumer] \in {"idle", "fetched"},
         buffer = <<>>, UNCHANGED <<buffer, open, broken>>
  PROVE  QuietEnd'
<1>1. closed' = TRUE /\ ~PageArrived'
  BY CloseEffect, StopMoves, ConsumerIsCoroutine DEF Stop, PageArrived
<1>2. Close(Consumer, "stopping", "idle")
  BY DEF Stop
<1>3. NoPageToCome'
  <2>1. CASE ~open \/ broken
    BY <2>1 DEF NoPageToCome
  <2>2. CASE open /\ ~broken /\ closed
    <3>1. requests' = requests
      BY <1>2, <2>2, ConsumerIsCoroutine, CloseEffect
    <3>2. PICK i \in 1 .. Len(requests) : requests[i].op = "close"
      BY <2>2 DEF CloseSent
    <3>3. requests # <<>> /\ 1 \in 1 .. Len(requests)
      BY <3>2, RequestsIn, EmptySeq
    <3>4. requests[1].op = "close"
      BY <2>2, <3>3, OnlyCloses
    <3> QED
      BY <3>1, <3>3, <3>4 DEF NoPageToCome
  <2>3. CASE open /\ ~broken /\ ~closed
    <3> DEFINE q == [by |-> Consumer, op |-> "close", future |-> "awaited"]
    <3>1. q \in Requests /\ q.op = "close" /\ requests' = Append(requests, q)
      BY <1>2, <2>3, ConsumerIsCoroutine, CloseEffect DEF Requests
    <3> HIDE DEF q
    <3>2. requests' # <<>> /\ requests'[1] = IF requests = <<>> THEN q ELSE requests[1]
      BY <3>1, JoinsQueue
    <3>3. requests # <<>> => requests[1].op = "close"
      BY <2>3, RequestsIn, OnlyCloses
    <3> QED
      BY <3>1, <3>2, <3>3 DEF NoPageToCome
  <2> QED
    BY <2>1, <2>2, <2>3
<1> QED
  BY <1>1, <1>3 DEF QuietEnd

\* that no page comes after the end,
LEMMA QuietEndStep == IInv /\ [Next]_vars /\ NoLoss' => QuietEnd'
<1> SUFFICES ASSUME IInv, CloseSent, QuietEnd, [Next]_vars, NoLoss' PROVE QuietEnd'
  BY NoLossBefore DEF IInv, Lossless
<1>0. TypeOK /\ RequestsAwaited /\ NextAwaited /\ FetchesWhenEmpty /\ CloseSent /\ QuietEnd
  BY NoLossBefore DEF IInv, Lossless
<1> USE DEF iterator, peer, histories
<1>1. CASE PeerAnswers \/ WriteFails
  <2>1. /\ UNCHANGED <<closed, stopped, buffer>>
        /\ requests # <<>> /\ ~broken
        /\ IF requests[1].op = "close" THEN CloseComes ELSE PageComes \/ ErrorComes
    BY <1>0, <1>1, AnswerKinds, AnswerKeeps
  <2>2. CASE requests[1].op = "close"
    <3>1. Ended' => Ended
      BY <2>1, <2>2, ConsumerIsCoroutine DEF CloseComes, Ended
    <3>2. (PageArrived' <=> PageArrived) /\ NoPageToCome'
      BY <2>1, <2>2, CloseComesKeeps DEF CloseComes, NoPageToCome
    <3> QED
      BY <2>1, <3>1, <3>2 DEF QuietEnd
  <2>3. CASE requests[1].op # "close" /\ PageComes
    <3>1. ~Ended /\ pc'[Consumer] = "fetched"
      BY <2>1, <2>3 DEF PageComes, QuietEnd, NoPageToCome
    <3> QED
      BY <2>1, <3>1 DEF Ended, QuietEnd
  <2>4. CASE requests[1].op # "close" /\ ErrorComes
    <3>1. /\ Ended' => Ended
          /\ ~PageArrived'
      BY <2>1, <2>4, ErrorComesKeeps DEF ErrorComes, Ended
    <3>2. Ended => NoPageToCome'
      BY <2>1, <2>4 DEF ErrorComes, QuietEnd, NoPageToCome
    <3> QED
      BY <2>1, <3>1, <3>2 DEF QuietEnd
  <2> QED
    BY <2>1, <2>2, <2>3, <2>4
<1>2. CASE NextBuffered
  BY <1>2 DEF NextBuffered, QuietEnd, Ended
<1>3. CASE NextStops
  BY <1>0, <1>3, StopIsQuiet DEF NextStops
<1>4. CASE FetchStops
  BY <1>0, <1>4, StopIsQuiet DEF FetchStops, FetchesWhenEmpty
<1>5. CASE StopReturns
  <2>1. /\ pc[Consumer] = "ending" /\ pc'[Consumer] = "idle"
        /\ UNCHANGED <<closed, buffer, requests, open, broken>>
    BY <1>0, <1>5, ConsumerMoves DEF StopReturns, Positions
  <2> QED
    BY <2>1 DEF QuietEnd, Ended, PageArrived, NoPageToCome
<1>6. CASE NextFetches
  <2>1. /\ pc'[Consumer] = "fetching"
        /\ UNCHANGED <<closed, buffer, open, broken, stopped>>
    BY <1>0, <1>6, FetchEffect, ConsumerMoves DEF NextFetches, Positions
  <2>2. NoPageToCome => NoPageToCome'
    <3>1. [by |-> Consumer, op |-> "next", future |-> "awaited"] \in Requests
      BY ConsumerIsCoroutine DEF Requests
    <3> QED
      BY <1>0, <1>6, <2>1, <3>1, FetchEffect, JoinsQueue
  <2> QED
    BY <2>1, <2>2 DEF QuietEnd, Ended, PageArrived
<1>7. CASE FetchReturns
  <2>1. PageArrived /\ pc'[Consumer] = "idle" /\ stopped' = stopped
    BY <1>0, <1>7, ConsumerMoves DEF FetchReturns, PageArrived, Positions
  <2> QED
    BY <2>1 DEF QuietEnd, Ended
<1>8. CASE FetchRaises
  <2>1. /\ pc'[Consumer] = "idle" /\ UNCHANGED <<closed, stopped, buffer, requests, open, broken>>
    BY <1>0, <1>8, ConsumerMoves DEF FetchRaises, Positions
  <2> QED
    BY <2>1 DEF QuietEnd, Ended, PageArrived, NoPageToCome
<1>9. ASSUME NEW c \in Coroutines, Aside(c) PROVE QuietEnd'
  <2>1. /\ PageArrived' <=> PageArrived
        /\ Ended' => Ended
        /\ UNCHANGED <<buffer, open, broken, stopped>>
    BY <1>0, <1>9, AsideMoves
  <2>2. closed => closed'
    BY <1>0, <1>9, CloseEffect, CancelEffect DEF Aside, Aclose, AcloseReturns
  <2>3. NoPageToCome => NoPageToCome'
    <3>1. CASE Aclose(c)
      BY <1>0, <2>1, <3>1, CloseSends DEF Aclose
    <3>2. CASE AcloseReturns(c)
      BY <2>1, <3>2 DEF AcloseReturns, NoPageToCome
    <3>3. CASE CancelWaiting(c) \/ CancelResumed(c)
      BY <1>0, <2>1, <3>3, CancelEffect, RequestsIn DEF NoPageToCome
    <3> QED
      BY <1>9, <3>1, <3>2, <3>3 DEF Aside
  <2> QED
    BY <2>1, <2>2, <2>3 DEF QuietEnd
<1>10. CASE UNCHANGED vars
  BY <1>10 DEF vars, QuietEnd, Ended, PageArrived, NoPageToCome
<1> QED
  BY <1>1, <1>2, <1>3, <1>4, <1>5, <1>6, <1>7, <1>8, <1>9, <1>10 DEF Next, Aside

(***************************************************************************)
(* The theorems.                                                           *)
(***************************************************************************)

\* What holds while no __anext__ has been cancelled as it waited.
LEMMA LosslessStep == IInv /\ [Next]_vars => Lossless'
<1> SUFFICES ASSUME IInv, [Next]_vars, NoLoss'
             PROVE  (NextAwaited /\ FetchesWhenEmpty /\ Numbered /\ LastWord /\ QuietEnd)'
  BY DEF Lossless
<1>1. /\ TypeOK /\ RequestsAwaited
      /\ NextAwaited /\ FetchesWhenEmpty /\ Numbered /\ LastWord
  BY NoLossBefore DEF IInv, Lossless
<1>2. NextAwaited' /\ FetchesWhenEmpty' /\ Numbered' /\ LastWord'
  BY <1>1, NextAwaitedStep, FetchesWhenEmptyStep, NumberedStep, LastWordStep
<1>3. QuietEnd'
  BY QuietEndStep
<1> QED
  BY <1>2, <1>3

\* IInv holds in every reachable state of an iterator and its peer.
THEOREM Invariance == Spec => []IInv
<1>1. IInv /\ [Next]_vars => IInv'
  BY TypeStep, RequestsAwaitedStep, ClosedWithRequestStep, CloseSentStep, LosslessStep DEF IInv
<1> QED
  BY <1>1, InitIInv, PTL DEF Spec

\* Every variable keeps its type.
THEOREM TypeCorrect == Spec => []TypeOK
<1>1. IInv => TypeOK
  BY DEF IInv
<1> QED
  BY <1>1, Invariance, PTL

\* However many coroutines close the iterator, and however often, the peer is
\* sent one QueryStateClose: the flag is set before _close suspends
\* (iterators.py:73-84).
THEOREM OneCloseHolds == Spec => []OneClose
<1>1. IInv => OneClose
  BY DEF IInv, ClosedWithRequest, OneClose
<1> QED
  BY <1>1, Invariance, PTL

\* The first n records.
LEMMA FirstRecords ==
  ASSUME NEW n \in 0 .. Records
  PROVE  /\ Upto(1, n) \in Seq(1 .. Records) /\ Len(Upto(1, n)) = n
         /\ \A i \in 1 .. n : Upto(1, n)[i] = i
<1>1. n \in Nat /\ 0 + n <= Records /\ 0 \in Nat /\ TRUE \in BOOLEAN
  BY PagesAssumption
<1>2. /\ Page(0, n, TRUE) \in Responses /\ Len(Page(0, n, TRUE).records) = n
      /\ \A i \in 1 .. n : Page(0, n, TRUE).records[i] = 0 + i
  BY <1>1, PageProperties
<1>3. Page(0, n, TRUE).records = Upto(1, n)
  BY <1>1 DEF Page, Upto
<1>4. Page(0, n, TRUE).records \in Seq(1 .. Records)
  BY <1>2 DEF Responses
<1>5. \A i \in 1 .. n : 0 + i = i
  OBVIOUS
<1> QED
  BY <1>2, <1>3, <1>4, <1>5

\* What the peer has sent is delivered, buffered or about to be consumed, for
\* any pages the peer chooses and whoever closes, fails or is cancelled in a close
\* (iterators.py:45-49, 57-69).
THEOREM NothingDroppedHolds == Spec => []NothingDropped
<1>1. ASSUME IInv, NoLoss PROVE NothingDropped
  <2> DEFINE a == delivered \o buffer
             s == a \o Arriving
  <2>1. /\ delivered \in Seq(1 .. Records) /\ buffer \in Seq(1 .. Records)
        /\ Arriving \in Seq(1 .. Records) /\ cursor \in 0 .. Records
    BY <1>1, EmptySeq DEF IInv, TypeOK, Arriving
  <2>2. Len(delivered) \in Nat /\ Len(buffer) \in Nat /\ Len(Arriving) \in Nat
    BY <2>1, LenProperties
  <2>3. /\ a \in Seq(1 .. Records) /\ Len(a) = Len(delivered) + Len(buffer)
        /\ \A i \in 1 .. Len(a) :
             a[i] = IF i <= Len(delivered) THEN delivered[i] ELSE buffer[i - Len(delivered)]
    BY <2>1, ConcatProperties
  <2>4. \A i \in 1 .. Len(a) : a[i] = i
    BY <1>1, <2>2, <2>3 DEF IInv, Lossless, Numbered
  <2>5. /\ s \in Seq(1 .. Records) /\ Len(s) = Len(a) + Len(Arriving)
        /\ \A i \in 1 .. Len(s) : s[i] = IF i <= Len(a) THEN a[i] ELSE Arriving[i - Len(a)]
    BY <2>1, <2>3, ConcatProperties
  <2>6. Len(s) = cursor
    BY <1>1, <2>3, <2>5 DEF IInv, Lossless, Numbered
  <2>7. \A i \in 1 .. Len(s) : s[i] = i
    BY <1>1, <2>2, <2>3, <2>4, <2>5 DEF IInv, Lossless, Numbered
  <2>8. s = Upto(1, cursor)
    BY <2>1, <2>5, <2>6, <2>7, FirstRecords, SeqEqual
  <2> QED
    BY <2>8 DEF NothingDropped, Arriving, PageArrived
<1>2. IInv => NothingDropped
  BY <1>1 DEF NothingDropped, NoLoss
<1> QED
  BY <1>2, Invariance, PTL

\* An iteration that ends by itself has returned every record of the query, when
\* the peer's last word was that there are no more and no __anext__ was cancelled
\* (iterators.py:14-16, 57-71).
THEOREM StopMeansAllHolds == Spec => []StopMeansAll
<1>1. ASSUME IInv, NoLoss, stopped, ~hasMore PROVE delivered = Upto(1, Records)
  <2>1. buffer = <<>> /\ ~PageArrived /\ Arriving = <<>>
    BY <1>1 DEF IInv, Lossless, QuietEnd, Ended, Arriving
  <2>2. /\ delivered \in Seq(1 .. Records) /\ Len(delivered) \in Nat
        /\ cursor \in 0 .. Records /\ Records \in Nat
    BY <1>1, LenProperties, PagesAssumption DEF IInv, TypeOK
  <2>3. cursor = Records
    BY <1>1, <2>1, <2>2 DEF IInv, Lossless, LastWord
  <2>4. Len(delivered) = Records
    BY <1>1, <2>1, <2>2, <2>3 DEF IInv, Lossless, Numbered
  <2>5. \A i \in 1 .. Len(delivered) : delivered[i] = i
    BY <1>1 DEF IInv, Lossless, Numbered
  <2> QED
    BY <2>2, <2>4, <2>5, FirstRecords, SeqEqual
<1>2. IInv => StopMeansAll
  BY <1>1 DEF StopMeansAll, NoLoss
<1> QED
  BY <1>2, Invariance, PTL

(***************************************************************************)
(* The refinement: QueryIterator implements RecordStream, for any result,  *)
(* pages, failures and coroutines that close.                              *)
(***************************************************************************)

\* While a record is at hand, not all have been returned; when none is and none is
\* announced, all have.
LEMMA RecordsLeft ==
  ASSUME IInv, NoLoss
  PROVE  /\ Len(delivered) \in Nat
         /\ buffer # <<>> \/ Arriving # <<>> => Len(delivered) < Records
         /\ buffer = <<>> /\ ~PageArrived /\ ~hasMore => Len(delivered) = Records
<1>1. /\ delivered \in Seq(1 .. Records) /\ buffer \in Seq(1 .. Records)
      /\ Arriving \in Seq(1 .. Records)
      /\ cursor \in 0 .. Records /\ Records \in Nat
  BY EmptySeq, PagesAssumption DEF IInv, TypeOK, Arriving
<1>2. /\ Len(delivered) \in Nat /\ Len(buffer) \in Nat /\ Len(Arriving) \in Nat
      /\ buffer # <<>> <=> Len(buffer) # 0
      /\ Arriving # <<>> <=> Len(Arriving) # 0
  BY <1>1, LenProperties, EmptySeq
<1>3. Len(delivered) + Len(buffer) + Len(Arriving) = cursor
  BY DEF IInv, Lossless, Numbered
<1>4. buffer # <<>> \/ Arriving # <<>> => Len(delivered) < Records
  BY <1>1, <1>2, <1>3
<1>5. ASSUME buffer = <<>>, ~PageArrived, ~hasMore PROVE Len(delivered) = Records
  <2>1. cursor = Records
    BY <1>1, <1>5 DEF IInv, Lossless, LastWord
  <2>2. Arriving = <<>>
    BY <1>5 DEF Arriving
  <2> QED
    BY <1>2, <1>3, <1>5, <2>1, <2>2
<1> QED
  BY <1>2, <1>4, <1>5

\* The iterator begins as a stream of records,
LEMMA StreamInit == Init => Stream!Init
BY DEF Init, Stream!Init

\* and every step of it is one of the stream, or a stutter.
LEMMA StreamStep == IInv /\ [Next]_vars /\ Regular' => [Stream!Next]_(Stream!vars)
<1> SUFFICES ASSUME IInv, [Next]_vars, Regular' PROVE [Stream!Next]_(Stream!vars)
  OBVIOUS
<1>0. /\ TypeOK /\ NoLoss /\ FetchesWhenEmpty /\ Numbered /\ LastWord /\ QuietEnd
      /\ Records \in Nat
  BY NoLossBefore, PagesAssumption DEF Regular, NoLoss, IInv, Lossless
<1> USE DEF iterator, peer, histories
<1>1. ASSUME UNCHANGED <<delivered, acloses, stopped>> PROVE [Stream!Next]_(Stream!vars)
  BY <1>1 DEF Stream!vars
<1>2. CASE PeerAnswers \/ WriteFails
  BY <1>1, <1>2, AnswerKeeps
<1>3. CASE NextBuffered
  <2>1. buffer # <<>> /\ ~stopped
    BY <1>0, <1>3 DEF NextBuffered, QuietEnd, Ended
  <2>2. Head(buffer) = Len(delivered) + 1
    <3>1. /\ Len(buffer) > 0 /\ Head(buffer) = buffer[1]
      BY <1>0, <2>1, FirstAndRest DEF TypeOK
    <3>2. 1 \in 1 .. Len(buffer)
      BY <1>0, <3>1, LenProperties DEF TypeOK
    <3> QED
      BY <1>0, <3>1, <3>2 DEF Numbered
  <2>3. Len(delivered) < Records
    BY <1>0, <2>1, RecordsLeft
  <2>4. /\ delivered' = Append(delivered, Len(delivered) + 1)
        /\ stopped' = stopped /\ acloses' = acloses
    BY <1>3, <2>2 DEF NextBuffered
  <2> QED
    BY <2>1, <2>3, <2>4 DEF Stream!Next, Stream!Take
<1>4. CASE FetchReturns
  <2>1. PageArrived /\ ~stopped /\ buffer = <<>>
    BY <1>0, <1>4 DEF FetchReturns, PageArrived, QuietEnd, Ended, FetchesWhenEmpty
  <2>2. Arriving = response.records /\ Arriving # <<>> /\ Arriving \in Seq(1 .. Records)
    BY <1>0, <1>4, <2>1 DEF FetchReturns, Arriving, TypeOK
  <2>3. Head(Arriving) = Len(delivered) + 1
    <3>1. Len(Arriving) > 0 /\ Head(Arriving) = Arriving[1]
      BY <2>2, FirstAndRest
    <3>2. 1 \in 1 .. Len(Arriving)
      BY <2>2, <3>1, LenProperties
    <3>3. Arriving[1] = Len(delivered) + Len(buffer) + 1 /\ Len(buffer) = 0
      BY <1>0, <2>1, <3>2 DEF Numbered
    <3> QED
      BY <1>0, <3>1, <3>3, RecordsLeft
  <2>4. Len(delivered) < Records
    BY <1>0, <2>2, RecordsLeft
  <2>5. /\ delivered' = Append(delivered, Len(delivered) + 1)
        /\ stopped' = stopped /\ acloses' = acloses
    BY <1>4, <2>2, <2>3 DEF FetchReturns, PopPage
  <2> QED
    BY <2>1, <2>4, <2>5 DEF Stream!Next, Stream!Take
<1>5. ASSUME UNCHANGED <<delivered, acloses>>, stopped' \in {stopped, TRUE},
             stopped' => acloses \/ hasMore' \/ Len(delivered) = Records
      PROVE  [Stream!Next]_(Stream!vars)
  <2>1. stopped' /\ ~acloses => ~hasMore'
    BY <1>5 DEF Regular
  <2> QED
    BY <1>0, <1>5, <2>1 DEF Stream!Next, Stream!Finish, Stream!vars, TypeOK
<1>6. CASE NextStops
  <2>1. Len(delivered) = Records
    BY <1>0, <1>6, RecordsLeft DEF NextStops, PageArrived
  <2>2. UNCHANGED <<delivered, acloses>> /\ stopped' \in {stopped, TRUE}
    BY <1>0, <1>6 DEF NextStops, Stop, TypeOK
  <2> QED
    BY <1>5, <2>1, <2>2
<1>7. CASE FetchStops
  <2>1. PageArrived /\ buffer = <<>> /\ Arriving = <<>> /\ hasMore' = response.more
    BY <1>0, <1>7 DEF FetchStops, PageArrived, Arriving, Consume, FetchesWhenEmpty
  <2>2. hasMore' \/ Len(delivered) = Records
    BY <1>0, <2>1 DEF LastWord, Numbered, TypeOK
  <2>3. UNCHANGED <<delivered, acloses>> /\ stopped' \in {stopped, TRUE}
    BY <1>0, <1>7 DEF FetchStops, Stop, TypeOK
  <2> QED
    BY <1>5, <2>2, <2>3
<1>8. CASE StopReturns
  <2>1. Ended /\ UNCHANGED <<delivered, hasMore, acloses>> /\ stopped' = TRUE
    BY <1>8 DEF StopReturns, Ended
  <2>2. buffer = <<>> /\ ~PageArrived
    BY <1>0, <2>1 DEF QuietEnd
  <2>3. hasMore' \/ Len(delivered) = Records
    BY <1>0, <2>1, <2>2, RecordsLeft
  <2> QED
    BY <1>5, <2>1, <2>3
<1>9. CASE NextFetches \/ FetchRaises
  BY <1>1, <1>9 DEF NextFetches, FetchRaises, histories
<1>10. ASSUME NEW c \in Coroutines, Aclose(c) PROVE [Stream!Next]_(Stream!vars)
  <2>1. acloses' = TRUE /\ UNCHANGED <<delivered, stopped>>
    BY <1>10 DEF Aclose
  <2> QED
    BY <1>0, <2>1 DEF Stream!Next, Stream!Close, Stream!vars, TypeOK
<1>11. ASSUME NEW c \in Coroutines, AcloseReturns(c) \/ CancelWaiting(c) \/ CancelResumed(c)
       PROVE  [Stream!Next]_(Stream!vars)
  BY <1>1, <1>11 DEF AcloseReturns, CancelWaiting, CancelResumed, Cancel, histories
<1>12. CASE UNCHANGED vars
  BY <1>1, <1>12 DEF vars, histories
<1> QED
  BY <1>2, <1>3, <1>4, <1>6, <1>7, <1>8, <1>9, <1>10, <1>11, <1>12 DEF Next

\* QueryIterator's ImplementsStream: chaincode sees the records in order and nothing
\* of pages, requests, failures and closes, and nothing comes once the iteration has
\* ended (iterators.py:14-16, 57-84), with the exceptions that Regular names.
THEOREM Refinement == Spec => ImplementsStream
<1>1. IInv /\ [Next]_vars => [Regular' => Stream!Next]_(Stream!vars)
  BY StreamStep
<1> QED
  BY <1>1, StreamInit, Invariance, PTL DEF Spec, ImplementsStream
=============================================================================
