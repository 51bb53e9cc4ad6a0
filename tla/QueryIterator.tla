---------------------------- MODULE QueryIterator ----------------------------
(***************************************************************************)
(* fabric_shim/iterators.py: the iterator over the pages of a query, with  *)
(* the query's cursor in the peer.                                         *)
(*                                                                         *)
(* One coroutine iterates; it and others may close the iterator at any     *)
(* time.  Their requests go through their transaction's queue, one at a    *)
(* time and in order: what TxRpc promises and MsgQueue implements.  Any of *)
(* them may be cancelled at its await, by a timeout around the call.       *)
(***************************************************************************)
EXTENDS Naturals, Sequences, SequencesExt

CONSTANTS Consumer,   \* the coroutine that calls __anext__ (and may call aclose)
          Closers,    \* coroutines that may call aclose
          Records,    \* bound: the number of records the query has
          MinPage,    \* the least size of a page that announces another
          MaxPage,    \* bound on the size of a page
          PeerFails,  \* may the peer answer a QueryStateNext with ERROR, and a write fail?
          MaxLeft     \* bound: requests in the queue whose coroutine was cancelled

ASSUME CoroutinesAssumption == Consumer \notin Closers
ASSUME PagesAssumption ==
  /\ Records \in Nat /\ MinPage \in Nat /\ MaxPage \in Nat
  /\ MinPage <= MaxPage /\ MaxPage > 0
ASSUME FaultsAssumption == PeerFails \in BOOLEAN /\ MaxLeft \in Nat

Coroutines == Closers \cup {Consumer}

VARIABLES
  buffer,     \* self._buffer
  hasMore,    \* self._has_more
  closed,     \* self._closed
  pc,         \* where a coroutine is in __anext__ or aclose
  response,   \* the last QueryResponse: its records and its has_more
  requests,   \* requests of the transaction without an answer, in order, and
              \* whether each one's future is awaited, left alone or done
  cursor,     \* external: records the peer has sent
  open,       \* external: the peer keeps a context for the query
  broken,     \* the head of the transaction's queue is never removed (MsgQueueStuck)
  delivered,  \* history: what __anext__ has returned, in order
  stopped,    \* history: __anext__ has raised StopAsyncIteration
  acloses,    \* history: someone has called aclose
  closes,     \* history: QueryStateClose requests
  faults      \* history: a write has failed, a fetch or a close was cancelled

iterator == <<buffer, hasMore, closed>>
peer == <<cursor, open, broken>>
histories == <<delivered, stopped, acloses, closes, faults>>
vars == <<iterator, pc, response, requests, peer, histories>>

Upto(m, n) == [i \in 1 .. n - m + 1 |-> m + i - 1]
Error == [records |-> <<>>, more |-> FALSE, ok |-> FALSE]

TypeOK ==
  /\ buffer \in Seq(1 .. Records)
  /\ hasMore \in BOOLEAN /\ closed \in BOOLEAN
  /\ pc \in [Coroutines -> {"idle", "fetching", "fetched", "closing", "closed",
                            "stopping", "ending"}]
  /\ response \in [records : Seq(1 .. Records), more : BOOLEAN, ok : BOOLEAN]
  /\ requests \in Seq([by : Coroutines, op : {"next", "close"},
                        future : {"awaited", "left", "done"}])
  /\ cursor \in 0 .. Records
  /\ open \in BOOLEAN /\ broken \in BOOLEAN
  /\ delivered \in Seq(1 .. Records)
  /\ stopped \in BOOLEAN /\ acloses \in BOOLEAN
  /\ closes \in Nat /\ (closes > 0 => closed)
  /\ faults \subseteq {"write", "fetch", "close"}

(***************************************************************************)
(* External: the peer cuts what is left of the result into pages.  It may  *)
(* announce another page when nothing is left; with the page that          *)
(* announces none it forgets the query.                                    *)
(***************************************************************************)
IsPage(from, n, more) == /\ n <= Records - from
                         /\ IF more THEN n >= MinPage ELSE from + n = Records

Page(from, n, more) == [records |-> Upto(from + 1, from + n), more |-> more, ok |-> TRUE]

\* __init__ consumes the first page, the answer of GetStateByRange,
\* GetQueryResult or GetHistoryForKey.
Init ==
  \E n \in 0 .. MaxPage, announced \in BOOLEAN :
    /\ IsPage(0, n, announced)
    /\ response = Page(0, n, announced)
    /\ buffer = response.records /\ hasMore = announced /\ closed = FALSE
    /\ pc = [c \in Coroutines |-> "idle"]
    /\ requests = <<>>
    /\ cursor = n /\ open = announced /\ broken = FALSE
    /\ delivered = <<>> /\ stopped = FALSE /\ acloses = FALSE /\ closes = 0
    /\ faults = {}

\* Where a coroutine goes on once its request is over.
Resumed == [fetching |-> "fetched", closing |-> "closed", stopping |-> "ending"]

\* The request at the head is over, with this answer: its coroutine goes on if it
\* still awaits the future.
Resolved(answer) ==
  IF Head(requests).future = "awaited"
    THEN /\ response' = answer
         /\ pc' = [pc EXCEPT ![Head(requests).by] = Resumed[@]]
    ELSE UNCHANGED <<response, pc>>

\* ... and is removed; but a future that is done takes no result, and the request
\* stays at the head for ever (MsgQueue).
Answered(answer) ==
  /\ Resolved(answer)
  /\ broken' = (Head(requests).future = "done")
  /\ requests' = IF broken' THEN requests ELSE Tail(requests)

\* The peer answers the transaction's next request: a page, or ERROR if it has
\* no context for the query (or fails); any close succeeds.
PeerAnswers ==
  /\ requests # <<>> /\ ~broken
  /\ \/ /\ Head(requests).op = "close"
        /\ open' = FALSE
        /\ Answered(response)
        /\ UNCHANGED cursor
     \/ /\ Head(requests).op = "next" /\ open
        /\ \E n \in 0 .. MaxPage, announced \in BOOLEAN :
             /\ IsPage(cursor, n, announced)
             /\ cursor' = cursor + n
             /\ open' = announced
             /\ Answered(Page(cursor, n, announced))
     \/ /\ Head(requests).op = "next" /\ (~open \/ PeerFails)
        /\ Answered(Error)
        /\ UNCHANGED <<cursor, open>>
  /\ UNCHANGED <<iterator, histories>>

\* The transaction's next request cannot be written.  Its coroutine gets the
\* exception, which _close swallows and __anext__ does not; the request stays at
\* the head of its queue, so no later one is answered (MsgQueue).
WriteFails ==
  /\ PeerFails /\ ~broken /\ requests # <<>> /\ Head(requests).future # "left"
  /\ broken' = TRUE
  /\ faults' = faults \cup {"write"}
  /\ Resolved(IF Head(requests).op = "close" THEN response ELSE Error)
  /\ requests' = [requests EXCEPT ![1].future = "done"]
  /\ UNCHANGED <<iterator, cursor, open, delivered, stopped, acloses, closes>>

(***************************************************************************)
(* External: coroutine c is cancelled.  CancelledError is no Exception: it *)
(* leaves __anext__ and _close at the await.                               *)
(***************************************************************************)
Cancel(c) ==
  /\ pc' = [pc EXCEPT ![c] = "idle"]
  /\ faults' = faults \cup {IF pc[c] \in {"fetching", "fetched"} THEN "fetch" ELSE "close"}
  /\ UNCHANGED <<iterator, response, peer, delivered, stopped, acloses, closes>>

\* ... as it waits: its request stays in the queue with a cancelled future, or, if
\* the coroutine was still writing it, with one that nobody will read.
CancelWaiting(c) ==
  /\ Len(SelectSeq(requests, LAMBDA r : r.future # "awaited")) < MaxLeft
  /\ \E i \in DOMAIN requests, future \in {"left", "done"} :
       /\ requests[i].by = c /\ requests[i].future = "awaited"
       /\ future = "left" => i = 1
       /\ requests' = [requests EXCEPT ![i].future = future]
  /\ Cancel(c)

\* ... after its answer has come and before it runs: the answer is lost.
CancelResumed(c) ==
  /\ pc[c] \in {"fetched", "closed", "ending"}
  /\ Cancel(c)
  /\ UNCHANGED requests

(***************************************************************************)
(* The iterator.                                                           *)
(***************************************************************************)

Ask(c, op) == requests' = Append(requests, [by |-> c, op |-> op,
                                                future |-> "awaited"])

\* Mutant: the flag is set once the peer has answered.
MarkClosed_Late == UNCHANGED closed
\* _close sets the flag before it suspends.
MarkClosed == closed' = TRUE

\* Mutant: the flag is set and nothing is sent.
Close_Silent(c, waiting, after) ==
  /\ MarkClosed
  /\ pc' = [pc EXCEPT ![c] = after]
  /\ UNCHANGED <<requests, closes>>
\* _close, called by a coroutine that is then to be at `after`: only the first
\* call sends QueryStateClose, and waits for its answer at `waiting`.
Close(c, waiting, after) ==
  /\ MarkClosed
  /\ IF closed
       THEN /\ pc' = [pc EXCEPT ![c] = after]
            /\ UNCHANGED <<requests, closes>>
       ELSE /\ pc' = [pc EXCEPT ![c] = waiting]
            /\ Ask(c, "close")
            /\ closes' = closes + 1

\* Mutant: __anext__ raises StopAsyncIteration without _close.
Stop_Open == /\ pc' = [pc EXCEPT ![Consumer] = "idle"]
             /\ stopped' = TRUE
             /\ UNCHANGED <<closed, requests, closes>>
\* __anext__ ends with _close and then raises StopAsyncIteration.
Stop == /\ Close(Consumer, "stopping", "idle")
        /\ stopped' = (stopped \/ closed)

\* __anext__ returns a buffered record.
NextBuffered ==
  /\ pc[Consumer] = "idle" /\ buffer # <<>>
  /\ delivered' = Append(delivered, Head(buffer))
  /\ buffer' = Tail(buffer)
  /\ UNCHANGED <<hasMore, closed, pc, response, requests, peer, stopped,
                 acloses, closes, faults>>

\* ... once _close has had its answer.
StopReturns ==
  /\ pc[Consumer] = "ending"
  /\ pc' = [pc EXCEPT ![Consumer] = "idle"]
  /\ stopped' = TRUE
  /\ UNCHANGED <<iterator, response, requests, peer, delivered, acloses, closes,
                 faults>>

\* __anext__ finds no record and no further page.
NextStops ==
  /\ pc[Consumer] = "idle" /\ buffer = <<>> /\ ~hasMore
  /\ Stop
  /\ UNCHANGED <<buffer, hasMore, response, peer, delivered, acloses, faults>>

\* __anext__ asks for the next page, whether the iterator is closed or not.
NextFetches ==
  /\ pc[Consumer] = "idle" /\ buffer = <<>> /\ hasMore
  /\ pc' = [pc EXCEPT ![Consumer] = "fetching"]
  /\ Ask(Consumer, "next")
  /\ UNCHANGED <<iterator, response, peer, histories>>

\* Mutant: the flag falls back to its default.
Consume_Default == hasMore' = FALSE
\* _consume keeps the page's has_more.
Consume == hasMore' = response.more

\* Mutant: pop() for pop(0).
PopPage_Last == /\ delivered' = Append(delivered, Last(response.records))
                /\ buffer' = Front(response.records)
\* _consume appends the page to the empty buffer; its first record is returned.
PopPage == /\ delivered' = Append(delivered, Head(response.records))
           /\ buffer' = Tail(response.records)

\* The page has records: it is buffered and the first is returned.
FetchReturns ==
  /\ pc[Consumer] = "fetched" /\ response.ok /\ response.records # <<>>
  /\ Consume
  /\ PopPage
  /\ pc' = [pc EXCEPT ![Consumer] = "idle"]
  /\ UNCHANGED <<closed, response, requests, peer, stopped, acloses, closes, faults>>

\* Mutant: an empty page only makes __anext__ ask again.
FetchStops_Retries ==
  /\ pc[Consumer] = "fetched" /\ response.ok /\ response.records = <<>>
  /\ Consume
  /\ pc' = [pc EXCEPT ![Consumer] = "idle"]
  /\ UNCHANGED <<buffer, closed, response, requests, peer, delivered, stopped,
                 acloses, closes, faults>>
\* The page is empty: __anext__ stops, whatever its has_more says.
FetchStops ==
  /\ pc[Consumer] = "fetched" /\ response.ok /\ response.records = <<>>
  /\ Consume
  /\ Stop
  /\ UNCHANGED <<buffer, response, peer, delivered, acloses, faults>>

\* An ERROR is parsed as a QueryResponse; protobuf raises DecodeError, which
\* leaves the iterator as it was.
FetchRaises ==
  /\ pc[Consumer] = "fetched" /\ ~response.ok
  /\ pc' = [pc EXCEPT ![Consumer] = "idle"]
  /\ UNCHANGED <<iterator, response, requests, peer, histories>>

\* aclose, by any coroutine.
Aclose(c) ==
  /\ pc[c] = "idle"
  /\ acloses' = TRUE
  /\ Close(c, "closing", "idle")
  /\ UNCHANGED <<buffer, hasMore, response, peer, delivered, stopped, faults>>

AcloseReturns(c) ==
  /\ pc[c] = "closed"
  /\ pc' = [pc EXCEPT ![c] = "idle"]
  /\ UNCHANGED <<iterator, response, requests, peer, histories>>

Next ==
  \/ PeerAnswers
  \/ WriteFails
  \/ NextBuffered
  \/ NextStops
  \/ StopReturns
  \/ NextFetches
  \/ FetchReturns
  \/ FetchStops
  \/ FetchRaises
  \/ \E c \in Coroutines : \/ Aclose(c) \/ AcloseReturns(c)
                           \/ CancelWaiting(c) \/ CancelResumed(c)

Spec == Init /\ [][Next]_vars

\* The peer answers, and a coroutine whose answer has come runs.
FairSpec == /\ Spec
            /\ WF_vars(PeerAnswers)
            /\ WF_vars(FetchReturns) /\ WF_vars(FetchStops) /\ WF_vars(FetchRaises)
            /\ WF_vars(StopReturns)
            /\ \A c \in Coroutines : WF_vars(AcloseReturns(c))

\* The coroutine iterates on, as `async for` does, until it is stopped.
IteratingSpec == FairSpec /\ WF_vars(NextBuffered) /\ WF_vars(NextFetches) /\ WF_vars(NextStops)

(***************************************************************************)
(* Properties.                                                             *)
(***************************************************************************)

\* Every record the peer has sent and nobody has seen is buffered or in the page
\* about to be consumed, as long as no __anext__ is cancelled as it waits for a page
\* (iterators.py:45-49, 57-69).
NothingDropped ==
  LET arriving == IF pc[Consumer] = "fetched" /\ response.ok THEN response.records ELSE <<>>
  IN "fetch" \notin faults => delivered \o buffer \o arriving = Upto(1, cursor)

\* An iteration that nobody closed and that stops after the peer has reported
\* has_more == false has returned the whole result, also if the last page is empty;
\* a cancelled __anext__ may have lost a page (iterators.py:14-16, 57-71).
StopMeansAll ==
  stopped /\ ~acloses /\ ~hasMore /\ "fetch" \notin faults => delivered = Upto(1, Records)

\* "until the peer reports has_more == false" (iterators.py:14-16): an iteration that
\* nobody closed stops with the whole result.  The code stops at an empty page,
\* whatever its has_more says (iterators.py:68-71).
StopsAtTheEnd == stopped /\ ~acloses => delivered = Upto(1, Records)

\* "safe to call multiple times" (iterators.py:87): concurrent closes and the
\* close of the iteration's end send one QueryStateClose together.
OneClose == closes <= 1

\* Pages, requests and closes do not show: chaincode sees the records in order and
\* nothing once the iteration has ended, which it does at the last record or after a
\* close, failures and cancelled closes notwithstanding (iterators.py:14-16, 57-84).
\* Excepted are an iteration that has lost a page to the cancellation of its
\* __anext__, and one that has stopped before has_more == false (StopsAtTheEnd).
Stream == INSTANCE RecordStream
            WITH Size <- Records, taken <- delivered, closed <- acloses, over <- stopped
Regular == "fetch" \notin faults /\ (stopped /\ ~acloses => ~hasMore)
ImplementsStream == Stream!Init /\ [][Regular' => Stream!Next]_(Stream!vars)

\* A closed iterator's query is closed in the peer, also if the one who closes is
\* cancelled as it waits; unless a request of the transaction could not be written or
\* an __anext__ was cancelled, which leaves the transaction's queue stuck: the flag is
\* set before the request, and no later close tries again (iterators.py:16, 73-84).
CloseReachesPeer == closed ~> ~open \/ "write" \in faults \/ "fetch" \in faults

\* An `async for` ends, unless aclose came in between, a request could not be
\* written or was cancelled, or the peer's answers keep failing (iterators.py:57-71).
IterationEnds == <>[](response.ok) => <>(stopped \/ acloses \/ faults # {})
=============================================================================
