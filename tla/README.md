# A TLA+ model of fabric-chaincode-python

Paths are relative to `src/src/fabric_chaincode_python/`. The package lets a
Hyperledger Fabric peer run chaincode written in Python: the *shim*
(`fabric_shim/`) speaks the chaincode protocol over a gRPC stream, the *contract
API* (`fabric_contract_api/`) turns classes into chaincode.

## The system

| part | state it keeps | operations | talks to |
|---|---|---|---|
| server (`server.py`) | the gRPC server, the process's event loop, a module-wide list of shutdown coroutines | `start`, `ChaincodeService.Connect` | makes a `Handler` per connection |
| handler (`handler.py`) | `state` (created, established, ready), `_pending_tasks`, the stream's context | `chat_with_peer`, `handle_message`, `handle_stub_interaction`, one `handle_*` per request | a task per frame; calls chaincode; writes to the stream |
| message queue (`msg_queue_handler.py`) | `tx_queues`: transaction -> requests; a future per request | `queue_msg`, `handle_msg_response` | called by coroutines of chaincode and by the handler's response tasks |
| stub (`stub.py`) | transaction id, channel, arguments, events | ledger calls, queries, events, composite keys | the handler's request methods |
| iterators (`iterators.py`) | buffer, `_has_more`, `_id`, `_closed` | `__anext__`, `aclose` | the handler, for the next page and the close |
| contract chaincode (`contractapi/contract_chaincode.py`) | contracts by name, default contract, metadata | `new_chaincode`, `init`, `invoke` | hooks and methods of contracts, with a context per invocation |
| contract function (`internal/contract_function.py`, `transaction_handler.py`) | parsed signature | `call` | serializer |
| metadata, serializer, types | components, compiled schemas | check, reflect, merge, convert, validate | contract chaincode |

Everything runs on one asyncio event loop, so code between two awaits is atomic
and every interesting interleaving happens at an await: the write of a frame,
the wait for a future, the call of chaincode. A transaction may hold several
coroutines (`asyncio.gather` in chaincode); a response frame carries the
transaction's id and nothing that names the request. That is why the message
queue exists, and why it is the heart of this project.

Hard behaviours and where they are covered: answers that arrive before the
writer resumes, cancelled callers and late answers, failed writes, stray frames
(`MsgQueue`); the handshake and the first transaction in one burst, invocations
that wait while the reader must go on, the several ends of a stream (`Handler`);
closes that race a fetch, closes that are lost, pages that are empty and coroutines
cancelled at their awaits (`QueryIterator`);
invocations that suspend inside hooks, errors of one part of several, a metadata file that
covers some contracts only (`ContractDispatch`); interrupts while invocations run, and
a second `start` in a process (`Server`); keys at the edges of the alphabet (`CompositeKeys`).
`PROJECT.json` lists each hazard at its line with the properties aimed at it.

## Modules

`TxRpc` - what the shim promises to chaincode, independent of queues and futures:
each transaction has a line, the peer is shown the requests of a line one at a
time and in order, each answer belongs to its request, and a request may be
abandoned (its caller was cancelled or its write failed).

`MsgQueue` - `msg_queue_handler.py` with `__ask_peer_and_listen`. A request goes
through `Ask` (future, append, and the write if the queue was empty),
`CallerWriteReturns` or `CallerWriteRaises`, and `CallerResumes`; `Cancel` is a
cancellation at either await. A frame's task runs `HandleResponse`,
`HandleResponseOfDoneFuture` (the future is done, both `set_result` and
`set_exception` raise, nothing is removed) or `HandleUnknownResponse`, up to the
write of the next request, which then ends in `TaskWriteReturns` or
`TaskWriteRaises`. `wire` is the fate of a request's frame; a frame may be read by
the peer, answered and the answer handled before the writer resumes. `txQueues` has the
lists and `keys` the transactions that are keys of `tx_queues`: a key may be missing or its list
empty, and `RemoveCurrentAndSendNext` deletes the key of an emptied list. Response
tasks of a transaction run in any order: the properties must not rest on their
order. `Rpc` maps the queue to `TxRpc`: a line is the queue, the served requests
are the frames that left, the outcome is the future.

`MsgQueueProofs`, `HandlerProofs`, `QueryIteratorProofs`, `ServerProofs`, `ContractDispatchProofs`,
`CompositeKeysProofs`, `ContractTypesProofs` - the proofs, over `DataInduction`, which has
induction and recursion over data for the last two.

`Handler` - `chat_with_peer` with its tasks. `spawned` holds tasks that have not
started (asyncio starts them in order), `pc` follows an invocation: sent,
awaiting an answer, answered, completing, done or failed. `StartTask` is one task
start, run to its first suspension: ignore, advance the state, deliver an answer,
refuse, or invoke chaincode. The reader (`Read`) may suspend after each frame. Peer
actions are external: `REGISTERED` and `READY`, invocations, answers, keepalives,
frames out of protocol, a half-close. Chaincode asks the peer up to `MaxAsks` times and ends
with a status, with nothing, or by raising.

`Connection` - what a connection promises to the server above it: it is open and tasks
begin and end on it; an orderly end waits for them (`Drain`, `Close`), any other end
(`Drop`) may leave some behind. `Handler` implements it (`ImplementsConnection`, with
`Life` for the reader's and the RPC's state and `Tasks` for the pending tasks); `Server`
is built on it, so that it need not have frames.

`Server` - `start`: the checks (`StartRefused`), a bind that fails, a loop that an
earlier call has closed (`StartOnClosedLoop`), `StartRuns`, and `ServerStarts`, which
puts the shutdown coroutine on the list. `Interrupt` is `KeyboardInterrupt` and the finally clause
up to its await: `gather` raises for a coroutine that was awaited before, else
the stop begins (`StopBegins`) and the loop goes on until it is over (`StopEnds`, `CloseLoop`), or until a
second interrupt (`InterruptedAgain`), which leaves the loop open. `frozen` holds the servers
whose loop is closed: none of their coroutines runs again. The connections move by the
actions of `Connection`; `cut` says why gRPC has ended one. The model has
`get_event_loop` of Python up to 3.13, which makes a loop in the main thread.

`QueryIterator` - one iterator, its consumer, coroutines that close it, and the
peer's cursor. The transaction's channel is `requests`, a FIFO that the peer
answers one at a time, which is what `TxRpc` promises and `MsgQueue` is proved to
give; `WriteFails` is the first failed write of the transaction, after which `MsgQueue`
answers nothing more (`broken`). A coroutine may be cancelled at its await of a page or of the
close (`CancelWaiting`), or after its answer has come and before it runs (`CancelResumed`);
`CancelledError` is no `Exception`, so it leaves `_close` with the flag set. What it leaves in
the queue is a request whose future is cancelled (the queue is stuck when the answer comes, as
`MsgQueueStuck` shows) or, if the write was still awaited, one with a future that nobody reads. The
peer cuts the result as it likes (`IsPage`): a page may announce another and that one be empty, the last one
included. Records are numbers in the order of the result, so order, loss and
repetition can be stated about `delivered`. `RecordStream` is what chaincode is promised of all
this: `Take`, `Finish` and `Close` of a stream of records that breaks off only when someone has
closed it. `QueryIterator` implements it (`ImplementsStream`), with pages, requests, failures and the
peer's cursor as stutters, until a cancelled fetch has lost a page or the iteration has stopped
at an empty page that announced more; the latter is what `EarlyEnd` shows.

`ContractDispatch` - `new_chaincode` adds contracts one by one
(`AddContract`, `AddContractFails`, `AugmentMetadata`), then invocations run
concurrently: `Invoke` up to the before hook, `BeforeEnds`, `CallEnds` (also of the
unknown transaction), `AfterEnds`; every end is chosen from the ends the
annotation of the part admits. The look-ups of the function and of its schema are
separate operators because the code has separate rules for them. `ran` is a
history of the parts that have run. `files` are the two metadata files, each absent, broken
or of some contracts and components; `AugmentMetadata` reads the first there is (`ReadFile`),
reflects the contracts (`Reflected`: transactions with their number of parameters and
the classes they refer to), and lets the reflection fill in what the file lacks as a whole
(`AppendContracts`, `AppendComponents`). A request says whether its arguments convert and
whether they match the schema, which matters only if there is one (`ArgsFit`). A pair annotated
`Tuple[T, Optional[Exception]]` is one of `OptionalPairs`, by the kind of `T`: it is validated as an
array of `T`, which takes `(v, None)` for some and `(v, exception)` for some (`Accepted`), and only
where there is a schema (`Checked`). The properties count a returned exception as an error
(`Erred`) and except the ends that the code misreads by name (`Misread`).

`ContractTypes` - one parameter's annotation through the four walks over types that have to
agree: `TypeIsValid` (`type_is_valid`, a class's fields included), `GetSchema` (the schema
and the registry of components), and in a call `Converts` and `Validates` (`from_string`).
A result's annotation skips the check and is described; `Return` is `to_string`: the form of the
string, by annotation or class, and the validation of what was made.
A type is its kind and arguments, a document is JSON down to the kinds of its
atoms. A type is `Documented` if it and every field of the classes that it reaches
have none but the documented types. `todo` holds the types a walk still has to visit, in the order of the code's recursion,
so a walk that would not end would show as states without end. jsonschema is external
(`Matches`); a nested `$ref` is a bare class name, which jsonschema resolves by `$id` before its
version 4.18 (`byId`) and from then on raises at. `pyproject.toml:30` allows both, and the model has
both. When jsonschema, an optional import, is absent, nothing is validated; the model has it
present. What is a value of a type is said twice: with null as a value of an Optional and
without, since the schemas have no null.

`CompositeKeys` - `create_composite_key` and `split_composite_key` as operators on
sequences of code points, and the range query of a partial key over a ledger in which
other keys are put and deleted. `MaxRune` stands for U+10FFFF, 0 for U+0000, the separator.

`MC*` modules supply constants; a name `X_Y` in a module is a wrong variant of `X`, used to
see that the properties notice it.

## Runs

| run | shows | bounds |
|---|---|---|
| `MsgQueue` | one request of a transaction outstanding; answers match; no waiter lost; healthy transactions are served, end, and leave no key; `MsgQueue` implements `TxRpc` | 2 transactions with 3 and 1 requests, 1 fault of 3 kinds |
| `MsgQueueStuck` | violated: a cancelled caller stops its transaction's queue | 1 cancellation |
| `Handler` | no good frame refused; one `COMPLETED`; the connection is one of `Connection`; an answered transaction finishes though another hangs; a closed stream ends | 2 transactions, one silent, up to 2 requests each, 1 odd frame, 3 ends of a stream |
| `QueryIterator` | order, completeness, one close that reaches the peer, termination; implements `RecordStream` | 5 records, pages of 0 to 3, 2 closers, failing answers, one failed write, 2 cancelled requests in the queue |
| `EarlyEnd` | violated: an iteration stops only when the result is at its end | 3 records, pages of 0 to 2, no fault |
| `ContractDispatch` | own context, routing, errors and hooks; schemas are missing and references dangle only because of a file | up to 2 contracts, one of them with both `create` and `Create`, 2 invocations, metadata files absent, broken, invalid, partial and of components only |
| `ContractErrors` | violated: `Tuple[T, Optional[Exception]]` works as documented | 1 contract |
| `ContractTypes` | accepted types have schemas, the registry is what is reached, documented types get their values and no others, what is returned can be passed | 14 leaf kinds, containers of each, 4 classes (2 cyclic or ill-typed), 31 strings, both kinds of jsonschema |
| `Types` | violated: every value of a documented type can be passed and returned | same |
| `CompositeKeys` | keys split into their parts; a partial key finds exactly its keys | 4 code points, strings of up to 3, up to 2 attributes, 2 keys in the ledger |
| `Server` | nothing is cut off before the grace period; the loop is closed under no server that listens; an interrupted server ends | 3 calls that get to serve, 2 connections of 1 task |
| `SecondStart` | violated: a call of `start` waits for the shutdown of its server | same |

Why the bounds are enough. A transaction's queue needs three requests for a
head, the one sent next and one behind it; a second transaction shows isolation.
One fault of any kind, in either transaction and at any time, is in the run; any number of
them in the proofs of all its safety properties. The frames of the run are RESPONSEs, since the code does
not tell an ERROR apart. Two invocations and two requests of each
give a burst, an overlap and an answer out of turn. Five records with pages up to
three give full, short, empty and single pages, first, middle and last; two cancelled requests in the queue
are a fetch and a close, or one behind the other. Two
contracts give a default and another one; hooks of every kind are on one of them. A type of
two levels has a leaf, a container and a class in every position where a walk
decides; documents of two levels tell the right item from the wrong one. Two keys in a ledger are
what a collision or a wrong hit needs. Three calls of `start` show a first one, one after it,
and one whose list has a used and a fresh coroutine.

Deadlock is checked for `CompositeKeys` only: every other system here may stop, once the peer has
sent all it will, the requests or the calls of `start` are used up. No run uses symmetry.

Fairness. The event loop runs every ready task and callback, so each coroutine's
own steps are weakly fair, per request in `MsgQueue` and per task in `Handler`. gRPC
delivers and the peer answers what it has been sent (weak fairness of the external
answer actions), except for transactions in `Silent`, for which the peer never answers. Nothing
obliges chaincode to ask, a caller to be cancelled, a write to fail or anyone to
call `aclose`: those actions are not fair. `IteratingSpec` adds that the consumer goes
on with its `async for`, which the property `IterationEnds` is about. `Server` has time pass and
gRPC cancel RPCs and finish a stop while the loop runs; nothing obliges a connection's tasks
to end.

## Disagreements of the code with its documentation

Five runs end in a counterexample, described under "findings" in `PROJECT.json`:
the stuck queue after a cancelled call (`MsgQueueStuck`), an iteration that stops at an empty page
(`EarlyEnd`), pairs with `Optional[Exception]` (`ContractErrors`), documented types that cannot be
passed or returned (`Types`), and the shutdown of a second `start` (`SecondStart`).

`ReturnsOnlyResponses` of `MsgQueue` does not hold either, and needs no interleaving: an ERROR frame resolves
the future like a RESPONSE (`msg_queue_handler.py:57-62`), the parsing of the response
being commented out, and `get_state` returns the error's text as the value of the key, where
`interfaces.py:32` says "GetState returns the value of the specified `key` from the ledger". TLC gives
the trace with the constants of `MsgQueueStuck`, whose peer answers with both kinds. What follows from it for a
query is in `QueryIterator`: the text is parsed as a page, and protobuf raises.

`PairsAsDocumented` fails in two ways. For a `T` like `str` even `(v, None)` is answered with an error, as
the null is no `T`; for a `dict` or `Any` a returned exception becomes `{}` and the answer is
a success. `DocumentedTypesUsable` fails in four: every argument of `bytes` is refused, since the converted bytes
are what jsonschema gets (`json_transaction_serializer.py:254`); a class with a field of a class
is refused by a jsonschema of 4.18 or later, which raises at the bare `$ref` (`schema.py:101-102`); a `date` is answered
in the quotes of JSON, which a `date` parameter does not take; and a None in an Optional
in a list, a dict or a field is refused, because the schema of an Optional has no null
(`schema.py:41`), though not where the Optional is of a class, whose component constrains objects only.
`WellFormedCalls` and `ReturnsReadable` name these as exceptions and say that there are no others.

Met on the way, without a run of its own. An event that chaincode sets is stored on the stub
(`stub.py:292-313`) and never sent: COMPLETED is built from the response alone
(`handler.py:92-107`) and nothing calls `get_events`, while `stub.py:295-296` says it is
"serialised into the final ``COMPLETED`` message built by the handler". A method annotated `-> Exception` that returns an
exception is answered with success and an empty payload
(`contract_function.py:421-430`); `_parse_param`, which would take an unannotated
first parameter named `ctx` for the context, is never called, so such a method gets
a string parameter instead (`contract_function.py:85-103`, `130`); the capitalised form of
a name (`contract_chaincode.py:223-224`) helps a caller who writes `create` for a
method `Create`, not the other way round. The schema of a call is the first
transaction, in sorted order, that has the name or its capitalised form
(`contract_chaincode.py:244`), so with methods `create` and `Create` that take different numbers
of parameters a call of `create` is checked against the schema of `Create` and
fails, against the comment that names are case-sensitive (`221-223`). The run has such a contract, and
`GoodCallsRun` says what becomes of the call: refused, with an error and without the method, and only when
the metadata describe other parameters under either form of the name.

Of metadata: a file with any contract replaces all reflected ones, so that the arguments of
another contract are converted and not validated; a file with components alone replaces the reflected
components and leaves the references of the reflected contracts dangling, so that every call
that refers to a class fails (`metadata.py:319-324`; `UncheckedOnlyByFile` and `RefsResolve`
say that nothing else leads there).

Of the server: the environment wins over arguments (`server.py:125-126`), a variable set to
the empty string included, which hides the argument; the paths in `CORE_TLS_CLIENT_KEY_PATH` and
`CORE_TLS_CLIENT_CERT_PATH` are never read, because `start` always passes `key` and `cert`, which may be
None (`75-76`, `148`); a second call of `start` in a process raises on the closed loop; a second
interrupt leaves the loop open (`154-155`).

Of the stub: `validate_simple_keys` is called nowhere, so a plain key may begin like a composite
one, and a part may hold U+0000 (`utils.py:29-37`); a key whose next attribute begins with
U+10FFFF is not found by a partial key (`stub.py:274`); `handle_invoke_chaincode` does not put the
chaincode's name into its message (`handler.py:314-327`). `get_attribute` and
`assert_attribute` of the client identity know no attribute.

Of results: a datetime is written in its own offset and marked `Z`
(`json_transaction_serializer.py:73`); a list returned under `Any` or a bare `list` is answered as its Python `repr`; a datetime returned
for a class is answered unquoted.

Of types: `""` for a list or dict converts to an empty one, and its validation then
fails on the empty document (`json_transaction_serializer.py:148`, `242-246`), though not if the
annotation is an `Optional`; a class's parameter gets a document that is no object
unconverted (`166-176`), and for an `Optional` class nothing is validated
(`typ` is not stripped, `241-253`); a list or dict without arguments is accepted at registration and every
call is a conversion error; a tuple is described by its first element
(`schema.py:64-65`); the metadata of a dataclass field is a `MappingProxyType` and never
read, so every field is required, one with a default included (`schema.py:198`); two classes of one
name share a component (`schema.py:112`). The model has these as they are, except that no two
classes share a name and no field has a default.

## Proofs

Each proof goes by an inductive invariant `IInv` of its module: it holds initially, every
action preserves it (`IInv /\ [Next]_vars => IInv'`, a lemma per conjunct or per action), and it
gives the properties. `Init => IInv` and the preservation are proved for every value of the constants
that the module's `ASSUME`s allow.

For every set of transactions and requests, every assignment of requests to
transactions, and every finite or infinite mixture of the faults:

- `MsgQueueProofs` proves `Spec => []IInv` and from it each safety property of
  the run. The properties are not inductive alone: that the outstanding request is
  the head needs that a queue has no request twice and only requests of its own
  transaction that were asked (`QueuesWellFormed`), that an unasked request
  leaves no trace (`UnaskedLeavesNoTrace`), that a request behind the head was
  never written (`OnlyHeadWritten`), and that a frame answers a request
  that was sent and that has no other answer (`FramesAnswerOnce`). A healthy
  transaction's queue holds pending futures only (`HealthyQueuePending`), which
  gives the serving of the head; with `KeysHaveQueues`, that a key is there exactly while its list is
  not empty (inductive by itself), it gives `QueueFreed`. `Invariance` has a lemma per action.
- It also proves the refinement: until a stray frame comes, every
  step of the queue is a step of `TxRpc` or a stutter: `Ask` maps to `Ask`,
  `WireSend` to `Serve`, the handling of a response to `Answer`, cancellations and
  failed writes to `Abandon` or a stutter. It rests on the invariant (the frame handled
  answers the head).

For every set of transactions, every chaincode, every way the stream may end, and any number of
frames out of place:

- `HandlerProofs` proves `TypeOK`, `CompletedOnce` and that the handler implements `Connection`.
  That an invocation is completed once needs that a frame that invokes is in one place, the stream or
  the spawned tasks, with its invocation waiting there and no second frame of the transaction
  (`InvokedOnce`), and that the response of an invocation that completes is there (`CompletedSoFar`).
  The refinement counts tasks: those not started, the refusals, and the live invocations, of
  which there are finitely many (`FewLive`); every task is done when the count is 0
  (`UndoneTasks`), which makes the end of the stream a `Drain` to the right state.
  `OddTypesAssumption` says that a transaction sent before READY is
  `PeerInvokesEarly`, not a stray type.
- It proves `OnlyOddFramesRefused` as well. Frames are handled in the order in which they
  were sent, so the state and the queue (spawned tasks, then the stream) tell which frames will be
  refused (`DoomedOf`) and how far the handshake will have come (`Stage`). The invariant `Paid` counts
  the refusals so far and to come, and the handshake's advances, against the handshake messages and
  frames out of place that were sent: a step of the handshake pays for an advance even when a frame
  out of place took its turn, and that frame pays for the refusal of the one it displaced. Cancelling the
  tasks while they are gathered (`Dropped`) is the one step that breaks the count, downwards.

For every query, every cutting of its result into pages, any coroutines that close, and any failure
of requests and writes:

- `QueryIteratorProofs` proves `TypeOK`, `NothingDropped`, `StopMeansAll` and
  `OneClose`. The records delivered, buffered and arriving are numbered through (`Numbered`); that the
  arriving page joins at the right place needs that pages are asked for with an empty buffer
  (`FetchesWhenEmpty`), that a coroutine waits for one answer at a time (`RequestsAwaited`), and
  that a page asked for is still awaited when it comes (`NextAwaited`). The last three hold as long
  as no `__anext__` is cancelled, and stand under that condition in the invariant (`Lossless`);
  `RequestsAwaited` and `CloseSent` hold whoever is cancelled. `StopMeansAll` needs that the newest
  page announces another one unless the peer's cursor is at the end (`LastWord`) and that no page comes
  once the iteration has ended (`QuietEnd`); `OneClose`, that the flag and the request go together
  (`ClosedWithRequest`).
- It also proves that the iterator implements `RecordStream`, up to a lost page or an early end
  (`Regular`). That nothing comes after the end needs that a close is ahead of every
  later fetch in the transaction's queue, or the peer has forgotten the query, or the queue is stuck
  (`QuietEnd`, from `CloseSent`); that the stream is over only with the whole result needs `LastWord`.

For every set of connections, any number of calls of `start`, and any number of pending tasks:

- `ServerProofs` proves `StoppedBeforeClosed` and `ClosedAfterGrace`. A server is in the list of shutdown
  coroutines from its start, and its coroutine is used once it is interrupted (`ListRight`); the
  shutdown that is waited for is the first one, since no earlier server was started
  (`PhaseRight`); a loop is closed with the servers of calls that have ended, which are not touched
  again (`FrozenRight`); what a connection's life, tasks and cut say of its server agree (`ConnRight`).

For any contracts with any hooks, any metadata files, any requests and any number of concurrent
invocations:

- `ContractDispatchProofs` proves `OwnContext`, `RoutedRight`, `AnswerTellsAll`, `NothingAfterError`
  and `AfterSeesResult`. `RoutedRight` needs that the contracts added are registered under different
  names, the first as the default, and do not change once chaincode runs (`RegistryRight`), and that
  an invocation that has a method has found its contract (`Started`). `AnswerTellsAll` needs that
  the parts that have run are the first ones of hook, method, hook (`Order`), as many as the program
  counter says (`Progress`), and that a part fails for its caller exactly if it erred, when its end
  is not one that `_parse_return` misreads (`FailedIsErred`); `NothingAfterError` needs it too.
- It proves `TypeOK`, `RefsResolve`, `UncheckedOnlyByFile` and `GoodCallsRun` by the wider `FullInv`:
  what the file and the reflection have left in the metadata, as an equation (`Merged`), and which
  method an invocation goes to, or why to none (`Dispatched`). `GoodCallsRun` rests on the schema, if
  there is one, being a transaction of either form of the name (`SchemaFacts`): it is the method's, or
  the contract describes both names, which is the third of the outcomes that the property names. `UncheckedOnlyByFile` rests on the reflection having a transaction for each function: the
  sort loses none (`SortedNames`: sorting maps the numbers up to a finite set's size onto it).

For any alphabet with a least and a greatest rune, any strings, plain keys and partial keys:

- `CompositeKeysProofs` proves `SplitsBack` and `PartialKeyExact`. Joining and splitting are
  recursive functions; `DataInduction` gives that they unfold, by length. A string splits at its last
  separator, parts without U+0000 join into a string that splits into them, and so two such lists
  with one key are one list. Of the order of keys: what begins with a prefix and goes on below
  U+10FFFF is exactly the range from the prefix to the prefix and U+10FFFF. The invariant
  (`KeysRight`) is that the ledger is made of the keys of accepted parts and of plain keys.

For any types, any classes that refer to each other in any way, any documents and texts:

- `ContractTypesProofs` proves all five properties. `AcceptedTypesReflect` is about two walks, one after
  the other, each with a list of types to come. While the check runs, each class that it has entered is
  sound but for what is still in the list (`CheckedSound`): that a class is not entered twice below
  itself, `additional_types`, loses nothing, because the rest of it is in the list. When it ends, the
  accepted types are closed under parts and fields and have schemas; the description then stays
  within them (`DescribedSound`).
- `RegistryIsReachable`: a class in the registry has what its fields refer to in the registry or in the
  list, and no class gets in that a closed set of classes with the annotation's references could
  lack (`Reached`, in the invariant `RegistryGrows`).
- `WellFormedCalls`, `IllFormedRefused` and `ReturnsReadable`: jsonschema's matching (`Matched`) and the
  meaning of types (`TypesOf`) are both recursive on documents, and proved to agree on documented types whose
  classes are described, by induction on the height of the document, one inclusion for each
  direction (`FitsMatches`, `MatchesFits`); where nested references raise, the first one holds of what
  refers to no class within (`Resolvable`, `NoPartRaises`), and the second one always. What is left is the case of each annotation: what `Converts` and `Validates` take
  (`WellFormedTaken`, `TakenWellFormed`), and that the string of a result is taken
  (`AnswerTaken`). `CallsRight` keeps what a call was decided on, while the registry no longer changes.

`DataInduction` states induction without an operator parameter: a subset of the values that has each value
whose smaller ones it has is all of them (`InductionByRank`), from the least element of a set of
numbers; and a functional that looks only at smaller values defines a function that unfolds (`RecursionByRank`).
Each recursive function of `CompositeKeys` and `ContractTypes` is shown to be one.

The assumptions are those of the `ASSUME`s of the modules, which TLC evaluates in the runs. Those of
`ContractTypes` say what Python's annotations and JSON are: an annotation is finite and is deeper than its
arguments (`DepthAssumption`; a class is a name and may be cyclic), a document is higher than its
parts (`HeightAssumption`), kinds do not overlap, `typing` has made one `Optional` of an
`Optional` in an `Optional` (`TypesAssumption`), and there is a text that is no JSON and a document
that is a string (`DocsAssumption`). That of `ContractDispatch` on names says that a contract has
finitely many functions, with names that have an order.

Every safety property that a run checks is proved, and so are the three refinements. Only model-checked:
liveness (`HealthyCallsEnd`, `AnsweredTransactionsFinish`, `ClosedConnectionEnds`,
`CloseReachesPeer`, `IterationEnds`, `InterruptEnds`), which this prover does not reach; the
counterexamples are TLC's as well. Recursion is by recursive functions; a definition by RECURSIVE is
used nowhere.

## Not modelled

Encoding (protobuf, the text of JSON), log output, the files and credentials of TLS and the
declarations of `interfaces.py`; the cancellation of coroutines elsewhere than at the awaits of
`MsgQueue` (a request), `QueryIterator` (a page or a close) and `Handler` (the gathered tasks); the signed proposal's decoding and the decoding of the creator; the
info block of metadata. `SIGTERM` ends the process without the finally clause and is no action of
`Server`. Concurrent writes of one stream are atomic; whether grpc.aio guarantees it is not
this code's matter. The components and their state are in `PROJECT.json`.

## Plan

In order of importance:

1. done: `TxRpc`, `MsgQueue` and its proofs, `Handler`, `QueryIterator`, `ContractDispatch`,
   `ContractTypes`.
2. done: `Connection` and its refinement, `Server`, `CompositeKeys`, the metadata file in
   `ContractDispatch`, results in `ContractTypes`, failed writes in `QueryIterator`.
3. done: the proofs of `Handler`, `QueryIterator`, `Server` and `ContractDispatch`.
4. done: `OnlyOddFramesRefused` of `Handler`; the abstract stream of records and its refinement by
   `QueryIterator`.
5. done: the proofs of what `CompositeKeys` and `ContractTypes` compute for every input, and of the
   metadata and the dispatch in `ContractDispatch`.
6. Composition: `Handler` over `TxRpc`. The steps that liveness rests on, as invariants: that a transaction without
   an answer is one that waits for the peer.
