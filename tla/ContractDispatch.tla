-------------------------- MODULE ContractDispatch --------------------------
(***************************************************************************)
(* fabric_contract_api: a ContractChaincode is built from contracts, then  *)
(* serves invocations, several at a time.                                  *)
(*                                                                         *)
(* An invocation finds its contract and its method, and runs the before    *)
(* hook, the method (or the unknown-transaction hook) and the after hook.  *)
(* Each of these is chaincode and may suspend; what lies between two of    *)
(* them runs atomically.  ContractDispatch refines the step "chaincode     *)
(* runs" of module Handler for chaincode written with the contract API.    *)
(***************************************************************************)
EXTENDS Naturals, Sequences, SequencesExt, FiniteSets

CONSTANTS
  Inv,           \* invocations
  Contracts,     \* the contracts that may be given to new_chaincode
  MaxContracts,  \* bound on how many are given
  Fn,            \* names of methods
  Upper,         \* _to_first_rune_upper_case
  Rank,          \* the order of names that sort() uses
  NoName,        \* the blank name
  SystemName,    \* SystemContractName
  Classes,       \* classes that schemas refer to, by component
  MaxParams,     \* bound on the number of string parameters
  Files,         \* metadata files
  FilePairs,     \* what may lie in META-INF and in contract-metadata: see ReadFile
  Requests       \* the requests of the invocations: contract and function name,
                 \* number of parameters, whether these convert, and are valid

\* Tuple[T, Optional[Exception]], for a T of each kind: which of (v, None) and
\* (v, exception) an array of T takes, as [v, null] and [v, {}]. str, int, bool,
\* float, bytes and lists take neither, a dict the second, a class with required
\* fields the first, Any both.
Accepted == [optionalPair |-> {}, optionalOfDict |-> {"returnsError"},
             optionalOfClass |-> {"value"}, optionalOfAny |-> {"value", "returnsError"}]
OptionalPairs == DOMAIN Accepted
\* Annotations of a return value: nothing, T, Tuple[T, Exception],
\* Tuple[T, Optional[Exception]], Exception.
Annotations == {"nothing", "value", "pair", "exception"} \cup OptionalPairs
\* How chaincode may end: with a value, with None, with a value the serializer
\* refuses, with an exception that it returns, or by raising one.
Ends == {"value", "none", "refused", "returnsError", "raises"}
NoHook == [returns |-> "no hook", params |-> 0]
Hooks == [returns : Annotations, params : 0 .. 2]
\* uses: the classes that the parameters' schemas refer to.
Methods == [returns : Annotations, params : 0 .. MaxParams, uses : SUBSET Classes]
\* returns: whether there is a schema for the result.
Transactions == [name : Fn, params : 0 .. MaxParams, returns : BOOLEAN, uses : SUBSET Classes]
NoFile == [text |-> "absent"]

\* get_metadata, the system contract's only method.
SystemContract == [name |-> SystemName,
                   methods |-> [f \in {"get_metadata"} |-> [returns |-> "value", params |-> 0, uses |-> {}]],
                   ignored |-> {}, parses |-> TRUE, before |-> NoHook, after |-> NoHook, unknown |-> NoHook]

ASSUME ContractsAssumption ==
  \A c \in Contracts :
    /\ c.name # NoName
    /\ DOMAIN c.methods \subseteq Fn \ {NoName}
    /\ \A f \in DOMAIN c.methods : c.methods[f] \in Methods
    /\ IsFiniteSet(DOMAIN c.methods)
    /\ c.ignored \subseteq Fn /\ c.parses \in BOOLEAN
    /\ {c.before, c.after, c.unknown} \subseteq Hooks \cup {NoHook}
ASSUME NamesAssumption ==
  /\ NoName \in Fn /\ "get_metadata" \in Fn \ {NoName} /\ SystemName # NoName
  /\ Upper \in [Fn -> Fn] /\ Upper[NoName] = NoName
  /\ \A f \in Fn : Upper[Upper[f]] = Upper[f]
  /\ Rank \in [Fn -> Nat]
  /\ \A f, g \in Fn : Rank[f] = Rank[g] => f = g
ASSUME RequestsAssumption ==
  /\ MaxParams \in Nat
  /\ \A q \in Requests : /\ q.fn \in Fn /\ q.params \in 0 .. MaxParams
                         /\ q.convert \in BOOLEAN /\ q.valid \in BOOLEAN
\* A file is absent, no JSON, not of metadata's schema, or describes contracts.
ASSUME FilesAssumption ==
  /\ NoFile \notin Files
  /\ FilePairs \subseteq (Files \cup {NoFile}) \X (Files \cup {NoFile})
  /\ \A file \in Files :
       /\ file.text \in {"broken", "invalid", "valid"}
       /\ \A c \in DOMAIN file.contracts : file.contracts[c] \in Seq(Transactions)
       /\ file.components \subseteq Classes

VARIABLES
  given,      \* the contracts given to new_chaincode, the system contract last
  files,      \* the metadata files, NoFile for one that is not there
  added,      \* how many of them _add_contract has added
  building,   \* "contracts", "done" or "raised": where new_chaincode is
  contracts,  \* self._contracts: name -> record of the contract
  default,    \* self.DefaultContract
  metadata,   \* self._metadata.contracts: name -> its transactions, in order
  components, \* self._metadata.components
  pc,         \* the part of an invocation that runs
  request,    \* what an invocation asks for
  method,     \* contract_fn of an invocation
  context,    \* ctx of an invocation: a context object
  stub,       \* the invocation whose stub a context object holds
  result,     \* success_iface: the invocation whose method returned it, or NoValue
  passed,     \* history: what the after hook was given
  ran,        \* history: parts that have ended and how, in order
  response    \* the status of the response

build == <<given, files, added, building, contracts, default, metadata, components>>
vars == <<build, pc, request, method, context, stub, result, passed, ran, response>>

NoInv == "no invocation"
NoValue == "None"
Undefined == "undefined"
NoContext == "no context"
ASSUME InvAssumption == Inv \cap {NoInv, NoValue, Undefined, NoContext} = {}
Parts == {"before", "call", "unknown", "after"}
NoRequest == [contract |-> NoName, fn |-> NoName, params |-> 0,
              convert |-> FALSE, valid |-> FALSE]

TypeOK ==
  /\ added \in 0 .. Len(given)
  /\ building \in {"contracts", "done", "raised"}
  /\ files \in FilePairs
  /\ \A n \in DOMAIN metadata : metadata[n] \in Seq(Transactions)
  /\ components \subseteq Classes
  /\ \A n \in DOMAIN contracts : DOMAIN contracts[n].functions # {}
  /\ default \in DOMAIN contracts \cup {NoName}
  /\ pc \in [Inv -> Parts \cup {"idle", "done"}]
  /\ request \in [Inv -> Requests \cup {NoRequest}]
  /\ method \in [Inv -> Fn]
  /\ context \in [Inv -> Inv \cup {NoContext}]
  /\ stub \in [Inv -> Inv \cup {NoInv}]
  /\ result \in [Inv -> Inv \cup {NoValue}]
  /\ passed \in [Inv -> Inv \cup {NoValue, Undefined}]
  /\ ran \in [Inv -> Seq([part : Parts, returns : Annotations, checked : BOOLEAN, end : Ends])]
  /\ response \in [Inv -> {"none", "ok", "error"}]

Init ==
  /\ \E n \in 0 .. MaxContracts : \E cs \in [1 .. n -> Contracts] :
       given = Append(cs, SystemContract)
  /\ files \in FilePairs
  /\ added = 0 /\ building = "contracts"
  /\ contracts = <<>> /\ default = NoName /\ metadata = <<>> /\ components = {}
  /\ pc = [i \in Inv |-> "idle"] /\ request = [i \in Inv |-> NoRequest]
  /\ method = [i \in Inv |-> NoName]
  /\ context = [i \in Inv |-> NoContext] /\ stub = [i \in Inv |-> NoInv]
  /\ result = [i \in Inv |-> NoValue] /\ passed = [i \in Inv |-> NoValue]
  /\ ran = [i \in Inv |-> <<>>] /\ response = [i \in Inv |-> "none"]

(***************************************************************************)
(* new_chaincode                                                           *)
(***************************************************************************)
Upcoming == given[added + 1]

\* The public methods that are not excluded; the names of the contract
\* interfaces are none of Fn.
Callable(c) == DOMAIN c.methods \ c.ignored

\* new_transaction_handler: what the hooks may take besides the context.
HooksFit(c) == /\ c.before.params = 0
               /\ c.unknown.params = 0
               /\ c.after.params <= 1

\* Mutant: a contract without methods is added.
Addable_Empty(c) == c.name \notin DOMAIN contracts /\ HooksFit(c) /\ c.parses
Addable(c) == /\ c.name \notin DOMAIN contracts
              /\ HooksFit(c) /\ c.parses
              /\ Callable(c) # {}

\* Mutant: the contract added last becomes the default.
Default_Last(c) == c.name
\* `if not self.DefaultContract`
Default(c) == IF default = NoName THEN c.name ELSE default

\* _add_contract registers a contract.
AddContract ==
  /\ building = "contracts" /\ added < Len(given)
  /\ Addable(Upcoming)
  /\ LET c == Upcoming
         ccn == [functions |-> [f \in Callable(c) |-> c.methods[f]],
                 before |-> c.before, after |-> c.after, unknown |-> c.unknown] IN
     /\ contracts' = [n \in DOMAIN contracts \cup {c.name} |->
                        IF n = c.name THEN ccn ELSE contracts[n]]
     /\ default' = Default(c)
  /\ added' = added + 1
  /\ UNCHANGED <<given, files, building, metadata, components, pc, request, method, context,
                 stub, result, passed, ran, response>>

\* It returns an error: two contracts of one name, a hook that takes too much, a
\* signature that does not parse, no method left.  new_chaincode raises it.
AddContractFails ==
  /\ building = "contracts" /\ added < Len(given)
  /\ ~Addable(Upcoming)
  /\ building' = "raised"
  /\ UNCHANGED <<given, files, added, contracts, default, metadata, components, pc, request,
                 method, context, stub, result, passed, ran, response>>

\* read_metadata_file: the first of the two folders that has one.
ReadFile == IF files[1] # NoFile THEN files[1] ELSE files[2]

\* sort(): the name with k names up to it, itself included.
Sorted(names, k) == CHOOSE f \in names : Cardinality({g \in names : Rank[g] <= Rank[f]}) = k

\* _parse_return: Optional[Exception] is no subclass of BaseException, so the
\* pair it is in becomes the success type.
ReturnsSuccess(annotation) == annotation \in {"value", "pair"} \cup OptionalPairs

\* _reflect_metadata: a transaction per function, sorted by name, and the classes
\* their schemas refer to.
Reflected(functions) ==
  LET names == DOMAIN functions IN
  [k \in 1 .. Cardinality(names) |->
     LET f == Sorted(names, k) IN
     [name |-> f, params |-> functions[f].params,
      returns |-> ReturnsSuccess(functions[f].returns), uses |-> functions[f].uses]]
ReflectedContracts == [n \in DOMAIN contracts |-> Reflected(contracts[n].functions)]
ReflectedComponents ==
  UNION {UNION {contracts[n].functions[f].uses : f \in DOMAIN contracts[n].functions} :
           n \in DOMAIN contracts}

\* append: the file's contracts, all of them, or the reflected ones, all of them.
AppendContracts(file, reflected) == IF DOMAIN file = {} THEN reflected ELSE file

\* Mutant: a file that is silent about components has none.
AppendComponents_Taken(file, reflected) == file
AppendComponents(file, reflected) == IF file = {} THEN reflected ELSE file

\* _augment_metadata: the file with what it lacks.
AugmentMetadata ==
  /\ building = "contracts" /\ added = Len(given)
  /\ ReadFile = NoFile \/ ReadFile.text = "valid"
  /\ LET none == ReadFile = NoFile IN
     /\ metadata' = AppendContracts(IF none THEN <<>> ELSE ReadFile.contracts, ReflectedContracts)
     /\ components' = AppendComponents(IF none THEN {} ELSE ReadFile.components,
                                       ReflectedComponents)
  /\ building' = "done"
  /\ UNCHANGED <<given, files, added, contracts, default, pc, request, method, context, stub,
                 result, passed, ran, response>>

\* The file is no JSON, a schema in it does not compile, or the whole does not
\* match the schema of metadata: new_chaincode raises.
AugmentMetadataFails ==
  /\ building = "contracts" /\ added = Len(given)
  /\ ReadFile # NoFile /\ ReadFile.text # "valid"
  /\ building' = "raised"
  /\ UNCHANGED <<given, files, added, contracts, default, metadata, components, pc, request,
                 method, context, stub, result, passed, ran, response>>

(***************************************************************************)
(* Names                                                                   *)
(***************************************************************************)

\* _get_namespace_function_and_params: a name without prefix is of the default.
ContractOf(q) == IF q.contract = NoName THEN default ELSE q.contract

\* Mutant: the capitalised name goes first.
FunctionOf_UpperFirst(functions, fn) ==
  IF Upper[fn] \in functions THEN Upper[fn]
  ELSE IF fn \in functions THEN fn ELSE NoName
\* functions.get(fn) or functions.get(_to_first_rune_upper_case(fn))
FunctionOf(functions, fn) ==
  IF fn \in functions THEN fn
  ELSE IF Upper[fn] \in functions THEN Upper[fn] ELSE NoName

NoSchema == [name |-> NoName]
TransactionsOf(n) == IF n \in DOMAIN metadata THEN metadata[n] ELSE <<>>
\* Mutant: the schema is looked up by the exact name only.
SchemaOf_Exact(n, fn) ==
  LET txs == TransactionsOf(n)
      named == {k \in DOMAIN txs : txs[k].name = fn}
  IN IF named = {} THEN NoSchema ELSE txs[Min(named)]
\* The transaction whose schema a call gets: the first with either form of the
\* name, if the metadata has the contract and such a transaction.
SchemaOf(n, fn) ==
  LET txs == TransactionsOf(n)
      named == {k \in DOMAIN txs : txs[k].name \in {fn, Upper[fn]}}
  IN IF named = {} THEN NoSchema ELSE txs[Min(named)]

(***************************************************************************)
(* Arguments and results                                                   *)
(***************************************************************************)

\* _format_args succeeds.  Without a schema a parameter is converted and not
\* validated; a reference that does not resolve fails the validation.
ArgsFit(q, m, schema) ==
  /\ schema # NoSchema => schema.params = m.params
  /\ q.params >= m.params
  /\ m.params > 0 => /\ q.convert
                     /\ schema # NoSchema => q.valid /\ schema.uses \subseteq components

\* An exception is returned only where the annotation has one.
EndsOf(annotation) ==
  Ends \ (IF annotation \in {"nothing", "value"} THEN {"returnsError"} ELSE {})

\* call and _handle_response return an error.  Only Tuple[T, Exception] is looked
\* into; a pair with Optional[Exception] is a value, an array of T for its schema.
Fails(annotation, checked, end) ==
  \/ end = "raises"
  \/ end = "refused" /\ ReturnsSuccess(annotation)
  \/ end = "returnsError" /\ annotation = "pair"
  \/ /\ checked /\ annotation \in OptionalPairs
     /\ end \in {"value", "returnsError"} \ Accepted[annotation]

\* They return a success value.
Yields(annotation, end) == /\ ReturnsSuccess(annotation)
                           /\ end \in {"value", "returnsError"}

(***************************************************************************)
(* invoke                                                                  *)
(***************************************************************************)

Respond(i, status) == /\ pc' = [pc EXCEPT ![i] = "done"]
                      /\ response' = [response EXCEPT ![i] = status]
                      /\ UNCHANGED <<method, passed>>

Enter(i, part, f, data) == /\ pc' = [pc EXCEPT ![i] = part]
                           /\ method' = [method EXCEPT ![i] = f]
                           /\ passed' = [passed EXCEPT ![i] = data]
                           /\ UNCHANGED response

\* After the before hook: the method is looked up and its arguments are formatted.
Dispatch(i, q) ==
  LET c == contracts[ContractOf(q)]
      f == FunctionOf(DOMAIN c.functions, q.fn) IN
  \/ /\ f = NoName /\ c.unknown = NoHook
     /\ Respond(i, "error")
  \/ /\ f = NoName /\ c.unknown # NoHook
     /\ Enter(i, "unknown", NoName, NoValue)
  \/ /\ f # NoName
     /\ IF ArgsFit(q, c.functions[f], SchemaOf(ContractOf(q), q.fn))
          THEN Enter(i, "call", f, NoValue)
          ELSE Respond(i, "error")

\* Mutant: the contract's one context object is used for every invocation.
NewContext_Shared(i) == CHOOSE j \in Inv : TRUE
\* ns_contract.transaction_context_handler(): a new object.
NewContext(i) == i

\* Chaincode is invoked for a contract it has, up to its first part.
Invoke(i, q) ==
  /\ building = "done" /\ pc[i] = "idle"
  /\ ContractOf(q) \in DOMAIN contracts /\ q.fn # NoName
  /\ request' = [request EXCEPT ![i] = q]
  /\ context' = [context EXCEPT ![i] = NewContext(i)]
  /\ stub' = [stub EXCEPT ![NewContext(i)] = i]
  /\ IF contracts[ContractOf(q)].before = NoHook
       THEN Dispatch(i, q)
       ELSE Enter(i, "before", NoName, NoValue)
  /\ UNCHANGED <<build, result, ran>>

\* "Contract not found", "Blank function name passed"
InvokeRefused(i, q) ==
  /\ building = "done" /\ pc[i] = "idle"
  /\ ContractOf(q) \notin DOMAIN contracts \/ q.fn = NoName
  /\ request' = [request EXCEPT ![i] = q]
  /\ Respond(i, "error")
  /\ UNCHANGED <<build, context, stub, result, ran>>

\* init without a function: "Default initiator successful."  With one it invokes.
InitWithoutFunction(i) ==
  /\ building = "done" /\ pc[i] = "idle"
  /\ Respond(i, "ok")
  /\ UNCHANGED <<build, request, context, stub, result, ran>>

CalledContract(i) == contracts[ContractOf(request[i])]

\* A result is validated where the metadata have a schema for it; a hook's is not.
Checked(i) == /\ pc[i] = "call"
              /\ LET schema == SchemaOf(ContractOf(request[i]), request[i].fn) IN
                 schema # NoSchema /\ schema.returns

Ran(i, returns, end) ==
  ran' = [ran EXCEPT ![i] = Append(@, [part |-> pc[i], returns |-> returns,
                                       checked |-> Checked(i), end |-> end])]

BeforeEnds(i, end) ==
  LET hook == CalledContract(i).before
      failed == Fails(hook.returns, Checked(i), end) IN
  /\ pc[i] = "before" /\ end \in EndsOf(hook.returns)
  /\ Ran(i, hook.returns, end)
  /\ IF failed THEN Respond(i, "error") ELSE Dispatch(i, request[i])
  /\ UNCHANGED <<build, request, context, stub, result>>

\* Mutant: the hook gets the bare None.
AfterData_None(i, value) == value
\* What the after hook is given, if it takes anything.
AfterData(i, value) ==
  IF CalledContract(i).after.params = 0 THEN NoValue
  ELSE IF value = NoValue THEN Undefined ELSE value

\* Mutant: the after hook runs in spite of an error.
SkipsAfter_Never(i, failed) == CalledContract(i).after = NoHook
SkipsAfter(i, failed) == failed \/ CalledContract(i).after = NoHook

\* The method, or the unknown-transaction hook, ends.
CallEnds(i, end) ==
  LET c == CalledContract(i)
      returns == IF pc[i] = "call" THEN c.functions[method[i]].returns ELSE c.unknown.returns
      failed == Fails(returns, Checked(i), end)
      value == IF Yields(returns, end) /\ ~failed THEN stub[context[i]] ELSE NoValue IN
  /\ pc[i] \in {"call", "unknown"} /\ end \in EndsOf(returns)
  /\ Ran(i, returns, end)
  /\ result' = [result EXCEPT ![i] = value]
  /\ IF SkipsAfter(i, failed)
       THEN Respond(i, IF failed THEN "error" ELSE "ok")
       ELSE Enter(i, "after", method[i], AfterData(i, value))
  /\ UNCHANGED <<build, request, context, stub>>

\* Mutant: the after hook's error is ignored.
AfterStatus_Ok(failed) == "ok"
AfterStatus(failed) == IF failed THEN "error" ELSE "ok"

AfterEnds(i, end) ==
  LET hook == CalledContract(i).after
      failed == Fails(hook.returns, Checked(i), end) IN
  /\ pc[i] = "after" /\ end \in EndsOf(hook.returns)
  /\ Ran(i, hook.returns, end)
  /\ Respond(i, AfterStatus(failed))
  /\ UNCHANGED <<build, request, context, stub, result>>

Next ==
  \/ AddContract
  \/ AddContractFails
  \/ AugmentMetadata
  \/ AugmentMetadataFails
  \/ \E i \in Inv : \/ \E q \in Requests : Invoke(i, q) \/ InvokeRefused(i, q)
                    \/ InitWithoutFunction(i)
                    \/ \E end \in Ends :
                         BeforeEnds(i, end) \/ CallEnds(i, end) \/ AfterEnds(i, end)

Spec == Init /\ [][Next]_vars

(***************************************************************************)
(* Properties.                                                             *)
(***************************************************************************)
Entered(i) == context[i] # NoContext
PartsRun(i) == [k \in DOMAIN ran[i] |-> ran[i][k].part]

\* A part erred: it raised, it returned an exception, in whatever way its
\* annotation has one (contract_function.py:168-180), or its value is refused.
Erred(e) == \/ e.end \in {"raises", "returnsError"}
            \/ e.end = "refused" /\ e.returns \notin {"nothing", "exception"}
\* What _parse_return does not take for an error, or for a value of T: a pair with
\* Optional[Exception], and an exception announced alone (contract_function.py:190-208).
Misread(e) == \/ e.returns \in OptionalPairs /\ e.end \in {"value", "returnsError"}
              \/ e.returns = "exception" /\ e.end = "returnsError"

\* Every invocation has a context of its own: while one is suspended in a hook or
\* a method, no other one changes the stub it goes on with
\* (contract_chaincode.py:211-213).
OwnContext == \A i \in Inv : pc[i] \in Parts => stub[context[i]] = i

\* What runs is a method that the contract of that name offers, under the name
\* asked for or its capitalised form, and never an ignored one; a name without
\* prefix is of the contract given first (contract_chaincode.py:353-388, 456-463).
GivenAs(name) == IF name = NoName THEN given[1]
                 ELSE CHOOSE c \in {given[k] : k \in DOMAIN given} : c.name = name
RoutedRight ==
  \A i \in Inv : method[i] # NoName =>
    LET c == GivenAs(request[i].contract) IN
    /\ method[i] \in DOMAIN c.methods \ c.ignored
    /\ method[i] \in {request[i].fn, Upper[request[i].fn]}

\* Who names a method of a contract and passes parameters that fit it runs that
\* method and no other, unless the before hook erred.  "Method names are
\* case-sensitive" (contract_chaincode.py:221-223), but the schema is not looked up
\* so: if the metadata describe a transaction with either form of the name and other
\* parameters, as they do of a contract with both forms, the call may be refused,
\* and then no method has run and the peer is told (contract_chaincode.py:225-246).
Described(c, fn) == {tx \in ToSet(TransactionsOf(c)) : tx.name \in {fn, Upper[fn]}}
GoodCall(i) == LET functions == CalledContract(i).functions
                   q == request[i] IN
               /\ q.fn \in DOMAIN functions
               /\ q.params >= functions[q.fn].params /\ q.convert /\ q.valid
OtherDescribed(i) ==
  \E tx \in Described(ContractOf(request[i]), request[i].fn) :
    \/ tx.params # CalledContract(i).functions[request[i].fn].params
    \/ ~(tx.uses \subseteq components)
GoodCallsRun ==
  \A i \in Inv : pc[i] = "done" /\ Entered(i) /\ GoodCall(i) =>
    \/ method[i] = request[i].fn /\ "call" \in ToSet(PartsRun(i))
    \/ PartsRun(i) = <<"before">> /\ Erred(ran[i][1])
    \/ OtherDescribed(i) /\ "call" \notin ToSet(PartsRun(i)) /\ response[i] = "error"

\* A method gets parameters that do not match their schemas only if a metadata
\* file describes some contracts and leaves this method out: then nothing is
\* validated, and no reflected schema takes the place (metadata.py:308-322,
\* contract_chaincode.py:239-246).
DescribedByFile(i) ==
  \E k \in 1 .. 2 : /\ files[k] = ReadFile /\ files[k] # NoFile
                    /\ DOMAIN files[k].contracts # {}
                    /\ Described(ContractOf(request[i]), request[i].fn) = {}
UncheckedOnlyByFile ==
  \A i \in Inv : "call" \in ToSet(PartsRun(i)) /\ ~request[i].valid =>
    \/ CalledContract(i).functions[method[i]].params = 0
    \/ DescribedByFile(i)

\* Every class that a schema refers to has its component, if there is no file, or
\* a file that does not give components alone and has those its contracts refer to:
\* the merge takes each part as a whole (metadata.py:308-325).
UsesOf(txs) == UNION {tx.uses : tx \in ToSet(txs)}
SelfContained(file) ==
  /\ DOMAIN file.contracts = {} => file.components = {}
  /\ \A n \in DOMAIN file.contracts :
       UsesOf(file.contracts[n]) \subseteq
         (IF file.components = {} THEN ReflectedComponents ELSE file.components)
RefsResolve ==
  building = "done" /\ (ReadFile = NoFile \/ SelfContained(ReadFile)) =>
    \A n \in DOMAIN metadata : UsesOf(metadata[n]) \subseteq components

\* The peer is told of success exactly if the before hook, the method and the
\* after hook have all run and none has erred (contract_chaincode.py:215-275).
\* Not so where a part's end is misread: then see PairsAsDocumented.
AnswerTellsAll ==
  \A i \in Inv : /\ pc[i] = "done" /\ Entered(i)
                 /\ \A k \in DOMAIN ran[i] : ~Misread(ran[i][k])
                 =>
    LET c == CalledContract(i)
        hook(part, h) == IF h = NoHook THEN <<>> ELSE <<part>>
        main == IF method[i] = NoName THEN "unknown" ELSE "call"
    IN response[i] = "ok" <=>
         /\ PartsRun(i) = hook("before", c.before) \o <<main>> \o hook("after", c.after)
         /\ \A k \in DOMAIN ran[i] : ~Erred(ran[i][k])

\* Nothing of an invocation runs after a part that erred, unless its end is
\* misread (contract_chaincode.py:218-219, 253-254).
NothingAfterError ==
  \A i \in Inv : \A k \in DOMAIN ran[i] : Erred(ran[i][k]) /\ ~Misread(ran[i][k]) =>
    k = Len(ran[i]) /\ pc[i] = "done"

\* The after hook that takes a value gets what this invocation's own method has
\* returned, or the sentinel if it has returned none (transaction_handler.py:68-77).
AfterSeesResult ==
  \A i \in Inv : pc[i] = "after" /\ CalledContract(i).after.params = 1 =>
    LET last == ran[i][Len(ran[i])] IN
    passed[i] = IF last.end # "none" /\ last.returns \notin {"nothing", "exception"}
                  THEN i ELSE Undefined

\* "When the exception is None the success value is used; otherwise the exception
\* is propagated" (contract_function.py:174-177, fabric_contract_api/README.md:125-128):
\* of a method annotated Tuple[T, Optional[Exception]], the answer is an error
\* exactly if it returned an exception.
PairsAsDocumented ==
  \A i \in Inv : \A k \in DOMAIN ran[i] :
    /\ pc[i] = "done" /\ Len(ran[i]) = 1
    /\ ran[i][k].returns \in OptionalPairs /\ ran[i][k].end \in {"value", "returnsError"}
    => (response[i] = "error" <=> ran[i][k].end = "returnsError")
=============================================================================
