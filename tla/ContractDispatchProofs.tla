----------------------- MODULE ContractDispatchProofs -----------------------
(***************************************************************************)
(* Theorems about ContractDispatch, for any contracts, metadata files,     *)
(* requests and number of invocations.                                     *)
(***************************************************************************)
EXTENDS ContractDispatch, SequenceTheorems, FiniteSetTheorems, DataInduction

(***************************************************************************)
(* The inductive invariant.                                                *)
(***************************************************************************)

\* The types of what an invocation keeps.
Entry == {e \in [part : Parts, returns : Annotations, checked : BOOLEAN, end : Ends] :
            e.end \in EndsOf(e.returns)}
InvocationTypes ==
  /\ pc \in [Inv -> Parts \cup {"idle", "done"}]
  /\ request \in [Inv -> Requests \cup {NoRequest}]
  /\ method \in [Inv -> Fn]
  /\ context \in [Inv -> Inv \cup {NoContext}]
  /\ stub \in [Inv -> Inv \cup {NoInv}]
  /\ result \in [Inv -> Inv \cup {NoValue}]
  /\ passed \in [Inv -> Inv \cup {NoValue, Undefined}]
  /\ ran \in [Inv -> Seq(Entry)]
  /\ response \in [Inv -> {"none", "ok", "error"}]

\* What a contract given to new_chaincode becomes.
Registered(c) == [functions |-> [f \in Callable(c) |-> c.methods[f]],
                  before |-> c.before, after |-> c.after, unknown |-> c.unknown]

\* The contracts added so far are registered under names that are all different,
\* the first of them as the default, and chaincode runs when all are.
RegistryRight ==
  /\ given \in Seq(Contracts \cup {SystemContract})
  /\ added \in Nat /\ added <= Len(given) /\ Len(given) > 0
  /\ building = "done" => added = Len(given)
  /\ DOMAIN contracts = {given[k].name : k \in 1 .. added}
  /\ \A k \in 1 .. added : contracts[given[k].name] = Registered(given[k])
  /\ \A j, k \in 1 .. added : given[j].name = given[k].name => j = k
  /\ default = IF added = 0 THEN NoName ELSE given[1].name

\* An invocation that waits has left no trace; one that runs has found its contract
\* and has its own context.
Started(i) ==
  /\ pc[i] = "idle" => method[i] = NoName /\ ran[i] = <<>> /\ context[i] = NoContext
  /\ pc[i] # "idle" => building = "done"
  /\ pc[i] \in Parts => /\ context[i] = i /\ stub[i] = i
  /\ pc[i] \in Parts \/ (pc[i] = "done" /\ Entered(i)) =>
       ContractOf(request[i]) \in DOMAIN contracts
  /\ method[i] # NoName => /\ pc[i] \in Parts \/ (pc[i] = "done" /\ Entered(i))
                           /\ method[i] \in DOMAIN CalledContract(i).functions
                           /\ method[i] \in {request[i].fn, Upper[request[i].fn]}

\* The hooks that a contract has, counted, and what runs between them.
HasBefore(i) == IF CalledContract(i).before = NoHook THEN 0 ELSE 1
HasAfter(i) == IF CalledContract(i).after = NoHook THEN 0 ELSE 1
Main(i) == IF method[i] = NoName THEN "unknown" ELSE "call"

\* The parts that have run are the first ones of the contract's hook, method, hook.
Order(i) ==
  /\ Len(ran[i]) > 0 /\ HasBefore(i) = 1 => ran[i][1].part = "before"
  /\ Len(ran[i]) > HasBefore(i) => ran[i][HasBefore(i) + 1].part = Main(i)
  /\ Len(ran[i]) > HasBefore(i) + 1 => ran[i][HasBefore(i) + 2].part = "after"
Failed(e) == Fails(e.returns, e.checked, e.end)
NoErrors(i) == \A k \in DOMAIN ran[i] : ~Failed(ran[i][k])
Progress(i) ==
  /\ pc[i] \in Parts => NoErrors(i) /\ Order(i)
  /\ pc[i] = "before" => HasBefore(i) = 1 /\ Len(ran[i]) = 0 /\ method[i] = NoName
  /\ pc[i] \in {"call", "unknown"} => Len(ran[i]) = HasBefore(i) /\ pc[i] = Main(i)
  /\ pc[i] = "unknown" => CalledContract(i).unknown # NoHook
  /\ pc[i] = "after" => HasAfter(i) = 1 /\ Len(ran[i]) = HasBefore(i) + 1

\* The answer, once the invocation has ended.
Answered(i) ==
  pc[i] = "done" /\ Entered(i) =>
    /\ Order(i)
    /\ Len(ran[i]) <= HasBefore(i) + 1 + HasAfter(i)
    /\ response[i] # "none"
    /\ response[i] = "ok" <=> /\ Len(ran[i]) = HasBefore(i) + 1 + HasAfter(i)
                              /\ NoErrors(i)

\* The conjuncts of NothingAfterError and AfterSeesResult for one invocation.
StopsAtError(i) ==
  \A k \in DOMAIN ran[i] : Failed(ran[i][k]) => k = Len(ran[i]) /\ pc[i] = "done"
SeesResult(i) ==
  pc[i] = "after" /\ CalledContract(i).after.params = 1 =>
    LET last == ran[i][Len(ran[i])] IN
    passed[i] = IF last.end # "none" /\ last.returns \notin {"nothing", "exception"}
                  THEN i ELSE Undefined

InvocationRight(i) == /\ Started(i) /\ Progress(i) /\ Answered(i)
                      /\ StopsAtError(i) /\ SeesResult(i)

IInv == InvocationTypes /\ RegistryRight /\ \A i \in Inv : InvocationRight(i)

(***************************************************************************)
(* The initial state.                                                      *)
(***************************************************************************)

\* The invariant holds before the first contract registers.
LEMMA InitIInv == Init => IInv
<1> SUFFICES ASSUME Init PROVE IInv
  OBVIOUS
<1>1. InvocationTypes
  BY NamesAssumption DEF Init, InvocationTypes
<1>2. RegistryRight
  <2>0. PICK n \in 0 .. MaxContracts : \E cs \in [1 .. n -> Contracts] :
          given = Append(cs, SystemContract)
    BY DEF Init
  <2>1. PICK cs \in [1 .. n -> Contracts] : given = Append(cs, SystemContract)
    BY <2>0
  <2>2. /\ cs \in Seq(Contracts \cup {SystemContract})
        /\ SystemContract \in Contracts \cup {SystemContract}
    BY <2>1
  <2>3. given \in Seq(Contracts \cup {SystemContract}) /\ Len(given) > 0
    BY <2>1, <2>2
  <2>4. added = 0 /\ default = NoName /\ building = "contracts" /\ DOMAIN contracts = {}
    BY DEF Init
  <2> QED
    BY <2>3, <2>4 DEF RegistryRight
<1>3. ASSUME NEW i \in Inv PROVE InvocationRight(i)
  <2>1. /\ pc[i] = "idle" /\ method[i] = NoName /\ ran[i] = <<>> /\ context[i] = NoContext
    BY <1>3 DEF Init
  <2> QED
    BY <2>1 DEF InvocationRight, Started, Progress, Answered, StopsAtError, SeesResult, Parts
<1> QED
  BY <1>1, <1>2, <1>3 DEF IInv

(***************************************************************************)
(* The registry.                                                           *)
(***************************************************************************)

\* What lies in a position of given.
LEMMA GivenFacts ==
  ASSUME RegistryRight, NEW k \in 1 .. Len(given)
  PROVE  /\ given[k].name # NoName
         /\ Callable(given[k]) \subseteq Fn \ {NoName}
         /\ \A f \in Callable(given[k]) : given[k].methods[f].returns \in Annotations
         /\ \A h \in {given[k].before, given[k].after, given[k].unknown} :
              h # NoHook => h.returns \in Annotations
<1>1. given[k] \in Contracts \cup {SystemContract}
  BY DEF RegistryRight
<1>2. CASE given[k] \in Contracts
  <2> DEFINE c == given[k]
  <2>1. /\ c.name # NoName /\ DOMAIN c.methods \subseteq Fn \ {NoName}
        /\ \A f \in DOMAIN c.methods : c.methods[f] \in Methods
        /\ {c.before, c.after, c.unknown} \subseteq Hooks \cup {NoHook}
    BY <1>2, ContractsAssumption
  <2> QED
    BY <2>1 DEF Callable, Methods, Hooks
<1>3. CASE given[k] = SystemContract
  <2>1. /\ given[k].name = SystemName /\ DOMAIN given[k].methods = {"get_metadata"}
        /\ given[k].methods["get_metadata"].returns = "value"
        /\ given[k].before = NoHook /\ given[k].after = NoHook /\ given[k].unknown = NoHook
    BY <1>3 DEF SystemContract
  <2> QED
    BY <2>1, NamesAssumption DEF Callable, Annotations
<1> QED
  BY <1>1, <1>2, <1>3

\* What an invocation finds in the registry.
LEMMA ContractFacts ==
  ASSUME RegistryRight, NEW name \in DOMAIN contracts
  PROVE  LET c == contracts[name] IN
         /\ DOMAIN c.functions \subseteq Fn \ {NoName}
         /\ \A f \in DOMAIN c.functions : c.functions[f].returns \in Annotations
         /\ \A h \in {c.before, c.after, c.unknown} : h # NoHook => h.returns \in Annotations
<1>1. PICK k \in 1 .. added : name = given[k].name
  BY DEF RegistryRight
<1>2. k \in 1 .. Len(given) /\ contracts[name] = Registered(given[k])
  BY <1>1 DEF RegistryRight
<1>3. /\ contracts[name].functions = [f \in Callable(given[k]) |-> given[k].methods[f]]
      /\ contracts[name].before = given[k].before /\ contracts[name].after = given[k].after
      /\ contracts[name].unknown = given[k].unknown
  BY <1>2 DEF Registered
<1> QED
  BY <1>2, <1>3, GivenFacts

\* The registry stays right when the contracts stay as they are.
LEMMA RegistryKept ==
  ASSUME RegistryRight, UNCHANGED <<given, added, contracts, default>>,
         building' = "done" => added = Len(given)
  PROVE  RegistryRight'
<1>1. /\ given' = given /\ added' = added /\ contracts' = contracts /\ default' = default
      /\ building' = "done" => added' = Len(given')
  OBVIOUS
<1>2. \A k \in 1 .. added' : contracts'[given'[k].name] = Registered(given'[k])
  BY <1>1, Zenon DEF RegistryRight
<1>3. \A j, k \in 1 .. added' : given'[j].name = given'[k].name => j = k
  BY <1>1 DEF RegistryRight
<1>4. DOMAIN contracts' = {given'[k].name : k \in 1 .. added'}
  BY <1>1 DEF RegistryRight
<1>5. default' = IF added' = 0 THEN NoName ELSE given'[1].name
  BY <1>1 DEF RegistryRight
<1>6. /\ given' \in Seq(Contracts \cup {SystemContract})
      /\ added' \in Nat /\ added' <= Len(given') /\ Len(given') > 0
  BY <1>1 DEF RegistryRight
<1> QED
  BY <1>1, <1>2, <1>3, <1>4, <1>5, <1>6 DEF RegistryRight, Registered, Callable

\* Every step keeps the registry right.
LEMMA RegistryStep == IInv /\ [Next]_vars => RegistryRight'
<1> SUFFICES ASSUME IInv, [Next]_vars PROVE RegistryRight'
  OBVIOUS
<1>0. RegistryRight
  BY DEF IInv
<1>1. CASE AddContract
  <2> DEFINE c == Upcoming
  <2>1. /\ building = "contracts" /\ added < Len(given) /\ building' = building
        /\ added' = added + 1 /\ given' = given /\ c = given[added']
        /\ c.name \notin DOMAIN contracts /\ default' = Default(c)
        /\ DOMAIN contracts' = DOMAIN contracts \cup {c.name}
        /\ contracts'[c.name] = Registered(c)
        /\ \A n \in DOMAIN contracts : contracts'[n] = contracts[n]
    BY <1>1 DEF AddContract, Addable, Upcoming, Registered
  <2>2. /\ added \in Nat /\ added' \in Nat /\ added' <= Len(given) /\ Len(given) \in Nat
        /\ \A k \in 1 .. added' : k \in 1 .. added \/ k = added'
        /\ \A k \in 1 .. added : k \in 1 .. added' /\ k # added'
        /\ added' \in 1 .. added' /\ added' \in 1 .. Len(given)
    BY <1>0, <2>1 DEF RegistryRight
  <2>3. \A k \in 1 .. added : given[k].name \in DOMAIN contracts
    BY <1>0 DEF RegistryRight
  <2>4. DOMAIN contracts' = {given[k].name : k \in 1 .. added'}
    BY <1>0, <2>1, <2>2 DEF RegistryRight
  <2>5. \A k \in 1 .. added' : contracts'[given[k].name] = Registered(given[k])
    BY <1>0, <2>1, <2>2, <2>3 DEF RegistryRight
  <2>6. \A j, k \in 1 .. added' : given[j].name = given[k].name => j = k
    BY <1>0, <2>1, <2>2, <2>3 DEF RegistryRight
  <2>7. default' = given[1].name
    <3>1. CASE added = 0
      BY <1>0, <2>1, <3>1 DEF RegistryRight, Default
    <3>2. CASE added # 0
      <4>1. 1 \in 1 .. Len(given)
        BY <2>2, <3>2
      <4>2. default = given[1].name /\ given[1].name # NoName
        BY <1>0, <3>2, <4>1, GivenFacts DEF RegistryRight
      <4> QED
        BY <2>1, <4>2 DEF Default
    <3> QED
      BY <3>1, <3>2
  <2>8. \A k \in 1 .. added' : Registered(given[k])' = Registered(given[k])
    BY <2>1 DEF Registered, Callable
  <2> QED
    BY <1>0, <2>1, <2>2, <2>4, <2>5, <2>6, <2>7, <2>8 DEF RegistryRight
<1>2. CASE AddContractFails \/ AugmentMetadata \/ AugmentMetadataFails
  <2>1. /\ UNCHANGED <<given, added, contracts, default>>
        /\ building' = "done" => added = Len(given)
    BY <1>2 DEF AddContractFails, AugmentMetadata, AugmentMetadataFails
  <2> QED
    BY <1>0, <2>1, RegistryKept
<1>3. CASE UNCHANGED build
  BY <1>0, <1>3, RegistryKept DEF build, RegistryRight
<1> QED
  BY <1>1, <1>2, <1>3
  DEF Next, vars, Invoke, InvokeRefused, InitWithoutFunction, BeforeEnds, CallEnds, AfterEnds

(***************************************************************************)
(* Facts about one invocation.                                             *)
(***************************************************************************)

\* The contract stays the same while chaincode runs.
LEMMA CalledKept ==
  ASSUME NEW i \in Inv, NEW q, UNCHANGED <<contracts, default>>, request'[i] = q
  PROVE  /\ CalledContract(i)' = contracts[ContractOf(q)]
         /\ ContractOf(request[i])' = ContractOf(q)
         /\ HasBefore(i)' = IF contracts[ContractOf(q)].before = NoHook THEN 0 ELSE 1
         /\ HasAfter(i)' = IF contracts[ContractOf(q)].after = NoHook THEN 0 ELSE 1
BY DEF CalledContract, ContractOf, HasBefore, HasAfter

\* An invocation that a step leaves alone.
LEMMA LeftAlone ==
  ASSUME NEW i \in Inv, InvocationRight(i), UNCHANGED build,
         /\ pc'[i] = pc[i] /\ request'[i] = request[i] /\ method'[i] = method[i]
         /\ context'[i] = context[i] /\ stub'[i] = stub[i] /\ passed'[i] = passed[i]
         /\ ran'[i] = ran[i] /\ response'[i] = response[i]
  PROVE  InvocationRight(i)'
<1>1. building' = building /\ contracts' = contracts /\ default' = default
  BY DEF build
<1>2. /\ CalledContract(i)' = CalledContract(i) /\ ContractOf(request[i])' = ContractOf(request[i])
      /\ HasBefore(i)' = HasBefore(i) /\ HasAfter(i)' = HasAfter(i)
      /\ Main(i)' = Main(i) /\ Entered(i)' = Entered(i)
  BY <1>1 DEF CalledContract, ContractOf, HasBefore, HasAfter, Main, Entered
<1>3. Started(i)'
  BY <1>1, <1>2 DEF InvocationRight, Started
<1>4. NoErrors(i)' = NoErrors(i) /\ Order(i)' = Order(i)
  BY <1>2 DEF NoErrors, Order
<1>5. Progress(i)' /\ Answered(i)'
  BY <1>2, <1>4 DEF InvocationRight, Progress, Answered
<1>6. StopsAtError(i)' /\ SeesResult(i)'
  BY <1>2 DEF InvocationRight, StopsAtError, SeesResult
<1> QED
  BY <1>3, <1>5, <1>6 DEF InvocationRight

\* What the dispatch finds: nothing, or the unknown-transaction hook, or a method.
LEMMA DispatchCases ==
  ASSUME NEW i \in Inv, NEW q, Dispatch(i, q)
  PROVE  LET c == contracts[ContractOf(q)] IN
         \/ Respond(i, "error")
         \/ c.unknown # NoHook /\ Enter(i, "unknown", NoName, NoValue)
         \/ \E f \in DOMAIN c.functions : /\ f # NoName /\ f \in {q.fn, Upper[q.fn]}
                                          /\ Enter(i, "call", f, NoValue)
<1> DEFINE c == contracts[ContractOf(q)]
           f == FunctionOf(DOMAIN c.functions, q.fn)
<1>1. f # NoName => f \in DOMAIN c.functions /\ f \in {q.fn, Upper[q.fn]}
  BY DEF FunctionOf
<1>2. \/ Respond(i, "error")
      \/ c.unknown # NoHook /\ Enter(i, "unknown", NoName, NoValue)
      \/ f # NoName /\ Enter(i, "call", f, NoValue)
  BY DEF Dispatch
<1> QED
  BY <1>1, <1>2

\* The invocation that is dispatched, its hook having run without error.
LEMMA DispatchRight ==
  ASSUME InvocationTypes, NEW i \in Inv, NEW q, UNCHANGED build, building = "done",
         ContractOf(q) \in DOMAIN contracts, Dispatch(i, q),
         request'[i] = q, context'[i] = i, stub'[i] = i, method[i] = NoName,
         ran'[i] \in Seq(Entry), Len(ran'[i]) = HasBefore(i)',
         Len(ran'[i]) > 0 => ran'[i][1].part = "before",
         \A k \in DOMAIN ran'[i] : ~Failed(ran'[i][k])
  PROVE  InvocationRight(i)'
<1> DEFINE c == contracts[ContractOf(q)]
<1>0. building' = building /\ contracts' = contracts /\ default' = default
  BY DEF build
<1>1. /\ CalledContract(i)' = c /\ ContractOf(request[i])' = ContractOf(q)
      /\ HasBefore(i)' \in {0, 1} /\ HasAfter(i)' \in {0, 1} /\ Entered(i)'
  BY <1>0, CalledKept, InvAssumption DEF Entered
<1>2. StopsAtError(i)' /\ NoErrors(i)' /\ Order(i)'
  BY <1>1 DEF StopsAtError, NoErrors, Order
<1>3. CASE Respond(i, "error")
  <2>1. pc'[i] = "done" /\ response'[i] = "error" /\ method'[i] = NoName
    BY <1>3 DEF Respond, InvocationTypes
  <2>2. Started(i)'
    BY <1>0, <1>1, <2>1 DEF Started, Parts
  <2>3. Progress(i)' /\ SeesResult(i)'
    BY <2>1 DEF Progress, SeesResult, Parts
  <2>4. Answered(i)'
    BY <1>1, <1>2, <2>1 DEF Answered
  <2> QED
    BY <1>2, <2>2, <2>3, <2>4 DEF InvocationRight
<1>4. CASE c.unknown # NoHook /\ Enter(i, "unknown", NoName, NoValue)
  <2>1. pc'[i] = "unknown" /\ method'[i] = NoName
    BY <1>4 DEF Enter, InvocationTypes
  <2>2. Started(i)'
    BY <1>0, <1>1, <2>1 DEF Started, Parts
  <2>3. Progress(i)' /\ SeesResult(i)' /\ Answered(i)'
    BY <1>1, <1>2, <1>4, <2>1 DEF Progress, SeesResult, Answered, Parts, Main
  <2> QED
    BY <1>2, <2>2, <2>3 DEF InvocationRight
<1>5. ASSUME NEW f \in DOMAIN c.functions, f # NoName, f \in {q.fn, Upper[q.fn]},
             Enter(i, "call", f, NoValue)
      PROVE  InvocationRight(i)'
  <2>1. pc'[i] = "call" /\ method'[i] = f
    BY <1>5 DEF Enter, InvocationTypes
  <2>2. Started(i)'
    BY <1>0, <1>1, <1>5, <2>1 DEF Started, Parts
  <2>3. Progress(i)' /\ SeesResult(i)' /\ Answered(i)'
    BY <1>1, <1>2, <1>5, <2>1 DEF Progress, SeesResult, Answered, Parts, Main
  <2> QED
    BY <1>2, <2>2, <2>3 DEF InvocationRight
<1> QED
  BY <1>3, <1>4, <1>5, DispatchCases

\* What a part's end adds to the history.
LEMMA RanFacts ==
  ASSUME InvocationTypes, NEW i \in Inv, NEW returns \in Annotations, NEW end \in Ends,
         end \in EndsOf(returns), pc[i] \in Parts, Ran(i, returns, end)
  PROVE  LET e == [part |-> pc[i], returns |-> returns, checked |-> Checked(i), end |-> end]
             n == Len(ran[i]) IN
         /\ e \in Entry /\ n \in Nat /\ ran \in [Inv -> Seq(Entry)]
         /\ ran' \in [Inv -> Seq(Entry)]
         /\ Len(ran'[i]) = n + 1 /\ ran'[i][n + 1] = e
         /\ DOMAIN ran[i] = 1 .. n /\ DOMAIN ran'[i] = 1 .. n + 1
         /\ \A k \in 1 .. n : ran'[i][k] = ran[i][k]
         /\ \A j \in Inv \ {i} : ran'[j] = ran[j]
<1> DEFINE e == [part |-> pc[i], returns |-> returns, checked |-> Checked(i), end |-> end]
<1>1. e \in Entry
  BY DEF Entry, Checked
<1>2. /\ ran \in [Inv -> Seq(Entry)] /\ ran' = [ran EXCEPT ![i] = Append(@, e)]
  BY DEF InvocationTypes, Ran
<1>3. ran'[i] = Append(ran[i], e) /\ \A j \in Inv \ {i} : ran'[j] = ran[j]
  BY <1>2
<1>4. ran[i] \in Seq(Entry)
  BY <1>2
<1>5. Append(ran[i], e) \in Seq(Entry)
  BY <1>1, <1>4
<1>6. ran' \in [Inv -> Seq(Entry)]
  BY <1>2, <1>5
<1>7. /\ Len(ran[i]) \in Nat /\ Len(ran'[i]) = Len(ran[i]) + 1 /\ ran'[i][Len(ran[i]) + 1] = e
      /\ DOMAIN ran[i] = 1 .. Len(ran[i]) /\ DOMAIN ran'[i] = 1 .. Len(ran[i]) + 1
      /\ \A k \in 1 .. Len(ran[i]) : ran'[i][k] = ran[i][k]
  BY <1>1, <1>3, <1>4
<1> QED
  BY <1>1, <1>2, <1>3, <1>6, <1>7

\* The annotations that have a success type.
LEMMA Successes ==
  ASSUME NEW returns \in Annotations
  PROVE  ReturnsSuccess(returns) <=> returns \notin {"nothing", "exception"}
<1>1. OptionalPairs = {"optionalPair", "optionalOfDict", "optionalOfClass", "optionalOfAny"}
  BY DEF OptionalPairs, Accepted
<1> QED
  BY <1>1 DEF Annotations, ReturnsSuccess

\* A part has failed as its caller saw it.
LEMMA FailsIsFailed ==
  ASSUME NEW part, NEW returns, NEW checked, NEW end
  PROVE  LET e == [part |-> part, returns |-> returns, checked |-> checked, end |-> end] IN
         Fails(returns, checked, end) <=> Failed(e)
BY DEF Failed

\* A part ends and with it the invocation, with the given answer.
LEMMA EndsRight ==
  ASSUME IInv, NEW i \in Inv, NEW returns \in Annotations, NEW end \in Ends, NEW status,
         end \in EndsOf(returns), pc[i] \in Parts, Ran(i, returns, end), Respond(i, status),
         UNCHANGED <<build, request, context, stub>>,
         status \in {"ok", "error"},
         status = "ok" <=> /\ ~Fails(returns, Checked(i), end)
                           /\ Len(ran[i]) = HasBefore(i) + HasAfter(i)
  PROVE  InvocationRight(i)'
<1> DEFINE e == [part |-> pc[i], returns |-> returns, checked |-> Checked(i), end |-> end]
           n == Len(ran[i])
<1>0. /\ InvocationTypes /\ Started(i) /\ Progress(i) /\ NoErrors(i) /\ Order(i)
      /\ building' = building /\ contracts' = contracts /\ default' = default
  BY DEF IInv, InvocationRight, build, Progress
<1>1. /\ pc'[i] = "done" /\ response'[i] = status /\ method'[i] = method[i]
      /\ request'[i] = request[i] /\ context'[i] = i /\ context[i] = i
  BY <1>0 DEF Respond, InvocationTypes, Started
<1>2. /\ CalledContract(i)' = CalledContract(i) /\ ContractOf(request[i])' = ContractOf(request[i])
      /\ HasBefore(i)' = HasBefore(i) /\ HasAfter(i)' = HasAfter(i) /\ Main(i)' = Main(i)
      /\ HasBefore(i) \in {0, 1} /\ HasAfter(i) \in {0, 1} /\ Entered(i) /\ Entered(i)'
  BY <1>0, <1>1, InvAssumption
  DEF CalledContract, ContractOf, HasBefore, HasAfter, Main, Entered
<1>3. /\ n \in Nat /\ Len(ran'[i]) = n + 1 /\ ran'[i][n + 1] = e
      /\ DOMAIN ran[i] = 1 .. n /\ DOMAIN ran'[i] = 1 .. n + 1
      /\ \A k \in 1 .. n : ran'[i][k] = ran[i][k]
  BY <1>0, RanFacts
<1>4. \A k \in 1 .. n : ~Failed(ran'[i][k])
  BY <1>0, <1>3 DEF NoErrors
<1>5. Failed(ran'[i][n + 1]) <=> Fails(returns, Checked(i), end)
  BY <1>3, FailsIsFailed
<1>6. Started(i)'
  BY <1>0, <1>1, <1>2 DEF Started, Parts
<1>7. Progress(i)' /\ SeesResult(i)'
  BY <1>1 DEF Progress, SeesResult, Parts
<1>8. StopsAtError(i)'
  BY <1>1, <1>3, <1>4 DEF StopsAtError
<1>9. Order(i)' /\ n <= HasBefore(i) + HasAfter(i)
  <2>1. CASE pc[i] = "before"
    BY <1>0, <1>2, <1>3, <2>1 DEF Order, Progress
  <2>2. CASE pc[i] \in {"call", "unknown"}
    BY <1>0, <1>2, <1>3, <2>2 DEF Order, Progress
  <2>3. CASE pc[i] = "after"
    <3>0. HasAfter(i) = 1 /\ n = HasBefore(i) + 1
      BY <1>0, <2>3 DEF Progress
    <3>1. n + 1 = HasBefore(i) + 2 /\ e.part = "after"
      BY <1>2, <2>3, <3>0
    <3>2. ran'[i][HasBefore(i) + 2].part = "after"
      BY <1>3, <3>1
    <3>3. /\ HasBefore(i) = 1 => ran'[i][1].part = "before"
          /\ ran'[i][HasBefore(i) + 1].part = Main(i)
      <4>1. /\ HasBefore(i) = 1 => ran[i][1].part = "before"
            /\ ran[i][HasBefore(i) + 1].part = Main(i)
        BY <1>0, <1>2, <3>0 DEF Order
      <4>2. HasBefore(i) + 1 \in 1 .. n /\ 1 \in 1 .. n
        BY <1>2, <3>0
      <4> QED
        BY <1>3, <4>1, <4>2
    <3> HIDE DEF n, e
    <3> QED
      BY <1>2, <1>3, <3>0, <3>1, <3>2, <3>3 DEF Order
  <2> QED
    BY <2>1, <2>2, <2>3 DEF Parts
<1>10. NoErrors(i)' <=> ~Fails(returns, Checked(i), end)
  BY <1>3, <1>4, <1>5 DEF NoErrors
<1>11. Answered(i)'
  BY <1>1, <1>2, <1>3, <1>9, <1>10 DEF Answered
<1> QED
  BY <1>6, <1>7, <1>8, <1>11 DEF InvocationRight

(***************************************************************************)
(* The actions.                                                            *)
(***************************************************************************)

\* An invocation that begins is right.
LEMMA InvokeRight ==
  ASSUME IInv, NEW i \in Inv, NEW q \in Requests, Invoke(i, q)
  PROVE  InvocationRight(i)'
<1>0. /\ InvocationTypes /\ Started(i) /\ pc[i] = "idle" /\ building = "done" /\ UNCHANGED build
      /\ ContractOf(q) \in DOMAIN contracts
  BY DEF IInv, InvocationRight, Invoke
<1>1. /\ request'[i] = q /\ context'[i] = i /\ stub'[i] = i /\ method[i] = NoName
      /\ ran' = ran /\ ran'[i] = <<>> /\ building' = building /\ contracts' = contracts
      /\ default' = default
  BY <1>0 DEF Invoke, NewContext, InvocationTypes, Started, build
<1>2. /\ ran'[i] \in Seq(Entry) /\ Len(ran'[i]) = 0 /\ \A k \in DOMAIN ran'[i] : FALSE
  BY <1>0, <1>1 DEF InvocationTypes
<1>3. /\ CalledContract(i)' = contracts[ContractOf(q)] /\ ContractOf(request[i])' = ContractOf(q)
      /\ HasBefore(i)' = IF contracts[ContractOf(q)].before = NoHook THEN 0 ELSE 1
  BY <1>1, CalledKept
<1>4. CASE contracts[ContractOf(q)].before = NoHook
  <2>1. Dispatch(i, q) /\ Len(ran'[i]) = HasBefore(i)'
    BY <1>2, <1>3, <1>4 DEF Invoke
  <2>2. /\ Len(ran'[i]) > 0 => ran'[i][1].part = "before"
        /\ \A k \in DOMAIN ran'[i] : ~Failed(ran'[i][k])
    BY <1>2
  <2> QED
    BY <1>0, <1>1, <1>2, <2>1, <2>2, DispatchRight, Zenon
<1>5. CASE contracts[ContractOf(q)].before # NoHook
  <2>1. pc'[i] = "before" /\ method'[i] = NoName
    BY <1>0, <1>5 DEF Invoke, Enter, InvocationTypes
  <2>2. Started(i)'
    BY <1>0, <1>1, <1>3, <2>1 DEF Started, Parts
  <2>3. NoErrors(i)' /\ Order(i)' /\ StopsAtError(i)'
    BY <1>2, <1>3 DEF NoErrors, Order, StopsAtError, HasBefore
  <2>4. Progress(i)' /\ Answered(i)' /\ SeesResult(i)'
    BY <1>2, <1>3, <1>5, <2>1, <2>3 DEF Progress, Answered, SeesResult, Parts
  <2> QED
    BY <2>2, <2>3, <2>4 DEF InvocationRight
<1> QED
  BY <1>4, <1>5

\* An invocation that is answered without a contract.
LEMMA AnsweredAtOnce ==
  ASSUME IInv, NEW i \in Inv, NEW status, pc[i] = "idle", building = "done",
         Respond(i, status), UNCHANGED <<build, context, stub, result, ran>>
  PROVE  InvocationRight(i)'
<1>0. InvocationTypes /\ Started(i) /\ building' = building
  BY DEF IInv, InvocationRight, build
<1>1. /\ pc'[i] = "done" /\ method'[i] = NoName /\ ran'[i] = <<>> /\ context'[i] = NoContext
  BY <1>0 DEF Respond, InvocationTypes, Started
<1>2. Started(i)'
  BY <1>0, <1>1 DEF Started, Parts, Entered
<1> QED
  BY <1>1, <1>2 DEF InvocationRight, Progress, Answered, StopsAtError, SeesResult, Parts, Entered

\* So it is after the before hook,
LEMMA BeforeEndsRight ==
  ASSUME IInv, NEW i \in Inv, NEW end \in Ends, BeforeEnds(i, end)
  PROVE  InvocationRight(i)'
<1> DEFINE hook == CalledContract(i).before
           q == request[i]
<1>0. /\ InvocationTypes /\ RegistryRight /\ Started(i) /\ Progress(i) /\ pc[i] = "before"
      /\ end \in EndsOf(hook.returns) /\ Ran(i, hook.returns, end) /\ UNCHANGED <<build, request, context, stub>>
      /\ building = "done" /\ ContractOf(q) \in DOMAIN contracts /\ context[i] = i /\ stub[i] = i
  BY DEF IInv, InvocationRight, BeforeEnds, Started, Parts
<1>1. HasBefore(i) = 1 /\ Len(ran[i]) = 0 /\ method[i] = NoName /\ hook # NoHook
  BY <1>0 DEF Progress, HasBefore
<1>2. hook.returns \in Annotations /\ pc[i] \in Parts
  BY <1>0, <1>1, ContractFacts DEF CalledContract, Parts
<1>3. CASE Fails(hook.returns, Checked(i), end)
  <2>1. Respond(i, "error")
    BY <1>3 DEF BeforeEnds
  <2> QED
    BY <1>0, <1>2, <1>3, <2>1, EndsRight
<1>4. CASE ~Fails(hook.returns, Checked(i), end)
  <2>1. Dispatch(i, q)
    BY <1>4 DEF BeforeEnds
  <2>2. /\ ran' \in [Inv -> Seq(Entry)] /\ Len(ran'[i]) = 1
        /\ ran'[i][1] = [part |-> "before", returns |-> hook.returns, checked |-> Checked(i), end |-> end]
        /\ DOMAIN ran'[i] = 1 .. 1
    <3> DEFINE r == hook.returns
    <3>1. r \in Annotations /\ end \in EndsOf(r) /\ Ran(i, r, end)
      BY <1>0, <1>2
    <3> HIDE DEF r
    <3>2. /\ ran' \in [Inv -> Seq(Entry)] /\ Len(ran'[i]) = 0 + 1
          /\ ran'[i][0 + 1] = [part |-> pc[i], returns |-> r, checked |-> Checked(i), end |-> end]
          /\ DOMAIN ran'[i] = 1 .. 0 + 1
      BY <1>0, <1>1, <1>2, <3>1, RanFacts
    <3> QED
      BY <1>0, <3>2 DEF r
  <2>3. /\ ran'[i] \in Seq(Entry) /\ ran'[i][1].part = "before"
        /\ \A k \in DOMAIN ran'[i] : ~Failed(ran'[i][k])
    BY <1>4, <2>2, FailsIsFailed
  <2>4. request'[i] = q /\ context'[i] = i /\ stub'[i] = i /\ HasBefore(i)' = 1
    BY <1>0, <1>1 DEF HasBefore, CalledContract, ContractOf, build
  <2>5. Len(ran'[i]) = HasBefore(i)'
    BY <2>2, <2>4
  <2> QED
    BY <1>0, <1>1, <2>1, <2>3, <2>4, <2>5, DispatchRight
<1> QED
  BY <1>3, <1>4

\* What the part that ends was declared to return.
Declared(i) == IF pc[i] = "call" THEN CalledContract(i).functions[method[i]].returns
                                 ELSE CalledContract(i).unknown.returns

\* A method, or the unknown transaction, that runs: what it declares, and what has run.
LEMMA CallFacts ==
  ASSUME IInv, NEW i \in Inv, pc[i] \in {"call", "unknown"}
  PROVE  /\ Declared(i) \in Annotations /\ pc[i] \in Parts
         /\ Len(ran[i]) = HasBefore(i) /\ pc[i] = Main(i)
<1>0. /\ RegistryRight /\ Started(i) /\ Progress(i) /\ pc[i] \in Parts
      /\ ContractOf(request[i]) \in DOMAIN contracts
  BY DEF IInv, InvocationRight, Started, Parts
<1>1. CASE pc[i] = "call"
  <2>1. method[i] \in DOMAIN CalledContract(i).functions
    BY <1>0, <1>1 DEF Progress, Started, Main
  <2> QED
    BY <1>0, <1>1, <2>1, ContractFacts DEF Declared, CalledContract, Progress
<1>2. CASE pc[i] = "unknown"
  BY <1>0, <1>2, ContractFacts DEF Declared, CalledContract, Progress
<1> QED
  BY <1>1, <1>2

\* after the transaction function,
LEMMA CallEndsRight ==
  ASSUME IInv, NEW i \in Inv, NEW end \in Ends, CallEnds(i, end)
  PROVE  InvocationRight(i)'
<1> DEFINE returns == Declared(i)
           failed == Fails(returns, Checked(i), end)
           value == IF Yields(returns, end) /\ ~failed THEN stub[context[i]] ELSE NoValue
           e == [part |-> pc[i], returns |-> returns, checked |-> Checked(i), end |-> end]
           n == Len(ran[i])
<1>0. /\ InvocationTypes /\ RegistryRight /\ Started(i) /\ Progress(i) /\ NoErrors(i) /\ Order(i)
      /\ pc[i] \in {"call", "unknown"}
      /\ end \in EndsOf(returns) /\ Ran(i, returns, end) /\ UNCHANGED <<build, request, context, stub>>
      /\ building = "done" /\ context[i] = i /\ stub[i] = i
  BY DEF IInv, InvocationRight, CallEnds, Started, Progress, Parts, Declared
<1>1. /\ returns \in Annotations /\ pc[i] \in Parts /\ n = HasBefore(i) /\ pc[i] = Main(i)
  BY <1>0, CallFacts
<1>2. CASE SkipsAfter(i, failed)
  <2>1. Respond(i, IF failed THEN "error" ELSE "ok")
    BY <1>2 DEF CallEnds, Declared
  <2>2. ~failed => HasAfter(i) = 0
    BY <1>2 DEF SkipsAfter, HasAfter
  <2>3. HasBefore(i) \in {0, 1}
    BY DEF HasBefore
  <2>4. CASE failed
    <3>1. Respond(i, "error")
      BY <2>1, <2>4
    <3> QED
      BY <1>0, <1>1, <2>4, <3>1, EndsRight
  <2>5. CASE ~failed
    <3>1. Respond(i, "ok") /\ n = HasBefore(i) + HasAfter(i)
      BY <1>1, <2>1, <2>2, <2>3, <2>5
    <3> QED
      BY <1>0, <1>1, <2>5, <3>1, EndsRight
  <2> QED
    BY <2>4, <2>5
<1>3. CASE ~SkipsAfter(i, failed)
  <2>0. ~failed /\ HasAfter(i) = 1
    BY <1>3 DEF SkipsAfter, HasAfter
  <2>1. Enter(i, "after", method[i], AfterData(i, value))
    BY <1>3 DEF CallEnds, Declared
  <2>2. /\ pc'[i] = "after" /\ method'[i] = method[i] /\ passed'[i] = AfterData(i, value)
        /\ request'[i] = request[i] /\ context'[i] = i /\ stub'[i] = i
        /\ building' = building /\ contracts' = contracts /\ default' = default
    BY <1>0, <2>1 DEF Enter, InvocationTypes, build
  <2>3. /\ CalledContract(i)' = CalledContract(i)
        /\ ContractOf(request[i])' = ContractOf(request[i])
        /\ HasBefore(i)' = HasBefore(i) /\ HasAfter(i)' = HasAfter(i) /\ Main(i)' = Main(i)
        /\ HasBefore(i) \in {0, 1}
    BY <2>2 DEF CalledContract, ContractOf, HasBefore, HasAfter, Main
  <2>4. /\ n \in Nat /\ Len(ran'[i]) = n + 1 /\ ran'[i][n + 1] = e
        /\ DOMAIN ran[i] = 1 .. n /\ DOMAIN ran'[i] = 1 .. n + 1
        /\ \A k \in 1 .. n : ran'[i][k] = ran[i][k]
    BY <1>0, <1>1, RanFacts
  <2>5. Started(i)'
    BY <1>0, <2>2, <2>3 DEF Started, Parts, Entered
  <2>6. ~Failed(ran'[i][n + 1])
    BY <2>0, <2>4, FailsIsFailed
  <2>7. NoErrors(i)' /\ StopsAtError(i)'
    <3>1. \A k \in 1 .. n : ~Failed(ran'[i][k])
      BY <1>0, <2>4 DEF NoErrors
    <3>2. \A k \in DOMAIN ran'[i] : k \in 1 .. n \/ k = n + 1
      BY <2>4
    <3> HIDE DEF n
    <3>3. \A k \in DOMAIN ran'[i] : ~Failed(ran'[i][k])
      BY <2>6, <3>1, <3>2
    <3> QED
      BY <3>3, Zenon DEF NoErrors, StopsAtError
  <2>8. Order(i)'
    BY <1>0, <1>1, <2>3, <2>4 DEF Order
  <2>9. Progress(i)' /\ Answered(i)'
    BY <1>1, <2>0, <2>2, <2>3, <2>4, <2>7, <2>8 DEF Progress, Answered, Parts
  <2>10. ASSUME CalledContract(i).after.params = 1
         PROVE  passed'[i] = IF end # "none" /\ returns \notin {"nothing", "exception"}
                               THEN i ELSE Undefined
    <3>1. i # NoValue
      BY InvAssumption
    <3>2. value = IF end # "none" /\ returns \notin {"nothing", "exception"} THEN i ELSE NoValue
      <4>1. ReturnsSuccess(returns) <=> returns \notin {"nothing", "exception"}
        BY <1>1, Successes
      <4>2. ReturnsSuccess(returns) => end \in {"none", "value", "returnsError"}
        BY <2>0 DEF Fails, Ends
      <4> HIDE DEF returns
      <4> QED
        BY <1>0, <2>0, <4>1, <4>2 DEF Yields
    <3> HIDE DEF value
    <3> QED
      BY <2>2, <2>10, <3>1, <3>2 DEF AfterData
  <2>11. SeesResult(i)'
    BY <2>2, <2>3, <2>4, <2>10 DEF SeesResult
  <2> QED
    BY <2>5, <2>7, <2>9, <2>11 DEF InvocationRight
<1> QED
  BY <1>2, <1>3

\* and after the after hook.
LEMMA AfterEndsRight ==
  ASSUME IInv, NEW i \in Inv, NEW end \in Ends, AfterEnds(i, end)
  PROVE  InvocationRight(i)'
<1> DEFINE hook == CalledContract(i).after
<1>0. /\ RegistryRight /\ Progress(i) /\ pc[i] = "after" /\ pc[i] \in Parts
      /\ end \in EndsOf(hook.returns) /\ Ran(i, hook.returns, end) /\ UNCHANGED <<build, request, context, stub>>
      /\ Respond(i, AfterStatus(Fails(hook.returns, Checked(i), end)))
      /\ ContractOf(request[i]) \in DOMAIN contracts
  BY DEF IInv, InvocationRight, AfterEnds, Started, Parts
<1>1. HasAfter(i) = 1 /\ Len(ran[i]) = HasBefore(i) + 1 /\ hook # NoHook
  BY <1>0 DEF Progress, HasAfter
<1>2. hook.returns \in Annotations
  BY <1>0, <1>1, ContractFacts DEF CalledContract
<1> DEFINE status == AfterStatus(Fails(hook.returns, Checked(i), end))
<1>3. status \in {"ok", "error"} /\ (status = "ok" <=> ~Fails(hook.returns, Checked(i), end))
  BY DEF AfterStatus
<1>4. Len(ran[i]) = HasBefore(i) + HasAfter(i)
  BY <1>1
<1>5. Respond(i, status)
  BY <1>0
<1> HIDE DEF status
<1> QED
  BY <1>0, <1>2, <1>3, <1>4, <1>5, EndsRight

(***************************************************************************)
(* Types, and the invocations that a step leaves alone.                    *)
(***************************************************************************)

\* How a step moves the control of i, and of no other invocation.
Moves(i) ==
  /\ pc' \in [Inv -> Parts \cup {"idle", "done"}] /\ method' \in [Inv -> Fn]
  /\ passed' \in [Inv -> Inv \cup {NoValue, Undefined}]
  /\ response' \in [Inv -> {"none", "ok", "error"}]
  /\ \A j \in Inv \ {i} : /\ pc'[j] = pc[j] /\ method'[j] = method[j]
                          /\ passed'[j] = passed[j] /\ response'[j] = response[j]

\* An answer moves the control of one invocation,
LEMMA RespondMoves ==
  ASSUME InvocationTypes, NEW i \in Inv, NEW status \in {"ok", "error"}, Respond(i, status)
  PROVE  Moves(i)
BY DEF InvocationTypes, Respond, Moves

\* as does the start of a part,
LEMMA EnterMoves ==
  ASSUME InvocationTypes, NEW i \in Inv, NEW part \in Parts, NEW f \in Fn,
         NEW data \in Inv \cup {NoValue, Undefined}, Enter(i, part, f, data)
  PROVE  Moves(i)
BY DEF InvocationTypes, Enter, Moves

\* and the dispatch.
LEMMA DispatchMoves ==
  ASSUME InvocationTypes, RegistryRight, NEW i \in Inv, NEW q,
         ContractOf(q) \in DOMAIN contracts, Dispatch(i, q)
  PROVE  Moves(i)
<1> DEFINE c == contracts[ContractOf(q)]
<1>0. /\ {"unknown", "call"} \subseteq Parts /\ NoName \in Fn
      /\ NoValue \in Inv \cup {NoValue, Undefined}
  BY NamesAssumption DEF Parts
<1>1. CASE Respond(i, "error")
  BY <1>1, RespondMoves
<1>2. CASE Enter(i, "unknown", NoName, NoValue)
  BY <1>0, <1>2, EnterMoves
<1>3. ASSUME NEW f \in DOMAIN c.functions, Enter(i, "call", f, NoValue) PROVE Moves(i)
  <2>1. f \in Fn
    BY <1>3, ContractFacts
  <2> QED
    BY <1>0, <1>3, <2>1, EnterMoves
<1> QED
  BY <1>1, <1>2, <1>3, DispatchCases

\* A step of i leaves the rest of what InvocationTypes says.
Keeps(i) ==
  /\ InvocationTypes' /\ UNCHANGED build
  /\ \A j \in Inv \ {i} :
       /\ pc'[j] = pc[j] /\ request'[j] = request[j] /\ method'[j] = method[j]
       /\ context'[j] = context[j] /\ stub'[j] = stub[j] /\ passed'[j] = passed[j]
       /\ ran'[j] = ran[j] /\ response'[j] = response[j]

\* The start of an invocation is a step of it alone.
LEMMA InvokeKeeps ==
  ASSUME IInv, NEW i \in Inv, NEW q \in Requests, Invoke(i, q)
  PROVE  Keeps(i)
<1>0. InvocationTypes /\ RegistryRight /\ ContractOf(q) \in DOMAIN contracts
  BY DEF IInv, Invoke
<1>1. Moves(i)
  <2>1. CASE contracts[ContractOf(q)].before = NoHook
    BY <1>0, <2>1, DispatchMoves DEF Invoke
  <2>2. CASE contracts[ContractOf(q)].before # NoHook
    <3>1. Enter(i, "before", NoName, NoValue) /\ "before" \in Parts /\ NoName \in Fn
          /\ NoValue \in Inv \cup {NoValue, Undefined}
      BY <2>2, NamesAssumption DEF Invoke, Parts
    <3> QED
      BY <1>0, <3>1, EnterMoves
  <2> QED
    BY <2>1, <2>2
<1>2. /\ request' = [request EXCEPT ![i] = q] /\ context' = [context EXCEPT ![i] = i]
      /\ stub' = [stub EXCEPT ![i] = i] /\ UNCHANGED <<build, result, ran>>
  BY DEF Invoke, NewContext
<1> QED
  BY <1>0, <1>1, <1>2 DEF Moves, Keeps, InvocationTypes

\* An invocation that is answered at once takes a step of it alone.
LEMMA AnsweredAtOnceKeeps ==
  ASSUME IInv, NEW i \in Inv,
         \/ \E q \in Requests : InvokeRefused(i, q)
         \/ InitWithoutFunction(i)
  PROVE  Keeps(i)
<1>0. InvocationTypes
  BY DEF IInv
<1>1. PICK status \in {"ok", "error"} :
        /\ Respond(i, status) /\ UNCHANGED <<build, context, stub, result, ran>>
        /\ request' = request \/ \E q \in Requests : request' = [request EXCEPT ![i] = q]
  BY DEF InvokeRefused, InitWithoutFunction
<1>2. Moves(i)
  BY <1>0, <1>1, RespondMoves
<1> QED
  BY <1>0, <1>1, <1>2 DEF Moves, Keeps, InvocationTypes

\* The end of a part is a step of its invocation alone.
LEMMA PartKeeps ==
  ASSUME IInv, NEW i \in Inv, NEW end \in Ends, NEW returns \in Annotations, pc[i] \in Parts,
         end \in EndsOf(returns), Ran(i, returns, end), Moves(i), UNCHANGED <<build, request, context, stub>>,
         result' \in [Inv -> Inv \cup {NoValue}]
  PROVE  Keeps(i)
<1>0. InvocationTypes
  BY DEF IInv
<1>1. ran' \in [Inv -> Seq(Entry)] /\ \A j \in Inv \ {i} : ran'[j] = ran[j]
  BY <1>0, RanFacts
<1> QED
  BY <1>0, <1>1 DEF Moves, Keeps, InvocationTypes

\* So is the end of the before hook,
LEMMA BeforeKeeps ==
  ASSUME IInv, NEW i \in Inv, NEW end \in Ends, BeforeEnds(i, end)
  PROVE  Keeps(i)
<1> DEFINE hook == CalledContract(i).before
<1>0. /\ InvocationTypes /\ RegistryRight /\ pc[i] \in Parts /\ hook # NoHook
      /\ ContractOf(request[i]) \in DOMAIN contracts
  BY DEF IInv, InvocationRight, BeforeEnds, Started, Progress, HasBefore, Parts
<1>1. hook.returns \in Annotations
  BY <1>0, ContractFacts DEF CalledContract
<1>2. Moves(i)
  BY <1>0, RespondMoves, DispatchMoves DEF BeforeEnds
<1>3. end \in EndsOf(hook.returns) /\ Ran(i, hook.returns, end) /\ UNCHANGED <<build, request, context, stub>> /\ result' = result
  BY DEF BeforeEnds
<1>4. result' \in [Inv -> Inv \cup {NoValue}]
  BY <1>0, <1>3 DEF InvocationTypes
<1> QED
  BY <1>0, <1>1, <1>2, <1>3, <1>4, PartKeeps

\* of the transaction function, or of the unknown transaction,
LEMMA CallKeeps ==
  ASSUME IInv, NEW i \in Inv, NEW end \in Ends, CallEnds(i, end)
  PROVE  Keeps(i)
<1> DEFINE failed == Fails(Declared(i), Checked(i), end)
           value == IF Yields(Declared(i), end) /\ ~failed THEN stub[context[i]] ELSE NoValue
<1>0. /\ InvocationTypes /\ pc[i] \in {"call", "unknown"} /\ context[i] = i /\ stub[i] = i
  BY DEF IInv, InvocationRight, CallEnds, Started, Parts
<1>1. Declared(i) \in Annotations /\ pc[i] \in Parts
  BY <1>0, CallFacts
<1>2. value \in Inv \cup {NoValue}
  BY <1>0
<1>3. /\ end \in EndsOf(Declared(i)) /\ Ran(i, Declared(i), end) /\ UNCHANGED <<build, request, context, stub>>
      /\ result' = [result EXCEPT ![i] = value]
      /\ \/ Respond(i, IF failed THEN "error" ELSE "ok")
         \/ Enter(i, "after", method[i], AfterData(i, value))
  BY DEF CallEnds, Declared
<1> HIDE DEF value, failed
<1>4. Moves(i)
  <2>1. (IF failed THEN "error" ELSE "ok") \in {"ok", "error"}
    OBVIOUS
  <2>2. CASE Respond(i, IF failed THEN "error" ELSE "ok")
    BY <1>0, <2>1, <2>2, RespondMoves
  <2>3. CASE Enter(i, "after", method[i], AfterData(i, value))
    <3>1. /\ AfterData(i, value) \in Inv \cup {NoValue, Undefined}
          /\ method[i] \in Fn /\ "after" \in Parts
      BY <1>0, <1>2 DEF AfterData, InvocationTypes, Parts
    <3> QED
      BY <1>0, <2>3, <3>1, EnterMoves
  <2> QED
    BY <1>3, <2>2, <2>3
<1>5. result' \in [Inv -> Inv \cup {NoValue}]
  BY <1>0, <1>2, <1>3 DEF InvocationTypes
<1> QED
  BY <1>1, <1>3, <1>4, <1>5, PartKeeps

\* and of the after hook.
LEMMA AfterKeeps ==
  ASSUME IInv, NEW i \in Inv, NEW end \in Ends, AfterEnds(i, end)
  PROVE  Keeps(i)
<1> DEFINE hook == CalledContract(i).after
<1>0. /\ InvocationTypes /\ RegistryRight /\ pc[i] \in Parts /\ hook # NoHook
      /\ ContractOf(request[i]) \in DOMAIN contracts
  BY DEF IInv, InvocationRight, AfterEnds, Started, Progress, HasAfter, Parts
<1>1. hook.returns \in Annotations
  BY <1>0, ContractFacts DEF CalledContract
<1>2. Moves(i)
  BY <1>0, RespondMoves DEF AfterEnds, AfterStatus
<1>3. end \in EndsOf(hook.returns) /\ Ran(i, hook.returns, end) /\ UNCHANGED <<build, request, context, stub>> /\ result' = result
  BY DEF AfterEnds
<1>4. result' \in [Inv -> Inv \cup {NoValue}]
  BY <1>0, <1>3 DEF InvocationTypes
<1> QED
  BY <1>0, <1>1, <1>2, <1>3, <1>4, PartKeeps

(***************************************************************************)
(* The theorems.                                                           *)
(***************************************************************************)

\* While the chaincode is built no invocation has begun.
LEMMA BuildRight ==
  ASSUME IInv, building = "contracts",
         UNCHANGED <<pc, request, method, context, stub, result, passed, ran, response>>
  PROVE  InvocationTypes' /\ \A i \in Inv : InvocationRight(i)'
<1>1. InvocationTypes'
  BY DEF IInv, InvocationTypes
<1>2. ASSUME NEW i \in Inv PROVE InvocationRight(i)'
  <2>1. pc'[i] = "idle" /\ method'[i] = NoName /\ ran'[i] = <<>> /\ context'[i] = NoContext
    BY DEF IInv, InvocationRight, Started
  <2> QED
    BY <2>1 DEF InvocationRight, Started, Progress, Answered, StopsAtError, SeesResult, Parts
<1> QED
  BY <1>1, <1>2

\* Every step of an invocation keeps the invariant.
LEMMA InvocationStep ==
  ASSUME IInv, NEW i \in Inv, Keeps(i), InvocationRight(i)'
  PROVE  InvocationTypes' /\ \A j \in Inv : InvocationRight(j)'
<1>1. ASSUME NEW j \in Inv, j # i PROVE InvocationRight(j)'
  <2>1. InvocationRight(j) /\ j \in Inv \ {i}
    BY <1>1 DEF IInv
  <2> QED
    BY <1>1, <2>1, LeftAlone DEF Keeps
<1> QED
  BY <1>1 DEF Keeps

\* Every step keeps the invariant.
LEMMA NextIInv == IInv /\ [Next]_vars => IInv'
<1> SUFFICES ASSUME IInv, [Next]_vars PROVE IInv'
  OBVIOUS
<1> DEFINE Right == InvocationTypes' /\ \A j \in Inv : InvocationRight(j)'
<1>1. RegistryRight'
  BY RegistryStep
<1>2. CASE AddContract \/ AddContractFails \/ AugmentMetadata \/ AugmentMetadataFails
  <2>1. /\ building = "contracts"
        /\ UNCHANGED <<pc, request, method, context, stub, result, passed, ran, response>>
    BY <1>2 DEF AddContract, AddContractFails, AugmentMetadata, AugmentMetadataFails
  <2> QED
    BY <1>1, <2>1, BuildRight DEF IInv
<1>3. ASSUME NEW i \in Inv, NEW q \in Requests, Invoke(i, q) PROVE Right
  BY <1>3, InvokeRight, InvokeKeeps, InvocationStep
<1>4. ASSUME NEW i \in Inv, NEW q \in Requests, InvokeRefused(i, q) PROVE Right
  <2>1. InvocationRight(i)'
    BY <1>4, AnsweredAtOnce DEF InvokeRefused
  <2> QED
    BY <1>4, <2>1, AnsweredAtOnceKeeps, InvocationStep
<1>5. ASSUME NEW i \in Inv, InitWithoutFunction(i) PROVE Right
  <2>1. InvocationRight(i)'
    BY <1>5, AnsweredAtOnce DEF InitWithoutFunction
  <2> QED
    BY <1>5, <2>1, AnsweredAtOnceKeeps, InvocationStep
<1>6. ASSUME NEW i \in Inv, NEW end \in Ends, BeforeEnds(i, end) PROVE Right
  BY <1>6, BeforeEndsRight, BeforeKeeps, InvocationStep
<1>7. ASSUME NEW i \in Inv, NEW end \in Ends, CallEnds(i, end) PROVE Right
  BY <1>7, CallEndsRight, CallKeeps, InvocationStep
<1>8. ASSUME NEW i \in Inv, NEW end \in Ends, AfterEnds(i, end) PROVE Right
  BY <1>8, AfterEndsRight, AfterKeeps, InvocationStep
<1>9. ASSUME UNCHANGED vars PROVE Right
  <2>1. /\ UNCHANGED build
        /\ UNCHANGED <<pc, request, method, context, stub, result, passed, ran, response>>
    BY <1>9 DEF vars
  <2>2. InvocationTypes'
    BY <2>1 DEF IInv, InvocationTypes
  <2>3. ASSUME NEW i \in Inv PROVE InvocationRight(i)'
    BY <2>1, LeftAlone DEF IInv
  <2> QED
    BY <2>2, <2>3
<1> HIDE DEF Right
<1>10. Right \/ (AddContract \/ AddContractFails \/ AugmentMetadata \/ AugmentMetadataFails)
  BY <1>3, <1>4, <1>5, <1>6, <1>7, <1>8, <1>9 DEF Next
<1> QED
  BY <1>1, <1>2, <1>10 DEF IInv, Right

\* IInv holds in every reachable state.
THEOREM Invariance == Spec => []IInv
<1> QED
  BY InitIInv, NextIInv, PTL DEF Spec

\* Every invocation works with its own context, whatever the others do meanwhile.
THEOREM OwnContextHolds == Spec => []OwnContext
<1>1. IInv => OwnContext
  BY DEF IInv, InvocationRight, Started, OwnContext
<1> QED
  BY <1>1, Invariance, PTL

\* A contract is found again by its name, by no name if it is the first.
LEMMA GivenAsIsCalled ==
  ASSUME RegistryRight, NEW i \in Inv, ContractOf(request[i]) \in DOMAIN contracts,
         building = "done"
  PROVE  \E k \in 1 .. added : /\ GivenAs(request[i].contract) = given[k]
                               /\ CalledContract(i) = Registered(given[k])
<1> DEFINE name == request[i].contract
<1>0. added = Len(given) /\ added > 0 /\ added \in Nat /\ default = given[1].name
      /\ DOMAIN given = 1 .. added
  BY DEF RegistryRight
<1>1. CASE name = NoName
  <2>1. 1 \in 1 .. added /\ GivenAs(name) = given[1] /\ ContractOf(request[i]) = given[1].name
    BY <1>0, <1>1 DEF GivenAs, ContractOf
  <2>2. CalledContract(i) = Registered(given[1])
    BY <2>1 DEF RegistryRight, CalledContract
  <2> QED
    BY <2>1, <2>2
<1>2. CASE name # NoName
  <2>1. ContractOf(request[i]) = name
    BY <1>2 DEF ContractOf
  <2>2. PICK k \in 1 .. added : given[k].name = name
    BY <2>1 DEF RegistryRight
  <2>3. \A c \in {given[j] : j \in DOMAIN given} : c.name = name => c = given[k]
    BY <1>0, <2>2 DEF RegistryRight
  <2>4. given[k] \in {given[j] : j \in DOMAIN given}
    BY <1>0
  <2>5. GivenAs(name) = given[k]
    BY <1>2, <2>2, <2>3, <2>4 DEF GivenAs
  <2>6. CalledContract(i) = Registered(given[k])
    BY <2>1, <2>2 DEF RegistryRight, CalledContract
  <2> QED
    BY <2>5, <2>6
<1> QED
  BY <1>1, <1>2

\* What runs is a method of the contract asked for, under the name asked for, and
\* not an ignored one.
THEOREM RoutedRightHolds == Spec => []RoutedRight
<1>1. IInv => RoutedRight
  <2> SUFFICES ASSUME IInv, NEW i \in Inv, method[i] # NoName
               PROVE  LET c == GivenAs(request[i].contract) IN
                      /\ method[i] \in DOMAIN c.methods \ c.ignored
                      /\ method[i] \in {request[i].fn, Upper[request[i].fn]}
    BY DEF RoutedRight
  <2>1. /\ RegistryRight /\ building = "done" /\ ContractOf(request[i]) \in DOMAIN contracts
        /\ method[i] \in DOMAIN CalledContract(i).functions
        /\ method[i] \in {request[i].fn, Upper[request[i].fn]}
    BY DEF IInv, InvocationRight, Started, Parts
  <2>2. PICK k \in 1 .. added : /\ GivenAs(request[i].contract) = given[k]
                               /\ CalledContract(i) = Registered(given[k])
    BY <2>1, GivenAsIsCalled
  <2>3. DOMAIN CalledContract(i).functions = Callable(given[k])
    BY <2>2 DEF Registered
  <2> QED
    BY <2>1, <2>2, <2>3 DEF Callable
<1> QED
  BY <1>1, Invariance, PTL

\* Of an end that is not misread, a failure is an error and an error a failure.
LEMMA FailedIsErred ==
  ASSUME NEW e \in Entry, ~Misread(e)
  PROVE  Failed(e) <=> Erred(e)
<1>1. e.returns \in Annotations /\ e.end \in Ends /\ e.end \in EndsOf(e.returns)
  BY DEF Entry
<1>2. e.returns \in {"nothing", "value"} => e.end # "returnsError"
  BY <1>1 DEF EndsOf
<1>3. e.returns \in OptionalPairs => e.end \notin {"value", "returnsError"}
  BY DEF Misread
<1>4. e.returns = "exception" => e.end # "returnsError"
  BY DEF Misread
<1> QED
  BY <1>1, <1>2, <1>3, <1>4
  DEF Failed, Fails, Erred, ReturnsSuccess, Annotations, OptionalPairs, Accepted, Ends

\* What fails without a schema has erred.
LEMMA FailedMeansErred ==
  ASSUME NEW e \in Entry, ~e.checked, Failed(e)
  PROVE  Erred(e)
<1>1. e.returns \in Annotations /\ e.end \in Ends
  BY DEF Entry
<1> QED
  BY <1>1 DEF Failed, Fails, Erred, ReturnsSuccess, OptionalPairs, Accepted

\* Nothing of an invocation runs after a part that erred, unless it is misread.
THEOREM NothingAfterErrorHolds == Spec => []NothingAfterError
<1>1. IInv => NothingAfterError
  <2> SUFFICES ASSUME IInv, NEW i \in Inv, NEW k \in DOMAIN ran[i],
                      Erred(ran[i][k]), ~Misread(ran[i][k])
               PROVE  k = Len(ran[i]) /\ pc[i] = "done"
    BY DEF NothingAfterError
  <2>1. ran[i] \in Seq(Entry) /\ StopsAtError(i)
    BY DEF IInv, InvocationTypes, InvocationRight
  <2>2. ran[i][k] \in Entry
    BY <2>1
  <2>3. Failed(ran[i][k])
    BY <2>2, FailedIsErred
  <2> QED
    BY <2>1, <2>3 DEF StopsAtError
<1> QED
  BY <1>1, Invariance, PTL

\* The after hook gets what its own invocation's method returned.
THEOREM AfterSeesResultHolds == Spec => []AfterSeesResult
<1>1. IInv => AfterSeesResult
  BY DEF IInv, InvocationRight, SeesResult, AfterSeesResult
<1> QED
  BY <1>1, Invariance, PTL

\* The sequence of a hook or none, a part, and a hook or none.
LEMMA ThreeParts ==
  ASSUME NEW m \in Parts, NEW b \in {0, 1}, NEW a \in {0, 1}
  PROVE  LET s == (IF b = 1 THEN <<"before">> ELSE <<>>) \o <<m>>
                    \o (IF a = 1 THEN <<"after">> ELSE <<>>) IN
         /\ s \in Seq(Parts) /\ Len(s) = b + 1 + a /\ s[b + 1] = m
         /\ b = 1 => s[1] = "before"
         /\ a = 1 => s[b + 2] = "after"
<1> DEFINE p == IF b = 1 THEN <<"before">> ELSE <<>>
           q == <<m>>
           r == IF a = 1 THEN <<"after">> ELSE <<>>
<1>1. /\ p \in Seq(Parts) /\ Len(p) = b /\ (b = 1 => p[1] = "before")
      /\ r \in Seq(Parts) /\ Len(r) = a /\ (a = 1 => r[1] = "after")
      /\ q \in Seq(Parts) /\ Len(q) = 1 /\ q[1] = m
  <2>1. <<"before">> \in Seq(Parts) /\ <<"after">> \in Seq(Parts) /\ <<>> \in Seq(Parts)
    BY DEF Parts
  <2>2. q \in Seq(Parts) /\ Len(q) = 1 /\ q[1] = m
    OBVIOUS
  <2>3. p \in Seq(Parts) /\ Len(p) = b /\ (b = 1 => p[1] = "before")
    <3>1. CASE b = 1
      BY <2>1, <3>1
    <3>2. CASE b = 0
      BY <2>1, <3>2
    <3> QED
      BY <3>1, <3>2
  <2>4. r \in Seq(Parts) /\ Len(r) = a /\ (a = 1 => r[1] = "after")
    <3>1. CASE a = 1
      BY <2>1, <3>1
    <3>2. CASE a = 0
      BY <2>1, <3>2
    <3> QED
      BY <3>1, <3>2
  <2> QED
    BY <2>2, <2>3, <2>4
<1> HIDE DEF p, q, r
<1>2. /\ p \o q \in Seq(Parts) /\ Len(p \o q) = b + 1
      /\ \A k \in 1 .. b + 1 : (p \o q)[k] = IF k <= b THEN p[k] ELSE q[k - b]
  <2>1. /\ p \o q \in Seq(Parts) /\ Len(p \o q) = Len(p) + Len(q)
        /\ \A k \in 1 .. Len(p) + Len(q) :
             (p \o q)[k] = IF k <= Len(p) THEN p[k] ELSE q[k - Len(p)]
    BY <1>1, ConcatProperties, Zenon
  <2> QED
    BY <1>1, <2>1
<1>3. b + 1 \in Nat /\ b + 1 + a \in Nat /\ b + 1 \in 1 .. b + 1
  OBVIOUS
<1> DEFINE pq == p \o q
<1> HIDE DEF pq
<1>4. pq \in Seq(Parts) /\ Len(pq) = b + 1
  BY <1>2 DEF pq
<1>5. /\ pq \o r \in Seq(Parts) /\ Len(pq \o r) = b + 1 + a
      /\ \A k \in 1 .. b + 1 + a :
           (pq \o r)[k] = IF k <= b + 1 THEN pq[k] ELSE r[k - (b + 1)]
  BY <1>1, <1>3, <1>4, ConcatProperties
<1>6. pq[b + 1] = m /\ (b = 1 => pq[1] = "before")
  BY <1>1, <1>2 DEF pq
<1>7. (pq \o r)[b + 1] = m /\ (b = 1 => (pq \o r)[1] = "before")
  BY <1>3, <1>5, <1>6
<1>8. a = 1 => (pq \o r)[b + 2] = "after"
  BY <1>1, <1>5
<1> QED
  BY <1>5, <1>7, <1>8 DEF p, q, r, pq

\* Success is answered exactly if every hook and the method have run without error,
\* whatever the contracts: but for invocations in which an end is misread.
THEOREM AnswerTellsAllHolds == Spec => []AnswerTellsAll
<1>0. IInv => \A i \in Inv : \A k \in DOMAIN ran[i] :
                ~Misread(ran[i][k]) => (Failed(ran[i][k]) <=> Erred(ran[i][k]))
  <2> SUFFICES ASSUME IInv, NEW i \in Inv, NEW k \in DOMAIN ran[i]
               PROVE  ~Misread(ran[i][k]) => (Failed(ran[i][k]) <=> Erred(ran[i][k]))
    OBVIOUS
  <2>1. ran[i] \in Seq(Entry)
    BY DEF IInv, InvocationTypes
  <2>2. ran[i][k] \in Entry
    BY <2>1
  <2> QED
    BY <2>2, FailedIsErred
<1>1. IInv => AnswerTellsAll
  <2> SUFFICES ASSUME IInv, NEW i \in Inv, pc[i] = "done", Entered(i),
                      \A k \in DOMAIN ran[i] : ~Misread(ran[i][k])
               PROVE  LET c == CalledContract(i)
                          hook(part, h) == IF h = NoHook THEN <<>> ELSE <<part>>
                      IN response[i] = "ok" <=>
                           /\ PartsRun(i) = hook("before", c.before) \o <<Main(i)>>
                                              \o hook("after", c.after)
                           /\ NoErrors(i)
    BY <1>0, Zenon DEF AnswerTellsAll, Main, NoErrors
  <2> DEFINE c == CalledContract(i)
             hook(part, h) == IF h = NoHook THEN <<>> ELSE <<part>>
             all == hook("before", c.before) \o <<Main(i)>> \o hook("after", c.after)
             n == Len(ran[i])
             m == HasBefore(i) + 1 + HasAfter(i)
  <2>1. /\ ran[i] \in Seq(Entry) /\ Answered(i) /\ Order(i)
    BY DEF IInv, InvocationTypes, InvocationRight, Answered
  <2>2. /\ n \in Nat /\ DOMAIN ran[i] = 1 .. n /\ PartsRun(i) \in Seq(Parts)
        /\ Len(PartsRun(i)) = n /\ \A k \in 1 .. n : PartsRun(i)[k] = ran[i][k].part
    <3>1. n \in Nat /\ DOMAIN ran[i] = 1 .. n /\ \A k \in 1 .. n : ran[i][k] \in Entry
      BY <2>1
    <3>2. PartsRun(i) = [k \in 1 .. n |-> ran[i][k].part]
      BY <3>1 DEF PartsRun
    <3>3. \A k \in 1 .. n : ran[i][k].part \in Parts
      BY <3>1 DEF Entry
    <3>4. PartsRun(i) \in [1 .. n -> Parts]
      BY <3>2, <3>3
    <3> QED
      BY <3>1, <3>2, <3>4
  <2>3. /\ all \in Seq(Parts) /\ Len(all) = m /\ m \in Nat /\ all[HasBefore(i) + 1] = Main(i)
        /\ HasBefore(i) = 1 => all[1] = "before"
        /\ HasAfter(i) = 1 => all[HasBefore(i) + 2] = "after"
        /\ HasBefore(i) \in {0, 1} /\ HasAfter(i) \in {0, 1}
    <3>1. Main(i) \in Parts
      BY DEF Main, Parts
    <3>2. /\ hook("before", c.before) = IF HasBefore(i) = 1 THEN <<"before">> ELSE <<>>
          /\ hook("after", c.after) = IF HasAfter(i) = 1 THEN <<"after">> ELSE <<>>
          /\ HasBefore(i) \in {0, 1} /\ HasAfter(i) \in {0, 1}
      BY DEF HasBefore, HasAfter
    <3> HIDE DEF hook
    <3>3. all = (IF HasBefore(i) = 1 THEN <<"before">> ELSE <<>>) \o <<Main(i)>>
                  \o (IF HasAfter(i) = 1 THEN <<"after">> ELSE <<>>)
      BY <3>2, Zenon
    <3> HIDE DEF all
    <3> DEFINE s == (IF HasBefore(i) = 1 THEN <<"before">> ELSE <<>>) \o <<Main(i)>>
                      \o (IF HasAfter(i) = 1 THEN <<"after">> ELSE <<>>)
    <3>4. /\ s \in Seq(Parts) /\ Len(s) = m /\ s[HasBefore(i) + 1] = Main(i)
          /\ HasBefore(i) = 1 => s[1] = "before"
          /\ HasAfter(i) = 1 => s[HasBefore(i) + 2] = "after"
      BY <3>1, <3>2, ThreeParts, Zenon
    <3>5. all = s
      BY <3>3
    <3> HIDE DEF s
    <3> QED
      BY <3>2, <3>4, <3>5
  <2> HIDE DEF all
  <2>4. n = m => PartsRun(i) = all
    <3> SUFFICES ASSUME n = m PROVE PartsRun(i) = all
      OBVIOUS
    <3>1. \A k \in 1 .. m : PartsRun(i)[k] = all[k]
      BY <2>1, <2>2, <2>3 DEF Order
    <3> QED
      BY <2>2, <2>3, <3>1
  <2>5. PartsRun(i) = all => n = m
    BY <2>2, <2>3
  <2> QED
    BY <2>1, <2>4, <2>5 DEF Answered, all
<1> QED
  BY <1>1, Invariance, PTL

(***************************************************************************)
(* The metadata: their inductive invariant.                                *)
(***************************************************************************)

\* What each contract gives to the registry, and what the merge makes of it and of
\* the file.
Merged ==
  /\ building \in {"contracts", "done", "raised"}
  /\ files \in FilePairs
  /\ \A k \in 1 .. added : Callable(given[k]) # {}
  /\ building # "done" => metadata = <<>> /\ components = {}
  /\ building = "done" =>
       LET none == ReadFile = NoFile IN
       /\ none \/ ReadFile.text = "valid"
       /\ metadata = AppendContracts(IF none THEN <<>> ELSE ReadFile.contracts,
                                     ReflectedContracts)
       /\ components = AppendComponents(IF none THEN {} ELSE ReadFile.components,
                                        ReflectedComponents)

\* What an invocation asks for: the method, and whether its arguments fit.
Wanted(i) == FunctionOf(DOMAIN CalledContract(i).functions, request[i].fn)
Fits(i) == ArgsFit(request[i], CalledContract(i).functions[Wanted(i)],
                   SchemaOf(ContractOf(request[i]), request[i].fn))
HookErred(i) == /\ Len(ran[i]) = 1 /\ ran[i][1].part = "before"
                /\ ~ran[i][1].checked /\ Failed(ran[i][1])

\* A method that was entered is the one asked for, and its arguments fit; an
\* invocation ends without it only if it or its arguments do not, or the hook erred;
\* what was entered and has ended has run, and nothing else has.
Dispatched(i) ==
  /\ method[i] # NoName => method[i] = Wanted(i) /\ Fits(i)
  /\ pc[i] \in {"call", "unknown", "after"} \/ (pc[i] = "done" /\ Entered(i)) =>
       \/ method[i] = Wanted(i)
       \/ pc[i] = "done" /\ Len(ran[i]) = HasBefore(i) /\ (~Fits(i) \/ HookErred(i))
  /\ pc[i] = "done" /\ method[i] # NoName => Len(ran[i]) > HasBefore(i)
  /\ pc[i] = "done" /\ ~Entered(i) => ran[i] = <<>>

FullInv == IInv /\ Merged /\ \A i \in Inv : Dispatched(i)

(***************************************************************************)
(* The order of names.                                                     *)
(***************************************************************************)

\* A set of names, sorted, is all of its names.
LEMMA SortedNames ==
  ASSUME NEW names \in SUBSET Fn, IsFiniteSet(names)
  PROVE  /\ \A k \in 1 .. Cardinality(names) : Sorted(names, k) \in names
         /\ \A f \in names : \E k \in 1 .. Cardinality(names) : Sorted(names, k) = f
         /\ Cardinality(names) \in Nat
<1> DEFINE n == Cardinality(names)
           Upto(f) == {g \in names : Rank[g] <= Rank[f]}
           pos == [f \in names |-> Cardinality(Upto(f))]
<1>1. n \in Nat /\ \A f \in names : Rank[f] \in Nat
  BY FS_CardinalityType, NamesAssumption
<1>2. ASSUME NEW f \in names
      PROVE  IsFiniteSet(Upto(f)) /\ pos[f] \in 1 .. n
  <2>1. Upto(f) \in SUBSET names /\ f \in Upto(f)
    BY <1>1
  <2>2. IsFiniteSet(Upto(f)) /\ Cardinality(Upto(f)) <= n
    BY <2>1, FS_Subset
  <2>3. Cardinality(Upto(f)) \in Nat /\ Cardinality(Upto(f)) # 0
    BY <2>1, <2>2, FS_CardinalityType, FS_EmptySet
  <2> QED
    BY <2>2, <2>3, <1>1
<1>3. ASSUME NEW f \in names, NEW g \in names, Rank[f] < Rank[g]
      PROVE  pos[f] # pos[g]
  <2>1. Upto(f) \in SUBSET Upto(g) /\ g \in Upto(g) /\ g \notin Upto(f)
    BY <1>1, <1>3
  <2>2. IsFiniteSet(Upto(g))
    BY <1>2
  <2>3. Cardinality(Upto(g)) = Cardinality(Upto(f)) => Upto(g) = Upto(f)
    BY <2>1, <2>2, FS_Subset
  <2> QED
    BY <2>1, <2>3
<1>4. \A f, g \in names : pos[f] = pos[g] => f = g
  <2>1. ASSUME NEW f \in names, NEW g \in names, pos[f] = pos[g] PROVE f = g
    <3>1. ~(Rank[f] < Rank[g]) /\ ~(Rank[g] < Rank[f])
      BY <1>3, <2>1
    <3>2. Rank[f] = Rank[g]
      BY <1>1, <3>1
    <3> QED
      BY <3>2, NamesAssumption
  <2> QED
    BY <2>1
<1>5. pos \in Injection(names, 1 .. n)
  <2>1. pos \in [names -> 1 .. n]
    BY <1>2
  <2> HIDE DEF pos
  <2> QED
    BY <1>4, <2>1 DEF Injection, IsInjective
<1>6. IsFiniteSet(1 .. n) /\ Cardinality(1 .. n) = n
  BY <1>1, FS_Interval
<1>7. pos \in Surjection(names, 1 .. n)
  BY <1>5, <1>6, FS_Injection
<1>8. \A k \in 1 .. n : \E f \in names : pos[f] = k
  BY <1>7 DEF Surjection
<1>9. \A f \in names : Sorted(names, pos[f]) = f
  BY <1>4 DEF Sorted
<1> QED
  BY <1>1, <1>2, <1>8, <1>9

(***************************************************************************)
(* The steps.                                                              *)
(***************************************************************************)

\* The full invariant holds before the first contract registers.
LEMMA InitFullInv == Init => FullInv
<1> SUFFICES ASSUME Init PROVE FullInv
  OBVIOUS
<1>1. IInv
  BY InitIInv
<1>2. Merged
  BY DEF Init, Merged
<1>3. ASSUME NEW i \in Inv PROVE Dispatched(i)
  BY DEF Init, Dispatched
<1> QED
  BY <1>1, <1>2, <1>3 DEF FullInv

\* The metadata stay merged when nothing is registered.
LEMMA MergedKept ==
  ASSUME Merged, UNCHANGED build
  PROVE  Merged'
<1>1. /\ building' = building /\ files' = files /\ added' = added /\ given' = given
      /\ metadata' = metadata /\ components' = components /\ contracts' = contracts
  BY DEF build
<1>2. /\ ReadFile' = ReadFile /\ ReflectedContracts' = ReflectedContracts
      /\ ReflectedComponents' = ReflectedComponents
  BY <1>1 DEF ReadFile, ReflectedContracts, ReflectedComponents
<1>3. \A k \in 1 .. added' : Callable(given'[k]) # {}
  BY <1>1 DEF Merged
<1> QED
  BY <1>1, <1>2, <1>3 DEF Merged, AppendContracts, AppendComponents

\* Every step of the registration, or of an invocation, keeps Merged.
LEMMA MergedStep == IInv /\ Merged /\ [Next]_vars => Merged'
<1> SUFFICES ASSUME IInv, Merged, [Next]_vars PROVE Merged'
  OBVIOUS
<1>1. CASE AddContract
  <2>1. /\ building' = building /\ files' = files /\ given' = given /\ building = "contracts"
        /\ metadata' = metadata /\ components' = components /\ added' = added + 1
        /\ Callable(given[added']) # {}
    BY <1>1 DEF AddContract, Addable, Upcoming
  <2>2. added \in Nat
    BY DEF IInv, RegistryRight
  <2>3. \A k \in 1 .. added' : Callable(given'[k]) # {}
    BY <2>1, <2>2 DEF Merged
  <2> QED
    BY <2>1, <2>3 DEF Merged
<1>2. CASE AddContractFails \/ AugmentMetadataFails
  <2>1. /\ building' = "raised" /\ building = "contracts" /\ files' = files /\ given' = given
        /\ metadata' = metadata /\ components' = components /\ added' = added
    BY <1>2 DEF AddContractFails, AugmentMetadataFails
  <2>2. \A k \in 1 .. added' : Callable(given'[k]) # {}
    BY <2>1 DEF Merged
  <2> QED
    BY <2>1, <2>2 DEF Merged
<1>3. CASE AugmentMetadata
  <2>1. /\ building' = "done" /\ files' = files /\ given' = given /\ added' = added
        /\ contracts' = contracts /\ (ReadFile = NoFile \/ ReadFile.text = "valid")
        /\ metadata' = AppendContracts(IF ReadFile = NoFile THEN <<>> ELSE ReadFile.contracts,
                                       ReflectedContracts)
        /\ components' = AppendComponents(IF ReadFile = NoFile THEN {} ELSE ReadFile.components,
                                          ReflectedComponents)
    BY <1>3 DEF AugmentMetadata
  <2>2. /\ ReadFile' = ReadFile /\ ReflectedContracts' = ReflectedContracts
        /\ ReflectedComponents' = ReflectedComponents
    BY <2>1 DEF ReadFile, ReflectedContracts, ReflectedComponents
  <2>3. \A k \in 1 .. added' : Callable(given'[k]) # {}
    BY <2>1 DEF Merged
  <2> QED
    BY <2>1, <2>2, <2>3 DEF Merged, AppendContracts, AppendComponents
<1>4. CASE UNCHANGED build
  BY <1>4, MergedKept
<1> QED
  BY <1>1, <1>2, <1>3, <1>4
  DEF Next, vars, Invoke, InvokeRefused, InitWithoutFunction, BeforeEnds, CallEnds, AfterEnds

\* What an invocation asks for stays the same while chaincode runs.
LEMMA WantedKept ==
  ASSUME NEW i \in Inv, UNCHANGED build, request'[i] = request[i]
  PROVE  /\ Wanted(i)' = Wanted(i) /\ Fits(i)' = Fits(i)
         /\ HasBefore(i)' = HasBefore(i)
<1>1. /\ contracts' = contracts /\ default' = default /\ metadata' = metadata
      /\ components' = components
  BY DEF build
<1>2. /\ CalledContract(i)' = CalledContract(i) /\ ContractOf(request[i])' = ContractOf(request[i])
  BY <1>1 DEF CalledContract, ContractOf
<1>3. Wanted(i)' = Wanted(i)
  BY <1>2 DEF Wanted, FunctionOf
<1>4. SchemaOf(ContractOf(request[i]), request[i].fn)'
        = SchemaOf(ContractOf(request[i]), request[i].fn)
  BY <1>1, <1>2 DEF SchemaOf, TransactionsOf, NoSchema
<1>5. Fits(i)' = Fits(i)
  BY <1>1, <1>2, <1>3, <1>4 DEF Fits, ArgsFit
<1> QED
  BY <1>2, <1>3, <1>5 DEF HasBefore

\* An invocation whose dispatch a step leaves alone.
LEMMA DispatchedKept ==
  ASSUME NEW i \in Inv, Dispatched(i), UNCHANGED build,
         /\ pc'[i] = pc[i] /\ request'[i] = request[i] /\ method'[i] = method[i]
         /\ context'[i] = context[i] /\ ran'[i] = ran[i]
  PROVE  Dispatched(i)'
<1>1. Wanted(i)' = Wanted(i) /\ Fits(i)' = Fits(i) /\ HasBefore(i)' = HasBefore(i)
  BY WantedKept
<1>2. Entered(i)' = Entered(i) /\ HookErred(i)' = HookErred(i)
  BY DEF Entered, HookErred, Failed
<1> QED
  BY <1>1, <1>2 DEF Dispatched

\* The dispatch enters the method that is asked for if its arguments fit.
LEMMA DispatchedNow ==
  ASSUME InvocationTypes, NEW i \in Inv, NEW q, UNCHANGED build, request'[i] = q,
         context'[i] = i, method[i] = NoName, Dispatch(i, q), Len(ran'[i]) = HasBefore(i)'
  PROVE  Dispatched(i)'
<1> DEFINE c == contracts[ContractOf(q)]
           f == FunctionOf(DOMAIN c.functions, q.fn)
           fits == ArgsFit(q, c.functions[f], SchemaOf(ContractOf(q), q.fn))
<1>1. /\ contracts' = contracts /\ default' = default /\ metadata' = metadata
      /\ components' = components
  BY DEF build
<1>2. CalledContract(i)' = c /\ ContractOf(request[i])' = ContractOf(q)
  BY <1>1, CalledKept
<1>3. Wanted(i)' = f
  BY <1>2 DEF Wanted, FunctionOf
<1>4. SchemaOf(ContractOf(request[i]), request[i].fn)' = SchemaOf(ContractOf(q), q.fn)
  BY <1>1, <1>2 DEF SchemaOf, TransactionsOf, NoSchema
<1>5. Fits(i)' = fits
  BY <1>1, <1>2, <1>3, <1>4 DEF Fits, ArgsFit
<1>6. \/ Respond(i, "error") /\ (f = NoName \/ ~fits)
      \/ Enter(i, "unknown", NoName, NoValue) /\ f = NoName
      \/ Enter(i, "call", f, NoValue) /\ fits
  BY DEF Dispatch
<1> HIDE DEF f, fits
<1>7. \/ pc'[i] = "done" /\ method'[i] = NoName /\ (f = NoName \/ ~fits)
      \/ pc'[i] = "unknown" /\ method'[i] = NoName /\ f = NoName
      \/ pc'[i] = "call" /\ method'[i] = f /\ fits
  BY <1>6 DEF Respond, Enter, InvocationTypes
<1>8. Entered(i)'
  BY InvAssumption DEF Entered
<1> QED
  BY <1>3, <1>5, <1>7, <1>8 DEF Dispatched

\* A part ends after the dispatch.
LEMMA DispatchedThrough ==
  ASSUME IInv, NEW i \in Inv, NEW returns \in Annotations, NEW end \in Ends, Dispatched(i),
         end \in EndsOf(returns), pc[i] \in {"call", "unknown", "after"}, Ran(i, returns, end),
         UNCHANGED <<build, request, context>>, method'[i] = method[i]
  PROVE  Dispatched(i)'
<1>1. Wanted(i)' = Wanted(i) /\ Fits(i)' = Fits(i) /\ HasBefore(i)' = HasBefore(i)
  BY WantedKept
<1>2. InvocationTypes /\ Progress(i) /\ pc[i] \in Parts /\ Entered(i)'
  BY InvAssumption DEF IInv, InvocationRight, Started, Parts, Entered
<1>3. Len(ran'[i]) = Len(ran[i]) + 1 /\ Len(ran[i]) \in Nat
  BY <1>2, RanFacts
<1>4. Len(ran'[i]) > HasBefore(i) /\ HasBefore(i) \in {0, 1}
  BY <1>2, <1>3 DEF Progress, HasBefore
<1> QED
  BY <1>1, <1>2, <1>4 DEF Dispatched

\* Every step of an invocation keeps what it has been dispatched to.
LEMMA DispatchedStep ==
  ASSUME IInv, NEW i \in Inv, Dispatched(i),
         \/ \E q \in Requests : Invoke(i, q) \/ InvokeRefused(i, q)
         \/ InitWithoutFunction(i)
         \/ \E end \in Ends : BeforeEnds(i, end) \/ CallEnds(i, end) \/ AfterEnds(i, end)
  PROVE  Dispatched(i)'
<1>0. InvocationTypes /\ Started(i) /\ Progress(i) /\ RegistryRight
  BY DEF IInv, InvocationRight
<1>1. ASSUME NEW q \in Requests, Invoke(i, q) PROVE Dispatched(i)'
  <2>1. UNCHANGED build /\ request'[i] = q /\ context'[i] = i /\ method[i] = NoName
    BY <1>0, <1>1 DEF Invoke, NewContext, Started, InvocationTypes
  <2>2. CASE contracts[ContractOf(q)].before = NoHook
    <3>1. ran'[i] = <<>>
      BY <1>0, <1>1 DEF Invoke, Started
    <3>2. CalledContract(i)' = contracts[ContractOf(q)]
      BY <1>0, <2>1, CalledKept DEF build
    <3>3. Len(ran'[i]) = HasBefore(i)'
      BY <2>2, <3>1, <3>2 DEF HasBefore
    <3> QED
      BY <1>0, <1>1, <2>1, <2>2, <3>3, DispatchedNow DEF Invoke
  <2>3. CASE contracts[ContractOf(q)].before # NoHook
    <3>1. pc'[i] = "before" /\ method'[i] = NoName
      BY <1>0, <1>1, <2>3 DEF Invoke, Enter, InvocationTypes
    <3> QED
      BY <3>1 DEF Dispatched
  <2> QED
    BY <2>2, <2>3
<1>2. ASSUME \/ \E q \in Requests : InvokeRefused(i, q)
             \/ InitWithoutFunction(i)
      PROVE  Dispatched(i)'
  <2>1. /\ pc'[i] = "done" /\ method'[i] = NoName /\ context'[i] = NoContext
        /\ ran'[i] = <<>>
    BY <1>0, <1>2 DEF InvokeRefused, InitWithoutFunction, Respond, Started, InvocationTypes
  <2> QED
    BY <2>1 DEF Dispatched, Entered
<1>3. ASSUME NEW end \in Ends, BeforeEnds(i, end) PROVE Dispatched(i)'
  <2> DEFINE hook == CalledContract(i).before
  <2>1. /\ UNCHANGED build /\ request'[i] = request[i] /\ method[i] = NoName
        /\ context'[i] = i /\ Len(ran[i]) = 0 /\ hook # NoHook /\ pc[i] = "before" /\ pc[i] \in Parts
        /\ end \in EndsOf(hook.returns) /\ Ran(i, hook.returns, end) /\ ContractOf(request[i]) \in DOMAIN contracts
    BY <1>0, <1>3 DEF BeforeEnds, Progress, HasBefore, Started, Parts
  <2>0. HasBefore(i) = 1 /\ HasBefore(i)' = 1
    BY <2>1, WantedKept DEF HasBefore
  <2>4. /\ Len(ran'[i]) = 1
        /\ ran'[i][1] = [part |-> "before", returns |-> hook.returns,
                         checked |-> Checked(i), end |-> end]
    <3>2. hook.returns \in Annotations
      BY <1>0, <2>1, ContractFacts DEF CalledContract
    <3> DEFINE r == hook.returns
    <3>3. r \in Annotations /\ end \in EndsOf(r) /\ Ran(i, r, end)
      BY <2>1, <3>2
    <3> HIDE DEF r
    <3>4. /\ Len(ran'[i]) = 0 + 1
          /\ ran'[i][0 + 1] = [part |-> pc[i], returns |-> r, checked |-> Checked(i), end |-> end]
      BY <1>0, <2>1, <3>3, RanFacts
    <3> QED
      BY <2>1, <3>4 DEF r
  <2>2. CASE Fails(hook.returns, Checked(i), end)
    <3>1. pc'[i] = "done" /\ method'[i] = NoName /\ Entered(i)'
      BY <1>0, <1>3, <2>1, <2>2, InvAssumption
      DEF BeforeEnds, Respond, InvocationTypes, Entered
    <3>2. ~ran'[i][1].checked /\ Failed(ran'[i][1])
      <4>1. ~Checked(i)
        BY <2>1 DEF Checked
      <4>2. Fails(hook.returns, FALSE, end) /\ (Checked(i) <=> FALSE)
        BY <2>2, <4>1 DEF Fails
      <4> QED
        BY <2>4, <4>1, <4>2 DEF Failed, Fails
    <3>4. HookErred(i)'
      BY <2>4, <3>2 DEF HookErred
    <3> QED
      BY <2>0, <2>4, <3>1, <3>4 DEF Dispatched
  <2>3. CASE ~Fails(hook.returns, Checked(i), end)
    BY <1>0, <1>3, <2>0, <2>1, <2>3, <2>4, DispatchedNow DEF BeforeEnds
  <2> QED
    BY <2>2, <2>3
<1>4. ASSUME NEW end \in Ends, CallEnds(i, end) PROVE Dispatched(i)'
  <2>1. /\ pc[i] \in {"call", "unknown"} /\ UNCHANGED <<build, request, context>>
        /\ end \in EndsOf(Declared(i)) /\ Ran(i, Declared(i), end)
        /\ (\E s : Respond(i, s)) \/ (\E d : Enter(i, "after", method[i], d))
    BY <1>4 DEF CallEnds, Declared
  <2>2. method'[i] = method[i]
    BY <1>0, <2>1 DEF Respond, Enter, InvocationTypes
  <2>3. Declared(i) \in Annotations
    BY <2>1, CallFacts
  <2> QED
    BY <2>1, <2>2, <2>3, DispatchedThrough
<1>5. ASSUME NEW end \in Ends, AfterEnds(i, end) PROVE Dispatched(i)'
  <2> DEFINE hook == CalledContract(i).after
  <2>1. /\ pc[i] = "after" /\ UNCHANGED <<build, request, context>> /\ hook # NoHook
        /\ end \in EndsOf(hook.returns) /\ Ran(i, hook.returns, end) /\ method'[i] = method[i]
        /\ ContractOf(request[i]) \in DOMAIN contracts
    BY <1>0, <1>5 DEF AfterEnds, Respond, Progress, HasAfter, Started, Parts
  <2>2. hook.returns \in Annotations
    BY <1>0, <2>1, ContractFacts DEF CalledContract
  <2> QED
    BY <2>1, <2>2, DispatchedThrough
<1> QED
  BY <1>1, <1>2, <1>3, <1>4, <1>5

\* Every step keeps the full invariant.
LEMMA NextFullInv == FullInv /\ [Next]_vars => FullInv'
<1> SUFFICES ASSUME FullInv, [Next]_vars PROVE FullInv'
  OBVIOUS
<1>0. IInv /\ Merged
  BY DEF FullInv
<1>1. IInv'
  BY <1>0, NextIInv
<1>2. Merged'
  BY <1>0, MergedStep
<1>3. ASSUME NEW j \in Inv PROVE Dispatched(j)'
  <2>1. Dispatched(j)
    BY DEF FullInv
  <2>2. CASE AddContract \/ AddContractFails \/ AugmentMetadata \/ AugmentMetadataFails
    <3>1. building = "contracts" /\ UNCHANGED <<pc, method>>
      BY <2>2 DEF AddContract, AddContractFails, AugmentMetadata, AugmentMetadataFails
    <3>2. pc'[j] = "idle" /\ method'[j] = NoName
      BY <1>0, <3>1 DEF IInv, InvocationRight, Started
    <3> QED
      BY <3>2 DEF Dispatched
  <2>3. ASSUME NEW i \in Inv,
               \/ \E q \in Requests : Invoke(i, q) \/ InvokeRefused(i, q)
               \/ InitWithoutFunction(i)
               \/ \E end \in Ends : BeforeEnds(i, end) \/ CallEnds(i, end) \/ AfterEnds(i, end)
        PROVE  Dispatched(j)'
    <3>1. CASE i = j
      BY <1>0, <2>1, <2>3, <3>1, DispatchedStep
    <3>2. CASE i # j
      <4>1. Keeps(i)
        BY <1>0, <2>3, InvokeKeeps, AnsweredAtOnceKeeps, BeforeKeeps, CallKeeps, AfterKeeps
      <4>2. j \in Inv \ {i}
        BY <3>2
      <4> QED
        BY <2>1, <4>1, <4>2, DispatchedKept DEF Keeps
    <3> QED
      BY <3>1, <3>2
  <2>4. CASE UNCHANGED vars
    BY <2>1, <2>4, DispatchedKept DEF vars
  <2> QED
    BY <2>2, <2>3, <2>4 DEF Next
<1> QED
  BY <1>1, <1>2, <1>3 DEF FullInv

\* FullInv holds in every reachable state.
THEOREM FullInvariance == Spec => []FullInv
<1> QED
  BY InitFullInv, NextFullInv, PTL DEF Spec

(***************************************************************************)
(* What the metadata say.                                                  *)
(***************************************************************************)

\* A registered contract and what is reflected of it.
LEMMA ReflectedFacts ==
  ASSUME IInv, NEW n \in DOMAIN contracts
  PROVE  LET functions == contracts[n].functions
             txs == Reflected(functions) IN
         /\ txs \in Seq(Transactions)
         /\ \A k \in DOMAIN txs : /\ txs[k].name \in DOMAIN functions
                                  /\ txs[k].uses = functions[txs[k].name].uses
         /\ \A f \in DOMAIN functions : \E k \in DOMAIN txs : txs[k].name = f
         /\ \A f \in DOMAIN functions : /\ functions[f].params \in 0 .. MaxParams
                                        /\ functions[f].uses \subseteq Classes
<1> DEFINE functions == contracts[n].functions
           names == DOMAIN functions
           txs == Reflected(functions)
<1>1. RegistryRight
  BY DEF IInv
<1>2. PICK j \in 1 .. added : n = given[j].name
  BY <1>1 DEF RegistryRight
<1>3. /\ given[j] \in Contracts \cup {SystemContract}
      /\ functions = [f \in Callable(given[j]) |-> given[j].methods[f]]
  <2>1. /\ j \in 1 .. Len(given) /\ given \in Seq(Contracts \cup {SystemContract})
        /\ contracts[n] = Registered(given[j])
    BY <1>1, <1>2 DEF RegistryRight
  <2> QED
    BY <2>1 DEF Registered
<1>4. /\ names \in SUBSET Fn /\ IsFiniteSet(names)
      /\ \A f \in names : /\ functions[f].params \in 0 .. MaxParams
                          /\ functions[f].uses \subseteq Classes
  <2> DEFINE c == given[j]
  <2>1. CASE c \in Contracts
    <3>1. /\ DOMAIN c.methods \subseteq Fn /\ IsFiniteSet(DOMAIN c.methods)
          /\ \A f \in DOMAIN c.methods : c.methods[f] \in Methods
      BY <2>1, ContractsAssumption
    <3>2. names \in SUBSET (DOMAIN c.methods)
      BY <1>3 DEF Callable
    <3>3. IsFiniteSet(names)
      BY <3>1, <3>2, FS_Subset
    <3> QED
      BY <1>3, <3>1, <3>2, <3>3 DEF Methods
  <2>2. CASE c = SystemContract
    <3>1. /\ names = {"get_metadata"} /\ c.methods["get_metadata"].params = 0
          /\ c.methods["get_metadata"].uses = {}
      BY <1>3, <2>2 DEF SystemContract, Callable
    <3>2. IsFiniteSet({"get_metadata"})
      BY FS_Singleton
    <3> QED
      BY <1>3, <3>1, <3>2, NamesAssumption, RequestsAssumption
  <2> QED
    BY <1>3, <2>1, <2>2
<1> DEFINE size == Cardinality(names)
           Tx(k) == LET f == Sorted(names, k) IN
                    [name |-> f, params |-> functions[f].params,
                     returns |-> ReturnsSuccess(functions[f].returns), uses |-> functions[f].uses]
<1>5. /\ \A k \in 1 .. size : Sorted(names, k) \in names
      /\ \A f \in names : \E k \in 1 .. size : Sorted(names, k) = f
      /\ size \in Nat
  BY <1>4, SortedNames
<1>6. txs = [k \in 1 .. size |-> Tx(k)]
  BY DEF Reflected
<1> HIDE DEF functions, names, txs, size
<1>7. \A k \in 1 .. size : Tx(k) \in Transactions
  BY <1>4, <1>5 DEF Transactions, ReturnsSuccess
<1>8. txs \in Seq(Transactions) /\ DOMAIN txs = 1 .. size
  <2>1. txs \in [1 .. size -> Transactions]
    BY <1>6, <1>7
  <2> QED
    BY <1>5, <2>1
<1>9. \A k \in 1 .. size : txs[k].name = Sorted(names, k) /\ txs[k].uses = functions[txs[k].name].uses
  BY <1>6
<1>10. \A k \in DOMAIN txs : txs[k].name \in names /\ txs[k].uses = functions[txs[k].name].uses
  BY <1>5, <1>8, <1>9
<1>11. \A f \in names : \E k \in DOMAIN txs : txs[k].name = f
  BY <1>5, <1>8, <1>9
<1> QED
  BY <1>4, <1>8, <1>10, <1>11 DEF functions, names, txs

\* The file that is read, if there is one.
LEMMA FileFacts ==
  ASSUME Merged, ReadFile # NoFile
  PROVE  /\ ReadFile \in Files /\ \E k \in 1 .. 2 : files[k] = ReadFile
         /\ \A c \in DOMAIN ReadFile.contracts : ReadFile.contracts[c] \in Seq(Transactions)
         /\ ReadFile.components \subseteq Classes
<1>1. files \in (Files \cup {NoFile}) \X (Files \cup {NoFile})
  BY FilesAssumption DEF Merged
<1>2. ReadFile \in Files /\ \E k \in 1 .. 2 : files[k] = ReadFile
  BY <1>1 DEF ReadFile
<1> QED
  BY <1>2, FilesAssumption

\* The merge takes the contracts of the file or the reflected ones, and so with the
\* components.
LEMMA MergedCases ==
  ASSUME Merged, building = "done"
  PROVE  LET fromFile == ReadFile # NoFile /\ DOMAIN ReadFile.contracts # {} IN
         /\ fromFile => metadata = ReadFile.contracts
         /\ ~fromFile => metadata = ReflectedContracts
         /\ components = IF ReadFile # NoFile /\ ReadFile.components # {}
                           THEN ReadFile.components ELSE ReflectedComponents
BY DEF Merged, AppendContracts, AppendComponents

\* The metadata hold transactions, and the components are classes.
LEMMA MetadataTypes ==
  ASSUME FullInv
  PROVE  /\ \A n \in DOMAIN metadata : metadata[n] \in Seq(Transactions)
         /\ components \subseteq Classes
<1>0. IInv /\ Merged
  BY DEF FullInv
<1>1. CASE building # "done"
  BY <1>0, <1>1 DEF Merged
<1>2. CASE building = "done"
  <2>1. \A n \in DOMAIN ReflectedContracts : ReflectedContracts[n] \in Seq(Transactions)
    BY <1>0, ReflectedFacts DEF ReflectedContracts
  <2>2. ReflectedComponents \subseteq Classes
    BY <1>0, ReflectedFacts DEF ReflectedComponents
  <2> QED
    BY <1>0, <1>2, <2>1, <2>2, FileFacts, MergedCases
<1> QED
  BY <1>1, <1>2

\* The types of the state; in particular a contract is never registered without a
\* method, and metadata and components are what a schema may describe.
THEOREM TypesHold == Spec => []TypeOK
<1>1. FullInv => TypeOK
  <2> SUFFICES ASSUME FullInv PROVE TypeOK
    OBVIOUS
  <2>0. /\ IInv /\ Merged /\ InvocationTypes /\ RegistryRight
    BY DEF FullInv, IInv
  <2>1. added \in 0 .. Len(given)
    BY <2>0 DEF RegistryRight
  <2>2. \A n \in DOMAIN contracts : DOMAIN contracts[n].functions # {}
    <3> SUFFICES ASSUME NEW n \in DOMAIN contracts PROVE DOMAIN contracts[n].functions # {}
      OBVIOUS
    <3>1. PICK k \in 1 .. added : n = given[k].name
      BY <2>0 DEF RegistryRight
    <3>2. contracts[n] = Registered(given[k])
      BY <2>0, <3>1 DEF RegistryRight
    <3>3. DOMAIN contracts[n].functions = Callable(given[k])
      BY <3>2 DEF Registered
    <3> QED
      BY <2>0, <3>1, <3>3 DEF Merged
  <2>3. default \in DOMAIN contracts \cup {NoName}
    BY <2>0 DEF RegistryRight
  <2>4. /\ building \in {"contracts", "done", "raised"} /\ files \in FilePairs
    BY <2>0 DEF Merged
  <2>5. ran \in [Inv -> Seq([part : Parts, returns : Annotations, checked : BOOLEAN, end : Ends])]
    <3> DEFINE Records == [part : Parts, returns : Annotations, checked : BOOLEAN, end : Ends]
    <3>1. Entry \subseteq Records /\ ran \in [Inv -> Seq(Entry)]
      BY <2>0 DEF Entry, InvocationTypes
    <3> HIDE DEF Records
    <3>2. \A i \in Inv : ran[i] \in Seq(Records)
      BY <3>1
    <3> QED
      BY <3>1, <3>2 DEF Records
  <2> QED
    BY <2>0, <2>1, <2>2, <2>3, <2>4, <2>5, MetadataTypes DEF TypeOK, InvocationTypes
<1> QED
  BY <1>1, FullInvariance, PTL

\* A reference dangles only because of a file.
THEOREM RefsResolveHolds == Spec => []RefsResolve
<1>1. FullInv => RefsResolve
  <2> SUFFICES ASSUME FullInv, building = "done", ReadFile = NoFile \/ SelfContained(ReadFile),
                      NEW n \in DOMAIN metadata, NEW tx \in ToSet(metadata[n])
               PROVE  tx.uses \subseteq components
    BY DEF RefsResolve, UsesOf
  <2>0. IInv /\ Merged
    BY DEF FullInv
  <2>1. CASE ReadFile # NoFile /\ DOMAIN ReadFile.contracts # {}
    <3>1. n \in DOMAIN ReadFile.contracts /\ tx \in ToSet(ReadFile.contracts[n])
      BY <2>0, <2>1, MergedCases
    <3>2. tx.uses \subseteq UsesOf(ReadFile.contracts[n])
      BY <3>1 DEF UsesOf
    <3> QED
      BY <2>0, <2>1, <3>1, <3>2, MergedCases DEF SelfContained
  <2>2. CASE ~(ReadFile # NoFile /\ DOMAIN ReadFile.contracts # {})
    <3>1. metadata = ReflectedContracts /\ components = ReflectedComponents
      BY <2>0, <2>2, MergedCases DEF SelfContained
    <3>2. n \in DOMAIN contracts /\ metadata[n] = Reflected(contracts[n].functions)
      BY <3>1 DEF ReflectedContracts
    <3>3. PICK k \in DOMAIN metadata[n] : tx = metadata[n][k]
      BY DEF ToSet
    <3>4. /\ tx.name \in DOMAIN contracts[n].functions
          /\ tx.uses = contracts[n].functions[tx.name].uses
      BY <2>0, <3>2, <3>3, ReflectedFacts
    <3> QED
      BY <3>1, <3>2, <3>4 DEF ReflectedComponents
  <2> QED
    BY <2>1, <2>2
<1> QED
  BY <1>1, FullInvariance, PTL

\* What a method's name finds in the metadata.
LEMMA SchemaFacts ==
  ASSUME FullInv, NEW n, NEW fn
  PROVE  /\ SchemaOf(n, fn) = NoSchema => Described(n, fn) = {}
         /\ SchemaOf(n, fn) # NoSchema => SchemaOf(n, fn) \in Described(n, fn)
<1> DEFINE txs == TransactionsOf(n)
           named == {k \in DOMAIN txs : txs[k].name \in {fn, Upper[fn]}}
<1>1. txs \in Seq(Transactions)
  BY MetadataTypes DEF TransactionsOf
<1>2. named \in SUBSET Nat
  BY <1>1
<1>3. CASE named = {}
  BY <1>3 DEF SchemaOf, Described, ToSet
<1>4. CASE named # {}
  <2>1. \E m \in named : \A k \in named : m <= k
    <3> HIDE DEF named
    <3> QED
      BY <1>2, <1>4, LeastElement
  <2>2. Min(named) \in named
    BY <2>1 DEF Min
  <2>3. SchemaOf(n, fn) = txs[Min(named)]
    BY <1>4 DEF SchemaOf
  <2>4. SchemaOf(n, fn) \in Described(n, fn)
    BY <2>2, <2>3 DEF Described, ToSet
  <2>5. txs[Min(named)] \in Transactions
    <3>1. Min(named) \in DOMAIN txs
      BY <2>2
    <3> HIDE DEF txs, named
    <3> QED
      BY <1>1, <3>1
  <2>6. NoSchema \notin Transactions
    <3>1. \A tx \in Transactions : "params" \in DOMAIN tx
      BY DEF Transactions
    <3>2. "params" \notin DOMAIN NoSchema
      BY DEF NoSchema
    <3> QED
      BY <3>1, <3>2
  <2> QED
    BY <2>3, <2>4, <2>5, <2>6
<1> QED
  BY <1>3, <1>4

\* Where chaincode has run the contract is there; if the method has, it was found.
LEMMA RunFacts ==
  ASSUME FullInv, NEW i \in Inv
  PROVE  /\ "call" \in ToSet(PartsRun(i)) =>
              /\ method[i] # NoName /\ building = "done"
              /\ ContractOf(request[i]) \in DOMAIN contracts
              /\ method[i] \in DOMAIN CalledContract(i).functions
              /\ method[i] \in {request[i].fn, Upper[request[i].fn]}
         /\ pc[i] = "done" /\ Entered(i) /\ method[i] # NoName => "call" \in ToSet(PartsRun(i))
<1>0. /\ InvocationTypes /\ Started(i) /\ Progress(i) /\ Answered(i) /\ Dispatched(i)
      /\ ran[i] \in Seq(Entry)
  BY DEF FullInv, IInv, InvocationRight, InvocationTypes
<1>1. /\ DOMAIN ran[i] = 1 .. Len(ran[i]) /\ Len(ran[i]) \in Nat
      /\ DOMAIN PartsRun(i) = DOMAIN ran[i]
      /\ \A k \in DOMAIN ran[i] : PartsRun(i)[k] = ran[i][k].part
  BY <1>0 DEF PartsRun
<1>2. HasBefore(i) \in {0, 1} /\ HasAfter(i) \in {0, 1}
  BY DEF HasBefore, HasAfter
<1>3. ASSUME "call" \in ToSet(PartsRun(i)) PROVE method[i] # NoName
  <2>1. PICK k \in 1 .. Len(ran[i]) : ran[i][k].part = "call"
    BY <1>1, <1>3 DEF ToSet
  <2>2. pc[i] \in Parts \/ (pc[i] = "done" /\ Entered(i))
    BY <1>0, <2>1 DEF Started, Dispatched, InvocationTypes
  <2>3. Order(i) /\ Len(ran[i]) <= HasBefore(i) + 1 + HasAfter(i)
    BY <1>0, <1>2, <2>2 DEF Progress, Answered, Parts
  <2>4. Main(i) = "call"
    BY <1>1, <1>2, <2>1, <2>3 DEF Order
  <2> QED
    BY <2>4 DEF Main
<1>4. ASSUME pc[i] = "done", Entered(i), method[i] # NoName
      PROVE  "call" \in ToSet(PartsRun(i))
  <2>1. Order(i) /\ Len(ran[i]) > HasBefore(i) /\ Main(i) = "call"
    BY <1>0, <1>4 DEF Answered, Dispatched, Main
  <2>2. HasBefore(i) + 1 \in DOMAIN ran[i] /\ ran[i][HasBefore(i) + 1].part = "call"
    BY <1>1, <1>2, <2>1 DEF Order
  <2> QED
    BY <1>1, <2>2 DEF ToSet
<1>5. method[i] # NoName =>
        /\ building = "done" /\ ContractOf(request[i]) \in DOMAIN contracts
        /\ method[i] \in DOMAIN CalledContract(i).functions
        /\ method[i] \in {request[i].fn, Upper[request[i].fn]}
  BY <1>0 DEF Started, Parts
<1> QED
  BY <1>3, <1>4, <1>5

\* Parameters that match no schema reach a method only where a file has replaced
\* the reflected contracts and leaves the method out.
THEOREM UncheckedOnlyByFileHolds == Spec => []UncheckedOnlyByFile
<1>1. FullInv => UncheckedOnlyByFile
  <2> SUFFICES ASSUME FullInv, NEW i \in Inv, "call" \in ToSet(PartsRun(i)),
                      ~request[i].valid, CalledContract(i).functions[method[i]].params # 0
               PROVE  DescribedByFile(i)
    BY DEF UncheckedOnlyByFile
  <2> DEFINE n == ContractOf(request[i])
             fn == request[i].fn
  <2>0. IInv /\ Merged /\ Dispatched(i)
    BY DEF FullInv
  <2>1. /\ method[i] # NoName /\ building = "done" /\ n \in DOMAIN contracts
        /\ method[i] \in DOMAIN contracts[n].functions /\ method[i] \in {fn, Upper[fn]}
    BY RunFacts DEF CalledContract
  <2>2. CalledContract(i).functions[method[i]].params > 0
    BY <2>0, <2>1, ReflectedFacts DEF CalledContract
  <2>3. Described(n, fn) = {}
    BY <2>0, <2>1, <2>2, SchemaFacts DEF Dispatched, Fits, ArgsFit
  <2>4. ReadFile # NoFile /\ DOMAIN ReadFile.contracts # {}
    <3> SUFFICES ASSUME metadata = ReflectedContracts PROVE FALSE
      BY <2>0, <2>1, MergedCases
    <3>1. TransactionsOf(n) = Reflected(contracts[n].functions)
      BY <2>1 DEF ReflectedContracts, TransactionsOf
    <3>2. \E k \in DOMAIN TransactionsOf(n) : TransactionsOf(n)[k].name = method[i]
      BY <2>0, <2>1, <3>1, ReflectedFacts
    <3> QED
      BY <2>1, <2>3, <3>2 DEF Described, ToSet
  <2> QED
    BY <2>0, <2>3, <2>4, FileFacts DEF DescribedByFile
<1> QED
  BY <1>1, FullInvariance, PTL

\* A call that names a method and fits it runs that method, unless its hook erred or
\* the metadata describe other parameters for the name: then nothing runs.
THEOREM GoodCallsRunHolds == Spec => []GoodCallsRun
<1>1. FullInv => GoodCallsRun
  <2> SUFFICES ASSUME FullInv, NEW i \in Inv, pc[i] = "done", Entered(i), GoodCall(i)
               PROVE  \/ method[i] = request[i].fn /\ "call" \in ToSet(PartsRun(i))
                      \/ PartsRun(i) = <<"before">> /\ Erred(ran[i][1])
                      \/ /\ OtherDescribed(i) /\ "call" \notin ToSet(PartsRun(i))
                         /\ response[i] = "error"
    BY DEF GoodCallsRun
  <2> DEFINE n == ContractOf(request[i])
             fn == request[i].fn
             functions == CalledContract(i).functions
  <2>0. /\ IInv /\ Dispatched(i) /\ Started(i) /\ Answered(i) /\ RegistryRight
        /\ ran[i] \in Seq(Entry) /\ response[i] \in {"none", "ok", "error"}
    BY DEF FullInv, IInv, InvocationRight, InvocationTypes
  <2>1. n \in DOMAIN contracts /\ fn \in DOMAIN functions /\ fn # NoName
    BY <2>0, ContractFacts DEF Started, GoodCall, CalledContract
  <2>2. Wanted(i) = fn
    BY <2>1 DEF Wanted, FunctionOf
  <2>3. ~OtherDescribed(i) => Fits(i)
    <3> SUFFICES ASSUME ~OtherDescribed(i) PROVE Fits(i)
      OBVIOUS
    <3>1. SchemaOf(n, fn) # NoSchema =>
            /\ SchemaOf(n, fn).params = functions[fn].params
            /\ SchemaOf(n, fn).uses \subseteq components
      BY SchemaFacts DEF OtherDescribed
    <3> QED
      BY <2>2, <3>1 DEF Fits, ArgsFit, GoodCall
  <2>4. CASE method[i] = fn
    BY <2>1, <2>4, RunFacts
  <2>5. CASE method[i] # fn
    <3>1. Len(ran[i]) = HasBefore(i) /\ (OtherDescribed(i) \/ HookErred(i)) /\ method[i] = NoName
      BY <2>0, <2>2, <2>3, <2>5 DEF Dispatched
    <3>2. "call" \notin ToSet(PartsRun(i))
      BY <3>1, RunFacts
    <3>3. response[i] = "error"
      <4>1. HasBefore(i) \in {0, 1} /\ HasAfter(i) \in {0, 1}
        BY DEF HasBefore, HasAfter
      <4> QED
        BY <2>0, <3>1, <4>1 DEF Answered
    <3>4. CASE OtherDescribed(i)
      BY <3>2, <3>3, <3>4
    <3>5. CASE HookErred(i)
      <4>1. DOMAIN ran[i] = 1 .. 1 /\ ran[i][1].part = "before" /\ ran[i][1] \in Entry
        BY <2>0, <3>5 DEF HookErred
      <4>2. PartsRun(i) = [k \in 1 .. 1 |-> "before"]
        BY <4>1 DEF PartsRun
      <4>3. PartsRun(i) = <<"before">>
        BY <4>2
      <4>4. Erred(ran[i][1])
        BY <3>5, <4>1, FailedMeansErred DEF HookErred
      <4> QED
        BY <4>3, <4>4
    <3> QED
      BY <3>1, <3>4, <3>5
  <2> QED
    BY <2>4, <2>5
<1> QED
  BY <1>1, FullInvariance, PTL
=============================================================================
