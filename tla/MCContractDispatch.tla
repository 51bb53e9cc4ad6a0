------------------------- MODULE MCContractDispatch -------------------------
(***************************************************************************)
(* ContractDispatch with a few contracts.  asset has two methods that      *)
(* differ in case, an ignored one and hooks; bare has no hooks, and two    *)
(* methods that differ in case and take different parameters; the others   *)
(* cannot be added.                                                        *)
(***************************************************************************)
EXTENDS ContractDispatch, TLC

CONSTANTS i1, i2

MCInv == {i1, i2}

MCFn == {"", "create", "Create", "read", "Read", "Hidden", "get_metadata", "Get_metadata"}
MCUpper == [f \in MCFn |-> CASE f = "create" -> "Create"
                             [] f = "read" -> "Read"
                             [] f = "get_metadata" -> "Get_metadata"
                             [] OTHER -> f]
MCRank == [f \in MCFn |-> CASE f = "" -> 0 [] f = "Create" -> 1
                            [] f = "Get_metadata" -> 2 [] f = "Hidden" -> 3
                            [] f = "Read" -> 4 [] f = "create" -> 5
                            [] f = "get_metadata" -> 6 [] f = "read" -> 7]

Hook(n, annotation) == [returns |-> annotation, params |-> n]
Takes(n, annotation) == [returns |-> annotation, params |-> n, uses |-> {}]
Asset == [name |-> "asset",
          methods |-> ("create" :> [Takes(1, "pair") EXCEPT !.uses = {"Asset"}]) @@ ("Create" :> Takes(1, "value"))
                        @@ ("Hidden" :> Takes(0, "value")),
          ignored |-> {"Hidden"}, parses |-> TRUE,
          before |-> Hook(0, "exception"), after |-> Hook(1, "value"),
          unknown |-> Hook(0, "optionalPair")]
Bare == [name |-> "bare",
         methods |-> ("Read" :> Takes(0, "optionalOfDict")) @@ ("create" :> Takes(1, "optionalPair"))
                       @@ ("Create" :> Takes(0, "nothing")),
         ignored |-> {}, parses |-> TRUE,
         before |-> NoHook, after |-> NoHook, unknown |-> NoHook]
MCContracts == {Asset, Bare, [Bare EXCEPT !.ignored = DOMAIN Bare.methods],
                [Asset EXCEPT !.after.params = 2], [Bare EXCEPT !.parses = FALSE]}

\* Here an error is returned in a pair with Optional[Exception].
MCOptional == {[Bare EXCEPT !.methods = "Read" :> Takes(0, p)] : p \in {"optionalPair", "optionalOfDict"}}

Tx(name, n, uses) == [name |-> name, params |-> n, returns |-> TRUE, uses |-> uses]
File(cs, classes) == [text |-> "valid", contracts |-> cs, components |-> classes]
OfAsset == "asset" :> <<Tx("create", 1, {"Asset"}), Tx("Create", 1, {})>>
\* Files that describe one contract of two, describe a method wrongly, rely on
\* the reflected components, leave them dangling, or give both parts.
MCFiles == {File("bare" :> <<Tx("Read", 0, {})>>, {}),
            File(("asset" :> <<Tx("Create", 2, {})>>) @@ ("bare" :> <<>>), {"Asset"}),
            File(OfAsset, {}), File(<<>>, {"Owner"}),
            File(OfAsset @@ ("bare" :> <<Tx("Read", 0, {})>>), {"Asset"}),
            [File(<<>>, {}) EXCEPT !.text = "broken"], [File(OfAsset, {}) EXCEPT !.text = "invalid"]}
MCFilePairs == ((MCFiles \cup {NoFile}) \X {NoFile})
                 \cup {<<NoFile, File(OfAsset, {})>>,
                       <<File(<<>>, {"Owner"}), [File(<<>>, {}) EXCEPT !.text = "broken"]>>}
MCNoFile == {<<NoFile, NoFile>>}

Ask(c, f, n, ok) == [contract |-> c, fn |-> f, params |-> n, convert |-> ok, valid |-> ok]
MCRequests == {Ask("asset", "create", 1, TRUE), Ask("asset", "create", 1, FALSE),
               [Ask("asset", "create", 1, TRUE) EXCEPT !.valid = FALSE],
               Ask("", "Hidden", 1, TRUE), Ask("", "get_metadata", 0, TRUE),
               Ask("bare", "read", 0, TRUE), Ask("bare", "create", 1, TRUE),
               Ask("bare", "Hidden", 0, TRUE), Ask("bare", "", 0, TRUE),
               Ask("other", "Read", 0, TRUE),
               Ask("org.hyperledger.fabric", "get_metadata", 0, TRUE)}
MCRequestsOptional == {Ask("", "Read", 0, TRUE)}
=============================================================================
