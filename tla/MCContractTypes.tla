--------------------------- MODULE MCContractTypes ---------------------------
(***************************************************************************)
(* ContractTypes with every leaf, containers of each leaf, some of two     *)
(* levels, and classes that refer to each other and to themselves.         *)
(***************************************************************************)
EXTENDS ContractTypes, TLC

Of(kind, args) == [kind |-> kind, args |-> args]
Leaf(kind) == Of(kind, <<>>)

MCClasses == {"bare", "Asset", "Owner", "Node", "Bad"}
MCFieldsOf == [c \in MCClasses |->
  CASE c = "Asset" -> ("id" :> Leaf("str")) @@ ("size" :> Leaf("int"))
    [] c = "Owner" -> "asset" :> Leaf("Asset")
    [] c = "Node" -> ("next" :> Of("optional", <<Leaf("Node")>>)) @@ ("val" :> Leaf("Owner"))
    [] c = "Bad" -> ("id" :> Leaf("str")) @@ ("x" :> Leaf("union"))
    [] OTHER -> <<>>]
MCOrder == [c \in MCClasses |->
  CASE c = "Asset" -> <<"id", "size">>
    [] c = "Owner" -> <<"asset">>
    [] c = "Node" -> <<"next", "val">>
    [] c = "Bad" -> <<"id", "x">>
    [] OTHER -> <<>>]

Leaves == {Leaf(k) : k \in Scalars \cup Moments \cup MCClasses \cup {"union"}}
ListOf(t) == Of("list", <<t>>)
DictOf(t) == Of("dict", <<Leaf("str"), t>>)
OptionalOf(t) == Of("optional", <<t>>)
MCTypes == Leaves \cup {ListOf(t) : t \in Leaves} \cup {DictOf(t) : t \in Leaves}
  \cup {OptionalOf(t) : t \in Leaves}
  \cup {Of("tuple", <<Leaf("int"), t>>) : t \in Leaves}
  \cup {Leaf("list"), Leaf("tuple"), Of("dict", <<Leaf("int"), Leaf("str")>>),
        ListOf(ListOf(Leaf("int"))), ListOf(DictOf(Leaf("Asset"))),
        ListOf(OptionalOf(Leaf("int"))), DictOf(OptionalOf(Leaf("Owner"))),
        OptionalOf(ListOf(Leaf("float")))}

MCDepth[t \in MCTypes] == IF t.args = <<>> THEN 0 ELSE 1 + MCDepth[t.args[Len(t.args)]]

Doc(json, items, fields) == [json |-> json, items |-> items, fields |-> fields]
Atom(json) == Doc(json, <<>>, <<>>)
Array(items) == Doc("array", items, <<>>)
Object(fields) == Doc("object", <<>>, fields)
Atoms == {Atom(j) : j \in {"null", "boolean", "integer", "number", "string"}}
Good == Object(("id" :> Atom("string")) @@ ("size" :> Atom("integer")))
Parts1 == Atoms \cup {Good, Array(<<>>), Array(<<Atom("integer")>>),
                      Object("asset" :> Good), Object("asset" :> Atom("integer")),
                      Object("id" :> Atom("integer")), Object("id" :> Good),
                      Object(("id" :> Atom("string")) @@ ("size" :> Atom("string"))),
                      Object(("id" :> Atom("string")) @@ ("size" :> Atom("integer"))
                               @@ ("x" :> Atom("null")))}
MCDocs == Parts1 \cup {Array(<<d>>) : d \in Parts1}
            \cup {Array(<<Atom("integer"), d>>) : d \in Atoms}
MCHeight[d \in MCDocs] ==
  CASE d.items # <<>> -> 1 + MCHeight[d.items[Len(d.items)]]
    [] DOMAIN d.fields # {} -> 1 + MCHeight[d.fields[CHOOSE f \in DOMAIN d.fields :
                                                      d.fields[f] # Atom("null")]]
    [] OTHER -> 0
MCTexts == {[form |-> f] : f \in {"empty", "word", "moment"}}
             \cup {[form |-> "json", doc |-> d] : d \in MCDocs}
=============================================================================
