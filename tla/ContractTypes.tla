---------------------------- MODULE ContractTypes ----------------------------
(***************************************************************************)
(* What becomes of a parameter's annotation: type_is_valid accepts it      *)
(* (internal/types_handler.py), get_schema describes it and the classes it *)
(* mentions (metadata/schema.py), and JSONSerializer.from_string converts  *)
(* and validates the strings it gets in calls.  A result's annotation is   *)
(* described unchecked, and to_string makes the method's result a string.  *)
(* Five walks over one type that have to agree.                            *)
(*                                                                         *)
(* A type is its kind and its arguments; Classes are dataclasses and plain *)
(* classes, with `bare` for list, dict or tuple without arguments, which   *)
(* two of the walks take for a class.  A document is JSON.                 *)
(***************************************************************************)
EXTENDS Naturals, Sequences

CONSTANTS
  Types,     \* the types in play, with their arguments and fields
  Depth,     \* type -> how deep its arguments nest
  Classes,   \* kinds that are classes, `bare` among them
  FieldsOf,  \* class -> name of a field -> its type (no field has a default)
  Order,     \* class -> its fields' names in order
  Docs,      \* JSON documents in play, with their parts
  Height,    \* document -> how deep its parts nest
  Texts      \* strings a call passes: empty, a word, a date and time, or JSON

Containers == {"list", "dict", "tuple"}
Scalars == {"str", "bool", "int", "float", "bytes", "Any"}
Moments == {"datetime", "date"}

\* A class is none of the other kinds; typing leaves no Optional directly in an
\* Optional; an annotation and a document are finite, while classes may be cyclic.
ASSUME TypesAssumption ==
  /\ "bare" \in Classes
  /\ Classes \cap (Containers \cup Scalars \cup Moments \cup {"optional"}) = {}
  /\ \A t \in Types :
       /\ t.args \in Seq(Types)
       /\ t.kind = "optional" => t.args # <<>> /\ t.args[1].kind # "optional"
  /\ \A c \in Classes : \A f \in DOMAIN FieldsOf[c] : FieldsOf[c][f] \in Types
  /\ \A c \in Classes : /\ Order[c] \in Seq(DOMAIN FieldsOf[c])
                        /\ DOMAIN FieldsOf[c] = {Order[c][k] : k \in DOMAIN Order[c]}
ASSUME DepthAssumption ==
  /\ Depth \in [Types -> Nat]
  /\ \A t \in Types : \A k \in DOMAIN t.args : Depth[t.args[k]] < Depth[t]
ASSUME DocsAssumption ==
  /\ \A d \in Docs : /\ \A k \in DOMAIN d.items : d.items[k] \in Docs
                     /\ \A f \in DOMAIN d.fields : d.fields[f] \in Docs
  /\ \E d \in Docs : d.json = "string"
  /\ [form |-> "word"] \in Texts
  /\ \A x \in Texts : /\ x.form \in {"empty", "word", "moment", "json"}
                      /\ x.form = "json" => x.doc \in Docs
ASSUME HeightAssumption ==
  /\ Height \in [Docs -> Nat]
  /\ \A d \in Docs : /\ \A k \in DOMAIN d.items : Height[d.items[k]] < Height[d]
                     /\ \A f \in DOMAIN d.fields : Height[d.fields[f]] < Height[d]

VARIABLES
  tp,        \* the annotation
  use,       \* of what: "param" or "return"
  byId,      \* external: the jsonschema installed is one before 4.18 and resolves a
             \* `$ref` by the `$id` of a component (pyproject.toml:30 allows both)
  phase,     \* how far it has come: checking, describing, ready; rejected, raised;
             \* called or refused, in a call; answered or failed, when it has returned
  todo,      \* types the walk of this phase still has to visit, the next one first,
             \* with the classes around them (additional_types)
  registry,  \* components.schemas: class -> its properties
  result,    \* what the method returned, empty for None
  text       \* the string of the call, or of the answer
annotation == <<tp, use, byId>>
vars == <<annotation, phase, todo, registry, result, text>>

NoText == [form |-> "none"]

TypeOK ==
  /\ tp \in Types /\ use \in {"param", "return"} /\ byId \in BOOLEAN
  /\ phase \in {"checking", "rejected", "describing", "raised", "ready",
                "called", "refused", "answered", "failed"}
  /\ todo \in Seq([type : Types, seen : SUBSET Classes])
  /\ DOMAIN registry \subseteq Classes
  /\ {result, text} \subseteq Texts \cup {NoText}
  /\ todo # <<>> => phase \in {"checking", "rejected", "describing", "raised"}

\* Only parameters are checked; _parse_return has stripped a result's Optional.
Init == /\ tp \in Types /\ use \in {"param", "return"} /\ byId \in BOOLEAN
        /\ use = "return" => tp.kind # "optional"
        /\ phase = IF use = "param" THEN "checking" ELSE "describing"
        /\ todo = <<[type |-> tp, seen |-> {}]>>
        /\ registry = <<>> /\ result = NoText /\ text = NoText

\* _strip_optional
Strip(t) == IF t.kind = "optional" THEN t.args[1] ELSE t

FieldTypes(c) == [k \in DOMAIN Order[c] |-> FieldsOf[c][Order[c][k]]]
Visit(ts, seen) == [k \in DOMAIN ts |-> [type |-> ts[k], seen |-> seen]]

\* The one part of a container that is described and converted: the value of a dict,
\* which has two arguments, the first element of a tuple.
Items(t) ==
  IF t.kind = "dict"
    THEN IF Len(t.args) = 2 THEN <<t.args[2]>> ELSE <<>>
    ELSE IF t.args # <<>> THEN <<t.args[1]>> ELSE <<>>

(***************************************************************************)
(* type_is_valid                                                           *)
(***************************************************************************)

\* Refused whatever its parts are: a container without arguments, a dict of other
\* than two or whose key is no string, and what is neither basic nor a class.
Rejects(t) == \/ t.kind \in {"list", "tuple"} /\ t.args = <<>>
              \/ t.kind = "dict" /\ (Len(t.args) # 2 \/ t.args[1].kind # "str")
              \/ t.kind \notin Containers \cup Scalars \cup Moments \cup Classes

\* Mutant: the fields of a class are not looked at.
Parts_Shallow(t, seen) == IF t.kind \in Containers THEN Visit(t.args, seen) ELSE <<>>
\* Its parts, a class's only if it is not one of those around it.
Parts(t, seen) ==
  CASE t.kind \in {"list", "tuple"} -> Visit(t.args, seen)
    [] t.kind = "dict" -> Visit(Items(t), seen)
    [] t.kind \in Classes \ seen -> Visit(FieldTypes(t.kind), seen \cup {t.kind})
    [] OTHER -> <<>>

TypeIsValid ==
  /\ phase = "checking" /\ todo # <<>>
  /\ LET t == Strip(Head(todo).type) IN
     IF Rejects(t)
       THEN /\ phase' = "rejected"
            /\ UNCHANGED todo
       ELSE /\ todo' = Parts(t, Head(todo).seen) \o Tail(todo)
            /\ UNCHANGED phase
  /\ UNCHANGED <<annotation, registry, result, text>>

\* The method is registered; reflect_metadata asks for the parameter's schema.
Accepted ==
  /\ phase = "checking" /\ todo = <<>>
  /\ phase' = "describing"
  /\ todo' = Visit(<<tp>>, {})
  /\ UNCHANGED <<annotation, registry, result, text>>

(***************************************************************************)
(* get_schema                                                              *)
(***************************************************************************)

\* Mutant: a component is described without the classes of its fields.
Described_Flat(t) == IF t.kind \in Containers THEN Items(t) ELSE <<>>
\* What a schema makes it describe next: a class's fields, unless it is in the
\* registry, where it has its place before its fields are looked at.
Described(t) == CASE t.kind \in Containers -> Items(t)
                  [] t.kind \in Classes \ DOMAIN registry -> FieldTypes(t.kind)
                  [] OTHER -> <<>>

\* _add_component_if_not_exists
AddComponent(t) ==
  registry' = IF t.kind \in Classes \ DOMAIN registry
                THEN [c \in DOMAIN registry \cup {t.kind} |->
                        IF c = t.kind THEN FieldsOf[c] ELSE registry[c]]
                ELSE registry

GetSchema ==
  /\ phase = "describing" /\ todo # <<>>
  /\ LET t == Strip(Head(todo).type) IN
     IF t.kind \notin Containers \cup Scalars \cup Moments \cup Classes
       THEN /\ phase' = "raised"
            /\ UNCHANGED <<todo, registry>>
       ELSE /\ todo' = Visit(Described(t), {}) \o Tail(todo)
            /\ AddComponent(t)
            /\ UNCHANGED phase
  /\ UNCHANGED <<annotation, result, text>>

\* Every class referred to is described: the metadata are compiled.
Reflected ==
  /\ phase = "describing" /\ todo = <<>>
  /\ phase' = "ready"
  /\ UNCHANGED <<annotation, todo, registry, result, text>>

(***************************************************************************)
(* from_string                                                             *)
(***************************************************************************)
IsDoc(x, kinds) == x.form = "json" /\ x.doc.json \in kinds

\* Mutant: an Optional is converted as it stands.
Bare_Kept(t) == t
Bare(t) == Strip(t)

\* adapter.convert; the integers in Docs are neither 0 nor 1.
ConvertsScalar(kind, x) ==
  /\ kind = "bool" => x.form = "empty" \/ IsDoc(x, {"boolean"})
  /\ kind = "int" => x.form = "empty" \/ IsDoc(x, {"integer"})
  /\ kind = "float" => x.form = "empty" \/ IsDoc(x, {"integer", "number"})

\* cls(**kwargs) of what json.loads returns; keys that are no field are dropped,
\* and what is no object is returned as it is.
Constructs(c, d) == d.json = "object" => DOMAIN FieldsOf[c] \subseteq DOMAIN d.fields

\* _convert_arg returns a value.
Converts(t, x) ==
  \/ t.kind \in Moments /\ x.form = "moment"
  \/ t.kind \in Containers /\ x.form \in {"empty", "json"}
  \/ t.kind \in Classes \ {"bare"} /\ x.form = "json" /\ Constructs(t.kind, x.doc)
  \/ t.kind \in Scalars /\ ConvertsScalar(t.kind, x)

\* External: jsonschema, the types whose schema a document matches, at the top of a
\* schema or nested in a component.  A `$ref` is a pointer at the top and the bare name
\* in a component, and one that does not resolve raises, whatever the instance.
\* A component has no "type", so it constrains objects only.
Matched[d \in Docs] == [v \in Types \X BOOLEAN |->
  LET s == Strip(v[1])
      nested == v[2]
      ItemsMatch(parts) == \A k \in DOMAIN parts : \A j \in DOMAIN Items(s) :
                             Matched[parts[k]][<<Items(s)[j], nested>>] IN
  /\ s.kind \in {"str", "bytes"} \cup Moments => d.json = "string"
  /\ s.kind = "bool" => d.json = "boolean"
  /\ s.kind = "int" => d.json = "integer"
  /\ s.kind = "float" => d.json \in {"integer", "number"}
  /\ s.kind \in {"list", "tuple"} => d.json = "array" /\ ItemsMatch(d.items)
  /\ s.kind = "dict" => d.json = "object" /\ ItemsMatch(d.fields)
  /\ s.kind \in Classes =>
       /\ s.kind \in DOMAIN registry
       /\ nested => byId
       /\ d.json = "object" =>
            /\ DOMAIN d.fields = DOMAIN registry[s.kind]
            /\ \A f \in DOMAIN d.fields :
                 Matched[d.fields[f]][<<registry[s.kind][f], TRUE>>]]
Matches(t, d) == Matched[d][<<t, FALSE>>]

\* Mutant: a document is parsed and not validated.
Validates_Parsed(t, x) == t.kind \in Containers \cup Classes => x.form = "json"
\* _validate_against_schema, of the annotation as it stands: a container or a class
\* by its document; an Optional and a scalar by the converted value, which for a
\* class is an instance, that no component constrains, and for bytes no string.
Validates(t, x) ==
  LET s == Strip(t) IN
  IF t.kind \in Containers \cup Classes THEN x.form = "json" /\ Matches(t, x.doc)
  ELSE IF s.kind \in Containers THEN x.form = "empty" \/ Matches(s, x.doc)
  ELSE s.kind # "bytes"

FromString(x) ==
  /\ phase = "ready" /\ use = "param"
  /\ text' = x
  /\ phase' = IF Converts(Bare(tp), x) /\ Validates(tp, x)
                THEN "called" ELSE "refused"
  /\ UNCHANGED <<annotation, todo, registry, result>>

(***************************************************************************)
(* to_string.  A result is None, a datetime, or what has a document: a     *)
(* builtin value, and where the annotation is a class also its instance.   *)
(***************************************************************************)

\* What is written as JSON for its annotation: a class (date is one, a bare list
\* is none), and a bool, int or float by its own branch.
Marshalled == (Classes \ {"bare"}) \cup {"date", "bool", "int", "float"}

\* Mutant: what is a list or dict is not looked up by its annotation.
StringOf_OfResult(r) ==
  IF r.form # "json" \/ tp.kind \in Marshalled THEN r ELSE [form |-> "word"]
\* A datetime in its format, JSON for what is marshalled, else str().
StringOf(r) ==
  IF r.form # "json" \/ tp.kind \in Marshalled \cup Containers THEN r ELSE [form |-> "word"]

\* None is not validated.  A datetime and bytes are by their string, under an
\* annotation of datetime anything else by its str(), which is no JSON string, and
\* the others by their document.
ResultValidates(r) ==
  \/ r.form = "empty"
  \/ r.form = "moment" /\ \E d \in Docs : d.json = "string" /\ Matches(tp, d)
  \/ r.form = "json" /\ tp.kind # "datetime" /\ (tp.kind = "bytes" \/ Matches(tp, r.doc))

Return(r) ==
  /\ phase = "ready" /\ use = "return"
  /\ r.form # "word"
  /\ result' = r
  /\ IF ResultValidates(r)
       THEN phase' = "answered" /\ text' = StringOf(r)
       ELSE phase' = "failed" /\ UNCHANGED text
  /\ UNCHANGED <<annotation, todo, registry>>

Next == \/ TypeIsValid
        \/ Accepted
        \/ GetSchema
        \/ Reflected
        \/ \E x \in Texts : FromString(x) \/ Return(x)

Spec == Init /\ [][Next]_vars

(***************************************************************************)
(* Properties.                                                             *)
(***************************************************************************)

\* The classes that the schema of a type refers to.
Refs[t \in Types] == LET s == Strip(t) IN
  IF s.kind \in Classes THEN {s.kind}
  ELSE IF s.kind \in Containers THEN UNION {Refs[Items(s)[k]] : k \in DOMAIN Items(s)}
  ELSE {}
Closed(S) == \A c \in S : \A f \in DOMAIN FieldsOf[c] : Refs[FieldsOf[c][f]] \subseteq S

\* The types the documents name (types_handler.py:9-18, and date in
\* json_transaction_serializer.py:10-17), that every walk must know: the parts of a
\* type that are not, with the classes taken for allowed, and the types that have no
\* such part, neither in the fields of the classes they reach.
Unlisted[t \in Types] ==
  CASE t.kind \in {"optional", "list"} ->
         IF t.args = <<>> THEN {t} ELSE Unlisted[t.args[1]]
    [] t.kind = "dict" ->
         IF Len(t.args) # 2 \/ t.args[1].kind # "str" THEN {t} ELSE Unlisted[t.args[2]]
    [] OTHER -> IF t.kind \in Scalars \cup Moments \cup (Classes \ {"bare"})
                  THEN {} ELSE {t}
Documented(t) ==
  /\ Unlisted[t] = {}
  /\ \E S \in SUBSET Classes :
       /\ Refs[t] \subseteq S /\ Closed(S)
       /\ \A c \in S : \A f \in DOMAIN FieldsOf[c] : Unlisted[FieldsOf[c][f]] = {}

\* The schema of a type has no reference that raises: no class it refers to has a
\* field that refers to a class, itself included, unless `$id`s are resolved.
Resolvable(t) ==
  byId \/ \A c \in Refs[t] : \A f \in DOMAIN FieldsOf[c] : Refs[FieldsOf[c][f]] = {}

\* What the annotation means: the types that a document is a value of, where null is
\* one of an Optional (TRUE), or where an Optional is validated as what it is of
\* (FALSE; types_handler.py:64-66).
TypesOf[d \in Docs] == [v \in Types \X BOOLEAN |->
  LET s == Strip(v[1])
      ItemsFit(parts) == \A k \in DOMAIN parts : \A j \in DOMAIN Items(s) :
                           TypesOf[parts[k]][<<Items(s)[j], v[2]>>] IN
  \/ v[2] /\ v[1].kind = "optional" /\ d.json = "null"
  \/ /\ s.kind \in {"str", "bytes"} \cup Moments => d.json = "string"
     /\ s.kind = "bool" => d.json = "boolean"
     /\ s.kind = "int" => d.json = "integer"
     /\ s.kind = "float" => d.json \in {"integer", "number"}
     /\ s.kind = "list" => d.json = "array" /\ ItemsFit(d.items)
     /\ s.kind = "dict" => d.json = "object" /\ ItemsFit(d.fields)
     /\ s.kind \in Classes =>
          /\ d.json = "object"
          /\ DOMAIN d.fields = DOMAIN FieldsOf[s.kind]
          /\ \A f \in DOMAIN d.fields :
               TypesOf[d.fields[f]][<<FieldsOf[s.kind][f], v[2]>>]]
Fits(t, none, d) == TypesOf[d][<<t, none>>]
\* Which strings are: the empty one is the zero of a number or a bool.
WellFormed(t, none, x) ==
  /\ t.kind \in {"bool", "int", "float"} =>
       x.form = "empty" \/ (x.form = "json" /\ Fits(t, none, x.doc))
  /\ t.kind \in Moments => x.form = "moment"
  /\ t.kind \notin Scalars \cup Moments => x.form = "json" /\ Fits(t, none, x.doc)

\* A parameter that registration accepts never makes the reflection of the metadata
\* raise: type_is_valid rejects what get_schema has no schema for, in every field of
\* every class it reaches, cyclic ones included (types_handler.py:76-192,
\* schema.py:39-155).
AcceptedTypesReflect == use = "param" => phase # "raised"

\* The components are the classes that the schema reaches, so that the name in every
\* `$ref`, pointer or bare, cyclic or not, is one of a component, and none is described
\* that is not referred to (schema.py:95-155).  Whether jsonschema finds a component by
\* its bare name is another question, Resolvable.
RegistryIsReachable ==
  phase = "ready" =>
    /\ Refs[tp] \subseteq DOMAIN registry /\ Closed(DOMAIN registry)
    /\ \A S \in SUBSET DOMAIN registry :
         Refs[tp] \subseteq S /\ Closed(S) => S = DOMAIN registry

\* A method gets every string that is a value of its parameter's type, but for two
\* documented kinds of types (json_transaction_serializer.py:131-271).  Bytes:
\* jsonschema is given the converted bytes, which are no string for it, and refuses
\* them all (143-144, 254).  Types with a reference nested in a component, where that
\* raises (257-263; schema.py:101-102).  A None in an Optional is no value here.
WellFormedCalls ==
  phase = "refused" /\ Documented(tp) =>
    \/ ~WellFormed(Strip(tp), FALSE, text)
    \/ Strip(tp).kind = "bytes"
    \/ ~Resolvable(tp)

\* A method never gets a string that is no value of its parameter's type, nor the
\* missing argument of an Optional (types_handler.py:64-66).  A class is excepted:
\* what is no object is passed on unconverted, and an Optional class is not
\* validated (json_transaction_serializer.py:166-176, 228-258).
IllFormedRefused ==
  phase = "called" /\ Documented(tp) /\ Refs[tp] = {} =>
    \/ WellFormed(Strip(tp), FALSE, text)
    \/ tp.kind = "optional" /\ text.form = "empty"

\* What a method returns, another one can be given: the answer to a result of a
\* documented type is a string that from_string takes for that type
\* (json_transaction_serializer.py:65-125, 131-271).  Excepted are None, bytes
\* (above), a date that is no datetime, which is answered in the quotes of JSON
\* (95-106, 226) and read without (134-136), and a datetime returned for a class,
\* whose component constrains objects only.  And only what is no value of the type
\* fails, unless a reference nested in a component raises.  A None in an Optional is
\* no value here.
ReturnsReadable ==
  Documented(tp) =>
    /\ /\ phase = "answered" /\ result.form # "empty" /\ tp.kind # "bytes"
       /\ tp.kind = "date" => result.form = "moment"
       /\ result.form = "moment" => tp.kind \notin Classes
       => Converts(Bare(tp), text) /\ Validates(tp, text)
    /\ phase = "failed" =>
         IF result.form = "moment" THEN tp.kind \notin Moments
         ELSE tp.kind = "datetime" \/ ~Fits(tp, FALSE, result.doc) \/ ~Resolvable(tp)

\* Does not hold.  "The JSON serializer understands the following Python types for
\* both parameters and return values" (fabric_contract_api/README.md:100-101): a string
\* that is a value of a documented type is not refused, a value of it that is returned
\* does not fail, and its answer can be passed on.  Against it are bytes, nested
\* references in a jsonschema of 4.18 or later, dates, and a None in an Optional.
DocumentedTypesUsable ==
  Documented(tp) =>
    /\ phase = "refused" => ~WellFormed(Strip(tp), TRUE, text)
    /\ phase = "failed" =>
         IF result.form = "moment" THEN tp.kind \notin Moments
         ELSE tp.kind = "datetime" \/ ~Fits(tp, TRUE, result.doc)
    /\ phase = "answered" /\ result.form = "json" =>
         Converts(Bare(tp), text) /\ Validates(tp, text)
=============================================================================
