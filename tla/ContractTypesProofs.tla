------------------------- MODULE ContractTypesProofs -------------------------
(***************************************************************************)
(* Theorems about ContractTypes, for any types, classes, documents and     *)
(* texts: cyclic classes and annotations of any depth.                     *)
(***************************************************************************)
EXTENDS ContractTypes, SequenceTheorems, DataInduction

(***************************************************************************)
(* Types and their parts.                                                  *)
(***************************************************************************)

Entries == [type : Types, seen : SUBSET Classes]
Elements(q) == {q[i] : i \in DOMAIN q}
TypesIn(q) == {e.type : e \in Elements(q)}
FieldsIn(c) == {FieldsOf[c][f] : f \in DOMAIN FieldsOf[c]}

\* The elements of a list are those of its head and its tail.
LEMMA HeadAndTail ==
  ASSUME NEW X, NEW q \in Seq(X), q # <<>>
  PROVE  /\ Head(q) \in X /\ Tail(q) \in Seq(X)
         /\ Elements(q) = {Head(q)} \cup Elements(Tail(q))
<1>1. /\ Len(q) \in Nat /\ Len(q) # 0 /\ DOMAIN q = 1 .. Len(q)
      /\ Head(q) = q[1] /\ Head(q) \in X /\ Tail(q) \in Seq(X)
      /\ Len(Tail(q)) = Len(q) - 1 /\ DOMAIN Tail(q) = 1 .. Len(q) - 1
      /\ \A i \in 1 .. Len(q) - 1 : Tail(q)[i] = q[i + 1]
  OBVIOUS
<1> DEFINE t == Tail(q)
<1> HIDE DEF t
<1>2. ASSUME NEW i \in 1 .. Len(q) PROVE q[i] = q[1] \/ \E j \in 1 .. Len(q) - 1 : q[i] = t[j]
  <2>1. CASE i = 1
    BY <2>1
  <2>2. CASE i # 1
    <3>1. i - 1 \in 1 .. Len(q) - 1 /\ i - 1 + 1 = i
      BY <1>1, <2>2
    <3>2. t[i - 1] = q[i]
      BY <1>1, <3>1 DEF t
    <3> QED
      BY <3>1, <3>2
  <2> QED
    BY <2>1, <2>2
<1>3. ASSUME NEW j \in 1 .. Len(q) - 1 PROVE \E i \in 1 .. Len(q) : t[j] = q[i]
  <2>1. j + 1 \in 1 .. Len(q) /\ t[j] = q[j + 1]
    BY <1>1 DEF t
  <2> QED
    BY <2>1
<1>4. 1 \in 1 .. Len(q)
  BY <1>1
<1>5. Elements(q) = {Head(q)} \cup Elements(t)
  <2>1. \A e : e \in Elements(q) <=> \E i \in 1 .. Len(q) : e = q[i]
    BY <1>1 DEF Elements
  <2>2. \A e : e \in Elements(t) <=> \E i \in 1 .. Len(q) - 1 : e = t[i]
    BY <1>1 DEF Elements, t
  <2> QED
    BY <1>1, <1>2, <1>3, <1>4, <2>1, <2>2
<1> QED
  BY <1>1, <1>5 DEF t

\* Those of two lists end to end are those of both.
LEMMA BothLists ==
  ASSUME NEW X, NEW p \in Seq(X), NEW q \in Seq(X)
  PROVE  p \o q \in Seq(X) /\ Elements(p \o q) = Elements(p) \cup Elements(q)
<1> DEFINE t == p \o q
<1>1. /\ Len(p) \in Nat /\ Len(q) \in Nat /\ t \in Seq(X)
      /\ DOMAIN p = 1 .. Len(p) /\ DOMAIN q = 1 .. Len(q) /\ DOMAIN t = 1 .. Len(p) + Len(q)
  BY ConcatProperties
<1>2. \A i \in 1 .. Len(p) + Len(q) : t[i] = IF i <= Len(p) THEN p[i] ELSE q[i - Len(p)]
  BY ConcatProperties
<1> HIDE DEF t
<1>3. ASSUME NEW i \in 1 .. Len(p) + Len(q)
      PROVE  (\E j \in 1 .. Len(p) : t[i] = p[j]) \/ \E j \in 1 .. Len(q) : t[i] = q[j]
  <2>1. CASE i <= Len(p)
    <3>1. i \in 1 .. Len(p) /\ t[i] = p[i]
      BY <1>1, <1>2, <2>1
    <3> QED
      BY <3>1
  <2>2. CASE ~(i <= Len(p))
    <3>1. i - Len(p) \in 1 .. Len(q) /\ t[i] = q[i - Len(p)]
      BY <1>1, <1>2, <2>2
    <3> QED
      BY <3>1
  <2> QED
    BY <2>1, <2>2
<1>4. ASSUME NEW j \in 1 .. Len(p) PROVE \E i \in 1 .. Len(p) + Len(q) : t[i] = p[j]
  <2>1. j \in 1 .. Len(p) + Len(q) /\ t[j] = p[j]
    BY <1>1, <1>2
  <2> QED
    BY <2>1
<1>5. ASSUME NEW j \in 1 .. Len(q) PROVE \E i \in 1 .. Len(p) + Len(q) : t[i] = q[j]
  <2>1. /\ Len(p) + j \in 1 .. Len(p) + Len(q) /\ ~(Len(p) + j <= Len(p))
        /\ Len(p) + j - Len(p) = j
    BY <1>1
  <2>2. t[Len(p) + j] = q[j]
    BY <1>2, <2>1
  <2> QED
    BY <2>1, <2>2
<1>6. Elements(t) = Elements(p) \cup Elements(q)
  <2>1. \A e : e \in Elements(t) <=> \E i \in 1 .. Len(p) + Len(q) : e = t[i]
    BY <1>1 DEF Elements
  <2>2. \A e : e \in Elements(p) <=> \E i \in 1 .. Len(p) : e = p[i]
    BY <1>1 DEF Elements
  <2>3. \A e : e \in Elements(q) <=> \E i \in 1 .. Len(q) : e = q[i]
    BY <1>1 DEF Elements
  <2>4. ASSUME NEW e \in Elements(t) PROVE e \in Elements(p) \cup Elements(q)
    <3>1. PICK i \in 1 .. Len(p) + Len(q) : e = t[i]
      BY <2>1
    <3> QED
      BY <1>3, <2>2, <2>3, <3>1
  <2>5. ASSUME NEW e \in Elements(p) PROVE e \in Elements(t)
    BY <1>4, <2>1, <2>2
  <2>6. ASSUME NEW e \in Elements(q) PROVE e \in Elements(t)
    BY <1>5, <2>1, <2>3
  <2> QED
    BY <2>4, <2>5, <2>6
<1> QED
  BY <1>1, <1>6 DEF t

\* Visiting a list of types.
LEMMA Visited ==
  ASSUME NEW ts \in Seq(Types), NEW seen \in SUBSET Classes
  PROVE  /\ Visit(ts, seen) \in Seq(Entries)
         /\ Elements(Visit(ts, seen)) = {[type |-> t, seen |-> seen] : t \in Elements(ts)}
<1> DEFINE v == Visit(ts, seen)
<1>1. /\ Len(ts) \in Nat /\ DOMAIN ts = 1 .. Len(ts)
      /\ \A i \in 1 .. Len(ts) : ts[i] \in Types
  OBVIOUS
<1>2. v = [k \in 1 .. Len(ts) |-> [type |-> ts[k], seen |-> seen]]
  BY <1>1 DEF Visit
<1>3. \A k \in 1 .. Len(ts) : [type |-> ts[k], seen |-> seen] \in Entries
  BY <1>1 DEF Entries
<1>4. v \in Seq(Entries)
  BY <1>1, <1>2, <1>3, SeqDef
<1>5. Elements(v) = {[type |-> t, seen |-> seen] : t \in Elements(ts)}
  BY <1>1, <1>2 DEF Elements
<1> QED
  BY <1>4, <1>5

\* The empty list has no elements, and is a list over any set.
LEMMA EmptyElements == Elements(<<>>) = {} /\ \A X : <<>> \in Seq(X)
BY DEF Elements

\* The parts of a type are types.
LEMMA TypeFacts ==
  ASSUME NEW t \in Types
  PROVE  /\ Strip(t) \in Types /\ Strip(t).kind # "optional"
         /\ t.args \in Seq(Types) /\ Items(t) \in Seq(Types)
         /\ Elements(Items(t)) \subseteq Elements(t.args)
<1>1. /\ t.args \in Seq(Types)
      /\ t.kind = "optional" => t.args # <<>> /\ t.args[1].kind # "optional"
  BY TypesAssumption
<1>2. Len(t.args) \in Nat /\ DOMAIN t.args = 1 .. Len(t.args)
      /\ \A i \in 1 .. Len(t.args) : t.args[i] \in Types
  BY <1>1
<1>3. t.args # <<>> => 1 \in DOMAIN t.args
  BY <1>1, <1>2, EmptySeq
<1>4. Strip(t) \in Types /\ Strip(t).kind # "optional"
  BY <1>1, <1>2, <1>3 DEF Strip
<1>5. Items(t) \in Seq(Types) /\ Elements(Items(t)) \subseteq Elements(t.args)
  <2>1. ASSUME NEW i \in DOMAIN t.args
        PROVE  <<t.args[i]>> \in Seq(Types) /\ Elements(<<t.args[i]>>) \subseteq Elements(t.args)
    <3>1. t.args[i] \in Types
      BY <1>2, <2>1
    <3>2. Elements(<<t.args[i]>>) = {t.args[i]}
      BY DEF Elements
    <3> QED
      BY <2>1, <3>1, <3>2 DEF Elements
  <2>2. <<>> \in Seq(Types) /\ Elements(<<>>) \subseteq Elements(t.args)
    BY EmptyElements
  <2>3. CASE t.kind = "dict" /\ Len(t.args) = 2
    <3>1. 2 \in DOMAIN t.args /\ Items(t) = <<t.args[2]>>
      BY <1>2, <2>3 DEF Items
    <3> QED
      BY <2>1, <3>1
  <2>4. CASE t.kind # "dict" /\ t.args # <<>>
    <3>1. 1 \in DOMAIN t.args /\ Items(t) = <<t.args[1]>>
      BY <1>3, <2>4 DEF Items
    <3> QED
      BY <2>1, <3>1
  <2>5. CASE ~(t.kind = "dict" /\ Len(t.args) = 2) /\ ~(t.kind # "dict" /\ t.args # <<>>)
    <3>1. Items(t) = <<>>
      BY <2>5 DEF Items
    <3> QED
      BY <2>2, <3>1
  <2> QED
    BY <2>3, <2>4, <2>5
<1> QED
  BY <1>1, <1>4, <1>5

\* The types of a class's fields.
LEMMA FieldFacts ==
  ASSUME NEW c \in Classes
  PROVE  /\ FieldTypes(c) \in Seq(Types) /\ Elements(FieldTypes(c)) = FieldsIn(c)
         /\ FieldsIn(c) \subseteq Types
<1>1. /\ Order[c] \in Seq(DOMAIN FieldsOf[c])
      /\ DOMAIN FieldsOf[c] = {Order[c][k] : k \in DOMAIN Order[c]}
      /\ \A f \in DOMAIN FieldsOf[c] : FieldsOf[c][f] \in Types
  BY TypesAssumption
<1>2. /\ Len(Order[c]) \in Nat /\ DOMAIN Order[c] = 1 .. Len(Order[c])
      /\ \A k \in 1 .. Len(Order[c]) : Order[c][k] \in DOMAIN FieldsOf[c]
  BY <1>1
<1>3. FieldTypes(c) = [k \in 1 .. Len(Order[c]) |-> FieldsOf[c][Order[c][k]]]
  BY <1>2 DEF FieldTypes
<1>4. \A k \in 1 .. Len(Order[c]) : FieldTypes(c)[k] = FieldsOf[c][Order[c][k]]
  BY <1>3
<1>5. FieldTypes(c) \in Seq(Types)
  <2>1. \A k \in 1 .. Len(Order[c]) : FieldsOf[c][Order[c][k]] \in Types
    BY <1>1, <1>2
  <2>2. FieldTypes(c) \in [1 .. Len(Order[c]) -> Types]
    BY <1>3, <2>1
  <2> QED
    BY <1>2, <2>2, SeqDef
<1>6. Elements(FieldTypes(c)) = FieldsIn(c)
  <2> DEFINE o == Order[c]
             v == FieldTypes(c)
             g == FieldsOf[c]
  <2>1. DOMAIN v = 1 .. Len(o) /\ DOMAIN o = 1 .. Len(o) /\ DOMAIN g = {o[k] : k \in DOMAIN o}
    BY <1>1, <1>2, <1>3
  <2>2. \A k \in 1 .. Len(o) : v[k] = g[o[k]]
    BY <1>4
  <2> HIDE DEF o, v, g
  <2>3. {v[i] : i \in DOMAIN v} = {g[f] : f \in DOMAIN g}
    BY <2>1, <2>2
  <2> QED
    BY <2>3 DEF o, v, g, Elements, FieldsIn
<1> QED
  BY <1>1, <1>5, <1>6 DEF FieldsIn

(***************************************************************************)
(* The walk of type_is_valid, and that of get_schema.                      *)
(***************************************************************************)

Known(t) == t.kind \in Containers \cup Scalars \cup Moments \cup Classes

\* What the schema of a type is described with.
Below(t) == IF t.kind \in Containers THEN Elements(Items(t))
            ELSE IF t.kind \in Classes THEN FieldsIn(t.kind)
            ELSE {}

\* The kinds are apart from each other.
LEMMA KindsApart ==
  ASSUME NEW c \in Classes
  PROVE  c \notin Containers /\ c \notin Scalars /\ c \notin Moments /\ c # "optional"
BY TypesAssumption

\* Where the walk goes on from a type it does not refuse.
LEMMA PartsFacts ==
  ASSUME NEW t \in Types, NEW seen \in SUBSET Classes, ~Rejects(t)
  PROVE  LET parts == Parts(t, seen) IN
         /\ Known(t) /\ parts \in Seq(Entries)
         /\ \/ /\ \A e \in Elements(parts) : e.seen = seen
               /\ Below(t) \subseteq TypesIn(parts) \/ t.kind \in seen
            \/ /\ t.kind \in Classes /\ Below(t) = FieldsIn(t.kind)
               /\ Below(t) \subseteq TypesIn(parts)
               /\ \A e \in Elements(parts) : e.seen = seen \cup {t.kind}
<1> DEFINE parts == Parts(t, seen)
<1>1. Known(t)
  BY DEF Rejects, Known
<1>2. ASSUME NEW ts \in Seq(Types), NEW around \in SUBSET Classes
      PROVE  /\ Visit(ts, around) \in Seq(Entries)
             /\ TypesIn(Visit(ts, around)) = Elements(ts)
             /\ \A e \in Elements(Visit(ts, around)) : e.seen = around
  <2>1. /\ Visit(ts, around) \in Seq(Entries)
        /\ Elements(Visit(ts, around)) = {[type |-> x, seen |-> around] : x \in Elements(ts)}
    BY Visited
  <2> DEFINE es == Elements(Visit(ts, around))
  <2> HIDE DEF es
  <2>2. \A e \in es : e.seen = around /\ e.type \in Elements(ts)
    BY <2>1 DEF es
  <2>3. ASSUME NEW x \in Elements(ts) PROVE \E e \in es : e.type = x
    <3>1. [type |-> x, seen |-> around] \in es
      BY <2>1 DEF es
    <3> QED
      BY <3>1
  <2>4. {e.type : e \in es} = Elements(ts)
    BY <2>2, <2>3
  <2> QED
    BY <2>1, <2>2, <2>4 DEF TypesIn, es
<1>3. /\ t.args \in Seq(Types) /\ Items(t) \in Seq(Types)
      /\ Elements(Items(t)) \subseteq Elements(t.args)
  BY TypeFacts
<1>4. CASE t.kind \in {"list", "tuple"}
  <2>1. parts = Visit(t.args, seen) /\ Below(t) = Elements(Items(t))
    BY <1>4, KindsApart DEF Parts, Below, Containers
  <2> QED
    BY <1>1, <1>2, <1>3, <2>1
<1>5. CASE t.kind = "dict"
  <2>1. parts = Visit(Items(t), seen) /\ Below(t) = Elements(Items(t))
    BY <1>5, KindsApart DEF Parts, Below, Containers
  <2> QED
    BY <1>1, <1>2, <1>3, <2>1
<1>6. CASE t.kind \in Classes \ seen
  <2>1. t.kind \notin Containers
    BY <1>6, KindsApart
  <2>2. parts = Visit(FieldTypes(t.kind), seen \cup {t.kind}) /\ Below(t) = FieldsIn(t.kind)
    BY <1>6, <2>1 DEF Parts, Below, Containers
  <2>3. FieldTypes(t.kind) \in Seq(Types) /\ Elements(FieldTypes(t.kind)) = FieldsIn(t.kind)
    BY <1>6, FieldFacts
  <2>4. seen \cup {t.kind} \in SUBSET Classes
    BY <1>6
  <2> QED
    BY <1>1, <1>2, <1>6, <2>2, <2>3, <2>4
<1>7. CASE t.kind \notin Containers /\ t.kind \notin Classes \ seen
  <2>1. parts = <<>>
    BY <1>7 DEF Parts, Containers
  <2>2. Below(t) = {} \/ t.kind \in seen
    BY <1>7 DEF Below
  <2>3. parts \in Seq(Entries) /\ Elements(parts) = {}
    BY <2>1, EmptyElements
  <2> QED
    BY <1>1, <2>2, <2>3
<1> QED
  BY <1>4, <1>5, <1>6, <1>7 DEF Containers

\* What a schema makes get_schema describe next.
LEMMA DescribedFacts ==
  ASSUME NEW t \in Types
  PROVE  /\ Described(t) \in Seq(Types) /\ Elements(Described(t)) \subseteq Below(t)
         /\ t.kind \notin Classes \cap DOMAIN registry => Elements(Described(t)) = Below(t)
<1>1. CASE t.kind \in Containers
  <2>1. Described(t) = Items(t) /\ Below(t) = Elements(Items(t))
    BY <1>1, KindsApart DEF Described, Below
  <2> QED
    BY <2>1, TypeFacts
<1>2. CASE t.kind \in Classes \ DOMAIN registry
  <2>1. t.kind \notin Containers
    BY <1>2, KindsApart
  <2>2. Described(t) = FieldTypes(t.kind) /\ Below(t) = FieldsIn(t.kind)
    BY <1>2, <2>1 DEF Described, Below
  <2> QED
    BY <1>2, <2>2, FieldFacts
<1>3. CASE t.kind \notin Containers /\ t.kind \notin Classes \ DOMAIN registry
  <2>1. Described(t) = <<>>
    BY <1>3 DEF Described
  <2>2. t.kind \notin Classes => Below(t) = {}
    BY <1>3 DEF Below
  <2> QED
    BY <1>3, <2>1, <2>2, EmptyElements
<1> QED
  BY <1>1, <1>2, <1>3

(***************************************************************************)
(* Types.                                                                  *)
(***************************************************************************)

\* The values of the variables, for any types and documents.
LEMMA TypeStep ==
  ASSUME TypeOK, [Next]_vars
  PROVE  TypeOK'
<1> USE DEF TypeOK
<1> DEFINE Q == Seq([type : Types, seen : SUBSET Classes])
<1>1. Q = Seq(Entries)
  BY DEF Entries
<1> HIDE DEF Q
<1>2. ASSUME todo # <<>>
      PROVE  /\ Head(todo).type \in Types /\ Head(todo).seen \in SUBSET Classes
             /\ Tail(todo) \in Seq(Entries)
             /\ Strip(Head(todo).type) \in Types
  <2>1. Head(todo) \in Entries /\ Tail(todo) \in Seq(Entries)
    BY <1>1, <1>2, HeadAndTail DEF Q
  <2> QED
    BY <2>1, TypeFacts DEF Entries
<1>3. CASE TypeIsValid
  <2> DEFINE t == Strip(Head(todo).type)
             seen == Head(todo).seen
  <2>1. phase = "checking" /\ todo # <<>> /\ UNCHANGED <<annotation, registry, result, text>>
    BY <1>3 DEF TypeIsValid
  <2>2. CASE Rejects(t)
    BY <1>3, <2>1, <2>2 DEF TypeIsValid, annotation
  <2>3. CASE ~Rejects(t)
    <3>1. phase' = phase /\ todo' = Parts(t, seen) \o Tail(todo)
      BY <1>3, <2>3 DEF TypeIsValid
    <3>2. Parts(t, seen) \in Seq(Entries)
      BY <1>2, <2>1, <2>3, PartsFacts
    <3>3. todo' \in Seq(Entries)
      BY <1>2, <2>1, <3>1, <3>2, BothLists
    <3> QED
      BY <1>1, <2>1, <3>1, <3>3 DEF Q, annotation
  <2> QED
    BY <2>2, <2>3
<1>4. CASE Accepted
  <2>1. /\ phase' = "describing" /\ todo' = Visit(<<tp>>, {})
        /\ UNCHANGED <<annotation, registry, result, text>>
    BY <1>4 DEF Accepted
  <2>2. <<tp>> \in Seq(Types)
    OBVIOUS
  <2>3. todo' \in Seq(Entries)
    BY <2>1, <2>2, Visited
  <2> QED
    BY <1>1, <2>1, <2>3 DEF Q, annotation
<1>5. CASE GetSchema
  <2> DEFINE t == Strip(Head(todo).type)
  <2>1. phase = "describing" /\ todo # <<>> /\ UNCHANGED <<annotation, result, text>>
    BY <1>5 DEF GetSchema
  <2>2. CASE ~Known(t)
    BY <1>5, <2>1, <2>2 DEF GetSchema, annotation, Known
  <2>3. CASE Known(t)
    <3>1. phase' = phase /\ todo' = Visit(Described(t), {}) \o Tail(todo) /\ AddComponent(t)
      BY <1>5, <2>3 DEF GetSchema, Known
    <3>2. Visit(Described(t), {}) \in Seq(Entries)
      BY <1>2, <2>1, DescribedFacts, Visited
    <3>3. todo' \in Seq(Entries)
      BY <1>2, <2>1, <3>1, <3>2, BothLists
    <3>4. DOMAIN registry' \subseteq Classes
      BY <3>1 DEF AddComponent
    <3> QED
      BY <1>1, <2>1, <3>1, <3>3, <3>4 DEF Q, annotation
  <2> QED
    BY <2>2, <2>3
<1>6. CASE Reflected
  BY <1>6 DEF Reflected, annotation
<1>7. ASSUME NEW x \in Texts, FromString(x) PROVE TypeOK'
  BY <1>7 DEF FromString, annotation
<1>8. ASSUME NEW x \in Texts, Return(x) PROVE TypeOK'
  <2>1. text' \in Texts \cup {NoText}
    <3>1. StringOf(x) \in {x, [form |-> "word"]}
      BY DEF StringOf
    <3> QED
      BY <1>8, <3>1, DocsAssumption DEF Return
  <2> QED
    BY <1>8, <2>1 DEF Return, annotation
<1>9. CASE UNCHANGED vars
  BY <1>9 DEF vars, annotation
<1> QED
  BY <1>3, <1>4, <1>5, <1>6, <1>7, <1>8, <1>9 DEF Next

\* The first entry is of the annotation.
LEMMA TypeInit == Init => TypeOK /\ TypesIn(todo) = {tp} /\ DOMAIN registry = {}
<1> SUFFICES ASSUME Init PROVE TypeOK /\ TypesIn(todo) = {tp} /\ DOMAIN registry = {}
  OBVIOUS
<1>1. /\ tp \in Types /\ use \in {"param", "return"}
      /\ phase = IF use = "param" THEN "checking" ELSE "describing"
      /\ todo = <<[type |-> tp, seen |-> {}]>>
      /\ registry = <<>> /\ result = NoText /\ text = NoText
  BY DEF Init
<1>2. todo \in Seq([type : Types, seen : SUBSET Classes])
  BY <1>1
<1>3. TypesIn(todo) = {tp}
  <2>1. Elements(todo) = {[type |-> tp, seen |-> {}]}
    BY <1>1 DEF Elements
  <2> QED
    BY <2>1 DEF TypesIn
<1>4. DOMAIN registry = {}
  <2>1. DOMAIN <<>> = {}
    OBVIOUS
  <2> QED
    BY <1>1, <2>1
<1>5. TypeOK
  <2>1. byId \in BOOLEAN
    BY DEF Init
  <2> QED
    BY <1>1, <1>2, <1>4, <2>1 DEF TypeOK
<1> QED
  BY <1>3, <1>4, <1>5

\* The states are of the types of TypeOK, for any types and documents.
THEOREM TypesHold == Spec => []TypeOK
<1>1. Init => TypeOK
  BY TypeInit
<1> QED
  BY <1>1, TypeStep, PTL DEF Spec

(***************************************************************************)
(* What type_is_valid accepts, get_schema describes.                       *)
(***************************************************************************)

\* A set of types that get_schema knows, with what their schemas are described with,
\* up to some still to come.
Sound(S, R) == \A t \in S : Known(Strip(t)) /\ Below(Strip(t)) \subseteq S \cup R

\* The fields of the classes around the entries of a walk.
Around(q, R) == \A e \in Elements(q) : \A c \in e.seen : FieldsIn(c) \subseteq R

\* What type_is_valid has looked at is sound up to what it still has to visit: a class
\* that it passes over, being inside of it, has its fields among either.
CheckedSound ==
  phase = "checking" =>
    \E S \in SUBSET Types : LET R == TypesIn(todo) IN
      tp \in S \cup R /\ Sound(S, R) /\ Around(todo, S \cup R)

\* What get_schema still has to describe is in a set that is sound by itself.
DescribedSound ==
  phase = "describing" /\ use = "param" =>
    \E S \in SUBSET Types : TypesIn(todo) \subseteq S /\ Sound(S, {})

Reflecting == TypeOK /\ CheckedSound /\ DescribedSound /\ AcceptedTypesReflect

\* The types still to visit, without the first.
LEMMA NextType ==
  ASSUME TypeOK, todo # <<>>
  PROVE  LET h == Head(todo) IN
         /\ h \in Entries /\ Strip(h.type) \in Types /\ Tail(todo) \in Seq(Entries)
         /\ Elements(todo) = {h} \cup Elements(Tail(todo))
         /\ TypesIn(todo) = {h.type} \cup TypesIn(Tail(todo))
         /\ TypesIn(todo) \subseteq Types
<1> DEFINE h == Head(todo)
<1>1. todo \in Seq(Entries)
  BY DEF TypeOK, Entries
<1>2. h \in Entries /\ Tail(todo) \in Seq(Entries) /\ Elements(todo) = {h} \cup Elements(Tail(todo))
  BY <1>1, HeadAndTail
<1>3. h.type \in Types
  BY <1>2 DEF Entries
<1>4. Elements(todo) \subseteq Entries
  BY <1>1 DEF Elements
<1>5. TypesIn(todo) \subseteq Types
  BY <1>4 DEF TypesIn, Entries
<1> HIDE DEF h
<1>6. TypesIn(todo) = {h.type} \cup TypesIn(Tail(todo))
  BY <1>2 DEF TypesIn
<1> QED
  BY <1>2, <1>3, <1>5, <1>6, TypeFacts DEF h

\* The types of two lists of entries.
LEMMA TypesInBoth ==
  ASSUME NEW p \in Seq(Entries), NEW q \in Seq(Entries)
  PROVE  /\ Elements(p \o q) = Elements(p) \cup Elements(q)
         /\ TypesIn(p \o q) = TypesIn(p) \cup TypesIn(q)
<1>1. Elements(p \o q) = Elements(p) \cup Elements(q)
  BY BothLists
<1> QED
  BY <1>1 DEF TypesIn

\* The types of a visit.
LEMMA TypesOfVisit ==
  ASSUME NEW ts \in Seq(Types), NEW seen \in SUBSET Classes
  PROVE  Visit(ts, seen) \in Seq(Entries) /\ TypesIn(Visit(ts, seen)) = Elements(ts)
<1>1. /\ Visit(ts, seen) \in Seq(Entries)
      /\ Elements(Visit(ts, seen)) = {[type |-> t, seen |-> seen] : t \in Elements(ts)}
  BY Visited
<1> DEFINE es == Elements(Visit(ts, seen))
<1> HIDE DEF es
<1>2. \A e \in es : e.type \in Elements(ts)
  BY <1>1 DEF es
<1>3. ASSUME NEW x \in Elements(ts) PROVE \E e \in es : e.type = x
  <2>1. [type |-> x, seen |-> seen] \in es
    BY <1>1 DEF es
  <2> QED
    BY <2>1
<1>4. {e.type : e \in es} = Elements(ts)
  BY <1>2, <1>3
<1> QED
  BY <1>1, <1>4 DEF TypesIn, es

\* A step of type_is_valid.
LEMMA CheckStep ==
  ASSUME TypeOK, CheckedSound, TypeIsValid
  PROVE  CheckedSound'
<1> DEFINE h == Head(todo)
           t == Strip(h.type)
           parts == Parts(t, h.seen)
           R == TypesIn(todo)
<1>1. phase = "checking" /\ todo # <<>> /\ tp' = tp
  BY DEF TypeIsValid, annotation
<1>2. CASE Rejects(t)
  BY <1>2 DEF TypeIsValid, CheckedSound
<1>3. CASE ~Rejects(t)
  <2>1. phase' = phase /\ todo' = parts \o Tail(todo)
    BY <1>3 DEF TypeIsValid
  <2>2. /\ h \in Entries /\ t \in Types /\ Tail(todo) \in Seq(Entries)
        /\ Elements(todo) = {h} \cup Elements(Tail(todo))
        /\ R = {h.type} \cup TypesIn(Tail(todo)) /\ R \subseteq Types
        /\ h.seen \in SUBSET Classes
    BY <1>1, NextType DEF Entries
  <2>3. PICK S \in SUBSET Types : tp \in S \cup R /\ Sound(S, R) /\ Around(todo, S \cup R)
    BY <1>1 DEF CheckedSound
  <2> DEFINE T == S \cup {h.type}
             R2 == TypesIn(todo')
  <2> HIDE DEF h, t, R
  <2>4. /\ Known(t) /\ parts \in Seq(Entries)
        /\ \/ /\ \A e \in Elements(parts) : e.seen = h.seen
              /\ Below(t) \subseteq TypesIn(parts) \/ t.kind \in h.seen
           \/ /\ t.kind \in Classes /\ Below(t) = FieldsIn(t.kind)
              /\ Below(t) \subseteq TypesIn(parts)
              /\ \A e \in Elements(parts) : e.seen = h.seen \cup {t.kind}
    BY <1>3, <2>2, PartsFacts
  <2> HIDE DEF parts
  <2>5. R2 = TypesIn(parts) \cup TypesIn(Tail(todo))
    <3>1. TypesIn(parts \o Tail(todo)) = TypesIn(parts) \cup TypesIn(Tail(todo))
      BY <2>2, <2>4, TypesInBoth
    <3> QED
      BY <2>1, <3>1
  <2>6. Elements(todo') = Elements(parts) \cup Elements(Tail(todo))
    <3>1. Elements(parts \o Tail(todo)) = Elements(parts) \cup Elements(Tail(todo))
      BY <2>2, <2>4, TypesInBoth
    <3> QED
      BY <2>1, <3>1
  <2> HIDE DEF R2
  <2>7. S \cup R \subseteq T \cup R2
    BY <2>2, <2>5
  <2>8. \A c \in h.seen : FieldsIn(c) \subseteq S \cup R
    BY <2>2, <2>3 DEF Around
  <2>9. Below(t) \subseteq T \cup R2
    <3>1. CASE Below(t) \subseteq TypesIn(parts)
      BY <2>5, <3>1
    <3>2. CASE t.kind \in h.seen
      <4>1. t.kind \in Classes
        BY <2>2, <3>2
      <4>2. Below(t) = FieldsIn(t.kind)
        BY <4>1, KindsApart DEF Below
      <4> QED
        BY <2>7, <2>8, <3>2, <4>2
    <3> QED
      BY <2>4, <3>1, <3>2
  <2>10. Sound(T, R2)
    <3> SUFFICES ASSUME NEW x \in T
                 PROVE  Known(Strip(x)) /\ Below(Strip(x)) \subseteq T \cup R2
      BY DEF Sound
    <3>1. CASE x \in S
      BY <2>3, <2>7, <3>1 DEF Sound
    <3>2. CASE x = h.type
      BY <2>4, <2>9, <3>2 DEF t
    <3> QED
      BY <3>1, <3>2
  <2>11. Around(todo', T \cup R2)
    <3> SUFFICES ASSUME NEW e \in Elements(todo'), NEW c \in e.seen
                 PROVE  FieldsIn(c) \subseteq T \cup R2
      BY DEF Around
    <3>1. CASE e \in Elements(Tail(todo))
      <4>1. e \in Elements(todo)
        BY <2>2, <3>1
      <4> QED
        BY <2>3, <2>7, <4>1 DEF Around
    <3>2. CASE e \in Elements(parts) /\ c \in h.seen
      BY <2>7, <2>8, <3>2
    <3>3. CASE e \in Elements(parts) /\ c \notin h.seen
      <4>1. c = t.kind /\ Below(t) = FieldsIn(t.kind)
        BY <2>4, <3>3
      <4> QED
        BY <2>9, <4>1
    <3> QED
      BY <2>6, <3>1, <3>2, <3>3
  <2>12. T \in SUBSET Types /\ tp' \in T \cup R2
    BY <1>1, <2>2, <2>3, <2>7
  <2> QED
    BY <2>10, <2>11, <2>12 DEF CheckedSound, R2
<1> QED
  BY <1>2, <1>3

\* The walk of get_schema begins with the annotation, when that of type_is_valid ends.
LEMMA AcceptStep ==
  ASSUME TypeOK, CheckedSound, Accepted
  PROVE  DescribedSound'
<1>1. phase = "checking" /\ todo = <<>> /\ todo' = Visit(<<tp>>, {})
  BY DEF Accepted
<1>2. TypesIn(todo) = {}
  BY <1>1, EmptyElements DEF TypesIn
<1>3. PICK S \in SUBSET Types : tp \in S /\ Sound(S, {})
  BY <1>1, <1>2 DEF CheckedSound
<1>4. TypesIn(todo') = {tp}
  <2>1. <<tp>> \in Seq(Types) /\ Elements(<<tp>>) = {tp}
    BY DEF TypeOK, Elements
  <2> QED
    BY <1>1, <2>1, TypesOfVisit
<1> QED
  BY <1>3, <1>4 DEF DescribedSound

\* A step of get_schema.
LEMMA DescribeStep ==
  ASSUME TypeOK, DescribedSound, GetSchema, use = "param"
  PROVE  DescribedSound' /\ phase' = "describing"
<1> DEFINE h == Head(todo)
           t == Strip(h.type)
<1>1. phase = "describing" /\ todo # <<>>
  BY DEF GetSchema
<1>2. PICK S \in SUBSET Types : TypesIn(todo) \subseteq S /\ Sound(S, {})
  BY <1>1 DEF DescribedSound
<1>3. /\ t \in Types /\ Tail(todo) \in Seq(Entries)
      /\ TypesIn(todo) = {h.type} \cup TypesIn(Tail(todo))
  BY <1>1, NextType
<1>4. Known(t) /\ Below(t) \subseteq S
  BY <1>2, <1>3 DEF Sound
<1>5. phase' = phase /\ todo' = Visit(Described(t), {}) \o Tail(todo)
  BY <1>4 DEF GetSchema, Known
<1> HIDE DEF t
<1>6. Described(t) \in Seq(Types) /\ Elements(Described(t)) \subseteq Below(t)
  BY <1>3, DescribedFacts
<1>7. TypesIn(todo') = Elements(Described(t)) \cup TypesIn(Tail(todo))
  <2> DEFINE v == Visit(Described(t), {})
  <2>1. v \in Seq(Entries) /\ TypesIn(v) = Elements(Described(t))
    BY <1>6, TypesOfVisit
  <2> HIDE DEF v
  <2>2. TypesIn(v \o Tail(todo)) = TypesIn(v) \cup TypesIn(Tail(todo))
    BY <1>3, <2>1, TypesInBoth
  <2> QED
    BY <1>5, <2>1, <2>2 DEF v
<1>8. TypesIn(todo') \subseteq S
  BY <1>2, <1>3, <1>4, <1>6, <1>7
<1> QED
  BY <1>1, <1>2, <1>5, <1>8 DEF DescribedSound

\* Every step keeps the two walks together.
LEMMA ReflectingStep ==
  ASSUME Reflecting, [Next]_vars
  PROVE  Reflecting'
<1> USE DEF Reflecting
<1>1. TypeOK'
  BY TypeStep
<1>2. CASE TypeIsValid
  <2>1. phase = "checking" /\ phase' \in {"checking", "rejected"}
    BY <1>2 DEF TypeIsValid
  <2> QED
    BY <1>1, <1>2, <2>1, CheckStep DEF DescribedSound, AcceptedTypesReflect
<1>3. CASE Accepted
  <2>1. phase' = "describing"
    BY <1>3 DEF Accepted
  <2> QED
    BY <1>1, <1>3, <2>1, AcceptStep DEF CheckedSound, AcceptedTypesReflect
<1>4. CASE GetSchema
  <2>1. use' = use /\ phase' # "checking"
    BY <1>4 DEF GetSchema, annotation
  <2>2. CASE use = "param"
    BY <1>1, <1>4, <2>1, <2>2, DescribeStep DEF CheckedSound, AcceptedTypesReflect
  <2>3. CASE use # "param"
    BY <1>1, <2>1, <2>3 DEF CheckedSound, DescribedSound, AcceptedTypesReflect
  <2> QED
    BY <2>2, <2>3
<1>5. ASSUME Reflected \/ \E x \in Texts : FromString(x) \/ Return(x) PROVE Reflecting'
  <2>1. phase' \in {"ready", "called", "refused", "answered", "failed"}
    BY <1>5 DEF Reflected, FromString, Return
  <2> QED
    BY <1>1, <2>1 DEF CheckedSound, DescribedSound, AcceptedTypesReflect
<1>6. CASE UNCHANGED vars
  <2>1. phase' = phase /\ todo' = todo /\ tp' = tp /\ use' = use
    BY <1>6 DEF vars, annotation
  <2> QED
    BY <1>1, <2>1 DEF CheckedSound, DescribedSound, AcceptedTypesReflect
<1> QED
  BY <1>2, <1>3, <1>4, <1>5, <1>6 DEF Next

\* Whatever a contract annotates its parameters with, what type_is_valid accepts does
\* not make get_schema raise, through cyclic classes and at any depth.
THEOREM AcceptedTypesReflectHolds == Spec => []AcceptedTypesReflect
<1>1. Init => Reflecting
  <2> SUFFICES ASSUME Init PROVE Reflecting
    OBVIOUS
  <2>1. TypeOK /\ TypesIn(todo) = {tp}
    BY TypeInit
  <2>2. phase = (IF use = "param" THEN "checking" ELSE "describing")
        /\ todo = <<[type |-> tp, seen |-> {}]>>
    BY DEF Init
  <2>3. CheckedSound
    <3>1. Elements(todo) = {[type |-> tp, seen |-> {}]}
      BY <2>2 DEF Elements
    <3>2. Around(todo, {tp}) /\ Sound({}, {tp})
      BY <3>1 DEF Around, Sound
    <3> QED
      BY <2>1, <3>2 DEF CheckedSound
  <2> QED
    BY <2>1, <2>2, <2>3 DEF Reflecting, DescribedSound, AcceptedTypesReflect
<1>2. Reflecting /\ [Next]_vars => Reflecting'
  BY ReflectingStep
<1>3. Reflecting => AcceptedTypesReflect
  BY DEF Reflecting
<1> QED
  BY <1>1, <1>2, <1>3, PTL DEF Spec

(***************************************************************************)
(* The classes that a type refers to.                                      *)
(***************************************************************************)

RefsOf(T) == UNION {Refs[t] : t \in T}

\* The parts of a type nest less deep than the type, an Optional's too.
LEMMA ItemsNest ==
  ASSUME NEW t \in Types, NEW k \in DOMAIN Items(Strip(t))
  PROVE  Items(Strip(t))[k] \in Types /\ Depth[Items(Strip(t))[k]] < Depth[t]
<1> DEFINE s == Strip(t)
           x == Items(s)[k]
<1>1. /\ s \in Types /\ s.args \in Seq(Types) /\ Items(s) \in Seq(Types)
      /\ Elements(Items(s)) \subseteq Elements(s.args)
  BY TypeFacts
<1>2. x \in Types /\ x \in Elements(s.args)
  <2>1. x \in Elements(Items(s))
    BY DEF Elements
  <2>2. x \in Types
    BY <1>1
  <2> QED
    BY <1>1, <2>1, <2>2
<1>3. PICK j \in DOMAIN s.args : x = s.args[j]
  BY <1>2 DEF Elements
<1>4. Depth[x] < Depth[s]
  BY <1>1, <1>3, DepthAssumption
<1>5. Depth[s] <= Depth[t]
  <2>1. CASE t.kind = "optional"
    <3>1. t.args \in Seq(Types) /\ t.args # <<>> /\ s = t.args[1]
      BY <2>1, TypesAssumption DEF Strip
    <3>2. 1 \in DOMAIN t.args
      BY <3>1
    <3>3. Depth[s] < Depth[t] /\ Depth[s] \in Nat /\ Depth[t] \in Nat
      BY <1>1, <3>1, <3>2, DepthAssumption
    <3> QED
      BY <3>3
  <2>2. CASE t.kind # "optional"
    <3>1. s = t /\ Depth[t] \in Nat
      BY <2>2, DepthAssumption DEF Strip
    <3> QED
      BY <3>1
  <2> QED
    BY <2>1, <2>2
<1>6. Depth[x] \in Nat /\ Depth[s] \in Nat /\ Depth[t] \in Nat
  BY <1>1, <1>2, DepthAssumption
<1> QED
  BY <1>2, <1>4, <1>5, <1>6

\* Refs unfolds.
LEMMA RefsUnfolds ==
  /\ Refs \in [Types -> SUBSET Classes]
  /\ \A t \in Types :
       /\ Strip(t).kind \in Classes => Refs[t] = {Strip(t).kind}
       /\ Strip(t).kind \notin Classes => Refs[t] = RefsOf(Below(Strip(t)))
<1> DEFINE T == SUBSET Classes
           items(t) == Items(Strip(t))
           Under(g, t) == UNION {g[items(t)[k]] : k \in DOMAIN items(t)}
           Step(g, t) == IF Strip(t).kind \in Classes THEN {Strip(t).kind}
                         ELSE IF Strip(t).kind \in Containers THEN Under(g, t)
                         ELSE {}
           F == [g \in [Types -> T] |-> [t \in Types |-> Step(g, t)]]
<1>1. \A t \in Types : \A k \in DOMAIN items(t) :
        items(t)[k] \in Types /\ Depth[items(t)[k]] < Depth[t]
  BY ItemsNest
<1> HIDE DEF items
<1>2. ASSUME NEW g, NEW t \in Types, \A y \in Types : Depth[y] < Depth[t] => g[y] \in T
      PROVE  Step(g, t) \in T
  <2>1. \A k \in DOMAIN items(t) : g[items(t)[k]] \in T
    BY <1>1, <1>2
  <2>2. Under(g, t) \in T
    BY <2>1
  <2> HIDE DEF Under
  <2> QED
    BY <2>2
<1>3. ASSUME NEW g, NEW h, NEW t \in Types,
             \A y \in Types : Depth[y] < Depth[t] => g[y] = h[y]
      PROVE  Step(g, t) = Step(h, t)
  <2>1. \A k \in DOMAIN items(t) : g[items(t)[k]] = h[items(t)[k]]
    BY <1>1, <1>3
  <2>2. Under(g, t) = Under(h, t)
    BY <2>1
  <2> HIDE DEF Under
  <2> QED
    BY <2>2
<1> HIDE DEF Step
<1>4. F \in [[Types -> T] -> [Types -> T]]
  BY <1>2
<1>5. \A g, h \in [Types -> T] : \A t \in Types :
        (\A y \in Types : Depth[y] < Depth[t] => g[y] = h[y]) => F[g][t] = F[h][t]
  BY <1>3
<1>6. \E f \in [Types -> T] : f = F[f]
  <2> HIDE DEF F, T
  <2>1. Unfolds(F, Types, T, Depth)
    BY <1>4, <1>5, DepthAssumption DEF Unfolds
  <2>2. {} \in T
    BY DEF T
  <2> QED
    BY <2>1, <2>2, RecursionByRank
<1>7. \E f : f = [t \in Types |-> Step(f, t)]
  <2> HIDE DEF T
  <2> QED
    BY <1>6
<1>8. Refs = [t \in Types |-> Step(Refs, t)]
  BY <1>7 DEF Refs, Step, items
<1>9. \A t \in Types : Refs[t] = Step(Refs, t)
  <2> DEFINE st(t) == Step(Refs, t)
  <2>1. Refs = [t \in Types |-> st(t)]
    BY <1>8
  <2> HIDE DEF st
  <2>2. \A t \in Types : Refs[t] = st(t)
    BY <2>1
  <2> QED
    BY <2>2 DEF st
<1>10. \A t \in Types : Refs[t] \in T
  <2> DEFINE P == {t \in Types : Refs[t] \in T}
  <2> HIDE DEF T
  <2>1. ASSUME NEW t \in Types, \A y \in Types : Depth[y] < Depth[t] => y \in P
        PROVE  t \in P
    <3>1. Step(Refs, t) \in T
      BY <1>2, <2>1
    <3> QED
      BY <1>9, <3>1
  <2> HIDE DEF P
  <2>2. \A t \in Types : t \in P
    BY <2>1, DepthAssumption, InductionByRank
  <2> QED
    BY <2>2 DEF P
<1>11. Refs \in [Types -> T]
  <2>1. Refs = [t \in Types |-> Refs[t]]
    BY <1>8
  <2> HIDE DEF T
  <2> QED
    BY <1>10, <2>1
<1>12. ASSUME NEW t \in Types
       PROVE  /\ Strip(t).kind \in Classes => Refs[t] = {Strip(t).kind}
              /\ Strip(t).kind \notin Classes => Refs[t] = RefsOf(Below(Strip(t)))
  <2> DEFINE s == Strip(t)
  <2>1. Refs[t] = Step(Refs, t)
    BY <1>9
  <2>2. CASE s.kind \in Classes
    BY <2>1, <2>2 DEF Step
  <2>3. CASE s.kind \in Containers
    <3>1. s.kind \notin Classes
      BY <2>3, KindsApart
    <3>2. Refs[t] = Under(Refs, t)
      BY <2>1, <2>3, <3>1 DEF Step
    <3>3. Below(s) = Elements(items(t))
      BY <2>3 DEF Below, items
    <3>4. Under(Refs, t) = RefsOf(Elements(items(t)))
      BY DEF RefsOf, Elements
    <3> QED
      BY <3>1, <3>2, <3>3, <3>4
  <2>4. CASE s.kind \notin Classes /\ s.kind \notin Containers
    <3>1. Refs[t] = {} /\ Below(s) = {}
      BY <2>1, <2>4 DEF Step, Below
    <3> QED
      BY <2>4, <3>1 DEF RefsOf
  <2> QED
    BY <2>2, <2>3, <2>4
<1> QED
  BY <1>11, <1>12

\* A set of classes that holds what the fields of its classes refer to.
LEMMA ClosedFields ==
  ASSUME NEW S
  PROVE  Closed(S) <=> \A c \in S : RefsOf(FieldsIn(c)) \subseteq S
BY DEF Closed, RefsOf, FieldsIn

\* What the types of two sets refer to.
LEMMA RefsOfBoth ==
  ASSUME NEW S, NEW T
  PROVE  RefsOf(S \cup T) = RefsOf(S) \cup RefsOf(T)
BY DEF RefsOf

\* Fewer types refer to fewer classes.
LEMMA RefsOfPart ==
  ASSUME NEW S, NEW T, S \subseteq T
  PROVE  RefsOf(S) \subseteq RefsOf(T)
BY DEF RefsOf

\* What one type refers to.
LEMMA RefsOfOne ==
  ASSUME NEW t
  PROVE  RefsOf({t}) = Refs[t]
BY DEF RefsOf

(***************************************************************************)
(* The registry of components.                                             *)
(***************************************************************************)

\* D are the classes described and P those that what is still to describe refers to:
\* with these D has every class that is referred to, and there is no other.
Reached(D, P) ==
  /\ Refs[tp] \subseteq D \cup P
  /\ \A c \in D : RefsOf(FieldsIn(c)) \subseteq D \cup P
  /\ \A S \in SUBSET Classes : Refs[tp] \subseteq S /\ Closed(S) => D \cup P \subseteq S

\* A component has the fields of its class.
RegistryGrows ==
  /\ phase = "checking" => DOMAIN registry = {}
  /\ \A c \in DOMAIN registry : registry[c] = FieldsOf[c]
  /\ phase \notin {"checking", "rejected", "raised"} =>
       Reached(DOMAIN registry, RefsOf(TypesIn(todo)))

\* A step of get_schema.
LEMMA RegistryStep ==
  ASSUME TypeOK, RegistryGrows, GetSchema, phase' = "describing"
  PROVE  RegistryGrows'
<1> DEFINE h == Head(todo)
           t == Strip(h.type)
           D == DOMAIN registry
           P == RefsOf(TypesIn(todo))
           q == TypesIn(Tail(todo))
           N == Elements(Described(t))
           D2 == DOMAIN registry'
           P2 == RefsOf(TypesIn(todo'))
<1>1. phase = "describing" /\ todo # <<>> /\ tp' = tp
  BY DEF GetSchema, annotation
<1>2. /\ t \in Types /\ h.type \in Types /\ Tail(todo) \in Seq(Entries)
      /\ TypesIn(todo) = {h.type} \cup q
  BY <1>1, NextType DEF Entries
<1>3. todo' = Visit(Described(t), {}) \o Tail(todo) /\ AddComponent(t)
  BY DEF GetSchema
<1>4. /\ Described(t) \in Seq(Types) /\ N \subseteq Below(t)
      /\ t.kind \notin Classes \cap D => N = Below(t)
  BY <1>2, DescribedFacts
<1>5. Reached(D, P) /\ D \subseteq Classes /\ \A c \in D : registry[c] = FieldsOf[c]
  BY <1>1 DEF RegistryGrows, TypeOK
<1>6. /\ D2 = IF t.kind \in Classes THEN D \cup {t.kind} ELSE D
      /\ \A c \in D2 : registry'[c] = FieldsOf[c]
  BY <1>3, <1>5 DEF AddComponent
<1>7. /\ t.kind \in Classes => Refs[h.type] = {t.kind} /\ Below(t) = FieldsIn(t.kind)
      /\ t.kind \notin Classes => Refs[h.type] = RefsOf(Below(t))
  BY <1>2, RefsUnfolds, KindsApart DEF Below
<1>8. P = Refs[h.type] \cup RefsOf(q)
  <2>1. RefsOf({h.type} \cup q) = RefsOf({h.type}) \cup RefsOf(q)
    BY RefsOfBoth
  <2>2. RefsOf({h.type}) = Refs[h.type]
    BY RefsOfOne
  <2> QED
    BY <1>2, <2>1, <2>2, Zenon
<1>9. P2 = RefsOf(N) \cup RefsOf(q)
  <2> DEFINE v == Visit(Described(t), {})
  <2>1. v \in Seq(Entries) /\ TypesIn(v) = N
    BY <1>4, TypesOfVisit
  <2> HIDE DEF v, N
  <2>2. TypesIn(v \o Tail(todo)) = N \cup q
    BY <1>2, <2>1, TypesInBoth
  <2>3. TypesIn(todo') = N \cup q
    BY <1>3, <2>2 DEF v
  <2> QED
    BY <2>3, RefsOfBoth
<1>10. RefsOf(N) \subseteq RefsOf(Below(t))
  BY <1>4, RefsOfPart
<1> HIDE DEF t, D, P, q, N, D2, P2
<1>11. Reached(D2, P2)
  <2>1. CASE t.kind \notin Classes
    <3>1. D2 = D /\ P2 = P
      BY <1>4, <1>6, <1>7, <1>8, <1>9, <2>1
    <3> QED
      BY <1>5, <3>1
  <2>2. CASE t.kind \in Classes
    <3> DEFINE k == t.kind
               B == RefsOf(FieldsIn(k))
    <3>1. D2 = D \cup {k} /\ P = {k} \cup RefsOf(q) /\ P2 = RefsOf(N) \cup RefsOf(q)
      BY <1>6, <1>7, <1>8, <1>9, <2>2
    <3>2. RefsOf(N) \subseteq B /\ (k \notin D => RefsOf(N) = B)
      BY <1>4, <1>7, <1>10, <2>2
    <3>3. /\ Refs[tp] \subseteq D \cup P
          /\ \A c \in D : RefsOf(FieldsIn(c)) \subseteq D \cup P
          /\ \A S \in SUBSET Classes :
               Refs[tp] \subseteq S /\ Closed(S) => D \cup P \subseteq S
      BY <1>5 DEF Reached
    <3> HIDE DEF k, B
    <3>4. D \cup P \subseteq D2 \cup P2
      BY <3>1
    <3>5. B \subseteq D2 \cup P2
      <4>1. CASE k \in D
        BY <3>3, <3>4, <4>1 DEF B
      <4>2. CASE k \notin D
        BY <3>1, <3>2, <4>2
      <4> QED
        BY <4>1, <4>2
    <3>6. ASSUME NEW c \in D2 PROVE RefsOf(FieldsIn(c)) \subseteq D2 \cup P2
      <4>1. CASE c \in D
        BY <3>3, <3>4, <4>1
      <4>2. CASE c = k
        BY <3>5, <4>2 DEF B
      <4> QED
        BY <3>1, <4>1, <4>2
    <3>7. ASSUME NEW S \in SUBSET Classes, Refs[tp] \subseteq S, Closed(S)
          PROVE  D2 \cup P2 \subseteq S
      <4>1. D \cup P \subseteq S
        BY <3>3, <3>7
      <4>2. k \in S
        BY <3>1, <4>1
      <4>3. B \subseteq S
        BY <3>7, <4>2, ClosedFields DEF B
      <4> QED
        BY <3>1, <3>2, <4>1, <4>2, <4>3
    <3>8. Refs[tp] \subseteq D2 \cup P2
      BY <3>3, <3>4
    <3> QED
      BY <3>6, <3>7, <3>8 DEF Reached
  <2> QED
    BY <2>1, <2>2
<1>12. Reached(DOMAIN registry, RefsOf(TypesIn(todo)))'
  BY <1>1, <1>11, Zenon DEF Reached, D2, P2
<1>13. \A c \in DOMAIN registry' : registry'[c] = FieldsOf[c]
  BY <1>6 DEF D2
<1> QED
  BY <1>12, <1>13 DEF RegistryGrows

\* Every step keeps the registry right.
LEMMA RegistryGrowsStep ==
  ASSUME TypeOK, RegistryGrows, [Next]_vars
  PROVE  RegistryGrows'
<1> DEFINE Same == UNCHANGED <<tp, registry, todo>>
<1>1. ASSUME Same, phase # "checking", phase \notin {"rejected", "raised"},
             phase' # "checking"
      PROVE  RegistryGrows'
  <2>1. Reached(DOMAIN registry, RefsOf(TypesIn(todo)))
    BY <1>1 DEF RegistryGrows
  <2>2. Reached(DOMAIN registry, RefsOf(TypesIn(todo)))'
    BY <1>1, <2>1 DEF Reached
  <2> QED
    BY <1>1, <2>2 DEF RegistryGrows
<1>2. CASE TypeIsValid
  <2>1. phase = "checking" /\ phase' \in {"checking", "rejected"} /\ registry' = registry
    BY <1>2 DEF TypeIsValid
  <2> QED
    BY <2>1 DEF RegistryGrows
<1>3. CASE Accepted
  <2>1. /\ phase = "checking" /\ phase' = "describing" /\ registry' = registry /\ tp' = tp
        /\ todo' = Visit(<<tp>>, {})
    BY <1>3 DEF Accepted, annotation
  <2>2. DOMAIN registry = {} /\ tp \in Types
    BY <2>1 DEF RegistryGrows, TypeOK
  <2>3. TypesIn(todo') = {tp}
    <3>1. <<tp>> \in Seq(Types) /\ Elements(<<tp>>) = {tp}
      BY <2>2 DEF Elements
    <3> QED
      BY <2>1, <3>1, TypesOfVisit
  <2>4. RefsOf(TypesIn(todo')) = Refs[tp]
    BY <2>3, RefsOfOne
  <2>5. Reached(DOMAIN registry, RefsOf(TypesIn(todo')))
    BY <2>2, <2>4 DEF Reached
  <2>6. Reached(DOMAIN registry, RefsOf(TypesIn(todo)))'
    BY <2>1, <2>5, Zenon DEF Reached
  <2> QED
    BY <2>1, <2>2, <2>6 DEF RegistryGrows
<1>4. CASE GetSchema
  <2>1. CASE Known(Strip(Head(todo).type))
    <3>1. phase' = "describing"
      BY <1>4, <2>1 DEF GetSchema, Known
    <3> QED
      BY <1>4, <3>1, RegistryStep
  <2>2. CASE ~Known(Strip(Head(todo).type))
    <3>1. phase' = "raised" /\ registry' = registry
      BY <1>4, <2>2 DEF GetSchema, Known
    <3> QED
      BY <3>1 DEF RegistryGrows
  <2> QED
    BY <2>1, <2>2
<1>5. CASE Reflected
  <2>1. Same /\ phase = "describing" /\ phase' = "ready"
    BY <1>5 DEF Reflected, annotation
  <2> QED
    BY <1>1, <2>1
<1>6. ASSUME NEW x \in Texts, FromString(x) PROVE RegistryGrows'
  <2>1. Same /\ phase = "ready" /\ phase' \in {"called", "refused"}
    BY <1>6 DEF FromString, annotation
  <2> QED
    BY <1>1, <2>1
<1>7. ASSUME NEW x \in Texts, Return(x) PROVE RegistryGrows'
  <2>1. Same /\ phase = "ready" /\ phase' \in {"answered", "failed"}
    BY <1>7 DEF Return, annotation
  <2> QED
    BY <1>1, <2>1
<1>8. CASE UNCHANGED vars
  <2>1. Same /\ phase' = phase
    BY <1>8 DEF vars, annotation
  <2>2. CASE phase \in {"checking", "rejected", "raised"}
    BY <2>1, <2>2 DEF RegistryGrows
  <2>3. CASE phase \notin {"checking", "rejected", "raised"}
    BY <1>1, <2>1, <2>3
  <2> QED
    BY <2>2, <2>3
<1> QED
  BY <1>2, <1>3, <1>4, <1>5, <1>6, <1>7, <1>8 DEF Next

\* The registry is right in every state.
THEOREM RegistryGrowsHolds == Spec => [](TypeOK /\ RegistryGrows)
<1>1. Init => TypeOK /\ RegistryGrows
  <2> SUFFICES ASSUME Init PROVE TypeOK /\ RegistryGrows
    OBVIOUS
  <2>1. TypeOK /\ TypesIn(todo) = {tp} /\ DOMAIN registry = {}
    BY TypeInit
  <2>2. phase \in {"checking", "describing"}
    BY DEF Init
  <2>3. RefsOf(TypesIn(todo)) = Refs[tp]
    BY <2>1, RefsOfOne
  <2>4. Reached(DOMAIN registry, RefsOf(TypesIn(todo)))
    BY <2>1, <2>3 DEF Reached
  <2> QED
    BY <2>1, <2>4 DEF RegistryGrows
<1>2. TypeOK /\ RegistryGrows /\ [Next]_vars => (TypeOK /\ RegistryGrows)'
  BY TypeStep, RegistryGrowsStep
<1> QED
  BY <1>1, <1>2, PTL DEF Spec

\* When the metadata are compiled, the components are those that the schema reaches:
\* every name referred to has its component, whatever classes refer to each other, and
\* none is left over.
THEOREM RegistryIsReachableHolds == Spec => []RegistryIsReachable
<1>1. TypeOK /\ RegistryGrows => RegistryIsReachable
  <2> SUFFICES ASSUME TypeOK, RegistryGrows, phase = "ready" PROVE
        /\ Refs[tp] \subseteq DOMAIN registry /\ Closed(DOMAIN registry)
        /\ \A S \in SUBSET DOMAIN registry :
             Refs[tp] \subseteq S /\ Closed(S) => S = DOMAIN registry
    BY DEF RegistryIsReachable
  <2> DEFINE D == DOMAIN registry
  <2>1. todo = <<>> /\ D \subseteq Classes
    BY DEF TypeOK
  <2>2. RefsOf(TypesIn(todo)) = {}
    BY <2>1, EmptyElements DEF RefsOf, TypesIn
  <2>3. Reached(D, {})
    BY <2>2 DEF RegistryGrows
  <2>4. \A c \in D : RefsOf(FieldsIn(c)) \subseteq D
    BY <2>3 DEF Reached
  <2>5. Closed(D)
    BY <2>4, ClosedFields
  <2> HIDE DEF D
  <2>6. /\ Refs[tp] \subseteq D
        /\ \A S \in SUBSET D : Refs[tp] \subseteq S /\ Closed(S) => S = D
    BY <2>1, <2>3 DEF Reached
  <2> QED
    BY <2>5, <2>6 DEF D
<1> QED
  BY <1>1, RegistryGrowsHolds, PTL

(***************************************************************************)
(* Which documents match a schema, and which are values of a type.         *)
(***************************************************************************)

Viewed == Types \X BOOLEAN
PartsHold(F, b, s, parts) == \A k \in DOMAIN parts : \A j \in DOMAIN Items(s) :
                               F[parts[k]][<<Items(s)[j], b>>]
FieldsHold(F, b, fields, d) ==
  /\ DOMAIN d.fields = DOMAIN fields
  /\ \A f \in DOMAIN d.fields : F[d.fields[f]][<<fields[f], b>>]

\* Both look at smaller documents only.
LEMMA SmallerDocs ==
  ASSUME NEW d \in Docs, NEW F, NEW G,
         \A y \in Docs : Height[y] < Height[d] => F[y] = G[y]
  PROVE  /\ \A s, b : PartsHold(F, b, s, d.items) = PartsHold(G, b, s, d.items)
         /\ \A s, b : PartsHold(F, b, s, d.fields) = PartsHold(G, b, s, d.fields)
         /\ \A fields, b : FieldsHold(F, b, fields, d) = FieldsHold(G, b, fields, d)
<1>1. /\ \A k \in DOMAIN d.items : F[d.items[k]] = G[d.items[k]]
      /\ \A k \in DOMAIN d.fields : F[d.fields[k]] = G[d.fields[k]]
  BY DocsAssumption, HeightAssumption
<1> QED
  BY <1>1, Zenon DEF PartsHold, FieldsHold

\* The schema of a type, at the top or nested, and a document, with F for their parts.
MatchStep(F, t, nested, d) ==
  LET s == Strip(t) IN
  /\ s.kind \in {"str", "bytes"} \cup Moments => d.json = "string"
  /\ s.kind = "bool" => d.json = "boolean"
  /\ s.kind = "int" => d.json = "integer"
  /\ s.kind = "float" => d.json \in {"integer", "number"}
  /\ s.kind \in {"list", "tuple"} => d.json = "array" /\ PartsHold(F, nested, s, d.items)
  /\ s.kind = "dict" => d.json = "object" /\ PartsHold(F, nested, s, d.fields)
  /\ s.kind \in Classes =>
       /\ s.kind \in DOMAIN registry
       /\ nested => byId
       /\ d.json = "object" => FieldsHold(F, TRUE, registry[s.kind], d)

\* Matching is true or false.
LEMMA MatchStepBoolean ==
  ASSUME NEW F, NEW t, NEW b, NEW d
  PROVE  MatchStep(F, t, b, d) \in BOOLEAN
BY DEF MatchStep

\* Matched unfolds: by induction on the height of the document.
LEMMA MatchedUnfolds ==
  \A d \in Docs, t \in Types, b \in BOOLEAN :
    Matched[d][<<t, b>>] = MatchStep(Matched, t, b, d)
<1> DEFINE T == [Viewed -> BOOLEAN]
           Row(g, d) == [v \in Viewed |-> MatchStep(g, v[1], v[2], d)]
           F == [g \in [Docs -> T] |-> [d \in Docs |-> Row(g, d)]]
<1>1. \A g, d : Row(g, d) \in T
  BY MatchStepBoolean
<1>2. ASSUME NEW g, NEW h, NEW d \in Docs,
             \A y \in Docs : Height[y] < Height[d] => g[y] = h[y]
      PROVE  Row(g, d) = Row(h, d)
  <2>1. \A t, b : MatchStep(g, t, b, d) = MatchStep(h, t, b, d)
    <3> SUFFICES ASSUME NEW t, NEW b PROVE MatchStep(g, t, b, d) = MatchStep(h, t, b, d)
      OBVIOUS
    <3> DEFINE s == Strip(t)
    <3>0. /\ \A x, c : PartsHold(g, c, x, d.items) = PartsHold(h, c, x, d.items)
          /\ \A x, c : PartsHold(g, c, x, d.fields) = PartsHold(h, c, x, d.fields)
          /\ \A fs, c : FieldsHold(g, c, fs, d) = FieldsHold(h, c, fs, d)
      BY <1>2, SmallerDocs
    <3>1. /\ PartsHold(g, b, s, d.items) <=> PartsHold(h, b, s, d.items)
          /\ PartsHold(g, b, s, d.fields) <=> PartsHold(h, b, s, d.fields)
          /\ FieldsHold(g, TRUE, registry[s.kind], d) <=> FieldsHold(h, TRUE, registry[s.kind], d)
      BY <3>0, Zenon
    <3>2. MatchStep(g, t, b, d) <=> MatchStep(h, t, b, d)
      BY <3>1, Zenon DEF MatchStep
    <3> QED
      BY <3>2, MatchStepBoolean
  <2> QED
    BY <2>1
<1>3. Matched = [d \in Docs |-> Row(Matched, d)]
  <2> HIDE DEF T, Row
  <2>1. F \in [[Docs -> T] -> [Docs -> T]]
    BY <1>1
  <2>2. \A g, h \in [Docs -> T] : \A d \in Docs :
          (\A y \in Docs : Height[y] < Height[d] => g[y] = h[y]) => F[g][d] = F[h][d]
    BY <1>2
  <2> HIDE DEF F
  <2>3. Unfolds(F, Docs, T, Height)
    BY <2>1, <2>2, HeightAssumption DEF Unfolds
  <2>4. [v \in Viewed |-> TRUE] \in T
    BY DEF T
  <2>5. \E f \in [Docs -> T] : f = F[f]
    BY <2>3, <2>4, RecursionByRank
  <2>6. \E f : f = [d \in Docs |-> Row(f, d)]
    BY <2>5 DEF F
  <2> QED
    BY <2>6 DEF Matched, Row, Viewed, MatchStep, PartsHold, FieldsHold
<1>4. ASSUME NEW d \in Docs, NEW t \in Types, NEW b \in BOOLEAN
      PROVE  Matched[d][<<t, b>>] = MatchStep(Matched, t, b, d)
  <2> HIDE DEF Row
  <2>1. Matched[d] = Row(Matched, d)
    BY <1>3
  <2>2. <<t, b>> \in Viewed /\ <<t, b>>[1] = t /\ <<t, b>>[2] = b
    BY DEF Viewed
  <2> QED
    BY <2>1, <2>2 DEF Row
<1> QED
  BY <1>4

\* The meaning of a type and a document, with F for their parts.
FitStep(F, t, none, d) ==
  LET s == Strip(t) IN
  \/ none /\ t.kind = "optional" /\ d.json = "null"
  \/ /\ s.kind \in {"str", "bytes"} \cup Moments => d.json = "string"
     /\ s.kind = "bool" => d.json = "boolean"
     /\ s.kind = "int" => d.json = "integer"
     /\ s.kind = "float" => d.json \in {"integer", "number"}
     /\ s.kind = "list" => d.json = "array" /\ PartsHold(F, none, s, d.items)
     /\ s.kind = "dict" => d.json = "object" /\ PartsHold(F, none, s, d.fields)
     /\ s.kind \in Classes => d.json = "object" /\ FieldsHold(F, none, FieldsOf[s.kind], d)

\* Being a value of a type is true or false.
LEMMA FitStepBoolean ==
  ASSUME NEW F, NEW t, NEW b, NEW d
  PROVE  FitStep(F, t, b, d) \in BOOLEAN
BY DEF FitStep

\* TypesOf unfolds.
LEMMA TypesOfUnfolds ==
  \A d \in Docs, t \in Types, b \in BOOLEAN :
    Fits(t, b, d) = FitStep(TypesOf, t, b, d)
<1> DEFINE T == [Viewed -> BOOLEAN]
           Row(g, d) == [v \in Viewed |-> FitStep(g, v[1], v[2], d)]
           F == [g \in [Docs -> T] |-> [d \in Docs |-> Row(g, d)]]
<1>1. \A g, d : Row(g, d) \in T
  BY FitStepBoolean
<1>2. ASSUME NEW g, NEW h, NEW d \in Docs,
             \A y \in Docs : Height[y] < Height[d] => g[y] = h[y]
      PROVE  Row(g, d) = Row(h, d)
  <2>1. \A t, b : FitStep(g, t, b, d) = FitStep(h, t, b, d)
    <3> SUFFICES ASSUME NEW t, NEW b PROVE FitStep(g, t, b, d) = FitStep(h, t, b, d)
      OBVIOUS
    <3> DEFINE s == Strip(t)
    <3>0. /\ \A x, c : PartsHold(g, c, x, d.items) = PartsHold(h, c, x, d.items)
          /\ \A x, c : PartsHold(g, c, x, d.fields) = PartsHold(h, c, x, d.fields)
          /\ \A fs, c : FieldsHold(g, c, fs, d) = FieldsHold(h, c, fs, d)
      BY <1>2, SmallerDocs
    <3>1. /\ PartsHold(g, b, s, d.items) <=> PartsHold(h, b, s, d.items)
          /\ PartsHold(g, b, s, d.fields) <=> PartsHold(h, b, s, d.fields)
          /\ FieldsHold(g, b, FieldsOf[s.kind], d) <=> FieldsHold(h, b, FieldsOf[s.kind], d)
      BY <3>0, Zenon
    <3>2. FitStep(g, t, b, d) <=> FitStep(h, t, b, d)
      BY <3>1, Zenon DEF FitStep
    <3> QED
      BY <3>2, FitStepBoolean
  <2> QED
    BY <2>1
<1>3. TypesOf = [d \in Docs |-> Row(TypesOf, d)]
  <2> HIDE DEF T, Row
  <2>1. F \in [[Docs -> T] -> [Docs -> T]]
    BY <1>1
  <2>2. \A g, h \in [Docs -> T] : \A d \in Docs :
          (\A y \in Docs : Height[y] < Height[d] => g[y] = h[y]) => F[g][d] = F[h][d]
    BY <1>2
  <2> HIDE DEF F
  <2>3. Unfolds(F, Docs, T, Height)
    BY <2>1, <2>2, HeightAssumption DEF Unfolds
  <2>4. [v \in Viewed |-> TRUE] \in T
    BY DEF T
  <2>5. \E f \in [Docs -> T] : f = F[f]
    BY <2>3, <2>4, RecursionByRank
  <2>6. \E f : f = [d \in Docs |-> Row(f, d)]
    BY <2>5 DEF F
  <2> QED
    BY <2>6 DEF TypesOf, Row, Viewed, FitStep, PartsHold, FieldsHold
<1>4. ASSUME NEW d \in Docs, NEW t \in Types, NEW b \in BOOLEAN
      PROVE  TypesOf[d][<<t, b>>] = FitStep(TypesOf, t, b, d)
  <2> HIDE DEF Row
  <2>1. TypesOf[d] = Row(TypesOf, d)
    BY <1>3
  <2>2. <<t, b>> \in Viewed /\ <<t, b>>[1] = t /\ <<t, b>>[2] = b
    BY DEF Viewed
  <2> QED
    BY <2>1, <2>2 DEF Row
<1> QED
  BY <1>4 DEF Fits

\* Unlisted unfolds.
LEMMA UnlistedUnfolds ==
  \A t \in Types :
    Unlisted[t] =
      IF t.kind \in {"optional", "list"}
        THEN IF t.args = <<>> THEN {t} ELSE Unlisted[t.args[1]]
      ELSE IF t.kind = "dict"
        THEN IF Len(t.args) # 2 \/ t.args[1].kind # "str" THEN {t} ELSE Unlisted[t.args[2]]
      ELSE IF t.kind \in Scalars \cup Moments \cup (Classes \ {"bare"})
        THEN {} ELSE {t}
<1> DEFINE T == SUBSET Types
           Step(g, t) ==
             CASE t.kind \in {"optional", "list"} ->
                    IF t.args = <<>> THEN {t} ELSE g[t.args[1]]
               [] t.kind = "dict" ->
                    IF Len(t.args) # 2 \/ t.args[1].kind # "str" THEN {t} ELSE g[t.args[2]]
               [] OTHER -> IF t.kind \in Scalars \cup Moments \cup (Classes \ {"bare"})
                             THEN {} ELSE {t}
           F == [g \in [Types -> T] |-> [t \in Types |-> Step(g, t)]]
<1>1. ASSUME NEW t \in Types
      PROVE  /\ t.args # <<>> => t.args[1] \in Types /\ Depth[t.args[1]] < Depth[t]
             /\ Len(t.args) = 2 => t.args[2] \in Types /\ Depth[t.args[2]] < Depth[t]
  <2>1. t.args \in Seq(Types) /\ \A k \in DOMAIN t.args : Depth[t.args[k]] < Depth[t]
    BY TypesAssumption, DepthAssumption
  <2> DEFINE a == t.args
  <2> HIDE DEF a
  <2>2. a \in Seq(Types)
    BY <2>1 DEF a
  <2>3. /\ a # <<>> => 1 \in DOMAIN a /\ a[1] \in Types
        /\ Len(a) = 2 => 2 \in DOMAIN a /\ a[2] \in Types
    BY <2>2
  <2> QED
    BY <2>1, <2>3 DEF a
<1>2. ASSUME NEW g, NEW h, NEW t \in Types,
             \A y \in Types : Depth[y] < Depth[t] => g[y] = h[y]
      PROVE  Step(g, t) = Step(h, t)
  <2>1. /\ t.args # <<>> => g[t.args[1]] = h[t.args[1]]
        /\ Len(t.args) = 2 => g[t.args[2]] = h[t.args[2]]
    BY <1>1, <1>2
  <2> QED
    BY <2>1
<1>3. ASSUME NEW g \in [Types -> T], NEW t \in Types PROVE Step(g, t) \in T
  <2>1. /\ t.args # <<>> => g[t.args[1]] \in T
        /\ Len(t.args) = 2 => g[t.args[2]] \in T
    BY <1>1
  <2> QED
    BY <2>1
<1>4. Unlisted = [t \in Types |-> Step(Unlisted, t)]
  <2> HIDE DEF Step
  <2>1. F \in [[Types -> T] -> [Types -> T]]
    BY <1>3
  <2>2. \A g, h \in [Types -> T] : \A t \in Types :
          (\A y \in Types : Depth[y] < Depth[t] => g[y] = h[y]) => F[g][t] = F[h][t]
    BY <1>2
  <2> HIDE DEF F
  <2>3. Unfolds(F, Types, T, Depth)
    BY <2>1, <2>2, DepthAssumption DEF Unfolds
  <2>4. {} \in T
    OBVIOUS
  <2> HIDE DEF T
  <2>5. \E f \in [Types -> T] : f = F[f]
    BY <2>3, <2>4, RecursionByRank
  <2>6. \E f : f = [t \in Types |-> Step(f, t)]
    BY <2>5 DEF F
  <2> QED
    BY <2>6 DEF Unlisted, Step
<1>5. ASSUME NEW t \in Types PROVE Unlisted[t] = Step(Unlisted, t)
  <2> DEFINE st(x) == Step(Unlisted, x)
  <2>1. Unlisted = [x \in Types |-> st(x)]
    BY <1>4
  <2> HIDE DEF st
  <2>2. Unlisted[t] = st(t)
    BY <2>1
  <2> QED
    BY <2>2 DEF st
<1> QED
  BY <1>5

(***************************************************************************)
(* Documented types.                                                       *)
(***************************************************************************)

\* A documented part of a type: its kind, and that its parts are documented.
LEMMA ListedParts ==
  ASSUME NEW t \in Types, Unlisted[t] = {}
  PROVE  LET s == Strip(t) IN
         /\ s \in Types /\ Unlisted[s] = {} /\ Refs[s] = Refs[t]
         /\ s.kind \in {"list", "dict"} \cup Moments \cup Scalars \cup (Classes \ {"bare"})
         /\ s.kind \in {"list", "dict"} =>
              \A j \in DOMAIN Items(s) : /\ Items(s)[j] \in Types /\ Unlisted[Items(s)[j]] = {}
                                         /\ Refs[Items(s)[j]] \subseteq Refs[t]
<1> DEFINE s == Strip(t)
<1>1. s \in Types /\ s.kind # "optional" /\ t.args \in Seq(Types)
  BY TypeFacts
<1>2. Unlisted[s] = {}
  <2>1. CASE t.kind = "optional"
    <3>1. t.args # <<>> /\ s = t.args[1]
      BY <2>1, TypesAssumption DEF Strip
    <3>2. Unlisted[t] = Unlisted[t.args[1]]
      BY <2>1, <3>1, UnlistedUnfolds
    <3> QED
      BY <3>1, <3>2
  <2>2. CASE t.kind # "optional"
    BY <2>2 DEF Strip
  <2> QED
    BY <2>1, <2>2
<1>3. Strip(s) = s
  BY <1>1 DEF Strip
<1> HIDE DEF s
<1>4. Refs[s] = Refs[t]
  <2>1. /\ s.kind \in Classes => Refs[t] = {s.kind}
        /\ s.kind \notin Classes => Refs[t] = RefsOf(Below(s))
    BY RefsUnfolds DEF s
  <2>2. /\ s.kind \in Classes => Refs[s] = {s.kind}
        /\ s.kind \notin Classes => Refs[s] = RefsOf(Below(s))
    BY <1>1, <1>3, RefsUnfolds
  <2> QED
    BY <2>1, <2>2, Zenon
<1>5. Unlisted[s] =
        IF s.kind = "list"
          THEN IF s.args = <<>> THEN {s} ELSE Unlisted[s.args[1]]
        ELSE IF s.kind = "dict"
          THEN IF Len(s.args) # 2 \/ s.args[1].kind # "str" THEN {s} ELSE Unlisted[s.args[2]]
        ELSE IF s.kind \in Scalars \cup Moments \cup (Classes \ {"bare"})
          THEN {} ELSE {s}
  BY <1>1, UnlistedUnfolds
<1>6. s.kind \in {"list", "dict"} \cup Moments \cup Scalars \cup (Classes \ {"bare"})
  BY <1>2, <1>5
<1>7. ASSUME s.kind \in {"list", "dict"}, NEW j \in DOMAIN Items(s)
      PROVE  /\ Items(s)[j] \in Types /\ Unlisted[Items(s)[j]] = {}
             /\ Refs[Items(s)[j]] \subseteq Refs[t]
  <2>1. Items(s) \in Seq(Types)
    BY <1>1, TypeFacts
  <2>2. Items(s)[j] \in Types
    BY <2>1
  <2>3. Items(s)[j] \in Below(s)
    BY <1>7 DEF Below, Containers, Elements
  <2>4. s.kind \notin Classes
    BY <1>7, KindsApart DEF Containers
  <2>5. Refs[Items(s)[j]] \subseteq Refs[s]
    <3>1. Refs[s] = RefsOf(Below(s))
      BY <1>1, <1>3, <2>4, RefsUnfolds
    <3> QED
      BY <2>3, <3>1 DEF RefsOf
  <2>6. Unlisted[Items(s)[j]] = {}
    <3>1. CASE s.kind = "list"
      <4>1. s.args # <<>> /\ Unlisted[s.args[1]] = {}
        BY <1>2, <1>5, <3>1
      <4>2. Items(s) = <<s.args[1]>>
        BY <3>1, <4>1 DEF Items
      <4>3. Items(s)[j] = s.args[1]
        BY <4>2
      <4> QED
        BY <4>1, <4>3
    <3>2. CASE s.kind = "dict"
      <4>1. Len(s.args) = 2 /\ Unlisted[s.args[2]] = {}
        BY <1>2, <1>5, <3>2
      <4>2. Items(s) = <<s.args[2]>>
        BY <3>2, <4>1 DEF Items
      <4>3. Items(s)[j] = s.args[2]
        BY <4>2
      <4> QED
        BY <4>1, <4>3
    <3> QED
      BY <1>7, <3>1, <3>2
  <2> QED
    BY <1>4, <2>2, <2>5, <2>6
<1> QED
  BY <1>1, <1>2, <1>4, <1>6, <1>7 DEF s

\* The classes D have components, with what their fields refer to, and documented
\* fields.
Covered(D) ==
  /\ D \subseteq Classes
  /\ \A c \in D : \A f \in DOMAIN FieldsOf[c] :
       Unlisted[FieldsOf[c][f]] = {} /\ Refs[FieldsOf[c][f]] \subseteq D

\* The types that are documented, with components for the classes they refer to.
Plain(D) == {t \in Types : Unlisted[t] = {} /\ Refs[t] \subseteq D}

\* A documented type with components: its kind, and that its parts and the fields of
\* its class are documented types with components.
LEMMA PlainParts ==
  ASSUME NEW D, Covered(D), NEW t \in Plain(D)
  PROVE  LET s == Strip(t) IN
         /\ s \in Plain(D)
         /\ s.kind \in {"list", "dict"} \cup Moments \cup Scalars \cup (Classes \ {"bare"})
         /\ s.kind \in {"list", "dict"} => \A j \in DOMAIN Items(s) : Items(s)[j] \in Plain(D)
         /\ s.kind \in Classes =>
              /\ s.kind \in D
              /\ \A f \in DOMAIN FieldsOf[s.kind] : FieldsOf[s.kind][f] \in Plain(D)
<1> DEFINE s == Strip(t)
<1>1. t \in Types /\ Unlisted[t] = {} /\ Refs[t] \subseteq D
  BY DEF Plain
<1>2. /\ s \in Types /\ Unlisted[s] = {} /\ Refs[s] = Refs[t]
      /\ s.kind \in {"list", "dict"} \cup Moments \cup Scalars \cup (Classes \ {"bare"})
      /\ s.kind \in {"list", "dict"} =>
           \A j \in DOMAIN Items(s) : /\ Items(s)[j] \in Types /\ Unlisted[Items(s)[j]] = {}
                                      /\ Refs[Items(s)[j]] \subseteq Refs[t]
  BY <1>1, ListedParts
<1>3. s.kind \in Classes => s.kind \in D
  BY <1>1, RefsUnfolds
<1> HIDE DEF s
<1>4. \A c \in D : \A f \in DOMAIN FieldsOf[c] : FieldsOf[c][f] \in Plain(D)
  BY TypesAssumption DEF Covered, Plain
<1> QED
  BY <1>1, <1>2, <1>3, <1>4 DEF s, Plain

\* The schema of a type, at the top or nested in a component, has no reference that
\* raises.
NoneRaises(t, nested) ==
  byId \/ IF nested THEN Refs[t] = {}
          ELSE \A c \in Refs[t] : \A f \in DOMAIN FieldsOf[c] : Refs[FieldsOf[c][f]] = {}

\* At the top that is Resolvable.
LEMMA ResolvableTop ==
  ASSUME NEW t
  PROVE  NoneRaises(t, FALSE) <=> Resolvable(t)
BY DEF NoneRaises, Resolvable

\* Nor have its parts.
LEMMA NoPartRaises ==
  ASSUME NEW t \in Types, Unlisted[t] = {}, NEW b \in BOOLEAN, NoneRaises(t, b)
  PROVE  LET s == Strip(t) IN
         /\ s.kind \in {"list", "dict"} => \A j \in DOMAIN Items(s) : NoneRaises(Items(s)[j], b)
         /\ s.kind \in Classes =>
              /\ b => byId
              /\ \A f \in DOMAIN FieldsOf[s.kind] : NoneRaises(FieldsOf[s.kind][f], TRUE)
<1> DEFINE s == Strip(t)
<1>1. s.kind \in {"list", "dict"} => \A j \in DOMAIN Items(s) : Refs[Items(s)[j]] \subseteq Refs[t]
  BY ListedParts
<1>2. s.kind \in Classes => Refs[t] = {s.kind}
  BY RefsUnfolds
<1> HIDE DEF s
<1>3. ASSUME s.kind \in {"list", "dict"}, NEW j \in DOMAIN Items(s)
      PROVE  NoneRaises(Items(s)[j], b)
  <2>1. Refs[Items(s)[j]] \subseteq Refs[t]
    BY <1>1, <1>3
  <2> QED
    BY <2>1 DEF NoneRaises
<1>4. ASSUME s.kind \in Classes
      PROVE  /\ b => byId
             /\ \A f \in DOMAIN FieldsOf[s.kind] : NoneRaises(FieldsOf[s.kind][f], TRUE)
  <2>1. s.kind \in Refs[t]
    BY <1>2, <1>4
  <2> QED
    BY <2>1 DEF NoneRaises
<1> QED
  BY <1>3, <1>4 DEF s

\* A value of a documented type matches its schema, if that has no reference that raises.
LEMMA FitsMatches ==
  ASSUME Covered(DOMAIN registry),
         \A c \in DOMAIN registry : registry[c] = FieldsOf[c]
  PROVE  \A d \in Docs, t \in Plain(DOMAIN registry) :
           Resolvable(t) /\ Fits(t, FALSE, d) => Matches(t, d)
<1> DEFINE D == DOMAIN registry
           P == {d \in Docs : \A t \in Plain(D), b \in BOOLEAN :
                   NoneRaises(t, b) /\ Fits(t, FALSE, d) => Matched[d][<<t, b>>]}
<1>1. ASSUME NEW d \in Docs, \A y \in Docs : Height[y] < Height[d] => y \in P
      PROVE  d \in P
  <2> SUFFICES ASSUME NEW t \in Plain(D), NEW b \in BOOLEAN, NoneRaises(t, b),
                      Fits(t, FALSE, d)
               PROVE  Matched[d][<<t, b>>]
    OBVIOUS
  <2> DEFINE s == Strip(t)
  <2>1. t \in Types /\ Unlisted[t] = {}
    BY DEF Plain
  <2>2. FitStep(TypesOf, t, FALSE, d)
    BY <2>1, TypesOfUnfolds
  <2>3. /\ s.kind \in {"list", "dict"} \cup Moments \cup Scalars \cup (Classes \ {"bare"})
        /\ s.kind \in {"list", "dict"} => \A j \in DOMAIN Items(s) : Items(s)[j] \in Plain(D)
        /\ s.kind \in Classes =>
             /\ s.kind \in D
             /\ \A f \in DOMAIN FieldsOf[s.kind] : FieldsOf[s.kind][f] \in Plain(D)
    BY PlainParts
  <2>4. /\ \A k \in DOMAIN d.items : d.items[k] \in P
        /\ \A f \in DOMAIN d.fields : d.fields[f] \in P
    BY <1>1, DocsAssumption, HeightAssumption
  <2>5. /\ s.kind \in {"list", "dict"} => \A j \in DOMAIN Items(s) : NoneRaises(Items(s)[j], b)
        /\ s.kind \in Classes =>
             /\ b => byId
             /\ \A f \in DOMAIN FieldsOf[s.kind] : NoneRaises(FieldsOf[s.kind][f], TRUE)
    BY <2>1, NoPartRaises
  <2>6. \A y \in P : \A x \in Plain(D), c \in BOOLEAN :
          NoneRaises(x, c) /\ TypesOf[y][<<x, FALSE>>] => Matched[y][<<x, c>>]
    BY DEF Fits
  <2> HIDE DEF P, D, s
  <2>7. s.kind \in {"list", "dict"} =>
          /\ PartsHold(TypesOf, FALSE, s, d.items) => PartsHold(Matched, b, s, d.items)
          /\ PartsHold(TypesOf, FALSE, s, d.fields) => PartsHold(Matched, b, s, d.fields)
    <3> SUFFICES ASSUME s.kind \in {"list", "dict"}, NEW parts,
                        \A k \in DOMAIN parts : parts[k] \in P,
                        PartsHold(TypesOf, FALSE, s, parts)
                 PROVE  PartsHold(Matched, b, s, parts)
      BY <2>4
    <3> SUFFICES ASSUME NEW k \in DOMAIN parts, NEW j \in DOMAIN Items(s)
                 PROVE  Matched[parts[k]][<<Items(s)[j], b>>]
      BY DEF PartsHold
    <3>1. Items(s)[j] \in Plain(D) /\ NoneRaises(Items(s)[j], b)
      BY <2>3, <2>5
    <3>2. TypesOf[parts[k]][<<Items(s)[j], FALSE>>]
      BY DEF PartsHold
    <3> QED
      BY <2>6, <3>1, <3>2
  <2>8. s.kind \in Classes =>
          /\ s.kind \in DOMAIN registry
          /\ FieldsHold(TypesOf, FALSE, FieldsOf[s.kind], d)
               => FieldsHold(Matched, TRUE, registry[s.kind], d)
    <3> SUFFICES ASSUME s.kind \in Classes
                 PROVE  /\ s.kind \in DOMAIN registry
                        /\ FieldsHold(TypesOf, FALSE, FieldsOf[s.kind], d)
                             => FieldsHold(Matched, TRUE, registry[s.kind], d)
      BY Zenon
    <3>1. s.kind \in DOMAIN registry /\ registry[s.kind] = FieldsOf[s.kind]
      BY <2>3 DEF D
    <3>2. TRUE \in BOOLEAN
      OBVIOUS
    <3>3. FieldsHold(TypesOf, FALSE, FieldsOf[s.kind], d)
            => FieldsHold(Matched, TRUE, FieldsOf[s.kind], d)
      BY <2>3, <2>4, <2>5, <2>6, <3>2, Zenon DEF FieldsHold
    <3> QED
      BY <3>1, <3>3
  <2>9. s.kind # "tuple"
    BY <2>3, KindsApart DEF Scalars, Moments, Containers
  <2>10. MatchStep(Matched, t, b, d)
    <3>1. /\ s.kind \in {"str", "bytes"} \cup Moments => d.json = "string"
          /\ s.kind = "bool" => d.json = "boolean"
          /\ s.kind = "int" => d.json = "integer"
          /\ s.kind = "float" => d.json \in {"integer", "number"}
      BY <2>2 DEF FitStep, s
    <3>2. /\ s.kind \in {"list", "tuple"} => d.json = "array" /\ PartsHold(Matched, b, s, d.items)
          /\ s.kind = "dict" => d.json = "object" /\ PartsHold(Matched, b, s, d.fields)
      BY <2>2, <2>7, <2>9 DEF FitStep, s
    <3>3. s.kind \in Classes =>
            /\ s.kind \in DOMAIN registry
            /\ b => byId
            /\ d.json = "object" => FieldsHold(Matched, TRUE, registry[s.kind], d)
      BY <2>2, <2>5, <2>8, Zenon DEF FitStep, s
    <3> QED
      BY <3>1, <3>2, <3>3, Zenon DEF MatchStep, s
  <2> QED
    BY <2>1, <2>10, MatchedUnfolds
<1> HIDE DEF P
<1>2. \A d \in Docs : d \in P
  BY <1>1, HeightAssumption, InductionByRank
<1>3. ASSUME NEW d \in Docs, NEW t \in Plain(D), Resolvable(t), Fits(t, FALSE, d)
      PROVE  Matched[d][<<t, FALSE>>]
  <2>1. NoneRaises(t, FALSE) /\ FALSE \in BOOLEAN
    BY <1>3, ResolvableTop
  <2> QED
    BY <1>2, <1>3, <2>1 DEF P
<1> QED
  BY <1>3 DEF Matches

\* What matches the schema of a documented type without classes is a value of it.
LEMMA MatchesFits ==
  \A d \in Docs, t \in Plain({}) : Matches(t, d) => Fits(t, FALSE, d)
<1> DEFINE P == {d \in Docs : \A t \in Plain({}) : Matches(t, d) => Fits(t, FALSE, d)}
<1>0. Covered({})
  BY DEF Covered
<1>1. ASSUME NEW d \in Docs, \A y \in Docs : Height[y] < Height[d] => y \in P
      PROVE  d \in P
  <2> SUFFICES ASSUME NEW t \in Plain({}), Matches(t, d) PROVE Fits(t, FALSE, d)
    OBVIOUS
  <2> DEFINE s == Strip(t)
  <2>1. t \in Types
    BY DEF Plain
  <2>2. MatchStep(Matched, t, FALSE, d)
    BY <2>1, MatchedUnfolds DEF Matches
  <2>3. /\ s.kind \in {"list", "dict"} => \A j \in DOMAIN Items(s) : Items(s)[j] \in Plain({})
        /\ s.kind \notin Classes
    BY <1>0, PlainParts
  <2>4. /\ \A k \in DOMAIN d.items : d.items[k] \in P
        /\ \A f \in DOMAIN d.fields : d.fields[f] \in P
    BY <1>1, DocsAssumption, HeightAssumption
  <2>5. \A y \in P : \A x \in Plain({}) : Matched[y][<<x, FALSE>>] => TypesOf[y][<<x, FALSE>>]
    BY DEF Fits, Matches
  <2> HIDE DEF P, s
  <2>6. s.kind \in {"list", "dict"} =>
          /\ PartsHold(Matched, FALSE, s, d.items) => PartsHold(TypesOf, FALSE, s, d.items)
          /\ PartsHold(Matched, FALSE, s, d.fields) => PartsHold(TypesOf, FALSE, s, d.fields)
    BY <2>3, <2>4, <2>5, Zenon DEF PartsHold
  <2>7. FitStep(TypesOf, t, FALSE, d)
    <3>1. /\ s.kind \in {"str", "bytes"} \cup Moments => d.json = "string"
          /\ s.kind = "bool" => d.json = "boolean"
          /\ s.kind = "int" => d.json = "integer"
          /\ s.kind = "float" => d.json \in {"integer", "number"}
      BY <2>2 DEF MatchStep, s
    <3>2. /\ s.kind = "list" => d.json = "array" /\ PartsHold(TypesOf, FALSE, s, d.items)
          /\ s.kind = "dict" => d.json = "object" /\ PartsHold(TypesOf, FALSE, s, d.fields)
      BY <2>2, <2>6 DEF MatchStep, s
    <3> QED
      BY <2>3, <3>1, <3>2, Zenon DEF FitStep, s
  <2> QED
    BY <2>1, <2>7, TypesOfUnfolds
<1> HIDE DEF P
<1>2. \A d \in Docs : d \in P
  BY <1>1, HeightAssumption, InductionByRank
<1> QED
  BY <1>2 DEF P

\* Of a documented annotation, when the metadata are compiled, what its schema reaches
\* is documented and has its component.
LEMMA DocumentedCovered ==
  ASSUME TypeOK, RegistryGrows, Documented(tp),
         phase \in {"ready", "called", "refused", "answered", "failed"}
  PROVE  Covered(DOMAIN registry) /\ tp \in Plain(DOMAIN registry)
<1> DEFINE D == DOMAIN registry
<1>1. todo = <<>> /\ D \subseteq Classes /\ tp \in Types
  BY DEF TypeOK
<1>2. RefsOf(TypesIn(todo)) = {}
  BY <1>1, EmptyElements DEF RefsOf, TypesIn
<1>3. Reached(D, {})
  BY <1>2 DEF RegistryGrows
<1>4. PICK S \in SUBSET Classes :
        /\ Refs[tp] \subseteq S /\ Closed(S)
        /\ \A c \in S : \A f \in DOMAIN FieldsOf[c] : Unlisted[FieldsOf[c][f]] = {}
  BY DEF Documented
<1> HIDE DEF D
<1>5. D \subseteq S /\ Refs[tp] \subseteq D
  BY <1>3, <1>4 DEF Reached
<1>6. \A c \in D : RefsOf(FieldsIn(c)) \subseteq D
  BY <1>3 DEF Reached
<1>7. Closed(D)
  BY <1>6, ClosedFields
<1>8. Covered(D)
  BY <1>1, <1>4, <1>5, <1>7 DEF Covered, Closed
<1>9. tp \in Plain(D)
  BY <1>1, <1>5 DEF Plain, Documented
<1> QED
  BY <1>8, <1>9 DEF D

(***************************************************************************)
(* Calls and answers.                                                      *)
(***************************************************************************)

\* from_string returns a value for a string.
Takes(x) == Converts(Bare(tp), x) /\ Validates(tp, x)

\* How a call or a method has ended is what its string or result came to.
CallsRight ==
  /\ use = "return" => tp.kind # "optional"
  /\ phase \in {"called", "refused"} => text \in Texts
  /\ phase = "called" => Takes(text)
  /\ phase = "refused" => ~Takes(text)
  /\ phase \in {"answered", "failed"} =>
       use = "return" /\ result \in Texts /\ result.form # "word"
  /\ phase = "answered" => ResultValidates(result) /\ text = StringOf(result)
  /\ phase = "failed" => ~ResultValidates(result)

\* While the registry stays, so does what matches.
LEMMA SameMatches ==
  ASSUME registry' = registry, byId' = byId,
         \A c \in DOMAIN registry : registry[c] = FieldsOf[c],
         DOMAIN registry \subseteq Classes
  PROVE  \A d \in Docs, t \in Types : Matches(t, d)' = Matches(t, d)
<1> DEFINE P == {d \in Docs : \A t \in Types, b \in BOOLEAN :
                                Matched'[d][<<t, b>>] = Matched[d][<<t, b>>]}
<1>1. \A d \in Docs, t \in Types, b \in BOOLEAN :
        Matched[d][<<t, b>>] = MatchStep(Matched, t, b, d)
  BY MatchedUnfolds
<1>2. (\A d \in Docs, t \in Types, b \in BOOLEAN :
         Matched[d][<<t, b>>] = MatchStep(Matched, t, b, d))'
  BY MatchedUnfolds, PTL
<1>3. \A d \in Docs, t \in Types, b \in BOOLEAN :
        Matched'[d][<<t, b>>] = MatchStep(Matched, t, b, d)'
  BY <1>2
<1>4. \A d, t, b : MatchStep(Matched, t, b, d)' = MatchStep(Matched', t, b, d)
  BY DEF MatchStep
<1>5. ASSUME NEW d \in Docs, \A y \in Docs : Height[y] < Height[d] => y \in P
      PROVE  d \in P
  <2> SUFFICES ASSUME NEW t \in Types, NEW b \in BOOLEAN
               PROVE  Matched'[d][<<t, b>>] = Matched[d][<<t, b>>]
    OBVIOUS
  <2> DEFINE s == Strip(t)
             c == registry[s.kind]
  <2>1. /\ \A k \in DOMAIN d.items : d.items[k] \in P
        /\ \A f \in DOMAIN d.fields : d.fields[f] \in P
    BY <1>5, DocsAssumption, HeightAssumption
  <2>2. /\ s \in Types /\ Items(s) \in Seq(Types)
        /\ \A j \in DOMAIN Items(s) : Items(s)[j] \in Types
    <3>1. s \in Types
      BY TypeFacts
    <3>2. Items(s) \in Seq(Types)
      BY <3>1, TypeFacts
    <3> QED
      BY <3>1, <3>2
  <2>3. \A y \in P : \A x \in Types, e \in BOOLEAN :
          Matched'[y][<<x, e>>] <=> Matched[y][<<x, e>>]
    OBVIOUS
  <2> HIDE DEF P, s, c
  <2>4. /\ PartsHold(Matched', b, s, d.items) <=> PartsHold(Matched, b, s, d.items)
        /\ PartsHold(Matched', b, s, d.fields) <=> PartsHold(Matched, b, s, d.fields)
    BY <2>1, <2>2, <2>3, Zenon DEF PartsHold
  <2>5. s.kind \in DOMAIN registry =>
          (FieldsHold(Matched', TRUE, c, d) <=> FieldsHold(Matched, TRUE, c, d))
    <3> SUFFICES ASSUME s.kind \in DOMAIN registry
                 PROVE  FieldsHold(Matched', TRUE, c, d) <=> FieldsHold(Matched, TRUE, c, d)
      OBVIOUS
    <3>1. c = FieldsOf[s.kind]
      BY DEF c
    <3>2. \A f \in DOMAIN c : c[f] \in Types
      BY <3>1, TypesAssumption
    <3>3. \A f \in DOMAIN d.fields : f \in DOMAIN c =>
            (Matched'[d.fields[f]][<<c[f], TRUE>>] <=> Matched[d.fields[f]][<<c[f], TRUE>>])
      BY <2>1, <2>3, <3>2
    <3> QED
      BY <3>3, Zenon DEF FieldsHold
  <2>6. MatchStep(Matched', t, b, d) <=> MatchStep(Matched, t, b, d)
    BY <2>4, <2>5, Zenon DEF MatchStep, s, c
  <2> QED
    BY <1>1, <1>3, <1>4, <2>6, MatchStepBoolean
<1> HIDE DEF P
<1>6. \A d \in Docs : d \in P
  BY <1>5, HeightAssumption, InductionByRank
<1> QED
  BY <1>6 DEF P, Matches

\* What a container or a class is converted from.
LEMMA ConvertsForm ==
  ASSUME NEW t, NEW x
  PROVE  /\ t.kind \in Containers => (Converts(t, x) <=> x.form \in {"empty", "json"})
         /\ t.kind \in Classes \ {"bare"} =>
              (Converts(t, x) <=> x.form = "json" /\ Constructs(t.kind, x.doc))
         /\ t.kind \in Moments => (Converts(t, x) <=> x.form = "moment")
         /\ t.kind \in Scalars => (Converts(t, x) <=> ConvertsScalar(t.kind, x))
<1>1. /\ t.kind \in Classes => /\ t.kind \notin Containers /\ t.kind \notin Scalars
                               /\ t.kind \notin Moments
      /\ t.kind \in Containers => t.kind \notin Scalars /\ t.kind \notin Moments
      /\ t.kind \in Scalars => t.kind \notin Moments
  BY KindsApart DEF Containers, Scalars, Moments
<1> QED
  BY <1>1, Zenon DEF Converts

\* And what becomes of a string or a result.
LEMMA SameCalls ==
  ASSUME TypeOK, RegistryGrows, registry' = registry, tp' = tp, byId' = byId, NEW x \in Texts
  PROVE  /\ Takes(x)' <=> Takes(x)
         /\ ResultValidates(x)' <=> ResultValidates(x)
         /\ StringOf(x)' = StringOf(x)
<1>1. \A d \in Docs, t \in Types : Matches(t, d)' <=> Matches(t, d)
  BY SameMatches DEF TypeOK, RegistryGrows
<1>2. tp \in Types /\ Strip(tp) \in Types
  BY TypeFacts DEF TypeOK
<1>3. x.form = "json" => x.doc \in Docs
  BY DocsAssumption
<1>4. x.form = "json" => /\ Matches(tp, x.doc)' <=> Matches(tp, x.doc)
                         /\ Matches(Strip(tp), x.doc)' <=> Matches(Strip(tp), x.doc)
  BY <1>1, <1>2, <1>3
<1>5. Takes(x)' <=> Takes(x)
  <2>1. Bare(tp)' = Bare(tp)
    BY DEF Bare, Strip
  <2>2. Converts(Bare(tp), x)' <=> Converts(Bare(tp), x)
    BY <2>1
  <2>3. CASE Converts(Bare(tp), x)
    <3>1. Strip(tp).kind \in Containers => x.form \in {"empty", "json"}
      BY <2>3, ConvertsForm DEF Bare
    <3>2. Validates(tp, x)' <=> Validates(tp, x)
      BY <1>4, <3>1 DEF Validates
    <3> QED
      BY <2>2, <3>2 DEF Takes
  <2>4. CASE ~Converts(Bare(tp), x)
    BY <2>2, <2>4 DEF Takes
  <2> QED
    BY <2>3, <2>4
<1>6. ResultValidates(x)' <=> ResultValidates(x)
  BY <1>1, <1>2, <1>4 DEF ResultValidates
<1>7. StringOf(x)' = StringOf(x)
  BY DEF StringOf
<1> QED
  BY <1>5, <1>6, <1>7

\* A call and a return leave what they came to.
LEMMA CallsRightStep ==
  ASSUME TypeOK, RegistryGrows, CallsRight, [Next]_vars
  PROVE  CallsRight'
<1>1. ASSUME UNCHANGED annotation,
             phase' \in {"checking", "describing", "ready", "rejected", "raised"}
      PROVE  CallsRight'
  <2>1. (use = "return" => tp.kind # "optional")'
    BY <1>1 DEF CallsRight, annotation
  <2> QED
    BY <1>1, <2>1 DEF CallsRight
<1>2. CASE TypeIsValid
  <2>1. UNCHANGED annotation /\ phase' \in {"checking", "rejected"}
    BY <1>2 DEF TypeIsValid
  <2> QED
    BY <1>1, <2>1
<1>3. CASE Accepted
  <2>1. UNCHANGED annotation /\ phase' = "describing"
    BY <1>3 DEF Accepted
  <2> QED
    BY <1>1, <2>1
<1>4. CASE GetSchema
  <2>1. UNCHANGED annotation /\ phase' \in {"describing", "raised"}
    BY <1>4 DEF GetSchema
  <2> QED
    BY <1>1, <2>1
<1>5. CASE Reflected
  <2>1. UNCHANGED annotation /\ phase' = "ready"
    BY <1>5 DEF Reflected
  <2> QED
    BY <1>1, <2>1
<1>6. ASSUME NEW x \in Texts, FromString(x) PROVE CallsRight'
  <2>1. /\ use = "param" /\ text' = x /\ UNCHANGED <<tp, use, byId, registry>>
        /\ phase' = IF Takes(x) THEN "called" ELSE "refused"
    BY <1>6 DEF FromString, Takes, annotation
  <2>2. Takes(x)' <=> Takes(x)
    BY <2>1, SameCalls
  <2>3. Takes(text)' <=> Takes(x)
    BY <2>1, <2>2 DEF Takes
  <2> QED
    BY <2>1, <2>3 DEF CallsRight
<1>7. ASSUME NEW x \in Texts, Return(x) PROVE CallsRight'
  <2>1. /\ use = "return" /\ x.form # "word" /\ result' = x /\ UNCHANGED <<tp, use, byId, registry>>
        /\ phase' = IF ResultValidates(x) THEN "answered" ELSE "failed"
        /\ ResultValidates(x) => text' = StringOf(x)
    BY <1>7 DEF Return, annotation
  <2>2. (ResultValidates(x)' <=> ResultValidates(x)) /\ StringOf(x)' = StringOf(x)
    BY <2>1, SameCalls
  <2>3. (ResultValidates(result)' <=> ResultValidates(x)) /\ StringOf(result)' = StringOf(x)
    BY <2>1, <2>2 DEF ResultValidates, StringOf
  <2>4. tp.kind # "optional"
    BY <2>1 DEF CallsRight
  <2> QED
    BY <2>1, <2>3, <2>4 DEF CallsRight
<1>8. CASE UNCHANGED vars
  <2>1. UNCHANGED <<tp, use, byId, phase, registry, result, text>>
    BY <1>8 DEF vars, annotation
  <2>2. text \in Texts => (Takes(text)' <=> Takes(text))
    <3>1. \A x \in Texts : Takes(x)' <=> Takes(x)
      BY <2>1, SameCalls
    <3> QED
      BY <2>1, <3>1 DEF Takes
  <2>3. result \in Texts =>
          (ResultValidates(result)' <=> ResultValidates(result)) /\ StringOf(result)' = StringOf(result)
    <3>1. \A x \in Texts : (ResultValidates(x)' <=> ResultValidates(x)) /\ StringOf(x)' = StringOf(x)
      BY <2>1, SameCalls
    <3> QED
      BY <2>1, <3>1 DEF ResultValidates, StringOf
  <2> QED
    BY <2>1, <2>2, <2>3 DEF CallsRight
<1> QED
  BY <1>2, <1>3, <1>4, <1>5, <1>6, <1>7, <1>8 DEF Next

\* The states in which calls end.
Ended == phase \in {"called", "refused", "answered", "failed"}

\* The annotation without its Optional, when it is documented.
LEMMA BareFacts ==
  ASSUME TypeOK, RegistryGrows, Documented(tp), Ended
  PROVE  LET s == Strip(tp) IN
         /\ tp \in Plain(DOMAIN registry) /\ s \in Plain(DOMAIN registry) /\ s \in Types
         /\ tp \in Types /\ Strip(s) = s
         /\ tp.kind # "optional" => s = tp
         /\ Resolvable(tp) => Resolvable(s)
         /\ s.kind \in {"list", "dict"} \cup Moments \cup Scalars \cup (Classes \ {"bare"})
         /\ s.kind \in Classes => /\ s.kind \notin Containers \cup Scalars \cup Moments
                                  /\ s.kind \in DOMAIN registry
                                  /\ registry[s.kind] = FieldsOf[s.kind]
         /\ \A d \in Docs, t \in Plain(DOMAIN registry) :
              Resolvable(t) /\ Fits(t, FALSE, d) => Matches(t, d)
<1> DEFINE s == Strip(tp)
<1>1. Covered(DOMAIN registry) /\ tp \in Plain(DOMAIN registry)
  BY DocumentedCovered DEF Ended
<1>2. /\ s \in Plain(DOMAIN registry)
      /\ s.kind \in {"list", "dict"} \cup Moments \cup Scalars \cup (Classes \ {"bare"})
      /\ s.kind \in Classes => s.kind \in DOMAIN registry
  BY <1>1, PlainParts
<1>3. tp \in Types /\ s \in Types /\ s.kind # "optional"
  BY TypeFacts DEF TypeOK
<1>4. Strip(s) = s /\ (tp.kind # "optional" => s = tp)
  BY <1>3 DEF Strip
<1>5. s.kind \in Classes => s.kind \notin Containers \cup Scalars \cup Moments
  BY KindsApart DEF Moments
<1>6. s.kind \in Classes => registry[s.kind] = FieldsOf[s.kind]
  BY <1>2 DEF RegistryGrows
<1>7. \A d \in Docs, t \in Plain(DOMAIN registry) :
              Resolvable(t) /\ Fits(t, FALSE, d) => Matches(t, d)
  BY <1>1, FitsMatches DEF RegistryGrows
<1>8. Resolvable(tp) => Resolvable(s)
  <2>1. Unlisted[tp] = {}
    BY DEF Documented
  <2>2. Refs[s] = Refs[tp]
    BY <1>3, <2>1, ListedParts
  <2> QED
    BY <2>2 DEF Resolvable
<1> QED
  BY <1>1, <1>2, <1>3, <1>4, <1>5, <1>6, <1>7, <1>8

\* A string that is a value of a documented type gets through.
LEMMA WellFormedTaken ==
  ASSUME TypeOK, RegistryGrows, Documented(tp), Ended, NEW x \in Texts,
         Strip(tp).kind # "bytes", Resolvable(tp), WellFormed(Strip(tp), FALSE, x)
  PROVE  Takes(x)
<1> DEFINE s == Strip(tp)
           d == x.doc
<1>1. /\ tp \in Plain(DOMAIN registry) /\ s \in Plain(DOMAIN registry) /\ s \in Types
      /\ Strip(s) = s /\ (tp.kind # "optional" => s = tp)
      /\ s.kind \in {"list", "dict"} \cup Moments \cup Scalars \cup (Classes \ {"bare"})
      /\ s.kind \in Classes => s.kind \notin Containers \cup Scalars \cup Moments
      /\ \A e \in Docs, t \in Plain(DOMAIN registry) :
           Resolvable(t) /\ Fits(t, FALSE, e) => Matches(t, e)
      /\ Resolvable(s)
  BY BareFacts
<1>2. x.form = "json" => d \in Docs
  BY DocsAssumption
<1>3. x.form = "json" /\ Fits(s, FALSE, d) => Matches(s, d) /\ FitStep(TypesOf, s, FALSE, d)
  BY <1>1, <1>2, TypesOfUnfolds
<1>4. tp.kind \in Containers \cup Classes => s = tp
  <2>1. tp.kind \in Containers \cup Classes => tp.kind # "optional"
    BY KindsApart DEF Containers
  <2> QED
    BY <1>1, <2>1
<1> HIDE DEF s, d
<1>5. CASE s.kind \in {"list", "dict"}
  <2>1. s.kind \in Containers /\ s.kind \notin Scalars \cup Moments
    BY <1>5 DEF Containers, Scalars, Moments
  <2>2. x.form = "json" /\ Fits(s, FALSE, d)
    BY <2>1 DEF WellFormed, s, d
  <2>3. Converts(s, x)
    BY <2>1, <2>2, ConvertsForm
  <2>4. Validates(tp, x)
    BY <1>3, <1>4, <2>1, <2>2, Zenon DEF Validates, s, d
  <2> QED
    BY <2>3, <2>4 DEF Takes, Bare, s
<1>6. CASE s.kind \in Classes
  <2>1. s.kind \notin Containers \cup Scalars \cup Moments /\ s.kind \in Classes \ {"bare"}
    BY <1>1, <1>6 DEF Scalars
  <2>2. x.form = "json" /\ Fits(s, FALSE, d)
    BY <2>1 DEF WellFormed, s, d
  <2>3. DOMAIN d.fields = DOMAIN FieldsOf[s.kind]
    BY <1>1, <1>3, <1>6, <2>2 DEF FitStep, FieldsHold
  <2>4. Converts(s, x)
    BY <2>1, <2>2, <2>3, ConvertsForm DEF Constructs, d
  <2>5. Validates(tp, x)
    <3>1. s.kind \notin Containers /\ s.kind # "bytes"
      BY <2>1 DEF Scalars
    <3> QED
      BY <1>3, <1>4, <2>2, <3>1, Zenon DEF Validates, s, d
  <2> QED
    BY <2>4, <2>5 DEF Takes, Bare, s
<1>7. CASE s.kind \in Scalars \cup Moments
  <2>1. s.kind \notin Containers \cup Classes
    BY <1>1, <1>7 DEF Containers, Scalars, Moments
  <2>2. Validates(tp, x)
    <3>1. tp.kind \notin Containers \cup Classes
      BY <1>4, <2>1
    <3> QED
      BY <2>1, <3>1 DEF Validates, s
  <2>3. Converts(s, x)
    <3>1. CASE s.kind \in Moments
      BY <3>1, ConvertsForm DEF WellFormed, s
    <3>2. CASE s.kind \in {"bool", "int", "float"}
      <4>1. x.form = "empty" \/ (x.form = "json" /\ Fits(s, FALSE, d))
        BY <3>2 DEF WellFormed, s, d
      <4>2. x.form = "json" /\ Fits(s, FALSE, d) =>
              /\ s.kind = "bool" => d.json = "boolean"
              /\ s.kind = "int" => d.json = "integer"
              /\ s.kind = "float" => d.json \in {"integer", "number"}
        BY <1>1, <1>3 DEF FitStep
      <4>3. ConvertsScalar(s.kind, x)
        BY <4>1, <4>2 DEF ConvertsScalar, IsDoc, d
      <4> QED
        BY <3>2, <4>3, ConvertsForm DEF Scalars
    <3>3. CASE s.kind \in {"str", "bytes", "Any"}
      <4>1. ConvertsScalar(s.kind, x)
        BY <3>3 DEF ConvertsScalar
      <4> QED
        BY <3>3, <4>1, ConvertsForm DEF Scalars
    <3> QED
      BY <1>7, <3>1, <3>2, <3>3 DEF Scalars
  <2> QED
    BY <2>2, <2>3 DEF Takes, Bare, s
<1> QED
  BY <1>1, <1>5, <1>6, <1>7

\* What gets through to a parameter of a documented type without classes is a value of it.
LEMMA TakenWellFormed ==
  ASSUME TypeOK, RegistryGrows, Documented(tp), Ended, NEW x \in Texts,
         Refs[tp] = {}, Takes(x)
  PROVE  WellFormed(Strip(tp), FALSE, x) \/ (tp.kind = "optional" /\ x.form = "empty")
<1> DEFINE s == Strip(tp)
           d == x.doc
<1>1. tp \in Plain({}) /\ s \in Plain({}) /\ s \in Types /\ tp \in Types
  <2>1. tp \in Plain({})
    BY DEF Plain, Documented, TypeOK
  <2>2. Covered({})
    BY DEF Covered
  <2>3. s \in Plain({})
    BY <2>1, <2>2, PlainParts
  <2> QED
    BY <2>1, <2>3 DEF Plain
<1>2. /\ Strip(s) = s /\ (tp.kind # "optional" => s = tp)
      /\ s.kind \in {"list", "dict"} \cup Moments \cup Scalars \cup (Classes \ {"bare"})
  BY BareFacts
<1>3. s.kind \notin Classes
  BY <1>1, <1>2, RefsUnfolds DEF Plain
<1>4. x.form = "json" => d \in Docs
  BY DocsAssumption
<1>5. Converts(s, x) /\ Validates(tp, x)
  BY DEF Takes, Bare
<1> HIDE DEF s, d
<1>6. CASE s.kind \in {"list", "dict"}
  <2>1. s.kind \in Containers /\ s.kind \notin Scalars \cup Moments
    BY <1>6 DEF Containers, Scalars, Moments
  <2>2. x.form \in {"empty", "json"}
    BY <1>5, <2>1, ConvertsForm
  <2>3. x.form = "json" => Matches(s, d) \/ (tp.kind = "optional" /\ x.form = "empty")
    <3>1. CASE tp.kind = "optional"
      <4>1. tp.kind \notin Containers \cup Classes
        BY <3>1, KindsApart DEF Containers
      <4> QED
        BY <1>5, <2>1, <3>1, <4>1 DEF Validates, s, d
    <3>2. CASE tp.kind # "optional"
      BY <1>2, <1>5, <2>1, <3>2 DEF Validates, d
    <3> QED
      BY <3>1, <3>2
  <2>4. x.form = "empty" => tp.kind = "optional"
    BY <1>2, <1>5, <2>1 DEF Validates
  <2>5. x.form = "json" => Fits(s, FALSE, d)
    BY <1>1, <1>4, <2>3, MatchesFits
  <2>6. x.form = "json" => WellFormed(s, FALSE, x)
    BY <2>1, <2>5 DEF WellFormed, d, Scalars
  <2> QED
    BY <2>2, <2>4, <2>6 DEF s
<1>7. CASE s.kind \in Moments
  <2>1. x.form = "moment"
    BY <1>5, <1>7, ConvertsForm
  <2> QED
    BY <1>7, <2>1 DEF WellFormed, s, Moments, Scalars
<1>8. CASE s.kind \in Scalars
  <2>1. ConvertsScalar(s.kind, x)
    BY <1>5, <1>8, ConvertsForm
  <2>2. s.kind \in {"bool", "int", "float"} =>
          x.form = "empty" \/ (x.form = "json" /\ Fits(s, FALSE, d))
    <3> SUFFICES ASSUME s.kind \in {"bool", "int", "float"}, x.form # "empty"
                 PROVE  x.form = "json" /\ Fits(s, FALSE, d)
      OBVIOUS
    <3>1. /\ x.form = "json"
          /\ s.kind = "bool" => d.json = "boolean"
          /\ s.kind = "int" => d.json = "integer"
          /\ s.kind = "float" => d.json \in {"integer", "number"}
      BY <2>1 DEF ConvertsScalar, IsDoc, d
    <3>2. FitStep(TypesOf, s, FALSE, d)
      BY <1>2, <1>3, <3>1 DEF FitStep, Moments, Containers
    <3> QED
      BY <1>1, <1>4, <3>1, <3>2, TypesOfUnfolds
  <2>3. s.kind \notin Moments
    BY <1>8 DEF Scalars, Moments
  <2> QED
    BY <1>8, <2>2, <2>3 DEF WellFormed, s, d
<1> QED
  BY <1>2, <1>3, <1>6, <1>7, <1>8

\* The answer to a result of a documented type gets through for that type.
LEMMA AnswerTaken ==
  ASSUME TypeOK, RegistryGrows, CallsRight, Documented(tp), phase = "answered",
         result.form # "empty", tp.kind # "bytes",
         tp.kind = "date" => result.form = "moment",
         result.form = "moment" => tp.kind \notin Classes
  PROVE  Takes(text)
<1> DEFINE r == result
           d == r.doc
<1>1. /\ r \in Texts /\ r.form # "word" /\ tp.kind # "optional"
      /\ ResultValidates(r) /\ text = StringOf(r)
  BY DEF CallsRight
<1>2. r.form \in {"moment", "json"} /\ (r.form = "json" => d \in Docs)
  BY <1>1, DocsAssumption
<1>3. /\ tp \in Types /\ Strip(tp) = tp
      /\ tp.kind \in {"list", "dict"} \cup Moments \cup Scalars \cup (Classes \ {"bare"})
      /\ tp.kind \in Classes => /\ tp.kind \notin Containers \cup Scalars \cup Moments
                                /\ tp.kind \in DOMAIN registry
                                /\ registry[tp.kind] = FieldsOf[tp.kind]
  BY <1>1, BareFacts DEF Ended
<1> HIDE DEF r, d
<1>4. CASE r.form = "moment"
  <2>1. PICK e \in Docs : e.json = "string" /\ Matches(tp, e)
    BY <1>1, <1>4 DEF ResultValidates
  <2>2. MatchStep(Matched, tp, FALSE, e)
    BY <1>3, <2>1, MatchedUnfolds DEF Matches
  <2>3. tp.kind \notin Classes
    BY <1>4 DEF r
  <2>4. tp.kind \in {"str", "Any"} \cup Moments
    BY <1>3, <2>1, <2>2, <2>3 DEF MatchStep, Scalars
  <2>5. text = r
    BY <1>1, <1>4 DEF StringOf
  <2>6. Converts(tp, text)
    BY <1>4, <2>4, <2>5, ConvertsForm DEF ConvertsScalar, Scalars
  <2>7. Validates(tp, text)
    BY <1>3, <2>3, <2>4 DEF Validates, Containers, Moments
  <2> QED
    BY <1>3, <2>6, <2>7 DEF Takes, Bare
<1>5. CASE r.form = "json"
  <2>1. tp.kind # "datetime" /\ Matches(tp, d)
    BY <1>1, <1>5 DEF ResultValidates, d
  <2>2. MatchStep(Matched, tp, FALSE, d)
    BY <1>2, <1>3, <1>5, <2>1, MatchedUnfolds DEF Matches
  <2>3. CASE tp.kind \in {"list", "dict"}
    <3>1. tp.kind \in Containers
      BY <2>3 DEF Containers
    <3>2. text = r
      BY <1>1, <3>1 DEF StringOf
    <3>3. Converts(tp, text)
      BY <1>5, <3>1, <3>2, ConvertsForm
    <3>4. Validates(tp, text)
      BY <1>5, <2>1, <3>1, <3>2 DEF Validates, d
    <3> QED
      BY <1>3, <3>3, <3>4 DEF Takes, Bare
  <2>4. CASE tp.kind \in Classes
    <3>1. text = r
      BY <1>1, <1>3, <2>4 DEF StringOf, Marshalled
    <3>2. d.json = "object" => DOMAIN d.fields = DOMAIN FieldsOf[tp.kind]
      BY <1>3, <2>2, <2>4 DEF MatchStep, FieldsHold
    <3>3. Constructs(tp.kind, text.doc)
      BY <3>1, <3>2 DEF Constructs, d
    <3>4. tp.kind \in Classes \ {"bare"}
      BY <1>3, <2>4 DEF Scalars
    <3>5. Converts(tp, text)
      BY <1>5, <3>1, <3>3, <3>4, ConvertsForm
    <3>6. Validates(tp, text)
      BY <1>5, <2>1, <2>4, <3>1 DEF Validates, d
    <3> QED
      BY <1>3, <3>5, <3>6 DEF Takes, Bare
  <2>5. CASE tp.kind \in Scalars
    <3>1. tp.kind \notin Classes /\ tp.kind \notin Containers
      BY <1>3, <2>5 DEF Containers, Scalars
    <3>2. Validates(tp, text)
      BY <1>3, <3>1 DEF Validates
    <3>3. ConvertsScalar(tp.kind, text)
      <4>1. CASE tp.kind \in {"bool", "int", "float"}
        <5>1. text = r
          BY <1>1, <4>1 DEF StringOf, Marshalled
        <5>2. /\ tp.kind = "bool" => d.json = "boolean"
              /\ tp.kind = "int" => d.json = "integer"
              /\ tp.kind = "float" => d.json \in {"integer", "number"}
          BY <1>3, <2>2 DEF MatchStep
        <5> QED
          BY <1>5, <4>1, <5>1, <5>2 DEF ConvertsScalar, IsDoc, d
      <4>2. CASE tp.kind \notin {"bool", "int", "float"}
        BY <4>2 DEF ConvertsScalar
      <4> QED
        BY <4>1, <4>2
    <3>4. Converts(tp, text)
      BY <2>5, <3>3, ConvertsForm
    <3> QED
      BY <1>3, <3>2, <3>4 DEF Takes, Bare
  <2>6. tp.kind \notin Moments
    BY <1>5, <2>1 DEF r, Moments
  <2> QED
    BY <1>3, <2>3, <2>4, <2>5, <2>6
<1> QED
  BY <1>2, <1>4, <1>5

\* A result of a documented type fails only when it is no value of it, or a reference
\* raises.
LEMMA FailureIsNoValue ==
  ASSUME TypeOK, RegistryGrows, CallsRight, Documented(tp), phase = "failed"
  PROVE  IF result.form = "moment" THEN tp.kind \notin Moments
         ELSE tp.kind = "datetime" \/ ~Fits(tp, FALSE, result.doc) \/ ~Resolvable(tp)
<1> DEFINE r == result
           d == r.doc
<1>1. r \in Texts /\ r.form # "word" /\ tp.kind # "optional" /\ ~ResultValidates(r)
  BY DEF CallsRight
<1>2. r.form \in {"moment", "json"} /\ (r.form = "json" => d \in Docs)
  BY <1>1, DocsAssumption DEF ResultValidates
<1>3. /\ tp \in Types /\ Strip(tp) = tp /\ tp \in Plain(DOMAIN registry)
      /\ \A e \in Docs, t \in Plain(DOMAIN registry) :
           Resolvable(t) /\ Fits(t, FALSE, e) => Matches(t, e)
      /\ tp.kind \in Classes => tp.kind \notin Containers \cup Scalars \cup Moments
  BY <1>1, BareFacts DEF Ended
<1> HIDE DEF r, d
<1>4. CASE r.form = "moment"
  <2>1. ASSUME tp.kind \in Moments PROVE FALSE
    <3>1. PICK e \in Docs : e.json = "string"
      BY DocsAssumption
    <3>2. MatchStep(Matched, tp, FALSE, e)
      BY <1>3, <2>1, <3>1 DEF MatchStep, Moments, Containers
    <3>3. Matches(tp, e)
      BY <1>3, <3>2, MatchedUnfolds DEF Matches
    <3> QED
      BY <1>1, <1>4, <3>1, <3>3 DEF ResultValidates
  <2> QED
    BY <1>4, <2>1 DEF r
<1>5. CASE r.form = "json"
  <2>1. ASSUME tp.kind # "datetime", Resolvable(tp) PROVE ~Fits(tp, FALSE, d)
    <3>1. ~Matches(tp, d)
      BY <1>1, <1>5, <2>1 DEF ResultValidates, d
    <3> QED
      BY <1>2, <1>3, <1>5, <2>1, <3>1
  <2> QED
    BY <1>5, <2>1 DEF r, d
<1> QED
  BY <1>2, <1>4, <1>5

\* The registry is right, and so is what calls have come to.
Calling == TypeOK /\ RegistryGrows /\ CallsRight

\* What a call and a return came to, in every state.
THEOREM CallingHolds == Spec => []Calling
<1>1. Init => CallsRight
  <2> SUFFICES ASSUME Init PROVE CallsRight
    OBVIOUS
  <2>1. phase \in {"checking", "describing"} /\ (use = "return" => tp.kind # "optional")
    BY DEF Init
  <2> QED
    BY <2>1 DEF CallsRight
<1>2. TypeOK /\ RegistryGrows /\ CallsRight /\ [Next]_vars => CallsRight'
  BY CallsRightStep
<1> QED
  BY <1>1, <1>2, RegistryGrowsHolds, PTL DEF Spec, Calling

\* A method of a documented parameter type gets every string that is a value of it,
\* for types of any depth and classes that refer to each other.
THEOREM WellFormedCallsHold == Spec => []WellFormedCalls
<1>1. Calling => WellFormedCalls
  <2> SUFFICES ASSUME Calling, phase = "refused", Documented(tp), Strip(tp).kind # "bytes",
                      Resolvable(tp), WellFormed(Strip(tp), FALSE, text)
               PROVE  FALSE
    BY DEF WellFormedCalls
  <2>1. text \in Texts /\ ~Takes(text)
    BY DEF Calling, CallsRight
  <2>2. Takes(text)
    BY <2>1, WellFormedTaken DEF Calling, Ended
  <2> QED
    BY <2>1, <2>2
<1> QED
  BY <1>1, CallingHolds, PTL

\* And, of a type without classes, no other but for the missing Optional.
THEOREM IllFormedRefusedHolds == Spec => []IllFormedRefused
<1>1. Calling => IllFormedRefused
  <2> SUFFICES ASSUME Calling, phase = "called", Documented(tp), Refs[tp] = {}
               PROVE  \/ WellFormed(Strip(tp), FALSE, text)
                      \/ tp.kind = "optional" /\ text.form = "empty"
    BY DEF IllFormedRefused
  <2>1. text \in Texts /\ Takes(text)
    BY DEF Calling, CallsRight
  <2> QED
    BY <2>1, TakenWellFormed DEF Calling, Ended
<1> QED
  BY <1>1, CallingHolds, PTL

\* What one method returns another takes, for every documented type; only what is no
\* value of the type fails.
THEOREM ReturnsReadableHolds == Spec => []ReturnsReadable
<1>1. Calling => ReturnsReadable
  <2> SUFFICES ASSUME Calling, Documented(tp)
               PROVE  ReturnsReadable
    BY DEF ReturnsReadable
  <2>1. phase = "answered" /\ result.form # "empty" /\ tp.kind # "bytes"
          /\ (tp.kind = "date" => result.form = "moment")
          /\ (result.form = "moment" => tp.kind \notin Classes)
          => Converts(Bare(tp), text) /\ Validates(tp, text)
    BY AnswerTaken DEF Calling, Takes
  <2>2. phase = "failed" =>
          IF result.form = "moment" THEN tp.kind \notin Moments
          ELSE tp.kind = "datetime" \/ ~Fits(tp, FALSE, result.doc) \/ ~Resolvable(tp)
    BY FailureIsNoValue DEF Calling
  <2> QED
    BY <2>1, <2>2 DEF ReturnsReadable
<1> QED
  BY <1>1, CallingHolds, PTL
=============================================================================
