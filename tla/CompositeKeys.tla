---------------------------- MODULE CompositeKeys ----------------------------
(***************************************************************************)
(* Composite keys of fabric_shim/stub.py, and the ledger they are written  *)
(* to: what create_composite_key joins, split_composite_key must take      *)
(* apart again, and a partial key must find, among the other keys of the   *)
(* chaincode.  A string is the sequence of its code points; the peer       *)
(* orders keys by them.  How the result of a query is fetched is           *)
(* QueryIterator's matter.                                                 *)
(***************************************************************************)
EXTENDS Integers, Sequences, SequencesExt, FiniteSets

CONSTANTS MaxRune,  \* stands for U+10FFFF; the code points are 0 .. MaxRune
          Types,    \* object types
          Attrs,    \* lists of attributes
          Simple,   \* keys that are not made of parts
          MaxKeys   \* bound on the keys of the ledger

Strings == Seq(0 .. MaxRune)
ASSUME StringsAssumption ==
  /\ MaxRune \in Nat \ {0}
  /\ Types \subseteq Strings /\ Simple \subseteq Strings /\ Attrs \subseteq Seq(Strings)
ASSUME MaxKeysAssumption == MaxKeys \in Nat

VARIABLES ledger,  \* the keys of the chaincode's state
          made,    \* history: parts of the composite keys in the ledger
          plain,   \* history: keys in the ledger put as they are
          last     \* what the last call did: "done" or "raised"
vars == <<ledger, made, plain, last>>

Parts(type, attrs) == [type |-> type, attrs |-> attrs]

(***************************************************************************)
(* create_composite_key and split_composite_key                            *)
(***************************************************************************)
Min_Rune == 0
Namespace == <<Min_Rune>>

\* validate_composite_key_attribute: only the empty string is refused.
ValidPart(s) == s # <<>>
Accepted(p) == ValidPart(p.type) /\ \A i \in DOMAIN p.attrs : ValidPart(p.attrs[i])

\* The parts, each ended by the separator.
Joined[parts \in Seq(Strings)] ==
  IF parts = <<>> THEN <<>> ELSE Joined[Front(parts)] \o Last(parts) \o <<Min_Rune>>

\* Mutant: the separator stands between the parts, and none follows the last.
Key_Between(p) == Namespace \o Front(Joined[<<p.type>> \o p.attrs])
Key(p) == Namespace \o Joined[<<p.type>> \o p.attrs]

\* str.split(MIN_UNICODE_RUNE_VALUE): the fields up to the last separator, and what
\* follows it.
Fields[s \in Strings] ==
  LET cuts == {i \in 1 .. Len(s) : s[i] = Min_Rune}
      cut == Max(cuts)
  IN IF cuts = {} THEN <<s>>
     ELSE Append(Fields[SubSeq(s, 1, cut - 1)], SubSeq(s, cut + 1, Len(s)))

NoType == <<>>
\* A key that is not composite has no type and no attributes; of one that is, what
\* follows the last separator is dropped.
Split(key) ==
  IF Len(key) > 1 /\ key[1] = Min_Rune
    THEN LET fields == Fields[Tail(key)] IN
         Parts(fields[1], IF Len(fields) > 2 THEN Tail(Front(fields)) ELSE <<>>)
    ELSE Parts(NoType, <<>>)

(***************************************************************************)
(* get_state_by_range and get_state_by_partial_composite_key               *)
(***************************************************************************)

\* External: the peer's order of keys.
Less(a, b) ==
  \E i \in 1 .. Len(b) : /\ i <= Len(a) + 1
                         /\ SubSeq(a, 1, i - 1) = SubSeq(b, 1, i - 1)
                         /\ i <= Len(a) => a[i] < b[i]

\* External: the keys from start, inclusive, to end, exclusive.
KeysByRange(start, end) == {k \in ledger : ~Less(k, start) /\ Less(k, end)}

RangeEnd(prefix) == prefix \o <<MaxRune>>

\* Mutant: the prefix lacks the separator that ends its last part.
KeysByPartialKey_Open(p) == KeysByRange(Front(Key(p)), RangeEnd(Front(Key(p))))
KeysByPartialKey(p) == KeysByRange(Key(p), RangeEnd(Key(p)))

(***************************************************************************)
(* put_state and delete_state of chaincode                                 *)
(***************************************************************************)
Keys == Cardinality(made) + Cardinality(plain)

Init == ledger = {} /\ made = {} /\ plain = {} /\ last = "done"

PutComposite(p) ==
  /\ Accepted(p) /\ Keys < MaxKeys
  /\ ledger' = ledger \cup {Key(p)}
  /\ made' = made \cup {p}
  /\ last' = "done"
  /\ UNCHANGED plain

PutRefused(p) ==
  /\ ~Accepted(p)
  /\ last' = "raised"
  /\ UNCHANGED <<ledger, made, plain>>

\* Any string goes: nothing calls validate_simple_keys.
PutSimple(key) ==
  /\ Keys < MaxKeys
  /\ ledger' = ledger \cup {key}
  /\ plain' = plain \cup {key}
  /\ last' = "done"
  /\ UNCHANGED made

Delete(key) ==
  /\ ledger' = ledger \ {key}
  /\ made' = {p \in made : Key(p) # key}
  /\ plain' = plain \ {key}
  /\ last' = "done"

Next ==
  \/ \E t \in Types, as \in Attrs : PutComposite(Parts(t, as)) \/ PutRefused(Parts(t, as))
  \/ \E key \in Simple : PutSimple(key)
  \/ \E key \in ledger : Delete(key)

Spec == Init /\ [][Next]_vars

(***************************************************************************)
(* Properties.                                                             *)
(***************************************************************************)
Free(s) == \A i \in DOMAIN s : s[i] # Min_Rune
Clean(p) == Accepted(p) /\ Free(p.type) /\ \A i \in DOMAIN p.attrs : Free(p.attrs[i])

\* A key is taken apart into what it was made of, if no part holds U+0000: one
\* attribute more, one less, or one that begins where another ends makes another
\* key (stub.py:319-342).
SplitsBack == \A p \in made : Clean(p) => Split(Key(p)) = p

\* An attribute that begins with U+10FFFF lies behind the end of the range.
Behind(p, q) == Len(p.attrs) > Len(q.attrs) /\ p.attrs[Len(q.attrs) + 1][1] = MaxRune

\* Of the keys that were made of parts without U+0000, a partial key finds those of
\* its type and first attributes, and no others: not those whose next attribute
\* merely begins alike, nor those of a type that begins alike.  It misses, of these,
\* the keys whose next attribute begins with U+10FFFF.  What else the ledger holds
\* changes nothing of this; but a key put as it is is found too if it begins with
\* U+0000, which nothing refuses (stub.py:262-275, utils.py:29-37).
PartialKeyExact ==
  \A t \in Types, as \in Attrs :
    LET q == Parts(t, as)
        found == KeysByPartialKey(q)
    IN Clean(q) =>
         /\ \A p \in made : Clean(p) =>
              (Key(p) \in found
                 <=> p.type = q.type /\ IsPrefix(q.attrs, p.attrs) /\ ~Behind(p, q))
         /\ \A k \in found \cap plain : k # <<>> /\ k[1] = Min_Rune
=============================================================================
