--------------------------- MODULE MCCompositeKeys ---------------------------
(***************************************************************************)
(* CompositeKeys over four code points, with words that begin alike, hold *)
(* the separator, or begin or end with the greatest code point.            *)
(***************************************************************************)
EXTENDS CompositeKeys

Words == {<<>>, <<1>>, <<1, 1>>, <<2>>, <<1, 3>>, <<3>>, <<1, 0, 1>>}
MCTypes == {<<>>, <<1>>, <<1, 1>>, <<1, 0, 1>>}
MCAttrs == {<<>>} \cup {<<a>> : a \in Words} \cup {<<a, b>> : a \in Words, b \in Words}
MCSimple == {<<>>, <<1>>, <<1, 0>>, <<2>>, <<0, 1, 0, 1>>}
=============================================================================
