--------------------------- MODULE MCQueryIterator ---------------------------
(***************************************************************************)
(* QueryIterator with a consumer and two coroutines that may close.        *)
(***************************************************************************)
EXTENDS QueryIterator, TLC

CONSTANTS c1, k1, k2

MCClosers == {k1, k2}
=============================================================================
