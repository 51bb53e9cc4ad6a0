------------------------------ MODULE MCServer ------------------------------
(***************************************************************************)
(* Server with two connections, and calls of start of every kind.          *)
(***************************************************************************)
EXTENDS Server

CONSTANTS c1, c2

MCConn == {c1, c2}
MCCall(given, unset, empty, cc) == [given |-> given, unset |-> unset, empty |-> empty, cc |-> cc]
MCCalls ==
  {MCCall({"id", "address"}, {"id", "address"}, {}, cc) :
     cc \in {"none", "class", "otherClass", "failing", "instance", "object"}}
  \cup {MCCall({}, {}, {}, "instance"), MCCall({"id"}, {"id", "address"}, {}, "instance"),
        MCCall({"id"}, {}, {"id"}, "class"), MCCall({"id"}, {"id"}, {}, "class")}
=============================================================================
