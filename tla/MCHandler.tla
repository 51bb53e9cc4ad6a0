------------------------------ MODULE MCHandler ------------------------------
(***************************************************************************)
(* Handler with two transactions.                                          *)
(***************************************************************************)
EXTENDS Handler, TLC

CONSTANTS t1, t2

MCTx == {t1, t2}
=============================================================================
