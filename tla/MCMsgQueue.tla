----------------------------- MODULE MCMsgQueue -----------------------------
(***************************************************************************)
(* MsgQueue with requests r1, r2, r3 in transaction t1 and r4 in t2.       *)
(***************************************************************************)
EXTENDS MsgQueue, TLC

CONSTANTS t1, t2, r1, r2, r3, r4

MCTx == {t1, t2}
MCReq == {r1, r2, r3, r4}
MCTxOf == (r1 :> t1) @@ (r2 :> t1) @@ (r3 :> t1) @@ (r4 :> t2)
=============================================================================
