---------------------------- MODULE MCKaCachePool ----------------------------
(***************************************************************************)
(* An instance of KaCachePool for TLC: four callers, one of which borrows  *)
(* a second connection while it holds one, and more addresses than the     *)
(* pool may have connections.                                              *)
(***************************************************************************)
EXTENDS KaCachePool

CONSTANTS t1, t2, t3, t4, c1, c2, c3, c4

MCThreads == {t1, t2, t3, t4}
MCConns == {c1, c2, c3, c4}
MCMaxHeld == [t \in MCThreads |-> IF t = t1 THEN 2 ELSE 1]
=============================================================================
