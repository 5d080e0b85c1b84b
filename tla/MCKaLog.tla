-------------------------------- MODULE MCKaLog --------------------------------
(***************************************************************************)
(* Instances of KaLog for TLC: two lines of different length, a file that  *)
(* is full after two bytes.                                                *)
(***************************************************************************)
EXTENDS KaLog
=============================================================================
