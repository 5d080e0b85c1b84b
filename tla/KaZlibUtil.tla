------------------------------ MODULE KaZlibUtil ------------------------------
(***************************************************************************)
(* Util/KaZlibUtil.cpp: uncompressBuf, from one std::string into another.  *)
(* A string is a sequence of cells.  zlib is external: its compress makes  *)
(* of a text cells that say which text they stand for, one more than the   *)
(* text has; its uncompress needs all of those cells, ignores what is      *)
(* behind them, and needs room for the whole text.  Nothing in the         *)
(* repository calls compressBuf; it is not modelled.                       *)
(***************************************************************************)
EXTENDS Integers, Sequences

CompressBound(n) == n + 1

Deflated(s) == [k \in 1..CompressBound(Len(s)) |-> [zip |-> s, at |-> k]]

\* src begins with a whole compressed text.
StartsDeflated(src) ==
  /\ src # <<>> /\ "zip" \in DOMAIN src[1]
  /\ LET z == Deflated(src[1].zip)
     IN  Len(z) <= Len(src) /\ SubSeq(src, 1, Len(z)) = z

Result(ok, dest) == [ok |-> ok, dest |-> dest]

\* uncompressBuf with room for n.
UncompressBuf(src, dest, n) ==
  IF StartsDeflated(src) /\ Len(src[1].zip) <= n THEN Result(TRUE, dest \o src[1].zip)
  ELSE Result(FALSE, dest)
==============================================================================
