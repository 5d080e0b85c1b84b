------------------------------ MODULE LineSearch ------------------------------
(***************************************************************************)
(* The searches of Net/Buffer.h over the readable bytes s.  A position is  *)
(* the number of bytes before it: 0 is peek(), Len(s) is beginWrite();     *)
(* NoPlace is nullptr.                                                     *)
(***************************************************************************)
EXTENDS Integers, Sequences

CR == 13
LF == 10
NoPlace == -1

First(P) == IF P = {} THEN NoPlace ELSE CHOOSE p \in P : \A q \in P : p <= q

\* findCRLF(start): std::search up to beginWrite(); nullptr for a place that is not in the
\* readable bytes.
FindCRLF(s, start) ==
  IF start \notin 0..Len(s) THEN NoPlace
  ELSE First({p \in start..(Len(s) - 2) : s[p + 1] = CR /\ s[p + 2] = LF})

\* findEOF(start), and findEOF(), whose start is peek(): memchr.
FindEOF(s, start) ==
  IF start \notin 0..Len(s) THEN NoPlace
  ELSE First({p \in start..(Len(s) - 1) : s[p + 1] = LF})

-----------------------------------------------------------------------------
(* Properties.                                                             *)

\* Where a reader finds the ends of lines that goes on behind each end it found, an end
\* being len bytes long: at most as many as there are bytes.
EndsFrom(Find(_, _), s, len) ==
  LET next[i \in 0..Len(s)] ==
        IF i = 0 THEN Find(s, 0)
        ELSE IF next[i - 1] = NoPlace THEN NoPlace
        ELSE Find(s, next[i - 1] + len)
  IN  {next[i] : i \in 0..Len(s)} \ {NoPlace}

\* A reader that takes a line, goes on behind its end and looks for the next finds every
\* "\r\n" and every '\n' of the bytes, none twice and none beyond them, also when one lies
\* across the place it starts from or ends the bytes; and what stands behind the bytes is
\* refused as a start (Buffer.h:87, Buffer.h:101).
LinesAreFound(s) ==
  /\ EndsFrom(FindCRLF, s, 2) = {p \in 0..(Len(s) - 2) : SubSeq(s, p + 1, p + 2) = <<CR, LF>>}
  /\ EndsFrom(FindEOF, s, 1) = {p \in 0..(Len(s) - 1) : s[p + 1] = LF}
  /\ FindCRLF(s, Len(s) + 1) = NoPlace /\ FindEOF(s, Len(s) + 1) = NoPlace
==============================================================================
