-------------------------------- MODULE Buffer --------------------------------
(***************************************************************************)
(* Net/Buffer.h and Net/Buffer.cpp: the byte buffer of a connection.  The  *)
(* bytes between m_readIndex and m_writeIndex are what was written and not *)
(* yet retrieved; Prepend bytes are kept free in front of them.            *)
(*                                                                         *)
(* A buffer is a record [cell, size, r, w]: m_buffer's bytes and size, and *)
(* the two indices.  The class's methods are functions from buffers to     *)
(* buffers, and the actions are its public operations, each called by the  *)
(* one thread that owns the connection.  owed is what the callers count on *)
(* finding in the buffer, as long as promised: append and shrink do not    *)
(* say what becomes of the bytes they are given, and retrieveAsString does *)
(* not say that the bytes it returns stay where they are.                  *)
(***************************************************************************)
EXTENDS Integers, Sequences

CONSTANTS Prepend,     \* Buffer::Prepend, 8
          InitSize,    \* Buffer::InitSize, 1024
          ExtraSize,   \* sizeof extrabuf in readFd, 65536
          Bytes,       \* the bytes that are written
          MaxLen,      \* bound on the length of one write
          MaxSize,     \* bound on m_buffer.size()
          MaxOwed      \* bound on the bytes counted on

ASSUME ConstantsAssumption ==
  /\ Prepend \in Nat
  /\ InitSize \in Nat
  /\ ExtraSize \in Nat
  /\ MaxLen \in Nat
  /\ MaxSize \in Nat
  /\ MaxOwed \in Nat

Zero == 0              \* what std::vector fills new elements with
Cells == Bytes \cup {Zero}

VARIABLES b, owed, promised
vars == <<b, owed, promised>>

Buf(cell, size, r, w) == [cell |-> cell, size |-> size, r |-> r, w |-> w]

\* A Buffer object.
IsBuffer(x) ==
  /\ x = Buf(x.cell, x.size, x.r, x.w)
  /\ x.size \in Nat /\ x.r \in Nat /\ x.w \in Nat
  /\ x.cell \in [0..(x.size - 1) -> Cells]

-----------------------------------------------------------------------------
(* The methods of class Buffer.                                            *)

NewBuffer == Buf([i \in 0..(Prepend + InitSize - 1) |-> Zero],
                 Prepend + InitSize, Prepend, Prepend)

ReadableBytes(x) == x.w - x.r
WritableBytes(x) == x.size - x.w

\* peek(), as long as readableBytes().
Content(x) == [i \in 1..ReadableBytes(x) |-> x.cell[x.r + i - 1]]

\* The copy ends one byte early.
Store_Short(x, p, data) ==
  Buf([i \in 0..(x.size - 1) |-> IF p <= i /\ i < p + Len(data) - 1
                                 THEN data[i - p + 1] ELSE x.cell[i]],
      x.size, x.r, x.w)

\* The bytes of data stored from position p on.
Store(x, p, data) ==
  Buf([i \in 0..(x.size - 1) |-> IF p <= i /\ i < p + Len(data)
                                 THEN data[i - p + 1] ELSE x.cell[i]],
      x.size, x.r, x.w)

\* The write index moved on.
Written(x, len) == Buf(x.cell, x.size, x.r, x.w + len)

HasWritten(x, len) == IF len < WritableBytes(x) THEN x ELSE Written(x, len)

RetrieveAll(x) == Buf(x.cell, x.size, Prepend, Prepend)

\* A partial retrieval is refused.
Retrieve(x, len) == IF len < ReadableBytes(x) THEN x ELSE RetrieveAll(x)

\* m_buffer.resize
Resize(x, n) ==
  Buf([i \in 0..(n - 1) |-> IF i < x.size THEN x.cell[i] ELSE Zero], n, x.r, x.w)

\* The readable bytes are moved down to Prepend.
Compact(x) ==
  LET n == ReadableBytes(x) IN
  Buf([i \in 0..(x.size - 1) |-> IF Prepend <= i /\ i < Prepend + n
                                 THEN x.cell[i - Prepend + x.r] ELSE x.cell[i]],
      x.size, Prepend, Prepend + n)

\* The bytes to be kept free in front are forgotten.
MakeSpace_Greedy(x, len) ==
  IF WritableBytes(x) + x.r < len THEN Resize(x, x.w + len)
  ELSE IF Prepend >= x.r THEN x
  ELSE Compact(x)

MakeSpace(x, len) ==
  IF WritableBytes(x) + x.r < len + Prepend THEN Resize(x, x.w + len)
  ELSE IF Prepend >= x.r THEN x
  ELSE Compact(x)

EnsureWritable(x, len) == IF WritableBytes(x) < len THEN MakeSpace(x, len) ELSE x

\* append
AppendTo(x, data) ==
  LET y == EnsureWritable(x, Len(data)) IN
  HasWritten(Store(y, y.w, data), Len(data))

\* readFd appends what is in extrabuf from the old write index on.
ReadInto_NoFill(x, data) ==
  LET n == WritableBytes(x) IN
  IF Len(data) <= n THEN Written(Store(x, x.w, data), Len(data))
  ELSE AppendTo(Store(x, x.w, SubSeq(data, 1, n)), SubSeq(data, n + 1, Len(data)))

\* readv filled the writable part (m_writeIndex becomes m_buffer.size()), and
\* extrabuf with the rest.
ReadInto(x, data) ==
  LET n == WritableBytes(x) IN
  IF Len(data) <= n THEN Written(Store(x, x.w, data), Len(data))
  ELSE AppendTo(Written(Store(x, x.w, SubSeq(data, 1, n)), n),
                SubSeq(data, n + 1, Len(data)))

-----------------------------------------------------------------------------
(* The operations.  owed follows what each returns to its caller: an       *)
(* operation that returns false owes nothing.                              *)

Data == UNION {[1..n -> Bytes] : n \in 1..MaxLen}

InBounds(len) == b.w + len <= MaxSize /\ Len(owed) + len <= MaxOwed

Init == b = NewBuffer /\ owed = <<>> /\ promised = TRUE

\* readFd: as many bytes arrive as two iovecs can take.
ReadFd(data) ==
  /\ Len(data) <= WritableBytes(b) + (IF WritableBytes(b) < ExtraSize THEN ExtraSize ELSE 0)
  /\ InBounds(Len(data))
  /\ b' = ReadInto(b, data)
  /\ owed' = owed \o data
  /\ UNCHANGED promised

\* prepend returns false when the bytes do not fit.
PrependData(data) ==
  /\ Len(data) <= b.r /\ InBounds(Len(data))
  /\ LET p == b.r - Len(data) IN
     b' = Buf(Store(b, p, data).cell, b.size, p, b.w)
  /\ owed' = data \o owed
  /\ UNCHANGED promised

\* retrieve(len), and retrieveUntil(end), which gets to retrieve only with an end at
\* peek(), for 0, or before it, for more than there is: either nothing is taken or
\* everything is.
RetrieveBytes(len) ==
  /\ b' = Retrieve(b, len)
  /\ owed' = IF len < ReadableBytes(b) THEN owed ELSE <<>>
  /\ UNCHANGED promised

\* retrieveAsString(len), retrieveAllAsString(): the caller gets the first len bytes and
\* counts on them gone.  What retrieve answers is ignored: if they are not all there is,
\* they stay and are read again, and the promise is broken.
RetrieveAsString(len) ==
  /\ len <= ReadableBytes(b)
  /\ b' = Retrieve(b, len)
  /\ owed' = SubSeq(owed, len + 1, Len(owed))
  /\ promised' = (promised /\ len \in {0, ReadableBytes(b)})

\* The caller writes at beginWrite() and calls hasWritten.
WriteInPlace(data) ==
  /\ Len(data) <= WritableBytes(b) /\ InBounds(Len(data))
  /\ b' = HasWritten(Store(b, b.w, data), Len(data))
  /\ owed' = IF Len(data) < WritableBytes(b) THEN owed ELSE owed \o data
  /\ UNCHANGED promised

EnsureWritableBytes(len) ==
  /\ b.w + len <= MaxSize
  /\ b' = EnsureWritable(b, len)
  /\ UNCHANGED <<owed, promised>>

AppendData(data) ==
  /\ InBounds(Len(data))
  /\ b' = AppendTo(b, data)
  /\ owed' = owed \o data /\ promised' = FALSE

\* shrink(reserve): into a new buffer, and swapped.
Shrink(reserve) ==
  /\ Prepend + ReadableBytes(b) + reserve <= MaxSize
  /\ b' = AppendTo(EnsureWritable(NewBuffer, ReadableBytes(b) + reserve),
                 Content(b))
  /\ UNCHANGED owed /\ promised' = FALSE

\* What the library does with a connection's input buffer, and the operations
\* that keep their promise.
NextInput == \/ \E data \in Data : ReadFd(data) \/ PrependData(data) \/ WriteInPlace(data)
             \/ \E len \in 0..MaxLen : RetrieveBytes(len) \/ EnsureWritableBytes(len)

Next == \/ NextInput
        \/ \E data \in Data : AppendData(data)
        \/ \E len \in 0..MaxLen : Shrink(len) \/ RetrieveAsString(len)

Spec == Init /\ [][Next]_vars

-----------------------------------------------------------------------------
\* The indices are in order and inside the buffer.  The read index never
\* leaves the prepend area: nothing is retrieved in part.
TypeOK ==
  /\ IsBuffer(b)
  /\ b.r <= b.w /\ b.w <= b.size
  /\ b.r <= Prepend /\ Prepend <= b.size
  /\ owed \in Seq(Bytes) /\ promised \in BOOLEAN

\* The readable bytes of x are the sequence q.
Holds(x, q) ==
  /\ Len(q) = ReadableBytes(x)
  /\ \A i \in 1..Len(q) : x.cell[x.r + i - 1] = q[i]

\* The buffer holds, in order, exactly the bytes its callers count on: what
\* arrived through readFd survives the extra buffer and the growing of m_buffer.  It is
\* so until append, shrink or a retrieveAsString of a part.
Lossless == promised => Holds(b, owed)

\* append and shrink may lose what they are given (hasWritten refuses to
\* advance over part of the writable bytes), but then all of it: append adds
\* all its bytes or none, shrink keeps all readable bytes or none.  And
\* retrieveAsString leaves all of them or none, whatever it returned: what its
\* caller has and finds again begins with the first byte, never in the middle.
AllOrNothing ==
  [][ b' # b =>
        /\ \A data \in Data :
             AppendData(data) => Content(b') \in {Content(b), Content(b) \o data}
        /\ \A reserve \in 0..MaxLen :
             Shrink(reserve) => Content(b') \in {Content(b), <<>>}
        /\ \A len \in 0..MaxLen :
             RetrieveAsString(len) => Content(b') \in {Content(b), <<>>} ]_vars

\* Buffer.h:200: after ensureWritableBytes(len), whenever it is called, len
\* bytes can be written.
EnsureWorks ==
  \A len \in 0..MaxLen : WritableBytes(EnsureWritable(b, len)) >= len

\* Buffer.h:39: readableBytes() is the number of bytes that were written and
\* can be read.
ReadableIsWritten == ReadableBytes(b) = Len(owed)
=============================================================================
