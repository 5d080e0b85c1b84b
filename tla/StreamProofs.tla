----------------------------- MODULE StreamProofs -----------------------------
(***************************************************************************)
(* Proofs about Buffer and about ChatSession, which cuts a Buffer's bytes  *)
(* into packages.                                                          *)
(*                                                                         *)
(* Buffer, for any sizes and any bytes: the indices stay in order,         *)
(* ensureWritableBytes keeps its promise, and nothing that arrives through *)
(* readFd is lost or reordered.                                            *)
(*                                                                         *)
(* ChatSession, for any packages in pieces of any size, on a Buffer that   *)
(* gives up what is retrieved: their bodies are processed whole and in     *)
(* order, up to the first package whose compressSize is too long.  On      *)
(* either Buffer none is left waiting.                                     *)
(***************************************************************************)
EXTENDS Buffer, ChatSession, SequenceTheorems, TLAPS

\* A buffer whose indices are in order.
Fine(x) == /\ IsBuffer(x)
           /\ x.r <= x.w /\ x.w <= x.size
           /\ x.r <= Prepend /\ Prepend <= x.size

-----------------------------------------------------------------------------
(* What the methods do.                                                    *)

LEMMA StoreFacts ==
  ASSUME NEW x, IsBuffer(x), NEW p \in Nat, NEW data \in Seq(Cells)
  PROVE  LET y == Store(x, p, data) IN
         /\ IsBuffer(y)
         /\ y.size = x.size /\ y.r = x.r /\ y.w = x.w
         /\ \A j \in 0..(x.size - 1) :
              y.cell[j] = IF p <= j /\ j < p + Len(data)
                          THEN data[j - p + 1] ELSE x.cell[j]
         /\ \A i \in 1..Len(data) :
              p + i - 1 < x.size => y.cell[p + i - 1] = data[i]
<1> DEFINE c == [j \in 0..(x.size - 1) |-> IF p <= j /\ j < p + Len(data)
                                          THEN data[j - p + 1] ELSE x.cell[j]]
<1>1. ASSUME NEW j \in 0..(x.size - 1) PROVE c[j] \in Cells
  <2>1. CASE p <= j /\ j < p + Len(data)
    <3>1. j - p + 1 \in 1..Len(data)
      BY <2>1 DEF IsBuffer
    <3>2. QED
      BY <2>1, <3>1, ElementOfSeq
  <2>2. CASE ~(p <= j /\ j < p + Len(data))
    BY <2>2 DEF IsBuffer
  <2>3. QED
    BY <2>1, <2>2
<1>2. c \in [0..(x.size - 1) -> Cells]
  BY <1>1
<1>3. Store(x, p, data) = Buf(c, x.size, x.r, x.w)
  BY DEF Store
<1> HIDE DEF c
<1>4. IsBuffer(Store(x, p, data))
  BY <1>2, <1>3 DEF IsBuffer, Buf
<1>5. ASSUME NEW i \in 1..Len(data), p + i - 1 < x.size PROVE c[p + i - 1] = data[i]
  <2> DEFINE j == p + i - 1
  <2>1. j \in 0..(x.size - 1) /\ p <= j /\ j < p + Len(data) /\ j - p + 1 = i
    BY <1>5, LenProperties DEF IsBuffer
  <2> HIDE DEF j
  <2>2. c[j] = data[j - p + 1]
    BY <2>1 DEF c
  <2>3. QED
    BY <2>1, <2>2 DEF j
<1>6. \A j \in 0..(x.size - 1) :
         c[j] = IF p <= j /\ j < p + Len(data) THEN data[j - p + 1] ELSE x.cell[j]
  BY DEF c
<1> DEFINE y == Store(x, p, data)
<1>7. y.cell = c /\ y.size = x.size /\ y.r = x.r /\ y.w = x.w
  BY <1>3 DEF Buf
<1> HIDE DEF y
<1>8. \A i \in 1..Len(data) : p + i - 1 < x.size => y.cell[p + i - 1] = data[i]
  BY <1>5, <1>7
<1>9. \A j \in 0..(x.size - 1) :
         y.cell[j] = IF p <= j /\ j < p + Len(data) THEN data[j - p + 1] ELSE x.cell[j]
  BY <1>6, <1>7
<1>10. QED
  BY <1>4, <1>7, <1>8, <1>9, Zenon DEF y

\* The same as one fact about the result.
Stored(y, x, p, data) ==
  /\ IsBuffer(y)
  /\ y.size = x.size /\ y.r = x.r /\ y.w = x.w
  /\ \A j \in 0..(x.size - 1) :
       y.cell[j] = IF p <= j /\ j < p + Len(data)
                   THEN data[j - p + 1] ELSE x.cell[j]
  /\ \A i \in 1..Len(data) : p + i - 1 < x.size => y.cell[p + i - 1] = data[i]

LEMMA StoredFacts ==
  ASSUME NEW x, IsBuffer(x), NEW p \in Nat, NEW data \in Seq(Cells)
  PROVE  Stored(Store(x, p, data), x, p, data)
<1> DEFINE y == Store(x, p, data)
<1>1. /\ IsBuffer(y)
      /\ y.size = x.size /\ y.r = x.r /\ y.w = x.w
      /\ \A j \in 0..(x.size - 1) :
           y.cell[j] = IF p <= j /\ j < p + Len(data)
                       THEN data[j - p + 1] ELSE x.cell[j]
      /\ \A i \in 1..Len(data) :
           p + i - 1 < x.size => y.cell[p + i - 1] = data[i]
  BY StoreFacts
<1> HIDE DEF y
<1>2. Stored(y, x, p, data)
  BY <1>1, Zenon DEF Stored
<1>3. QED
  BY <1>2 DEF y

\* ensureWritableBytes makes room, exactly as much as needed if it has to, and
\* keeps what is written.  (Compact is never reached: nothing was retrieved in
\* part, so nothing can be gained by moving the bytes down.)
LEMMA EnsureFacts ==
  ASSUME NEW x, Fine(x), NEW len \in Nat
  PROVE  LET y == EnsureWritable(x, len) IN
         /\ Fine(y)
         /\ y.r = x.r /\ y.w = x.w
         /\ WritableBytes(y) = IF WritableBytes(x) < len THEN len ELSE WritableBytes(x)
         /\ \A j \in 0..(x.w - 1) : y.cell[j] = x.cell[j]
<1> USE ConstantsAssumption
<1>1. CASE WritableBytes(x) >= len
  BY <1>1 DEF EnsureWritable, WritableBytes, Fine, IsBuffer
<1>2. CASE WritableBytes(x) < len
  <2> DEFINE n == x.w + len
             c == [i \in 0..(n - 1) |-> IF i < x.size THEN x.cell[i] ELSE Zero]
  <2>1. WritableBytes(x) + x.r < len + Prepend
    BY <1>2 DEF WritableBytes, Fine, IsBuffer
  <2>2. EnsureWritable(x, len) = Resize(x, n)
    BY <1>2, <2>1 DEF EnsureWritable, MakeSpace, WritableBytes, Fine, IsBuffer
  <2>3. Resize(x, n) = Buf(c, n, x.r, x.w)
    BY DEF Resize
  <2>4. n \in Nat /\ n >= x.size
    BY <1>2 DEF WritableBytes, Fine, IsBuffer
  <2>5. c \in [0..(n - 1) -> Cells]
    BY <2>4 DEF Cells, Fine, IsBuffer
  <2>6. \A j \in 0..(x.w - 1) : c[j] = x.cell[j]
    BY <2>4 DEF Fine, IsBuffer
  <2>7. n - x.w = len
    BY DEF Fine, IsBuffer
  <2> HIDE DEF c, n
  <2>8. QED
    BY <1>2, <2>2, <2>3, <2>4, <2>5, <2>6, <2>7 DEF Fine, IsBuffer, WritableBytes, Buf
<1>3. QED
  BY <1>1, <1>2 DEF WritableBytes, Fine, IsBuffer

\* append keeps what was readable and adds all of data or nothing; it adds it
\* when the writable bytes did not suffice.
LEMMA AppendToFacts ==
  ASSUME NEW x, Fine(x), NEW data \in Seq(Cells)
  PROVE  LET z == AppendTo(x, data) IN
         /\ Fine(z)
         /\ z.r = x.r
         /\ \A j \in 0..(x.w - 1) : z.cell[j] = x.cell[j]
         /\ \/ z.w = x.w
            \/ /\ z.w = x.w + Len(data)
               /\ \A i \in 1..Len(data) : z.cell[x.w + i - 1] = data[i]
         /\ WritableBytes(x) < Len(data) => z.w = x.w + Len(data)
<1> DEFINE len == Len(data)
           y == EnsureWritable(x, len)
           s == Store(y, y.w, data)
           z == AppendTo(x, data)
<1>1. len \in Nat
  BY LenProperties
<1>2. /\ Fine(y) /\ y.r = x.r /\ y.w = x.w
      /\ WritableBytes(y) = IF WritableBytes(x) < len THEN len ELSE WritableBytes(x)
      /\ \A j \in 0..(x.w - 1) : y.cell[j] = x.cell[j]
  BY <1>1, EnsureFacts
<1> HIDE DEF y
<1>3. y.w \in Nat /\ IsBuffer(y)
  BY <1>2 DEF Fine, IsBuffer
<1>4. IsBuffer(s) /\ s.size = y.size /\ s.r = y.r /\ s.w = y.w
  BY <1>3, StoreFacts
<1>41. /\ \A j \in 0..(y.size - 1) :
           s.cell[j] = IF y.w <= j /\ j < y.w + len THEN data[j - y.w + 1] ELSE y.cell[j]
      /\ \A i \in 1..len : y.w + i - 1 < y.size => s.cell[y.w + i - 1] = data[i]
  BY <1>3, StoreFacts
<1> HIDE DEF s
<1>5. z = IF len < WritableBytes(s) THEN s ELSE Written(s, len)
  BY DEF AppendTo, HasWritten, y, s
<1> HIDE DEF z, len
<1>6. \A j \in 0..(x.w - 1) : s.cell[j] = x.cell[j]
  BY <1>2, <1>4, <1>41 DEF Fine, IsBuffer
<1>7. /\ WritableBytes(s) = y.size - y.w /\ WritableBytes(y) = y.size - y.w
      /\ WritableBytes(s) >= len
      /\ WritableBytes(x) < len => WritableBytes(s) = len
  BY <1>1, <1>2, <1>3, <1>4 DEF WritableBytes, Fine, IsBuffer
<1>8. CASE len < WritableBytes(s)
  BY <1>1, <1>2, <1>4, <1>5, <1>6, <1>7, <1>8 DEF Fine, IsBuffer, z, len
<1>9. CASE ~(len < WritableBytes(s))
  <2>1. z = Buf(s.cell, s.size, s.r, s.w + len)
    BY <1>5, <1>9 DEF Written
  <2>2. s.w \in Nat /\ s.size \in Nat /\ x.w \in Nat
    BY <1>4 DEF IsBuffer, Fine
  <2>3. s.w + len = s.size
    BY <2>2, <1>1, <1>4, <1>7, <1>9
  <2>4. Fine(z)
    BY <2>1, <2>3, <1>1, <1>2, <1>3, <1>4 DEF Fine, IsBuffer, Buf
  <2>5. ASSUME NEW i \in 1..len PROVE z.cell[x.w + i - 1] = data[i]
    <3>1. z.cell = s.cell /\ y.w = x.w
      BY <2>1, <1>2 DEF Buf
    <3>2. y.w + i - 1 < y.size
      BY <2>2, <2>3, <1>1, <1>4
    <3>3. QED
      BY <3>1, <3>2, <1>41
  <2>6. z.w = x.w + len /\ z.r = x.r /\ z.cell = s.cell
    BY <2>1, <1>2, <1>4 DEF Buf
  <2>7. QED
    BY <2>4, <2>5, <2>6, <1>2, <1>6 DEF z, len
<1>10. QED
  BY <1>8, <1>9

LEMMA NewBufferFine == Fine(NewBuffer) /\ Holds(NewBuffer, <<>>)
BY ConstantsAssumption DEF NewBuffer, Buf, Fine, IsBuffer, Holds, ReadableBytes, Cells

\* A buffer whose cells from x's write index on are data holds data as well.
LEMMA HoldsMore ==
  ASSUME NEW x, Fine(x), NEW q \in Seq(Cells), Holds(x, q),
         NEW data \in Seq(Cells),
         NEW z, z.r = x.r, z.w = x.w + Len(data),
         \A j \in 0..(x.w - 1) : z.cell[j] = x.cell[j],
         \A i \in 1..Len(data) : z.cell[x.w + i - 1] = data[i]
  PROVE  Holds(z, q \o data)
<1>1. /\ x.w \in Nat /\ x.r \in Nat /\ x.r <= x.w
      /\ Len(data) \in Nat /\ Len(q) \in Nat /\ Len(q) = x.w - x.r
  BY LenProperties DEF Fine, IsBuffer, Holds, ReadableBytes
<1>2. /\ Len(q \o data) = Len(q) + Len(data)
      /\ \A i \in 1..(Len(q) + Len(data)) :
           (q \o data)[i] = IF i <= Len(q) THEN q[i] ELSE data[i - Len(q)]
  BY ConcatProperties
<1>3. Len(q \o data) = ReadableBytes(z)
  BY <1>1, <1>2 DEF ReadableBytes
<1>4. ASSUME NEW i \in 1..Len(q \o data)
      PROVE  z.cell[z.r + i - 1] = (q \o data)[i]
  <2>1. CASE i <= Len(q)
    <3>1. x.r + i - 1 \in 0..(x.w - 1) /\ i \in 1..Len(q)
      BY <2>1, <1>1, <1>2
    <3>2. z.cell[x.r + i - 1] = q[i]
      BY <3>1 DEF Holds
    <3>3. QED
      BY <3>2, <2>1, <1>2
  <2>2. CASE i > Len(q)
    <3>1. i - Len(q) \in 1..Len(data) /\ x.r + i - 1 = x.w + (i - Len(q)) - 1
      BY <2>2, <1>1, <1>2, SMTT(30)
    <3>2. z.cell[x.r + i - 1] = data[i - Len(q)]
      BY <3>1
    <3>3. ~(i <= Len(q))
      BY <2>2, <1>1, <1>2
    <3>4. QED
      BY <3>2, <3>3, <1>2
  <2>3. QED
    BY <2>1, <2>2, <1>1, <1>2
<1>5. QED
  BY <1>3, <1>4 DEF Holds

\* A sequence cut in two.
LEMMA SplitFacts ==
  ASSUME NEW S, NEW q \in Seq(S), NEW n \in Nat, n < Len(q)
  PROVE  LET q1 == SubSeq(q, 1, n)
             q2 == SubSeq(q, n + 1, Len(q))
         IN  /\ q1 \in Seq(S) /\ Len(q1) = n
             /\ \A i \in 1..n : q1[i] = q[i]
             /\ q2 \in Seq(S) /\ Len(q2) = Len(q) - n
             /\ \A i \in 1..(Len(q) - n) : q2[i] = q[n + i]
<1> DEFINE q1 == SubSeq(q, 1, n)
           q2 == SubSeq(q, n + 1, Len(q))
<1>1. Len(q) \in Nat /\ \A i \in 1..Len(q) : q[i] \in S
  BY LenProperties, ElementOfSeq
<1>2. /\ \A i \in 1..n : q[i] \in S
      /\ \A i \in (n + 1)..Len(q) : q[i] \in S
  BY <1>1
<1>3. /\ q1 \in Seq(S) /\ Len(q1) = IF 1 <= n THEN n - 1 + 1 ELSE 0
      /\ \A i \in 1..(n - 1 + 1) : q1[i] = q[1 + i - 1]
  BY <1>2, SubSeqProperties
<1>4. /\ q2 \in Seq(S)
      /\ Len(q2) = IF n + 1 <= Len(q) THEN Len(q) - (n + 1) + 1 ELSE 0
      /\ \A i \in 1..(Len(q) - (n + 1) + 1) : q2[i] = q[n + 1 + i - 1]
  <2>1. n + 1 \in Int /\ Len(q) \in Int
    BY <1>1
  <2>2. QED
    BY <2>1, <1>2, SubSeqProperties
<1> HIDE DEF q1, q2
<1>5. Len(q1) = n /\ Len(q2) = Len(q) - n
  BY <1>1, <1>3, <1>4
<1>6. ASSUME NEW i \in 1..n PROVE q1[i] = q[i]
  <2>1. i \in 1..(n - 1 + 1) /\ 1 + i - 1 = i
    OBVIOUS
  <2>2. q1[i] = q[1 + i - 1]
    BY <2>1, <1>3
  <2>3. QED
    BY <2>1, <2>2
<1>7. ASSUME NEW i \in 1..(Len(q) - n) PROVE q2[i] = q[n + i]
  <2>1. i \in 1..(Len(q) - (n + 1) + 1) /\ n + 1 + i - 1 = n + i
    BY <1>1
  <2>2. q2[i] = q[n + 1 + i - 1]
    BY <2>1, <1>4
  <2>3. QED
    BY <2>1, <2>2
<1>8. QED
  BY <1>3, <1>4, <1>5, <1>6, <1>7, Zenon DEF q1, q2

\* readv, into the buffer and what is over into extrabuf: everything that
\* arrived is there, after what was there.
LEMMA ReadIntoFacts ==
  ASSUME NEW x, Fine(x), NEW q \in Seq(Cells), Holds(x, q),
         NEW data \in Seq(Cells)
  PROVE  Fine(ReadInto(x, data)) /\ Holds(ReadInto(x, data), q \o data)
<1> DEFINE n == WritableBytes(x)
           z == ReadInto(x, data)
<1>1. /\ x.w \in Nat /\ x.r \in Nat /\ x.size \in Nat /\ n \in Nat
      /\ Len(data) \in Nat /\ Len(q) \in Nat /\ Len(q) = x.w - x.r
      /\ x.r <= x.w /\ x.w + n = x.size /\ Prepend \in Nat
  BY LenProperties, ConstantsAssumption
     DEF Fine, IsBuffer, Holds, ReadableBytes, WritableBytes
\* It is enough to know where the indices end up and what the cells hold.
<1>2. SUFFICES /\ Fine(z)
               /\ z.r = x.r /\ z.w = x.w + Len(data)
               /\ \A j \in 0..(x.w - 1) : z.cell[j] = x.cell[j]
               /\ \A i \in 1..Len(data) : z.cell[x.w + i - 1] = data[i]
  BY HoldsMore
<1>3. CASE Len(data) <= n
  <2> DEFINE s == Store(x, x.w, data)
  <2>1. /\ IsBuffer(s) /\ s.size = x.size /\ s.r = x.r /\ s.w = x.w
        /\ \A j \in 0..(x.size - 1) :
             s.cell[j] = IF x.w <= j /\ j < x.w + Len(data)
                         THEN data[j - x.w + 1] ELSE x.cell[j]
        /\ \A i \in 1..Len(data) : x.w + i - 1 < x.size => s.cell[x.w + i - 1] = data[i]
    <3>1. IsBuffer(x) /\ x.w \in Nat /\ data \in Seq(Cells)
      BY <1>1 DEF Fine
    <3>2. QED
      BY ONLY <3>1, StoreFacts, ZenonT(30) DEF s
  <2> HIDE DEF s
  <2>2. z = Buf(s.cell, x.size, x.r, x.w + Len(data))
    BY <1>3, <2>1 DEF ReadInto, Written, s
  <2> HIDE DEF z
  <2>3. Fine(z)
    BY <2>1, <2>2, <1>1, <1>3 DEF Fine, IsBuffer, Buf
  <2>4. /\ z.r = x.r /\ z.w = x.w + Len(data) /\ z.cell = s.cell
    BY <2>2 DEF Buf
  <2>5. ASSUME NEW j \in 0..(x.w - 1) PROVE z.cell[j] = x.cell[j]
    <3>1. j \in 0..(x.size - 1) /\ ~(x.w <= j)
      BY <1>1
    <3>2. QED
      BY <3>1, <2>1, <2>4
  <2>6. ASSUME NEW i \in 1..Len(data) PROVE z.cell[x.w + i - 1] = data[i]
    <3>1. x.w + i - 1 < x.size
      BY <1>1, <1>3
    <3>2. QED
      BY <3>1, <2>1, <2>4
  <2>7. QED
    BY <2>3, <2>4, <2>5, <2>6 DEF z
<1>4. CASE Len(data) > n
  <2> DEFINE d1 == SubSeq(data, 1, n)
             d2 == SubSeq(data, n + 1, Len(data))
             s == Store(x, x.w, d1)
             f == Written(s, n)
  <2>1. /\ d1 \in Seq(Cells) /\ Len(d1) = n
        /\ \A i \in 1..n : d1[i] = data[i]
        /\ d2 \in Seq(Cells) /\ Len(d2) = Len(data) - n
        /\ \A i \in 1..(Len(data) - n) : d2[i] = data[n + i]
    BY <1>1, <1>4, SplitFacts, ZenonT(30)
  <2> HIDE DEF d1, d2
  <2>2. /\ IsBuffer(s) /\ s.size = x.size /\ s.r = x.r /\ s.w = x.w
        /\ \A j \in 0..(x.size - 1) :
             s.cell[j] = IF x.w <= j /\ j < x.w + n
                         THEN d1[j - x.w + 1] ELSE x.cell[j]
        /\ \A i \in 1..n : x.w + i - 1 < x.size => s.cell[x.w + i - 1] = d1[i]
    <3>1. IsBuffer(x) /\ x.w \in Nat /\ d1 \in Seq(Cells) /\ Len(d1) = n
      BY <1>1, <2>1 DEF Fine
    <3>2. Stored(s, x, x.w, d1)
      BY <3>1, StoredFacts, Zenon
    <3> HIDE DEF s
    <3>3. QED
      BY <3>1, <3>2, Zenon DEF Stored
  <2> HIDE DEF s
  <2>3. f = Buf(s.cell, x.size, x.r, x.w + n)
    BY <2>2 DEF Written
  <2> HIDE DEF f
  <2>4. /\ Fine(f) /\ f.w = x.size /\ f.r = x.r /\ f.cell = s.cell
        /\ WritableBytes(f) = 0
    BY <2>2, <2>3, <1>1 DEF Fine, IsBuffer, Buf, WritableBytes
  <2>5. z = AppendTo(f, d2)
    BY <1>1, <1>4 DEF ReadInto, f, s, d1, d2
  <2> HIDE DEF z
  <2>6. /\ Fine(z) /\ z.r = x.r
        /\ \A j \in 0..(x.size - 1) : z.cell[j] = s.cell[j]
        /\ \/ z.w = x.size
           \/ \A i \in 1..Len(d2) : z.cell[x.size + i - 1] = d2[i]
        /\ z.w = x.size + Len(d2)
    <3>1. WritableBytes(f) < Len(d2)
      BY <2>1, <2>4, <1>1, <1>4
    <3>2. /\ Fine(z) /\ z.r = f.r
          /\ \A j \in 0..(f.w - 1) : z.cell[j] = f.cell[j]
          /\ \/ z.w = f.w
             \/ \A i \in 1..Len(d2) : z.cell[f.w + i - 1] = d2[i]
          /\ z.w = f.w + Len(d2)
      <4>1. Fine(f) /\ d2 \in Seq(Cells)
        BY <2>1, <2>4
      <4>2. /\ Fine(z) /\ z.r = f.r
            /\ \A j \in 0..(f.w - 1) : z.cell[j] = f.cell[j]
            /\ \/ z.w = f.w
               \/ /\ z.w = f.w + Len(d2)
                  /\ \A i \in 1..Len(d2) : z.cell[f.w + i - 1] = d2[i]
            /\ WritableBytes(f) < Len(d2) => z.w = f.w + Len(d2)
        BY <4>1, <2>5, AppendToFacts
      <4>3. QED
        BY <4>2, <3>1
    <3>3. QED
      BY <3>2, <2>4
  <2>7. /\ z.w = x.w + Len(data)
        /\ \A i \in 1..Len(d2) : z.cell[x.size + i - 1] = d2[i]
    BY <2>1, <2>6, <1>1, <1>4
  <2>8. ASSUME NEW j \in 0..(x.w - 1) PROVE z.cell[j] = x.cell[j]
    <3>1. j \in 0..(x.size - 1) /\ ~(x.w <= j)
      BY <1>1
    <3>2. QED
      BY <3>1, <2>2, <2>6
  <2>9. ASSUME NEW i \in 1..Len(data) PROVE z.cell[x.w + i - 1] = data[i]
    <3>1. CASE i <= n
      <4>1. x.w + i - 1 < x.size /\ x.w + i - 1 \in 0..(x.size - 1) /\ i \in 1..n
        BY <3>1, <1>1
      <4>2. s.cell[x.w + i - 1] = d1[i]
        BY <4>1, <2>2
      <4>3. QED
        BY <4>1, <4>2, <2>1, <2>6
    <3>2. CASE i > n
      <4>1. i - n \in 1..Len(d2) /\ x.size + (i - n) - 1 = x.w + i - 1
            /\ i - n \in 1..(Len(data) - n) /\ n + (i - n) = i
        BY <3>2, <2>1, <1>1, SMTT(30)
      <4>2. z.cell[x.w + i - 1] = d2[i - n] /\ d2[i - n] = data[i]
        BY <4>1, <2>1, <2>7
      <4>3. QED
        BY <4>2
    <3>3. QED
      BY <3>1, <3>2, <1>1
  <2>10. QED
    BY <2>6, <2>7, <2>8, <2>9 DEF z
<1>5. QED
  BY <1>1, <1>3, <1>4

\* prepend stores in front of the read index.
LEMMA PrependFacts ==
  ASSUME NEW x, Fine(x), NEW q \in Seq(Cells), Holds(x, q),
         NEW data \in Seq(Cells), Len(data) <= x.r
  PROVE  LET p == x.r - Len(data)
             z == Buf(Store(x, p, data).cell, x.size, p, x.w)
         IN  Fine(z) /\ Holds(z, data \o q)
<1> DEFINE p == x.r - Len(data)
           s == Store(x, p, data)
           z == Buf(s.cell, x.size, p, x.w)
<1>1. /\ x.w \in Nat /\ x.r \in Nat /\ x.size \in Nat
      /\ x.r <= x.w /\ x.w <= x.size /\ x.r <= Prepend /\ Prepend <= x.size
      /\ Len(data) \in Nat /\ Len(q) \in Nat /\ Len(q) = x.w - x.r
      /\ Prepend \in Nat
  BY LenProperties, ConstantsAssumption DEF Fine, IsBuffer, Holds, ReadableBytes
<1>2. p \in Nat /\ p <= x.r /\ p + Len(data) = x.r
  BY <1>1
<1>3. IsBuffer(x)
  BY DEF Fine
<1> HIDE DEF p
<1>4. /\ IsBuffer(s) /\ s.size = x.size
      /\ \A j \in 0..(x.size - 1) :
           s.cell[j] = IF p <= j /\ j < p + Len(data)
                       THEN data[j - p + 1] ELSE x.cell[j]
      /\ \A i \in 1..Len(data) : p + i - 1 < x.size => s.cell[p + i - 1] = data[i]
  BY <1>2, <1>3, StoreFacts
<1> HIDE DEF s
<1>5. z.cell = s.cell /\ z.size = x.size /\ z.r = p /\ z.w = x.w
  BY DEF Buf
<1>6. Fine(z)
  BY <1>1, <1>2, <1>4 DEF Fine, IsBuffer, Buf
<1> HIDE DEF z
<1>7. /\ Len(data \o q) = Len(data) + Len(q)
      /\ \A i \in 1..(Len(data) + Len(q)) :
           (data \o q)[i] = IF i <= Len(data) THEN data[i] ELSE q[i - Len(data)]
  BY ConcatProperties
<1>8. Len(data \o q) = ReadableBytes(z)
  BY <1>1, <1>2, <1>5, <1>7 DEF ReadableBytes
<1>9. ASSUME NEW i \in 1..Len(data \o q)
      PROVE  z.cell[z.r + i - 1] = (data \o q)[i]
  <2>1. CASE i <= Len(data)
    <3>1. i \in 1..Len(data) /\ p + i - 1 < x.size
      BY <2>1, <1>1, <1>2, <1>7
    <3>2. s.cell[p + i - 1] = data[i]
      BY <3>1, <1>4
    <3>3. QED
      BY <3>2, <2>1, <1>5, <1>7
  <2>2. CASE i > Len(data)
    <3>1. /\ i - Len(data) \in 1..Len(q)
          /\ p + i - 1 = x.r + (i - Len(data)) - 1
          /\ p + i - 1 \in 0..(x.size - 1) /\ ~(p + i - 1 < p + Len(data))
          /\ ~(i <= Len(data))
      <4>1. i \in Int /\ Len(data) < i /\ i <= Len(data) + Len(q)
        BY <2>2, <1>1, <1>7
      <4>2. i - Len(data) \in 1..Len(q) /\ ~(i <= Len(data))
        BY <4>1, <1>1
      <4>3. p + i - 1 = x.r + (i - Len(data)) - 1
        BY <4>1, <1>1, <1>2
      <4>4. p + i - 1 \in Nat /\ ~(p + i - 1 < p + Len(data))
        BY <4>1, <1>1, <1>2
      <4>5. p + i - 1 <= x.size - 1
        BY <4>1, <1>1, <1>2, SMTT(30)
      <4>6. QED
        BY <4>2, <4>3, <4>4, <4>5, <1>1
    <3>2. s.cell[p + i - 1] = x.cell[p + i - 1]
      BY <3>1, <1>4
    <3>3. x.cell[x.r + (i - Len(data)) - 1] = q[i - Len(data)]
      BY <3>1 DEF Holds
    <3>4. (data \o q)[i] = q[i - Len(data)]
      BY <3>1, <1>7
    <3>5. QED
      BY <3>1, <3>2, <3>3, <3>4, <1>5
  <2>3. QED
    BY <2>1, <2>2, <1>1, <1>7
<1>10. QED
  BY <1>6, <1>8, <1>9 DEF Holds, z, s, p

\* Bytes written at the write index, and hasWritten: they count when they fill
\* the buffer exactly.
LEMMA WriteFacts ==
  ASSUME NEW x, Fine(x), NEW q \in Seq(Cells), Holds(x, q),
         NEW data \in Seq(Cells), Len(data) <= WritableBytes(x)
  PROVE  LET z == HasWritten(Store(x, x.w, data), Len(data)) IN
         /\ Fine(z)
         /\ Holds(z, IF Len(data) < WritableBytes(x) THEN q ELSE q \o data)
<1> DEFINE s == Store(x, x.w, data)
           z == HasWritten(s, Len(data))
<1>1. /\ x.w \in Nat /\ x.r \in Nat /\ x.size \in Nat
      /\ x.r <= x.w /\ x.w <= x.size /\ x.r <= Prepend /\ Prepend <= x.size
      /\ Len(data) \in Nat /\ Len(q) \in Nat /\ Len(q) = x.w - x.r
      /\ Len(data) <= x.size - x.w
      /\ Prepend \in Nat
  BY LenProperties, ConstantsAssumption
     DEF Fine, IsBuffer, Holds, ReadableBytes, WritableBytes
<1>2. IsBuffer(x)
  BY DEF Fine
<1>3. /\ IsBuffer(s) /\ s.size = x.size /\ s.r = x.r /\ s.w = x.w
      /\ \A j \in 0..(x.size - 1) :
           s.cell[j] = IF x.w <= j /\ j < x.w + Len(data)
                       THEN data[j - x.w + 1] ELSE x.cell[j]
      /\ \A i \in 1..Len(data) :
           x.w + i - 1 < x.size => s.cell[x.w + i - 1] = data[i]
  <2>1. IsBuffer(x) /\ x.w \in Nat /\ data \in Seq(Cells)
    BY <1>1, <1>2
  <2>2. QED
    BY ONLY <2>1, StoreFacts, ZenonT(30) DEF s
<1> HIDE DEF s
<1>4. WritableBytes(s) = WritableBytes(x)
  BY <1>3 DEF WritableBytes
<1>5. Fine(s)
  BY <1>1, <1>3 DEF Fine
<1>6. ASSUME NEW j \in 0..(x.w - 1) PROVE s.cell[j] = x.cell[j]
  <2>1. j \in 0..(x.size - 1) /\ ~(x.w <= j)
    BY <1>1
  <2>2. QED
    BY <2>1, <1>3
<1>7. CASE Len(data) < WritableBytes(x)
  <2>1. z = s
    BY <1>4, <1>7 DEF HasWritten
  <2>2. ASSUME NEW i \in 1..Len(q) PROVE s.cell[s.r + i - 1] = q[i]
    <3>1. x.r + i - 1 \in 0..(x.w - 1)
      BY <1>1
    <3>2. QED
      BY <3>1, <1>3, <1>6 DEF Holds
  <2>3. Holds(s, q)
    BY <2>2, <1>1, <1>3 DEF Holds, ReadableBytes
  <2>4. QED
    BY <2>1, <2>3, <1>5, <1>7 DEF s
<1>8. CASE ~(Len(data) < WritableBytes(x))
  <2>1. z = Buf(s.cell, s.size, s.r, s.w + Len(data))
    BY <1>4, <1>8 DEF HasWritten, Written
  <2> HIDE DEF z
  <2>2. z.cell = s.cell /\ z.r = x.r /\ z.w = x.w + Len(data)
    BY <2>1, <1>3 DEF Buf
  <2>3. Fine(z)
    BY <2>1, <1>1, <1>3 DEF Fine, IsBuffer, Buf
  <2>4. ASSUME NEW i \in 1..Len(data) PROVE z.cell[x.w + i - 1] = data[i]
    <3>1. x.w + i - 1 < x.size
      BY <1>1
    <3>2. QED
      BY <3>1, <1>3, <2>2
  <2>5. Holds(z, q \o data)
    BY <2>2, <2>4, <1>6, HoldsMore
  <2>6. QED
    BY <2>3, <2>5, <1>8 DEF z, s
<1>9. QED
  BY <1>7, <1>8
\* Bytes is a part of Cells, and the readable bytes are a sequence of cells.
LEMMA ContentFacts ==
  ASSUME NEW x, Fine(x)
  PROVE  /\ Content(x) \in Seq(Cells) /\ Len(Content(x)) = ReadableBytes(x)
         /\ Holds(x, Content(x))
<1> DEFINE n == ReadableBytes(x)
           c == [i \in 1..n |-> x.cell[x.r + i - 1]]
<1>1. n \in Nat /\ x.r \in Nat /\ x.w \in Nat /\ x.size \in Nat
      /\ n = x.w - x.r /\ x.w <= x.size
  BY DEF Fine, IsBuffer, ReadableBytes
<1>2. ASSUME NEW i \in 1..n PROVE x.cell[x.r + i - 1] \in Cells
  <2>1. x.r + i - 1 \in 0..(x.size - 1)
    BY <1>1
  <2>2. QED
    BY <2>1 DEF Fine, IsBuffer
<1> HIDE DEF n
<1>3. c \in [1..n -> Cells]
  BY <1>2
<1>4. \A i \in 1..n : c[i] = x.cell[x.r + i - 1]
  OBVIOUS
<1>5. Content(x) = c
  BY DEF Content, n
<1> HIDE DEF c
<1>6. c \in Seq(Cells) /\ Len(c) = n
  BY <1>1, <1>3
<1>7. QED
  BY <1>4, <1>5, <1>6 DEF Holds, n

\* What x holds is its content.
LEMMA HeldIsContent ==
  ASSUME NEW x, Fine(x), NEW q \in Seq(Cells), Holds(x, q)
  PROVE  Content(x) = q
<1>1. /\ Content(x) \in Seq(Cells) /\ Len(Content(x)) = Len(q)
      /\ \A i \in 1..Len(q) : Content(x)[i] = q[i]
  BY ContentFacts DEF Holds
<1>2. QED
  BY <1>1, SeqEqual

\* append adds all of data or nothing.
LEMMA AppendHolds ==
  ASSUME NEW x, Fine(x), NEW q \in Seq(Cells), Holds(x, q),
         NEW data \in Seq(Cells)
  PROVE  LET z == AppendTo(x, data) IN
         Fine(z) /\ (Holds(z, q) \/ Holds(z, q \o data))
<1> DEFINE z == AppendTo(x, data)
<1>1. /\ Fine(z) /\ z.r = x.r
      /\ \A j \in 0..(x.w - 1) : z.cell[j] = x.cell[j]
      /\ \/ z.w = x.w
         \/ /\ z.w = x.w + Len(data)
            /\ \A i \in 1..Len(data) : z.cell[x.w + i - 1] = data[i]
  BY AppendToFacts
<1> HIDE DEF z
<1>2. CASE z.w = x.w
  <2>1. /\ x.w \in Nat /\ x.r \in Nat /\ Len(q) = x.w - x.r
    BY DEF Fine, IsBuffer, Holds, ReadableBytes
  <2>2. ASSUME NEW i \in 1..Len(q) PROVE z.cell[z.r + i - 1] = q[i]
    <3>1. x.r + i - 1 \in 0..(x.w - 1)
      BY <2>1
    <3>2. QED
      BY <3>1, <1>1 DEF Holds
  <2>3. Holds(z, q)
    BY <2>1, <2>2, <1>1, <1>2 DEF Holds, ReadableBytes
  <2>4. QED
    BY <2>3, <1>1 DEF z
<1>3. CASE /\ z.w = x.w + Len(data)
           /\ \A i \in 1..Len(data) : z.cell[x.w + i - 1] = data[i]
  BY <1>1, <1>3, HoldsMore DEF z
<1>4. QED
  BY <1>1, <1>2, <1>3

\* ensureWritableBytes loses nothing.
LEMMA EnsureHolds ==
  ASSUME NEW x, Fine(x), NEW q, Holds(x, q), NEW len \in Nat
  PROVE  Holds(EnsureWritable(x, len), q)
<1> DEFINE y == EnsureWritable(x, len)
<1>1. y.r = x.r /\ y.w = x.w /\ \A j \in 0..(x.w - 1) : y.cell[j] = x.cell[j]
  BY EnsureFacts
<1> HIDE DEF y
<1>2. x.w \in Nat /\ x.r \in Nat /\ Len(q) = x.w - x.r
  BY DEF Fine, IsBuffer, Holds, ReadableBytes
<1>3. ASSUME NEW i \in 1..Len(q) PROVE y.cell[y.r + i - 1] = q[i]
  <2>1. x.r + i - 1 \in 0..(x.w - 1)
    BY <1>2
  <2>2. QED
    BY <2>1, <1>1 DEF Holds
<1>4. QED
  BY <1>1, <1>2, <1>3 DEF Holds, ReadableBytes, y

\* After retrieveAll there is nothing.
LEMMA RetrieveFacts ==
  ASSUME NEW x, Fine(x), NEW q, Holds(x, q), NEW len \in Nat
  PROVE  /\ Fine(Retrieve(x, len))
         /\ Holds(Retrieve(x, len), IF len < ReadableBytes(x) THEN q ELSE <<>>)
BY ConstantsAssumption
   DEF Retrieve, RetrieveAll, Fine, IsBuffer, Buf, Holds, ReadableBytes

LEMMA DataFacts ==
  ASSUME NEW data \in Data
  PROVE  data \in Seq(Bytes) /\ data \in Seq(Cells) /\ Len(data) \in Nat
<1>1. PICK n \in 1..MaxLen : data \in [1..n -> Bytes]
  BY DEF Data
<1>2. data \in Seq(Bytes) /\ Len(data) = n
  BY <1>1
<1>3. data \in [1..n -> Cells]
  BY <1>1 DEF Cells
<1>4. QED
  BY <1>1, <1>2, <1>3

LEMMA OwedFacts == Seq(Bytes) \subseteq Seq(Cells)
BY DEF Cells
-----------------------------------------------------------------------------
(* The operations.                                                         *)

LEMMA TypeIsFine ==
  TypeOK <=> Fine(b) /\ owed \in Seq(Bytes) /\ promised \in BOOLEAN
BY DEF TypeOK, Fine

\* The state after each operation of NextInput, in terms of any q the buffer
\* holds before it.
LEMMA InputSteps ==
  ASSUME TypeOK, NEW q \in Seq(Cells), Holds(b, q)
  PROVE  /\ \A data \in Data : ReadFd(data) => Fine(b') /\ Holds(b', q \o data)
         /\ \A data \in Data : PrependData(data) => Fine(b') /\ Holds(b', data \o q)
         /\ \A data \in Data : WriteInPlace(data) =>
              /\ Fine(b')
              /\ Holds(b', IF Len(data) < WritableBytes(b) THEN q ELSE q \o data)
         /\ \A len \in 0..MaxLen : RetrieveBytes(len) =>
              /\ Fine(b')
              /\ Holds(b', IF len < ReadableBytes(b) THEN q ELSE <<>>)
         /\ \A len \in 0..MaxLen : EnsureWritableBytes(len) =>
              Fine(b') /\ Holds(b', q)
<1>1. Fine(b)
  BY TypeIsFine
<1>2. ASSUME NEW data \in Data, ReadFd(data)
      PROVE  Fine(b') /\ Holds(b', q \o data)
  BY <1>1, <1>2, DataFacts, ReadIntoFacts DEF ReadFd
<1>3. ASSUME NEW data \in Data, PrependData(data)
      PROVE  Fine(b') /\ Holds(b', data \o q)
  BY <1>1, <1>3, DataFacts, PrependFacts DEF PrependData
<1>4. ASSUME NEW data \in Data, WriteInPlace(data)
      PROVE  /\ Fine(b')
             /\ Holds(b', IF Len(data) < WritableBytes(b) THEN q ELSE q \o data)
  BY <1>1, <1>4, DataFacts, WriteFacts DEF WriteInPlace
<1>5. ASSUME NEW len \in 0..MaxLen, RetrieveBytes(len)
      PROVE  /\ Fine(b')
             /\ Holds(b', IF len < ReadableBytes(b) THEN q ELSE <<>>)
  <2>1. len \in Nat
    BY ConstantsAssumption
  <2>2. QED
    BY <1>1, <1>5, <2>1, RetrieveFacts DEF RetrieveBytes
<1>6. ASSUME NEW len \in 0..MaxLen, EnsureWritableBytes(len)
      PROVE  Fine(b') /\ Holds(b', q)
  <2>1. len \in Nat
    BY ConstantsAssumption
  <2>2. QED
    BY <1>1, <1>6, <2>1, EnsureFacts, EnsureHolds DEF EnsureWritableBytes
<1>7. QED
  BY <1>2, <1>3, <1>4, <1>5, <1>6

\* retrieveAsString takes everything or nothing, and keeps the promise only when that is
\* what it returned.
LEMMA RetrieveStringStep ==
  ASSUME TypeOK, NEW len \in 0..MaxLen, RetrieveAsString(len)
  PROVE  /\ Fine(b') /\ Content(b') \in {Content(b), <<>>}
         /\ owed' \in Seq(Bytes)
         /\ promised' /\ Holds(b, owed) => Holds(b', owed')
<1> DEFINE q == Content(b)
           n == ReadableBytes(b)
<1>1. /\ Fine(b) /\ q \in Seq(Cells) /\ Holds(b, q) /\ <<>> \in Seq(Cells)
      /\ owed \in Seq(Bytes) /\ len \in Nat /\ n \in Nat
  BY TypeIsFine, ContentFacts, EmptySeq, ConstantsAssumption DEF Fine, IsBuffer, ReadableBytes
<1> HIDE DEF q
<1>2. Fine(b') /\ Holds(b', IF len < n THEN q ELSE <<>>)
  BY <1>1, RetrieveFacts DEF RetrieveAsString
<1>3. Content(b') = q \/ Content(b') = <<>>
  BY <1>1, <1>2, HeldIsContent
<1>4. owed' = SubSeq(owed, len + 1, Len(owed)) /\ owed' \in Seq(Bytes)
  <2>1. \A i \in (len + 1)..Len(owed) : owed[i] \in Bytes
    BY <1>1
  <2>2. QED
    BY <1>1, <2>1, SubSeqProperties DEF RetrieveAsString
<1>5. ASSUME promised', Holds(b, owed) PROVE Holds(b', owed')
  <2>1. owed \in Seq(Cells) /\ Len(owed) = n
    BY <1>1, <1>5, OwedFacts DEF Holds
  <2>2. CASE len = n
    <3>1. owed' = <<>>
      BY <2>1, <2>2, <1>1, <1>4
    <3> QED
      BY <3>1, <2>2, <1>1, <1>2
  <2>3. CASE len = 0 /\ len # n
    <3>1. owed' = owed
      BY <2>1, <2>3, <1>1, <1>4
    <3>2. Holds(b', owed)
      BY <2>1, <2>3, <1>1, <1>5, RetrieveFacts DEF RetrieveAsString
    <3> QED
      BY <3>1, <3>2
  <2> QED
    BY <1>5, <2>2, <2>3 DEF RetrieveAsString
<1> QED
  BY <1>2, <1>3, <1>4, <1>5 DEF q

\* What is owed stays a sequence of bytes.
LEMMA OwedStep ==
  ASSUME TypeOK, owed \in Seq(Bytes), Next
  PROVE  owed' \in Seq(Bytes)
<1>1. ASSUME NEW data \in Data
      PROVE  owed \o data \in Seq(Bytes) /\ data \o owed \in Seq(Bytes)
  BY DataFacts, ConcatProperties
<1>2. \/ owed' = owed \/ owed' = <<>>
      \/ \E data \in Data : owed' = owed \o data \/ owed' = data \o owed
      \/ \E len \in 0..MaxLen : RetrieveAsString(len)
  BY DEF Next, NextInput, ReadFd, PrependData, WriteInPlace,
     RetrieveBytes, EnsureWritableBytes, AppendData, Shrink
<1>3. QED
  BY <1>1, <1>2, EmptySeq, RetrieveStringStep

\* append, in terms of what the buffer holds.
LEMMA AppendStep ==
  ASSUME TypeOK, NEW data \in Data, AppendData(data)
  PROVE  Fine(b') /\ Content(b') \in {Content(b), Content(b) \o data}
<1> DEFINE q == Content(b)
<1>1. Fine(b) /\ q \in Seq(Cells) /\ Holds(b, q) /\ data \in Seq(Cells)
  BY TypeIsFine, ContentFacts, DataFacts
<1> HIDE DEF q
<1>2. Fine(b') /\ (Holds(b', q) \/ Holds(b', q \o data))
  BY <1>1, AppendHolds DEF AppendData
<1>3. q \o data \in Seq(Cells)
  BY <1>1, ConcatProperties
<1>4. Content(b') = q \/ Content(b') = q \o data
  BY <1>1, <1>2, <1>3, HeldIsContent
<1>5. QED
  BY <1>2, <1>4 DEF q

\* shrink appends the readable bytes to a new buffer.
LEMMA ShrinkStep ==
  ASSUME TypeOK, NEW reserve \in 0..MaxLen, Shrink(reserve)
  PROVE  Fine(b') /\ Content(b') \in {Content(b), <<>>}
<1> DEFINE q == Content(b)
           e == EnsureWritable(NewBuffer, ReadableBytes(b) + reserve)
<1>1. Fine(b) /\ q \in Seq(Cells)
  BY TypeIsFine, ContentFacts
<1>2. ReadableBytes(b) + reserve \in Nat
  BY <1>1, ConstantsAssumption DEF Fine, IsBuffer, ReadableBytes
<1>3. Fine(e) /\ Holds(e, <<>>)
  BY <1>2, NewBufferFine, EnsureFacts, EnsureHolds
<1> HIDE DEF q, e
<1>4. <<>> \in Seq(Cells) /\ <<>> \o q = q
  BY <1>1, ConcatEmptySeq, EmptySeq
<1>5. b' = AppendTo(e, q)
  BY DEF Shrink, q, e
<1>6. Fine(b') /\ (Holds(b', <<>>) \/ Holds(b', q))
  BY <1>1, <1>3, <1>4, <1>5, AppendHolds
<1>7. Content(b') = <<>> \/ Content(b') = q
  BY <1>1, <1>4, <1>6, HeldIsContent
<1>8. QED
  BY <1>6, <1>7 DEF q

LEMMA TypeInit == Init => TypeOK
BY NewBufferFine, TypeIsFine, EmptySeq DEF Init, TypeOK, Fine

LEMMA TypeStep == TypeOK /\ [Next]_vars => TypeOK'
<1> SUFFICES ASSUME TypeOK, [Next]_vars PROVE TypeOK'
  OBVIOUS
<1>1. CASE Next
  <2>1. Content(b) \in Seq(Cells) /\ Holds(b, Content(b)) /\ owed \in Seq(Bytes)
    BY TypeIsFine, ContentFacts
  <2>2. owed' \in Seq(Bytes)
    BY <1>1, <2>1, OwedStep
  <2>3. Fine(b')
    <3>1. CASE NextInput
      BY <2>1, <3>1, InputSteps DEF NextInput
    <3>2. CASE \E data \in Data : AppendData(data)
      BY <3>2, AppendStep
    <3>3. CASE \E reserve \in 0..MaxLen : Shrink(reserve)
      BY <3>3, ShrinkStep
    <3>4. CASE \E len \in 0..MaxLen : RetrieveAsString(len)
      BY <3>4, RetrieveStringStep
    <3>5. QED
      BY <1>1, <3>1, <3>2, <3>3, <3>4 DEF Next
  <2>4. promised' \in BOOLEAN
    BY <1>1 DEF TypeOK, Next, NextInput, ReadFd, PrependData, WriteInPlace,
       RetrieveBytes, RetrieveAsString, EnsureWritableBytes, AppendData, Shrink
  <2>5. QED
    BY <2>2, <2>3, <2>4 DEF TypeOK, Fine
<1>2. CASE UNCHANGED vars
  BY <1>2 DEF TypeOK, vars
<1>3. QED
  BY <1>1, <1>2

LEMMA LosslessStep ==
  TypeOK /\ Lossless /\ [Next]_vars => Lossless'
<1> SUFFICES ASSUME TypeOK, Lossless, [Next]_vars, promised'
             PROVE  Holds(b', owed')
  BY DEF Lossless, Holds, ReadableBytes
<1>0. /\ promised
      /\ NextInput \/ UNCHANGED vars \/ \E len \in 0..MaxLen : RetrieveAsString(len)
  BY DEF TypeOK, Next, NextInput, ReadFd, PrependData, WriteInPlace, RetrieveAsString,
     RetrieveBytes, EnsureWritableBytes, AppendData, Shrink, vars
<1>1. owed \in Seq(Cells) /\ Holds(b, owed)
  BY <1>0, TypeIsFine, OwedFacts DEF Lossless
<1>2. CASE NextInput
  <2>1. CASE \E data \in Data : ReadFd(data)
    BY <2>1, <1>1, InputSteps DEF ReadFd
  <2>2. CASE \E data \in Data : PrependData(data)
    BY <2>2, <1>1, InputSteps DEF PrependData
  <2>3. CASE \E data \in Data : WriteInPlace(data)
    BY <2>3, <1>1, InputSteps DEF WriteInPlace
  <2>4. CASE \E len \in 0..MaxLen : RetrieveBytes(len)
    BY <2>4, <1>1, InputSteps DEF RetrieveBytes
  <2>5. CASE \E len \in 0..MaxLen : EnsureWritableBytes(len)
    BY <2>5, <1>1, InputSteps DEF EnsureWritableBytes
  <2>6. QED
    BY <1>2, <2>1, <2>2, <2>3, <2>4, <2>5 DEF NextInput
<1>3. CASE UNCHANGED vars
  BY <1>1, <1>3 DEF vars
<1>4. CASE \E len \in 0..MaxLen : RetrieveAsString(len)
  BY <1>1, <1>4, RetrieveStringStep
<1>5. QED
  BY <1>0, <1>2, <1>3, <1>4

-----------------------------------------------------------------------------
(* The theorems.                                                           *)

\* The indices stay in order and inside the buffer, whatever is called.
THEOREM TypeCorrect == Spec => []TypeOK
BY TypeInit, TypeStep, PTL DEF Spec

\* As long as neither append nor shrink nor a retrieveAsString of a part is called, the
\* buffer holds exactly the bytes its callers count on, in order.
THEOREM NothingLost == Spec => []Lossless
<1>1. Init => TypeOK /\ Lossless
  BY TypeInit, NewBufferFine DEF Init, Lossless
<1>2. (TypeOK /\ Lossless) /\ [Next]_vars => (TypeOK /\ Lossless)'
  BY TypeStep, LosslessStep
<1>3. QED
  BY <1>1, <1>2, PTL DEF Spec

\* After ensureWritableBytes(len), len bytes can be written.
THEOREM EnsuresRoom == Spec => []EnsureWorks
<1>1. TypeOK => EnsureWorks
  <2> SUFFICES ASSUME TypeOK, NEW len \in 0..MaxLen
               PROVE  WritableBytes(EnsureWritable(b, len)) >= len
    BY DEF EnsureWorks
  <2>1. Fine(b) /\ len \in Nat
    BY TypeIsFine, ConstantsAssumption
  <2>2. WritableBytes(EnsureWritable(b, len))
          = IF WritableBytes(b) < len THEN len ELSE WritableBytes(b)
    BY <2>1, EnsureFacts
  <2>3. WritableBytes(b) \in Int
    BY <2>1 DEF WritableBytes, Fine, IsBuffer
  <2>4. QED
    BY <2>1, <2>2, <2>3
<1>2. QED
  BY <1>1, TypeCorrect, PTL

\* append and shrink keep all of the bytes they are given, or none; retrieveAsString
\* leaves all of them, or none.
THEOREM AllOrNone == Spec => AllOrNothing
<1>1. TypeOK /\ [Next]_vars =>
        [b' # b =>
           /\ \A data \in Data :
                AppendData(data) => Content(b') \in {Content(b), Content(b) \o data}
           /\ \A reserve \in 0..MaxLen :
                Shrink(reserve) => Content(b') \in {Content(b), <<>>}
           /\ \A len \in 0..MaxLen :
                RetrieveAsString(len) => Content(b') \in {Content(b), <<>>}]_vars
  BY AppendStep, ShrinkStep, RetrieveStringStep
<1>2. QED
  BY <1>1, TypeCorrect, PTL DEF Spec, AllOrNothing
-----------------------------------------------------------------------------
(* ChatSession.  The bytes that have not been used up are, from the front, *)
(* what is left of the packages: the next package's, then the one after's, *)
(* and so on, until one has been used up whose compressSize was too long.  *)

TextBytes == [text : Nat, at : Nat]
HeadBytes == [head : Packages, at : Nat]
ZipBytes == [zip : Seq(TextBytes), at : Nat]
ChatBytes == TextBytes \cup HeadBytes \cup ZipBytes

\* The two parts of a package.
HeadPart(p) == [k \in 1..HeadLen |-> [head |-> p, at |-> k]]
BodyPart(i, p) ==
  IF p.flag = "COMPRESSED" THEN Deflated(BodyText(i, p.originSize)) ELSE BodyText(i, p.originSize)

\* A body has as many bytes as its head says, none when that is negative.
LEMMA BodyTextFacts ==
  ASSUME NEW i \in Nat, NEW n \in Int
  PROVE  BodyText(i, n) \in Seq(TextBytes) /\ Len(BodyText(i, n)) = IF n >= 0 THEN n ELSE 0
<1> DEFINE m == IF n >= 0 THEN n ELSE 0
<1>1. m \in Nat /\ 1..n = 1..m
  OBVIOUS
<1> HIDE DEF m
<1>2. BodyText(i, n) = [k \in 1..m |-> [text |-> i, at |-> k]]
  BY <1>1 DEF BodyText
<1>3. \A k \in 1..m : [text |-> i, at |-> k] \in TextBytes
  BY <1>1 DEF TextBytes
<1>4. BodyText(i, n) \in [1..m -> TextBytes]
  BY <1>2, <1>3
<1>5. BodyText(i, n) \in Seq(TextBytes) /\ Len(BodyText(i, n)) = m
  <2>1. BodyText(i, n) \in Seq(TextBytes)
    BY <1>1, <1>4, SeqDef
  <2>2. QED
    BY <1>1, <1>4, <2>1, LenProperties
<1>6. QED
  BY <1>5 DEF m

\* What zlib makes of a text.
LEMMA DeflatedFacts ==
  ASSUME NEW s \in Seq(TextBytes)
  PROVE  /\ Deflated(s) \in Seq(ZipBytes)
         /\ Len(Deflated(s)) = Len(s) + 1
         /\ Deflated(s)[1].zip = s
<1>1. Len(s) + 1 \in Nat /\ 1 \in 1..(Len(s) + 1)
  BY LenProperties
<1>2. Deflated(s) = [k \in 1..(Len(s) + 1) |-> [zip |-> s, at |-> k]]
  BY DEF Deflated, CompressBound
<1>3. Deflated(s) \in [1..(Len(s) + 1) -> ZipBytes]
  <2>1. \A k \in 1..(Len(s) + 1) : [zip |-> s, at |-> k] \in ZipBytes
    BY <1>1 DEF ZipBytes
  <2>2. QED
    BY <1>2, <2>1
<1>4. Deflated(s) \in Seq(ZipBytes)
  BY <1>1, <1>3, SeqDef
<1>5. QED
  BY <1>1, <1>2, <1>3, <1>4, LenProperties

\* A package is its head and its body.
LEMMA WireFacts ==
  ASSUME NEW i \in Nat, NEW p \in Packages
  PROVE  /\ HeadPart(p) \in Seq(ChatBytes) /\ Len(HeadPart(p)) = HeadLen
         /\ HeadPart(p)[1] = [head |-> p, at |-> 1]
         /\ BodyPart(i, p) \in Seq(ChatBytes)
         /\ Wire(i, p) = HeadPart(p) \o BodyPart(i, p)
         /\ Wire(i, p) \in Seq(ChatBytes)
<1>1. HeadLen \in Nat /\ 1 \in 1..HeadLen /\ p.originSize \in Int
  BY ChatAssumption
<1>2. HeadPart(p) \in [1..HeadLen -> ChatBytes]
  <2>1. \A k \in 1..HeadLen : [head |-> p, at |-> k] \in HeadBytes
    BY <1>1 DEF HeadBytes
  <2>2. QED
    BY <2>1 DEF HeadPart, ChatBytes
<1>3. HeadPart(p) \in Seq(ChatBytes)
  BY <1>1, <1>2, SeqDef
<1>4. Len(HeadPart(p)) = HeadLen
  BY <1>1, <1>2, <1>3, LenProperties
<1>5. HeadPart(p)[1] = [head |-> p, at |-> 1]
  BY <1>1 DEF HeadPart
<1>6. BodyPart(i, p) \in Seq(ChatBytes)
  <2>1. BodyText(i, p.originSize) \in Seq(TextBytes)
    BY <1>1, BodyTextFacts
  <2>2. Deflated(BodyText(i, p.originSize)) \in Seq(ZipBytes)
    BY <2>1, DeflatedFacts
  <2>3. QED
    BY <2>1, <2>2 DEF BodyPart, ChatBytes
<1>7. Wire(i, p) = HeadPart(p) \o BodyPart(i, p)
  BY DEF Wire, HeadPart, BodyPart
<1>8. QED
  BY <1>3, <1>4, <1>5, <1>6, <1>7, ConcatProperties

\* Cutting t out of the front a of a stream that begins with u and t.
LEMMA Cut ==
  ASSUME NEW S, NEW a \in Seq(S), NEW e \in Seq(S), NEW u \in Seq(S), NEW t \in Seq(S),
         NEW r \in Seq(S),
         a \o e = (u \o t) \o r, Len(a) >= Len(u) + Len(t)
  PROVE  /\ SubSeq(SubSeq(a, Len(u) + 1, Len(a)), 1, Len(t)) = t
         /\ SubSeq(SubSeq(a, Len(u) + 1, Len(a)), Len(t) + 1, Len(a) - Len(u)) \o e = r
<1> DEFINE v == SubSeq(a, Len(u) + 1, Len(a))
           w == SubSeq(v, Len(t) + 1, Len(a) - Len(u))
<1>1. /\ Len(a) \in Nat /\ Len(e) \in Nat /\ Len(u) \in Nat /\ Len(t) \in Nat /\ Len(r) \in Nat
  BY LenProperties
<1>2. /\ u \o t \in Seq(S) /\ Len(u \o t) = Len(u) + Len(t)
      /\ \A i \in 1..(Len(u) + Len(t)) :
           (u \o t)[i] = IF i <= Len(u) THEN u[i] ELSE t[i - Len(u)]
  BY ConcatProperties
<1>3. /\ Len((u \o t) \o r) = Len(u) + Len(t) + Len(r)
      /\ \A i \in 1..(Len(u) + Len(t) + Len(r)) :
           ((u \o t) \o r)[i] = IF i <= Len(u) + Len(t) THEN (u \o t)[i]
                                ELSE r[i - (Len(u) + Len(t))]
  BY <1>2, ConcatProperties
<1>4. /\ Len(a \o e) = Len(a) + Len(e)
      /\ \A i \in 1..(Len(a) + Len(e)) :
           (a \o e)[i] = IF i <= Len(a) THEN a[i] ELSE e[i - Len(a)]
  BY ConcatProperties
<1>5. Len(a) + Len(e) = Len(u) + Len(t) + Len(r)
  BY <1>3, <1>4
<1>6. /\ v \in Seq(S) /\ Len(v) = Len(a) - Len(u)
      /\ \A i \in 1..(Len(a) - Len(u)) : v[i] = a[i + Len(u)]
  <2>1. /\ v \in Seq(S)
        /\ Len(v) = IF Len(u) + 1 <= Len(a) THEN Len(a) - (Len(u) + 1) + 1 ELSE 0
        /\ \A i \in 1..Len(v) : v[i] = a[(Len(u) + 1) + i - 1]
    BY <1>1, SubSeqProperties
  <2>2. Len(v) = Len(a) - Len(u)
    BY <1>1, <2>1
  <2>3. \A i \in 1..Len(v) : (Len(u) + 1) + i - 1 = i + Len(u)
    BY <1>1
  <2>4. QED
    BY <2>1, <2>2, <2>3
<1> HIDE DEF v
<1>7. SubSeq(v, 1, Len(t)) = t
  <2>1. /\ SubSeq(v, 1, Len(t)) \in Seq(S) /\ Len(SubSeq(v, 1, Len(t))) = Len(t)
        /\ \A i \in 1..Len(t) : SubSeq(v, 1, Len(t))[i] = v[1 + i - 1]
    BY <1>1, <1>6, SubSeqProperties
  <2>2. ASSUME NEW i \in 1..Len(t) PROVE SubSeq(v, 1, Len(t))[i] = t[i]
    <3>1. /\ 1 + i - 1 = i /\ i \in 1..(Len(a) - Len(u))
          /\ i + Len(u) \in 1..(Len(u) + Len(t)) /\ ~(i + Len(u) <= Len(u))
          /\ i + Len(u) \in 1..(Len(a) + Len(e)) /\ i + Len(u) <= Len(a)
          /\ (i + Len(u)) - Len(u) = i
      BY <1>1
    <3>2. SubSeq(v, 1, Len(t))[i] = a[i + Len(u)]
      BY <2>1, <1>6, <3>1
    <3>3. a[i + Len(u)] = (u \o t)[i + Len(u)]
      BY <1>3, <1>4, <1>5, <3>1
    <3>4. (u \o t)[i + Len(u)] = t[i]
      BY <1>2, <3>1
    <3>5. QED
      BY <3>2, <3>3, <3>4
  <2>3. QED
    BY <2>1, <2>2, SeqEqual
<1>8. /\ w \in Seq(S) /\ Len(w) = Len(a) - Len(u) - Len(t)
      /\ \A i \in 1..(Len(a) - Len(u) - Len(t)) : w[i] = v[i + Len(t)]
  <2>1. /\ w \in Seq(S)
        /\ Len(w) = IF Len(t) + 1 <= Len(a) - Len(u)
                    THEN (Len(a) - Len(u)) - (Len(t) + 1) + 1 ELSE 0
        /\ \A i \in 1..Len(w) : w[i] = v[(Len(t) + 1) + i - 1]
    BY <1>1, <1>6, SubSeqProperties
  <2>2. Len(w) = Len(a) - Len(u) - Len(t)
    BY <1>1, <2>1
  <2>3. \A i \in 1..Len(w) : (Len(t) + 1) + i - 1 = i + Len(t)
    BY <1>1
  <2>4. QED
    BY <2>1, <2>2, <2>3
<1> HIDE DEF w
<1>9. /\ w \o e \in Seq(S) /\ Len(w \o e) = Len(r)
      /\ \A i \in 1..Len(r) :
           (w \o e)[i] = IF i <= Len(w) THEN w[i] ELSE e[i - Len(w)]
  <2>1. Len(w) + Len(e) = Len(r)
    BY <1>1, <1>5, <1>8
  <2>2. w \in Seq(S) /\ e \in Seq(S)
    BY <1>8
  <2>3. /\ w \o e \in Seq(S) /\ Len(w \o e) = Len(w) + Len(e)
        /\ \A i \in 1..(Len(w) + Len(e)) :
             (w \o e)[i] = IF i <= Len(w) THEN w[i] ELSE e[i - Len(w)]
    BY ONLY <2>2, ConcatProperties
  <2>4. QED
    BY <2>1, <2>3
<1>10. ASSUME NEW i \in 1..Len(r) PROVE (w \o e)[i] = r[i]
  <2> DEFINE j == i + Len(t) + Len(u)
  <2>1. /\ j \in 1..(Len(a) + Len(e)) /\ ~(j <= Len(u) + Len(t)) /\ j - (Len(u) + Len(t)) = i
    BY <1>1, <1>5
  <2>2. (a \o e)[j] = r[i]
    BY <1>3, <1>5, <2>1
  <2>3. CASE i <= Len(w)
    <3>1. /\ i \in 1..(Len(a) - Len(u) - Len(t)) /\ i + Len(t) \in 1..(Len(a) - Len(u))
          /\ j <= Len(a) /\ (i + Len(t)) + Len(u) = j
      BY <1>1, <1>8, <2>3
    <3>2. (w \o e)[i] = a[j]
      BY <1>6, <1>8, <1>9, <2>3, <3>1
    <3>3. QED
      BY <1>4, <2>1, <2>2, <3>1, <3>2
  <2>4. CASE ~(i <= Len(w))
    <3>1. ~(j <= Len(a)) /\ j - Len(a) = i - Len(w)
      BY <1>1, <1>8, <2>4
    <3>2. (w \o e)[i] = e[j - Len(a)]
      BY <1>9, <2>4, <3>1
    <3>3. QED
      BY <1>4, <2>1, <2>2, <3>1, <3>2
  <2>5. QED
    BY <2>3, <2>4
<1>11. w \o e = r
  BY <1>9, <1>10, SeqEqual
<1>12. QED
  BY <1>7, <1>11 DEF v, w

\* The packages that have been used up.
Used == IF retrieves THEN Len(processed) ELSE 0

\* None of their heads said that a compressed body is longer than it is.
Straight == \A j \in DOMAIN packs : j <= Used => FitsIn(packs[j])

\* rests[i] is the stream from the end of the i-th package on.
IsRests(rests, from, to, first) ==
  /\ rests \in [from..to -> Seq(ChatBytes)]
  /\ rests[from] = first /\ rests[to] = <<>>
  /\ \A i \in (from + 1)..to : rests[i - 1] = Wire(i, packs[i]) \o rests[i]

Framed == \E rests : IsRests(rests, Used, Len(packs), input \o coming)

ChatTypes ==
  /\ retrieves \in BOOLEAN /\ reading \in BOOLEAN /\ forceClosed \in BOOLEAN
  /\ packs \in Seq(Packages)
  /\ coming \in Seq(ChatBytes) /\ input \in Seq(ChatBytes)
  /\ misread \in Packages
  /\ processed \in Seq(Seq(ChatBytes))

\* While the connection is open the stream is what is left of the packages.
InStep ==
  /\ reading => ~forceClosed
  /\ ~forceClosed /\ Straight => Used <= Len(packs) /\ Framed

ChatInv ==
  /\ ChatTypes
  /\ InStep
  /\ retrieves => BodyIsProcessed
  /\ NoneLeftWaiting

LEMMA ChatInitInv == ChatInit => ChatInv
<1> SUFFICES ASSUME ChatInit PROVE ChatInv
  OBVIOUS
<1>1. <<>> \in Seq(Packages) /\ <<>> \in Seq(ChatBytes) /\ <<>> \in Seq(Seq(ChatBytes))
  BY EmptySeq
<1>2. Len(<<>>) = 0 /\ <<>> \o <<>> = <<>> /\ DOMAIN <<>> = {}
  BY EmptySeq, ConcatEmptySeq
<1>3. ChatTypes
  BY <1>1, ChatAssumption DEF ChatInit, ChatTypes
<1>4. Used = 0 /\ Len(packs) = 0
  BY <1>2 DEF ChatInit, Used
<1>5. Framed
  <2> DEFINE rests == [i \in 0..0 |-> <<>>]
  <2>1. IsRests(rests, 0, 0, input \o coming)
    BY <1>1, <1>2 DEF ChatInit, IsRests
  <2>2. QED
    BY <2>1, <1>4 DEF Framed
<1>6. BodyIsProcessed
  BY <1>2 DEF ChatInit, BodyIsProcessed
<1>7. NoneLeftWaiting
  BY <1>2, ChatAssumption DEF ChatInit, NoneLeftWaiting, Whole
<1>8. QED
  BY <1>3, <1>4, <1>5, <1>6, <1>7 DEF ChatInv, InStep, ChatInit

\* With a head's bytes in the input the next package is one the peer has sent, its head is in
\* front, and behind it comes the rest.
LEMMA FrontIsNext ==
  ASSUME ChatTypes, InStep, Straight, ~forceClosed, Len(input) >= HeadLen
  PROVE  /\ Used \in Nat /\ Used + 1 \in 1..Len(packs) /\ packs[Used + 1] \in Packages
         /\ FrontHead = packs[Used + 1]
         /\ \E rests : /\ IsRests(rests, Used, Len(packs), input \o coming)
                       /\ rests[Used + 1] \in Seq(ChatBytes)
                       /\ input \o coming = Wire(Used + 1, packs[Used + 1]) \o rests[Used + 1]
<1>1. /\ Used \in Nat /\ Len(packs) \in Nat /\ Used <= Len(packs)
      /\ Len(input) \in Nat /\ HeadLen \in Nat \ {0} /\ Len(input) > 0
  BY LenProperties, ChatAssumption DEF ChatTypes, Used, InStep
<1>2. PICK rests : IsRests(rests, Used, Len(packs), input \o coming)
  BY DEF InStep, Framed
<1>3. /\ input \o coming \in Seq(ChatBytes) /\ Len(input \o coming) > 0
      /\ (input \o coming)[1] = input[1]
  BY <1>1, ConcatProperties, LenProperties DEF ChatTypes
<1>4. Used # Len(packs)
  BY <1>2, <1>3, EmptySeq DEF IsRests
<1>5. Used + 1 \in 1..Len(packs) /\ Used + 1 \in Used..Len(packs)
      /\ Used + 1 \in (Used + 1)..Len(packs) /\ (Used + 1) - 1 = Used
  BY <1>1, <1>4
<1>6. packs[Used + 1] \in Packages
  BY <1>5, ElementOfSeq DEF ChatTypes
<1> DEFINE p == packs[Used + 1]
           r == rests[Used + 1]
<1>7. r \in Seq(ChatBytes) /\ input \o coming = Wire(Used + 1, p) \o r
  BY <1>2, <1>5 DEF IsRests
<1>8. FrontHead = p
  <2>1. /\ HeadPart(p) \in Seq(ChatBytes) /\ Len(HeadPart(p)) = HeadLen
        /\ HeadPart(p)[1] = [head |-> p, at |-> 1]
        /\ BodyPart(Used + 1, p) \in Seq(ChatBytes)
        /\ Wire(Used + 1, p) = HeadPart(p) \o BodyPart(Used + 1, p)
        /\ Wire(Used + 1, p) \in Seq(ChatBytes)
    <3>1. Used + 1 \in Nat /\ p \in Packages
      BY <1>1, <1>6
    <3>2. QED
      BY <3>1, WireFacts
  <2> HIDE DEF p, r
  <2>2. Wire(Used + 1, p)[1] = HeadPart(p)[1] /\ Len(Wire(Used + 1, p)) > 0
    <3> DEFINE u == HeadPart(p)
               t == BodyPart(Used + 1, p)
    <3>1. /\ u \in Seq(ChatBytes) /\ t \in Seq(ChatBytes) /\ Len(u) = HeadLen
          /\ Wire(Used + 1, p) = u \o t
      BY <2>1
    <3> HIDE DEF u, t
    <3>2. /\ Len(u \o t) = Len(u) + Len(t)
          /\ \A k \in 1..(Len(u) + Len(t)) : (u \o t)[k] = IF k <= Len(u) THEN u[k] ELSE t[k - Len(u)]
      BY <3>1, ConcatProperties
    <3>3. Len(t) \in Nat /\ 1 \in 1..(Len(u) + Len(t)) /\ 1 <= Len(u)
      BY <3>1, <1>1, LenProperties
    <3>4. Wire(Used + 1, p)[1] = u[1] /\ Len(Wire(Used + 1, p)) > 0
      BY <3>1, <3>2, <3>3
    <3>5. QED
      BY <3>4 DEF u
  <2>3. (Wire(Used + 1, p) \o r)[1] = Wire(Used + 1, p)[1]
    BY <2>1, <2>2, <1>7, ConcatProperties, LenProperties
  <2>4. input[1] = [head |-> p, at |-> 1] /\ input # <<>>
    BY <2>1, <2>2, <2>3, <1>1, <1>3, <1>7, EmptySeq
  <2>5. "head" \in DOMAIN input[1] /\ input[1].at = 1 /\ input[1].head = p
    BY <2>4
  <2>6. QED
    BY <2>4, <2>5 DEF FrontHead, AtHead
<1>9. QED
  BY <1>1, <1>2, <1>5, <1>6, <1>7, <1>8

-----------------------------------------------------------------------------
(* One lemma per action.                                                   *)

\* A package that is sent goes behind the others.
LEMMA PeerSendsInv ==
  ASSUME ChatInv, NEW p \in Packages, PeerSends(p)
  PROVE  ChatInv'
<1> DEFINE n == Len(packs)
           w == Wire(n + 1, p)
<1>1. /\ n \in Nat /\ Used \in Nat /\ ~forceClosed
      /\ packs \in Seq(Packages) /\ input \in Seq(ChatBytes) /\ coming \in Seq(ChatBytes)
      /\ w \in Seq(ChatBytes)
  <2>1. n \in Nat /\ Used \in Nat /\ ~forceClosed
    BY LenProperties DEF ChatInv, ChatTypes, Used, PeerSends
  <2>2. w \in Seq(ChatBytes)
    <3>1. n + 1 \in Nat /\ p \in Packages
      BY <2>1
    <3>2. QED
      BY <3>1, WireFacts
  <2>3. QED
    BY <2>1, <2>2 DEF ChatInv, ChatTypes
<1>2. /\ packs' = Append(packs, p) /\ coming' = coming \o w
      /\ UNCHANGED <<retrieves, input, misread, reading, forceClosed, processed>>
  BY DEF PeerSends
<1>3. /\ packs' \in Seq(Packages) /\ Len(packs') = n + 1 /\ packs'[n + 1] = p
      /\ \A i \in 1..n : packs'[i] = packs[i]
  BY <1>1, <1>2, AppendProperties
<1> HIDE DEF w
<1>4. coming' \in Seq(ChatBytes)
  BY <1>1, <1>2, ConcatProperties
<1>5. ChatTypes'
  BY <1>2, <1>3, <1>4 DEF ChatInv, ChatTypes
<1>6. Used' = Used
  BY <1>2 DEF Used
<1>7. ASSUME Straight' PROVE Used <= n /\ Framed'
  <2>0. Straight /\ Used <= n
    <3>1. DOMAIN packs = 1..n /\ DOMAIN packs' = 1..(n + 1)
      BY <1>1, <1>3, LenProperties
    <3>2. Straight
      BY <3>1, <1>1, <1>3, <1>6, <1>7 DEF Straight
    <3>3. QED
      BY <3>2, <1>1 DEF ChatInv, InStep
  <2>1. PICK rests : IsRests(rests, Used, n, input \o coming)
    BY <1>1, <2>0 DEF ChatInv, InStep, Framed
  <2> DEFINE more == [i \in Used..(n + 1) |-> IF i <= n THEN rests[i] \o w ELSE <<>>]
  <2>2. \A i \in Used..n : rests[i] \in Seq(ChatBytes) /\ rests[i] \o w \in Seq(ChatBytes)
    BY <2>1, <1>1, ConcatProperties DEF IsRests
  <2>3. more \in [Used..(n + 1) -> Seq(ChatBytes)]
    <3>1. \A i \in Used..(n + 1) :
            (IF i <= n THEN rests[i] \o w ELSE <<>>) \in Seq(ChatBytes)
      <4>1. \A i \in Used..(n + 1) : i <= n => i \in Used..n
        BY <1>1, <2>0
      <4>2. QED
        BY <4>1, <2>2, EmptySeq
    <3>2. QED
      BY <3>1
  <2>4. more[Used] = input' \o coming'
    <3>1. more[Used] = (input \o coming) \o w
      <4>1. Used \in Used..(n + 1) /\ Used <= n /\ rests[Used] = input \o coming
        BY <1>1, <2>0, <2>1 DEF IsRests
      <4>2. QED
        BY <4>1
    <3>2. (input \o coming) \o w = input \o (coming \o w)
      BY <1>1, ConcatAssociative
    <3>3. QED
      BY <3>1, <3>2, <1>2
  <2>5. more[n + 1] = <<>>
    BY <1>1, <2>0
  <2>6. ASSUME NEW i \in (Used + 1)..(n + 1)
        PROVE  more[i - 1] = Wire(i, packs'[i]) \o more[i]
    <3>1. CASE i = n + 1
      <4>1. more[i - 1] = rests[n] \o w /\ more[i] = <<>>
        BY <3>1, <1>1, <2>0
      <4>2. rests[n] = <<>>
        BY <2>1 DEF IsRests
      <4>3. <<>> \o w = w /\ w \o <<>> = w
        BY <1>1, ConcatEmptySeq
      <4>4. Wire(i, packs'[i]) = w
        BY <3>1, <1>3 DEF w
      <4>5. QED
        BY <4>1, <4>2, <4>3, <4>4
    <3>2. CASE i # n + 1
      <4>1. /\ i \in (Used + 1)..n /\ i \in 1..n /\ i \in Used..n /\ i - 1 \in Used..n
            /\ i \in Used..(n + 1) /\ i - 1 \in Used..(n + 1) /\ i <= n /\ i - 1 <= n
            /\ i \in Nat
        BY <3>2, <1>1, <2>0
      <4>2. more[i - 1] = rests[i - 1] \o w /\ more[i] = rests[i] \o w
        BY <4>1
      <4>3. rests[i - 1] = Wire(i, packs[i]) \o rests[i]
        BY <4>1, <2>1 DEF IsRests
      <4>4. packs'[i] = packs[i] /\ packs[i] \in Packages
        BY <4>1, <1>1, <1>3, ElementOfSeq
      <4>5. Wire(i, packs[i]) \in Seq(ChatBytes)
        BY <4>1, <4>4, WireFacts
      <4>6. (Wire(i, packs[i]) \o rests[i]) \o w = Wire(i, packs[i]) \o (rests[i] \o w)
        <5> DEFINE x == Wire(i, packs[i])
                   y == rests[i]
        <5>1. x \in Seq(ChatBytes) /\ y \in Seq(ChatBytes) /\ w \in Seq(ChatBytes)
          BY <4>1, <4>5, <2>2, <1>1
        <5> HIDE DEF x, y
        <5>2. (x \o y) \o w = x \o (y \o w)
          BY <5>1, ConcatAssociative
        <5>3. QED
          BY <5>2 DEF x, y
      <4>7. QED
        BY <4>2, <4>3, <4>4, <4>6
    <3>3. QED
      BY <3>1, <3>2
  <2> HIDE DEF more
  <2>7. \E m : /\ m \in [Used..(n + 1) -> Seq(ChatBytes)]
              /\ m[Used] = input' \o coming' /\ m[n + 1] = <<>>
              /\ \A i \in (Used + 1)..(n + 1) : m[i - 1] = Wire(i, packs'[i]) \o m[i]
    BY <2>3, <2>4, <2>5, <2>6
  <2>8. QED
    BY <2>0, <2>7, <1>3, <1>6 DEF Framed, IsRests
<1>8. InStep'
  <2>1. Straight' => (Used <= Len(packs))'
    BY <1>1, <1>3, <1>6, <1>7
  <2>2. QED
    BY <2>1, <1>2, <1>7 DEF ChatInv, InStep
<1>9. (retrieves => BodyIsProcessed)'
  <2>1. \A i \in DOMAIN packs : i \in 1..n
    BY <1>1, LenProperties
  <2>2. DOMAIN packs' = 1..(n + 1)
    BY <1>3, LenProperties
  <2>3. \A i \in DOMAIN packs : i \in DOMAIN packs' /\ packs'[i] = packs[i]
    BY <2>1, <2>2, <1>1, <1>3
  <2>4. QED
    BY <2>3, <1>2 DEF ChatInv, BodyIsProcessed
<1>10. NoneLeftWaiting'
  BY <1>2 DEF ChatInv, NoneLeftWaiting, Whole, BodySize, FrontHead, AtHead
<1>11. QED
  BY <1>5, <1>8, <1>9, <1>10 DEF ChatInv

\* A sequence cut in two.
LEMMA TwoParts ==
  ASSUME NEW S, NEW s \in Seq(S), NEW n \in 1..Len(s)
  PROVE  /\ SubSeq(s, 1, n) \in Seq(S) /\ SubSeq(s, n + 1, Len(s)) \in Seq(S)
         /\ SubSeq(s, 1, n) \o SubSeq(s, n + 1, Len(s)) = s
<1>1. Len(s) \in Nat /\ n + 1 \in 1..(Len(s) + 1)
  BY LenProperties
<1>2. SubSeq(s, 1, n) \in Seq(S) /\ SubSeq(s, n + 1, Len(s)) \in Seq(S)
  BY <1>1, SubSeqProperties
<1>3. SubSeq(s, 1, n) \o SubSeq(s, n + 1, Len(s)) = SubSeq(s, 1, Len(s))
  BY <1>1, ConcatAdjacentSubSeq
<1>4. QED
  BY <1>2, <1>3, SubSeqFull

\* A piece that arrives changes its place, not the stream.
LEMMA ArriveInv ==
  ASSUME ChatInv, NEW n \in DOMAIN coming, Arrive(n)
  PROVE  ChatInv'
<1> DEFINE piece == SubSeq(coming, 1, n)
           after == SubSeq(coming, n + 1, Len(coming))
<1>1. /\ input' = input \o piece /\ coming' = after /\ reading' = TRUE
      /\ ~reading /\ ~forceClosed
      /\ UNCHANGED <<retrieves, packs, misread, forceClosed, processed>>
  BY DEF Arrive
<1>2. n \in 1..Len(coming) /\ coming \in Seq(ChatBytes) /\ input \in Seq(ChatBytes)
  BY LenProperties DEF ChatInv, ChatTypes
<1>3. piece \in Seq(ChatBytes) /\ after \in Seq(ChatBytes) /\ piece \o after = coming
  BY <1>2, TwoParts
<1> HIDE DEF piece, after
<1>4. input' \in Seq(ChatBytes) /\ input' \o coming' = input \o coming
  <2>1. input \o piece \in Seq(ChatBytes)
    BY <1>2, <1>3, ConcatProperties
  <2>2. (input \o piece) \o after = input \o (piece \o after)
    <3>1. input \in Seq(ChatBytes) /\ piece \in Seq(ChatBytes) /\ after \in Seq(ChatBytes)
      BY <1>2, <1>3
    <3>2. QED
      BY ONLY <3>1, ConcatAssociative
  <2>3. QED
    BY <2>1, <2>2, <1>1, <1>3
<1>5. ChatTypes'
  BY <1>1, <1>3, <1>4 DEF ChatInv, ChatTypes
<1>6. InStep'
  BY <1>1, <1>4 DEF ChatInv, InStep, Framed, IsRests, Used, Straight
<1>7. (retrieves => BodyIsProcessed)' /\ NoneLeftWaiting'
  BY <1>1 DEF ChatInv, BodyIsProcessed, NoneLeftWaiting
<1>8. QED
  BY <1>5, <1>6, <1>7 DEF ChatInv

\* An action that leaves the bytes and what was processed alone keeps everything but what is
\* said of reading.
LEMMA BytesStay ==
  ASSUME ChatInv, UNCHANGED <<retrieves, packs, coming, input, misread, processed>>,
         reading' \in BOOLEAN, forceClosed' \in BOOLEAN,
         forceClosed => forceClosed', reading' => ~forceClosed',
         ~reading' /\ ~forceClosed' => ~Whole
  PROVE  ChatInv'
<1>1. ChatTypes'
  BY DEF ChatInv, ChatTypes
<1>2. InStep'
  BY DEF ChatInv, InStep, Framed, IsRests, Used, Straight
<1>3. (retrieves => BodyIsProcessed)'
  BY DEF ChatInv, BodyIsProcessed
<1>4. NoneLeftWaiting'
  BY DEF NoneLeftWaiting, Whole, BodySize, FrontHead, AtHead
<1>5. QED
  BY <1>1, <1>2, <1>3, <1>4 DEF ChatInv

LEMMA WaitForMoreInv == ChatInv /\ WaitForMore => ChatInv'
<1> SUFFICES ASSUME ChatInv, WaitForMore PROVE ChatInv'
  OBVIOUS
<1>1. /\ reading' = FALSE
      /\ UNCHANGED <<retrieves, packs, coming, input, misread, forceClosed, processed>>
      /\ Len(input) >= HeadLen => ~Whole
  BY DEF WaitForMore
<1>2. ~Whole
  BY <1>1 DEF Whole
<1>3. forceClosed' \in BOOLEAN
  BY <1>1 DEF ChatInv, ChatTypes
<1>4. QED
  BY <1>1, <1>2, <1>3, BytesStay

LEMMA RefuseHeadInv == ChatInv /\ RefuseHead => ChatInv'
<1> SUFFICES ASSUME ChatInv, RefuseHead PROVE ChatInv'
  OBVIOUS
<1>1. /\ reading' = FALSE /\ forceClosed' = TRUE
      /\ UNCHANGED <<retrieves, packs, coming, input, misread, processed>>
  BY DEF RefuseHead, ForceClose
<1>2. QED
  BY <1>1, BytesStay

\* What is given to process of the package in front, on a Buffer that gives up what is
\* retrieved: its text, unless the body is not what its head says; and what stays is the rest
\* of the stream, unless the head said too much.
LEMMA PackageIsCut ==
  ASSUME ChatTypes, retrieves,
         NEW i, i \in Nat, NEW p, p \in Packages, NEW r, r \in Seq(ChatBytes),
         input \o coming = Wire(i, p) \o r, Len(input) >= HeadLen + BodySize(p),
         SizesInRange(p),
         Unpacked(Body(Retrieved(input, HeadLen), p), p).ok
  PROVE  /\ Unpacked(Body(Retrieved(input, HeadLen), p), p).dest = BodyText(i, p.originSize)
         /\ FitsIn(p) => Retrieved(Retrieved(input, HeadLen), BodySize(p)) \o coming = r
<1> DEFINE u == HeadPart(p)
           t == BodyPart(i, p)
           text == BodyText(i, p.originSize)
           rest == Retrieved(input, HeadLen)
           out == Unpacked(Body(rest, p), p)
<1>0. rest = Retrieved(input, HeadLen) /\ out = Unpacked(Body(rest, p), p) /\ out.ok
  OBVIOUS
<1>1. /\ p.originSize \in Int /\ p.originSize >= 1
      /\ p.flag = "COMPRESSED" => p.compressSize \in Int /\ p.compressSize >= 1
      /\ HeadLen \in Nat /\ MaxPackage \in Nat
  BY ChatAssumption DEF SizesInRange, InRange
<1>2. /\ u \in Seq(ChatBytes) /\ t \in Seq(ChatBytes) /\ Len(u) = HeadLen
      /\ input \o coming = (u \o t) \o r
      /\ input \in Seq(ChatBytes) /\ coming \in Seq(ChatBytes)
  BY WireFacts DEF ChatTypes
<1>3. text \in Seq(TextBytes) /\ Len(text) = p.originSize /\ text \in Seq(ChatBytes)
  BY <1>1, BodyTextFacts DEF ChatBytes
<1>4. Len(input) \in Nat /\ Len(coming) \in Nat /\ Len(t) \in Nat /\ Len(r) \in Nat
      /\ BodySize(p) \in Nat /\ BodySize(p) >= 1
  BY <1>1, <1>2, LenProperties DEF BodySize
<1> HIDE DEF u, t, text, rest, out
<1>5. rest = SubSeq(input, HeadLen + 1, Len(input)) /\ HeadLen < Len(input)
  BY <1>0, <1>1, <1>4 DEF Retrieved
<1>6. /\ rest \in Seq(ChatBytes) /\ Len(rest) = Len(input) - HeadLen
      /\ \A k \in 1..(Len(input) - HeadLen) : rest[k] = input[HeadLen + 1 + k - 1]
  BY <1>1, <1>2, <1>4, <1>5, SubSeqProperties
<1>7. ASSUME p.flag = "COMPRESSED" PROVE out.dest = text /\ Len(t) <= BodySize(p)
  <2> DEFINE body == Body(rest, p)
  <2>1. t = Deflated(text) /\ Len(t) = Len(text) + 1 /\ t[1].zip = text
    BY <1>7, <1>3, DeflatedFacts DEF BodyPart, t, text
  <2>2. /\ BodySize(p) <= Len(rest) /\ 1 \in 1..BodySize(p)
    BY <1>1, <1>4, <1>6
  <2>3. /\ Len(body) = BodySize(p)
        /\ body[1] = rest[1]
    <3>1. /\ Len(body) = IF 1 <= BodySize(p) THEN BodySize(p) - 1 + 1 ELSE 0
          /\ \A k \in 1..(BodySize(p) - 1 + 1) : body[k] = rest[1 + k - 1]
      BY <1>4, <1>6, <2>2, SubSeqProperties DEF Body
    <3>2. 1 \in 1..(BodySize(p) - 1 + 1) /\ 1 + 1 - 1 = 1
      BY <1>4
    <3>3. QED
      BY <3>1, <3>2, <1>4
  <2>4. rest[1] = t[1]
    <3>1. rest[1] = input[HeadLen + 1]
      BY <1>1, <1>4, <1>5, <1>6
    <3>2. input[HeadLen + 1] = (input \o coming)[HeadLen + 1]
      <4>1. HeadLen + 1 \in 1..(Len(input) + Len(coming)) /\ HeadLen + 1 <= Len(input)
        BY <1>1, <1>4, <1>5
      <4>2. QED
        BY <4>1, <1>2, ConcatProperties
    <3>3. /\ u \o t \in Seq(ChatBytes) /\ Len(u \o t) = HeadLen + Len(t)
          /\ (u \o t)[HeadLen + 1] = t[1]
      <4>1. /\ HeadLen + 1 \in 1..(Len(u) + Len(t)) /\ ~(HeadLen + 1 <= Len(u))
            /\ (HeadLen + 1) - Len(u) = 1
        BY <1>1, <1>2, <1>3, <1>4, <2>1
      <4>2. /\ u \o t \in Seq(ChatBytes) /\ Len(u \o t) = Len(u) + Len(t)
            /\ \A k \in 1..(Len(u) + Len(t)) :
                 (u \o t)[k] = IF k <= Len(u) THEN u[k] ELSE t[k - Len(u)]
        BY <1>2, ConcatProperties
      <4>3. (u \o t)[HeadLen + 1] = t[1]
        BY <4>1, <4>2
      <4>4. QED
        BY <4>2, <4>3, <1>2
    <3>4. ((u \o t) \o r)[HeadLen + 1] = (u \o t)[HeadLen + 1]
      <4>1. HeadLen + 1 \in 1..(Len(u \o t) + Len(r)) /\ HeadLen + 1 <= Len(u \o t)
        <5>1. Len(t) >= 1
          BY <1>1, <1>3, <2>1
        <5>2. QED
          BY ONLY <1>1, <1>4, <3>3, <5>1
      <4>2. QED
        BY <4>1, <3>3, ConcatProperties
    <3>5. QED
      BY <3>1, <3>2, <3>3, <3>4, <1>2
  <2> HIDE DEF body
  <2>5. StartsDeflated(body) /\ out.dest = <<>> \o body[1].zip
    BY <1>7, <1>0 DEF Unpacked, UncompressBuf, Result, body
  <2>6. body[1].zip = text
    BY <2>1, <2>3, <2>4
  <2>7. Len(t) <= Len(body)
    BY <2>1, <2>5, <2>6 DEF StartsDeflated
  <2>8. QED
    BY <2>3, <2>5, <2>6, <2>7, <1>3, ConcatEmptySeq
<1>8. ASSUME BodySize(p) = Len(t)
      PROVE  /\ Body(rest, p) = t
             /\ Retrieved(rest, BodySize(p)) \o coming = r
  <2>1. Len(input) >= Len(u) + Len(t)
    BY <1>2, <1>8
  <2>2. /\ SubSeq(SubSeq(input, Len(u) + 1, Len(input)), 1, Len(t)) = t
        /\ SubSeq(SubSeq(input, Len(u) + 1, Len(input)), Len(t) + 1, Len(input) - Len(u))
             \o coming = r
    BY <1>2, <2>1, Cut
  <2>3. /\ SubSeq(rest, 1, Len(t)) = t
        /\ SubSeq(rest, Len(t) + 1, Len(input) - HeadLen) \o coming = r
    BY <2>2, <1>2, <1>5
  <2>4. Retrieved(rest, BodySize(p)) = SubSeq(rest, Len(t) + 1, Len(input) - HeadLen)
    <3>1. CASE BodySize(p) >= Len(rest)
      <4>1. Len(t) + 1 > Len(input) - HeadLen
        BY <3>1, <1>1, <1>4, <1>6, <1>8
      <4>2. SubSeq(rest, Len(t) + 1, Len(input) - HeadLen) = <<>>
        BY <4>1, <1>1, <1>4, <1>6, SubSeqEmpty
      <4>3. QED
        BY <3>1, <4>2 DEF Retrieved
    <3>2. CASE ~(BodySize(p) >= Len(rest))
      BY <3>2, <1>6, <1>8 DEF Retrieved
    <3>3. QED
      BY <3>1, <3>2
  <2>5. QED
    BY <2>3, <2>4, <1>8 DEF Body
<1>9. CASE p.flag # "COMPRESSED"
  <2>1. t = text /\ BodySize(p) = Len(t)
    BY <1>9, <1>3 DEF BodyPart, BodySize, t, text
  <2>2. out.dest = text
    BY <2>1, <1>0, <1>8, <1>9 DEF Unpacked, Result
  <2>3. QED
    BY <2>1, <2>2, <1>0, <1>8 DEF text
<1>10. CASE p.flag = "COMPRESSED"
  <2>1. ASSUME FitsIn(p) PROVE BodySize(p) = Len(t)
    <3>1. t = Deflated(text) /\ Len(t) = Len(text) + 1
      BY <1>10, <1>3, DeflatedFacts DEF BodyPart, t, text
    <3>2. BodySize(p) <= Len(t)
      BY <2>1, <3>1, <1>1, <1>3, <1>10 DEF FitsIn, CompressBound, BodySize
    <3>3. QED
      BY <3>2, <1>4, <1>7, <1>10
  <2>2. QED
    BY <2>1, <1>0, <1>7, <1>8, <1>10 DEF text
<1>11. QED
  BY <1>9, <1>10

LEMMA RetrievedIsSeq ==
  ASSUME NEW s \in Seq(ChatBytes), NEW n \in Nat
  PROVE  Retrieved(s, n) \in Seq(ChatBytes)
<1>1. Len(s) \in Nat
  BY LenProperties
<1>2. \A k \in (n + 1)..Len(s) : s[k] \in ChatBytes
  <2>1. \A k \in (n + 1)..Len(s) : k \in 1..Len(s)
    BY <1>1
  <2>2. QED
    BY <2>1, ElementOfSeq
<1>3. SubSeq(s, n + 1, Len(s)) \in Seq(ChatBytes)
  BY <1>1, <1>2, SubSeqProperties
<1>4. QED
  BY <1>3, EmptySeq DEF Retrieved

\* Bytes that are cut out are bytes.
LEMMA BodyIsSeq ==
  ASSUME NEW s \in Seq(ChatBytes), NEW h, BodySize(h) \in Nat
  PROVE  Body(s, h) \in Seq(ChatBytes) \/ BodySize(h) > Len(s)
<1>1. Len(s) \in Nat
  BY LenProperties
<1>2. ASSUME BodySize(h) <= Len(s) PROVE Body(s, h) \in Seq(ChatBytes)
  <2>1. \A k \in 1..BodySize(h) : s[k] \in ChatBytes
    <3>1. \A k \in 1..BodySize(h) : k \in 1..Len(s)
      BY <1>1, <1>2
    <3>2. QED
      BY <3>1, ElementOfSeq
  <2>2. QED
    BY <2>1, SubSeqProperties DEF Body
<1>3. QED
  BY <1>1, <1>2

\* What process is given is made of bytes.
LEMMA UnpackedIsSeq ==
  ASSUME NEW s \in Seq(ChatBytes), NEW h, Unpacked(s, h).ok
  PROVE  Unpacked(s, h).dest \in Seq(ChatBytes)
<1>1. CASE h.flag # "COMPRESSED"
  BY <1>1 DEF Unpacked, Result
<1>2. CASE h.flag = "COMPRESSED"
  <2>1. StartsDeflated(s) /\ Unpacked(s, h).dest = <<>> \o s[1].zip
    BY <1>2 DEF Unpacked, UncompressBuf, Result
  <2>2. s[1] \in ChatBytes /\ "zip" \in DOMAIN s[1]
    <3>1. 1 \in 1..Len(s)
      BY <2>1, EmptySeq, LenProperties DEF StartsDeflated
    <3>2. QED
      BY <2>1, <3>1, ElementOfSeq DEF StartsDeflated
  <2>3. s[1] \in ZipBytes
    <3>1. s[1] \notin TextBytes
      BY <2>2 DEF TextBytes
    <3>2. s[1] \notin HeadBytes
      BY <2>2 DEF HeadBytes
    <3>3. QED
      BY <2>2, <3>1, <3>2 DEF ChatBytes
  <2>4. s[1].zip \in Seq(TextBytes)
    BY <2>3 DEF ZipBytes
  <2>5. s[1].zip \in Seq(ChatBytes)
    <3>1. \A k \in 1..Len(s[1].zip) : s[1].zip[k] \in ChatBytes
      BY <2>4, ElementOfSeq DEF ChatBytes
    <3>2. QED
      BY <2>4, <3>1, SeqDef, LenProperties
  <2>6. QED
    BY <2>1, <2>5, ConcatEmptySeq
<1>3. QED
  BY <1>1, <1>2

\* What is taken for a head is one.
LEMMA FrontIsHead ==
  ASSUME ChatTypes
  PROVE  FrontHead \in Packages
<1>1. CASE ~AtHead(input)
  BY <1>1 DEF FrontHead, ChatTypes
<1>2. CASE AtHead(input)
  <2>1. input[1] \in ChatBytes /\ "head" \in DOMAIN input[1]
    <3>1. 1 \in 1..Len(input)
      BY <1>2, EmptySeq, LenProperties DEF AtHead, ChatTypes
    <3>2. QED
      BY <1>2, <3>1, ElementOfSeq DEF AtHead, ChatTypes
  <2>2. input[1] \notin TextBytes
    BY <2>1 DEF TextBytes
  <2>3. input[1] \notin ZipBytes
    BY <2>1 DEF ZipBytes
  <2>4. input[1] \in HeadBytes
    BY <2>1, <2>2, <2>3 DEF ChatBytes
  <2>5. QED
    BY <1>2, <2>4 DEF HeadBytes, FrontHead
<1>3. QED
  BY <1>1, <1>2

\* What a turn of the loop finds, and what it does on either Buffer.
LEMMA ReadFacts ==
  ASSUME ChatInv, NEW good, ReadPackage(good)
  PROVE  /\ reading /\ ~forceClosed
         /\ Len(input) >= HeadLen /\ SizesInRange(FrontHead)
         /\ FrontHead \in Packages
         /\ BodySize(FrontHead) \in Nat /\ BodySize(FrontHead) >= 1
         /\ Len(input) >= HeadLen + BodySize(FrontHead)
         /\ UNCHANGED <<retrieves, packs, coming>>
         /\ reading' \in BOOLEAN /\ forceClosed' = ~reading'
         /\ ChatTypes' /\ NoneLeftWaiting'
<1> DEFINE rest == Retrieved(input, HeadLen)
           body == Body(rest, FrontHead)
           out == Unpacked(body, FrontHead)
<1>1. ChatTypes /\ InStep
  BY DEF ChatInv
<1>2. reading /\ reading = TRUE /\ ~forceClosed /\ forceClosed = FALSE
  BY <1>1 DEF ChatTypes, InStep, ReadPackage
<1>3. /\ Len(input) >= HeadLen /\ SizesInRange(FrontHead) /\ Whole
      /\ UNCHANGED <<retrieves, packs, coming>>
  BY DEF ReadPackage
<1>4. (UNCHANGED <<reading, forceClosed>>) \/ (reading' = FALSE /\ forceClosed' = TRUE)
  BY DEF ReadPackage, ForceClose
<1>5. FrontHead \in Packages
  BY <1>1, FrontIsHead
<1>6. BodySize(FrontHead) \in Nat /\ BodySize(FrontHead) >= 1
  BY <1>3, <1>5, ChatAssumption DEF SizesInRange, InRange, BodySize
<1>7. Len(input) \in Nat /\ HeadLen \in Nat
  BY <1>1, LenProperties, ChatAssumption DEF ChatTypes
<1>8. Len(input) >= HeadLen + BodySize(FrontHead)
  BY <1>3, <1>6, <1>7 DEF Whole
<1>9. rest \in Seq(ChatBytes) /\ Len(rest) >= BodySize(FrontHead)
  <2>1. rest \in Seq(ChatBytes) /\ input \in Seq(ChatBytes)
    BY <1>1, <1>7, RetrievedIsSeq DEF ChatTypes
  <2>2. CASE rest = input
    BY <2>2, <1>6, <1>7, <1>8, <2>1
  <2>3. CASE rest = SubSeq(input, HeadLen + 1, Len(input))
    <3>1. \A k \in (HeadLen + 1)..Len(input) : input[k] \in ChatBytes
      <4>1. \A k \in (HeadLen + 1)..Len(input) : k \in 1..Len(input)
        BY <1>7
      <4>2. QED
        BY <4>1, <2>1, ElementOfSeq
    <3>2. Len(rest) = IF HeadLen + 1 <= Len(input) THEN Len(input) - (HeadLen + 1) + 1 ELSE 0
      BY <2>3, <3>1, <2>1, <1>7, SubSeqProperties
    <3>3. QED
      BY <3>2, <2>1, <1>6, <1>7, <1>8
  <2>4. HeadLen < Len(input)
    BY <1>6, <1>7, <1>8
  <2>5. QED
    BY <2>1, <2>2, <2>3, <2>4, <1>7 DEF Retrieved
<1>10. body \in Seq(ChatBytes)
  <2>1. Len(rest) \in Nat
    BY <1>9, LenProperties
  <2> HIDE DEF rest
  <2>2. QED
    BY <2>1, <1>6, <1>9, BodyIsSeq
<1>11. /\ input' = Retrieved(rest, BodySize(FrontHead))
       /\ misread' \in Misread(input' \o coming)
       /\ processed' = IF out.ok THEN Append(processed, out.dest) ELSE processed
  BY DEF ReadPackage
<1>12. misread' \in Packages
  BY <1>1, <1>11 DEF Misread, ChatTypes
<1>13. input' \in Seq(ChatBytes)
  BY <1>6, <1>9, <1>11, RetrievedIsSeq
<1>14. processed' \in Seq(Seq(ChatBytes))
  <2> HIDE DEF body
  <2>1. out.ok => out.dest \in Seq(ChatBytes)
    BY <1>10, UnpackedIsSeq
  <2> HIDE DEF out
  <2>2. QED
    BY <1>1, <1>11, <2>1, AppendProperties DEF ChatTypes
<1>15. ChatTypes'
  BY <1>1, <1>2, <1>3, <1>4, <1>12, <1>13, <1>14 DEF ChatTypes
<1>16. NoneLeftWaiting'
  BY <1>2, <1>4 DEF NoneLeftWaiting
<1>17. QED
  BY <1>2, <1>3, <1>4, <1>5, <1>6, <1>8, <1>15, <1>16

\* A turn of the loop on a Buffer that gives up what is retrieved, up to the first package
\* whose head says too much.
LEMMA ReadRetrieves ==
  ASSUME ChatInv, NEW good, ReadPackage(good), retrieves, Straight
  PROVE  InStep' /\ BodyIsProcessed'
<1> DEFINE p == FrontHead
           i == Used + 1
           rest == Retrieved(input, HeadLen)
           out == Unpacked(Body(rest, p), p)
<1>1. /\ ChatTypes /\ InStep /\ reading /\ ~forceClosed
      /\ Len(input) >= HeadLen /\ SizesInRange(p)
      /\ p \in Packages
      /\ BodySize(p) \in Nat /\ BodySize(p) >= 1
      /\ Len(input) >= HeadLen + BodySize(p)
      /\ UNCHANGED <<retrieves, packs, coming>>
      /\ reading' \in BOOLEAN /\ forceClosed' = ~reading'
      /\ ChatTypes'
  BY ReadFacts DEF ChatInv
<1>2. /\ Used \in Nat /\ i \in 1..Len(packs) /\ packs[i] \in Packages /\ p = packs[i]
      /\ \E rests : /\ IsRests(rests, Used, Len(packs), input \o coming)
                    /\ rests[i] \in Seq(ChatBytes)
                    /\ input \o coming = Wire(i, p) \o rests[i]
  BY <1>1, FrontIsNext
<1>3. PICK rests : /\ IsRests(rests, Used, Len(packs), input \o coming)
                   /\ rests[i] \in Seq(ChatBytes)
                   /\ input \o coming = Wire(i, p) \o rests[i]
  BY <1>2
<1>4. /\ input' = Retrieved(rest, BodySize(p))
      /\ processed' = IF out.ok THEN Append(processed, out.dest) ELSE processed
      /\ (out.ok /\ good) \/ forceClosed'
  BY DEF ReadPackage, ForceClose
<1>5. /\ Used = Len(processed) /\ Len(packs) \in Nat /\ i \in Nat
      /\ processed \in Seq(Seq(ChatBytes)) /\ packs \in Seq(Packages)
  BY <1>1, <1>2, LenProperties DEF Used, ChatTypes
<1>6. CASE ~out.ok
  <2>1. processed' = processed /\ forceClosed'
    BY <1>4, <1>6
  <2>2. BodyIsProcessed'
    BY <1>1, <2>1 DEF ChatInv, BodyIsProcessed
  <2>3. QED
    BY <1>1, <2>1, <2>2 DEF InStep
<1>7. CASE out.ok
  <2>1. /\ out.dest = BodyText(i, p.originSize) /\ out.dest \in Seq(ChatBytes)
        /\ FitsIn(p) => input' \o coming = rests[i]
    <3> DEFINE r == rests[i]
    <3>1. Unpacked(Body(Retrieved(input, HeadLen), p), p).ok
      BY <1>7
    <3>2. i \in Nat /\ p \in Packages /\ r \in Seq(ChatBytes)
      BY <1>1, <1>3, <1>5
    <3>3. ChatTypes /\ retrieves /\ SizesInRange(p)
      BY <1>1
    <3>4. input \o coming = Wire(i, p) \o r /\ Len(input) >= HeadLen + BodySize(p)
      BY <1>1, <1>3
    <3>5. BodyText(i, p.originSize) \in Seq(ChatBytes)
      BY <3>2, ChatAssumption, BodyTextFacts DEF ChatBytes
    <3> HIDE DEF p, i, r
    <3>6. /\ Unpacked(Body(Retrieved(input, HeadLen), p), p).dest = BodyText(i, p.originSize)
          /\ FitsIn(p) => Retrieved(Retrieved(input, HeadLen), BodySize(p)) \o coming = r
      BY ONLY <3>1, <3>2, <3>3, <3>4, PackageIsCut
    <3>7. QED
      BY <3>5, <3>6, <1>4 DEF r
  <2> HIDE DEF rest, out
  <2>2. /\ processed' \in Seq(Seq(ChatBytes)) /\ Len(processed') = i
        /\ processed'[i] = BodyText(i, p.originSize)
        /\ \A k \in 1..Used : processed'[k] = processed[k]
    BY <1>4, <1>5, <1>7, <2>1, AppendProperties
  <2>3. Used' = i /\ i <= Len(packs) /\ DOMAIN packs = 1..Len(packs)
    BY <1>1, <1>2, <1>5, <2>2, LenProperties DEF Used
  <2>4. ASSUME Straight' PROVE Framed'
    <3>0. FitsIn(p)
      BY <2>3, <2>4, <1>1, <1>2 DEF Straight
    <3> DEFINE fewer == [k \in i..Len(packs) |-> rests[k]]
    <3>1. \A k \in i..Len(packs) : k \in Used..Len(packs)
      BY <1>2, <1>5
    <3>2. fewer \in [i..Len(packs) -> Seq(ChatBytes)]
      BY <1>3, <3>1 DEF IsRests
    <3>3. fewer[i] = input' \o coming' /\ fewer[Len(packs)] = <<>>
      <4>1. i \in i..Len(packs) /\ Len(packs) \in i..Len(packs)
        BY <1>2, <1>5
      <4>2. QED
        BY <4>1, <1>1, <1>3, <2>1, <3>0 DEF IsRests
    <3>4. ASSUME NEW k \in (i + 1)..Len(packs)
          PROVE  fewer[k - 1] = Wire(k, packs[k]) \o fewer[k]
      <4>1. k \in i..Len(packs) /\ k - 1 \in i..Len(packs) /\ k \in (Used + 1)..Len(packs)
        BY <1>2, <1>5
      <4>2. QED
        BY <4>1, <1>3 DEF IsRests
    <3> HIDE DEF fewer
    <3>5. \E m : /\ m \in [i..Len(packs) -> Seq(ChatBytes)]
                 /\ m[i] = input' \o coming' /\ m[Len(packs)] = <<>>
                 /\ \A k \in (i + 1)..Len(packs) : m[k - 1] = Wire(k, packs[k]) \o m[k]
      BY <3>2, <3>3, <3>4
    <3> HIDE DEF i
    <3>6. packs' = packs
      BY <1>1
    <3>7. QED
      BY <3>5, <3>6, <2>3 DEF Framed, IsRests
  <2>5. InStep'
    BY <1>1, <2>3, <2>4 DEF InStep
  <2>6. BodyIsProcessed'
    <3>1. DOMAIN processed' = 1..i /\ DOMAIN processed = 1..Used
      BY <1>5, <2>2, LenProperties
    <3>2. ASSUME NEW k \in 1..i, \A j \in DOMAIN packs : j < k => FitsIn(packs[j])
          PROVE  k \in DOMAIN packs /\ processed'[k] = BodyText(k, packs[k].originSize)
      <4>1. CASE k = i
        BY <4>1, <1>2, <2>2, <2>3
      <4>2. CASE k # i
        <5>1. k \in 1..Used
          BY <4>2, <1>2, <1>5
        <5>2. QED
          BY <5>1, <2>2, <3>1, <3>2 DEF ChatInv, BodyIsProcessed
      <4>3. QED
        BY <4>1, <4>2
    <3>3. QED
      BY <1>1, <3>1, <3>2 DEF BodyIsProcessed
  <2>7. QED
    BY <2>5, <2>6
<1>8. QED
  BY <1>6, <1>7

\* Behind such a package nothing is promised any more.
LEMMA ReadAstray ==
  ASSUME ChatInv, NEW good, ReadPackage(good), retrieves, ~Straight
  PROVE  InStep' /\ BodyIsProcessed'
<1>1. /\ UNCHANGED <<retrieves, packs>> /\ forceClosed' = ~reading' /\ reading' \in BOOLEAN
      /\ processed \in Seq(Seq(ChatBytes)) /\ processed' \in Seq(Seq(ChatBytes))
  BY ReadFacts DEF ChatInv, ChatTypes
<1>2. Len(processed) \in Nat /\ DOMAIN processed = 1..Len(processed) /\ Used = Len(processed)
  BY <1>1, LenProperties DEF Used
<1>3. \/ processed' = processed
      \/ /\ Len(processed') = Len(processed) + 1
         /\ \A k \in 1..Len(processed) : processed'[k] = processed[k]
  <2>1. PICK x : processed' = Append(processed, x) \/ processed' = processed
    BY DEF ReadPackage
  <2>2. CASE processed' = Append(processed, x)
    <3>1. /\ Len(processed') = Len(processed) + 1
          /\ \A k \in 1..Len(processed) : processed'[k] = processed[k]
      BY <2>2, <1>1, <1>2
    <3>2. QED
      BY <3>1
  <2>3. QED
    BY <2>1, <2>2
<1>4. Used' \in Nat /\ Used' >= Used /\ Used' <= Used + 1
  BY <1>1, <1>2, <1>3 DEF Used
<1>5. PICK j \in DOMAIN packs : j <= Used /\ ~FitsIn(packs[j])
  BY DEF Straight
<1>6. j \in Nat
  BY <1>5, LenProperties DEF ChatInv, ChatTypes
<1>7. ~Straight'
  BY <1>1, <1>2, <1>4, <1>5, <1>6 DEF Straight
<1>8. ASSUME NEW k \in DOMAIN processed',
             \A m \in DOMAIN packs : m < k => FitsIn(packs[m])
      PROVE  k \in DOMAIN packs /\ processed'[k] = BodyText(k, packs[k].originSize)
  <2>1. k \in 1..Len(processed') /\ Len(processed') = Used'
    BY <1>1, <1>8, LenProperties DEF Used
  <2>2. ~(j < k)
    BY <1>5, <1>8
  <2>3. k \in 1..Used
    BY <2>1, <2>2, <1>2, <1>4, <1>5, <1>6
  <2>4. processed'[k] = processed[k] /\ k \in DOMAIN processed
    BY <2>3, <1>2, <1>3
  <2>5. QED
    BY <2>4, <1>8 DEF ChatInv, BodyIsProcessed
<1>9. BodyIsProcessed'
  BY <1>1, <1>8 DEF BodyIsProcessed
<1>10. InStep'
  BY <1>1, <1>7 DEF InStep
<1>11. QED
  BY <1>9, <1>10

\* A turn of the loop on the Buffer as it is: the stream does not change.
LEMMA ReadKeeps ==
  ASSUME ChatInv, NEW good, ReadPackage(good), ~retrieves
  PROVE  InStep'
<1> DEFINE p == FrontHead
<1>1. /\ InStep /\ ~forceClosed
      /\ BodySize(p) \in Nat /\ BodySize(p) >= 1
      /\ Len(input) >= HeadLen + BodySize(p)
      /\ UNCHANGED <<retrieves, packs, coming>>
      /\ reading' \in BOOLEAN /\ forceClosed' = ~reading'
  BY ReadFacts DEF ChatInv
<1>2. Len(input) \in Nat /\ HeadLen \in Nat \ {0}
  BY LenProperties, ChatAssumption DEF ChatInv, ChatTypes
<1>3. Retrieved(input, HeadLen) = input /\ Retrieved(input, BodySize(p)) = input
  BY <1>1, <1>2 DEF Retrieved
<1>4. input' = input
  BY <1>3 DEF ReadPackage
<1>5. Used = 0 /\ Used' = 0 /\ Straight' = Straight
  BY <1>1 DEF Used, Straight
<1>6. QED
  BY <1>1, <1>4, <1>5 DEF InStep, Framed, IsRests

LEMMA ReadPackageInv ==
  ASSUME ChatInv, NEW good, ReadPackage(good)
  PROVE  ChatInv'
<1>1. ChatTypes' /\ NoneLeftWaiting' /\ retrieves' = retrieves
  BY ReadFacts
<1>2. InStep' /\ (retrieves => BodyIsProcessed)'
  <2>1. CASE retrieves /\ Straight
    BY <2>1, ReadRetrieves
  <2>2. CASE retrieves /\ ~Straight
    BY <2>2, ReadAstray
  <2>3. CASE ~retrieves
    BY <2>3, <1>1, ReadKeeps
  <2>4. QED
    BY <2>1, <2>2, <2>3
<1>3. QED
  BY <1>1, <1>2 DEF ChatInv

\* One step per action.
LEMMA ChatNextInv == ChatInv /\ [ChatNext]_chatVars => ChatInv'
<1> SUFFICES ASSUME ChatInv, [ChatNext]_chatVars PROVE ChatInv'
  OBVIOUS
<1>1. CASE \E p \in Packages : PeerSends(p)
  BY <1>1, PeerSendsInv
<1>2. CASE \E n \in DOMAIN coming : Arrive(n)
  BY <1>2, ArriveInv
<1>3. CASE WaitForMore
  BY <1>3, WaitForMoreInv
<1>4. CASE RefuseHead
  BY <1>4, RefuseHeadInv
<1>5. CASE \E good \in BOOLEAN : ReadPackage(good)
  BY <1>5, ReadPackageInv
<1>6. CASE UNCHANGED chatVars
  <2>1. /\ UNCHANGED <<retrieves, packs, coming, input, misread, processed>>
        /\ reading' = reading /\ forceClosed' = forceClosed
    BY <1>6 DEF chatVars
  <2>2. /\ reading \in BOOLEAN /\ forceClosed \in BOOLEAN
        /\ reading => ~forceClosed
        /\ ~reading /\ ~forceClosed => ~Whole
    BY DEF ChatInv, ChatTypes, InStep, NoneLeftWaiting
  <2>3. QED
    BY <2>1, <2>2, BytesStay
<1>7. QED
  BY <1>1, <1>2, <1>3, <1>4, <1>5, <1>6 DEF ChatNext

\* The strengthened invariant: until a package has been used up whose compressSize is too
\* long, the bytes are what is left of the packages; on the Buffer as it is they are all that
\* was sent.
THEOREM StreamInvariance == ChatSpec => []ChatInv
BY ChatInitInv, ChatNextInv, PTL DEF ChatSpec

\* Where retrieve gives up what it is asked to, process is given the bodies whole and in the
\* order they were sent, however the bytes were cut, up to and with the first package whose
\* compressSize is too long; on either Buffer OnRead leaves nothing waiting that it takes for
\* a whole package.
THEOREM FramesInOrder == ChatSpec => []FramedInOrder
<1>1. ChatInv => FramedInOrder
  BY DEF ChatInv, FramedInOrder
<1>2. QED
  BY <1>1, StreamInvariance, PTL
==============================================================================
