------------------------------ MODULE KaLogProofs ------------------------------
(***************************************************************************)
(* Proofs about KaLog, for any lines, any roll size, with and without a    *)
(* file: without FATAL lines nothing is lost, doubled or overtaken, nothing *)
(* waits for a sleeping writer, and the writer drains the queue.           *)
(***************************************************************************)
EXTENDS KaLog, SequenceTheorems, TLAPS

\* What the writer holds, what it owes, and when it is gone.  A line is held
\* from the moment it is taken until it is written.
Hands ==
  /\ wpc \in {"print", "write"} => taken # <<>>
  /\ wpc \notin {"print", "write"} => taken = <<>> \/ failed
  /\ wpc \in {"close", "open", "write"} => ToFile
  /\ wpc = "gone" => exit \/ failed
  /\ upc = "done" => wpc = "gone"
  /\ failed \/ due <= Len(accepted)

IInv == TypeOK /\ Hands /\ InOrder /\ Drained /\ NoLineAsleep

LEMMA InitIInv == Init => IInv
<1> SUFFICES ASSUME Init PROVE IInv
  OBVIOUS
<1>1. TypeOK
  <2>1. <<>> \in Seq(Lines) /\ <<>> \in Seq(Nat) /\ Len(<<>>) = 0
    BY EmptySeq
  <2>2. h \in 0..Len(files)
    BY <2>1 DEF Init, NULL
  <2>3. QED
    BY <2>1, <2>2 DEF Init, TypeOK, NULL
<1>2. Hands /\ Drained /\ NoLineAsleep
  BY DEF Init, Hands, Drained, NoLineAsleep, Delivered
<1>3. InOrder
  BY DEF Init, InOrder, Delivered
<1>4. QED
  BY <1>1, <1>2, <1>3 DEF IInv

\* What the writer holds is a sequence of lines, too.
LEMMA TakenIsSeq == TypeOK => taken \in Seq(Lines)
<1> SUFFICES ASSUME TypeOK PROVE taken \in Seq(Lines)
  OBVIOUS
<1>1. CASE taken = <<>>
  BY <1>1, EmptySeq
<1>2. ASSUME NEW x \in Lines, taken = <<x>> PROVE taken \in Seq(Lines)
  BY <1>2
<1>3. QED
  BY <1>1, <1>2 DEF TypeOK

-----------------------------------------------------------------------------
(* The types.                                                              *)

LEMMA TypeProgram == TypeOK /\ Hands /\ Program => TypeOK'
<1> SUFFICES ASSUME TypeOK, Hands, Program PROVE TypeOK'
  OBVIOUS
<1> USE DEF TypeOK, fileVars, fatalVars, NULL
<1>1. CASE Start
  <2>1. Len(Delivered) + Len(list) \in Nat
    BY LenProperties DEF Delivered
  <2>2. open' = IF wpc' = "open" \/ h' = 0 THEN {} ELSE {h'}
    BY <1>1 DEF Start, Hands
  <2>3. taken' \in {<<>>} \cup {<<x>> : x \in Lines} /\ starts' \in Nat /\ due' \in Nat
    BY <1>1, <2>1 DEF Start
  <2>4. /\ wpc' = "roll" /\ upc' = "idle"
        /\ UNCHANGED <<list, exit, h, written, files, accepted, shown, filed,
                       failed, fpc, onRecord>>
    BY <1>1 DEF Start
  <2>5. QED
    BY <2>2, <2>3, <2>4
<1>2. CASE UninitExit
  BY <1>2, LenProperties DEF UninitExit
<1>3. CASE UninitNotify
  BY <1>3 DEF UninitNotify, Notified
<1>4. CASE UninitJoin
  BY <1>4, LenProperties DEF UninitJoin
<1>5. CASE \E x \in Lines : Output(x)
  <2>1. PICK x \in Lines : Output(x)
    BY <1>5
  <2>2. list' \in Seq(Lines) /\ accepted' \in Seq(Lines)
    BY <2>1, AppendProperties DEF Output
  <2>3. wpc' = wpc \/ (wpc = "asleep" /\ wpc' = "check")
    BY <2>1 DEF Output, Notified
  <2>4. QED
    BY <2>1, <2>2, <2>3 DEF Output
<1>6. QED
  BY <1>1, <1>2, <1>3, <1>4, <1>5 DEF Program

LEMMA TypeWriter ==
  TypeOK /\ Hands /\ (WriterStep \/ SpuriousWake) => TypeOK'
<1> SUFFICES ASSUME TypeOK, Hands, WriterStep \/ SpuriousWake PROVE TypeOK'
  OBVIOUS
<1> USE DEF TypeOK, fileVars, fatalVars, NULL
<1>1. CASE WriterRoll
  BY <1>1 DEF WriterRoll, NeedFile
<1>2. CASE WriterClose
  <2>1. open' = {}
    BY <1>2 DEF WriterClose
  <2>2. QED
    BY <1>2, <2>1 DEF WriterClose
<1>3. CASE WriterOpen
  <2>1. open = {} /\ Len(files) \in Nat /\ wpc = "open"
    BY <1>3, LenProperties DEF WriterOpen
  <2>2. CASE /\ wpc' = "check" /\ UNCHANGED failed
             /\ files' = Append(files, 0) \/ (files # <<>> /\ files' = files)
             /\ h' = Len(files') /\ open' = open \cup {Len(files')}
    <3>1. files' \in Seq(Nat) /\ Len(files') \in Nat \ {0}
      <4>1. CASE files' = Append(files, 0)
        BY <2>1, <4>1, AppendProperties
      <4>2. CASE files # <<>> /\ files' = files
        BY <2>1, <4>2, EmptySeq
      <4>3. QED
        BY <2>2, <4>1, <4>2
    <3>2. h' \in 0..Len(files') /\ h' # 0 /\ open' = {h'}
      BY <3>1, <2>1, <2>2
    <3>3. QED
      BY <1>3, <2>2, <3>1, <3>2 DEF WriterOpen
  <2>3. CASE Fails /\ h' = NULL /\ UNCHANGED <<files, open>>
    BY <1>3, <2>1, <2>3 DEF WriterOpen, Fails
  <2>4. QED
    BY <1>3, <2>2, <2>3 DEF WriterOpen
<1>4. CASE WriterCheck
  <2>1. list # <<>> => Head(list) \in Lines /\ Tail(list) \in Seq(Lines)
    BY HeadTailProperties
  <2>2. list' \in Seq(Lines) /\ taken' \in {<<>>} \cup {<<x>> : x \in Lines}
    BY <1>4, <2>1 DEF WriterCheck
  <2>3. QED
    BY <1>4, <2>2 DEF WriterCheck
<1>5. CASE WriterWait
  BY <1>5 DEF WriterWait
<1>6. CASE WriterPrint
  <2>1. shown' \in Seq(Lines)
    <3>1. taken \in Seq(Lines)
      BY TakenIsSeq
    <3>2. QED
      BY <1>6, <3>1, ConcatProperties DEF WriterPrint
  <2>2. QED
    BY <1>6, <2>1 DEF WriterPrint
<1>7. CASE WriterWrite
  <2>1. PICK x \in Lines : taken = <<x>>
    BY <1>7 DEF WriterWrite, Hands
  <2>2. x \in Nat /\ h \in 1..Len(files) /\ files \in Seq(Nat)
    BY <1>7, ConstantsAssumption DEF WriterWrite
  <2>3. CASE Fails /\ UNCHANGED <<taken, filed, written, files>>
    BY <1>7, <2>3 DEF WriterWrite, Fails
  <2>4. CASE /\ wpc' = "roll" /\ taken' = <<>> /\ UNCHANGED failed
             /\ filed' = filed \o taken
             /\ written' = written + taken[1]
             /\ files' = [files EXCEPT ![h] = @ + taken[1]]
    <3>1. taken[1] = x /\ taken \in Seq(Lines)
      BY <2>1
    <3>2. filed' \in Seq(Lines)
      BY <2>4, <3>1, ConcatProperties
    <3>3. files[h] \in Nat
      BY <2>2, ElementOfSeq
    <3>4. files[h] + x \in Nat /\ written' \in Nat
      BY <3>1, <3>3, <2>2, <2>4
    <3>5. files' \in Seq(Nat) /\ Len(files') = Len(files)
      BY <3>1, <3>4, <2>2, <2>4, ExceptSeq
    <3>6. QED
      BY <1>7, <2>4, <3>2, <3>4, <3>5 DEF WriterWrite
  <2>5. QED
    BY <1>7, <2>3, <2>4 DEF WriterWrite
<1>8. CASE SpuriousWake
  BY <1>8 DEF SpuriousWake
<1>9. QED
  BY <1>1, <1>2, <1>3, <1>4, <1>5, <1>6, <1>7, <1>8 DEF WriterStep
-----------------------------------------------------------------------------
(* Moving a line from one sequence to the next.                            *)

\* Appending to the last of three.
LEMMA AppendLast ==
  ASSUME NEW S, NEW q \in Seq(S), NEW r \in Seq(S), NEW e \in S
  PROVE  q \o Append(r, e) = Append(q \o r, e)
<1>1. <<e>> \in Seq(S) /\ q \o r \in Seq(S)
  BY ConcatProperties
<1>2. Append(r, e) = r \o <<e>> /\ Append(q \o r, e) = (q \o r) \o <<e>>
  BY <1>1, AppendIsConcat
<1>3. QED
  BY <1>1, <1>2, ConcatAssociative

\* Taking the first of the last.
LEMMA TakeFirst ==
  ASSUME NEW S, NEW q \in Seq(S), NEW r \in Seq(S), r # <<>>
  PROVE  (q \o <<Head(r)>>) \o Tail(r) = (q \o <<>>) \o r
<1> DEFINE f == <<Head(r)>>
           t == Tail(r)
<1>1. /\ Head(r) \in S /\ t \in Seq(S) /\ Len(t) = Len(r) - 1 /\ Len(r) \in Nat \ {0}
      /\ \A i \in 1..Len(t) : t[i] = r[i + 1]
      /\ Head(r) = r[1]
  BY HeadTailProperties, EmptySeq
<1>2. f \in Seq(S) /\ Len(f) = 1 /\ f[1] = Head(r)
  BY <1>1
<1> HIDE DEF f, t
<1>3. /\ f \o t \in Seq(S) /\ Len(f \o t) = Len(r)
      /\ \A i \in 1..Len(r) : (f \o t)[i] = IF i <= 1 THEN f[i] ELSE t[i - 1]
  <2>1. /\ f \o t \in Seq(S) /\ Len(f \o t) = Len(f) + Len(t)
        /\ \A i \in 1..(Len(f) + Len(t)) :
             (f \o t)[i] = IF i <= Len(f) THEN f[i] ELSE t[i - Len(f)]
    BY <1>1, <1>2, ConcatProperties
  <2>2. Len(f) + Len(t) = Len(r)
    BY <1>1, <1>2
  <2>3. QED
    BY <2>1, <2>2, <1>2
<1>4. ASSUME NEW i \in 1..Len(r) PROVE (f \o t)[i] = r[i]
  <2>1. CASE i = 1
    BY <2>1, <1>1, <1>2, <1>3
  <2>2. CASE i # 1
    <3>1. i - 1 \in 1..Len(t) /\ (i - 1) + 1 = i /\ ~(i <= 1)
      BY <2>2, <1>1
    <3>2. t[i - 1] = r[(i - 1) + 1]
      BY <3>1, <1>1
    <3>3. QED
      BY <3>1, <3>2, <1>3
  <2>3. QED
    BY <2>1, <2>2
<1>5. f \o t = r
  BY <1>3, <1>4, SeqEqual
<1>6. QED
  BY <1>1, <1>2, <1>5, ConcatAssociative, ConcatEmptySeq DEF f, t

-----------------------------------------------------------------------------
(* The order of the lines.                                                 *)

LEMMA DeliveredIsSeq == TypeOK => Delivered \in Seq(Lines)
BY DEF TypeOK, Delivered

\* Every action that writes, takes or queues no line keeps the order.
LEMMA OrderKept ==
  ASSUME InOrder, UNCHANGED <<list, taken, accepted, shown, filed>>,
         failed' = failed
  PROVE  InOrder'
BY DEF InOrder, Delivered

LEMMA OrderStep == TypeOK /\ Hands /\ InOrder /\ Next => InOrder'
<1> SUFFICES ASSUME TypeOK, Hands, InOrder, Next PROVE InOrder'
  OBVIOUS
<1> DEFINE D == Delivered
<1>1. D \in Seq(Lines) /\ taken \in Seq(Lines) /\ list \in Seq(Lines)
      /\ shown \in Seq(Lines) /\ filed \in Seq(Lines)
  BY DeliveredIsSeq, TakenIsSeq DEF TypeOK
<1>2. failed \/ D \o taken \o list = accepted
  BY DEF InOrder
<1> HIDE DEF D
<1>3. CASE Start
  <2>1. CASE failed
    BY <1>3, <2>1 DEF Start, InOrder
  <2>2. CASE ~failed
    <3>1. taken = <<>>
      BY <1>3, <2>2 DEF Start, Hands
    <3>2. QED
      BY <1>3, <3>1, OrderKept DEF Start
  <2>3. QED
    BY <2>1, <2>2
<1>4. CASE \E x \in Lines : Output(x)
  <2>1. PICK x \in Lines : Output(x)
    BY <1>4
  <2>2. D \o taken \in Seq(Lines)
    BY <1>1, ConcatProperties
  <2>3. D \o taken \o Append(list, x) = Append(D \o taken \o list, x)
    BY <1>1, <2>2, AppendLast
  <2>4. list' = Append(list, x) /\ accepted' = Append(accepted, x)
        /\ taken' = taken /\ failed' = failed /\ Delivered' = D
    BY <2>1 DEF Output, Delivered, D
  <2>5. QED
    BY <1>2, <2>3, <2>4 DEF InOrder
<1>5. CASE UninitExit
  BY <1>5, OrderKept DEF UninitExit
<1>6. CASE UninitNotify
  BY <1>6, OrderKept DEF UninitNotify
<1>7. CASE UninitJoin
  BY <1>7, OrderKept DEF UninitJoin
<1>8. CASE WriterRoll
  BY <1>8, OrderKept DEF WriterRoll
<1>9. CASE WriterClose
  BY <1>9, OrderKept DEF WriterClose
<1>10. CASE WriterOpen
  <2>1. CASE failed'
    BY <2>1 DEF InOrder
  <2>2. CASE ~failed'
    BY <1>10, <2>2, OrderKept DEF WriterOpen, Fails, TypeOK
  <2>3. QED
    BY <2>1, <2>2
<1>11. CASE WriterCheck
  <2>1. CASE list = <<>>
    BY <1>11, <2>1, OrderKept DEF WriterCheck
  <2>2. CASE list # <<>>
    <3>1. /\ taken' = <<Head(list)>> /\ list' = Tail(list)
          /\ accepted' = accepted /\ failed' = failed /\ Delivered' = D
          /\ failed \/ taken = <<>>
      BY <1>11, <2>2 DEF WriterCheck, Delivered, D, Hands
    <3>2. (D \o <<Head(list)>>) \o Tail(list) = (D \o <<>>) \o list
      BY <1>1, <2>2, TakeFirst
    <3>3. QED
      BY <1>2, <3>1, <3>2 DEF InOrder
  <2>3. QED
    BY <2>1, <2>2
<1>12. CASE WriterWait
  BY <1>12, OrderKept DEF WriterWait
<1>13. CASE WriterPrint
  <2>1. CASE ToFile
    BY <1>13, <2>1 DEF WriterPrint, InOrder, Delivered
  <2>2. CASE ~ToFile
    <3>1. /\ taken' = <<>> /\ Delivered' = D \o taken
          /\ UNCHANGED <<list, accepted, failed>>
      BY <1>13, <2>2 DEF WriterPrint, Delivered, D
    <3>2. D \o taken \in Seq(Lines)
      BY <1>1, ConcatProperties
    <3>3. (D \o taken) \o <<>> = D \o taken
      BY <3>2, ConcatEmptySeq
    <3>4. QED
      BY <1>2, <3>1, <3>3 DEF InOrder
  <2>3. QED
    BY <2>1, <2>2
<1>14. CASE WriterWrite
  <2>1. CASE failed'
    BY <2>1 DEF InOrder
  <2>2. CASE ~failed'
    <3>1. /\ taken' = <<>> /\ Delivered' = D \o taken
          /\ UNCHANGED <<list, accepted, failed>>
      BY <1>14, <2>2 DEF WriterWrite, Fails, Delivered, D, Hands
    <3>2. D \o taken \in Seq(Lines)
      BY <1>1, ConcatProperties
    <3>3. (D \o taken) \o <<>> = D \o taken
      BY <3>2, ConcatEmptySeq
    <3>4. QED
      BY <1>2, <3>1, <3>3 DEF InOrder
  <2>3. QED
    BY <2>1, <2>2
<1>15. CASE SpuriousWake
  BY <1>15, OrderKept DEF SpuriousWake
<1>16. QED
  BY <1>3, <1>4, <1>5, <1>6, <1>7, <1>8, <1>9, <1>10, <1>11, <1>12, <1>13,
     <1>14, <1>15 DEF Next, Program, WriterStep
-----------------------------------------------------------------------------
(* What the writer owes.                                                   *)

LEMMA HandsStep == TypeOK /\ Hands /\ InOrder /\ Next => Hands'
<1> SUFFICES ASSUME TypeOK, Hands, InOrder, Next PROVE Hands'
  OBVIOUS
<1>1. /\ Len(accepted) \in Nat /\ Len(list) \in Nat /\ due \in Nat
      /\ Len(Delivered) \in Nat
  BY LenProperties, DeliveredIsSeq DEF TypeOK
<1> USE DEF Hands, fileVars
<1>2. CASE Start
  <2>1. CASE failed
    BY <1>2, <2>1 DEF Start
  <2>2. CASE ~failed
    <3>1. taken = <<>>
      BY <1>2, <2>2 DEF Start
    <3>2. Delivered \in Seq(Lines) /\ list \in Seq(Lines)
      BY DeliveredIsSeq DEF TypeOK
    <3>3. Delivered \o <<>> = Delivered
      BY <3>2, ConcatEmptySeq
    <3>4. accepted = Delivered \o list
      BY <2>2, <3>1, <3>3 DEF InOrder
    <3>5. Len(accepted) = Len(Delivered) + Len(list)
      BY <3>2, <3>4, ConcatProperties
    <3>6. due' <= Len(accepted')
      BY <1>1, <1>2, <3>5 DEF Start
    <3>7. QED
      BY <1>2, <3>6 DEF Start
  <2>3. QED
    BY <2>1, <2>2
<1>3. CASE \E x \in Lines : Output(x)
  <2>1. PICK x \in Lines : Output(x)
    BY <1>3
  <2>2. Len(accepted') = Len(accepted) + 1
    BY <2>1, AppendProperties DEF Output, TypeOK
  <2>3. failed' \/ due' <= Len(accepted')
    BY <2>1, <2>2, <1>1 DEF Output
  <2>4. QED
    BY <2>1, <2>3 DEF Output, Notified
<1>4. CASE UninitExit
  BY <1>1, <1>4 DEF UninitExit
<1>5. CASE UninitNotify
  BY <1>5 DEF UninitNotify, Notified
<1>6. CASE UninitJoin
  BY <1>6 DEF UninitJoin
<1>7. CASE WriterRoll
  BY <1>7 DEF WriterRoll
<1>8. CASE WriterClose
  BY <1>8 DEF WriterClose
<1>9. CASE WriterOpen
  BY <1>9 DEF WriterOpen, Fails
<1>10. CASE WriterCheck
  BY <1>10 DEF WriterCheck
<1>11. CASE WriterWait
  BY <1>11 DEF WriterWait
<1>12. CASE WriterPrint
  BY <1>12 DEF WriterPrint
<1>13. CASE WriterWrite
  BY <1>13 DEF WriterWrite, Fails
<1>14. CASE SpuriousWake
  BY <1>14 DEF SpuriousWake
<1>15. QED
  BY <1>2, <1>3, <1>4, <1>5, <1>6, <1>7, <1>8, <1>9, <1>10, <1>11, <1>12,
     <1>13, <1>14 DEF Next, Program, WriterStep

\* The writer returns from WriterCheck, with nothing in its hands or in the
\* queue, or because of the file.
LEMMA DrainedStep == IInv /\ Next => Drained'
<1> SUFFICES ASSUME IInv, Next, wpc' = "gone", ~failed'
             PROVE  Len(Delivered') >= due'
  BY DEF Drained
<1> USE DEF fileVars
<1>1. Len(accepted) \in Nat /\ due \in Nat /\ Delivered \in Seq(Lines)
  BY LenProperties, DeliveredIsSeq DEF IInv, TypeOK
<1>2. CASE wpc = "gone"
  <2>1. ~failed /\ exit
    BY <1>2 DEF IInv, Hands, Next, Program, WriterStep, Start, UninitExit,
       UninitNotify, UninitJoin, Output, WriterRoll, WriterClose, WriterOpen,
       WriterCheck, WriterWait, WriterPrint, WriterWrite, SpuriousWake
  <2>2. Len(Delivered) >= due
    BY <1>2, <2>1 DEF IInv, Drained
  <2>3. Delivered' = Delivered /\ due' = due
    BY <1>2, <2>1 DEF Delivered, Next, Program, WriterStep, Start, UninitExit,
       UninitNotify, UninitJoin, Output, WriterRoll, WriterClose, WriterOpen,
       WriterCheck, WriterWait, WriterPrint, WriterWrite, SpuriousWake
  <2>4. QED
    BY <2>2, <2>3
<1>3. CASE wpc # "gone"
  <2>1. WriterCheck /\ list = <<>> /\ ~failed
    BY <1>3 DEF Next, Program, WriterStep, Start, UninitExit, UninitNotify,
       UninitJoin, Output, Notified, Fails, WriterRoll, WriterClose, WriterOpen,
       WriterCheck, WriterWait, WriterPrint, WriterWrite, SpuriousWake
  <2>2. taken = <<>>
    BY <2>1 DEF WriterCheck, IInv, Hands
  <2>3. Delivered \o <<>> = Delivered
    BY <1>1, ConcatEmptySeq
  <2>4. accepted = Delivered
    BY <2>1, <2>2, <2>3 DEF IInv, InOrder
  <2>5. due <= Len(accepted)
    BY <2>1 DEF IInv, Hands
  <2>6. Delivered' = Delivered /\ due' = due
    BY <2>1 DEF WriterCheck, Delivered
  <2>7. QED
    BY <1>1, <2>4, <2>5, <2>6
<1>4. QED
  BY <1>2, <1>3

LEMMA AwakeStep == TypeOK /\ NoLineAsleep /\ Next => NoLineAsleep'
BY DEF TypeOK, NoLineAsleep, Next, Program, WriterStep, Start, UninitExit,
       UninitNotify, UninitJoin, Output, MutexFree, Notified, Fails, WriterRoll,
       WriterClose, WriterOpen, WriterCheck, WriterWait, WriterPrint, WriterWrite,
       SpuriousWake

LEMMA NextIInv == IInv /\ [Next]_vars => IInv'
<1> SUFFICES ASSUME IInv, [Next]_vars PROVE IInv'
  OBVIOUS
<1>1. CASE Next
  <2>1. TypeOK'
    BY <1>1, TypeProgram, TypeWriter DEF IInv, Next
  <2>2. QED
    BY <1>1, <2>1, HandsStep, OrderStep, DrainedStep, AwakeStep DEF IInv
<1>2. CASE UNCHANGED vars
  <2>1. UNCHANGED <<list, exit, h, written, wpc, taken, upc, starts, files, open,
                    accepted, shown, filed, due, failed, fpc, onRecord>>
    BY <1>2 DEF vars
  <2>2. TypeOK'
    BY <2>1 DEF IInv, TypeOK
  <2>3. Hands'
    BY <2>1 DEF IInv, Hands
  <2>4. InOrder' /\ Drained' /\ NoLineAsleep'
    BY <2>1 DEF IInv, InOrder, Drained, NoLineAsleep, Delivered
  <2>5. QED
    BY <2>2, <2>3, <2>4 DEF IInv
<1>3. QED
  BY <1>1, <1>2

-----------------------------------------------------------------------------
(* The theorems.                                                           *)

\* The strengthened invariant: the types and the file's handle, what the writer
\* holds and owes, and the order of the lines.
THEOREM Invariance == Spec => []IInv
BY InitIInv, NextIInv, PTL DEF Spec

\* The variables keep their types, and the writer never writes without a file.
THEOREM TypeCorrect == Spec => []TypeOK
<1>1. IInv => TypeOK
  BY DEF IInv
<1>2. QED
  BY <1>1, Invariance, PTL

\* No line is lost, written twice or overtaken, unless the file fails.
THEOREM KeepsOrder == Spec => []InOrder
<1>1. IInv => InOrder
  BY DEF IInv
<1>2. QED
  BY <1>1, Invariance, PTL

\* A writer that returns has written what was queued before m_Exit was set.
THEOREM Drains == Spec => []Drained
<1>1. IInv => Drained
  BY DEF IInv
<1>2. QED
  BY <1>1, Invariance, PTL

\* No line is queued while the writer sleeps, or is about to.
THEOREM NeverAsleep == Spec => []NoLineAsleep
<1>1. IInv => NoLineAsleep
  BY DEF IInv
<1>2. QED
  BY <1>1, Invariance, PTL

-----------------------------------------------------------------------------
(* With FATAL lines.  The file, its handle and its failures are anybody's; *)
(* what is printed depends on the lines and on the writer alone.           *)

\* The sequences hold lines, and init finds no writer that is about to print.
PrintTypes ==
  /\ list \in Seq(Lines) /\ accepted \in Seq(Lines) /\ shown \in Seq(Lines)
  /\ taken \in Seq(Lines)
  /\ upc = "done" => wpc = "gone"

PrintInv == PrintTypes /\ PrintedInOrder

LEMMA InitPrintInv == Init => PrintInv
<1> SUFFICES ASSUME Init PROVE PrintInv
  OBVIOUS
<1>1. <<>> \in Seq(Lines) /\ <<>> \o <<>> \o <<>> = <<>>
  BY EmptySeq, ConcatEmptySeq
<1>2. PrintTypes
  BY <1>1 DEF Init, PrintTypes
<1>3. PrintedInOrder
  BY <1>1 DEF Init, PrintedInOrder
<1>4. QED
  BY <1>2, <1>3 DEF PrintInv

\* An action that leaves the lines alone, and before and after which the writer is not
\* about to print, keeps what is printed in order.
LEMMA PrintKept ==
  ASSUME PrintInv, UNCHANGED <<list, accepted, shown>>,
         taken' = taken \/ taken' = <<>>,
         (wpc = "print") = FALSE, (wpc' = "print") = FALSE,
         upc' = "done" => wpc' = "gone"
  PROVE  PrintInv'
BY EmptySeq DEF PrintInv, PrintTypes, PrintedInOrder

\* So does one that does not concern the writer's hands at all.
LEMMA PrintAside ==
  ASSUME PrintInv, UNCHANGED <<list, accepted, shown, taken, wpc>>,
         upc' = "done" => wpc' = "gone"
  PROVE  PrintInv'
BY DEF PrintInv, PrintTypes, PrintedInOrder

\* A line that is queued goes behind the others.
LEMMA PrintOutput == PrintInv /\ (\E x \in Lines : Output(x)) => PrintInv'
<1> SUFFICES ASSUME PrintInv, NEW x \in Lines, Output(x) PROVE PrintInv'
  OBVIOUS
<1> DEFINE held == IF wpc = "print" THEN taken ELSE <<>>
<1>1. held \in Seq(Lines) /\ shown \in Seq(Lines) /\ list \in Seq(Lines)
  BY EmptySeq DEF PrintInv, PrintTypes
<1>2. shown \o held \in Seq(Lines)
  BY <1>1, ConcatProperties
<1> HIDE DEF held
<1>3. (shown \o held) \o Append(list, x) = Append((shown \o held) \o list, x)
  BY <1>1, <1>2, AppendLast
<1>4. held' = held
  BY DEF Output, Notified, held
<1>5. PrintedInOrder'
  BY <1>3, <1>4 DEF Output, PrintInv, PrintedInOrder, held
<1>6. PrintTypes'
  BY AppendProperties DEF Output, Notified, PrintInv, PrintTypes
<1>7. QED
  BY <1>5, <1>6 DEF PrintInv

\* A line that is taken stays in front of the others.
LEMMA PrintCheck == PrintInv /\ WriterCheck => PrintInv'
<1> SUFFICES ASSUME PrintInv, WriterCheck PROVE PrintInv'
  OBVIOUS
<1>1. CASE list = <<>>
  <2>1. UNCHANGED <<list, accepted, shown, taken, upc>> /\ wpc = "check" /\ wpc' # "print"
    BY <1>1 DEF WriterCheck
  <2>2. QED
    BY <2>1 DEF PrintInv, PrintTypes, PrintedInOrder
<1>2. CASE list # <<>>
  <2>1. /\ taken' = <<Head(list)>> /\ list' = Tail(list)
        /\ wpc = "check" /\ wpc' = "print" /\ UNCHANGED <<accepted, shown, upc>>
    BY <1>2 DEF WriterCheck
  <2>2. (shown \o <<Head(list)>>) \o Tail(list) = (shown \o <<>>) \o list
    BY <1>2, TakeFirst DEF PrintInv, PrintTypes
  <2>3. PrintedInOrder'
    BY <2>1, <2>2 DEF PrintInv, PrintedInOrder
  <2>4. Head(list) \in Lines /\ Tail(list) \in Seq(Lines)
    BY <1>2, HeadTailProperties DEF PrintInv, PrintTypes
  <2>5. PrintTypes'
    BY <2>1, <2>4 DEF PrintInv, PrintTypes
  <2>6. QED
    BY <2>3, <2>5 DEF PrintInv
<1>3. QED
  BY <1>1, <1>2

\* A line that is printed goes behind those printed before.
LEMMA PrintPrint == PrintInv /\ WriterPrint => PrintInv'
<1> SUFFICES ASSUME PrintInv, WriterPrint PROVE PrintInv'
  OBVIOUS
<1>1. /\ shown' = shown \o taken /\ wpc = "print" /\ wpc' # "print"
      /\ taken' = taken \/ taken' = <<>>
      /\ UNCHANGED <<list, accepted, upc>>
  BY DEF WriterPrint
<1>2. shown \o taken \in Seq(Lines)
  BY ConcatProperties DEF PrintInv, PrintTypes
<1>3. (shown \o taken) \o <<>> = shown \o taken
  BY <1>2, ConcatEmptySeq
<1>4. PrintedInOrder'
  BY <1>1, <1>3 DEF PrintInv, PrintedInOrder
<1>5. PrintTypes'
  BY <1>1, <1>2, EmptySeq DEF PrintInv, PrintTypes
<1>6. QED
  BY <1>4, <1>5 DEF PrintInv

\* One step per action.
LEMMA NextPrintInv == PrintInv /\ [NextFatal]_vars => PrintInv'
<1> SUFFICES ASSUME PrintInv, [NextFatal]_vars PROVE PrintInv'
  OBVIOUS
<1> USE DEF fileVars, fatalVars, othersUnchanged
<1>1. upc = "done" => wpc = "gone"
  BY DEF PrintInv, PrintTypes
<1>2. CASE Start
  BY <1>1, <1>2, PrintKept DEF Start
<1>3. CASE UninitExit
  BY <1>1, <1>3, PrintAside DEF UninitExit
<1>4. CASE UninitNotify
  <2>1. CASE wpc = "asleep"
    BY <1>4, <2>1, PrintKept DEF UninitNotify, Notified
  <2>2. CASE wpc # "asleep"
    BY <1>4, <2>2, PrintAside DEF UninitNotify, Notified
  <2>3. QED
    BY <2>1, <2>2
<1>5. CASE UninitJoin
  BY <1>5, PrintAside DEF UninitJoin
<1>6. CASE \E x \in Lines : Output(x)
  BY <1>6, PrintOutput
<1>7. CASE WriterRoll
  BY <1>1, <1>7, PrintKept DEF WriterRoll
<1>8. CASE WriterClose
  BY <1>1, <1>8, PrintKept DEF WriterClose
<1>9. CASE WriterOpen
  BY <1>1, <1>9, PrintKept DEF WriterOpen, Fails
<1>10. CASE WriterCheck
  BY <1>10, PrintCheck
<1>11. CASE WriterWait
  BY <1>1, <1>11, PrintKept DEF WriterWait
<1>12. CASE WriterPrint
  BY <1>12, PrintPrint
<1>13. CASE WriterWrite
  BY <1>1, <1>13, PrintKept DEF WriterWrite, Fails
<1>14. CASE SpuriousWake
  BY <1>1, <1>14, PrintKept DEF SpuriousWake
<1>15. CASE WriterWriteClosed
  BY <1>1, <1>15, PrintKept DEF WriterWriteClosed
<1>16. CASE DoubleClose
  BY <1>1, <1>16, PrintAside DEF DoubleClose
<1>17. CASE Fatal
  <2>1. UNCHANGED <<list, accepted, shown, taken, wpc, upc>>
    BY <1>17 DEF Fatal, FatalBegin, FatalClose, FatalOpen, FatalWrite, Crash
  <2>2. QED
    BY <1>1, <2>1, PrintAside
<1>18. CASE UNCHANGED vars
  BY <1>1, <1>18, PrintAside DEF vars
<1>19. QED
  BY <1>2, <1>3, <1>4, <1>5, <1>6, <1>7, <1>8, <1>9, <1>10, <1>11, <1>12, <1>13, <1>14,
     <1>15, <1>16, <1>17, <1>18 DEF NextFatal, Next, Program, WriterStep

\* What is printed is the queued lines in their order, whatever a FATAL line, the
\* failures of the file and a second init do.
THEOREM PrintsInOrder == FatalSpec => []PrintedInOrder
<1>1. PrintInv => PrintedInOrder
  BY DEF PrintInv
<1>2. QED
  BY <1>1, InitPrintInv, NextPrintInv, PTL DEF FatalSpec
=============================================================================
