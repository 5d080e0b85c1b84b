-------------------------- MODULE KaCachePoolProofs --------------------------
(***************************************************************************)
(* Proofs about KaCachePool, for any set of threads, any finite set of     *)
(* connections and any configured maximum: IInv is inductive, the safety   *)
(* properties follow from it, and the pool implements ConnectionPool.      *)
(***************************************************************************)
EXTENDS KaCachePool, SequenceTheorems, FiniteSetTheorems, TLAPS

-----------------------------------------------------------------------------
(* Lists without duplicates.                                               *)

\* Popping the front of a list removes that element and no other.
LEMMA PopFront ==
  ASSUME NEW S, NEW s \in Seq(S), s # <<>>, Distinct(s)
  PROVE  /\ Tail(s) \in Seq(S)
         /\ Head(s) \in Elems(s)
         /\ Elems(Tail(s)) = Elems(s) \ {Head(s)}
         /\ Distinct(Tail(s))
<1>1. /\ Tail(s) \in Seq(S)
      /\ Len(Tail(s)) = Len(s) - 1
      /\ \A i \in 1..Len(Tail(s)) : Tail(s)[i] = s[i+1]
  BY HeadTailProperties
<1>2. Len(s) \in Nat \ {0} /\ Head(s) = s[1]
  BY EmptySeq, LenProperties
<1>3. Head(s) \in Elems(s)
  BY <1>2 DEF Elems
<1>4. Distinct(Tail(s))
  BY <1>1, <1>2 DEF Distinct
<1>5. ASSUME NEW x \in Elems(Tail(s))
      PROVE  x \in Elems(s) \ {Head(s)}
  BY <1>1, <1>2 DEF Elems, Distinct
<1>6. ASSUME NEW x \in Elems(s) \ {Head(s)}
      PROVE  x \in Elems(Tail(s))
  <2>1. PICK i \in 1..Len(s) : x = s[i]
    BY DEF Elems
  <2>2. i # 1
    BY <2>1, <1>2
  <2>3. i - 1 \in 1..Len(Tail(s)) /\ Tail(s)[i-1] = x
    BY <2>1, <2>2, <1>1, <1>2
  <2>4. QED
    BY <2>3 DEF Elems
<1>7. QED
  BY <1>1, <1>3, <1>4, <1>5, <1>6

\* Pushing an element that is not in the list adds it and no other.
LEMMA PushBack ==
  ASSUME NEW S, NEW s \in Seq(S), NEW e \in S, e \notin Elems(s), Distinct(s)
  PROVE  /\ Append(s, e) \in Seq(S)
         /\ Elems(Append(s, e)) = Elems(s) \cup {e}
         /\ Distinct(Append(s, e))
<1> DEFINE a == Append(s, e)
<1>1. /\ a \in Seq(S)
      /\ Len(a) = Len(s) + 1
      /\ \A i \in 1..Len(s) : a[i] = s[i]
      /\ a[Len(s)+1] = e
  BY AppendProperties
<1>2. Len(s) \in Nat
  BY LenProperties
<1> HIDE DEF a
<1>3. \A i \in 1..Len(a) : i \in 1..Len(s) \/ i = Len(s) + 1
  BY <1>1, <1>2
<1>4. Elems(a) = Elems(s) \cup {e}
  <2>1. ASSUME NEW x \in Elems(a) PROVE x \in Elems(s) \cup {e}
    BY <1>1, <1>3 DEF Elems
  <2>2. ASSUME NEW x \in Elems(s) PROVE x \in Elems(a)
    <3>1. PICK i \in 1..Len(s) : x = s[i]
      BY DEF Elems
    <3>2. i \in 1..Len(a) /\ a[i] = x
      BY <3>1, <1>1, <1>2
    <3>3. QED
      BY <3>2 DEF Elems
  <2>3. e \in Elems(a)
    <3>1. Len(s) + 1 \in 1..Len(a)
      BY <1>1, <1>2
    <3>2. QED
      BY <3>1, <1>1 DEF Elems
  <2>4. QED
    BY <2>1, <2>2, <2>3
<1>5. Distinct(a)
  <2>1. ASSUME NEW i \in 1..Len(a), NEW j \in 1..Len(a), a[i] = a[j]
        PROVE  i = j
    <3>1. CASE i \in 1..Len(s) /\ j \in 1..Len(s)
      BY <3>1, <2>1, <1>1 DEF Distinct
    <3>2. CASE i \in 1..Len(s) /\ j = Len(s) + 1
      BY <3>2, <2>1, <1>1 DEF Elems
    <3>3. CASE i = Len(s) + 1 /\ j \in 1..Len(s)
      BY <3>3, <2>1, <1>1 DEF Elems
    <3>4. QED
      BY <3>1, <3>2, <3>3, <1>3
  <2>2. QED
    BY <2>1 DEF Distinct
<1>6. QED
  BY <1>1, <1>4, <1>5 DEF a

\* The empty list has no elements, and a list without elements is empty.
LEMMA EmptyList ==
  ASSUME NEW S, NEW s \in Seq(S)
  PROVE  /\ Elems(<<>>) = {}
         /\ Distinct(<<>>)
         /\ Elems(s) = {} <=> s = <<>>
<1>1. Elems(<<>>) = {} /\ Distinct(<<>>)
  BY DEF Elems, Distinct
<1>2. ASSUME s # <<>> PROVE Elems(s) # {}
  <2>1. Len(s) \in Nat \ {0}
    BY <1>2, EmptySeq
  <2>2. s[1] \in Elems(s)
    BY <2>1 DEF Elems
  <2>3. QED
    BY <2>2
<1>3. QED
  BY <1>1, <1>2

-----------------------------------------------------------------------------
(* The inductive invariant.                                                *)

\* The constructor and Init() leave two idle connections and a count of two.
LEMMA InitIInv == Init => IInv
<1> SUFFICES ASSUME Init PROVE IInv
  OBVIOUS
<1> USE ConstantsAssumption
<1>1. PICK c, d \in Conns : c # d /\ m_free_list = <<c, d>>
  BY DEF Init
<1>2. open = {c, d} /\ Distinct(m_free_list)
  BY <1>1 DEF Init, Elems, Distinct
<1>3. m_free_list \in Seq(Conns) /\ open \in SUBSET Conns
  BY <1>1, <1>2
<1>4. Cardinality(open) = 2
  <2>1. IsFiniteSet({c}) /\ Cardinality({c}) = 1
    BY FS_Singleton
  <2>2. open = {c} \cup {d}
    BY <1>2
  <2>3. d \notin {c}
    BY <1>1
  <2>4. Cardinality({c} \cup {d}) = Cardinality({c}) + 1
    BY <2>1, <2>3, FS_AddElement
  <2>5. QED
    BY <2>1, <2>2, <2>4
<1>5. TypeOK
  BY <1>3 DEF Init, TypeOK, MIN_CACHE_CONN_CNT
<1>6. PoolSafe
  BY <1>2 DEF Init, PoolSafe, NoDuplicates, Exclusive, NoneLost
<1>7. WithinLimit
  BY <1>4 DEF Init, WithinLimit, Limit, MIN_CACHE_CONN_CNT
<1>8. NoLostWakeup /\ ConnectAlone
  BY DEF Init, NoLostWakeup, ConnectAlone
<1>9. QED
  BY <1>5, <1>6, <1>7, <1>8 DEF IInv

\* getCacheConn pops the front of the list.
LEMMA TakeFrontIInv ==
  ASSUME IInv, NEW t \in Threads, TakeFront(t)
  PROVE  IInv'
<1> USE DEF IInv, InLoop
<1>1. m_free_list \in Seq(Conns) /\ m_free_list # <<>> /\ Distinct(m_free_list)
  BY DEF TypeOK, TakeFront, PoolSafe, NoDuplicates
<1>2. /\ m_free_list' \in Seq(Conns)
      /\ Head(m_free_list) \in Elems(m_free_list)
      /\ Elems(m_free_list') = Elems(m_free_list) \ {Head(m_free_list)}
      /\ Distinct(m_free_list')
  BY <1>1, PopFront DEF TakeFront
<1>3. Head(m_free_list) \in Conns
  BY <1>1, HeadTailProperties
<1>4. /\ held' \in [Threads -> SUBSET Conns]
      /\ held'[t] = held[t] \cup {Head(m_free_list)}
      /\ \A u \in Threads \ {t} : held'[u] = held[u]
  BY <1>3 DEF TypeOK, TakeFront
<1>5. TypeOK'
  BY <1>2, <1>4 DEF TypeOK, TakeFront
<1>6. PoolSafe'
  <2>1. Exclusive'
    BY <1>2, <1>4 DEF PoolSafe, Exclusive
  <2>2. NoneLost'
    BY <1>2, <1>4 DEF PoolSafe, NoneLost, TakeFront
  <2>3. QED
    BY <1>2, <2>1, <2>2 DEF PoolSafe, NoDuplicates
<1>7. WithinLimit'
  BY DEF WithinLimit, TakeFront
<1>8. NoLostWakeup' /\ ConnectAlone'
  <2>1. \A u \in Threads : pc'[u] = pc[u] \/ pc'[u] = "idle"
    BY DEF TakeFront, TypeOK
  <2>2. \A u \in Threads : pc[u] \notin {"waiting", "connecting"}
    BY DEF TakeFront, NoLostWakeup, ConnectAlone
  <2>3. QED
    BY <2>1, <2>2 DEF NoLostWakeup, ConnectAlone
<1>9. QED
  BY <1>5, <1>6, <1>7, <1>8

\* A connection attempt succeeds: the new connection is the caller's.
LEMMA ConnectOkIInv ==
  ASSUME IInv, NEW t \in Threads, ConnectOk(t)
  PROVE  IInv'
<1> USE DEF IInv
<1>1. mutex = t /\ m_free_list = <<>> /\ m_cur_conn_cnt < MaxConn
  BY DEF ConnectOk, ConnectAlone
<1>2. PICK c \in Conns \ open :
        /\ open' = open \cup {c}
        /\ held' = [held EXCEPT ![t] = @ \cup {Head(Append(m_free_list, c))}]
        /\ m_free_list' = Tail(Append(m_free_list, c))
  BY DEF ConnectOk
<1>3. m_free_list' = <<>> /\ Head(Append(m_free_list, c)) = c
  BY <1>1, <1>2, HeadTailAppend DEF TypeOK
<1>4. /\ held' \in [Threads -> SUBSET Conns]
      /\ held'[t] = held[t] \cup {c}
      /\ \A u \in Threads \ {t} : held'[u] = held[u]
  BY <1>2, <1>3 DEF TypeOK
<1>5. Elems(m_free_list') = {} /\ Distinct(m_free_list') /\ Elems(m_free_list) = {}
  BY <1>1, <1>3, EmptyList DEF TypeOK
<1>6. TypeOK'
  BY <1>2, <1>3, <1>4, EmptySeq DEF TypeOK, ConnectOk
<1>7. PoolSafe'
  <2>1. \A u \in Threads : c \notin held[u]
    BY <1>2 DEF PoolSafe, NoneLost
  <2>2. Exclusive'
    BY <2>1, <1>4, <1>5 DEF PoolSafe, Exclusive
  <2>3. NoneLost'
    BY <1>2, <1>4, <1>5 DEF PoolSafe, NoneLost
  <2>4. QED
    BY <1>5, <2>2, <2>3 DEF PoolSafe, NoDuplicates
<1>8. WithinLimit'
  <2>1. IsFiniteSet(open)
    BY ConstantsAssumption, FS_Subset DEF TypeOK
  <2>2. Cardinality(open') = Cardinality(open) + 1
    BY <2>1, <1>2, FS_AddElement
  <2>3. m_cur_conn_cnt' = m_cur_conn_cnt + 1 /\ m_cur_conn_cnt \in Nat
    BY DEF ConnectOk, TypeOK
  <2>4. m_cur_conn_cnt' <= Limit
    BY <2>3, <1>1, ConstantsAssumption DEF Limit, MIN_CACHE_CONN_CNT
  <2>5. QED
    BY <2>2, <2>3, <2>4 DEF WithinLimit, Limit, MIN_CACHE_CONN_CNT
<1>9. NoLostWakeup' /\ ConnectAlone'
  <2>1. /\ pc'[t] = "idle"
        /\ \A u \in Threads \ {t} : pc'[u] = pc[u]
    BY DEF ConnectOk, TypeOK
  <2>2. \A u \in Threads \ {t} : pc[u] # "connecting"
    BY <1>1 DEF ConnectAlone
  <2>3. \A u \in Threads : pc[u] # "waiting"
    BY <1>1, ConstantsAssumption DEF NoLostWakeup, TypeOK
  <2>4. QED
    BY <2>1, <2>2, <2>3 DEF NoLostWakeup, ConnectAlone
<1>10. QED
  BY <1>6, <1>7, <1>8, <1>9

\* A connection comes back, and everybody who sleeps is woken.
LEMMA RelCacheConnIInv ==
  ASSUME IInv, NEW t \in Threads, NEW c \in Conns, RelCacheConn(t, c)
  PROVE  IInv'
<1> USE DEF IInv
<1>1. m_free_list \in Seq(Conns) /\ Distinct(m_free_list)
  BY DEF TypeOK, PoolSafe, NoDuplicates
<1>2. /\ m_free_list' \in Seq(Conns)
      /\ Elems(m_free_list') = Elems(m_free_list) \cup {c}
      /\ Distinct(m_free_list')
  <2>1. CASE c \in Elems(m_free_list)
    BY <2>1, <1>1 DEF RelCacheConn
  <2>2. CASE c \notin Elems(m_free_list)
    BY <2>2, <1>1, PushBack DEF RelCacheConn
  <2>3. QED
    BY <2>1, <2>2
<1>3. /\ held' \in [Threads -> SUBSET Conns]
      /\ held'[t] = held[t] \ {c}
      /\ \A u \in Threads \ {t} : held'[u] = held[u]
  BY DEF TypeOK, RelCacheConn
<1>4. c \in held[t] \cup Elems(m_free_list)
  BY DEF RelCacheConn
<1>5. /\ pc' \in [Threads -> {"idle", "get", "connecting", "waiting"}]
      /\ \A u \in Threads : pc'[u] = IF pc[u] = "waiting" THEN "get" ELSE pc[u]
  BY DEF TypeOK, RelCacheConn, NotifyAll
<1>6. TypeOK'
  BY <1>2, <1>3, <1>5 DEF TypeOK, RelCacheConn
<1>7. PoolSafe'
  <2>1. \A u \in Threads \ {t} : c \notin held[u]
    BY <1>4 DEF PoolSafe, Exclusive
  <2>2. Exclusive'
    BY <2>1, <1>2, <1>3 DEF PoolSafe, Exclusive
  <2>3. NoneLost'
    BY <1>2, <1>3, <1>4 DEF PoolSafe, NoneLost, RelCacheConn
  <2>4. QED
    BY <1>2, <2>2, <2>3 DEF PoolSafe, NoDuplicates
<1>8. WithinLimit'
  BY DEF WithinLimit, RelCacheConn
<1>9. NoLostWakeup'
  BY <1>5 DEF NoLostWakeup
<1>10. ConnectAlone'
  <2>1. \A u \in Threads : pc[u] # "connecting"
    BY ConstantsAssumption DEF RelCacheConn, ConnectAlone
  <2>2. QED
    BY <2>1, <1>5 DEF ConnectAlone
<1>11. QED
  BY <1>6, <1>7, <1>8, <1>9, <1>10

\* Steps that only move threads around: the list, the counter and who holds
\* what do not change.
LEMMA ControlIInv ==
  ASSUME IInv, NEW t \in Threads,
         \/ CallGet(t) \/ Wait(t) \/ SpuriousWakeup(t)
         \/ StartConnect(t) \/ ConnectFail(t)
  PROVE  IInv'
<1> USE DEF IInv
<1>1. UNCHANGED <<m_free_list, m_cur_conn_cnt, held, open>>
  BY DEF CallGet, Wait, SpuriousWakeup, StartConnect, ConnectFail
<1>2. PoolSafe' /\ WithinLimit'
  BY <1>1 DEF PoolSafe, NoDuplicates, Exclusive, NoneLost, WithinLimit
<1>3. TypeOK'
  BY DEF TypeOK, CallGet, Wait, SpuriousWakeup, StartConnect, ConnectFail
<1>4. \A u \in Threads \ {t} : pc'[u] = pc[u]
  BY DEF TypeOK, CallGet, Wait, SpuriousWakeup, StartConnect, ConnectFail
<1>5. NoLostWakeup'
  <2>1. pc'[t] = "waiting" => m_free_list = <<>> /\ m_cur_conn_cnt >= MaxConn
    BY DEF TypeOK, CallGet, Wait, SpuriousWakeup, StartConnect, ConnectFail
  <2>2. QED
    BY <2>1, <1>1, <1>4 DEF NoLostWakeup
<1>6. ConnectAlone'
  <2>1. CASE CallGet(t) \/ Wait(t) \/ SpuriousWakeup(t)
    <3>1. mutex' = mutex /\ pc'[t] # "connecting"
      BY <2>1 DEF TypeOK, CallGet, Wait, SpuriousWakeup
    <3>2. QED
      BY <3>1, <1>1, <1>4 DEF ConnectAlone
  <2>2. CASE StartConnect(t)
    <3>1. \A u \in Threads : pc[u] # "connecting"
      BY <2>2, ConstantsAssumption DEF StartConnect, InLoop, ConnectAlone
    <3>2. mutex' = t /\ m_free_list = <<>> /\ m_cur_conn_cnt < MaxConn
      BY <2>2 DEF StartConnect
    <3>3. QED
      BY <3>1, <3>2, <1>1, <1>4 DEF ConnectAlone
  <2>3. CASE ConnectFail(t)
    <3>1. \A u \in Threads \ {t} : pc[u] # "connecting"
      BY <2>3 DEF ConnectFail, ConnectAlone
    <3>2. pc'[t] = "idle"
      BY <2>3 DEF ConnectFail, TypeOK
    <3>3. QED
      BY <3>1, <3>2, <1>4 DEF ConnectAlone
  <2>4. QED
    BY <2>1, <2>2, <2>3
<1>7. QED
  BY <1>2, <1>3, <1>5, <1>6

LEMMA NextIInv == IInv /\ [Next]_vars => IInv'
<1> SUFFICES ASSUME IInv, [Next]_vars PROVE IInv'
  OBVIOUS
<1>1. CASE UNCHANGED vars
  BY <1>1 DEF vars, IInv, TypeOK, PoolSafe, NoDuplicates, Exclusive, NoneLost,
              WithinLimit, NoLostWakeup, ConnectAlone
<1>2. ASSUME NEW t \in Threads,
             \/ CallGet(t) \/ Wait(t) \/ SpuriousWakeup(t)
             \/ StartConnect(t) \/ ConnectFail(t)
      PROVE  IInv'
  BY <1>2, ControlIInv
<1>3. ASSUME NEW t \in Threads, TakeFront(t) PROVE IInv'
  BY <1>3, TakeFrontIInv
<1>4. ASSUME NEW t \in Threads, ConnectOk(t) PROVE IInv'
  BY <1>4, ConnectOkIInv
<1>5. ASSUME NEW t \in Threads, NEW c \in Conns, RelCacheConn(t, c) PROVE IInv'
  BY <1>5, RelCacheConnIInv
<1>6. QED
  BY <1>1, <1>2, <1>3, <1>4, <1>5 DEF Next

THEOREM Invariance == Spec => []IInv
BY InitIInv, NextIInv, PTL DEF Spec

\* m_free_list, m_cur_conn_cnt and the others keep their types.
THEOREM TypeCorrect == Spec => []TypeOK
<1>1. IInv => TypeOK
  BY DEF IInv
<1>2. QED
  BY <1>1, Invariance, PTL

\* No connection is in two places: the list has no duplicates, nothing is lent
\* to two threads or lent and idle; and no connection is lost.
THEOREM Safety == Spec => []PoolSafe
<1>1. IInv => PoolSafe
  BY DEF IInv
<1>2. QED
  BY <1>1, Invariance, PTL

\* m_cur_conn_cnt is the number of open connections, and bounded.
THEOREM Bounded == Spec => []WithinLimit
<1>1. IInv => WithinLimit
  BY DEF IInv
<1>2. QED
  BY <1>1, Invariance, PTL

\* No thread sleeps while the pool has something for it.
THEOREM NoWakeupLost == Spec => []NoLostWakeup
<1>1. IInv => NoLostWakeup
  BY DEF IInv
<1>2. QED
  BY <1>1, Invariance, PTL

-----------------------------------------------------------------------------
(* The pool implements the abstract specification.                         *)

\* The instance's cardinality is ours.
LEMMA SameCardinality ==
  ASSUME NEW S
  PROVE  /\ Pool!IsFiniteSet(S) <=> IsFiniteSet(S)
         /\ Pool!Cardinality(S) = Cardinality(S)
BY DEF Pool!IsFiniteSet, IsFiniteSet, Pool!Cardinality, Cardinality

\* What the abstract pool calls idle is what m_free_list holds.
LEMMA IdleIsFreeList == IInv => Pool!Idle = Elems(m_free_list)
BY DEF IInv, PoolSafe, Exclusive, NoneLost, Pool!Idle

LEMMA InitRefines == Init => Pool!Init
<1> SUFFICES ASSUME Init PROVE Pool!Init
  OBVIOUS
<1>1. TypeOK /\ WithinLimit
  BY InitIInv DEF IInv
<1>2. IsFiniteSet(open)
  BY <1>1, ConstantsAssumption, FS_Subset DEF TypeOK
<1>3. Cardinality(open) = MIN_CACHE_CONN_CNT
  BY <1>1 DEF WithinLimit, Init
<1>4. QED
  BY <1>1, <1>2, <1>3, SameCardinality DEF Pool!Init, Init, TypeOK

\* Popping the front lends an idle connection.
LEMMA TakeFrontRefines ==
  ASSUME IInv, NEW t \in Threads, TakeFront(t)
  PROVE  Pool!Next
<1>1. m_free_list \in Seq(Conns) /\ m_free_list # <<>> /\ Distinct(m_free_list)
  BY DEF IInv, TypeOK, TakeFront, PoolSafe, NoDuplicates
<1>2. Head(m_free_list) \in Conns /\ Head(m_free_list) \in Elems(m_free_list)
  BY <1>1, HeadTailProperties, PopFront
<1>3. Pool!Acquire(t, Head(m_free_list))
  BY <1>2, IdleIsFreeList DEF TakeFront, Pool!Acquire
<1>4. QED
  BY <1>2, <1>3 DEF Pool!Next

\* A successful attempt grows the pool, which had nothing idle and room.
LEMMA ConnectOkRefines ==
  ASSUME IInv, NEW t \in Threads, ConnectOk(t)
  PROVE  Pool!Next
<1>1. m_free_list = <<>> /\ m_cur_conn_cnt < MaxConn
  BY DEF ConnectOk, ConnectAlone, IInv
<1>2. PICK c \in Conns \ open :
        /\ open' = open \cup {c}
        /\ held' = [held EXCEPT ![t] = @ \cup {Head(Append(m_free_list, c))}]
  BY DEF ConnectOk
<1>3. Head(Append(m_free_list, c)) = c
  BY <1>1, HeadTailAppend DEF IInv, TypeOK
<1>4. Pool!Idle = {}
  BY <1>1, IdleIsFreeList, EmptyList DEF IInv, TypeOK
<1>5. Cardinality(open) < Limit
  BY <1>1, ConstantsAssumption
     DEF IInv, TypeOK, WithinLimit, Limit, MIN_CACHE_CONN_CNT
<1>6. Pool!OpenAndAcquire(t, c)
  BY <1>2, <1>3, <1>4, <1>5, SameCardinality DEF Pool!OpenAndAcquire
<1>7. QED
  BY <1>6 DEF Pool!Next

\* RelCacheConn takes back a connection from its borrower, or does nothing to
\* the pool when the connection was idle already.
LEMMA RelCacheConnRefines ==
  ASSUME IInv, NEW t \in Threads, NEW c \in Conns, RelCacheConn(t, c)
  PROVE  Pool!Next \/ UNCHANGED Pool!vars
<1>1. CASE c \in held[t]
  BY <1>1 DEF RelCacheConn, Pool!Release, Pool!Next
<1>2. CASE c \notin held[t]
  <2>1. held' = held /\ open' = open
    BY <1>2 DEF RelCacheConn, IInv, TypeOK
  <2>2. QED
    BY <2>1 DEF Pool!vars
<1>3. QED
  BY <1>1, <1>2

LEMMA NextRefines == IInv /\ [Next]_vars => [Pool!Next]_(Pool!vars)
<1> SUFFICES ASSUME IInv, [Next]_vars PROVE Pool!Next \/ UNCHANGED Pool!vars
  OBVIOUS
<1>1. CASE UNCHANGED vars
  BY <1>1 DEF vars, Pool!vars
<1>2. ASSUME NEW t \in Threads,
             \/ CallGet(t) \/ Wait(t) \/ SpuriousWakeup(t)
             \/ StartConnect(t) \/ ConnectFail(t)
      PROVE  UNCHANGED Pool!vars
  BY <1>2 DEF CallGet, Wait, SpuriousWakeup, StartConnect, ConnectFail, Pool!vars
<1>3. ASSUME NEW t \in Threads, TakeFront(t) PROVE Pool!Next
  BY <1>3, TakeFrontRefines
<1>4. ASSUME NEW t \in Threads, ConnectOk(t) PROVE Pool!Next
  BY <1>4, ConnectOkRefines
<1>5. ASSUME NEW t \in Threads, NEW c \in Conns, RelCacheConn(t, c)
      PROVE  Pool!Next \/ UNCHANGED Pool!vars
  BY <1>5, RelCacheConnRefines
<1>6. QED
  BY <1>1, <1>2, <1>3, <1>4, <1>5 DEF Next

\* Every behaviour of the pool is one of the abstract pool: a connection is
\* lent to one thread at a time, returned only by its borrower, and the pool
\* grows only when nothing is idle.
THEOREM Implements == Spec => PoolSpec
<1>1. Init => Pool!Init
  BY InitRefines
<1>2. IInv /\ [Next]_vars => [Pool!Next]_(Pool!vars)
  BY NextRefines
<1>3. QED
  BY <1>1, <1>2, Invariance, PTL DEF Spec, PoolSpec, Pool!Spec
=============================================================================
