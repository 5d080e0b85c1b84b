-------------------------- MODULE DataBaseProofs ---------------------------
(***************************************************************************)
(* Proofs about what lies between the program and its stores: one          *)
(* connection to redis (CacheConn) or MySQL (KaDBConn), for every length   *)
(* of its use and every course of the clock, the rows of a MySQL result    *)
(* (QueryResult), the manager of the redis pools (KaCacheManager) and the  *)
(* pool of MySQL connections (KaDBPool), whose functions are KaCachePool's *)
(* and whose invariant is therefore that of KaCachePoolProofs.             *)
(***************************************************************************)
EXTENDS CacheConn, KaDBConn, KaDBPool, KaCacheManager, QueryResult, FiniteSetTheorems,
        SequenceTheorems, TLAPS

-----------------------------------------------------------------------------
(* CacheConn.  The invariant adds to the properties that a connection is   *)
(* in another database only after a "select" was refused.                  *)

InDbUnlessRefused == conn.m_pContext = "live" /\ conn.db # DbNum => hist.refused

CacheInv ==
  /\ ConnTypeOK /\ AtMostOneLossPerInterval /\ RunAtMostOnce
  /\ StaleOnlyAfterIsExist /\ StrayOnlyAfterRefusal /\ InDbUnlessRefused

Results == [reply : ReplyTypes \cup {"none"}, value : Values]
Connections == [m_pContext : Pointers, m_last_connect_time : Nat, db : {0, DbNum}]
Histories == [attempts : Nat, lost : Nat, blind : Nat,
              refused : BOOLEAN, stray : BOOLEAN, existLost : BOOLEAN]

\* The books of a connection c and a history h: CacheInv of them.
Books(c, h) ==
  /\ c \in Connections /\ h \in Histories
  /\ h.lost + (IF c.m_pContext = "live" THEN 1 ELSE 0) <= h.attempts
  /\ 4 * h.attempts <= c.m_last_connect_time
  /\ h.blind <= h.lost
  /\ c.m_pContext = "freed" => h.existLost
  /\ h.stray => h.refused
  /\ c.m_pContext = "live" /\ c.db # DbNum => h.refused

\* CacheInv says the books are right.
LEMMA CacheInvIsBooks ==
  CacheInv <=> /\ Books(conn, hist)
               /\ cacheNow \in Nat /\ result \in Results /\ corrupt \in BOOLEAN
               /\ corrupt => hist.existLost
  BY DEF CacheInv, Books, ConnTypeOK, AtMostOneLossPerInterval, RunAtMostOnce,
         StaleOnlyAfterIsExist, StrayOnlyAfterRefusal, InDbUnlessRefused, RetryAfter,
         Results, Connections, Histories

\* The same of the next state.
LEMMA BooksNext ==
  ASSUME Books(conn', hist'), cacheNow' \in Nat, result' \in Results,
         corrupt' \in BOOLEAN, corrupt' => hist'.existLost
  PROVE  CacheInv'
  BY DEF CacheInv, Books, ConnTypeOK, AtMostOneLossPerInterval, RunAtMostOnce,
         StaleOnlyAfterIsExist, StrayOnlyAfterRefusal, InDbUnlessRefused, RetryAfter,
         Results, Connections, Histories

\* A new object has sent nothing.
LEMMA InitCacheInv == ConnInit => CacheInv
<1> SUFFICES ASSUME ConnInit
             PROVE  CacheInv
  OBVIOUS
<1>1. conn \in Connections /\ hist \in Histories
  BY DEF ConnInit, Connections, Histories, Pointers
<1>2. Books(conn, hist)
  BY <1>1 DEF ConnInit, Books
<1>3. result \in Results /\ cacheNow \in Nat /\ corrupt = FALSE
  BY DEF ConnInit, Results, Values, RetryAfter
<1> QED
  BY <1>2, <1>3, CacheInvIsBooks

\* What Init() puts on record.
LEMMA OnRecord ==
  ASSUME hist \in Histories, NEW o
  PROVE  /\ HistInit(o) \in Histories
         /\ HistInit(o).attempts = hist.attempts + (IF Tried(o) THEN 1 ELSE 0)
         /\ HistInit(o).refused = (hist.refused \/ o.rc = 2)
         /\ HistInit(o).lost = hist.lost
         /\ HistInit(o).blind = hist.blind
         /\ HistInit(o).stray = hist.stray
         /\ HistInit(o).existLost = hist.existLost
<1> DEFINE a == hist.attempts + (IF Tried(o) THEN 1 ELSE 0)
           b == hist.refused \/ o.rc = 2
<1>1. a \in Nat /\ b \in BOOLEAN
  BY DEF Histories
<1>2. HistInit(o) = [hist EXCEPT !.attempts = a, !.refused = b]
  BY DEF HistInit
<1> HIDE DEF a, b
<1>3. /\ HistInit(o) \in Histories
      /\ HistInit(o).attempts = a
      /\ HistInit(o).refused = b
      /\ HistInit(o).lost = hist.lost
      /\ HistInit(o).blind = hist.blind
      /\ HistInit(o).stray = hist.stray
      /\ HistInit(o).existLost = hist.existLost
  BY <1>1, <1>2 DEF Histories
<1> QED
  BY <1>3 DEF a, b

\* Init() pays for what it does: an attempt is later than the last by the
\* interval, and a refused "select" is on record.
LEMMA InitKeepsBooks ==
  ASSUME Books(conn, hist), cacheNow \in Nat, NEW o \in InitOutcomes(conn)
  PROVE  Books(o.c, HistInit(o))
<1> USE CacheConnAssumption
<1> DEFINE tried == [conn EXCEPT !.m_last_connect_time = cacheNow]
           new(n) == [tried EXCEPT !.m_pContext = "live", !.db = n]
<1>1. /\ hist \in Histories /\ conn \in Connections
      /\ conn.m_last_connect_time \in Nat
  BY DEF Books, Connections
<1>2. \/ o.c = conn /\ o.rc \in {0, 1}
      \/ /\ conn.m_pContext = "NULL" /\ cacheNow >= conn.m_last_connect_time + 4
         /\ \/ o.c = tried /\ o.rc = 1
            \/ o.c = new(0) /\ o.rc = 2
            \/ o.c = new(DbNum) /\ o.rc = 0
  BY <1>1 DEF InitOutcomes, Outcome, RetryAfter
<1>3. ASSUME NEW n \in {0, DbNum}
      PROVE  /\ new(n) \in Connections
             /\ new(n).m_pContext = "live" /\ new(n).db = n
             /\ new(n).m_last_connect_time = cacheNow
  BY <1>1 DEF Connections, Pointers
<1>4. /\ tried \in Connections
      /\ tried.m_pContext = conn.m_pContext /\ tried.db = conn.db
      /\ tried.m_last_connect_time = cacheNow
  BY <1>1 DEF Connections
<1> HIDE DEF tried, new
<1>5. CASE o.c = conn /\ o.rc \in {0, 1}
  <2>1. ~Tried(o)
    BY <1>5 DEF Tried
  <2> QED
    BY <2>1, <1>5, <1>1, OnRecord DEF Books, Histories
<1>6. CASE /\ conn.m_pContext = "NULL" /\ cacheNow >= conn.m_last_connect_time + 4
           /\ o.c = tried /\ o.rc = 1
  <2>1. Tried(o)
    BY <1>6, <1>4, <1>1 DEF Tried
  <2> QED
    BY <2>1, <1>6, <1>4, <1>1, OnRecord DEF Books, Histories
<1>7. CASE /\ conn.m_pContext = "NULL" /\ cacheNow >= conn.m_last_connect_time + 4
           /\ o.c = new(0) /\ o.rc = 2
  <2>1. Tried(o)
    BY <1>7, <1>3, <1>1 DEF Tried
  <2> QED
    BY <2>1, <1>7, <1>3, <1>1, OnRecord DEF Books, Histories
<1>8. CASE /\ conn.m_pContext = "NULL" /\ cacheNow >= conn.m_last_connect_time + 4
           /\ o.c = new(DbNum) /\ o.rc = 0
  <2>1. Tried(o)
    BY <1>8, <1>3, <1>1 DEF Tried
  <2> QED
    BY <2>1, <1>8, <1>3, <1>1, OnRecord DEF Books, Histories
<1> QED
  BY <1>2, <1>5, <1>6, <1>7, <1>8

\* A command is sent once, and whoever keeps a freed context is isExist.
LEMMA MethodCacheInv ==
  ASSUME CacheInv,
         NEW name, NEW answers \in SUBSET Results, NEW failure \in Values,
         NEW left \in {"NULL", "freed"}, left = "freed" => name = "EXISTS",
         Method(name, answers, failure, left)
  PROVE  CacheInv'
<1>1. PICK o \in InitOutcomes(conn) :
         \/ NotReady(o, failure) \/ UseAfterFree(o)
         \/ Lost(o, name, failure, left) \/ Answered(o, answers)
  BY DEF Method
<1> DEFINE h == HistInit(o)
<1>2. Books(o.c, h) /\ h.existLost = hist.existLost
  BY CacheInvIsBooks, InitKeepsBooks, OnRecord DEF Books
<1>3. /\ cacheNow' \in Nat /\ corrupt = FALSE /\ result \in Results
      /\ Books(conn, hist)
  BY CacheInvIsBooks DEF Method, Exists
<1>4. [reply |-> "none", value |-> failure] \in Results
  BY DEF Results
<1> HIDE DEF h
<1>5. CASE NotReady(o, failure)
  BY <1>2, <1>3, <1>4, <1>5, BooksNext DEF NotReady, h
<1>6. CASE UseAfterFree(o)
  <2>1. hist.existLost
    BY <1>2, <1>6 DEF UseAfterFree, Books
  <2> QED
    BY <2>1, <1>3, <1>6, BooksNext DEF UseAfterFree
<1>7. CASE Lost(o, name, failure, left)
  <2>1. PICK ran \in 0..1 :
          hist' = [h EXCEPT !.lost = h.lost + 1, !.blind = h.blind + ran,
                            !.stray = h.stray \/ (ran > 0 /\ o.c.db # DbNum),
                            !.existLost = h.existLost \/ name = "EXISTS"]
    BY <1>7 DEF Lost, h
  <2>2. h \in Histories /\ o.c \in Connections /\ o.c.m_pContext = "live"
    BY <1>2, <1>7 DEF Books, Lost
  <2>3. /\ hist' \in Histories
        /\ hist'.attempts = h.attempts /\ hist'.refused = h.refused
        /\ hist'.lost = h.lost + 1 /\ hist'.blind = h.blind + ran
        /\ hist'.stray => h.stray \/ o.c.db # DbNum
        /\ name = "EXISTS" => hist'.existLost
    <3> DEFINE s == h.stray \/ (ran > 0 /\ o.c.db # DbNum)
               e == h.existLost \/ name = "EXISTS"
               l == h.lost + 1
               n == h.blind + ran
    <3>1. s \in BOOLEAN /\ e \in BOOLEAN /\ l \in Nat /\ n \in Nat
      BY <2>2 DEF Histories
    <3>2. hist' = [h EXCEPT !.lost = l, !.blind = n, !.stray = s, !.existLost = e]
      BY <2>1
    <3> HIDE DEF s, e, l, n
    <3>3. /\ hist' \in Histories
          /\ hist'.attempts = h.attempts /\ hist'.refused = h.refused
          /\ hist'.lost = l /\ hist'.blind = n
          /\ hist'.stray = s /\ hist'.existLost = e
      BY <2>2, <3>1, <3>2 DEF Histories
    <3> QED
      BY <3>3 DEF s, e, l, n
  <2>4. /\ conn' \in Connections
        /\ conn'.m_pContext = left
        /\ conn'.m_last_connect_time = o.c.m_last_connect_time
    BY <1>7, <2>2 DEF Lost, Connections, Pointers
  <2>5. Books(conn', hist')
    BY <2>2, <2>3, <2>4, <1>2 DEF Books, Histories
  <2> QED
    BY <2>5, <1>3, <1>4, <1>7, BooksNext DEF Lost
<1>8. CASE Answered(o, answers)
  <2>1. h \in Histories /\ o.c.m_pContext = "live"
    BY <1>2, <1>8 DEF Books, Answered
  <2>2. /\ hist' \in Histories
        /\ hist'.attempts = h.attempts /\ hist'.refused = h.refused
        /\ hist'.lost = h.lost /\ hist'.blind = h.blind
        /\ hist'.stray => h.stray \/ o.c.db # DbNum
        /\ hist'.existLost = h.existLost
    BY <2>1, <1>8 DEF Histories, Answered, h
  <2>3. Books(conn', hist')
    BY <2>1, <2>2, <1>2, <1>8 DEF Books, Answered
  <2> QED
    BY <2>3, <1>3, <1>8, BooksNext DEF Answered
<1> QED
  BY <1>1, <1>5, <1>6, <1>7, <1>8

\* What the methods make of a reply are results.
LEMMA AnswersAreResults ==
  /\ As(StringOnly, {"STRING", "NIL"}) \subseteq Results
  /\ As(Text, {"STATUS"}) \subseteq Results
  /\ As(Text, {}) \subseteq Results
  /\ As(Integer, {"INTEGER"}) \subseteq Results
  /\ As(Truth, {"INTEGER"}) \subseteq Results
  /\ As(True, {"ARRAY"}) \subseteq Results
  /\ As(True, {}) \subseteq Results
<1>1. ASSUME NEW r \in ReplyTypes,
             NEW v \in {"empty", "value", "error text", "0", "integer", "true", "false",
                        "true or false"}
      PROVE  [reply |-> r, value |-> v] \in Results
  BY DEF Results, Values, ReplyTypes
<1>2. As(StringOnly, {"STRING", "NIL"}) \subseteq Results
  BY <1>1 DEF As, StringOnly, ReplyTypes
<1>3. As(Text, {"STATUS"}) \subseteq Results /\ As(Text, {}) \subseteq Results
  BY <1>1 DEF As, Text, ReplyTypes
<1>4. As(Integer, {"INTEGER"}) \subseteq Results
  BY <1>1 DEF As, Integer, ReplyTypes
<1>5. As(Truth, {"INTEGER"}) \subseteq Results
  BY <1>1 DEF As, Truth, ReplyTypes
<1>6. As(True, {"ARRAY"}) \subseteq Results /\ As(True, {}) \subseteq Results
  BY <1>1 DEF As, True, ReplyTypes
<1> QED
  BY <1>2, <1>3, <1>4, <1>5, <1>6

\* Every method is one that MethodCacheInv is about.
LEMMA MethodsCacheInv ==
  ASSUME CacheInv,
         \/ get \/ setExpire \/ set \/ isExist \/ incrBy \/ incr \/ decr
         \/ hdel \/ hget \/ hgetAll \/ hset \/ hincrBy \/ hmset \/ hmget
         \/ lpush \/ rpush \/ llen \/ lrange
  PROVE  CacheInv'
<1> USE DEF Drop, Dangle
<1>1. {"empty", "-1", "0", "false"} \subseteq Values
  BY DEF Values
<1>2. /\ As(StringOnly, {"STRING", "NIL"}) \subseteq Results
      /\ As(Text, {"STATUS"}) \subseteq Results
      /\ As(Text, {}) \subseteq Results
      /\ As(Integer, {"INTEGER"}) \subseteq Results
      /\ As(Truth, {"INTEGER"}) \subseteq Results
      /\ As(True, {"ARRAY"}) \subseteq Results
      /\ As(True, {}) \subseteq Results
  BY AnswersAreResults
<1>3. CASE get \/ setExpire \/ set \/ hmset \/ hget
  BY <1>1, <1>2, <1>3, MethodCacheInv DEF get, setExpire, set, hmset, hget
<1>4. CASE isExist \/ hgetAll \/ hmget \/ lrange
  BY <1>1, <1>2, <1>4, MethodCacheInv DEF isExist, hgetAll, hmget, lrange
<1>5. CASE incrBy \/ incr \/ decr \/ hdel \/ hset
  BY <1>1, <1>2, <1>5, MethodCacheInv DEF incrBy, incr, decr, hdel, hset
<1>6. CASE hincrBy \/ lpush \/ rpush \/ llen
  BY <1>1, <1>2, <1>6, MethodCacheInv DEF hincrBy, lpush, rpush, llen
<1> QED
  BY <1>3, <1>4, <1>5, <1>6

\* mget without keys sends nothing.
LEMMA MGetCacheInv ==
  ASSUME CacheInv, mget
  PROVE  CacheInv'
<1>1. "false" \in Values /\ As(True, {}) \subseteq Results
  BY AnswersAreResults DEF Values
<1>2. CASE Method("MGET", As(True, {}), "false", Drop)
  BY <1>1, <1>2, MethodCacheInv DEF Drop
<1>3. CASE /\ \E o \in InitOutcomes(conn) : conn' = o.c /\ hist' = HistInit(o)
           /\ result' = [reply |-> "none", value |-> "false"]
           /\ UNCHANGED <<cacheNow, corrupt>>
  <2>1. PICK o \in InitOutcomes(conn) : conn' = o.c /\ hist' = HistInit(o)
    BY <1>3
  <2>2. Books(conn', hist') /\ hist'.existLost = hist.existLost
    BY <2>1, CacheInvIsBooks, InitKeepsBooks, OnRecord DEF Books
  <2>3. result' \in Results
    BY <1>1, <1>3 DEF Results
  <2> QED
    BY <2>2, <2>3, <1>3, CacheInvIsBooks, BooksNext
<1> QED
  BY <1>2, <1>3 DEF mget

\* The destructor frees what it finds, and the clock is no part of the books.
LEMMA OthersCacheInv ==
  ASSUME CacheInv, Delete \/ Clock \/ UNCHANGED connVars
  PROVE  CacheInv'
<1> USE CacheInvIsBooks
<1>1. CASE Delete
  <2>1. /\ conn \in Connections /\ hist \in Histories
        /\ conn' \in Connections /\ conn'.m_pContext = "deleted"
        /\ conn'.m_last_connect_time = conn.m_last_connect_time
    BY <1>1 DEF Delete, Books, Connections, Pointers
  <2>2. Books(conn', hist')
    BY <2>1, <1>1 DEF Delete, Books, Histories
  <2>3. corrupt' \in BOOLEAN /\ (corrupt' => hist'.existLost)
    BY <1>1 DEF Delete, Books
  <2> QED
    BY <2>2, <2>3, <1>1, BooksNext DEF Delete
<1>2. CASE Clock
  <2>1. cacheNow' \in Nat
    BY <1>2 DEF Clock, RetryAfter
  <2> QED
    BY <2>1, <1>2, BooksNext DEF Clock
<1>3. CASE UNCHANGED connVars
  BY <1>3, BooksNext DEF connVars
<1> QED
  BY <1>1, <1>2, <1>3

\* Every use of a connection keeps the invariant.
THEOREM CacheConnInvariance == ConnSpec => []CacheInv
<1>1. ConnInit => CacheInv
  BY InitCacheInv
<1>2. CacheInv /\ [ConnNext]_connVars => CacheInv'
  BY MethodsCacheInv, MGetCacheInv, OthersCacheInv DEF ConnNext
<1> QED
  BY <1>1, <1>2, PTL DEF ConnSpec

\* The members keep their types.
THEOREM CacheConnTypeCorrect == ConnSpec => []ConnTypeOK
<1>1. CacheInv => ConnTypeOK
  BY DEF CacheInv
<1> QED
  BY <1>1, CacheConnInvariance, PTL

\* At most one command is lost in RetryAfter seconds, and a command reported as failed
\* ran at most once.
THEOREM OneLossPerInterval == ConnSpec => []LossesAreBounded
<1>1. CacheInv => LossesAreBounded
  BY DEF CacheInv, LossesAreBounded
<1> QED
  BY <1>1, CacheConnInvariance, PTL

\* Only isExist leaves a pointer to a freed context, and only a refused "select" makes
\* commands run in another database.
THEOREM RightContext == ConnSpec => []ContextIsRight
<1>1. CacheInv => ContextIsRight
  BY DEF CacheInv, ContextIsRight
<1> QED
  BY <1>1, CacheConnInvariance, PTL

-----------------------------------------------------------------------------
(* KaDBConn.  Without a handle there is nothing left to be read from it.   *)

NothingWithout == m_mysql = "NULL" => unread = "none"

DBConnInv == DBConnTypeOK /\ RunsAtMostOnce /\ SpoiltOnlyByExecute /\ NothingWithout

Made == {"idle", "connected"}
Unreads == {"none", "result", "status"}
Handles == [mysql : {"NULL"} \cup Made, unread : Unreads, leaked : Nat]
Calls == [method : {"none", "query", "execute", "clear"}, kind : Kinds, ran : Nat,
          ret : {"NULL", "result", "true", "false"}]

\* How a query on handle h may end: it ran at most once, and what is left
\* unread is a result only if it was one before, and then it still is.
Ended(h) ==
  /\ m_mysql' \in {"NULL"} \cup Made /\ unread' \in Unreads /\ leaked' \in Nat
  /\ last' \in Calls
  /\ last'.ran <= 1
  /\ last'.ret \in {"result", "true"} => last'.ran = 1
  /\ unread' = "result" <=> h.unread = "result"
  /\ m_mysql' = "NULL" => unread' = "none"

\* The outcomes of a statement.
LEMMA QueryOutcomes ==
  ASSUME NEW h \in Handles, NEW kind \in Kinds, NEW r \in real_query(h, kind)
  PROVE  /\ r.err \in {"out of sync", "gone", "lost", "bad", "none"}
         /\ r.ran \in 0..1
         /\ r.err = "gone" => r.ran = 0 /\ h.unread = "none"
         /\ r.err = "none" => r.ran = 1 /\ h.unread = "none"
         /\ r.err # "none" => r.unread = h.unread
         /\ r.unread \in Unreads
<1>1. h.unread \in Unreads /\ "none" \in Unreads /\ "result" \in Unreads
  BY DEF Handles, Unreads
<1>2. 0 \in 0..1 /\ 1 \in 0..1
  OBVIOUS
<1>3. \/ h.unread # "none" /\ r = [err |-> "out of sync", ran |-> 0, unread |-> h.unread]
      \/ h.unread = "none" /\ r = [err |-> "gone", ran |-> 0, unread |-> "none"]
      \/ h.unread = "none" /\ r = [err |-> "lost", ran |-> 0, unread |-> "none"]
      \/ h.unread = "none" /\ r = [err |-> "lost", ran |-> 1, unread |-> "none"]
      \/ h.unread = "none" /\ r = [err |-> "bad", ran |-> 0, unread |-> "none"]
      \/ h.unread = "none" /\ r = [err |-> "none", ran |-> 1, unread |-> "none"]
      \/ h.unread = "none" /\ r = [err |-> "none", ran |-> 1, unread |-> "result"]
  BY Zenon DEF real_query
<1>4. \A e, n, u : r = [err |-> e, ran |-> n, unread |-> u]
                   => r.err = e /\ r.ran = n /\ r.unread = u
  OBVIOUS
<1>5. \/ r.err = "out of sync" /\ r.ran = 0 /\ r.unread = h.unread
      \/ h.unread = "none" /\ r.err = "gone" /\ r.ran = 0 /\ r.unread = "none"
      \/ h.unread = "none" /\ r.err \in {"lost", "bad"} /\ r.ran = 0 /\ r.unread = "none"
      \/ h.unread = "none" /\ r.err = "lost" /\ r.ran = 1 /\ r.unread = "none"
      \/ h.unread = "none" /\ r.err = "none" /\ r.ran = 1 /\ r.unread \in {"none", "result"}
  BY <1>3, <1>4, Zenon
<1> QED
  BY <1>1, <1>2, <1>5

\* A call is recorded as it was made.
LEMMA Recorded ==
  ASSUME NEW h \in Handles, NEW u \in Unreads, NEW kind \in Kinds, NEW ran \in Nat,
         NEW method \in {"none", "query", "execute", "clear"},
         NEW ret \in {"NULL", "result", "true", "false"},
         Done(method, h, u, kind, ran, ret)
  PROVE  /\ m_mysql' = h.mysql /\ m_mysql' \in {"NULL"} \cup Made
         /\ unread' = u /\ leaked' \in Nat
         /\ last' \in Calls /\ last'.ran = ran /\ last'.ret = ret
  BY DEF Done, Handles, Calls

\* query ends as it should whatever the first handle is, if it is one.
LEMMA AttemptEnds ==
  ASSUME NEW h \in Handles, NEW kind \in Kinds, h.mysql # "NULL", Attempt(h, kind)
  PROVE  Ended(h)
<1>1. PICK r \in real_query(h, kind) :
        CASE r.err = "none" -> Stored(h, kind, r.ran)
          [] Again(r) -> Retry(h, kind, r.ran)
          [] OTHER -> Failed(h, r.unread, kind, r.ran)
  BY DEF Attempt
<1>2. /\ r.err \in {"out of sync", "gone", "lost", "bad", "none"}
      /\ r.ran \in 0..1
      /\ r.err = "gone" => r.ran = 0 /\ h.unread = "none"
      /\ r.err = "none" => r.ran = 1 /\ h.unread = "none"
      /\ r.err # "none" => r.unread = h.unread
      /\ r.unread \in Unreads
  BY QueryOutcomes
<1>3. store_result(kind) \in {"none", "status"}
  BY DEF store_result
<1>4. CASE r.err = "none"
  <2>1. Stored(h, kind, 1)
    BY <1>1, <1>2, <1>4 DEF Again
  <2> QED
    BY <2>1, <1>2, <1>3, <1>4, Recorded DEF Stored, Ended, Unreads, Handles
<1>5. CASE r.err = "gone"
  <2>1. Retry(h, kind, 0)
    BY <1>1, <1>2, <1>5 DEF Again
  <2>2. PICK o \in InitHandle(h) :
          IF o.rc = "failed" THEN Failed(o.h, "none", kind, 0)
          ELSE \E q \in real_query(o.h, kind) :
                 IF q.err = "none" THEN Stored(o.h, kind, 0 + q.ran)
                 ELSE Failed(o.h, q.unread, kind, 0 + q.ran)
    BY <2>1 DEF Retry
  <2>3. /\ o.h \in Handles /\ o.h.unread = "none"
        /\ o.rc # "failed" => o.h.mysql = "connected"
    BY DEF InitHandle, Handle, Handles, Unreads, Made
  <2>4. CASE o.rc = "failed"
    BY <2>2, <2>3, <2>4, <1>2, <1>5, Recorded DEF Failed, Ended, Unreads
  <2>5. CASE o.rc # "failed"
    <3>1. PICK q \in real_query(o.h, kind) :
            IF q.err = "none" THEN Stored(o.h, kind, 0 + q.ran)
            ELSE Failed(o.h, q.unread, kind, 0 + q.ran)
      BY <2>2, <2>5
    <3>2. /\ q.ran \in 0..1 /\ q.unread \in Unreads
          /\ q.err = "none" => q.ran = 1
          /\ q.err # "none" => q.unread = "none"
      BY <2>3, QueryOutcomes
    <3>3. CASE q.err = "none"
      <4>1. Stored(o.h, kind, 1)
        BY <3>1, <3>2, <3>3
      <4> QED
        BY <4>1, <2>3, <2>5, <1>2, <1>3, <1>5, Recorded DEF Stored, Ended, Unreads
    <3>4. CASE q.err # "none"
      <4>1. Failed(o.h, "none", kind, q.ran)
        BY <3>1, <3>2, <3>4
      <4> QED
        BY <4>1, <3>2, <2>3, <1>2, <1>5, Recorded DEF Failed, Ended, Unreads
    <3> QED
      BY <3>3, <3>4
  <2> QED
    BY <2>4, <2>5
<1>6. CASE r.err \notin {"none", "gone"}
  <2>1. Failed(h, h.unread, kind, r.ran)
    BY <1>1, <1>2, <1>6 DEF Again
  <2>2. h.unread \in Unreads /\ r.ran \in Nat
    <3>1. h.unread \in Unreads
      BY DEF Handles
    <3>2. r.ran \in 0..1
      BY <1>2
    <3> QED
      BY <3>1, <3>2
  <2>3. Done("query", h, h.unread, kind, r.ran, "NULL")
    BY <2>1 DEF Failed
  <2>4. /\ m_mysql' = h.mysql /\ m_mysql' \in {"NULL"} \cup Made
        /\ unread' = h.unread /\ leaked' \in Nat
        /\ last' \in Calls /\ last'.ran = r.ran /\ last'.ret = "NULL"
    BY <2>2, <2>3, Recorded
  <2>5. last'.ran <= 1
    <3>1. last'.ran \in 0..1
      BY <2>4, <1>2, Zenon
    <3> QED
      BY <3>1
  <2>6. last'.ret \notin {"result", "true"} /\ m_mysql' # "NULL"
    BY <2>4
  <2> QED
    BY <2>2, <2>4, <2>5, <2>6 DEF Ended
<1> QED
  BY <1>2, <1>4, <1>5, <1>6

\* query, with or without a handle.
LEMMA QueryEnds ==
  ASSUME DBConnInv, NEW kind \in Kinds, query(kind)
  PROVE  Ended(Now)
<1>1. Now \in Handles /\ Now.unread = unread /\ Now.mysql = m_mysql
  BY DEF DBConnInv, DBConnTypeOK, Now, Handle, Handles, Unreads, Made
<1>2. CASE m_mysql # "NULL"
  BY <1>1, <1>2, AttemptEnds DEF query
<1>3. CASE m_mysql = "NULL"
  <2>1. PICK o \in InitHandle(Now) : IF o.rc = "failed" THEN Failed(o.h, "none", kind, 0)
                                     ELSE Attempt(o.h, kind)
    BY <1>3 DEF query
  <2>2. /\ o.h \in Handles /\ o.h.unread = "none"
        /\ o.rc # "failed" => o.h.mysql = "connected"
    BY <1>1 DEF InitHandle, Handle, Handles, Unreads, Made
  <2>3. Now.unread = "none"
    BY <1>1, <1>3 DEF DBConnInv, NothingWithout
  <2>4. CASE o.rc = "failed"
    BY <2>1, <2>2, <2>3, <2>4, Recorded DEF Failed, Ended, Unreads
  <2>5. CASE o.rc # "failed"
    BY <2>1, <2>2, <2>3, <2>5, AttemptEnds DEF Ended
  <2> QED
    BY <2>4, <2>5
<1> QED
  BY <1>2, <1>3

\* Every step keeps the invariant, and a result that was left unread.
LEMMA DBConnStep ==
  ASSUME DBConnInv, [DBConnNext]_dbConnVars
  PROVE  DBConnInv' /\ (unread = "result" => unread' = "result")
<1>0. Now \in Handles /\ Now.unread = unread /\ Now.mysql = m_mysql
  BY DEF DBConnInv, DBConnTypeOK, Now, Handle, Handles, Unreads, Made
<1> USE DEF DBConnInv, DBConnTypeOK, RunsAtMostOnce, SpoiltOnlyByExecute, NothingWithout
<1>1. ASSUME NEW kind \in Kinds, query(kind)
      PROVE  DBConnInv' /\ (unread = "result" => unread' = "result")
  <2>1. Ended(Now) /\ executed' = executed
    BY <1>1, QueryEnds DEF query
  <2> QED
    BY <2>1, <1>0 DEF Ended, Made, Unreads, Calls
<1>2. ASSUME NEW kind \in Kinds, pqueryUnformatted(kind)
      PROVE  DBConnInv' /\ (unread = "result" => unread' = "result")
  <2>1. Done("query", Now, unread, kind, 0, "NULL") /\ executed' = executed
    BY <1>2 DEF pqueryUnformatted
  <2>2. unread \in Unreads
    BY DEF Unreads
  <2> QED
    BY <2>1, <2>2, <1>0, Recorded DEF Made, Calls
<1>3. ASSUME NEW kind \in Kinds, execute(kind)
      PROVE  DBConnInv' /\ (unread = "result" => unread' = "result")
  <2>1. executed' = (executed \/ unread' = "result")
    BY <1>3 DEF execute
  <2>2. CASE m_mysql = "NULL"
    <3>1. Done("execute", Now, unread, kind, 0, "false") /\ unread \in Unreads
      BY <1>3, <2>2 DEF execute, Unreads
    <3> QED
      BY <3>1, <2>1, <2>2, <1>0, Recorded DEF Made, Calls
  <2>3. CASE m_mysql # "NULL"
    <3>1. PICK r \in real_query(Now, kind) :
            Done("execute", Now, r.unread, kind, r.ran,
                 IF r.err = "none" THEN "true" ELSE "false")
      BY <1>3, <2>3 DEF execute
    <3>2. /\ r.ran \in 0..1 /\ r.unread \in Unreads
          /\ r.err = "none" => r.ran = 1 /\ unread = "none"
          /\ r.err # "none" => r.unread = unread
      BY <1>0, QueryOutcomes
    <3>3. CASE r.err = "none"
      <4>1. Done("execute", Now, r.unread, kind, 1, "true")
        BY <3>1, <3>2, <3>3
      <4>2. /\ m_mysql' = m_mysql /\ unread' = r.unread /\ leaked' \in Nat
            /\ last' \in Calls /\ last'.ran = 1 /\ last'.ret = "true"
        BY <4>1, <3>2, <1>0, Recorded
      <4>3. executed' \in BOOLEAN /\ (unread' = "result" => executed')
        BY <2>1
      <4> QED
        BY <4>2, <4>3, <3>2, <3>3, <2>3 DEF Unreads, Calls
    <3>4. CASE r.err # "none"
      <4>1. Done("execute", Now, unread, kind, r.ran, "false")
        BY <3>1, <3>2, <3>4
      <4> QED
        BY <4>1, <3>2, <3>4, <2>1, <2>3, <1>0, Recorded DEF Made, Unreads, Calls
    <3> QED
      BY <3>3, <3>4
  <2> QED
    BY <2>2, <2>3
<1>4. CASE clearStoreResults
  BY <1>4 DEF clearStoreResults, NoCall, Kinds
<1>5. CASE UNCHANGED dbConnVars
  BY <1>5 DEF dbConnVars
<1> QED
  BY <1>1, <1>2, <1>3, <1>4, <1>5 DEF DBConnNext

\* Every use of a MySQL connection keeps the invariant.
THEOREM KaDBConnInvariance == DBConnSpec => []DBConnInv
<1>1. DBConnInit => DBConnInv
  <2> SUFFICES ASSUME DBConnInit
               PROVE  DBConnInv
    OBVIOUS
  <2>1. last \in Calls /\ last.ran = 0 /\ last.ret = "NULL"
    BY DEF DBConnInit, NoCall, Kinds, Calls
  <2>2. DBConnTypeOK
    BY <2>1 DEF DBConnInit, Calls, DBConnTypeOK
  <2>3. RunsAtMostOnce
    BY <2>1 DEF RunsAtMostOnce
  <2>4. SpoiltOnlyByExecute /\ NothingWithout
    BY DEF DBConnInit, SpoiltOnlyByExecute, NothingWithout
  <2> QED
    BY <2>2, <2>3, <2>4 DEF DBConnInv
<1>2. DBConnInv /\ [DBConnNext]_dbConnVars => DBConnInv'
  BY DBConnStep
<1> QED
  BY <1>1, <1>2, PTL DEF DBConnSpec

\* No statement runs twice in one call.
THEOREM StatementsRunAtMostOnce == DBConnSpec => []RunsAtMostOnce
<1>1. DBConnInv => RunsAtMostOnce
  BY DEF DBConnInv
<1> QED
  BY <1>1, KaDBConnInvariance, PTL

\* Only execute leaves a result that nobody reads.
THEOREM OnlyExecuteSpoils == DBConnSpec => []SpoiltOnlyByExecute
<1>1. DBConnInv => SpoiltOnlyByExecute
  BY DEF DBConnInv
<1> QED
  BY <1>1, KaDBConnInvariance, PTL

\* And nothing repairs the connection.
THEOREM NothingRepairs == DBConnSpec => SpoiltForGood
<1>1. DBConnInv /\ [DBConnNext]_dbConnVars => (unread = "result" => unread' = "result")
  BY DBConnStep
<1> QED
  BY <1>1, KaDBConnInvariance, PTL DEF DBConnSpec, SpoiltForGood

-----------------------------------------------------------------------------
(* QueryResult.                                                            *)

TypesOfFields == {"STRING", "INTEGER", "FLOAT", "UNKNOW"}
Fields == [m_Value : Texts \cup {""}, m_NULL : BOOLEAN, m_Type : TypesOfFields]

\* What the caller sees of a text.
Shown(text) == IF text = Null THEN "" ELSE text

\* The columns of a row that was fetched show what the result has.
RowShows ==
  cursor > 0 => \A i \in Columns :
                  /\ m_CurrentRow[i].m_NULL = (table.rows[cursor][i] = Null)
                  /\ m_CurrentRow[i].m_Value = Shown(table.rows[cursor][i])

ResultInv ==
  /\ Len(table.names) \in Nat /\ Len(table.rows) \in Nat
  /\ \A r \in 1..Len(table.rows), i \in Columns : table.rows[r][i] \in Texts \cup {Null}
  /\ cursor \in 0..Len(table.rows)
  /\ m_Result \/ m_CurrentRow = <<>>
  /\ m_Result =>
       /\ m_CurrentRow \in [Columns -> Fields]
       /\ \A i \in Columns : m_CurrentRow[i].m_Type = convertNativeType(table.types[i])
       /\ RowShows
  /\ copied # <<>> => copied[2] \in 0..cursor
  /\ CopyOutlivesRow

\* The constructor's row is empty, of the types of the columns.
LEMMA ResultInitInv == ResultInit => ResultInv
<1> SUFFICES ASSUME ResultInit PROVE ResultInv
  OBVIOUS
<1>1. PICK n \in 1..MaxFields, k \in 0..MaxRows :
        table \in [names : [1..n -> Names], types : [1..n -> NativeTypes],
                   rows : [1..k -> [1..n -> Texts \cup {Null}]]]
  BY DEF ResultInit
<1>2. /\ table.names \in [1..n -> Names] /\ n \in Nat
      /\ table.rows \in [1..k -> [1..n -> Texts \cup {Null}]] /\ k \in Nat
  BY <1>1
<1>3. Len(table.names) = n /\ Len(table.rows) = k
  BY <1>2, LenProperties
<1>4. \A i \in Columns : EmptyField(convertNativeType(table.types[i])) \in Fields
  BY DEF EmptyField, Fields, TypesOfFields, convertNativeType
<1>5. m_CurrentRow = [i \in Columns |-> EmptyField(convertNativeType(table.types[i]))]
  BY DEF ResultInit
<1>6. \A i \in Columns : m_CurrentRow[i].m_Type = convertNativeType(table.types[i])
  BY <1>5 DEF EmptyField
<1>7. cursor = 0 /\ copied = <<>> /\ m_Result
  BY DEF ResultInit
<1> QED
  BY <1>2, <1>3, <1>4, <1>5, <1>6, <1>7 DEF ResultInv, RowShows, CopyOutlivesRow, Columns

\* A new row overwrites every column of the one before; the end of the query frees it.
LEMMA NextRowInv ==
  ASSUME ResultInv, nextRow \/ EndEarly
  PROVE  ResultInv'
<1>1. table' = table /\ copied' = copied /\ Columns' = Columns
  BY DEF nextRow, EndEarly, Columns
<1>2. CASE ~m_Result' /\ m_CurrentRow' = <<>> /\ cursor' = cursor
  BY <1>1, <1>2 DEF ResultInv, CopyOutlivesRow, RowShows
<1>3. CASE /\ m_Result /\ m_Result' /\ cursor < Len(table.rows) /\ cursor' = cursor + 1
           /\ m_CurrentRow' = [i \in Columns |->
                                 Load(m_CurrentRow[i], table.rows[cursor + 1][i])]
  <2> DEFINE text(i) == table.rows[cursor + 1][i]
  <2>1. \A i \in Columns : text(i) \in Texts \cup {Null} /\ m_CurrentRow[i] \in Fields
    BY <1>3 DEF ResultInv
  <2>2. ASSUME NEW i \in Columns
        PROVE  /\ m_CurrentRow'[i] \in Fields
               /\ m_CurrentRow'[i].m_Type = m_CurrentRow[i].m_Type
               /\ m_CurrentRow'[i].m_NULL = (text(i) = Null)
               /\ m_CurrentRow'[i].m_Value = Shown(text(i))
    <3>1. m_CurrentRow'[i] = Load(m_CurrentRow[i], text(i))
      BY <1>3
    <3>2. CASE text(i) = Null
      BY <2>1, <3>1, <3>2 DEF Load, Fields, Shown
    <3>3. CASE text(i) # Null
      BY <2>1, <3>1, <3>3 DEF Load, Fields, Shown
    <3> QED
      BY <3>2, <3>3
  <2>3. m_CurrentRow' \in [Columns -> Fields]
    BY <1>3, <2>2
  <2>4. RowShows'
    BY <1>1, <1>3, <2>2 DEF RowShows
  <2>5. \A i \in Columns : m_CurrentRow'[i].m_Type = convertNativeType(table.types[i])
    BY <1>3, <2>2 DEF ResultInv
  <2>6. cursor' \in 0..Len(table.rows) /\ (copied # <<>> => copied[2] \in 0..cursor')
    BY <1>3 DEF ResultInv
  <2> QED
    BY <1>1, <1>3, <2>3, <2>4, <2>5, <2>6 DEF ResultInv, CopyOutlivesRow
<1>4. CASE ~m_Result /\ m_CurrentRow' = m_CurrentRow /\ m_Result' = m_Result
           /\ cursor' = cursor
  BY <1>1, <1>4 DEF ResultInv, CopyOutlivesRow, RowShows
<1> QED
  BY <1>1, <1>2, <1>3, <1>4 DEF nextRow, EndEarly, endQuery

\* getField_idx finds the first column of a name.
LEMMA FirstOfTheName ==
  ASSUME ResultInv, NEW i \in Columns, \A j \in 1..(i - 1) : table.names[j] # table.names[i]
  PROVE  getField_idx(table.names[i]) = i
<1> DEFINE found == {j \in Columns : table.names[j] = table.names[i]}
<1>1. Columns \subseteq Int /\ i \in found
  BY DEF Columns, ResultInv
<1>2. \A j \in found : i <= j
  BY <1>1 DEF Columns, ResultInv
<1>3. \A x \in found : (\A y \in found : x <= y) => x = i
  BY <1>1, <1>2
<1>4. Min(found) = i
  BY <1>1, <1>2, <1>3 DEF Min
<1> QED
  BY <1>1, <1>4 DEF getField_idx

\* A copy is of the row that shows, and leaves it alone.
LEMMA CopyFieldInv ==
  ASSUME ResultInv, NEW name \in Names, CopyField(name)
  PROVE  ResultInv'
<1>1. PICK garbage \in BOOLEAN :
        copied' = <<name, cursor, [m_CurrentRow[getField_idx(name)] EXCEPT !.m_NULL = garbage]>>
  BY DEF CopyField
<1>2. UNCHANGED <<table, m_Result, m_CurrentRow, cursor>> /\ m_CurrentRow # <<>>
  BY DEF CopyField
<1>3. m_CurrentRow \in [Columns -> Fields] /\ RowShows
  BY <1>2 DEF ResultInv
<1>4. CopyOutlivesRow'
  <2> SUFFICES ASSUME cursor > 0, NEW i \in Columns, table.names[i] = name,
                      \A j \in 1..(i - 1) : table.names[j] # name
               PROVE  copied'[3].m_Value = Shown(table.rows[cursor][i])
    BY <1>1, <1>2 DEF CopyOutlivesRow, Columns, Shown
  <2>1. getField_idx(name) = i
    BY FirstOfTheName
  <2>2. copied'[3] = [m_CurrentRow[i] EXCEPT !.m_NULL = garbage]
    BY <1>1, <2>1
  <2>3. m_CurrentRow[i] \in Fields
    BY <1>3
  <2>4. \A f \in Fields : [f EXCEPT !.m_NULL = garbage].m_Value = f.m_Value
    BY DEF Fields
  <2>5. copied'[3].m_Value = m_CurrentRow[i].m_Value
    BY <2>2, <2>3, <2>4
  <2> QED
    BY <1>3, <2>5 DEF RowShows
<1> QED
  BY <1>1, <1>2, <1>4 DEF ResultInv, RowShows, Columns

\* The row that shows is the row fetched last, column by column, whatever rows came
\* before it, and what was copied out of an earlier row stays that row's.
THEOREM RowsStayCurrent == ResultSpec => []RowsAreCurrent
<1>1. ResultInv /\ [ResultNext]_resultVars => ResultInv'
  <2>1. ResultInv /\ UNCHANGED resultVars => ResultInv'
    <3> SUFFICES ASSUME ResultInv, UNCHANGED resultVars PROVE ResultInv'
      OBVIOUS
    <3>1. /\ table' = table /\ m_Result' = m_Result /\ m_CurrentRow' = m_CurrentRow
          /\ cursor' = cursor /\ copied' = copied /\ Columns' = Columns
      BY DEF resultVars, Columns
    <3> QED
      BY <3>1 DEF ResultInv, RowShows, CopyOutlivesRow
  <2> QED
    BY <2>1, NextRowInv, CopyFieldInv DEF ResultNext
<1>2. ResultInv => RowsAreCurrent
  <2> SUFFICES ASSUME ResultInv, m_CurrentRow # <<>>, cursor > 0
               PROVE  RowIsCurrent
    BY DEF RowsAreCurrent, RowIsCurrent, ResultInv
  <2>1. /\ RowShows
        /\ \A i \in Columns : m_CurrentRow[i].m_Type = convertNativeType(table.types[i])
    BY DEF ResultInv
  <2> QED
    BY <2>1 DEF RowIsCurrent, RowShows, Shown
<1> QED
  BY ResultInitInv, <1>1, <1>2, PTL DEF ResultSpec

-----------------------------------------------------------------------------
(* KaCacheManager.                                                         *)

Ready == manager \in Managers /\ objs[manager] = "ready"

\* Where a caller of getInstance is tells what the static pointer points to, as long as
\* it is the only one inside.
AgreesWith(t) ==
  /\ mpc[t] = "new" => manager = NULL
  /\ mpc[t] \in {"init", "connect", "delete"} =>
       manager \in Managers /\ objs[manager] = "created"
  /\ mpc[t] = "connect" => mthis[t] = manager
  /\ mpc[t] = "clear" => manager \in Managers /\ objs[manager] = "deleted"
  /\ mpc[t] = "return" => manager = NULL \/ Ready
  /\ mpc[t] \in {"has", "borrowed"} => mthis[t] = manager /\ Ready

ManagerTypes ==
  /\ manager \in Managers \cup {NULL}
  /\ objs \in [Managers -> {"none", "created", "ready", "deleted"}]
  /\ mpc \in [Callers -> {"out", "new", "init", "connect", "delete", "clear", "return",
                          "has", "borrowed"}]
  /\ mthis \in [Callers -> Managers \cup {NULL}]
  /\ overlap \in BOOLEAN

ManagerInv ==
  /\ ManagerTypes
  /\ ~overlap =>
       /\ \A t, u \in Inside : t = u
       /\ Inside = {} => manager = NULL \/ Ready
       /\ Live \subseteq {manager}
       /\ \A t \in Callers : AgreesWith(t)

\* A call that enters alone finds no manager, or one that has its pool.
LEMMA TestInv ==
  ASSUME ManagerInv, NEW t \in Callers, Test(t)
  PROVE  ManagerInv'
<1>1. UNCHANGED <<manager, objs, mthis>> /\ Live' = Live
  BY DEF Test, Live
<1>2. mpc[t] = "out" /\ mpc' = [mpc EXCEPT ![t] = IF manager = NULL THEN "new" ELSE "return"]
  BY DEF Test, At
<1>3. CASE overlap'
  BY <1>1, <1>2, <1>3 DEF ManagerInv, ManagerTypes
<1>4. CASE ~overlap'
  <2>1. ~overlap /\ Inside = {}
    BY <1>4 DEF Test, ManagerInv, ManagerTypes
  <2>2. Inside' = {t}
    BY <1>2, <2>1 DEF ManagerInv, ManagerTypes, Inside
  <2>3. \A u \in Callers : AgreesWith(u)'
    BY <1>1, <1>2, <2>1 DEF ManagerInv, ManagerTypes, AgreesWith, Ready
  <2> QED
    BY <1>1, <1>2, <1>4, <2>1, <2>2, <2>3 DEF ManagerInv, ManagerTypes, Test, Ready
<1> QED
  BY <1>3, <1>4 DEF Test, ManagerInv, ManagerTypes

\* Creating, initialising and giving up are one caller's steps, with nobody else inside.
LEMMA CreateInv ==
  ASSUME ManagerInv, NEW t \in Callers,
         New(t) \/ CallInit(t) \/ InitOk(t) \/ InitFailed(t) \/ DeleteManager(t) \/ Clear(t)
  PROVE  ManagerInv'
<1>1. /\ mpc[t] \in {"new", "init", "connect", "delete", "clear"} /\ t \in Inside
      /\ overlap' = overlap
  BY DEF New, CallInit, InitOk, InitFailed, DeleteManager, Clear, At, Inside
<1>2. ManagerTypes'
  <2>1. CASE New(t)
    BY <2>1 DEF ManagerInv, ManagerTypes, New, At
  <2>2. CASE CallInit(t) \/ InitFailed(t) \/ Clear(t)
    BY <2>2 DEF ManagerInv, ManagerTypes, CallInit, InitFailed, Clear, At
  <2>3. CASE InitOk(t)
    BY <2>3 DEF ManagerInv, ManagerTypes, InitOk, At
  <2>4. CASE DeleteManager(t)
    BY <2>4 DEF ManagerInv, ManagerTypes, DeleteManager, At
  <2> QED
    BY <2>1, <2>2, <2>3, <2>4
<1>3. CASE ~overlap
  <2>1. AgreesWith(t) /\ Live \subseteq {manager}
    BY <1>3 DEF ManagerInv
  <2>2. ~Ready
    BY <1>1, <2>1, KaCacheManagerAssumption DEF AgreesWith, Ready
  <2>3. \A u \in Callers : u = t \/ mpc[u] = "out"
    <3> SUFFICES ASSUME NEW u \in Callers, u # t PROVE mpc[u] = "out"
      OBVIOUS
    <3>1. u \notin Inside
      BY <1>1, <1>3 DEF ManagerInv
    <3> QED
      BY <1>3, <2>2, <3>1 DEF ManagerInv, AgreesWith, Inside
  <2>4. \A u \in Callers : u = t \/ mpc'[u] = "out"
    BY <2>3 DEF New, CallInit, InitOk, InitFailed, DeleteManager, Clear, At, ManagerInv,
       ManagerTypes
  <2>5. \A u \in Callers : u # t => AgreesWith(u)'
    BY <2>4 DEF AgreesWith
  <2>6. Inside' = {t}
    <3>1. mpc'[t] \notin {"out", "has", "borrowed"}
      BY DEF New, CallInit, InitOk, InitFailed, DeleteManager, Clear, At, ManagerInv,
         ManagerTypes
    <3> QED
      BY <2>4, <3>1 DEF Inside
  <2>7. AgreesWith(t)' /\ Live' \subseteq {manager'}
    <3>1. CASE New(t)
      BY <1>1, <2>1, <3>1, KaCacheManagerAssumption DEF New, At, AgreesWith, Live, Ready,
         ManagerInv, ManagerTypes
    <3>2. CASE CallInit(t)
      BY <1>1, <2>1, <3>2 DEF CallInit, At, AgreesWith, Live, Ready, ManagerInv, ManagerTypes
    <3>3. CASE InitOk(t)
      BY <1>1, <2>1, <3>3 DEF InitOk, At, AgreesWith, Live, Ready, ManagerInv, ManagerTypes
    <3>4. CASE InitFailed(t)
      BY <1>1, <2>1, <3>4 DEF InitFailed, At, AgreesWith, Live, Ready, ManagerInv,
         ManagerTypes
    <3>5. CASE DeleteManager(t)
      BY <1>1, <2>1, <3>5, KaCacheManagerAssumption DEF DeleteManager, At, AgreesWith, Live,
         Ready, ManagerInv, ManagerTypes
    <3>6. CASE Clear(t)
      BY <1>1, <2>1, <3>6 DEF Clear, At, AgreesWith, Live, Ready, ManagerInv, ManagerTypes
    <3> QED
      BY <3>1, <3>2, <3>3, <3>4, <3>5, <3>6
  <2> QED
    BY <1>2, <2>5, <2>6, <2>7 DEF ManagerInv
<1> QED
  BY <1>1, <1>2, <1>3 DEF ManagerInv

\* A call that returns hands out what the pointer points to; its user leaves it there.
LEMMA UseInv ==
  ASSUME ManagerInv, NEW t \in Callers,
         Return(t) \/ Borrow(t) \/ BorrowNone(t) \/ RelCacheConnOfManager(t)
  PROVE  ManagerInv'
<1>1. UNCHANGED <<manager, objs, overlap>> /\ Live' = Live
  BY DEF Return, Borrow, BorrowNone, RelCacheConnOfManager, Live
<1>2. /\ mpc[t] \in {"return", "has", "borrowed"}
      /\ \E next \in {"out", "has", "borrowed"} : mpc' = [mpc EXCEPT ![t] = next]
      /\ mthis' = mthis \/ (mpc[t] = "return" /\ mthis' = [mthis EXCEPT ![t] = manager])
  BY DEF Return, Borrow, BorrowNone, RelCacheConnOfManager, At
<1>3. ManagerTypes'
  BY <1>1, <1>2 DEF ManagerInv, ManagerTypes
<1>4. CASE ~overlap
  <2>1. /\ \A u, v \in Inside : u = v
        /\ Inside = {} => manager = NULL \/ Ready
        /\ Live \subseteq {manager}
        /\ \A u \in Callers : AgreesWith(u)
    BY <1>4 DEF ManagerInv
  <2>2. manager = NULL \/ Ready
    BY <1>2, <2>1 DEF AgreesWith
  <2>3. Inside' \subseteq Inside
    BY <1>2 DEF Inside, ManagerInv, ManagerTypes
  <2>4. \A u \in Callers : u # t => AgreesWith(u)'
    BY <1>1, <1>2, <2>1 DEF AgreesWith, Ready, ManagerInv, ManagerTypes
  <2>5. AgreesWith(t)'
    <3>1. CASE Return(t)
      BY <2>2, <3>1 DEF Return, At, AgreesWith, Ready, ManagerInv, ManagerTypes
    <3>2. CASE Borrow(t) \/ BorrowNone(t) \/ RelCacheConnOfManager(t)
      BY <2>1, <3>2 DEF Borrow, BorrowNone, RelCacheConnOfManager, At, AgreesWith, Ready,
         ManagerInv, ManagerTypes
    <3> QED
      BY <3>1, <3>2
  <2> QED
    BY <1>1, <1>3, <2>1, <2>2, <2>3, <2>4, <2>5 DEF ManagerInv, Ready
<1> QED
  BY <1>1, <1>3, <1>4 DEF ManagerInv

\* Callers whose calls of getInstance never overlap share one manager, which has its
\* pool, for as many threads and managers as there are.
THEOREM ManagerIsShared == ManagerSpec => []SerialCallersShare
<1>1. ManagerInit => ManagerInv
  BY KaCacheManagerAssumption DEF ManagerInit, ManagerInv, ManagerTypes, Inside, Live, AgreesWith
<1>2. ManagerInv /\ [ManagerNext]_managerVars => ManagerInv'
  <2>1. ManagerInv /\ UNCHANGED managerVars => ManagerInv'
    BY DEF managerVars, ManagerInv, ManagerTypes, Inside, Live, AgreesWith, Ready
  <2> QED
    BY <2>1, TestInv, CreateInv, UseInv DEF ManagerNext
<1>3. ManagerInv => SerialCallersShare
  <2> SUFFICES ASSUME ManagerInv, ~overlap PROVE SerialCallersShare
    BY DEF SerialCallersShare
  <2>1. IsFiniteSet({manager}) /\ Cardinality({manager}) = 1
    BY FS_Singleton
  <2>2. Cardinality(Live) <= Cardinality({manager})
    BY <2>1, FS_Subset DEF ManagerInv
  <2> QED
    BY <2>1, <2>2, KaCacheManagerAssumption DEF ManagerInv, AgreesWith, Ready,
       SerialCallersShare
<1> QED
  BY <1>1, <1>2, <1>3, PTL DEF ManagerSpec

-----------------------------------------------------------------------------
(* KaDBPool: what is proved of KaCachePool, and the destructor.            *)

P == INSTANCE KaCachePoolProofs
  WITH Threads <- DBThreads, Conns <- DBConns, MaxConn <- DBMaxConn,
       MaxHeld <- [t \in DBThreads |-> 1], NoThread <- DBNoThread,
       m_free_list <- free_list, m_cur_conn_cnt <- m_db_cur_conn_cnt,
       mutex <- db_mutex, pc <- dbpc, held <- borrowed, open <- sessions

\* ~KaDBPool has run: no object is left, and the sessions are still counted.
Gone ==
  /\ free_list = <<>>
  /\ \A t \in DBThreads : dbpc[t] = "gone" /\ borrowed[t] = {}
  /\ m_db_cur_conn_cnt = Pool!Cardinality(sessions) /\ m_db_cur_conn_cnt <= Pool!Limit

DBPoolInv == P!IInv \/ Gone

\* The constants are such as the theorems about KaCachePool want.
LEMMA PoolAssumption == P!ConstantsAssumption
<1>1. \A S : P!IsFiniteSet(S) <=> IsFiniteSet(S)
  BY DEF P!IsFiniteSet, IsFiniteSet
<1> QED
  BY KaDBPoolAssumption, <1>1 DEF P!ConstantsAssumption

\* Cardinality means the same in both instances.
LEMMA PoolCardinality ==
  ASSUME NEW S
  PROVE  Pool!Cardinality(S) = P!Cardinality(S)
BY DEF Pool!Cardinality, P!Cardinality, Pool!IsFiniteSet, P!IsFiniteSet

\* A step of the pool is one of KaCachePool's.
LEMMA PoolSteps ==
  ASSUME NEW t \in DBThreads, getKaConn(t) \/ RelKaConn(t)
  PROVE  P!Next
<1>1. ASSUME NEW c \in DBConns, Pool!RelCacheConn(t, c) PROVE P!RelCacheConn(t, c)
  BY <1>1 DEF Pool!RelCacheConn, P!RelCacheConn, Pool!Elems, P!Elems, Pool!NotifyAll, P!NotifyAll
<1>2. CASE Pool!CallGet(t)
  <2>1. Pool!Cardinality(borrowed[t]) = P!Cardinality(borrowed[t])
    BY PoolCardinality
  <2>2. P!CallGet(t)
    BY <1>2, <2>1 DEF Pool!CallGet, P!CallGet
  <2> QED
    BY <2>2 DEF P!Next
<1>3. CASE Pool!TakeFront(t)
  BY <1>3 DEF Pool!TakeFront, P!TakeFront, Pool!InLoop, P!InLoop, P!Next
<1>4. CASE Pool!Wait(t)
  BY <1>4 DEF Pool!Wait, P!Wait, Pool!InLoop, P!InLoop, P!Next
<1>5. CASE Pool!SpuriousWakeup(t)
  BY <1>5 DEF Pool!SpuriousWakeup, P!SpuriousWakeup, P!Next
<1>6. CASE Pool!StartConnect(t)
  BY <1>6 DEF Pool!StartConnect, P!StartConnect, Pool!InLoop, P!InLoop, P!Next
<1>7. CASE Pool!ConnectOk(t)
  BY <1>7 DEF Pool!ConnectOk, P!ConnectOk, P!Next
<1>8. CASE Pool!ConnectFail(t)
  BY <1>8 DEF Pool!ConnectFail, P!ConnectFail, P!Next
<1>9. CASE RelKaConn(t)
  BY <1>1, <1>9 DEF RelKaConn, P!Next
<1> QED
  BY <1>2, <1>3, <1>4, <1>5, <1>6, <1>7, <1>8, <1>9 DEF getKaConn

\* The properties of the pool follow from the invariant.
LEMMA DBPoolInvIsSafe == DBPoolInv => DBPoolSafe
<1>1. CASE P!IInv
  <2>1. Pool!Cardinality(sessions) = P!Cardinality(sessions)
    BY PoolCardinality
  <2>2. Pool!Limit = P!Limit
    BY DEF Pool!Limit, P!Limit, Pool!MIN_CACHE_CONN_CNT, P!MIN_CACHE_CONN_CNT
  <2>3. Pool!NoDuplicates /\ Pool!Exclusive
    BY <1>1 DEF P!IInv, P!PoolSafe, P!NoDuplicates, P!Exclusive, P!Distinct, P!Elems,
       Pool!NoDuplicates, Pool!Exclusive, Pool!Distinct, Pool!Elems
  <2>4. Pool!WithinLimit /\ Pool!NoLostWakeup
    BY <1>1, <2>1, <2>2 DEF P!IInv, P!WithinLimit, P!NoLostWakeup, Pool!WithinLimit,
       Pool!NoLostWakeup
  <2> QED
    BY <2>3, <2>4 DEF DBPoolSafe
<1>2. CASE Gone
  <2>1. Pool!NoDuplicates /\ Pool!Exclusive
    BY <1>2 DEF Gone, Pool!NoDuplicates, Pool!Exclusive, Pool!Distinct, Pool!Elems
  <2>2. Pool!WithinLimit /\ Pool!NoLostWakeup
    BY <1>2 DEF Gone, Pool!WithinLimit, Pool!NoLostWakeup
  <2> QED
    BY <2>1, <2>2 DEF DBPoolSafe
<1> QED
  BY <1>1, <1>2 DEF DBPoolInv

\* Every step of the pool, the destructor's too, keeps the invariant.
LEMMA DBPoolStep == DBPoolInv /\ [DBPoolNext]_dbPoolVars => DBPoolInv'
<1> SUFFICES ASSUME DBPoolInv, [DBPoolNext]_dbPoolVars PROVE DBPoolInv'
  OBVIOUS
<1>1. CASE UNCHANGED dbPoolVars
  <2>1. CASE P!IInv
    <3>1. UNCHANGED P!vars
      BY <1>1 DEF dbPoolVars, P!vars
    <3> QED
      BY <2>1, <3>1, PoolAssumption, P!NextIInv DEF DBPoolInv
  <2>2. CASE Gone
    BY <1>1, <2>2 DEF dbPoolVars, Gone, DBPoolInv
  <2> QED
    BY <2>1, <2>2 DEF DBPoolInv
<1>2. CASE DestroyDBPool
  <2>1. DBPoolSafe
    BY DBPoolInvIsSafe
  <2>2. Gone'
    BY <1>2, <2>1 DEF DestroyDBPool, DBPoolSafe, Pool!WithinLimit, Gone
  <2> QED
    BY <2>2 DEF DBPoolInv
<1>3. ASSUME NEW t \in DBThreads, getKaConn(t) \/ RelKaConn(t) PROVE DBPoolInv'
  <2>1. dbpc[t] # "gone"
    BY <1>3 DEF getKaConn, RelKaConn, Pool!CallGet, Pool!TakeFront, Pool!Wait, Pool!SpuriousWakeup,
       Pool!StartConnect, Pool!ConnectOk, Pool!ConnectFail, Pool!RelCacheConn, Pool!InLoop
  <2>2. P!IInv
    BY <2>1 DEF DBPoolInv, Gone
  <2>3. P!Next
    BY <1>3, PoolSteps
  <2> QED
    BY <2>2, <2>3, PoolAssumption, P!NextIInv DEF DBPoolInv
<1> QED
  BY <1>1, <1>2, <1>3 DEF DBPoolNext

\* A MySQL session is idle once or lent to one thread, the pool counts its sessions and stays
\* within its limit, and nobody sleeps for nothing, also once the pool is gone
\* (KaDBManager.cpp, KaDBPool).
THEOREM DBPoolIsSafe == DBPoolSpec => []DBPoolSafe
<1>1. DBPoolInit => DBPoolInv
  <2>1. Pool!Init => P!Init
    BY DEF Pool!Init, P!Init, Pool!Elems, P!Elems, Pool!MIN_CACHE_CONN_CNT, P!MIN_CACHE_CONN_CNT
  <2> QED
    BY <2>1, PoolAssumption, P!InitIInv DEF DBPoolInit, DBPoolInv
<1>2. DBPoolInv /\ [DBPoolNext]_dbPoolVars => DBPoolInv'
  BY DBPoolStep
<1> QED
  BY <1>1, <1>2, DBPoolInvIsSafe, PTL DEF DBPoolSpec
=============================================================================
