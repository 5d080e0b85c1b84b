------------------------------- MODULE KaDBPool -------------------------------
(***************************************************************************)
(* DataBase/KaMysql/KaDBManager.cpp, class KaDBPool: a pool of KaDBConn.   *)
(* Its functions are those of KaCachePool, line for line, with a minimum   *)
(* of its own: getKaConn connects with m_mutex held, sleeps on m_cond when *)
(* nothing is idle and the pool is full; RelKaConn searches the list and   *)
(* notifies all.  What is different is the end: ~KaDBPool deletes the idle *)
(* connections, and ~KaDBConn closes none of them.                         *)
(***************************************************************************)
EXTENDS Naturals, Sequences, FiniteSets

CONSTANTS DBThreads, DBConns, DBMaxConn, DBNoThread

ASSUME KaDBPoolAssumption ==
  /\ IsFiniteSet(DBConns)
  /\ DBMaxConn \in Nat
  /\ DBNoThread \notin DBThreads

VARIABLES free_list, m_db_cur_conn_cnt, db_mutex, dbpc, borrowed, sessions

dbPoolVars == <<free_list, m_db_cur_conn_cnt, db_mutex, dbpc, borrowed, sessions>>

Pool == INSTANCE KaCachePool
  WITH Threads <- DBThreads, Conns <- DBConns, MaxConn <- DBMaxConn,
       MaxHeld <- [t \in DBThreads |-> 1], NoThread <- DBNoThread,
       m_free_list <- free_list, m_cur_conn_cnt <- m_db_cur_conn_cnt,
       mutex <- db_mutex, pc <- dbpc, held <- borrowed, open <- sessions

\* KaDBPool::KaDBPool and a successful init(): MIN_CONN_CNT connections.
DBPoolInit == Pool!Init

getKaConn(t) ==
  \/ Pool!CallGet(t) \/ Pool!TakeFront(t)
  \/ Pool!Wait(t) \/ Pool!SpuriousWakeup(t)
  \/ Pool!StartConnect(t) \/ Pool!ConnectOk(t) \/ Pool!ConnectFail(t)

\* RelKaConn that wakes nobody.
RelKaConn_NoNotify(t) == \E c \in DBConns : Pool!RelCacheConn_NoNotify(t, c)

RelKaConn(t) == \E c \in DBConns : Pool!RelCacheConn(t, c)

\* ~KaDBPool, once nobody uses the pool: the idle objects are deleted, the
\* sessions behind them stay open.
DestroyDBPool ==
  /\ \A t \in DBThreads : dbpc[t] = "idle" /\ borrowed[t] = {}
  /\ free_list' = <<>>
  /\ dbpc' = [t \in DBThreads |-> "gone"]
  /\ UNCHANGED <<m_db_cur_conn_cnt, db_mutex, borrowed, sessions>>

DBPoolNext == DestroyDBPool \/ \E t \in DBThreads : getKaConn(t) \/ RelKaConn(t)

DBPoolSpec == DBPoolInit /\ [][DBPoolNext]_dbPoolVars

-----------------------------------------------------------------------------
\* A session is idle once or lent to one thread, there are never more of them than
\* the pool counts and its maximum (or its minimum) allows, and nobody sleeps while
\* one is idle or may be made.
DBPoolSafe ==
  Pool!NoDuplicates /\ Pool!Exclusive /\ Pool!WithinLimit /\ Pool!NoLostWakeup
=============================================================================
