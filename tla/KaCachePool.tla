----------------------------- MODULE KaCachePool -----------------------------
(***************************************************************************)
(* DataBase/KaRedis/KaCachePool.cpp, class KaCachePool: a pool of redis    *)
(* connections that threads borrow (getCacheConn) and return               *)
(* (RelCacheConn).  m_free_list and m_cur_conn_cnt are protected by        *)
(* m_mutex; a thread that finds the list empty and the pool full sleeps on *)
(* m_cond.                                                                 *)
(*                                                                         *)
(* Grain of atomicity.  Everything a thread does between taking m_mutex    *)
(* and giving it up is one step, except the connection attempt of          *)
(* getCacheConn (CacheConn::Init, up to 200 ms of network I/O): it is done *)
(* with the mutex held, so it is two steps with the mutex owned between    *)
(* them.  m_cond.wait gives the mutex up and, when it returns, takes it    *)
(* again and re-evaluates the loop condition: a thread that was woken is   *)
(* back at the top of the loop, competing for the mutex.                   *)
(*                                                                         *)
(* The initial states are those after the constructor and a successful     *)
(* Init().  A failing Init() leaves no pool that callers can reach         *)
(* (KaCacheManager::Init returns before it inserts it in its map).         *)
(***************************************************************************)
EXTENDS Naturals, Sequences, FiniteSets

CONSTANTS Threads,    \* the threads that use the pool
          Conns,      \* addresses a CacheConn can be allocated at
          MaxConn,    \* m_max_conn_cnt, KaIM_MAX_CONN of redis.conf
          MaxHeld,    \* [Threads -> Nat], connections a caller borrows at a time
          NoThread    \* m_mutex is free

ASSUME ConstantsAssumption ==
  /\ IsFiniteSet(Conns)
  /\ MaxConn \in Nat
  /\ MaxHeld \in [Threads -> Nat]
  /\ NoThread \notin Threads

MIN_CACHE_CONN_CNT == 2

VARIABLES m_free_list,      \* the idle connections, front first
          m_cur_conn_cnt,   \* the pool's own count of its connections
          mutex,            \* the owner of m_mutex between two steps
          pc,               \* where each thread is
          held,             \* [Threads -> SUBSET Conns], borrowed
          open              \* CacheConn objects that exist and are connected

vars == <<m_free_list, m_cur_conn_cnt, mutex, pc, held, open>>

Elems(s) == {s[i] : i \in 1..Len(s)}
Distinct(s) == \A i, j \in 1..Len(s) : s[i] = s[j] => i = j

-----------------------------------------------------------------------------
\* KaCachePool::KaCachePool, then Init() opening m_cur_conn_cnt (that is, two)
\* connections.
Init ==
  /\ \E c, d \in Conns : c # d /\ m_free_list = <<c, d>>
  /\ m_cur_conn_cnt = MIN_CACHE_CONN_CNT
  /\ mutex = NoThread
  /\ pc = [t \in Threads |-> "idle"]
  /\ held = [t \in Threads |-> {}]
  /\ open = Elems(m_free_list)

\* getCacheConn is called; the thread competes for m_mutex.
CallGet(t) ==
  /\ pc[t] = "idle"
  /\ Cardinality(held[t]) < MaxHeld[t]
  /\ pc' = [pc EXCEPT ![t] = "get"]
  /\ UNCHANGED <<m_free_list, m_cur_conn_cnt, mutex, held, open>>

\* The loop of getCacheConn is evaluated with m_mutex held.
InLoop(t) == pc[t] = "get" /\ mutex = NoThread

\* m_free_list is not empty: its front is the caller's.
TakeFront(t) ==
  /\ InLoop(t)
  /\ m_free_list # <<>>
  /\ held' = [held EXCEPT ![t] = @ \cup {Head(m_free_list)}]
  /\ m_free_list' = Tail(m_free_list)
  /\ pc' = [pc EXCEPT ![t] = "idle"]
  /\ UNCHANGED <<m_cur_conn_cnt, mutex, open>>

\* Empty, and the pool is at its limit: m_cond.wait.
Wait(t) ==
  /\ InLoop(t)
  /\ m_free_list = <<>>
  /\ m_cur_conn_cnt >= MaxConn
  /\ pc' = [pc EXCEPT ![t] = "waiting"]
  /\ UNCHANGED <<m_free_list, m_cur_conn_cnt, mutex, held, open>>

\* Empty, below the limit: new CacheConn and its Init(), m_mutex held.
StartConnect(t) ==
  /\ InLoop(t)
  /\ m_free_list = <<>>
  /\ m_cur_conn_cnt < MaxConn
  /\ mutex' = t
  /\ pc' = [pc EXCEPT ![t] = "connecting"]
  /\ UNCHANGED <<m_free_list, m_cur_conn_cnt, held, open>>

\* ConnectOk forgets m_cur_conn_cnt++.
ConnectOk_NotCounted(t) ==
  /\ pc[t] = "connecting"
  /\ \E c \in Conns \ open :
       LET pushed == Append(m_free_list, c) IN
       /\ open' = open \cup {c}
       /\ held' = [held EXCEPT ![t] = @ \cup {Head(pushed)}]
       /\ m_free_list' = Tail(pushed)
  /\ mutex' = NoThread
  /\ pc' = [pc EXCEPT ![t] = "idle"]
  /\ UNCHANGED m_cur_conn_cnt

\* Init() returned 0: push_back, m_cur_conn_cnt++, the loop ends, and the
\* front is popped for the caller.
ConnectOk(t) ==
  /\ pc[t] = "connecting"
  /\ \E c \in Conns \ open :
       LET pushed == Append(m_free_list, c) IN
       /\ open' = open \cup {c}
       /\ held' = [held EXCEPT ![t] = @ \cup {Head(pushed)}]
       /\ m_free_list' = Tail(pushed)
  /\ m_cur_conn_cnt' = m_cur_conn_cnt + 1
  /\ mutex' = NoThread
  /\ pc' = [pc EXCEPT ![t] = "idle"]

\* Init() failed (1: no connection, 2: "select" refused): the object is
\* deleted and getCacheConn returns NULL.
ConnectFail(t) ==
  /\ pc[t] = "connecting"
  /\ mutex' = NoThread
  /\ pc' = [pc EXCEPT ![t] = "idle"]
  /\ UNCHANGED <<m_free_list, m_cur_conn_cnt, held, open>>

\* notify_all: every sleeping thread is back in the loop.
NotifyAll == [t \in Threads |-> IF pc[t] = "waiting" THEN "get" ELSE pc[t]]

\* RelCacheConn's search for the connection in m_free_list dropped.
RelCacheConn_NoSearch(t, c) ==
  /\ pc[t] = "idle" /\ mutex = NoThread
  /\ c \in held[t] \cup Elems(m_free_list)
  /\ m_free_list' = Append(m_free_list, c)
  /\ held' = [held EXCEPT ![t] = @ \ {c}]
  /\ pc' = NotifyAll
  /\ UNCHANGED <<m_cur_conn_cnt, mutex, open>>

\* RelCacheConn forgets notify_all.
RelCacheConn_NoNotify(t, c) ==
  /\ pc[t] = "idle" /\ mutex = NoThread
  /\ c \in held[t] \cup Elems(m_free_list)
  /\ m_free_list' = IF c \in Elems(m_free_list)
                    THEN m_free_list ELSE Append(m_free_list, c)
  /\ held' = [held EXCEPT ![t] = @ \ {c}]
  /\ UNCHANGED <<m_cur_conn_cnt, mutex, pc, open>>

\* A caller returns a connection it borrowed, or returns once more one that
\* is still idle: the list is searched, so that it holds no pointer twice.
\* Callers do not return a connection that another thread has borrowed since.
RelCacheConn(t, c) ==
  /\ pc[t] = "idle" /\ mutex = NoThread
  /\ c \in held[t] \cup Elems(m_free_list)
  /\ m_free_list' = IF c \in Elems(m_free_list)
                    THEN m_free_list ELSE Append(m_free_list, c)
  /\ held' = [held EXCEPT ![t] = @ \ {c}]
  /\ pc' = NotifyAll
  /\ UNCHANGED <<m_cur_conn_cnt, mutex, open>>

\* m_cond.wait may return without a notification.
SpuriousWakeup(t) ==
  /\ pc[t] = "waiting"
  /\ pc' = [pc EXCEPT ![t] = "get"]
  /\ UNCHANGED <<m_free_list, m_cur_conn_cnt, mutex, held, open>>

Next == \E t \in Threads :
          \/ CallGet(t) \/ TakeFront(t) \/ Wait(t) \/ SpuriousWakeup(t)
          \/ StartConnect(t) \/ ConnectOk(t) \/ ConnectFail(t)
          \/ \E c \in Conns : RelCacheConn(t, c)

Spec == Init /\ [][Next]_vars

\* The callers return what they borrowed: a caller that holds a connection
\* and is not blocked in getCacheConn eventually calls RelCacheConn with it.
\* Nothing is assumed of the order in which threads get m_mutex, nor of
\* spurious wakeups.
ReturnBorrowed(t) == \E c \in held[t] : RelCacheConn(t, c)
FairSpec == Spec /\ \A t \in Threads : WF_vars(ReturnBorrowed(t))

-----------------------------------------------------------------------------
Limit == IF MaxConn > MIN_CACHE_CONN_CNT THEN MaxConn ELSE MIN_CACHE_CONN_CNT

\* The variables have their types; the only states in which m_mutex is owned
\* between two steps are those of a connection attempt.
TypeOK ==
  /\ m_free_list \in Seq(Conns)
  /\ m_cur_conn_cnt \in Nat
  /\ mutex \in Threads \cup {NoThread}
  /\ pc \in [Threads -> {"idle", "get", "connecting", "waiting"}]
  /\ held \in [Threads -> SUBSET Conns]
  /\ open \in SUBSET Conns

\* The free list holds no connection twice.
NoDuplicates == Distinct(m_free_list)

\* No connection is lent to two threads, or lent and idle at once: two threads
\* would interleave their commands on one redisContext.
Exclusive ==
  \A t \in Threads :
    /\ held[t] \cap Elems(m_free_list) = {}
    /\ \A u \in Threads \ {t} : held[t] \cap held[u] = {}

\* Every connection that was opened is idle or lent, and nothing else is:
\* getCacheConn and RelCacheConn leak no connection.
NoneLost ==
  open = Elems(m_free_list) \cup UNION {held[t] : t \in Threads}

\* m_cur_conn_cnt counts the open connections, and they stay within the
\* configured maximum (or the two that Init() opens anyway).
WithinLimit ==
  /\ m_cur_conn_cnt = Cardinality(open)
  /\ m_cur_conn_cnt <= Limit

PoolSafe == NoDuplicates /\ Exclusive /\ NoneLost

\* No thread sleeps on m_cond while there is something for it in the pool,
\* an idle connection or room for a new one.
NoLostWakeup ==
  \A t \in Threads :
    pc[t] = "waiting" => /\ m_free_list = <<>>
                         /\ m_cur_conn_cnt >= MaxConn

\* A connection attempt is made by the owner of m_mutex, on an empty list and
\* below the limit from its beginning to its end.
ConnectAlone ==
  \A t \in Threads :
    pc[t] = "connecting" => /\ mutex = t
                            /\ m_free_list = <<>>
                            /\ m_cur_conn_cnt < MaxConn

\* The inductive invariant: all of the above.
IInv == TypeOK /\ PoolSafe /\ WithinLimit /\ NoLostWakeup /\ ConnectAlone

\* A thread that sleeps in getCacheConn is eventually woken, if the callers
\* return what they borrowed.  (It may still lose the race for the mutex.)
SleeperIsWoken ==
  \A t \in Threads : pc[t] = "waiting" ~> pc[t] # "waiting"

-----------------------------------------------------------------------------
\* The pool implements the abstract one: getCacheConn lends an idle connection
\* or grows the pool, and RelCacheConn takes back what its caller borrowed.
Pool == INSTANCE ConnectionPool
          WITH inUse <- held, MinOpen <- MIN_CACHE_CONN_CNT

PoolSpec == Pool!Spec
=============================================================================
