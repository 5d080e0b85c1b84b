---------------------------- MODULE KaCacheManager ----------------------------
(***************************************************************************)
(* DataBase/KaRedis/KaCachePool.cpp, class KaCacheManager: the static      *)
(* pointer m_pKaCaChePool_manager that getInstance creates on demand,      *)
(* without a lock.  Every read of the static pointer is a step, because    *)
(* the function reads it again after `new' and after Init(), which         *)
(* connects to the server.  A manager is an address with a state: created  *)
(* (its map of pools is empty), ready (its pool is in the map), deleted.   *)
(***************************************************************************)
EXTENDS Naturals, FiniteSets

CONSTANTS Callers,      \* the threads that call getInstance
          Managers,     \* the addresses `new' may return
          NULL

ASSUME KaCacheManagerAssumption == NULL \notin Managers

VARIABLES manager,      \* m_pKaCaChePool_manager
          objs,         \* [Managers -> state of the object]
          mpc,          \* where each caller is
          mthis,        \* the object Init() works on, then what was returned
          overlap,      \* two callers were inside getInstance at once
          crashed       \* undefined behaviour: a deleted object, atoi(NULL)

managerVars == <<manager, objs, mpc, mthis, overlap, crashed>>

\* The static member is NULL before the first call.
ManagerInit ==
  /\ manager = NULL
  /\ objs = [m \in Managers |-> "none"]
  /\ mpc = [t \in Callers |-> "out"]
  /\ mthis = [t \in Callers |-> NULL]
  /\ overlap = FALSE
  /\ crashed = FALSE

Inside == {t \in Callers : mpc[t] \notin {"out", "has", "borrowed"}}

At(t, here, next) == mpc[t] = here /\ mpc' = [mpc EXCEPT ![t] = next]

\* getInstance: if(!m_pKaCaChePool_manager).
Test(t) ==
  /\ ~crashed
  /\ At(t, "out", IF manager = NULL THEN "new" ELSE "return")
  /\ overlap' = (overlap \/ Inside # {})
  /\ UNCHANGED <<manager, objs, mthis, crashed>>

\* m_pKaCaChePool_manager = new KaCacheManager().
New(t) ==
  /\ ~crashed
  /\ At(t, "new", "init")
  /\ \E m \in Managers :
       /\ objs[m] = "none"
       /\ manager' = m
       /\ objs' = [objs EXCEPT ![m] = "created"]
  /\ UNCHANGED <<mthis, overlap, crashed>>

\* m_pKaCaChePool_manager->Init(), through the pointer as it is by then, reads
\* redis.conf: a key that is missing there is atoi(NULL).
CallInit(t) ==
  /\ ~crashed
  /\ At(t, "init", "connect")
  /\ mthis' = [mthis EXCEPT ![t] = manager]
  /\ crashed' \in {TRUE, manager = NULL \/ objs[manager] = "deleted"}
  /\ UNCHANGED <<manager, objs, overlap>>

\* Init() connects its pool, and inserts it in the map (0) or gives up (3).
InitOk(t) ==
  /\ ~crashed
  /\ At(t, "connect", "return")
  /\ crashed' = (objs[mthis[t]] = "deleted")
  /\ objs' = [objs EXCEPT ![mthis[t]] = IF @ = "created" THEN "ready" ELSE @]
  /\ UNCHANGED <<manager, mthis, overlap>>

InitFailed(t) ==
  /\ ~crashed
  /\ At(t, "connect", "delete")
  /\ UNCHANGED <<manager, objs, mthis, overlap, crashed>>

\* delete m_pKaCaChePool_manager, as it is by then.
DeleteManager(t) ==
  /\ ~crashed
  /\ At(t, "delete", "clear")
  /\ IF manager = NULL THEN UNCHANGED <<objs, crashed>>
     ELSE /\ crashed' = (objs[manager] = "deleted")
          /\ objs' = [objs EXCEPT ![manager] = "deleted"]
  /\ UNCHANGED <<manager, mthis, overlap>>

\* m_pKaCaChePool_manager = NULL forgotten.
Clear_Kept(t) ==
  /\ ~crashed
  /\ At(t, "clear", "return")
  /\ UNCHANGED <<manager, objs, mthis, overlap, crashed>>

\* m_pKaCaChePool_manager = NULL.
Clear(t) ==
  /\ ~crashed
  /\ At(t, "clear", "return")
  /\ manager' = NULL
  /\ UNCHANGED <<objs, mthis, overlap, crashed>>

\* return m_pKaCaChePool_manager.
Return(t) ==
  /\ ~crashed
  /\ At(t, "return", IF manager = NULL THEN "out" ELSE "has")
  /\ mthis' = [mthis EXCEPT ![t] = manager]
  /\ UNCHANGED <<manager, objs, overlap, crashed>>

\* getCacheConn(pool_name) and RelCacheConn look the pool up in the manager's
\* map; the caller gets NULL from a manager that has no pool (yet).
Borrow(t) ==
  /\ ~crashed
  /\ At(t, "has", "borrowed")
  /\ objs[mthis[t]] = "ready"
  /\ UNCHANGED <<manager, objs, mthis, overlap, crashed>>

BorrowNone(t) ==
  /\ ~crashed
  /\ At(t, "has", "out")
  /\ objs[mthis[t]] # "ready"
  /\ crashed' = (objs[mthis[t]] = "deleted")
  /\ UNCHANGED <<manager, objs, mthis, overlap>>

RelCacheConnOfManager(t) ==
  /\ ~crashed
  /\ At(t, "borrowed", "out")
  /\ crashed' = (objs[mthis[t]] = "deleted")
  /\ UNCHANGED <<manager, objs, mthis, overlap>>

ManagerNext ==
  \E t \in Callers :
    \/ Test(t) \/ New(t) \/ CallInit(t) \/ InitOk(t) \/ InitFailed(t)
    \/ DeleteManager(t) \/ Clear(t) \/ Return(t)
    \/ Borrow(t) \/ BorrowNone(t) \/ RelCacheConnOfManager(t)

ManagerSpec == ManagerInit /\ [][ManagerNext]_managerVars

-----------------------------------------------------------------------------
Live == {m \in Managers : objs[m] \in {"created", "ready"}}

\* As long as the calls of getInstance do not overlap, every caller that was
\* handed a manager shares one that has its pool, and no second one is left behind.
SerialCallersShare ==
  ~overlap => /\ \A t \in Callers :
                   mpc[t] \in {"has", "borrowed"} => /\ mthis[t] = manager
                                                     /\ manager # NULL
                                                     /\ objs[manager] = "ready"
              /\ Cardinality(Live) <= 1

=============================================================================
