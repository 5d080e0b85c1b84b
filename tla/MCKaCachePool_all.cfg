\* Four callers compete for at most 3 connections; one of them nests.
CONSTANTS
  t1 = t1
  t2 = t2
  t3 = t3
  t4 = t4
  c1 = c1
  c2 = c2
  c3 = c3
  c4 = c4
  NoThread = NoThread
  Conns <- MCConns
  Threads <- MCThreads
  MaxConn = 3
  MaxHeld <- MCMaxHeld
SPECIFICATION FairSpec
INVARIANTS PoolSafe NoLostWakeup
PROPERTIES PoolSpec SleeperIsWoken
