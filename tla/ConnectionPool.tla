--------------------------- MODULE ConnectionPool ---------------------------
(***************************************************************************)
(* What a connection pool promises its callers, whatever list, counter,    *)
(* mutex or condition variable it is made of: connections are opened one   *)
(* at a time up to a limit, a connection that is open is lent to at most   *)
(* one thread, and it comes back only from the thread that borrowed it.    *)
(*                                                                         *)
(* KaCachePool (DataBase/KaRedis) implements this specification; see the   *)
(* refinement mapping at the end of KaCachePool.tla.                       *)
(***************************************************************************)
EXTENDS Naturals, FiniteSets

CONSTANTS Threads,      \* the threads that borrow connections
          Conns,        \* the connections that may ever be open together
          MinOpen,      \* connections the pool opens when it starts
          Limit         \* connections it may have open at most

VARIABLES open,         \* the connections that are open
          inUse         \* [Threads -> SUBSET Conns], who has borrowed what

vars == <<open, inUse>>

Idle == open \ UNION {inUse[t] : t \in Threads}

Init == /\ open \in SUBSET Conns
        /\ IsFiniteSet(open)
        /\ Cardinality(open) = MinOpen
        /\ inUse = [t \in Threads |-> {}]

\* A thread borrows a connection nobody is using.
Acquire(t, c) ==
  /\ c \in Idle
  /\ inUse' = [inUse EXCEPT ![t] = @ \cup {c}]
  /\ UNCHANGED open

\* Nothing is idle and the limit is not reached: the pool grows by one
\* connection, which goes to the thread that asked.
OpenAndAcquire(t, c) ==
  /\ Idle = {}
  /\ Cardinality(open) < Limit
  /\ c \in Conns \ open
  /\ open' = open \cup {c}
  /\ inUse' = [inUse EXCEPT ![t] = @ \cup {c}]

Release(t, c) ==
  /\ c \in inUse[t]
  /\ inUse' = [inUse EXCEPT ![t] = @ \ {c}]
  /\ UNCHANGED open

Next == \E t \in Threads, c \in Conns :
           Acquire(t, c) \/ OpenAndAcquire(t, c) \/ Release(t, c)

Spec == Init /\ [][Next]_vars
=============================================================================
