------------------------------ MODULE LoopThreads ------------------------------
(***************************************************************************)
(* Net/EventLoopThread.cpp and Net/EventLoopThreadPool.cpp: a pool starts  *)
(* its threads one after the other; each has an EventLoop on its stack and *)
(* publishes a pointer to it (m_loop), for which startLoop waits on        *)
(* m_cond.  One thread, the pool's owner, calls the pool's functions.      *)
(***************************************************************************)
EXTENDS Integers, Sequences

CONSTANTS MaxThreads,       \* bound: numThreads of init
          MaxAsked          \* bound: calls of getNextLoop

ASSUME LoopThreadsAssumption == MaxThreads \in Nat /\ MaxAsked \in Nat

BaseLoop == 0
NullLoop == -1
LoopIds == 1..MaxThreads

VARIABLES m_numberThreads,
          tpc,        \* where each loop thread is
          m_loop,     \* [LoopIds -> published?]: m_loop # nullptr
          m_quit,     \* of each loop
          opc,        \* where the owner is
          pos,        \* the thread that start or stop is at
          m_loops,    \* the vector of loops
          m_next,     \* an index from 0
          asked,      \* [loop -> how often getNextLoop returned it]
          handed      \* the loops that the pool's functions returned

loopVars == <<m_numberThreads, tpc, m_loop, m_quit, opc, pos, m_loops, m_next,
              asked, handed>>
threadVars == <<tpc, m_loop, m_quit>>
askVars == <<m_next, asked, handed>>

\* EventLoopThreadPool::EventLoopThreadPool and init.
LoopThreadsInit ==
  /\ m_numberThreads \in 0..MaxThreads
  /\ tpc = [i \in LoopIds |-> "none"]
  /\ m_loop = [i \in LoopIds |-> FALSE]
  /\ m_quit = [i \in LoopIds |-> FALSE]
  /\ opc = "init" /\ pos = 1
  /\ m_loops = <<>>
  /\ m_next = 0
  /\ asked = [l \in 0..MaxThreads |-> 0]
  /\ handed = {}

\* The owner's loop over the threads, in start ("create" again and again until
\* the pool is "running") or in stop ("quit" until it is "stopped").
Onward(i, again, done) ==
  /\ pos' = IF i < m_numberThreads THEN i + 1 ELSE 1
  /\ opc' = IF i < m_numberThreads THEN again ELSE done

-----------------------------------------------------------------------------
\* start, which does nothing the second time; with no threads it only calls
\* the callback with the base loop.
PoolStart ==
  /\ opc = "init"
  /\ Onward(0, "create", "running")
  /\ UNCHANGED <<m_numberThreads, threadVars, m_loops, askVars>>

\* startLoop makes the thread, which may run at once or later.
CreateThread ==
  /\ opc = "create"
  /\ tpc' = [tpc EXCEPT ![pos] = "begin"]
  /\ opc' = "wait"
  /\ UNCHANGED <<m_numberThreads, m_loop, m_quit, pos, m_loops, askVars>>

\* startLoop tests m_loop with the mutex, and sleeps if it is not there.
Sleep ==
  /\ opc = "wait" /\ ~m_loop[pos]
  /\ opc' = "asleep"
  /\ UNCHANGED <<m_numberThreads, threadVars, pos, m_loops, askVars>>

SpuriousWake ==
  /\ opc = "asleep"
  /\ opc' = "wait"
  /\ UNCHANGED <<m_numberThreads, threadVars, pos, m_loops, askVars>>

\* startLoop does not wait, and returns what m_loop is.
LoopPublished_NoWait ==
  /\ opc = "wait"
  /\ m_loops' = Append(m_loops, IF m_loop[pos] THEN pos ELSE NullLoop)
  /\ Onward(pos, "create", "running")
  /\ UNCHANGED <<m_numberThreads, threadVars, askVars>>

\* startLoop returns m_loop, start goes on to the next thread.
LoopPublished ==
  /\ opc = "wait" /\ m_loop[pos]
  /\ m_loops' = Append(m_loops, pos)
  /\ Onward(pos, "create", "running")
  /\ UNCHANGED <<m_numberThreads, threadVars, askVars>>

-----------------------------------------------------------------------------
\* threadFunc: the EventLoop, and the callback on it.
Construct(i) ==
  /\ tpc[i] = "begin"
  /\ tpc' = [tpc EXCEPT ![i] = "constructed"]
  /\ UNCHANGED <<m_numberThreads, m_loop, m_quit, opc, pos, m_loops, askVars>>

\* threadFunc that does not notify.
Publish_Silent(i) ==
  /\ tpc[i] = "constructed"
  /\ m_loop' = [m_loop EXCEPT ![i] = TRUE]
  /\ tpc' = [tpc EXCEPT ![i] = "published"]
  /\ UNCHANGED <<m_numberThreads, m_quit, opc, pos, m_loops, askVars>>

\* m_loop and notify_all under the mutex.
Publish(i) ==
  /\ tpc[i] = "constructed"
  /\ m_loop' = [m_loop EXCEPT ![i] = TRUE]
  /\ tpc' = [tpc EXCEPT ![i] = "published"]
  /\ opc' = IF opc = "asleep" /\ pos = i THEN "wait" ELSE opc
  /\ UNCHANGED <<m_numberThreads, m_quit, pos, m_loops, askVars>>

\* loop() begins with m_quit = false, whoever called quit before.
EnterLoop(i) ==
  /\ tpc[i] = "published"
  /\ m_quit' = [m_quit EXCEPT ![i] = FALSE]
  /\ tpc' = [tpc EXCEPT ![i] = "test"]
  /\ UNCHANGED <<m_numberThreads, m_loop, opc, pos, m_loops, askVars>>

\* while(!m_quit): a pass; or the end of the thread, which clears m_loop and
\* lets the owner's join return.
TestQuit(i) ==
  /\ tpc[i] = "test"
  /\ tpc' = [tpc EXCEPT ![i] = IF m_quit[i] THEN "ended" ELSE "pass"]
  /\ m_loop' = [m_loop EXCEPT ![i] = ~m_quit[i]]
  /\ IF m_quit[i] /\ opc = "join" /\ pos = i THEN Onward(i, "quit", "stopped")
     ELSE UNCHANGED <<opc, pos>>
  /\ UNCHANGED <<m_numberThreads, m_quit, m_loops, askVars>>

EndOfPass(i) ==
  /\ tpc[i] = "pass"
  /\ tpc' = [tpc EXCEPT ![i] = "test"]
  /\ UNCHANGED <<m_numberThreads, m_loop, m_quit, opc, pos, m_loops, askVars>>

\* EventLoop::quit stores false, which is what m_quit is already: a call of quit
\* from elsewhere is no step.
QuitValue == FALSE

-----------------------------------------------------------------------------
\* m_next goes back to 0 one loop too early.
NextIndex_Early == IF m_next + 2 >= Len(m_loops) THEN 0 ELSE m_next + 1

\* ++m_next, and back to 0 at the end of the vector.
NextIndex == IF m_next + 1 >= Len(m_loops) THEN 0 ELSE m_next + 1

\* What m_loops[i] reads, for an index from 0: past the end, anything.
LoopAt(i) == IF i < Len(m_loops) THEN m_loops[i + 1] ELSE NullLoop

\* getNextLoop: the base loop if there is no other.
getNextLoop ==
  /\ opc = "running"
  /\ LET l == IF m_loops = <<>> THEN BaseLoop ELSE LoopAt(m_next)
     IN /\ l \in DOMAIN asked => asked[l] < MaxAsked
        /\ asked' = [x \in DOMAIN asked |-> IF x = l THEN asked[x] + 1 ELSE asked[x]]
        /\ handed' = handed \cup {l}
  /\ m_next' = IF m_loops = <<>> THEN m_next ELSE NextIndex
  /\ UNCHANGED <<m_numberThreads, threadVars, opc, pos, m_loops>>

\* GetLoopForHash; GetAllThreadLoop gives the base loop, or, with threads, runs
\* off the end of a function without a return.
GetLoopForHash(HashCode) ==
  /\ opc = "running"
  /\ handed' = handed \cup {IF m_loops = <<>> THEN BaseLoop
                            ELSE LoopAt(HashCode % Len(m_loops))}
  /\ UNCHANGED <<m_numberThreads, threadVars, opc, pos, m_loops, m_next, asked>>

-----------------------------------------------------------------------------
\* stop: stopLoop of each thread, that is, quit and join.
PoolStop ==
  /\ opc = "running"
  /\ Onward(0, "quit", "stopped")
  /\ UNCHANGED <<m_numberThreads, threadVars, m_loops, askVars>>

stopLoop ==
  /\ opc = "quit"
  /\ m_quit' = [m_quit EXCEPT ![pos] = QuitValue]
  /\ opc' = "join"
  /\ UNCHANGED <<m_numberThreads, tpc, m_loop, pos, m_loops, askVars>>

ThreadStep(i) ==
  Construct(i) \/ Publish(i) \/ EnterLoop(i) \/ TestQuit(i) \/ EndOfPass(i)

LoopThreadsNext ==
  \/ PoolStart \/ CreateThread \/ Sleep \/ SpuriousWake \/ LoopPublished
  \/ getNextLoop \/ (\E h \in 0..MaxThreads : GetLoopForHash(h))
  \/ PoolStop \/ stopLoop
  \/ \E i \in LoopIds : ThreadStep(i)

LoopThreadsSpec == LoopThreadsInit /\ [][LoopThreadsNext]_loopVars

\* The threads run, and the owner runs inside start.
ThreadsRun ==
  /\ WF_loopVars(CreateThread \/ Sleep \/ LoopPublished)
  /\ \A i \in LoopIds : WF_loopVars(ThreadStep(i))

-----------------------------------------------------------------------------
LoopThreadsTypeOK ==
  /\ m_numberThreads \in 0..MaxThreads
  /\ tpc \in [LoopIds -> {"none", "begin", "constructed", "published", "test",
                          "pass", "ended"}]
  /\ m_loop \in [LoopIds -> BOOLEAN]
  /\ m_quit \in [LoopIds -> BOOLEAN]
  /\ opc \in {"init", "create", "wait", "asleep", "running", "quit", "join", "stopped"}
  /\ pos \in 1..(MaxThreads + 1)
  /\ m_loops \in Seq(LoopIds)
  /\ m_next \in Nat
  /\ asked \in [0..MaxThreads -> Nat]
  /\ handed \subseteq 0..MaxThreads

\* The pool hands out no null pointer, and until stop is called a loop that it has
\* handed out lives: its object, which is on its thread's stack, is published and its
\* thread has not left threadFunc.  startLoop's wait is what makes it so
\* (EventLoopThread.cpp:32), however the new thread is scheduled.
HandedOutLive ==
  \A l \in handed \ {BaseLoop} :
    /\ l \in LoopIds
    /\ opc = "running" => m_loop[l] /\ tpc[l] \in {"published", "test", "pass"}

\* getNextLoop is fair: it never gives one loop two turns more than another
\* (EventLoopThreadPool.cpp:64-69).
TurnsAreFair ==
  opc = "running" => \A i, j \in 1..m_numberThreads : asked[i] <= asked[j] + 1

\* What the pool promises a server: its vector holds no null loop, and the loops it has
\* handed out live until it is stopped.
LoopsServe == LoopThreadsTypeOK /\ HandedOutLive

\* start returns: the notification of a thread that publishes its loop before
\* the owner sleeps, or while it tests, is not lost (EventLoopThread.cpp:27-38,
\* 54-58).
StartReturns == (opc \in {"create", "wait", "asleep"}) ~> (opc = "running")
=============================================================================
