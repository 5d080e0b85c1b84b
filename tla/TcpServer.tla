------------------------------- MODULE TcpServer -------------------------------
(***************************************************************************)
(* Net/TcpServer.cpp, Net/TcpConnection.cpp, Net/KaAcceptor.cpp and the    *)
(* parts of Net/KaSocket.cpp they use: a listening socket, the map of      *)
(* connections, and the life of a connection, as steps of the threads that *)
(* run the handlers.                                                       *)
(*                                                                         *)
(* Thread 0 runs the base loop, threads 1..workers the loops of the pool,  *)
(* and Outside is a thread of the application that kept a pointer it was   *)
(* called with.  The handlers run when a channel's dispatcher calls what   *)
(* the constructors bound to it (KaAcceptor.cpp:19, TcpConnection.cpp:37); *)
(* dispatches says whether that ever happens.  As the code stands it is    *)
(* FALSE: no channel is registered and handleEventWithGuard is empty (see  *)
(* Reactor); TRUE is the reactor the handlers are written for.             *)
(***************************************************************************)
EXTENDS Integers, Sequences, FiniteSets

CONSTANTS MaxConns,     \* bound: connections accepted
          MaxReads,     \* bound: messages read from one connection
          MaxWorkers,   \* bound: workThreadCount
          MaxDepth,     \* bound: frames under which a callback closes again
          Radix,        \* digits of a number are printed in this base (10)
          Rooms         \* digits that may be left in newConnection's buf[32]

ASSUME TcpServerAssumption ==
  /\ MaxConns \in Nat /\ MaxReads \in Nat /\ MaxWorkers \in Nat
  /\ MaxDepth \in Nat
  /\ Radix \in Nat \ {0, 1} /\ Rooms \subseteq Nat \ {0}

Conns == 1..MaxConns
Outside == MaxWorkers + 1
Threads == 0..Outside
NoConn == 0
Null == -1              \* an entry whose pointer stop() has reset

VARIABLES dispatches,
          outside,      \* another thread uses connections, too
          nameRoom,     \* how many digits of m_nextConnId fit behind m_hostPort
          socket,       \* what became of the listening socket
          m_listening,
          accepting,    \* the kernel watches the listening socket
          m_started, workers,
          stopped,      \* stop() has been called
          m_nextConnId,
          m_connections, \* [name -> connection, NoConn or Null]
          m_state, watched, loopOf,     \* of each connection
          reads, gone,  \* messages read, and whether the peer has closed
          notified,     \* the calls of m_connectionCallback and m_messageCallback
          destroyed,    \* how often connectDestroyed was called
          stream,       \* what the peer has got: all bytes in order, or not
          at            \* [Threads -> where it is, and in which connection]

serverVars == <<socket, m_listening, accepting, m_started, workers, stopped>>
mapVars == <<m_nextConnId, m_connections, loopOf>>
connVars == <<m_state, watched, reads, gone, notified, destroyed, stream>>
envVars == <<dispatches, outside, nameRoom>>
tcpVars == <<envVars, serverVars, mapVars, connVars, at>>

\* The frames of a thread's stack, innermost first.
Idle == <<>>
Frame(pc, c) == [pc |-> pc, conn |-> c]
Here(t, pc, c) == at[t] # Idle /\ Head(at[t]) = Frame(pc, c)
begin(t, pc, c) == at' = [at EXCEPT ![t] = <<Frame(pc, c)>>]
goto(t, pc, c) == at' = [at EXCEPT ![t] = <<Frame(pc, c)>> \o Tail(@)]
return(t) == at' = [at EXCEPT ![t] = Tail(@)]

\* snprintf into buf[32]: of a number that is too long only the first digits.
Name(id) ==
  IF id < Radix ^ nameRoom THEN id
  ELSE CHOOSE first \in Radix ^ (nameRoom - 1) .. Radix ^ nameRoom - 1 :
         \E k \in 1..id : first = id \div Radix ^ k

\* What bind, whose result is not looked at, leaves; and what listen makes of it:
\* a socket without an address gets one that is free.
Bound == {"bound", "unbound"}
Listened == {socket, IF socket = "bound" THEN "listening" ELSE "elsewhere"}

\* The constructors.
TcpInit ==
  /\ dispatches \in BOOLEAN /\ outside \in BOOLEAN /\ nameRoom \in Rooms
  /\ socket \in Bound /\ m_listening = FALSE /\ accepting = FALSE
  /\ m_started = 0 /\ workers = 0 /\ stopped = FALSE
  /\ m_nextConnId = 1 /\ m_connections = [n \in Conns |-> NoConn]
  /\ loopOf = [c \in Conns |-> 0]
  /\ m_state = [c \in Conns |-> "none"]
  /\ watched = [c \in Conns |-> FALSE]
  /\ reads = [c \in Conns |-> 0] /\ gone = [c \in Conns |-> FALSE]
  /\ notified = [c \in Conns |-> <<>>]
  /\ destroyed = [c \in Conns |-> 0]
  /\ stream = [c \in Conns |-> "whole"]
  /\ at = [t \in Threads |-> Idle]

Inside(c) == \E t \in Threads : \E i \in DOMAIN at[t] : at[t][i].conn = c
Alive(c) == Inside(c) \/ \E n \in Conns : m_connections[n] = c

-----------------------------------------------------------------------------
\* KaAcceptor::listen sets m_listening whatever listen and enableReading answer.
listen ==
  /\ m_listening' = TRUE
  /\ socket' \in Listened
  /\ accepting' \in {accepting, dispatches}

\* start: a new pool, and the acceptor listens.
start(workThreadCount) ==
  /\ m_started = 0 /\ at[0] = Idle
  /\ workers' = workThreadCount
  /\ listen
  /\ m_started' = 1
  /\ UNCHANGED <<envVars, stopped, mapVars, connVars, at>>

\* stop, in a timer's callback or from the destructor: the pointers are reset
\* and stay in the map as null pointers; the pool's threads are then joined,
\* which never returns (see LoopThreads).  On such an entry a later stop calls
\* connectDestroyed, whose body is empty, through the null pointer; it is counted
\* for no connection.
stop ==
  /\ m_started = 1 /\ at[0] = Idle
  /\ stopped' = TRUE
  /\ destroyed' = [c \in Conns |-> IF c \in {m_connections[n] : n \in Conns}
                                   THEN destroyed[c] + 1 ELSE destroyed[c]]
  /\ m_connections' = [n \in Conns |-> IF m_connections[n] = NoConn THEN NoConn
                                       ELSE Null]
  /\ IF workers = 0 THEN m_started' = 0 /\ UNCHANGED at
     ELSE UNCHANGED m_started /\ begin(0, "joining", NoConn)
  /\ UNCHANGED <<envVars, socket, m_listening, accepting, workers,
                 m_nextConnId, loopOf, m_state, watched, reads, gone, notified, stream>>

\* TcpConnection::TcpConnection, with the loop that the pool gives.
MakeConnection(c) ==
  /\ m_state' = [m_state EXCEPT ![c] = "Connecting"]
  /\ loopOf' = [loopOf EXCEPT ![c] = IF workers = 0 THEN 0 ELSE 1 + ((c - 1) % workers)]

\* KaAcceptor::handleRead and newConnection up to the connection's constructor.
Accept ==
  /\ accepting /\ socket \in {"listening", "elsewhere"} /\ at[0] = Idle
  /\ m_nextConnId <= MaxConns
  /\ m_nextConnId' = m_nextConnId + 1
  /\ MakeConnection(m_nextConnId)
  /\ begin(0, "insert", m_nextConnId)
  /\ UNCHANGED <<envVars, serverVars, m_connections, watched, reads,
                 gone, notified, destroyed, stream>>

\* m_connections[connName] = conn: an entry of that name is overwritten.
Insert(t, c) ==
  /\ Here(t, "insert", c)
  /\ m_connections' = [m_connections EXCEPT ![Name(c)] = c]
  /\ goto(t, "establish", c)
  /\ UNCHANGED <<envVars, serverVars, m_nextConnId, loopOf, connVars>>

\* connectEatablished, on the acceptor's thread: m_state, then enableReading.
Establish(t, c) ==
  /\ Here(t, "establish", c)
  /\ IF m_state[c] = "Connecting"
     THEN m_state' = [m_state EXCEPT ![c] = "Connected"] /\ goto(t, "enable", c)
     ELSE return(t) /\ UNCHANGED m_state
  /\ UNCHANGED <<envVars, serverVars, mapVars, watched, reads, gone,
                 notified, destroyed, stream>>

Enable(t, c) ==
  /\ Here(t, "enable", c)
  /\ \/ watched' = [watched EXCEPT ![c] = TRUE] /\ goto(t, "up", c)
     \/ goto(t, "closeTest", c) /\ UNCHANGED watched
  /\ UNCHANGED <<envVars, serverVars, mapVars, m_state, reads, gone,
                 notified, destroyed, stream>>

\* A callback of the application begins; rest is what the handler does then.
Notify(t, c, what, rest) ==
  /\ notified' = [notified EXCEPT ![c] = Append(@, what)]
  /\ at' = [at EXCEPT ![t] = <<Frame("user", c)>> \o rest \o Tail(@)]

Opened(t, c) ==
  /\ Here(t, "up", c)
  /\ Notify(t, c, "up", <<>>)
  /\ UNCHANGED <<envVars, serverVars, mapVars, m_state, watched, reads,
                 gone, destroyed, stream>>

-----------------------------------------------------------------------------
\* handleRead, called by the loop of the connection; the channel's tie keeps
\* the connection alive.
HandleRead(t, c) ==
  /\ at[t] = Idle /\ loopOf[c] = t /\ watched[c] /\ Alive(c)
  /\ gone[c] \/ reads[c] < MaxReads
  /\ begin(t, "read", c)
  /\ UNCHANGED <<envVars, serverVars, mapVars, connVars>>

ReadData(t, c) ==
  /\ Here(t, "read", c) /\ reads[c] < MaxReads
  /\ reads' = [reads EXCEPT ![c] = @ + 1]
  /\ Notify(t, c, "message", <<>>)
  /\ UNCHANGED <<envVars, serverVars, mapVars, m_state, watched, gone,
                 destroyed, stream>>

\* No bytes: the peer has closed (handleClose) or failed (handleError).
ReadEnd(t, c) ==
  /\ Here(t, "read", c) /\ gone[c]
  /\ goto(t, "closeTest", c)
  /\ UNCHANGED <<envVars, serverVars, mapVars, connVars>>

\* The peer closes its end, or the connection fails.
PeerCloses(c) ==
  /\ m_state[c] # "none" /\ ~gone[c]
  /\ gone' = [gone EXCEPT ![c] = TRUE]
  /\ UNCHANGED <<envVars, serverVars, mapVars, m_state, watched, reads,
                 notified, destroyed, stream, at>>

-----------------------------------------------------------------------------
\* Another thread calls a function of a connection it was told of.
OutsideCalls(c) ==
  /\ outside /\ at[Outside] = Idle /\ notified[c] # <<>> /\ Alive(c)
  /\ begin(Outside, "user", c)
  /\ UNCHANGED <<envVars, serverVars, mapVars, connVars>>

\* The application returns from its callback.
UserReturns(t, c) ==
  /\ Here(t, "user", c)
  /\ return(t)
  /\ UNCHANGED <<envVars, serverVars, mapVars, connVars>>

\* send(data, len): one write; what the socket does not take is dropped, and
\* the next send goes on behind the gap.  The write-complete callback, which send
\* calls when all went out (TcpConnection.cpp:59-62), has no frame of its own:
\* send leaves the connection as it was, so what that callback calls is what
\* the application's callback may call in place of send.
send(t, c) ==
  /\ Here(t, "user", c) /\ m_state[c] = "Connected"
  /\ \E part \in {"all", "some", "none"} :
       stream' = [stream EXCEPT ![c] =
                    IF part # "all" /\ @ = "whole" THEN "cut"
                    ELSE IF part # "none" /\ @ = "cut" THEN "torn" ELSE @]
  /\ return(t)
  /\ UNCHANGED <<envVars, serverVars, mapVars, m_state, watched, reads,
                 gone, notified, destroyed>>

\* shutdown and forceClose test m_state, and set it in a later step.
\* shutdownWrite is never called: no channel isWriting.
shutdown(t, c) ==
  /\ Here(t, "user", c) /\ m_state[c] = "Connected"
  /\ goto(t, "shutSet", c)
  /\ UNCHANGED <<envVars, serverVars, mapVars, connVars>>

\* forceClose that does not test.
forceClose_Always(t, c) ==
  /\ Here(t, "user", c) /\ Len(at[t]) <= MaxDepth
  /\ goto(t, "forceSet", c)
  /\ UNCHANGED <<envVars, serverVars, mapVars, connVars>>

forceClose(t, c) ==
  /\ Here(t, "user", c)
  /\ m_state[c] \in {"Connected", "Disconnecting"} /\ Len(at[t]) <= MaxDepth
  /\ goto(t, "forceSet", c)
  /\ UNCHANGED <<envVars, serverVars, mapVars, connVars>>

SetDisconnecting(t, c) ==
  /\ Here(t, "shutSet", c) \/ Here(t, "forceSet", c)
  /\ m_state' = [m_state EXCEPT ![c] = "Disconnecting"]
  /\ IF Here(t, "forceSet", c) THEN goto(t, "closeTest", c) ELSE return(t)
  /\ UNCHANGED <<envVars, serverVars, mapVars, watched, reads, gone,
                 notified, destroyed, stream>>

-----------------------------------------------------------------------------
\* handleClose: the test of m_state;
CloseTest(t, c) ==
  /\ Here(t, "closeTest", c)
  /\ IF m_state[c] = "DisConnected" THEN return(t) ELSE goto(t, "closeSet", c)
  /\ UNCHANGED <<envVars, serverVars, mapVars, connVars>>

\* the change comes only after the callback: here it is left out;
CloseSet_StateKept(t, c) ==
  /\ Here(t, "closeSet", c)
  /\ watched' = [watched EXCEPT ![c] = FALSE]
  /\ goto(t, "down", c)
  /\ UNCHANGED <<envVars, serverVars, mapVars, m_state, reads, gone, notified,
                 destroyed, stream>>

\* its change, and disableAll;
CloseSet(t, c) ==
  /\ Here(t, "closeSet", c)
  /\ m_state' = [m_state EXCEPT ![c] = "DisConnected"]
  /\ watched' = [watched EXCEPT ![c] = FALSE]
  /\ goto(t, "down", c)
  /\ UNCHANGED <<envVars, serverVars, mapVars, reads, gone, notified,
                 destroyed, stream>>

\* the connection callback, and no close callback after it;
Closed_NotRemoved(t, c) ==
  /\ Here(t, "down", c)
  /\ Notify(t, c, "down", <<>>)
  /\ UNCHANGED <<envVars, serverVars, mapVars, m_state, watched, reads,
                 gone, destroyed, stream>>

\* the connection callback;
Closed(t, c) ==
  /\ Here(t, "down", c)
  /\ Notify(t, c, "down", <<Frame("remove", c)>>)
  /\ UNCHANGED <<envVars, serverVars, mapVars, m_state, watched, reads,
                 gone, destroyed, stream>>

\* removeConnectionInLoop that does not look at what erase returned;
removeConnectionInLoop_Always(c) ==
  /\ m_connections' = [m_connections EXCEPT ![Name(c)] = NoConn]
  /\ destroyed' = [destroyed EXCEPT ![c] = @ + 1]

\* erase by the name: connectDestroyed only for the one that erased something;
removeConnectionInLoop(c) ==
  /\ m_connections' = [m_connections EXCEPT ![Name(c)] = NoConn]
  /\ destroyed' = IF m_connections[Name(c)] = NoConn THEN destroyed
                  ELSE [destroyed EXCEPT ![c] = @ + 1]

\* and m_CloseCallback, which is removeConnection, on the thread that closes.
removeConnection(t, c) ==
  /\ Here(t, "remove", c)
  /\ removeConnectionInLoop(c)
  /\ return(t)
  /\ UNCHANGED <<envVars, serverVars, m_nextConnId, loopOf, m_state,
                 watched, reads, gone, notified, stream>>

\* What a thread does once it is inside a connection.
InConnection(t, c) ==
  \/ Insert(t, c) \/ Establish(t, c) \/ Enable(t, c) \/ Opened(t, c)
  \/ ReadData(t, c) \/ ReadEnd(t, c)
  \/ UserReturns(t, c) \/ send(t, c) \/ shutdown(t, c) \/ forceClose(t, c)
  \/ SetDisconnecting(t, c)
  \/ CloseTest(t, c) \/ CloseSet(t, c) \/ Closed(t, c)
  \/ removeConnection(t, c)

TcpNext ==
  \/ \E w \in 0..MaxWorkers : start(w)
  \/ stop \/ Accept
  \/ \E t \in Threads, c \in Conns : HandleRead(t, c) \/ InConnection(t, c)
  \/ \E c \in Conns : PeerCloses(c) \/ OutsideCalls(c)

TcpSpec == TcpInit /\ [][TcpNext]_tcpVars

\* The threads run, callbacks return, and a loop handles what is ready.
TcpRuns ==
  \A t \in Threads, c \in Conns :
    WF_tcpVars(InConnection(t, c)) /\ WF_tcpVars(HandleRead(t, c))

-----------------------------------------------------------------------------
TcpTypeOK ==
  /\ dispatches \in BOOLEAN /\ outside \in BOOLEAN /\ nameRoom \in Rooms
  /\ socket \in {"bound", "unbound", "listening", "elsewhere"}
  /\ m_listening \in BOOLEAN /\ accepting \in BOOLEAN
  /\ m_started \in {0, 1} /\ workers \in 0..MaxWorkers /\ stopped \in BOOLEAN
  /\ m_nextConnId \in 1..(MaxConns + 1)
  /\ m_connections \in [Conns -> Conns \cup {NoConn, Null}]
  /\ m_state \in [Conns -> {"none", "Connecting", "Connected", "Disconnecting",
                            "DisConnected"}]
  /\ watched \in [Conns -> BOOLEAN]
  /\ loopOf \in [Conns -> 0..MaxWorkers]
  /\ reads \in [Conns -> 0..MaxReads]
  /\ gone \in [Conns -> BOOLEAN]
  /\ \A c \in Conns : notified[c] \in Seq({"up", "message", "down"})
  /\ destroyed \in [Conns -> Nat]
  /\ stream \in [Conns -> {"whole", "cut", "torn"}]
  /\ \A t \in Threads : at[t] \in
       Seq([pc : {"joining", "insert", "establish", "enable", "up", "read", "user",
                  "shutSet", "forceSet", "closeTest", "closeSet", "down", "remove"},
            conn : Conns \cup {NoConn}])

\* Only the base loop's thread uses connections: there are no workers, and the
\* application calls nothing from elsewhere.
Confined == workers = 0 /\ ~outside

DistinctNames == m_nextConnId <= Radix ^ nameRoom

Count(c, what) == Cardinality({i \in DOMAIN notified[c] : notified[c][i] = what})

\* With one thread the application is told of a connection in order: it is up
\* at most once and before any message, it is down at most once and after all
\* of them, even if a callback closes the connection again
\* (TcpConnection.cpp:198-201).  With more threads none of this holds: the acceptor's thread may be
\* behind the loop's (TcpServer.cpp:84), and two may close (TcpConnection.cpp:194).
NotifiedInOrder ==
  Confined => \A c \in Conns :
    LET n == notified[c] IN
    /\ Count(c, "up") <= 1 /\ Count(c, "down") <= 1
    /\ \A i \in DOMAIN n : /\ n[i] = "up" => i = 1
                           /\ n[i] = "message" => n[1] = "up"
                           /\ n[i] = "down" => i = Len(n)

\* A connection that the kernel watches is in the map, under a name of its own,
\* on whatever thread it was closed or is being closed: a connection that can
\* still get events is never lost.  That ends with the first number that does
\* not fit into the name (TcpServer.cpp:72), and with stop.
WatchedIsKept ==
  DistinctNames /\ ~stopped =>
    \A c \in Conns : watched[c] => m_connections[Name(c)] = c

\* Once nobody is inside a connection that is DisConnected, the map does not
\* hold it any more, whichever threads closed it: no descriptor is leaked
\* (TcpConnection.cpp:193-203, TcpServer.cpp:89-98).
ClosedLeavesTheMap ==
  \A c \in Conns : m_state[c] = "DisConnected" /\ ~Inside(c) =>
    \A n \in Conns : m_connections[n] # c

\* m_connections against the connections: it holds every connection that can still
\* get events and none that is closed, whichever threads accept and close.
MapHoldsTheLive == TcpTypeOK /\ WatchedIsKept /\ ClosedLeavesTheMap

\* connectDestroyed is called at most once for a connection, even if two
\* threads close it at the same time, as long as names are distinct and stop,
\* which calls it as well, has not run (TcpServer.cpp:90-96).
DestroyedOnce ==
  DistinctNames /\ ~stopped => \A c \in Conns : destroyed[c] <= 1

\* With one thread the state of a connection never goes back; another thread's
\* shutdown or forceClose may set Disconnecting after DisConnected
\* (TcpConnection.cpp:91-93, 103-105).
Rank == [none |-> 0, Connecting |-> 1, Connected |-> 2, Disconnecting |-> 3,
         DisConnected |-> 4]
StateGoesForward ==
  [][Confined' => \A c \in Conns : Rank[m_state[c]] <= Rank[m_state'[c]]]_tcpVars

\* A connection whose peer is gone, and which the kernel watches, is taken out
\* of the map in the end (TcpConnection.cpp:149-157, TcpServer.cpp:89-98).
GoneIsRemoved ==
  \A c \in Conns : gone[c] /\ watched[c] ~> \A n \in Conns : m_connections[n] # c

\* The header says of listen that from then on the socket is listened on
\* (KaAcceptor.h:35): a loop would have to watch it.
ListeningIsWatched == m_listening => accepting

\* The header calls m_outputBuffer the buffer for what is to be sent
\* (TcpConnection.h:131): with it no byte is lost and none is out of order.
NothingIsDropped == \A c \in Conns : stream[c] = "whole"
=============================================================================
