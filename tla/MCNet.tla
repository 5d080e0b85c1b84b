-------------------------------- MODULE MCNet --------------------------------
(***************************************************************************)
(* The reactor, the loop threads and the server, one at a time: part is    *)
(* chosen at first and never changes, the variables of the other parts     *)
(* keep their first values.                                                *)
(***************************************************************************)
EXTENDS Reactor, LoopThreads, TcpServer

CONSTANTS Parts, ch1, ch2, wake

VARIABLE part

netVars == <<part, reactorVars, loopVars, tcpVars>>

NetInit ==
  /\ part \in Parts
  /\ ReactorInit /\ LoopThreadsInit /\ TcpInit
  /\ part = "threads" \/ m_numberThreads = 0
  /\ CASE part = "one" -> nameRoom = 1
       [] part = "two" -> socket = "bound" /\ (outside => nameRoom = 2)
       [] OTHER -> ~dispatches /\ ~outside /\ nameRoom = 1 /\ socket = "bound"

\* One channel besides the loop's own, and every mask.
Masks == part = "masks" /\ ReactorNext /\ fd'[ch2] = None

\* Two channels, and two masks.
Live ==
  /\ part = "live" /\ ReactorNext
  /\ \A c \in {ch1, ch2} : events'[c] \in {{}, {"in"}}
  /\ \A f \in Fds : ready'[f] \in {{}, EventTypes}

\* One connection, or the server as the code stands (dispatches is FALSE); and two, which
\* carry no data, on one loop.
One == part \in {"one", "as_is"} /\ TcpNext /\ m_nextConnId' <= 2
       /\ (outside => stream' = stream /\ (workers' = 0 \/ (reads' = reads /\ ~stopped')))
Two == part = "two" /\ TcpNext /\ workers' = 0 /\ ~stopped' /\ reads' = reads /\ stream' = stream

NetNext ==
  /\ UNCHANGED part
  /\ \/ (Masks \/ Live) /\ UNCHANGED <<loopVars, tcpVars>>
     \/ part = "threads" /\ LoopThreadsNext /\ UNCHANGED <<reactorVars, tcpVars>>
     \/ (One \/ Two) /\ UNCHANGED <<reactorVars, loopVars>>

\* The fairness of the part: LoopRuns, ThreadsRun and TcpRuns.
Reacts == part \in {"masks", "live"}
Serves == part \in {"one", "two"}
Owns == CreateThread \/ Sleep \/ LoopPublished

NetFair ==
  /\ WF_netVars(Reacts /\ LoopStep /\ UNCHANGED <<part, loopVars, tcpVars>>)
  /\ WF_netVars(part = "threads" /\ Owns /\ UNCHANGED <<part, reactorVars, tcpVars>>)
  /\ \A i \in LoopIds :
       WF_netVars(part = "threads" /\ ThreadStep(i) /\ UNCHANGED <<part, reactorVars, tcpVars>>)
  /\ \A t \in Threads, c \in Conns :
       /\ WF_netVars(Serves /\ InConnection(t, c) /\ UNCHANGED <<part, reactorVars, loopVars>>)
       /\ WF_netVars(Serves /\ HandleRead(t, c) /\ UNCHANGED <<part, reactorVars, loopVars>>)

NetSpec == NetInit /\ [][NetNext]_netVars /\ NetFair
==============================================================================
