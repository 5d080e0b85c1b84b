--------------------------- MODULE TcpServerProofs ---------------------------
(***************************************************************************)
(* Proofs about TcpServer, for any number of connections, threads and      *)
(* frames and any length of the names.  IInv is what holds on any threads, *)
(* ConfInv what one thread adds.                                           *)
(***************************************************************************)
EXTENDS TcpServer, SequenceTheorems, FiniteSetTheorems, TLAPS

PCs == {"joining", "insert", "establish", "enable", "up", "read", "user", "shutSet",
        "forceSet", "closeTest", "closeSet", "down", "remove"}
FrameType == [pc : PCs, conn : Conns \cup {NoConn}]

\* The frames of a stack.
FramesOf(s) == {s[i] : i \in DOMAIN s}
Frames(t) == FramesOf(at[t])

\* Thread t is in connection c at a step of P.
In(t, c, P) == \E f \in Frames(t) : f.conn = c /\ f.pc \in P
Anywhere(c, P) == \E t \in Threads : In(t, c, P)

\* A thread is in one connection at a time, and in one that was accepted.
OneEach ==
  \A t \in Threads : \A f, g \in Frames(t) : f.conn = g.conn

OnlyAccepted ==
  \A t \in Threads : \A f \in Frames(t) :
    \/ f.conn \in Conns /\ f.conn < m_nextConnId
    \/ f = Frame("joining", NoConn)

\* A number that was not given yet is nobody's.
Untouched(c) ==
  /\ m_state[c] = "none" /\ ~watched[c] /\ notified[c] = <<>> /\ destroyed[c] = 0
  /\ \A n \in Conns : m_connections[n] # c

\* A connection that is being made is in the hands of the base loop alone.
Fresh(t, f) ==
  LET c == f.conn IN
  /\ t = 0 /\ at[0] = <<f>>
  /\ \A u \in Threads \ {0} : \A g \in Frames(u) : g.conn # c
  /\ ~watched[c] /\ notified[c] = <<>> /\ destroyed[c] = 0
  /\ m_state[c] = IF f.pc = "enable" THEN "Connected" ELSE "Connecting"
  /\ f.pc # "insert" /\ DistinctNames /\ ~stopped => m_connections[Name(c)] = c

MakesFresh ==
  /\ \A c \in Conns : c >= m_nextConnId => Untouched(c)
  /\ \A t \in Threads : \A f \in Frames(t) :
       f.pc \in {"insert", "establish", "enable"} => Fresh(t, f)

\* What the kernel watches is in the map and nobody has begun to take it out.
WatchedInv ==
  \A c \in Conns : watched[c] =>
    /\ ~Anywhere(c, {"down", "remove"})
    /\ DistinctNames /\ ~stopped => m_connections[Name(c)] = c

\* An entry is that of its connection's name.
MapInv ==
  \A n \in Conns : /\ \A c \in Conns : m_connections[n] = c => Name(c) = n
                   /\ ~stopped => m_connections[n] # Null

DestroyedInv ==
  DistinctNames /\ ~stopped => \A c \in Conns :
    /\ destroyed[c] <= 1
    /\ m_connections[Name(c)] = c => destroyed[c] = 0

\* Who closes a connection takes it out of the map.
ClosedInv ==
  \A c \in Conns : m_state[c] = "DisConnected" =>
    \/ \A n \in Conns : m_connections[n] # c
    \/ Anywhere(c, {"down", "remove"})

\* Workers are there from a start on which no further start follows.
WorkersStay ==
  /\ m_started = 0 => workers = 0
  /\ workers = 0 => \A c \in Conns : loopOf[c] = 0

IInv ==
  /\ TcpTypeOK
  /\ at \in [Threads -> Seq(FrameType)]
  /\ notified \in [Conns -> Seq({"up", "message", "down"})]
  /\ OneEach /\ OnlyAccepted /\ MakesFresh /\ WatchedInv /\ MapInv
  /\ DestroyedInv /\ ClosedInv /\ WorkersStay

-----------------------------------------------------------------------------
\* What the application was told while the connection was up.
Open(n) == \A i \in DOMAIN n : n[i] = IF i = 1 THEN "up" ELSE "message"

\* ... and after it was closed.
Shut(n) ==
  /\ n # <<>> /\ n[Len(n)] = "down"
  /\ \A i \in 1..(Len(n) - 1) : n[i] = IF i = 1 THEN "up" ELSE "message"

Up == {"Connected", "Disconnecting"}

\* Thread 0 is in one frame.
In0(pc, c) == at[0] = <<Frame(pc, c)>>

\* A callback of handleClose, which goes on with m_CloseCallback.
Leaving(c) == <<Frame("user", c), Frame("remove", c)>>

\* The state and the calls so far say each other, but where thread 0 is between them.
Told(c) ==
  LET n == notified[c] IN
  /\ m_state[c] \in {"none", "Connecting"} => n = <<>>
  /\ m_state[c] \in Up => Open(n)
  /\ m_state[c] = "DisConnected" => IF In0("down", c) THEN Open(n) ELSE Shut(n)
  /\ watched[c] => m_state[c] \in Up /\ (n # <<>> \/ In0("up", c))

\* What the base loop knows of connection c at step pc.
Knows(pc, c) ==
  /\ pc = "up" => m_state[c] = "Connected" /\ notified[c] = <<>> /\ watched[c]
  /\ pc \in {"read", "user", "shutSet", "forceSet", "closeTest", "closeSet"} =>
       m_state[c] \in Up
  /\ pc \in {"read", "user", "shutSet", "forceSet"} => notified[c] # <<>>
  /\ pc \in {"down", "remove"} => m_state[c] = "DisConnected"

\* Where the base loop is, in a stack of at most two frames.
Steps ==
  \/ at[0] = <<>>
  \/ \E pc \in PCs, c \in Conns : In0(pc, c) /\ Knows(pc, c)
  \/ \E c \in Conns : at[0] = Leaving(c) /\ m_state[c] = "DisConnected"

\* The base loop is the only thread.
Solo ==
  /\ \A t \in Threads \ {0} : at[t] = <<>>
  /\ Steps
  /\ \A c \in Conns : Told(c)

ConfInv == Confined => Solo

-----------------------------------------------------------------------------
(* Stacks.                                                                 *)

\* A frame on top of a stack.
LEMMA Pushed ==
  ASSUME NEW s \in Seq(FrameType), NEW f \in FrameType
  PROVE  /\ <<f>> \o s \in Seq(FrameType) /\ <<f>> \o s # <<>>
         /\ FramesOf(<<f>> \o s) = {f} \cup FramesOf(s)
         /\ Head(<<f>> \o s) = f /\ Tail(<<f>> \o s) = s
         /\ Len(<<f>> \o s) = Len(s) + 1
<1> DEFINE p == <<f>> \o s
<1>1. <<f>> \in Seq(FrameType) /\ Len(<<f>>) = 1 /\ <<f>>[1] = f
  OBVIOUS
<1>2. /\ p \in Seq(FrameType) /\ Len(p) = Len(s) + 1 /\ p[1] = f
      /\ \A i \in 1..Len(s) : p[i + 1] = s[i]
  BY <1>1, ConcatProperties
<1>3. p # <<>> /\ Head(p) = f /\ Tail(p) = s
  <2>1. p # <<>>
    BY <1>2, EmptySeq
  <2>2. Tail(p) \in Seq(FrameType) /\ Len(Tail(p)) = Len(s)
        /\ \A i \in 1..Len(s) : Tail(p)[i] = p[i + 1]
    BY <1>2, <2>1, HeadTailProperties
  <2>3. Tail(p) = s
    BY <1>2, <2>2, SeqEqual
  <2> QED
    BY <1>2, <2>1, <2>3
<1>4. FramesOf(p) = {f} \cup FramesOf(s)
  <2>1. DOMAIN p = 1..(Len(s) + 1) /\ DOMAIN s = 1..Len(s) /\ Len(s) \in Nat
    BY <1>2, LenProperties
  <2>2. ASSUME NEW g \in FramesOf(p) PROVE g \in {f} \cup FramesOf(s)
    <3>1. PICK i \in 1..(Len(s) + 1) : g = p[i]
      BY <2>1 DEF FramesOf
    <3>2. CASE i = 1
      BY <3>1, <3>2, <1>2
    <3>3. CASE i # 1
      <4>1. i - 1 \in 1..Len(s) /\ (i - 1) + 1 = i
        BY <3>3, <2>1
      <4>2. g = s[i - 1]
        BY <4>1, <3>1, <1>2
      <4> QED
        BY <4>1, <4>2, <2>1 DEF FramesOf
    <3> QED
      BY <3>2, <3>3
  <2>3. ASSUME NEW g \in FramesOf(s) PROVE g \in FramesOf(p)
    <3>1. PICK i \in 1..Len(s) : g = s[i]
      BY <2>1 DEF FramesOf
    <3>2. i + 1 \in 1..(Len(s) + 1) /\ g = p[i + 1]
      BY <3>1, <1>2, <2>1
    <3> QED
      BY <3>2, <2>1 DEF FramesOf
  <2>4. f \in FramesOf(p)
    BY <1>2, <2>1 DEF FramesOf
  <2> QED
    BY <2>2, <2>3, <2>4
<1> QED
  BY <1>2, <1>3, <1>4

\* The parts of a stack may be put together in any order.
LEMMA ThreeParts ==
  ASSUME NEW f \in FrameType, NEW r \in Seq(FrameType), NEW s \in Seq(FrameType)
  PROVE  <<f>> \o r \o s = <<f>> \o (r \o s)
<1>1. <<f>> \in Seq(FrameType)
  OBVIOUS
<1> QED
  BY <1>1, ConcatAssociative

\* A stack is its top on what is under it.
LEMMA Popped ==
  ASSUME NEW s \in Seq(FrameType), s # <<>>
  PROVE  /\ Head(s) \in FrameType /\ Tail(s) \in Seq(FrameType)
         /\ s = <<Head(s)>> \o Tail(s)
         /\ FramesOf(s) = {Head(s)} \cup FramesOf(Tail(s))
         /\ Len(Tail(s)) = Len(s) - 1
<1>1. Head(s) \in FrameType /\ Tail(s) \in Seq(FrameType) /\ Len(Tail(s)) = Len(s) - 1
      /\ \A i \in 1..Len(Tail(s)) : Tail(s)[i] = s[i + 1]
  BY HeadTailProperties
<1>2. s = <<Head(s)>> \o Tail(s)
  <2> DEFINE p == <<Head(s)>> \o Tail(s)
  <2>1. p \in Seq(FrameType) /\ Len(p) = Len(s) /\ Len(s) \in Nat
        /\ Head(p) = Head(s) /\ Tail(p) = Tail(s)
    BY <1>1, Pushed, LenProperties
  <2>2. p[1] = s[1]
    BY <2>1
  <2>3. ASSUME NEW i \in 1..Len(s) PROVE p[i] = s[i]
    <3>1. CASE i = 1
      BY <2>2, <3>1
    <3>2. CASE i # 1
      <4>1. i - 1 \in 1..(Len(s) - 1) /\ (i - 1) + 1 = i
        BY <3>2, <2>1
      <4>2. p # <<>>
        BY <1>1, Pushed
      <4>3. Tail(p)[i - 1] = p[i] /\ Tail(s)[i - 1] = s[i]
        BY <4>1, <4>2, <2>1, <1>1, HeadTailProperties
      <4> QED
        BY <4>3, <2>1
    <3> QED
      BY <3>1, <3>2
  <2> QED
    BY <2>1, <2>3, SeqEqual
<1> QED
  BY <1>1, <1>2, Pushed

-----------------------------------------------------------------------------
(* What a step does to the stacks.                                         *)

\* Thread t now has the frames of S on those of R; the others have what they had.
Stacks(t, S, R) ==
  /\ at' \in [Threads -> Seq(FrameType)]
  /\ Frames(t)' = S \cup R
  /\ \A u \in Threads \ {t} : at'[u] = at[u] /\ Frames(u)' = Frames(u)

Rest(t) == FramesOf(Tail(at[t]))

\* A handler begins.
LEMMA BeginStacks ==
  ASSUME IInv, NEW t \in Threads, NEW pc \in PCs, NEW c \in Conns \cup {NoConn},
         at[t] = Idle, begin(t, pc, c)
  PROVE  /\ Stacks(t, {Frame(pc, c)}, {}) /\ Frames(t) = {}
         /\ at'[t] = <<Frame(pc, c)>>
<1>1. Frame(pc, c) \in FrameType
  BY DEF Frame, FrameType
<1>2. at \in [Threads -> Seq(FrameType)]
  BY DEF IInv
<1>3. <<Frame(pc, c)>> \in Seq(FrameType) /\ FramesOf(<<Frame(pc, c)>>) = {Frame(pc, c)}
  BY <1>1 DEF FramesOf
<1>4. Frames(t) = {}
  BY DEF Frames, FramesOf, Idle
<1> QED
  BY <1>2, <1>3, <1>4 DEF Stacks, Frames, begin

\* The top frame is replaced.
LEMMA GotoStacks ==
  ASSUME IInv, NEW t \in Threads, NEW pc \in PCs, NEW c \in Conns \cup {NoConn},
         at[t] # Idle, goto(t, pc, c)
  PROVE  /\ Stacks(t, {Frame(pc, c)}, Rest(t))
         /\ at'[t] = <<Frame(pc, c)>> \o Tail(at[t])
<1>1. Frame(pc, c) \in FrameType
  BY DEF Frame, FrameType
<1>2. at \in [Threads -> Seq(FrameType)] /\ Tail(at[t]) \in Seq(FrameType)
  BY Popped DEF IInv, Idle
<1> DEFINE s == <<Frame(pc, c)>> \o Tail(at[t])
<1>3. s \in Seq(FrameType) /\ FramesOf(s) = {Frame(pc, c)} \cup Rest(t)
  BY <1>1, <1>2, Pushed DEF Rest
<1>4. at' = [at EXCEPT ![t] = s]
  BY DEF goto
<1> HIDE DEF s
<1>5. Stacks(t, {Frame(pc, c)}, Rest(t)) /\ at'[t] = s
  BY <1>2, <1>3, <1>4 DEF Stacks, Frames
<1> QED
  BY <1>5 DEF s

\* The top frame is left.
LEMMA ReturnStacks ==
  ASSUME IInv, NEW t \in Threads, at[t] # Idle, return(t)
  PROVE  Stacks(t, {}, Rest(t)) /\ at'[t] = Tail(at[t])
<1>1. at \in [Threads -> Seq(FrameType)] /\ Tail(at[t]) \in Seq(FrameType)
  BY Popped DEF IInv, Idle
<1>2. at' = [at EXCEPT ![t] = Tail(at[t])]
  BY DEF return
<1> QED
  BY <1>1, <1>2 DEF Stacks, Frames, Rest

\* A callback begins over what the handler does next.
LEMMA NotifyStacks ==
  ASSUME IInv, NEW t \in Threads, NEW c \in Conns, at[t] # Idle, NEW what,
         NEW rest \in {<<>>, <<Frame("remove", c)>>}, Notify(t, c, what, rest)
  PROVE  /\ Stacks(t, {Frame("user", c)} \cup FramesOf(rest), Rest(t))
         /\ at'[t] = <<Frame("user", c)>> \o (rest \o Tail(at[t]))
         /\ Frame("user", c) \in FrameType /\ rest \o Tail(at[t]) \in Seq(FrameType)
<1>1. Frame("user", c) \in FrameType /\ Frame("remove", c) \in FrameType
  BY DEF Frame, FrameType, PCs
<1>2. at \in [Threads -> Seq(FrameType)] /\ Tail(at[t]) \in Seq(FrameType)
  BY Popped DEF IInv, Idle
<1> DEFINE under == rest \o Tail(at[t])
<1>3. under \in Seq(FrameType) /\ FramesOf(under) = FramesOf(rest) \cup Rest(t)
  <2>1. CASE rest = <<>>
    <3>1. under = Tail(at[t]) /\ FramesOf(rest) = {}
      BY <1>2, <2>1, ConcatEmptySeq DEF FramesOf
    <3> QED
      BY <3>1, <1>2 DEF Rest
  <2>2. CASE rest = <<Frame("remove", c)>>
    <3>1. FramesOf(rest) = {Frame("remove", c)}
      BY <2>2, <1>1 DEF FramesOf
    <3> QED
      BY <1>1, <1>2, <2>2, <3>1, Pushed DEF Rest
  <2> QED
    BY <2>1, <2>2
<1> DEFINE s == <<Frame("user", c)>> \o under
<1> HIDE DEF under
<1>4. s \in Seq(FrameType) /\ FramesOf(s) = {Frame("user", c)} \cup FramesOf(under)
  BY <1>1, <1>3, Pushed
<1>5. <<Frame("user", c)>> \o rest \o Tail(at[t]) = s
  <2>1. rest \in Seq(FrameType)
    <3>1. <<>> \in Seq(FrameType) /\ <<Frame("remove", c)>> \in Seq(FrameType)
      BY <1>1
    <3> QED
      BY <3>1
  <2> QED
    BY <1>1, <1>2, <2>1, ThreeParts DEF under
<1>6. at' = [at EXCEPT ![t] = s]
  BY <1>5 DEF Notify
<1> HIDE DEF s
<1>7. Stacks(t, {Frame("user", c)} \cup FramesOf(rest), Rest(t)) /\ at'[t] = s
  BY <1>2, <1>3, <1>4, <1>6 DEF Stacks, Frames
<1> QED
  BY <1>1, <1>3, <1>7 DEF s, under

-----------------------------------------------------------------------------
(* What a step does to the rest.                                           *)

Types ==
  /\ TcpTypeOK
  /\ at \in [Threads -> Seq(FrameType)]
  /\ notified \in [Conns -> Seq({"up", "message", "down"})]

\* A step of thread t in connection c touches no other connection.
Effect(t, c, S, R) ==
  /\ Stacks(t, S, R) /\ R \subseteq Frames(t) /\ S \subseteq FrameType
  /\ \A f \in Frames(t) \cup S : f.conn = c
  /\ UNCHANGED <<envVars, serverVars, m_nextConnId, loopOf>>
  /\ \A d \in Conns \ {c} : /\ m_state'[d] = m_state[d] /\ watched'[d] = watched[d]
                            /\ notified'[d] = notified[d] /\ destroyed'[d] = destroyed[d]

Making == {"insert", "establish", "enable"}
Closing == {"down", "remove"}
NotFresh(c) == ~Anywhere(c, Making)

\* ... and in c it leaves alone what the map has to do with.
Quiet(t, c, S, R) ==
  /\ Effect(t, c, S, R)
  /\ \A f \in S : f.pc \notin Making \cup Closing
  /\ \A f \in Frames(t) : f.pc \in Closing => f \in R
  /\ UNCHANGED <<m_connections, destroyed>>
  /\ watched'[c] => watched[c]
  /\ m_state'[c] = "DisConnected" => m_state[c] = "DisConnected"

\* Names do not change.
LEMMA NamesStay ==
  ASSUME UNCHANGED envVars
  PROVE  /\ \A c \in Conns : Name(c)' = Name(c)
         /\ (Radix ^ nameRoom)' = Radix ^ nameRoom
BY DEF Name, envVars

\* A connection whose number fits has a name of its own.
LEMMA OwnName ==
  ASSUME IInv, DistinctNames, NEW c \in Conns, c < m_nextConnId
  PROVE  Name(c) = c
<1>1. m_nextConnId \in Int /\ c \in Int
  BY DEF IInv, TcpTypeOK, Conns
<1>2. Radix ^ nameRoom \in Int
  BY TcpServerAssumption DEF IInv, TcpTypeOK
<1>3. c < Radix ^ nameRoom
  BY <1>1, <1>2 DEF DistinctNames
<1> QED
  BY <1>3 DEF Name

\* The thread at a step of a connection.
LEMMA AtStep ==
  ASSUME IInv, NEW t \in Threads, NEW c \in Conns, NEW pc \in PCs, Here(t, pc, c)
  PROVE  /\ at[t] # <<>> /\ at[t] # Idle /\ Frames(t) = {Frame(pc, c)} \cup Rest(t)
         /\ \A f \in Frames(t) : f.conn = c
         /\ c < m_nextConnId
         /\ pc \notin Making => NotFresh(c)
         /\ pc \in Making => Fresh(t, Frame(pc, c)) /\ Tail(at[t]) = <<>> /\ Rest(t) = {}
<1>1. at[t] # <<>> /\ at[t] # Idle /\ Head(at[t]) = Frame(pc, c)
  BY DEF Here, Idle
<1>2. at[t] \in Seq(FrameType)
  BY DEF IInv
<1>3. Frames(t) = {Frame(pc, c)} \cup Rest(t)
  BY <1>1, <1>2, Popped DEF Frames, Rest
<1>4. Frame(pc, c).conn = c /\ Frame(pc, c).pc = pc
  BY DEF Frame
<1>5. \A f \in Frames(t) : f.conn = c
  BY <1>3, <1>4 DEF IInv, OneEach
<1>6. c < m_nextConnId
  <2>1. c # NoConn /\ Frame("joining", NoConn).conn = NoConn
    BY DEF Conns, NoConn, Frame
  <2>2. Frame(pc, c) # Frame("joining", NoConn)
    BY <2>1, <1>4
  <2> QED
    BY <2>2, <1>3, <1>4 DEF IInv, OnlyAccepted
<1>7. ASSUME pc \in Making
      PROVE  Fresh(t, Frame(pc, c)) /\ Tail(at[t]) = <<>> /\ Rest(t) = {}
  <2>1. Fresh(t, Frame(pc, c))
    BY <1>3, <1>4, <1>7 DEF IInv, MakesFresh, Making
  <2>2. at[t] = <<Frame(pc, c)>>
    BY <2>1 DEF Fresh
  <2>3. Tail(at[t]) = <<>>
    BY <2>2
  <2> QED
    BY <2>1, <2>3 DEF Rest, FramesOf
<1>8. ASSUME pc \notin Making PROVE NotFresh(c)
  <2> SUFFICES ASSUME NEW u \in Threads, NEW f \in Frames(u), f.conn = c, f.pc \in Making
               PROVE  FALSE
    BY DEF NotFresh, Anywhere, In
  <2>1. Fresh(u, f)
    BY DEF IInv, MakesFresh, Making
  <2>2. u = 0 /\ at[0] = <<f>> /\ \A v \in Threads \ {0} : \A g \in Frames(v) : g.conn # c
    BY <2>1 DEF Fresh
  <2>3. t = 0
    BY <2>2, <1>3, <1>4
  <2>4. Head(at[t]) = f
    BY <2>2, <2>3
  <2> QED
    BY <2>4, <1>1, <1>4, <1>8
<1> QED
  BY <1>1, <1>3, <1>5, <1>6, <1>7, <1>8

\* A step inside a connection keeps every thread in its own.
LEMMA EffectKeeps ==
  ASSUME IInv, NEW t \in Threads, NEW c \in Conns, c < m_nextConnId, NEW S, NEW R,
         Effect(t, c, S, R)
  PROVE  OneEach' /\ OnlyAccepted' /\ WorkersStay'
<1>1. /\ Frames(t)' = S \cup R /\ \A u \in Threads \ {t} : Frames(u)' = Frames(u)
      /\ \A f \in S \cup R : f.conn = c
      /\ m_nextConnId' = m_nextConnId
  BY DEF Effect, Stacks
<1>2. OneEach'
  BY <1>1 DEF IInv, OneEach
<1>3. OnlyAccepted'
  BY <1>1 DEF IInv, OnlyAccepted
<1>4. WorkersStay'
  BY DEF IInv, WorkersStay, Effect, serverVars
<1> QED
  BY <1>2, <1>3, <1>4

\* Connections that are being made elsewhere are not disturbed.
LEMMA EffectFresh ==
  ASSUME IInv, NEW t \in Threads, NEW c \in Conns, c < m_nextConnId, NEW S, NEW R,
         Effect(t, c, S, R), NotFresh(c), \A f \in S : f.pc \notin Making,
         \A n \in Conns : m_connections'[n] \in {m_connections[n], NoConn},
         DistinctNames /\ ~stopped => \A n \in Conns \ {c} : m_connections'[n] = m_connections[n]
  PROVE  MakesFresh'
<1>1. /\ Frames(t)' = S \cup R /\ R \subseteq Frames(t)
      /\ \A u \in Threads \ {t} : Frames(u)' = Frames(u) /\ at'[u] = at[u]
      /\ m_nextConnId' = m_nextConnId /\ stopped' = stopped
      /\ \A f \in Frames(t)' \cup Frames(t) : f.conn = c
  BY DEF Effect, Stacks, serverVars
<1>2. DistinctNames' = DistinctNames /\ \A d \in Conns : Name(d)' = Name(d)
  BY <1>1, NamesStay DEF Effect, DistinctNames
<1>3. ASSUME NEW d \in Conns, d >= m_nextConnId PROVE Untouched(d)'
  <2>1. d # c /\ Untouched(d)
    BY <1>3 DEF IInv, MakesFresh, TcpTypeOK, Conns
  <2> QED
    BY <2>1 DEF Untouched, Effect, Conns, NoConn
<1>4. ASSUME NEW u \in Threads, NEW f \in Frames(u)', f.pc \in Making
      PROVE  Fresh(u, f)'
  <2>1. u # t
    BY <1>1, <1>4 DEF NotFresh, Anywhere, In
  <2>2. f \in Frames(u) /\ Fresh(u, f) /\ f.conn # c /\ u = 0
    BY <1>1, <1>4, <2>1 DEF IInv, MakesFresh, Fresh, NotFresh, Anywhere, In, Making
  <2>3. f.conn \in Conns /\ f.conn < m_nextConnId
    BY <1>4, <2>2 DEF IInv, OnlyAccepted, Frame, Making
  <2>4. /\ at'[0] = at[0]
        /\ \A v \in Threads \ {0} : \A g \in Frames(v)' : g.conn # f.conn
    BY <1>1, <2>1, <2>2 DEF Fresh
  <2>5. ASSUME f.pc # "insert", DistinctNames, ~stopped
        PROVE  m_connections'[Name(f.conn)] = f.conn
    BY <2>2, <2>3, <2>5, OwnName DEF Fresh
  <2> QED
    BY <1>1, <1>2, <2>2, <2>3, <2>4, <2>5 DEF Fresh, Effect
<1> QED
  BY <1>1, <1>3, <1>4 DEF MakesFresh, Making

\* A quiet step keeps everything.
LEMMA QuietKeeps ==
  ASSUME IInv, Types', NEW t \in Threads, NEW c \in Conns, c < m_nextConnId, NEW S, NEW R,
         Quiet(t, c, S, R), NotFresh(c)
  PROVE  IInv'
<1>1. Effect(t, c, S, R) /\ UNCHANGED <<m_connections, destroyed>>
  BY DEF Quiet
<1>2. OneEach' /\ OnlyAccepted' /\ WorkersStay'
  BY <1>1, EffectKeeps
<1>3. MakesFresh'
  BY <1>1, EffectFresh DEF Quiet
<1>4. stopped' = stopped /\ m_nextConnId' = m_nextConnId
  BY <1>1 DEF Effect, serverVars
<1>5. DistinctNames' = DistinctNames /\ \A d \in Conns : Name(d)' = Name(d)
  BY <1>1, <1>4, NamesStay DEF Effect, DistinctNames
<1>6. \A d \in Conns : Anywhere(d, Closing)' = Anywhere(d, Closing)
  <2>1. \A u \in Threads \ {t} : Frames(u)' = Frames(u)
    BY <1>1 DEF Effect, Stacks
  <2>2. \A f : f.pc \in Closing => (f \in Frames(t)' <=> f \in Frames(t))
    BY DEF Quiet, Effect, Stacks
  <2>3. \A u \in Threads, d \in Conns : In(u, d, Closing)' = In(u, d, Closing)
    BY <2>1, <2>2 DEF In
  <2> QED
    BY <2>3 DEF Anywhere
<1>7. \A d \in Conns : watched'[d] => watched[d]
  BY <1>1 DEF Quiet, Effect
<1>8. WatchedInv'
  BY <1>1, <1>4, <1>5, <1>6, <1>7 DEF IInv, WatchedInv, Closing
<1>9. MapInv' /\ DestroyedInv'
  <2>1. \A n \in Conns : m_connections'[n] = m_connections[n]
    BY <1>1
  <2>2. MapInv'
    BY <1>4, <1>5, <2>1 DEF IInv, MapInv
  <2>3. DestroyedInv'
    BY <1>1, <1>4, <1>5 DEF IInv, DestroyedInv
  <2> QED
    BY <2>2, <2>3
<1>10. ClosedInv'
  <2>1. \A d \in Conns : m_state'[d] = "DisConnected" => m_state[d] = "DisConnected"
    BY <1>1 DEF Quiet, Effect
  <2> QED
    BY <1>1, <1>6, <2>1 DEF IInv, ClosedInv, Closing
<1> QED
  BY <1>2, <1>3, <1>8, <1>9, <1>10 DEF IInv, Types

-----------------------------------------------------------------------------
(* The steps that leave the map alone.                                     *)

\* A step at pc that is no part of making or closing a connection.
LEMMA QuietStep ==
  ASSUME IInv, NEW t \in Threads, NEW c \in Conns, NEW pc \in PCs \ (Making \cup Closing),
         Here(t, pc, c), NEW S \in SUBSET FrameType, Stacks(t, S, Rest(t)),
         \A f \in S : f.conn = c /\ f.pc \notin Making \cup Closing,
         UNCHANGED <<envVars, serverVars, mapVars, watched, gone, destroyed>>,
         \/ UNCHANGED m_state
         \/ m_state' = [m_state EXCEPT ![c] = "Disconnecting"],
         \/ UNCHANGED notified
         \/ \E what \in {"up", "message"} : notified' = [notified EXCEPT ![c] = Append(@, what)],
         reads' \in [Conns -> 0..MaxReads], stream' \in [Conns -> {"whole", "cut", "torn"}]
  PROVE  IInv'
<1>1. /\ Frames(t) = {Frame(pc, c)} \cup Rest(t)
      /\ \A f \in Frames(t) : f.conn = c
      /\ c < m_nextConnId /\ NotFresh(c)
  BY AtStep
<1>2. notified' \in [Conns -> Seq({"up", "message", "down"})]
  <2>1. notified[c] \in Seq({"up", "message", "down"})
    BY DEF IInv
  <2>2. \A what \in {"up", "message"} :
          Append(notified[c], what) \in Seq({"up", "message", "down"})
    BY <2>1, AppendProperties
  <2> QED
    BY <2>2 DEF IInv
<1>3. /\ m_state' \in [Conns -> {"none", "Connecting", "Connected", "Disconnecting",
                                 "DisConnected"}]
      /\ \A d \in Conns \ {c} : m_state'[d] = m_state[d]
      /\ m_state'[c] = "DisConnected" => m_state[c] = "DisConnected"
  BY DEF IInv, TcpTypeOK
<1>4. \A d \in Conns \ {c} : notified'[d] = notified[d]
  BY DEF IInv
<1>5. at' \in [Threads -> Seq(FrameType)]
  BY DEF Stacks
<1>6. Types'
  <2>1. \A u \in Threads : at'[u] \in Seq(FrameType)
    BY <1>5
  <2>2. \A d \in Conns : notified'[d] \in Seq({"up", "message", "down"})
    BY <1>2
  <2> QED
    BY <1>2, <1>3, <1>5, <2>1, <2>2
       DEF IInv, TcpTypeOK, Types, FrameType, PCs, envVars, serverVars, mapVars
<1>7. Effect(t, c, S, Rest(t))
  BY <1>1, <1>3, <1>4 DEF Effect, mapVars
<1>8. \A f \in Frames(t) : f.pc \in Closing => f \in Rest(t)
  BY <1>1 DEF Frame
<1>9. Quiet(t, c, S, Rest(t))
  BY <1>3, <1>7, <1>8 DEF Quiet, mapVars
<1> QED
  BY <1>1, <1>6, <1>9, QuietKeeps

\* A frame of a connection.
LEMMA FrameFacts ==
  \A pc \in PCs, c \in Conns \cup {NoConn} :
    Frame(pc, c) \in FrameType /\ Frame(pc, c).pc = pc /\ Frame(pc, c).conn = c
BY DEF Frame, FrameType

\* Thread t goes on with the frames of S, which neither make nor close the connection.
Allowed(t, c, S) ==
  /\ Stacks(t, S, Rest(t))
  /\ \A f \in S : f.conn = c /\ f.pc \notin Making \cup Closing

\* The calls of the application and what it calls.
LEMMA UserIInv ==
  ASSUME IInv, NEW t \in Threads, NEW c \in Conns,
         \/ UserReturns(t, c) \/ send(t, c) \/ shutdown(t, c) \/ forceClose(t, c)
         \/ SetDisconnecting(t, c)
  PROVE  IInv'
<1>1. PICK pc \in {"user", "shutSet", "forceSet"} : Here(t, pc, c)
  BY DEF UserReturns, send, shutdown, forceClose, SetDisconnecting
<1>2. pc \in PCs \ (Making \cup Closing)
  BY DEF PCs, Making, Closing
<1>3. PICK S \in SUBSET FrameType : Allowed(t, c, S)
  <2>1. CASE return(t)
    BY <1>1, <1>2, <2>1, AtStep, ReturnStacks DEF Allowed
  <2>2. ASSUME NEW next \in {"shutSet", "forceSet", "closeTest"}, goto(t, next, c)
        PROVE  \E S \in SUBSET FrameType : Allowed(t, c, S)
    <3>1. next \in PCs /\ next \notin Making \cup Closing
      BY DEF PCs, Making, Closing
    <3>2. Stacks(t, {Frame(next, c)}, Rest(t))
      BY <1>1, <1>2, <2>2, <3>1, AtStep, GotoStacks
    <3> QED
      BY <3>1, <3>2, FrameFacts DEF Allowed
  <2> QED
    BY <2>1, <2>2 DEF UserReturns, send, shutdown, forceClose, SetDisconnecting
<1>4. UNCHANGED <<envVars, serverVars, mapVars, watched, gone, destroyed, notified, reads>>
  BY DEF UserReturns, send, shutdown, forceClose, SetDisconnecting, connVars
<1>5. UNCHANGED m_state \/ m_state' = [m_state EXCEPT ![c] = "Disconnecting"]
  BY DEF UserReturns, send, shutdown, forceClose, SetDisconnecting, connVars
<1>6. reads \in [Conns -> 0..MaxReads] /\ stream \in [Conns -> {"whole", "cut", "torn"}]
  BY DEF IInv, TcpTypeOK
<1>7. reads' \in [Conns -> 0..MaxReads] /\ stream' \in [Conns -> {"whole", "cut", "torn"}]
  BY <1>4, <1>6 DEF UserReturns, send, shutdown, forceClose, SetDisconnecting, connVars
<1> QED
  BY <1>1, <1>2, <1>3, <1>4, <1>5, <1>7, QuietStep DEF Allowed

\* Events and callbacks while the connection is open, and the test that comes before a close.
LEMMA EventIInv ==
  ASSUME IInv, NEW t \in Threads, NEW c \in Conns,
         Opened(t, c) \/ ReadData(t, c) \/ ReadEnd(t, c) \/ CloseTest(t, c)
  PROVE  IInv'
<1>1. PICK pc \in {"up", "read", "closeTest"} : Here(t, pc, c)
  BY DEF Opened, ReadData, ReadEnd, CloseTest
<1>2. pc \in PCs \ (Making \cup Closing)
  BY DEF PCs, Making, Closing
<1>3. PICK S \in SUBSET FrameType : Allowed(t, c, S)
  <2>1. CASE return(t)
    BY <1>1, <1>2, <2>1, AtStep, ReturnStacks DEF Allowed
  <2>2. ASSUME NEW next \in {"closeTest", "closeSet"}, goto(t, next, c)
        PROVE  \E S \in SUBSET FrameType : Allowed(t, c, S)
    <3>1. next \in PCs /\ next \notin Making \cup Closing
      BY DEF PCs, Making, Closing
    <3>2. Stacks(t, {Frame(next, c)}, Rest(t))
      BY <1>1, <1>2, <2>2, <3>1, AtStep, GotoStacks
    <3> QED
      BY <3>1, <3>2, FrameFacts DEF Allowed
  <2>3. ASSUME NEW what, Notify(t, c, what, <<>>)
        PROVE  \E S \in SUBSET FrameType : Allowed(t, c, S)
    <3>1. Stacks(t, {Frame("user", c)} \cup FramesOf(<<>>), Rest(t))
      BY <1>1, <1>2, <2>3, AtStep, NotifyStacks
    <3>2. {Frame("user", c)} \cup FramesOf(<<>>) = {Frame("user", c)}
      BY DEF FramesOf
    <3>3. "user" \in PCs /\ "user" \notin Making \cup Closing
      BY DEF PCs, Making, Closing
    <3> QED
      BY <3>1, <3>2, <3>3, FrameFacts DEF Allowed
  <2> QED
    BY <2>1, <2>2, <2>3 DEF Opened, ReadData, ReadEnd, CloseTest
<1>4. UNCHANGED <<envVars, serverVars, mapVars, watched, gone, destroyed, m_state, stream>>
  BY DEF Opened, ReadData, ReadEnd, CloseTest, connVars
<1>5. \/ UNCHANGED notified
      \/ \E what \in {"up", "message"} : notified' = [notified EXCEPT ![c] = Append(@, what)]
  BY DEF Opened, ReadData, ReadEnd, CloseTest, connVars, Notify
<1>6. reads \in [Conns -> 0..MaxReads] /\ stream \in [Conns -> {"whole", "cut", "torn"}]
  BY DEF IInv, TcpTypeOK
<1>7. reads' \in [Conns -> 0..MaxReads]
  <2>1. CASE ReadData(t, c)
    BY <2>1, <1>6, TcpServerAssumption DEF ReadData
  <2>2. CASE ~ReadData(t, c)
    BY <2>2, <1>6 DEF Opened, ReadEnd, CloseTest, connVars
  <2> QED
    BY <2>1, <2>2
<1> QED
  BY <1>1, <1>2, <1>3, <1>4, <1>5, <1>6, <1>7, QuietStep DEF Allowed

\* A handler begins in a connection that is open.
LEMMA EnterIInv ==
  ASSUME IInv, NEW t \in Threads, NEW c \in Conns,
         HandleRead(t, c) \/ (t = Outside /\ OutsideCalls(c))
  PROVE  IInv'
<1>1. PICK pc \in {"read", "user"} : begin(t, pc, c)
  BY DEF HandleRead, OutsideCalls
<1>2. at[t] = Idle /\ UNCHANGED <<envVars, serverVars, mapVars, connVars>>
  BY DEF HandleRead, OutsideCalls
<1>3. watched[c] \/ notified[c] # <<>>
  BY DEF HandleRead, OutsideCalls
<1>4. pc \in PCs /\ pc \notin Making \cup Closing
  BY DEF PCs, Making, Closing
<1>5. Stacks(t, {Frame(pc, c)}, {}) /\ Frames(t) = {}
  BY <1>1, <1>2, <1>4, BeginStacks
<1>6. c < m_nextConnId
  <2>1. ~(c >= m_nextConnId)
    BY <1>3 DEF IInv, MakesFresh, Untouched
  <2> QED
    BY <2>1 DEF IInv, TcpTypeOK, Conns
<1>7. NotFresh(c)
  BY <1>3 DEF IInv, MakesFresh, Fresh, NotFresh, Anywhere, In, Making
<1>8. Quiet(t, c, {Frame(pc, c)}, {})
  BY <1>2, <1>4, <1>5, FrameFacts DEF Quiet, Effect, mapVars, connVars
<1>9. Types'
  <2>1. at' \in [Threads -> Seq(FrameType)]
    BY <1>5 DEF Stacks
  <2> QED
    BY <1>2, <2>1 DEF IInv, TcpTypeOK, Types, FrameType, PCs, envVars, serverVars, mapVars,
       connVars
<1> QED
  BY <1>6, <1>7, <1>8, <1>9, QuietKeeps

\* Steps that concern no connection: the peer closes its end, start, or nothing happens.
LEMMA StillIInv ==
  ASSUME IInv, Types', WorkersStay',
         UNCHANGED <<envVars, stopped, mapVars, m_state, watched, notified, destroyed, at>>
  PROVE  IInv'
<1>1. /\ \A t \in Threads : Frames(t)' = Frames(t)
      /\ m_connections' = m_connections /\ m_nextConnId' = m_nextConnId /\ stopped' = stopped
  BY DEF Frames, mapVars
<1>2. DistinctNames' = DistinctNames /\ \A d \in Conns : Name(d)' = Name(d)
  BY <1>1, NamesStay DEF DistinctNames
<1>3. \A d \in Conns : Anywhere(d, Closing)' = Anywhere(d, Closing)
  BY <1>1 DEF Anywhere, In
<1>4. OneEach' /\ OnlyAccepted'
  BY <1>1 DEF IInv, OneEach, OnlyAccepted
<1>5. MakesFresh'
  <2>1. \A c \in Conns : c >= m_nextConnId => Untouched(c)'
    BY <1>1 DEF IInv, MakesFresh, Untouched
  <2>2. ASSUME NEW t \in Threads, NEW f \in Frames(t), f.pc \in Making PROVE Fresh(t, f)'
    <3>1. Fresh(t, f)
      BY <2>2 DEF IInv, MakesFresh, Making
    <3>2. f.conn \in Conns
      BY <2>2 DEF IInv, OnlyAccepted, Frame, Making
    <3> QED
      BY <1>1, <1>2, <3>1, <3>2 DEF Fresh
  <2> QED
    BY <1>1, <2>1, <2>2 DEF MakesFresh, Making
<1>6. WatchedInv' /\ ClosedInv'
  BY <1>1, <1>2, <1>3 DEF IInv, WatchedInv, ClosedInv, Closing
<1>7. MapInv' /\ DestroyedInv'
  BY <1>1, <1>2 DEF IInv, MapInv, DestroyedInv
<1> QED
  BY <1>4, <1>5, <1>6, <1>7 DEF IInv, Types

-----------------------------------------------------------------------------
(* Closing a connection.                                                   *)

\* Other connections have the frames they had.
LEMMA OtherFrames ==
  ASSUME NEW t \in Threads, NEW c \in Conns, NEW S, NEW R, Effect(t, c, S, R), NEW P
  PROVE  \A u \in Threads, d \in Conns \ {c} : In(u, d, P)' = In(u, d, P)
BY DEF Effect, Stacks, In

\* From the change of m_state on somebody is about to take the connection out of the map.
LEMMA CloseIInv ==
  ASSUME IInv, NEW t \in Threads, NEW c \in Conns, CloseSet(t, c) \/ Closed(t, c)
  PROVE  IInv'
<1>1. PICK pc \in {"closeSet", "down"} : Here(t, pc, c)
  BY DEF CloseSet, Closed
<1>2. pc \in PCs /\ pc \notin Making /\ pc # "remove" /\ "down" \in PCs /\ "remove" \in PCs
      /\ "user" \in PCs
  BY DEF PCs, Making
<1>3. /\ at[t] # Idle /\ Frames(t) = {Frame(pc, c)} \cup Rest(t)
      /\ \A f \in Frames(t) : f.conn = c
      /\ c < m_nextConnId /\ NotFresh(c)
  BY <1>1, <1>2, AtStep
<1>4. PICK S \in SUBSET FrameType :
        /\ Stacks(t, S, Rest(t)) /\ \A f \in S : f.conn = c /\ f.pc \notin Making
        /\ \E f \in S : f.pc \in Closing
  <2>1. CASE CloseSet(t, c)
    <3>1. Stacks(t, {Frame("down", c)}, Rest(t))
      BY <1>2, <1>3, <2>1, GotoStacks DEF CloseSet
    <3> QED
      BY <1>2, <3>1, FrameFacts DEF Making, Closing
  <2>2. CASE Closed(t, c)
    <3>1. Stacks(t, {Frame("user", c)} \cup FramesOf(<<Frame("remove", c)>>), Rest(t))
      BY <1>3, <2>2, NotifyStacks DEF Closed
    <3>2. FramesOf(<<Frame("remove", c)>>) = {Frame("remove", c)}
      BY DEF FramesOf
    <3> DEFINE S == {Frame("user", c), Frame("remove", c)}
    <3>3. Stacks(t, S, Rest(t))
      BY <3>1, <3>2
    <3>4. S \subseteq FrameType /\ \A f \in S : f.conn = c /\ f.pc \notin Making
      BY <1>2, FrameFacts DEF Making
    <3>5. Frame("remove", c) \in S /\ Frame("remove", c).pc \in Closing
      BY <1>2, FrameFacts DEF Closing
    <3> QED
      BY <3>3, <3>4, <3>5
  <2> QED
    BY <2>1, <2>2
<1>5. /\ UNCHANGED <<envVars, serverVars, mapVars, reads, gone, destroyed, stream>>
      /\ m_state' \in {m_state, [m_state EXCEPT ![c] = "DisConnected"]}
      /\ watched' \in {watched, [watched EXCEPT ![c] = FALSE]}
      /\ notified' \in {notified, [notified EXCEPT ![c] = Append(@, "down")]}
  BY DEF CloseSet, Closed, Notify
<1>6. ~watched'[c]
  <2>1. CASE CloseSet(t, c)
    BY <2>1 DEF CloseSet, IInv, TcpTypeOK
  <2>2. CASE Closed(t, c)
    <3>1. Frame("down", c) \in Frames(t)
      BY <2>2, <1>2, AtStep DEF Closed
    <3>2. Anywhere(c, Closing)
      BY <1>2, <3>1, FrameFacts DEF Anywhere, In, Closing
    <3> QED
      BY <2>2, <3>2 DEF Closed, IInv, WatchedInv, Closing
  <2> QED
    BY <2>1, <2>2
<1>7. Types'
  <2>1. /\ at' \in [Threads -> Seq(FrameType)]
        /\ notified' \in [Conns -> Seq({"up", "message", "down"})]
    <3>1. Append(notified[c], "down") \in Seq({"up", "message", "down"})
      BY AppendProperties DEF IInv
    <3> QED
      BY <1>4, <1>5, <3>1 DEF Stacks, IInv
  <2>2. /\ m_state' \in [Conns -> {"none", "Connecting", "Connected", "Disconnecting",
                                   "DisConnected"}]
        /\ watched' \in [Conns -> BOOLEAN]
    BY <1>5 DEF IInv, TcpTypeOK
  <2>3. /\ \A u \in Threads : at'[u] \in Seq(FrameType)
        /\ \A d \in Conns : notified'[d] \in Seq({"up", "message", "down"})
    BY <2>1
  <2>4. TcpTypeOK'
    BY <1>5, <2>2, <2>3 DEF IInv, TcpTypeOK, FrameType, PCs, envVars, serverVars, mapVars
  <2> QED
    BY <2>1, <2>4 DEF Types
<1>8. Effect(t, c, S, Rest(t))
  BY <1>3, <1>4, <1>5 DEF Effect, mapVars, IInv, TcpTypeOK
<1>9. OneEach' /\ OnlyAccepted' /\ WorkersStay'
  BY <1>3, <1>8, EffectKeeps
<1>10. m_connections' = m_connections /\ stopped' = stopped /\ destroyed' = destroyed
       /\ m_nextConnId' = m_nextConnId
  BY <1>5 DEF mapVars, serverVars
<1>11. DistinctNames' = DistinctNames /\ \A d \in Conns : Name(d)' = Name(d)
  BY <1>5, <1>10, NamesStay DEF DistinctNames
<1>12. MakesFresh'
  BY <1>3, <1>4, <1>8, <1>10, EffectFresh
<1>13. \A d \in Conns \ {c} : Anywhere(d, Closing)' = Anywhere(d, Closing)
  BY <1>8, OtherFrames DEF Anywhere
<1>14. Anywhere(c, Closing)'
  BY <1>4 DEF Anywhere, In, Stacks
<1>15. WatchedInv'
  BY <1>6, <1>8, <1>10, <1>11, <1>13 DEF IInv, WatchedInv, Effect, Closing
<1>16. ClosedInv'
  BY <1>8, <1>10, <1>13, <1>14 DEF IInv, ClosedInv, Effect, Closing
<1>17. MapInv' /\ DestroyedInv'
  BY <1>10, <1>11 DEF IInv, MapInv, DestroyedInv
<1> QED
  BY <1>7, <1>9, <1>12, <1>15, <1>16, <1>17 DEF IInv, Types

\* The entry of a name is that of the connection, which is told once.
LEMMA RemoveIInv ==
  ASSUME IInv, NEW t \in Threads, NEW c \in Conns, removeConnection(t, c)
  PROVE  IInv'
<1>1. Here(t, "remove", c) /\ return(t)
  BY DEF removeConnection
<1>2. "remove" \in PCs /\ "remove" \notin Making /\ "remove" \in Closing
  BY DEF PCs, Making, Closing
<1>3. /\ at[t] # Idle /\ Frames(t) = {Frame("remove", c)} \cup Rest(t)
      /\ \A f \in Frames(t) : f.conn = c
      /\ c < m_nextConnId /\ NotFresh(c)
  BY <1>1, <1>2, AtStep
<1>4. Stacks(t, {}, Rest(t))
  BY <1>1, <1>3, ReturnStacks
<1>5. /\ UNCHANGED <<envVars, serverVars, m_nextConnId, loopOf, m_state, watched, reads, gone,
                     notified, stream>>
      /\ m_connections' = [m_connections EXCEPT ![Name(c)] = NoConn]
      /\ destroyed' \in {destroyed, [destroyed EXCEPT ![c] = @ + 1]}
  BY DEF removeConnection, removeConnectionInLoop
<1>6. ~watched[c]
  BY <1>2, <1>3, FrameFacts DEF IInv, WatchedInv, Anywhere, In, Closing
<1>7. Types'
  <2>1. at' \in [Threads -> Seq(FrameType)] /\ notified' \in [Conns -> Seq({"up", "message", "down"})]
    BY <1>4, <1>5 DEF Stacks, IInv
  <2>2. m_connections' \in [Conns -> Conns \cup {NoConn, Null}]
    <3>1. m_connections \in [Conns -> Conns \cup {NoConn, Null}]
      BY DEF IInv, TcpTypeOK
    <3> QED
      BY <1>5, <3>1
  <2>3. destroyed' \in [Conns -> Nat]
    <3>1. destroyed \in [Conns -> Nat]
      BY DEF IInv, TcpTypeOK
    <3> QED
      BY <1>5, <3>1
  <2> QED
    BY <1>5, <2>1, <2>2, <2>3 DEF IInv, TcpTypeOK, Types, FrameType, PCs, envVars, serverVars
<1>8. Effect(t, c, {}, Rest(t))
  BY <1>3, <1>4, <1>5 DEF Effect, IInv, TcpTypeOK
<1>9. OneEach' /\ OnlyAccepted' /\ WorkersStay'
  BY <1>3, <1>8, EffectKeeps
<1>10. stopped' = stopped /\ m_nextConnId' = m_nextConnId
  BY <1>5 DEF serverVars
<1>11. DistinctNames' = DistinctNames /\ \A d \in Conns : Name(d)' = Name(d)
  BY <1>5, <1>10, NamesStay DEF DistinctNames
<1>12. DistinctNames => Name(c) = c /\ m_connections'[c] = NoConn
                        /\ \A n \in Conns \ {c} : m_connections'[n] = m_connections[n]
  <2>1. m_connections \in [Conns -> Conns \cup {NoConn, Null}]
    BY DEF IInv, TcpTypeOK
  <2>2. DistinctNames => Name(c) = c
    BY <1>3, OwnName
  <2> QED
    BY <1>5, <2>1, <2>2
<1>13. \A n \in Conns : m_connections'[n] \in {m_connections[n], NoConn}
  BY <1>5 DEF IInv, TcpTypeOK
<1>14. MakesFresh'
  BY <1>3, <1>8, <1>12, <1>13, EffectFresh
<1>15. \A n \in Conns : m_connections'[n] # c
  <2> SUFFICES ASSUME NEW n \in Conns, m_connections'[n] = c PROVE FALSE
    OBVIOUS
  <2>1. c # NoConn /\ m_connections[n] = c
    BY <1>13 DEF Conns, NoConn
  <2>2. Name(c) = n
    BY <2>1 DEF IInv, MapInv
  <2> QED
    BY <1>5, <2>1, <2>2 DEF IInv, TcpTypeOK
<1>16. \A d \in Conns \ {c} : Anywhere(d, Closing)' = Anywhere(d, Closing)
  BY <1>8, OtherFrames DEF Anywhere
<1>17. WatchedInv'
  <2> SUFFICES ASSUME NEW d \in Conns, watched[d]
               PROVE  /\ ~Anywhere(d, Closing)'
                      /\ DistinctNames /\ ~stopped => m_connections'[Name(d)] = d
    BY <1>5, <1>10, <1>11 DEF WatchedInv, Closing
  <2>1. d # c /\ ~Anywhere(d, Closing)
        /\ (DistinctNames /\ ~stopped => m_connections[Name(d)] = d)
    BY <1>6 DEF IInv, WatchedInv, Closing
  <2>2. d < m_nextConnId
    <3>1. ~(d >= m_nextConnId)
      BY DEF IInv, MakesFresh, Untouched
    <3> QED
      BY <3>1 DEF IInv, TcpTypeOK, Conns
  <2>3. DistinctNames => Name(d) = d
    BY <2>2, OwnName
  <2> QED
    BY <1>12, <1>16, <2>1, <2>3
<1>18. MapInv'
  BY <1>10, <1>11, <1>13 DEF IInv, MapInv, Conns, NoConn, Null
<1>19. ClosedInv'
  BY <1>5, <1>13, <1>15, <1>16 DEF IInv, ClosedInv, Closing, Conns, NoConn
<1>20. DestroyedInv'
  <2> SUFFICES ASSUME DistinctNames, ~stopped, NEW d \in Conns
               PROVE  destroyed'[d] <= 1 /\ (m_connections'[Name(d)] = d => destroyed'[d] = 0)
    BY <1>10, <1>11 DEF DestroyedInv
  <2>1. destroyed \in [Conns -> Nat] /\ destroyed[d] <= 1
        /\ (m_connections[Name(d)] = d => destroyed[d] = 0)
    BY DEF IInv, TcpTypeOK, DestroyedInv
  <2>2. CASE d = c
    <3>1. Name(c) = c /\ m_connections'[c] # c
      BY <1>12, <1>15
    <3>2. CASE m_connections[c] = NoConn
      BY <2>1, <2>2, <3>1, <3>2 DEF removeConnection, removeConnectionInLoop
    <3>3. CASE m_connections[c] # NoConn
      <4>1. m_connections[c] \in Conns
        BY <3>3 DEF IInv, TcpTypeOK, MapInv
      <4>2. ~(m_connections[c] >= m_nextConnId)
        BY <4>1 DEF IInv, MakesFresh, Untouched
      <4>3. Name(m_connections[c]) = m_connections[c]
        <5>1. m_connections[c] < m_nextConnId
          BY <4>1, <4>2 DEF IInv, TcpTypeOK, Conns
        <5> QED
          BY <4>1, <5>1, OwnName
      <4>4. m_connections[c] = c
        BY <4>1, <4>3 DEF IInv, MapInv
      <4>5. destroyed[c] = 0
        BY <2>1, <2>2, <3>1, <4>4
      <4> QED
        BY <1>5, <2>1, <2>2, <3>1, <4>5
    <3> QED
      BY <3>2, <3>3
  <2>3. CASE d # c
    <3>1. destroyed'[d] = destroyed[d]
      BY <1>8, <2>3 DEF Effect
    <3>2. m_connections'[Name(d)] = d => m_connections[Name(d)] = d
      <4>1. SUFFICES ASSUME m_connections'[Name(d)] = d PROVE m_connections[Name(d)] = d
        OBVIOUS
      <4>2. CASE Name(d) = c
        BY <4>1, <4>2, <1>12 DEF Conns, NoConn
      <4>3. CASE Name(d) # c
        BY <4>1, <4>3, <1>5, <1>12 DEF IInv, TcpTypeOK
      <4> QED
        BY <4>2, <4>3
    <3> QED
      BY <2>1, <3>1, <3>2
  <2> QED
    BY <2>2, <2>3
<1> QED
  BY <1>7, <1>9, <1>14, <1>17, <1>18, <1>19, <1>20 DEF IInv, Types

-----------------------------------------------------------------------------
(* Making a connection.                                                    *)

\* The base loop goes from one step of newConnection to the next, alone with the connection.
LEMMA FreshStep ==
  ASSUME IInv, NEW t \in Threads, NEW c \in Conns, NEW pc \in Making, Here(t, pc, c),
         NEW next \in {"establish", "enable", "up", "closeTest"}, goto(t, next, c),
         UNCHANGED <<envVars, serverVars, m_nextConnId, loopOf, reads, gone, notified,
                     destroyed, stream>>,
         m_state' \in {m_state, [m_state EXCEPT ![c] = "Connected"]},
         next = "establish" => pc = "insert" /\ m_state' = m_state,
         next = "enable" => m_state'[c] = "Connected",
         watched' \in {watched, [watched EXCEPT ![c] = TRUE]},
         next # "up" => watched' = watched,
         IF pc = "insert" THEN m_connections' = [m_connections EXCEPT ![Name(c)] = c]
         ELSE m_connections' = m_connections
  PROVE  IInv'
<1>1. pc \in PCs /\ next \in PCs /\ next # "insert" /\ next \notin Closing
  BY DEF PCs, Making, Closing
<1>2. /\ at[t] # Idle /\ Frames(t) = {Frame(pc, c)} \cup Rest(t)
      /\ \A f \in Frames(t) : f.conn = c
      /\ c < m_nextConnId /\ Fresh(t, Frame(pc, c)) /\ Tail(at[t]) = <<>> /\ Rest(t) = {}
  BY <1>1, AtStep
<1>3. /\ Frame(pc, c).conn = c /\ Frame(pc, c).pc = pc
      /\ Frame(next, c) \in FrameType /\ Frame(next, c).conn = c /\ Frame(next, c).pc = next
  BY <1>1, FrameFacts
<1> DEFINE S == {Frame(next, c)}
<1>4. Stacks(t, S, {}) /\ at'[t] = <<Frame(next, c)>>
  <2>1. Stacks(t, S, Rest(t)) /\ at'[t] = <<Frame(next, c)>> \o Tail(at[t])
    BY <1>1, <1>2, GotoStacks
  <2>2. <<Frame(next, c)>> \o <<>> = <<Frame(next, c)>>
    BY <1>3, ConcatEmptySeq
  <2> QED
    BY <1>2, <2>1, <2>2
<1>5. /\ t = 0 /\ \A u \in Threads \ {0} : \A g \in Frames(u) : g.conn # c
      /\ ~watched[c] /\ notified[c] = <<>> /\ destroyed[c] = 0
      /\ m_state[c] = (IF pc = "enable" THEN "Connected" ELSE "Connecting")
      /\ pc # "insert" /\ DistinctNames /\ ~stopped => m_connections[Name(c)] = c
  BY <1>2, <1>3 DEF Fresh
<1>6. /\ m_state \in [Conns -> {"none", "Connecting", "Connected", "Disconnecting",
                                "DisConnected"}]
      /\ watched \in [Conns -> BOOLEAN]
      /\ m_connections \in [Conns -> Conns \cup {NoConn, Null}]
  BY DEF IInv, TcpTypeOK
<1>7. /\ m_connections' \in [Conns -> Conns \cup {NoConn, Null}]
      /\ \A n \in Conns : \/ m_connections'[n] = m_connections[n]
                          \/ m_connections'[n] = c /\ Name(c) = n
      /\ DistinctNames => /\ Name(c) = c
                          /\ \A n \in Conns \ {c} : m_connections'[n] = m_connections[n]
                          /\ ~stopped => m_connections'[c] = c
  <2>1. DistinctNames => Name(c) = c
    BY <1>2, OwnName
  <2>2. CASE pc = "insert"
    BY <1>6, <2>1, <2>2
  <2>3. CASE pc # "insert"
    BY <1>5, <1>6, <2>1, <2>3
  <2> QED
    BY <2>2, <2>3
<1>8. /\ m_state' \in [Conns -> {"none", "Connecting", "Connected", "Disconnecting",
                                 "DisConnected"}]
      /\ m_state'[c] # "DisConnected" /\ \A d \in Conns \ {c} : m_state'[d] = m_state[d]
      /\ watched' \in [Conns -> BOOLEAN]
      /\ \A d \in Conns \ {c} : watched'[d] = watched[d]
  BY <1>5, <1>6
<1>9. Effect(t, c, S, {})
  BY <1>2, <1>3, <1>4, <1>8 DEF Effect
<1>10. Types'
  <2>1. at' \in [Threads -> Seq(FrameType)]
    BY <1>4 DEF Stacks
  <2> QED
    BY <1>7, <1>8, <2>1 DEF IInv, TcpTypeOK, Types, FrameType, PCs, envVars, serverVars
<1>11. OneEach' /\ OnlyAccepted' /\ WorkersStay'
  BY <1>2, <1>9, EffectKeeps
<1>12. stopped' = stopped /\ m_nextConnId' = m_nextConnId
  BY DEF serverVars
<1>13. DistinctNames' = DistinctNames /\ \A d \in Conns : Name(d)' = Name(d)
  BY <1>12, NamesStay DEF DistinctNames
<1>14. MakesFresh'
  <2>1. ASSUME NEW d \in Conns, d >= m_nextConnId PROVE Untouched(d)'
    <3>1. d # c /\ Untouched(d)
      BY <1>2, <2>1 DEF IInv, MakesFresh, TcpTypeOK, Conns
    <3> QED
      BY <1>7, <1>8, <3>1 DEF Untouched
  <2>2. ASSUME NEW u \in Threads, NEW f \in Frames(u)', f.pc \in Making
        PROVE  Fresh(u, f)'
    <3>1. u = t
      BY <1>4, <1>5, <2>2 DEF Stacks, IInv, MakesFresh, Fresh, Making
    <3>2. f = Frame(next, c)
      BY <1>4, <3>1, <2>2 DEF Stacks
    <3>3. next \in {"establish", "enable"}
      BY <1>3, <2>2, <3>2 DEF Making
    <3>4. m_state'[c] = IF next = "enable" THEN "Connected" ELSE "Connecting"
      BY <1>5, <3>3
    <3>5. ~watched'[c] /\ notified'[c] = <<>> /\ destroyed'[c] = 0
      BY <1>5, <3>3
    <3>6. \A v \in Threads \ {0} : \A g \in Frames(v)' : g.conn # c
      BY <1>4, <1>5 DEF Stacks
    <3>7. DistinctNames /\ ~stopped => m_connections'[Name(c)] = c
      BY <1>7
    <3> QED
      BY <1>3, <1>4, <1>5, <1>12, <1>13, <3>1, <3>2, <3>4, <3>5, <3>6, <3>7 DEF Fresh
  <2> QED
    BY <1>12, <2>1, <2>2 DEF MakesFresh, Making
<1>15. \A d \in Conns \ {c} : Anywhere(d, Closing)' = Anywhere(d, Closing)
  BY <1>9, OtherFrames DEF Anywhere
<1>16. ~Anywhere(c, Closing)'
  BY <1>1, <1>3, <1>4, <1>5 DEF Anywhere, In, Stacks
<1>17. WatchedInv'
  <2> SUFFICES ASSUME NEW d \in Conns, watched'[d]
               PROVE  /\ ~Anywhere(d, Closing)'
                      /\ DistinctNames /\ ~stopped => m_connections'[Name(d)] = d
    BY <1>12, <1>13 DEF WatchedInv, Closing
  <2>1. CASE d = c
    BY <1>7, <1>16, <2>1
  <2>2. CASE d # c
    <3>1. watched[d] /\ ~Anywhere(d, Closing)
          /\ (DistinctNames /\ ~stopped => m_connections[Name(d)] = d)
      BY <1>8, <2>2 DEF IInv, WatchedInv, Closing
    <3>2. d < m_nextConnId
      <4>1. ~(d >= m_nextConnId)
        BY <3>1 DEF IInv, MakesFresh, Untouched
      <4> QED
        BY <4>1 DEF IInv, TcpTypeOK, Conns
    <3>3. DistinctNames => Name(d) = d
      BY <3>2, OwnName
    <3> QED
      BY <1>7, <1>15, <2>2, <3>1, <3>3
  <2> QED
    BY <2>1, <2>2
<1>18. MapInv'
  <2>1. ASSUME NEW n \in Conns, NEW d \in Conns, m_connections'[n] = d PROVE Name(d) = n
    BY <1>7, <2>1 DEF IInv, MapInv
  <2>2. ASSUME NEW n \in Conns, ~stopped PROVE m_connections'[n] # Null
    BY <1>7, <2>2 DEF IInv, MapInv, Conns, Null
  <2> QED
    BY <1>12, <1>13, <2>1, <2>2 DEF MapInv
<1>19. ClosedInv'
  <2> SUFFICES ASSUME NEW d \in Conns, m_state'[d] = "DisConnected"
               PROVE  (\A n \in Conns : m_connections'[n] # d) \/ Anywhere(d, Closing)'
    BY DEF ClosedInv, Closing
  <2>1. d # c /\ m_state[d] = "DisConnected"
    BY <1>8
  <2>2. (\A n \in Conns : m_connections[n] # d) \/ Anywhere(d, Closing)
    BY <2>1 DEF IInv, ClosedInv, Closing
  <2> QED
    BY <1>7, <1>15, <2>1, <2>2
<1>20. DestroyedInv'
  <2> SUFFICES ASSUME DistinctNames, ~stopped, NEW d \in Conns
               PROVE  destroyed[d] <= 1 /\ (m_connections'[Name(d)] = d => destroyed[d] = 0)
    BY <1>12, <1>13 DEF DestroyedInv
  <2>1. destroyed[d] <= 1 /\ (m_connections[Name(d)] = d => destroyed[d] = 0)
    BY DEF IInv, DestroyedInv
  <2>2. CASE d = c \/ d >= m_nextConnId
    BY <1>5, <2>2 DEF IInv, MakesFresh, Untouched
  <2>3. CASE d # c /\ ~(d >= m_nextConnId)
    <3>1. d < m_nextConnId
      BY <2>3 DEF IInv, TcpTypeOK, Conns
    <3>2. Name(d) = d
      BY <3>1, OwnName
    <3> QED
      BY <1>7, <2>1, <2>3, <3>2
  <2> QED
    BY <2>1, <2>2, <2>3
<1> QED
  BY <1>10, <1>11, <1>14, <1>17, <1>18, <1>19, <1>20 DEF IInv, Types

\* The steps of newConnection once the connection is there.
LEMMA MakeIInv ==
  ASSUME IInv, NEW t \in Threads, NEW c \in Conns,
         Insert(t, c) \/ Establish(t, c) \/ Enable(t, c)
  PROVE  IInv'
<1>1. CASE Insert(t, c)
  <2>1. /\ Here(t, "insert", c) /\ "insert" \in Making /\ goto(t, "establish", c)
        /\ m_connections' = [m_connections EXCEPT ![Name(c)] = c]
        /\ UNCHANGED <<envVars, serverVars, m_nextConnId, loopOf, m_state, watched, reads, gone,
                       notified, destroyed, stream>>
    BY <1>1 DEF Insert, Making, connVars
  <2> QED
    BY <2>1, FreshStep
<1>2. CASE Establish(t, c)
  <2>1. "establish" \in PCs /\ "establish" \in Making
    BY DEF PCs, Making
  <2>2. Here(t, "establish", c)
    BY <1>2 DEF Establish
  <2>3. m_state[c] = "Connecting"
    BY <2>1, <2>2, AtStep, FrameFacts DEF Fresh
  <2>4. /\ goto(t, "enable", c) /\ m_state' = [m_state EXCEPT ![c] = "Connected"]
        /\ UNCHANGED <<envVars, serverVars, m_connections, m_nextConnId, loopOf, watched, reads,
                       gone, notified, destroyed, stream>>
    BY <1>2, <2>3 DEF Establish, mapVars
  <2>5. m_state'[c] = "Connected"
    BY <2>4 DEF IInv, TcpTypeOK
  <2> QED
    BY <2>1, <2>2, <2>4, <2>5, FreshStep
<1>3. CASE Enable(t, c)
  <2>1. /\ "enable" \in Making /\ Here(t, "enable", c)
        /\ UNCHANGED <<envVars, serverVars, m_connections, m_nextConnId, loopOf, m_state, reads,
                       gone, notified, destroyed, stream>>
    BY <1>3 DEF Enable, Making, mapVars
  <2>2. CASE goto(t, "up", c) /\ watched' = [watched EXCEPT ![c] = TRUE]
    BY <2>1, <2>2, FreshStep
  <2>3. CASE goto(t, "closeTest", c) /\ UNCHANGED watched
    BY <2>1, <2>3, FreshStep
  <2> QED
    BY <1>3, <2>2, <2>3 DEF Enable
<1> QED
  BY <1>1, <1>2, <1>3

\* A connection that is accepted gets a number that nobody has.
LEMMA AcceptIInv ==
  ASSUME IInv, Accept
  PROVE  IInv'
<1> DEFINE c == m_nextConnId
<1>1. c \in Conns /\ 0 \in Threads /\ at[0] = Idle
  <2>1. m_nextConnId \in 1..(MaxConns + 1) /\ m_nextConnId <= MaxConns /\ at[0] = Idle
    BY DEF Accept, IInv, TcpTypeOK
  <2> QED
    BY <2>1, TcpServerAssumption DEF Conns, Threads, Outside
<1>2. /\ begin(0, "insert", c) /\ m_nextConnId' = c + 1
      /\ UNCHANGED <<envVars, serverVars, m_connections, watched, reads, gone, notified,
                     destroyed, stream>>
      /\ m_state' = [m_state EXCEPT ![c] = "Connecting"]
      /\ loopOf' = [loopOf EXCEPT ![c] = IF workers = 0 THEN 0 ELSE 1 + ((c - 1) % workers)]
  BY DEF Accept, MakeConnection
<1>3. stopped' = stopped /\ workers' = workers /\ m_started' = m_started
  BY <1>2 DEF serverVars
<1>4. "insert" \in PCs /\ "insert" \in Making /\ "insert" \notin Closing
      /\ Frame("insert", c) \in FrameType
      /\ Frame("insert", c).pc = "insert" /\ Frame("insert", c).conn = c
  <2>1. "insert" \in PCs /\ "insert" \in Making /\ "insert" \notin Closing
    BY DEF PCs, Making, Closing
  <2> QED
    BY <1>1, <2>1, FrameFacts
<1>5. Stacks(0, {Frame("insert", c)}, {}) /\ Frames(0) = {} /\ at'[0] = <<Frame("insert", c)>>
  BY <1>1, <1>2, <1>4, BeginStacks
<1>6. /\ Frames(0)' = {Frame("insert", c)}
      /\ \A u \in Threads \ {0} : at'[u] = at[u] /\ Frames(u)' = Frames(u)
  BY <1>5 DEF Stacks
<1>7. Untouched(c)
  BY <1>1 DEF IInv, MakesFresh, TcpTypeOK
<1>8. \A u \in Threads : \A f \in Frames(u) : f.conn # c
  <2>1. Frame("joining", NoConn).conn # c
    BY <1>1 DEF Frame, NoConn, Conns
  <2> QED
    BY <1>1, <2>1 DEF IInv, OnlyAccepted, Conns
<1>9. /\ m_state' \in [Conns -> {"none", "Connecting", "Connected", "Disconnecting",
                                 "DisConnected"}]
      /\ m_state'[c] = "Connecting" /\ \A d \in Conns \ {c} : m_state'[d] = m_state[d]
  BY <1>1, <1>2 DEF IInv, TcpTypeOK
<1>10. Types'
  <2>1. loopOf' \in [Conns -> 0..MaxWorkers]
    <3>1. loopOf \in [Conns -> 0..MaxWorkers] /\ workers \in 0..MaxWorkers
      BY DEF IInv, TcpTypeOK
    <3>2. CASE workers = 0
      BY <1>2, <3>1, <3>2, TcpServerAssumption
    <3>3. CASE workers # 0
      <4>1. (c - 1) % workers \in 0..(workers - 1)
        BY <1>1, <3>1, <3>3, TcpServerAssumption DEF Conns
      <4>2. 1 + ((c - 1) % workers) \in 0..MaxWorkers
        BY <4>1, <3>1, TcpServerAssumption
      <4> QED
        BY <1>2, <3>1, <3>3, <4>2
    <3> QED
      BY <3>2, <3>3
  <2>2. m_nextConnId' \in 1..(MaxConns + 1)
    BY <1>1, <1>2, TcpServerAssumption DEF Conns
  <2>3. at' \in [Threads -> Seq(FrameType)]
    BY <1>5 DEF Stacks
  <2> QED
    BY <1>2, <1>9, <2>1, <2>2, <2>3 DEF IInv, TcpTypeOK, Types, FrameType, PCs, envVars, serverVars
<1>11. OneEach' /\ OnlyAccepted'
  <2>1. OneEach'
    BY <1>6 DEF IInv, OneEach
  <2>2. ASSUME NEW u \in Threads, NEW f \in Frames(u)'
        PROVE  (f.conn \in Conns /\ f.conn < m_nextConnId') \/ f = Frame("joining", NoConn)
    <3>1. CASE u = 0
      BY <1>1, <1>2, <1>4, <1>6, <2>2, <3>1 DEF Conns
    <3>2. CASE u # 0
      <4>1. (f.conn \in Conns /\ f.conn < m_nextConnId) \/ f = Frame("joining", NoConn)
        BY <1>6, <2>2, <3>2 DEF IInv, OnlyAccepted
      <4> QED
        BY <1>1, <1>2, <4>1 DEF Conns
    <3> QED
      BY <3>1, <3>2
  <2> QED
    BY <2>1, <2>2 DEF OnlyAccepted
<1>12. WorkersStay'
  BY <1>1, <1>2, <1>3 DEF IInv, WorkersStay, TcpTypeOK
<1>13. /\ DistinctNames' => DistinctNames
       /\ \A d \in Conns : Name(d)' = Name(d)
  <2>1. Radix ^ nameRoom \in Int
    BY TcpServerAssumption DEF IInv, TcpTypeOK
  <2> QED
    BY <1>1, <1>2, <2>1, NamesStay DEF DistinctNames, Conns
<1>14. MakesFresh'
  <2>1. ASSUME NEW d \in Conns, d >= m_nextConnId' PROVE Untouched(d)'
    <3>1. d # c /\ Untouched(d)
      BY <1>1, <1>2, <2>1 DEF IInv, MakesFresh, Conns
    <3> QED
      BY <1>2, <1>9, <3>1 DEF Untouched
  <2>2. ASSUME NEW u \in Threads, NEW f \in Frames(u)', f.pc \in Making
        PROVE  Fresh(u, f)'
    <3>1. u = 0
      BY <1>6, <2>2 DEF IInv, MakesFresh, Fresh, Making
    <3>2. f = Frame("insert", c)
      BY <1>6, <2>2, <3>1
    <3> QED
      BY <1>2, <1>4, <1>5, <1>6, <1>7, <1>8, <1>9, <3>1, <3>2 DEF Fresh, Untouched
  <2> QED
    BY <2>1, <2>2 DEF MakesFresh, Making
<1>15. \A d \in Conns : Anywhere(d, Closing)' = Anywhere(d, Closing)
  <2>1. \A u \in Threads, d \in Conns : In(u, d, Closing)' = In(u, d, Closing)
    BY <1>4, <1>5, <1>6 DEF In
  <2> QED
    BY <2>1 DEF Anywhere
<1>16. WatchedInv'
  BY <1>2, <1>3, <1>13, <1>15 DEF IInv, WatchedInv, Closing
<1>17. MapInv' /\ DestroyedInv'
  BY <1>2, <1>3, <1>13 DEF IInv, MapInv, DestroyedInv
<1>18. ClosedInv'
  BY <1>2, <1>9, <1>15 DEF IInv, ClosedInv, Closing
<1> QED
  BY <1>10, <1>11, <1>12, <1>14, <1>16, <1>17, <1>18 DEF IInv, Types

\* stop leaves no connection in the map, and no names that matter.
LEMMA StopIInv ==
  ASSUME IInv, stop
  PROVE  IInv'
<1>1. /\ at[0] = Idle /\ 0 \in Threads
      /\ UNCHANGED <<envVars, socket, m_listening, accepting, workers, m_nextConnId, loopOf,
                     m_state, watched, reads, gone, notified, stream>>
      /\ stopped' = TRUE
      /\ IF workers = 0 THEN m_started' = 0 /\ UNCHANGED at
         ELSE m_started' = m_started /\ begin(0, "joining", NoConn)
  <2>1. 0 \in Threads
    BY TcpServerAssumption DEF Threads, Outside
  <2> QED
    BY <2>1 DEF stop
<1>2. /\ m_connections' = [n \in Conns |-> IF m_connections[n] = NoConn THEN NoConn ELSE Null]
      /\ destroyed' = [d \in Conns |-> IF d \in {m_connections[n] : n \in Conns}
                                       THEN destroyed[d] + 1 ELSE destroyed[d]]
  BY DEF stop
<1>3. PICK S \in {{}, {Frame("joining", NoConn)}} : Stacks(0, S, {}) /\ Frames(0) = {}
  <2>1. Frames(0) = {}
    BY <1>1 DEF Frames, FramesOf, Idle
  <2>2. CASE workers = 0
    <3>1. at' = at
      BY <1>1, <2>2
    <3>2. at' \in [Threads -> Seq(FrameType)] /\ \A u \in Threads : Frames(u)' = Frames(u)
      BY <3>1 DEF IInv, Frames
    <3>3. Stacks(0, {}, {})
      BY <1>1, <2>1, <3>1, <3>2 DEF Stacks
    <3> QED
      BY <2>1, <3>3
  <2>3. CASE workers # 0
    <3>1. "joining" \in PCs /\ NoConn \in Conns \cup {NoConn} /\ begin(0, "joining", NoConn)
      BY <1>1, <2>3 DEF PCs
    <3>2. Stacks(0, {Frame("joining", NoConn)}, {})
      BY <1>1, <3>1, BeginStacks
    <3> QED
      BY <2>1, <3>2
  <2> QED
    BY <2>2, <2>3
<1>4. /\ Frames(0)' = S /\ \A u \in Threads \ {0} : Frames(u)' = Frames(u)
      /\ \A f \in S : f = Frame("joining", NoConn)
  BY <1>3 DEF Stacks
<1>5. Frame("joining", NoConn).pc = "joining" /\ Frame("joining", NoConn).conn = NoConn
  BY DEF Frame
<1>6. \A n, d \in Conns : m_connections'[n] \in {NoConn, Null} /\ m_connections'[n] # d
  BY <1>2 DEF NoConn, Null, Conns
<1>7. Types'
  <2>1. m_connections' \in [Conns -> Conns \cup {NoConn, Null}]
    BY <1>2
  <2>2. destroyed' \in [Conns -> Nat]
    <3>1. destroyed \in [Conns -> Nat]
      BY DEF IInv, TcpTypeOK
    <3>2. \A d \in Conns : destroyed'[d] \in Nat
      BY <1>2, <3>1
    <3> QED
      BY <1>2, <3>2
  <2>3. at' \in [Threads -> Seq(FrameType)] /\ m_started' \in {0, 1}
    BY <1>1, <1>3 DEF Stacks, IInv, TcpTypeOK
  <2> QED
    BY <1>1, <2>1, <2>2, <2>3 DEF IInv, TcpTypeOK, Types, FrameType, PCs, envVars
<1>8. OneEach' /\ OnlyAccepted' /\ WorkersStay'
  <2>1. OneEach'
    BY <1>4 DEF IInv, OneEach
  <2>3. OnlyAccepted'
    <3>1. m_nextConnId' = m_nextConnId
      BY <1>1
    <3>2. ASSUME NEW u \in Threads, NEW f \in Frames(u)'
          PROVE  (f.conn \in Conns /\ f.conn < m_nextConnId) \/ f = Frame("joining", NoConn)
      <4>1. CASE u = 0
        BY <1>4, <3>2, <4>1
      <4>2. CASE u # 0
        BY <1>4, <3>2, <4>2 DEF IInv, OnlyAccepted
      <4> QED
        BY <4>1, <4>2
    <3> QED
      BY <3>1, <3>2 DEF OnlyAccepted
  <2>2. WorkersStay'
    BY <1>1 DEF IInv, WorkersStay
  <2> QED
    BY <2>1, <2>2, <2>3
<1>9. MakesFresh'
  <2>1. ASSUME NEW d \in Conns, d >= m_nextConnId PROVE Untouched(d)'
    <3>1. Untouched(d)
      BY <2>1 DEF IInv, MakesFresh
    <3> QED
      BY <1>1, <1>2, <1>6, <3>1 DEF Untouched
  <2>2. ASSUME NEW u \in Threads, NEW f \in Frames(u)', f.pc \in Making PROVE FALSE
    <3>1. u # 0
      BY <1>4, <1>5, <2>2 DEF Making
    <3>2. f \in Frames(u) /\ Fresh(u, f)
      BY <1>4, <2>2, <3>1 DEF IInv, MakesFresh, Making
    <3> QED
      BY <3>1, <3>2 DEF Fresh
  <2> QED
    BY <1>1, <2>1, <2>2 DEF MakesFresh, Making
<1>10. \A d \in Conns : Anywhere(d, Closing)' = Anywhere(d, Closing)
  <2>1. \A u \in Threads, d \in Conns : In(u, d, Closing)' = In(u, d, Closing)
    BY <1>3, <1>4, <1>5 DEF In, Closing
  <2> QED
    BY <2>1 DEF Anywhere
<1>11. WatchedInv'
  BY <1>1, <1>10 DEF IInv, WatchedInv, Closing
<1>12. MapInv' /\ DestroyedInv' /\ ClosedInv'
  BY <1>1, <1>6 DEF MapInv, DestroyedInv, ClosedInv
<1> QED
  BY <1>7, <1>8, <1>9, <1>11, <1>12 DEF IInv, Types

-----------------------------------------------------------------------------
(* The invariant.                                                          *)

\* Every step of every thread keeps the invariant.
LEMMA NextIInv ==
  ASSUME IInv, [TcpNext]_tcpVars
  PROVE  IInv'
<1>1. CASE UNCHANGED tcpVars
  <2>1. /\ UNCHANGED <<envVars, stopped, mapVars, m_state, watched, notified, destroyed, at>>
        /\ UNCHANGED <<serverVars, connVars>>
    BY <1>1 DEF tcpVars, serverVars, connVars
  <2>2. Types' /\ WorkersStay'
    BY <2>1 DEF IInv, Types, TcpTypeOK, FrameType, PCs, WorkersStay, envVars, serverVars, mapVars,
       connVars
  <2> QED
    BY <2>1, <2>2, StillIInv
<1>2. ASSUME NEW w \in 0..MaxWorkers, start(w) PROVE IInv'
  <2>1. /\ UNCHANGED <<envVars, stopped, mapVars, connVars, at>>
        /\ m_started = 0 /\ m_started' = 1 /\ workers' = w /\ m_listening' = TRUE
        /\ socket' \in Listened /\ accepting' \in {accepting, dispatches}
    BY <1>2 DEF start, listen
  <2>2. Types'
    BY <2>1 DEF IInv, Types, TcpTypeOK, FrameType, PCs, envVars, mapVars, connVars, Listened
  <2>3. WorkersStay'
    BY <2>1 DEF IInv, WorkersStay, mapVars
  <2> QED
    BY <2>1, <2>2, <2>3, StillIInv DEF connVars
<1>3. CASE stop
  BY <1>3, StopIInv
<1>4. CASE Accept
  BY <1>4, AcceptIInv
<1>5. ASSUME NEW t \in Threads, NEW c \in Conns, HandleRead(t, c) \/ InConnection(t, c)
      PROVE  IInv'
  <2>1. CASE HandleRead(t, c)
    BY <2>1, EnterIInv
  <2>2. CASE Insert(t, c) \/ Establish(t, c) \/ Enable(t, c)
    BY <2>2, MakeIInv
  <2>3. CASE Opened(t, c) \/ ReadData(t, c) \/ ReadEnd(t, c) \/ CloseTest(t, c)
    BY <2>3, EventIInv
  <2>4. CASE \/ UserReturns(t, c) \/ send(t, c) \/ shutdown(t, c) \/ forceClose(t, c)
             \/ SetDisconnecting(t, c)
    BY <2>4, UserIInv
  <2>5. CASE CloseSet(t, c) \/ Closed(t, c)
    BY <2>5, CloseIInv
  <2>6. CASE removeConnection(t, c)
    BY <2>6, RemoveIInv
  <2> QED
    BY <1>5, <2>1, <2>2, <2>3, <2>4, <2>5, <2>6 DEF InConnection
<1>6. ASSUME NEW c \in Conns, PeerCloses(c) PROVE IInv'
  <2>1. /\ UNCHANGED <<envVars, serverVars, mapVars, m_state, watched, reads, notified,
                       destroyed, stream, at>>
        /\ gone' = [gone EXCEPT ![c] = TRUE]
    BY <1>6 DEF PeerCloses
  <2>2. Types' /\ WorkersStay'
    BY <2>1 DEF IInv, Types, TcpTypeOK, FrameType, PCs, WorkersStay, envVars, serverVars, mapVars
  <2> QED
    BY <2>1, <2>2, StillIInv DEF serverVars
<1>7. ASSUME NEW c \in Conns, OutsideCalls(c) PROVE IInv'
  <2>1. Outside \in Threads
    BY TcpServerAssumption DEF Outside, Threads
  <2> QED
    BY <1>7, <2>1, EnterIInv
<1> QED
  BY <1>1, <1>2, <1>3, <1>4, <1>5, <1>6, <1>7 DEF TcpNext

\* The invariant holds before start.
LEMMA InitIInv ==
  ASSUME TcpInit
  PROVE  IInv
<1>1. at \in [Threads -> Seq(FrameType)] /\ notified \in [Conns -> Seq({"up", "message", "down"})]
  BY DEF TcpInit, Idle
<1>2. \A t \in Threads : Frames(t) = {}
  BY DEF TcpInit, Frames, FramesOf, Idle
<1>3. TcpTypeOK
  <2>1. /\ m_nextConnId \in 1..(MaxConns + 1)
        /\ m_connections \in [Conns -> Conns \cup {NoConn, Null}]
        /\ loopOf \in [Conns -> 0..MaxWorkers] /\ workers \in 0..MaxWorkers
        /\ reads \in [Conns -> 0..MaxReads] /\ destroyed \in [Conns -> Nat]
    BY TcpServerAssumption DEF TcpInit
  <2>2. \A c \in Conns : notified[c] \in Seq({"up", "message", "down"})
    BY <1>1
  <2>3. \A t \in Threads : at[t] \in Seq(FrameType)
    BY <1>1
  <2> QED
    BY <2>1, <2>2, <2>3 DEF TcpInit, TcpTypeOK, Bound, FrameType, PCs
<1>4. OneEach /\ OnlyAccepted
  BY <1>2 DEF OneEach, OnlyAccepted
<1>5. MakesFresh
  BY <1>2 DEF MakesFresh, Untouched, TcpInit, Conns, NoConn
<1>6. WatchedInv /\ ClosedInv /\ WorkersStay
  BY DEF WatchedInv, ClosedInv, WorkersStay, TcpInit
<1>7. MapInv /\ DestroyedInv
  BY DEF MapInv, DestroyedInv, TcpInit, Conns, NoConn, Null
<1> QED
  BY <1>1, <1>3, <1>4, <1>5, <1>6, <1>7 DEF IInv

\* IInv holds in every state, whatever the threads do.
LEMMA AlwaysIInv == TcpSpec => []IInv
BY InitIInv, NextIInv, PTL DEF TcpSpec

\* Every thread's stack, every connection and the map have their types.
THEOREM TcpTypeCorrect == TcpSpec => []TcpTypeOK
<1>1. IInv => TcpTypeOK
  BY DEF IInv
<1> QED
  BY <1>1, AlwaysIInv, PTL

\* The map holds every connection that can still get events, as long as names are distinct and
\* stop has not run, and at any time none that is closed and left (TcpServer.cpp:72-98).
THEOREM MapHoldsTheLiveHolds == TcpSpec => []MapHoldsTheLive
<1>1. IInv => MapHoldsTheLive
  <2> SUFFICES ASSUME IInv PROVE MapHoldsTheLive
    OBVIOUS
  <2>1. TcpTypeOK
    BY DEF IInv
  <2>2. WatchedIsKept
    BY DEF IInv, WatchedInv, WatchedIsKept
  <2>3. ASSUME NEW c \in Conns, ~Inside(c), NEW P PROVE ~Anywhere(c, P)
    BY <2>3 DEF Inside, Anywhere, In, Frames, FramesOf
  <2>4. ClosedLeavesTheMap
    BY <2>3 DEF IInv, ClosedInv, ClosedLeavesTheMap
  <2> QED
    BY <2>1, <2>2, <2>4 DEF MapHoldsTheLive
<1> QED
  BY <1>1, AlwaysIInv, PTL

\* As long as names are distinct and stop has not run, connectDestroyed is called at most
\* once for a connection, whichever threads close it (TcpServer.cpp:90-96).
THEOREM DestroyedOnceHolds == TcpSpec => []DestroyedOnce
<1>1. IInv => DestroyedOnce
  BY DEF IInv, DestroyedInv, DestroyedOnce
<1> QED
  BY <1>1, AlwaysIInv, PTL

-----------------------------------------------------------------------------
(* What the application is told.                                           *)

Calls == {"up", "message", "down"}

\* A connection that is open stays open with what it is told next, and a close is the end.
LEMMA OpenFacts ==
  ASSUME NEW n \in Seq(Calls), Open(n)
  PROVE  /\ n = <<>> => Open(Append(n, "up"))
         /\ n # <<>> => Open(Append(n, "message"))
         /\ Shut(Append(n, "down"))
         /\ \A what \in Calls : Append(n, what) # <<>> /\ Append(n, what) \in Seq(Calls)
<1>1. DOMAIN n = 1..Len(n) /\ Len(n) \in Nat
  BY LenProperties
<1>2. ASSUME NEW what \in Calls
      PROVE  /\ Append(n, what) \in Seq(Calls) /\ Append(n, what) # <<>>
             /\ Len(Append(n, what)) = Len(n) + 1
             /\ DOMAIN Append(n, what) = 1..(Len(n) + 1)
             /\ \A i \in 1..Len(n) : Append(n, what)[i] = n[i]
             /\ Append(n, what)[Len(n) + 1] = what
  <2>1. /\ Append(n, what) \in Seq(Calls) /\ Len(Append(n, what)) = Len(n) + 1
        /\ \A i \in 1..Len(n) : Append(n, what)[i] = n[i]
        /\ Append(n, what)[Len(n) + 1] = what
    BY AppendProperties
  <2>2. DOMAIN Append(n, what) = 1..(Len(n) + 1)
    BY <2>1, LenProperties
  <2>3. Append(n, what) # <<>>
    BY <2>1, <1>1, EmptySeq
  <2> QED
    BY <2>1, <2>2, <2>3
<1>3. "up" \in Calls /\ "message" \in Calls /\ "down" \in Calls
  BY DEF Calls
<1>4. ASSUME n = <<>> PROVE Open(Append(n, "up"))
  <2>1. Len(n) = 0
    BY <1>4
  <2> QED
    BY <1>2, <1>3, <2>1 DEF Open
<1>5. ASSUME n # <<>> PROVE Open(Append(n, "message"))
  <2>1. Len(n) # 0
    BY <1>5, EmptySeq
  <2>2. \A i \in 1..Len(n) : n[i] = IF i = 1 THEN "up" ELSE "message"
    BY <1>1 DEF Open
  <2> QED
    BY <1>1, <1>2, <1>3, <2>1, <2>2 DEF Open
<1>6. Shut(Append(n, "down"))
  <2>1. \A i \in 1..Len(n) : n[i] = IF i = 1 THEN "up" ELSE "message"
    BY <1>1 DEF Open
  <2> QED
    BY <1>1, <1>2, <1>3, <2>1 DEF Shut
<1> QED
  BY <1>2, <1>4, <1>5, <1>6

\* What Open and Shut say of the order of the calls.
LEMMA OrderOfCalls ==
  ASSUME NEW c \in Conns, notified[c] \in Seq(Calls), Open(notified[c]) \/ Shut(notified[c])
  PROVE  LET n == notified[c] IN
         /\ Count(c, "up") <= 1 /\ Count(c, "down") <= 1
         /\ \A i \in DOMAIN n : /\ n[i] = "up" => i = 1
                                /\ n[i] = "message" => n[1] = "up"
                                /\ n[i] = "down" => i = Len(n)
<1> DEFINE n == notified[c]
<1>1. DOMAIN n = 1..Len(n) /\ Len(n) \in Nat
  BY LenProperties
<1>2. \A i \in DOMAIN n : /\ n[i] = "up" => i = 1
                          /\ n[i] = "message" => n[1] = "up"
                          /\ n[i] = "down" => i = Len(n)
  <2>1. CASE Open(n)
    BY <1>1, <2>1 DEF Open
  <2>2. CASE Shut(n)
    <3>1. \A i \in DOMAIN n : i = Len(n) \/ i \in 1..(Len(n) - 1)
      BY <1>1
    <3>2. \A i \in 1..(Len(n) - 1) : 1 \in 1..(Len(n) - 1)
      BY <1>1
    <3> QED
      BY <1>1, <2>2, <3>1, <3>2 DEF Shut
  <2> QED
    BY <2>1, <2>2
<1>3. ASSUME NEW what, NEW k, \A i \in DOMAIN n : n[i] = what => i = k
      PROVE  Count(c, what) <= 1
  <2> DEFINE T == {i \in DOMAIN n : n[i] = what}
  <2>1. T \subseteq {k}
    BY <1>3
  <2>2. IsFiniteSet({k}) /\ Cardinality({k}) = 1
    BY FS_Singleton
  <2>3. IsFiniteSet(T) /\ Cardinality(T) <= Cardinality({k})
    BY <2>1, <2>2, FS_Subset
  <2> QED
    BY <2>2, <2>3 DEF Count
<1>4. Count(c, "up") <= 1 /\ Count(c, "down") <= 1
  BY <1>2, <1>3
<1> QED
  BY <1>2, <1>4

-----------------------------------------------------------------------------
(* One thread.                                                             *)

Shapes(c) == {<<>>, Leaving(c)} \cup {<<Frame(pc, c)>> : pc \in PCs}

\* Where thread 0 comes to in connection c.
Arrives(c) ==
  \/ at[0] = <<>>
  \/ \E pc \in PCs : In0(pc, c) /\ Knows(pc, c)
  \/ at[0] = Leaving(c) /\ m_state[c] = "DisConnected"

\* A frame says which connection it is in.
LEMMA ShapesApart ==
  ASSUME NEW c \in Conns, NEW d \in Conns \ {c}, NEW s \in Shapes(c), NEW pc \in PCs
  PROVE  s # <<Frame(pc, d)>>
<1>1. CASE s = <<>>
  BY <1>1
<1>2. CASE s = Leaving(c)
  <2>1. Len(s) = 2 /\ Len(<<Frame(pc, d)>>) = 1
    BY <1>2 DEF Leaving
  <2> QED
    BY <2>1
<1>3. ASSUME NEW p \in PCs, s = <<Frame(p, c)>> PROVE s # <<Frame(pc, d)>>
  <2>1. s[1] = Frame(p, c) /\ <<Frame(pc, d)>>[1] = Frame(pc, d)
    BY <1>3
  <2>2. Frame(p, c) # Frame(pc, d)
    BY FrameFacts
  <2> QED
    BY <2>1, <2>2
<1> QED
  BY <1>1, <1>2, <1>3 DEF Shapes

\* A step of thread 0 in connection c leaves the others as they were.
LEMMA SoloKeeps ==
  ASSUME IInv, Solo, NEW c \in Conns, at[0] \in Shapes(c), at'[0] \in Shapes(c),
         \A u \in Threads \ {0} : at'[u] = at[u],
         \A d \in Conns \ {c} : /\ m_state'[d] = m_state[d] /\ watched'[d] = watched[d]
                                /\ notified'[d] = notified[d],
         Arrives(c)', Told(c)'
  PROVE  Solo'
<1>1. \A t \in Threads \ {0} : at'[t] = <<>>
  BY DEF Solo
<1>2. Steps'
  BY DEF Arrives, Steps
<1>3. ASSUME NEW d \in Conns \ {c} PROVE Told(d)'
  <2>1. "up" \in PCs /\ "down" \in PCs
    BY DEF PCs
  <2>2. In0("up", d)' = In0("up", d) /\ In0("down", d)' = In0("down", d)
    <3>1. \A s \in Shapes(c) : s # <<Frame("up", d)>> /\ s # <<Frame("down", d)>>
      BY <2>1, ShapesApart
    <3> QED
      BY <3>1 DEF In0
  <2> QED
    BY <2>2 DEF Solo, Told
<1> QED
  BY <1>1, <1>2, <1>3 DEF Solo

\* Frames are told apart by what is in them, and one from two.
LEMMA StackFacts ==
  ASSUME NEW c \in Conns
  PROVE  /\ \A p, q \in PCs : <<Frame(p, c)>> = <<Frame(q, c)>> => p = q
         /\ \A p \in PCs : /\ <<Frame(p, c)>> # <<>> /\ <<Frame(p, c)>> # Leaving(c)
                           /\ Head(<<Frame(p, c)>>) = Frame(p, c)
                           /\ Tail(<<Frame(p, c)>>) = <<>>
                           /\ <<Frame(p, c)>> \in Shapes(c)
         /\ Leaving(c) # <<>> /\ Head(Leaving(c)) = Frame("user", c)
         /\ Tail(Leaving(c)) = <<Frame("remove", c)>>
         /\ Leaving(c) \in Shapes(c) /\ <<>> \in Shapes(c)
<1>1. ASSUME NEW p \in PCs, NEW q \in PCs, <<Frame(p, c)>> = <<Frame(q, c)>> PROVE p = q
  <2>1. <<Frame(p, c)>>[1] = Frame(p, c) /\ <<Frame(q, c)>>[1] = Frame(q, c)
    OBVIOUS
  <2> QED
    BY <1>1, <2>1, FrameFacts
<1>2. ASSUME NEW p \in PCs
      PROVE  /\ <<Frame(p, c)>> # <<>> /\ <<Frame(p, c)>> # Leaving(c)
             /\ Head(<<Frame(p, c)>>) = Frame(p, c) /\ Tail(<<Frame(p, c)>>) = <<>>
             /\ <<Frame(p, c)>> \in Shapes(c)
  <2>1. Len(<<Frame(p, c)>>) = 1 /\ Len(Leaving(c)) = 2
    BY DEF Leaving
  <2>2. <<Frame(p, c)>> # <<>> /\ Head(<<Frame(p, c)>>) = Frame(p, c)
        /\ Tail(<<Frame(p, c)>>) = <<>>
    OBVIOUS
  <2> QED
    BY <2>1, <2>2 DEF Shapes
<1>3. /\ Leaving(c) # <<>> /\ Head(Leaving(c)) = Frame("user", c)
      /\ Tail(Leaving(c)) = <<Frame("remove", c)>>
  BY DEF Leaving
<1> QED
  BY <1>1, <1>2, <1>3 DEF Shapes

\* A thread at a step of a connection is thread 0, in one frame or in handleClose's callback.
LEMMA SoloHere ==
  ASSUME IInv, Solo, NEW t \in Threads, NEW c \in Conns, NEW pc \in PCs, Here(t, pc, c)
  PROVE  /\ t = 0 /\ at[0] \in Shapes(c) /\ at[0] # Idle
         /\ \/ In0(pc, c) /\ Knows(pc, c)
            \/ pc = "user" /\ at[0] = Leaving(c) /\ m_state[c] = "DisConnected"
<1>1. at[t] # <<>> /\ Head(at[t]) = Frame(pc, c)
  BY DEF Here, Idle
<1>2. t = 0
  BY <1>1 DEF Solo
<1>3. ASSUME NEW q \in PCs, NEW d \in Conns, In0(q, d), Knows(q, d)
      PROVE  In0(pc, c) /\ Knows(pc, c)
  <2>1. Frame(q, d) = Frame(pc, c)
    BY <1>1, <1>2, <1>3, StackFacts DEF In0
  <2>2. q = pc /\ d = c
    BY <2>1, FrameFacts
  <2> QED
    BY <1>3, <2>2
<1>4. ASSUME NEW d \in Conns, at[0] = Leaving(d), m_state[d] = "DisConnected"
      PROVE  pc = "user" /\ at[0] = Leaving(c) /\ m_state[c] = "DisConnected"
  <2>1. Frame("user", d) = Frame(pc, c) /\ "user" \in PCs
    BY <1>1, <1>2, <1>4, StackFacts DEF PCs
  <2>2. pc = "user" /\ d = c
    BY <2>1, FrameFacts
  <2> QED
    BY <1>4, <2>2
<1>5. \/ In0(pc, c) /\ Knows(pc, c)
      \/ pc = "user" /\ at[0] = Leaving(c) /\ m_state[c] = "DisConnected"
  BY <1>1, <1>2, <1>3, <1>4 DEF Solo, Steps
<1> QED
  BY <1>1, <1>2, <1>5, StackFacts DEF In0, Idle

\* Told(c) of a thread 0 that is at pc.
Says(c, pc) ==
  LET n == notified[c] IN
  /\ m_state[c] \in {"none", "Connecting"} => n = <<>>
  /\ m_state[c] \in Up => Open(n)
  /\ m_state[c] = "DisConnected" => IF pc = "down" THEN Open(n) ELSE Shut(n)
  /\ watched[c] => m_state[c] \in Up /\ (n # <<>> \/ pc = "up")

\* Thread 0 is at pc, or out of the handler or in its callback.
Comes(c, pc) ==
  IF pc = "out" THEN at[0] = <<>> \/ (at[0] = Leaving(c) /\ m_state[c] = "DisConnected")
  ELSE In0(pc, c) /\ Knows(pc, c)

\* At pc a connection is told of what that step says.
LEMMA SaysNow ==
  ASSUME Solo, NEW c \in Conns, NEW pc \in PCs \cup {"out"}, Comes(c, pc)
  PROVE  Says(c, pc)
<1>1. "up" \in PCs /\ "down" \in PCs /\ "out" \notin PCs
  BY DEF PCs
<1>2. (In0("up", c) <=> pc = "up") /\ (In0("down", c) <=> pc = "down")
  BY <1>1, StackFacts DEF Comes, In0
<1> QED
  BY <1>2 DEF Says, Told, Solo

\* What a step of thread 0 in connection c has to see to.
LEMMA SoloGoes ==
  ASSUME IInv, Solo, NEW c \in Conns, at[0] \in Shapes(c),
         \A u \in Threads \ {0} : at'[u] = at[u],
         \A d \in Conns \ {c} : /\ m_state'[d] = m_state[d] /\ watched'[d] = watched[d]
                                /\ notified'[d] = notified[d],
         NEW next \in PCs \cup {"out"}, Comes(c, next)', Says(c, next)'
  PROVE  Solo'
<1>1. "up" \in PCs /\ "down" \in PCs /\ "out" \notin PCs
  BY DEF PCs
<1>2. at'[0] \in Shapes(c)
  BY StackFacts DEF Comes, In0
<1>3. Arrives(c)'
  BY DEF Comes, Arrives
<1>4. (In0("up", c)' <=> next = "up") /\ (In0("down", c)' <=> next = "down")
  BY <1>1, StackFacts DEF Comes, In0
<1>5. Told(c)'
  BY <1>4 DEF Says, Told
<1> QED
  BY <1>2, <1>3, <1>5, SoloKeeps

\* The stack after goto, return and begin.
LEMMA SoloStacks ==
  ASSUME IInv, NEW c \in Conns
  PROVE  /\ \A pc, next \in PCs : In0(pc, c) /\ goto(0, next, c) =>
              In0(next, c)' /\ \A u \in Threads \ {0} : at'[u] = at[u]
         /\ \A pc \in PCs : In0(pc, c) /\ return(0) =>
              at'[0] = <<>> /\ \A u \in Threads \ {0} : at'[u] = at[u]
         /\ at[0] = Leaving(c) /\ return(0) =>
              In0("remove", c)' /\ \A u \in Threads \ {0} : at'[u] = at[u]
         /\ \A pc \in PCs : at[0] = Idle /\ begin(0, pc, c) =>
              In0(pc, c)' /\ \A u \in Threads \ {0} : at'[u] = at[u]
<1>1. 0 \in Threads /\ at \in [Threads -> Seq(FrameType)]
  BY TcpServerAssumption DEF Threads, Outside, IInv
<1>2. ASSUME NEW pc \in PCs, NEW next \in PCs, In0(pc, c), goto(0, next, c)
      PROVE  In0(next, c)' /\ \A u \in Threads \ {0} : at'[u] = at[u]
  <2>1. Tail(at[0]) = <<>>
    BY <1>2, StackFacts DEF In0
  <2>2. <<Frame(next, c)>> \o <<>> = <<Frame(next, c)>>
    BY FrameFacts, ConcatEmptySeq
  <2>3. at' = [at EXCEPT ![0] = <<Frame(next, c)>>]
    BY <1>2, <2>1, <2>2 DEF goto
  <2> QED
    BY <1>1, <2>3 DEF In0
<1>3. ASSUME return(0)
      PROVE  at'[0] = Tail(at[0]) /\ \A u \in Threads \ {0} : at'[u] = at[u]
  BY <1>1, <1>3 DEF return
<1>4. \A pc \in PCs : In0(pc, c) => Tail(at[0]) = <<>>
  BY StackFacts DEF In0
<1>5. at[0] = Leaving(c) => Tail(at[0]) = <<Frame("remove", c)>>
  BY StackFacts
<1>6. ASSUME NEW pc \in PCs, begin(0, pc, c)
      PROVE  In0(pc, c)' /\ \A u \in Threads \ {0} : at'[u] = at[u]
  BY <1>1, <1>6 DEF begin, In0
<1>7. \A pc, next \in PCs : In0(pc, c) /\ goto(0, next, c) =>
        In0(next, c)' /\ \A u \in Threads \ {0} : at'[u] = at[u]
  BY <1>2
<1>8. \A pc \in PCs : In0(pc, c) /\ return(0) =>
        at'[0] = <<>> /\ \A u \in Threads \ {0} : at'[u] = at[u]
  BY <1>3, <1>4
<1>9. at[0] = Leaving(c) /\ return(0) =>
        In0("remove", c)' /\ \A u \in Threads \ {0} : at'[u] = at[u]
  BY <1>3, <1>5 DEF In0
<1>10. \A pc \in PCs : at[0] = Idle /\ begin(0, pc, c) =>
         In0(pc, c)' /\ \A u \in Threads \ {0} : at'[u] = at[u]
  BY <1>6
<1> QED
  BY <1>7, <1>8, <1>9, <1>10

\* ... and after a callback has begun.
LEMMA SoloNotify ==
  ASSUME IInv, NEW c \in Conns, NEW pc \in PCs, In0(pc, c), NEW what,
         NEW rest \in {<<>>, <<Frame("remove", c)>>}, Notify(0, c, what, rest)
  PROVE  /\ at'[0] = IF rest = <<>> THEN <<Frame("user", c)>> ELSE Leaving(c)
         /\ \A u \in Threads \ {0} : at'[u] = at[u]
<1>1. 0 \in Threads /\ at \in [Threads -> Seq(FrameType)]
  BY TcpServerAssumption DEF Threads, Outside, IInv
<1>2. at[0] # Idle /\ Tail(at[0]) = <<>>
  BY StackFacts DEF In0, Idle
<1>3. /\ Stacks(0, {Frame("user", c)} \cup FramesOf(rest), Rest(0))
      /\ at'[0] = <<Frame("user", c)>> \o (rest \o <<>>)
      /\ Frame("user", c) \in FrameType
  BY <1>1, <1>2, NotifyStacks
<1>4. "user" \in PCs /\ "remove" \in PCs
  BY DEF PCs
<1>5. CASE rest = <<>>
  <2>1. rest \o <<>> = <<>> /\ <<Frame("user", c)>> \o <<>> = <<Frame("user", c)>>
    BY <1>3, <1>5, ConcatEmptySeq
  <2> QED
    BY <1>3, <1>5, <2>1 DEF Stacks
<1>6. CASE rest # <<>>
  <2>1. rest = <<Frame("remove", c)>>
    BY <1>6
  <2>2. rest \o <<>> = rest
    BY <1>4, <2>1, FrameFacts, ConcatEmptySeq
  <2>3. <<Frame("user", c)>> \o <<Frame("remove", c)>> = Leaving(c)
    <3> DEFINE a == <<Frame("user", c)>>
               b == <<Frame("remove", c)>>
    <3>1. a \in Seq(FrameType) /\ b \in Seq(FrameType) /\ Leaving(c) \in Seq(FrameType)
      BY <1>4, FrameFacts DEF Leaving
    <3>2. /\ a \o b \in Seq(FrameType) /\ Len(a \o b) = Len(a) + Len(b)
          /\ \A i \in 1..Len(a) : (a \o b)[i] = a[i]
          /\ \A i \in 1..Len(b) : (a \o b)[Len(a) + i] = b[i]
      BY <3>1, ConcatProperties
    <3>3. Len(a) = 1 /\ Len(b) = 1 /\ Len(Leaving(c)) = 2
          /\ Leaving(c)[1] = a[1] /\ Leaving(c)[2] = b[1]
      BY DEF Leaving
    <3>4. Len(a \o b) = 2 /\ (a \o b)[1] = a[1] /\ (a \o b)[2] = b[1]
      BY <3>2, <3>3
    <3>5. \A i \in 1..2 : (a \o b)[i] = Leaving(c)[i]
      BY <3>3, <3>4
    <3> QED
      BY <3>1, <3>2, <3>3, <3>4, <3>5, SeqEqual
  <2> QED
    BY <1>3, <1>6, <2>1, <2>2, <2>3 DEF Stacks
<1> QED
  BY <1>5, <1>6

\* What thread 0 knows at a step it has come to, in the words SoloGoes asks for.
LEMMA SoloAt ==
  ASSUME IInv, Solo, NEW t \in Threads, NEW c \in Conns, NEW pc \in PCs, Here(t, pc, c),
         pc = "user" => m_state[c] # "DisConnected"
  PROVE  /\ t = 0 /\ at[0] \in Shapes(c) /\ In0(pc, c) /\ Knows(pc, c) /\ Says(c, pc)
         /\ notified[c] \in Seq(Calls)
         /\ pc \in Making => ~watched[c] /\ notified[c] = <<>>
         /\ pc \in {"insert", "establish"} => m_state[c] = "Connecting"
         /\ pc = "enable" => m_state[c] = "Connected"
<1>1. /\ t = 0 /\ at[0] \in Shapes(c)
      /\ \/ In0(pc, c) /\ Knows(pc, c)
         \/ pc = "user" /\ at[0] = Leaving(c) /\ m_state[c] = "DisConnected"
  BY SoloHere
<1>2. "out" \notin PCs
  BY DEF PCs
<1>3. In0(pc, c) /\ Knows(pc, c)
  BY <1>1
<1>4. Says(c, pc)
  BY <1>2, <1>3, SaysNow DEF Comes
<1>5. notified[c] \in Seq(Calls)
  BY DEF IInv, Calls
<1>6. ASSUME pc \in Making
      PROVE  ~watched[c] /\ notified[c] = <<>>
             /\ m_state[c] = IF pc = "enable" THEN "Connected" ELSE "Connecting"
  BY <1>6, AtStep, FrameFacts DEF Fresh
<1> QED
  BY <1>1, <1>3, <1>4, <1>5, <1>6 DEF Making

\* The base loop makes a connection.
LEMMA SoloMakes ==
  ASSUME IInv, Solo, NEW t \in Threads, NEW c \in Conns,
         Insert(t, c) \/ Establish(t, c) \/ Enable(t, c)
  PROVE  Solo'
<1>1. PICK pc \in {"insert", "establish", "enable"} : Here(t, pc, c)
  BY DEF Insert, Establish, Enable
<1>2. pc \in PCs /\ pc \in Making /\ "establish" \in PCs /\ "enable" \in PCs /\ "up" \in PCs
      /\ "closeTest" \in PCs
  BY DEF PCs, Making
<1>3. /\ t = 0 /\ at[0] \in Shapes(c) /\ In0(pc, c) /\ Says(c, pc)
      /\ ~watched[c] /\ notified[c] = <<>>
      /\ pc \in {"insert", "establish"} => m_state[c] = "Connecting"
      /\ pc = "enable" => m_state[c] = "Connected"
  BY <1>1, <1>2, SoloAt
<1>4. m_state \in [Conns -> {"none", "Connecting", "Connected", "Disconnecting", "DisConnected"}]
      /\ watched \in [Conns -> BOOLEAN]
  BY DEF IInv, TcpTypeOK
<1>5. Open(<<>>)
  BY DEF Open
<1>6. CASE Insert(t, c)
  <2>1. goto(0, "establish", c) /\ UNCHANGED <<m_state, watched, notified>> /\ pc = "insert"
    <3>1. In0("insert", c)
      BY <1>1, <1>6, <1>3, SoloHere DEF Insert, PCs
    <3> QED
      BY <1>2, <1>3, <1>6, <3>1, StackFacts DEF Insert, connVars, In0, PCs
  <2>2. In0("establish", c)' /\ \A u \in Threads \ {0} : at'[u] = at[u]
    BY <1>2, <1>3, <2>1, SoloStacks
  <2>3. Comes(c, "establish")' /\ Says(c, "establish")'
    BY <1>3, <2>1, <2>2 DEF Comes, Knows, Says, Up
  <2> QED
    BY <1>2, <1>3, <2>1, <2>2, <2>3, SoloGoes
<1>7. CASE Establish(t, c)
  <2>1. pc = "establish"
    <3>1. In0("establish", c)
      BY <1>7, <1>2, SoloHere DEF Establish
    <3> QED
      BY <1>2, <1>3, <3>1, StackFacts DEF In0
  <2>2. /\ goto(0, "enable", c) /\ m_state' = [m_state EXCEPT ![c] = "Connected"]
        /\ UNCHANGED <<watched, notified>>
    BY <1>3, <1>7, <2>1 DEF Establish
  <2>3. In0("enable", c)' /\ \A u \in Threads \ {0} : at'[u] = at[u]
    BY <1>2, <1>3, <2>2, SoloStacks
  <2>4. m_state'[c] = "Connected" /\ \A d \in Conns \ {c} : m_state'[d] = m_state[d]
    BY <1>4, <2>2
  <2>5. Comes(c, "enable")'
    BY <2>3 DEF Comes, Knows
  <2>6. Says(c, "enable")'
    BY <1>3, <1>5, <2>2, <2>4 DEF Says
  <2> QED
    BY <1>2, <1>3, <2>2, <2>3, <2>4, <2>5, <2>6, SoloGoes
<1>8. CASE Enable(t, c)
  <2>1. pc = "enable"
    <3>1. In0("enable", c)
      BY <1>8, <1>2, SoloHere DEF Enable
    <3> QED
      BY <1>2, <1>3, <3>1, StackFacts DEF In0
  <2>2. PICK next \in {"up", "closeTest"} :
          /\ goto(0, next, c) /\ UNCHANGED <<m_state, notified>>
          /\ watched' = IF next = "up" THEN [watched EXCEPT ![c] = TRUE] ELSE watched
    BY <1>3, <1>8 DEF Enable
  <2>3. In0(next, c)' /\ \A u \in Threads \ {0} : at'[u] = at[u]
    BY <1>2, <1>3, <2>2, SoloStacks
  <2>4. watched'[c] = (next = "up") /\ \A d \in Conns \ {c} : watched'[d] = watched[d]
    BY <1>3, <1>4, <2>2
  <2>5. Comes(c, next)'
    BY <1>3, <2>1, <2>2, <2>3, <2>4 DEF Comes, Knows, Up
  <2>6. Says(c, next)'
    BY <1>3, <1>5, <2>1, <2>2, <2>4 DEF Says, Up
  <2> QED
    BY <1>2, <1>3, <2>2, <2>3, <2>4, <2>5, <2>6, SoloGoes
<1> QED
  BY <1>6, <1>7, <1>8

\* A step on the way to a close; the calls of the application go before it.
LEMMA SoloGoto ==
  ASSUME IInv, Solo, NEW t \in Threads, NEW c \in Conns,
         NEW pc \in {"read", "user", "forceSet", "closeTest"}, Here(t, pc, c),
         m_state[c] # "DisConnected",
         NEW next \in {"shutSet", "forceSet", "closeTest", "closeSet"}, goto(t, next, c),
         pc # "user" => next \in {"closeTest", "closeSet"},
         UNCHANGED <<watched, notified>>,
         m_state' \in {m_state, [m_state EXCEPT ![c] = "Disconnecting"]}
  PROVE  Solo'
<1>1. pc \in PCs /\ next \in PCs
  BY DEF PCs
<1>2. /\ t = 0 /\ at[0] \in Shapes(c) /\ In0(pc, c) /\ Knows(pc, c) /\ Says(c, pc)
  BY <1>1, SoloAt
<1>3. In0(next, c)' /\ \A u \in Threads \ {0} : at'[u] = at[u]
  BY <1>1, <1>2, SoloStacks
<1>4. m_state'[c] \in {m_state[c], "Disconnecting"}
      /\ \A d \in Conns \ {c} : m_state'[d] = m_state[d]
  BY DEF IInv, TcpTypeOK
<1>5. m_state[c] \in Up /\ m_state'[c] \in Up
  BY <1>2, <1>4 DEF Knows, Up
<1>6. Comes(c, next)'
  BY <1>2, <1>3, <1>5 DEF Comes, Knows
<1>7. Says(c, next)'
  BY <1>2, <1>5 DEF Says, Up
<1> QED
  BY <1>1, <1>2, <1>3, <1>4, <1>6, <1>7, SoloGoes

\* A step that leaves the connection, and may set Disconnecting on the way.
LEMMA SoloReturn ==
  ASSUME IInv, Solo, NEW t \in Threads, NEW c \in Conns,
         NEW pc \in {"user", "shutSet", "remove"}, Here(t, pc, c),
         pc = "user" => m_state[c] # "DisConnected", return(t),
         UNCHANGED <<watched, notified>>,
         \/ UNCHANGED m_state
         \/ pc = "shutSet" /\ m_state' = [m_state EXCEPT ![c] = "Disconnecting"]
  PROVE  Solo'
<1>1. pc \in PCs /\ "out" \notin PCs
  BY DEF PCs
<1>2. /\ t = 0 /\ at[0] \in Shapes(c) /\ In0(pc, c) /\ Knows(pc, c) /\ Says(c, pc)
  BY <1>1, SoloAt
<1>3. at'[0] = <<>> /\ \A u \in Threads \ {0} : at'[u] = at[u]
  BY <1>1, <1>2, SoloStacks
<1>4. /\ pc # "shutSet" => m_state'[c] = m_state[c]
      /\ m_state'[c] \in {m_state[c], "Disconnecting"}
      /\ \A d \in Conns \ {c} : m_state'[d] = m_state[d]
  BY DEF IInv, TcpTypeOK
<1>5. Comes(c, "out")'
  BY <1>3 DEF Comes
<1>6. Says(c, "out")'
  BY <1>2, <1>4 DEF Says, Knows, Up
<1> QED
  BY <1>2, <1>3, <1>4, <1>5, <1>6, SoloGoes

\* The application is called: the connection is up, or has a message.
LEMMA SoloCalls ==
  ASSUME IInv, Solo, NEW t \in Threads, NEW c \in Conns, Opened(t, c) \/ ReadData(t, c)
  PROVE  Solo'
<1>1. PICK pc \in {"up", "read"}, what \in {"up", "message"} :
        /\ Here(t, pc, c) /\ Notify(t, c, what, <<>>)
        /\ pc = "up" <=> what = "up"
  BY DEF Opened, ReadData
<1>2. UNCHANGED <<m_state, watched>>
  BY DEF Opened, ReadData
<1>3. pc \in PCs /\ "user" \in PCs /\ what \in Calls
  BY DEF PCs, Calls
<1>4. /\ t = 0 /\ at[0] \in Shapes(c) /\ In0(pc, c) /\ Knows(pc, c) /\ Says(c, pc)
      /\ notified[c] \in Seq(Calls)
  BY <1>1, <1>3, SoloAt
<1>5. In0("user", c)' /\ \A u \in Threads \ {0} : at'[u] = at[u]
  BY <1>1, <1>3, <1>4, SoloNotify DEF In0
<1>6. notified'[c] = Append(notified[c], what)
      /\ \A d \in Conns \ {c} : notified'[d] = notified[d]
  BY <1>1 DEF Notify, IInv
<1>7. m_state[c] \in Up /\ Open(notified[c])
      /\ (pc = "up" => notified[c] = <<>>) /\ (pc = "read" => notified[c] # <<>>)
  BY <1>4 DEF Knows, Says, Up
<1>8. Open(notified'[c]) /\ notified'[c] # <<>>
  BY <1>1, <1>3, <1>4, <1>6, <1>7, OpenFacts
<1>9. Comes(c, "user")' /\ Says(c, "user")'
  BY <1>2, <1>5, <1>7, <1>8 DEF Comes, Knows, Says, Up
<1> QED
  BY <1>2, <1>3, <1>4, <1>5, <1>6, <1>9, SoloGoes

\* The connection is closed and the application told of it.
LEMMA SoloCloses ==
  ASSUME IInv, Solo, NEW t \in Threads, NEW c \in Conns, CloseSet(t, c) \/ Closed(t, c)
  PROVE  Solo'
<1>1. "closeSet" \in PCs /\ "down" \in PCs /\ "user" \in PCs /\ "out" \notin PCs
  BY DEF PCs
<1>2. CASE CloseSet(t, c)
  <2>1. /\ Here(t, "closeSet", c) /\ goto(t, "down", c) /\ UNCHANGED notified
        /\ m_state' = [m_state EXCEPT ![c] = "DisConnected"]
        /\ watched' = [watched EXCEPT ![c] = FALSE]
    BY <1>2 DEF CloseSet
  <2>2. /\ t = 0 /\ at[0] \in Shapes(c) /\ In0("closeSet", c) /\ Knows("closeSet", c)
        /\ Says(c, "closeSet")
    BY <1>1, <2>1, SoloAt
  <2>3. In0("down", c)' /\ \A u \in Threads \ {0} : at'[u] = at[u]
    BY <1>1, <2>1, <2>2, SoloStacks
  <2>4. /\ m_state'[c] = "DisConnected" /\ ~watched'[c]
        /\ \A d \in Conns \ {c} : m_state'[d] = m_state[d] /\ watched'[d] = watched[d]
    BY <2>1 DEF IInv, TcpTypeOK
  <2>5. Comes(c, "down")'
    BY <2>3, <2>4 DEF Comes, Knows
  <2>6. Says(c, "down")'
    BY <2>1, <2>2, <2>4 DEF Says, Knows, Up
  <2> QED
    BY <1>1, <2>1, <2>2, <2>3, <2>4, <2>5, <2>6, SoloGoes
<1>3. CASE Closed(t, c)
  <2> DEFINE rest == <<Frame("remove", c)>>
  <2>1. /\ Here(t, "down", c) /\ Notify(t, c, "down", rest) /\ UNCHANGED <<m_state, watched>>
    BY <1>3 DEF Closed
  <2>2. /\ t = 0 /\ at[0] \in Shapes(c) /\ In0("down", c) /\ Knows("down", c)
        /\ Says(c, "down") /\ notified[c] \in Seq(Calls)
    BY <1>1, <2>1, SoloAt
  <2>3. at'[0] = Leaving(c) /\ \A u \in Threads \ {0} : at'[u] = at[u]
    <3>1. rest # <<>>
      OBVIOUS
    <3> QED
      BY <1>1, <2>1, <2>2, <3>1, SoloNotify
  <2>4. notified'[c] = Append(notified[c], "down")
        /\ \A d \in Conns \ {c} : notified'[d] = notified[d]
    BY <2>1 DEF Notify, IInv
  <2>5. m_state[c] = "DisConnected" /\ ~watched[c] /\ Open(notified[c])
    BY <2>2 DEF Knows, Says, Up
  <2>6. Shut(notified'[c])
    BY <2>2, <2>4, <2>5, OpenFacts
  <2>7. Comes(c, "out")'
    BY <2>1, <2>3, <2>5 DEF Comes
  <2>8. Says(c, "out")'
    BY <2>1, <2>5, <2>6 DEF Says, Up
  <2> QED
    BY <2>1, <2>2, <2>3, <2>4, <2>7, <2>8, SoloGoes
<1> QED
  BY <1>2, <1>3

\* What the application does in a callback, and what follows from it.
LEMMA SoloInside ==
  ASSUME IInv, Solo, NEW t \in Threads, NEW c \in Conns, InConnection(t, c)
  PROVE  Solo'
<1>1. CASE Insert(t, c) \/ Establish(t, c) \/ Enable(t, c)
  BY <1>1, SoloMakes
<1>2. CASE Opened(t, c) \/ ReadData(t, c)
  BY <1>2, SoloCalls
<1>3. CASE CloseSet(t, c) \/ Closed(t, c)
  BY <1>3, SoloCloses
<1>4. CASE ReadEnd(t, c)
  <2>1. /\ Here(t, "read", c) /\ goto(t, "closeTest", c)
        /\ UNCHANGED <<watched, notified, m_state>>
    BY <1>4 DEF ReadEnd, connVars
  <2>2. m_state[c] # "DisConnected"
    BY <2>1, SoloAt DEF PCs, Knows, Up
  <2> QED
    BY <2>1, <2>2, SoloGoto
<1>5. CASE UserReturns(t, c)
  <2>1. Here(t, "user", c) /\ return(t) /\ UNCHANGED <<watched, notified, m_state>>
    BY <1>5 DEF UserReturns, connVars
  <2>2. CASE m_state[c] # "DisConnected"
    BY <2>1, <2>2, SoloReturn
  <2>3. CASE m_state[c] = "DisConnected"
    <3>1. "user" \in PCs /\ "remove" \in PCs /\ "out" \in PCs \cup {"out"}
      BY DEF PCs
    <3>2. /\ t = 0 /\ at[0] \in Shapes(c)
          /\ \/ In0("user", c) /\ Knows("user", c)
             \/ at[0] = Leaving(c) /\ m_state[c] = "DisConnected"
      BY <2>1, <3>1, SoloHere
    <3>3. at[0] = Leaving(c)
      BY <2>3, <3>2 DEF Knows, Up
    <3>4. Comes(c, "out")
      BY <2>3, <3>3 DEF Comes
    <3>5. Says(c, "out")
      BY <3>1, <3>4, SaysNow
    <3>6. In0("remove", c)' /\ \A u \in Threads \ {0} : at'[u] = at[u]
      BY <2>1, <3>2, <3>3, SoloStacks
    <3>7. Comes(c, "remove")'
      BY <2>1, <2>3, <3>6 DEF Comes, Knows
    <3>8. Says(c, "remove")'
      BY <2>1, <3>5 DEF Says
    <3> QED
      BY <2>1, <3>1, <3>2, <3>6, <3>7, <3>8, SoloGoes
  <2> QED
    BY <2>2, <2>3
<1>6. CASE send(t, c)
  <2>1. /\ Here(t, "user", c) /\ return(t) /\ UNCHANGED <<watched, notified, m_state>>
        /\ m_state[c] # "DisConnected"
    BY <1>6 DEF send
  <2> QED
    BY <2>1, SoloReturn
<1>7. CASE shutdown(t, c)
  <2>1. /\ Here(t, "user", c) /\ goto(t, "shutSet", c)
        /\ UNCHANGED <<watched, notified, m_state>> /\ m_state[c] # "DisConnected"
    BY <1>7 DEF shutdown, connVars
  <2> QED
    BY <2>1, SoloGoto
<1>8. CASE forceClose(t, c)
  <2>1. /\ Here(t, "user", c) /\ goto(t, "forceSet", c)
        /\ UNCHANGED <<watched, notified, m_state>> /\ m_state[c] # "DisConnected"
    BY <1>8 DEF forceClose, connVars
  <2> QED
    BY <2>1, SoloGoto
<1>9. CASE SetDisconnecting(t, c)
  <2>1. /\ m_state' = [m_state EXCEPT ![c] = "Disconnecting"] /\ UNCHANGED <<watched, notified>>
        /\ Here(t, "shutSet", c) \/ Here(t, "forceSet", c)
        /\ IF Here(t, "forceSet", c) THEN goto(t, "closeTest", c) ELSE return(t)
    BY <1>9 DEF SetDisconnecting
  <2>2. CASE Here(t, "forceSet", c)
    <3>1. m_state[c] # "DisConnected"
      BY <2>2, SoloAt DEF PCs, Knows, Up
    <3> QED
      BY <2>1, <2>2, <3>1, SoloGoto
  <2>3. CASE ~Here(t, "forceSet", c)
    BY <2>1, <2>3, SoloReturn
  <2> QED
    BY <2>2, <2>3
<1>10. CASE CloseTest(t, c)
  <2>1. /\ Here(t, "closeTest", c) /\ UNCHANGED <<watched, notified, m_state>>
        /\ m_state[c] # "DisConnected" => goto(t, "closeSet", c)
    BY <1>10 DEF CloseTest, connVars
  <2>2. m_state[c] # "DisConnected"
    BY <2>1, SoloAt DEF PCs, Knows, Up
  <2> QED
    BY <2>1, <2>2, SoloGoto
<1>11. CASE removeConnection(t, c)
  <2>1. Here(t, "remove", c) /\ return(t) /\ UNCHANGED <<watched, notified, m_state>>
    BY <1>11 DEF removeConnection
  <2> QED
    BY <2>1, SoloReturn
<1> QED
  BY <1>1, <1>2, <1>3, <1>4, <1>5, <1>6, <1>7, <1>8, <1>9, <1>10, <1>11 DEF InConnection

\* The steps with which the base loop begins.
LEMMA SoloBegins ==
  ASSUME IInv, Solo, workers = 0, NEW c \in Conns,
         \/ Accept /\ c = m_nextConnId
         \/ \E t \in Threads : HandleRead(t, c)
  PROVE  Solo'
<1>1. PICK pc \in {"insert", "read"} : at[0] = Idle /\ begin(0, pc, c)
           /\ (pc = "insert" => Accept /\ c = m_nextConnId)
           /\ (pc = "read" => watched[c] /\ UNCHANGED connVars)
  <2>1. ASSUME NEW t \in Threads, HandleRead(t, c)
        PROVE  at[0] = Idle /\ begin(0, "read", c) /\ watched[c] /\ UNCHANGED connVars
    <3>1. t = 0
      BY <2>1 DEF HandleRead, IInv, WorkersStay
    <3> QED
      BY <2>1, <3>1 DEF HandleRead
  <2>2. CASE Accept /\ c = m_nextConnId
    BY <2>2 DEF Accept
  <2> QED
    BY <2>1, <2>2
<1>2. pc \in PCs /\ "out" \notin PCs
  BY DEF PCs
<1>3. In0(pc, c)' /\ \A u \in Threads \ {0} : at'[u] = at[u]
  BY <1>1, <1>2, SoloStacks
<1>4. at[0] \in Shapes(c) /\ Says(c, "out")
  <2>1. Comes(c, "out")
    BY <1>1 DEF Comes, Idle
  <2> QED
    BY <1>1, <2>1, SaysNow DEF Shapes, Idle
<1>5. CASE pc = "insert"
  <2>1. /\ m_state' = [m_state EXCEPT ![c] = "Connecting"] /\ UNCHANGED <<watched, notified>>
    BY <1>1, <1>5 DEF Accept, MakeConnection
  <2>2. m_state'[c] = "Connecting" /\ \A d \in Conns \ {c} : m_state'[d] = m_state[d]
    BY <2>1 DEF IInv, TcpTypeOK
  <2>3. ~watched[c] /\ notified[c] = <<>>
    BY <1>1, <1>5 DEF IInv, MakesFresh, Untouched, TcpTypeOK
  <2>4. Comes(c, pc)' /\ Says(c, pc)'
    BY <1>3, <1>5, <2>1, <2>2, <2>3 DEF Comes, Knows, Says, Up
  <2> QED
    BY <1>2, <1>3, <1>4, <2>1, <2>2, <2>4, SoloGoes
<1>6. CASE pc = "read"
  <2>1. UNCHANGED <<m_state, watched, notified>>
    BY <1>1, <1>6 DEF connVars
  <2>2. Comes(c, pc)' /\ Says(c, pc)'
    BY <1>1, <1>3, <1>4, <1>6, <2>1 DEF Comes, Knows, Says, Up
  <2> QED
    BY <1>2, <1>3, <1>4, <2>1, <2>2, SoloGoes
<1> QED
  BY <1>5, <1>6

\* What does not change the stacks, the states and the calls changes nothing.
LEMMA SoloStays ==
  ASSUME Solo, UNCHANGED <<at, m_state, watched, notified>>
  PROVE  Solo'
BY DEF Solo, Steps, In0, Knows, Told

\* One thread stays alone, and knows what it has told the application.
LEMMA NextConfInv ==
  ASSUME IInv, ConfInv, [TcpNext]_tcpVars
  PROVE  ConfInv'
<1> SUFFICES ASSUME Confined' PROVE Solo'
  BY DEF ConfInv
<1>1. CASE UNCHANGED tcpVars
  <2>1. UNCHANGED <<at, m_state, watched, notified>> /\ workers' = workers /\ outside' = outside
    BY <1>1 DEF tcpVars, connVars, envVars, serverVars
  <2> QED
    BY <2>1, SoloStays DEF Confined, ConfInv
<1>2. ASSUME NEW w \in 0..MaxWorkers, start(w) PROVE Solo'
  <2>1. UNCHANGED <<at, m_state, watched, notified>> /\ m_started = 0 /\ outside' = outside
    BY <1>2 DEF start, connVars, envVars
  <2>2. Confined
    BY <2>1 DEF Confined, IInv, WorkersStay
  <2> QED
    BY <2>1, <2>2, SoloStays DEF ConfInv
<1>3. CASE stop
  <2>1. UNCHANGED <<m_state, watched, notified>> /\ workers' = workers /\ outside' = outside
    BY <1>3 DEF stop, envVars
  <2>2. at' = at /\ Confined
    BY <1>3, <2>1 DEF stop, Confined
  <2> QED
    BY <2>1, <2>2, SoloStays DEF ConfInv
<1>4. CASE Accept
  <2>1. m_nextConnId \in Conns
    BY <1>4 DEF Accept, IInv, TcpTypeOK, Conns
  <2>2. workers = 0 /\ Confined
    BY <1>4 DEF Accept, Confined, serverVars, envVars
  <2> QED
    BY <1>4, <2>1, <2>2, SoloBegins DEF ConfInv
<1>5. ASSUME NEW t \in Threads, NEW c \in Conns, HandleRead(t, c) PROVE Solo'
  <2>1. workers = 0 /\ Confined
    BY <1>5 DEF HandleRead, Confined, serverVars, envVars
  <2> QED
    BY <1>5, <2>1, SoloBegins DEF ConfInv
<1>6. ASSUME NEW t \in Threads, NEW c \in Conns, InConnection(t, c) PROVE Solo'
  <2>1. UNCHANGED <<envVars, serverVars>>
    BY <1>6 DEF InConnection, Insert, Establish, Enable, Opened, ReadData, ReadEnd, UserReturns,
       send, shutdown, forceClose, SetDisconnecting, CloseTest, CloseSet, Closed, removeConnection
  <2>2. Confined
    BY <2>1 DEF Confined, serverVars, envVars
  <2> QED
    BY <1>6, <2>2, SoloInside DEF ConfInv
<1>7. ASSUME NEW c \in Conns, PeerCloses(c) PROVE Solo'
  <2>1. UNCHANGED <<at, m_state, watched, notified>> /\ workers' = workers /\ outside' = outside
    BY <1>7 DEF PeerCloses, serverVars, envVars
  <2> QED
    BY <2>1, SoloStays DEF Confined, ConfInv
<1>8. ASSUME NEW c \in Conns, OutsideCalls(c) PROVE Solo'
  BY <1>8 DEF OutsideCalls, Confined, envVars
<1> QED
  BY <1>1, <1>2, <1>3, <1>4, <1>5, <1>6, <1>7, <1>8 DEF TcpNext

\* Where nothing has begun one thread knows all there is.
LEMMA InitConfInv ==
  ASSUME TcpInit
  PROVE  ConfInv
<1>1. \A t \in Threads : at[t] = <<>>
  BY DEF TcpInit, Idle
<1>2. Steps
  <2>1. 0 \in Threads
    BY TcpServerAssumption DEF Threads, Outside
  <2> QED
    BY <1>1, <2>1 DEF Steps
<1>3. \A c \in Conns : Told(c)
  BY DEF TcpInit, Told, Up
<1> QED
  BY <1>1, <1>2, <1>3 DEF ConfInv, Solo

\* IInv and ConfInv hold in every state.
LEMMA AlwaysConfInv == TcpSpec => [](IInv /\ ConfInv)
<1>1. TcpInit => IInv /\ ConfInv
  BY InitIInv, InitConfInv
<1>2. IInv /\ ConfInv /\ [TcpNext]_tcpVars => (IInv /\ ConfInv)'
  BY NextIInv, NextConfInv
<1> QED
  BY <1>1, <1>2, PTL DEF TcpSpec

\* One thread tells the application of a connection in order, even if a callback closes it
\* again (TcpConnection.cpp:198-201).
THEOREM NotifiedInOrderHolds == TcpSpec => []NotifiedInOrder
<1>1. IInv /\ ConfInv => NotifiedInOrder
  <2> SUFFICES ASSUME IInv, Solo, NEW c \in Conns
               PROVE  LET n == notified[c] IN
                      /\ Count(c, "up") <= 1 /\ Count(c, "down") <= 1
                      /\ \A i \in DOMAIN n : /\ n[i] = "up" => i = 1
                                             /\ n[i] = "message" => n[1] = "up"
                                             /\ n[i] = "down" => i = Len(n)
    BY DEF ConfInv, NotifiedInOrder
  <2>1. notified[c] \in Seq(Calls)
    BY DEF IInv, Calls
  <2>2. Open(<<>>)
    BY DEF Open
  <2>3. m_state[c] \in {"none", "Connecting"} \cup Up \cup {"DisConnected"}
    BY DEF IInv, TcpTypeOK, Up
  <2>4. Open(notified[c]) \/ Shut(notified[c])
    BY <2>2, <2>3 DEF Solo, Told
  <2> QED
    BY <2>1, <2>4, OrderOfCalls
<1> QED
  BY <1>1, AlwaysConfInv, PTL

\* Where one thread alone uses connections no step takes the state of one back
\* (TcpConnection.cpp:91-93, 103-105).
THEOREM StateGoesForwardHolds == TcpSpec => StateGoesForward
<1> DEFINE Forward == \A c \in Conns : Rank[m_state[c]] <= Rank[m_state'[c]]
<1>1. IInv /\ ConfInv /\ [TcpNext]_tcpVars
      => [Confined' => Forward]_tcpVars
  <2> SUFFICES ASSUME IInv, ConfInv, TcpNext, Confined' PROVE Forward
    OBVIOUS
  <2>1. m_state \in [Conns -> {"none", "Connecting", "Connected", "Disconnecting",
                               "DisConnected"}]
    BY DEF IInv, TcpTypeOK
  <2>2. CASE UNCHANGED m_state
    BY <2>1, <2>2 DEF Rank
  <2>3. ASSUME NEW c \in Conns, NEW next \in {"Connecting", "Connected", "Disconnecting",
                                               "DisConnected"},
               m_state' = [m_state EXCEPT ![c] = next], Rank[m_state[c]] <= Rank[next]
        PROVE  Forward
    BY <2>1, <2>3 DEF Rank
  <2>4. CASE Accept
    <3>1. m_nextConnId \in Conns /\ m_state' = [m_state EXCEPT ![m_nextConnId] = "Connecting"]
      BY <2>4 DEF Accept, MakeConnection, IInv, TcpTypeOK, Conns
    <3>2. m_state[m_nextConnId] = "none"
      BY <3>1 DEF IInv, MakesFresh, Untouched, TcpTypeOK
    <3>3. Rank[m_state[m_nextConnId]] <= Rank["Connecting"]
      BY <3>2 DEF Rank
    <3> QED
      BY <2>3, <3>1, <3>3
  <2>5. ASSUME NEW t \in Threads, NEW c \in Conns, Establish(t, c) PROVE Forward
    <3>1. Here(t, "establish", c) /\ "establish" \in PCs /\ "establish" \in Making
      BY <2>5 DEF Establish, PCs, Making
    <3>2. m_state[c] = "Connecting"
      BY <3>1, AtStep, FrameFacts DEF Fresh
    <3>3. m_state' = [m_state EXCEPT ![c] = "Connected"]
      BY <2>5, <3>2 DEF Establish
    <3>4. Rank[m_state[c]] <= Rank["Connected"]
      BY <3>2 DEF Rank
    <3> QED
      BY <2>3, <3>3, <3>4
  <2>6. ASSUME NEW t \in Threads, NEW c \in Conns, CloseSet(t, c) PROVE Forward
    <3>1. m_state' = [m_state EXCEPT ![c] = "DisConnected"]
      BY <2>6 DEF CloseSet
    <3>2. Rank[m_state[c]] <= Rank["DisConnected"]
      BY <2>1 DEF Rank
    <3> QED
      BY <2>3, <3>1, <3>2
  <2>7. ASSUME NEW t \in Threads, NEW c \in Conns, SetDisconnecting(t, c) PROVE Forward
    <3>1. /\ m_state' = [m_state EXCEPT ![c] = "Disconnecting"]
          /\ UNCHANGED <<envVars, serverVars>>
          /\ Here(t, "shutSet", c) \/ Here(t, "forceSet", c)
      BY <2>7 DEF SetDisconnecting
    <3>2. Solo
      BY <3>1 DEF ConfInv, Confined, envVars, serverVars
    <3>3. m_state[c] \in Up
      BY <3>1, <3>2, SoloAt DEF PCs, Knows
    <3>4. Rank[m_state[c]] <= Rank["Disconnecting"]
      BY <3>3 DEF Rank, Up
    <3> QED
      BY <2>3, <3>1, <3>4
  <2>8. ASSUME NEW t \in Threads, NEW c \in Conns, HandleRead(t, c) \/ InConnection(t, c)
        PROVE  Forward
    <3>1. CASE Establish(t, c) \/ CloseSet(t, c) \/ SetDisconnecting(t, c)
      BY <2>5, <2>6, <2>7, <3>1
    <3>2. CASE HandleRead(t, c) \/ Insert(t, c) \/ ReadEnd(t, c) \/ UserReturns(t, c)
               \/ shutdown(t, c) \/ forceClose(t, c) \/ CloseTest(t, c)
      BY <2>2, <3>2 DEF HandleRead, Insert, ReadEnd, UserReturns, shutdown, forceClose, CloseTest,
         connVars
    <3>3. CASE Enable(t, c) \/ Opened(t, c) \/ ReadData(t, c) \/ send(t, c) \/ Closed(t, c)
               \/ removeConnection(t, c)
      BY <2>2, <3>3 DEF Enable, Opened, ReadData, send, Closed, removeConnection
    <3> QED
      BY <2>8, <3>1, <3>2, <3>3 DEF InConnection
  <2>9. CASE stop \/ (\E w \in 0..MaxWorkers : start(w))
             \/ (\E c \in Conns : PeerCloses(c) \/ OutsideCalls(c))
    BY <2>2, <2>9 DEF start, stop, PeerCloses, OutsideCalls, connVars
  <2> QED
    BY <2>4, <2>8, <2>9 DEF TcpNext
<1>2. [][Confined' => Forward]_tcpVars => StateGoesForward
  BY DEF StateGoesForward
<1> QED
  BY <1>1, <1>2, AlwaysConfInv, PTL DEF TcpSpec
=============================================================================
