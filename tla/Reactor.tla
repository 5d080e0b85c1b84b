------------------------------- MODULE Reactor -------------------------------
(***************************************************************************)
(* Net/EventLoop.cpp, Net/KaPoller.cpp and Net/KaChannel.cpp: the loop of  *)
(* one thread, its table of channels, and the kernel's epoll set, which is *)
(* external.                                                               *)
(*                                                                         *)
(* Channels are used by the loop's own thread: before loop() or in a       *)
(* timer's callback, the only user code that loop() runs (the event        *)
(* handler, handleEventWithGuard, is empty and m_pendingFunctors is never  *)
(* filled).  A constructor leaves a channel KAdded, although no table has  *)
(* it; setIndex(KNew) is public and is the only way to make it new, so an  *)
(* owner may call it.  A channel is destroyed with the socket it is for,   *)
(* and a later socket may get the same descriptor.                         *)
(***************************************************************************)
EXTENDS Integers, Sequences, FiniteSets

CONSTANTS Channels,       \* addresses of KaChannel objects
          Fds,            \* descriptors
          EventTypes,     \* the bits of an event mask: EPOLLIN, EPOLLOUT
          InitEventList,  \* room for events in m_events at first (16)
          WakeChannel, WakeFd,    \* the loop's own channel
          None

ASSUME ReactorAssumption ==
  /\ None \notin Channels /\ None \notin Fds
  /\ WakeChannel \in Channels /\ WakeFd \in Fds
  /\ InitEventList \in Nat \ {0}
  /\ IsFiniteSet(Fds)

VARIABLES fd,         \* [Channels -> Fds or None], None: there is no such object
          events,     \* m_events
          index,      \* m_index
          told,       \* what the last update() of the channel returned
          m_channels, \* the poller's table, [Fds -> Channels or None]
          kernel,     \* the epoll set: what a descriptor is watched for
          ready,      \* what a descriptor is ready for
          room,       \* m_events.size()
          phase,      \* where loop() is
          active,     \* m_activeChannels from the one being handled on
          crashed     \* an object was used after its end

chanVars == <<fd, events, index, told>>
reactorVars == <<fd, events, index, told, m_channels, kernel, ready, room,
                 phase, active, crashed>>

Unwatched == [ch |-> None, mask |-> {}]
Open == {fd[c] : c \in Channels} \ {None}
InTable(c) == m_channels[fd[c]] = c

\* EventLoop::EventLoop: an empty poller, and the wake-up channel, whose
\* enableReading fails because no table has it.
ReactorInit ==
  /\ fd = [c \in Channels |-> IF c = WakeChannel THEN WakeFd ELSE None]
  /\ events = [c \in Channels |-> IF c = WakeChannel THEN EventTypes ELSE {}]
  /\ index = [c \in Channels |-> "KAdded"]
  /\ told = [c \in Channels |-> FALSE]
  /\ m_channels = [f \in Fds |-> None]
  /\ kernel = [f \in Fds |-> Unwatched]
  /\ ready = [f \in Fds |-> {}]
  /\ room = InitEventList
  /\ phase = "before"
  /\ active = <<>>
  /\ crashed = FALSE

-----------------------------------------------------------------------------
UserCode == phase \in {"before", "timers"} /\ ~crashed

\* KaChannel::KaChannel for a new socket.
NewChannel(c, f) ==
  /\ UserCode /\ fd[c] = None /\ f \notin Open
  /\ fd' = [fd EXCEPT ![c] = f]
  /\ events' = [events EXCEPT ![c] = {}]
  /\ index' = [index EXCEPT ![c] = "KAdded"]
  /\ told' = [told EXCEPT ![c] = FALSE]
  /\ UNCHANGED <<m_channels, kernel, ready, room, phase, active, crashed>>

\* setIndex(KNew), on a channel that watches nothing.
MakeNew(c) ==
  /\ UserCode /\ fd[c] # None /\ events[c] = {} /\ ~told[c]
  /\ index' = [index EXCEPT ![c] = "KNew"]
  /\ UNCHANGED <<fd, events, told, m_channels, kernel, ready, room, phase,
                 active, crashed>>

\* The end of a channel and of its socket.  Nothing removes the channel from
\* the table; the kernel forgets a descriptor that is closed.
DestroyChannel(c) ==
  /\ UserCode /\ fd[c] # None
  /\ kernel' = [kernel EXCEPT ![fd[c]] = Unwatched]
  /\ ready' = [ready EXCEPT ![fd[c]] = {}]
  /\ fd' = [fd EXCEPT ![c] = None]
  /\ UNCHANGED <<events, index, told, m_channels, room, phase, active, crashed>>

\* KaPoller::update, that is, epoll_ctl.  The kernel may lack the memory to
\* add a descriptor, and refuses to change what it has not.
ctl(op, c, mask) ==
  LET f == fd[c] IN
  \/ /\ (kernel[f] = Unwatched) = (op = "ADD")
     /\ kernel' = [kernel EXCEPT ![f] =
                     IF op = "DEL" THEN Unwatched ELSE [ch |-> c, mask |-> mask]]
     /\ told' = [told EXCEPT ![c] = TRUE]
  \/ /\ kernel[f] = Unwatched \/ op = "ADD"
     /\ told' = [told EXCEPT ![c] = FALSE]
     /\ UNCHANGED kernel

Refused(c) ==
  /\ told' = [told EXCEPT ![c] = FALSE]
  /\ UNCHANGED <<index, m_channels, kernel>>

\* updateChannel of a KNew or KDeleted channel: it is KAdded whether epoll_ctl
\* agrees or not.
Register(c, mask) ==
  IF index[c] = "KNew" /\ m_channels[fd[c]] # None THEN Refused(c)
  ELSE IF index[c] = "KDeleted" /\ ~InTable(c) THEN Refused(c)
  ELSE /\ m_channels' = [m_channels EXCEPT ![fd[c]] = c]
       /\ index' = [index EXCEPT ![c] = "KAdded"]
       /\ ctl("ADD", c, mask)

\* As Change, but a channel without events is left to the kernel.
Change_KeepIdle(c, mask) ==
  IF ~InTable(c) THEN Refused(c)
  ELSE IF mask = {}
  THEN /\ told' = [told EXCEPT ![c] = TRUE]
       /\ index' = [index EXCEPT ![c] = "KDeleted"]
       /\ UNCHANGED <<m_channels, kernel>>
  ELSE ctl("MOD", c, mask) /\ UNCHANGED <<index, m_channels>>

\* updateChannel of a KAdded channel.
Change(c, mask) ==
  IF ~InTable(c) THEN Refused(c)
  ELSE IF mask = {}
  THEN /\ ctl("DEL", c, mask)
       /\ index' = IF told'[c] THEN [index EXCEPT ![c] = "KDeleted"] ELSE index
       /\ UNCHANGED m_channels
  ELSE ctl("MOD", c, mask) /\ UNCHANGED <<index, m_channels>>

\* enableReading, enableWriting, disableReading, disableWriting, disableAll:
\* m_events is changed first, then the poller is told.
updateChannel(c, mask) ==
  /\ UserCode /\ fd[c] # None
  /\ events' = [events EXCEPT ![c] = mask]
  /\ IF index[c] = "KAdded" THEN Change(c, mask) ELSE Register(c, mask)
  /\ UNCHANGED <<fd, ready, room, phase, active, crashed>>

enable(c) == \E e \in EventTypes : updateChannel(c, events[c] \cup {e})
disable(c) == \/ \E e \in EventTypes : updateChannel(c, events[c] \ {e})
              \/ updateChannel(c, {})

\* KaPoller::removeChannel, whatever epoll_ctl says to the removal.
Removed(c) ==
  /\ InTable(c) /\ events[c] = {} /\ index[c] \in {"KAdded", "KDeleted"}
  /\ m_channels' = [m_channels EXCEPT ![fd[c]] = None]
  /\ index' = [index EXCEPT ![c] = "KNew"]
  /\ kernel' = IF index[c] = "KAdded" THEN [kernel EXCEPT ![fd[c]] = Unwatched]
               ELSE kernel

\* The loop's removeChannel only hands the channel on: it never runs while events are
\* handled, so m_eventHanding is false.
removeChannel(c) ==
  /\ UserCode /\ fd[c] # None
  /\ Removed(c)
  /\ UNCHANGED <<fd, events, told, ready, room, phase, active, crashed>>

-----------------------------------------------------------------------------
\* loop() begins, and begins each pass with doTimer.
StartLoop ==
  /\ phase = "before" /\ ~crashed
  /\ phase' = "timers"
  /\ UNCHANGED <<chanVars, m_channels, kernel, ready, room, active, crashed>>

\* The descriptors epoll_wait may report, as many as there is room for: which
\* ones is the kernel's choice.
Reportable == {f \in Fds : kernel[f].mask \cap ready[f] # {}}
Batches ==
  {b \in SUBSET Reportable :
     Cardinality(b) = IF Cardinality(Reportable) <= room
                      THEN Cardinality(Reportable) ELSE room}

Orders(S) == {s \in [1..Cardinality(S) -> S] : \A i, j \in DOMAIN s : s[i] = s[j] => i = j}

\* fillActiveChannel returns at the first event whose channel is not in the
\* table.
fillActiveChannel(batch) ==
  LET known(i) == m_channels[batch[i]] = kernel[batch[i]].ch
      stop == {i \in DOMAIN batch : ~known(i)}
      n == IF stop = {} THEN Len(batch)
           ELSE (CHOOSE i \in stop : \A j \in stop : i <= j) - 1
  IN [i \in 1..n |-> kernel[batch[i]].ch]

\* m_events keeps its size.
Grown_Never(n) == room

\* m_events is doubled when it was full.
Grown(n) == IF n = room THEN 2 * room ELSE room

\* doTimer returns, m_activeChannels is cleared, and poll returns with a batch
\* or, after a millisecond, without.
Poll ==
  /\ phase = "timers" /\ ~crashed
  /\ \E b \in Batches : \E batch \in Orders(b) :
       /\ active' = fillActiveChannel(batch)
       /\ room' = Grown(Len(batch))
  /\ phase' = "handling"
  /\ UNCHANGED <<chanVars, m_channels, kernel, ready, crashed>>

\* handleEvent of the next active channel.
HandleEvent ==
  /\ phase = "handling" /\ active # <<>> /\ ~crashed
  /\ crashed' = (fd[Head(active)] = None)
  /\ active' = Tail(active)
  /\ UNCHANGED <<chanVars, m_channels, kernel, ready, room, phase>>

\* doPendingFunctors has nothing to do; m_quit is false whatever quit() stores.
EndPass ==
  /\ phase = "handling" /\ active = <<>> /\ ~crashed
  /\ phase' = "timers"
  /\ UNCHANGED <<chanVars, m_channels, kernel, ready, room, active, crashed>>

\* The peer, or the kernel's buffers: an open descriptor becomes ready, or not.
Readiness(f) ==
  /\ f \in Open
  /\ \E e \in SUBSET EventTypes : ready' = [ready EXCEPT ![f] = e]
  /\ UNCHANGED <<chanVars, m_channels, kernel, room, phase, active, crashed>>

ReactorNext ==
  \/ \E c \in Channels \ {WakeChannel} :
                         \/ \E f \in Fds : NewChannel(c, f)
                         \/ MakeNew(c) \/ DestroyChannel(c)
                         \/ enable(c) \/ disable(c) \/ removeChannel(c)
  \/ StartLoop \/ Poll \/ HandleEvent \/ EndPass
  \/ \E f \in Fds : Readiness(f)

ReactorSpec == ReactorInit /\ [][ReactorNext]_reactorVars

\* loop() is called and its thread runs: epoll_wait returns after a millisecond
\* at the latest, and the functions loop() calls return.
LoopStep == StartLoop \/ Poll \/ HandleEvent \/ EndPass
LoopRuns == WF_reactorVars(LoopStep)

-----------------------------------------------------------------------------
ReactorTypeOK ==
  /\ fd \in [Channels -> Fds \cup {None}]
  /\ events \in [Channels -> SUBSET EventTypes]
  /\ index \in [Channels -> {"KNew", "KAdded", "KDeleted"}]
  /\ told \in [Channels -> BOOLEAN]
  /\ m_channels \in [Fds -> Channels \cup {None}]
  /\ kernel \in [Fds -> [ch : Channels \cup {None}, mask : SUBSET EventTypes]]
  /\ ready \in [Fds -> SUBSET EventTypes]
  /\ room \in Nat \ {0}
  /\ phase \in {"before", "timers", "handling"}
  /\ active \in Seq(Channels)
  /\ crashed \in BOOLEAN

\* What the kernel watches is a channel that exists and that the table has
\* under its descriptor: fillActiveChannel never drops the rest of a batch, and
\* never follows a pointer to a channel that is gone (KaPoller.cpp:58-71).
KernelInTable ==
  \A f \in Fds : kernel[f] # Unwatched =>
    m_channels[f] = kernel[f].ch /\ fd[m_channels[f]] = f

\* A channel whose last change was reported as done is watched for exactly its
\* m_events; a registration that epoll_ctl refused is never taken for one that
\* worked, although the index says KAdded from then on (KaPoller.cpp:75-124).
ToldIsWatched ==
  \A c \in Channels : fd[c] # None /\ told[c] =>
    /\ kernel[fd[c]].mask = events[c]
    /\ events[c] # {} => kernel[fd[c]].ch = c

\* Only channels that exist are handled, each at most once in a pass.
HandlesLiveOnce ==
  /\ ~crashed
  /\ \A i, j \in DOMAIN active : active[i] = active[j] => i = j

\* The three books that are kept of a channel agree, in every order of creating,
\* changing, removing and destroying channels and with every call of epoll_ctl that
\* fails: what the channel was told, what the table has under its descriptor, and
\* what the kernel watches; so the loop handles only channels that exist.
PollerAgrees ==
  ReactorTypeOK /\ KernelInTable /\ ToldIsWatched /\ HandlesLiveOnce

Pending(c) == fd[c] # None /\ kernel[fd[c]].ch = c
              /\ kernel[fd[c]].mask \cap ready[fd[c]] # {}

\* A channel that stays ready for what it is watched for is handled, however
\* the kernel chooses among the others: m_events grows until one batch has
\* room for all of them.
PendingIsHandled ==
  \A c \in Channels :
    Pending(c) ~> (~Pending(c) \/ (active # <<>> /\ Head(active) = c))
=============================================================================
