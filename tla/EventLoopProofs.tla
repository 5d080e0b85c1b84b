---------------------------- MODULE EventLoopProofs ----------------------------
(***************************************************************************)
(* Proofs about the event loop and about the threads that run loops.       *)
(*                                                                         *)
(* The poller's table, the kernel's epoll set and the channels of Reactor  *)
(* agree for every number of channels and descriptors.  IInv adds to the   *)
(* properties what they rest on: a descriptor belongs to one channel at a  *)
(* time; what the kernel watches is KAdded and was reported as done; the   *)
(* loop's list of active channels is empty while user code runs.           *)
(*                                                                         *)
(* A pool's loops run and its turns are fair for every number of threads.  *)
(* LoopsIInv says how far start has come: the loops it has found so far    *)
(* are those of the threads before pos, which run; those after pos are not *)
(* made; and nobody has had a turn.                                        *)
(***************************************************************************)
EXTENDS Reactor, LoopThreads, FiniteSetTheorems, TLAPS

-----------------------------------------------------------------------------
(* The event loop.                                                         *)

\* A descriptor is held by one channel.
OneHolder == \A c, d \in Channels : fd[c] = fd[d] /\ fd[c] # None => c = d

\* What the kernel has, the table has, and its channel was told so.
KernelKnown ==
  \A f \in Fds : kernel[f] # Unwatched =>
    /\ kernel[f].ch \in Channels
    /\ m_channels[f] = kernel[f].ch
    /\ fd[kernel[f].ch] = f
    /\ index[kernel[f].ch] = "KAdded"
    /\ told[kernel[f].ch]

\* The channels to be handled exist, and differ.
ActiveAreLive ==
  /\ phase # "handling" => active = <<>>
  /\ \A i \in DOMAIN active : fd[active[i]] \in Fds
  /\ \A i, j \in DOMAIN active : active[i] = active[j] => i = j
  /\ ~crashed

IInv ==
  /\ ReactorTypeOK /\ OneHolder /\ KernelKnown /\ ToldIsWatched
  /\ ActiveAreLive

-----------------------------------------------------------------------------
\* Init: nothing is watched and nothing was told.
LEMMA InitIInv == ReactorInit => IInv
<1> USE ReactorAssumption
<1> SUFFICES ASSUME ReactorInit
             PROVE  IInv
  OBVIOUS
<1>1. ReactorTypeOK
  <2>1. /\ fd \in [Channels -> Fds \cup {None}]
        /\ events \in [Channels -> SUBSET EventTypes]
        /\ index \in [Channels -> {"KNew", "KAdded", "KDeleted"}]
        /\ told \in [Channels -> BOOLEAN]
    BY DEF ReactorInit
  <2>2. /\ m_channels \in [Fds -> Channels \cup {None}]
        /\ kernel \in [Fds -> [ch : Channels \cup {None}, mask : SUBSET EventTypes]]
        /\ ready \in [Fds -> SUBSET EventTypes]
    BY DEF ReactorInit, Unwatched
  <2>3. room \in Nat \ {0} /\ active \in Seq(Channels)
    BY DEF ReactorInit
  <2> QED
    BY <2>1, <2>2, <2>3 DEF ReactorInit, ReactorTypeOK
<1>2. OneHolder
  BY DEF ReactorInit, OneHolder
<1>3. KernelKnown
  BY DEF ReactorInit, KernelKnown, Unwatched
<1>4. ToldIsWatched
  BY DEF ReactorInit, ToldIsWatched
<1>5. ActiveAreLive
  BY DEF ReactorInit, ActiveAreLive
<1> QED
  BY <1>1, <1>2, <1>3, <1>4, <1>5 DEF IInv

\* A channel is constructed.
LEMMA NewChannelIInv ==
  ASSUME IInv, NEW c \in Channels, NEW f \in Fds, NewChannel(c, f)
  PROVE  IInv'
<1> USE ReactorAssumption
<1>1. ReactorTypeOK'
  BY DEF IInv, ReactorTypeOK, NewChannel
<1>2. OneHolder'
  BY DEF IInv, ReactorTypeOK, OneHolder, NewChannel, Open
<1>3. KernelKnown'
  BY DEF IInv, ReactorTypeOK, KernelKnown, NewChannel, Unwatched
<1>4. ToldIsWatched'
  BY DEF IInv, ReactorTypeOK, ToldIsWatched, NewChannel
<1>5. ActiveAreLive'
  BY DEF IInv, ReactorTypeOK, ActiveAreLive, NewChannel, UserCode
<1> QED
  BY <1>1, <1>2, <1>3, <1>4, <1>5 DEF IInv

\* setIndex(KNew)
LEMMA MakeNewIInv ==
  ASSUME IInv, NEW c \in Channels, MakeNew(c)
  PROVE  IInv'
<1>1. ReactorTypeOK'
  BY DEF IInv, ReactorTypeOK, MakeNew
<1>2. OneHolder' /\ ToldIsWatched'
  BY DEF IInv, ReactorTypeOK, OneHolder, ToldIsWatched, MakeNew
<1>3. KernelKnown'
  BY DEF IInv, ReactorTypeOK, KernelKnown, MakeNew, Unwatched
<1>4. ActiveAreLive'
  BY DEF IInv, ActiveAreLive, MakeNew
<1> QED
  BY <1>1, <1>2, <1>3, <1>4 DEF IInv

\* A channel ends with its socket.
LEMMA DestroyChannelIInv ==
  ASSUME IInv, NEW c \in Channels, DestroyChannel(c)
  PROVE  IInv'
<1> USE ReactorAssumption
<1>0. fd[c] \in Fds
  BY DEF IInv, ReactorTypeOK, DestroyChannel
<1>1. ReactorTypeOK'
  BY <1>0 DEF IInv, ReactorTypeOK, DestroyChannel, Unwatched
<1>2. OneHolder'
  BY DEF IInv, ReactorTypeOK, OneHolder, DestroyChannel
<1>3. KernelKnown'
  <2> SUFFICES ASSUME NEW f \in Fds, kernel'[f] # Unwatched
               PROVE  /\ kernel[f] # Unwatched /\ kernel'[f] = kernel[f]
                      /\ fd'[kernel[f].ch] = fd[kernel[f].ch]
    BY DEF IInv, KernelKnown, DestroyChannel
  <2>1. f # fd[c] /\ kernel'[f] = kernel[f]
    BY <1>0 DEF IInv, ReactorTypeOK, DestroyChannel
  <2>2. kernel[f].ch \in Channels /\ kernel[f].ch # c
    BY <2>1 DEF IInv, KernelKnown
  <2> QED
    BY <2>1, <2>2 DEF IInv, ReactorTypeOK, DestroyChannel
<1>4. ToldIsWatched'
  BY <1>0 DEF IInv, ReactorTypeOK, OneHolder, ToldIsWatched, DestroyChannel
<1>5. ActiveAreLive'
  BY DEF IInv, ReactorTypeOK, ActiveAreLive, DestroyChannel, UserCode
<1> QED
  BY <1>1, <1>2, <1>3, <1>4, <1>5 DEF IInv

-----------------------------------------------------------------------------
\* The two outcomes of epoll_ctl, and the refusals before it, cover every way
\* updateChannel ends: the kernel agrees, or told is FALSE and the kernel is as
\* it was.
Added(c, mask) ==
  /\ kernel[fd[c]] = Unwatched
  /\ kernel' = [kernel EXCEPT ![fd[c]] = [ch |-> c, mask |-> mask]]
  /\ told' = [told EXCEPT ![c] = TRUE]
  /\ m_channels' = [m_channels EXCEPT ![fd[c]] = c]
  /\ index' = [index EXCEPT ![c] = "KAdded"]
  /\ index[c] # "KAdded"

NotAdded(c) ==
  /\ kernel[fd[c]] = Unwatched
  /\ told' = [told EXCEPT ![c] = FALSE]
  /\ m_channels' = [m_channels EXCEPT ![fd[c]] = c]
  /\ index' = [index EXCEPT ![c] = "KAdded"]
  /\ UNCHANGED kernel
  /\ index[c] # "KAdded"

Changed(c, mask) ==
  /\ InTable(c) /\ kernel[fd[c]] # Unwatched
  /\ kernel' = [kernel EXCEPT ![fd[c]] = [ch |-> c, mask |-> mask]]
  /\ told' = [told EXCEPT ![c] = TRUE]
  /\ UNCHANGED <<index, m_channels>>

Deleted(c, mask) ==
  /\ InTable(c) /\ kernel[fd[c]] # Unwatched /\ mask = {}
  /\ kernel' = [kernel EXCEPT ![fd[c]] = Unwatched]
  /\ told' = [told EXCEPT ![c] = TRUE]
  /\ index' = [index EXCEPT ![c] = "KDeleted"]
  /\ UNCHANGED m_channels

LeftAlone(c) ==
  /\ kernel[fd[c]] # Unwatched => kernel[fd[c]].ch # c
  /\ told' = [told EXCEPT ![c] = FALSE]
  /\ UNCHANGED <<index, m_channels, kernel>>

\* How updateChannel ends.
LEMMA UpdateEnds ==
  ASSUME IInv, NEW c \in Channels, NEW mask \in SUBSET EventTypes,
         updateChannel(c, mask)
  PROVE  /\ fd[c] \in Fds
         /\ events' = [events EXCEPT ![c] = mask]
         /\ UNCHANGED <<fd, ready, room, phase, active, crashed>>
         /\ UserCode
         /\ \/ Added(c, mask) \/ NotAdded(c) \/ Changed(c, mask)
            \/ Deleted(c, mask) \/ LeftAlone(c)
<1> DEFINE f == fd[c]
<1>1. /\ f \in Fds
      /\ events' = [events EXCEPT ![c] = mask]
      /\ UNCHANGED <<fd, ready, room, phase, active, crashed>>
      /\ UserCode
  BY DEF updateChannel, IInv, ReactorTypeOK
<1>2. kernel[f] # Unwatched /\ kernel[f].ch = c => index[c] = "KAdded" /\ InTable(c)
  BY <1>1 DEF IInv, KernelKnown, InTable
<1>3. CASE index[c] # "KAdded"
  <2>1. Register(c, mask)
    BY <1>3 DEF updateChannel
  <2>2. CASE \/ index[c] = "KNew" /\ m_channels[f] # None
             \/ index[c] = "KDeleted" /\ ~InTable(c)
    <3>1. Refused(c)
      BY <2>1, <2>2 DEF Register
    <3> QED
      BY <3>1, <1>1, <1>2, <1>3 DEF Refused, LeftAlone
  <2>3. CASE ~(\/ index[c] = "KNew" /\ m_channels[f] # None
               \/ index[c] = "KDeleted" /\ ~InTable(c))
    <3>1. /\ m_channels' = [m_channels EXCEPT ![f] = c]
          /\ index' = [index EXCEPT ![c] = "KAdded"]
          /\ ctl("ADD", c, mask)
      BY <2>1, <2>3 DEF Register
    <3>2. kernel[f] = Unwatched
      <4>1. index[c] \in {"KNew", "KDeleted"}
        BY <1>3 DEF IInv, ReactorTypeOK
      <4>2. m_channels[f] = None \/ m_channels[f] = c
        BY <4>1, <2>3 DEF InTable
      <4> QED
        BY <1>1, <1>2, <1>3, <4>2, ReactorAssumption DEF IInv, KernelKnown
    <3>3. CASE /\ told' = [told EXCEPT ![c] = TRUE]
               /\ kernel' = [kernel EXCEPT ![f] = [ch |-> c, mask |-> mask]]
      BY <3>1, <3>2, <3>3, <1>1, <1>3 DEF Added
    <3>4. CASE told' = [told EXCEPT ![c] = FALSE] /\ UNCHANGED kernel
      BY <3>1, <3>2, <3>4, <1>1, <1>3 DEF NotAdded
    <3> QED
      BY <3>1, <3>3, <3>4 DEF ctl
  <2> QED
    BY <2>2, <2>3
<1>4. CASE index[c] = "KAdded"
  <2>1. Change(c, mask)
    BY <1>4 DEF updateChannel
  <2>2. CASE ~InTable(c)
    <3>1. Refused(c)
      BY <2>1, <2>2 DEF Change
    <3> QED
      BY <3>1, <2>2, <1>1, <1>2 DEF Refused, LeftAlone
  <2>3. CASE InTable(c) /\ mask # {}
    <3>1. ctl("MOD", c, mask) /\ UNCHANGED <<index, m_channels>>
      BY <2>1, <2>3 DEF Change
    <3> QED
      BY <3>1, <2>3, <1>1 DEF ctl, Changed, LeftAlone
  <2>4. CASE InTable(c) /\ mask = {}
    <3>1. /\ ctl("DEL", c, mask)
          /\ index' = IF told'[c] THEN [index EXCEPT ![c] = "KDeleted"] ELSE index
          /\ UNCHANGED m_channels
      BY <2>1, <2>4 DEF Change
    <3>2. told \in [Channels -> BOOLEAN]
      BY DEF IInv, ReactorTypeOK
    <3>3. CASE /\ kernel[f] # Unwatched
               /\ kernel' = [kernel EXCEPT ![f] = Unwatched]
               /\ told' = [told EXCEPT ![c] = TRUE]
      BY <3>1, <3>2, <3>3, <2>4, <1>1 DEF Deleted
    <3>4. CASE /\ kernel[f] = Unwatched
               /\ told' = [told EXCEPT ![c] = FALSE]
               /\ UNCHANGED kernel
      BY <3>1, <3>2, <3>4, <2>4, <1>1 DEF LeftAlone
    <3> QED
      BY <3>1, <3>3, <3>4 DEF ctl
  <2> QED
    BY <2>2, <2>3, <2>4
<1> QED
  BY <1>1, <1>3, <1>4

\* enableReading and the others.
LEMMA UpdateIInv ==
  ASSUME IInv, NEW c \in Channels, NEW mask \in SUBSET EventTypes,
         updateChannel(c, mask)
  PROVE  IInv'
<1> USE ReactorAssumption
<1> DEFINE End == \/ Added(c, mask) \/ NotAdded(c) \/ Changed(c, mask)
                  \/ Deleted(c, mask) \/ LeftAlone(c)
<1>1. /\ fd[c] \in Fds
      /\ events' = [events EXCEPT ![c] = mask]
      /\ UNCHANGED <<fd, ready, room, phase, active, crashed>>
      /\ UserCode /\ End
  BY UpdateEnds
<1>2. ReactorTypeOK'
  <2>1. /\ m_channels' \in [Fds -> Channels \cup {None}]
        /\ index' \in [Channels -> {"KNew", "KAdded", "KDeleted"}]
    BY <1>1 DEF IInv, ReactorTypeOK, Added, NotAdded, Changed, Deleted, LeftAlone
  <2>2. kernel' \in [Fds -> [ch : Channels \cup {None}, mask : SUBSET EventTypes]]
    <3>1. [ch |-> c, mask |-> mask] \in [ch : Channels \cup {None}, mask : SUBSET EventTypes]
      OBVIOUS
    <3>2. Unwatched \in [ch : Channels \cup {None}, mask : SUBSET EventTypes]
      BY DEF Unwatched
    <3> QED
      BY <1>1, <3>1, <3>2 DEF IInv, ReactorTypeOK, Added, NotAdded, Changed, Deleted, LeftAlone
  <2>3. told' \in [Channels -> BOOLEAN]
    BY <1>1 DEF IInv, ReactorTypeOK, Added, NotAdded, Changed, Deleted, LeftAlone
  <2>4. events' \in [Channels -> SUBSET EventTypes]
    BY <1>1 DEF IInv, ReactorTypeOK
  <2> QED
    BY <1>1, <2>1, <2>2, <2>3, <2>4 DEF IInv, ReactorTypeOK
<1>3. OneHolder'
  BY <1>1 DEF IInv, OneHolder
<1>4. KernelKnown'
  <2> SUFFICES ASSUME NEW f \in Fds, kernel'[f] # Unwatched
               PROVE  /\ kernel'[f].ch \in Channels
                      /\ m_channels'[f] = kernel'[f].ch
                      /\ fd'[kernel'[f].ch] = f
                      /\ index'[kernel'[f].ch] = "KAdded"
                      /\ told'[kernel'[f].ch]
    BY DEF KernelKnown, Unwatched
  <2>1. CASE f = fd[c]
    <3>1. CASE Added(c, mask)
      BY <3>1, <2>1, <1>1 DEF IInv, ReactorTypeOK, Added
    <3>2. CASE NotAdded(c) \/ Deleted(c, mask)
      BY <3>2, <2>1, <1>1 DEF IInv, ReactorTypeOK, NotAdded, Deleted
    <3>3. CASE Changed(c, mask)
      <4>1. kernel[f].ch = c /\ m_channels[f] = c /\ index[c] = "KAdded"
        BY <3>3, <2>1, <1>1 DEF IInv, KernelKnown, InTable, Changed
      <4> QED
        BY <4>1, <3>3, <2>1, <1>1 DEF IInv, ReactorTypeOK, Changed
    <3>4. CASE LeftAlone(c)
      <4>1. kernel[f] # Unwatched /\ kernel[f].ch # c /\ kernel[f].ch \in Channels
        BY <3>4, <2>1, <1>1 DEF IInv, KernelKnown, LeftAlone
      <4> QED
        BY <4>1, <3>4, <2>1, <1>1 DEF IInv, ReactorTypeOK, KernelKnown, LeftAlone
    <3> QED
      BY <1>1, <3>1, <3>2, <3>3, <3>4
  <2>2. CASE f # fd[c]
    <3>1. kernel'[f] = kernel[f] /\ m_channels'[f] = m_channels[f]
      BY <2>2, <1>1 DEF IInv, ReactorTypeOK, Added, NotAdded, Changed, Deleted, LeftAlone
    <3>2. kernel[f].ch \in Channels \ {c}
      BY <3>1, <2>2 DEF IInv, KernelKnown
    <3>3. index'[kernel[f].ch] = index[kernel[f].ch] /\ told'[kernel[f].ch] = told[kernel[f].ch]
      BY <3>2, <1>1 DEF IInv, ReactorTypeOK, Added, NotAdded, Changed, Deleted, LeftAlone
    <3> QED
      BY <3>1, <3>2, <3>3, <1>1 DEF IInv, KernelKnown
  <2> QED
    BY <2>1, <2>2
<1>5. ToldIsWatched'
  <2> SUFFICES ASSUME NEW d \in Channels, fd'[d] # None, told'[d]
               PROVE  /\ kernel'[fd'[d]].mask = events'[d]
                      /\ events'[d] # {} => kernel'[fd'[d]].ch = d
    BY DEF ToldIsWatched
  <2>1. CASE d = c
    <3>1. CASE Added(c, mask) \/ Changed(c, mask)
      BY <3>1, <2>1, <1>1 DEF IInv, ReactorTypeOK, Added, Changed
    <3>2. CASE Deleted(c, mask)
      BY <3>2, <2>1, <1>1 DEF IInv, ReactorTypeOK, Deleted, Unwatched
    <3>3. CASE NotAdded(c) \/ LeftAlone(c)
      BY <3>3, <2>1, <1>1 DEF IInv, ReactorTypeOK, NotAdded, LeftAlone
    <3> QED
      BY <1>1, <3>1, <3>2, <3>3
  <2>2. CASE d # c
    <3>1. fd[d] \in Fds /\ fd[d] # fd[c]
      BY <2>2, <1>1 DEF IInv, ReactorTypeOK, OneHolder
    <3>2. kernel'[fd[d]] = kernel[fd[d]] /\ told'[d] = told[d] /\ events'[d] = events[d]
      BY <2>2, <3>1, <1>1 DEF IInv, ReactorTypeOK, Added, NotAdded, Changed, Deleted, LeftAlone
    <3> QED
      BY <3>1, <3>2, <1>1 DEF IInv, ToldIsWatched
  <2> QED
    BY <2>1, <2>2
<1>6. ActiveAreLive'
  BY <1>1 DEF IInv, ActiveAreLive
<1> QED
  BY <1>2, <1>3, <1>4, <1>5, <1>6 DEF IInv

\* removeChannel
LEMMA RemoveIInv ==
  ASSUME IInv, NEW c \in Channels, removeChannel(c)
  PROVE  IInv'
<1> USE ReactorAssumption
<1>1. fd[c] \in Fds /\ InTable(c) /\ events[c] = {}
  BY DEF IInv, ReactorTypeOK, removeChannel, Removed, InTable
<1>2. index[c] # "KAdded" => kernel[fd[c]] = Unwatched
  BY <1>1 DEF IInv, KernelKnown, InTable
<1>3. kernel' = [kernel EXCEPT ![fd[c]] = Unwatched]
  <2>1. CASE index[c] = "KAdded"
    BY <2>1 DEF removeChannel, Removed
  <2>2. CASE index[c] # "KAdded"
    BY <2>2, <1>2, <1>1 DEF removeChannel, Removed, IInv, ReactorTypeOK
  <2> QED
    BY <2>1, <2>2
<1>4. ReactorTypeOK'
  BY <1>1, <1>3 DEF IInv, ReactorTypeOK, removeChannel, Removed, Unwatched
<1>5. OneHolder' /\ ActiveAreLive'
  BY <1>1 DEF IInv, OneHolder, ActiveAreLive, removeChannel
<1>6. KernelKnown'
  <2> SUFFICES ASSUME NEW f \in Fds, kernel'[f] # Unwatched
               PROVE  /\ kernel'[f].ch \in Channels
                      /\ m_channels'[f] = kernel'[f].ch
                      /\ fd'[kernel'[f].ch] = f
                      /\ index'[kernel'[f].ch] = "KAdded"
                      /\ told'[kernel'[f].ch]
    BY DEF KernelKnown, Unwatched
  <2>1. f # fd[c] /\ kernel'[f] = kernel[f]
    BY <1>1, <1>3 DEF IInv, ReactorTypeOK
  <2>2. kernel[f].ch \in Channels \ {c}
    BY <2>1 DEF IInv, KernelKnown
  <2> QED
    BY <2>1, <2>2, <1>1 DEF IInv, ReactorTypeOK, KernelKnown, removeChannel, Removed
<1>7. ToldIsWatched'
  BY <1>1, <1>3 DEF IInv, ReactorTypeOK, OneHolder, ToldIsWatched, removeChannel, Removed,
                    Unwatched
<1> QED
  BY <1>4, <1>5, <1>6, <1>7 DEF IInv

-----------------------------------------------------------------------------
\* The order in which the kernel reports a batch is a sequence without
\* repetition.
LEMMA OrderType ==
  ASSUME NEW batch, NEW S \in SUBSET Fds, batch \in Orders(S)
  PROVE  /\ batch \in Seq(S)
         /\ \A i, j \in DOMAIN batch : batch[i] = batch[j] => i = j
<1>1. Cardinality(S) \in Nat
  BY FS_Subset, FS_CardinalityType, ReactorAssumption
<1> QED
  BY <1>1 DEF Orders

\* No batch is cut short: fillActiveChannel gives every channel of it.
LEMMA WholeBatch ==
  ASSUME IInv, NEW batch, batch \in Seq(Reportable)
  PROVE  fillActiveChannel(batch) = [i \in 1..Len(batch) |-> kernel[batch[i]].ch]
<1> DEFINE known(i) == m_channels[batch[i]] = kernel[batch[i]].ch
           stop == {i \in DOMAIN batch : ~known(i)}
<1>1. ASSUME NEW i \in DOMAIN batch
      PROVE  known(i)
  <2>1. batch[i] \in Reportable
    OBVIOUS
  <2> QED
    BY <2>1 DEF Reportable, Unwatched, IInv, KernelKnown
<1>2. stop = {}
  BY <1>1
<1> QED
  BY <1>2 DEF fillActiveChannel

\* poll
LEMMA PollIInv ==
  ASSUME IInv, Poll
  PROVE  IInv'
<1>1. PICK b \in Batches : \E batch \in Orders(b) :
         /\ active' = fillActiveChannel(batch)
         /\ room' = Grown(Len(batch))
  BY DEF Poll
<1>2. PICK batch \in Orders(b) :
         /\ active' = fillActiveChannel(batch)
         /\ room' = Grown(Len(batch))
  BY <1>1
<1>3. b \in SUBSET Reportable /\ b \in SUBSET Fds
  BY DEF Batches, Reportable
<1>4. batch \in Seq(b) /\ \A i, j \in DOMAIN batch : batch[i] = batch[j] => i = j
  BY <1>3, OrderType
<1>5. batch \in Seq(Reportable)
  BY <1>3, <1>4
<1>6. active' = [i \in 1..Len(batch) |-> kernel[batch[i]].ch]
  BY <1>2, <1>5, WholeBatch
<1>7. ASSUME NEW i \in 1..Len(batch)
      PROVE  /\ batch[i] \in Fds
             /\ kernel[batch[i]].ch \in Channels
             /\ fd[kernel[batch[i]].ch] = batch[i]
  <2>1. batch[i] \in Reportable
    BY <1>5
  <2> QED
    BY <2>1 DEF Reportable, Unwatched, IInv, KernelKnown
<1>8. active' \in Seq(Channels)
  BY <1>4, <1>6, <1>7
<1>9. /\ phase' = "handling"
      /\ UNCHANGED <<fd, events, index, told, m_channels, kernel, ready, crashed>>
  BY DEF Poll, chanVars
<1>10. room' \in Nat \ {0}
  BY <1>2, <1>4 DEF Grown, IInv, ReactorTypeOK
<1>11. ReactorTypeOK'
  BY <1>8, <1>9, <1>10 DEF IInv, ReactorTypeOK
<1>12. ActiveAreLive'
  <2>1. DOMAIN active' = 1..Len(batch)
    BY <1>6
  <2>2. \A i \in DOMAIN active' : fd'[active'[i]] = batch[i] /\ batch[i] \in Fds
    BY <2>1, <1>6, <1>7, <1>9
  <2>3. DOMAIN batch = 1..Len(batch)
    BY <1>4
  <2>4. \A i, j \in DOMAIN active' : active'[i] = active'[j] => i = j
    BY <2>1, <2>2, <2>3, <1>4
  <2> QED
    BY <2>2, <2>4, <1>9 DEF IInv, ActiveAreLive
<1>13. OneHolder' /\ KernelKnown' /\ ToldIsWatched'
  BY <1>9 DEF IInv, OneHolder, KernelKnown, ToldIsWatched, Unwatched
<1> QED
  BY <1>11, <1>12, <1>13 DEF IInv

\* handleEvent
LEMMA HandleIInv ==
  ASSUME IInv, HandleEvent
  PROVE  IInv'
<1>1. active \in Seq(Channels) /\ active # <<>>
  BY DEF IInv, ReactorTypeOK, HandleEvent
<1>2. Head(active) = active[1] /\ 1 \in DOMAIN active
  BY <1>1
<1>3. fd[Head(active)] # None
  BY <1>2, ReactorAssumption DEF IInv, ActiveAreLive
<1>4. crashed' = FALSE
  BY <1>3 DEF HandleEvent
<1>5. /\ active' \in Seq(Channels)
      /\ \A i \in DOMAIN active' : i + 1 \in DOMAIN active /\ active'[i] = active[i + 1]
      /\ DOMAIN active' \subseteq Nat
  BY <1>1 DEF HandleEvent
<1>6. UNCHANGED <<fd, events, index, told, m_channels, kernel, ready, room, phase>>
  BY DEF HandleEvent, chanVars
<1>7. ReactorTypeOK'
  BY <1>4, <1>5, <1>6 DEF IInv, ReactorTypeOK
<1>8. ActiveAreLive'
  <2>1. phase = "handling"
    BY DEF HandleEvent
  <2>2. \A i \in DOMAIN active' : fd'[active'[i]] \in Fds
    BY <1>5, <1>6 DEF IInv, ActiveAreLive
  <2>3. \A i, j \in DOMAIN active' : active'[i] = active'[j] => i = j
    <3> SUFFICES ASSUME NEW i \in DOMAIN active', NEW j \in DOMAIN active',
                        active'[i] = active'[j]
                 PROVE  i = j
      OBVIOUS
    <3>1. i + 1 = j + 1
      BY <1>5 DEF IInv, ActiveAreLive
    <3> QED
      BY <3>1, <1>5
  <2> QED
    BY <2>1, <2>2, <2>3, <1>4, <1>6 DEF ActiveAreLive
<1>9. OneHolder' /\ KernelKnown' /\ ToldIsWatched'
  BY <1>6 DEF IInv, OneHolder, KernelKnown, ToldIsWatched, Unwatched
<1> QED
  BY <1>7, <1>8, <1>9 DEF IInv

\* The loop's other steps, and the kernel's.
LEMMA OthersIInv ==
  ASSUME IInv, StartLoop \/ EndPass \/ \E f \in Fds : Readiness(f)
  PROVE  IInv'
<1>1. UNCHANGED <<fd, events, index, told, m_channels, kernel, room, active, crashed>>
  BY DEF StartLoop, EndPass, Readiness, chanVars
<1>2. ReactorTypeOK'
  BY <1>1 DEF IInv, ReactorTypeOK, StartLoop, EndPass, Readiness
<1>3. ActiveAreLive'
  BY <1>1 DEF IInv, ActiveAreLive, StartLoop, EndPass, Readiness
<1>4. OneHolder' /\ KernelKnown' /\ ToldIsWatched'
  BY <1>1 DEF IInv, OneHolder, KernelKnown, ToldIsWatched, Unwatched
<1> QED
  BY <1>2, <1>3, <1>4 DEF IInv

\* Every step keeps the invariant.
LEMMA StepIInv == IInv /\ [ReactorNext]_reactorVars => IInv'
<1> SUFFICES ASSUME IInv, [ReactorNext]_reactorVars
             PROVE  IInv'
  OBVIOUS
<1>1. ASSUME NEW c \in Channels, \E f \in Fds : NewChannel(c, f)
      PROVE  IInv'
  BY <1>1, NewChannelIInv
<1>2. ASSUME NEW c \in Channels, MakeNew(c) \/ DestroyChannel(c) \/ removeChannel(c)
      PROVE  IInv'
  BY <1>2, MakeNewIInv, DestroyChannelIInv, RemoveIInv
<1>3. ASSUME NEW c \in Channels, enable(c) \/ disable(c)
      PROVE  IInv'
  <2>1. \E mask \in SUBSET EventTypes : updateChannel(c, mask)
    <3>1. events[c] \in SUBSET EventTypes
      BY DEF IInv, ReactorTypeOK
    <3> QED
      BY <1>3, <3>1 DEF enable, disable
  <2> QED
    BY <2>1, UpdateIInv
<1>4. CASE Poll
  BY <1>4, PollIInv
<1>5. CASE HandleEvent
  BY <1>5, HandleIInv
<1>6. CASE StartLoop \/ EndPass \/ \E f \in Fds : Readiness(f)
  BY <1>6, OthersIInv
<1>7. CASE UNCHANGED reactorVars
  BY <1>7 DEF reactorVars, IInv, ReactorTypeOK, OneHolder, KernelKnown, ToldIsWatched,
              ActiveAreLive, Unwatched
<1> QED
  BY <1>1, <1>2, <1>3, <1>4, <1>5, <1>6, <1>7 DEF ReactorNext

\* The strengthened invariant holds of every loop, whatever its user does.
THEOREM Invariance == ReactorSpec => []IInv
<1>1. ReactorInit => IInv
  BY InitIInv
<1>2. IInv /\ [ReactorNext]_reactorVars => IInv'
  BY StepIInv
<1> QED
  BY <1>1, <1>2, PTL DEF ReactorSpec

-----------------------------------------------------------------------------
\* The variables keep their types.
THEOREM TypeCorrect == ReactorSpec => []ReactorTypeOK
<1>1. IInv => ReactorTypeOK
  BY DEF IInv
<1> QED
  BY <1>1, Invariance, PTL

\* What a channel was told, what the table has and what the kernel watches agree, and
\* only channels that exist are handled, each at most once in a pass.
THEOREM BooksAgree == ReactorSpec => []PollerAgrees
<1>1. IInv => PollerAgrees
  <2>1. IInv => KernelInTable
    BY DEF IInv, KernelKnown, KernelInTable
  <2>2. IInv => HandlesLiveOnce
    BY DEF IInv, ActiveAreLive, HandlesLiveOnce
  <2> QED
    BY <2>1, <2>2 DEF IInv, PollerAgrees
<1> QED
  BY <1>1, Invariance, PTL

-----------------------------------------------------------------------------
(* The threads of a pool.                                                  *)

Starting == {"init", "create", "wait", "asleep"}
Alive == {"published", "test", "pass"}

\* No loop is told to quit, so a loop that was published runs.
NoneQuits ==
  \A i \in LoopIds :
    /\ m_quit[i] = FALSE
    /\ tpc[i] # "ended"
    /\ m_loop[i] <=> tpc[i] \in Alive

\* How far start is.
Progress ==
  /\ opc = "init" => Len(m_loops) = 0
  /\ opc \in {"create", "wait", "asleep"} =>
       pos \in 1..m_numberThreads /\ Len(m_loops) = pos - 1
  /\ opc \notin Starting => Len(m_loops) = m_numberThreads

\* Threads that start has not come to are not made.
Unborn ==
  \A i \in LoopIds :
    \/ opc = "init"
    \/ opc = "create" /\ i >= pos
    \/ opc \in {"wait", "asleep"} /\ i > pos
    => tpc[i] = "none"

\* The loops in the vector, and those that were handed out, are published.
LoopsRun ==
  /\ \A k \in 1..Len(m_loops) : k \in LoopIds /\ m_loops[k] = k /\ m_loop[k]
  /\ \A l \in handed : l = BaseLoop \/ (l \in LoopIds /\ m_loop[l])

\* The loops before m_next have had one turn more than the others.
Turns ==
  /\ opc \in Starting => m_next = 0 /\ \A l \in 0..MaxThreads : asked[l] = 0
  /\ m_next = 0 \/ m_next < Len(m_loops)
  /\ opc = "running" =>
       \A i \in 1..m_numberThreads :
         asked[i] = asked[m_numberThreads] + (IF i <= m_next THEN 1 ELSE 0)

LoopsIInv == LoopThreadsTypeOK /\ NoneQuits /\ Progress /\ Unborn /\ LoopsRun /\ Turns

-----------------------------------------------------------------------------
\* Init: no thread, no loop, no turn.
LEMMA LoopsInitIInv == LoopThreadsInit => LoopsIInv
<1> USE LoopThreadsAssumption
<1> SUFFICES ASSUME LoopThreadsInit
             PROVE  LoopsIInv
  OBVIOUS
<1>1. LoopThreadsTypeOK
  BY DEF LoopThreadsInit, LoopThreadsTypeOK, LoopIds
<1>2. NoneQuits /\ Unborn
  BY DEF LoopThreadsInit, NoneQuits, Unborn, LoopIds, Alive
<1>3. Progress /\ LoopsRun /\ Turns
  BY DEF LoopThreadsInit, Progress, LoopsRun, Turns, Starting
<1> QED
  BY <1>1, <1>2, <1>3 DEF LoopsIInv

\* Where the owner's loop over the threads goes.
LEMMA OnwardType ==
  ASSUME LoopsIInv, NEW i \in 0..m_numberThreads, NEW again, NEW done, Onward(i, again, done)
  PROVE  /\ pos' \in 1..(MaxThreads + 1)
         /\ \/ opc' = again /\ pos' = i + 1 /\ pos' \in 1..m_numberThreads
            \/ opc' = done /\ i = m_numberThreads
  BY LoopThreadsAssumption DEF Onward, LoopsIInv, LoopThreadsTypeOK

\* start and stop begin.
LEMMA PoolIInv ==
  ASSUME LoopsIInv, PoolStart \/ PoolStop
  PROVE  LoopsIInv'
<1> USE LoopThreadsAssumption
<1>0. 0 \in 0..m_numberThreads
  BY DEF LoopsIInv, LoopThreadsTypeOK
<1>1. UNCHANGED <<m_numberThreads, tpc, m_loop, m_quit, m_loops, m_next, asked, handed>>
  BY DEF PoolStart, PoolStop, threadVars, askVars
<1>2. CASE PoolStart
  <2>1. /\ pos' \in 1..(MaxThreads + 1)
        /\ \/ opc' = "create" /\ pos' = 1 /\ pos' \in 1..m_numberThreads
           \/ opc' = "running" /\ m_numberThreads = 0
    BY <1>0, <1>2, OnwardType DEF PoolStart
  <2>2. opc = "init"
    BY <1>2 DEF PoolStart
  <2>3. LoopThreadsTypeOK'
    BY <1>1, <2>1 DEF LoopsIInv, LoopThreadsTypeOK
  <2>4. NoneQuits' /\ LoopsRun'
    BY <1>1 DEF LoopsIInv, NoneQuits, LoopsRun
  <2>5. Progress' /\ Unborn'
    <3>1. Len(m_loops) = 0 /\ m_numberThreads \in Nat
      BY <2>2 DEF LoopsIInv, Progress, LoopThreadsTypeOK
    <3>2. \A i \in LoopIds : tpc[i] = "none"
      BY <2>2 DEF LoopsIInv, Unborn
    <3>3. CASE opc' = "create" /\ pos' = 1 /\ pos' \in 1..m_numberThreads
      BY <1>1, <3>1, <3>2, <3>3 DEF Progress, Unborn, Starting
    <3>4. CASE opc' = "running" /\ m_numberThreads = 0
      BY <1>1, <3>1, <3>2, <3>4 DEF Progress, Unborn, Starting
    <3> QED
      BY <2>1, <3>3, <3>4
  <2>6. Turns'
    BY <1>1, <2>1, <2>2 DEF LoopsIInv, Turns, Starting
  <2> QED
    BY <2>3, <2>4, <2>5, <2>6 DEF LoopsIInv
<1>3. CASE PoolStop
  <2>1. pos' \in 1..(MaxThreads + 1) /\ opc' \in {"quit", "stopped"}
    BY <1>0, <1>3, OnwardType DEF PoolStop
  <2>2. opc = "running"
    BY <1>3 DEF PoolStop
  <2> QED
    BY <1>1, <2>1, <2>2 DEF LoopsIInv, LoopThreadsTypeOK, NoneQuits, Progress, Unborn, LoopsRun,
                            Turns, Starting
<1> QED
  BY <1>2, <1>3

\* startLoop makes the thread and waits.
LEMMA StartLoopIInv ==
  ASSUME LoopsIInv, CreateThread \/ Sleep \/ SpuriousWake
  PROVE  LoopsIInv'
<1> USE LoopThreadsAssumption
<1>1. UNCHANGED <<m_numberThreads, m_loop, m_quit, pos, m_loops, m_next, asked, handed>>
  BY DEF CreateThread, Sleep, SpuriousWake, threadVars, askVars
<1>2. opc \in {"create", "wait", "asleep"} /\ opc' \in {"wait", "asleep"}
  BY DEF CreateThread, Sleep, SpuriousWake
<1>3. pos \in LoopIds /\ Len(m_loops) = pos - 1 /\ pos \in 1..m_numberThreads
  BY <1>2 DEF LoopsIInv, Progress, LoopThreadsTypeOK, LoopIds
<1>4. \/ UNCHANGED tpc /\ opc \in {"wait", "asleep"}
      \/ tpc' = [tpc EXCEPT ![pos] = "begin"] /\ opc = "create" /\ tpc[pos] = "none"
  BY <1>3 DEF CreateThread, Sleep, SpuriousWake, threadVars, LoopsIInv, Unborn, LoopThreadsTypeOK,
              LoopIds
<1>5. LoopThreadsTypeOK'
  BY <1>1, <1>2, <1>3, <1>4 DEF LoopsIInv, LoopThreadsTypeOK
<1>6. NoneQuits'
  BY <1>1, <1>3, <1>4 DEF LoopsIInv, LoopThreadsTypeOK, NoneQuits, Alive
<1>7. Progress' /\ Turns'
  BY <1>1, <1>2, <1>3 DEF LoopsIInv, Progress, Turns, Starting
<1>8. Unborn'
  BY <1>1, <1>2, <1>3, <1>4 DEF LoopsIInv, LoopThreadsTypeOK, Unborn, LoopIds
<1>9. LoopsRun'
  BY <1>1 DEF LoopsIInv, LoopsRun
<1> QED
  BY <1>5, <1>6, <1>7, <1>8, <1>9 DEF LoopsIInv

\* startLoop returns.
LEMMA LoopPublishedIInv ==
  ASSUME LoopsIInv, LoopPublished
  PROVE  LoopsIInv'
<1> USE LoopThreadsAssumption
<1>1. /\ opc = "wait" /\ m_loop[pos]
      /\ m_loops' = Append(m_loops, pos)
      /\ UNCHANGED <<m_numberThreads, tpc, m_loop, m_quit, m_next, asked, handed>>
  BY DEF LoopPublished, threadVars, askVars
<1>2. pos \in 1..m_numberThreads /\ pos \in LoopIds /\ Len(m_loops) = pos - 1
  BY <1>1 DEF LoopsIInv, Progress, LoopThreadsTypeOK, LoopIds
<1>3. /\ pos' \in 1..(MaxThreads + 1)
      /\ \/ opc' = "create" /\ pos' = pos + 1 /\ pos' \in 1..m_numberThreads
         \/ opc' = "running" /\ pos = m_numberThreads
  <2>1. pos \in 0..m_numberThreads
    BY <1>2
  <2> QED
    BY <2>1, OnwardType DEF LoopPublished
<1>4. m_loops \in Seq(LoopIds)
  BY DEF LoopsIInv, LoopThreadsTypeOK
<1>5. /\ m_loops' \in Seq(LoopIds)
      /\ Len(m_loops') = pos
      /\ \A k \in 1..(pos - 1) : m_loops'[k] = m_loops[k]
      /\ m_loops'[pos] = pos
  BY <1>1, <1>2, <1>4
<1>6. LoopThreadsTypeOK'
  BY <1>1, <1>3, <1>5 DEF LoopsIInv, LoopThreadsTypeOK
<1>7. NoneQuits'
  BY <1>1 DEF LoopsIInv, NoneQuits
<1>8. Progress'
  <2>1. CASE opc' = "create" /\ pos' = pos + 1 /\ pos' \in 1..m_numberThreads
    BY <1>1, <1>2, <1>5, <2>1 DEF Progress, Starting
  <2>2. CASE opc' = "running" /\ pos = m_numberThreads
    BY <1>1, <1>5, <2>2 DEF Progress, Starting
  <2> QED
    BY <1>3, <2>1, <2>2
<1>9. Unborn'
  BY <1>1, <1>2, <1>3 DEF LoopsIInv, Unborn, LoopIds
<1>10. LoopsRun'
  BY <1>1, <1>2, <1>5 DEF LoopsIInv, LoopsRun
<1>11. Turns'
  <2>1. m_next = 0 /\ \A l \in 0..MaxThreads : asked[l] = 0
    BY <1>1 DEF LoopsIInv, Turns, Starting
  <2>2. m_numberThreads \in 0..MaxThreads /\ m_numberThreads' = m_numberThreads
    BY <1>1 DEF LoopsIInv, LoopThreadsTypeOK
  <2>3. m_next' = 0 /\ \A l \in 0..MaxThreads : asked'[l] = 0
    BY <1>1, <2>1
  <2>4. \A i \in 1..m_numberThreads' :
          asked'[i] = asked'[m_numberThreads'] + (IF i <= m_next' THEN 1 ELSE 0)
    BY <2>2, <2>3
  <2> QED
    BY <2>3, <2>4 DEF Turns
<1> QED
  BY <1>6, <1>7, <1>8, <1>9, <1>10, <1>11 DEF LoopsIInv

-----------------------------------------------------------------------------
\* A loop thread's steps: no m_quit is TRUE, so none ends.
LEMMA ThreadIInv ==
  ASSUME LoopsIInv, NEW i \in LoopIds, ThreadStep(i)
  PROVE  LoopsIInv'
<1> USE LoopThreadsAssumption
<1>1. m_quit[i] = FALSE
  BY DEF LoopsIInv, NoneQuits
<1>2. UNCHANGED <<m_numberThreads, pos, m_loops, m_next, asked, handed>>
  BY <1>1 DEF ThreadStep, Construct, Publish, EnterLoop, TestQuit, EndOfPass, askVars
<1>3. opc' = opc \/ (opc = "asleep" /\ opc' = "wait")
  BY <1>1 DEF ThreadStep, Construct, Publish, EnterLoop, TestQuit, EndOfPass
<1>4. \E to \in {"constructed", "published", "test", "pass"} :
        /\ tpc' = [tpc EXCEPT ![i] = to]
        /\ m_loop' = [m_loop EXCEPT ![i] = to \in Alive]
  <2>1. m_loop \in [LoopIds -> BOOLEAN] /\ (m_loop[i] <=> tpc[i] \in Alive)
    BY DEF LoopsIInv, LoopThreadsTypeOK, NoneQuits
  <2>2. CASE tpc[i] \in Alive
    <3>1. m_loop[i] = TRUE /\ m_loop' = m_loop
      BY <1>1, <2>1, <2>2 DEF ThreadStep, Construct, Publish, EnterLoop, TestQuit,
                              EndOfPass, Alive
    <3>2. \E to \in {"test", "pass"} : tpc' = [tpc EXCEPT ![i] = to]
      BY <1>1, <2>2 DEF ThreadStep, Construct, Publish, EnterLoop, TestQuit, EndOfPass, Alive
    <3>3. PICK to \in {"test", "pass"} : tpc' = [tpc EXCEPT ![i] = to]
      BY <3>2
    <3>4. (to \in Alive) = TRUE
      BY DEF Alive
    <3>5. m_loop' = [m_loop EXCEPT ![i] = TRUE]
      BY <2>1, <3>1
    <3> QED
      BY <3>3, <3>4, <3>5
  <2>3. CASE tpc[i] \notin Alive
    <3>1. CASE Construct(i)
      <4>1. m_loop[i] = FALSE /\ ("constructed" \in Alive) = FALSE
        BY <2>1, <2>3 DEF Alive
      <4>2. m_loop' = [m_loop EXCEPT ![i] = FALSE]
        BY <2>1, <3>1, <4>1 DEF Construct
      <4>3. tpc' = [tpc EXCEPT ![i] = "constructed"]
        BY <3>1 DEF Construct
      <4> QED
        BY <4>1, <4>2, <4>3
    <3>2. CASE Publish(i)
      <4>1. ("published" \in Alive) = TRUE
        BY DEF Alive
      <4> QED
        BY <3>2, <4>1 DEF Publish
    <3> QED
      BY <2>3, <3>1, <3>2 DEF ThreadStep, EnterLoop, TestQuit, EndOfPass, Alive
  <2> QED
    BY <2>2, <2>3
<1>5. m_quit' = m_quit
  BY <1>1 DEF ThreadStep, Construct, Publish, EnterLoop, TestQuit, EndOfPass, LoopsIInv,
              LoopThreadsTypeOK
<1>6. tpc[i] # "none" /\ (m_loop[i] => m_loop'[i])
  BY <1>1 DEF ThreadStep, Construct, Publish, EnterLoop, TestQuit, EndOfPass, LoopsIInv,
              LoopThreadsTypeOK, NoneQuits, Alive
<1>7. LoopThreadsTypeOK'
  BY <1>2, <1>3, <1>4, <1>5 DEF LoopsIInv, LoopThreadsTypeOK
<1>8. NoneQuits'
  BY <1>4, <1>5, ZenonT(30) DEF LoopsIInv, LoopThreadsTypeOK, NoneQuits, Alive
<1>9. Progress' /\ Turns'
  BY <1>2, <1>3 DEF LoopsIInv, Progress, Turns, Starting
<1>10. Unborn'
  BY <1>2, <1>3, <1>4, <1>6 DEF LoopsIInv, LoopThreadsTypeOK, Unborn
<1>11. \A l \in LoopIds : m_loop[l] => m_loop'[l]
  BY <1>4, <1>6 DEF LoopsIInv, LoopThreadsTypeOK
<1>12. LoopsRun'
  BY <1>2, <1>11 DEF LoopsIInv, LoopsRun
<1> QED
  BY <1>7, <1>8, <1>9, <1>10, <1>12 DEF LoopsIInv

-----------------------------------------------------------------------------
\* quit stores what m_quit is already.
LEMMA StopLoopIInv ==
  ASSUME LoopsIInv, stopLoop
  PROVE  LoopsIInv'
<1>1. m_quit' = [m_quit EXCEPT ![pos] = FALSE]
  BY DEF stopLoop, QuitValue
<1>2. UNCHANGED <<m_numberThreads, tpc, m_loop, pos, m_loops, m_next, asked, handed>>
  BY DEF stopLoop, askVars
<1>3. opc = "quit" /\ opc' = "join"
  BY DEF stopLoop
<1> QED
  BY <1>1, <1>2, <1>3 DEF LoopsIInv, LoopThreadsTypeOK, NoneQuits, Progress, Unborn, LoopsRun,
                          Turns, Starting

\* getNextLoop gives the loop at m_next its turn.
LEMMA NextLoopIInv ==
  ASSUME LoopsIInv, getNextLoop
  PROVE  LoopsIInv'
<1> USE LoopThreadsAssumption
<1> DEFINE l == IF m_loops = <<>> THEN BaseLoop ELSE LoopAt(m_next)
           m == m_numberThreads
<1>1. /\ opc = "running"
      /\ asked' = [x \in DOMAIN asked |-> IF x = l THEN asked[x] + 1 ELSE asked[x]]
      /\ handed' = handed \cup {l}
      /\ m_next' = IF m_loops = <<>> THEN m_next ELSE NextIndex
      /\ UNCHANGED <<m_numberThreads, tpc, m_loop, m_quit, opc, pos, m_loops>>
  BY DEF getNextLoop, threadVars
<1>2. Len(m_loops) = m /\ m \in 0..MaxThreads /\ m_loops \in Seq(LoopIds) /\ m_next \in Nat
      /\ asked \in [0..MaxThreads -> Nat]
  BY <1>1 DEF LoopsIInv, Progress, LoopThreadsTypeOK, Starting
<1>3. IF m = 0 THEN l = BaseLoop /\ m_next' = 0 /\ m_next = 0
      ELSE m_next + 1 \in 1..m /\ l = m_next + 1
  <2>1. m_loops = <<>> <=> m = 0
    BY <1>2
  <2>2. CASE m = 0
    BY <1>1, <1>2, <2>1, <2>2 DEF LoopsIInv, Turns
  <2>3. CASE m # 0
    <3>1. m_next < m
      BY <1>2, <2>3 DEF LoopsIInv, Turns
    <3> QED
      BY <1>2, <2>1, <2>3, <3>1 DEF LoopAt, LoopsIInv, LoopsRun
  <2> QED
    BY <2>2, <2>3
<1>4. l = BaseLoop \/ (l \in LoopIds /\ m_loop[l])
  BY <1>2, <1>3 DEF LoopsIInv, LoopsRun
<1> HIDE DEF l
<1>5. m # 0 => m_next' = IF m_next + 1 = m THEN 0 ELSE m_next + 1
  BY <1>1, <1>2, <1>3 DEF NextIndex
<1>6. m_next' \in Nat /\ (m_next' = 0 \/ m_next' < m)
  BY <1>2, <1>3, <1>5
<1>7. LoopThreadsTypeOK'
  <2>1. asked' \in [0..MaxThreads -> Nat]
    BY <1>1, <1>2
  <2>2. l \in 0..MaxThreads
    BY <1>4 DEF LoopIds, BaseLoop
  <2> QED
    BY <1>1, <1>6, <2>1, <2>2 DEF LoopsIInv, LoopThreadsTypeOK
<1>8. NoneQuits' /\ Progress' /\ Unborn'
  BY <1>1 DEF LoopsIInv, NoneQuits, Progress, Unborn
<1>9. LoopsRun'
  BY <1>1, <1>4 DEF LoopsIInv, LoopsRun
<1>10. \A i \in 1..m : asked'[i] = asked'[m] + (IF i <= m_next' THEN 1 ELSE 0)
  <2> SUFFICES ASSUME NEW i \in 1..m
               PROVE  asked'[i] = asked'[m] + (IF i <= m_next' THEN 1 ELSE 0)
    OBVIOUS
  <2>1. /\ asked[i] = asked[m] + (IF i <= m_next THEN 1 ELSE 0)
        /\ asked[m] \in Nat /\ m # 0
    BY <1>1, <1>2 DEF LoopsIInv, Turns
  <2>2. /\ asked'[i] = IF i = l THEN asked[i] + 1 ELSE asked[i]
        /\ asked'[m] = IF m = l THEN asked[m] + 1 ELSE asked[m]
    BY <1>1, <1>2
  <2> QED
    BY <2>1, <2>2, <1>2, <1>3, <1>5
<1>11. Turns'
  BY <1>1, <1>2, <1>6, <1>10 DEF Turns, Starting
<1> QED
  BY <1>7, <1>8, <1>9, <1>11 DEF LoopsIInv

\* GetLoopForHash gives no turn.
LEMMA HashIInv ==
  ASSUME LoopsIInv, NEW h \in 0..MaxThreads, GetLoopForHash(h)
  PROVE  LoopsIInv'
<1> USE LoopThreadsAssumption
<1> DEFINE l == IF m_loops = <<>> THEN BaseLoop ELSE LoopAt(h % Len(m_loops))
<1>1. /\ handed' = handed \cup {l}
      /\ UNCHANGED <<m_numberThreads, tpc, m_loop, m_quit, opc, pos, m_loops, m_next, asked>>
  BY DEF GetLoopForHash, threadVars
<1>2. m_loops \in Seq(LoopIds)
  BY DEF LoopsIInv, LoopThreadsTypeOK
<1>3. l = BaseLoop \/ (l \in LoopIds /\ m_loop[l])
  <2>1. CASE m_loops # <<>>
    <3>1. Len(m_loops) \in Nat \ {0}
      BY <1>2, <2>1
    <3>2. h % Len(m_loops) \in 0..(Len(m_loops) - 1)
      BY <3>1
    <3> QED
      BY <2>1, <3>1, <3>2 DEF LoopAt, LoopsIInv, LoopsRun
  <2> QED
    BY <2>1
<1> HIDE DEF l
<1>4. l \in 0..MaxThreads
  BY <1>3 DEF LoopIds, BaseLoop
<1>5. LoopThreadsTypeOK'
  BY <1>1, <1>4 DEF LoopsIInv, LoopThreadsTypeOK
<1>6. NoneQuits' /\ Progress' /\ Unborn' /\ Turns'
  BY <1>1 DEF LoopsIInv, NoneQuits, Progress, Unborn, Turns
<1>7. LoopsRun'
  BY <1>1, <1>3 DEF LoopsIInv, LoopsRun
<1> QED
  BY <1>5, <1>6, <1>7 DEF LoopsIInv

\* Every step keeps the invariant.
LEMMA LoopsStepIInv == LoopsIInv /\ [LoopThreadsNext]_loopVars => LoopsIInv'
<1> SUFFICES ASSUME LoopsIInv, [LoopThreadsNext]_loopVars
             PROVE  LoopsIInv'
  OBVIOUS
<1>1. CASE LoopThreadsNext
  BY <1>1, PoolIInv, StartLoopIInv, LoopPublishedIInv, ThreadIInv, StopLoopIInv,
     NextLoopIInv, HashIInv DEF LoopThreadsNext
<1>2. CASE UNCHANGED loopVars
  BY <1>2 DEF loopVars, LoopsIInv, LoopThreadsTypeOK, NoneQuits, Progress, Unborn, LoopsRun, Turns
<1> QED
  BY <1>1, <1>2

\* The strengthened invariant holds of every pool.
THEOREM LoopsInvariance == LoopThreadsSpec => []LoopsIInv
<1>1. LoopThreadsInit => LoopsIInv
  BY LoopsInitIInv
<1>2. LoopsIInv /\ [LoopThreadsNext]_loopVars => LoopsIInv'
  BY LoopsStepIInv
<1> QED
  BY <1>1, <1>2, PTL DEF LoopThreadsSpec

\* The variables keep their types; no null loop gets into the vector.
THEOREM LoopsTypeCorrect == LoopThreadsSpec => []LoopThreadsTypeOK
<1>1. LoopsIInv => LoopThreadsTypeOK
  BY DEF LoopsIInv
<1> QED
  BY <1>1, LoopsInvariance, PTL

\* A loop that was handed out is no null pointer, and before stop its thread is in it.
THEOREM HandedOnesLive == LoopThreadsSpec => []HandedOutLive
<1>1. LoopsIInv => HandedOutLive
  BY DEF LoopsIInv, LoopsRun, NoneQuits, HandedOutLive, Alive
<1> QED
  BY <1>1, LoopsInvariance, PTL

\* No loop gets two turns more than another.
THEOREM FairTurns == LoopThreadsSpec => []TurnsAreFair
<1>1. ASSUME LoopsIInv
      PROVE  TurnsAreFair
  <2> SUFFICES ASSUME opc = "running",
                      NEW i \in 1..m_numberThreads, NEW j \in 1..m_numberThreads
               PROVE  asked[i] <= asked[j] + 1
    BY DEF TurnsAreFair
  <2>1. asked[m_numberThreads] \in Nat
    BY <1>1, LoopThreadsAssumption DEF LoopsIInv, LoopThreadsTypeOK
  <2>2. /\ asked[i] = asked[m_numberThreads] + (IF i <= m_next THEN 1 ELSE 0)
        /\ asked[j] = asked[m_numberThreads] + (IF j <= m_next THEN 1 ELSE 0)
    BY <1>1 DEF LoopsIInv, Turns
  <2> QED
    BY <2>1, <2>2
<1> QED
  BY <1>1, LoopsInvariance, PTL

\* The vector has no null loop, and what is handed out is live until stop.
THEOREM PoolServes == LoopThreadsSpec => []LoopsServe
BY LoopsTypeCorrect, HandedOnesLive, PTL DEF LoopsServe
==============================================================================
