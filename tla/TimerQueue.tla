------------------------------ MODULE TimerQueue ------------------------------
(***************************************************************************)
(* time/TimerQueue.cpp and class Timer of time/KaTime.cpp: the timers of   *)
(* an event loop.  m_timers is a std::set of pairs (expiration at the time *)
(* of insertion, pointer); doTimer walks it from its first entry, runs     *)
(* what is due and stops at the first timer that is not.  A timer that     *)
(* repeats moves its own m_expiration, never its place in the set.         *)
(*                                                                         *)
(* One thread, the loop's.  Its steps are the operations of the queue; a   *)
(* callback is user code, which may add, remove and cancel timers while    *)
(* doTimer stands on the timer it runs, so a walk is a step per timer and  *)
(* a callback is a state of its own.  Nothing keeps a callback from         *)
(* removing the timer it is called from.  That erases the entry doTimer's  *)
(* iterator points to, and what doTimer does when the callback returns is  *)
(* undefined: the model goes "wild" there and says no more.                *)
(***************************************************************************)
EXTENDS Integers, FiniteSets

CONSTANTS Timers,      \* addresses of Timer objects; the set orders ties by them
          Whens,       \* first expirations the user asks for
          Intervals,   \* m_interval
          Repeats,     \* m_repeatCount as constructed; negative: for ever
          MaxTime      \* bound on the clock

ASSUME ConstantsAssumption ==
  /\ Timers \subseteq Nat
  /\ Whens \subseteq Nat
  /\ Intervals \subseteq Nat
  /\ Repeats \subseteq Int
  /\ MaxTime \in Nat

VARIABLES now,         \* the clock
          m_timers,    \* the timers that are in the set
          timer,       \* [Timers -> the Timer objects]
          pc,          \* "idle", in doTimer's loop ("walk"), in a "callback", or
                       \* "wild": doTimer has used an iterator that is not valid
          iter,        \* doTimer's iterator
          passTime,    \* doTimer's own now
          passed       \* timers this doTimer has visited, or that were added
                       \* since it began

vars == <<now, m_timers, timer, pc, iter, passTime, passed>>

End == -1              \* m_timers.end()

\* when and count are the constructor's arguments; expiration, left and
\* cancelled are m_expiration, m_repeatCount and m_cancled; made, ran and
\* removed are history: created, callbacks begun, taken out by removeTimer.
TimerType == [when : Nat, interval : Nat, count : Int,
              expiration : Nat, left : Int, cancelled : BOOLEAN,
              made : BOOLEAN, ran : Nat, removed : BOOLEAN]

NotMade == [when |-> 0, interval |-> 0, count |-> 0,
            expiration |-> 0, left |-> 0, cancelled |-> FALSE,
            made |-> FALSE, ran |-> 0, removed |-> FALSE]

-----------------------------------------------------------------------------
\* The order of the set: the key an entry was inserted with, then the address.
Before(t, u) == \/ timer[t].when < timer[u].when
                \/ timer[t].when = timer[u].when /\ t < u

\* Where an iterator to the first entry of S points.
FirstOf(S) == IF S = {} THEN {End}
              ELSE {t \in S : \A u \in S \ {t} : Before(t, u)}

\* Where the iterator after t points, in the set S.
After(t, S) == FirstOf({u \in S : Before(t, u)})

Due(t) == timer[t].expiration <= passTime

Init ==
  /\ now = 0
  /\ m_timers = {}
  /\ timer = [t \in Timers |-> NotMade]
  /\ pc = "idle"
  /\ iter = End
  /\ passTime = 0
  /\ passed = {}

-----------------------------------------------------------------------------
(* What the user of the queue does, between passes or in a callback.       *)

UserRuns == pc \in {"idle", "callback"}

\* Timer::Timer
NewTimer(when, interval, repeat) ==
  [when |-> when, interval |-> interval, count |-> repeat,
   expiration |-> when, left |-> repeat, cancelled |-> FALSE,
   made |-> TRUE, ran |-> 0, removed |-> FALSE]

\* addTimer and insert.
AddTimer(t, when, interval, repeat) ==
  /\ UserRuns
  /\ ~timer[t].made
  /\ timer' = [timer EXCEPT ![t] = NewTimer(when, interval, repeat)]
  /\ m_timers' = m_timers \cup {t}
  /\ passed' = passed \cup {t}
  /\ UNCHANGED <<now, pc, iter, passTime>>

RemoveTimer(t) ==
  /\ UserRuns
  /\ t \in m_timers
  /\ m_timers' = m_timers \ {t}
  /\ timer' = [timer EXCEPT ![t].removed = TRUE]
  /\ UNCHANGED <<now, pc, iter, passTime, passed>>

\* cancel(timer, off): finds the timer in the set and calls Control(off).
Cancel(t, off) ==
  /\ UserRuns
  /\ t \in m_timers
  /\ timer' = [timer EXCEPT ![t].cancelled = off]
  /\ UNCHANGED <<now, m_timers, pc, iter, passTime, passed>>

-----------------------------------------------------------------------------
(* doTimer.                                                                *)

DoTimer ==
  /\ pc = "idle"
  /\ pc' = "walk"
  /\ passTime' = now
  /\ iter' \in FirstOf(m_timers)
  /\ passed' = {}
  /\ UNCHANGED <<now, m_timers, timer>>

\* The loop ends: at the end of the set, or at a timer that is not due.
StopWalk ==
  /\ pc = "walk"
  /\ iter # End => ~Due(iter)
  /\ pc' = "idle"
  /\ iter' = End
  /\ UNCHANGED <<now, m_timers, timer, passTime, passed>>

\* The iterator is moved once more after an erase: over a neighbour.
Advance_SkipNext(left) ==
  /\ m_timers' = IF left = 0 THEN m_timers \ {iter} ELSE m_timers
  /\ \E next \in After(iter, m_timers) :
       iter' \in IF left = 0 /\ next # End
                THEN After(next, m_timers) ELSE {next}
  /\ passed' = passed \cup {iter}

\* The iterator stays where it was: on an entry that may be erased.
Advance_Stay(left) ==
  /\ m_timers' = IF left = 0 THEN m_timers \ {iter} ELSE m_timers
  /\ iter' = iter
  /\ passed' = passed \cup {iter}

\* Only single-shot timers are erased.
Advance_KeepDone(left) ==
  /\ m_timers' = IF left = 0 /\ timer[iter].count = 0
                 THEN m_timers \ {iter} ELSE m_timers
  /\ iter' \in After(iter, m_timers)
  /\ passed' = passed \cup {iter}

\* After Run: the entry is erased when m_repeatCount is 0, and the iterator
\* moves on.
Advance(left) ==
  /\ m_timers' = IF left = 0 THEN m_timers \ {iter} ELSE m_timers
  /\ iter' \in After(iter, m_timers)
  /\ passed' = passed \cup {iter}

\* Run of a timer that is cancelled returns at once.
SkipCancelled ==
  /\ pc = "walk" /\ iter # End /\ Due(iter)
  /\ timer[iter].cancelled
  /\ Advance(timer[iter].left)
  /\ UNCHANGED <<now, timer, pc, passTime>>

\* Run calls m_callback.
BeginCallback ==
  /\ pc = "walk" /\ iter # End /\ Due(iter)
  /\ ~timer[iter].cancelled
  /\ pc' = "callback"
  /\ timer' = [timer EXCEPT ![iter].ran = @ + 1]
  /\ UNCHANGED <<now, m_timers, iter, passTime, passed>>

\* m_repeatCount after a run: counted down unless it is 0.
LeftAfterRun_Stuck(left) == left

LeftAfterRun(left) == IF left = 0 THEN 0 ELSE left - 1

\* The callback returns: m_repeatCount is counted down, m_expiration moves on
\* unless this was the last of several runs, and doTimer goes on.
EndCallback ==
  /\ pc = "callback" /\ iter \in m_timers
  /\ LET left == LeftAfterRun(timer[iter].left) IN
     /\ timer' = [timer EXCEPT ![iter].left = left,
                               ![iter].expiration =
                                  IF timer[iter].left # 0 /\ left = 0
                                  THEN @ ELSE @ + timer[iter].interval]
     /\ Advance(left)
  /\ pc' = "walk"
  /\ UNCHANGED <<now, passTime>>

\* The callback has removed its own timer: doTimer reads the erased entry and
\* moves on from it.
UseErased ==
  /\ pc = "callback" /\ iter \notin m_timers
  /\ pc' = "wild"
  /\ UNCHANGED <<now, m_timers, timer, iter, passTime, passed>>

Tick == /\ now < MaxTime
        /\ now' = now + 1
        /\ UNCHANGED <<m_timers, timer, pc, iter, passTime, passed>>

User == \E t \in Timers :
          \/ \E w \in Whens, i \in Intervals, r \in Repeats : AddTimer(t, w, i, r)
          \/ RemoveTimer(t)
          \/ \E off \in BOOLEAN : Cancel(t, off)

Pass == StopWalk \/ SkipCancelled \/ BeginCallback \/ EndCallback \/ UseErased

Next == User \/ DoTimer \/ Pass \/ Tick

Spec == Init /\ [][Next]_vars

\* The loop calls doTimer again and again, doTimer and its callbacks return,
\* and time goes on.  The user owes nothing.  (Pass is not enabled once doTimer is
\* wild: fairness does not bring it back.)
FairSpec == Spec /\ WF_vars(DoTimer) /\ WF_vars(Pass) /\ WF_vars(Tick)

-----------------------------------------------------------------------------
\* The variables have their types, and doTimer's iterator is to no erased entry,
\* whatever callbacks add and remove, but for the one removal that the code does
\* not survive: a callback that removes the very timer it is called from.
TypeOK ==
  /\ now \in 0..MaxTime
  /\ m_timers \in SUBSET Timers
  /\ timer \in [Timers -> TimerType]
  /\ pc \in {"idle", "walk", "callback", "wild"}
  /\ iter \in Timers \cup {End}
  /\ passTime \in 0..MaxTime
  /\ passed \in SUBSET Timers
  /\ \A t \in m_timers : timer[t].made
  /\ iter # End => timer[iter].made
  /\ iter # End /\ iter \notin m_timers =>
       pc \in {"callback", "wild"} /\ timer[iter].removed
  /\ pc = "callback" => iter # End
  /\ pc = "idle" => iter = End

\* The number of runs a timer was asked for (KaTime.h:14-16, KaTime.cpp:13).
Asked(t) == IF timer[t].count = 0 THEN 1 ELSE timer[t].count

\* No timer runs more often than it was asked to.
NeverTooOften ==
  \A t \in Timers : timer[t].count >= 0 => timer[t].ran <= Asked(t)

\* A timer that doTimer has dropped from the set has run as often as asked;
\* only a single-shot timer that is cancelled is dropped without its run.  (The
\* comment at the head of KaTime.h says more: InvalidAtExpiry.)
DroppedWhenDone ==
  \A t \in Timers :
    timer[t].made /\ t \notin m_timers /\ ~timer[t].removed =>
      \/ timer[t].count >= 0 /\ timer[t].ran = Asked(t)
      \/ timer[t].count = 0 /\ timer[t].cancelled

\* The k-th run of a timer does not begin before when + (k-1) * interval:
\* runs that come late do not let later ones come early.
NeverEarly ==
  \A t \in Timers :
    timer[t].ran > 0 =>
      timer[t].when + (timer[t].ran - 1) * timer[t].interval <= now

\* Whatever callbacks add, remove and cancel, and however late the passes of doTimer
\* come: a timer runs as often as it was asked to, no more and, once it is dropped,
\* no less, and never before its time.
RunsAsAsked == NeverTooOften /\ DroppedWhenDone /\ NeverEarly

\* KaTime.h:15-17: a timer with m_repeatCount = n whose time stamp expires before it has
\* run n times becomes invalid.  In the code the first of its runs is what the time
\* stamp brings about, and the timer stays in the set for the others.
InvalidAtExpiry ==
  pc = "idle" => \A t \in m_timers : timer[t].count > 0 => timer[t].ran = 0

\* What doTimer guarantees when it returns: a timer that was due and that it
\* has not visited was added meanwhile, or stands in the set behind one that
\* was not due.
DueOnesVisited ==
  [][ pc = "walk" /\ pc' = "idle" =>
        \A t \in m_timers \ passed :
          Due(t) => \E u \in m_timers : Before(u, t) /\ ~Due(u) ]_vars

\* A timer with a finite count ends up out of the set, or cancelled, if no callback
\* removes its own timer.
EveryTimerEnds ==
  \A t \in Timers :
    t \in m_timers ~> \/ t \notin m_timers \/ timer[t].cancelled \/ timer[t].count < 0
                      \/ pc = "wild"

-----------------------------------------------------------------------------
(* The inductive invariant behind the safety properties.                   *)

\* The runs of t that are over.
Runs(t) == IF pc = "callback" /\ iter = t THEN timer[t].ran - 1 ELSE timer[t].ran

\* The books of a timer that is in the set: its expiration and what is left of
\* its count follow from the number of its runs.
Books(t) ==
  /\ timer[t].expiration = timer[t].when + Runs(t) * timer[t].interval
  /\ IF timer[t].count = 0 THEN timer[t].left = 0 /\ Runs(t) = 0
                           ELSE timer[t].left = timer[t].count - Runs(t)
  /\ timer[t].count > 0 => timer[t].left > 0
  /\ Runs(t) >= 0
  /\ pc = "callback" /\ iter = t => timer[t].expiration <= passTime

\* What is not visited yet is ahead of the iterator.
Ahead ==
  pc # "idle" =>
    \A t \in m_timers \ passed : iter # End /\ (t = iter \/ Before(iter, t))

IInv == /\ TypeOK
        /\ passTime <= now
        /\ \A t \in m_timers : Books(t)
        /\ \A t \in Timers : ~timer[t].made => timer[t].ran = 0 /\ timer[t].count = 0
        /\ NeverTooOften /\ DroppedWhenDone /\ NeverEarly
        /\ Ahead
=============================================================================
