----------------------------- MODULE MCTimerQueue -----------------------------
(***************************************************************************)
(* An instance of TimerQueue for TLC: two timers of every kind, or three   *)
(* with finite counts and one period, so that one may stand between two    *)
(* others in the set.                                                      *)
(***************************************************************************)
EXTENDS TimerQueue

\* Single-shot timers, timers that run twice, and timers that run for ever.
MCRepeats == {-1, 0, 2}

Third == 3

\* A timer that may be one of three.
Plain(t) == timer[t].when = 1 /\ timer[t].interval = 1 /\ timer[t].count >= 0

FewOrPlain == timer[Third].made => \A t \in Timers : timer[t].made => Plain(t)

MCNext == Next /\ FewOrPlain'

MCSpec == Init /\ [][MCNext]_vars

\* With the fairness of FairSpec: only AddTimer is restricted.
MCFairSpec == MCSpec /\ WF_vars(DoTimer) /\ WF_vars(Pass) /\ WF_vars(Tick)

\* EveryTimerEnds where no timer runs for ever: the bounded clock stops before such a
\* timer does, which would then hold up those behind it for a time that does not come.
FiniteTimersEnd ==
  [](\A t \in Timers : timer[t].count >= 0) => EveryTimerEnds
=============================================================================
