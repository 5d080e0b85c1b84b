--------------------------- MODULE TimerQueueProofs ---------------------------
(***************************************************************************)
(* Proofs about TimerQueue, for any timers, times, periods and counts: the *)
(* iterator of doTimer is valid until a callback removes its own timer, a  *)
(* timer runs as often as it was asked to and never early, and a pass      *)
(* visits what it promises to visit;                                       *)
(* and about LoopEventList, the other list that is walked while its        *)
(* callbacks change it.                                                    *)
(***************************************************************************)
EXTENDS TimerQueue, LoopEventList, SequenceTheorems, TLAPS

\* One more period.
LEMMA OneMore == \A k \in Int, i \in Int : (k + 1) * i = k * i + i
OBVIOUS

\* The iterator points to an entry of the set or to its end.
LEMMA FirstOfFacts ==
  ASSUME NEW S, NEW i \in FirstOf(S)
  PROVE  /\ i = End \/ i \in S
         /\ i = End => S = {} \/ End \in S
         /\ \A u \in S : u = i \/ Before(i, u)
BY DEF FirstOf

\* The end of the set is no timer.
LEMMA EndNotTimer == End \notin Timers
BY ConstantsAssumption DEF End

LEMMA InitIInv == Init => IInv
<1> SUFFICES ASSUME Init PROVE IInv
  OBVIOUS
<1>1. TypeOK
  BY ConstantsAssumption DEF Init, TypeOK, TimerType, NotMade
<1>2. QED
  BY <1>1 DEF Init, IInv, NotMade, NeverTooOften, DroppedWhenDone, NeverEarly,
              Ahead, Asked

LEMMA AddTimerIInv ==
  ASSUME IInv, NEW t \in Timers, NEW w \in Whens, NEW i \in Intervals,
         NEW r \in Repeats, AddTimer(t, w, i, r)
  PROVE  IInv'
<1> USE DEF IInv
<1>1. w \in Nat /\ i \in Nat /\ r \in Int
  BY ConstantsAssumption
<1>2. t \notin m_timers /\ t # iter /\ ~timer[t].made
  BY EndNotTimer DEF AddTimer, NewTimer, TypeOK
<1>3. /\ timer'[t] = [when |-> w, interval |-> i, count |-> r,
                      expiration |-> w, left |-> r, cancelled |-> FALSE,
                      made |-> TRUE, ran |-> 0, removed |-> FALSE]
      /\ \A u \in Timers \ {t} : timer'[u] = timer[u]
      /\ m_timers' = m_timers \cup {t} /\ passed' = passed \cup {t}
      /\ UNCHANGED <<now, pc, iter, passTime>>
  BY DEF AddTimer, NewTimer, TypeOK
<1>4. timer' \in [Timers -> TimerType]
  BY <1>1 DEF AddTimer, NewTimer, TypeOK, TimerType
<1>5. TypeOK'
  BY <1>2, <1>3, <1>4 DEF TypeOK
<1>6. ASSUME NEW u \in m_timers' PROVE Books(u)'
  <2>1. CASE u = t
    <3>1. Runs(t)' = 0
      BY <1>2, <1>3 DEF Runs
    <3>2. QED
      BY <2>1, <3>1, <1>1, <1>2, <1>3 DEF Books
  <2>2. CASE u # t
    <3>1. u \in m_timers /\ u \in Timers
      BY <2>2, <1>3 DEF TypeOK
    <3>2. QED
      BY <2>2, <3>1, <1>3 DEF Books, Runs
  <2>3. QED
    BY <2>1, <2>2
<1>7. NeverTooOften'
  BY <1>1, <1>3 DEF NeverTooOften, Asked
<1>8. DroppedWhenDone'
  BY <1>3 DEF DroppedWhenDone, Asked
<1>9. NeverEarly'
  BY <1>3 DEF NeverEarly
<1>10. Ahead'
  <2>1. ASSUME pc # "idle", NEW u \in m_timers' \ passed'
        PROVE  iter # End /\ (u = iter \/ Before(iter, u)')
    <3>1. u \in m_timers \ passed /\ u # t /\ u \in Timers
      BY <2>1, <1>3 DEF TypeOK
    <3>2. iter # End /\ iter \in Timers /\ iter # t /\ (u = iter \/ Before(iter, u))
      BY <3>1, <2>1, <1>2 DEF Ahead, TypeOK
    <3>3. QED
      BY <3>1, <3>2, <1>3 DEF Before
  <2>2. QED
    BY <2>1, <1>3 DEF Ahead
<1>11. QED
  BY <1>3, <1>5, <1>6, <1>7, <1>8, <1>9, <1>10

LEMMA RemoveTimerIInv ==
  ASSUME IInv, NEW t \in Timers, RemoveTimer(t)
  PROVE  IInv'
<1> USE DEF IInv
<1>1. t \in m_timers /\ (t = iter => pc = "callback")
  BY EndNotTimer DEF RemoveTimer, UserRuns, TypeOK
<1>2. /\ timer' \in [Timers -> TimerType]
      /\ timer'[t] = [timer[t] EXCEPT !.removed = TRUE]
      /\ \A u \in Timers \ {t} : timer'[u] = timer[u]
      /\ m_timers' = m_timers \ {t}
      /\ UNCHANGED <<now, pc, iter, passTime, passed>>
  BY DEF RemoveTimer, TypeOK, TimerType
<1>3. /\ \A u \in Timers :
           /\ timer'[u].made = timer[u].made
           /\ timer'[u].when = timer[u].when
           /\ timer'[u].interval = timer[u].interval
           /\ timer'[u].count = timer[u].count
           /\ timer'[u].ran = timer[u].ran
      /\ timer'[t].removed
  BY <1>2 DEF TypeOK, TimerType
<1>4. TypeOK'
  BY <1>1, <1>2, <1>3 DEF TypeOK
<1>5. ASSUME NEW u \in m_timers' PROVE Books(u)'
  BY <1>2 DEF Books, Runs, TypeOK
<1>6. NeverTooOften' /\ NeverEarly'
  BY <1>2, <1>3 DEF NeverTooOften, NeverEarly, Asked
<1>7. DroppedWhenDone'
  BY <1>2, <1>3 DEF DroppedWhenDone, Asked
<1>8. Ahead'
  <2>1. ASSUME NEW u \in Timers, NEW v \in Timers
        PROVE  Before(u, v)' <=> Before(u, v)
    BY <1>3 DEF Before
  <2>2. QED
    BY <2>1, <1>2 DEF Ahead, TypeOK
<1>9. QED
  BY <1>2, <1>3, <1>4, <1>5, <1>6, <1>7, <1>8

LEMMA CancelIInv ==
  ASSUME IInv, NEW t \in Timers, NEW off \in BOOLEAN, Cancel(t, off)
  PROVE  IInv'
<1> USE DEF IInv
<1>1. /\ timer' \in [Timers -> TimerType]
      /\ timer'[t] = [timer[t] EXCEPT !.cancelled = off]
      /\ \A u \in Timers \ {t} : timer'[u] = timer[u]
      /\ t \in m_timers
      /\ UNCHANGED <<now, m_timers, pc, iter, passTime, passed>>
  BY DEF Cancel, TypeOK, TimerType
<1>2. \A u \in Timers :
        /\ timer'[u].made = timer[u].made
        /\ timer'[u].when = timer[u].when
        /\ timer'[u].interval = timer[u].interval
        /\ timer'[u].count = timer[u].count
        /\ timer'[u].expiration = timer[u].expiration
        /\ timer'[u].left = timer[u].left
        /\ timer'[u].ran = timer[u].ran
        /\ timer'[u].removed = timer[u].removed
  BY <1>1 DEF TypeOK, TimerType
<1>3. TypeOK'
  BY <1>1, <1>2 DEF TypeOK
<1>4. ASSUME NEW u \in m_timers' PROVE Books(u)'
  BY <1>1, <1>2 DEF Books, Runs, TypeOK
<1>5. NeverTooOften' /\ NeverEarly'
  BY <1>1, <1>2 DEF NeverTooOften, NeverEarly, Asked
<1>6. DroppedWhenDone'
  BY <1>1, <1>2 DEF DroppedWhenDone, Asked
<1>7. Ahead'
  <2>1. ASSUME NEW u \in Timers, NEW v \in Timers
        PROVE  Before(u, v)' <=> Before(u, v)
    BY <1>2 DEF Before
  <2>2. QED
    BY <2>1, <1>1 DEF Ahead, TypeOK
<1>8. QED
  BY <1>1, <1>2, <1>3, <1>4, <1>5, <1>6, <1>7

LEMMA DoTimerIInv == ASSUME IInv, DoTimer PROVE IInv'
<1> USE DEF IInv
<1>1. /\ iter' \in FirstOf(m_timers)
      /\ pc' = "walk" /\ passTime' = now /\ passed' = {}
      /\ UNCHANGED <<now, m_timers, timer>>
  BY DEF DoTimer
<1>2. /\ iter' = End \/ iter' \in m_timers
      /\ iter' = End => m_timers = {}
      /\ \A u \in m_timers : u = iter' \/ Before(iter', u)
  BY <1>1, FirstOfFacts, EndNotTimer DEF TypeOK
<1>3. TypeOK'
  BY <1>1, <1>2 DEF TypeOK
<1>4. ASSUME NEW u \in m_timers PROVE Books(u)'
  BY <1>1 DEF Books, Runs, DoTimer
<1>5. NeverTooOften' /\ NeverEarly' /\ DroppedWhenDone'
  BY <1>1 DEF NeverTooOften, NeverEarly, DroppedWhenDone, Asked
<1>6. Ahead'
  BY <1>1, <1>2 DEF Ahead, Before
<1>7. passTime' <= now'
  BY <1>1 DEF TypeOK
<1>8. QED
  BY <1>1, <1>3, <1>4, <1>5, <1>6, <1>7

LEMMA StopWalkIInv == ASSUME IInv, StopWalk PROVE IInv'
<1> USE DEF IInv
<1>1. /\ pc = "walk" /\ pc' = "idle" /\ iter' = End
      /\ UNCHANGED <<now, m_timers, timer, passTime, passed>>
  BY DEF StopWalk
<1>2. TypeOK'
  BY <1>1 DEF TypeOK
<1>3. ASSUME NEW u \in m_timers PROVE Books(u)'
  BY <1>1 DEF Books, Runs
<1>4. NeverTooOften' /\ NeverEarly' /\ DroppedWhenDone' /\ Ahead'
  BY <1>1 DEF NeverTooOften, NeverEarly, DroppedWhenDone, Asked, Ahead
<1>5. QED
  BY <1>1, <1>2, <1>3, <1>4

\* What Advance does, whatever happened to the timer it leaves.
LEMMA AdvanceFacts ==
  ASSUME IInv, iter \in m_timers, NEW left \in Int, Advance(left), pc # "idle"
  PROVE  /\ m_timers' = IF left = 0 THEN m_timers \ {iter} ELSE m_timers
         /\ iter' # iter
         /\ iter' = End \/ iter' \in m_timers'
         /\ passed' \in SUBSET Timers
         /\ \A u \in m_timers' \ passed' :
              iter' # End /\ (u = iter' \/ Before(iter', u))
<1> DEFINE later == {u \in m_timers : Before(iter, u)}
<1>1. /\ m_timers' = IF left = 0 THEN m_timers \ {iter} ELSE m_timers
      /\ iter' \in FirstOf(later)
      /\ passed' = passed \cup {iter}
  BY DEF Advance, After
<1>2. m_timers \subseteq Timers /\ passed \subseteq Timers
  BY DEF IInv, TypeOK
<1>3. iter \notin later
  BY <1>2, ConstantsAssumption DEF Before, IInv, TypeOK, TimerType
<1>4. /\ iter' = End \/ iter' \in later
      /\ iter' = End => later = {}
      /\ \A u \in later : u = iter' \/ Before(iter', u)
  BY <1>1, <1>2, FirstOfFacts, EndNotTimer
<1>5. iter' # iter /\ (iter' = End \/ iter' \in m_timers')
  BY <1>1, <1>2, <1>3, <1>4, EndNotTimer
<1>6. ASSUME NEW u \in m_timers' \ passed'
      PROVE  iter' # End /\ (u = iter' \/ Before(iter', u))
  <2>1. u \in m_timers \ passed /\ u # iter
    BY <1>6, <1>1
  <2>2. u \in later
    BY <2>1 DEF IInv, Ahead
  <2>3. iter' \in later
    BY <2>2, <1>4
  <2>4. QED
    BY <2>2, <2>3, <1>2, <1>4, EndNotTimer
<1>7. QED
  BY <1>1, <1>2, <1>5, <1>6

LEMMA SkipCancelledIInv == ASSUME IInv, SkipCancelled PROVE IInv'
<1> USE DEF IInv
<1>1. /\ pc = "walk" /\ iter \in m_timers /\ timer[iter].cancelled
      /\ UNCHANGED <<now, timer, pc, passTime>>
  BY DEF SkipCancelled, TypeOK
<1>2. iter \in Timers /\ timer[iter].left \in Int
  BY <1>1 DEF TypeOK, TimerType
<1>4. /\ m_timers' = IF timer[iter].left = 0 THEN m_timers \ {iter} ELSE m_timers
      /\ iter' # iter
      /\ iter' = End \/ iter' \in m_timers'
      /\ passed' \in SUBSET Timers
      /\ \A u \in m_timers' \ passed' :
           iter' # End /\ (u = iter' \/ Before(iter', u))
  BY <1>1, <1>2, AdvanceFacts DEF SkipCancelled
<1>5. TypeOK'
  BY <1>1, <1>4 DEF TypeOK
<1>6. ASSUME NEW u \in m_timers' PROVE Books(u)'
  BY <1>1, <1>4 DEF Books, Runs
<1>7. NeverTooOften' /\ NeverEarly'
  BY <1>1 DEF NeverTooOften, NeverEarly, Asked
<1>8. DroppedWhenDone'
  <2>1. timer[iter].left = 0 => timer[iter].count = 0
    BY <1>1, <1>2 DEF Books, TypeOK, TimerType, Runs
  <2>2. QED
    BY <2>1, <1>1, <1>4 DEF DroppedWhenDone, Asked
<1>9. Ahead'
  BY <1>1, <1>4 DEF Ahead, Before
<1>10. QED
  BY <1>1, <1>5, <1>6, <1>7, <1>8, <1>9

LEMMA BeginCallbackIInv == ASSUME IInv, BeginCallback PROVE IInv'
<1> USE DEF IInv
<1>1. /\ pc = "walk" /\ pc' = "callback"
      /\ iter \in m_timers /\ iter \in Timers /\ timer[iter].expiration <= passTime
      /\ UNCHANGED <<now, m_timers, iter, passTime, passed>>
  BY DEF BeginCallback, TypeOK, Due
<1>2. /\ timer' \in [Timers -> TimerType]
      /\ timer'[iter] = [timer[iter] EXCEPT !.ran = @ + 1]
      /\ \A u \in Timers \ {iter} : timer'[u] = timer[u]
  BY <1>1 DEF BeginCallback, TypeOK, TimerType
<1>3. /\ \A u \in Timers :
           /\ timer'[u].made = timer[u].made
           /\ timer'[u].when = timer[u].when
           /\ timer'[u].interval = timer[u].interval
           /\ timer'[u].count = timer[u].count
           /\ timer'[u].expiration = timer[u].expiration
           /\ timer'[u].left = timer[u].left
           /\ timer'[u].cancelled = timer[u].cancelled
           /\ timer'[u].removed = timer[u].removed
      /\ timer'[iter].ran = timer[iter].ran + 1
      /\ timer[iter].ran \in Nat
  BY <1>1, <1>2 DEF TypeOK, TimerType
<1>4. TypeOK'
  <2>1. iter # End /\ \A u \in m_timers : timer'[u].made
    BY <1>1, <1>3, EndNotTimer DEF TypeOK
  <2>2. QED
    BY <2>1, <1>1, <1>2 DEF TypeOK
<1>5. ASSUME NEW u \in Timers PROVE Runs(u)' = Runs(u)
  <2>1. CASE u = iter
    <3>1. Runs(u)' = timer'[iter].ran - 1
      BY <2>1, <1>1 DEF Runs
    <3>2. Runs(u) = timer[iter].ran
      BY <2>1, <1>1 DEF Runs
    <3>3. QED
      BY <3>1, <3>2, <1>3
  <2>2. CASE u # iter
    BY <2>2, <1>1, <1>2 DEF Runs
  <2>3. QED
    BY <2>1, <2>2
<1>6. Books(iter) /\ Runs(iter) = timer[iter].ran
  BY <1>1 DEF Runs
<1>7. ASSUME NEW u \in m_timers' PROVE Books(u)'
  <2>1. u \in m_timers /\ u \in Timers /\ Books(u)
    BY <1>1 DEF TypeOK
  <2>2. QED
    BY <2>1, <1>1, <1>3, <1>5 DEF Books
<1>8. NeverTooOften'
  <2>1. timer[iter].count >= 0 => timer[iter].ran + 1 <= Asked(iter)
    BY <1>1, <1>3, <1>6 DEF Books, Asked, TypeOK, TimerType
  <2>2. \A u \in Timers \ {iter} : timer'[u].ran = timer[u].ran
    BY <1>2
  <2>3. ASSUME NEW u \in Timers, timer'[u].count >= 0
        PROVE  timer'[u].ran <= Asked(u)'
    <3>1. timer[u].count >= 0 /\ Asked(u)' = Asked(u)
      BY <2>3, <1>3 DEF Asked
    <3>2. CASE u = iter
      BY <3>1, <3>2, <2>1, <1>3
    <3>3. CASE u # iter
      BY <3>1, <3>3, <2>2 DEF NeverTooOften
    <3>4. QED
      BY <3>2, <3>3
  <2>4. QED
    BY <2>3 DEF NeverTooOften
<1>9. DroppedWhenDone'
  BY <1>1, <1>2, <1>3 DEF DroppedWhenDone, Asked
<1>10. NeverEarly'
  <2>1. /\ timer[iter].expiration \in Nat /\ now \in Nat /\ passTime \in Nat
        /\ timer[iter].expiration <= now
    BY <1>1, ConstantsAssumption DEF TypeOK, TimerType
  <2>2. timer[iter].when + (timer[iter].ran + 1 - 1) * timer[iter].interval <= now
    BY <2>1, <1>3, <1>6 DEF Books
  <2>3. \A u \in Timers \ {iter} : timer'[u].ran = timer[u].ran
    BY <1>2
  <2>4. QED
    BY <2>2, <2>3, <1>1, <1>3 DEF NeverEarly
<1>11. Ahead'
  <2>1. \A u, v \in Timers : Before(u, v)' <=> Before(u, v)
    BY <1>3 DEF Before
  <2>2. QED
    BY <2>1, <1>1 DEF Ahead, TypeOK
<1>12. ASSUME NEW u \in Timers, ~timer'[u].made
       PROVE  timer'[u].ran = 0 /\ timer'[u].count = 0
  BY <1>12, <1>1, <1>2, <1>3 DEF TypeOK
<1>13. QED
  BY <1>1, <1>4, <1>7, <1>8, <1>9, <1>10, <1>11, <1>12

LEMMA EndCallbackIInv == ASSUME IInv, EndCallback PROVE IInv'
<1> USE DEF IInv
<1> DEFINE l == timer[iter].left
           left == LeftAfterRun(l)
<1>1. /\ pc = "callback" /\ pc' = "walk"
      /\ iter \in m_timers /\ iter \in Timers
      /\ UNCHANGED <<now, passTime>>
      /\ Advance(left)
  BY DEF EndCallback, TypeOK
<1>2. timer[iter] \in TimerType
  BY <1>1 DEF TypeOK
<1>3. /\ l \in Int /\ left \in Int
      /\ left = IF l = 0 THEN 0 ELSE l - 1
  BY <1>2 DEF TimerType, LeftAfterRun
<1> DEFINE e == IF l # 0 /\ left = 0 THEN timer[iter].expiration
                ELSE timer[iter].expiration + timer[iter].interval
<1>4. timer' = [timer EXCEPT ![iter].left = left, ![iter].expiration = e]
  BY DEF EndCallback
<1>5. e \in Nat /\ (left # 0 => e = timer[iter].expiration + timer[iter].interval)
  BY <1>2 DEF TimerType
<1> HIDE DEF left, l, e
<1>6. /\ timer' \in [Timers -> TimerType]
      /\ \A u \in Timers \ {iter} : timer'[u] = timer[u]
      /\ \A u \in Timers :
           /\ timer'[u].made = timer[u].made
           /\ timer'[u].when = timer[u].when
           /\ timer'[u].interval = timer[u].interval
           /\ timer'[u].count = timer[u].count
           /\ timer'[u].ran = timer[u].ran
           /\ timer'[u].cancelled = timer[u].cancelled
           /\ timer'[u].removed = timer[u].removed
      /\ timer'[iter].left = left
      /\ timer'[iter].expiration = e
  BY <1>1, <1>3, <1>4, <1>5 DEF TypeOK, TimerType
<1>7. /\ m_timers' = IF left = 0 THEN m_timers \ {iter} ELSE m_timers
      /\ iter' # iter
      /\ iter' = End \/ iter' \in m_timers'
      /\ passed' \in SUBSET Timers
      /\ \A u \in m_timers' \ passed' :
           iter' # End /\ (u = iter' \/ Before(iter', u))
  BY <1>1, <1>3, AdvanceFacts
<1>8. TypeOK'
  <2>1. \A u \in m_timers' : timer'[u].made
    BY <1>6, <1>7 DEF TypeOK
  <2>2. QED
    BY <2>1, <1>1, <1>6, <1>7 DEF TypeOK
<1>9. /\ Books(iter) /\ Runs(iter) = timer[iter].ran - 1
      /\ timer[iter].ran \in Nat
  BY <1>1, <1>2 DEF Runs, TimerType
<1>10. ASSUME NEW u \in m_timers' PROVE Books(u)'
  <2>1. u \in m_timers /\ u \in Timers /\ Books(u)
    BY <1>7 DEF TypeOK
  <2>2. CASE u # iter
    BY <2>1, <2>2, <1>1, <1>6 DEF Books, Runs
  <2>3. CASE u = iter
    <3>1. left # 0
      BY <2>3, <1>7
    <3>2. Runs(u)' = timer[iter].ran
      BY <2>3, <1>1, <1>6 DEF Runs
    <3>3. (timer[iter].ran - 1 + 1) * timer[iter].interval
            = (timer[iter].ran - 1) * timer[iter].interval + timer[iter].interval
      BY <1>2, OneMore DEF TimerType
    <3>4. timer[iter].ran - 1 + 1 = timer[iter].ran
      BY <1>9
    <3>5. (timer[iter].ran - 1) * timer[iter].interval \in Int
      BY <1>2 DEF TimerType
    <3>6. timer'[u].expiration = timer'[u].when + Runs(u)' * timer'[u].interval
      <4>1. timer[iter].expiration
              = timer[iter].when + (timer[iter].ran - 1) * timer[iter].interval
        BY <1>9 DEF Books
      <4>2. e = timer[iter].when + timer[iter].ran * timer[iter].interval
        BY <4>1, <3>1, <3>3, <3>4, <3>5, <1>2, <1>5 DEF TimerType
      <4>3. QED
        BY <4>2, <3>2, <2>3, <1>1, <1>6
    <3>7. /\ IF timer[iter].count = 0 THEN l = 0 /\ timer[iter].ran - 1 = 0
             ELSE l = timer[iter].count - (timer[iter].ran - 1)
          /\ timer[iter].count > 0 => l > 0
      BY <1>9 DEF Books, l
    <3>8. /\ IF timer[iter].count = 0 THEN left = 0 /\ timer[iter].ran = 0
             ELSE left = timer[iter].count - timer[iter].ran
          /\ timer[iter].count > 0 => left > 0
      BY <3>1, <3>7, <1>2, <1>3 DEF TimerType
    <3>9. QED
      BY <3>2, <3>6, <3>8, <2>3, <1>1, <1>6, <1>9 DEF Books
  <2>4. QED
    BY <2>2, <2>3
<1>11. NeverTooOften' /\ NeverEarly'
  BY <1>1, <1>6 DEF NeverTooOften, NeverEarly, Asked
<1>12. DroppedWhenDone'
  <2>1. left = 0 => timer[iter].count >= 0 /\ timer[iter].ran = Asked(iter)
    BY <1>2, <1>3, <1>9 DEF Books, Asked, TimerType, l
  <2>2. QED
    BY <2>1, <1>1, <1>6, <1>7 DEF DroppedWhenDone, Asked
<1>13. Ahead'
  <2>1. ASSUME NEW u \in m_timers' \ passed'
        PROVE  iter' # End /\ (u = iter' \/ (Before(iter, u))')
    BY <1>6, <1>7 DEF Before, TypeOK
  <2>2. QED
    BY <2>1 DEF Ahead
<1>14. QED
  BY <1>1, <1>6, <1>8, <1>10, <1>11, <1>12, <1>13

\* An entry that was erased under doTimer is used, and nothing more is said.
LEMMA UseErasedIInv == ASSUME IInv, UseErased PROVE IInv'
<1> USE DEF IInv
<1>1. /\ pc = "callback" /\ iter \notin m_timers /\ pc' = "wild"
      /\ UNCHANGED <<now, m_timers, timer, iter, passTime, passed>>
  BY DEF UseErased
<1>2. TypeOK'
  BY <1>1 DEF TypeOK
<1>3. ASSUME NEW u \in m_timers PROVE Books(u)'
  BY <1>1 DEF Books, Runs
<1>4. NeverTooOften' /\ NeverEarly' /\ DroppedWhenDone' /\ Ahead'
  BY <1>1 DEF NeverTooOften, NeverEarly, DroppedWhenDone, Asked, Ahead, Before
<1>5. QED
  BY <1>1, <1>2, <1>3, <1>4

LEMMA TickIInv == ASSUME IInv, Tick PROVE IInv'
<1> USE DEF IInv
<1>1. /\ now \in Nat /\ now < MaxTime /\ now' = now + 1
      /\ UNCHANGED <<m_timers, timer, pc, iter, passTime, passed>>
  BY ConstantsAssumption DEF Tick, TypeOK
<1>2. TypeOK' /\ passTime' <= now'
  BY <1>1, ConstantsAssumption DEF TypeOK
<1>3. ASSUME NEW u \in m_timers PROVE Books(u)'
  BY <1>1 DEF Books, Runs
<1>4. NeverEarly'
  <2>1. ASSUME NEW u \in Timers, timer[u].ran > 0
        PROVE  timer[u].when + (timer[u].ran - 1) * timer[u].interval <= now + 1
    <3>1. timer[u] \in TimerType
      BY DEF TypeOK
    <3>2. timer[u].when + (timer[u].ran - 1) * timer[u].interval \in Int
      BY <3>1 DEF TimerType
    <3>3. QED
      BY <2>1, <3>2, <1>1 DEF NeverEarly
  <2>2. QED
    BY <2>1, <1>1 DEF NeverEarly
<1>5. NeverTooOften' /\ DroppedWhenDone' /\ Ahead'
  BY <1>1 DEF NeverTooOften, DroppedWhenDone, Asked, Ahead, Before
<1>6. QED
  BY <1>1, <1>2, <1>3, <1>4, <1>5

LEMMA NextIInv == IInv /\ [Next]_vars => IInv'
<1> SUFFICES ASSUME IInv, [Next]_vars PROVE IInv'
  OBVIOUS
<1>1. CASE UNCHANGED vars
  BY <1>1 DEF vars, IInv, TypeOK, Books, Runs, NeverTooOften, DroppedWhenDone,
              NeverEarly, Asked, Ahead, Before
<1>2. CASE User
  BY <1>2, AddTimerIInv, RemoveTimerIInv, CancelIInv DEF User
<1>3. CASE DoTimer
  BY <1>3, DoTimerIInv
<1>4. CASE Pass
  BY <1>4, StopWalkIInv, SkipCancelledIInv, BeginCallbackIInv, EndCallbackIInv,
     UseErasedIInv DEF Pass
<1>5. CASE Tick
  BY <1>5, TickIInv
<1>6. QED
  BY <1>1, <1>2, <1>3, <1>4, <1>5 DEF Next

THEOREM Invariance == Spec => []IInv
BY InitIInv, NextIInv, PTL DEF Spec

\* The variables keep their types, and doTimer's iterator is to an entry that was erased
\* only from the moment a callback removes the timer it is called from.
THEOREM TypeCorrect == Spec => []TypeOK
<1>1. IInv => TypeOK
  BY DEF IInv
<1>2. QED
  BY <1>1, Invariance, PTL

\* A timer runs as often as it was asked to, no more and, once doTimer drops it, no
\* less; its k-th run does not begin before when + (k-1) * interval.
THEOREM TimersRunAsAsked == Spec => []RunsAsAsked
<1>1. IInv => RunsAsAsked
  BY DEF IInv, RunsAsAsked
<1>2. QED
  BY <1>1, Invariance, PTL

\* A pass that ends leaves unvisited only what is behind a timer not yet due.
THEOREM PassesVisit == Spec => DueOnesVisited
<1> DEFINE Visited == \A t \in m_timers \ passed :
                        Due(t) => \E u \in m_timers : Before(u, t) /\ ~Due(u)
<1>1. ASSUME IInv, [Next]_vars, pc = "walk", pc' = "idle"
      PROVE  Visited
  <2>1. StopWalk
    BY <1>1 DEF Next, User, AddTimer, NewTimer, RemoveTimer, Cancel, UserRuns, DoTimer,
                Pass, SkipCancelled, BeginCallback, EndCallback, UseErased, Tick, vars
  <2>2. ASSUME NEW t \in m_timers \ passed, Due(t)
        PROVE  \E u \in m_timers : Before(u, t) /\ ~Due(u)
    <3>1. iter # End /\ (t = iter \/ Before(iter, t))
      BY <1>1, <2>2 DEF IInv, Ahead
    <3>2. ~Due(iter) /\ iter \in m_timers
      BY <3>1, <2>1, <1>1 DEF StopWalk, IInv, TypeOK
    <3>3. QED
      BY <3>1, <3>2, <2>2
  <2>3. QED
    BY <2>2
<1>2. IInv /\ [Next]_vars => [pc = "walk" /\ pc' = "idle" => Visited]_vars
  BY <1>1
<1>3. QED
  BY <1>2, Invariance, PTL DEF Spec, DueOnesVisited

-----------------------------------------------------------------------------
(* LoopEventList.                                                          *)

\* Every item is in the list at most once.
Distinct == \A i, j \in DOMAIN m_loopList : m_loopList[i] = m_loopList[j] => i = j

\* The pass stands at position p: the items before it have run, those behind it have
\* not; the item at p has if its callback is running.
StandsAt(p) ==
  /\ it = ItemAt(m_loopList, p)
  /\ walk = "callback" => p \in DOMAIN m_loopList
  /\ \A i \in DOMAIN m_loopList :
       ran[m_loopList[i]] = IF i < p \/ (walk = "callback" /\ i = p) THEN 1 ELSE 0

ListInv ==
  /\ m_loopList \in Seq(Items)
  /\ freed \subseteq Items
  /\ walk \in {"idle", "walk", "callback", "wild"}
  /\ ran \in [Items -> Nat]
  /\ Distinct
  /\ walk # "wild" =>
       /\ \A x \in Items : ran[x] <= 1
       /\ \A x \in Items : x \notin InList \cup freed => ran[x] = 0
  /\ walk \in {"walk", "callback"} => \E p \in 1..(Len(m_loopList) + 1) : StandsAt(p)

\* An item of the list has its place.
LEMMA PlaceIs ==
  ASSUME ListInv, NEW i \in DOMAIN m_loopList
  PROVE  Place(m_loopList[i]) = i
<1>1. \A j \in DOMAIN m_loopList : m_loopList[j] = m_loopList[i] => j = i
  BY DEF ListInv, Distinct
<1> QED
  BY <1>1 DEF Place

\* An item that is added gets the last place.
LEMMA AddListInv ==
  ASSUME ListInv, NEW x \in Items, AddLoopEvent(x)
  PROVE  ListInv'
<1> DEFINE n == Len(m_loopList)
<1>1. /\ m_loopList \in Seq(Items) /\ n \in Nat
      /\ m_loopList' = Append(m_loopList, x)
  BY DEF ListInv, AddLoopEvent, Added
<1>2. /\ m_loopList' \in Seq(Items) /\ DOMAIN m_loopList = 1..n
      /\ Len(m_loopList') = n + 1 /\ DOMAIN m_loopList' = 1..(n + 1)
      /\ \A i \in 1..n : m_loopList'[i] = m_loopList[i]
      /\ m_loopList'[n + 1] = x
  BY <1>1
<1>3. \A i \in 1..n : m_loopList[i] # x
  BY <1>2 DEF AddLoopEvent, InList, ToSet
<1>4. Distinct'
  BY <1>2, <1>3 DEF Distinct, ListInv
<1>5. InList' = InList \cup {x}
  BY <1>2 DEF InList, ToSet
<1>6. ASSUME walk = "callback"
      PROVE  \E p \in 1..(Len(m_loopList') + 1) : StandsAt(p)'
  <2>1. PICK p \in 1..(n + 1) : StandsAt(p)
    BY <1>6 DEF ListInv
  <2>2. p \in 1..n
    BY <1>6, <2>1, <1>2 DEF StandsAt
  <2>3. ran[x] = 0
    BY <1>6 DEF ListInv, AddLoopEvent
  <2>4. StandsAt(p)'
    BY <2>1, <2>2, <2>3, <1>2, <1>6 DEF StandsAt, ItemAt, AddLoopEvent
  <2> QED
    BY <2>4, <1>2
<1> QED
  BY <1>1, <1>2, <1>4, <1>5, <1>6 DEF ListInv, AddLoopEvent, UserMay

\* A sequence without its k-th element.
LEMMA WithoutOne ==
  ASSUME NEW S, NEW s \in Seq(S), NEW k \in 1..Len(s)
  PROVE  /\ RemoveAt(s, k) \in Seq(S)
         /\ Len(RemoveAt(s, k)) = Len(s) - 1 /\ DOMAIN RemoveAt(s, k) = 1..(Len(s) - 1)
         /\ \A i \in 1..(Len(s) - 1) : RemoveAt(s, k)[i] = s[IF i < k THEN i ELSE i + 1]
<1> DEFINE before == SubSeq(s, 1, k - 1)
           behind == SubSeq(s, k + 1, Len(s))
           t == RemoveAt(s, k)
<1>0. t = before \o behind
  BY DEF RemoveAt
<1>1. Len(s) \in Nat /\ k \in Nat
  OBVIOUS
<1>2. /\ before \in Seq(S) /\ Len(before) = k - 1
      /\ \A i \in 1..(k - 1) : before[i] = s[i]
  <2>1. \A i \in 1..(k - 1) : s[i] \in S
    BY <1>1
  <2>2. /\ before \in Seq(S)
        /\ Len(before) = (IF 1 <= k - 1 THEN k - 1 - 1 + 1 ELSE 0)
        /\ \A i \in 1..(k - 1 - 1 + 1) : before[i] = s[1 + i - 1]
    BY <2>1, <1>1, SubSeqProperties
  <2> QED
    BY <2>2, <1>1
<1>3. /\ behind \in Seq(S) /\ Len(behind) = Len(s) - k
      /\ \A i \in 1..(Len(s) - k) : behind[i] = s[k + i]
  <2>1. \A i \in (k + 1)..Len(s) : s[i] \in S
    BY <1>1
  <2>2. /\ behind \in Seq(S)
        /\ Len(behind) = (IF k + 1 <= Len(s) THEN Len(s) - (k + 1) + 1 ELSE 0)
        /\ \A i \in 1..(Len(s) - (k + 1) + 1) : behind[i] = s[k + 1 + i - 1]
    BY <2>1, <1>1, SubSeqProperties
  <2> QED
    BY <2>2, <1>1
<1> HIDE DEF before, behind, t
<1>4. /\ t \in Seq(S) /\ Len(t) = Len(s) - 1
      /\ \A i \in 1..(Len(s) - 1) :
           t[i] = IF i <= k - 1 THEN before[i] ELSE behind[i - (k - 1)]
  <2>1. /\ t \in Seq(S) /\ Len(t) = Len(before) + Len(behind)
        /\ \A i \in 1..(Len(before) + Len(behind)) :
             t[i] = IF i <= Len(before) THEN before[i] ELSE behind[i - Len(before)]
    BY <1>0, <1>2, <1>3, ConcatProperties
  <2>2. Len(before) = k - 1 /\ Len(before) + Len(behind) = Len(s) - 1
    BY <1>1, <1>2, <1>3
  <2> QED
    BY <2>1, <2>2
<1>5. ASSUME NEW i \in 1..(Len(s) - 1)
      PROVE  t[i] = s[IF i < k THEN i ELSE i + 1]
  <2>1. CASE i \in 1..(k - 1)
    <3>1. i <= k - 1 /\ i < k
      BY <2>1, <1>1
    <3> QED
      BY <3>1, <2>1, <1>2, <1>4
  <2>2. CASE ~(i \in 1..(k - 1))
    <3>1. i - (k - 1) \in 1..(Len(s) - k) /\ k + (i - (k - 1)) = i + 1
      BY <2>2, <1>1
    <3>2. ~(i <= k - 1) /\ ~(i < k)
      BY <2>2, <1>1
    <3>3. t[i] = behind[i - (k - 1)]
      BY <3>2, <1>4
    <3>4. behind[i - (k - 1)] = s[k + (i - (k - 1))]
      BY <3>1, <1>3
    <3> QED
      BY <3>1, <3>2, <3>3, <3>4
  <2> QED
    BY <2>1, <2>2
<1>6. DOMAIN t = 1..(Len(s) - 1)
  BY <1>4
<1> QED
  BY <1>4, <1>5, <1>6 DEF t

\* An item that is removed, other than the one that runs, leaves the pass where it stands.
LEMMA RemoveListInv ==
  ASSUME ListInv, NEW x \in Items, RemoveLoopEvent(x)
  PROVE  ListInv'
<1> DEFINE n == Len(m_loopList)
<1>1. m_loopList \in Seq(Items) /\ n \in Nat /\ DOMAIN m_loopList = 1..n
  BY DEF ListInv
<1>2. PICK k \in 1..n : m_loopList[k] = x
  BY <1>1 DEF RemoveLoopEvent, InList, ToSet
<1>3. Place(x) = k
  BY <1>1, <1>2, PlaceIs
<1>4. m_loopList' = RemoveAt(m_loopList, k)
  BY <1>3 DEF RemoveLoopEvent
<1>5. /\ m_loopList' \in Seq(Items)
      /\ Len(m_loopList') = n - 1 /\ DOMAIN m_loopList' = 1..(n - 1)
      /\ \A i \in 1..(n - 1) : m_loopList'[i] = m_loopList[IF i < k THEN i ELSE i + 1]
  <2>1. /\ RemoveAt(m_loopList, k) \in Seq(Items)
        /\ Len(RemoveAt(m_loopList, k)) = Len(m_loopList) - 1
        /\ DOMAIN RemoveAt(m_loopList, k) = 1..(Len(m_loopList) - 1)
        /\ \A i \in 1..(Len(m_loopList) - 1) :
             RemoveAt(m_loopList, k)[i] = m_loopList[IF i < k THEN i ELSE i + 1]
    <3>1. m_loopList \in Seq(Items) /\ k \in 1..Len(m_loopList)
      BY <1>1
    <3> QED
      BY ONLY <3>1, WithoutOne
  <2> QED
    BY <2>1, <1>4
<1>6. Distinct'
  <2> SUFFICES ASSUME NEW i \in 1..(n - 1), NEW j \in 1..(n - 1),
                      m_loopList'[i] = m_loopList'[j]
               PROVE  i = j
    BY <1>5 DEF Distinct
  <2> DEFINE old(p) == IF p < k THEN p ELSE p + 1
  <2>1. old(i) \in 1..n /\ old(j) \in 1..n
    BY <1>1, <1>2
  <2>2. m_loopList[old(i)] = m_loopList[old(j)]
    BY <1>5
  <2>3. old(i) = old(j)
    BY <2>1, <2>2, <1>1 DEF ListInv, Distinct
  <2> QED
    BY <2>3, <1>1, <1>2
<1>7. InList \subseteq InList' \cup {x}
  <2>1. ASSUME NEW i \in 1..n, i # k
        PROVE  \E j \in 1..(n - 1) : m_loopList'[j] = m_loopList[i]
    <3>1. CASE i < k
      BY <3>1, <1>1, <1>2, <1>5, <2>1
    <3>2. CASE i > k
      <4>1. i - 1 \in 1..(n - 1) /\ ~(i - 1 < k) /\ (i - 1) + 1 = i
        BY <3>2, <1>1, <1>2
      <4> QED
        BY <4>1, <1>5
    <3> QED
      BY <3>1, <3>2, <2>1, <1>1
  <2> SUFFICES ASSUME NEW y \in InList, y # x PROVE y \in InList'
    OBVIOUS
  <2>2. PICK i \in 1..n : y = m_loopList[i]
    BY <1>1 DEF InList, ToSet
  <2>3. i # k
    BY <2>2, <1>2
  <2>4. PICK j \in 1..(n - 1) : m_loopList'[j] = y
    BY <2>1, <2>2, <2>3
  <2> QED
    BY <2>4, <1>5 DEF InList, ToSet
<1>8. ASSUME walk' = "callback"
      PROVE  \E p \in 1..(Len(m_loopList') + 1) : StandsAt(p)'
  <2>1. walk = "callback" /\ x # it
    BY <1>8 DEF RemoveLoopEvent, UserMay
  <2>2. PICK p \in 1..(n + 1) : StandsAt(p)
    BY <2>1 DEF ListInv
  <2>3. p \in 1..n /\ m_loopList[p] = it /\ p # k
    BY <2>1, <2>2, <1>1, <1>2 DEF StandsAt, ItemAt
  <2> DEFINE q == IF p < k THEN p ELSE p - 1
  <2>4. q \in 1..(n - 1) /\ m_loopList'[q] = it
    BY <2>3, <1>1, <1>2, <1>5
  <2>5. ASSUME NEW i \in 1..(n - 1)
        PROVE  ran[m_loopList'[i]] = IF i < q \/ i = q THEN 1 ELSE 0
    <3> DEFINE j == IF i < k THEN i ELSE i + 1
    <3>1. j \in 1..n /\ m_loopList'[i] = m_loopList[j]
      BY <1>1, <1>2, <1>5
    <3>2. ran[m_loopList[j]] = IF j < p \/ j = p THEN 1 ELSE 0
      BY <3>1, <2>1, <2>2, <1>1 DEF StandsAt
    <3>3. (i < q \/ i = q) <=> (j < p \/ j = p)
      BY <2>3, <1>1, <1>2
    <3> QED
      BY <3>1, <3>2, <3>3
  <2>6. StandsAt(q)'
    BY <2>1, <2>4, <2>5, <1>5, <1>8 DEF StandsAt, ItemAt, RemoveLoopEvent
  <2> QED
    BY <2>6, <2>4, <1>5, <1>1
<1>9. walk' \in {"idle", "callback", "wild"} /\ (walk' = "idle" => walk = "idle")
  BY DEF RemoveLoopEvent, UserMay
<1> QED
  BY <1>5, <1>6, <1>7, <1>8, <1>9 DEF ListInv, RemoveLoopEvent, UserMay

\* The walk goes from item to item.
LEMMA WalkListInv ==
  ASSUME ListInv, DoLoopEvent \/ PassOver \/ RunItem \/ CallbackReturns
  PROVE  ListInv'
<1> DEFINE n == Len(m_loopList)
<1>1. m_loopList \in Seq(Items) /\ n \in Nat /\ DOMAIN m_loopList = 1..n
  BY DEF ListInv
<1>2. \A i \in 1..n : m_loopList[i] \in Items
  BY <1>1
<1>3. CASE DoLoopEvent
  <2>1. m_loopList' = m_loopList /\ walk' = "walk" /\ ran' = [x \in Items |-> 0]
    BY <1>3 DEF DoLoopEvent
  <2>2. StandsAt(1)'
    BY <2>1, <1>1, <1>2, <1>3 DEF StandsAt, DoLoopEvent
  <2> QED
    BY <2>1, <2>2, <1>1, <1>3 DEF ListInv, Distinct, InList, DoLoopEvent
<1>4. CASE PassOver
  BY <1>4 DEF PassOver, ListInv, Distinct, InList
<1>5. CASE RunItem
  <2>1. PICK p \in 1..(n + 1) : StandsAt(p)
    BY <1>5 DEF RunItem, ListInv
  <2>2. p \in 1..n /\ it = m_loopList[p] /\ it \in Items
    BY <2>1, <1>1, <1>2, <1>5 DEF StandsAt, ItemAt, RunItem
  <2>3. ran[it] = 0 /\ ran' = [ran EXCEPT ![it] = 1] /\ ran \in [Items -> Nat]
    <3>1. ran[m_loopList[p]] = 0
      BY <2>1, <2>2, <1>1, <1>5 DEF StandsAt, RunItem
    <3> QED
      BY <3>1, <2>2, <1>5 DEF RunItem, ListInv
  <2>4. StandsAt(p)'
    <3>1. ASSUME NEW i \in 1..n
          PROVE  ran'[m_loopList[i]] = IF i < p \/ i = p THEN 1 ELSE 0
      <4>1. CASE i = p
        BY <4>1, <2>2, <2>3
      <4>2. CASE i # p
        <5>1. m_loopList[i] # it
          BY <4>2, <2>2, <1>1 DEF ListInv, Distinct
        <5>2. ran'[m_loopList[i]] = ran[m_loopList[i]]
          BY <5>1, <2>3, <1>2
        <5> QED
          BY <5>2, <4>2, <2>1, <1>1, <1>5 DEF StandsAt, RunItem
      <4> QED
        BY <4>1, <4>2
    <3> QED
      BY <3>1, <2>1, <2>2, <1>1, <1>5 DEF StandsAt, RunItem
  <2>5. it \in InList
    BY <2>2, <1>1 DEF InList, ToSet
  <2>6. /\ ran' \in [Items -> Nat]
        /\ \A x \in Items : ran'[x] = IF x = it THEN 1 ELSE ran[x]
    BY <2>2, <2>3
  <2>7. \A x \in Items : ran[x] <= 1 /\ (x \notin InList \cup freed => ran[x] = 0)
    BY <1>5 DEF ListInv, RunItem
  <2>8. /\ \A x \in Items : ran'[x] <= 1
        /\ \A x \in Items : x \notin InList \cup freed => ran'[x] = 0
    BY <2>5, <2>6, <2>7
  <2>9. UNCHANGED <<m_loopList, freed>> /\ InList' = InList /\ walk' = "callback"
    BY <1>5 DEF RunItem, InList
  <2> QED
    BY <2>2, <2>4, <2>6, <2>8, <2>9, <1>1 DEF ListInv, Distinct
<1>6. CASE CallbackReturns
  <2>1. PICK p \in 1..(n + 1) : StandsAt(p)
    BY <1>6 DEF CallbackReturns, ListInv
  <2>2. p \in 1..n /\ it = m_loopList[p]
    BY <2>1, <1>1, <1>6 DEF StandsAt, ItemAt, CallbackReturns
  <2>3. it' = ItemAt(m_loopList, p + 1)
    BY <2>2, <1>1, <1>6, PlaceIs DEF CallbackReturns, NextItem
  <2>4. StandsAt(p + 1)'
    BY <2>1, <2>2, <2>3, <1>1, <1>6 DEF StandsAt, CallbackReturns
  <2>5. p + 1 \in 1..(n + 1)
    BY <2>2, <1>1
  <2> QED
    BY <2>4, <2>5, <1>1, <1>6 DEF ListInv, Distinct, InList, CallbackReturns
<1> QED
  BY <1>3, <1>4, <1>5, <1>6

\* Whatever the callbacks add and remove, a pass runs every item of the list once.
THEOREM EachItemRuns == ListSpec => []PassRunsEach
<1>1. ListInit => ListInv
  BY DEF ListInit, ListInv, Distinct, InList, ToSet
<1>2. ListInv /\ [ListNext]_listVars => ListInv'
  <2>1. ListInv /\ UNCHANGED listVars => ListInv'
    BY DEF listVars, ListInv, Distinct, InList, StandsAt
  <2> QED
    BY <2>1, AddListInv, RemoveListInv, WalkListInv DEF ListNext
<1>3. ListInv => PassRunsEach
  <2> SUFFICES ASSUME ListInv, walk = "walk", it = NoItem, NEW x \in InList
               PROVE  ran[x] = 1
    BY DEF ListInv, PassRunsEach
  <2>1. PICK p \in 1..(Len(m_loopList) + 1) : StandsAt(p)
    BY DEF ListInv
  <2>2. PICK i \in 1..Len(m_loopList) : x = m_loopList[i]
    BY DEF InList, ToSet, ListInv
  <2>3. p \notin 1..Len(m_loopList)
    BY <2>1, LoopEventListAssumption DEF ListInv, StandsAt, ItemAt
  <2>4. i < p /\ i \in DOMAIN m_loopList
    BY <2>2, <2>3 DEF ListInv
  <2> QED
    BY <2>1, <2>2, <2>4 DEF StandsAt
<1> QED
  BY <1>1, <1>2, <1>3, PTL DEF ListSpec
=============================================================================
