----------------------------- MODULE LoopEventList -----------------------------
(***************************************************************************)
(* LoopEventList of time/TimerQueue.cpp and LoopItem of time/KaTime.cpp:   *)
(* functions a loop calls in every pass.  doLoopEvent walks a std::list;   *)
(* the function it calls is user code, which may add and remove items, so  *)
(* a pass is a step per item and a callback is a state of its own.  An     *)
(* item that removes itself frees the node the walk stands on: what the    *)
(* walk does next is undefined, and the model ends in "wild".              *)
(***************************************************************************)
EXTENDS Integers, FiniteSets, Sequences, SequencesExt

CONSTANTS Items        \* addresses of the LoopItems that are ever created

NoItem == 0            \* end()

ASSUME LoopEventListAssumption == NoItem \notin Items

VARIABLES m_loopList,  \* the list
          freed,       \* items that were removed
          walk,        \* "idle", "walk", "callback", "wild"
          it,          \* the item the walk stands on, or NoItem at the end of the list
          ran          \* how often each item ran in the pass

listVars == <<m_loopList, freed, walk, it, ran>>

InList == ToSet(m_loopList)

\* The position of an item of the list: it is there once.
Place(x) == CHOOSE i \in DOMAIN m_loopList : m_loopList[i] = x

\* Where an iterator at position i of the list points.
ItemAt(list, i) == IF i \in DOMAIN list THEN list[i] ELSE NoItem

ListInit ==
  /\ m_loopList = <<>> /\ freed = {}
  /\ walk = "idle" /\ it = NoItem
  /\ ran = [x \in Items |-> 0]

UserMay == walk \in {"idle", "callback"}

Added(x) == Append(m_loopList, x)

AddLoopEvent(x) ==
  /\ UserMay /\ x \notin InList \cup freed
  /\ m_loopList' = Added(x)
  /\ UNCHANGED <<freed, walk, it, ran>>

RemoveLoopEvent(x) ==
  /\ UserMay /\ x \in InList
  /\ m_loopList' = RemoveAt(m_loopList, Place(x))
  /\ freed' = freed \cup {x}
  /\ walk' = IF walk = "callback" /\ x = it THEN "wild" ELSE walk
  /\ UNCHANGED <<it, ran>>

\* The range for: begin() and, after each callback, ++it.
DoLoopEvent ==
  /\ walk = "idle" /\ walk' = "walk"
  /\ it' = ItemAt(m_loopList, 1)
  /\ ran' = [x \in Items |-> 0]
  /\ UNCHANGED <<m_loopList, freed>>

PassOver ==
  /\ walk = "walk" /\ it = NoItem
  /\ walk' = "idle"
  /\ UNCHANGED <<m_loopList, freed, it, ran>>

RunItem ==
  /\ walk = "walk" /\ it # NoItem
  /\ walk' = "callback"
  /\ ran' = [ran EXCEPT ![it] = @ + 1]
  /\ UNCHANGED <<m_loopList, freed, it>>

\* The walk counts the callbacks it made.
NextItem_Counting == ItemAt(m_loopList, 1 + Cardinality({x \in Items : ran[x] > 0}))

NextItem == ItemAt(m_loopList, Place(it) + 1)

CallbackReturns ==
  /\ walk = "callback"
  /\ walk' = "walk"
  /\ it' = NextItem
  /\ UNCHANGED <<m_loopList, freed, ran>>

ListNext ==
  \/ \E x \in Items : AddLoopEvent(x) \/ RemoveLoopEvent(x)
  \/ DoLoopEvent \/ PassOver \/ RunItem \/ CallbackReturns

ListSpec == ListInit /\ [][ListNext]_listVars

-----------------------------------------------------------------------------
(* Property.                                                               *)

\* "As long as it has not been removed from the queue it keeps running" (KaTime.h:67): when
\* a pass ends, every item it found and nobody removed has run, and so has every item that
\* was added meanwhile; and an item never runs twice in a pass, whatever the callbacks add
\* and remove around it.
PassRunsEach ==
  walk # "wild" =>
    /\ \A x \in Items : ran[x] <= 1
    /\ walk = "walk" /\ it = NoItem => \A x \in InList : ran[x] = 1
==============================================================================
