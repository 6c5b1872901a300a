---------------------------- MODULE TwoQEviction ----------------------------
(***************************************************************************)
(* TwoQEvictionStrategy (vm/src/handlers/lib/evict.rs), the strategy of    *)
(* the code cache: queues A1 (pages seen once, first in first out) and Am  *)
(* (pages seen again, least recently used first) kept as the state and the *)
(* time stamp of each slot, and the pages that A1 dropped in a1out.        *)
(***************************************************************************)
EXTENDS EvictionDriver

CONSTANTS A1MaxSize, A1OutMaxSize

\* new panics unless A1 is smaller than the cache; handler_start_vapp passes a
\* quarter and a half of at least 24 slots.
ASSUME TwoQAssumption ==
  /\ A1MaxSize \in 1 .. NSlots - 1
  /\ A1OutMaxSize \in Nat \ {0}

VARIABLES
  states,   \* PageState of each slot: its queue and its time stamp.
  a1Size,
  a1out     \* VecDeque of page indices.

vars == <<cacheVars, states, a1Size, a1out>>

Free == [queue |-> "Free", time |-> 0]
A1(time) == [queue |-> "A1", time |-> time]
Am(time) == [queue |-> "Am", time |-> time]

Init ==
  /\ CacheInit
  /\ states = [i \in Slots |-> Free]
  /\ a1Size = 0
  /\ a1out = <<>>

In(queue) == {i \in Slots : states[i].queue = queue}

Time == [i \in Slots |-> states[i].time]

-----------------------------------------------------------------------------
OnAccessTouchingA1(p, i) ==
  /\ Hit(p, i)
  /\ states' = [states EXCEPT ![i].time = globalCounter']
  /\ UNCHANGED <<a1Size, a1out>>

\* on_access: only Am is kept in order of use.
OnAccess(p, i) ==
  /\ Hit(p, i)
  /\ states' = [states EXCEPT ![i] = IF @.queue = "Am" THEN Am(globalCounter') ELSE @]
  /\ UNCHANGED <<a1Size, a1out>>

\* on_load of page p into slot i, where the strategy had A1 of size size and
\* remembered the pages ghosts.
OnLoadKeepingGhost(p, i, size, ghosts) ==
  /\ IF p \in ToSet(ghosts)
     THEN /\ states' = [states EXCEPT ![i] = Am(globalCounter')]
          /\ a1out' = ghosts
          /\ a1Size' = size
     ELSE /\ states' = [states EXCEPT ![i] = A1(globalCounter')]
          /\ a1out' = ghosts
          /\ a1Size' = size + 1

OnLoad(p, i, size, ghosts) ==
  /\ IF p \in ToSet(ghosts)
     THEN /\ states' = [states EXCEPT ![i] = Am(globalCounter')]
          /\ a1out' = Without(ghosts, p)
          /\ a1Size' = size
     ELSE /\ states' = [states EXCEPT ![i] = A1(globalCounter')]
          /\ a1out' = ghosts
          /\ a1Size' = size + 1

-----------------------------------------------------------------------------
(* choose_victim: A1 when it has its share of the cache, otherwise Am and then,  *)
(* in choose_victim_from_a1_fallback, A1.                                       *)
VictimInSigned(queue) == {i \in In(queue) : Time[i] < SmallSentinel}

VictimIn(queue) == Candidates(In(queue), Time)

A1HasItsShare == a1Size >= A1MaxSize

ChooseVictim ==
  IF A1HasItsShare
  THEN IF VictimIn("A1") = {} THEN 0 ELSE Oldest(In("A1"), Time)
  ELSE Oldest(In(IF VictimIn("Am") # {} THEN "Am" ELSE "A1"), Time)

\* The unreachable! of choose_victim_from_a1_fallback.
Unreachable == ~A1HasItsShare /\ VictimIn("Am") = {} /\ VictimIn("A1") = {}

\* on_invalidate: a page that leaves A1 is remembered in a1out.
SizeKept(i) == a1Size

SizeWithout(i) == IF states[i].queue = "A1" THEN a1Size - 1 ELSE a1Size

Remembered(i) ==
  IF states[i].queue = "A1"
  THEN Append(IF Len(a1out) = A1OutMaxSize THEN Tail(a1out) ELSE a1out, held[i])
  ELSE a1out

-----------------------------------------------------------------------------
LoadFree(p) ==
  /\ FreeSlots # {}
  /\ Load(p, FirstFree)
  /\ OnLoad(p, FirstFree, a1Size, a1out)

Evict(p) ==
  /\ FreeSlots = {}
  /\ ~Unreachable
  /\ Load(p, ChooseVictim)
  /\ OnLoad(p, ChooseVictim, SizeWithout(ChooseVictim), Remembered(ChooseVictim))

Next ==
  \E p \in PageIds : (\E i \in Slots : OnAccess(p, i)) \/ LoadFree(p) \/ Evict(p)

Spec == Init /\ [][Next]_vars

-----------------------------------------------------------------------------
\* a1_size counts the slots in A1, also when on_invalidate and on_load run for the
\* same slot: it can neither underflow (on_invalidate's a1_size -= 1) nor drift away
\* from the queue whose share it controls.
A1SizeExact == a1Size = Cardinality(In("A1"))

\* a1out remembers pages that are not in the cache, each of them once, within the
\* capacity that it was created with: a page that comes back is forgotten, also when
\* the eviction that makes room for it pushes another page out of a1out.
GhostsAreAbsent ==
  /\ ToSet(a1out) \cap {held[i] : i \in Slots} = {}
  /\ IsInjective(a1out)
  /\ Len(a1out) <= A1OutMaxSize

\* choose_victim in a full cache does not reach its unreachable!, "This never happens,
\* as there is always a page to evict in A1 or Am" (evict.rs:205), before the counter
\* has wrapped around once for all slots but one. Then it can: the scans start from
\* u32::MAX and skip the slots stamped with it, one more of them in every lap.
VictimUntilWraps == FreeSlots = {} /\ Unreachable => wraps >= NSlots - 1

\* Slots S in the order of their time stamps.
Ordered(S, time) ==
  CHOOSE order \in SetToSeqs(S) :
    \A j, k \in DOMAIN order : j < k => time[order[j]] < time[order[k]]

\* The pages of a queue, by time stamp.
Queue(queue) ==
  LET order == Ordered(In(queue), Time)
  IN  [n \in DOMAIN order |-> held[order[n]]]

Queues == INSTANCE TwoQueues WITH a1in <- Queue("A1"), am <- Queue("Am")

\* As long as the counter has not wrapped around, slots with time stamps do what the
\* queues of the 2Q algorithm do ("keeps the A1 and Am queues implied", evict.rs:73).
KeepsTheQueues ==
  Queues!Init /\ [][wraps' = 0 => [Queues!Next]_(Queues!queues)]_vars
=============================================================================
