--------------------------- MODULE EvictionDriver ---------------------------
(***************************************************************************)
(* How get_page (vm/src/handlers/lib/outsourced_mem.rs) uses its eviction  *)
(* strategy: which slot holds which page, and which page was accessed last *)
(* (accessing it again does not reach the strategy).                       *)
(***************************************************************************)
EXTENDS Naturals, Sequences, SequencesExt, FiniteSets

CONSTANTS
  NSlots,     \* Slots of the cache.
  PageIds,    \* Pages of the section.
  NoPageId,   \* What a slot that is not valid holds.
  Modulus,    \* Values of the strategies' counters: 2^32 in the code.
  MaxWraps    \* Bound of the model: how often the counter wraps around.

ASSUME EvictionAssumption ==
  /\ NSlots \in Nat \ {0}
  /\ NoPageId \notin PageIds
  /\ Modulus \in Nat \ {0, 1}
  /\ MaxWraps \in Nat

VARIABLES
  held,           \* The page in each slot.
  last,           \* last_accessed_page.
  globalCounter,  \* The strategy's counter of its calls.
  recency,        \* History: the occupied slots, from the least recently used one.
  wraps           \* History: how often the counter has wrapped around.

cacheVars == <<held, last, globalCounter, recency, wraps>>

Slots == 0 .. NSlots - 1

SmallSentinel == Modulus \div 2 - 1

Never == Modulus - 1     \* u32::MAX

Wrapping(counter) == (counter + 1) % Modulus

\* The scans of choose_victim over slots S with time stamps time: the first slot
\* with the smallest stamp below u32::MAX, if there is one.
Candidates(S, time) == {i \in S : time[i] < Never}

Oldest(S, time) ==
  CHOOSE i \in Candidates(S, time) :
    \A j \in Candidates(S, time) : time[i] < time[j] \/ (time[i] = time[j] /\ i <= j)

\* A list without one of its elements, which is looked up first.
Without(list, x) ==
  IF x \in ToSet(list) THEN RemoveAt(list, CHOOSE k \in DOMAIN list : list[k] = x) ELSE list

-----------------------------------------------------------------------------
FreeSlots == {i \in Slots : held[i] = NoPageId}

FirstFree == CHOOSE i \in FreeSlots : \A j \in FreeSlots : i <= j

CacheInit ==
  /\ held = [i \in Slots |-> NoPageId]
  /\ last = NoPageId
  /\ globalCounter = 0
  /\ recency = <<>>
  /\ wraps = 0

\* on_access and on_load of both strategies count first.
Count ==
  /\ globalCounter' = Wrapping(globalCounter)
  /\ wraps' = IF globalCounter' = 0 THEN wraps + 1 ELSE wraps
  /\ wraps' <= MaxWraps

\* get_page finds page p in slot i, and calls on_access.
Hit(p, i) ==
  /\ held[i] = p
  /\ last # p
  /\ last' = p
  /\ recency' = Append(Without(recency, i), i)
  /\ Count
  /\ UNCHANGED held

\* get_page loads page p into slot i, which is free or was just invalidated.
Load(p, i) ==
  /\ p \notin {held[j] : j \in Slots}
  /\ held' = [held EXCEPT ![i] = p]
  /\ last' = p
  /\ recency' = Append(Without(recency, i), i)
  /\ Count
=============================================================================
