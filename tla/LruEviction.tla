---------------------------- MODULE LruEviction -----------------------------
(***************************************************************************)
(* LruEvictionStrategy (vm/src/handlers/lib/evict.rs), the strategy of the *)
(* data and stack caches.                                                  *)
(***************************************************************************)
EXTENDS EvictionDriver

VARIABLE usageCounters  \* When each slot was used last.

vars == <<cacheVars, usageCounters>>

Init ==
  /\ CacheInit
  /\ usageCounters = [i \in Slots |-> 0]

\* on_access and on_load do the same.
Touch(i) == usageCounters' = [usageCounters EXCEPT ![i] = globalCounter']

ChooseVictim ==
  IF Candidates(Slots, usageCounters) = {} THEN 0 ELSE Oldest(Slots, usageCounters)

OnAccessUnstamped(p, i) == Hit(p, i) /\ UNCHANGED usageCounters

OnAccess(p, i) == Hit(p, i) /\ Touch(i)

LoadFree(p) ==
  /\ FreeSlots # {}
  /\ Load(p, FirstFree)
  /\ Touch(FirstFree)

\* choose_victim, on_invalidate (whose reset on_load overwrites), on_load.
Evict(p) ==
  /\ FreeSlots = {}
  /\ Load(p, ChooseVictim)
  /\ Touch(ChooseVictim)

Next ==
  \E p \in PageIds : (\E i \in Slots : OnAccess(p, i)) \/ LoadFree(p) \/ Evict(p)

Spec == Init /\ [][Next]_vars

-----------------------------------------------------------------------------
\* As long as the counter has not wrapped around, the victim is the slot whose page
\* was used least recently ("A simple LRU", evict.rs:20), although accesses to the
\* page that was accessed last never reach the strategy (get_page's shortcut).
VictimIsLeastRecentlyUsed == wraps = 0 /\ FreeSlots = {} => ChooseVictim = recency[1]
=============================================================================
