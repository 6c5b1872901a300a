----------------------------- MODULE MCEviction -----------------------------
(***************************************************************************)
(* Both eviction strategies, one of them chosen at the start: LRU for the  *)
(* data and the stack, 2Q for the code.                                    *)
(***************************************************************************)
EXTENDS TwoQEviction

VARIABLES usageCounters, strategy

Lru == INSTANCE LruEviction

MCInit == Init /\ Lru!Init /\ strategy \in {"LRU", "2Q"}

MCNext ==
  \/ strategy = "LRU" /\ Lru!Next /\ UNCHANGED <<states, a1Size, a1out, strategy>>
  \/ strategy = "2Q" /\ Next /\ UNCHANGED <<usageCounters, strategy>>

MCSpec == MCInit /\ [][MCNext]_<<vars, usageCounters, strategy>>

-----------------------------------------------------------------------------
\* LruEvictionStrategy::choose_victim names the slot used least recently, see
\* LruEviction.
LruVictimIsOldest == strategy = "LRU" => Lru!VictimIsLeastRecentlyUsed

\* The size that TwoQEvictionStrategy keeps of A1 never drifts from the slots in
\* A1, and the pages it remembers are those, and only those, that may come back.
TwoQBookkeeping == A1SizeExact /\ GhostsAreAbsent

\* TwoQEvictionStrategy::choose_victim does not reach its unreachable! before the
\* counter has wrapped around once for all slots but one, see TwoQEviction.
TwoQHasAVictim == strategy = "2Q" => VictimUntilWraps

\* Neither strategy looks into the pages.
Symmetry == Permutations(PageIds)
=============================================================================
