--------------------------- MODULE MCPagedSystem ----------------------------
(* Instances of PagedSystem for TLC. *)
EXTENDS PagedSystem, TLC

CONSTANTS Data, Stack, c0, c1

\* The first content everywhere, except for the second in the last page.
MCInitialContent ==
  [s \in Sections |-> [p \in Pages |-> IF p = NPages - 1 /\ c1 \in Contents THEN c1 ELSE c0]]
=============================================================================
