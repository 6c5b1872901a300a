------------------------------ MODULE TwoQueues ------------------------------
(***************************************************************************)
(* The 2Q replacement algorithm as its queues: what TwoQEvictionStrategy   *)
(* (vm/src/handlers/lib/evict.rs) "keeps implied". New pages queue in      *)
(* a1in; a page that is loaded again while its name is still in a1out is   *)
(* hot, and moves to am, which is kept in order of use.                    *)
(***************************************************************************)
EXTENDS Naturals, Sequences, SequencesExt

CONSTANTS PageIds, NSlots, A1MaxSize, A1OutMaxSize

VARIABLES a1in, am, a1out

queues == <<a1in, am, a1out>>

Init == a1in = <<>> /\ am = <<>> /\ a1out = <<>>

Cached == ToSet(a1in) \cup ToSet(am)

Use(p) ==
  /\ p \in ToSet(am)
  /\ am' = Append(RemoveFirst(am, p), p)
  /\ UNCHANGED <<a1in, a1out>>

\* The queues without the page to evict, if the cache is full.
Victimless ==
  IF Len(a1in) + Len(am) < NSlots THEN queues
  ELSE IF Len(a1in) >= A1MaxSize \/ am = <<>>
  THEN <<Tail(a1in), am,
         Append(IF Len(a1out) = A1OutMaxSize THEN Tail(a1out) ELSE a1out, Head(a1in))>>
  ELSE <<a1in, Tail(am), a1out>>

Fetch(p) ==
  LET q == Victimless IN
  /\ p \notin Cached
  /\ IF p \in ToSet(q[3])
     THEN queues' = <<q[1], Append(q[2], p), RemoveFirst(q[3], p)>>
     ELSE queues' = <<Append(q[1], p), q[2], q[3]>>

Next == \E p \in PageIds : Use(p) \/ Fetch(p)

Spec == Init /\ [][Next]_queues
=============================================================================
