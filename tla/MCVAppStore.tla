---------------------------- MODULE MCVAppStore -----------------------------
(***************************************************************************)
(* Two versions of one V-App, and two more V-Apps, one without storage:    *)
(* more names than the store has entries. Either the V-Apps use their      *)
(* storage, or the two versions are preloaded and run with HMACs: the two  *)
(* meet in the registry and the key, and both at once is too much for TLC. *)
(***************************************************************************)
EXTENDS Preload

CONSTANTS v1, v2, v3, v4

MCNameOf == [m \in {v1, v2, v3, v4} |-> IF m = v2 THEN v1 ELSE m]
MCSlotsOf == [m \in {v1, v2, v3, v4} |-> IF m = v3 THEN 2 ELSE IF m = v4 THEN 0 ELSE 1]

VARIABLE mode

MCInit == mode \in {"store", "preload"} /\ Init /\ PreloadInit

StoreNext ==
  /\ mode = "store" /\ UNCHANGED mode
  /\ (Operate /\ UNCHANGED preloadVars) \/ PowerLossMeanwhile

PreloadingNext ==
  /\ mode = "preload" /\ UNCHANGED mode
  /\ \/ PreloadNext
     \/ ((\E k \in Keys : Boot(k)) \/ StopVApp \/ NvmWrite) /\ UNCHANGED preloadVars

MCSpec == MCInit /\ [][StoreNext \/ PreloadingNext]_<<vars, preloadVars, mode>>
=============================================================================
