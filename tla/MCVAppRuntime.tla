--------------------------- MODULE MCVAppRuntime ----------------------------
(***************************************************************************)
(* Two tasks and a child, and a review of two pairs that share a page.     *)
(***************************************************************************)
EXTENDS VAppRuntime

MCPairHeights == <<1, 2>>
=============================================================================
