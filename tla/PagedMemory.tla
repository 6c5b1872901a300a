---------------------------- MODULE PagedMemory -----------------------------
(***************************************************************************)
(* What the VM's outsourced memory promises to the code that runs on it: a *)
(* memory of pages, in sections, where an access sees the last value       *)
(* written to its page.  A read-only section makes a weaker promise: what  *)
(* is written to it lasts until it reverts to the initial content.         *)
(***************************************************************************)
CONSTANTS Sections, ReadOnly, Pages, Contents, InitialContent, NoWrite

VARIABLES
  mem,  \* The content of every page.
  ret   \* The last access that completed, and the page content it saw.

Read(s, p) ==
  /\ ret' = [access |-> [sec |-> s, page |-> p, op |-> NoWrite], page |-> mem[s][p]]
  /\ UNCHANGED mem

Write(s, p, d) ==
  /\ ret' = [access |-> [sec |-> s, page |-> p, op |-> d], page |-> d]
  /\ mem' = [mem EXCEPT ![s][p] = d]

Revert(s, p) ==
  /\ s \in ReadOnly
  /\ mem' = [mem EXCEPT ![s][p] = InitialContent[s][p]]
  /\ UNCHANGED ret

Init == mem = InitialContent

Next ==
  \E s \in Sections, p \in Pages :
    Read(s, p) \/ (\E d \in Contents : Write(s, p, d)) \/ Revert(s, p)

Spec == Init /\ [][Next]_<<mem, ret>>
=============================================================================
