----------------------------- MODULE PageServer -----------------------------
(***************************************************************************)
(* The client's side of the outsourced memory: the MemorySegments of       *)
(* client-sdk/src/memory.rs, and the two handlers of the VAppEngine that   *)
(* serve the VM's page requests, process_get_page and process_commit_page  *)
(* in client-sdk/src/vanadium_client.rs.                                   *)
(*                                                                         *)
(* The VM does not trust its client: up to MaxFaults times, a page or an   *)
(* HMAC of the client's storage is lost or mixed up with another, or the   *)
(* numbers, the new root or the siblings in one of its answers are wrong.  *)
(***************************************************************************)
EXTENDS ClientCommands

CONSTANT MaxFaults    \* Bound of the model: faults of the client.

ASSUME PageServerAssumption == MaxFaults \in Nat

VARIABLES
  segment,    \* The leaves of each section's Merkle tree.
  codeHmacs,  \* The stored HMACs of the code pages, or NoHmacs.
  serving,    \* The request in progress, and how much of its proof is to be sent.
  seen,       \* History: every leaf the client has ever held.
  faults      \* History: the faults so far.

serverVars == <<segment, codeHmacs, serving, seen, faults>>

NoHmacs    == [p \in {} |-> p]
NotServing == [kind |-> "none", left |-> 0, path |-> EmptyRoot]
Failed     == [kind |-> "failed", left |-> 0, path |-> EmptyRoot]

\* What is left of a proof after a fragment was sent.
Serving(kind, left, path) ==
  IF left = 0 THEN NotServing ELSE [kind |-> kind, left |-> left, path |-> path]

LeastOf(a, b) == IF a <= b THEN a ELSE b

\* The number of sibling hashes in the first message of a proof, and in the next.
FirstFragmentSize == LeastOf(ProofLen, FirstFragment)

NextFragmentUncapped(left) == NextFragment

NextFragmentShort(left) == LeastOf(left - 1, NextFragment)

NextFragmentSize(left) == LeastOf(left, NextFragment)

GenuineHmac(p) ==
  [vapp |-> ThisVApp, idx |-> p, hash |-> ClearLeaf(InitialContent[Code][p])]

\* HMACs a device can have issued: for this V-App only those of its own code
\* pages, since preload_vapp checks the page hashes against the manifest.
IssuedHmacs ==
  {GenuineHmac(p) : p \in Pages}
    \cup {[vapp |-> OtherVApp, idx |-> p, hash |-> ClearLeaf(d)] : p \in Pages, d \in Contents}

-----------------------------------------------------------------------------
UsesHmac(s) == s = Code /\ codeHmacs # NoHmacs

\* The requests that the two handlers accept, given what they are serving.
Servable ==
  CASE link.type = "GetPage" ->
         /\ serving = NotServing
         /\ UsesHmac(link.sec) => ~ segment[Code][link.page].enc /\ segment[Code][link.page].nonce = 0
    [] link.type = "CommitPage" ->
         serving = NotServing /\ link.sec # Code /\ link.leaf.enc
    [] OTHER ->
         serving.kind = link.type /\ serving.left > 0

\* process_get_page without HMACs for the section: the page, its proof's first
\* fragment; the rest is sent on request.
ServePageWithProof ==
  /\ link.type = "GetPage"
  /\ Servable
  /\ ~ UsesHmac(link.sec)
  /\ LET pages == segment[link.sec]
         t     == FirstFragmentSize
     IN  /\ link' = GetPageMerkleResponse(pages[link.page], ProofLen, t, pages)
         /\ serving' = Serving("GetPageProofContinued", ProofLen - t, pages)
  /\ UNCHANGED <<segment, codeHmacs, seen, faults>>

\* process_get_page for a code page when the HMACs were preloaded.
ServePageWithHmac ==
  /\ link.type = "GetPage"
  /\ Servable
  /\ UsesHmac(link.sec)
  /\ link' = GetPageHmacResponse(segment[Code][link.page], codeHmacs[link.page])
  /\ UNCHANGED serverVars

\* process_commit_page: the page is stored before the VM has checked the proof.
StorePage ==
  /\ link.type = "CommitPage"
  /\ Servable
  /\ LET old == segment[link.sec]
         new == [old EXCEPT ![link.page] = link.leaf]
         t   == FirstFragmentSize
     IN  /\ segment' = [segment EXCEPT ![link.sec] = new]
         /\ link' = CommitPageProofResponse(ProofLen, t, new, old)
         /\ serving' = Serving("CommitPageProofContinued", ProofLen - t, old)
  /\ seen' = seen \cup {link.leaf}
  /\ UNCHANGED <<codeHmacs, faults>>

\* The loops that send the remaining fragments of a proof.
ContinueProof ==
  /\ link.type \in {"GetPageProofContinued", "CommitPageProofContinued"}
  /\ Servable
  /\ LET t == NextFragmentSize(serving.left)
     IN  /\ link' = IF link.type = "GetPageProofContinued"
                      THEN GetPageProofContinuedResponse(t, serving.path)
                      ELSE CommitPageProofContinuedResponse(t, serving.path)
         /\ serving' = Serving(serving.kind, serving.left - t, serving.path)
  /\ UNCHANGED <<segment, codeHmacs, seen, faults>>

\* Any other request is an error that ends the engine; the VM gets no answer.
RefuseRequest ==
  /\ link.type \in {"GetPage", "CommitPage", "GetPageProofContinued", "CommitPageProofContinued"}
  /\ serving # Failed
  /\ ~ Servable
  /\ serving' = Failed
  /\ UNCHANGED <<link, segment, codeHmacs, seen, faults>>

-----------------------------------------------------------------------------
(* The faults.  The storage is only read to answer a request, so it is enough   *)
(* that it goes wrong when it is about to be read.                              *)

Fault == faults < MaxFaults /\ faults' = faults + 1

\* A page of the storage is replaced by another leaf the client holds or held.
CorruptPage(s, p) ==
  /\ Fault
  /\ link.type \in {"GetPage", "CommitPage"}
  /\ link.sec = s
  /\ UsesHmac(s) => p = link.page
  /\ \E leaf \in seen \ {segment[s][p]} : segment' = [segment EXCEPT ![s][p] = leaf]
  /\ UNCHANGED <<link, codeHmacs, serving, seen>>

\* A stored HMAC is replaced by another HMAC.
CorruptHmac(p) ==
  /\ Fault
  /\ link.type = "GetPage" /\ link.sec = Code /\ link.page = p
  /\ codeHmacs # NoHmacs
  /\ \E h \in IssuedHmacs \ {codeHmacs[p]} : codeHmacs' = [codeHmacs EXCEPT ![p] = h]
  /\ UNCHANGED <<link, segment, serving, seen>>

Answers == {"GetPageResponse", "CommitPageProofResponse",
            "GetPageProofContinuedResponse", "CommitPageProofContinuedResponse"}

\* What a root or the siblings of a proof may stand for instead: one page off.  With
\* more faults an answer may be off in as many pages.
OneOff(pages) == {[pages EXCEPT ![p] = leaf] : p \in Pages, leaf \in seen} \ {pages}

\* An answer announces a wrong proof length or number of elements, or a new root that
\* the commit does not lead to, or has the siblings of another tree.
GarbleAnswer ==
  /\ Fault
  /\ link.type \in Answers
  /\ \/ /\ link.type \in {"GetPageResponse", "CommitPageProofResponse"}
        /\ \E n \in (0 .. ProofLen + 1) \ {link.n} : link' = [link EXCEPT !.n = n]
     \/ link' = [link EXCEPT !.t = @ + 1]
     \/ /\ link.type = "CommitPageProofResponse"
        /\ \E root \in OneOff(link.newRoot) : link' = [link EXCEPT !.newRoot = root]
     \/ /\ link.type = "GetPageResponse" => link.kind = "Merkle"
        /\ \E path \in OneOff(link.path) : link' = [link EXCEPT !.path = path]
  /\ UNCHANGED <<segment, codeHmacs, serving, seen>>

ServerInit ==
  /\ segment = InitialRoot
  /\ codeHmacs \in {NoHmacs} \cup {[p \in Pages |-> GenuineHmac(p)] : s \in Sections \cap {Code}}
  /\ serving = NotServing
  /\ seen = {InitialRoot[s][p] : s \in Sections, p \in Pages}
  /\ faults = 0

ServerNext ==
  \/ ServePageWithProof
  \/ ServePageWithHmac
  \/ StorePage
  \/ ContinueProof
  \/ RefuseRequest
  \/ \E s \in Sections, p \in Pages : CorruptPage(s, p)
  \/ \E p \in Pages : CorruptHmac(p)
  \/ GarbleAnswer
=============================================================================
