---------------------------- MODULE PagedSystem -----------------------------
(***************************************************************************)
(* The outsourced memory of a V-App: the VM's page caches and the client   *)
(* that stores the pages, taking turns over the link.                      *)
(***************************************************************************)
EXTENDS OutsourcedMemory, PageServer

vars == <<link, vmVars, serverVars>>

Init == VMInit /\ ServerInit

Next ==
  \/ VMNext /\ UNCHANGED serverVars
  \/ ServerNext /\ UNCHANGED vmVars

Spec == Init /\ [][Next]_vars

-----------------------------------------------------------------------------
\* The content of a page as the code running on the VM sees it: of its cached
\* copy if there is one, else of the leaf that the VM's root commits to.
PageContent(s, p) ==
  IF Cached(s, p) # {}
    THEN cachedPages[s][CHOOSE i \in Cached(s, p) : TRUE].page
    ELSE merkleRoot[s][p].data

PageContents == [s \in Sections |-> [p \in Pages |-> PageContent(s, p)]]

Memory == INSTANCE PagedMemory WITH ReadOnly <- {Code}, mem <- PageContents

\* Whatever pages, HMACs, proofs and new roots the client answers with, the accesses
\* that complete behave as a paged memory (get_page, commit_page_at and load_page
\* together): a read sees the last write, and evicting, committing or loading a page
\* changes nothing.
LastWriteIsRead == Memory!Spec

-----------------------------------------------------------------------------
TypeOK ==
  /\ link \in {NoMessage} \cup Requests \cup Responses
  /\ cachedPages \in [Sections -> [Slots -> CachedPage]]
  /\ merkleRoot \in [Sections -> Roots]
  /\ lastAccessed \in [Sections -> [page : Pages, slot : Slots] \cup {NoPage}]
  /\ nonce \in 0 .. MaxNonce
  /\ pc \in {"running", "committing", "loading", "aborted"}
  /\ req \in Accesses
  /\ slot \in Slots
  /\ verifier \in Verifiers
  /\ ret \in [access : Accesses, page : Contents]
  /\ segment \in [Sections -> Roots]
  /\ codeHmacs \in {NoHmacs} \cup [Pages -> Hmacs]
  /\ codeHmacs # NoHmacs => Code \in Sections
  /\ serving \in [kind : {"none", "failed", "GetPageProofContinued", "CommitPageProofContinued"},
                  left : 0 .. ProofLen, path : Roots]
  /\ seen \in SUBSET Leaves
  /\ faults \in 0 .. MaxFaults

\* No two commits of any section ever use the same nonce (AesCtr::encrypt, whose
\* counter the sections share), so a nonce identifies one ciphertext for ever.
NonceUsedOnce ==
  \A a, b \in seen : a.enc /\ b.enc /\ a.nonce = b.nonce => a = b

\* The page hash kept in a slot is the leaf that the current root holds for the
\* page, although commits of other pages keep changing that root: otherwise the
\* update proof of the next commit (commit_page_at) could not verify.
CachedHashIsCurrent ==
  \A s \in Sections, i \in Slots :
    cachedPages[s][i].valid => cachedPages[s][i].pageHash = merkleRoot[s][cachedPages[s][i].idx]

\* The shortcut of get_page through last_accessed_page reaches a slot that holds
\* the page, also after evictions of that slot and accesses to other sections.
ShortcutIsValid ==
  pc = "running" =>
    \A s \in Sections :
      lastAccessed[s] # NoPage => lastAccessed[s].slot \in Cached(s, lastAccessed[s].page)

\* With a client whose storage and answers are intact, no check of commit_page_at or
\* load_page ever fails, the client refuses no request, and it keeps exactly the
\* leaves the VM's root commits to, whenever the VM executes.
HonestClientSucceeds ==
  faults = 0 =>
    /\ pc # "aborted"
    /\ serving # Failed
    /\ pc = "running" => segment = merkleRoot

-----------------------------------------------------------------------------
(* The inductive invariant behind these properties, whatever the client does. *)

\* A page is in at most one slot.
PagesCachedOnce ==
  \A s \in Sections : \A i, j \in Slots :
    /\ cachedPages[s][i].valid
    /\ cachedPages[s][j].valid
    /\ cachedPages[s][i].idx = cachedPages[s][j].idx
    => i = j

\* What an eviction without commit drops is what the root commits to.
UnmodifiedIsCommitted ==
  \A s \in Sections, i \in Slots :
    cachedPages[s][i].valid /\ ~ cachedPages[s][i].modified
      => cachedPages[s][i].page = cachedPages[s][i].pageHash.data

\* ShortcutIsValid, extended to the steps of get_page: only the section whose
\* slot is being filled may have a stale last_accessed_page.
ShortcutsKept ==
  pc # "aborted" =>
    \A s \in Sections :
      \/ pc = "loading" /\ s = req.sec
      \/ lastAccessed[s] = NoPage
      \/ lastAccessed[s].slot \in Cached(s, lastAccessed[s].page)

CodeRootFixed == Code \in Sections => merkleRoot[Code] = InitialRoot[Code]

ProofStarted == verifier.ok /\ (verifier.fed > 0 \/ ProofLen = 0)

\* While a page is loaded, its slot is free, the page is nowhere in the cache, and
\* a proof that is right so far is a proof of the leaf.
LoadingOK ==
  pc = "loading" =>
    /\ ~ cachedPages[req.sec][slot].valid
    /\ Cached(req.sec, req.page) = {}
    /\ ProofStarted => verifier.leaf = merkleRoot[req.sec][req.page]

\* While a page is committed it stays cached, and a proof that is right so far
\* shows that the new root changes nothing but this page.
CommittingOK ==
  pc = "committing" =>
    /\ req.sec # Code
    /\ cachedPages[req.sec][slot].valid
    /\ Cached(req.sec, req.page) = {}
    /\ verifier.leaf.data = cachedPages[req.sec][slot].page
    /\ ProofStarted =>
         verifier.root = [merkleRoot[req.sec] EXCEPT ![cachedPages[req.sec][slot].idx] = verifier.leaf]

\* The HMACs of this V-App that the client has are those of its code pages.
HmacsGenuine(h) ==
  h.vapp = ThisVApp => h.hash = InitialRoot[Code][h.idx]

StoredHmacsGenuine ==
  /\ codeHmacs # NoHmacs => \A p \in Pages : HmacsGenuine(codeHmacs[p])
  /\ link.type = "GetPageResponse" /\ link.kind = "Hmac" => HmacsGenuine(link.hmac)

\* All nonces used so far are behind the counter, also the one on its way.
NoncesBehindCounter ==
  /\ \A leaf \in seen : leaf.enc => leaf.nonce < nonce
  /\ link.type = "CommitPage" =>
       /\ link.leaf.enc
       /\ link.leaf.nonce < nonce
       /\ \A leaf \in seen : leaf.enc => leaf.nonce # link.leaf.nonce

PagingInv ==
  /\ CachedHashIsCurrent
  /\ PagesCachedOnce
  /\ UnmodifiedIsCommitted
  /\ ShortcutsKept
  /\ CodeRootFixed
  /\ LoadingOK
  /\ CommittingOK
  /\ StoredHmacsGenuine

-----------------------------------------------------------------------------
(* The invariant behind HonestClientSucceeds: where the two ends of the link    *)
(* are while the client has made no fault.                                     *)

\* The proof that the client is sending has t elements on the link, the verifier
\* has taken the ones before them, and the client still has the rest.
ProofGoesOn(kind, t) ==
  /\ verifier.ok
  /\ verifier.n = ProofLen
  /\ verifier.fed + t <= ProofLen
  /\ serving = Serving(kind, ProofLen - (verifier.fed + t), merkleRoot[req.sec])

\* An answer to load_page proves the page of the current root, with siblings or
\* with an HMAC that the device issued for this page.
HonestLoading ==
  /\ segment = merkleRoot
  /\ \/ /\ link = GetPageMessage(req.sec, req.page)
        /\ serving = NotServing
     \/ /\ link = GetPageMerkleResponse(merkleRoot[req.sec][req.page], ProofLen,
                                        FirstFragmentSize, merkleRoot[req.sec])
        /\ serving = Serving("GetPageProofContinued", ProofLen - FirstFragmentSize,
                             merkleRoot[req.sec])
     \/ /\ link = GetPageHmacResponse(InitialRoot[Code][req.page], GenuineHmac(req.page))
        /\ req.sec = Code
        /\ serving = NotServing
     \/ /\ verifier.leaf = merkleRoot[req.sec][req.page]
        /\ \/ /\ link = GetPageProofContinuedMessage
              /\ verifier.fed < ProofLen
              /\ ProofGoesOn("GetPageProofContinued", 0)
           \/ \E t \in 1 .. ProofLen :
                /\ link = GetPageProofContinuedResponse(t, merkleRoot[req.sec])
                /\ ProofGoesOn("GetPageProofContinued", t)

\* The page that commit_page_at sent is not stored yet, or it is and makes the only
\* difference between the client's leaves and the VM's root. A tree of one page is
\* never committed to: its only page is never evicted.
HonestCommitting ==
  LET idx == cachedPages[req.sec][slot].idx IN
  /\ ProofLen > 0
  /\ verifier.leaf.enc
  /\ \/ /\ segment = merkleRoot
        /\ link = CommitPageMessage(req.sec, idx, verifier.leaf)
        /\ serving = NotServing
     \/ /\ segment = [merkleRoot EXCEPT ![req.sec] = [@ EXCEPT ![idx] = verifier.leaf]]
        /\ \/ /\ link = CommitPageProofResponse(ProofLen, FirstFragmentSize,
                                                segment[req.sec], merkleRoot[req.sec])
              /\ serving = Serving("CommitPageProofContinued", ProofLen - FirstFragmentSize,
                                   merkleRoot[req.sec])
           \/ /\ verifier.root = segment[req.sec]
              /\ \/ /\ link = CommitPageProofContinuedMessage
                    /\ verifier.fed < ProofLen
                    /\ ProofGoesOn("CommitPageProofContinued", 0)
                 \/ \E t \in 1 .. ProofLen :
                      /\ link = CommitPageProofContinuedResponse(t, merkleRoot[req.sec])
                      /\ ProofGoesOn("CommitPageProofContinued", t)

HonestInv ==
  faults = 0 =>
    /\ codeHmacs \in {NoHmacs, [p \in Pages |-> GenuineHmac(p)]}
    /\ \/ /\ pc = "running"
          /\ segment = merkleRoot
          /\ link = NoMessage
          /\ serving = NotServing
       \/ pc = "loading" /\ HonestLoading
       \/ pc = "committing" /\ HonestCommitting

-----------------------------------------------------------------------------
(* An access completes: the two ends take turns, and every turn shortens what is *)
(* left of it.                                                                 *)

\* The verifier has taken nothing of a proof that is still to come.
NothingFed ==
  link.type \in {"GetPage", "CommitPage", "GetPageResponse", "CommitPageProofResponse"}
    => verifier.fed = 0

\* Is it the client's turn?
Turn ==
  IF link.type \in {"GetPage", "CommitPage", "GetPageProofContinued", "CommitPageProofContinued"}
    THEN 1 ELSE 0

\* A bound on the turns left: two for each element of a proof not yet taken, and
\* after a commit those of the load.
Remaining ==
  CASE pc = "committing" -> 2 * ProofLen + 3 + 2 * (ProofLen - verifier.fed) + Turn
    [] pc = "loading"    -> 1 + 2 * (ProofLen - verifier.fed) + Turn
    [] OTHER             -> 0

\* The requests and answers of a miss, a commit and the continuations of two proofs
\* (the loops of commit_page_at and load_page) come to an end: with a client that has
\* made no fault, every step during an access decreases the bound on those left.
AccessAdvances ==
  [][faults' = 0 /\ pc # "running" => Remaining' \in Nat /\ Remaining' < Remaining]_vars
=============================================================================
