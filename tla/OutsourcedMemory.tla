-------------------------- MODULE OutsourcedMemory --------------------------
(***************************************************************************)
(* The page caches of the VM (vm/src/handlers/lib/outsourced_mem.rs): one  *)
(* cache per section of the V-App's memory, filled from and written back   *)
(* to an untrusted client.  The three sections share the connection to the *)
(* client and the AES-CTR instance, hence its nonce.                       *)
(*                                                                         *)
(* An action is what the VM does between two messages: from the start of   *)
(* get_page, or from an answer of the client, to the next request or to    *)
(* the end of get_page.  The eviction strategy is any choice of a victim   *)
(* (the modules LruEviction and TwoQEviction model the two strategies).    *)
(***************************************************************************)
EXTENDS ClientCommands

CONSTANTS
  NSlots,          \* Slots of each cache (max_pages_in_cache).
  NoWrite,         \* The operation of an access that only reads the page.
  MaxNonce         \* Bound of the model: number of commits.

ASSUME OutsourcedMemoryAssumption ==
  /\ NSlots \in Nat \ {0}
  /\ NoWrite \notin Contents
  /\ MaxNonce \in Nat

VARIABLES
  cachedPages,   \* The slots of each section's cache.
  merkleRoot,    \* The root the VM holds for each section.
  lastAccessed,  \* last_accessed_page: NoPage, or the page and its slot.
  nonce,         \* Nonce of the next encryption, shared by all sections.
  pc,            \* Where the VM is: "running", "committing", "loading", "aborted".
  req,           \* The access being served: section, page, value to write.
  slot,          \* The slot being freed or filled for req.
  verifier,      \* State of the streaming Merkle proof verifier.
  ret            \* The last access that completed, and the page content it saw.

vmVars == <<cachedPages, merkleRoot, lastAccessed, nonce, pc, req, slot, verifier, ret>>

Slots   == 0 .. NSlots - 1
NoPage  == [page |-> 0, slot |-> NSlots]
Writes  == {NoWrite} \cup Contents

CachedPage == [idx : Pages, page : Contents, pageHash : Leaves,
               valid : BOOLEAN, modified : BOOLEAN]

Accesses == [sec : Sections, page : Pages, op : Writes]

\* The elements fed so far, the announced length of the proof, the leaf that
\* is proved (with its root), and whether all elements fed are its siblings.
Verifiers == [fed : Nat, n : Nat, ok : BOOLEAN, leaf : Leaves, root : Roots]

IsReadonly(s) == s = Code

\* The local variables of get_page, commit_page_at and load_page between calls.
NoAccess == [sec |-> CHOOSE s \in Sections : TRUE, page |-> 0, op |-> NoWrite]
NoProof  == [fed |-> 0, n |-> 0, ok |-> FALSE, leaf |-> EmptyLeaf, root |-> EmptyRoot]

-----------------------------------------------------------------------------
\* feed: `siblings' says whether the len elements are siblings of the leaf.
Feed(v, len, siblings) ==
  [fed |-> v.fed + len, n |-> v.n, ok |-> v.ok /\ (len > 0 => siblings),
   leaf |-> v.leaf, root |-> v.root]

\* Elements beyond the root invalidate the proof, missing ones leave it unverified.
Verified(v) == v.fed = ProofLen /\ v.ok

\* begin_inclusion_proof: a proof without elements is only for a tree of one leaf.
BeginProof(n, leaf, root, isRoot) ==
  [fed |-> 0, n |-> n, ok |-> (ProofLen = 0 => isRoot), leaf |-> leaf, root |-> root]

IsPathOf(path, p, leaf, root) == [path EXCEPT ![p] = leaf] = root

-----------------------------------------------------------------------------
Cached(s, p) == {i \in Slots : cachedPages[s][i].valid /\ cachedPages[s][i].idx = p}
Free(s)      == {i \in Slots : ~ cachedPages[s][i].valid}

Lowest(S) == CHOOSE i \in S : \A j \in S : i <= j

\* Setting last_accessed_page.
NoteFirstAccess(s, p, i) ==
  IF lastAccessed[s] = NoPage THEN [lastAccessed EXCEPT ![s] = [page |-> p, slot |-> i]]
                              ELSE lastAccessed

NoteAccess(s, p, i) == [lastAccessed EXCEPT ![s] = [page |-> p, slot |-> i]]

InvalidateNothing(s, i) == cachedPages

Invalidate(s, i) == [cachedPages EXCEPT ![s][i].valid = FALSE]

\* Each encryption moves the nonce forward.
NonceUnmoved == nonce

NextNonce == nonce + 1

\* get_cached_page_ref, and what the caller does with the page it refers to:
\* read it, or write it through DerefMut.  `cached' is the section's cache.
Return(a, i, cached) ==
  /\ lastAccessed' = NoteAccess(a.sec, a.page, i)
  /\ cachedPages' =
       [cachedPages EXCEPT ![a.sec] =
          IF a.op = NoWrite
            THEN cached
            ELSE [cached EXCEPT ![i] = [@ EXCEPT !.page = a.op, !.modified = TRUE]]]
  /\ ret' = [access |-> a, page |-> cachedPages'[a.sec][i].page]
  /\ pc' = "running"
  /\ req' = NoAccess
  /\ slot' = 0
  /\ verifier' = NoProof
  /\ link' = NoMessage

\* get_page on the page accessed last: the eviction strategy is not told.
GetPageAgain(a) ==
  /\ pc = "running"
  /\ lastAccessed[a.sec] # NoPage
  /\ lastAccessed[a.sec].page = a.page
  /\ Return(a, lastAccessed[a.sec].slot, cachedPages[a.sec])
  /\ UNCHANGED <<merkleRoot, nonce>>

NotLastAccessed(a) ==
  pc = "running" /\ (lastAccessed[a.sec] = NoPage \/ lastAccessed[a.sec].page # a.page)

\* get_page on another cached page.
GetPageHit(a) ==
  /\ NotLastAccessed(a)
  /\ Cached(a.sec, a.page) # {}
  /\ Return(a, Lowest(Cached(a.sec, a.page)), cachedPages[a.sec])
  /\ UNCHANGED <<merkleRoot, nonce>>

\* The call to load_page, up to the request.
RequestPage(a, i) ==
  /\ pc' = "loading"
  /\ req' = a
  /\ slot' = i
  /\ verifier' = NoProof
  /\ link' = GetPageMessage(a.sec, a.page)

\* get_page when the page is not cached and a slot is free.
GetPageMiss(a) ==
  /\ NotLastAccessed(a)
  /\ Cached(a.sec, a.page) = {}
  /\ Free(a.sec) # {}
  /\ RequestPage(a, Lowest(Free(a.sec)))
  /\ UNCHANGED <<cachedPages, merkleRoot, lastAccessed, nonce, ret>>

MustCommit(s, i) == ~ IsReadonly(s) /\ cachedPages[s][i].modified

\* get_page when no slot is free and the victim needs no commit.
GetPageEvictClean(a, victim) ==
  /\ NotLastAccessed(a)
  /\ Cached(a.sec, a.page) = {}
  /\ Free(a.sec) = {}
  /\ ~ MustCommit(a.sec, victim)
  /\ cachedPages' = Invalidate(a.sec, victim)
  /\ RequestPage(a, victim)
  /\ UNCHANGED <<merkleRoot, lastAccessed, nonce, ret>>

\* get_page when the victim is committed first: commit_page_at up to the request.
\* Encryption takes the nonce and moves to the next one.
GetPageEvictModified(a, victim) ==
  LET page    == cachedPages[a.sec][victim]
      newLeaf == EncryptedLeaf(nonce, page.page)
  IN
  /\ NotLastAccessed(a)
  /\ Cached(a.sec, a.page) = {}
  /\ Free(a.sec) = {}
  /\ MustCommit(a.sec, victim)
  /\ nonce < MaxNonce
  /\ nonce' = NextNonce
  /\ pc' = "committing"
  /\ req' = a
  /\ slot' = victim
  /\ verifier' = [NoProof EXCEPT !.leaf = newLeaf]
  /\ link' = CommitPageMessage(a.sec, page.idx, newLeaf)
  /\ UNCHANGED <<cachedPages, merkleRoot, lastAccessed, ret>>

-----------------------------------------------------------------------------
\* Any MemoryError ends the V-App: handler_start_vapp returns VMRuntimeError.
Abort ==
  /\ pc' = "aborted"
  /\ link' = NoMessage
  /\ UNCHANGED <<cachedPages, merkleRoot, lastAccessed, nonce, req, slot, verifier, ret>>

\* Are the elements of a message the siblings of the victim's old leaf under the
\* current root, and of its new leaf under the new root?
UpdateSiblingsOfOld(v, path) ==
  LET page == cachedPages[req.sec][slot] IN
  IsPathOf(path, page.idx, page.pageHash, merkleRoot[req.sec])

UpdateSiblings(v, path) ==
  LET page == cachedPages[req.sec][slot] IN
  /\ IsPathOf(path, page.idx, page.pageHash, merkleRoot[req.sec])
  /\ IsPathOf(path, page.idx, v.leaf, v.root)

\* commit_page_at after some elements were fed to verifier v: ask for more, or
\* conclude, invalidate the slot and go on with load_page.
CommitStep(v) ==
  \/ /\ v.fed < v.n
     /\ verifier' = v
     /\ link' = CommitPageProofContinuedMessage
     /\ UNCHANGED <<cachedPages, merkleRoot, lastAccessed, nonce, pc, req, slot, ret>>
  \/ /\ v.fed >= v.n
     /\ Verified(v)
     /\ merkleRoot' = [merkleRoot EXCEPT ![req.sec] = v.root]
     /\ cachedPages' = Invalidate(req.sec, slot)
     /\ RequestPage(req, slot)
     /\ UNCHANGED <<lastAccessed, nonce, ret>>
  \/ /\ v.fed >= v.n
     /\ ~ Verified(v)
     /\ Abort

OnCommitPageProof ==
  /\ pc = "committing"
  /\ link.type = "CommitPageProofResponse"
  /\ IF link.n = 0 \/ link.t # link.len
       THEN Abort
       ELSE LET page == cachedPages[req.sec][slot]
                v    == BeginProof(link.n, verifier.leaf, link.newRoot,
                           /\ merkleRoot[req.sec][page.idx] = page.pageHash
                           /\ link.newRoot[page.idx] = verifier.leaf)
            IN  CommitStep(Feed(v, link.len, UpdateSiblings(v, link.path)))

OnCommitPageProofContinued ==
  /\ pc = "committing"
  /\ link.type = "CommitPageProofContinuedResponse"
  /\ IF link.t # link.len
       THEN Abort
       ELSE CommitStep(Feed(verifier, link.len, UpdateSiblings(verifier, link.path)))

-----------------------------------------------------------------------------
\* get_page after load_page returned: fill the slot and return the page.
FillSlot(leaf) ==
  LET new == [idx |-> req.page, page |-> leaf.data, pageHash |-> leaf,
              valid |-> TRUE, modified |-> FALSE]
  IN  Return(req, slot, [cachedPages[req.sec] EXCEPT ![slot] = new])

\* load_page after some elements were fed to verifier v.
LoadStep(v) ==
  \/ /\ v.fed < v.n
     /\ verifier' = v
     /\ link' = GetPageProofContinuedMessage
     /\ UNCHANGED <<cachedPages, merkleRoot, lastAccessed, nonce, pc, req, slot, ret>>
  \/ /\ v.fed >= v.n
     /\ Verified(v)
     /\ FillSlot(v.leaf)
     /\ UNCHANGED <<merkleRoot, nonce>>
  \/ /\ v.fed >= v.n
     /\ ~ Verified(v)
     /\ Abort

OnMerklePage ==
  /\ pc = "loading"
  /\ link.type = "GetPageResponse"
  /\ link.kind = "Merkle"
  /\ IF link.t # link.len
       THEN Abort
       ELSE LET root == merkleRoot[req.sec]
                v    == BeginProof(link.n, link.leaf, root, root[req.page] = link.leaf)
            IN  LoadStep(Feed(v, link.len, IsPathOf(link.path, req.page, link.leaf, root)))

OnMerklePageContinued ==
  /\ pc = "loading"
  /\ link.type = "GetPageProofContinuedResponse"
  /\ IF link.t # link.len
       THEN Abort
       ELSE LoadStep(Feed(verifier, link.len,
              IsPathOf(link.path, req.page, verifier.leaf, merkleRoot[req.sec])))

\* The HMAC that preload_vapp issues for a page of this V-App's code.
ExpectedHmac(p, leaf) == [vapp |-> ThisVApp, idx |-> p, hash |-> leaf]

HmacAccepted ==
  /\ ~ link.leaf.enc
  /\ link.n = 1 /\ link.t = 1 /\ link.len = 1
  /\ req.sec = Code
  /\ link.hmac = ExpectedHmac(req.page, link.leaf)

OnHmacPage ==
  /\ pc = "loading"
  /\ link.type = "GetPageResponse"
  /\ link.kind = "Hmac"
  /\ \/ /\ HmacAccepted
        /\ FillSlot(link.leaf)
        /\ UNCHANGED <<merkleRoot, nonce>>
     \/ ~ HmacAccepted /\ Abort

-----------------------------------------------------------------------------
VMInit ==
  /\ cachedPages = [s \in Sections |-> [i \in Slots |->
                      [idx |-> 0, page |-> EmptyLeaf.data, pageHash |-> EmptyLeaf,
                       valid |-> FALSE, modified |-> FALSE]]]
  /\ merkleRoot = InitialRoot
  /\ lastAccessed = [s \in Sections |-> NoPage]
  /\ nonce = 0
  /\ pc = "running"
  /\ req = NoAccess
  /\ slot = 0
  /\ verifier = NoProof
  /\ ret = [access |-> NoAccess, page |-> InitialContent[NoAccess.sec][0]]
  /\ link = NoMessage

\* Stores of the CPU reach the data and stack sections only; the ECALLs write to
\* the segment of the pointer they are given, which may be the code segment.
GetPage(a) ==
  \/ GetPageAgain(a)
  \/ GetPageHit(a)
  \/ GetPageMiss(a)
  \/ \E victim \in Slots : GetPageEvictClean(a, victim) \/ GetPageEvictModified(a, victim)

VMNext ==
  \/ \E a \in Accesses : GetPage(a)
  \/ OnCommitPageProof
  \/ OnCommitPageProofContinued
  \/ OnMerklePage
  \/ OnMerklePageContinued
  \/ OnHmacPage
=============================================================================
