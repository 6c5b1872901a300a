------------------------- MODULE PagedSystemProofs --------------------------
(***************************************************************************)
(* Proofs about the outsourced memory, for any number of sections, pages,  *)
(* slots, commits and faults of the client: its types, the inductive       *)
(* invariant PagingInv, what follows from it whatever the client answers,  *)
(* that the outsourced memory implements PagedMemory, and that it never    *)
(* fails with a client that makes no fault.                                *)
(***************************************************************************)
EXTENDS PagedSystem, WellFoundedInduction, TLAPS

\* The slot that the loops of get_page find first is one of those they look for.
LEMMA LowestInSet ==
  ASSUME NEW S, S \subseteq Slots, S # {}
  PROVE  Lowest(S) \in S
<1>1. S \subseteq Nat
  BY OutsourcedMemoryAssumption DEF Slots
<1>2. PICK x \in S : \A y \in S : ~ (<<y, x>> \in OpToRel(<, Nat))
  BY <1>1, WFMin, NatLessThanWellFounded
<1>3. ASSUME NEW y \in S PROVE x <= y
  <2>1. x \in Nat /\ y \in Nat
    BY <1>1
  <2>2. OpToRel(<, Nat) = {ss \in Nat \X Nat : ss[1] < ss[2]}
    BY Zenon DEF OpToRel
  <2>3. ~ (y < x)
    BY <2>1, <2>2, <1>2
  <2> QED
    BY <2>1, <2>3
<1> QED
  BY <1>3 DEF Lowest

LEMMA ContentsOfLeaves ==
  /\ EmptyLeaf \in Leaves
  /\ EmptyRoot \in Roots
  /\ InitialRoot \in [Sections -> Roots]
  /\ 0 \in Pages
  /\ 0 \in Slots
<1>1. 0 \in Pages /\ 0 \in Slots
  BY ClientCommandsAssumption, OutsourcedMemoryAssumption DEF Pages, Slots
<1>2. InitialContent \in [Sections -> [Pages -> Contents]]
  BY ClientCommandsAssumption DEF Pages
<1>3. \E d \in Contents : TRUE
  BY <1>1, <1>2, ClientCommandsAssumption
<1>4. EmptyLeaf \in Leaves
  BY <1>3 DEF EmptyLeaf, ClearLeaf, Leaves
<1>5. EmptyRoot \in Roots
  BY <1>4 DEF EmptyRoot, Roots
<1>6. InitialRoot \in [Sections -> Roots]
  BY <1>2 DEF InitialRoot, Roots, ClearLeaf, Leaves
<1> QED
  BY <1>1, <1>4, <1>5, <1>6

LEMMA InitialValues ==
  /\ NoAccess \in Accesses
  /\ NoProof \in Verifiers
<1>1. NoAccess.sec \in Sections
  BY ClientCommandsAssumption DEF NoAccess
<1>2. NoAccess \in Accesses
  BY <1>1, ContentsOfLeaves DEF NoAccess, Accesses, Writes
<1>3. NoProof \in Verifiers
  BY ContentsOfLeaves DEF NoProof, Verifiers
<1> QED
  BY <1>2, <1>3

-----------------------------------------------------------------------------
(* Type correctness. *)

\* The fields of the message on the link, by its type.
LEMMA LinkFields ==
  ASSUME link \in {NoMessage} \cup Requests \cup Responses
  PROVE  /\ link.type \in {"GetPage", "CommitPage"} =>
              link.sec \in Sections /\ link.page \in Pages
         /\ link.type = "CommitPage" => link.leaf \in Leaves
         /\ link.type = "GetPageResponse" =>
              /\ link.leaf \in Leaves /\ link.n \in Nat /\ link.t \in Nat /\ link.len \in Nat
              /\ link.kind = "Merkle" => link.path \in Roots
              /\ link.kind = "Hmac" => link.hmac \in Hmacs
         /\ link.type = "CommitPageProofResponse" =>
              /\ link.n \in Nat /\ link.t \in Nat /\ link.len \in Nat
              /\ link.newRoot \in Roots /\ link.path \in Roots
         /\ link.type \in {"GetPageProofContinuedResponse", "CommitPageProofContinuedResponse"} =>
              link.t \in Nat /\ link.len \in Nat /\ link.path \in Roots
BY DEF NoMessage, Requests, Responses, GetPageProofContinuedMessage,
       CommitPageProofContinuedMessage

LEMMA MessageTypes ==
  ASSUME NEW s \in Sections, NEW p \in Pages, NEW leaf \in Leaves,
         NEW n \in Nat, NEW t \in Nat, NEW root \in Roots, NEW path \in Roots,
         NEW hmac \in Hmacs
  PROVE  /\ GetPageMessage(s, p) \in Requests
         /\ CommitPageMessage(s, p, leaf) \in Requests
         /\ GetPageProofContinuedMessage \in Requests
         /\ CommitPageProofContinuedMessage \in Requests
         /\ GetPageMerkleResponse(leaf, n, t, path) \in Responses
         /\ GetPageHmacResponse(leaf, hmac) \in Responses
         /\ CommitPageProofResponse(n, t, root, path) \in Responses
         /\ GetPageProofContinuedResponse(t, path) \in Responses
         /\ CommitPageProofContinuedResponse(t, path) \in Responses
BY DEF GetPageMessage, CommitPageMessage, GetPageProofContinuedMessage,
       CommitPageProofContinuedMessage, GetPageMerkleResponse, GetPageHmacResponse,
       CommitPageProofResponse, GetPageProofContinuedResponse,
       CommitPageProofContinuedResponse, Requests, Responses

LEMMA TypeOKInit == Init => TypeOK
<1> SUFFICES ASSUME Init PROVE TypeOK
  OBVIOUS
<1> USE DEF Init, VMInit, ServerInit
<1>1. link \in {NoMessage} \cup Requests \cup Responses
  OBVIOUS
<1>2. cachedPages \in [Sections -> [Slots -> CachedPage]]
  BY ContentsOfLeaves DEF CachedPage, Leaves
<1>3. ret \in [access : Accesses, page : Contents]
  <2>1. InitialContent \in [Sections -> [Pages -> Contents]]
    BY ClientCommandsAssumption DEF Pages
  <2>2. NoAccess.sec \in Sections
    BY InitialValues DEF Accesses
  <2> QED
    BY <2>1, <2>2, InitialValues, ContentsOfLeaves
<1>4. codeHmacs \in {NoHmacs} \cup [Pages -> Hmacs] /\ (codeHmacs # NoHmacs => Code \in Sections)
  <2>1. Code \in Sections => \A p \in Pages : GenuineHmac(p) \in Hmacs
    BY ClientCommandsAssumption DEF GenuineHmac, Hmacs, ClearLeaf, Leaves, Pages
  <2> QED
    BY <2>1
<1>5. serving \in [kind : {"none", "failed", "GetPageProofContinued", "CommitPageProofContinued"},
                   left : 0 .. ProofLen, path : Roots]
  BY ContentsOfLeaves, ClientCommandsAssumption DEF NotServing
<1>6. seen \in SUBSET Leaves
  BY ContentsOfLeaves DEF Roots
<1>7. nonce \in 0 .. MaxNonce /\ faults \in 0 .. MaxFaults
  BY OutsourcedMemoryAssumption, PageServerAssumption
<1> QED
  BY <1>1, <1>2, <1>3, <1>4, <1>5, <1>6, <1>7, ContentsOfLeaves, InitialValues
  DEF TypeOK

\* Completing an access keeps the types of what it changes.
LEMMA ReturnTypes ==
  ASSUME TypeOK, NEW a \in Accesses, NEW i \in Slots, NEW cached \in [Slots -> CachedPage],
         Return(a, i, cached), UNCHANGED <<merkleRoot, nonce, serverVars>>
  PROVE  TypeOK'
<1>1. a.sec \in Sections /\ a.page \in Pages
  BY DEF Accesses
<1>2. a.op # NoWrite => a.op \in Contents
  BY DEF Accesses, Writes
<1>3. lastAccessed' \in [Sections -> [page : Pages, slot : Slots] \cup {NoPage}]
  BY <1>1 DEF Return, NoteAccess, TypeOK
<1>4. CASE a.op # NoWrite
  <2>1. [cached EXCEPT ![i] = [@ EXCEPT !.page = a.op, !.modified = TRUE]]
          \in [Slots -> CachedPage]
    BY <1>2, <1>4 DEF CachedPage
  <2>2. cachedPages' \in [Sections -> [Slots -> CachedPage]]
    BY <1>4, <2>1, <1>1 DEF Return, TypeOK
  <2>3. ret' \in [access : Accesses, page : Contents]
    BY <2>2, <1>1 DEF Return, CachedPage
  <2> QED
    BY <1>3, <2>2, <2>3, InitialValues, ContentsOfLeaves
    DEF Return, TypeOK, serverVars, NoMessage
<1>5. CASE a.op = NoWrite
  <2>2. cachedPages' \in [Sections -> [Slots -> CachedPage]]
    BY <1>5, <1>1 DEF Return, TypeOK
  <2>3. ret' \in [access : Accesses, page : Contents]
    BY <2>2, <1>1 DEF Return, CachedPage
  <2> QED
    BY <1>3, <2>2, <2>3, InitialValues, ContentsOfLeaves
    DEF Return, TypeOK, serverVars, NoMessage
<1> QED
  BY <1>4, <1>5

\* The verifiers that the handlers compute are verifiers.
LEMMA VerifierTypes ==
  ASSUME NEW n \in Nat, NEW leaf \in Leaves, NEW root \in Roots, NEW b \in BOOLEAN,
         NEW v \in Verifiers, NEW len \in Nat, NEW siblings \in BOOLEAN
  PROVE  /\ BeginProof(n, leaf, root, b) \in Verifiers
         /\ Feed(v, len, siblings) \in Verifiers
<1>1. BeginProof(n, leaf, root, b) \in Verifiers
  BY DEF BeginProof, Verifiers
<1>2. Feed(v, len, siblings) \in Verifiers
  BY DEF Feed, Verifiers
<1> QED
  BY <1>1, <1>2

LEMMA InvalidateTypes ==
  ASSUME TypeOK, NEW s \in Sections, NEW i \in Slots
  PROVE  Invalidate(s, i) \in [Sections -> [Slots -> CachedPage]]
<1>1. cachedPages[s][i] \in CachedPage
  BY DEF TypeOK
<1>2. [cachedPages[s][i] EXCEPT !.valid = FALSE] \in CachedPage
  BY <1>1 DEF CachedPage
<1> QED
  BY <1>2 DEF TypeOK, Invalidate

LEMMA AbortTypes ==
  ASSUME TypeOK, Abort, UNCHANGED serverVars
  PROVE  TypeOK'
BY DEF TypeOK, Abort, serverVars

LEMMA CommitStepTypes ==
  ASSUME TypeOK, NEW v \in Verifiers, CommitStep(v), pc = "committing", UNCHANGED serverVars
  PROVE  TypeOK'
<1>1. CASE v.fed < v.n /\ verifier' = v /\ link' = CommitPageProofContinuedMessage
           /\ UNCHANGED <<cachedPages, merkleRoot, lastAccessed, nonce, pc, req, slot, ret>>
  BY <1>1 DEF TypeOK, serverVars, Requests
<1>2. CASE /\ merkleRoot' = [merkleRoot EXCEPT ![req.sec] = v.root]
           /\ cachedPages' = Invalidate(req.sec, slot)
           /\ RequestPage(req, slot)
           /\ UNCHANGED <<lastAccessed, nonce, ret>>
  <2>1. req \in Accesses /\ req.sec \in Sections /\ req.page \in Pages /\ slot \in Slots
    BY DEF TypeOK, Accesses
  <2>2. merkleRoot' \in [Sections -> Roots]
    BY <1>2, <2>1 DEF TypeOK, Verifiers
  <2>3. cachedPages' \in [Sections -> [Slots -> CachedPage]]
    BY <1>2, <2>1, InvalidateTypes
  <2>4. GetPageMessage(req.sec, req.page) \in Requests
    BY <2>1 DEF GetPageMessage, Requests
  <2> QED
    BY <1>2, <2>1, <2>2, <2>3, <2>4, InitialValues DEF RequestPage, TypeOK, serverVars
<1>3. CASE Abort
  BY <1>3, AbortTypes
<1> QED
  BY <1>1, <1>2, <1>3 DEF CommitStep

\* What FillSlot puts into the cache.
LEMMA FillSlotTypes ==
  ASSUME TypeOK, NEW leaf \in Leaves, FillSlot(leaf), UNCHANGED <<merkleRoot, nonce, serverVars>>
  PROVE  TypeOK'
<1> DEFINE new == [idx |-> req.page, page |-> leaf.data, pageHash |-> leaf,
                   valid |-> TRUE, modified |-> FALSE]
<1>1. req \in Accesses /\ req.sec \in Sections /\ req.page \in Pages /\ slot \in Slots
  BY DEF TypeOK, Accesses
<1>2. new \in CachedPage
  BY <1>1 DEF CachedPage, Leaves
<1>3. [cachedPages[req.sec] EXCEPT ![slot] = new] \in [Slots -> CachedPage]
  BY <1>1, <1>2 DEF TypeOK
<1> QED
  BY <1>1, <1>3, ReturnTypes DEF FillSlot

LEMMA LoadStepTypes ==
  ASSUME TypeOK, NEW v \in Verifiers, LoadStep(v), pc = "loading", UNCHANGED serverVars
  PROVE  TypeOK'
<1>1. CASE verifier' = v /\ link' = GetPageProofContinuedMessage
           /\ UNCHANGED <<cachedPages, merkleRoot, lastAccessed, nonce, pc, req, slot, ret>>
  BY <1>1 DEF TypeOK, serverVars, Requests
<1>2. CASE FillSlot(v.leaf) /\ UNCHANGED <<merkleRoot, nonce>>
  BY <1>2, FillSlotTypes DEF Verifiers
<1>3. CASE Abort
  BY <1>3, AbortTypes
<1> QED
  BY <1>1, <1>2, <1>3 DEF LoadStep

\* The accesses of the V-App: hits, misses and evictions.
LEMMA GetPageTypes ==
  ASSUME TypeOK, NEW a \in Accesses, GetPage(a), UNCHANGED serverVars
  PROVE  TypeOK'
<1>1. a.sec \in Sections /\ a.page \in Pages
  BY DEF Accesses
<1>2. cachedPages[a.sec] \in [Slots -> CachedPage]
  BY <1>1 DEF TypeOK
<1>3. ASSUME NEW i \in Slots, RequestPage(a, i)
      PROVE  /\ link' \in {NoMessage} \cup Requests \cup Responses
             /\ pc' \in {"running", "committing", "loading", "aborted"}
             /\ req' \in Accesses
             /\ slot' \in Slots
             /\ verifier' \in Verifiers
  <2>1. GetPageMessage(a.sec, a.page) \in Requests
    BY <1>1 DEF GetPageMessage, Requests
  <2> QED
    BY <1>3, <2>1, InitialValues DEF RequestPage
<1>4. CASE GetPageAgain(a)
  <2>1. lastAccessed[a.sec].slot \in Slots
    BY <1>1, <1>4 DEF GetPageAgain, TypeOK
  <2> QED
    BY <1>2, <1>4, <2>1, ReturnTypes DEF GetPageAgain
<1>5. CASE GetPageHit(a)
  <2>1. Lowest(Cached(a.sec, a.page)) \in Slots
    BY <1>5, LowestInSet DEF GetPageHit, Cached
  <2> QED
    BY <1>2, <1>5, <2>1, ReturnTypes DEF GetPageHit
<1>6. CASE GetPageMiss(a)
  <2>1. Lowest(Free(a.sec)) \in Slots
    BY <1>6, LowestInSet DEF GetPageMiss, Free
  <2>2. RequestPage(a, Lowest(Free(a.sec)))
    BY <1>6 DEF GetPageMiss
  <2> HIDE DEF RequestPage
  <2>3. UNCHANGED <<cachedPages, merkleRoot, lastAccessed, nonce, ret>>
    BY <1>6 DEF GetPageMiss
  <2> QED
    BY <1>3, <2>1, <2>2, <2>3 DEF TypeOK, serverVars
<1>7. ASSUME NEW victim \in Slots, GetPageEvictClean(a, victim) PROVE TypeOK'
  <2>1. cachedPages' \in [Sections -> [Slots -> CachedPage]]
    BY <1>1, <1>7, InvalidateTypes DEF GetPageEvictClean
  <2>2. RequestPage(a, victim) /\ UNCHANGED <<merkleRoot, lastAccessed, nonce, ret>>
    BY <1>7 DEF GetPageEvictClean
  <2> QED
    BY <1>3, <2>1, <2>2 DEF TypeOK, serverVars
<1>8. ASSUME NEW victim \in Slots, GetPageEvictModified(a, victim) PROVE TypeOK'
  <2> DEFINE page == cachedPages[a.sec][victim]
             newLeaf == EncryptedLeaf(nonce, page.page)
  <2>1. page.idx \in Pages /\ page.page \in Contents /\ nonce \in Nat
    BY <1>1, OutsourcedMemoryAssumption DEF TypeOK, CachedPage
  <2>2. newLeaf \in Leaves
    BY <2>1 DEF EncryptedLeaf, Leaves
  <2>3. nonce' \in 0 .. MaxNonce
    BY <1>8, <2>1, OutsourcedMemoryAssumption DEF GetPageEvictModified, NextNonce
  <2>4. verifier' \in Verifiers
    <3>1. [NoProof EXCEPT !.leaf = newLeaf] \in Verifiers
      BY <2>2, InitialValues DEF Verifiers
    <3> QED
      BY <1>8, <3>1 DEF GetPageEvictModified
  <2>5. link' \in Requests
    BY <1>1, <1>8, <2>1, <2>2 DEF GetPageEvictModified, CommitPageMessage, Requests
  <2> QED
    BY <1>8, <2>3, <2>4, <2>5 DEF GetPageEvictModified, TypeOK, serverVars
<1> QED
  BY <1>4, <1>5, <1>6, <1>7, <1>8 DEF GetPage

\* The client's answers.
LEMMA AnswerTypes ==
  ASSUME TypeOK, UNCHANGED serverVars,
         \/ OnCommitPageProof \/ OnCommitPageProofContinued
         \/ OnMerklePage \/ OnMerklePageContinued \/ OnHmacPage
  PROVE  TypeOK'
<1>1. /\ req.sec \in Sections /\ req.page \in Pages /\ slot \in Slots
      /\ merkleRoot[req.sec] \in Roots /\ verifier \in Verifiers /\ verifier.leaf \in Leaves
  BY DEF TypeOK, Accesses, Verifiers
<1>2. link \in {NoMessage} \cup Requests \cup Responses
  BY DEF TypeOK
<1>3. CASE OnCommitPageProof
  <2>1. CASE link.n = 0 \/ link.t # link.len
    BY <1>3, <2>1, AbortTypes DEF OnCommitPageProof
  <2>2. CASE ~ (link.n = 0 \/ link.t # link.len)
    <3> DEFINE page == cachedPages[req.sec][slot]
               b == /\ merkleRoot[req.sec][page.idx] = page.pageHash
                    /\ link.newRoot[page.idx] = verifier.leaf
               v == BeginProof(link.n, verifier.leaf, link.newRoot, b)
               w == Feed(v, link.len, UpdateSiblings(v, link.path))
    <3>1. link.n \in Nat /\ link.len \in Nat /\ link.newRoot \in Roots
      BY <1>2, <1>3, LinkFields DEF OnCommitPageProof
    <3>2. v \in Verifiers
      BY <1>1, <3>1 DEF BeginProof, Verifiers
    <3>3. w \in Verifiers
      <4> HIDE DEF v
      <4>1. UpdateSiblings(v, link.path) \in BOOLEAN
        BY DEF UpdateSiblings
      <4> QED
        BY <3>1, <3>2, <4>1 DEF Feed, Verifiers
    <3>4. CommitStep(w) /\ pc = "committing"
      BY <1>3, <2>2 DEF OnCommitPageProof
    <3> QED
      BY <3>3, <3>4, CommitStepTypes
  <2> QED
    BY <2>1, <2>2
<1>4. CASE OnCommitPageProofContinued
  <2> DEFINE w == Feed(verifier, link.len, UpdateSiblings(verifier, link.path))
  <2>1. CASE link.t # link.len
    BY <1>4, <2>1, AbortTypes DEF OnCommitPageProofContinued
  <2>2. CASE link.t = link.len
    <3>1. link.len \in Nat
      BY <1>2, <1>4, LinkFields DEF OnCommitPageProofContinued
    <3>2. UpdateSiblings(verifier, link.path) \in BOOLEAN
      BY DEF UpdateSiblings
    <3>3. w \in Verifiers
      BY <1>1, <3>1, <3>2 DEF Feed, Verifiers
    <3>4. CommitStep(w) /\ pc = "committing"
      BY <1>4, <2>2 DEF OnCommitPageProofContinued
    <3> QED
      BY <3>3, <3>4, CommitStepTypes
  <2> QED
    BY <2>1, <2>2
<1>5. CASE OnMerklePage
  <2> DEFINE root == merkleRoot[req.sec]
             v == BeginProof(link.n, link.leaf, root, root[req.page] = link.leaf)
             w == Feed(v, link.len, IsPathOf(link.path, req.page, link.leaf, root))
  <2>1. CASE link.t # link.len
    BY <1>5, <2>1, AbortTypes DEF OnMerklePage
  <2>2. CASE link.t = link.len
    <3>1. link.n \in Nat /\ link.len \in Nat /\ link.leaf \in Leaves
      BY <1>2, <1>5, LinkFields DEF OnMerklePage
    <3>2. v \in Verifiers
      BY <1>1, <3>1 DEF BeginProof, Verifiers
    <3>3. w \in Verifiers
      <4> HIDE DEF v
      <4>1. IsPathOf(link.path, req.page, link.leaf, root) \in BOOLEAN
        BY DEF IsPathOf
      <4> QED
        BY <3>1, <3>2, <4>1 DEF Feed, Verifiers
    <3>4. LoadStep(w) /\ pc = "loading"
      BY <1>5, <2>2 DEF OnMerklePage
    <3> QED
      BY <3>3, <3>4, LoadStepTypes
  <2> QED
    BY <2>1, <2>2
<1>6. CASE OnMerklePageContinued
  <2> DEFINE sib == IsPathOf(link.path, req.page, verifier.leaf, merkleRoot[req.sec])
             w == Feed(verifier, link.len, sib)
  <2>1. CASE link.t # link.len
    BY <1>6, <2>1, AbortTypes DEF OnMerklePageContinued
  <2>2. CASE link.t = link.len
    <3>1. link.len \in Nat
      BY <1>2, <1>6, LinkFields DEF OnMerklePageContinued
    <3>2. sib \in BOOLEAN
      BY DEF IsPathOf
    <3>3. w \in Verifiers
      BY <1>1, <3>1, <3>2 DEF Feed, Verifiers
    <3>4. LoadStep(w) /\ pc = "loading"
      BY <1>6, <2>2 DEF OnMerklePageContinued
    <3> QED
      BY <3>3, <3>4, LoadStepTypes
  <2> QED
    BY <2>1, <2>2
<1>7. CASE OnHmacPage
  <2>1. link.leaf \in Leaves
    BY <1>2, <1>7, LinkFields DEF OnHmacPage
  <2> QED
    BY <1>7, <2>1, FillSlotTypes, AbortTypes DEF OnHmacPage
<1> QED
  BY <1>3, <1>4, <1>5, <1>6, <1>7

LEMMA HmacTypes ==
  ASSUME Code \in Sections
  PROVE  IssuedHmacs \subseteq Hmacs
<1>1. ASSUME NEW p \in Pages PROVE GenuineHmac(p) \in Hmacs
  BY ClientCommandsAssumption DEF GenuineHmac, Hmacs, ClearLeaf, Leaves, Pages
<1>2. ASSUME NEW p \in Pages, NEW d \in Contents
      PROVE  [vapp |-> OtherVApp, idx |-> p, hash |-> ClearLeaf(d)] \in Hmacs
  BY DEF Hmacs, ClearLeaf, Leaves
<1> QED
  BY <1>1, <1>2 DEF IssuedHmacs

LEMMA FragmentTypes ==
  /\ FirstFragmentSize \in 0 .. ProofLen
  /\ \A left \in 0 .. ProofLen : NextFragmentSize(left) \in 0 .. left
BY ClientCommandsAssumption DEF FirstFragmentSize, NextFragmentSize, LeastOf

LEMMA ServingTypes ==
  ASSUME NEW kind \in {"GetPageProofContinued", "CommitPageProofContinued"},
         NEW left \in 0 .. ProofLen, NEW path \in Roots
  PROVE  Serving(kind, left, path)
           \in [kind : {"none", "failed", "GetPageProofContinued", "CommitPageProofContinued"},
                left : 0 .. ProofLen, path : Roots]
BY ContentsOfLeaves, ClientCommandsAssumption DEF Serving, NotServing

\* The client's handlers and its faults.
LEMMA ServerTypes ==
  ASSUME TypeOK, ServerNext, UNCHANGED vmVars
  PROVE  TypeOK'
<1> DEFINE ServingType ==
      [kind : {"none", "failed", "GetPageProofContinued", "CommitPageProofContinued"},
       left : 0 .. ProofLen, path : Roots]
<1>1. link \in {NoMessage} \cup Requests \cup Responses
  BY DEF TypeOK
<1>2. FirstFragmentSize \in Nat /\ ProofLen - FirstFragmentSize \in 0 .. ProofLen
      /\ ProofLen \in Nat
  BY FragmentTypes, ClientCommandsAssumption
<1>3. CASE ServePageWithProof
  <2>1. link.sec \in Sections /\ link.page \in Pages
    BY <1>1, <1>3, LinkFields DEF ServePageWithProof
  <2>2. segment[link.sec] \in Roots /\ segment[link.sec][link.page] \in Leaves
    BY <2>1 DEF TypeOK, Roots
  <2>3. link' \in Responses
    BY <1>2, <1>3, <2>2 DEF ServePageWithProof, GetPageMerkleResponse, Responses
  <2>4. serving' \in ServingType
    BY <1>2, <1>3, <2>2, ServingTypes DEF ServePageWithProof
  <2> QED
    BY <1>3, <2>3, <2>4 DEF ServePageWithProof, TypeOK, vmVars
<1>4. CASE ServePageWithHmac
  <2>1. link.sec = Code /\ link.sec \in Sections /\ link.page \in Pages
    BY <1>1, <1>4, LinkFields DEF ServePageWithHmac, UsesHmac
  <2>2. segment[Code][link.page] \in Leaves
    BY <2>1 DEF TypeOK, Roots
  <2>3. codeHmacs[link.page] \in Hmacs
    BY <1>4, <2>1 DEF ServePageWithHmac, UsesHmac, TypeOK
  <2>4. link' \in Responses
    BY <1>4, <2>2, <2>3 DEF ServePageWithHmac, GetPageHmacResponse, Responses
  <2> QED
    BY <1>4, <2>4 DEF ServePageWithHmac, TypeOK, vmVars, serverVars
<1>5. CASE StorePage
  <2>1. link.sec \in Sections /\ link.page \in Pages /\ link.leaf \in Leaves
    BY <1>1, <1>5, LinkFields DEF StorePage
  <2> DEFINE old == segment[link.sec]
             new == [old EXCEPT ![link.page] = link.leaf]
  <2>2. old \in Roots
    BY <2>1 DEF TypeOK
  <2>3. new \in Roots
    BY <2>1, <2>2 DEF Roots
  <2>4. segment' \in [Sections -> Roots]
    BY <1>5, <2>3 DEF StorePage, TypeOK
  <2>5. link' \in Responses
    BY <1>2, <1>5, <2>2, <2>3 DEF StorePage, CommitPageProofResponse, Responses
  <2>6. serving' \in ServingType
    BY <1>2, <1>5, <2>2, ServingTypes DEF StorePage
  <2>7. seen' \in SUBSET Leaves
    BY <1>5, <2>1 DEF StorePage, TypeOK
  <2> QED
    BY <1>5, <2>4, <2>5, <2>6, <2>7 DEF StorePage, TypeOK, vmVars
<1>6. CASE ContinueProof
  <2>1. /\ serving.left \in 0 .. ProofLen /\ serving.path \in Roots
        /\ link.type \in {"GetPageProofContinued", "CommitPageProofContinued"}
        /\ serving.kind = link.type
    BY <1>6 DEF ContinueProof, Servable, TypeOK
  <2> DEFINE t == NextFragmentSize(serving.left)
  <2>2. t \in Nat /\ serving.left - t \in 0 .. ProofLen
    BY <2>1, FragmentTypes, <1>2
  <2>3. link' \in Responses
    <3> HIDE DEF t
    <3>1. link' \in {GetPageProofContinuedResponse(t, serving.path),
                     CommitPageProofContinuedResponse(t, serving.path)}
      BY <1>6 DEF ContinueProof, t
    <3> QED
      BY <2>1, <2>2, <3>1 DEF GetPageProofContinuedResponse,
           CommitPageProofContinuedResponse, Responses
  <2>4. serving' \in ServingType
    BY <1>6, <2>1, <2>2, ServingTypes DEF ContinueProof
  <2> QED
    BY <1>6, <2>3, <2>4 DEF ContinueProof, TypeOK, vmVars
<1>7. CASE RefuseRequest
  <2>1. serving' \in ServingType
    BY <1>2, <1>7, ContentsOfLeaves DEF RefuseRequest, Failed
  <2> QED
    BY <1>7, <2>1 DEF RefuseRequest, TypeOK, vmVars
<1>8. ASSUME Fault PROVE faults' \in 0 .. MaxFaults
  BY <1>8, PageServerAssumption DEF Fault, TypeOK
<1>9. ASSUME NEW s \in Sections, NEW p \in Pages, CorruptPage(s, p) PROVE TypeOK'
  <2>1. PICK leaf \in seen : segment' = [segment EXCEPT ![s][p] = leaf]
    BY <1>9 DEF CorruptPage
  <2>2. segment' \in [Sections -> Roots]
    BY <2>1 DEF TypeOK, Roots
  <2> QED
    BY <1>8, <1>9, <2>2 DEF CorruptPage, TypeOK, vmVars
<1>10. ASSUME NEW p \in Pages, CorruptHmac(p) PROVE TypeOK'
  <2>1. PICK h \in IssuedHmacs : codeHmacs' = [codeHmacs EXCEPT ![p] = h]
    BY <1>10 DEF CorruptHmac
  <2>2. codeHmacs \in [Pages -> Hmacs]
    BY <1>10 DEF CorruptHmac, TypeOK
  <2>3. h \in Hmacs
    BY <1>10, HmacTypes DEF CorruptHmac, TypeOK
  <2> QED
    BY <1>8, <1>10, <2>1, <2>2, <2>3 DEF CorruptHmac, TypeOK, vmVars
<1>11. CASE GarbleAnswer
  <2> DEFINE Merkle == [type : {"GetPageResponse"}, kind : {"Merkle"}, leaf : Leaves,
                        n : Nat, t : Nat, len : Nat, path : Roots]
             Hmac   == [type : {"GetPageResponse"}, kind : {"Hmac"}, leaf : Leaves,
                        n : Nat, t : Nat, len : Nat, hmac : Hmacs]
             Commit == [type : {"CommitPageProofResponse"},
                        n : Nat, t : Nat, len : Nat, newRoot : Roots, path : Roots]
             Cont   == [type : {"GetPageProofContinuedResponse",
                                "CommitPageProofContinuedResponse"},
                        t : Nat, len : Nat, path : Roots]
  <2>1. link \in Merkle \cup Hmac \cup Commit \cup Cont
    BY <1>1, <1>11 DEF GarbleAnswer, Answers, Responses, Requests, NoMessage,
         GetPageProofContinuedMessage, CommitPageProofContinuedMessage
  <2>2. link.t + 1 \in Nat
    BY <2>1
  <2>3. ASSUME NEW n \in Nat, link.type \in {"GetPageResponse", "CommitPageProofResponse"}
        PROVE  [link EXCEPT !.n = n] \in Merkle \cup Hmac \cup Commit
    <3>1. CASE link \in Merkle
      BY <3>1
    <3>2. CASE link \in Hmac
      BY <3>2
    <3>3. CASE link \in Commit
      BY <3>3
    <3> QED
      BY <2>1, <2>3, <3>1, <3>2, <3>3
  <2>4. [link EXCEPT !.t = @ + 1] \in Merkle \cup Hmac \cup Commit \cup Cont
    <3>1. CASE link \in Merkle
      BY <2>2, <3>1
    <3>2. CASE link \in Hmac
      BY <2>2, <3>2
    <3>3. CASE link \in Commit
      BY <2>2, <3>3
    <3>4. CASE link \in Cont
      BY <2>2, <3>4
    <3> QED
      BY <2>1, <3>1, <3>2, <3>3, <3>4
  <2>5. ASSUME NEW r \in Roots PROVE OneOff(r) \subseteq Roots
    BY <1>8 DEF OneOff, Roots, TypeOK
  <2>6. ASSUME link.type = "CommitPageProofResponse", NEW root \in OneOff(link.newRoot)
        PROVE  [link EXCEPT !.newRoot = root] \in Commit
    <3>1. link \in Commit
      BY <2>1, <2>6
    <3>2. root \in Roots
      BY <2>5, <2>6, <3>1
    <3> QED
      BY <3>1, <3>2
  <2>7. ASSUME link.type = "GetPageResponse" => link.kind = "Merkle",
               NEW path \in OneOff(link.path)
        PROVE  [link EXCEPT !.path = path] \in Merkle \cup Commit \cup Cont
    <3>1. link \in Merkle \cup Commit \cup Cont
      BY <2>1, <2>7
    <3>2. path \in Roots
      BY <2>5, <2>7, <3>1
    <3>3. CASE link \in Merkle
      BY <3>2, <3>3
    <3>4. CASE link \in Commit
      BY <3>2, <3>4
    <3>5. CASE link \in Cont
      BY <3>2, <3>5
    <3> QED
      BY <3>1, <3>3, <3>4, <3>5
  <2>8. link' \in Merkle \cup Hmac \cup Commit \cup Cont
    <3> HIDE DEF Merkle, Hmac, Commit, Cont
    <3> QED
      BY <1>2, <1>11, <2>3, <2>4, <2>6, <2>7 DEF GarbleAnswer
  <2>9. link' \in Responses
    BY <2>8 DEF Responses
  <2> QED
    BY <1>8, <1>11, <2>9 DEF GarbleAnswer, TypeOK, vmVars
<1> QED
  BY <1>3, <1>4, <1>5, <1>6, <1>7, <1>9, <1>10, <1>11 DEF ServerNext

\* Every step keeps the types.
LEMMA TypeOKStep == TypeOK /\ [Next]_vars => TypeOK'
<1> SUFFICES ASSUME TypeOK, [Next]_vars PROVE TypeOK'
  OBVIOUS
<1>1. CASE VMNext /\ UNCHANGED serverVars
  BY <1>1, GetPageTypes, AnswerTypes DEF VMNext
<1>2. CASE ServerNext /\ UNCHANGED vmVars
  BY <1>2, ServerTypes
<1>3. CASE UNCHANGED vars
  BY <1>3 DEF vars, vmVars, serverVars, TypeOK
<1> QED
  BY <1>1, <1>2, <1>3 DEF Next

\* The caches, roots, proofs and messages of the VM and its client keep their
\* types, and the nonce, the faults and the proof fragments their bounds.
THEOREM TypeCorrect == Spec => []TypeOK
BY TypeOKInit, TypeOKStep, PTL DEF Spec

-----------------------------------------------------------------------------
(* The inductive invariant PagingInv: the slots hold the pages that the VM's   *)
(* roots commit to.                                                            *)
\* The parts of PagingInv about one section, for a cache c and a root r.
CacheOK(c, r) ==
  /\ \A i \in Slots : c[i].valid => c[i].pageHash = r[c[i].idx]
  /\ \A i, j \in Slots : c[i].valid /\ c[j].valid /\ c[i].idx = c[j].idx => i = j
  /\ \A i \in Slots : c[i].valid /\ ~ c[i].modified => c[i].page = c[i].pageHash.data

LEMMA CachesOK ==
  (CachedHashIsCurrent /\ PagesCachedOnce /\ UnmodifiedIsCommitted)
    <=> \A s \in Sections : CacheOK(cachedPages[s], merkleRoot[s])
BY DEF CachedHashIsCurrent, PagesCachedOnce, UnmodifiedIsCommitted, CacheOK

\* Writing to a cached page.
LEMMA WriteKeepsCache ==
  ASSUME NEW c \in [Slots -> CachedPage], NEW r \in Roots, CacheOK(c, r),
         NEW i \in Slots, NEW d \in Contents
  PROVE  CacheOK([c EXCEPT ![i] = [@ EXCEPT !.page = d, !.modified = TRUE]], r)
<1> DEFINE e == [c EXCEPT ![i] = [@ EXCEPT !.page = d, !.modified = TRUE]]
<1>1. /\ e[i].valid = c[i].valid /\ e[i].idx = c[i].idx /\ e[i].pageHash = c[i].pageHash
      /\ e[i].modified = TRUE
  BY DEF CachedPage
<1>2. \A j \in Slots : j # i => e[j] = c[j]
  OBVIOUS
<1> HIDE DEF e
<1>3. CacheOK(e, r)
  BY <1>1, <1>2 DEF CacheOK
<1> QED
  BY <1>3 DEF e

\* Filling a free slot with the leaf that the root holds for an absent page.
LEMMA FillKeepsCache ==
  ASSUME NEW c \in [Slots -> CachedPage], NEW r \in Roots, CacheOK(c, r),
         NEW i \in Slots, NEW p \in Pages, NEW leaf, leaf = r[p],
         \A j \in Slots : ~ (c[j].valid /\ c[j].idx = p)
  PROVE  CacheOK([c EXCEPT ![i] = [idx |-> p, page |-> leaf.data, pageHash |-> leaf,
                                   valid |-> TRUE, modified |-> FALSE]], r)
<1> DEFINE e == [c EXCEPT ![i] = [idx |-> p, page |-> leaf.data, pageHash |-> leaf,
                                  valid |-> TRUE, modified |-> FALSE]]
<1>1. e[i].valid /\ e[i].idx = p /\ e[i].pageHash = leaf /\ e[i].page = leaf.data
  OBVIOUS
<1>2. \A j \in Slots : j # i => e[j] = c[j]
  OBVIOUS
<1> HIDE DEF e
<1>3. CacheOK(e, r)
  BY <1>1, <1>2 DEF CacheOK
<1> QED
  BY <1>3 DEF e

\* Invalidating a slot, when its page was committed or is dropped.
LEMMA InvalidateKeepsCache ==
  ASSUME NEW c \in [Slots -> CachedPage], NEW r \in Roots, CacheOK(c, r),
         NEW i \in Slots, c[i].valid, NEW leaf \in Leaves
  PROVE  /\ CacheOK([c EXCEPT ![i].valid = FALSE], r)
         /\ CacheOK([c EXCEPT ![i].valid = FALSE], [r EXCEPT ![c[i].idx] = leaf])
<1> DEFINE e == [c EXCEPT ![i].valid = FALSE]
           q == [r EXCEPT ![c[i].idx] = leaf]
<1>1. ~ e[i].valid
  BY DEF CachedPage
<1>2. \A j \in Slots : j # i => e[j] = c[j]
  OBVIOUS
<1>3. \A p \in Pages : p # c[i].idx => q[p] = r[p]
  BY DEF Roots
<1>4. \A j \in Slots : c[j].idx \in Pages
  BY DEF CachedPage
<1> HIDE DEF e, q
<1>5. CacheOK(e, r)
  BY <1>1, <1>2 DEF CacheOK
<1>6. CacheOK(e, q)
  BY <1>1, <1>2, <1>3, <1>4 DEF CacheOK
<1> QED
  BY <1>5, <1>6 DEF e, q

LEMMA CachesOKNext ==
  (CachedHashIsCurrent' /\ PagesCachedOnce' /\ UnmodifiedIsCommitted')
    <=> \A s \in Sections : CacheOK(cachedPages'[s], merkleRoot'[s])
BY DEF CachedHashIsCurrent, PagesCachedOnce, UnmodifiedIsCommitted, CacheOK

-----------------------------------------------------------------------------
\* The shortcut of a section is unset or reaches the page.
ShortcutOK(s) ==
  lastAccessed[s] = NoPage \/ lastAccessed[s].slot \in Cached(s, lastAccessed[s].page)

LEMMA PagingInvInit == Init => PagingInv
<1> SUFFICES ASSUME Init PROVE PagingInv
  OBVIOUS
<1> USE DEF Init, VMInit, ServerInit
<1>1. \A s \in Sections : CacheOK(cachedPages[s], merkleRoot[s])
  BY DEF CacheOK
<1>2. StoredHmacsGenuine
  <2>1. Code \in Sections => \A p \in Pages : HmacsGenuine(GenuineHmac(p))
    BY DEF HmacsGenuine, GenuineHmac, InitialRoot
  <2> QED
    BY <2>1 DEF StoredHmacsGenuine, NoMessage
<1>3. ShortcutsKept /\ CodeRootFixed /\ LoadingOK /\ CommittingOK
  BY DEF ShortcutsKept, CodeRootFixed, LoadingOK, CommittingOK
<1> QED
  BY <1>1, <1>2, <1>3, CachesOK DEF PagingInv

\* Completing an access through a slot that holds its page.
LEMMA ReturnKeepsInv ==
  ASSUME TypeOK, PagingInv, UNCHANGED <<merkleRoot, serverVars>>,
         NEW a \in Accesses, NEW i \in Slots, NEW cached \in [Slots -> CachedPage],
         CacheOK(cached, merkleRoot[a.sec]), cached[i].valid, cached[i].idx = a.page,
         \A s \in Sections \ {a.sec} : ShortcutOK(s),
         Return(a, i, cached)
  PROVE  PagingInv'
<1>1. a.sec \in Sections /\ a.page \in Pages /\ merkleRoot[a.sec] \in Roots
  BY DEF TypeOK, Accesses
<1> DEFINE written == [cached EXCEPT ![i] = [@ EXCEPT !.page = a.op, !.modified = TRUE]]
           c == IF a.op = NoWrite THEN cached ELSE written
<1>2. CacheOK(c, merkleRoot[a.sec])
  <2>1. a.op # NoWrite => a.op \in Contents
    BY DEF Accesses, Writes
  <2> QED
    BY <1>1, <2>1, WriteKeepsCache
<1>3. c[i].valid /\ c[i].idx = a.page
  BY DEF CachedPage
<1>4. cachedPages' = [cachedPages EXCEPT ![a.sec] = c]
  BY DEF Return
<1> HIDE DEF c
<1>5. cachedPages'[a.sec] = c /\ \A s \in Sections \ {a.sec} : cachedPages'[s] = cachedPages[s]
  BY <1>1, <1>4 DEF TypeOK
<1>6. \A s \in Sections : CacheOK(cachedPages'[s], merkleRoot'[s])
  BY <1>2, <1>5, CachesOK DEF PagingInv
<1>7. /\ lastAccessed'[a.sec] = [page |-> a.page, slot |-> i]
      /\ \A s \in Sections \ {a.sec} : lastAccessed'[s] = lastAccessed[s]
  BY <1>1 DEF Return, NoteAccess, TypeOK
<1>8. \A s \in Sections : ShortcutOK(s)'
  BY <1>3, <1>5, <1>7 DEF ShortcutOK, Cached
<1>9. ShortcutsKept'
  BY <1>8 DEF ShortcutsKept, ShortcutOK
<1>10. CodeRootFixed' /\ LoadingOK' /\ CommittingOK' /\ StoredHmacsGenuine'
  BY DEF Return, PagingInv, CodeRootFixed, LoadingOK, CommittingOK, StoredHmacsGenuine,
         NoMessage, serverVars
<1> QED
  BY <1>6, <1>9, <1>10, CachesOKNext DEF PagingInv

LEMMA AbortKeepsInv ==
  ASSUME PagingInv, Abort, UNCHANGED serverVars
  PROVE  PagingInv'
<1>1. CachedHashIsCurrent' /\ PagesCachedOnce' /\ UnmodifiedIsCommitted' /\ CodeRootFixed'
  BY DEF PagingInv, Abort, CachedHashIsCurrent, PagesCachedOnce, UnmodifiedIsCommitted,
         CodeRootFixed
<1>2. ShortcutsKept' /\ LoadingOK' /\ CommittingOK' /\ StoredHmacsGenuine'
  BY DEF PagingInv, Abort, ShortcutsKept, LoadingOK, CommittingOK, StoredHmacsGenuine,
         NoMessage, serverVars
<1> QED
  BY <1>1, <1>2 DEF PagingInv

\* Starting to load a page into a free slot.
LEMMA RequestKeepsInv ==
  ASSUME PagingInv, UNCHANGED <<lastAccessed, serverVars>>,
         NEW a \in Accesses, NEW i \in Slots, RequestPage(a, i),
         \A s \in Sections : CacheOK(cachedPages'[s], merkleRoot'[s]),
         CodeRootFixed',
         ~ cachedPages'[a.sec][i].valid,
         Cached(a.sec, a.page)' = {},
         \A s \in Sections \ {a.sec} : ShortcutOK(s) /\ cachedPages'[s] = cachedPages[s]
  PROVE  PagingInv'
<1>1. \A s \in Sections \ {a.sec} : ShortcutOK(s)'
  BY DEF ShortcutOK, Cached
<1>2. ShortcutsKept'
  BY <1>1 DEF ShortcutsKept, ShortcutOK, RequestPage
<1>3. LoadingOK' /\ CommittingOK'
  BY DEF LoadingOK, CommittingOK, RequestPage, ProofStarted, NoProof
<1>4. StoredHmacsGenuine'
  BY DEF StoredHmacsGenuine, PagingInv, RequestPage, GetPageMessage, serverVars
<1> QED
  BY <1>2, <1>3, <1>4, CachesOKNext DEF PagingInv

\* The accesses of the V-App.
LEMMA GetPageKeepsInv ==
  ASSUME TypeOK, PagingInv, NEW a \in Accesses, GetPage(a), UNCHANGED serverVars
  PROVE  PagingInv'
<1>1. a.sec \in Sections /\ a.page \in Pages
  BY DEF Accesses
<1>2. /\ cachedPages[a.sec] \in [Slots -> CachedPage]
      /\ merkleRoot[a.sec] \in Roots
  BY <1>1 DEF TypeOK
<1>3. \A s \in Sections : CacheOK(cachedPages[s], merkleRoot[s])
  BY CachesOK DEF PagingInv
<1>4. pc = "running" => \A s \in Sections : ShortcutOK(s)
  BY DEF PagingInv, ShortcutsKept, ShortcutOK
<1>5. CASE GetPageAgain(a)
  <2>1. pc = "running" /\ lastAccessed[a.sec].slot \in Cached(a.sec, a.page)
    BY <1>1, <1>4, <1>5 DEF GetPageAgain, ShortcutOK
  <2>2. /\ lastAccessed[a.sec].slot \in Slots
        /\ cachedPages[a.sec][lastAccessed[a.sec].slot].valid
        /\ cachedPages[a.sec][lastAccessed[a.sec].slot].idx = a.page
    BY <2>1 DEF Cached
  <2>3. Return(a, lastAccessed[a.sec].slot, cachedPages[a.sec]) /\ UNCHANGED merkleRoot
    BY <1>5 DEF GetPageAgain
  <2> QED
    BY <1>1, <1>2, <1>3, <1>4, <2>1, <2>2, <2>3, ReturnKeepsInv
<1>6. CASE GetPageHit(a)
  <2> DEFINE i == Lowest(Cached(a.sec, a.page))
  <2>1. i \in Cached(a.sec, a.page) /\ pc = "running"
    BY <1>6, LowestInSet DEF GetPageHit, NotLastAccessed, Cached
  <2>2. Return(a, i, cachedPages[a.sec]) /\ UNCHANGED merkleRoot
    BY <1>6 DEF GetPageHit
  <2> HIDE DEF i
  <2>3. i \in Slots /\ cachedPages[a.sec][i].valid /\ cachedPages[a.sec][i].idx = a.page
    BY <2>1 DEF Cached
  <2> QED
    BY <1>1, <1>2, <1>3, <1>4, <2>1, <2>2, <2>3, ReturnKeepsInv
<1>7. CASE GetPageMiss(a)
  <2> DEFINE i == Lowest(Free(a.sec))
  <2>1. i \in Free(a.sec) /\ pc = "running"
    BY <1>7, LowestInSet DEF GetPageMiss, NotLastAccessed, Free
  <2>2. /\ RequestPage(a, i) /\ UNCHANGED <<cachedPages, merkleRoot, lastAccessed>>
        /\ Cached(a.sec, a.page) = {}
    BY <1>7 DEF GetPageMiss
  <2> HIDE DEF i
  <2>3. i \in Slots /\ ~ cachedPages'[a.sec][i].valid
    BY <2>1, <2>2 DEF Free
  <2>4. Cached(a.sec, a.page)' = {} /\ CodeRootFixed'
    BY <2>2 DEF Cached, CodeRootFixed, PagingInv
  <2> QED
    BY <1>3, <1>4, <2>1, <2>2, <2>3, <2>4, RequestKeepsInv
<1>8. ASSUME NEW victim \in Slots, GetPageEvictClean(a, victim) PROVE PagingInv'
  <2>1. /\ RequestPage(a, victim) /\ UNCHANGED <<merkleRoot, lastAccessed>>
        /\ Cached(a.sec, a.page) = {} /\ cachedPages[a.sec][victim].valid /\ pc = "running"
    BY <1>8 DEF GetPageEvictClean, NotLastAccessed, Free
  <2>2. cachedPages' = [cachedPages EXCEPT ![a.sec][victim].valid = FALSE]
    BY <1>8 DEF GetPageEvictClean, Invalidate
  <2>3. /\ cachedPages'[a.sec] = [cachedPages[a.sec] EXCEPT ![victim].valid = FALSE]
        /\ \A s \in Sections \ {a.sec} : cachedPages'[s] = cachedPages[s]
    BY <1>1, <2>2 DEF TypeOK
  <2>4. \A s \in Sections : CacheOK(cachedPages'[s], merkleRoot'[s])
    <3>1. EmptyLeaf \in Leaves
      BY ContentsOfLeaves
    <3>2. CacheOK([cachedPages[a.sec] EXCEPT ![victim].valid = FALSE], merkleRoot[a.sec])
      BY <1>1, <1>2, <1>3, <2>1, <3>1, InvalidateKeepsCache
    <3> QED
      BY <1>3, <2>1, <2>3, <3>2
  <2>5. ~ cachedPages'[a.sec][victim].valid
    BY <1>2, <2>3 DEF CachedPage
  <2>6. Cached(a.sec, a.page)' = {}
    BY <1>2, <2>1, <2>3, <2>5 DEF Cached
  <2>7. CodeRootFixed'
    BY <2>1 DEF CodeRootFixed, PagingInv
  <2> QED
    BY <1>4, <2>1, <2>3, <2>4, <2>5, <2>6, <2>7, RequestKeepsInv
<1>9. ASSUME NEW victim \in Slots, GetPageEvictModified(a, victim) PROVE PagingInv'
  <2>1. /\ UNCHANGED <<cachedPages, merkleRoot, lastAccessed>>
        /\ Cached(a.sec, a.page) = {} /\ cachedPages[a.sec][victim].valid /\ pc = "running"
        /\ a.sec # Code
    BY <1>9 DEF GetPageEvictModified, NotLastAccessed, Free, MustCommit, IsReadonly
  <2>2. CachedHashIsCurrent' /\ PagesCachedOnce' /\ UnmodifiedIsCommitted' /\ CodeRootFixed'
    BY <2>1 DEF PagingInv, CachedHashIsCurrent, PagesCachedOnce, UnmodifiedIsCommitted,
         CodeRootFixed
  <2>3. ShortcutsKept'
    BY <1>4, <2>1 DEF ShortcutsKept, ShortcutOK, Cached
  <2>4. LoadingOK' /\ StoredHmacsGenuine'
    BY <1>9 DEF GetPageEvictModified, LoadingOK, StoredHmacsGenuine, PagingInv,
         CommitPageMessage, serverVars
  <2>5. CommittingOK'
    <3>1. verifier' = [fed |-> 0, n |-> 0, ok |-> FALSE, root |-> EmptyRoot,
                       leaf |-> EncryptedLeaf(nonce, cachedPages[a.sec][victim].page)]
      BY <1>9 DEF GetPageEvictModified, NoProof
    <3>2. pc' = "committing" /\ req' = a /\ slot' = victim
      BY <1>9 DEF GetPageEvictModified
    <3>3. Cached(a.sec, a.page)' = {}
      BY <2>1 DEF Cached
    <3> QED
      BY <2>1, <3>1, <3>2, <3>3 DEF CommittingOK, ProofStarted, EncryptedLeaf
  <2> QED
    BY <2>2, <2>3, <2>4, <2>5 DEF PagingInv
<1> QED
  BY <1>5, <1>6, <1>7, <1>8, <1>9 DEF GetPage

-----------------------------------------------------------------------------
\* A verifier that is right so far, once it has started, proves a commit or a leaf.
ProvesCommit(v) ==
  v.ok /\ (v.fed > 0 \/ ProofLen = 0) =>
    v.root = [merkleRoot[req.sec] EXCEPT ![cachedPages[req.sec][slot].idx] = v.leaf]

ProvesLeaf(v) ==
  v.ok /\ (v.fed > 0 \/ ProofLen = 0) => v.leaf = merkleRoot[req.sec][req.page]

LEMMA VerifiedStarted ==
  ASSUME NEW v \in Verifiers, Verified(v)
  PROVE  v.ok /\ (v.fed > 0 \/ ProofLen = 0)
BY ClientCommandsAssumption DEF Verified, Verifiers

LEMMA CommitStepKeepsInv ==
  ASSUME TypeOK, PagingInv, UNCHANGED serverVars, pc = "committing",
         NEW v \in Verifiers, v.leaf = verifier.leaf, ProvesCommit(v), CommitStep(v)
  PROVE  PagingInv'
<1>1. /\ req \in Accesses /\ req.sec \in Sections /\ req.page \in Pages /\ slot \in Slots
      /\ cachedPages[req.sec] \in [Slots -> CachedPage] /\ merkleRoot[req.sec] \in Roots
  BY DEF TypeOK, Accesses
<1>2. /\ req.sec # Code
      /\ cachedPages[req.sec][slot].valid
      /\ Cached(req.sec, req.page) = {}
      /\ v.leaf.data = cachedPages[req.sec][slot].page
  BY DEF PagingInv, CommittingOK
<1>3. \A s \in Sections : CacheOK(cachedPages[s], merkleRoot[s]) /\ ShortcutOK(s)
  BY CachesOK DEF PagingInv, ShortcutsKept, ShortcutOK
<1>4. CASE /\ verifier' = v
           /\ link' = CommitPageProofContinuedMessage
           /\ UNCHANGED <<cachedPages, merkleRoot, lastAccessed, nonce, pc, req, slot, ret>>
  <2>1. CachedHashIsCurrent' /\ PagesCachedOnce' /\ UnmodifiedIsCommitted' /\ CodeRootFixed'
    BY <1>4 DEF PagingInv, CachedHashIsCurrent, PagesCachedOnce, UnmodifiedIsCommitted,
         CodeRootFixed
  <2>2. ShortcutsKept'
    BY <1>3, <1>4 DEF ShortcutsKept, ShortcutOK, Cached
  <2>3. LoadingOK' /\ StoredHmacsGenuine'
    BY <1>4 DEF LoadingOK, StoredHmacsGenuine, PagingInv, serverVars,
         CommitPageProofContinuedMessage
  <2>4. Cached(req.sec, req.page)' = {}
    BY <1>2, <1>4 DEF Cached
  <2>5. CommittingOK'
    BY <1>2, <1>4, <2>4 DEF CommittingOK, ProvesCommit, ProofStarted
  <2> QED
    BY <2>1, <2>2, <2>3, <2>5 DEF PagingInv
<1>5. CASE /\ Verified(v)
           /\ merkleRoot' = [merkleRoot EXCEPT ![req.sec] = v.root]
           /\ cachedPages' = Invalidate(req.sec, slot)
           /\ RequestPage(req, slot)
           /\ UNCHANGED <<lastAccessed, nonce, ret>>
  <2> DEFINE idx == cachedPages[req.sec][slot].idx
  <2>1. v.root = [merkleRoot[req.sec] EXCEPT ![idx] = v.leaf] /\ v.leaf \in Leaves
    BY <1>5, VerifiedStarted DEF ProvesCommit, Verifiers
  <2>2. /\ cachedPages'[req.sec] = [cachedPages[req.sec] EXCEPT ![slot].valid = FALSE]
        /\ merkleRoot'[req.sec] = [merkleRoot[req.sec] EXCEPT ![idx] = v.leaf]
        /\ \A s \in Sections \ {req.sec} : /\ cachedPages'[s] = cachedPages[s]
                                           /\ merkleRoot'[s] = merkleRoot[s]
    BY <1>1, <1>5, <2>1 DEF Invalidate, TypeOK
  <2>3. \A s \in Sections : CacheOK(cachedPages'[s], merkleRoot'[s])
    <3>1. CacheOK([cachedPages[req.sec] EXCEPT ![slot].valid = FALSE],
                  [merkleRoot[req.sec] EXCEPT ![idx] = v.leaf])
      BY <1>1, <1>2, <1>3, <2>1, InvalidateKeepsCache
    <3> QED
      BY <1>3, <2>2, <3>1
  <2>4. ~ cachedPages'[req.sec][slot].valid
    BY <1>1, <2>2 DEF CachedPage
  <2>5. CodeRootFixed'
    BY <1>2, <2>2 DEF CodeRootFixed, PagingInv
  <2>6. PICK a \in Accesses, i \in Slots : a = req /\ i = slot
    BY <1>1
  <2>7. RequestPage(a, i) /\ UNCHANGED lastAccessed
    BY <1>5, <2>6
  <2>8. Cached(a.sec, a.page)' = {}
    <3>1. \A j \in Slots : cachedPages'[a.sec][j].valid => cachedPages'[a.sec][j] = cachedPages[a.sec][j]
      BY <1>1, <2>2, <2>4, <2>6
    <3>2. Cached(a.sec, a.page) = {}
      BY <1>2, <2>6
    <3> QED
      BY <3>1, <3>2 DEF Cached
  <2>9. ~ cachedPages'[a.sec][i].valid
        /\ \A s \in Sections \ {a.sec} : ShortcutOK(s) /\ cachedPages'[s] = cachedPages[s]
    BY <1>3, <2>2, <2>4, <2>6
  <2> QED
    BY <2>3, <2>5, <2>7, <2>8, <2>9, RequestKeepsInv
<1>6. CASE Abort
  BY <1>6, AbortKeepsInv
<1> QED
  BY <1>4, <1>5, <1>6 DEF CommitStep

\* The slot is filled with the leaf that the root holds for the page.
LEMMA FillSlotKeepsInv ==
  ASSUME TypeOK, PagingInv, UNCHANGED <<merkleRoot, serverVars>>, pc = "loading",
         NEW leaf, leaf = merkleRoot[req.sec][req.page], FillSlot(leaf)
  PROVE  PagingInv'
<1>1. PICK a \in Accesses, i \in Slots : a = req /\ i = slot
  BY DEF TypeOK
<1> DEFINE c == cachedPages[a.sec]
           e == [c EXCEPT ![i] = [idx |-> a.page, page |-> leaf.data, pageHash |-> leaf,
                                  valid |-> TRUE, modified |-> FALSE]]
<1>2. a.sec \in Sections /\ a.page \in Pages
  BY DEF Accesses
<1>3. /\ c \in [Slots -> CachedPage] /\ merkleRoot[a.sec] \in Roots /\ leaf \in Leaves
      /\ CacheOK(c, merkleRoot[a.sec])
  BY <1>1, <1>2, CachesOK DEF PagingInv, TypeOK, Roots
<1>4. \A j \in Slots : ~ (c[j].valid /\ c[j].idx = a.page)
  BY <1>1 DEF PagingInv, LoadingOK, Cached
<1>5. \A s \in Sections \ {a.sec} : ShortcutOK(s)
  BY <1>1 DEF PagingInv, ShortcutsKept, ShortcutOK
<1>6. CacheOK(e, merkleRoot[a.sec])
  BY <1>1, <1>2, <1>3, <1>4, FillKeepsCache
<1>7. e \in [Slots -> CachedPage] /\ e[i].valid /\ e[i].idx = a.page
  <2>1. [idx |-> a.page, page |-> leaf.data, pageHash |-> leaf, valid |-> TRUE, modified |-> FALSE]
          \in CachedPage
    BY <1>2, <1>3 DEF CachedPage, Leaves
  <2> QED
    BY <1>3, <2>1
<1>8. Return(a, i, e)
  BY <1>1 DEF FillSlot
<1> HIDE DEF c, e
<1> QED
  BY <1>5, <1>6, <1>7, <1>8, ReturnKeepsInv

LEMMA LoadStepKeepsInv ==
  ASSUME TypeOK, PagingInv, UNCHANGED serverVars, pc = "loading",
         NEW v \in Verifiers, ProvesLeaf(v), LoadStep(v)
  PROVE  PagingInv'
<1>1. CASE /\ verifier' = v
           /\ link' = GetPageProofContinuedMessage
           /\ UNCHANGED <<cachedPages, merkleRoot, lastAccessed, nonce, pc, req, slot, ret>>
  <2>1. CachedHashIsCurrent' /\ PagesCachedOnce' /\ UnmodifiedIsCommitted' /\ CodeRootFixed'
    BY <1>1 DEF PagingInv, CachedHashIsCurrent, PagesCachedOnce, UnmodifiedIsCommitted,
         CodeRootFixed
  <2>2. ShortcutsKept' /\ CommittingOK' /\ StoredHmacsGenuine'
    BY <1>1 DEF PagingInv, ShortcutsKept, Cached, CommittingOK, StoredHmacsGenuine,
         serverVars, GetPageProofContinuedMessage
  <2>3. LoadingOK'
    BY <1>1 DEF PagingInv, LoadingOK, Cached, ProofStarted, ProvesLeaf
  <2> QED
    BY <2>1, <2>2, <2>3 DEF PagingInv
<1>2. CASE Verified(v) /\ FillSlot(v.leaf) /\ UNCHANGED <<merkleRoot, nonce>>
  <2>1. v.leaf = merkleRoot[req.sec][req.page]
    BY <1>2, VerifiedStarted DEF ProvesLeaf
  <2> QED
    BY <1>2, <2>1, FillSlotKeepsInv
<1>3. CASE Abort
  BY <1>3, AbortKeepsInv
<1> QED
  BY <1>1, <1>2, <1>3 DEF LoadStep

-----------------------------------------------------------------------------
\* What the elements of a proof show.
LEMMA PathShowsLeaf ==
  ASSUME NEW path \in Roots, NEW p \in Pages, NEW leaf \in Leaves, NEW root \in Roots,
         IsPathOf(path, p, leaf, root)
  PROVE  root[p] = leaf
BY DEF IsPathOf, Roots

LEMMA PathShowsUpdate ==
  ASSUME NEW path \in Roots, NEW p \in Pages, NEW old \in Leaves, NEW new \in Leaves,
         NEW root \in Roots, NEW newRoot \in Roots,
         IsPathOf(path, p, old, root), IsPathOf(path, p, new, newRoot)
  PROVE  newRoot = [root EXCEPT ![p] = new]
BY DEF IsPathOf, Roots

\* The verifier after the first message of a proof.
LEMMA FirstFeed ==
  ASSUME NEW n, NEW leaf, NEW root, NEW isRoot \in BOOLEAN, NEW len \in Nat,
         NEW siblings \in BOOLEAN, NEW w,
         w = Feed(BeginProof(n, leaf, root, isRoot), len, siblings)
  PROVE  /\ w.leaf = leaf /\ w.root = root /\ w.fed = len
         /\ w.ok => (ProofLen = 0 => isRoot) /\ (len > 0 => siblings)
<1> DEFINE v == BeginProof(n, leaf, root, isRoot)
<1>1. /\ v.fed = 0 /\ v.leaf = leaf /\ v.root = root
      /\ v.ok = (ProofLen = 0 => isRoot)
  BY DEF BeginProof
<1> HIDE DEF v
<1>2. w = Feed(v, len, siblings)
  BY DEF v
<1>3. /\ w.fed = v.fed + len /\ w.leaf = v.leaf /\ w.root = v.root
      /\ w.ok = (v.ok /\ (len > 0 => siblings))
  BY <1>2 DEF Feed
<1> QED
  BY <1>1, <1>3

\* An answer to load_page aborts it, or is a step with a sound verifier.
LEMMA MerkleAnswers ==
  ASSUME TypeOK, PagingInv, OnMerklePage \/ OnMerklePageContinued
  PROVE  Abort \/ (pc = "loading" /\ \E v \in Verifiers : ProvesLeaf(v) /\ LoadStep(v))
<1>1. /\ req.sec \in Sections /\ req.page \in Pages /\ merkleRoot[req.sec] \in Roots
      /\ verifier \in Verifiers /\ verifier.leaf \in Leaves
      /\ link \in {NoMessage} \cup Requests \cup Responses
  BY DEF TypeOK, Accesses, Verifiers
<1>2. CASE OnMerklePage
  <2> DEFINE root == merkleRoot[req.sec]
             v == BeginProof(link.n, link.leaf, root, root[req.page] = link.leaf)
             w == Feed(v, link.len, IsPathOf(link.path, req.page, link.leaf, root))
  <2>1. link.n \in Nat /\ link.len \in Nat /\ link.leaf \in Leaves /\ link.path \in Roots
    BY <1>1, <1>2, LinkFields DEF OnMerklePage
  <2>2. CASE link.t # link.len
    BY <1>2, <2>2 DEF OnMerklePage
  <2>3. CASE link.t = link.len
    <3>1. LoadStep(w) /\ pc = "loading"
      BY <1>2, <2>3 DEF OnMerklePage
    <3>2. w \in Verifiers
      <4>1. v \in Verifiers
        BY <1>1, <2>1 DEF BeginProof, Verifiers
      <4> HIDE DEF v
      <4>2. IsPathOf(link.path, req.page, link.leaf, root) \in BOOLEAN
        BY DEF IsPathOf
      <4> QED
        BY <2>1, <4>1, <4>2 DEF Feed, Verifiers
    <3>3. w.leaf = link.leaf /\ w.fed = link.len
          /\ (w.ok => /\ ProofLen = 0 => root[req.page] = link.leaf
                      /\ link.len > 0 => IsPathOf(link.path, req.page, link.leaf, root))
      <4> DEFINE b == root[req.page] = link.leaf
                 sib == IsPathOf(link.path, req.page, link.leaf, root)
      <4>1. b \in BOOLEAN /\ sib \in BOOLEAN
        BY DEF IsPathOf
      <4>2. w = Feed(BeginProof(link.n, link.leaf, root, b), link.len, sib)
        OBVIOUS
      <4> HIDE DEF b, sib, w, root
      <4>3. /\ w.leaf = link.leaf /\ w.fed = link.len
            /\ w.ok => (ProofLen = 0 => b) /\ (link.len > 0 => sib)
        BY <2>1, <4>1, <4>2, FirstFeed
      <4> QED
        BY <4>3 DEF b, sib
    <3> HIDE DEF w
    <3>4. ProvesLeaf(w)
      BY <1>1, <2>1, <3>3, PathShowsLeaf DEF ProvesLeaf
    <3> QED
      BY <3>1, <3>2, <3>4
  <2> QED
    BY <2>2, <2>3
<1>3. CASE OnMerklePageContinued
  <2> DEFINE root == merkleRoot[req.sec]
             w == Feed(verifier, link.len, IsPathOf(link.path, req.page, verifier.leaf, root))
  <2>1. link.len \in Nat /\ link.path \in Roots
    BY <1>1, <1>3, LinkFields DEF OnMerklePageContinued
  <2>2. CASE link.t # link.len
    BY <1>3, <2>2 DEF OnMerklePageContinued
  <2>3. CASE link.t = link.len
    <3>1. LoadStep(w) /\ pc = "loading"
      BY <1>3, <2>3 DEF OnMerklePageContinued
    <3>2. w \in Verifiers
      BY <1>1, <2>1, VerifierTypes DEF IsPathOf
    <3>3. /\ w.leaf = verifier.leaf /\ w.fed = verifier.fed + link.len
          /\ w.ok => /\ verifier.ok
                     /\ link.len > 0 => IsPathOf(link.path, req.page, verifier.leaf, root)
      BY DEF Feed
    <3>4. verifier.fed \in Nat
      BY <1>1 DEF Verifiers
    <3> HIDE DEF w
    <3>5. ProofStarted => verifier.leaf = merkleRoot[req.sec][req.page]
      BY <3>1 DEF PagingInv, LoadingOK
    <3>6. ProvesLeaf(w)
      <4>1. link.len > 0 /\ w.ok => root[req.page] = verifier.leaf
        BY <1>1, <2>1, <3>3, PathShowsLeaf
      <4> QED
        BY <2>1, <3>3, <3>4, <3>5, <4>1 DEF ProvesLeaf, ProofStarted
    <3> QED
      BY <3>1, <3>2, <3>6
  <2> QED
    BY <2>2, <2>3
<1> QED
  BY <1>2, <1>3

\* An answer to commit_page_at aborts it, or is a step with a sound verifier.
LEMMA CommitAnswers ==
  ASSUME TypeOK, PagingInv, OnCommitPageProof \/ OnCommitPageProofContinued
  PROVE  \/ Abort
         \/ /\ pc = "committing"
            /\ \E v \in Verifiers : v.leaf = verifier.leaf /\ ProvesCommit(v) /\ CommitStep(v)
<1> DEFINE page == cachedPages[req.sec][slot]
           root == merkleRoot[req.sec]
<1>1. /\ req.sec \in Sections /\ slot \in Slots /\ root \in Roots
      /\ page.idx \in Pages /\ page.pageHash \in Leaves
      /\ verifier \in Verifiers /\ verifier.leaf \in Leaves /\ verifier.root \in Roots
      /\ verifier.fed \in Nat
      /\ link \in {NoMessage} \cup Requests \cup Responses
  BY DEF TypeOK, Accesses, Verifiers, CachedPage
<1>2. CASE OnCommitPageProof
  <2>1. /\ link.n \in Nat /\ link.len \in Nat
        /\ link.newRoot \in Roots /\ link.path \in Roots /\ pc = "committing"
    BY <1>1, <1>2, LinkFields DEF OnCommitPageProof
  <2> DEFINE b == root[page.idx] = page.pageHash /\ link.newRoot[page.idx] = verifier.leaf
             v == BeginProof(link.n, verifier.leaf, link.newRoot, b)
             sib == UpdateSiblings(v, link.path)
             w == Feed(v, link.len, sib)
  <2>2. CASE link.n = 0 \/ link.t # link.len
    BY <1>2, <2>2 DEF OnCommitPageProof
  <2>3. CASE ~ (link.n = 0 \/ link.t # link.len)
    <3>1. CommitStep(w)
      BY <1>2, <2>3 DEF OnCommitPageProof
    <3>2. v \in Verifiers /\ v.leaf = verifier.leaf /\ v.root = link.newRoot
      BY <1>1, <2>1 DEF BeginProof, Verifiers
    <3>3. b \in BOOLEAN /\ sib \in BOOLEAN
      BY DEF UpdateSiblings
    <3>4. sib => link.newRoot = [root EXCEPT ![page.idx] = verifier.leaf]
      <4> HIDE DEF v
      <4>1. sib => IsPathOf(link.path, page.idx, page.pageHash, root)
                   /\ IsPathOf(link.path, page.idx, v.leaf, v.root)
        BY DEF UpdateSiblings
      <4> HIDE DEF page, root, sib
      <4> QED
        BY <1>1, <2>1, <3>2, <4>1, PathShowsUpdate
    <3>5. ProofLen = 0 /\ b => link.newRoot = [root EXCEPT ![page.idx] = verifier.leaf]
      <4>1. ProofLen = 0 => Pages = {0}
        BY ClientCommandsAssumption DEF Pages
      <4> QED
        BY <1>1, <2>1, <4>1 DEF Roots
    <3>6. w = Feed(BeginProof(link.n, verifier.leaf, link.newRoot, b), link.len, sib)
      OBVIOUS
    <3>7. w \in Verifiers
      <4> HIDE DEF v, sib
      <4> QED
        BY <2>1, <3>2, <3>3 DEF Feed, Verifiers
    <3> HIDE DEF v, b, sib, w, root, page
    <3>8. /\ w.leaf = verifier.leaf /\ w.root = link.newRoot /\ w.fed = link.len
          /\ w.ok => (ProofLen = 0 => b) /\ (link.len > 0 => sib)
      BY <2>1, <3>3, <3>6, FirstFeed
    <3>9. ProvesCommit(w)
      BY <3>4, <3>5, <3>8 DEF ProvesCommit, page, root
    <3> QED
      BY <2>1, <3>1, <3>7, <3>8, <3>9
  <2> QED
    BY <2>2, <2>3
<1>3. CASE OnCommitPageProofContinued
  <2> DEFINE sib == UpdateSiblings(verifier, link.path)
             w == Feed(verifier, link.len, sib)
  <2>1. link.len \in Nat /\ link.path \in Roots /\ pc = "committing"
    BY <1>1, <1>3, LinkFields DEF OnCommitPageProofContinued
  <2>2. CASE link.t # link.len
    BY <1>3, <2>2 DEF OnCommitPageProofContinued
  <2>3. CASE link.t = link.len
    <3>1. CommitStep(w)
      BY <1>3, <2>3 DEF OnCommitPageProofContinued
    <3>2. sib \in BOOLEAN
      BY DEF UpdateSiblings
    <3>3. w \in Verifiers
      <4> HIDE DEF sib
      <4> QED
        BY <1>1, <2>1, <3>2 DEF Feed, Verifiers
    <3>4. sib => verifier.root = [root EXCEPT ![page.idx] = verifier.leaf]
      <4>1. sib => IsPathOf(link.path, page.idx, page.pageHash, root)
                   /\ IsPathOf(link.path, page.idx, verifier.leaf, verifier.root)
        BY DEF UpdateSiblings
      <4> HIDE DEF page, root, sib
      <4> QED
        BY <1>1, <2>1, <4>1, PathShowsUpdate
    <3>5. ProofStarted => verifier.root = [root EXCEPT ![page.idx] = verifier.leaf]
      BY <2>1 DEF PagingInv, CommittingOK
    <3>6. /\ w.leaf = verifier.leaf /\ w.root = verifier.root
          /\ w.fed = verifier.fed + link.len
          /\ w.ok => verifier.ok /\ (link.len > 0 => sib)
      <4> HIDE DEF sib
      <4> QED
        BY <3>2 DEF Feed
    <3> HIDE DEF sib, w, root, page
    <3>7. ProvesCommit(w)
      BY <1>1, <2>1, <3>4, <3>5, <3>6 DEF ProvesCommit, ProofStarted, page, root
    <3> QED
      BY <2>1, <3>1, <3>3, <3>6, <3>7
  <2> QED
    BY <2>2, <2>3
<1> QED
  BY <1>2, <1>3

\* An HMAC that is accepted was issued for the leaf of the code page.
LEMMA HmacAnswers ==
  ASSUME TypeOK, PagingInv, OnHmacPage
  PROVE  \/ Abort
         \/ /\ pc = "loading" /\ UNCHANGED merkleRoot
            /\ link.leaf = merkleRoot[req.sec][req.page] /\ FillSlot(link.leaf)
<1>1. CASE HmacAccepted /\ FillSlot(link.leaf) /\ UNCHANGED <<merkleRoot, nonce>>
  <2>1. req.sec \in Sections /\ req.page \in Pages /\ pc = "loading"
    BY DEF TypeOK, Accesses, OnHmacPage
  <2>2. link.hmac.vapp = ThisVApp /\ link.hmac.idx = req.page /\ link.hmac.hash = link.leaf
    BY <1>1 DEF HmacAccepted, ExpectedHmac
  <2>3. HmacsGenuine(link.hmac) /\ req.sec = Code
    BY <1>1 DEF PagingInv, StoredHmacsGenuine, OnHmacPage, HmacAccepted
  <2>4. link.leaf = merkleRoot[req.sec][req.page]
    BY <2>1, <2>2, <2>3 DEF HmacsGenuine, PagingInv, CodeRootFixed
  <2> QED
    BY <1>1, <2>1, <2>4
<1>2. CASE Abort
  BY <1>2
<1> QED
  BY <1>1, <1>2 DEF OnHmacPage

\* Nothing the client does changes the VM; its HMACs stay those of issued pages.
LEMMA ServerKeepsInv ==
  ASSUME TypeOK, PagingInv, ServerNext, UNCHANGED vmVars
  PROVE  PagingInv'
<1>1. CachedHashIsCurrent' /\ PagesCachedOnce' /\ UnmodifiedIsCommitted' /\ CodeRootFixed'
      /\ ShortcutsKept'
  BY DEF PagingInv, vmVars, CachedHashIsCurrent, PagesCachedOnce, UnmodifiedIsCommitted,
         CodeRootFixed, ShortcutsKept, Cached
<1>2. LoadingOK' /\ CommittingOK'
  BY DEF PagingInv, vmVars, LoadingOK, CommittingOK, ProofStarted, Cached
<1>3. StoredHmacsGenuine'
  <2>1. StoredHmacsGenuine
    BY DEF PagingInv
  <2>2. CASE ServePageWithProof
    BY <2>1, <2>2 DEF ServePageWithProof, GetPageMerkleResponse, StoredHmacsGenuine
  <2>3. CASE ServePageWithHmac
    <3>1. link.page \in Pages /\ codeHmacs # NoHmacs
      BY <2>3, LinkFields DEF TypeOK, ServePageWithHmac, UsesHmac
    <3> QED
      BY <2>1, <2>3, <3>1 DEF ServePageWithHmac, GetPageHmacResponse, StoredHmacsGenuine, serverVars
  <2>4. CASE StorePage
    BY <2>1, <2>4 DEF StorePage, CommitPageProofResponse, StoredHmacsGenuine
  <2>5. CASE ContinueProof
    BY <2>1, <2>5 DEF ContinueProof, GetPageProofContinuedResponse,
         CommitPageProofContinuedResponse, StoredHmacsGenuine
  <2>6. CASE RefuseRequest
    BY <2>1, <2>6 DEF RefuseRequest, StoredHmacsGenuine
  <2>7. ASSUME NEW s \in Sections, NEW p \in Pages, CorruptPage(s, p) PROVE StoredHmacsGenuine'
    BY <2>1, <2>7 DEF CorruptPage, StoredHmacsGenuine
  <2>8. ASSUME NEW p \in Pages, CorruptHmac(p) PROVE StoredHmacsGenuine'
    <3>1. PICK h \in IssuedHmacs : codeHmacs' = [codeHmacs EXCEPT ![p] = h]
      BY <2>8 DEF CorruptHmac
    <3>2. Code \in Sections /\ codeHmacs # NoHmacs /\ codeHmacs \in [Pages -> Hmacs]
      BY <2>8 DEF CorruptHmac, TypeOK
    <3>3. HmacsGenuine(h)
      BY <3>2, ClientCommandsAssumption
      DEF IssuedHmacs, HmacsGenuine, GenuineHmac, InitialRoot
    <3>4. \A q \in Pages : HmacsGenuine(codeHmacs'[q])
      BY <2>1, <3>1, <3>2, <3>3 DEF StoredHmacsGenuine
    <3> QED
      BY <2>1, <2>8, <3>4 DEF CorruptHmac, StoredHmacsGenuine
  <2>9. CASE GarbleAnswer
    <3>1. link \in Responses
      BY <2>9 DEF TypeOK, GarbleAnswer, Answers, Requests, NoMessage,
           GetPageProofContinuedMessage, CommitPageProofContinuedMessage
    <3>2a. \E f \in {"n", "t", "newRoot", "path"} : \E x : link' = [link EXCEPT ![f] = x]
      BY <2>9, Zenon DEF GarbleAnswer
    <3>2b. PICK f \in {"n", "t", "newRoot", "path"} : \E x : link' = [link EXCEPT ![f] = x]
      BY <3>2a
    <3>2. PICK x : link' = [link EXCEPT ![f] = x]
      BY <3>2b
    <3>3. link'.type = link.type
      BY <3>1, <3>2 DEF Responses
    <3>4. link.type = "GetPageResponse" => link'.kind = link.kind
      BY <3>1, <3>2 DEF Responses
    <3>5. link.type = "GetPageResponse" /\ link.kind = "Hmac" => link'.hmac = link.hmac
      BY <3>1, <3>2 DEF Responses
    <3> QED
      BY <2>1, <2>9, <3>3, <3>4, <3>5 DEF GarbleAnswer, StoredHmacsGenuine
  <2> QED
    BY <2>2, <2>3, <2>4, <2>5, <2>6, <2>7, <2>8, <2>9 DEF ServerNext
<1> QED
  BY <1>1, <1>2, <1>3 DEF PagingInv

LEMMA PagingInvStep == TypeOK /\ PagingInv /\ [Next]_vars => PagingInv'
<1> SUFFICES ASSUME TypeOK, PagingInv, [Next]_vars PROVE PagingInv'
  OBVIOUS
<1>1. CASE VMNext /\ UNCHANGED serverVars
  <2>1. CASE \E a \in Accesses : GetPage(a)
    BY <1>1, <2>1, GetPageKeepsInv
  <2>2. CASE OnCommitPageProof \/ OnCommitPageProofContinued
    BY <1>1, <2>2, CommitAnswers, CommitStepKeepsInv, AbortKeepsInv
  <2>3. CASE OnMerklePage \/ OnMerklePageContinued
    BY <1>1, <2>3, MerkleAnswers, LoadStepKeepsInv, AbortKeepsInv
  <2>4. CASE OnHmacPage
    BY <1>1, <2>4, HmacAnswers, FillSlotKeepsInv, AbortKeepsInv
  <2> QED
    BY <1>1, <2>1, <2>2, <2>3, <2>4 DEF VMNext
<1>2. CASE ServerNext /\ UNCHANGED vmVars
  BY <1>2, ServerKeepsInv
<1>3. CASE UNCHANGED vars
  BY <1>3 DEF vars, vmVars, serverVars, PagingInv, CachedHashIsCurrent, PagesCachedOnce,
       UnmodifiedIsCommitted, CodeRootFixed, ShortcutsKept, Cached, LoadingOK, CommittingOK,
       ProofStarted, StoredHmacsGenuine
<1> QED
  BY <1>1, <1>2, <1>3 DEF Next

\* PagingInv holds in every reachable state, whatever the client answers.
THEOREM PagingInvariant == Spec => []PagingInv
<1>1. TypeOK /\ PagingInv /\ [Next]_vars => TypeOK' /\ PagingInv'
  BY TypeOKStep, PagingInvStep
<1> QED
  BY <1>1, TypeOKInit, PagingInvInit, PTL DEF Spec

\* The hash kept in a slot stays the leaf of the current root (commit_page_at).
THEOREM CachedHashesCurrent == Spec => []CachedHashIsCurrent
<1>1. PagingInv => CachedHashIsCurrent
  BY DEF PagingInv
<1> QED
  BY <1>1, PagingInvariant, PTL

\* The shortcut of get_page never returns a slot with another page.
THEOREM ShortcutsValid == Spec => []ShortcutIsValid
<1>1. PagingInv => ShortcutIsValid
  BY DEF PagingInv, ShortcutsKept, ShortcutIsValid
<1> QED
  BY <1>1, PagingInvariant, PTL

-----------------------------------------------------------------------------
(* Nonces. *)

NonceInv == NoncesBehindCounter /\ NonceUsedOnce

LEMMA NonceInvInit == Init => NonceInv
<1> SUFFICES ASSUME Init PROVE NonceInv
  OBVIOUS
<1>1. \A leaf \in seen : leaf.enc = FALSE
  BY ClientCommandsAssumption DEF Init, ServerInit, InitialRoot, ClearLeaf
<1>2. link.type # "CommitPage"
  BY DEF Init, VMInit, NoMessage
<1> QED
  BY <1>1, <1>2 DEF NonceInv, NoncesBehindCounter, NonceUsedOnce

\* Steps that neither encrypt nor store a page.
LEMMA OtherStepsKeepNonces ==
  ASSUME NonceInv, UNCHANGED <<nonce, seen>>,
         link'.type # "CommitPage" \/ UNCHANGED link
  PROVE  NonceInv'
BY DEF NonceInv, NoncesBehindCounter, NonceUsedOnce

LEMMA VMKeepsNonces ==
  ASSUME TypeOK, NonceInv, VMNext, UNCHANGED serverVars
  PROVE  NonceInv'
<1>1. seen' = seen /\ nonce \in Nat
  BY OutsourcedMemoryAssumption DEF serverVars, TypeOK
<1>2. ASSUME NEW a \in Accesses, NEW victim \in Slots, GetPageEvictModified(a, victim)
      PROVE  NonceInv'
  <2>1. /\ nonce' = nonce + 1 /\ link'.leaf.enc /\ link'.leaf.nonce = nonce
    BY <1>2 DEF GetPageEvictModified, NextNonce, CommitPageMessage, EncryptedLeaf
  <2>2. seen \subseteq Leaves
    BY DEF TypeOK
  <2>3. \A leaf \in seen : leaf.enc => leaf.nonce < nonce /\ leaf.nonce \in Nat
    BY <2>2 DEF NonceInv, NoncesBehindCounter, Leaves
  <2>4. NoncesBehindCounter'
    BY <1>1, <2>1, <2>3 DEF NoncesBehindCounter
  <2> QED
    BY <1>1, <2>4 DEF NonceInv, NonceUsedOnce
<1>3. ASSUME nonce' = nonce, link'.type # "CommitPage" PROVE NonceInv'
  BY <1>1, <1>3, OtherStepsKeepNonces
<1>4. ASSUME NEW a \in Accesses, GetPageAgain(a) \/ GetPageHit(a) \/ GetPageMiss(a)
      PROVE  NonceInv'
  BY <1>3, <1>4 DEF GetPageAgain, GetPageHit, GetPageMiss, Return, RequestPage,
       NoMessage, GetPageMessage
<1>5. ASSUME NEW a \in Accesses, NEW victim \in Slots, GetPageEvictClean(a, victim)
      PROVE  NonceInv'
  BY <1>3, <1>5 DEF GetPageEvictClean, RequestPage, GetPageMessage
<1>6. ASSUME NEW v, CommitStep(v) PROVE NonceInv'
  BY <1>3, <1>6 DEF CommitStep, Abort, RequestPage, NoMessage, GetPageMessage,
       CommitPageProofContinuedMessage
<1>7. ASSUME NEW v, LoadStep(v) PROVE NonceInv'
  BY <1>3, <1>7 DEF LoadStep, Abort, FillSlot, Return, NoMessage, GetPageProofContinuedMessage
<1>8. ASSUME Abort PROVE NonceInv'
  BY <1>3, <1>8 DEF Abort, NoMessage
<1>9. CASE OnCommitPageProof
  BY <1>6, <1>8, <1>9 DEF OnCommitPageProof
<1>10. CASE OnCommitPageProofContinued
  BY <1>6, <1>8, <1>10 DEF OnCommitPageProofContinued
<1>11. CASE OnMerklePage
  BY <1>7, <1>8, <1>11 DEF OnMerklePage
<1>12. CASE OnMerklePageContinued
  BY <1>7, <1>8, <1>12 DEF OnMerklePageContinued
<1>13. CASE OnHmacPage
  BY <1>3, <1>8, <1>13 DEF OnHmacPage, FillSlot, Return, NoMessage
<1> QED
  BY <1>2, <1>4, <1>5, <1>9, <1>10, <1>11, <1>12, <1>13 DEF VMNext, GetPage

LEMMA ServerKeepsNonces ==
  ASSUME TypeOK, NonceInv, ServerNext, UNCHANGED vmVars
  PROVE  NonceInv'
<1>1. nonce' = nonce
  BY DEF vmVars
<1>2. CASE StorePage
  <2>1. link'.type # "CommitPage" /\ seen' = seen \cup {link.leaf} /\ link.type = "CommitPage"
    BY <1>2 DEF StorePage, CommitPageProofResponse
  <2>2. NoncesBehindCounter
    BY DEF NonceInv
  <2>3. NoncesBehindCounter'
    BY <1>1, <2>1, <2>2 DEF NoncesBehindCounter
  <2>4. NonceUsedOnce'
    BY <2>1, <2>2 DEF NonceInv, NonceUsedOnce, NoncesBehindCounter
  <2> QED
    BY <2>3, <2>4 DEF NonceInv
<1>3. ASSUME seen' = seen, link'.type # "CommitPage" \/ link' = link PROVE NonceInv'
  BY <1>1, <1>3, OtherStepsKeepNonces
<1>4. CASE ServePageWithProof \/ ServePageWithHmac \/ ContinueProof \/ RefuseRequest
  BY <1>3, <1>4 DEF ServePageWithProof, ServePageWithHmac, ContinueProof, RefuseRequest,
       GetPageMerkleResponse, GetPageHmacResponse, GetPageProofContinuedResponse,
       CommitPageProofContinuedResponse, serverVars
<1>5. ASSUME NEW s \in Sections, NEW p \in Pages, CorruptPage(s, p) PROVE NonceInv'
  BY <1>3, <1>5 DEF CorruptPage
<1>6. ASSUME NEW p \in Pages, CorruptHmac(p) PROVE NonceInv'
  BY <1>3, <1>6 DEF CorruptHmac
<1>7. CASE GarbleAnswer
  <2>1. link \in Responses
    BY <1>7 DEF TypeOK, GarbleAnswer, Answers, Requests, NoMessage,
         GetPageProofContinuedMessage, CommitPageProofContinuedMessage
  <2>2a. \E f \in {"n", "t", "newRoot", "path"} : \E x : link' = [link EXCEPT ![f] = x]
    BY <1>7, Zenon DEF GarbleAnswer
  <2>2b. PICK f \in {"n", "t", "newRoot", "path"} : \E x : link' = [link EXCEPT ![f] = x]
    BY <2>2a
  <2>2. PICK x : link' = [link EXCEPT ![f] = x]
    BY <2>2b
  <2>3. link'.type # "CommitPage"
    BY <2>1, <2>2 DEF Responses
  <2> QED
    BY <1>3, <1>7, <2>3 DEF GarbleAnswer
<1> QED
  BY <1>2, <1>4, <1>5, <1>6, <1>7 DEF ServerNext

\* No two pages are ever encrypted with the same nonce, in any section, so a page
\* that the client replays is a page it was given (AesCtr::encrypt).
THEOREM NoncesUsedOnce == Spec => []NonceUsedOnce
<1>1. TypeOK /\ NonceInv /\ [Next]_vars => NonceInv'
  <2> SUFFICES ASSUME TypeOK, NonceInv, [Next]_vars PROVE NonceInv'
    OBVIOUS
  <2>1. CASE UNCHANGED vars
    BY <2>1, OtherStepsKeepNonces DEF vars, vmVars, serverVars
  <2> QED
    BY <2>1, VMKeepsNonces, ServerKeepsNonces DEF Next
<1>2. NonceInv => NonceUsedOnce
  BY DEF NonceInv
<1> QED
  BY <1>1, <1>2, NonceInvInit, TypeCorrect, PTL DEF Spec

-----------------------------------------------------------------------------
(* PagedMemory: a step that completes an access is a Read or a Write, dropping *)
(* a written code page is a Revert, and all other steps change nothing that    *)
(* the code running on the VM can see.                                         *)
\* The content of page p of a section with cache c and root r.
Holds(c, p, i) == i \in Slots /\ c[i].valid /\ c[i].idx = p

Content(c, r, p) ==
  IF \E i \in Slots : Holds(c, p, i)
    THEN c[CHOOSE i \in {j \in Slots : c[j].valid /\ c[j].idx = p} : TRUE].page
    ELSE r[p].data

LEMMA PageContentIsContent ==
  \A s \in Sections, p \in Pages : PageContent(s, p) = Content(cachedPages[s], merkleRoot[s], p)
BY DEF PageContent, Content, Cached, Holds

LEMMA PageContentIsContentNext ==
  \A s \in Sections, p \in Pages : PageContent(s, p)' = Content(cachedPages'[s], merkleRoot'[s], p)
BY DEF PageContent, Content, Cached, Holds

\* As a page is in one slot only, its content is that of any slot holding it.
LEMMA ContentOfSlot ==
  ASSUME NEW c \in [Slots -> CachedPage], NEW r \in Roots, CacheOK(c, r),
         NEW p \in Pages, NEW i \in Slots, Holds(c, p, i)
  PROVE  Content(c, r, p) = c[i].page
<1> DEFINE S == {j \in Slots : c[j].valid /\ c[j].idx = p}
<1>1. i \in S
  BY DEF Holds
<1>2. (CHOOSE j \in S : TRUE) \in S
  BY <1>1
<1>3. (CHOOSE j \in S : TRUE) = i
  BY <1>1, <1>2 DEF CacheOK
<1>4. \E j \in Slots : Holds(c, p, j)
  OBVIOUS
<1> QED
  BY <1>3, <1>4, Zenon DEF Content

LEMMA ContentOfRoot ==
  ASSUME NEW c \in [Slots -> CachedPage], NEW r \in Roots, NEW p \in Pages,
         \A i \in Slots : ~ Holds(c, p, i)
  PROVE  Content(c, r, p) = r[p].data
BY DEF Content

\* A write changes the content of its page only.
LEMMA WriteContent ==
  ASSUME NEW c \in [Slots -> CachedPage], NEW r \in Roots, CacheOK(c, r),
         NEW e \in [Slots -> CachedPage], CacheOK(e, r),
         NEW p \in Pages, NEW i \in Slots, Holds(c, p, i), Holds(e, p, i),
         \A j \in Slots : j # i => e[j] = c[j],
         NEW d, e[i].page = d
  PROVE  \A q \in Pages : Content(e, r, q) = IF q = p THEN d ELSE Content(c, r, q)
<1>3. \A q \in Pages, j \in Slots : Holds(e, q, j) <=> Holds(c, q, j)
  BY DEF Holds
<1>4. TAKE q \in Pages
<1>5. CASE q = p
  BY <1>5, ContentOfSlot
<1>6. CASE q # p /\ \E j \in Slots : Holds(c, q, j)
  <2>1. PICK j \in Slots : Holds(c, q, j)
    BY <1>6
  <2>2. j # i /\ Holds(e, q, j) /\ e[j] = c[j]
    BY <1>3, <1>6, <2>1 DEF Holds
  <2>3. Content(e, r, q) = e[j].page /\ Content(c, r, q) = c[j].page
    BY <2>1, <2>2, ContentOfSlot
  <2> QED
    BY <1>6, <2>2, <2>3
<1>7. CASE q # p /\ \A j \in Slots : ~ Holds(c, q, j)
  BY <1>3, <1>7, ContentOfRoot
<1> QED
  BY <1>5, <1>6, <1>7

\* Filling a free slot from the root changes no content.
LEMMA FillContent ==
  ASSUME NEW c \in [Slots -> CachedPage], NEW r \in Roots, CacheOK(c, r),
         NEW e \in [Slots -> CachedPage], CacheOK(e, r),
         NEW p \in Pages, NEW i \in Slots, ~ c[i].valid, Holds(e, p, i),
         \A j \in Slots : ~ Holds(c, p, j),
         \A j \in Slots : j # i => e[j] = c[j],
         e[i].page = r[p].data
  PROVE  \A q \in Pages : Content(e, r, q) = Content(c, r, q)
<1>3. TAKE q \in Pages
<1>4. CASE q = p
  <2>1. Content(e, r, q) = e[i].page
    BY <1>4, ContentOfSlot
  <2>2. Content(c, r, q) = r[p].data
    BY <1>4, ContentOfRoot
  <2> QED
    BY <2>1, <2>2
<1>5. CASE q # p /\ \E j \in Slots : Holds(c, q, j)
  <2>1. PICK j \in Slots : Holds(c, q, j)
    BY <1>5
  <2>2. j # i /\ Holds(e, q, j) /\ e[j] = c[j]
    BY <2>1 DEF Holds
  <2>3. Content(e, r, q) = e[j].page /\ Content(c, r, q) = c[j].page
    BY <2>1, <2>2, ContentOfSlot
  <2> QED
    BY <2>2, <2>3
<1>6. CASE q # p /\ \A j \in Slots : ~ Holds(c, q, j)
  <2>1. \A j \in Slots : ~ Holds(e, q, j)
    BY <1>6 DEF Holds
  <2>2. Content(e, r, q) = r[q].data /\ Content(c, r, q) = r[q].data
    BY <1>6, <2>1, ContentOfRoot
  <2> QED
    BY <2>2
<1> QED
  BY <1>4, <1>5, <1>6

\* Invalidating a slot leaves its page to the root, r or the one after a commit.
LEMMA InvalidateContent ==
  ASSUME NEW c \in [Slots -> CachedPage], NEW r \in Roots, CacheOK(c, r),
         NEW e \in [Slots -> CachedPage], NEW rr \in Roots, CacheOK(e, rr),
         NEW i \in Slots, c[i].valid, ~ e[i].valid,
         \A j \in Slots : j # i => e[j] = c[j],
         \A q \in Pages : q # c[i].idx => rr[q] = r[q]
  PROVE  \A q \in Pages : Content(e, rr, q) =
           IF q = c[i].idx THEN rr[q].data ELSE Content(c, r, q)
<1>3. TAKE q \in Pages
<1>4. CASE q = c[i].idx
  <2>1. \A j \in Slots : ~ Holds(e, q, j)
    BY <1>4 DEF Holds, CacheOK
  <2> QED
    BY <1>4, <2>1, ContentOfRoot
<1>5. CASE q # c[i].idx /\ \E j \in Slots : Holds(c, q, j)
  <2>1. PICK j \in Slots : Holds(c, q, j)
    BY <1>5
  <2>2. j # i /\ Holds(e, q, j) /\ e[j] = c[j]
    BY <1>5, <2>1 DEF Holds
  <2>3. Content(e, rr, q) = e[j].page /\ Content(c, r, q) = c[j].page
    BY <2>1, <2>2, ContentOfSlot
  <2> QED
    BY <1>5, <2>2, <2>3
<1>6. CASE q # c[i].idx /\ \A j \in Slots : ~ Holds(c, q, j)
  <2>1. \A j \in Slots : ~ Holds(e, q, j)
    BY <1>6 DEF Holds
  <2>2. Content(e, rr, q) = rr[q].data /\ Content(c, r, q) = r[q].data
    BY <1>6, <2>1, ContentOfRoot
  <2> QED
    BY <1>6, <2>2
<1> QED
  BY <1>4, <1>5, <1>6

-----------------------------------------------------------------------------
(* Steps. *)

LEMMA SameContents ==
  ASSUME \A s \in Sections, p \in Pages :
           Content(cachedPages'[s], merkleRoot'[s], p) = Content(cachedPages[s], merkleRoot[s], p)
  PROVE  PageContents' = PageContents
BY PageContentIsContent, PageContentIsContentNext DEF PageContents

LEMMA ReturnRefines ==
  ASSUME TypeOK, PagingInv, UNCHANGED merkleRoot,
         NEW a \in Accesses, NEW i \in Slots, NEW c \in [Slots -> CachedPage],
         CacheOK(c, merkleRoot[a.sec]), Holds(c, a.page, i),
         \A q \in Pages : Content(c, merkleRoot[a.sec], q)
                            = Content(cachedPages[a.sec], merkleRoot[a.sec], q),
         Return(a, i, c)
  PROVE  Memory!Next
<1>1. a.sec \in Sections /\ a.page \in Pages /\ a.op \in Writes
      /\ a = [sec |-> a.sec, page |-> a.page, op |-> a.op]
  BY DEF Accesses
<1>2. merkleRoot[a.sec] \in Roots /\ cachedPages \in [Sections -> [Slots -> CachedPage]]
  BY <1>1 DEF TypeOK
<1>3. PageContents[a.sec][a.page] = c[i].page
  <2>1. Content(c, merkleRoot[a.sec], a.page) = c[i].page
    BY <1>1, <1>2, ContentOfSlot
  <2> QED
    BY <1>1, <2>1, PageContentIsContent DEF PageContents
<1>4. CASE a.op = NoWrite
  <2>1. cachedPages' = [cachedPages EXCEPT ![a.sec] = c]
    BY <1>4 DEF Return
  <2>2. PageContents' = PageContents
    <3>1. cachedPages'[a.sec] = c /\ \A s \in Sections \ {a.sec} : cachedPages'[s] = cachedPages[s]
      BY <1>1, <1>2, <2>1
    <3> QED
      BY <3>1, SameContents
  <2>3. ret' = [access |-> a, page |-> c[i].page]
    BY <1>1, <1>2, <2>1 DEF Return
  <2>4. Memory!Read(a.sec, a.page)
    BY <1>1, <1>3, <1>4, <2>2, <2>3 DEF Memory!Read
  <2> QED
    BY <1>1, <2>4 DEF Memory!Next
<1>5. CASE a.op # NoWrite
  <2> DEFINE e == [c EXCEPT ![i] = [@ EXCEPT !.page = a.op, !.modified = TRUE]]
             r == merkleRoot[a.sec]
  <2>1. a.op \in Contents
    BY <1>1, <1>5 DEF Writes
  <2>2. CacheOK(e, r) /\ e \in [Slots -> CachedPage]
    BY <1>2, <2>1, WriteKeepsCache DEF CachedPage
  <2>3. Holds(e, a.page, i) /\ e[i].page = a.op /\ \A j \in Slots : j # i => e[j] = c[j]
    BY DEF Holds, CachedPage
  <2>4. cachedPages' = [cachedPages EXCEPT ![a.sec] = e]
    BY <1>5 DEF Return
  <2> HIDE DEF e
  <2>5. \A q \in Pages : Content(e, r, q) = IF q = a.page THEN a.op ELSE Content(c, r, q)
    BY <1>1, <1>2, <2>2, <2>3, WriteContent
  <2>6. cachedPages'[a.sec] = e /\ \A s \in Sections \ {a.sec} : cachedPages'[s] = cachedPages[s]
    BY <1>1, <1>2, <2>4
  <2>7. PageContents' = [PageContents EXCEPT ![a.sec][a.page] = a.op]
    <3>1. \A s \in Sections, q \in Pages : PageContent(s, q)' =
             IF s = a.sec /\ q = a.page THEN a.op ELSE PageContent(s, q)
      BY <1>1, <2>5, <2>6, PageContentIsContent, PageContentIsContentNext
    <3> QED
      BY <1>1, <3>1 DEF PageContents
  <2>8. ret' = [access |-> a, page |-> a.op]
    BY <2>3, <2>6 DEF Return
  <2>9. Memory!Write(a.sec, a.page, a.op)
    BY <1>1, <2>7, <2>8 DEF Memory!Write
  <2> QED
    BY <1>1, <2>1, <2>9 DEF Memory!Next
<1> QED
  BY <1>4, <1>5

LEMMA FillSlotRefines ==
  ASSUME TypeOK, PagingInv, UNCHANGED merkleRoot, pc = "loading",
         NEW leaf, leaf = merkleRoot[req.sec][req.page], FillSlot(leaf)
  PROVE  Memory!Next
<1>1. PICK a \in Accesses, i \in Slots : a = req /\ i = slot
  BY DEF TypeOK
<1> DEFINE c == cachedPages[a.sec]
           r == merkleRoot[a.sec]
           new == [idx |-> a.page, page |-> leaf.data, pageHash |-> leaf,
                   valid |-> TRUE, modified |-> FALSE]
           e == [c EXCEPT ![i] = new]
<1>2. a.sec \in Sections /\ a.page \in Pages
  BY DEF Accesses
<1>3. /\ c \in [Slots -> CachedPage] /\ r \in Roots /\ leaf \in Leaves
      /\ CacheOK(c, r)
  BY <1>1, <1>2, CachesOK DEF PagingInv, TypeOK, Roots
<1>4. (\A j \in Slots : ~ Holds(c, a.page, j)) /\ ~ c[i].valid
  BY <1>1 DEF PagingInv, LoadingOK, Cached, Holds
<1>5. CacheOK(e, r)
  BY <1>1, <1>2, <1>3, <1>4, FillKeepsCache DEF Holds
<1>6. new \in CachedPage
  BY <1>2, <1>3 DEF CachedPage, Leaves
<1>7. /\ e \in [Slots -> CachedPage] /\ Holds(e, a.page, i) /\ e[i].page = r[a.page].data
      /\ \A j \in Slots : j # i => e[j] = c[j]
  BY <1>1, <1>3, <1>6 DEF Holds
<1>8. Return(a, i, e)
  BY <1>1 DEF FillSlot
<1> HIDE DEF e, c, r
<1>9. \A q \in Pages : Content(e, r, q) = Content(c, r, q)
  BY <1>2, <1>3, <1>4, <1>5, <1>7, FillContent
<1> QED
  BY <1>5, <1>7, <1>8, <1>9, ReturnRefines DEF c, r

LEMMA LoadStepRefines ==
  ASSUME TypeOK, PagingInv, pc = "loading", NEW v \in Verifiers, ProvesLeaf(v), LoadStep(v)
  PROVE  Memory!Next \/ UNCHANGED <<PageContents, ret>>
<1>1. CASE UNCHANGED <<cachedPages, merkleRoot, ret>>
  BY <1>1, SameContents
<1>2. CASE Verified(v) /\ FillSlot(v.leaf) /\ UNCHANGED <<merkleRoot, nonce>>
  BY <1>2, VerifiedStarted, FillSlotRefines DEF ProvesLeaf
<1> QED
  BY <1>1, <1>2 DEF LoadStep, Abort

LEMMA CommitStepRefines ==
  ASSUME TypeOK, PagingInv, pc = "committing",
         NEW v \in Verifiers, v.leaf = verifier.leaf, ProvesCommit(v), CommitStep(v)
  PROVE  UNCHANGED <<PageContents, ret>>
<1>1. CASE UNCHANGED <<cachedPages, merkleRoot, ret>>
  BY <1>1, SameContents
<1>2. CASE /\ Verified(v)
           /\ merkleRoot' = [merkleRoot EXCEPT ![req.sec] = v.root]
           /\ cachedPages' = Invalidate(req.sec, slot)
           /\ ret' = ret
  <2>1. PICK s \in Sections, i \in Slots : s = req.sec /\ i = slot
    BY DEF TypeOK, Accesses
  <2> DEFINE c == cachedPages[s]
             r == merkleRoot[s]
             e == [c EXCEPT ![i].valid = FALSE]
             rr == [r EXCEPT ![c[i].idx] = v.leaf]
  <2>2. c \in [Slots -> CachedPage] /\ r \in Roots /\ CacheOK(c, r)
    BY CachesOK DEF TypeOK, PagingInv
  <2>3. c[i].valid /\ v.leaf.data = c[i].page /\ v.leaf \in Leaves /\ c[i].idx \in Pages
    BY <2>1, <2>2 DEF PagingInv, CommittingOK, Verifiers, CachedPage
  <2>4. v.root = rr
    BY <1>2, <2>1, VerifiedStarted DEF ProvesCommit
  <2>5. /\ cachedPages'[s] = e /\ merkleRoot'[s] = rr
        /\ \A x \in Sections \ {s} : cachedPages'[x] = cachedPages[x] /\ merkleRoot'[x] = merkleRoot[x]
    BY <1>2, <2>1, <2>4 DEF Invalidate, TypeOK
  <2>6. CacheOK(e, rr)
    BY <2>2, <2>3, InvalidateKeepsCache
  <2>7. /\ e \in [Slots -> CachedPage] /\ rr \in Roots /\ ~ e[i].valid
        /\ \A j \in Slots : j # i => e[j] = c[j]
        /\ \A q \in Pages : q # c[i].idx => rr[q] = r[q]
        /\ rr[c[i].idx].data = c[i].page
    <3>1. [c[i] EXCEPT !.valid = FALSE] \in CachedPage
      BY <2>2 DEF CachedPage
    <3>2. e \in [Slots -> CachedPage] /\ ~ e[i].valid /\ \A j \in Slots : j # i => e[j] = c[j]
      BY <2>2, <3>1 DEF CachedPage
    <3>3. rr \in Roots /\ rr[c[i].idx] = v.leaf /\ \A q \in Pages : q # c[i].idx => rr[q] = r[q]
      BY <2>2, <2>3 DEF Roots
    <3> QED
      BY <2>3, <3>2, <3>3
  <2>8. Holds(c, c[i].idx, i)
    BY <2>3 DEF Holds
  <2> HIDE DEF e, rr
  <2>9. \A q \in Pages : Content(e, rr, q) = Content(c, r, q)
    <3>1. Content(c, r, c[i].idx) = c[i].page
      BY <2>2, <2>3, <2>8, ContentOfSlot
    <3> QED
      BY <2>2, <2>3, <2>6, <2>7, <3>1, InvalidateContent
  <2> QED
    BY <1>2, <2>5, <2>9, SameContents
<1> QED
  BY <1>1, <1>2 DEF CommitStep, Abort, RequestPage

\* Evicting a page without commit: the root holds its content, or it is a written
\* code page, which reverts.
LEMMA EvictCleanRefines ==
  ASSUME TypeOK, PagingInv, NEW a \in Accesses, NEW i \in Slots, GetPageEvictClean(a, i)
  PROVE  Memory!Next \/ UNCHANGED <<PageContents, ret>>
<1>1. PICK s \in Sections : s = a.sec
  BY DEF Accesses
<1> DEFINE c == cachedPages[s]
           r == merkleRoot[s]
           e == [c EXCEPT ![i].valid = FALSE]
<1>2. c \in [Slots -> CachedPage] /\ r \in Roots /\ CacheOK(c, r)
  BY CachesOK DEF TypeOK, PagingInv
<1>3. /\ c[i].valid /\ c[i].idx \in Pages /\ UNCHANGED <<merkleRoot, ret>>
      /\ s = Code \/ ~ c[i].modified
  BY <1>1, <1>2 DEF GetPageEvictClean, Free, MustCommit, IsReadonly, CachedPage
<1>4. cachedPages'[s] = e /\ \A x \in Sections \ {s} : cachedPages'[x] = cachedPages[x]
  BY <1>1 DEF GetPageEvictClean, Invalidate, TypeOK
<1>5. CacheOK(e, r)
  <2>1. EmptyLeaf \in Leaves
    BY ContentsOfLeaves
  <2> QED
    BY <1>2, <1>3, <2>1, InvalidateKeepsCache
<1>6. e \in [Slots -> CachedPage] /\ ~ e[i].valid /\ \A j \in Slots : j # i => e[j] = c[j]
  <2>1. [c[i] EXCEPT !.valid = FALSE] \in CachedPage
    BY <1>2 DEF CachedPage
  <2> QED
    BY <1>2, <2>1 DEF CachedPage
<1>7. Holds(c, c[i].idx, i) /\ r[c[i].idx] = c[i].pageHash
  BY <1>2, <1>3 DEF Holds, CacheOK
<1> HIDE DEF e
<1>8. \A q \in Pages : Content(e, r, q) = IF q = c[i].idx THEN r[q].data ELSE Content(c, r, q)
  BY <1>2, <1>3, <1>5, <1>6, InvalidateContent
<1>9. CASE ~ c[i].modified
  <2>1. Content(c, r, c[i].idx) = r[c[i].idx].data
    <3>1. Content(c, r, c[i].idx) = c[i].page
      BY <1>2, <1>3, <1>7, ContentOfSlot
    <3> QED
      BY <1>2, <1>3, <1>7, <1>9, <3>1 DEF CacheOK
  <2>2. \A q \in Pages : Content(e, r, q) = Content(c, r, q)
    BY <1>8, <2>1
  <2> QED
    BY <1>3, <1>4, <2>2, SameContents
<1>10. CASE s = Code
  <2> DEFINE p == c[i].idx
  <2>1. r[p].data = InitialContent[s][p]
    BY <1>3, <1>10 DEF PagingInv, CodeRootFixed, InitialRoot, ClearLeaf
  <2> HIDE DEF p
  <2>2. p \in Pages
    BY <1>3 DEF p
  <2>3. \A x \in Sections, q \in Pages : PageContent(x, q)' =
          IF x = s /\ q = p THEN InitialContent[s][p] ELSE PageContent(x, q)
    BY <1>3, <1>4, <1>8, <2>1, PageContentIsContent, PageContentIsContentNext DEF p
  <2>4. PageContents' = [PageContents EXCEPT ![s][p] = InitialContent[s][p]]
    BY <2>2, <2>3 DEF PageContents
  <2>5. Memory!Revert(s, p)
    BY <1>3, <1>10, <2>4 DEF Memory!Revert
  <2> QED
    BY <2>2, <2>5 DEF Memory!Next
<1> QED
  BY <1>3, <1>9, <1>10

LEMMA GetPageRefines ==
  ASSUME TypeOK, PagingInv, NEW a \in Accesses, GetPage(a)
  PROVE  Memory!Next \/ UNCHANGED <<PageContents, ret>>
<1>1. a.sec \in Sections /\ a.page \in Pages
  BY DEF Accesses
<1>2. cachedPages[a.sec] \in [Slots -> CachedPage] /\ CacheOK(cachedPages[a.sec], merkleRoot[a.sec])
  BY <1>1, CachesOK DEF TypeOK, PagingInv
<1>3. CASE GetPageAgain(a)
  <2>1. lastAccessed[a.sec].slot \in Cached(a.sec, a.page)
    BY <1>1, <1>3 DEF GetPageAgain, PagingInv, ShortcutsKept
  <2>2. /\ lastAccessed[a.sec].slot \in Slots
        /\ Holds(cachedPages[a.sec], a.page, lastAccessed[a.sec].slot)
    BY <2>1 DEF Cached, Holds
  <2>3. Return(a, lastAccessed[a.sec].slot, cachedPages[a.sec]) /\ UNCHANGED merkleRoot
    BY <1>3 DEF GetPageAgain
  <2> QED
    BY <1>2, <2>2, <2>3, ReturnRefines
<1>4. CASE GetPageHit(a)
  <2> DEFINE i == Lowest(Cached(a.sec, a.page))
  <2>1. i \in Cached(a.sec, a.page)
    BY <1>4, LowestInSet DEF GetPageHit, Cached
  <2>2. Return(a, i, cachedPages[a.sec]) /\ UNCHANGED merkleRoot
    BY <1>4 DEF GetPageHit
  <2> HIDE DEF i
  <2>3. i \in Slots /\ Holds(cachedPages[a.sec], a.page, i)
    BY <2>1 DEF Cached, Holds
  <2> QED
    BY <1>2, <2>2, <2>3, ReturnRefines
<1>5. CASE GetPageMiss(a) \/ \E i \in Slots : GetPageEvictModified(a, i)
  <2>1. UNCHANGED <<cachedPages, merkleRoot, ret>>
    BY <1>5 DEF GetPageMiss, GetPageEvictModified
  <2> QED
    BY <2>1, SameContents
<1>6. CASE \E i \in Slots : GetPageEvictClean(a, i)
  BY <1>6, EvictCleanRefines
<1> QED
  BY <1>3, <1>4, <1>5, <1>6 DEF GetPage

LEMMA InitRefines == Init => Memory!Init
<1> SUFFICES ASSUME Init PROVE Memory!Init
  OBVIOUS
<1>1. \A s \in Sections, p \in Pages : PageContent(s, p) = InitialContent[s][p]
  BY DEF Init, VMInit, PageContent, Cached, InitialRoot, ClearLeaf
<1>2. InitialContent \in [Sections -> [Pages -> Contents]]
  BY ClientCommandsAssumption DEF Pages
<1>3. PageContents = InitialContent
  BY <1>1, <1>2 DEF PageContents
<1> QED
  BY <1>3 DEF Memory!Init

LEMMA StepRefines ==
  ASSUME TypeOK, PagingInv, [Next]_vars
  PROVE  [Memory!Next]_<<PageContents, ret>>
<1>1. CASE VMNext
  <2>1. CASE \E a \in Accesses : GetPage(a)
    BY <2>1, GetPageRefines
  <2>2. CASE Abort
    <3>1. UNCHANGED <<cachedPages, merkleRoot, ret>>
      BY <2>2 DEF Abort
    <3> QED
      BY <3>1, SameContents
  <2>3. CASE OnCommitPageProof \/ OnCommitPageProofContinued
    BY <2>2, <2>3, CommitAnswers, CommitStepRefines
  <2>4. CASE OnMerklePage \/ OnMerklePageContinued
    BY <2>2, <2>4, MerkleAnswers, LoadStepRefines
  <2>5. CASE OnHmacPage
    BY <2>2, <2>5, HmacAnswers, FillSlotRefines
  <2> QED
    BY <1>1, <2>1, <2>3, <2>4, <2>5 DEF VMNext
<1>2. CASE UNCHANGED vmVars
  <2>1. UNCHANGED <<cachedPages, merkleRoot, ret>>
    BY <1>2 DEF vmVars
  <2> QED
    BY <2>1, SameContents
<1> QED
  BY <1>1, <1>2 DEF Next, vars

\* Whatever pages, HMACs, proofs and new roots the client answers with, the accesses
\* that complete are those of a memory: get_page, commit_page_at, load_page and the
\* eviction of pages implement it.
THEOREM OutsourcedMemoryIsMemory == Spec => LastWriteIsRead
<1>1. TypeOK /\ PagingInv /\ [Next]_vars => [Memory!Next]_<<PageContents, ret>>
  BY StepRefines
<1> QED
  BY <1>1, InitRefines, TypeCorrect, PagingInvariant, PTL DEF Spec, LastWriteIsRead, Memory!Spec
-----------------------------------------------------------------------------
(* A client without faults. *)

LEMMA HonestInit == Init => HonestInv
BY DEF Init, VMInit, ServerInit, HonestInv

\* The fields that tell the messages apart.
LEMMA MessageNames ==
  /\ NoMessage.type = "None"
  /\ \A s, p : GetPageMessage(s, p).type = "GetPage"
  /\ \A s, p, leaf : CommitPageMessage(s, p, leaf).type = "CommitPage"
  /\ GetPageProofContinuedMessage.type = "GetPageProofContinued"
  /\ CommitPageProofContinuedMessage.type = "CommitPageProofContinued"
  /\ \A leaf, n, t, path :
       /\ GetPageMerkleResponse(leaf, n, t, path).type = "GetPageResponse"
       /\ GetPageMerkleResponse(leaf, n, t, path).kind = "Merkle"
  /\ \A leaf, h :
       /\ GetPageHmacResponse(leaf, h).type = "GetPageResponse"
       /\ GetPageHmacResponse(leaf, h).kind = "Hmac"
  /\ \A n, t, root, path :
       CommitPageProofResponse(n, t, root, path).type = "CommitPageProofResponse"
  /\ \A t, path :
       GetPageProofContinuedResponse(t, path).type = "GetPageProofContinuedResponse"
  /\ \A t, path :
       CommitPageProofContinuedResponse(t, path).type = "CommitPageProofContinuedResponse"
BY DEF NoMessage, GetPageMessage, CommitPageMessage, GetPageProofContinuedMessage,
       CommitPageProofContinuedMessage, GetPageMerkleResponse, GetPageHmacResponse,
       CommitPageProofResponse, GetPageProofContinuedResponse,
       CommitPageProofContinuedResponse

\* The leaves of a root are proved by their siblings in it.
LEMMA OwnPath ==
  ASSUME NEW root \in Roots, NEW p \in Pages
  PROVE  /\ IsPathOf(root, p, root[p], root)
         /\ \A leaf : IsPathOf(root, p, leaf, [root EXCEPT ![p] = leaf])
BY DEF IsPathOf, Roots

\* The client's storage is intact, and it sends the rest of a proof of the kind.
HonestHmacs == codeHmacs \in {NoHmacs, [p \in Pages |-> GenuineHmac(p)]}

SendsRest(kind, v) ==
  /\ v.ok
  /\ v.n = ProofLen
  /\ v.fed <= ProofLen
  /\ serving = Serving(kind, ProofLen - v.fed, merkleRoot[req.sec])

LEMMA LoadStepHonest ==
  ASSUME TypeOK, HonestHmacs, faults = 0, pc = "loading", segment = merkleRoot,
         NEW v \in Verifiers, v.leaf = merkleRoot[req.sec][req.page],
         SendsRest("GetPageProofContinued", v), LoadStep(v), UNCHANGED serverVars
  PROVE  HonestInv'
<1>1. v.fed \in Nat /\ v.n = ProofLen /\ ProofLen \in Nat /\ v.fed <= ProofLen /\ v.ok
  BY ClientCommandsAssumption DEF Verifiers, SendsRest
<1>2. HonestHmacs' /\ faults' = 0 /\ segment' = segment /\ serving' = serving
  BY DEF serverVars, HonestHmacs
<1>3. CASE /\ v.fed < v.n
           /\ verifier' = v
           /\ link' = GetPageProofContinuedMessage
           /\ UNCHANGED <<cachedPages, merkleRoot, lastAccessed, nonce, pc, req, slot, ret>>
  <2>1. ProofLen - (verifier'.fed + 0) = ProofLen - v.fed /\ verifier'.fed + 0 <= ProofLen
    BY <1>1, <1>3
  <2>2. ProofGoesOn("GetPageProofContinued", 0)'
    BY <1>1, <1>2, <1>3, <2>1 DEF ProofGoesOn, SendsRest
  <2>3. HonestLoading'
    BY <1>1, <1>2, <1>3, <2>2 DEF HonestLoading
  <2> QED
    BY <1>2, <1>3, <2>3 DEF HonestInv, HonestHmacs
<1>4. CASE /\ v.fed >= v.n
           /\ FillSlot(v.leaf)
           /\ UNCHANGED <<merkleRoot, nonce>>
  <2>1. ProofLen - v.fed = 0
    BY <1>1, <1>4
  <2>2. serving' = NotServing
    BY <1>2, <2>1 DEF SendsRest, Serving
  <2>3. pc' = "running" /\ link' = NoMessage
    BY <1>4 DEF FillSlot, Return
  <2> QED
    BY <1>2, <1>4, <2>2, <2>3 DEF HonestInv, HonestHmacs
<1>5. CASE v.fed >= v.n /\ ~ Verified(v)
  BY <1>1, <1>5 DEF Verified
<1> QED
  BY <1>3, <1>4, <1>5 DEF LoadStep

LEMMA CommitStepHonest ==
  ASSUME TypeOK, HonestHmacs, faults = 0, pc = "committing", ProofLen > 0,
         verifier.leaf.enc,
         segment = [merkleRoot EXCEPT ![req.sec] =
                      [@ EXCEPT ![cachedPages[req.sec][slot].idx] = verifier.leaf]],
         NEW v \in Verifiers, v.leaf = verifier.leaf, v.root = segment[req.sec],
         SendsRest("CommitPageProofContinued", v), CommitStep(v), UNCHANGED serverVars
  PROVE  HonestInv'
<1>1. v.fed \in Nat /\ v.n = ProofLen /\ ProofLen \in Nat /\ v.fed <= ProofLen /\ v.ok
  BY ClientCommandsAssumption DEF Verifiers, SendsRest
<1>2. HonestHmacs' /\ faults' = 0 /\ segment' = segment /\ serving' = serving
  BY DEF serverVars, HonestHmacs
<1>3. CASE /\ v.fed < v.n
           /\ verifier' = v
           /\ link' = CommitPageProofContinuedMessage
           /\ UNCHANGED <<cachedPages, merkleRoot, lastAccessed, nonce, pc, req, slot, ret>>
  <2>1. ProofLen - (verifier'.fed + 0) = ProofLen - v.fed /\ verifier'.fed + 0 <= ProofLen
    BY <1>1, <1>3
  <2>2. ProofGoesOn("CommitPageProofContinued", 0)'
    BY <1>1, <1>2, <1>3, <2>1 DEF ProofGoesOn, SendsRest
  <2>3. segment' = [merkleRoot' EXCEPT ![req'.sec] =
                      [@ EXCEPT ![cachedPages'[req'.sec][slot'].idx] = verifier'.leaf]]
    BY <1>2, <1>3
  <2>4. HonestCommitting'
    BY <1>1, <1>2, <1>3, <2>2, <2>3 DEF HonestCommitting
  <2> QED
    BY <1>2, <1>3, <2>4 DEF HonestInv, HonestHmacs
<1>4. CASE /\ v.fed >= v.n
           /\ merkleRoot' = [merkleRoot EXCEPT ![req.sec] = v.root]
           /\ RequestPage(req, slot)
  <2>1. ProofLen - v.fed = 0
    BY <1>1, <1>4
  <2>2. serving' = NotServing
    BY <1>2, <2>1 DEF SendsRest, Serving
  <2>3. pc' = "loading" /\ link' = GetPageMessage(req'.sec, req'.page)
    BY <1>4 DEF RequestPage
  <2>4. segment' = merkleRoot'
    BY <1>2, <1>4 DEF TypeOK, Accesses
  <2>5. HonestLoading'
    BY <2>2, <2>3, <2>4 DEF HonestLoading
  <2> QED
    BY <1>2, <2>3, <2>5 DEF HonestInv, HonestHmacs
<1>5. CASE v.fed >= v.n /\ ~ Verified(v)
  BY <1>1, <1>5 DEF Verified
<1> QED
  BY <1>3, <1>4, <1>5 DEF CommitStep

LEMMA MerklePageHonest ==
  ASSUME TypeOK, PagingInv, HonestInv, faults = 0, OnMerklePage, UNCHANGED serverVars
  PROVE  HonestInv'
<1>1. pc = "loading" /\ link.type = "GetPageResponse" /\ link.kind = "Merkle"
  BY DEF OnMerklePage
<1>2. PICK root, leaf : root = merkleRoot[req.sec] /\ leaf = root[req.page]
  OBVIOUS
<1>3. /\ link = GetPageMerkleResponse(leaf, ProofLen, FirstFragmentSize, root)
      /\ serving = Serving("GetPageProofContinued", ProofLen - FirstFragmentSize, root)
      /\ segment = merkleRoot /\ HonestHmacs
  BY <1>1, <1>2, MessageNames DEF HonestInv, HonestLoading, HonestHmacs
<1>4. /\ link.n = ProofLen /\ link.t = link.len /\ link.len = FirstFragmentSize
      /\ link.leaf = leaf /\ link.path = root
  BY <1>3 DEF GetPageMerkleResponse
<1>5. /\ req.sec \in Sections /\ req.page \in Pages /\ root \in Roots /\ leaf \in Leaves
      /\ ProofLen \in Nat /\ FirstFragmentSize \in Nat /\ FirstFragmentSize <= ProofLen
  BY <1>2, FragmentTypes, ClientCommandsAssumption DEF TypeOK, Accesses, Roots
<1> DEFINE b == root[req.page] = link.leaf
           sib == IsPathOf(link.path, req.page, link.leaf, root)
<1>6. b = TRUE /\ sib = TRUE
  BY <1>2, <1>4, <1>5, OwnPath DEF IsPathOf
<1>7. PICK w : w = Feed(BeginProof(link.n, link.leaf, root, TRUE), link.len, TRUE)
  OBVIOUS
<1>8. LoadStep(w)
  <2>1. LoadStep(Feed(BeginProof(link.n, link.leaf, root, b), link.len, sib))
    BY <1>2, <1>4 DEF OnMerklePage
  <2> HIDE DEF b, sib
  <2> QED
    BY <1>6, <1>7, <2>1
<1>9. w \in Verifiers
  BY <1>4, <1>5, <1>7 DEF BeginProof, Feed, Verifiers
<1>10. w.ok /\ w.n = link.n /\ w.fed = link.len /\ w.leaf = link.leaf
  <2>1. w.ok
    BY <1>7 DEF BeginProof, Feed
  <2>2. w.fed = link.len
    BY <1>4, <1>5, <1>7 DEF BeginProof, Feed
  <2>3. w.n = link.n /\ w.leaf = link.leaf
    BY <1>7 DEF BeginProof, Feed
  <2> QED
    BY <2>1, <2>2, <2>3
<1>11. SendsRest("GetPageProofContinued", w)
  BY <1>2, <1>3, <1>4, <1>5, <1>10 DEF SendsRest
<1> QED
  BY <1>1, <1>2, <1>3, <1>4, <1>8, <1>9, <1>10, <1>11, LoadStepHonest

LEMMA MerklePageContinuedHonest ==
  ASSUME TypeOK, PagingInv, HonestInv, faults = 0, OnMerklePageContinued, UNCHANGED serverVars
  PROVE  HonestInv'
<1>1. pc = "loading" /\ link.type = "GetPageProofContinuedResponse"
  BY DEF OnMerklePageContinued
<1>2. PICK root : root = merkleRoot[req.sec]
  OBVIOUS
<1>3. HonestLoading /\ HonestHmacs
  BY <1>1 DEF HonestInv, HonestHmacs
<1>4. PICK t \in 1 .. ProofLen :
        /\ link = GetPageProofContinuedResponse(t, root)
        /\ ProofGoesOn("GetPageProofContinued", t)
        /\ verifier.leaf = root[req.page]
  BY <1>1, <1>2, <1>3, MessageNames DEF HonestLoading
<1>5. link.t = link.len /\ link.len = t /\ link.path = root
  BY <1>4 DEF GetPageProofContinuedResponse
<1>6. /\ req.sec \in Sections /\ req.page \in Pages /\ root \in Roots
      /\ verifier \in Verifiers /\ verifier.leaf \in Leaves /\ verifier.fed \in Nat
      /\ t \in Nat /\ ProofLen \in Nat
  BY <1>2, ClientCommandsAssumption DEF TypeOK, Accesses, Verifiers
<1> DEFINE sib == IsPathOf(link.path, req.page, verifier.leaf, root)
<1>7. sib = TRUE
  BY <1>4, <1>5, <1>6, OwnPath DEF IsPathOf
<1>8. PICK w : w = Feed(verifier, link.len, TRUE)
  OBVIOUS
<1>9. LoadStep(w)
  <2>1. LoadStep(Feed(verifier, link.len, sib))
    BY <1>2, <1>5 DEF OnMerklePageContinued
  <2> HIDE DEF sib
  <2> QED
    BY <1>7, <1>8, <2>1
<1>10. w \in Verifiers
  BY <1>5, <1>6, <1>8 DEF Feed, Verifiers
<1>11. w.ok /\ w.n = verifier.n /\ w.fed = verifier.fed + t /\ w.leaf = verifier.leaf
  <2>1. w.ok
    BY <1>4, <1>8 DEF Feed, ProofGoesOn
  <2>2. w.n = verifier.n /\ w.fed = verifier.fed + t /\ w.leaf = verifier.leaf
    BY <1>5, <1>8 DEF Feed
  <2> QED
    BY <2>1, <2>2
<1>12. SendsRest("GetPageProofContinued", w)
  BY <1>2, <1>4, <1>6, <1>11 DEF SendsRest, ProofGoesOn
<1> QED
  BY <1>1, <1>2, <1>3, <1>4, <1>9, <1>10, <1>11, <1>12, LoadStepHonest DEF HonestLoading

LEMMA CommitPageProofHonest ==
  ASSUME TypeOK, PagingInv, HonestInv, faults = 0, OnCommitPageProof, UNCHANGED serverVars
  PROVE  HonestInv'
<1>1. pc = "committing" /\ link.type = "CommitPageProofResponse"
  BY DEF OnCommitPageProof
<1>2. PICK root, page, idx, new :
        /\ root = merkleRoot[req.sec] /\ page = cachedPages[req.sec][slot]
        /\ idx = page.idx /\ new = [root EXCEPT ![idx] = verifier.leaf]
  OBVIOUS
<1>3. HonestCommitting /\ HonestHmacs
  BY <1>1 DEF HonestInv, HonestHmacs
<1>4. /\ req.sec \in Sections /\ req.page \in Pages /\ root \in Roots
      /\ verifier.leaf \in Leaves /\ idx \in Pages /\ slot \in Slots
      /\ ProofLen \in Nat /\ FirstFragmentSize \in Nat /\ FirstFragmentSize <= ProofLen
  BY <1>2, FragmentTypes, ClientCommandsAssumption DEF TypeOK, Accesses, Roots, CachedPage, Verifiers
<1>5. segment = [merkleRoot EXCEPT ![req.sec] = [@ EXCEPT ![idx] = verifier.leaf]]
  BY <1>1, <1>2, <1>3, MessageNames DEF HonestCommitting
<1>6. segment[req.sec] = new /\ new \in Roots
  BY <1>2, <1>4, <1>5 DEF TypeOK, Roots
<1>7. /\ link = CommitPageProofResponse(ProofLen, FirstFragmentSize, new, root)
      /\ serving = Serving("CommitPageProofContinued", ProofLen - FirstFragmentSize, root)
      /\ ProofLen > 0 /\ verifier.leaf.enc
  BY <1>1, <1>2, <1>3, <1>6, MessageNames DEF HonestCommitting
<1>8. /\ link.n = ProofLen /\ link.t = link.len /\ link.len = FirstFragmentSize
      /\ link.newRoot = new /\ link.path = root /\ link.n # 0
  BY <1>4, <1>7 DEF CommitPageProofResponse
<1> DEFINE b == /\ merkleRoot[req.sec][page.idx] = page.pageHash
                /\ link.newRoot[page.idx] = verifier.leaf
<1>9. page.pageHash = root[idx]
  <2>1. page.valid
    BY <1>1, <1>2 DEF PagingInv, CommittingOK
  <2> QED
    BY <1>2, <1>4, <2>1 DEF PagingInv, CachedHashIsCurrent
<1>10. PICK v : v = BeginProof(link.n, verifier.leaf, link.newRoot, TRUE)
  OBVIOUS
<1>11. v.leaf = verifier.leaf /\ v.root = new
  BY <1>8, <1>10 DEF BeginProof
<1> DEFINE sib == UpdateSiblings(v, link.path)
<1>12. b = TRUE
  BY <1>2, <1>4, <1>8, <1>9 DEF Roots
<1>13. sib = TRUE
  <2>1. IsPathOf(root, idx, root[idx], root) /\ IsPathOf(root, idx, verifier.leaf, new)
    BY <1>2, <1>4, OwnPath
  <2> QED
    BY <1>2, <1>8, <1>9, <1>11, <2>1 DEF UpdateSiblings, IsPathOf
<1>14. PICK w : w = Feed(v, link.len, TRUE)
  OBVIOUS
<1>15. CommitStep(w)
  <2>1. ASSUME NEW u, u = BeginProof(link.n, verifier.leaf, link.newRoot, b)
        PROVE  CommitStep(Feed(u, link.len, UpdateSiblings(u, link.path)))
    BY <1>2, <1>8, <2>1 DEF OnCommitPageProof
  <2>2. v = BeginProof(link.n, verifier.leaf, link.newRoot, b)
    <3> HIDE DEF b
    <3> QED
      BY <1>10, <1>12
  <2>3. CommitStep(Feed(v, link.len, sib))
    BY <2>1, <2>2
  <2> HIDE DEF sib
  <2> QED
    BY <1>13, <1>14, <2>3
<1>16. /\ w \in Verifiers
       /\ w.ok /\ w.n = link.n /\ w.fed = link.len /\ w.leaf = verifier.leaf /\ w.root = new
  <2>1. w \in Verifiers
    BY <1>4, <1>6, <1>8, <1>10, <1>14 DEF BeginProof, Feed, Verifiers
  <2>2. w.ok
    BY <1>10, <1>14 DEF BeginProof, Feed
  <2>3. w.fed = link.len
    BY <1>4, <1>8, <1>10, <1>14 DEF BeginProof, Feed
  <2>4. w.n = link.n /\ w.leaf = verifier.leaf /\ w.root = new
    BY <1>8, <1>10, <1>14 DEF BeginProof, Feed
  <2> QED
    BY <2>1, <2>2, <2>3, <2>4
<1>17. SendsRest("CommitPageProofContinued", w)
  BY <1>2, <1>4, <1>7, <1>8, <1>16 DEF SendsRest
<1> QED
  BY <1>1, <1>2, <1>3, <1>5, <1>6, <1>7, <1>15, <1>16, <1>17, CommitStepHonest

LEMMA CommitPageProofContinuedHonest ==
  ASSUME TypeOK, PagingInv, HonestInv, faults = 0, OnCommitPageProofContinued,
         UNCHANGED serverVars
  PROVE  HonestInv'
<1>1. pc = "committing" /\ link.type = "CommitPageProofContinuedResponse"
  BY DEF OnCommitPageProofContinued
<1>2. PICK root, page, idx, new :
        /\ root = merkleRoot[req.sec] /\ page = cachedPages[req.sec][slot]
        /\ idx = page.idx /\ new = [root EXCEPT ![idx] = verifier.leaf]
  OBVIOUS
<1>3. HonestCommitting /\ HonestHmacs
  BY <1>1 DEF HonestInv, HonestHmacs
<1>4. /\ req.sec \in Sections /\ req.page \in Pages /\ root \in Roots
      /\ verifier.leaf \in Leaves /\ idx \in Pages /\ slot \in Slots
      /\ verifier \in Verifiers /\ verifier.fed \in Nat /\ ProofLen \in Nat
  BY <1>2, ClientCommandsAssumption DEF TypeOK, Accesses, Roots, CachedPage, Verifiers
<1>5. segment = [merkleRoot EXCEPT ![req.sec] = [@ EXCEPT ![idx] = verifier.leaf]]
  BY <1>1, <1>2, <1>3, MessageNames DEF HonestCommitting
<1>6. segment[req.sec] = new /\ new \in Roots
  BY <1>2, <1>4, <1>5 DEF TypeOK, Roots
<1>7. PICK t \in 1 .. ProofLen :
        /\ link = CommitPageProofContinuedResponse(t, root)
        /\ ProofGoesOn("CommitPageProofContinued", t)
        /\ verifier.root = new
  BY <1>1, <1>2, <1>3, <1>6, MessageNames DEF HonestCommitting
<1>8. ProofLen > 0 /\ verifier.leaf.enc
  BY <1>3 DEF HonestCommitting
<1>9. link.t = link.len /\ link.len = t /\ link.path = root /\ t \in Nat
  BY <1>4, <1>7 DEF CommitPageProofContinuedResponse
<1> DEFINE sib == UpdateSiblings(verifier, link.path)
<1>10. page.pageHash = root[idx]
  <2>1. page.valid
    BY <1>1, <1>2 DEF PagingInv, CommittingOK
  <2> QED
    BY <1>2, <1>4, <2>1 DEF PagingInv, CachedHashIsCurrent
<1>11. sib = TRUE
  <2>1. IsPathOf(root, idx, root[idx], root) /\ IsPathOf(root, idx, verifier.leaf, new)
    BY <1>2, <1>4, OwnPath
  <2> QED
    BY <1>2, <1>7, <1>9, <1>10, <2>1 DEF UpdateSiblings, IsPathOf
<1>12. PICK w : w = Feed(verifier, link.len, TRUE)
  OBVIOUS
<1>15. CommitStep(w)
  <2>1. CommitStep(Feed(verifier, link.len, sib))
    BY <1>9 DEF OnCommitPageProofContinued
  <2> HIDE DEF sib
  <2> QED
    BY <1>11, <1>12, <2>1
<1>16. /\ w \in Verifiers
       /\ w.ok /\ w.n = verifier.n /\ w.fed = verifier.fed + t
       /\ w.leaf = verifier.leaf /\ w.root = verifier.root
  <2>1. w \in Verifiers
    BY <1>4, <1>9, <1>12 DEF Feed, Verifiers
  <2>2. w.ok
    BY <1>7, <1>12 DEF Feed, ProofGoesOn
  <2>3. /\ w.n = verifier.n /\ w.fed = verifier.fed + t
        /\ w.leaf = verifier.leaf /\ w.root = verifier.root
    BY <1>9, <1>12 DEF Feed
  <2> QED
    BY <2>1, <2>2, <2>3
<1>17. SendsRest("CommitPageProofContinued", w)
  BY <1>2, <1>4, <1>7, <1>16 DEF SendsRest, ProofGoesOn
<1> QED
  BY <1>1, <1>2, <1>3, <1>5, <1>6, <1>7, <1>8, <1>15, <1>16, <1>17, CommitStepHonest

LEMMA HmacPageHonest ==
  ASSUME TypeOK, PagingInv, HonestInv, faults = 0, OnHmacPage, UNCHANGED serverVars
  PROVE  HonestInv'
<1>1. pc = "loading" /\ link.type = "GetPageResponse" /\ link.kind = "Hmac"
  BY DEF OnHmacPage
<1>2. /\ link = GetPageHmacResponse(InitialRoot[Code][req.page], GenuineHmac(req.page))
      /\ req.sec = Code /\ serving = NotServing
      /\ segment = merkleRoot /\ HonestHmacs
  BY <1>1, MessageNames DEF HonestInv, HonestLoading, HonestHmacs
<1>3. Code \in Sections /\ req.page \in Pages
  BY <1>2 DEF TypeOK, Accesses
<1>4. InitialRoot[Code][req.page] = ClearLeaf(InitialContent[Code][req.page])
  BY <1>3 DEF InitialRoot
<1>5. HmacAccepted
  BY <1>2, <1>4 DEF HmacAccepted, GetPageHmacResponse, GenuineHmac, ExpectedHmac, ClearLeaf
<1>6. FillSlot(link.leaf) /\ UNCHANGED <<merkleRoot, nonce>>
  BY <1>5 DEF OnHmacPage
<1>7. pc' = "running" /\ link' = NoMessage
  BY <1>6 DEF FillSlot, Return
<1> QED
  BY <1>2, <1>6, <1>7 DEF HonestInv, HonestHmacs, serverVars

LEMMA GetPageHonest ==
  ASSUME TypeOK, PagingInv, HonestInv, faults = 0, NEW a \in Accesses, GetPage(a),
         UNCHANGED serverVars
  PROVE  HonestInv'
<1>1. pc = "running"
  BY DEF GetPage, GetPageAgain, GetPageHit, GetPageMiss, GetPageEvictClean,
         GetPageEvictModified, NotLastAccessed
<1>2. segment = merkleRoot /\ serving = NotServing /\ HonestHmacs
  BY <1>1 DEF HonestInv, HonestHmacs
<1>3. HonestHmacs' /\ segment' = segment /\ serving' = serving
  BY <1>2 DEF serverVars, HonestHmacs
<1>4. CASE GetPageAgain(a) \/ GetPageHit(a)
  <2>1. pc' = "running" /\ link' = NoMessage /\ merkleRoot' = merkleRoot
    BY <1>4 DEF GetPageAgain, GetPageHit, Return
  <2> QED
    BY <1>2, <1>3, <2>1 DEF HonestInv, HonestHmacs
<1>5. CASE GetPageMiss(a) \/ \E victim \in Slots : GetPageEvictClean(a, victim)
  <2>1. /\ pc' = "loading" /\ link' = GetPageMessage(req'.sec, req'.page)
        /\ merkleRoot' = merkleRoot
    BY <1>5 DEF GetPageMiss, GetPageEvictClean, RequestPage
  <2>2. HonestLoading'
    BY <1>2, <1>3, <2>1 DEF HonestLoading
  <2> QED
    BY <1>2, <1>3, <2>1, <2>2 DEF HonestInv, HonestHmacs
<1>6. ASSUME NEW victim \in Slots, GetPageEvictModified(a, victim)
      PROVE  HonestInv'
  <2>1. PICK newLeaf : newLeaf = EncryptedLeaf(nonce, cachedPages[a.sec][victim].page)
    OBVIOUS
  <2>2. /\ pc' = "committing" /\ req' = a /\ slot' = victim
        /\ verifier' = [NoProof EXCEPT !.leaf = newLeaf]
        /\ link' = CommitPageMessage(a.sec, cachedPages[a.sec][victim].idx, newLeaf)
        /\ cachedPages' = cachedPages /\ merkleRoot' = merkleRoot
        /\ Cached(a.sec, a.page) = {} /\ Free(a.sec) = {}
    BY <1>6, <2>1 DEF GetPageEvictModified
  <2>3. verifier'.leaf = newLeaf /\ newLeaf.enc
    BY <2>1, <2>2 DEF NoProof, EncryptedLeaf
  <2>4. ProofLen > 0
    <3>1. a.sec \in Sections /\ a.page \in Pages
      BY DEF Accesses
    <3>2. cachedPages[a.sec][victim].idx \in Pages /\ cachedPages[a.sec][victim].idx # a.page
      BY <2>2, <3>1 DEF TypeOK, CachedPage, Cached, Free
    <3> QED
      BY <3>1, <3>2, ClientCommandsAssumption DEF Pages
  <2>5. HonestCommitting'
    BY <1>2, <1>3, <2>2, <2>3, <2>4 DEF HonestCommitting
  <2> QED
    BY <1>3, <2>2, <2>5 DEF HonestInv, HonestHmacs
<1> QED
  BY <1>4, <1>5, <1>6 DEF GetPage

\* What the two handlers accept, by the type of the request.
LEMMA ServableCases ==
  /\ link.type = "GetPage" =>
       (Servable <=> /\ serving = NotServing
                     /\ UsesHmac(link.sec) => /\ ~ segment[Code][link.page].enc
                                              /\ segment[Code][link.page].nonce = 0)
  /\ link.type = "CommitPage" =>
       (Servable <=> serving = NotServing /\ link.sec # Code /\ link.leaf.enc)
  /\ link.type \in {"GetPageProofContinued", "CommitPageProofContinued"} =>
       (Servable <=> serving.kind = link.type /\ serving.left > 0)
BY DEF Servable

\* An honest client that is asked for more of a proof has more.
LEMMA RestIsServed ==
  ASSUME NEW kind \in {"GetPageProofContinued", "CommitPageProofContinued"},
         TypeOK, ProofGoesOn(kind, 0), verifier.fed < ProofLen
  PROVE  /\ serving.kind = kind
         /\ serving.left = ProofLen - verifier.fed
         /\ serving.left \in 1 .. ProofLen
         /\ serving.path = merkleRoot[req.sec]
         /\ serving # NotServing /\ serving # Failed
<1>1. verifier.fed \in Nat /\ ProofLen \in Nat
  BY ClientCommandsAssumption DEF TypeOK, Verifiers
<1>2. ProofLen - (verifier.fed + 0) = ProofLen - verifier.fed /\ ProofLen - verifier.fed \in 1 .. ProofLen
  BY <1>1
<1>3. serving = [kind |-> kind, left |-> ProofLen - verifier.fed, path |-> merkleRoot[req.sec]]
  BY <1>1, <1>2 DEF ProofGoesOn, Serving
<1> QED
  BY <1>2, <1>3 DEF NotServing, Failed

\* Where an intact client is when it has a request to answer.
LEMMA HonestRequests ==
  ASSUME TypeOK, PagingInv, HonestInv, faults = 0
  PROVE  /\ HonestHmacs
         /\ link.type = "GetPage" =>
              /\ pc = "loading" /\ segment = merkleRoot /\ serving = NotServing
              /\ link.sec = req.sec /\ link.page = req.page
         /\ link.type = "CommitPage" =>
              /\ pc = "committing" /\ segment = merkleRoot /\ serving = NotServing
              /\ ProofLen > 0 /\ verifier.leaf.enc
              /\ link.sec = req.sec /\ link.page = cachedPages[req.sec][slot].idx
              /\ link.leaf = verifier.leaf
         /\ link.type = "GetPageProofContinued" =>
              /\ pc = "loading" /\ segment = merkleRoot
              /\ verifier.leaf = merkleRoot[req.sec][req.page]
              /\ verifier.fed < ProofLen
              /\ ProofGoesOn("GetPageProofContinued", 0)
         /\ link.type = "CommitPageProofContinued" =>
              /\ pc = "committing" /\ ProofLen > 0 /\ verifier.leaf.enc
              /\ segment = [merkleRoot EXCEPT ![req.sec] =
                              [@ EXCEPT ![cachedPages[req.sec][slot].idx] = verifier.leaf]]
              /\ verifier.root = segment[req.sec]
              /\ verifier.fed < ProofLen
              /\ ProofGoesOn("CommitPageProofContinued", 0)
<1>1. HonestHmacs
  BY DEF HonestInv, HonestHmacs
<1>2. CASE link.type = "GetPage"
  <2>1. pc = "loading" /\ HonestLoading
    BY <1>2, MessageNames DEF HonestInv, HonestCommitting
  <2>2. link = GetPageMessage(req.sec, req.page) /\ serving = NotServing /\ segment = merkleRoot
    BY <1>2, <2>1, MessageNames DEF HonestLoading
  <2>3. link.sec = req.sec /\ link.page = req.page
    BY <2>2 DEF GetPageMessage
  <2> QED
    BY <1>1, <1>2, <2>1, <2>2, <2>3
<1>3. CASE link.type = "CommitPage"
  <2>1. pc = "committing" /\ HonestCommitting
    BY <1>3, MessageNames DEF HonestInv, HonestLoading
  <2>2. /\ link = CommitPageMessage(req.sec, cachedPages[req.sec][slot].idx, verifier.leaf)
        /\ serving = NotServing /\ segment = merkleRoot /\ ProofLen > 0 /\ verifier.leaf.enc
    BY <1>3, <2>1, MessageNames DEF HonestCommitting
  <2>3. /\ link.sec = req.sec /\ link.page = cachedPages[req.sec][slot].idx
        /\ link.leaf = verifier.leaf
    BY <2>2 DEF CommitPageMessage
  <2> QED
    BY <1>1, <1>3, <2>1, <2>2, <2>3
<1>4. CASE link.type = "GetPageProofContinued"
  <2>1. pc = "loading" /\ HonestLoading
    BY <1>4, MessageNames DEF HonestInv, HonestCommitting
  <2> QED
    BY <1>1, <1>4, <2>1, MessageNames DEF HonestLoading
<1>5. CASE link.type = "CommitPageProofContinued"
  <2>1. pc = "committing" /\ HonestCommitting
    BY <1>5, MessageNames DEF HonestInv, HonestLoading
  <2> QED
    BY <1>1, <1>5, <2>1, MessageNames DEF HonestCommitting
<1> QED
  BY <1>1, <1>2, <1>3, <1>4, <1>5

LEMMA HonestServes ==
  ASSUME TypeOK, PagingInv, HonestInv, faults = 0,
         link.type \in {"GetPage", "CommitPage", "GetPageProofContinued",
                        "CommitPageProofContinued"}
  PROVE  Servable
<1>1. CASE link.type = "GetPage"
  <2>1. /\ segment = merkleRoot /\ serving = NotServing
        /\ link.sec = req.sec /\ link.page = req.page
    BY <1>1, HonestRequests
  <2>2. ASSUME UsesHmac(link.sec)
        PROVE  ~ segment[Code][link.page].enc /\ segment[Code][link.page].nonce = 0
    <3>1. Code \in Sections /\ req.page \in Pages
      BY <2>1, <2>2 DEF UsesHmac, TypeOK, Accesses
    <3>2. segment[Code][link.page] = ClearLeaf(InitialContent[Code][req.page])
      BY <2>1, <3>1 DEF PagingInv, CodeRootFixed, InitialRoot
    <3> QED
      BY <3>2 DEF ClearLeaf
  <2> QED
    BY <1>1, <2>1, <2>2, ServableCases
<1>2. CASE link.type = "CommitPage"
  <2>1. /\ pc = "committing" /\ serving = NotServing /\ link.sec = req.sec /\ link.leaf.enc
    BY <1>2, HonestRequests
  <2>2. req.sec # Code
    BY <2>1 DEF PagingInv, CommittingOK
  <2> QED
    BY <1>2, <2>1, <2>2, ServableCases
<1>3. CASE link.type = "GetPageProofContinued"
  BY <1>3, HonestRequests, RestIsServed, ServableCases
<1>4. CASE link.type = "CommitPageProofContinued"
  BY <1>4, HonestRequests, RestIsServed, ServableCases
<1> QED
  BY <1>1, <1>2, <1>3, <1>4

LEMMA ServePageHonest ==
  ASSUME TypeOK, PagingInv, HonestInv, faults = 0, UNCHANGED vmVars,
         ServePageWithProof \/ ServePageWithHmac
  PROVE  HonestInv'
<1>1. link.type = "GetPage"
  BY DEF ServePageWithProof, ServePageWithHmac
<1>2. /\ pc = "loading" /\ segment = merkleRoot /\ serving = NotServing /\ HonestHmacs
      /\ link.sec = req.sec /\ link.page = req.page
  BY <1>1, HonestRequests
<1>3. pc' = pc /\ merkleRoot' = merkleRoot /\ req' = req
  BY DEF vmVars
<1>4. segment' = segment /\ HonestHmacs' /\ faults' = 0
  BY <1>2 DEF ServePageWithProof, ServePageWithHmac, serverVars, HonestHmacs
<1>5. CASE ServePageWithProof
  <2>1. /\ link' = GetPageMerkleResponse(merkleRoot[req.sec][req.page], ProofLen,
                                         FirstFragmentSize, merkleRoot[req.sec])
        /\ serving' = Serving("GetPageProofContinued", ProofLen - FirstFragmentSize,
                              merkleRoot[req.sec])
    BY <1>2, <1>5 DEF ServePageWithProof
  <2>2. HonestLoading'
    BY <1>2, <1>3, <1>4, <2>1 DEF HonestLoading
  <2> QED
    BY <1>2, <1>3, <1>4, <2>2 DEF HonestInv, HonestHmacs
<1>6. CASE ServePageWithHmac
  <2>1. Code \in Sections /\ req.page \in Pages /\ req.sec = Code /\ codeHmacs # NoHmacs
    BY <1>2, <1>6 DEF ServePageWithHmac, UsesHmac, TypeOK, Accesses
  <2>2. codeHmacs[req.page] = GenuineHmac(req.page)
    BY <1>2, <2>1 DEF HonestHmacs
  <2>3. segment[Code][req.page] = InitialRoot[Code][req.page]
    BY <1>2, <2>1 DEF PagingInv, CodeRootFixed
  <2>4. link' = GetPageHmacResponse(InitialRoot[Code][req.page], GenuineHmac(req.page))
    BY <1>2, <1>6, <2>2, <2>3 DEF ServePageWithHmac
  <2>5. serving' = NotServing
    BY <1>2, <1>6 DEF ServePageWithHmac, serverVars
  <2>6. HonestLoading'
    BY <1>2, <1>3, <1>4, <2>1, <2>4, <2>5 DEF HonestLoading
  <2> QED
    BY <1>2, <1>3, <1>4, <2>6 DEF HonestInv, HonestHmacs
<1> QED
  BY <1>5, <1>6

LEMMA StorePageHonest ==
  ASSUME TypeOK, PagingInv, HonestInv, faults = 0, UNCHANGED vmVars, StorePage
  PROVE  HonestInv'
<1>1. link.type = "CommitPage"
  BY DEF StorePage
<1>2. PICK idx, root, new : /\ idx = cachedPages[req.sec][slot].idx /\ root = merkleRoot[req.sec]
                            /\ new = [root EXCEPT ![idx] = verifier.leaf]
  OBVIOUS
<1>3. /\ pc = "committing" /\ segment = merkleRoot /\ HonestHmacs
      /\ ProofLen > 0 /\ verifier.leaf.enc
      /\ link.sec = req.sec /\ link.page = idx /\ link.leaf = verifier.leaf
  BY <1>1, <1>2, HonestRequests
<1>4. /\ pc' = pc /\ merkleRoot' = merkleRoot /\ req' = req /\ slot' = slot
      /\ verifier' = verifier /\ cachedPages' = cachedPages
  BY DEF vmVars
<1>5. /\ segment' = [merkleRoot EXCEPT ![req.sec] = new]
      /\ link' = CommitPageProofResponse(ProofLen, FirstFragmentSize, new, root)
      /\ serving' = Serving("CommitPageProofContinued", ProofLen - FirstFragmentSize, root)
      /\ faults' = 0 /\ HonestHmacs'
  BY <1>2, <1>3 DEF StorePage, HonestHmacs
<1>6. segment'[req.sec] = new
  BY <1>5 DEF TypeOK, Accesses
<1>7. segment' = [merkleRoot EXCEPT ![req.sec] = [@ EXCEPT ![idx] = verifier.leaf]]
  BY <1>2, <1>5
<1>8. HonestCommitting'
  BY <1>2, <1>3, <1>4, <1>5, <1>6, <1>7 DEF HonestCommitting
<1> QED
  BY <1>3, <1>4, <1>5, <1>8 DEF HonestInv, HonestHmacs

LEMMA ContinueProofHonest ==
  ASSUME TypeOK, PagingInv, HonestInv, faults = 0, UNCHANGED vmVars, ContinueProof
  PROVE  HonestInv'
<1>1. link.type \in {"GetPageProofContinued", "CommitPageProofContinued"}
  BY DEF ContinueProof
<1>2. PICK kind : kind = link.type
  OBVIOUS
<1>3. /\ ProofGoesOn(kind, 0) /\ verifier.fed < ProofLen /\ HonestHmacs
  BY <1>1, <1>2, HonestRequests
<1>4. PICK t, left : left = serving.left /\ t = NextFragmentSize(left)
  OBVIOUS
<1>5. /\ serving.kind = kind /\ left = ProofLen - verifier.fed /\ left \in 1 .. ProofLen
      /\ serving.path = merkleRoot[req.sec]
  BY <1>1, <1>2, <1>3, <1>4, RestIsServed
<1>6. t \in 1 .. left /\ t \in 1 .. ProofLen
  BY <1>4, <1>5, ClientCommandsAssumption DEF NextFragmentSize, LeastOf
<1>7. /\ pc' = pc /\ merkleRoot' = merkleRoot /\ req' = req /\ slot' = slot
      /\ verifier' = verifier /\ cachedPages' = cachedPages
  BY DEF vmVars
<1>8. /\ serving' = Serving(kind, left - t, merkleRoot[req.sec])
      /\ segment' = segment /\ faults' = 0 /\ HonestHmacs'
      /\ kind = "GetPageProofContinued" =>
           link' = GetPageProofContinuedResponse(t, merkleRoot[req.sec])
      /\ kind = "CommitPageProofContinued" =>
           link' = CommitPageProofContinuedResponse(t, merkleRoot[req.sec])
  BY <1>2, <1>3, <1>4, <1>5 DEF ContinueProof, HonestHmacs
<1>9. ProofGoesOn(kind, t)'
  <2>1. verifier.fed \in Nat /\ ProofLen \in Nat
    BY ClientCommandsAssumption DEF TypeOK, Verifiers
  <2>2. verifier.fed + t <= ProofLen /\ left - t = ProofLen - (verifier.fed + t)
    BY <1>5, <1>6, <2>1
  <2> QED
    BY <1>3, <1>7, <1>8, <2>2 DEF ProofGoesOn
<1>10. CASE kind = "GetPageProofContinued"
  <2>1. pc = "loading" /\ segment = merkleRoot /\ verifier.leaf = merkleRoot[req.sec][req.page]
    BY <1>2, <1>10, HonestRequests
  <2>2. HonestLoading'
    BY <1>6, <1>7, <1>8, <1>9, <1>10, <2>1 DEF HonestLoading
  <2> QED
    BY <1>7, <1>8, <2>1, <2>2 DEF HonestInv, HonestHmacs
<1>11. CASE kind = "CommitPageProofContinued"
  <2>1. /\ pc = "committing" /\ ProofLen > 0 /\ verifier.leaf.enc
        /\ segment = [merkleRoot EXCEPT ![req.sec] =
                        [@ EXCEPT ![cachedPages[req.sec][slot].idx] = verifier.leaf]]
        /\ verifier.root = segment[req.sec]
    BY <1>2, <1>11, HonestRequests
  <2>2. segment' = [merkleRoot' EXCEPT ![req'.sec] =
                      [@ EXCEPT ![cachedPages'[req'.sec][slot'].idx] = verifier'.leaf]]
    BY <1>7, <1>8, <2>1
  <2>3. HonestCommitting'
    BY <1>6, <1>7, <1>8, <1>9, <1>11, <2>1, <2>2 DEF HonestCommitting
  <2> QED
    BY <1>7, <1>8, <2>1, <2>3 DEF HonestInv, HonestHmacs
<1> QED
  BY <1>1, <1>2, <1>10, <1>11

LEMMA HonestStep == TypeOK /\ PagingInv /\ HonestInv /\ [Next]_vars => HonestInv'
<1> SUFFICES ASSUME TypeOK, PagingInv, HonestInv, [Next]_vars PROVE HonestInv'
  OBVIOUS
<1>1. faults \in Nat
  BY PageServerAssumption DEF TypeOK
<1>2. CASE VMNext /\ UNCHANGED serverVars
  <2>1. CASE faults = 0
    BY <1>2, <2>1, GetPageHonest, CommitPageProofHonest, CommitPageProofContinuedHonest,
       MerklePageHonest, MerklePageContinuedHonest, HmacPageHonest DEF VMNext
  <2>2. CASE faults # 0
    BY <1>2, <2>2 DEF HonestInv, serverVars
  <2> QED
    BY <2>1, <2>2
<1>3. CASE ServerNext /\ UNCHANGED vmVars
  <2>1. CASE faults # 0
    <3>1. faults' # 0
      BY <1>1, <1>3, <2>1 DEF ServerNext, ServePageWithProof, ServePageWithHmac, StorePage,
           ContinueProof, RefuseRequest, CorruptPage, CorruptHmac, GarbleAnswer, Fault, serverVars
    <3> QED
      BY <3>1 DEF HonestInv
  <2>2. CASE faults = 0 /\ (ServePageWithProof \/ ServePageWithHmac)
    BY <1>3, <2>2, ServePageHonest
  <2>3. CASE faults = 0 /\ StorePage
    BY <1>3, <2>3, StorePageHonest
  <2>4. CASE faults = 0 /\ ContinueProof
    BY <1>3, <2>4, ContinueProofHonest
  <2>5. CASE faults = 0 /\ RefuseRequest
    BY <2>5, HonestServes DEF RefuseRequest
  <2>6. CASE Fault
    <3>1. faults' # 0
      BY <1>1, <2>6 DEF Fault
    <3> QED
      BY <3>1 DEF HonestInv
  <2> QED
    BY <1>3, <2>1, <2>2, <2>3, <2>4, <2>5, <2>6 DEF ServerNext, CorruptPage, CorruptHmac, GarbleAnswer
<1>4. CASE UNCHANGED vars
  BY <1>4 DEF vars, vmVars, serverVars, HonestInv, HonestLoading, HonestCommitting, ProofGoesOn
<1> QED
  BY <1>2, <1>3, <1>4 DEF Next

\* As long as its storage and its answers are intact, the client of process_get_page
\* and process_commit_page never makes a check of load_page or commit_page_at fail,
\* and holds the leaves of the VM's root whenever the V-App runs.
THEOREM HonestSafety == Spec => []HonestClientSucceeds
<1>1. HonestInv => HonestClientSucceeds
  BY DEF HonestInv, HonestClientSucceeds, HonestLoading, HonestCommitting, ProofGoesOn,
         Serving, NotServing, Failed
<1>2. TypeOK /\ PagingInv /\ HonestInv /\ [Next]_vars => TypeOK' /\ PagingInv' /\ HonestInv'
  BY TypeOKStep, PagingInvStep, HonestStep
<1> QED
  BY <1>1, <1>2, TypeOKInit, PagingInvInit, HonestInit, PTL DEF Spec

-----------------------------------------------------------------------------
(* Every access completes. *)

LEMMA NothingFedInit == Init => NothingFed
BY MessageNames DEF Init, VMInit, NothingFed

LEMMA NothingFedStep == TypeOK /\ NothingFed /\ [Next]_vars => NothingFed'
<1> SUFFICES ASSUME TypeOK, NothingFed, [Next]_vars PROVE NothingFed'
  OBVIOUS
<1>1. CASE VMNext
  <2>1. ASSUME NEW a, NEW i, RequestPage(a, i) PROVE NothingFed'
    BY <2>1 DEF RequestPage, NoProof, NothingFed
  <2>2. ASSUME NEW v, CommitStep(v) \/ LoadStep(v) \/ Abort PROVE NothingFed'
    BY <2>1, <2>2, MessageNames DEF CommitStep, LoadStep, Abort, FillSlot, Return, NothingFed
  <2>3. ASSUME NEW a \in Accesses, GetPage(a) PROVE NothingFed'
    BY <2>1, <2>3, MessageNames
    DEF GetPage, GetPageAgain, GetPageHit, GetPageMiss, GetPageEvictClean,
        GetPageEvictModified, Return, NoProof, NothingFed
  <2>4. CASE OnCommitPageProof \/ OnCommitPageProofContinued
    BY <2>2, <2>4 DEF OnCommitPageProof, OnCommitPageProofContinued
  <2>5. CASE OnMerklePage \/ OnMerklePageContinued
    BY <2>2, <2>5 DEF OnMerklePage, OnMerklePageContinued
  <2>6. CASE OnHmacPage
    BY <2>2, <2>6, MessageNames DEF OnHmacPage, FillSlot, Return, NothingFed
  <2> QED
    BY <1>1, <2>3, <2>4, <2>5, <2>6 DEF VMNext
<1>2. CASE ServerNext /\ UNCHANGED vmVars
  <2>1. ASSUME link' = link PROVE NothingFed'
    BY <1>2, <2>1 DEF vmVars, NothingFed
  <2>2. CASE ServePageWithProof \/ ServePageWithHmac \/ StorePage \/ ContinueProof
    BY <1>2, <2>2, MessageNames
    DEF ServePageWithProof, ServePageWithHmac, StorePage, ContinueProof, vmVars, NothingFed
  <2>3. CASE GarbleAnswer
    <3>1. link \in Responses
      BY <2>3 DEF TypeOK, GarbleAnswer, Answers, Requests, NoMessage,
           GetPageProofContinuedMessage, CommitPageProofContinuedMessage
    <3>2. \E f \in {"n", "t", "newRoot", "path"} : \E x : link' = [link EXCEPT ![f] = x]
      BY <2>3, Zenon DEF GarbleAnswer
    <3>3. PICK f \in {"n", "t", "newRoot", "path"} : \E x : link' = [link EXCEPT ![f] = x]
      BY <3>2
    <3>4. PICK x : link' = [link EXCEPT ![f] = x]
      BY <3>3
    <3>5. link'.type = link.type
      BY <3>1, <3>4 DEF Responses
    <3> QED
      BY <1>2, <3>5 DEF vmVars, NothingFed
  <2> QED
    BY <1>2, <2>1, <2>2, <2>3 DEF ServerNext, RefuseRequest, CorruptPage, CorruptHmac
<1>3. CASE UNCHANGED vars
  BY <1>3 DEF vars, vmVars, NothingFed
<1> QED
  BY <1>1, <1>2, <1>3 DEF Next

\* The bound on the turns left, by what the VM is doing.
LEMMA Turns ==
  /\ Turn \in {0, 1}
  /\ pc = "committing" => Remaining = 2 * ProofLen + 3 + 2 * (ProofLen - verifier.fed) + Turn
  /\ pc = "loading" => Remaining = 1 + 2 * (ProofLen - verifier.fed) + Turn
  /\ pc = "running" => Remaining = 0
BY DEF Turn, Remaining

LEMMA TurnsNext ==
  /\ Turn' \in {0, 1}
  /\ pc' = "committing" => Remaining' = 2 * ProofLen + 3 + 2 * (ProofLen - verifier'.fed) + Turn'
  /\ pc' = "loading" => Remaining' = 1 + 2 * (ProofLen - verifier'.fed) + Turn'
  /\ pc' = "running" => Remaining' = 0
BY DEF Turn, Remaining

\* The verifier never takes more than the proof.
LEMMA FedInProof ==
  ASSUME TypeOK, HonestInv, NothingFed, faults = 0, pc # "running"
  PROVE  verifier.fed \in 0 .. ProofLen
<1>1. verifier.fed \in Nat /\ ProofLen \in Nat
  BY ClientCommandsAssumption DEF TypeOK, Verifiers
<1>2. CASE link.type \in {"GetPage", "CommitPage", "GetPageResponse", "CommitPageProofResponse"}
  BY <1>1, <1>2 DEF NothingFed
<1>3. CASE \E kind : ProofGoesOn(kind, 0)
  BY <1>1, <1>3 DEF ProofGoesOn
<1>4. CASE \E kind : \E t \in 1 .. ProofLen : ProofGoesOn(kind, t)
  <2>1. PICK t \in 1 .. ProofLen : verifier.fed + t <= ProofLen
    BY <1>4 DEF ProofGoesOn
  <2> QED
    BY <1>1, <2>1
<1>5. CASE pc = "loading" /\ HonestLoading
  <2>1. \/ link.type \in {"GetPage", "GetPageResponse"}
        \/ ProofGoesOn("GetPageProofContinued", 0)
        \/ \E t \in 1 .. ProofLen : ProofGoesOn("GetPageProofContinued", t)
    BY <1>5, MessageNames DEF HonestLoading
  <2> QED
    BY <1>2, <1>3, <1>4, <2>1
<1>6. CASE pc = "committing" /\ HonestCommitting
  <2>1. \/ link.type \in {"CommitPage", "CommitPageProofResponse"}
        \/ ProofGoesOn("CommitPageProofContinued", 0)
        \/ \E t \in 1 .. ProofLen : ProofGoesOn("CommitPageProofContinued", t)
    BY <1>6, MessageNames DEF HonestCommitting
  <2> QED
    BY <1>2, <1>3, <1>4, <2>1
<1> QED
  BY <1>5, <1>6 DEF HonestInv

\* The VM's turn: it takes the elements of the answer, and if the proof is not
\* complete there was at least one.
LEMMA LoadStepAdvances ==
  ASSUME NEW v, pc = "loading", LoadStep(v), pc' # "aborted", Turn = 0,
         verifier.fed \in 0 .. ProofLen, v.fed \in 0 .. ProofLen, v.n = ProofLen,
         v.fed < ProofLen => v.fed > verifier.fed
  PROVE  Remaining' \in Nat /\ Remaining' < Remaining
<1>1. ProofLen \in Nat
  BY ClientCommandsAssumption
<1>2. Remaining = 1 + 2 * (ProofLen - verifier.fed)
  BY <1>1, Turns
<1>3. CASE v.fed < v.n /\ verifier' = v /\ pc' = pc
  <2>1. v.fed \in verifier.fed + 1 .. ProofLen /\ v.fed \in Nat
    BY <1>1, <1>3
  <2>2. Remaining' = 1 + 2 * (ProofLen - v.fed) + Turn'
    BY <1>3, TurnsNext
  <2> QED
    BY <1>1, <1>2, <2>1, <2>2, TurnsNext
<1>4. CASE pc' = "running"
  BY <1>1, <1>2, <1>4, TurnsNext
<1> QED
  BY <1>3, <1>4 DEF LoadStep, FillSlot, Return, Abort

LEMMA CommitStepAdvances ==
  ASSUME NEW v, pc = "committing", CommitStep(v), pc' # "aborted", Turn = 0,
         verifier.fed \in 0 .. ProofLen, v.fed \in 0 .. ProofLen, v.n = ProofLen,
         v.fed < ProofLen => v.fed > verifier.fed
  PROVE  Remaining' \in Nat /\ Remaining' < Remaining
<1>1. ProofLen \in Nat
  BY ClientCommandsAssumption
<1>2. Remaining = 2 * ProofLen + 3 + 2 * (ProofLen - verifier.fed)
  BY <1>1, Turns
<1>3. CASE v.fed < v.n /\ verifier' = v /\ pc' = pc
  <2>1. v.fed \in verifier.fed + 1 .. ProofLen /\ v.fed \in Nat
    BY <1>1, <1>3
  <2>2. Remaining' = 2 * ProofLen + 3 + 2 * (ProofLen - v.fed) + Turn'
    BY <1>3, TurnsNext
  <2> QED
    BY <1>1, <1>2, <2>1, <2>2, TurnsNext
<1>4. CASE RequestPage(req, slot)
  <2>1. pc' = "loading" /\ verifier'.fed = 0
    BY <1>4 DEF RequestPage, NoProof
  <2>2. Remaining' = 1 + 2 * ProofLen + Turn'
    BY <1>1, <2>1, TurnsNext
  <2>3. PICK left \in Nat : left = ProofLen - verifier.fed
    BY <1>1
  <2>4. Remaining = 2 * ProofLen + 3 + 2 * left
    BY <1>2, <2>3
  <2>5. Turn' \in {0, 1}
    BY TurnsNext
  <2>6. PICK a, b, c : a = Remaining /\ b = Remaining' /\ c = Turn'
    OBVIOUS
  <2>7. a = 2 * ProofLen + 3 + 2 * left /\ b = 1 + 2 * ProofLen + c /\ c \in {0, 1}
    BY <2>2, <2>4, <2>5, <2>6
  <2>8. b \in Nat /\ b < a
    BY <1>1, <2>3, <2>7
  <2> QED
    BY <2>6, <2>8
<1> QED
  BY <1>3, <1>4 DEF CommitStep, Abort

\* The client's turn: an answer, from which the VM goes on.
LEMMA ServerAdvances ==
  ASSUME TypeOK, HonestInv, NothingFed, faults = 0, pc # "running", UNCHANGED vmVars,
         ServePageWithProof \/ ServePageWithHmac \/ StorePage \/ ContinueProof
  PROVE  Remaining' \in Nat /\ Remaining' < Remaining
<1>1. Turn = 1 /\ Turn' = 0
  BY MessageNames DEF Turn, ServePageWithProof, ServePageWithHmac, StorePage, ContinueProof
<1>2. pc' = pc /\ verifier' = verifier
  BY DEF vmVars
<1>3. verifier.fed \in 0 .. ProofLen /\ ProofLen \in Nat
  BY FedInProof, ClientCommandsAssumption
<1>4. pc \in {"loading", "committing"}
  BY DEF HonestInv
<1> QED
  BY <1>1, <1>2, <1>3, <1>4, Turns, TurnsNext

LEMMA VMAdvances ==
  ASSUME TypeOK, HonestInv, HonestInv', NothingFed, faults = 0, faults' = 0, pc # "running", VMNext
  PROVE  Remaining' \in Nat /\ Remaining' < Remaining
<1>1. verifier.fed \in 0 .. ProofLen /\ ProofLen \in Nat
  BY FedInProof, ClientCommandsAssumption
<1>2. pc' # "aborted"
  BY DEF HonestInv
<1>3. FirstFragmentSize \in 0 .. ProofLen /\ (ProofLen > 0 => FirstFragmentSize > 0)
  BY ClientCommandsAssumption DEF FirstFragmentSize, LeastOf
<1>4. CASE OnMerklePage
  <2>1. pc = "loading" /\ link.type = "GetPageResponse" /\ link.kind = "Merkle" /\ HonestLoading
    BY <1>4 DEF OnMerklePage, HonestInv
  <2>2. link = GetPageMerkleResponse(merkleRoot[req.sec][req.page], ProofLen,
                                     FirstFragmentSize, merkleRoot[req.sec])
    BY <2>1, MessageNames DEF HonestLoading
  <2>3. link.n = ProofLen /\ link.len = FirstFragmentSize
    BY <2>2 DEF GetPageMerkleResponse
  <2>4. verifier.fed = 0 /\ Turn = 0
    BY <2>1 DEF NothingFed, Turn
  <2>5. PICK v : LoadStep(v) /\ v.fed = 0 + link.len /\ v.n = link.n
    BY <1>2, <1>4 DEF OnMerklePage, Abort, Feed, BeginProof
  <2> QED
    BY <1>1, <1>2, <1>3, <2>1, <2>3, <2>4, <2>5, LoadStepAdvances
<1>5. CASE OnMerklePageContinued
  <2>1. pc = "loading" /\ link.type = "GetPageProofContinuedResponse" /\ HonestLoading
    BY <1>5 DEF OnMerklePageContinued, HonestInv
  <2>2. PICK t \in 1 .. ProofLen :
          /\ link = GetPageProofContinuedResponse(t, merkleRoot[req.sec])
          /\ ProofGoesOn("GetPageProofContinued", t)
    BY <2>1, MessageNames DEF HonestLoading
  <2>3. link.len = t /\ verifier.n = ProofLen /\ verifier.fed + t <= ProofLen /\ t \in Nat \ {0}
    BY <1>1, <2>2 DEF GetPageProofContinuedResponse, ProofGoesOn
  <2>4. Turn = 0
    BY <2>1 DEF Turn
  <2>5. PICK v : LoadStep(v) /\ v.fed = verifier.fed + link.len /\ v.n = verifier.n
    BY <1>2, <1>5 DEF OnMerklePageContinued, Abort, Feed
  <2>6. v.fed \in 0 .. ProofLen /\ v.fed > verifier.fed
    BY <1>1, <2>3, <2>5
  <2> QED
    BY <1>1, <1>2, <2>1, <2>3, <2>4, <2>5, <2>6, LoadStepAdvances
<1>6. CASE OnCommitPageProof
  <2>1. pc = "committing" /\ link.type = "CommitPageProofResponse" /\ HonestCommitting
    BY <1>6 DEF OnCommitPageProof, HonestInv
  <2>2. link = CommitPageProofResponse(ProofLen, FirstFragmentSize,
                                       segment[req.sec], merkleRoot[req.sec])
    BY <2>1, MessageNames DEF HonestCommitting
  <2>3. link.n = ProofLen /\ link.len = FirstFragmentSize
    BY <2>2 DEF CommitPageProofResponse
  <2>4. verifier.fed = 0 /\ Turn = 0
    BY <2>1 DEF NothingFed, Turn
  <2>5. PICK v : CommitStep(v) /\ v.fed = 0 + link.len /\ v.n = link.n
    BY <1>2, <1>6 DEF OnCommitPageProof, Abort, Feed, BeginProof
  <2> QED
    BY <1>1, <1>2, <1>3, <2>1, <2>3, <2>4, <2>5, CommitStepAdvances
<1>7. CASE OnCommitPageProofContinued
  <2>1. pc = "committing" /\ link.type = "CommitPageProofContinuedResponse" /\ HonestCommitting
    BY <1>7 DEF OnCommitPageProofContinued, HonestInv
  <2>2. PICK t \in 1 .. ProofLen :
          /\ link = CommitPageProofContinuedResponse(t, merkleRoot[req.sec])
          /\ ProofGoesOn("CommitPageProofContinued", t)
    BY <2>1, MessageNames DEF HonestCommitting
  <2>3. link.len = t /\ verifier.n = ProofLen /\ verifier.fed + t <= ProofLen /\ t \in Nat \ {0}
    BY <1>1, <2>2 DEF CommitPageProofContinuedResponse, ProofGoesOn
  <2>4. Turn = 0
    BY <2>1 DEF Turn
  <2>5. PICK v : CommitStep(v) /\ v.fed = verifier.fed + link.len /\ v.n = verifier.n
    BY <1>2, <1>7 DEF OnCommitPageProofContinued, Abort, Feed
  <2>6. v.fed \in 0 .. ProofLen /\ v.fed > verifier.fed
    BY <1>1, <2>3, <2>5
  <2> QED
    BY <1>1, <1>2, <2>1, <2>3, <2>4, <2>5, <2>6, CommitStepAdvances
<1>8. CASE OnHmacPage
  <2>1. pc = "loading" /\ pc' = "running"
    BY <1>2, <1>8 DEF OnHmacPage, FillSlot, Return, Abort
  <2> QED
    BY <1>1, <2>1, Turns, TurnsNext
<1>9. ~ \E a \in Accesses : GetPage(a)
  BY DEF GetPage, GetPageAgain, GetPageHit, GetPageMiss, GetPageEvictClean,
         GetPageEvictModified, NotLastAccessed
<1> QED
  BY <1>4, <1>5, <1>6, <1>7, <1>8, <1>9 DEF VMNext

\* With a client that has made no fault, every step during an access brings its end
\* nearer, so the loops of load_page and commit_page_at end whatever the lengths of
\* the proofs and of their fragments.
THEOREM AccessesAdvance == Spec => AccessAdvances
<1>1. /\ TypeOK /\ PagingInv /\ HonestInv /\ NothingFed /\ [Next]_vars
           => TypeOK' /\ PagingInv' /\ HonestInv' /\ NothingFed'
  BY TypeOKStep, PagingInvStep, HonestStep, NothingFedStep
<1>2. /\ TypeOK /\ PagingInv /\ HonestInv /\ NothingFed /\ HonestInv' /\ [Next]_vars
           => [faults' = 0 /\ pc # "running" => Remaining' \in Nat /\ Remaining' < Remaining]_vars
  <2> SUFFICES ASSUME TypeOK, PagingInv, HonestInv, NothingFed, HonestInv', Next,
                      faults' = 0, pc # "running"
               PROVE  Remaining' \in Nat /\ Remaining' < Remaining
    OBVIOUS
  <2>1. faults \in Nat
    BY DEF TypeOK
  <2>2. CASE VMNext /\ UNCHANGED serverVars
    BY <2>2, VMAdvances DEF serverVars
  <2>3. CASE ServerNext /\ UNCHANGED vmVars
    <3>1. ~ Fault
      BY <2>1 DEF Fault
    <3>2. CASE ServePageWithProof \/ ServePageWithHmac \/ StorePage \/ ContinueProof
      <4>1. faults = 0
        BY <3>2 DEF ServePageWithProof, ServePageWithHmac, StorePage, ContinueProof, serverVars
      <4> QED
        BY <2>3, <3>2, <4>1, ServerAdvances
    <3>3. CASE RefuseRequest
      BY <3>3, HonestServes DEF RefuseRequest
    <3> QED
      BY <2>3, <3>1, <3>2, <3>3 DEF ServerNext, CorruptPage, CorruptHmac, GarbleAnswer
  <2> QED
    BY <2>2, <2>3 DEF Next
<1> QED
  BY <1>1, <1>2, TypeOKInit, PagingInvInit, HonestInit, NothingFedInit, PTL DEF Spec, AccessAdvances
=============================================================================
