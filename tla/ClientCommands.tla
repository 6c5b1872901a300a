--------------------------- MODULE ClientCommands ---------------------------
(***************************************************************************)
(* The page messages that the VM and its client exchange while a V-App is  *)
(* interrupted (common/src/client_commands.rs), over ideal cryptography:   *)
(*                                                                         *)
(*  - the hash of a page, as a leaf of the section's Merkle tree, is the   *)
(*    leaf itself: whether it is encrypted, the nonce (0 for a clear-text  *)
(*    page) and the plaintext (only the VM has the key of the ciphertext); *)
(*  - a Merkle root is the vector of the leaves it commits to;             *)
(*  - the sibling hashes of a Merkle proof for page p are the vector they  *)
(*    were taken from: putting a leaf at p gives back the root.  A message *)
(*    carries the number of sibling hashes it holds and that vector;       *)
(*  - the HMAC of a code page is the record of the values it binds.        *)
(*                                                                         *)
(* The VM and the client take turns: `link' holds the only message in      *)
(* flight, or NoMessage while the VM executes.                             *)
(***************************************************************************)
EXTENDS Naturals

CONSTANTS
  Sections,            \* The sections of the V-App's memory.
  Code,                \* The read-only section, if it is one of them.
  NPages,              \* Pages of a section, padding to a power of two included.
  Contents,            \* The possible contents of a page.
  InitialContent,      \* Contents of the pages in the V-App's binary.
  ProofLen,            \* Length of a Merkle proof: log2(NPages).
  FirstFragment,       \* Most sibling hashes in the first message of a proof.
  NextFragment,        \* Most sibling hashes in each continuation.
  ThisVApp, OtherVApp  \* Hash of the running V-App, and of some other one.

ASSUME ClientCommandsAssumption ==
  /\ Sections # {}
  /\ NPages \in Nat \ {0}
  /\ ProofLen \in Nat
  /\ ProofLen = 0 => NPages = 1
  /\ FirstFragment \in Nat \ {0}
  /\ NextFragment \in Nat \ {0}
  /\ ThisVApp # OtherVApp
  /\ InitialContent \in [Sections -> [0 .. NPages - 1 -> Contents]]

VARIABLE link

Pages == 0 .. NPages - 1

Leaves == [enc : BOOLEAN, nonce : Nat, data : Contents]
Roots  == [Pages -> Leaves]
Hmacs  == [vapp : {ThisVApp, OtherVApp}, idx : Pages, hash : Leaves]

ClearLeaf(d)        == [enc |-> FALSE, nonce |-> 0, data |-> d]
EncryptedLeaf(n, d) == [enc |-> TRUE, nonce |-> n, data |-> d]

\* What uninitialised leaves and roots are set to.
EmptyLeaf == ClearLeaf(CHOOSE d \in Contents : TRUE)
EmptyRoot == [p \in Pages |-> EmptyLeaf]

InitialRoot == [s \in Sections |-> [p \in Pages |-> ClearLeaf(InitialContent[s][p])]]

-----------------------------------------------------------------------------
NoMessage == [type |-> "None"]

\* VM to client.
GetPageMessage(s, p) == [type |-> "GetPage", sec |-> s, page |-> p]

CommitPageMessage(s, p, leaf) ==
  [type |-> "CommitPage", sec |-> s, page |-> p, leaf |-> leaf]

GetPageProofContinuedMessage    == [type |-> "GetPageProofContinued"]
CommitPageProofContinuedMessage == [type |-> "CommitPageProofContinued"]

\* Client to VM.  n announces the length of the whole proof, t the number of
\* elements of this message, which holds len of them, siblings in `path'.
GetPageMerkleResponse(leaf, n, t, path) ==
  [type |-> "GetPageResponse", kind |-> "Merkle",
   leaf |-> leaf, n |-> n, t |-> t, len |-> t, path |-> path]

GetPageHmacResponse(leaf, hmac) ==
  [type |-> "GetPageResponse", kind |-> "Hmac",
   leaf |-> leaf, n |-> 1, t |-> 1, len |-> 1, hmac |-> hmac]

CommitPageProofResponse(n, t, root, path) ==
  [type |-> "CommitPageProofResponse",
   n |-> n, t |-> t, len |-> t, newRoot |-> root, path |-> path]

GetPageProofContinuedResponse(t, path) ==
  [type |-> "GetPageProofContinuedResponse", t |-> t, len |-> t, path |-> path]

CommitPageProofContinuedResponse(t, path) ==
  [type |-> "CommitPageProofContinuedResponse", t |-> t, len |-> t, path |-> path]

Requests ==
  [type : {"GetPage"}, sec : Sections, page : Pages]
    \cup [type : {"CommitPage"}, sec : Sections, page : Pages, leaf : Leaves]
    \cup {GetPageProofContinuedMessage, CommitPageProofContinuedMessage}

Responses ==
  [type : {"GetPageResponse"}, kind : {"Merkle"}, leaf : Leaves,
   n : Nat, t : Nat, len : Nat, path : Roots]
    \cup [type : {"GetPageResponse"}, kind : {"Hmac"}, leaf : Leaves,
          n : Nat, t : Nat, len : Nat, hmac : Hmacs]
    \cup [type : {"CommitPageProofResponse"},
          n : Nat, t : Nat, len : Nat, newRoot : Roots, path : Roots]
    \cup [type : {"GetPageProofContinuedResponse",
                  "CommitPageProofContinuedResponse"},
          t : Nat, len : Nat, path : Roots]
=============================================================================
