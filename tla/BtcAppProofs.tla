---------------------------- MODULE BtcAppProofs ----------------------------
(***************************************************************************)
(* Proofs about BtcApp, for whatever a host asks, whichever policies and   *)
(* PSBTs: what the V-App's answers attest, how it uses the secret nonces   *)
(* of MuSig2, that what it signs is what the user approved, and that it    *)
(* signs what prepare_psbt made of a wallet's own PSBT.                    *)
(***************************************************************************)
EXTENDS BtcApp, FiniteSetTheorems, SequenceTheorems, WellFoundedInduction, TLAPS

\* A registration that the user approved, and that a proof stands for.
Registered(proof) ==
  \E a \in approved : a.kind \in {"account", "identity"} /\ proof = ProofOfRegistration(RegistrationId(a.kind, a.name, a.object))

KeyGood(g) ==
  g.kind = "xpub" /\ g.key[1] = "resident" => slots.seed # Zeros /\ g.key[2] = slots.seed

ProofGood(g) == g.kind = "por" => Registered(g.proof)

OutputGood(g) ==
  g.kind = "idsig" /\ g.message[1] = "OUTPUT" => OfApprovedAccount(g.message[2])

ItemGood(g) == KeyGood(g) /\ ProofGood(g) /\ OutputGood(g)

\* What a handler has made sure of when it waits for its screen.
ConfirmReady ==
  /\ req.op \in {"xpub", "account", "identity", "address"}
  /\ req.op = "xpub" /\ req.tree = "resident" => slots.seed # Zeros
  /\ req.op = "address" => OfApprovedAccount(ToScript(req.policy, req.coords))

\* What the host has, and what it is about to get.
HostInv ==
  /\ DOMAIN slots = {"seed", "id", "rand"}
  /\ \A g \in given \cup out : ItemGood(g)
  /\ pc = "confirm" => ConfirmReady

-----------------------------------------------------------------------------
\* The randomness of a session that has signed nothing yet, or that of a cleared slot.
Unused(rand) ==
  /\ rand.root \in -1 .. count.rands
  /\ \A u \in used : u.nonce.rand # rand

\* What a nonce of the session that is being signed with signs.
SighashFor(psbt, nonce) == SighashTaproot(psbt, nonce.input, PlaceOf(psbt, nonce))

CountDomain == {"seeds", "rands", "requests", "crashes", "torn"}

CountInv ==
  /\ DOMAIN slots = {"seed", "id", "rand"} /\ DOMAIN musig = {"round1", "round2", "popped"}
  /\ DOMAIN count = CountDomain /\ count.rands \in Nat
  /\ \A u \in used : u.nonce.rand.root \in -1 .. count.rands

\* Sessions that wait, in storage or in the pass, are unused; none of them is the one that
\* signs, whose signatures are all for the PSBT of this pass.
SessionInv ==
  /\ pc = "idle" => musig.round1.id = Zeros /\ musig.round2.id = Zeros /\ musig.popped.id = Zeros
  /\ pc = "popping" => slots.id = Zeros
  /\ pc \in {"commit_id", "commit_rand"} => musig.round1.id # Zeros
  /\ slots.id # Zeros /\ pc # "commit_rand" =>
       /\ Unused(slots.rand)
       /\ musig.round2.id # Zeros => musig.round2.rand # slots.rand
       /\ musig.popped.id # Zeros => musig.popped.rand # slots.rand
       /\ musig.round1.id # Zeros /\ pc # "respond" => musig.round1.rand # slots.rand
  /\ musig.round1.id # Zeros =>
       /\ Unused(musig.round1.rand)
       /\ musig.round2.id # Zeros => musig.round2.rand # musig.round1.rand
       /\ musig.popped.id # Zeros => musig.popped.rand # musig.round1.rand
  /\ musig.popped.id # Zeros =>
       /\ Unused(musig.popped.rand)
       /\ musig.round2.id # Zeros => musig.round2.rand # musig.popped.rand
  /\ musig.round2.id # Zeros =>
       /\ musig.round2.rand.root \in -1 .. count.rands
       /\ \A u \in used : u.nonce.rand = musig.round2.rand => u.sighash = SighashFor(req.psbt, u.nonce)

\* As long as every commit was whole, no session has the randomness of a cleared slot, and
\* what is in that slot may be taken for that of any session.
WholeInv ==
  count.torn = 0 =>
    /\ Unused(slots.rand)
    /\ slots.id # Zeros /\ pc # "commit_rand" => slots.rand.root # -1
    /\ musig.round1.id # Zeros => musig.round1.rand.root # -1
    /\ musig.popped.id # Zeros => musig.popped.rand.root # -1
    /\ musig.round2.id # Zeros => musig.round2.rand.root # -1 /\ musig.round2.rand # slots.rand
    /\ \A u \in used : u.nonce.rand.root # -1

UsedOnce == \A u, w \in used : u.nonce = w.nonce => u.sighash = w.sighash

NonceInv == CountInv /\ SessionInv /\ WholeInv /\ UsedOnce

\* Of what a second loss of power in a commit leads to, nothing is said.
TornInv ==
  /\ DOMAIN count = CountDomain /\ count.torn \in Nat
  /\ count.torn <= 1 => NonceInv
-----------------------------------------------------------------------------
(* What the host is given.                                                     *)
LEMMA ZerosDiffer == \A n : <<"seed", n>> # Zeros
BY DEF Zeros

\* get_or_init_resident_seed keeps a seed that is there, and the session.
LEMMA SeedSlotsFacts ==
  ASSUME DOMAIN slots = {"seed", "id", "rand"}
  PROVE  /\ DOMAIN SeedSlots = {"seed", "id", "rand"} /\ SeedSlots.seed # Zeros
         /\ SeedSlots.seed = slots.seed \/ slots.seed = Zeros
         /\ SeedSlots.id = slots.id /\ SeedSlots.rand = slots.rand
BY ZerosDiffer DEF SeedSlots

LEMMA ResultCases ==
  ASSUME NEW r, NEW seeds
  PROVE  /\ r.op = "fingerprint" => Result(r, seeds) = {}
         /\ r.op = "xpub" =>
              Result(r, seeds) = {[kind |-> "xpub", key |-> Xpub(r, seeds)]}
                \cup (IF r.identity THEN {IdentitySignature("XPUB", Xpub(r, seeds))} ELSE {})
         /\ r.op = "account" => Result(r, seeds) = {Proof(Registration("account", r.name, r.policy))}
         /\ r.op = "identity" => Result(r, seeds) = {Proof(Registration("identity", r.name, r.key))}
         /\ r.op = "address" =>
              Result(r, seeds) = {[kind |-> "address", script |-> ToScript(r.policy, r.coords)]}
                \cup (IF r.identity THEN {IdentitySignature("OUTPUT", ToScript(r.policy, r.coords))} ELSE {})
BY DEF Result

LEMMA ShownCases ==
  ASSUME NEW r
  PROVE  /\ r.op = "account" =>
              Shown(r) = [kind |-> "account", name |-> r.name, object |-> r.policy, labels |-> KeyNames(r)]
         /\ r.op = "identity" => Shown(r) = Registration("identity", r.name, r.key)
BY DEF Shown

\* The kinds of what an answer holds.
LEMMA ResultKinds ==
  ASSUME NEW r, NEW seeds, NEW g \in Result(r, seeds),
         r.op \in {"fingerprint", "xpub", "account", "identity", "address"}
  PROVE  /\ g.kind = "xpub" => r.op = "xpub" /\ g.key = Xpub(r, seeds)
         /\ g.kind = "por" => \/ r.op = "account" /\ g = Proof(Registration("account", r.name, r.policy))
                              \/ r.op = "identity" /\ g = Proof(Registration("identity", r.name, r.key))
         /\ g.kind = "idsig" /\ g.message[1] = "OUTPUT" =>
              r.op = "address" /\ g.message[2] = ToScript(r.policy, r.coords)
<1>1. r.op # "fingerprint"
  BY ResultCases
<1>2. CASE r.op = "xpub"
  <2>1. g = [kind |-> "xpub", key |-> Xpub(r, seeds)] \/ g = IdentitySignature("XPUB", Xpub(r, seeds))
    BY <1>2, ResultCases
  <2>2. CASE g = [kind |-> "xpub", key |-> Xpub(r, seeds)]
    BY <1>2, <2>2
  <2>3. CASE g = IdentitySignature("XPUB", Xpub(r, seeds))
    BY <1>2, <2>3 DEF IdentitySignature, IdentityMessage
  <2> QED
    BY <2>1, <2>2, <2>3
<1>3. CASE r.op = "account"
  <2>1. g = Proof(Registration("account", r.name, r.policy))
    BY <1>3, ResultCases
  <2>2. g.kind = "por"
    BY <2>1 DEF Proof
  <2> QED
    BY <1>3, <2>1, <2>2
<1>4. CASE r.op = "identity"
  <2>1. g = Proof(Registration("identity", r.name, r.key))
    BY <1>4, ResultCases
  <2>2. g.kind = "por"
    BY <2>1 DEF Proof
  <2> QED
    BY <1>4, <2>1, <2>2
<1>5. CASE r.op = "address"
  <2>1. \/ g = [kind |-> "address", script |-> ToScript(r.policy, r.coords)]
        \/ g = IdentitySignature("OUTPUT", ToScript(r.policy, r.coords))
    BY <1>5, ResultCases
  <2>2. CASE g = [kind |-> "address", script |-> ToScript(r.policy, r.coords)]
    BY <1>5, <2>2
  <2>3. CASE g = IdentitySignature("OUTPUT", ToScript(r.policy, r.coords))
    BY <1>5, <2>3 DEF IdentitySignature, IdentityMessage
  <2> QED
    BY <2>1, <2>2, <2>3
<1> QED
  BY <1>1, <1>2, <1>3, <1>4, <1>5

\* A proof of registration authenticates one registration.
LEMMA RegisteredAccount ==
  ASSUME NEW name, NEW policy, NEW coords \in Coordinates,
         Registered(ProofOfRegistration(RegistrationId("account", name, policy)))
  PROVE  OfApprovedAccount(ToScript(policy, coords))
<1>1. PICK a \in approved :
        ProofOfRegistration(RegistrationId("account", name, policy))
          = ProofOfRegistration(RegistrationId(a.kind, a.name, a.object))
  BY DEF Registered
<1>2. a.kind = "account" /\ a.object = policy
  BY <1>1 DEF ProofOfRegistration, RegistrationId
<1> QED
  BY <1>2 DEF OfApprovedAccount, Accounts

\* What was good stays good: seeds are not replaced and approvals not taken back.
LEMMA GoodStays ==
  ASSUME NEW g, ItemGood(g), approved \subseteq approved', slots'.seed = slots.seed \/ slots.seed = Zeros
  PROVE  ItemGood(g)'
<1>1. KeyGood(g)'
  BY DEF ItemGood, KeyGood
<1>2. ProofGood(g)'
  BY DEF ItemGood, ProofGood, Registered
<1>3. OutputGood(g)'
  BY DEF ItemGood, OutputGood, OfApprovedAccount, Accounts
<1> QED
  BY <1>1, <1>2, <1>3 DEF ItemGood

LEMMA HostStep ==
  ASSUME HostInv, DOMAIN slots' = {"seed", "id", "rand"}, slots'.seed = slots.seed \/ slots.seed = Zeros,
         approved \subseteq approved', given' \subseteq given \cup out,
         \A g \in out' : g \in out \/ ItemGood(g)', pc' = "confirm" => ConfirmReady'
  PROVE  HostInv'
<1>1. ASSUME NEW g \in given' \cup out' PROVE ItemGood(g)'
  <2>1. CASE g \in given \cup out
    BY <2>1, GoodStays DEF HostInv
  <2>2. CASE g \notin given \cup out
    BY <1>1, <2>2
  <2> QED
    BY <2>1, <2>2
<1> QED
  BY <1>1 DEF HostInv

LEMMA HostInvInit == Init => HostInv
<1> SUFFICES ASSUME Init PROVE HostInv
  OBVIOUS
<1>1. DOMAIN slots = {"seed", "id", "rand"} /\ out = {} /\ pc = "idle" /\ approved = Enrolled
  BY StoredAssumption DEF Init
<1>2. ASSUME NEW g \in given PROVE ItemGood(g)
  <2>1. PICK e \in Enrolled : g = Proof(e)
    BY DEF Init
  <2>2. g.kind = "por" /\ g.proof = ProofOfRegistration(RegistrationId(e.kind, e.name, e.object))
    BY <2>1 DEF Proof
  <2>3. Registered(g.proof)
    BY <1>1, <2>2, EnrolledAssumption DEF Registered
  <2> QED
    BY <2>2, <2>3 DEF ItemGood, KeyGood, ProofGood, OutputGood
<1> QED
  BY <1>1, <1>2 DEF HostInv
\* A handler that is over has no answer left.
LEMMA EndStep ==
  ASSUME HostInv, NEW how, End(how), slots' = slots
  PROVE  HostInv'
BY HostStep DEF End, Forget, HostInv

\* An answer that needs no screen: it holds nothing but an address that the user's account
\* has, or keys of a seed that is there.
LEMMA ProceedStep ==
  ASSUME HostInv, NEW r, r.op \in {"fingerprint", "xpub", "account", "identity", "address"},
         NEW screen \in BOOLEAN, NEW seeds, Proceed(r, screen, seeds), req' = r,
         slots' = slots \/ slots' = SeedSlots,
         r.op \in {"account", "identity"} => pc' = "confirm",
         r.op = "fingerprint" => pc' # "confirm",
         r.op = "xpub" /\ r.tree = "resident" => slots'.seed # Zeros /\ seeds[r.tree] = slots'.seed,
         r.op = "address" => OfApprovedAccount(ToScript(r.policy, r.coords))
  PROVE  HostInv'
<1>1. /\ approved' = approved /\ given' = given
      /\ pc' = IF screen THEN "confirm" ELSE "respond"
      /\ out' = IF screen THEN {} ELSE Result(r, seeds)
  BY DEF Proceed, Goto
<1>2. DOMAIN slots' = {"seed", "id", "rand"} /\ (slots'.seed = slots.seed \/ slots.seed = Zeros)
  BY SeedSlotsFacts DEF HostInv
<1>3. r.op = "address" => OfApprovedAccount(ToScript(r.policy, r.coords))'
  BY <1>1 DEF OfApprovedAccount, Accounts, ToScript
<1>4. ASSUME NEW g \in out' PROVE ItemGood(g)'
  <2>1. pc' # "confirm" /\ g \in Result(r, seeds)
    BY <1>1, <1>4
  <2>2. /\ g.kind = "xpub" => r.op = "xpub" /\ g.key = Xpub(r, seeds)
        /\ g.kind # "por"
        /\ g.kind = "idsig" /\ g.message[1] = "OUTPUT" =>
             r.op = "address" /\ g.message[2] = ToScript(r.policy, r.coords)
    BY <2>1, ResultKinds
  <2>3. KeyGood(g)'
    BY <2>2 DEF KeyGood, Xpub
  <2>4. OutputGood(g)'
    BY <1>1, <2>2 DEF OutputGood, OfApprovedAccount, Accounts
  <2> QED
    BY <2>2, <2>3, <2>4 DEF ItemGood, ProofGood
<1>5. pc' = "confirm" => ConfirmReady'
  BY <1>1, <1>3 DEF ConfirmReady
<1> QED
  BY <1>1, <1>2, <1>4, <1>5, HostStep

LEMMA FingerprintStep ==
  ASSUME HostInv, GetMasterFingerprint
  PROVE  HostInv'
<1>1. PICK r \in Requests : /\ r.op = "fingerprint" /\ req' = r /\ Proceed(r, FALSE, Seeds)
                            /\ slots' = slots \/ slots' = SeedSlots
  BY DEF GetMasterFingerprint, Accept
<1>2. PICK screen \in BOOLEAN : ~screen
  OBVIOUS
<1>3. Proceed(r, screen, Seeds) /\ pc' # "confirm"
  BY <1>1, <1>2 DEF Proceed, Goto
<1> QED
  BY <1>1, <1>2, <1>3, ProceedStep

LEMMA PubkeyStep ==
  ASSUME HostInv, GetExtendedPubkey
  PROVE  HostInv'
<1>1. PICK r \in Requests :
        /\ r.op = "xpub" /\ req' = r
        /\ \/ slots' = slots /\ End("error")
           \/ /\ slots' = IF r.tree = "resident" THEN SeedSlots ELSE slots
              /\ Proceed(r, r.display, [Seeds EXCEPT !.resident = SeedSlots.seed])
  BY DEF GetExtendedPubkey, Accept
<1>2. CASE slots' = slots /\ End("error")
  BY <1>2, EndStep
<1>3. CASE /\ slots' = IF r.tree = "resident" THEN SeedSlots ELSE slots
           /\ Proceed(r, r.display, [Seeds EXCEPT !.resident = SeedSlots.seed])
  <2> DEFINE seeds == [Seeds EXCEPT !.resident = SeedSlots.seed]
  <2>1. seeds["resident"] = SeedSlots.seed
    BY DEF Seeds
  <2>2. PICK screen \in BOOLEAN : screen <=> r.display
    OBVIOUS
  <2>3. Proceed(r, screen, seeds)
    BY <1>3, <2>2 DEF Proceed
  <2> HIDE DEF seeds
  <2>4. SeedSlots.seed # Zeros
    BY SeedSlotsFacts DEF HostInv
  <2> QED
    BY <1>1, <1>3, <2>1, <2>3, <2>4, ProceedStep
<1> QED
  BY <1>1, <1>2, <1>3

LEMMA RegisterStep ==
  ASSUME HostInv, RegisterAccount \/ RegisterIdentityKey
  PROVE  HostInv'
<1>1. PICK r \in Requests :
        /\ r.op \in {"account", "identity"} /\ req' = r
        /\ \/ slots' = slots /\ End("error")
           \/ (slots' = slots \/ slots' = SeedSlots) /\ Proceed(r, TRUE, Seeds)
  BY DEF RegisterAccount, RegisterIdentityKey, Accept
<1>2. CASE slots' = slots /\ End("error")
  BY <1>2, EndStep
<1>3. CASE (slots' = slots \/ slots' = SeedSlots) /\ Proceed(r, TRUE, Seeds)
  <2>1. PICK screen \in BOOLEAN : screen
    OBVIOUS
  <2>2. Proceed(r, screen, Seeds) /\ pc' = "confirm"
    BY <1>3, <2>1 DEF Proceed, Goto
  <2> QED
    BY <1>1, <1>3, <2>2, ProceedStep
<1> QED
  BY <1>1, <1>2, <1>3

\* The proof that comes with a request for an address is one that the V-App gave.
LEMMA AddressStep ==
  ASSUME HostInv, GetAddress
  PROVE  HostInv'
<1>1. PICK r \in Requests :
        /\ r.op = "address" /\ req' = r /\ slots' = slots /\ KnownProof(r.por)
        /\ \/ End("error")
           \/ /\ r.por = ProofOfRegistration(RegistrationId("account", r.name, r.policy))
              /\ Proceed(r, r.display, Seeds)
  BY DEF GetAddress, Accept
<1>2. CASE End("error")
  BY <1>1, <1>2, EndStep
<1>3. CASE /\ r.por = ProofOfRegistration(RegistrationId("account", r.name, r.policy))
           /\ Proceed(r, r.display, Seeds)
  <2>1. r.por # <<"junk">>
    BY <1>3 DEF ProofOfRegistration
  <2>2. [kind |-> "por", proof |-> r.por] \in given
    BY <1>1, <2>1 DEF KnownProof
  <2>3. Registered(r.por)
    BY <2>2 DEF HostInv, ItemGood, ProofGood
  <2>4. OfApprovedAccount(ToScript(r.policy, r.coords))
    BY <1>1, <1>3, <2>3, CoordinatesAssumption, RegisteredAccount
  <2>5. PICK screen \in BOOLEAN : screen <=> r.display
    OBVIOUS
  <2>6. Proceed(r, screen, Seeds)
    BY <1>3, <2>5 DEF Proceed
  <2> QED
    BY <1>1, <2>4, <2>6, ProceedStep
<1> QED
  BY <1>1, <1>2, <1>3

LEMMA ConfirmStep ==
  ASSUME HostInv, Confirm
  PROVE  HostInv'
<1>1. /\ ConfirmReady /\ approved' = approved \cup {Shown(req)} /\ out' = Result(req, Seeds)
      /\ slots' = slots /\ given' = given /\ pc' = "respond"
  BY DEF HostInv, Confirm
<1>2. ASSUME NEW g \in out' PROVE ItemGood(g)'
  <2>1. req.op \in {"fingerprint", "xpub", "account", "identity", "address"} /\ g \in Result(req, Seeds)
    BY <1>1, <1>2 DEF ConfirmReady
  <2>2. KeyGood(g)'
    <3>1. g.kind = "xpub" => req.op = "xpub" /\ g.key = Xpub(req, Seeds)
      BY <2>1, ResultKinds
    <3> QED
      BY <1>1, <3>1 DEF KeyGood, Xpub, Seeds, ConfirmReady
  <2>3. ProofGood(g)'
    <3> SUFFICES ASSUME g.kind = "por" PROVE Registered(g.proof)'
      BY DEF ProofGood
    <3>1. CASE req.op = "account" /\ g = Proof(Registration("account", req.name, req.policy))
      <4>1. Shown(req).kind = "account" /\ Shown(req).name = req.name /\ Shown(req).object = req.policy
        BY <3>1, ShownCases
      <4>2. g.proof = ProofOfRegistration(RegistrationId("account", req.name, req.policy))
        BY <3>1 DEF Proof, Registration
      <4> QED
        BY <1>1, <4>1, <4>2 DEF Registered
    <3>2. CASE req.op = "identity" /\ g = Proof(Registration("identity", req.name, req.key))
      <4>1. Shown(req).kind = "identity" /\ Shown(req).name = req.name /\ Shown(req).object = req.key
        BY <3>2, ShownCases DEF Registration
      <4>2. g.proof = ProofOfRegistration(RegistrationId("identity", req.name, req.key))
        BY <3>2 DEF Proof, Registration
      <4> QED
        BY <1>1, <4>1, <4>2 DEF Registered
    <3> QED
      BY <2>1, <3>1, <3>2, ResultKinds
  <2>4. OutputGood(g)'
    <3>1. g.kind = "idsig" /\ g.message[1] = "OUTPUT" =>
            req.op = "address" /\ g.message[2] = ToScript(req.policy, req.coords)
      BY <2>1, ResultKinds
    <3> QED
      BY <1>1, <3>1 DEF OutputGood, ConfirmReady, OfApprovedAccount, Accounts
  <2> QED
    BY <2>2, <2>3, <2>4 DEF ItemGood
<1> QED
  BY <1>1, <1>2, HostStep DEF HostInv

\* The signing pass makes signatures and public nonces, which are none of these.
LEMMA ProduceStep ==
  ASSUME HostInv, NEW item, Produce(item), item.kind \in {"sig", "partial", "nonce"},
         UNCHANGED <<slots, approved, given>>
  PROVE  HostInv'
<1>1. ItemGood(item)'
  BY DEF ItemGood, KeyGood, ProofGood, OutputGood
<1>2. out' = out \cup {item} /\ pc' = "signing"
  BY DEF Produce
<1> QED
  BY <1>1, <1>2, HostStep DEF HostInv

\* A step that answers nothing.
LEMMA SilentStep ==
  ASSUME HostInv, UNCHANGED <<given, out>>, approved \subseteq approved', pc' # "confirm",
         DOMAIN slots' = {"seed", "id", "rand"}, slots'.seed = slots.seed \/ slots.seed = Zeros
  PROVE  HostInv'
BY HostStep
LEMMA HostInvNext == HostInv /\ [Next]_vars => HostInv'
<1> SUFFICES ASSUME HostInv, [Next]_vars PROVE HostInv'
  OBVIOUS
<1>0. DOMAIN slots = {"seed", "id", "rand"}
  BY DEF HostInv
<1>1. CASE UNCHANGED vars
  <2>1. pc' = "confirm" => ConfirmReady'
    BY <1>1 DEF vars, HostInv, ConfirmReady, OfApprovedAccount, Accounts
  <2> QED
    BY <1>0, <1>1, <2>1, HostStep DEF vars
<1>2. CASE Reject \/ PowerLoss
  BY <1>2, EndStep DEF Reject, PowerLoss
<1>3. CASE Respond
  BY <1>0, <1>3, HostStep DEF Respond, Forget
<1>4. ASSUME NEW psbt, slots' = slots, ScreenAfterUnverified(psbt) \/ ScreenAfterWarnings(psbt) PROVE HostInv'
  <2>1. \/ \E how : End(how)
        \/ UNCHANGED <<given, approved, out>> /\ pc' \in {"high_fee", "review"}
    BY <1>4 DEF ScreenAfterUnverified, ScreenAfterWarnings, Goto, volatile
  <2> QED
    BY <1>0, <1>4, <2>1, EndStep, SilentStep
<1>5. CASE SignPsbt
  <2>1. PICK r \in Requests :
          /\ slots' = slots
          /\ \/ \E how : End(how)
             \/ Goto("unverified") /\ UNCHANGED volatile
             \/ ScreenAfterUnverified(r.psbt)
    BY <1>5 DEF SignPsbt
  <2>2. CASE Goto("unverified") /\ UNCHANGED volatile
    BY <1>0, <2>1, <2>2, SilentStep DEF Goto, volatile
  <2> QED
    BY <1>4, <2>1, <2>2, EndStep
<1>6. CASE ContinueUnverified \/ ContinueHighFee
  BY <1>4, <1>6 DEF ContinueUnverified, ContinueHighFee
<1>7. CASE ApproveTransaction \/ VerifyStep
  BY <1>0, <1>7, SilentStep DEF ApproveTransaction, VerifyStep
<1>8. CASE AwaitTask
  <2>1. slots' = slots /\ ((\E how : End(how)) \/ (UNCHANGED <<given, approved, out>> /\ pc' = "begin"))
    BY <1>8 DEF AwaitTask, Goto, volatile
  <2> QED
    BY <1>0, <2>1, EndStep, SilentStep
<1>9. CASE BeginPass
  <2>1. \/ slots' = slots /\ \E how : End(how)
        \/ slots' = SeedSlots /\ UNCHANGED <<given, approved, out>> /\ pc' = "signing"
    BY <1>9 DEF BeginPass, Goto, volatile
  <2> QED
    BY <1>0, <2>1, EndStep, SilentStep, SeedSlotsFacts
<1>10. CASE SignInputEcdsa \/ SignInputSchnorr \/ SignSighashMusig
  <2>1. /\ slots' = slots
        /\ \/ \E how : End(how)
           \/ /\ UNCHANGED <<given, approved>>
              /\ \E kind \in {"sig", "partial"} : \E sighash : Produce(Signature(kind, sighash))
    BY <1>10 DEF SignInputEcdsa, SignInputSchnorr, SignSighashMusig
  <2>2. \A kind, sighash : Signature(kind, sighash).kind = kind
    BY DEF Signature
  <2> QED
    BY <2>1, <2>2, EndStep, ProduceStep
<1>11. CASE Popping
  BY <1>0, <1>11, SilentStep DEF Popping
<1>12. CASE Popped
  BY <1>0, <1>12, SilentStep DEF Popped
<1>13. CASE ProducePubnonce
  <2>1. /\ slots' = slots
        /\ \/ \E how : End(how)
           \/ /\ UNCHANGED <<given, approved>>
              /\ \E nonce : Produce([kind |-> "nonce", nonce |-> nonce])
    BY <1>13 DEF ProducePubnonce
  <2> QED
    BY <2>1, EndStep, ProduceStep
<1>14. CASE EndPass
  BY <1>0, <1>14, SilentStep DEF EndPass, Goto
<1>15. CASE CommitId \/ CommitRand
  BY <1>0, <1>15, SilentStep DEF CommitId, CommitRand, Goto
<1> QED
  BY <1>1, <1>2, <1>3, <1>5, <1>6, <1>7, <1>8, <1>9, <1>10, <1>11, <1>12, <1>13, <1>14, <1>15,
     FingerprintStep, PubkeyStep, RegisterStep, AddressStep, ConfirmStep DEF Next

\* A resident key that left the V-App, in get_extended_pubkey's answer, is of the seed in
\* its slot: get_or_init_resident_seed writes the slot first, and no request, failure or
\* loss of power replaces it.
THEOREM ExportSafety == Spec => []ExportedKeysStayOurs
<1>1. HostInv => ExportedKeysStayOurs
  BY DEF HostInv, ItemGood, KeyGood, ExportedKeysStayOurs
<1> QED
  BY <1>1, HostInvInit, HostInvNext, PTL DEF Spec

\* A signature of an identity key over an output, in get_address's answer, is over a script
\* of an account that the user registered.
THEOREM AttestationSafety == Spec => []OutputsAttested
<1>1. HostInv => OutputsAttested
  BY DEF HostInv, ItemGood, OutputGood, OutputsAttested
<1> QED
  BY <1>1, HostInvInit, HostInvNext, PTL DEF Spec
-----------------------------------------------------------------------------
(* The sessions of MuSig2.                                                     *)
\* Storage and the counts of random values and torn commits are as they were.
Calm ==
  /\ DOMAIN slots' = {"seed", "id", "rand"} /\ slots'.id = slots.id /\ slots'.rand = slots.rand
  /\ DOMAIN count' = CountDomain /\ count'.rands = count.rands /\ count'.torn = count.torn

LEMMA SessionNotZeros == \A psbt, n : SessionId(psbt, n) # Zeros
BY DEF SessionId, Zeros

LEMMA NonceInvInit == Init => NonceInv
<1> SUFFICES ASSUME Init PROVE NonceInv
  OBVIOUS
<1>1. /\ DOMAIN slots = {"seed", "id", "rand"} /\ (slots.id # Zeros => slots.rand.root = 0)
      /\ slots.rand.root \in {-1, 0}
      /\ used = {} /\ count.rands = 0 /\ DOMAIN count = CountDomain /\ pc = "idle"
  BY StoredAssumption DEF Init, CountDomain
<1>2. /\ DOMAIN musig = {"round1", "round2", "popped"}
      /\ musig.round1.id = Zeros /\ musig.round2.id = Zeros /\ musig.popped.id = Zeros
  BY DEF Init, NoSession
<1>3. CountInv
  BY <1>1, <1>2 DEF CountInv, CountDomain
<1>4. SessionInv
  BY <1>1, <1>2 DEF SessionInv, Unused
<1>5. WholeInv
  BY <1>1, <1>2 DEF WholeInv, Unused
<1> QED
  BY <1>1, <1>3, <1>4, <1>5 DEF NonceInv, UsedOnce

\* A handler that is over forgets its sessions.
LEMMA ForgetStep ==
  ASSUME NonceInv, Forget, used' = used, pc' = "idle", pc # "commit_rand", Calm
  PROVE  NonceInv'
<1>1. /\ DOMAIN musig' = {"round1", "round2", "popped"}
      /\ musig'.round1.id = Zeros /\ musig'.round2.id = Zeros /\ musig'.popped.id = Zeros
  BY DEF Forget, NoSession
<1>2. CountInv'
  BY <1>1 DEF NonceInv, CountInv, Calm, CountDomain
<1>3. SessionInv'
  BY <1>1 DEF NonceInv, SessionInv, Calm, Unused
<1>4. WholeInv'
  BY <1>1 DEF NonceInv, WholeInv, Calm, Unused
<1> QED
  BY <1>2, <1>3, <1>4 DEF NonceInv, UsedOnce

\* A step outside the sessions.
LEMMA CalmStep ==
  ASSUME NonceInv, UNCHANGED <<musig, used>>, Calm,
         pc \notin {"popping", "commit_rand", "respond"}, pc' \notin {"idle", "popping"},
         req' = req \/ pc = "idle", pc' \in {"commit_id", "commit_rand"} => musig.round1.id # Zeros
  PROVE  NonceInv'
<1>1. CountInv'
  BY DEF NonceInv, CountInv, Calm, CountDomain
<1>2. SessionInv'
  BY DEF NonceInv, SessionInv, Calm, Unused
<1>3. WholeInv'
  BY DEF NonceInv, WholeInv, Calm, Unused
<1> QED
  BY <1>1, <1>2, <1>3 DEF NonceInv, UsedOnce

\* session_pop takes the session out of storage.
LEMMA PoppingStep ==
  ASSUME NonceInv, Popping
  PROVE  NonceInv'
<1>1. /\ pc = "signing" /\ pc' = "popping" /\ slots.id # Zeros
      /\ musig' = [musig EXCEPT !.popped = [id |-> slots.id, rand |-> slots.rand]]
      /\ slots' = [slots EXCEPT !.id = Zeros]
      /\ UNCHANGED <<req, used, count>>
  BY DEF Popping, AtVisit, MustPop
<1>2. /\ DOMAIN musig' = {"round1", "round2", "popped"} /\ musig'.round1 = musig.round1
      /\ musig'.round2 = musig.round2 /\ musig'.popped.id = slots.id /\ musig'.popped.rand = slots.rand
  BY <1>1 DEF NonceInv, CountInv
<1>3. DOMAIN slots' = {"seed", "id", "rand"} /\ slots'.id = Zeros
  BY <1>1 DEF NonceInv, CountInv
<1>4. CountInv'
  BY <1>1, <1>2, <1>3 DEF NonceInv, CountInv
<1>5. SessionInv'
  BY <1>1, <1>2, <1>3 DEF NonceInv, SessionInv, Unused
<1>6. WholeInv'
  <2>1. slots'.rand = slots.rand
    BY <1>1 DEF NonceInv, CountInv
  <2> QED
    BY <1>1, <1>2, <1>3, <2>1 DEF NonceInv, WholeInv, Unused
<1> QED
  BY <1>1, <1>4, <1>5, <1>6 DEF NonceInv, UsedOnce

\* A session that was popped for round 2 replaces the one that signed before.
LEMMA PoppedStep ==
  ASSUME NonceInv, Popped
  PROVE  NonceInv'
<1>1. /\ pc = "popping" /\ pc' = "signing"
      /\ slots' = [slots EXCEPT !.rand = NoRand]
      /\ UNCHANGED <<req, used, count>>
      /\ \/ musig' = [musig EXCEPT !.popped = NoSession]
         \/ musig' = [musig EXCEPT !.popped = NoSession, !.round2 = musig.popped]
  BY DEF Popped
<1>2. DOMAIN slots' = {"seed", "id", "rand"} /\ slots'.id = Zeros
  BY <1>1 DEF NonceInv, CountInv, SessionInv
<1>3. /\ DOMAIN musig' = {"round1", "round2", "popped"} /\ musig'.popped.id = Zeros
      /\ musig'.round1 = musig.round1
      /\ musig'.round2 = musig.round2 \/ musig'.round2 = musig.popped
  <2>0. DOMAIN musig = {"round1", "round2", "popped"} /\ NoSession.id = Zeros
    BY DEF NonceInv, CountInv, NoSession
  <2>1. CASE musig' = [musig EXCEPT !.popped = NoSession]
    BY <2>0, <2>1
  <2>2. CASE musig' = [musig EXCEPT !.popped = NoSession, !.round2 = musig.popped]
    BY <2>0, <2>2
  <2> QED
    BY <1>1, <2>1, <2>2
<1>4. CountInv'
  BY <1>1, <1>2, <1>3 DEF NonceInv, CountInv
<1>5. SessionInv'
  <2>1. CASE musig'.round2 = musig.round2
    BY <1>1, <1>2, <1>3, <2>1 DEF NonceInv, SessionInv, Unused
  <2>2. CASE musig'.round2 = musig.popped
    BY <1>1, <1>2, <1>3, <2>2 DEF NonceInv, SessionInv, Unused
  <2> QED
    BY <1>3, <2>1, <2>2
<1>6. ASSUME count.torn = 0 PROVE WholeInv'
  <2>1. slots'.rand = NoRand /\ NoRand.root = -1
    BY <1>1 DEF NonceInv, CountInv, NoRand
  <2>2. \A u \in used : u.nonce.rand.root # -1
    BY <1>6 DEF NonceInv, WholeInv
  <2>3. Unused(NoRand)'
    BY <1>1, <2>1, <2>2 DEF NonceInv, CountInv, Unused
  <2>4. musig'.round2.id # Zeros => musig'.round2.rand.root # -1
    BY <1>3, <1>6 DEF NonceInv, WholeInv
  <2>5. musig'.round1.id # Zeros => musig'.round1.rand.root # -1
    BY <1>3, <1>6 DEF NonceInv, WholeInv
  <2> QED
    BY <1>1, <1>2, <1>3, <2>1, <2>2, <2>3, <2>4, <2>5 DEF WholeInv
<1>7. WholeInv'
  BY <1>1, <1>6 DEF WholeInv
<1> QED
  BY <1>1, <1>4, <1>5, <1>7 DEF NonceInv, UsedOnce

\* A new session has randomness that no session had before.
LEMMA PubnonceStep ==
  ASSUME NonceInv, pc = "signing", pc' = "signing",
         musig' = [musig EXCEPT !.round1 = Round1Session],
         count' = [count EXCEPT !.rands = IF Fresh THEN @ + 1 ELSE @],
         UNCHANGED <<slots, req, used>>
  PROVE  NonceInv'
<1>0. PICK fresh : fresh = [root |-> count.rands + 1, for |-> Session]
  OBVIOUS
<1>1. /\ DOMAIN musig' = {"round1", "round2", "popped"} /\ musig'.round2 = musig.round2
      /\ musig'.popped = musig.popped /\ musig'.round1 = Round1Session
  BY DEF NonceInv, CountInv
<1>2. count.rands \in Nat /\ DOMAIN count = CountDomain
  BY DEF NonceInv, CountInv, CountDomain
<1>3. CASE Fresh
  <2>1. DOMAIN count' = CountDomain /\ count'.rands = count.rands + 1 /\ count'.torn = count.torn
    BY <1>2, <1>3 DEF CountDomain
  <2>2. musig'.round1.rand = fresh /\ fresh.root = count.rands + 1
    BY <1>0, <1>1, <1>3 DEF Round1Session
  <2>3. \A rand : rand.root \in -1 .. count.rands => rand # fresh
    BY <1>2, <2>2
  <2>4. \A u \in used : u.nonce.rand # fresh
    BY <2>3 DEF NonceInv, CountInv
  <2>5. \A rand : Unused(rand) => Unused(rand)'
    BY <1>2, <2>1 DEF Unused
  <2>6. Unused(fresh)'
    <3>1. fresh.root \in -1 .. count'.rands
      BY <1>2, <2>1, <2>2
    <3> QED
      BY <2>4, <3>1 DEF Unused
  <2>7. CountInv'
    <3>1. \A u \in used : u.nonce.rand.root \in -1 .. count'.rands
      BY <1>2, <2>1 DEF NonceInv, CountInv
    <3> QED
      BY <1>1, <1>2, <2>1, <3>1 DEF NonceInv, CountInv, CountDomain
  <2>8. SessionInv'
    <3>1. slots.id # Zeros => Unused(slots.rand)' /\ slots.rand # fresh
      BY <2>3, <2>5 DEF NonceInv, SessionInv, Unused
    <3>2. musig.popped.id # Zeros => Unused(musig.popped.rand)' /\ musig.popped.rand # fresh
      BY <1>1, <2>3, <2>5 DEF NonceInv, SessionInv, Unused
    <3>3. musig.round2.id # Zeros =>
            /\ musig.round2.rand # fresh
            /\ musig.round2.rand.root \in -1 .. count'.rands
      BY <1>2, <2>1, <2>3 DEF NonceInv, SessionInv
    <3> QED
      BY <1>1, <2>2, <2>6, <3>1, <3>2, <3>3 DEF NonceInv, SessionInv
  <2>9. WholeInv'
    <3>1. count.torn = 0 => Unused(slots.rand)'
      BY <2>5 DEF NonceInv, WholeInv
    <3>2. fresh.root # -1
      BY <1>2, <2>2
    <3> QED
      BY <1>1, <2>1, <2>2, <3>1, <3>2 DEF NonceInv, WholeInv
  <2> QED
    BY <2>7, <2>8, <2>9 DEF NonceInv, UsedOnce
<1>4. CASE ~Fresh
  <2>1. DOMAIN count' = CountDomain /\ count'.rands = count.rands /\ count'.torn = count.torn
    BY <1>2, <1>4 DEF CountDomain
  <2>2. musig'.round1 = musig.round1
    BY <1>1, <1>4 DEF Round1Session
  <2>3. CountInv'
    BY <1>1, <2>1 DEF NonceInv, CountInv, CountDomain
  <2>4. SessionInv'
    BY <1>1, <2>1, <2>2 DEF NonceInv, SessionInv, Unused
  <2>5. WholeInv'
    BY <1>1, <2>1, <2>2 DEF NonceInv, WholeInv, Unused
  <2> QED
    BY <2>3, <2>4, <2>5 DEF NonceInv, UsedOnce
<1> QED
  BY <1>3, <1>4

\* What round 2 signs is a function of the nonce, as long as the PSBT is the same.
LEMMA PartialStep ==
  ASSUME NonceInv, NEW v, NEW nonce, nonce = Nonce(req.psbt, v, musig.round2.rand),
         musig.round2.id # Zeros, pc = "signing", pc' = "signing",
         used' = used \cup {[nonce |-> nonce,
                             sighash |-> SighashTaproot(req.psbt, v.input, PlaceOf(req.psbt, v))]},
         UNCHANGED <<slots, req, musig, count>>
  PROVE  NonceInv'
<1> DEFINE sighash == SighashTaproot(req.psbt, v.input, PlaceOf(req.psbt, v))
           new == [nonce |-> nonce, sighash |-> sighash]
<1>1. nonce.rand = musig.round2.rand /\ nonce.input = v.input /\ nonce.place = v.place
  BY DEF Nonce
<1>2. sighash = SighashFor(req.psbt, nonce)
  BY <1>1 DEF SighashFor, PlaceOf
<1>3. new.nonce = nonce /\ new.sighash = sighash /\ used' = used \cup {new}
  OBVIOUS
<1> HIDE DEF new, sighash
<1>4. CountInv'
  BY <1>1, <1>3 DEF NonceInv, CountInv, SessionInv
<1>5. \A rand : Unused(rand) /\ rand # musig.round2.rand => Unused(rand)'
  BY <1>1, <1>3 DEF Unused
<1>6. SessionInv'
  <2>1. slots.id # Zeros => Unused(slots.rand)'
    BY <1>5 DEF NonceInv, SessionInv
  <2>2. musig.round1.id # Zeros => Unused(musig.round1.rand)'
    BY <1>5 DEF NonceInv, SessionInv
  <2>3. musig.popped.id # Zeros => Unused(musig.popped.rand)'
    BY <1>5 DEF NonceInv, SessionInv
  <2>4. \A u \in used' : u.nonce.rand = musig.round2.rand => u.sighash = SighashFor(req.psbt, u.nonce)
    BY <1>2, <1>3 DEF NonceInv, SessionInv
  <2> QED
    BY <2>1, <2>2, <2>3, <2>4 DEF NonceInv, SessionInv
<1>7. UsedOnce'
  <2>1. ASSUME NEW u \in used, u.nonce = nonce PROVE u.sighash = sighash
    BY <1>1, <1>2, <2>1 DEF NonceInv, SessionInv
  <2> QED
    BY <1>3, <2>1 DEF NonceInv, UsedOnce
<1>8. WholeInv'
  <2>1. count.torn = 0 => Unused(slots.rand)'
    BY <1>5 DEF NonceInv, WholeInv
  <2>2. count.torn = 0 => \A u \in used' : u.nonce.rand.root # -1
    BY <1>1, <1>3 DEF NonceInv, WholeInv
  <2> QED
    BY <2>1, <2>2 DEF NonceInv, WholeInv
<1> QED
  BY <1>4, <1>6, <1>7, <1>8 DEF NonceInv
\* write_session_to_storage: the id first, then the randomness, which only then is
\* that of the session.
LEMMA CommitStep ==
  ASSUME NonceInv, CommitId \/ CommitRand
  PROVE  NonceInv'
<1>1. UNCHANGED <<musig, used, count, req>>
  BY DEF CommitId, CommitRand, Goto
<1>2. CASE CommitId
  <2>1. DOMAIN slots' = {"seed", "id", "rand"} /\ pc' = "commit_rand" /\ pc = "commit_id"
    BY <1>2 DEF CommitId, Goto, NonceInv, CountInv
  <2>2. CountInv'
    BY <1>1, <2>1 DEF NonceInv, CountInv
  <2>3. SessionInv'
    BY <1>1, <2>1 DEF NonceInv, SessionInv, Unused
  <2>4. WholeInv'
    <3>1. slots'.rand = slots.rand
      BY <1>2 DEF CommitId, NonceInv, CountInv
    <3> QED
      BY <1>1, <2>1, <3>1 DEF NonceInv, WholeInv, SessionInv, Unused
  <2> QED
    BY <1>1, <2>2, <2>3, <2>4 DEF NonceInv, UsedOnce
<1>3. CASE CommitRand
  <2>1. /\ DOMAIN slots' = {"seed", "id", "rand"} /\ pc' = "respond" /\ pc = "commit_rand"
        /\ slots'.rand = musig.round1.rand /\ slots'.id = slots.id
    BY <1>3 DEF CommitRand, Goto, NonceInv, CountInv
  <2>2. CountInv'
    BY <1>1, <2>1 DEF NonceInv, CountInv
  <2>3. SessionInv'
    BY <1>1, <2>1 DEF NonceInv, SessionInv, Unused
  <2>4. WholeInv'
    BY <1>1, <2>1 DEF NonceInv, WholeInv, SessionInv, Unused
  <2> QED
    BY <1>1, <2>2, <2>3, <2>4 DEF NonceInv, UsedOnce
<1> QED
  BY <1>2, <1>3
\* The bookkeeping of a request.
LEMMA TakeFacts ==
  ASSUME NonceInv, NEW seeds, Take(seeds), slots' = slots \/ slots' = SeedSlots
  PROVE  Calm
<1>1. DOMAIN count' = CountDomain /\ count'.rands = count.rands /\ count'.torn = count.torn
  BY DEF Take, NonceInv, CountInv, CountDomain
<1>2. DOMAIN slots' = {"seed", "id", "rand"} /\ slots'.id = slots.id /\ slots'.rand = slots.rand
  BY SeedSlotsFacts DEF NonceInv, CountInv
<1> QED
  BY <1>1, <1>2 DEF Calm

LEMMA SameIsCalm ==
  ASSUME NonceInv, slots' = slots, count' = count
  PROVE  Calm
BY DEF Calm, NonceInv, CountInv, CountDomain

\* A request is taken when no session is in use.
LEMMA RequestStep ==
  ASSUME NonceInv, pc = "idle", Calm,
         (\E how : End(how)) \/ (UNCHANGED <<musig, used>> /\ pc' \in {"confirm", "respond", "unverified", "high_fee", "review"})
  PROVE  NonceInv'
<1>1. CASE \E how : End(how)
  BY <1>1, ForgetStep DEF End
<1>2. CASE UNCHANGED <<musig, used>> /\ pc' \in {"confirm", "respond", "unverified", "high_fee", "review"}
  BY <1>2, CalmStep
<1> QED
  BY <1>1, <1>2

LEMMA NonceInvNext ==
  ASSUME NonceInv, [Next]_vars, ~ (PowerLoss /\ pc = "commit_rand")
  PROVE  NonceInv'
<1>1. CASE UNCHANGED vars
  <2>1. CountInv'
    BY <1>1 DEF vars, NonceInv, CountInv
  <2>2. SessionInv'
    BY <1>1 DEF vars, NonceInv, SessionInv, Unused
  <2>3. WholeInv'
    BY <1>1 DEF vars, NonceInv, WholeInv, Unused
  <2> QED
    BY <1>1, <2>1, <2>2, <2>3 DEF vars, NonceInv, UsedOnce
<1>2. ASSUME NEW r, NEW screen, NEW seeds, Proceed(r, screen, seeds)
      PROVE  UNCHANGED <<musig, used>> /\ pc' \in {"confirm", "respond"}
  BY <1>2 DEF Proceed, Goto
<1>3. CASE GetMasterFingerprint \/ GetExtendedPubkey \/ RegisterAccount \/ RegisterIdentityKey \/ GetAddress
  <2>1. /\ pc = "idle" /\ (slots' = slots \/ slots' = SeedSlots) /\ \E seeds : Take(seeds)
        /\ (\E how : End(how)) \/ (\E r, screen, seeds : Proceed(r, screen, seeds))
    BY <1>3 DEF GetMasterFingerprint, GetExtendedPubkey, RegisterAccount, RegisterIdentityKey, GetAddress, Accept
  <2>2. Calm
    BY <2>1, TakeFacts
  <2> QED
    BY <1>2, <2>1, <2>2, RequestStep
<1>4. ASSUME NEW psbt, ScreenAfterUnverified(psbt) \/ ScreenAfterWarnings(psbt)
      PROVE  (\E how : End(how)) \/ (UNCHANGED <<musig, used>> /\ pc' \in {"high_fee", "review"})
  BY <1>4 DEF ScreenAfterUnverified, ScreenAfterWarnings, Goto, volatile
<1>5. CASE SignPsbt
  <2>1. PICK r \in Requests :
          /\ pc = "idle" /\ slots' = slots /\ \E seeds : Take(seeds)
          /\ \/ \E how : End(how)
             \/ Goto("unverified") /\ UNCHANGED volatile
             \/ ScreenAfterUnverified(r.psbt)
    BY <1>5 DEF SignPsbt, Accept
  <2>2. Calm
    BY <2>1, TakeFacts
  <2>3. CASE Goto("unverified") /\ UNCHANGED volatile
    BY <2>1, <2>2, <2>3, RequestStep DEF Goto, volatile
  <2>4. CASE ScreenAfterUnverified(r.psbt)
    BY <1>4, <2>1, <2>2, <2>4, RequestStep
  <2> QED
    BY <2>1, <2>2, <2>3, <2>4, RequestStep
\* In the steps of a handler, nothing is random and storage stays, except for sessions.
<1>6. ASSUME NEW how, End(how), slots' = slots, count' = count, pc # "commit_rand" PROVE NonceInv'
  BY <1>6, SameIsCalm, ForgetStep DEF End
<1>7. CASE Confirm \/ ApproveTransaction \/ VerifyStep
  <2>1. /\ slots' = slots /\ count' = count /\ UNCHANGED <<musig, used, req>>
        /\ pc \in {"confirm", "unverified", "high_fee", "review", "await"}
        /\ pc' \in {"respond", "unverified", "high_fee", "review", "await"}
    BY <1>7 DEF Confirm, ApproveTransaction, VerifyStep
  <2> QED
    BY <2>1, SameIsCalm, CalmStep
<1>8. CASE Reject
  BY <1>6, <1>8 DEF Reject
<1>9. CASE Respond
  BY <1>9, SameIsCalm, ForgetStep DEF Respond
<1>10. CASE ContinueUnverified \/ ContinueHighFee
  <2>1. /\ slots' = slots /\ count' = count /\ req' = req /\ pc \in {"unverified", "high_fee"}
        /\ ScreenAfterUnverified(req.psbt) \/ ScreenAfterWarnings(req.psbt)
    BY <1>10 DEF ContinueUnverified, ContinueHighFee
  <2>2. (\E how : End(how)) \/ (UNCHANGED <<musig, used>> /\ pc' \in {"high_fee", "review"})
    BY <1>4, <2>1
  <2> QED
    BY <1>6, <2>1, <2>2, SameIsCalm, CalmStep
<1>11. CASE AwaitTask
  <2>1. /\ slots' = slots /\ count' = count /\ req' = req /\ pc = "await"
        /\ (\E how : End(how)) \/ (UNCHANGED <<musig, used>> /\ pc' = "begin")
    BY <1>11 DEF AwaitTask, Goto, volatile
  <2> QED
    BY <1>6, <2>1, SameIsCalm, CalmStep
<1>12. CASE BeginPass
  <2>1. /\ req' = req /\ pc = "begin"
        /\ \/ slots' = slots /\ count' = count /\ \E how : End(how)
           \/ /\ slots' = SeedSlots /\ count' = [count EXCEPT !.seeds = SeedCount]
              /\ UNCHANGED <<musig, used>> /\ pc' = "signing"
    BY <1>12 DEF BeginPass, Goto, volatile
  <2>2. slots' = SeedSlots /\ count' = [count EXCEPT !.seeds = SeedCount] => Calm
    BY SeedSlotsFacts DEF Calm, NonceInv, CountInv, CountDomain
  <2> QED
    BY <1>6, <2>1, <2>2, CalmStep
<1>13. CASE SignInputEcdsa \/ SignInputSchnorr
  <2>1. /\ slots' = slots /\ count' = count /\ req' = req /\ pc = "signing"
        /\ (\E how : End(how)) \/ (UNCHANGED <<musig, used>> /\ pc' = "signing")
    BY <1>13 DEF SignInputEcdsa, SignInputSchnorr, AtVisit, Produce
  <2> QED
    BY <1>6, <2>1, SameIsCalm, CalmStep
<1>14. CASE ProducePubnonce
  <2>1. /\ slots' = slots /\ req' = req /\ pc = "signing"
        /\ \/ count' = count /\ \E how : End(how)
           \/ /\ musig' = [musig EXCEPT !.round1 = Round1Session]
              /\ count' = [count EXCEPT !.rands = IF Fresh THEN @ + 1 ELSE @]
              /\ used' = used /\ pc' = "signing"
    BY <1>14 DEF ProducePubnonce, AtVisit, Produce
  <2> QED
    BY <1>6, <2>1, PubnonceStep
<1>15. CASE SignSighashMusig
  <2>1. PICK v : v = Current
    OBVIOUS
  <2>2. /\ slots' = slots /\ count' = count /\ req' = req /\ pc = "signing"
        /\ \/ \E how : End(how)
           \/ /\ musig.round2.id = Session /\ musig' = musig /\ pc' = "signing"
              /\ used' = used \cup {[nonce |-> Nonce(req.psbt, v, musig.round2.rand),
                                     sighash |-> SighashTaproot(req.psbt, v.input, PlaceOf(req.psbt, v))]}
    BY <1>15, <2>1 DEF SignSighashMusig, AtVisit, Produce
  <2>3. Session # Zeros
    BY SessionNotZeros DEF Session
  <2> QED
    BY <1>6, <2>2, <2>3, PartialStep
<1>16. CASE EndPass
  <2>1. /\ slots' = slots /\ count' = count /\ req' = req /\ pc = "signing" /\ UNCHANGED <<musig, used>>
        /\ pc' = IF musig.round1.id # Zeros THEN "commit_id" ELSE "respond"
    BY <1>16 DEF EndPass, Goto
  <2> QED
    BY <2>1, SameIsCalm, CalmStep
<1>17. CASE PowerLoss
  <2>1. /\ slots' = slots /\ pc # "commit_rand"
        /\ count' = [count EXCEPT !.crashes = @ + 1, !.torn = IF pc = "commit_rand" THEN @ + 1 ELSE @]
        /\ \E how : End(how)
    BY <1>17 DEF PowerLoss
  <2>2. Calm
    BY <2>1 DEF Calm, NonceInv, CountInv, CountDomain
  <2> QED
    BY <2>1, <2>2, ForgetStep DEF End
<1> QED
  BY <1>1, <1>3, <1>5, <1>7, <1>8, <1>9, <1>10, <1>11, <1>12, <1>13, <1>14, <1>15, <1>16, <1>17,
     PoppingStep, PoppedStep, CommitStep DEF Next

\* The first loss of power in a commit: the session that is left behind has randomness that
\* has signed nothing.
LEMMA TornStep ==
  ASSUME NonceInv, count.torn = 0, PowerLoss, pc = "commit_rand"
  PROVE  NonceInv'
<1>1. /\ slots' = slots /\ used' = used /\ pc' = "idle" /\ Forget
      /\ count' = [count EXCEPT !.crashes = @ + 1, !.torn = @ + 1]
  BY DEF PowerLoss, End
<1>2. /\ DOMAIN musig' = {"round1", "round2", "popped"}
      /\ musig'.round1.id = Zeros /\ musig'.round2.id = Zeros /\ musig'.popped.id = Zeros
  BY <1>1 DEF Forget, NoSession
<1>3. DOMAIN count' = CountDomain /\ count'.rands = count.rands /\ count'.torn = 1
  BY <1>1 DEF NonceInv, CountInv, CountDomain
<1>4. CountInv'
  BY <1>1, <1>2, <1>3 DEF NonceInv, CountInv
<1>5. Unused(slots.rand)'
  BY <1>1, <1>3 DEF NonceInv, WholeInv, Unused
<1>6. SessionInv'
  BY <1>1, <1>2, <1>5 DEF SessionInv
<1>7. WholeInv'
  BY <1>3 DEF WholeInv
<1> QED
  BY <1>1, <1>4, <1>6, <1>7 DEF NonceInv, UsedOnce

\* The count of torn commits never falls.
LEMMA TornGrows ==
  ASSUME DOMAIN count = CountDomain, count.torn \in Nat, [Next]_vars
  PROVE  /\ DOMAIN count' = CountDomain
         /\ \/ count'.torn = count.torn /\ ~ (PowerLoss /\ pc = "commit_rand")
            \/ count'.torn = count.torn + 1 /\ PowerLoss /\ pc = "commit_rand"
<1>1. CASE PowerLoss
  <2>1. count' = [count EXCEPT !.crashes = @ + 1, !.torn = IF pc = "commit_rand" THEN @ + 1 ELSE @]
    BY <1>1 DEF PowerLoss
  <2> QED
    BY <1>1, <2>1 DEF CountDomain
<1>2. CASE ~ PowerLoss
  <2>1. \/ count' = count
        \/ \E seeds : Take(seeds)
        \/ count' = [count EXCEPT !.seeds = SeedCount]
        \/ count' = [count EXCEPT !.rands = IF Fresh THEN @ + 1 ELSE @]
    BY <1>2 DEF Next, vars, GetMasterFingerprint, GetExtendedPubkey, RegisterAccount, RegisterIdentityKey,
                GetAddress, SignPsbt, Confirm, Reject, Respond, ContinueUnverified, ContinueHighFee,
                ApproveTransaction, VerifyStep, AwaitTask, BeginPass, SignInputEcdsa, SignInputSchnorr,
                Popping, Popped, ProducePubnonce, SignSighashMusig, EndPass, CommitId, CommitRand
  <2>2. DOMAIN count' = CountDomain /\ count'.torn = count.torn
    BY <2>1 DEF Take, CountDomain
  <2> QED
    BY <1>2, <2>2
<1> QED
  BY <1>1, <1>2

LEMMA TornInvNext == TornInv /\ [Next]_vars => TornInv'
<1> SUFFICES ASSUME TornInv, [Next]_vars PROVE TornInv'
  OBVIOUS
<1>1. CASE count'.torn = count.torn /\ ~ (PowerLoss /\ pc = "commit_rand")
  BY <1>1, TornGrows, NonceInvNext DEF TornInv
<1>2. CASE count'.torn = count.torn + 1 /\ PowerLoss /\ pc = "commit_rand"
  <2>1. count.torn \in Nat
    BY DEF TornInv
  <2>2. count'.torn <= 1 => count.torn = 0
    BY <1>2, <2>1
  <2>3. count'.torn <= 1 => NonceInv'
    BY <1>2, <2>2, TornStep DEF TornInv
  <2> QED
    BY <1>2, <2>1, <2>3, TornGrows DEF TornInv
<1> QED
  BY <1>1, <1>2, TornGrows DEF TornInv

LEMMA TornInvInit == Init => TornInv
<1>1. Init => DOMAIN count = CountDomain /\ count.torn = 0
  BY DEF Init, CountDomain
<1> QED
  BY <1>1, NonceInvInit DEF TornInv

\* No secret nonce of MuSig2 signs two messages (musig_signing.rs), whatever PSBTs come in
\* whatever order and wherever the power goes, until it goes for a second time between the
\* two writes of a session.
THEOREM NonceSafety == Spec => []NonceUsedOnce
<1>1. TornInv => NonceUsedOnce
  BY DEF TornInv, NonceInv, UsedOnce, NonceUsedOnce
<1> QED
  BY <1>1, TornInvInit, TornInvNext, PTL DEF Spec

-----------------------------------------------------------------------------
(* Sums over finite sets. The library's induction over finite sets takes an    *)
(* operator; here it is for a set of good subsets.                             *)
LEMMA LeastExists ==
  ASSUME NEW S, S \subseteq Nat, S # {}
  PROVE  \E x \in S : \A y \in S : x <= y
<1>1. PICK x \in S : \A y \in S : ~ (<<y, x>> \in OpToRel(<, Nat))
  BY NatLessThanWellFounded, WFMin
<1>2. ASSUME NEW y \in S PROVE x <= y
  <2>1. <<y, x>> \notin {ss \in Nat \X Nat : ss[1] < ss[2]}
    BY <1>1, <1>2, Zenon DEF OpToRel
  <2> QED
    BY <1>2, <2>1, SMT
<1> QED
  BY <1>2

LEMMA FiniteDescent ==
  ASSUME NEW D, IsFiniteSet(D), NEW Good, {} \in Good,
         \A T \in SUBSET D : T # {} /\ (\A x \in T : T \ {x} \in Good) => T \in Good
  PROVE  \A T \in SUBSET D : T \in Good
<1> DEFINE Bad == {T \in SUBSET D : T \notin Good}
           Sizes == {Cardinality(T) : T \in Bad}
<1>1. \A T \in SUBSET D : IsFiniteSet(T) /\ Cardinality(T) \in Nat
  BY FS_Subset, FS_CardinalityType
<1> SUFFICES ASSUME Bad # {} PROVE FALSE
  OBVIOUS
<1>2. Sizes \subseteq Nat /\ Sizes # {}
  BY <1>1
<1>3. PICK n \in Sizes : \A m \in Sizes : n <= m
  BY <1>2, LeastExists
<1>4. PICK T \in Bad : Cardinality(T) = n
  BY <1>3
<1>5. T # {} /\ T \in SUBSET D
  BY <1>4
<1>6. ASSUME NEW x \in T PROVE T \ {x} \in Good
  <2>1. Cardinality(T \ {x}) = n - 1 /\ T \ {x} \in SUBSET D
    BY <1>1, <1>4, <1>5, FS_RemoveElement
  <2>2. n \in Nat /\ ~(n <= n - 1)
    BY <1>2, <1>3
  <2> QED
    BY <1>3, <2>1, <2>2
<1> QED
  BY <1>4, <1>5, <1>6

Some(T) == CHOOSE x \in T : TRUE

\* The equation that defines a sum, for the sets of a family.
SumBody(f, g, T) == IF T = {} THEN 0 ELSE f[Some(T)] + g[T \ {Some(T)}]

IsSum(g, f, D) == g = [T \in SUBSET D |-> SumBody(f, g, T)]

LEMMA SumIs ==
  ASSUME NEW f, NEW S
  PROVE  SumFunctionOnSet(f, S) = (CHOOSE g : IsSum(g, f, S))[S]
BY DEF SumFunctionOnSet, FoldFunctionOnSet, MapThenFoldSet, IsSum, SumBody, Some

LEMMA SumExists ==
  ASSUME NEW f, NEW D, IsFiniteSet(D)
  PROVE  \E g : IsSum(g, f, D)
<1> DEFINE Small(n) == {T \in SUBSET D : Cardinality(T) <= n}
           P(n) == \E g : g = [T \in Small(n) |-> SumBody(f, g, T)]
           Bad == {n \in Nat : ~P(n)}
<1>1. \A T \in SUBSET D : IsFiniteSet(T) /\ Cardinality(T) \in Nat
  BY FS_Subset, FS_CardinalityType
<1>2. P(0)
  <2>1. Small(0) = {{}}
    <3>1. \A T \in SUBSET D : Cardinality(T) = 0 <=> T = {}
      BY <1>1, FS_EmptySet
    <3> QED
      BY <1>1, <3>1
  <2> DEFINE g == [T \in Small(0) |-> 0]
  <2>2. g = [T \in Small(0) |-> SumBody(f, g, T)]
    BY <2>1 DEF SumBody
  <2> QED
    BY <2>2
<1>3. ASSUME NEW n \in Nat, P(n) PROVE P(n + 1)
  <2>1. PICK g : g = [T \in Small(n) |-> SumBody(f, g, T)]
    BY <1>3
  <2>2. PICK h : h = [T \in Small(n + 1) |-> SumBody(f, g, T)]
    OBVIOUS
  <2>3. ASSUME NEW T \in Small(n + 1) PROVE SumBody(f, g, T) = SumBody(f, h, T)
    <3>1. CASE T = {}
      BY <3>1 DEF SumBody
    <3>2. CASE T # {}
      <4>1. PICK x : x = Some(T)
        OBVIOUS
      <4>2. x \in T /\ IsFiniteSet(T) /\ Cardinality(T) \in Nat /\ Cardinality(T) <= n + 1
        BY <1>1, <3>2, <4>1 DEF Some
      <4>3. Cardinality(T \ {x}) = Cardinality(T) - 1 /\ T \ {x} \in SUBSET D
        BY <4>2, FS_RemoveElement
      <4>4. T \ {x} \in Small(n) /\ T \ {x} \in Small(n + 1)
        BY <4>2, <4>3
      <4> HIDE DEF Small
      <4>5. g[T \ {x}] = h[T \ {x}]
        BY <2>1, <2>2, <4>4
      <4> QED
        BY <3>2, <4>1, <4>5 DEF SumBody
    <3> QED
      BY <3>1, <3>2
  <2> HIDE DEF Small
  <2>4. h = [T \in Small(n + 1) |-> SumBody(f, h, T)]
    BY <2>2, <2>3
  <2> QED
    BY <2>4
<1> HIDE DEF P
<1>4. Bad = {}
  <2> SUFFICES ASSUME Bad # {} PROVE FALSE
    OBVIOUS
  <2>1. PICK n \in Bad : \A m \in Bad : n <= m
    BY LeastExists
  <2>2. n # 0 /\ n \in Nat
    BY <1>2, <2>1
  <2>3. n - 1 \in Nat /\ n - 1 + 1 = n /\ ~(n <= n - 1)
    BY <2>2
  <2>4. P(n - 1)
    BY <2>1, <2>3
  <2>5. P(n - 1 + 1)
    BY <1>3, <2>3, <2>4
  <2> QED
    BY <2>1, <2>3, <2>5
<1>5. P(Cardinality(D))
  BY <1>1, <1>4
<1>6. Small(Cardinality(D)) = SUBSET D
  BY <1>1, FS_Subset
<1>7. PICK g : g = [T \in Small(Cardinality(D)) |-> SumBody(f, g, T)]
  BY <1>5 DEF P
<1> HIDE DEF Small
<1>8. IsSum(g, f, D)
  BY <1>6, <1>7 DEF IsSum
<1> QED
  BY <1>8

\* Two such functions agree where both are defined.
LEMMA SumUnique ==
  ASSUME NEW f, NEW D, IsFiniteSet(D), NEW E, D \subseteq E, NEW g, IsSum(g, f, D), NEW h, IsSum(h, f, E)
  PROVE  \A T \in SUBSET D : g[T] = h[T]
<1> DEFINE Good == {T \in SUBSET D : g[T] = h[T]}
<1>1. \A T \in SUBSET D : g[T] = SumBody(f, g, T) /\ h[T] = SumBody(f, h, T)
  BY DEF IsSum
<1>2. {} \in Good
  BY <1>1 DEF SumBody
<1>3. ASSUME NEW T \in SUBSET D, T # {}, \A x \in T : T \ {x} \in Good PROVE T \in Good
  <2>1. PICK x : x = Some(T)
    OBVIOUS
  <2>2. x \in T
    BY <1>3, <2>1 DEF Some
  <2>3. g[T \ {x}] = h[T \ {x}]
    BY <1>3, <2>2
  <2>4. g[T] = h[T]
    BY <1>1, <1>3, <2>1, <2>3 DEF SumBody
  <2> QED
    BY <2>4
<1> HIDE DEF Good
<1>4. \A T \in SUBSET D : T \in Good
  BY <1>2, <1>3, FiniteDescent
<1> QED
  BY <1>4 DEF Good

LEMMA SumUnroll ==
  ASSUME NEW f, NEW S, IsFiniteSet(S)
  PROVE  SumFunctionOnSet(f, S) =
           IF S = {} THEN 0 ELSE f[Some(S)] + SumFunctionOnSet(f, S \ {Some(S)})
<1>1. PICK g : g = CHOOSE h : IsSum(h, f, S)
  OBVIOUS
<1>2. IsSum(g, f, S) /\ SumFunctionOnSet(f, S) = g[S]
  BY <1>1, SumExists, SumIs
<1>3. g[S] = SumBody(f, g, S)
  BY <1>2 DEF IsSum
<1>4. CASE S = {}
  BY <1>2, <1>3, <1>4 DEF SumBody
<1>5. CASE S # {}
  <2>1. PICK T : T = S \ {Some(S)}
    OBVIOUS
  <2>2. IsFiniteSet(T) /\ T \subseteq S
    BY <2>1, FS_Subset
  <2>3. PICK h : h = CHOOSE k : IsSum(k, f, T)
    OBVIOUS
  <2>4. IsSum(h, f, T) /\ SumFunctionOnSet(f, T) = h[T]
    BY <2>2, <2>3, SumExists, SumIs
  <2>5. h[T] = g[T]
    <3>1. \A U \in SUBSET T : h[U] = g[U]
      BY <1>2, <2>2, <2>4, SumUnique
    <3> QED
      BY <3>1
  <2>6. g[S] = f[Some(S)] + g[S \ {Some(S)}]
    BY <1>3, <1>5 DEF SumBody
  <2>7. SumFunctionOnSet(f, S) = f[Some(S)] + SumFunctionOnSet(f, S \ {Some(S)})
    BY <1>2, <2>1, <2>4, <2>5, <2>6
  <2> QED
    BY <1>5, <2>7
<1> QED
  BY <1>4, <1>5

LEMMA SumType ==
  ASSUME NEW D, IsFiniteSet(D), NEW f \in [D -> Int]
  PROVE  \A S \in SUBSET D : SumFunctionOnSet(f, S) \in Int
<1> DEFINE Good == {S \in SUBSET D : SumFunctionOnSet(f, S) \in Int}
<1>1. {} \in Good
  <2>1. SumFunctionOnSet(f, {}) = 0
    BY FS_EmptySet, SumUnroll
  <2> QED
    BY <2>1
<1>2. ASSUME NEW S \in SUBSET D, S # {}, \A x \in S : S \ {x} \in Good PROVE S \in Good
  <2>1. PICK c : c = Some(S)
    OBVIOUS
  <2>2. c \in S /\ IsFiniteSet(S)
    BY <1>2, <2>1, FS_Subset DEF Some
  <2>3. SumFunctionOnSet(f, S) = f[c] + SumFunctionOnSet(f, S \ {c})
    BY <1>2, <2>1, <2>2, SumUnroll
  <2>4. f[c] \in Int /\ SumFunctionOnSet(f, S \ {c}) \in Int
    BY <1>2, <2>2
  <2> QED
    BY <2>3, <2>4
<1> HIDE DEF Good
<1>3. \A S \in SUBSET D : S \in Good
  BY <1>1, <1>2, FiniteDescent
<1> QED
  BY <1>3 DEF Good

\* A sum is one of its terms and the rest, whichever term it is.
LEMMA SumRemove ==
  ASSUME NEW D, IsFiniteSet(D), NEW f \in [D -> Int]
  PROVE  \A S \in SUBSET D :
           /\ SumFunctionOnSet(f, S) \in Int
           /\ \A x \in S : SumFunctionOnSet(f, S) = f[x] + SumFunctionOnSet(f, S \ {x})
<1> DEFINE Good == {S \in SUBSET D :
             /\ SumFunctionOnSet(f, S) \in Int
             /\ \A x \in S : SumFunctionOnSet(f, S) = f[x] + SumFunctionOnSet(f, S \ {x})}
<1>1. {} \in Good
  <2>1. SumFunctionOnSet(f, {}) = 0
    BY FS_EmptySet, SumUnroll
  <2> QED
    BY <2>1
<1>2. ASSUME NEW S \in SUBSET D, S # {}, \A x \in S : S \ {x} \in Good PROVE S \in Good
  <2>1. PICK c : c = Some(S)
    OBVIOUS
  <2>2. c \in S /\ IsFiniteSet(S)
    BY <1>2, <2>1, FS_Subset DEF Some
  <2>3. SumFunctionOnSet(f, S) = f[c] + SumFunctionOnSet(f, S \ {c})
    BY <1>2, <2>1, <2>2, SumUnroll
  <2>4. f[c] \in Int /\ SumFunctionOnSet(f, S \ {c}) \in Int
    BY <1>2, <2>2
  <2>5. ASSUME NEW x \in S, x # c PROVE SumFunctionOnSet(f, S) = f[x] + SumFunctionOnSet(f, S \ {x})
    <3>1. PICK T : T = (S \ {c}) \ {x}
      OBVIOUS
    <3>2. T = (S \ {x}) \ {c} /\ x \in S \ {c} /\ c \in S \ {x}
      BY <2>2, <2>5, <3>1
    <3>3. SumFunctionOnSet(f, S \ {c}) = f[x] + SumFunctionOnSet(f, T)
      BY <1>2, <2>2, <3>1, <3>2
    <3>4. SumFunctionOnSet(f, S \ {x}) = f[c] + SumFunctionOnSet(f, T)
      BY <1>2, <3>2
    <3>5. f[x] \in Int /\ SumFunctionOnSet(f, T) \in Int
      <4>1. T \in SUBSET D /\ f[x] \in Int
        BY <3>1
      <4> QED
        BY <4>1, SumType
    <3> QED
      BY <2>3, <2>4, <3>3, <3>4, <3>5
  <2>6. SumFunctionOnSet(f, S) \in Int
    BY <2>3, <2>4
  <2> QED
    BY <2>3, <2>5, <2>6
<1> HIDE DEF Good
<1>3. \A S \in SUBSET D : S \in Good
  BY <1>1, <1>2, FiniteDescent
<1> QED
  BY <1>3 DEF Good

\* A sum depends on its terms only.
LEMMA SumSame ==
  ASSUME NEW S, IsFiniteSet(S), NEW f, NEW g, \A x \in S : f[x] = g[x]
  PROVE  SumFunctionOnSet(f, S) = SumFunctionOnSet(g, S)
<1> DEFINE Good == {T \in SUBSET S : SumFunctionOnSet(f, T) = SumFunctionOnSet(g, T)}
<1>1. {} \in Good
  BY FS_EmptySet, SumUnroll
<1>2. ASSUME NEW T \in SUBSET S, T # {}, \A x \in T : T \ {x} \in Good PROVE T \in Good
  <2>1. PICK c : c = Some(T)
    OBVIOUS
  <2>2. c \in T /\ IsFiniteSet(T)
    BY <1>2, <2>1, FS_Subset DEF Some
  <2>3. /\ SumFunctionOnSet(f, T) = f[c] + SumFunctionOnSet(f, T \ {c})
        /\ SumFunctionOnSet(g, T) = g[c] + SumFunctionOnSet(g, T \ {c})
    BY <1>2, <2>1, <2>2, SumUnroll
  <2>4. f[c] = g[c] /\ SumFunctionOnSet(f, T \ {c}) = SumFunctionOnSet(g, T \ {c})
    BY <1>2, <2>2
  <2> QED
    BY <2>3, <2>4
<1> HIDE DEF Good
<1>3. \A T \in SUBSET S : T \in Good
  BY <1>1, <1>2, FiniteDescent
<1> QED
  BY <1>3 DEF Good

LEMMA SumSplit ==
  ASSUME NEW D, IsFiniteSet(D), NEW f \in [D -> Int], NEW A \in SUBSET D, NEW B \in SUBSET D, A \cap B = {}
  PROVE  SumFunctionOnSet(f, A \cup B) = SumFunctionOnSet(f, A) + SumFunctionOnSet(f, B)
<1> DEFINE Good == {T \in SUBSET A :
             SumFunctionOnSet(f, T \cup B) = SumFunctionOnSet(f, T) + SumFunctionOnSet(f, B)}
<1>1. \A S \in SUBSET D : SumFunctionOnSet(f, S) \in Int
  BY SumRemove
<1>2. {} \in Good
  <2>1. SumFunctionOnSet(f, {}) = 0 /\ {} \cup B = B
    BY FS_EmptySet, SumUnroll
  <2> QED
    BY <1>1, <2>1
<1>3. ASSUME NEW T \in SUBSET A, T # {}, \A x \in T : T \ {x} \in Good PROVE T \in Good
  <2>1. PICK x : x \in T
    BY <1>3
  <2>2. PICK U, V : U = T \ {x} /\ V = T \cup B
    OBVIOUS
  <2>3. V \ {x} = U \cup B /\ V \in SUBSET D /\ x \in V /\ U \in SUBSET D /\ T \in SUBSET D
    BY <2>1, <2>2
  <2>4. SumFunctionOnSet(f, V) = f[x] + SumFunctionOnSet(f, V \ {x})
    BY <2>3, SumRemove
  <2>5. SumFunctionOnSet(f, T) = f[x] + SumFunctionOnSet(f, U)
    BY <2>1, <2>2, <2>3, SumRemove
  <2>6. SumFunctionOnSet(f, U \cup B) = SumFunctionOnSet(f, U) + SumFunctionOnSet(f, B)
    BY <1>3, <2>1, <2>2
  <2>7. f[x] \in Int /\ SumFunctionOnSet(f, U) \in Int /\ SumFunctionOnSet(f, B) \in Int
    BY <1>1, <2>3
  <2>8. SumFunctionOnSet(f, V) = SumFunctionOnSet(f, T) + SumFunctionOnSet(f, B)
    <3>1. SumFunctionOnSet(f, V) = f[x] + SumFunctionOnSet(f, U \cup B)
      BY <2>3, <2>4
    <3> QED
      BY <2>5, <2>6, <2>7, <3>1
  <2> QED
    BY <2>2, <2>8
<1> HIDE DEF Good
<1>4. IsFiniteSet(A)
  BY FS_Subset
<1>5. \A T \in SUBSET A : T \in Good
  BY <1>2, <1>3, <1>4, FiniteDescent
<1> QED
  BY <1>5 DEF Good

LEMMA SumMinus ==
  ASSUME NEW A, IsFiniteSet(A), NEW g \in [A -> Int], NEW h \in [A -> Int]
  PROVE  SumFunctionOnSet([a \in A |-> g[a] - h[a]], A) = SumFunctionOnSet(g, A) - SumFunctionOnSet(h, A)
<1>1. PICK d : d = [a \in A |-> g[a] - h[a]]
  OBVIOUS
<1>2. d \in [A -> Int] /\ \A a \in A : d[a] = g[a] - h[a] /\ d[a] \in Int /\ g[a] \in Int /\ h[a] \in Int
  BY <1>1
<1> DEFINE Good == {T \in SUBSET A : SumFunctionOnSet(d, T) = SumFunctionOnSet(g, T) - SumFunctionOnSet(h, T)}
<1>3. {} \in Good
  <2>1. SumFunctionOnSet(d, {}) = 0 /\ SumFunctionOnSet(g, {}) = 0 /\ SumFunctionOnSet(h, {}) = 0
    BY FS_EmptySet, SumUnroll
  <2> QED
    BY <2>1
<1>4. ASSUME NEW T \in SUBSET A, T # {}, \A x \in T : T \ {x} \in Good PROVE T \in Good
  <2>1. PICK x : x \in T
    BY <1>4
  <2>2. PICK U : U = T \ {x}
    OBVIOUS
  <2>3. U \in SUBSET A /\ U \in Good
    BY <1>4, <2>1, <2>2
  <2>4. SumFunctionOnSet(d, T) = d[x] + SumFunctionOnSet(d, U)
    BY <1>2, <2>1, <2>2, SumRemove
  <2>5. SumFunctionOnSet(g, T) = g[x] + SumFunctionOnSet(g, U) /\ SumFunctionOnSet(g, U) \in Int
    BY <2>1, <2>2, <2>3, SumRemove
  <2>6. SumFunctionOnSet(h, T) = h[x] + SumFunctionOnSet(h, U) /\ SumFunctionOnSet(h, U) \in Int
    BY <2>1, <2>2, <2>3, SumRemove
  <2>7. SumFunctionOnSet(d, U) = SumFunctionOnSet(g, U) - SumFunctionOnSet(h, U)
    BY <2>3
  <2>8. d[x] = g[x] - h[x] /\ g[x] \in Int /\ h[x] \in Int
    BY <1>2, <2>1
  <2>9. SumFunctionOnSet(d, T) = SumFunctionOnSet(g, T) - SumFunctionOnSet(h, T)
    BY <2>4, <2>5, <2>6, <2>7, <2>8
  <2> QED
    BY <2>9
<1> HIDE DEF Good
<1>5. \A T \in SUBSET A : T \in Good
  BY <1>3, <1>4, FiniteDescent
<1> QED
  BY <1>1, <1>5 DEF Good

\* s[a] is the sum of the terms whose key is a.
ByKey(D, f, A, k, s) ==
  /\ IsFiniteSet(D) /\ f \in [D -> Int] /\ IsFiniteSet(A) /\ k \in [D -> A] /\ s \in [A -> Int]
  /\ \A a \in A : \A T \in SUBSET D : (\A i \in D : i \in T <=> k[i] = a) => s[a] = SumFunctionOnSet(f, T)

\* A sum can be made key by key.
LEMMA SumByKey ==
  ASSUME NEW D, NEW f, NEW A, NEW k, NEW s, ByKey(D, f, A, k, s)
  PROVE  SumFunctionOnSet(s, A) = SumFunctionOnSet(f, D)
<1> USE DEF ByKey
<1> DEFINE Of(B) == {i \in D : k[i] \in B}
           Good == {B \in SUBSET A : SumFunctionOnSet(s, B) = SumFunctionOnSet(f, Of(B))}
<1>3. {} \in Good
  <2>1. SumFunctionOnSet(s, {}) = 0 /\ SumFunctionOnSet(f, {}) = 0 /\ Of({}) = {}
    BY FS_EmptySet, SumUnroll
  <2> QED
    BY <2>1
<1>4. ASSUME NEW B \in SUBSET A, B # {}, \A x \in B : B \ {x} \in Good PROVE B \in Good
  <2>1. PICK x : x \in B
    BY <1>4
  <2>2. PICK U, V : U = {i \in D : k[i] = x} /\ V = Of(B \ {x})
    OBVIOUS
  <2>3. U \in SUBSET D /\ V \in SUBSET D /\ U \cap V = {} /\ Of(B) = U \cup V
    BY <2>1, <2>2
  <2>4. SumFunctionOnSet(s, B) = s[x] + SumFunctionOnSet(s, B \ {x})
    BY <2>1, SumRemove
  <2>5. s[x] = SumFunctionOnSet(f, U)
    <3>1. x \in A /\ \A i \in D : i \in U <=> k[i] = x
      BY <2>1, <2>2
    <3> QED
      BY <2>3, <3>1
  <2>6. SumFunctionOnSet(s, B \ {x}) = SumFunctionOnSet(f, V)
    BY <1>4, <2>1, <2>2
  <2>7. SumFunctionOnSet(f, U \cup V) = SumFunctionOnSet(f, U) + SumFunctionOnSet(f, V)
    BY <2>3, SumSplit
  <2>8. SumFunctionOnSet(s, B) = SumFunctionOnSet(f, Of(B))
    BY <2>3, <2>4, <2>5, <2>6, <2>7
  <2> QED
    BY <2>8
<1>5. Of(A) = D
  OBVIOUS
<1> HIDE DEF Good
<1>6. \A B \in SUBSET A : B \in Good
  BY <1>3, <1>4, FiniteDescent
<1>7. SumFunctionOnSet(s, A) = SumFunctionOnSet(f, Of(A))
  BY <1>6 DEF Good
<1> QED
  BY <1>5, <1>7

-----------------------------------------------------------------------------
(* What analyze_transaction has made sure of.                                  *)
LEMMA ListFacts ==
  ASSUME NEW s, IsList(s)
  PROVE  Len(s) \in Nat /\ DOMAIN s = 1 .. Len(s) /\ IsFiniteSet(DOMAIN s) /\ DOMAIN s \subseteq Nat
<1>1. Len(s) \in Nat /\ DOMAIN s = 1 .. Len(s)
  BY DEF IsList
<1> QED
  BY <1>1, FS_Interval

\* get_accounts: the ids that have descriptors without a gap.
LEMMA AccountsFacts ==
  ASSUME NEW psbt, IsPsbt(psbt)
  PROVE  \E n \in Nat :
           /\ DOMAIN GetAccounts(psbt) = 1 .. n /\ Len(GetAccounts(psbt)) = n
           /\ \A a \in 1 .. n : GetAccounts(psbt)[a] = GetAccount(psbt, a - 1) /\ IsPolicy(GetAccounts(psbt)[a])
<1> DEFINE Ids == {id \in 0 .. Cardinality(DOMAIN psbt.global) :
                     \A k \in 0 .. id : GetAccount(psbt, k) # None}
           Out == Nat \ Ids
<1>1. Cardinality(DOMAIN psbt.global) \in Nat
  BY FS_CardinalityType DEF IsPsbt
<1>2. Cardinality(DOMAIN psbt.global) + 1 \in Out
  BY <1>1
<1>3. PICK n \in Out : \A m \in Out : n <= m
  BY <1>2, LeastExists
<1>4. n \in Nat
  BY <1>3
<1>5. Ids = 0 .. n - 1
  <2>1. ASSUME NEW m \in 0 .. n - 1 PROVE m \in Ids
    <3>1. m \in Nat /\ ~(n <= m)
      BY <1>4
    <3> QED
      BY <1>3, <3>1
  <2>2. ASSUME NEW m \in Ids PROVE m \in 0 .. n - 1
    <3> SUFFICES ASSUME m >= n PROVE FALSE
      BY <1>1, <1>4
    <3>1. n \in 0 .. m /\ n \in 0 .. Cardinality(DOMAIN psbt.global) /\ 0 .. n \subseteq 0 .. m
      BY <1>1, <1>4
    <3>2. n \in Ids
      BY <3>1
    <3> QED
      BY <1>3, <3>2
  <2> HIDE DEF Ids
  <2>3. Ids \subseteq 0 .. n - 1 /\ 0 .. n - 1 \subseteq Ids
    BY <2>1, <2>2, Zenon
  <2> QED
    BY <2>3, Zenon
<1>6. Cardinality(Ids) = n
  <2>1. Cardinality(0 .. n - 1) = n
    BY <1>4, FS_Interval
  <2> HIDE DEF Ids
  <2> QED
    BY <1>5, <2>1
<1>7. GetAccounts(psbt) = [i \in 1 .. n |-> GetAccount(psbt, i - 1)]
  BY <1>6 DEF GetAccounts
<1>8. ASSUME NEW a \in 1 .. n PROVE IsPolicy(GetAccount(psbt, a - 1))
  <2>1. a - 1 \in 0 .. n - 1
    BY <1>4
  <2>2. GetAccount(psbt, a - 1) # None
    BY <1>5, <2>1
  <2>3. PICK f : f = <<"account", a - 1>>
    OBVIOUS
  <2>4. f[1] = "account" /\ f \in DOMAIN psbt.global /\ GetAccount(psbt, a - 1) = psbt.global[f]
    BY <2>2, <2>3 DEF GetAccount
  <2> QED
    BY <2>4 DEF IsPsbt
<1> HIDE DEF Ids
<1>9. Len(GetAccounts(psbt)) = n /\ DOMAIN GetAccounts(psbt) = 1 .. n
  BY <1>4, <1>7
<1>10. \A a \in 1 .. n : GetAccounts(psbt)[a] = GetAccount(psbt, a - 1)
  BY <1>7
<1> QED
  BY <1>4, <1>8, <1>9, <1>10

LEMMA AnalysisFacts ==
  ASSUME NEW psbt, Analysis(psbt) = "ok"
  PROVE  /\ \A a \in DOMAIN GetAccounts(psbt) : AccountPor(psbt, a - 1) # None
         /\ IdentityKeysOk(psbt)
         /\ \A i \in DOMAIN psbt.inputs : InputOk(psbt, psbt.inputs[i]) /\ ~InputPanics(psbt, psbt.inputs[i])
         /\ \A o \in DOMAIN psbt.outputs : OutputOk(psbt, psbt.outputs[o])
<1> DEFINE FirstBad == {i \in DOMAIN psbt.inputs :
                     InputPanics(psbt, psbt.inputs[i]) \/ ~InputOk(psbt, psbt.inputs[i])}
      HeaderOk == /\ \A a \in DOMAIN GetAccounts(psbt) :
                       /\ AccountName(psbt, a - 1) \in ValidNames \cup {None}
                       /\ AccountPor(psbt, a - 1) # None
                  /\ IdentityKeysOk(psbt)
                  /\ \A i \in DOMAIN psbt.inputs : psbt.inputs[i].coords # None
      OutputsOk == /\ \A o \in DOMAIN psbt.outputs : OutputOk(psbt, psbt.outputs[o])
                   /\ OutputsTotal(psbt) <= InputsTotal(psbt)
      Panics == InputPanics(psbt, psbt.inputs[Min(FirstBad)])
<1>1. Analysis(psbt) = IF ~HeaderOk THEN "error"
                       ELSE IF FirstBad # {} THEN IF Panics THEN "panic" ELSE "error"
                       ELSE IF OutputsOk THEN "ok" ELSE "error"
  BY DEF Analysis
<1> HIDE DEF FirstBad, HeaderOk, OutputsOk, Panics
<1>2. HeaderOk /\ FirstBad = {} /\ OutputsOk
  BY <1>1
<1> QED
  BY <1>2 DEF HeaderOk, FirstBad, OutputsOk

\* The output that an input spends is there, and has an amount.
LEMMA SpentFacts ==
  ASSUME NEW psbt, IsPsbt(psbt), Analysis(psbt) = "ok", NEW i \in DOMAIN psbt.inputs
  PROVE  SpentOutput(psbt.inputs[i]).amount \in Nat
<1>1. PICK in : in = psbt.inputs[i]
  OBVIOUS
<1>2. IsInput(in) /\ InputOk(psbt, in) /\ ~InputPanics(psbt, in)
  BY <1>1, AnalysisFacts DEF IsPsbt
<1>3. CASE in.witness # None
  BY <1>1, <1>2, <1>3 DEF IsInput, SpentOutput
<1>4. CASE in.witness = None
  <2>1. in.tx # None /\ in.vout # None
    BY <1>2, <1>4 DEF InputOk, UtxosAllowed
  <2>2. IsList(in.tx.outs) /\ in.vout \in Nat
    BY <1>2, <2>1 DEF IsInput
  <2>3. ~(in.vout >= Len(in.tx.outs))
    BY <1>2, <1>4, <2>1 DEF InputPanics, InputOk
  <2>4. in.vout + 1 \in DOMAIN in.tx.outs
    BY <2>2, <2>3, ListFacts
  <2>5. in.tx.outs[in.vout + 1].amount \in Nat
    BY <1>2, <2>1, <2>4 DEF IsInput
  <2> QED
    BY <1>1, <1>4, <2>5 DEF SpentOutput
<1> QED
  BY <1>3, <1>4

LEMMA AmountsType ==
  ASSUME NEW psbt, IsPsbt(psbt), Analysis(psbt) = "ok"
  PROVE  /\ InputAmounts(psbt) \in [DOMAIN psbt.inputs -> Int]
         /\ OutputAmounts(psbt) \in [DOMAIN psbt.outputs -> Int]
<1>1. \A i \in DOMAIN psbt.inputs : SpentOutput(psbt.inputs[i]).amount \in Int
  BY SpentFacts
<1>2. \A o \in DOMAIN psbt.outputs : psbt.outputs[o].amount \in Int
  BY AnalysisFacts DEF IsPsbt, IsOutput, OutputOk
<1> QED
  BY <1>1, <1>2 DEF InputAmounts, OutputAmounts

\* Inputs, and outputs that are not external, belong to accounts that are there.
LEMMA FieldAccounts ==
  ASSUME NEW psbt, IsPsbt(psbt), Analysis(psbt) = "ok"
  PROVE  /\ \A i \in DOMAIN psbt.inputs :
              IsInternal(psbt.inputs[i]) /\ psbt.inputs[i].coords.account + 1 \in DOMAIN GetAccounts(psbt)
              /\ psbt.inputs[i].coords.account \in Nat
         /\ \A o \in DOMAIN psbt.outputs \ External(psbt) :
              IsInternal(psbt.outputs[o]) /\ psbt.outputs[o].coords.account + 1 \in DOMAIN GetAccounts(psbt)
              /\ psbt.outputs[o].coords.account \in Nat
<1>1. PICK n \in Nat : DOMAIN GetAccounts(psbt) = 1 .. n /\ Len(GetAccounts(psbt)) = n
  BY AccountsFacts
<1>2. ASSUME NEW field, field.coords # None, IsCoordinates(field.coords), InAccount(psbt, field)
      PROVE  /\ IsInternal(field) /\ field.coords.account + 1 \in DOMAIN GetAccounts(psbt)
             /\ field.coords.account \in Nat
  <2>1. field.coords.account \in Nat /\ field.coords.account < n
    BY <1>1, <1>2 DEF IsCoordinates, InAccount
  <2> QED
    BY <1>1, <1>2, <2>1 DEF IsInternal
<1>3. ASSUME NEW i \in DOMAIN psbt.inputs
      PROVE  psbt.inputs[i].coords # None /\ IsCoordinates(psbt.inputs[i].coords) /\ InAccount(psbt, psbt.inputs[i])
  BY <1>3, AnalysisFacts DEF IsPsbt, IsInput, InputOk
<1>4. ASSUME NEW o \in DOMAIN psbt.outputs \ External(psbt)
      PROVE  psbt.outputs[o].coords # None /\ IsCoordinates(psbt.outputs[o].coords) /\ InAccount(psbt, psbt.outputs[o])
  BY <1>4, AnalysisFacts DEF IsPsbt, IsOutput, OutputOk, External, IsInternal
<1> QED
  BY <1>2, <1>3, <1>4

\* The amounts per account, for inputs or for internal outputs, make up their total.
IsPerAccount(fields, D, A, E, f, s) ==
  /\ IsFiniteSet(D) /\ IsFiniteSet(A) /\ A \subseteq Nat
  /\ \A i : i \in D <=> i \in DOMAIN fields /\ IsInternal(fields[i])
  /\ \A i \in D : fields[i].coords.account + 1 \in A /\ fields[i].coords.account \in Nat
  /\ IsFiniteSet(E) /\ D \subseteq E /\ f \in [E -> Int]
  /\ s = [a \in A |-> SumFunctionOnSet(f, OfAccount(fields, a - 1))]

LEMMA PerAccount ==
  ASSUME NEW fields, NEW D, NEW A, NEW E, NEW f, NEW s, IsPerAccount(fields, D, A, E, f, s)
  PROVE  s \in [A -> Int] /\ SumFunctionOnSet(s, A) = SumFunctionOnSet(f, D)
<1> USE DEF IsPerAccount
<1>1. PICK k : k = [i \in D |-> fields[i].coords.account + 1]
  OBVIOUS
<1>2. k \in [D -> A]
  BY <1>1
<1>3. PICK g : g = [i \in D |-> f[i]]
  OBVIOUS
<1>4. g \in [D -> Int]
  BY <1>3
<1>5. ASSUME NEW a \in A, NEW T \in SUBSET D, \A i \in D : i \in T <=> k[i] = a
      PROVE  OfAccount(fields, a - 1) = T
  <2>1. \A i \in D : k[i] = a <=> fields[i].coords.account = a - 1
    <3>1. a \in Nat /\ \A i \in D : fields[i].coords.account \in Nat /\ k[i] = fields[i].coords.account + 1
      BY <1>1
    <3> QED
      BY <3>1
  <2>2. \A i : i \in OfAccount(fields, a - 1) <=> i \in D /\ fields[i].coords.account = a - 1
    BY DEF OfAccount
  <2> QED
    BY <1>5, <2>1, <2>2
<1>6. ASSUME NEW a \in A, NEW T \in SUBSET D, \A i \in D : i \in T <=> k[i] = a
      PROVE  s[a] = SumFunctionOnSet(g, T) /\ s[a] \in Int
  <2>2. IsFiniteSet(T) /\ T \in SUBSET E
    BY FS_Subset
  <2>3. s[a] = SumFunctionOnSet(f, T)
    BY <1>5, <1>6
  <2>4. \A x \in T : f[x] = g[x]
    BY <1>3
  <2>5. SumFunctionOnSet(f, T) = SumFunctionOnSet(g, T)
    BY <2>2, <2>4, SumSame
  <2>6. SumFunctionOnSet(f, T) \in Int
    BY <2>2, SumType
  <2> QED
    BY <2>3, <2>5, <2>6
<1>7. s \in [A -> Int]
  <2>1. ASSUME NEW a \in A PROVE s[a] \in Int
    <3>1. PICK T \in SUBSET D : T = {i \in D : k[i] = a}
      OBVIOUS
    <3>2. \A i \in D : i \in T <=> k[i] = a
      BY <3>1
    <3> QED
      BY <1>6, <3>2
  <2> QED
    BY <2>1
<1>8. SumFunctionOnSet(s, A) = SumFunctionOnSet(g, D)
  <2>1. \A a \in A : \A T \in SUBSET D : (\A i \in D : i \in T <=> k[i] = a) => s[a] = SumFunctionOnSet(g, T)
    BY <1>6
  <2>2. ByKey(D, g, A, k, s)
    BY <1>2, <1>4, <1>7, <2>1 DEF ByKey
  <2> QED
    BY <2>2, SumByKey
<1>9. SumFunctionOnSet(f, D) = SumFunctionOnSet(g, D)
  BY <1>3, SumSame
<1> QED
  BY <1>7, <1>8, <1>9

LEMMA SumWhole ==
  ASSUME NEW f, NEW D, DOMAIN f = D
  PROVE  SumFunction(f) = SumFunctionOnSet(f, D)
BY DEF SumFunction

\* What the accounts spend is what leaves them: external outputs and the fee.
LEMMA SpentTotal ==
  ASSUME NEW psbt, IsPsbt(psbt), Analysis(psbt) = "ok", NEW A, A = DOMAIN GetAccounts(psbt),
         NEW s, s = [a \in A |-> SpentAmount(psbt, a - 1)]
  PROVE  SumFunctionOnSet(s, A) = Fee(psbt) + SumFunctionOnSet(OutputAmounts(psbt), External(psbt))
<1>1. PICK D, E, I, X : /\ D = DOMAIN psbt.inputs /\ E = DOMAIN psbt.outputs
                        /\ X = External(psbt) /\ I = E \ X
  OBVIOUS
<1>2. IsFiniteSet(D) /\ IsFiniteSet(E)
  BY <1>1, ListFacts DEF IsPsbt
<1>3. X \in SUBSET E /\ I \in SUBSET E /\ I \cap X = {} /\ I \cup X = E
  BY <1>1 DEF External
<1>4. IsFiniteSet(I) /\ IsFiniteSet(X)
  BY <1>2, <1>3, FS_Subset
<1>5. IsFiniteSet(A) /\ A \subseteq Nat
  <2>1. PICK n \in Nat : A = 1 .. n
    BY AccountsFacts
  <2> QED
    BY <2>1, FS_Interval
<1>6. PICK f, g : f = InputAmounts(psbt) /\ g = OutputAmounts(psbt)
  OBVIOUS
<1>7. f \in [D -> Int] /\ g \in [E -> Int]
  BY <1>1, <1>6, AmountsType
<1>8. PICK ins : ins = [a \in A |-> SumFunctionOnSet(f, OfAccount(psbt.inputs, a - 1))]
  OBVIOUS
<1>9. PICK outs : outs = [a \in A |-> SumFunctionOnSet(g, OfAccount(psbt.outputs, a - 1))]
  OBVIOUS
<1>10. ins \in [A -> Int] /\ SumFunctionOnSet(ins, A) = SumFunctionOnSet(f, D)
  <2>1. \A i : i \in D <=> i \in DOMAIN psbt.inputs /\ IsInternal(psbt.inputs[i])
    BY <1>1, FieldAccounts
  <2>2. \A i \in D : psbt.inputs[i].coords.account + 1 \in A /\ psbt.inputs[i].coords.account \in Nat
    BY <1>1, FieldAccounts
  <2>3. D \subseteq D
    OBVIOUS
  <2>4. IsPerAccount(psbt.inputs, D, A, D, f, ins)
    BY <1>2, <1>5, <1>7, <1>8, <2>1, <2>2, <2>3 DEF IsPerAccount
  <2> QED
    BY <2>4, PerAccount
<1>11. outs \in [A -> Int] /\ SumFunctionOnSet(outs, A) = SumFunctionOnSet(g, I)
  <2>1. \A o : o \in I <=> o \in DOMAIN psbt.outputs /\ IsInternal(psbt.outputs[o])
    BY <1>1 DEF External
  <2>2. \A o \in I : psbt.outputs[o].coords.account + 1 \in A /\ psbt.outputs[o].coords.account \in Nat
    BY <1>1, FieldAccounts
  <2>3. I \subseteq E
    BY <1>3
  <2>4. IsPerAccount(psbt.outputs, I, A, E, g, outs)
    BY <1>2, <1>4, <1>5, <1>7, <1>9, <2>1, <2>2, <2>3 DEF IsPerAccount
  <2> QED
    BY <2>4, PerAccount
<1>12. s = [a \in A |-> ins[a] - outs[a]]
  BY <1>6, <1>8, <1>9 DEF SpentAmount
<1>13. SumFunctionOnSet(s, A) = SumFunctionOnSet(ins, A) - SumFunctionOnSet(outs, A)
  BY <1>5, <1>10, <1>11, <1>12, SumMinus
<1>14. SumFunctionOnSet(g, E) = SumFunctionOnSet(g, I) + SumFunctionOnSet(g, X)
  <2>1. SumFunctionOnSet(g, I \cup X) = SumFunctionOnSet(g, I) + SumFunctionOnSet(g, X)
    BY <1>2, <1>3, <1>7, SumSplit
  <2> QED
    BY <1>3, <2>1
<1>15. InputsTotal(psbt) = SumFunctionOnSet(f, D) /\ OutputsTotal(psbt) = SumFunctionOnSet(g, E)
  BY <1>6, <1>7, SumWhole DEF InputsTotal, OutputsTotal
<1>16. SumFunctionOnSet(f, D) \in Int
  BY <1>2, <1>7, SumType
<1>17. SumFunctionOnSet(g, I) \in Int /\ SumFunctionOnSet(g, X) \in Int
  BY <1>2, <1>3, <1>7, SumType
<1> QED
  BY <1>1, <1>6, <1>10, <1>11, <1>13, <1>14, <1>15, <1>16, <1>17 DEF Fee

LEMMA PairsBalanced ==
  ASSUME NEW psbt, IsPsbt(psbt), Analysis(psbt) = "ok"
  PROVE  Balanced(DisplayPairs(psbt)) /\ DisplayPairs(psbt).fee = Fee(psbt)
<1>1. PICK pairs : pairs = DisplayPairs(psbt)
  OBVIOUS
<1>2. PICK A, X : A = DOMAIN GetAccounts(psbt) /\ X = External(psbt)
  OBVIOUS
<1>3. /\ pairs.fee = Fee(psbt) /\ DOMAIN pairs.accounts = A /\ DOMAIN pairs.outputs = X
      /\ \A a \in A : pairs.accounts[a].amount = SpentAmount(psbt, a - 1)
      /\ \A o \in X : pairs.outputs[o].amount = psbt.outputs[o].amount
  BY <1>1, <1>2 DEF DisplayPairs
<1>4. PICK s, t : /\ s = [a \in A |-> SpentAmount(psbt, a - 1)]
                  /\ t = [o \in X |-> psbt.outputs[o].amount]
  OBVIOUS
<1>5. /\ [a \in DOMAIN pairs.accounts |-> pairs.accounts[a].amount] = s
      /\ [o \in DOMAIN pairs.outputs |-> pairs.outputs[o].amount] = t
  BY <1>3, <1>4
<1>6. SumFunction(s) = SumFunctionOnSet(s, A) /\ SumFunction(t) = SumFunctionOnSet(t, X)
  BY <1>4, SumWhole
<1>7. SumFunctionOnSet(s, A) = Fee(psbt) + SumFunctionOnSet(OutputAmounts(psbt), X)
  BY <1>2, <1>4, SpentTotal
<1>8. SumFunctionOnSet(t, X) = SumFunctionOnSet(OutputAmounts(psbt), X)
  <2>1. IsFiniteSet(X)
    <3>1. IsFiniteSet(DOMAIN psbt.outputs)
      BY ListFacts DEF IsPsbt
    <3> QED
      BY <1>2, <3>1, FS_Subset DEF External
  <2>2. \A o \in X : t[o] = OutputAmounts(psbt)[o]
    BY <1>2, <1>4 DEF OutputAmounts, External
  <2> QED
    BY <2>1, <2>2, SumSame
<1>9. Balanced(pairs)
  BY <1>3, <1>5, <1>6, <1>7, <1>8 DEF Balanced
<1> QED
  BY <1>1, <1>3, <1>9

Ascending(s) == \A j, k \in DOMAIN s : j < k => s[j] < s[k]

\* Every finite set of numbers has its list in order, and every number is in it.
LEMMA OrderExists ==
  ASSUME NEW S, S \subseteq Nat, IsFiniteSet(S)
  PROVE  \E s \in [1 .. Cardinality(S) -> S] : Ascending(s)
<1> DEFINE Good == {T \in SUBSET S : \E s \in [1 .. Cardinality(T) -> T] : Ascending(s)}
<1>1. {} \in Good
  <2>1. Cardinality({}) = 0
    BY FS_EmptySet
  <2>2. PICK s : s = [k \in 1 .. 0 |-> 0]
    OBVIOUS
  <2>3. s \in [1 .. Cardinality({}) -> {}] /\ Ascending(s)
    BY <2>1, <2>2 DEF Ascending
  <2> QED
    BY <2>3
<1>2. ASSUME NEW T \in SUBSET S, T # {}, \A x \in T : T \ {x} \in Good PROVE T \in Good
  <2>1. PICK x \in T : \A y \in T : x <= y
    BY <1>2, LeastExists
  <2>2. PICK n : n = Cardinality(T \ {x})
    OBVIOUS
  <2>3. n \in Nat /\ Cardinality(T) = n + 1
    <3>1. IsFiniteSet(T) /\ Cardinality(T) \in Nat
      BY FS_Subset, FS_CardinalityType
    <3>2. IsFiniteSet(T \ {x}) /\ Cardinality(T \ {x}) = Cardinality(T) - 1
      BY <3>1, FS_RemoveElement
    <3>3. Cardinality(T \ {x}) \in Nat
      BY <3>2, FS_CardinalityType
    <3> QED
      BY <2>2, <3>1, <3>2, <3>3
  <2>4. PICK t \in [1 .. n -> T \ {x}] : Ascending(t)
    BY <1>2, <2>1, <2>2
  <2>5. PICK s : s = [k \in 1 .. n + 1 |-> IF k = 1 THEN x ELSE t[k - 1]]
    OBVIOUS
  <2>6. \A k \in 1 .. n + 1 : k # 1 => k - 1 \in 1 .. n /\ s[k] = t[k - 1] /\ s[k] \in T \ {x}
    BY <2>3, <2>5
  <2>7. s[1] = x
    BY <2>3, <2>5
  <2>8. s \in [1 .. n + 1 -> T]
    BY <2>5, <2>6, <2>7
  <2>9. ASSUME NEW j \in 1 .. n + 1, NEW k \in 1 .. n + 1, j < k PROVE s[j] < s[k]
    <3>0. k # 1
      BY <2>3, <2>9
    <3>1. k # 1 /\ s[k] \in T \ {x} /\ s[k] \in Nat /\ x \in Nat
      <4>1. s[k] \in T \ {x}
        BY <2>6, <3>0
      <4> QED
        BY <3>0, <4>1
    <3>2. CASE j = 1
      <4>1. x <= s[k] /\ x # s[k]
        BY <2>1, <3>1
      <4> QED
        BY <2>7, <3>1, <3>2, <4>1
    <3>3. CASE j # 1
      <4>1. j - 1 \in 1 .. n /\ k - 1 \in 1 .. n /\ j - 1 < k - 1 /\ s[j] = t[j - 1] /\ s[k] = t[k - 1]
        BY <2>3, <2>6, <2>9, <3>1, <3>3
      <4>2. DOMAIN t = 1 .. n
        OBVIOUS
      <4> QED
        BY <2>4, <4>1, <4>2 DEF Ascending
    <3> QED
      BY <3>2, <3>3
  <2>10. Ascending(s)
    <3>1. DOMAIN s = 1 .. n + 1
      BY <2>5
    <3> QED
      BY <2>9, <3>1 DEF Ascending
  <2> QED
    BY <2>3, <2>8, <2>10
<1> HIDE DEF Good
<1>3. \A T \in SUBSET S : T \in Good
  BY <1>1, <1>2, FiniteDescent
<1> QED
  BY <1>3 DEF Good

LEMMA InOrderFacts ==
  ASSUME NEW S, S \subseteq Nat, IsFiniteSet(S)
  PROVE  /\ Cardinality(S) \in Nat /\ InOrder(S) \in [1 .. Cardinality(S) -> S]
         /\ \A x \in S : \E k \in 1 .. Cardinality(S) : InOrder(S)[k] = x
<1>1. PICK n : n = Cardinality(S)
  OBVIOUS
<1>2. n \in Nat
  BY <1>1, FS_CardinalityType
<1>3. PICK s : s = InOrder(S)
  OBVIOUS
<1>4. s \in [1 .. n -> S] /\ Ascending(s)
  <2>1. InOrder(S) = CHOOSE t \in [1 .. n -> S] : Ascending(t)
    BY <1>1 DEF InOrder, Ascending
  <2>2. \E t \in [1 .. n -> S] : Ascending(t)
    BY <1>1, OrderExists
  <2> QED
    BY <1>3, <2>1, <2>2, Zenon
<1>5. ASSUME NEW j \in 1 .. n, NEW k \in 1 .. n, s[j] = s[k] PROVE j = k
  <2>1. j \in Nat /\ k \in Nat /\ s[j] \in Nat /\ s[k] \in Nat /\ DOMAIN s = 1 .. n
    <3>1. s[j] \in S /\ s[k] \in S /\ DOMAIN s = 1 .. n
      BY <1>4
    <3>2. j \in Nat /\ k \in Nat
      BY <1>2
    <3>3. s[j] \in Nat /\ s[k] \in Nat
      BY <3>1, Zenon
    <3> QED
      BY <3>1, <3>2, <3>3
  <2>2. ~(j < k) /\ ~(k < j)
    <3>1. j < k => s[j] < s[k]
      BY <1>4, <2>1 DEF Ascending
    <3>2. k < j => s[k] < s[j]
      BY <1>4, <2>1 DEF Ascending
    <3> QED
      BY <1>5, <2>1, <3>1, <3>2
  <2> QED
    BY <2>1, <2>2
<1>6. s \in Injection(1 .. n, S)
  BY <1>4, <1>5 DEF Injection, IsInjective
<1>7. Cardinality(1 .. n) = n
  BY <1>2, FS_Interval
<1>8. s \in Surjection(1 .. n, S)
  BY <1>1, <1>6, <1>7, FS_Injection
<1> QED
  BY <1>1, <1>2, <1>3, <1>4, <1>8 DEF Surjection

IsConcat(c, f, m, g, n, S) ==
  m \in Nat /\ n \in Nat /\ f \in [1 .. m -> S] /\ g \in [1 .. n -> S] /\ c = f \o g

LEMMA ConcatFacts ==
  ASSUME NEW S, NEW m, NEW n, NEW f, NEW g, NEW c, IsConcat(c, f, m, g, n, S)
  PROVE  /\ Len(c) = m + n
         /\ \A i \in 1 .. m : c[i] = f[i]
         /\ \A j \in 1 .. n : c[m + j] = g[j]
<1>1. m \in Nat /\ n \in Nat /\ f \in [1 .. m -> S] /\ g \in [1 .. n -> S] /\ c = f \o g
  BY DEF IsConcat
<1>2. f \in Seq(S) /\ g \in Seq(S) /\ Len(f) = m /\ Len(g) = n
  BY <1>1
<1>3. /\ Len(c) = m + n
      /\ \A i \in 1 .. m + n : c[i] = IF i <= m THEN f[i] ELSE g[i - m]
  BY <1>1, <1>2, ConcatProperties
<1>4. \A i \in 1 .. m : i \in 1 .. m + n /\ i <= m
  BY <1>1
<1>5. \A j \in 1 .. n : m + j \in 1 .. m + n /\ ~(m + j <= m) /\ (m + j) - m = j
  BY <1>1
<1>6. ASSUME NEW j \in 1 .. n PROVE c[m + j] = g[j]
  BY <1>3, <1>5
<1> QED
  BY <1>3, <1>4, <1>6

\* What verify_transaction is to establish.
Verified(psbt) ==
  /\ \A a \in DOMAIN GetAccounts(psbt) : PorOk(psbt, a - 1)
  /\ \A i \in DOMAIN psbt.inputs :
       SpentOutput(psbt.inputs[i]).script = ToScript(AccountOf(psbt, psbt.inputs[i]), psbt.inputs[i].coords)
  /\ \A o \in DOMAIN psbt.outputs \ External(psbt) :
       psbt.outputs[o].script = ToScript(AccountOf(psbt, psbt.outputs[o]), psbt.outputs[o].coords)

\* Its checks, one by one, are of each account, each input and each internal output.
LEMMA ChecksFacts ==
  ASSUME NEW psbt, IsPsbt(psbt), Analysis(psbt) = "ok"
  PROVE  /\ ChecksToDo(psbt) \in Nat
         /\ (\A n \in 1 .. ChecksToDo(psbt) : CheckHolds(psbt, n)) <=> Verified(psbt)
<1> DEFINE Check(field, script) == [account |-> field.coords.account, coords |-> field.coords,
                                    script |-> script]
<1>0. PICK accounts : accounts = GetAccounts(psbt)
  OBVIOUS
<1>1. PICK N \in Nat : accounts = GetAccounts(psbt) /\ DOMAIN accounts = 1 .. N /\ Len(accounts) = N
  BY <1>0, AccountsFacts
<1>2. PICK I : I = DOMAIN psbt.outputs \ External(psbt)
  OBVIOUS
<1>3. IsFiniteSet(I) /\ I \subseteq Nat
  <2>1. IsFiniteSet(DOMAIN psbt.outputs) /\ DOMAIN psbt.outputs \subseteq Nat
    BY ListFacts DEF IsPsbt
  <2> QED
    BY <1>2, <2>1, FS_Subset
<1>4. PICK order, K : order = InOrder(I) /\ K = Cardinality(I)
  OBVIOUS
<1>5. K \in Nat /\ order \in [1 .. K -> I] /\ \A o \in I : \E k \in 1 .. K : order[k] = o
  BY <1>3, <1>4, InOrderFacts
<1>6. PICK M \in Nat : DOMAIN psbt.inputs = 1 .. M
  BY ListFacts DEF IsPsbt
<1>7. PICK f, g : /\ f = [i \in 1 .. M |-> Check(psbt.inputs[i], SpentOutput(psbt.inputs[i]).script)]
                  /\ g = [k \in 1 .. K |-> Check(psbt.outputs[order[k]], psbt.outputs[order[k]].script)]
  OBVIOUS
<1>8. ScriptChecks(psbt) = f \o g
  <2>1. DOMAIN order = 1 .. K
    BY <1>5
  <2> QED
    BY <1>2, <1>4, <1>6, <1>7, <2>1 DEF ScriptChecks
<1>9. /\ Len(ScriptChecks(psbt)) = M + K
      /\ \A i \in 1 .. M : ScriptChecks(psbt)[i] = f[i]
      /\ \A k \in 1 .. K : ScriptChecks(psbt)[M + k] = g[k]
  <2> HIDE DEF Check
  <2>1. PICK S, T : S = {f[i] : i \in 1 .. M} /\ T = {g[k] : k \in 1 .. K}
    OBVIOUS
  <2>2. (\A i \in 1 .. M : f[i] \in S) /\ (\A k \in 1 .. K : g[k] \in T)
    BY <2>1, Zenon
  <2>3. f \in [1 .. M -> S]
    BY <1>7, <2>2
  <2>4. g \in [1 .. K -> T]
    BY <1>7, <2>2
  <2>5. PICK U : U = S \cup T
    OBVIOUS
  <2>6. PICK c : c = ScriptChecks(psbt)
    OBVIOUS
  <2>7. IsConcat(c, f, M, g, K, U)
    BY <1>5, <1>8, <2>3, <2>4, <2>5, <2>6 DEF IsConcat
  <2>8. /\ Len(c) = M + K
        /\ \A i \in 1 .. M : c[i] = f[i]
        /\ \A k \in 1 .. K : c[M + k] = g[k]
    BY <2>7, ConcatFacts
  <2> QED
    BY <2>6, <2>8
<1>10. ChecksToDo(psbt) = N + (M + K)
  BY <1>1, <1>9 DEF ChecksToDo
<1> HIDE DEF Check
<1>11. ASSUME \A n \in 1 .. ChecksToDo(psbt) : CheckHolds(psbt, n), NEW a \in 1 .. N PROVE PorOk(psbt, a - 1)
  <2>1. a \in 1 .. N + (M + K) /\ a <= N
    BY <1>5
  <2> QED
    BY <1>1, <1>10, <1>11, <2>1 DEF CheckHolds
<1>12. ASSUME \A n \in 1 .. ChecksToDo(psbt) : CheckHolds(psbt, n), NEW c \in 1 .. M + K, NEW check,
              check = ScriptChecks(psbt)[c]
       PROVE  check.script = ToScript(accounts[check.account + 1], check.coords)
  <2>1. N + c \in 1 .. N + (M + K) /\ ~(N + c <= N) /\ N + c - N = c
    BY <1>5
  <2>2. CheckHolds(psbt, N + c)
    BY <1>10, <1>12, <2>1
  <2> QED
    BY <1>1, <1>12, <2>1, <2>2 DEF CheckHolds
<1>13. ASSUME \A n \in 1 .. ChecksToDo(psbt) : CheckHolds(psbt, n), NEW i \in 1 .. M
       PROVE  SpentOutput(psbt.inputs[i]).script = ToScript(AccountOf(psbt, psbt.inputs[i]), psbt.inputs[i].coords)
  <2>1. PICK check : check = ScriptChecks(psbt)[i]
    OBVIOUS
  <2>2. i \in 1 .. M + K
    BY <1>5
  <2>3. check.script = ToScript(accounts[check.account + 1], check.coords)
    BY <1>12, <1>13, <2>1, <2>2
  <2>4. /\ check.account = psbt.inputs[i].coords.account /\ check.coords = psbt.inputs[i].coords
        /\ check.script = SpentOutput(psbt.inputs[i]).script
    BY <1>7, <1>9, <2>1 DEF Check
  <2> QED
    BY <1>1, <2>3, <2>4 DEF AccountOf
<1>14. ASSUME \A n \in 1 .. ChecksToDo(psbt) : CheckHolds(psbt, n), NEW o \in I
       PROVE  psbt.outputs[o].script = ToScript(AccountOf(psbt, psbt.outputs[o]), psbt.outputs[o].coords)
  <2>1. PICK k \in 1 .. K : order[k] = o
    BY <1>5
  <2>2. PICK check : check = ScriptChecks(psbt)[M + k]
    OBVIOUS
  <2>3. M + k \in 1 .. M + K
    BY <1>5
  <2>4. check.script = ToScript(accounts[check.account + 1], check.coords)
    BY <1>12, <1>14, <2>2, <2>3
  <2>5. /\ check.account = psbt.outputs[o].coords.account /\ check.coords = psbt.outputs[o].coords
        /\ check.script = psbt.outputs[o].script
    BY <1>7, <1>9, <2>1, <2>2 DEF Check
  <2> QED
    BY <1>1, <2>4, <2>5 DEF AccountOf
<1>15. ChecksToDo(psbt) \in Nat
  BY <1>5, <1>10
<1>16. ASSUME Verified(psbt), NEW n \in 1 .. ChecksToDo(psbt) PROVE CheckHolds(psbt, n)
  <2>1. CASE n <= N
    <3>1. n \in DOMAIN GetAccounts(psbt)
      BY <1>1, <1>10, <1>16, <2>1
    <3>2. PorOk(psbt, n - 1)
      BY <1>16, <3>1 DEF Verified
    <3> QED
      BY <1>1, <2>1, <3>2 DEF CheckHolds
  <2>2. CASE ~(n <= N)
    <3>1. PICK check : check = ScriptChecks(psbt)[n - N]
      OBVIOUS
    <3>2. check.script = ToScript(accounts[check.account + 1], check.coords)
      <4>1. CASE n - N \in 1 .. M
        <5>1. PICK i \in 1 .. M : i = n - N
          BY <4>1
        <5>2. /\ check.account = psbt.inputs[i].coords.account /\ check.coords = psbt.inputs[i].coords
              /\ check.script = SpentOutput(psbt.inputs[i]).script
          BY <1>7, <1>9, <3>1, <5>1 DEF Check
        <5>3. SpentOutput(psbt.inputs[i]).script = ToScript(AccountOf(psbt, psbt.inputs[i]), psbt.inputs[i].coords)
          BY <1>6, <1>16 DEF Verified
        <5> QED
          BY <1>1, <5>2, <5>3 DEF AccountOf
      <4>2. CASE n - N \notin 1 .. M
        <5>1. PICK k \in 1 .. K : n - N = M + k
          <6>1. n - N - M \in 1 .. K /\ n - N = M + (n - N - M)
            BY <1>5, <1>10, <2>2, <4>2
          <6> QED
            BY <6>1
        <5>2. PICK o : o = order[k]
          OBVIOUS
        <5>3. o \in I
          BY <1>5, <5>2
        <5>4. /\ check.account = psbt.outputs[o].coords.account /\ check.coords = psbt.outputs[o].coords
              /\ check.script = psbt.outputs[o].script
          BY <1>7, <1>9, <3>1, <5>1, <5>2 DEF Check
        <5>5. psbt.outputs[o].script = ToScript(AccountOf(psbt, psbt.outputs[o]), psbt.outputs[o].coords)
          BY <1>2, <1>16, <5>3 DEF Verified
        <5> QED
          BY <1>1, <5>4, <5>5 DEF AccountOf
      <4> QED
        BY <4>1, <4>2
    <3> QED
      BY <1>1, <2>2, <3>1, <3>2 DEF CheckHolds
  <2> QED
    BY <2>1, <2>2, <1>1, <1>10
<1>17. (\A n \in 1 .. ChecksToDo(psbt) : CheckHolds(psbt, n)) => Verified(psbt)
  BY <1>1, <1>2, <1>6, <1>11, <1>13, <1>14 DEF Verified
<1> QED
  BY <1>15, <1>16, <1>17

\* Where a request to sign is, before and in the signing pass.
Reviewing == {"unverified", "high_fee", "review", "await"}

Passing == {"begin", "signing", "popping", "commit_id", "commit_rand"}

\* A signature that the user approved.
SigGood(g) ==
  g.kind \in {"sig", "partial"} =>
    /\ OfApprovedAccount(SpentOutput(g.psbt.inputs[g.input]).script)
    /\ \E a \in approved :
         /\ a.kind = "tx"
         /\ Accounted(g.psbt, a.pairs)
         /\ Balanced(a.pairs)
         /\ a.pairs.fee = Fee(g.psbt)

RequestInv ==
  pc \in Reviewing \cup Passing =>
    req \in Requests /\ req.op = "sign" /\ KnownPsbt(req.psbt) /\ Analysis(req.psbt) = "ok"

\* The verification task has made the checks that it counts; the pass begins after all of
\* them, and after the user saw the transaction.
TaskInv ==
  /\ pc = "idle" => task = 0
  /\ pc \in Reviewing => task = Failed \/ (task \in Nat /\ \A n \in 1 .. task : CheckHolds(req.psbt, n))
  /\ pc \in Passing => \A n \in 1 .. ChecksToDo(req.psbt) : CheckHolds(req.psbt, n)
  /\ pc \in Passing \cup {"await"} => [kind |-> "tx", pairs |-> DisplayPairs(req.psbt)] \in approved

SignInv == RequestInv /\ TaskInv /\ \A g \in given \cup out : SigGood(g)

-----------------------------------------------------------------------------
\* The first of the visits that are left.
LEMMA FirstOfFacts ==
  ASSUME NEW S, S # {}, \A v \in S : v.input \in Nat /\ v.place \in Nat /\ v.nth \in Nat
  PROVE  FirstOf(S) \in S
<1>1. PICK I : I = {v.input : v \in S}
  OBVIOUS
<1>2. I \subseteq Nat /\ I # {}
  BY <1>1
<1>3. PICK i \in I : \A j \in I : i <= j
  BY <1>2, LeastExists
<1>4. PICK T : T = {v \in S : v.input = i}
  OBVIOUS
<1>5. T # {} /\ T \subseteq S
  BY <1>1, <1>3, <1>4
<1>6. PICK P : P = {v.place : v \in T}
  OBVIOUS
<1>7. P \subseteq Nat /\ P # {}
  BY <1>5, <1>6
<1>8. PICK p \in P : \A q \in P : p <= q
  BY <1>7, LeastExists
<1>9. PICK U : U = {v \in T : v.place = p}
  OBVIOUS
<1>10. U # {} /\ U \subseteq S
  BY <1>5, <1>6, <1>8, <1>9
<1>11. PICK N : N = {v.nth : v \in U}
  OBVIOUS
<1>12. N \subseteq Nat /\ N # {}
  BY <1>10, <1>11
<1>13. PICK n \in N : \A m \in N : n <= m
  BY <1>12, LeastExists
<1>14. PICK v \in U : v.nth = n
  BY <1>11, <1>13
<1>15. v \in S /\ v.input = i /\ v.place = p /\ i \in Nat /\ p \in Nat /\ n \in Nat
  BY <1>2, <1>3, <1>4, <1>7, <1>8, <1>9, <1>10, <1>12, <1>13, <1>14
<1>16. ASSUME NEW w \in S PROVE ~Before(w, v)
  <2>1. w.input \in Nat /\ w.place \in Nat /\ w.nth \in Nat
    OBVIOUS
  <2>2. i <= w.input
    BY <1>1, <1>3
  <2>3. w.input = i => p <= w.place
    BY <1>4, <1>6, <1>8
  <2>4. w.input = i /\ w.place = p => n <= w.nth
    BY <1>4, <1>9, <1>11, <1>13
  <2> QED
    BY <1>14, <1>15, <2>1, <2>2, <2>3, <2>4 DEF Before
<1>17. \E x \in S : \A w \in S : ~Before(w, x)
  BY <1>15, <1>16
<1> QED
  BY <1>17, Zenon DEF FirstOf

\* A key of an input's account: what the signing pass has to visit.
VisitOf(policy, i, p, n) ==
  [input |-> i, place |-> p, nth |-> n, key |-> policy.keys[policy.places[p].keys[n]]]

IsVisit(psbt, v) ==
  \E i \in DOMAIN psbt.inputs : \E policy :
    /\ policy = AccountOf(psbt, psbt.inputs[i])
    /\ \E p \in DOMAIN policy.places : \E n \in DOMAIN policy.places[p].keys : v = VisitOf(policy, i, p, n)

LEMMA VisitsAre ==
  ASSUME NEW psbt, NEW seeds, NEW v \in Visits(psbt, seeds)
  PROVE  IsVisit(psbt, v)
<1> DEFINE OfPlace(k, p) ==
             {[input |-> k, place |-> p, nth |-> n,
               key |-> AccountOf(psbt, psbt.inputs[k]).keys[
                         AccountOf(psbt, psbt.inputs[k]).places[p].keys[n]]] :
                n \in DOMAIN AccountOf(psbt, psbt.inputs[k]).places[p].keys}
           OfInput(k) == UNION {OfPlace(k, p) : p \in DOMAIN AccountOf(psbt, psbt.inputs[k]).places}
<1>1. v \in UNION {OfInput(k) : k \in DOMAIN psbt.inputs}
  BY DEF Visits
<1> HIDE DEF OfInput
<1>2. PICK i \in DOMAIN psbt.inputs : v \in OfInput(i)
  BY <1>1
<1> USE DEF OfInput
<1> HIDE DEF OfPlace
<1>3. PICK p \in DOMAIN AccountOf(psbt, psbt.inputs[i]).places : v \in OfPlace(i, p)
  BY <1>2
<1> USE DEF OfPlace
<1>4. PICK n \in DOMAIN AccountOf(psbt, psbt.inputs[i]).places[p].keys :
        v = VisitOf(AccountOf(psbt, psbt.inputs[i]), i, p, n)
  BY <1>3 DEF VisitOf
<1> QED
  BY <1>4 DEF IsVisit

LEMMA VisitsFacts ==
  ASSUME NEW psbt, IsPsbt(psbt), Analysis(psbt) = "ok", NEW seeds, NEW v \in Visits(psbt, seeds)
  PROVE  v.input \in DOMAIN psbt.inputs /\ v.input \in Nat /\ v.place \in Nat /\ v.nth \in Nat
<1>1. IsVisit(psbt, v)
  BY VisitsAre
<1>2. PICK i \in DOMAIN psbt.inputs : \E policy :
        /\ policy = AccountOf(psbt, psbt.inputs[i])
        /\ \E p \in DOMAIN policy.places : \E n \in DOMAIN policy.places[p].keys : v = VisitOf(policy, i, p, n)
  BY <1>1 DEF IsVisit
<1>20. PICK policy :
        /\ policy = AccountOf(psbt, psbt.inputs[i])
        /\ \E p \in DOMAIN policy.places : \E n \in DOMAIN policy.places[p].keys : v = VisitOf(policy, i, p, n)
  BY <1>2
<1>3. PICK p \in DOMAIN policy.places : \E n \in DOMAIN policy.places[p].keys : v = VisitOf(policy, i, p, n)
  BY <1>20
<1>4. PICK n \in DOMAIN policy.places[p].keys : v = VisitOf(policy, i, p, n)
  BY <1>3
<1>5. v.input = i /\ v.place = p /\ v.nth = n
  BY <1>4 DEF VisitOf
<1>6. IsPolicy(policy)
  <2>1. psbt.inputs[i].coords.account + 1 \in DOMAIN GetAccounts(psbt)
    BY FieldAccounts
  <2> QED
    BY <1>20, <2>1, AccountsFacts DEF AccountOf
<1>7. p \in Nat /\ n \in Nat
  BY <1>6, ListFacts DEF IsPolicy
<1>8. i \in Nat
  BY ListFacts DEF IsPsbt
<1> QED
  BY <1>5, <1>7, <1>8

\* The key that the pass is at belongs to an input of the PSBT.
LEMMA CurrentFacts ==
  ASSUME IsPsbt(req.psbt), Analysis(req.psbt) = "ok", ToVisit # {}
  PROVE  Current.input \in DOMAIN req.psbt.inputs
<1>1. \A v \in ToVisit : v.input \in DOMAIN req.psbt.inputs /\ v.input \in Nat /\ v.place \in Nat /\ v.nth \in Nat
  BY VisitsFacts DEF ToVisit
<1>2. Current \in ToVisit
  BY <1>1, FirstOfFacts DEF Current
<1> QED
  BY <1>1, <1>2

\* A proof that a PSBT carries, and that is right, is one that the V-App gave.
LEMMA ProofIsGiven ==
  ASSUME HostInv, NEW id, KnownProof(ProofOfRegistration(id))
  PROVE  Registered(ProofOfRegistration(id))
<1>1. PICK por : por = ProofOfRegistration(id)
  OBVIOUS
<1>2. por # <<"junk">>
  BY <1>1 DEF ProofOfRegistration
<1>3. [kind |-> "por", proof |-> por] \in given
  BY <1>1, <1>2 DEF KnownProof
<1>4. Registered(por)
  BY <1>3 DEF HostInv, ItemGood, ProofGood
<1> QED
  BY <1>1, <1>4

\* A script that belongs to an account of a verified PSBT belongs to one that the user registered.
LEMMA VerifiedScript ==
  ASSUME HostInv, NEW psbt, IsPsbt(psbt), KnownPsbt(psbt), Analysis(psbt) = "ok",
         \A n \in 1 .. ChecksToDo(psbt) : CheckHolds(psbt, n),
         NEW field, IsCoordinates(field.coords), field.coords.account + 1 \in DOMAIN GetAccounts(psbt)
  PROVE  OfApprovedAccount(ToScript(AccountOf(psbt, field), field.coords))
<1>1. PICK a : a = field.coords.account + 1
  OBVIOUS
<1>2. a \in DOMAIN GetAccounts(psbt) /\ field.coords.account \in Nat /\ a - 1 = field.coords.account
  BY <1>1 DEF IsCoordinates
<1>3. PorOk(psbt, a - 1) /\ AccountPor(psbt, a - 1) # None
  BY <1>2, ChecksFacts, AnalysisFacts DEF Verified
<1>4. AccountOf(psbt, field) = GetAccount(psbt, a - 1)
  BY <1>1, <1>2, AccountsFacts DEF AccountOf
<1>5. PICK name : name = NameOrEmpty(psbt, a - 1)
  OBVIOUS
<1>6. PICK policy : policy = GetAccount(psbt, a - 1)
  OBVIOUS
<1>7. PICK id : id = RegistrationId("account", name, policy)
  OBVIOUS
<1>8. AccountPor(psbt, a - 1) = ProofOfRegistration(id)
  BY <1>3, <1>5, <1>6, <1>7 DEF PorOk
<1>9. KnownProof(ProofOfRegistration(id))
  <2>1. PICK f : f = <<"por", a - 1>>
    OBVIOUS
  <2>2. f[1] = "por" /\ f \in DOMAIN psbt.global /\ AccountPor(psbt, a - 1) = psbt.global[f]
    BY <1>3, <2>1 DEF AccountPor
  <2>3. KnownProof(psbt.global[f])
    BY <2>2 DEF KnownPsbt
  <2> QED
    BY <1>8, <2>2, <2>3
<1>10. Registered(ProofOfRegistration(RegistrationId("account", name, policy)))
  BY <1>7, <1>9, ProofIsGiven
<1>11. PICK coords : coords = [change |-> field.coords.change, index |-> field.coords.index]
  OBVIOUS
<1>12. coords \in Coordinates
  BY <1>11 DEF Coordinates, IsCoordinates
<1>13. OfApprovedAccount(ToScript(policy, coords))
  BY <1>10, <1>12, RegisteredAccount
<1>14. Inner(policy, coords) = Inner(policy, field.coords)
  BY <1>11 DEF Inner
<1>15. ToScript(policy, coords) = ToScript(policy, field.coords)
  BY <1>14 DEF ToScript
<1> QED
  BY <1>4, <1>6, <1>13, <1>15

\* A key that the user registered under the name has signed the script.
Vouched(output, name) ==
  \E i \in approved, p \in DOMAIN output.proofs :
    /\ i.kind = "identity" /\ i.name = name /\ i.object = output.proofs[p].key
    /\ output.proofs[p].sig = <<i.object, <<"OUTPUT", output.script>> >>

LEMMA NameShown ==
  ASSUME HostInv, NEW psbt, IsPsbt(psbt), KnownPsbt(psbt), Analysis(psbt) = "ok",
         NEW o \in External(psbt), AuthName(psbt, psbt.outputs[o]) # None
  PROVE  Vouched(psbt.outputs[o], AuthName(psbt, psbt.outputs[o]))
<1>0. PICK output : output = psbt.outputs[o]
  OBVIOUS
<1> DEFINE Keys(key) == {k \in RegisteredIdentityKeys(psbt) : k.key = key}
           Known == {p \in DOMAIN output.proofs : Keys(output.proofs[p].key) # {}}
<1>1. AuthName(psbt, output) = IF Known = {} THEN None
                               ELSE (CHOOSE k \in Keys(output.proofs[Min(Known)].key) : TRUE).name
  BY DEF AuthName
<1>2. o \in DOMAIN psbt.outputs /\ ~IsInternal(psbt.outputs[o])
  BY DEF External
<1>3. DOMAIN output.proofs \subseteq Nat /\ ProofsOk(output)
  <2>1. IsOutput(output) /\ OutputOk(psbt, output)
    BY <1>0, <1>2, AnalysisFacts DEF IsPsbt
  <2>2. IsList(output.proofs) /\ ProofsOk(output)
    BY <1>0, <1>2, <2>1 DEF IsOutput, OutputOk, IsInternal
  <2> QED
    BY <2>2, ListFacts
<1>4. Known # {} /\ Known \subseteq Nat
  BY <1>0, <1>1, <1>3
<1>5. PICK p : p = Min(Known)
  OBVIOUS
<1>6. p \in Known
  <2>1. \E x \in Known : \A y \in Known : x <= y
    BY <1>4, LeastExists
  <2> HIDE DEF Known
  <2> QED
    BY <1>5, <2>1 DEF Min
<1>7. p \in DOMAIN output.proofs /\ Keys(output.proofs[p].key) # {}
  BY <1>6
<1>8. PICK k : k = CHOOSE x \in Keys(output.proofs[p].key) : TRUE
  OBVIOUS
<1>9. k \in Keys(output.proofs[p].key)
  BY <1>7, <1>8
<1>10. AuthName(psbt, output) = k.name
  BY <1>1, <1>4, <1>5, <1>8
<1>11. k \in RegisteredIdentityKeys(psbt) /\ k.key = output.proofs[p].key
  BY <1>9
<1> HIDE DEF Known, Keys
<1>12. PICK id : id = RegistrationId("identity", k.name, k.key)
  OBVIOUS
<1>13. k.por = ProofOfRegistration(id)
  BY <1>11, <1>12, AnalysisFacts DEF IdentityKeysOk
<1>14. KnownProof(k.por)
  <2>1. PICK f \in DOMAIN psbt.global : f[1] = "idkey" /\ k.por = psbt.global[f].por
    BY <1>11 DEF RegisteredIdentityKeys
  <2> QED
    BY <2>1 DEF KnownPsbt
<1>15. Registered(ProofOfRegistration(id))
  BY <1>13, <1>14, ProofIsGiven
<1>16. PICK i \in approved : ProofOfRegistration(id) = ProofOfRegistration(RegistrationId(i.kind, i.name, i.object))
  BY <1>15 DEF Registered
<1>17. i.kind = "identity" /\ i.name = k.name /\ i.object = k.key
  BY <1>12, <1>16 DEF ProofOfRegistration, RegistrationId
<1>18. output.proofs[p].sig = <<i.object, <<"OUTPUT", output.script>> >>
  BY <1>3, <1>7, <1>11, <1>17 DEF ProofsOk, IdentityMessage
<1> QED
  BY <1>0, <1>7, <1>10, <1>11, <1>17, <1>18 DEF Vouched

\* A transaction that was analyzed, verified and shown: what the user has approved with it.
LEMMA VerifiedTransaction ==
  ASSUME HostInv, NEW psbt, IsPsbt(psbt), KnownPsbt(psbt), Analysis(psbt) = "ok",
         \A n \in 1 .. ChecksToDo(psbt) : CheckHolds(psbt, n)
  PROVE  /\ \A i \in DOMAIN psbt.inputs : OfApprovedAccount(SpentOutput(psbt.inputs[i]).script)
         /\ Accounted(psbt, DisplayPairs(psbt))
<1>1. ASSUME NEW i \in DOMAIN psbt.inputs PROVE OfApprovedAccount(SpentOutput(psbt.inputs[i]).script)
  <2>1. PICK field : field = psbt.inputs[i]
    OBVIOUS
  <2>2. IsCoordinates(field.coords)
    BY <2>1, AnalysisFacts DEF IsPsbt, IsInput, InputOk
  <2>3. field.coords.account + 1 \in DOMAIN GetAccounts(psbt)
    BY <2>1, FieldAccounts
  <2>4. OfApprovedAccount(ToScript(AccountOf(psbt, field), field.coords))
    BY <2>2, <2>3, VerifiedScript
  <2>5. SpentOutput(field).script = ToScript(AccountOf(psbt, field), field.coords)
    BY <2>1, ChecksFacts DEF Verified
  <2> QED
    BY <2>1, <2>4, <2>5
<1>2. ASSUME NEW o \in DOMAIN psbt.outputs \ External(psbt) PROVE OfApprovedAccount(psbt.outputs[o].script)
  <2>1. PICK field : field = psbt.outputs[o]
    OBVIOUS
  <2>2. IsCoordinates(field.coords)
    BY <2>1 DEF IsPsbt, IsOutput, External, IsInternal
  <2>3. field.coords.account + 1 \in DOMAIN GetAccounts(psbt)
    BY <2>1, FieldAccounts
  <2>4. OfApprovedAccount(ToScript(AccountOf(psbt, field), field.coords))
    BY <2>2, <2>3, VerifiedScript
  <2>5. field.script = ToScript(AccountOf(psbt, field), field.coords)
    BY <2>1, ChecksFacts DEF Verified
  <2> QED
    BY <2>1, <2>4, <2>5
<1>3. PICK pairs : pairs = DisplayPairs(psbt)
  OBVIOUS
<1>4. /\ DOMAIN pairs.outputs = External(psbt)
      /\ \A o \in External(psbt) :
           /\ pairs.outputs[o].address = psbt.outputs[o].script
           /\ pairs.outputs[o].amount = psbt.outputs[o].amount
           /\ pairs.outputs[o].name = AuthName(psbt, psbt.outputs[o])
  BY <1>3 DEF DisplayPairs
<1>5. ASSUME NEW o \in External(psbt), pairs.outputs[o].name # None
      PROVE  Vouched(psbt.outputs[o], pairs.outputs[o].name)
  <2>1. pairs.outputs[o].name = AuthName(psbt, psbt.outputs[o])
    BY <1>4
  <2>2. Vouched(psbt.outputs[o], AuthName(psbt, psbt.outputs[o]))
    BY <1>5, <2>1, NameShown
  <2> QED
    BY <2>1, <2>2
<1>6. Accounted(psbt, pairs)
  BY <1>2, <1>4, <1>5 DEF Accounted, Vouched
<1> QED
  BY <1>1, <1>3, <1>6

-----------------------------------------------------------------------------
(* What is signed stays approved.                                              *)
LEMMA SigStays ==
  ASSUME NEW g, SigGood(g), approved \subseteq approved'
  PROVE  SigGood(g)'
<1>1. \A script : OfApprovedAccount(script) => OfApprovedAccount(script)'
  BY DEF OfApprovedAccount, Accounts
<1>2. ASSUME NEW psbt, NEW pairs, Accounted(psbt, pairs) PROVE Accounted(psbt, pairs)'
  BY <1>1, <1>2 DEF Accounted
<1> QED
  BY <1>1, <1>2 DEF SigGood

LEMMA SignedStays ==
  ASSUME SignInv, approved \subseteq approved', given' \subseteq given \cup out,
         \A g \in out' : g \in out \/ SigGood(g)'
  PROVE  \A g \in given' \cup out' : SigGood(g)'
<1>1. ASSUME NEW g \in given' \cup out' PROVE SigGood(g)'
  <2>1. CASE g \in given \cup out
    BY <2>1, SigStays DEF SignInv
  <2>2. CASE g \notin given \cup out
    BY <1>1, <2>2
  <2> QED
    BY <2>1, <2>2
<1> QED
  BY <1>1

LEMMA KnownStays ==
  ASSUME NEW psbt, KnownPsbt(psbt), given \subseteq given'
  PROVE  KnownPsbt(psbt)'
BY DEF KnownPsbt, KnownProof, KnownKeys

LEMMA SignInvInit == Init => SignInv
<1> SUFFICES ASSUME Init PROVE SignInv
  OBVIOUS
<1>1. pc = "idle" /\ task = 0 /\ out = {}
  BY DEF Init
<1>2. ASSUME NEW g \in given PROVE SigGood(g)
  <2>1. PICK e \in Enrolled : g = Proof(e)
    BY DEF Init
  <2>2. g.kind = "por"
    BY <2>1 DEF Proof
  <2> QED
    BY <2>2 DEF SigGood
<1> QED
  BY <1>1, <1>2 DEF SignInv, RequestInv, TaskInv, Reviewing, Passing

\* A step that ends at no point of a request to sign.
LEMMA ElsewhereStep ==
  ASSUME SignInv, pc' \in {"idle", "confirm", "respond"}, pc' = "idle" => task' = 0,
         approved \subseteq approved', given' \subseteq given \cup out,
         \A g \in out' : g \in out \/ SigGood(g)'
  PROVE  SignInv'
<1>1. \A g \in given' \cup out' : SigGood(g)'
  BY SignedStays
<1>2. RequestInv' /\ TaskInv'
  BY DEF RequestInv, TaskInv, Reviewing, Passing
<1> QED
  BY <1>1, <1>2 DEF SignInv

LEMMA SignEnd ==
  ASSUME SignInv, NEW how, End(how)
  PROVE  SignInv'
BY ElsewhereStep DEF End, Forget

\* The answers of the other requests hold no signatures over transactions.
LEMMA ResultUnsigned ==
  ASSUME NEW r, r.op \in {"fingerprint", "xpub", "account", "identity", "address"}, NEW seeds,
         NEW g \in Result(r, seeds)
  PROVE  g.kind \notin {"sig", "partial"}
<1>1. r.op # "fingerprint"
  BY ResultCases
<1>2. CASE r.op = "xpub"
  BY <1>2, ResultCases DEF IdentitySignature
<1>3. CASE r.op = "account"
  BY <1>3, ResultCases DEF Proof
<1>4. CASE r.op = "identity"
  BY <1>4, ResultCases DEF Proof
<1>5. CASE r.op = "address"
  BY <1>5, ResultCases DEF IdentitySignature
<1> QED
  BY <1>1, <1>2, <1>3, <1>4, <1>5

LEMMA SignOtherRequests ==
  ASSUME SignInv,
         GetMasterFingerprint \/ GetExtendedPubkey \/ RegisterAccount \/ RegisterIdentityKey \/ GetAddress
  PROVE  SignInv'
<1>1. PICK r \in Requests : /\ r.op \in {"fingerprint", "xpub", "account", "identity", "address"}
                            /\ (\E how : End(how)) \/ (\E screen, seeds : Proceed(r, screen, seeds))
  <2>1. CASE GetMasterFingerprint
    BY <2>1 DEF GetMasterFingerprint
  <2>2. CASE GetExtendedPubkey
    BY <2>2 DEF GetExtendedPubkey
  <2>3. CASE RegisterAccount
    BY <2>3 DEF RegisterAccount
  <2>4. CASE RegisterIdentityKey
    BY <2>4 DEF RegisterIdentityKey
  <2>5. CASE GetAddress
    BY <2>5 DEF GetAddress
  <2> QED
    BY <2>1, <2>2, <2>3, <2>4, <2>5
<1>2. CASE \E how : End(how)
  BY <1>2, SignEnd
<1>3. CASE \E screen, seeds : Proceed(r, screen, seeds)
  <2>1. PICK screen, seeds : Proceed(r, screen, seeds)
    BY <1>3
  <2>2. /\ approved' = approved /\ given' = given /\ pc' \in {"confirm", "respond"}
        /\ out' \subseteq Result(r, seeds)
    BY <2>1 DEF Proceed, Goto
  <2>3. \A g \in out' : SigGood(g)'
    BY <1>1, <2>2, ResultUnsigned DEF SigGood
  <2> QED
    BY <2>2, <2>3, ElsewhereStep
<1> QED
  BY <1>1, <1>2, <1>3

LEMMA SignConfirm ==
  ASSUME HostInv, SignInv, Confirm
  PROVE  SignInv'
<1>1. /\ ConfirmReady /\ approved \subseteq approved' /\ out' = Result(req, Seeds)
      /\ given' = given /\ pc' = "respond"
  BY DEF HostInv, Confirm
<1>2. PICK r : r = req
  OBVIOUS
<1>3. PICK seeds : seeds = Seeds
  OBVIOUS
<1>4. r.op \in {"fingerprint", "xpub", "account", "identity", "address"} /\ out' = Result(r, seeds)
  BY <1>1, <1>2, <1>3 DEF ConfirmReady
<1>5. \A g \in out' : SigGood(g)'
  BY <1>4, ResultUnsigned DEF SigGood
<1> QED
  BY <1>1, <1>5, ElsewhereStep

LEMMA SignRespond ==
  ASSUME SignInv, Respond
  PROVE  SignInv'
<1>1. pc' = "idle" /\ task' = 0 /\ out' = {} /\ approved' = approved /\ given' = given \cup out
  BY DEF Respond, Forget
<1> QED
  BY <1>1, ElsewhereStep

\* The screens after the analysis: nothing but the place changes.
LEMMA ScreenCases ==
  ASSUME NEW psbt, ScreenAfterUnverified(psbt) \/ ScreenAfterWarnings(psbt)
  PROVE  \/ \E how : End(how)
         \/ /\ pc' \in {"high_fee", "review"}
            /\ UNCHANGED <<task, out, approved, given>>
BY DEF ScreenAfterUnverified, ScreenAfterWarnings, Goto, volatile

LEMMA SignSignPsbt ==
  ASSUME SignInv, SignPsbt
  PROVE  SignInv'
<1>1. PICK r \in Requests :
        /\ r.op = "sign" /\ pc = "idle" /\ req' = r /\ KnownPsbt(r.psbt)
        /\ IF Analysis(r.psbt) # "ok" THEN End(Analysis(r.psbt))
           ELSE IF WarnUnverified(r.psbt) THEN Goto("unverified") /\ UNCHANGED volatile
           ELSE ScreenAfterUnverified(r.psbt)
  BY DEF SignPsbt, Accept
<1>2. CASE \E how : End(how)
  BY <1>2, SignEnd
<1>3. CASE ~ \E how : End(how)
  <2>1. Analysis(r.psbt) = "ok"
    BY <1>1, <1>3
  <2>2. /\ pc' \in {"unverified", "high_fee", "review"}
        /\ UNCHANGED <<task, out, approved, given>>
    <3>1. CASE WarnUnverified(r.psbt)
      BY <1>1, <2>1, <3>1 DEF Goto, volatile
    <3>2. CASE ~WarnUnverified(r.psbt)
      <4>1. ScreenAfterUnverified(r.psbt)
        BY <1>1, <2>1, <3>2
      <4> QED
        BY <1>3, <4>1, ScreenCases
    <3> QED
      BY <3>1, <3>2
  <2>3. KnownPsbt(r.psbt)'
    BY <1>1, <2>2, KnownStays
  <2>4. RequestInv'
    BY <1>1, <2>1, <2>2, <2>3 DEF RequestInv
  <2>5. task' = 0
    BY <1>1, <2>2 DEF SignInv, TaskInv
  <2>6. TaskInv'
    BY <2>2, <2>5 DEF TaskInv, Reviewing, Passing
  <2>7. \A g \in given' \cup out' : SigGood(g)'
    BY <2>2, SignedStays
  <2> QED
    BY <2>4, <2>6, <2>7 DEF SignInv
<1> QED
  BY <1>2, <1>3

\* The request stays the one that was analyzed.
LEMMA RequestStays ==
  ASSUME SignInv, pc \in Reviewing \cup Passing, req' = req, given' = given
  PROVE  RequestInv'
<1>1. PICK r : r = req
  OBVIOUS
<1>2. r \in Requests /\ r.op = "sign" /\ KnownPsbt(r.psbt) /\ Analysis(r.psbt) = "ok"
  BY <1>1 DEF SignInv, RequestInv
<1>3. KnownPsbt(r.psbt)'
  BY <1>2, KnownStays
<1> QED
  BY <1>1, <1>2, <1>3 DEF RequestInv

LEMMA SignContinue ==
  ASSUME SignInv, ContinueUnverified \/ ContinueHighFee
  PROVE  SignInv'
<1>1. PICK psbt : psbt = req.psbt
  OBVIOUS
<1>2. /\ pc \in {"unverified", "high_fee"} /\ req' = req
      /\ ScreenAfterUnverified(psbt) \/ ScreenAfterWarnings(psbt)
  BY <1>1 DEF ContinueUnverified, ContinueHighFee
<1>3. CASE \E how : End(how)
  BY <1>3, SignEnd
<1>4. CASE /\ pc' \in {"high_fee", "review"}
           /\ UNCHANGED <<task, out, approved, given>>
  <2>1. RequestInv'
    BY <1>2, <1>4, RequestStays DEF Reviewing
  <2>2. TaskInv'
    BY <1>2, <1>4 DEF SignInv, TaskInv, Reviewing, Passing
  <2>3. \A g \in given' \cup out' : SigGood(g)'
    BY <1>4, SignedStays
  <2> QED
    BY <2>1, <2>2, <2>3 DEF SignInv
<1> QED
  BY <1>2, <1>3, <1>4, ScreenCases

LEMMA SignApprove ==
  ASSUME SignInv, ApproveTransaction
  PROVE  SignInv'
<1>1. /\ pc = "review" /\ pc' = "await" /\ UNCHANGED <<req, task, out, given>>
      /\ approved' = approved \cup {[kind |-> "tx", pairs |-> DisplayPairs(req.psbt)]}
  BY DEF ApproveTransaction
<1>2. RequestInv'
  BY <1>1, RequestStays DEF Reviewing
<1>3. TaskInv'
  <2>1. [kind |-> "tx", pairs |-> DisplayPairs(req'.psbt)] \in approved'
    BY <1>1
  <2>2. task = Failed \/ (task \in Nat /\ \A n \in 1 .. task : CheckHolds(req.psbt, n))
    BY <1>1 DEF SignInv, TaskInv, Reviewing
  <2> QED
    BY <1>1, <2>1, <2>2 DEF TaskInv, Reviewing, Passing
<1>4. \A g \in given' \cup out' : SigGood(g)'
  BY <1>1, SignedStays
<1> QED
  BY <1>2, <1>3, <1>4 DEF SignInv

\* One more check is made, or the task has failed for good.
LEMMA SignVerify ==
  ASSUME SignInv, VerifyStep
  PROVE  SignInv'
<1>1. /\ pc \in Reviewing /\ task # Failed /\ UNCHANGED <<pc, req, out, approved, given>>
      /\ task' = IF CheckHolds(req.psbt, task + 1) THEN task + 1 ELSE Failed
  BY DEF VerifyStep, Reviewing
<1>2. RequestInv'
  BY <1>1, RequestStays
<1>3. task \in Nat /\ \A n \in 1 .. task : CheckHolds(req.psbt, n)
  BY <1>1 DEF SignInv, TaskInv
<1>4. task' = Failed \/ (task' \in Nat /\ \A n \in 1 .. task' : CheckHolds(req.psbt, n))
  <2>1. CASE CheckHolds(req.psbt, task + 1)
    <3>1. task' = task + 1 /\ \A n \in 1 .. task + 1 : n \in 1 .. task \/ n = task + 1
      BY <1>1, <1>3, <2>1
    <3> QED
      BY <1>3, <2>1, <3>1
  <2>2. CASE ~CheckHolds(req.psbt, task + 1)
    BY <1>1, <2>2
  <2> QED
    BY <2>1, <2>2
<1>5. TaskInv'
  <2>1. pc \notin Passing /\ pc # "idle"
    BY <1>1 DEF Reviewing, Passing
  <2>2. pc = "await" => [kind |-> "tx", pairs |-> DisplayPairs(req.psbt)] \in approved
    BY DEF SignInv, TaskInv
  <2> QED
    BY <1>1, <1>4, <2>1, <2>2 DEF TaskInv
<1>6. \A g \in given' \cup out' : SigGood(g)'
  BY <1>1, SignedStays
<1> QED
  BY <1>2, <1>5, <1>6 DEF SignInv

\* await_task lets only a transaction pass whose checks were all made.
LEMMA SignAwait ==
  ASSUME SignInv, AwaitTask
  PROVE  SignInv'
<1>1. CASE \E how : End(how)
  BY <1>1, SignEnd
<1>2. CASE ~ \E how : End(how)
  <2>1. /\ pc = "await" /\ pc' = "begin" /\ task # Failed /\ task = ChecksToDo(req.psbt)
        /\ UNCHANGED <<req, task, out, approved, given>>
    BY <1>2 DEF AwaitTask, Goto, volatile
  <2>2. RequestInv'
    BY <2>1, RequestStays DEF Reviewing
  <2>3. /\ \A n \in 1 .. ChecksToDo(req.psbt) : CheckHolds(req.psbt, n)
        /\ [kind |-> "tx", pairs |-> DisplayPairs(req.psbt)] \in approved
    BY <2>1 DEF SignInv, TaskInv, Reviewing
  <2>4. TaskInv'
    BY <2>1, <2>3 DEF TaskInv, Reviewing, Passing
  <2>5. \A g \in given' \cup out' : SigGood(g)'
    BY <2>1, SignedStays
  <2> QED
    BY <2>2, <2>4, <2>5 DEF SignInv
<1> QED
  BY <1>1, <1>2

\* The steps of the pass: what they add to the answer must be approved.
LEMMA PassStep ==
  ASSUME SignInv, pc \in Passing, pc' \in Passing \cup {"respond"}, UNCHANGED <<req, approved, given>>,
         \A g \in out' : g \in out \/ SigGood(g)
  PROVE  SignInv'
<1>1. RequestInv'
  BY RequestStays
<1>2. /\ \A n \in 1 .. ChecksToDo(req.psbt) : CheckHolds(req.psbt, n)
      /\ [kind |-> "tx", pairs |-> DisplayPairs(req.psbt)] \in approved
  BY DEF SignInv, TaskInv
<1>3. TaskInv'
  BY <1>2 DEF TaskInv, Reviewing, Passing
<1>4. \A g \in out' : g \in out \/ SigGood(g)'
  BY SigStays
<1>5. \A g \in given' \cup out' : SigGood(g)'
  BY <1>4, SignedStays
<1> QED
  BY <1>1, <1>3, <1>5 DEF SignInv

\* A signature for an input of the transaction that was approved.
LEMMA SignatureGood ==
  ASSUME HostInv, SignInv, AtVisit, NEW kind, NEW sighash
  PROVE  SigGood(Signature(kind, sighash))
<1>1. PICK psbt : psbt = req.psbt
  OBVIOUS
<1>2. pc \in Passing
  BY DEF AtVisit, Passing
<1>3. /\ req \in Requests /\ req.op = "sign" /\ KnownPsbt(psbt) /\ Analysis(psbt) = "ok"
      /\ \A n \in 1 .. ChecksToDo(psbt) : CheckHolds(psbt, n)
      /\ [kind |-> "tx", pairs |-> DisplayPairs(psbt)] \in approved
  BY <1>1, <1>2 DEF SignInv, RequestInv, TaskInv
<1>4. IsPsbt(psbt)
  BY <1>1, <1>3, PsbtAssumption
<1>5. PICK i : i = Current.input
  OBVIOUS
<1>6. i \in DOMAIN psbt.inputs
  BY <1>1, <1>3, <1>4, <1>5, CurrentFacts DEF AtVisit
<1>7. OfApprovedAccount(SpentOutput(psbt.inputs[i]).script) /\ Accounted(psbt, DisplayPairs(psbt))
  BY <1>3, <1>4, <1>6, VerifiedTransaction
<1>8. Balanced(DisplayPairs(psbt)) /\ DisplayPairs(psbt).fee = Fee(psbt)
  BY <1>3, <1>4, PairsBalanced
<1>9. PICK pairs : pairs = DisplayPairs(psbt)
  OBVIOUS
<1>10. PICK a \in approved : a.kind = "tx" /\ a.pairs = pairs
  BY <1>3, <1>9
<1>11. PICK g : g = Signature(kind, sighash)
  OBVIOUS
<1>12. g.psbt = psbt /\ g.input = i
  BY <1>1, <1>5, <1>11 DEF Signature
<1>13. SigGood(g)
  BY <1>7, <1>8, <1>9, <1>10, <1>12 DEF SigGood
<1> QED
  BY <1>11, <1>13

LEMMA SignBegin ==
  ASSUME SignInv, BeginPass
  PROVE  SignInv'
<1>1. CASE \E how : End(how)
  BY <1>1, SignEnd
<1>2. CASE ~ \E how : End(how)
  <2>1. pc = "begin" /\ pc' = "signing" /\ UNCHANGED <<req, out, approved, given>>
    BY <1>2 DEF BeginPass, Goto, volatile
  <2> QED
    BY <2>1, PassStep DEF Passing
<1> QED
  BY <1>1, <1>2

LEMMA SignInput ==
  ASSUME HostInv, SignInv, SignInputEcdsa \/ SignInputSchnorr \/ SignSighashMusig
  PROVE  SignInv'
<1>1. CASE \E how : End(how)
  BY <1>1, SignEnd
<1>2. CASE ~ \E how : End(how)
  <2>1. PICK kind, sighash : /\ AtVisit /\ Produce(Signature(kind, sighash))
                             /\ UNCHANGED <<req, approved, given>>
    <3>1. CASE SignInputEcdsa
      BY <1>2, <3>1 DEF SignInputEcdsa
    <3>2. CASE SignInputSchnorr
      BY <1>2, <3>2 DEF SignInputSchnorr
    <3>3. CASE SignSighashMusig
      BY <1>2, <3>3 DEF SignSighashMusig
    <3> QED
      BY <3>1, <3>2, <3>3
  <2>2. SigGood(Signature(kind, sighash))
    BY <2>1, SignatureGood
  <2>3. /\ pc = "signing" /\ pc' = "signing" /\ out' = out \cup {Signature(kind, sighash)}
        /\ UNCHANGED <<req, approved, given>>
    BY <2>1 DEF AtVisit, Produce
  <2>4. \A g \in out' : g \in out \/ SigGood(g)
    BY <2>2, <2>3
  <2> QED
    BY <2>3, <2>4, PassStep DEF Passing
<1> QED
  BY <1>1, <1>2

LEMMA SignPubnonce ==
  ASSUME SignInv, ProducePubnonce
  PROVE  SignInv'
<1>1. CASE \E how : End(how)
  BY <1>1, SignEnd
<1>2. CASE ~ \E how : End(how)
  <2>1. PICK nonce : /\ AtVisit /\ Produce([kind |-> "nonce", nonce |-> nonce])
                     /\ UNCHANGED <<req, approved, given>>
    BY <1>2 DEF ProducePubnonce
  <2>2. PICK item : item = [kind |-> "nonce", nonce |-> nonce]
    OBVIOUS
  <2>3. SigGood(item)
    <3>1. item.kind = "nonce"
      BY <2>2
    <3> QED
      BY <3>1 DEF SigGood
  <2>4. pc = "signing" /\ pc' = "signing" /\ out' = out \cup {item} /\ UNCHANGED <<req, approved, given>>
    BY <2>1, <2>2 DEF AtVisit, Produce
  <2> QED
    BY <2>3, <2>4, PassStep DEF Passing
<1> QED
  BY <1>1, <1>2

LEMMA SignSession ==
  ASSUME SignInv, Popping \/ Popped \/ EndPass \/ CommitId \/ CommitRand
  PROVE  SignInv'
<1>1. /\ pc \in Passing /\ pc' \in Passing \cup {"respond"}
      /\ UNCHANGED <<req, out, approved, given>>
  BY DEF Popping, Popped, EndPass, CommitId, CommitRand, AtVisit, Goto, Passing
<1> QED
  BY <1>1, PassStep

LEMMA SignInvNext == HostInv /\ SignInv /\ [Next]_vars => SignInv'
<1> SUFFICES ASSUME HostInv, SignInv, [Next]_vars PROVE SignInv'
  OBVIOUS
<1>1. CASE UNCHANGED vars
  <2>1. UNCHANGED <<pc, req, task, out, approved, given>>
    BY <1>1 DEF vars
  <2>2. RequestInv'
    <3>1. CASE pc \in Reviewing \cup Passing
      BY <2>1, <3>1, RequestStays
    <3>2. CASE pc \notin Reviewing \cup Passing
      BY <2>1, <3>2 DEF RequestInv
    <3> QED
      BY <3>1, <3>2
  <2>3. TaskInv'
    BY <2>1 DEF SignInv, TaskInv
  <2>4. \A g \in given' \cup out' : SigGood(g)'
    BY <2>1, SignedStays
  <2> QED
    BY <2>2, <2>3, <2>4 DEF SignInv
<1>2. CASE Reject \/ PowerLoss
  BY <1>2, SignEnd DEF Reject, PowerLoss
<1> QED
  BY <1>1, <1>2, SignOtherRequests, SignSignPsbt, SignConfirm, SignRespond, SignContinue, SignApprove,
     SignVerify, SignAwait, SignBegin, SignInput, SignPubnonce, SignSession DEF Next

\* Whatever PSBTs, proofs and keys the host combines, and however screens, verification,
\* signing and losses of power interleave (handle_sign_psbt): a signature that leaves the
\* V-App spends an output of an account that the user registered, in a transaction that the
\* user approved, whose outputs are on the screen or the user's, with amounts that add up.
THEOREM SignatureSafety == Spec => []SignedAsApproved
<1>1. SignInv => SignedAsApproved
  BY DEF SignInv, SigGood, SignedAsApproved
<1> QED
  BY <1>1, HostInvInit, HostInvNext, SignInvInit, SignInvNext, PTL DEF Spec

-----------------------------------------------------------------------------
\* What prepare_psbt finds out: the coordinates of the account's inputs and outputs. Key
\* expressions that share a key do not mislead it, whichever of them comes last.
OfFirst(at) == [account |-> 0, change |-> at.change, index |-> at.index]

LEMMA GreatestExists ==
  ASSUME NEW n \in Nat, NEW S, S \subseteq 1 .. n, S # {}
  PROVE  \E x \in S : \A y \in S : x >= y
<1>1. PICK U : U = {m \in Nat : \A y \in S : y <= m}
  OBVIOUS
<1>2. n \in U /\ U \subseteq Nat
  BY <1>1
<1>3. PICK m \in U : \A k \in U : m <= k
  BY <1>2, LeastExists
<1>4. m \in Nat /\ \A y \in S : y <= m
  BY <1>1, <1>3
<1>5. CASE m \notin S
  <2>1. \A y \in S : y <= m - 1 /\ m - 1 \in Nat
    BY <1>4, <1>5
  <2>2. m - 1 \in U
    BY <1>1, <2>1
  <2> QED
    BY <1>3, <1>4, <2>2
<1> QED
  BY <1>4, <1>5

LEMMA CoordinatesFound ==
  ASSUME NEW policy, IsWalletPolicy(policy), NEW at \in Coordinates, NEW field, NEW script,
         IsOwn(field, script, policy, at)
  PROVE  WithCoordinates(field, policy, 0)
           = [field EXCEPT !.coords = OfFirst(at)]
<1> DEFINE Found(p) == CoordinatesFrom(field.derivations, Origins(policy, policy.places[p]), policy.places[p])
           Places == {p \in DOMAIN policy.places : Found(p) # {}}
           Latest == CHOOSE c \in Found(Max(Places)) : TRUE
<1>1. WithCoordinates(field, policy, 0)
        = IF Places = {} THEN field ELSE [field EXCEPT !.coords = OfFirst(Latest)]
  BY DEF WithCoordinates, OfFirst
<1>2. at.change \in BOOLEAN
  BY DEF Coordinates
<1>3. ASSUME NEW d \in field.derivations
      PROVE  \E q \in DOMAIN policy.places :
               /\ d.origin \in Origins(policy, policy.places[q])
               /\ d.steps = <<IF at.change THEN policy.places[q].num2 ELSE policy.places[q].num1, at.index>>
  BY <1>3 DEF IsOwn, DerivationsAt
<1>4. ASSUME NEW p \in DOMAIN policy.places, NEW c \in Found(p)
      PROVE  c.change = at.change /\ c.index = at.index
  <2>1. PICK d \in field.derivations :
          /\ d.origin \in Origins(policy, policy.places[p])
          /\ d.steps[1] \in {policy.places[p].num1, policy.places[p].num2}
          /\ c = [change |-> d.steps[1] # policy.places[p].num1, index |-> d.steps[2]]
    BY <1>4 DEF CoordinatesFrom
  <2>2. PICK q \in DOMAIN policy.places :
               /\ d.origin \in Origins(policy, policy.places[q])
               /\ d.steps = <<IF at.change THEN policy.places[q].num2 ELSE policy.places[q].num1, at.index>>
    BY <1>3
  <2>3. PICK s, p1, p2, q1, q2 :
          /\ s = d.steps[1] /\ p1 = policy.places[p].num1 /\ p2 = policy.places[p].num2
          /\ q1 = policy.places[q].num1 /\ q2 = policy.places[q].num2
    OBVIOUS
  <2>4. s = (IF at.change THEN q2 ELSE q1) /\ d.steps[2] = at.index
    BY <2>2, <2>3
  <2>5. Origins(policy, policy.places[p]) \cap Origins(policy, policy.places[q]) # {}
    BY <2>1, <2>2
  <2>6. p1 # p2 /\ ((p1 = q1 /\ p2 = q2) \/ {p1, p2} \cap {q1, q2} = {})
    BY <2>3, <2>5 DEF IsWalletPolicy
  <2>7. s \in {p1, p2}
    BY <2>1, <2>3
  <2>8. (s # p1) = at.change
    BY <1>2, <2>4, <2>6, <2>7
  <2>9. c.change = (s # p1) /\ c.index = d.steps[2]
    BY <2>1, <2>3
  <2> QED
    BY <2>4, <2>8, <2>9
<1>5. Places # {}
  <2>1. PICK d \in field.derivations : TRUE
    BY DEF IsOwn
  <2>2. PICK q \in DOMAIN policy.places :
               /\ d.origin \in Origins(policy, policy.places[q])
               /\ d.steps = <<IF at.change THEN policy.places[q].num2 ELSE policy.places[q].num1, at.index>>
    BY <1>3
  <2>3. Len(d.steps) = 2 /\ d.steps[1] \in {policy.places[q].num1, policy.places[q].num2}
    BY <2>2
  <2>4. [change |-> d.steps[1] # policy.places[q].num1, index |-> d.steps[2]] \in Found(q)
    BY <2>2, <2>3 DEF CoordinatesFrom
  <2> QED
    BY <2>4
<1>6. Max(Places) \in Places
  <2>1. PICK n \in Nat : DOMAIN policy.places = 1 .. n
    BY ListFacts DEF IsWalletPolicy, IsPolicy
  <2> HIDE DEF Found
  <2>2. PICK S : S = Places
    OBVIOUS
  <2>3. \E x \in S : \A y \in S : x >= y
    BY <1>5, <2>1, <2>2, GreatestExists
  <2>4. Max(S) \in S
    BY <2>3, Zenon DEF Max
  <2> QED
    BY <2>2, <2>4
<1>7. Latest.change = at.change /\ Latest.index = at.index
  <2>1. Max(Places) \in DOMAIN policy.places /\ Found(Max(Places)) # {}
    BY <1>6
  <2>2. PICK m : m = Max(Places)
    OBVIOUS
  <2>3. PICK c : c = CHOOSE x \in Found(m) : TRUE
    OBVIOUS
  <2>4. c \in Found(m) /\ m \in DOMAIN policy.places
    BY <2>1, <2>2, <2>3
  <2>5. c.change = at.change /\ c.index = at.index
    BY <1>4, <2>4
  <2> QED
    BY <2>2, <2>3, <2>5
<1> HIDE DEF Latest, Places
<1>8. OfFirst(Latest) = OfFirst(at)
  BY <1>7 DEF OfFirst
<1> QED
  BY <1>1, <1>5, <1>8

LEMMA CoordinatesNotFound ==
  ASSUME NEW policy, NEW field,
         \A d \in field.derivations, p \in DOMAIN policy.places :
           d.origin \notin Origins(policy, policy.places[p])
  PROVE  WithCoordinates(field, policy, 0) = field
BY DEF WithCoordinates, CoordinatesFrom

\* An input that prepare_psbt has completed, and an output.
InputAt(in, policy, at) ==
  /\ in.coords = OfFirst(at) /\ in.prev # None /\ in.vout # None
  /\ SpentOutput(in).script = ToScript(policy, at)
  /\ in.redeem = IF policy.wrap = "sh" THEN Inner(policy, at) ELSE None
  /\ in.script = IF policy.wrap = "wsh" THEN Inner(policy, at) ELSE None
  /\ IF SegwitVersion(policy) = "legacy"
     THEN in.witness = None /\ in.tx # None /\ in.vout < Len(in.tx.outs)
     ELSE in.witness # None
  /\ in.tx # None => in.prev = in.tx.id
  /\ \A p \in DOMAIN policy.places :
       LET keys == policy.places[p].keys IN
       policy.places[p].musig =>
         \/ \A n \in DOMAIN keys : policy.keys[keys[n]] \in in.nonces
         \/ \A n \in DOMAIN keys : policy.keys[keys[n]] \notin in.nonces

OutputAt(output, policy) ==
  /\ output.amount # None /\ output.script # None
  /\ \/ \E at \in Coordinates :
          output.coords = OfFirst(at) /\ output.script = ToScript(policy, at)
     \/ output.coords = None /\ HasAddress(output.script) /\ ProofsOk(output)

LEMMA InputCompleted ==
  ASSUME NEW policy, IsWalletPolicy(policy), NEW raw, IsWalletInput(raw, policy),
         NEW in, in = WithCoordinates(raw, policy, 0)
  PROVE  /\ \E at \in Coordinates : InputAt(in, policy, at)
         /\ in.height = raw.height /\ in.time = raw.time
         /\ SpentOutput(in) = SpentOutput(raw)
<1>1. PICK at \in Coordinates :
       /\ IsOwn(raw, SpentOutput(raw).script, policy, at)
       /\ raw.redeem = IF policy.wrap = "sh" THEN Inner(policy, at) ELSE None
       /\ raw.script = IF policy.wrap = "wsh" THEN Inner(policy, at) ELSE None
  BY DEF IsWalletInput
<1>2. in = [raw EXCEPT !.coords = OfFirst(at)]
  BY <1>1, CoordinatesFound
<1>3. DOMAIN raw = {"coords", "prev", "vout", "witness", "tx", "redeem", "script", "nonces", "height",
                    "time", "derivations"}
  BY DEF IsWalletInput
<1>4. /\ in.coords = OfFirst(at)
      /\ in.prev = raw.prev /\ in.vout = raw.vout /\ in.witness = raw.witness /\ in.tx = raw.tx
      /\ in.redeem = raw.redeem /\ in.script = raw.script /\ in.nonces = raw.nonces
      /\ in.height = raw.height /\ in.time = raw.time
  BY <1>2, <1>3
<1>5. SpentOutput(in) = SpentOutput(raw)
  BY <1>4 DEF SpentOutput
<1>6. SpentOutput(raw).script = ToScript(policy, at)
  BY <1>1 DEF IsOwn
<1>7. InputAt(in, policy, at)
  BY <1>1, <1>4, <1>5, <1>6 DEF IsWalletInput, InputAt
<1> QED
  BY <1>4, <1>5, <1>7

LEMMA OutputCompleted ==
  ASSUME NEW policy, IsWalletPolicy(policy), NEW raw, IsWalletOutput(raw, policy),
         NEW output, output = WithCoordinates(raw, policy, 0)
  PROVE  OutputAt(output, policy) /\ output.amount = raw.amount
<1>1. CASE \E at \in Coordinates : IsOwn(raw, raw.script, policy, at)
  <2>1. PICK at \in Coordinates : IsOwn(raw, raw.script, policy, at)
    BY <1>1
  <2>2. output = [raw EXCEPT !.coords = OfFirst(at)]
    BY <2>1, CoordinatesFound
  <2>3. output.coords = OfFirst(at) /\ output.amount = raw.amount /\ output.script = raw.script
    BY <2>2 DEF IsWalletOutput
  <2>4. output.script = ToScript(policy, at)
    BY <2>1, <2>3 DEF IsOwn
  <2> QED
    BY <2>3, <2>4 DEF OutputAt, IsWalletOutput
<1>2. CASE ~ \E at \in Coordinates : IsOwn(raw, raw.script, policy, at)
  <2>1. output = raw
    BY <1>2, CoordinatesNotFound DEF IsWalletOutput
  <2> QED
    BY <1>2, <2>1 DEF OutputAt, IsWalletOutput
<1> QED
  BY <1>1, <1>2

\* The account that prepare_psbt writes into the global map is the only one there.
LEMMA PreparedGlobal ==
  ASSUME NEW w \in Wallets, NEW psbt, psbt = Prepared(w)
  PROVE  /\ DOMAIN GetAccounts(psbt) = 1 .. 1 /\ GetAccounts(psbt)[1] = w.policy
         /\ Len(GetAccounts(psbt)) = 1
         /\ GetAccount(psbt, 0) = w.policy
         /\ AccountName(psbt, 0) = w.name /\ AccountPor(psbt, 0) = WalletPor(w)
         /\ IdentityKeysOk(psbt)
<1>1. PICK D, R : D = DOMAIN w.psbt.global /\ R = w.psbt.global
  OBVIOUS
<1>2. \A f \in D : /\ f[1] = "idkey"
                   /\ R[f].por = ProofOfRegistration(RegistrationId("identity", R[f].name, f[2]))
  BY <1>1, WalletAssumption DEF IsWalletPsbt
<1>3. PICK G : G = psbt.global
  OBVIOUS
<1>4. G = [f \in {<<"account", 0>>, <<"name", 0>>, <<"por", 0>>} \cup D |->
                  CASE f = <<"account", 0>> -> w.policy
                    [] f = <<"name", 0>> -> w.name
                    [] f = <<"por", 0>> -> WalletPor(w)
                    [] OTHER -> R[f]]
  BY <1>1, <1>3 DEF Prepared, PreparePsbt
<1>5. \A n : <<"account", n>>[1] = "account" /\ <<"account", n>>[2] = n /\ <<"name", n>>[1] = "name"
            /\ <<"por", n>>[1] = "por"
  OBVIOUS
<1>6. /\ <<"account", 0>> # <<"name", 0>> /\ <<"account", 0>> # <<"por", 0>> /\ <<"name", 0>> # <<"por", 0>>
  OBVIOUS
<1>7. /\ <<"account", 0>> \in DOMAIN G /\ <<"name", 0>> \in DOMAIN G /\ <<"por", 0>> \in DOMAIN G
      /\ G[<<"account", 0>>] = w.policy /\ G[<<"name", 0>>] = w.name /\ G[<<"por", 0>>] = WalletPor(w)
  BY <1>4, <1>6
<1>8. ASSUME NEW n \in Nat, n # 0 PROVE <<"account", n>> \notin DOMAIN G
  BY <1>2, <1>4, <1>5, <1>8
<1>9. /\ GetAccount(psbt, 0) = w.policy /\ AccountName(psbt, 0) = w.name
      /\ AccountPor(psbt, 0) = WalletPor(w)
  BY <1>3, <1>7 DEF GetAccount, AccountName, AccountPor
<1>10. \A n \in Nat : n # 0 => GetAccount(psbt, n) = None
  BY <1>3, <1>8 DEF GetAccount
<1>11. w.policy # None
  BY WalletAssumption DEF IsWalletPolicy, IsPolicy
<1>12. Cardinality(DOMAIN psbt.global) \in Nat
  <2>1. IsFiniteSet(DOMAIN w.psbt.global)
    BY WalletAssumption DEF IsWalletPsbt
  <2>2. PICK a, b, c, N : /\ a = <<"account", 0>> /\ b = <<"name", 0>> /\ c = <<"por", 0>>
                          /\ N = ({a} \cup {b}) \cup {c}
    OBVIOUS
  <2>3. IsFiniteSet(N)
    BY <2>2, FS_Singleton, FS_Union
  <2>4. DOMAIN G = N \cup D
    BY <1>4, <2>2
  <2>5. IsFiniteSet(DOMAIN G)
    BY <1>1, <2>1, <2>3, <2>4, FS_Union
  <2> QED
    BY <1>3, <2>5, FS_CardinalityType
<1>13. GetAccounts(psbt) = [i \in 1 .. 1 |-> GetAccount(psbt, i - 1)]
  <2> DEFINE Ids == {id \in 0 .. Cardinality(DOMAIN psbt.global) : \A k \in 0 .. id : GetAccount(psbt, k) # None}
  <2>1. GetAccounts(psbt) = [i \in 1 .. Cardinality(Ids) |-> GetAccount(psbt, i - 1)]
    BY DEF GetAccounts
  <2>2. Ids = {0}
    BY <1>9, <1>10, <1>11, <1>12
  <2>3. Cardinality(Ids) = 1
    BY <2>2, FS_Singleton
  <2> HIDE DEF Ids
  <2> QED
    BY <2>1, <2>3
<1>14. DOMAIN GetAccounts(psbt) = 1 .. 1 /\ GetAccounts(psbt)[1] = w.policy /\ Len(GetAccounts(psbt)) = 1
  BY <1>9, <1>13
<1>15. IdentityKeysOk(psbt)
  <2>1. ASSUME NEW k \in RegisteredIdentityKeys(psbt)
        PROVE  k.por = ProofOfRegistration(RegistrationId("identity", k.name, k.key))
    <3>1. PICK f \in DOMAIN G : f[1] = "idkey" /\ k = [key |-> f[2], name |-> G[f].name, por |-> G[f].por]
      BY <1>3, <2>1 DEF RegisteredIdentityKeys
    <3>2. f \in D /\ G[f] = R[f]
      BY <1>4, <1>5, <3>1
    <3>3. k.key = f[2] /\ k.name = R[f].name /\ k.por = R[f].por
      BY <3>1, <3>2
    <3> QED
      BY <1>2, <3>2, <3>3
  <2> QED
    BY <2>1 DEF IdentityKeysOk
<1> QED
  BY <1>9, <1>14, <1>15

\* analyze_transaction and verify_transaction find nothing wrong with such an input, and
\* SIGHASH computations have the script that they need.
LEMMA InputAccepted ==
  ASSUME NEW w \in Wallets, NEW psbt, NEW in, NEW at \in Coordinates, IsInput(in),
         InputAt(in, w.policy, at), GetAccounts(psbt)[1] = w.policy, Len(GetAccounts(psbt)) = 1
  PROVE  /\ InputOk(psbt, in) /\ ~InputPanics(psbt, in)
         /\ AccountOf(psbt, in) = w.policy
         /\ SpentOutput(in).script = ToScript(w.policy, in.coords)
         /\ SegwitVersion(w.policy) # "taproot" => ScriptCode(in) # None
<1>1. PICK policy : policy = w.policy
  OBVIOUS
<1>2. IsWalletPolicy(policy)
  BY <1>1, WalletAssumption
<1>3. Inner(policy, at) # None /\ ToScript(policy, at) # None
  BY <1>1, NoneAssumption
<1>4. InputAt(in, policy, at)
  BY <1>1
<1>5. in.coords.account = 0 /\ in.coords.change = at.change /\ in.coords.index = at.index
  <2>1. in.coords = OfFirst(at)
    BY <1>4 DEF InputAt
  <2> QED
    BY <2>1 DEF OfFirst
<1>6. in.coords # None
  <2>1. at.change \in BOOLEAN /\ at.index \in 0 .. MaxIndex
    BY DEF Coordinates
  <2>2. OfFirst(at) \in [account : {0}, change : BOOLEAN, index : 0 .. MaxIndex]
    BY <2>1 DEF OfFirst
  <2> QED
    BY <1>4, <2>2, NoneAssumption DEF InputAt
<1>7. AccountOf(psbt, in) = policy /\ InAccount(psbt, in)
  BY <1>1, <1>5 DEF AccountOf, InAccount
<1>8. ToScript(policy, in.coords) = ToScript(policy, at)
  BY <1>5 DEF ToScript, Inner
<1>9. PICK inner, spent : inner = Inner(policy, at) /\ spent = SpentOutput(in).script
  OBVIOUS
<1>10. inner[1] = "script"
  BY <1>9 DEF Inner
<1>11. \A s : P2sh(s)[1] = "p2sh" /\ P2wsh(s)[1] = "p2wsh"
  BY DEF P2sh, P2wsh
<1>12. spent = ToScript(policy, at)
  BY <1>4, <1>9 DEF InputAt
<1>13. policy.wrap \in {"pkh", "sh", "wpkh", "wsh", "tr"}
  BY <1>2 DEF IsWalletPolicy
<1>14. UtxosAllowed(in, SegwitVersion(policy))
  BY <1>4, <1>13 DEF InputAt, UtxosAllowed, SegwitVersion
<1>15. ScriptsFit(in) /\ (SegwitVersion(policy) # "taproot" => ScriptCode(in) # None)
  <2>1. CASE policy.wrap \in {"pkh", "wpkh", "tr"}
    <3>1. spent = inner /\ in.redeem = None /\ in.script = None
      BY <1>4, <1>9, <1>12, <2>1 DEF InputAt, ToScript
    <3>2. ~IsP2wsh(spent) /\ spent[1] # "p2sh" /\ spent # None
      BY <1>3, <1>9, <1>10, <3>1 DEF IsP2wsh
    <3> QED
      BY <1>9, <3>1, <3>2 DEF ScriptsFit, ScriptCode
  <2>2. CASE policy.wrap = "sh"
    <3>1. spent = P2sh(inner) /\ in.redeem = inner /\ in.redeem # None
      BY <1>3, <1>4, <1>9, <1>12, <2>2 DEF InputAt, ToScript
    <3>2. ~IsP2wsh(spent) /\ spent[1] = "p2sh" /\ ~IsP2wsh(in.redeem)
      BY <1>10, <1>11, <3>1 DEF IsP2wsh
    <3> QED
      BY <1>9, <3>1, <3>2 DEF ScriptsFit, ScriptCode
  <2>3. CASE policy.wrap = "wsh"
    <3>1. spent = P2wsh(inner) /\ in.redeem = None /\ in.script = inner /\ inner # None
      BY <1>3, <1>4, <1>9, <1>12, <2>3 DEF InputAt, ToScript
    <3>2. IsP2wsh(spent) /\ spent[1] # "p2sh"
      BY <1>11, <3>1 DEF IsP2wsh
    <3> QED
      BY <1>9, <3>1, <3>2 DEF ScriptsFit, ScriptCode
  <2> QED
    BY <1>13, <2>1, <2>2, <2>3
<1>16. InputOk(psbt, in)
  BY <1>4, <1>6, <1>7, <1>14, <1>15 DEF InputOk, InputAt
<1>17. ~InputPanics(psbt, in)
  <2>1. CASE in.witness # None
    BY <2>1 DEF InputPanics
  <2>2. CASE in.witness = None
    <3>1. in.tx # None /\ in.vout < Len(in.tx.outs) /\ in.vout # None
      BY <1>4, <2>2 DEF InputAt
    <3>2. in.vout \in Nat /\ Len(in.tx.outs) \in Nat
      BY <3>1, ListFacts DEF IsInput
    <3> QED
      BY <3>1, <3>2 DEF InputPanics
  <2> QED
    BY <2>1, <2>2
<1> QED
  BY <1>1, <1>7, <1>8, <1>9, <1>12, <1>15, <1>16, <1>17

LEMMA OutputAccepted ==
  ASSUME NEW w \in Wallets, NEW psbt, NEW output,
         OutputAt(output, w.policy), GetAccounts(psbt)[1] = w.policy, Len(GetAccounts(psbt)) = 1
  PROVE  /\ OutputOk(psbt, output)
         /\ ~IsInternal(output) => HasAddress(output.script)
         /\ IsInternal(output) => output.script = ToScript(AccountOf(psbt, output), output.coords)
<1>1. CASE output.coords = None
  <2>1. \A at \in Coordinates : output.coords # OfFirst(at)
    <3>1. ASSUME NEW at \in Coordinates PROVE OfFirst(at) # None
      <4>1. at.change \in BOOLEAN /\ at.index \in 0 .. MaxIndex
        BY DEF Coordinates
      <4>2. OfFirst(at) \in [account : {0}, change : BOOLEAN, index : 0 .. MaxIndex]
        BY <4>1 DEF OfFirst
      <4> QED
        BY <4>2, NoneAssumption
    <3> QED
      BY <1>1, <3>1
  <2> QED
    BY <1>1, <2>1 DEF OutputAt, OutputOk, IsInternal
<1>2. CASE output.coords # None
  <2>1. PICK at \in Coordinates : output.coords = OfFirst(at) /\ output.script = ToScript(w.policy, at)
    BY <1>2 DEF OutputAt
  <2>2. output.coords.account = 0 /\ output.coords.change = at.change /\ output.coords.index = at.index
    BY <2>1 DEF OfFirst
  <2>3. AccountOf(psbt, output) = w.policy /\ InAccount(psbt, output)
    BY <2>2 DEF AccountOf, InAccount
  <2>4. ToScript(w.policy, output.coords) = ToScript(w.policy, at)
    BY <2>2 DEF ToScript, Inner
  <2> QED
    BY <1>2, <2>1, <2>3, <2>4 DEF OutputAt, OutputOk, IsInternal
<1> QED
  BY <1>1, <1>2

-----------------------------------------------------------------------------
\* A PSBT in which no check of analysis, verification and signing finds anything wrong.
Signable(psbt) ==
  /\ Analysis(psbt) = "ok" /\ Displayable(psbt) /\ HasUnsignedTx(psbt) /\ Verified(psbt)
  /\ \A i \in DOMAIN psbt.inputs :
       LET policy == AccountOf(psbt, psbt.inputs[i]) IN
       /\ SegwitVersion(policy) # "taproot" => ScriptCode(psbt.inputs[i]) # None
       /\ SegwitVersion(policy) = "taproot" => HasPrevouts(psbt)
       /\ \A p \in DOMAIN policy.places :
            LET keys == policy.places[p].keys IN
            policy.places[p].musig =>
              /\ HasPrevouts(psbt) /\ Len(keys) <= MaxPubkeysPerMusig
              /\ \/ \A n \in DOMAIN keys : policy.keys[keys[n]] \in psbt.inputs[i].nonces
                 \/ \A n \in DOMAIN keys : policy.keys[keys[n]] \notin psbt.inputs[i].nonces

LEMMA HonestSignable ==
  ASSUME NEW psbt \in HonestPsbts, IsPsbt(psbt)
  PROVE  Signable(psbt)
<1>1. PICK w \in Wallets : psbt = Prepared(w)
  BY DEF HonestPsbts
<1>2. PICK policy, raw : policy = w.policy /\ raw = w.psbt
  OBVIOUS
<1>3. IsWalletPolicy(policy) /\ IsWalletPsbt(raw, policy) /\ w.name \in ValidNames /\ w.name # None
  BY <1>2, WalletAssumption
<1>4. /\ DOMAIN GetAccounts(psbt) = 1 .. 1 /\ GetAccounts(psbt)[1] = policy
      /\ Len(GetAccounts(psbt)) = 1
      /\ GetAccount(psbt, 0) = policy
      /\ AccountName(psbt, 0) = w.name /\ AccountPor(psbt, 0) = WalletPor(w)
      /\ IdentityKeysOk(psbt)
  BY <1>1, <1>2, PreparedGlobal
<1>5. /\ psbt.inputs = [i \in DOMAIN raw.inputs |-> WithCoordinates(raw.inputs[i], policy, 0)]
      /\ psbt.outputs = [o \in DOMAIN raw.outputs |-> WithCoordinates(raw.outputs[o], policy, 0)]
  BY <1>1, <1>2 DEF Prepared, PreparePsbt
<1>6. DOMAIN psbt.inputs = DOMAIN raw.inputs /\ DOMAIN psbt.outputs = DOMAIN raw.outputs
  BY <1>5
<1>7. ASSUME NEW i \in DOMAIN psbt.inputs
      PROVE  /\ \E at \in Coordinates : InputAt(psbt.inputs[i], policy, at)
             /\ psbt.inputs[i].height = raw.inputs[i].height /\ psbt.inputs[i].time = raw.inputs[i].time
             /\ SpentOutput(psbt.inputs[i]) = SpentOutput(raw.inputs[i])
  <2>1. IsWalletInput(raw.inputs[i], policy) /\ psbt.inputs[i] = WithCoordinates(raw.inputs[i], policy, 0)
    BY <1>3, <1>5, <1>6 DEF IsWalletPsbt
  <2> QED
    BY <1>3, <2>1, InputCompleted
<1>8. ASSUME NEW o \in DOMAIN psbt.outputs
      PROVE  OutputAt(psbt.outputs[o], policy) /\ psbt.outputs[o].amount = raw.outputs[o].amount
  <2>1. IsWalletOutput(raw.outputs[o], policy) /\ psbt.outputs[o] = WithCoordinates(raw.outputs[o], policy, 0)
    BY <1>3, <1>5, <1>6 DEF IsWalletPsbt
  <2> QED
    BY <1>3, <2>1, OutputCompleted
<1>9. ASSUME NEW i \in DOMAIN psbt.inputs
      PROVE  /\ InputOk(psbt, psbt.inputs[i]) /\ ~InputPanics(psbt, psbt.inputs[i])
             /\ AccountOf(psbt, psbt.inputs[i]) = policy
             /\ SpentOutput(psbt.inputs[i]).script = ToScript(policy, psbt.inputs[i].coords)
             /\ SegwitVersion(policy) # "taproot" => ScriptCode(psbt.inputs[i]) # None
  <2>1. PICK in : in = psbt.inputs[i]
    OBVIOUS
  <2>2. PICK at \in Coordinates : InputAt(in, policy, at)
    BY <1>7, <2>1
  <2>3. IsInput(in)
    BY <2>1 DEF IsPsbt
  <2>4. InputAt(in, w.policy, at) /\ GetAccounts(psbt)[1] = w.policy /\ Len(GetAccounts(psbt)) = 1
    BY <1>2, <1>4, <2>2
  <2>5. /\ InputOk(psbt, in) /\ ~InputPanics(psbt, in)
        /\ AccountOf(psbt, in) = w.policy
        /\ SpentOutput(in).script = ToScript(w.policy, in.coords)
        /\ SegwitVersion(w.policy) # "taproot" => ScriptCode(in) # None
    BY <2>3, <2>4, InputAccepted
  <2> QED
    BY <1>2, <2>1, <2>5
<1>10. ASSUME NEW o \in DOMAIN psbt.outputs
       PROVE  /\ OutputOk(psbt, psbt.outputs[o])
              /\ ~IsInternal(psbt.outputs[o]) => HasAddress(psbt.outputs[o].script)
              /\ IsInternal(psbt.outputs[o]) =>
                   psbt.outputs[o].script = ToScript(AccountOf(psbt, psbt.outputs[o]), psbt.outputs[o].coords)
  <2>1. PICK output : output = psbt.outputs[o]
    OBVIOUS
  <2>2. OutputAt(output, w.policy) /\ GetAccounts(psbt)[1] = w.policy /\ Len(GetAccounts(psbt)) = 1
    BY <1>2, <1>4, <1>8, <2>1
  <2>3. /\ OutputOk(psbt, output)
        /\ ~IsInternal(output) => HasAddress(output.script)
        /\ IsInternal(output) => output.script = ToScript(AccountOf(psbt, output), output.coords)
    BY <2>2, OutputAccepted
  <2> QED
    BY <2>1, <2>3
<1>11. OutputsTotal(psbt) <= InputsTotal(psbt)
  <2>1. InputAmounts(psbt) = InputAmounts(raw)
    BY <1>6, <1>7 DEF InputAmounts
  <2>2. OutputAmounts(psbt) = OutputAmounts(raw)
    BY <1>6, <1>8 DEF OutputAmounts
  <2>3. OutputsTotal(raw) <= InputsTotal(raw)
    BY <1>3 DEF IsWalletPsbt
  <2> QED
    BY <2>1, <2>2, <2>3 DEF OutputsTotal, InputsTotal
<1>12. Analysis(psbt) = "ok"
  <2> DEFINE FirstBad == {i \in DOMAIN psbt.inputs :
                            InputPanics(psbt, psbt.inputs[i]) \/ ~InputOk(psbt, psbt.inputs[i])}
             HeaderOk == /\ \A a \in DOMAIN GetAccounts(psbt) :
                              /\ AccountName(psbt, a - 1) \in ValidNames \cup {None}
                              /\ AccountPor(psbt, a - 1) # None
                         /\ IdentityKeysOk(psbt)
                         /\ \A i \in DOMAIN psbt.inputs : psbt.inputs[i].coords # None
             OutputsOk == /\ \A o \in DOMAIN psbt.outputs : OutputOk(psbt, psbt.outputs[o])
                          /\ OutputsTotal(psbt) <= InputsTotal(psbt)
             Panics == InputPanics(psbt, psbt.inputs[Min(FirstBad)])
  <2>1. Analysis(psbt) = IF ~HeaderOk THEN "error"
                         ELSE IF FirstBad # {} THEN IF Panics THEN "panic" ELSE "error"
                         ELSE IF OutputsOk THEN "ok" ELSE "error"
    BY DEF Analysis
  <2>2. \A a \in 1 .. 1 : a - 1 = 0
    OBVIOUS
  <2>3. WalletPor(w) # None
    BY NoneAssumption
  <2>4. HeaderOk
    BY <1>3, <1>4, <1>9, <2>2, <2>3 DEF InputOk
  <2>5. FirstBad = {}
    BY <1>9
  <2>6. OutputsOk
    BY <1>10, <1>11
  <2> HIDE DEF FirstBad, HeaderOk, OutputsOk, Panics
  <2> QED
    BY <2>1, <2>4, <2>5, <2>6
<1>13. Displayable(psbt)
  BY <1>10 DEF Displayable
<1>14. HasUnsignedTx(psbt)
  <2>1. Required(psbt, "height") = Required(raw, "height") /\ Required(psbt, "time") = Required(raw, "time")
    BY <1>6, <1>7 DEF Required
  <2>2. LockTimesOk(psbt)
    BY <1>3, <2>1 DEF IsWalletPsbt, LockTimesOk
  <2>3. \A i \in DOMAIN psbt.inputs : psbt.inputs[i].prev # None /\ psbt.inputs[i].vout # None
    BY <1>7 DEF InputAt
  <2> QED
    BY <2>2, <2>3 DEF HasUnsignedTx
<1>15. Verified(psbt)
  <2>1. PorOk(psbt, 0)
    BY <1>2, <1>3, <1>4 DEF PorOk, NameOrEmpty, WalletPor
  <2>2. \A a \in DOMAIN GetAccounts(psbt) : PorOk(psbt, a - 1)
    <3>1. \A a \in 1 .. 1 : a - 1 = 0
      OBVIOUS
    <3> QED
      BY <1>4, <2>1, <3>1
  <2> QED
    BY <1>9, <1>10, <2>2 DEF Verified, External
<1>16. SegwitVersion(policy) = "taproot" => HasPrevouts(psbt)
  BY <1>7 DEF InputAt, HasPrevouts
<1>17. ASSUME NEW p \in DOMAIN policy.places, policy.places[p].musig
       PROVE  HasPrevouts(psbt) /\ Len(policy.places[p].keys) <= MaxPubkeysPerMusig
  <2>1. policy.wrap = "tr" /\ Len(policy.places[p].keys) <= MaxPubkeysPerMusig
    BY <1>3, <1>17 DEF IsWalletPolicy
  <2> QED
    BY <1>16, <2>1 DEF SegwitVersion
<1>18. ASSUME NEW i \in DOMAIN psbt.inputs, NEW p \in DOMAIN policy.places, policy.places[p].musig,
              NEW keys, keys = policy.places[p].keys
       PROVE  \/ \A n \in DOMAIN keys : policy.keys[keys[n]] \in psbt.inputs[i].nonces
              \/ \A n \in DOMAIN keys : policy.keys[keys[n]] \notin psbt.inputs[i].nonces
  BY <1>7, <1>18 DEF InputAt
<1> QED
  BY <1>9, <1>12, <1>13, <1>14, <1>15, <1>16, <1>17, <1>18 DEF Signable

-----------------------------------------------------------------------------
\* Nothing refuses a wallet's own PSBT, and the verification task has not failed.
HonestInv ==
  /\ HonestPsbtSigned
  /\ pc \in Reviewing => (req.psbt \in HonestPsbts => task # Failed)

\* The key that the pass is at is one of its place.
LEMMA CurrentPlace ==
  ASSUME IsPsbt(req.psbt), Analysis(req.psbt) = "ok", ToVisit # {}
  PROVE  /\ Current.input \in DOMAIN req.psbt.inputs
         /\ Current.place \in DOMAIN OwnAccount.places
         /\ Current.nth \in DOMAIN OwnAccount.places[Current.place].keys
         /\ Current.key = OwnAccount.keys[OwnAccount.places[Current.place].keys[Current.nth]]
<1>1. \A v \in ToVisit : v.input \in Nat /\ v.place \in Nat /\ v.nth \in Nat
  BY VisitsFacts DEF ToVisit
<1>2. Current \in ToVisit
  BY <1>1, FirstOfFacts DEF Current
<1>3. PICK v : v = Current
  OBVIOUS
<1>4. v \in Visits(req.psbt, Seeds)
  BY <1>2, <1>3 DEF ToVisit
<1>5. IsVisit(req.psbt, v)
  BY <1>4, VisitsAre
<1>60. PICK i \in DOMAIN req.psbt.inputs : \E policy :
        /\ policy = AccountOf(req.psbt, req.psbt.inputs[i])
        /\ \E p \in DOMAIN policy.places : \E n \in DOMAIN policy.places[p].keys : v = VisitOf(policy, i, p, n)
  BY <1>5 DEF IsVisit
<1>6. PICK policy :
        /\ policy = AccountOf(req.psbt, req.psbt.inputs[i])
        /\ \E p \in DOMAIN policy.places : \E n \in DOMAIN policy.places[p].keys : v = VisitOf(policy, i, p, n)
  BY <1>60
<1>7. PICK p \in DOMAIN policy.places : \E n \in DOMAIN policy.places[p].keys : v = VisitOf(policy, i, p, n)
  BY <1>6
<1>8. PICK n \in DOMAIN policy.places[p].keys : v = VisitOf(policy, i, p, n)
  BY <1>7
<1>9. v.input = i /\ v.place = p /\ v.nth = n /\ v.key = policy.keys[policy.places[p].keys[n]]
  BY <1>8 DEF VisitOf
<1>10. OwnAccount = policy
  BY <1>3, <1>6, <1>9 DEF OwnAccount
<1> QED
  BY <1>3, <1>6, <1>7, <1>8, <1>9, <1>10

\* A handler that ends otherwise than with an error, or for a PSBT that is no wallet's.
LEMMA HonestEnd ==
  ASSUME NEW how, End(how),
         how \in {"error", "panic"} => req'.op # "sign" \/ req'.psbt \notin HonestPsbts
  PROVE  HonestInv'
<1>1. pc' = "idle" /\ reply' = how
  BY DEF End
<1> QED
  BY <1>1 DEF HonestInv, HonestPsbtSigned, Reviewing

LEMMA HonestStep ==
  ASSUME pc' # "idle", pc' \in Reviewing => (req'.psbt \in HonestPsbts => task' # Failed)
  PROVE  HonestInv'
BY DEF HonestInv, HonestPsbtSigned

LEMMA HonestRequests ==
  ASSUME GetMasterFingerprint \/ GetExtendedPubkey \/ RegisterAccount \/ RegisterIdentityKey \/ GetAddress
  PROVE  HonestInv'
<1>1. req'.op # "sign" /\ ((\E how : End(how)) \/ pc' \in {"confirm", "respond"})
  <2>1. CASE GetMasterFingerprint
    BY <2>1 DEF GetMasterFingerprint, Accept, Proceed, Goto
  <2>2. CASE GetExtendedPubkey
    BY <2>2 DEF GetExtendedPubkey, Accept, Proceed, Goto
  <2>3. CASE RegisterAccount
    BY <2>3 DEF RegisterAccount, Accept, Proceed, Goto
  <2>4. CASE RegisterIdentityKey
    BY <2>4 DEF RegisterIdentityKey, Accept, Proceed, Goto
  <2>5. CASE GetAddress
    BY <2>5 DEF GetAddress, Accept, Proceed, Goto
  <2> QED
    BY <2>1, <2>2, <2>3, <2>4, <2>5
<1>2. CASE \E how : End(how)
  BY <1>1, <1>2, HonestEnd
<1>3. CASE pc' \in {"confirm", "respond"}
  BY <1>3, HonestStep DEF Reviewing
<1> QED
  BY <1>1, <1>2, <1>3

\* The screens before the review.
LEMMA HonestScreens ==
  ASSUME NEW psbt, req'.psbt = psbt, psbt \in HonestPsbts => Signable(psbt) /\ task # Failed,
         ScreenAfterUnverified(psbt) \/ ScreenAfterWarnings(psbt)
  PROVE  HonestInv'
<1>1. CASE WarnHighFee(psbt) /\ ScreenAfterUnverified(psbt)
  BY <1>1, HonestStep DEF ScreenAfterUnverified, Goto, volatile
<1>2. CASE ScreenAfterWarnings(psbt)
  <2>1. CASE Displayable(psbt)
    BY <1>2, <2>1, HonestStep DEF ScreenAfterWarnings, Goto, volatile
  <2>2. CASE ~Displayable(psbt)
    <3>1. End("error") /\ psbt \notin HonestPsbts
      BY <1>2, <2>2 DEF ScreenAfterWarnings, Signable
    <3> QED
      BY <3>1, HonestEnd
  <2> QED
    BY <2>1, <2>2
<1> QED
  BY <1>1, <1>2 DEF ScreenAfterUnverified

LEMMA HonestSign ==
  ASSUME SignInv, SignPsbt
  PROVE  HonestInv'
<1>1. PICK r \in Requests :
        /\ r.op = "sign" /\ pc = "idle" /\ req' = r
        /\ IF Analysis(r.psbt) # "ok" THEN End(Analysis(r.psbt))
           ELSE IF WarnUnverified(r.psbt) THEN Goto("unverified") /\ UNCHANGED volatile
           ELSE ScreenAfterUnverified(r.psbt)
  BY DEF SignPsbt, Accept
<1>2. r.psbt \in HonestPsbts => Signable(r.psbt)
  BY <1>1, PsbtAssumption, HonestSignable
<1>3. task = 0 /\ task # Failed
  BY <1>1 DEF SignInv, TaskInv, Failed
<1>4. CASE Analysis(r.psbt) # "ok"
  BY <1>1, <1>2, <1>4, HonestEnd DEF Signable
<1>5. CASE Analysis(r.psbt) = "ok" /\ WarnUnverified(r.psbt)
  BY <1>1, <1>3, <1>5, HonestStep DEF Goto, volatile
<1>6. CASE Analysis(r.psbt) = "ok" /\ ~WarnUnverified(r.psbt)
  BY <1>1, <1>2, <1>3, <1>6, HonestScreens
<1> QED
  BY <1>4, <1>5, <1>6

\* The PSBT in hand is signable if a wallet made it.
LEMMA HonestInHand ==
  ASSUME SignInv, pc \in Reviewing \cup Passing
  PROVE  /\ IsPsbt(req.psbt) /\ Analysis(req.psbt) = "ok"
         /\ req.psbt \in HonestPsbts => Signable(req.psbt)
<1>1. req \in Requests /\ req.op = "sign" /\ Analysis(req.psbt) = "ok"
  BY DEF SignInv, RequestInv
<1>2. IsPsbt(req.psbt)
  BY <1>1, PsbtAssumption
<1> QED
  BY <1>1, <1>2, HonestSignable

LEMMA HonestReview ==
  ASSUME SignInv, HonestInv, ContinueUnverified \/ ContinueHighFee \/ ApproveTransaction
  PROVE  HonestInv'
<1>1. pc \in Reviewing /\ req' = req
  BY DEF ContinueUnverified, ContinueHighFee, ApproveTransaction, Reviewing
<1>2. req.psbt \in HonestPsbts => Signable(req.psbt) /\ task # Failed
  BY <1>1, HonestInHand DEF HonestInv
<1>3. CASE ContinueUnverified \/ ContinueHighFee
  BY <1>1, <1>2, <1>3, HonestScreens DEF ContinueUnverified, ContinueHighFee
<1>4. CASE ApproveTransaction
  BY <1>1, <1>2, <1>4, HonestStep DEF ApproveTransaction
<1> QED
  BY <1>3, <1>4

LEMMA HonestVerify ==
  ASSUME SignInv, HonestInv, VerifyStep
  PROVE  HonestInv'
<1>1. /\ pc \in Reviewing /\ task # Failed /\ task < ChecksToDo(req.psbt) /\ UNCHANGED <<pc, req>>
      /\ task' = IF CheckHolds(req.psbt, task + 1) THEN task + 1 ELSE Failed
  BY DEF VerifyStep, Reviewing
<1>2. /\ IsPsbt(req.psbt) /\ Analysis(req.psbt) = "ok"
      /\ req.psbt \in HonestPsbts => Signable(req.psbt)
  BY <1>1, HonestInHand
<1>3. ASSUME req.psbt \in HonestPsbts PROVE task' # Failed
  <2>1. ChecksToDo(req.psbt) \in Nat /\ \A n \in 1 .. ChecksToDo(req.psbt) : CheckHolds(req.psbt, n)
    BY <1>2, <1>3, ChecksFacts DEF Signable
  <2>2. task \in Nat
    BY <1>1 DEF SignInv, TaskInv
  <2>3. task + 1 \in 1 .. ChecksToDo(req.psbt)
    BY <1>1, <2>1, <2>2
  <2>4. task' = task + 1
    BY <1>1, <2>1, <2>3
  <2> QED
    BY <2>2, <2>4 DEF Failed
<1>4. pc' # "idle"
  BY <1>1 DEF Reviewing
<1> QED
  BY <1>1, <1>3, <1>4, HonestStep

LEMMA HonestAwait ==
  ASSUME SignInv, HonestInv, AwaitTask
  PROVE  HonestInv'
<1>1. pc = "await" /\ req' = req /\ pc \in Reviewing
  BY DEF AwaitTask, Reviewing
<1>2. CASE task = Failed /\ End("error")
  BY <1>1, <1>2, HonestEnd DEF HonestInv
<1>3. CASE ~ (task = Failed /\ End("error"))
  <2>1. pc' = "begin"
    BY <1>3 DEF AwaitTask, Goto
  <2> QED
    BY <2>1, HonestStep DEF Reviewing
<1> QED
  BY <1>2, <1>3

LEMMA HonestBegin ==
  ASSUME SignInv, BeginPass
  PROVE  HonestInv'
<1>1. pc = "begin" /\ req' = req /\ pc \in Passing
  BY DEF BeginPass, Passing
<1>2. CASE HasUnsignedTx(req.psbt)
  <2>1. pc' = "signing"
    BY <1>2 DEF BeginPass, Goto
  <2> QED
    BY <2>1, HonestStep DEF Reviewing
<1>3. CASE ~HasUnsignedTx(req.psbt)
  <2>1. End("error")
    BY <1>3 DEF BeginPass
  <2>2. req.psbt \notin HonestPsbts
    BY <1>1, <1>3, HonestInHand DEF Signable
  <2> QED
    BY <1>1, <2>1, <2>2, HonestEnd
<1> QED
  BY <1>2, <1>3

\* The visit of a key in a wallet's own PSBT has all that it needs, but for the session.
LEMMA HonestVisit ==
  ASSUME SignInv, AtVisit, req.psbt \in HonestPsbts
  PROVE  /\ SegwitVersion(OwnAccount) # "taproot" => ScriptCode(req.psbt.inputs[Current.input]) # None
         /\ SegwitVersion(OwnAccount) = "taproot" => HasPrevouts(req.psbt)
         /\ PlaceOf(req.psbt, Current).musig =>
              /\ HasPrevouts(req.psbt) /\ ~ (Len(PlaceOf(req.psbt, Current).keys) > MaxPubkeysPerMusig)
              /\ ~IsRound1 => AllNoncesThere(req.psbt, Current)
<1>1. pc \in Passing /\ ToVisit # {}
  BY DEF AtVisit, Passing
<1>2. IsPsbt(req.psbt) /\ Analysis(req.psbt) = "ok" /\ Signable(req.psbt)
  BY <1>1, HonestInHand
<1>3. PICK i, p, policy, keys :
        /\ i = Current.input /\ p = Current.place /\ policy = OwnAccount /\ keys = policy.places[p].keys
  OBVIOUS
<1>4. /\ i \in DOMAIN req.psbt.inputs /\ p \in DOMAIN policy.places /\ Current.nth \in DOMAIN keys
      /\ Current.key = policy.keys[keys[Current.nth]]
  BY <1>1, <1>2, <1>3, CurrentPlace
<1>5. policy = AccountOf(req.psbt, req.psbt.inputs[i])
  BY <1>3 DEF OwnAccount
<1>6. PlaceOf(req.psbt, Current) = policy.places[p]
  BY <1>3, <1>5 DEF PlaceOf
<1>7. /\ SegwitVersion(policy) # "taproot" => ScriptCode(req.psbt.inputs[i]) # None
      /\ SegwitVersion(policy) = "taproot" => HasPrevouts(req.psbt)
      /\ policy.places[p].musig =>
           /\ HasPrevouts(req.psbt) /\ Len(keys) <= MaxPubkeysPerMusig
           /\ \/ \A n \in DOMAIN keys : policy.keys[keys[n]] \in req.psbt.inputs[i].nonces
              \/ \A n \in DOMAIN keys : policy.keys[keys[n]] \notin req.psbt.inputs[i].nonces
  BY <1>2, <1>3, <1>4, <1>5 DEF Signable
<1>8. Len(keys) \in Nat
  <2>1. i \in DOMAIN req.psbt.inputs /\ IsPolicy(policy)
    <3>1. req.psbt.inputs[i].coords.account + 1 \in DOMAIN GetAccounts(req.psbt)
      BY <1>2, <1>4, FieldAccounts
    <3> QED
      BY <1>2, <1>4, <1>5, <3>1, AccountsFacts DEF AccountOf
  <2> QED
    BY <1>3, <1>4, <2>1, ListFacts DEF IsPolicy
<1>9. ASSUME PlaceOf(req.psbt, Current).musig, ~IsRound1 PROVE AllNoncesThere(req.psbt, Current)
  <2>1. Current.key \in req.psbt.inputs[i].nonces
    BY <1>3, <1>9 DEF IsRound1, HasNonceOf
  <2>2. \A n \in DOMAIN keys : policy.keys[keys[n]] \in req.psbt.inputs[i].nonces
    BY <1>4, <1>6, <1>7, <1>9, <2>1
  <2> QED
    BY <1>3, <1>5, <1>6, <2>2 DEF AllNoncesThere, HasNonceOf
<1> QED
  BY <1>3, <1>6, <1>7, <1>8, <1>9, BoundsAssumption

LEMMA HonestSignature ==
  ASSUME SignInv, SignInputEcdsa \/ SignInputSchnorr \/ ProducePubnonce \/ SignSighashMusig
  PROVE  HonestInv'
<1>1. AtVisit /\ req' = req
  BY DEF SignInputEcdsa, SignInputSchnorr, ProducePubnonce, SignSighashMusig
<1>2. CASE pc' = "signing"
  BY <1>2, HonestStep DEF Reviewing
<1>3. CASE End("no_session")
  BY <1>3, HonestEnd
<1>4. CASE pc' # "signing" /\ ~End("no_session")
  <2>1. (End("error") \/ End("panic")) /\ req.psbt \notin HonestPsbts
    <3>1. CASE SignInputEcdsa
      BY <1>1, <1>4, <3>1, HonestVisit DEF SignInputEcdsa, Produce
    <3>2. CASE SignInputSchnorr
      BY <1>1, <1>4, <3>2, HonestVisit DEF SignInputSchnorr, Produce
    <3>3. CASE ProducePubnonce
      BY <1>1, <1>4, <3>3, HonestVisit DEF ProducePubnonce, Produce
    <3>4. CASE SignSighashMusig
      BY <1>1, <1>4, <3>4, HonestVisit DEF SignSighashMusig, Produce
    <3> QED
      BY <3>1, <3>2, <3>3, <3>4
  <2> QED
    BY <1>1, <2>1, HonestEnd
<1> QED
  BY <1>2, <1>3, <1>4

LEMMA HonestInvNext == SignInv /\ HonestInv /\ [Next]_vars => HonestInv'
<1> SUFFICES ASSUME SignInv, HonestInv, [Next]_vars PROVE HonestInv'
  OBVIOUS
<1>1. CASE UNCHANGED vars
  BY <1>1 DEF vars, HonestInv, HonestPsbtSigned
<1>2. CASE Reject \/ PowerLoss
  BY <1>2, HonestEnd DEF Reject, PowerLoss
<1>3. CASE Respond
  BY <1>3 DEF Respond, HonestInv, HonestPsbtSigned, Reviewing
<1>4. CASE Confirm \/ Popping \/ Popped \/ EndPass \/ CommitId \/ CommitRand
  <2>1. pc' # "idle" /\ pc' \notin Reviewing
    BY <1>4 DEF Confirm, Popping, Popped, EndPass, CommitId, CommitRand, Goto, Reviewing
  <2> QED
    BY <2>1, HonestStep
<1> QED
  BY <1>1, <1>2, <1>3, <1>4, HonestRequests, HonestSign, HonestReview, HonestVerify, HonestAwait,
     HonestBegin, HonestSignature DEF Next

\* However screens, verification, signing and losses of power interleave, a PSBT that
\* prepare_psbt has completed for an account that its wallet registered is never refused:
\* not by analyze_transaction, not by verify_transaction, not by sign_all_inputs.
THEOREM HonestSigned == Spec => []HonestPsbtSigned
<1>1. Init => HonestInv
  BY DEF Init, HonestInv, HonestPsbtSigned, Reviewing
<1>2. HonestInv => HonestPsbtSigned
  BY DEF HonestInv
<1> QED
  BY <1>1, <1>2, HostInvInit, HostInvNext, SignInvInit, SignInvNext, HonestInvNext, PTL DEF Spec
=============================================================================
