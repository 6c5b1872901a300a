------------------------------- MODULE BtcApp -------------------------------
(***************************************************************************)
(* The Bitcoin V-App (apps/bitcoin/app): one request at a time, each with  *)
(* the screens that its user answers, the verification of a PSBT in a      *)
(* background task, the signing pass with its MuSig2 session in two        *)
(* storage slots, and a loss of power at any point.                        *)
(*                                                                         *)
(* The host sends any request of Requests that uses only proofs and keys   *)
(* that it was given. approved, given and used are history: what the user  *)
(* confirmed, what was answered, and which secret nonce signed what.       *)
(***************************************************************************)
EXTENDS BtcPsbt

CONSTANTS
  Requests,             \* what the host may ask
  StandardSeed,         \* the device's seed
  Enrolled,             \* registrations that the user made before
  Stored,               \* what earlier signing passes may have left in the slots
  MaxPath,              \* longest derivation path
  MaxIndex,             \* address indices that occur
  Wallets,              \* a wallet's own PSBTs: [psbt, policy, name], not prepared yet
  MaxRequests, MaxCrashes

ASSUME BoundsAssumption ==
  MaxRequests \in Nat /\ MaxCrashes \in Nat /\ MaxPath \in Nat /\ MaxPubkeysPerMusig \in Nat

Zeros == <<"zeros">>
NoRand == [root |-> -1, for |-> Zeros]    \* a cleared slot for the randomness of a session

Coordinates == [change : BOOLEAN, index : 0 .. MaxIndex]

\* A session that was stored has its own randomness, older than that of this run.
ASSUME StoredAssumption ==
  \A s \in Stored :
    /\ DOMAIN s = {"seed", "id", "rand"} /\ s.rand.root \in {-1, 0}
    /\ s.id # Zeros => s.rand.root = 0

ASSUME EnrolledAssumption == \A e \in Enrolled : e.kind \in {"account", "identity"}

ASSUME CoordinatesAssumption == \A r \in Requests : r.op = "address" => r.coords \in Coordinates

\* What the parsers make of a PSBT, whatever the host put in it.
IsCoordinates(c) == c.account \in Nat /\ c.change \in BOOLEAN /\ c.index \in 0 .. MaxIndex

IsList(s) == s \in Seq(ToSet(s))

IsInput(in) ==
  /\ in.coords # None => IsCoordinates(in.coords)
  /\ in.witness # None => in.witness.amount \in Nat
  /\ in.vout # None => in.vout \in Nat
  /\ in.tx # None => IsList(in.tx.outs) /\ \A k \in DOMAIN in.tx.outs : in.tx.outs[k].amount \in Nat

IsOutput(output) ==
  /\ output.coords # None => IsCoordinates(output.coords)
  /\ output.amount # None => output.amount \in Nat
  /\ IsList(output.proofs)

IsPolicy(policy) ==
  /\ policy # None /\ IsList(policy.places)
  /\ \A p \in DOMAIN policy.places : IsList(policy.places[p].keys)

IsPsbt(psbt) ==
  /\ IsFiniteSet(DOMAIN psbt.global)
  /\ \A f \in DOMAIN psbt.global : f[1] = "account" => IsPolicy(psbt.global[f])
  /\ IsList(psbt.inputs) /\ \A i \in DOMAIN psbt.inputs : IsInput(psbt.inputs[i])
  /\ IsList(psbt.outputs) /\ \A o \in DOMAIN psbt.outputs : IsOutput(psbt.outputs[o])

ASSUME PsbtAssumption == \A r \in Requests : r.op = "sign" => IsPsbt(r.psbt)

-----------------------------------------------------------------------------
\* What prepare_psbt is given: a PSBT of a wallet for its registered account. Nothing of it
\* says to which account or coordinates an input or output belongs.

\* A policy of a kind that to_script has a script for, which sh(wsh(...)) is not. Key
\* expressions with a key in common take the same two steps, or others, as BIP-388 demands.
IsWalletPolicy(policy) ==
  /\ IsPolicy(policy)
  /\ policy.wrap \in {"pkh", "sh", "wpkh", "wsh", "tr"}
  /\ \A p \in DOMAIN policy.places :
       LET place == policy.places[p] IN
       /\ place.num1 # place.num2
       /\ place.musig => policy.wrap = "tr" /\ Len(place.keys) <= MaxPubkeysPerMusig
       /\ \A q \in DOMAIN policy.places :
            LET other == policy.places[q] IN
            Origins(policy, place) \cap Origins(policy, other) # {} =>
              \/ place.num1 = other.num1 /\ place.num2 = other.num2
              \/ {place.num1, place.num2} \cap {other.num1, other.num2} = {}

\* The derivations of a script of the account: of any keys that the wallet knows.
DerivationsAt(policy, at) ==
  UNION {{[origin |-> k, steps |-> <<IF at.change THEN policy.places[p].num2 ELSE policy.places[p].num1, at.index>>] :
            k \in Origins(policy, policy.places[p])} : p \in DOMAIN policy.places}

IsOwn(field, script, policy, at) ==
  /\ field.derivations # {} /\ field.derivations \subseteq DerivationsAt(policy, at)
  /\ script = ToScript(policy, at)

\* The UTXO fields and scripts are those of the kind of account; public nonces are those
\* of all cosigners, or of none.
IsWalletInput(in, policy) ==
  /\ DOMAIN in = {"coords", "prev", "vout", "witness", "tx", "redeem", "script", "nonces", "height",
                  "time", "derivations"}
  /\ in.coords = None /\ in.prev # None /\ in.vout # None
  /\ \E at \in Coordinates :
       /\ IsOwn(in, SpentOutput(in).script, policy, at)
       /\ in.redeem = IF policy.wrap = "sh" THEN Inner(policy, at) ELSE None
       /\ in.script = IF policy.wrap = "wsh" THEN Inner(policy, at) ELSE None
  /\ IF SegwitVersion(policy) = "legacy"
     THEN in.witness = None /\ in.tx # None /\ in.vout < Len(in.tx.outs)
     ELSE in.witness # None
  /\ in.tx # None => in.prev = in.tx.id
  /\ \A p \in DOMAIN policy.places :
       LET keys == policy.places[p].keys IN
       policy.places[p].musig =>
         \/ \A n \in DOMAIN keys : policy.keys[keys[n]] \in in.nonces
         \/ \A n \in DOMAIN keys : policy.keys[keys[n]] \notin in.nonces

IsWalletOutput(output, policy) ==
  /\ DOMAIN output = {"coords", "amount", "script", "proofs", "derivations"}
  /\ output.coords = None /\ output.amount # None /\ output.script # None
  /\ \/ \E at \in Coordinates : IsOwn(output, output.script, policy, at)
     \/ /\ \A d \in output.derivations, p \in DOMAIN policy.places :
             d.origin \notin Origins(policy, policy.places[p])
        /\ HasAddress(output.script) /\ ProofsOk(output)

IsWalletPsbt(psbt, policy) ==
  /\ IsFiniteSet(DOMAIN psbt.global)
  /\ \A f \in DOMAIN psbt.global :
       /\ f[1] = "idkey"
       /\ psbt.global[f].por = ProofOfRegistration(RegistrationId("identity", psbt.global[f].name, f[2]))
  /\ \A i \in DOMAIN psbt.inputs : IsWalletInput(psbt.inputs[i], policy)
  /\ \A o \in DOMAIN psbt.outputs : IsWalletOutput(psbt.outputs[o], policy)
  /\ OutputsTotal(psbt) <= InputsTotal(psbt)
  /\ LockTimesOk(psbt)

ASSUME WalletAssumption ==
  \A w \in Wallets :
    /\ IsWalletPolicy(w.policy) /\ IsWalletPsbt(w.psbt, w.policy)
    /\ w.name \in ValidNames \ {None}

WalletPor(w) == ProofOfRegistration(RegistrationId("account", w.name, w.policy))

\* None is none of the values that a field may have instead.
ASSUME NoneAssumption ==
  /\ None \notin [account : {0}, change : BOOLEAN, index : 0 .. MaxIndex]
  /\ \A w \in Wallets :
       /\ WalletPor(w) # None
       /\ \A at \in Coordinates :
            Inner(w.policy, at) # None /\ ToScript(w.policy, at) # None

Prepared(w) == PreparePsbt(w.psbt, w.policy, w.name, WalletPor(w))

HonestPsbts == {Prepared(w) : w \in Wallets}

-----------------------------------------------------------------------------

VARIABLES
  slots,      \* storage: [seed, id, rand], Zeros for an empty slot
  pc, req,    \* what the handler waits for, and its request
  task,       \* checks that the verification task has done, or Failed
  visit,      \* the keys that the signing pass has visited
  musig,      \* MusigSigningState: [round1, round2], and the session being popped
  out,        \* the response being made
  reply,      \* how the last request ended
  approved, given, used,
  count       \* [seeds, rands, requests, crashes, torn]

volatile == <<task, visit, musig, out>>
vars == <<slots, pc, req, task, visit, musig, out, reply, approved, given, used, count>>

Failed == -1

NoSession == [id |-> Zeros, rand |-> NoRand]

Seeds == [standard |-> StandardSeed, resident |-> slots.seed]

-----------------------------------------------------------------------------
Registration(type, name, object) == [kind |-> type, name |-> name, object |-> object]

Proof(r) == [kind |-> "por", proof |-> ProofOfRegistration(RegistrationId(r.kind, r.name, r.object))]

Init ==
  /\ slots \in Stored
  /\ pc = "idle" /\ req = [op |-> "none"]
  /\ task = 0 /\ visit = {}
  /\ musig = [round1 |-> NoSession, round2 |-> NoSession, popped |-> NoSession]
  /\ out = {} /\ reply = "none"
  /\ approved = Enrolled
  /\ given = {Proof(r) : r \in Enrolled}
  /\ used = {}
  /\ count = [seeds |-> IF slots.seed = Zeros THEN 0 ELSE 1, rands |-> 0, requests |-> 0, crashes |-> 0,
              torn |-> 0]

\* What a handler leaves behind when it is over.
Forget ==
  /\ task' = 0 /\ visit' = {} /\ out' = {}
  /\ musig' = [round1 |-> NoSession, round2 |-> NoSession, popped |-> NoSession]

\* The handler returns an error, or panics: nothing volatile survives.
End(how) ==
  /\ pc' = "idle" /\ reply' = how
  /\ Forget
  /\ UNCHANGED <<approved, given, used>>

SeedSlotsRenewed == [slots EXCEPT !.seed = <<"seed", count.seeds + 1>>]

\* get_or_init_resident_seed: the slot is written before the seed is used. A new seed's
\* fingerprint is not that of the standard tree.
SeedSlots == IF slots.seed = Zeros THEN [slots EXCEPT !.seed = <<"seed", count.seeds + 1>>]
             ELSE slots

SeedCount == IF slots.seed = Zeros THEN count.seeds + 1 ELSE count.seeds

Accept(r) ==
  /\ pc = "idle"
  /\ count.requests < MaxRequests
  /\ req' = r

\* Whether the request goes through needs no seed, or has one by now.
Take(seeds) == count' = [count EXCEPT !.requests = @ + 1, !.seeds = seeds]

\* What the host can put in a request: proofs that it was given, or none of the V-App's.
KnownProof(por) == por = <<"junk">> \/ [kind |-> "por", proof |-> por] \in given

KnownKeys(policy) ==
  \A k \in DOMAIN policy.keys :
    policy.keys[k].tree = "resident" =>
      [kind |-> "xpub", key |-> <<"resident", policy.keys[k].seed>>] \in given

Goto(place) == pc' = place /\ UNCHANGED <<reply, approved, given, used>>

-----------------------------------------------------------------------------
\* The requests that have at most one screen.

Xpub(r, seeds) == <<r.tree, seeds[r.tree]>>

IdentitySignature(type, object) == [kind |-> "idsig", message |-> IdentityMessage(type, object)]

\* What the response of such a request holds.
Result(r, seeds) ==
  CASE r.op = "fingerprint" -> {}
    [] r.op = "xpub" -> {[kind |-> "xpub", key |-> Xpub(r, seeds)]}
                          \cup (IF r.identity THEN {IdentitySignature("XPUB", Xpub(r, seeds))} ELSE {})
    [] r.op = "account" -> {Proof(Registration("account", r.name, r.policy))}
    [] r.op = "identity" -> {Proof(Registration("identity", r.name, r.key))}
    [] r.op = "address" -> {[kind |-> "address", script |-> ToScript(r.policy, r.coords)]}
         \cup (IF r.identity THEN {IdentitySignature("OUTPUT", ToScript(r.policy, r.coords))} ELSE {})

\* The answer is ready, or first a screen is shown.
Proceed(r, screen, seeds) ==
  /\ Goto(IF screen THEN "confirm" ELSE "respond")
  /\ out' = IF screen THEN {} ELSE Result(r, seeds)
  /\ UNCHANGED <<task, visit, musig>>

GetMasterFingerprint ==
  \E r \in {q \in Requests : q.op = "fingerprint"} :
    /\ Accept(r)
    /\ IF r.tree = "resident" THEN slots' = SeedSlots /\ Take(SeedCount)
       ELSE UNCHANGED slots /\ Take(count.seeds)
    /\ Proceed(r, FALSE, Seeds)

\* Identity signatures belong to the standard tree.
GetExtendedPubkey ==
  \E r \in {q \in Requests : q.op = "xpub"} :
    /\ Accept(r)
    /\ IF r.steps > MaxPath \/ (r.identity /\ r.tree # "standard")
       THEN UNCHANGED slots /\ Take(count.seeds) /\ End("error")
       ELSE /\ IF r.tree = "resident" THEN slots' = SeedSlots /\ Take(SeedCount)
               ELSE UNCHANGED slots /\ Take(count.seeds)
            /\ Proceed(r, r.display, [Seeds EXCEPT !.resident = SeedSlots.seed])

\* Identities must have their proofs, and signatures over keys must be right, before the
\* account is shown; both trees' fingerprints are taken for the labels.
IdentitiesOk(r) ==
  /\ \A i \in r.identities :
       i.por = ProofOfRegistration(RegistrationId("identity", i.name, i.key))
  /\ \A k \in DOMAIN r.signatures :
       r.signatures[k] # None =>
         r.signatures[k].sig = <<r.signatures[k].key, IdentityMessage("XPUB", r.policy.keys[k])>>

RegisterAccount ==
  \E r \in {q \in Requests : q.op = "account"} :
    /\ Accept(r)
    /\ KnownKeys(r.policy)
    /\ \A i \in r.identities : KnownProof(i.por)
    /\ IF IdentitiesOk(r)
       THEN slots' = SeedSlots /\ Take(SeedCount) /\ Proceed(r, TRUE, Seeds)
       ELSE UNCHANGED slots /\ Take(count.seeds) /\ End("error")

RegisterIdentityKey ==
  \E r \in {q \in Requests : q.op = "identity"} :
    /\ Accept(r)
    /\ UNCHANGED slots /\ Take(count.seeds)
    /\ IF r.name = "" THEN End("error") ELSE Proceed(r, TRUE, Seeds)

GetAddressUnproved ==
  \E r \in {q \in Requests : q.op = "address"} :
    /\ Accept(r)
    /\ KnownProof(r.por) /\ KnownKeys(r.policy)
    /\ UNCHANGED slots /\ Take(count.seeds)
    /\ Proceed(r, r.display, Seeds)

GetAddress ==
  \E r \in {q \in Requests : q.op = "address"} :
    /\ Accept(r)
    /\ KnownProof(r.por) /\ KnownKeys(r.policy)
    /\ UNCHANGED slots /\ Take(count.seeds)
    /\ IF r.por = ProofOfRegistration(RegistrationId("account", r.name, r.policy))
       THEN Proceed(r, r.display, Seeds)
       ELSE End("error")

\* The names of the signers of an account's keys, or what else is known of them.
KeyNames(r) ==
  [k \in DOMAIN r.policy.keys |->
     LET Signer == IF k \in DOMAIN r.signatures /\ r.signatures[k] # None
                   THEN {i \in r.identities : i.key = r.signatures[k].key} ELSE {}
     IN IF Signer # {} THEN (CHOOSE i \in Signer : TRUE).name
        ELSE KeyLabel(r.policy.keys[k], Seeds)]

Shown(r) ==
  CASE r.op = "account" ->
         [kind |-> "account", name |-> r.name, object |-> r.policy, labels |-> KeyNames(r)]
    [] r.op = "identity" -> Registration("identity", r.name, r.key)
    [] r.op = "address" -> [kind |-> "address", name |-> r.name, object |-> [script |-> ToScript(r.policy, r.coords)]]
    [] r.op = "xpub" -> [kind |-> "xpub", name |-> "", object |-> [xpub |-> Xpub(r, Seeds)]]

Confirm ==
  /\ pc = "confirm"
  /\ approved' = approved \cup {Shown(req)}
  /\ out' = Result(req, Seeds)
  /\ pc' = "respond"
  /\ UNCHANGED <<slots, req, task, visit, musig, reply, given, used, count>>

Reject ==
  /\ pc \in {"confirm", "unverified", "high_fee", "review"}
  /\ End("rejected")
  /\ UNCHANGED <<slots, req, count>>

Respond ==
  /\ pc = "respond"
  /\ given' = given \cup out
  /\ pc' = "idle" /\ reply' = "ok"
  /\ Forget
  /\ UNCHANGED <<slots, req, approved, used, count>>

-----------------------------------------------------------------------------
\* handle_sign_psbt up to the signing pass.

KnownPsbt(psbt) ==
  \A f \in DOMAIN psbt.global :
    /\ f[1] = "por" => KnownProof(psbt.global[f])
    /\ f[1] = "idkey" => KnownProof(psbt.global[f].por)
    /\ f[1] = "account" => KnownKeys(psbt.global[f])

ScreenAfterWarnings(psbt) ==
  IF Displayable(psbt) THEN Goto("review") /\ UNCHANGED volatile ELSE End("error")

ScreenAfterUnverified(psbt) ==
  IF WarnHighFee(psbt) THEN Goto("high_fee") /\ UNCHANGED volatile ELSE ScreenAfterWarnings(psbt)

SignPsbt ==
  \E r \in {q \in Requests : q.op = "sign"} :
    /\ Accept(r)
    /\ KnownPsbt(r.psbt)
    /\ UNCHANGED slots /\ Take(count.seeds)
    /\ IF Analysis(r.psbt) # "ok" THEN End(Analysis(r.psbt))
       ELSE IF WarnUnverified(r.psbt) THEN Goto("unverified") /\ UNCHANGED volatile
       ELSE ScreenAfterUnverified(r.psbt)

ContinueUnverified ==
  /\ pc = "unverified"
  /\ ScreenAfterUnverified(req.psbt)
  /\ UNCHANGED <<slots, req, count>>

ContinueHighFee ==
  /\ pc = "high_fee"
  /\ ScreenAfterWarnings(req.psbt)
  /\ UNCHANGED <<slots, req, count>>

ApproveTransaction ==
  /\ pc = "review"
  /\ approved' = approved \cup {[kind |-> "tx", pairs |-> DisplayPairs(req.psbt)]}
  /\ pc' = "await"
  /\ UNCHANGED <<slots, req, task, visit, musig, out, reply, given, used, count>>

\* The verification task makes a step whenever the screens, or await_task, let it.
VerifyStep ==
  /\ pc \in {"unverified", "high_fee", "review", "await"}
  /\ task # Failed /\ task < ChecksToDo(req.psbt)
  /\ task' = IF CheckHolds(req.psbt, task + 1) THEN task + 1 ELSE Failed
  /\ UNCHANGED <<slots, pc, req, visit, musig, out, reply, approved, given, used, count>>

AwaitTask ==
  /\ pc = "await"
  /\ \/ task = Failed /\ End("error")
     \/ /\ task # Failed /\ task = ChecksToDo(req.psbt)
        /\ Goto("begin") /\ UNCHANGED volatile
  /\ UNCHANGED <<slots, req, count>>

\* sign_all_inputs needs the transaction, and both fingerprints.
BeginPass ==
  /\ pc = "begin"
  /\ IF HasUnsignedTx(req.psbt)
     THEN /\ slots' = SeedSlots /\ count' = [count EXCEPT !.seeds = SeedCount]
          /\ Goto("signing") /\ UNCHANGED volatile
     ELSE End("error") /\ UNCHANGED <<slots, count>>
  /\ UNCHANGED req

-----------------------------------------------------------------------------
\* The signing pass.

ToVisit == Visits(req.psbt, Seeds) \ visit

Current == FirstOf(ToVisit)

Session == SessionId(req.psbt, Current.input)

OwnAccount == AccountOf(req.psbt, req.psbt.inputs[Current.input])

AtVisit == pc = "signing" /\ ToVisit # {}

Produce(item) ==
  /\ out' = out \cup {item}
  /\ visit' = visit \cup {Current}
  /\ pc' = "signing"

Signature(kind, sighash) ==
  [kind |-> kind, key |-> Current.key, sighash |-> sighash, psbt |-> req.psbt,
   input |-> Current.input]

SignInputEcdsa ==
  /\ AtVisit /\ ~PlaceOf(req.psbt, Current).musig
  /\ SegwitVersion(OwnAccount) # "taproot"
  /\ IF ScriptCode(req.psbt.inputs[Current.input]) = None THEN End("error")
     ELSE /\ Produce(Signature("sig", SighashEcdsa(req.psbt, Current.input)))
          /\ UNCHANGED <<task, musig, reply, approved, given, used>>
  /\ UNCHANGED <<slots, req, count>>

SignInputSchnorr ==
  /\ AtVisit /\ ~PlaceOf(req.psbt, Current).musig
  /\ SegwitVersion(OwnAccount) = "taproot"
  /\ IF ~HasPrevouts(req.psbt) THEN End("panic")
     ELSE /\ Produce(Signature("sig", SighashTaproot(req.psbt, Current.input,
                                                     PlaceOf(req.psbt, Current))))
          /\ UNCHANGED <<task, musig, reply, approved, given, used>>
  /\ UNCHANGED <<slots, req, count>>

IsRound1 == ~HasNonceOf(req.psbt, Current, Current.key)

\* session_pop reads both slots, then clears the id, then the randomness.
MustPop ==
  /\ slots.id # Zeros /\ slots.id = Session
  /\ IsRound1 \/ musig.round2.id # Session

PoppingNothing ==
  /\ AtVisit /\ PlaceOf(req.psbt, Current).musig
  /\ IsRound1 \/ HasPrevouts(req.psbt)
  /\ MustPop
  /\ musig' = [musig EXCEPT !.round2 = [id |-> slots.id, rand |-> slots.rand]]
  /\ UNCHANGED <<slots, pc, req, task, visit, out, reply, approved, given, used, count>>

Popping ==
  /\ AtVisit /\ PlaceOf(req.psbt, Current).musig
  /\ Len(PlaceOf(req.psbt, Current).keys) <= MaxPubkeysPerMusig
  /\ IsRound1 \/ HasPrevouts(req.psbt)
  /\ MustPop
  /\ musig' = [musig EXCEPT !.popped = [id |-> slots.id, rand |-> slots.rand]]
  /\ slots' = [slots EXCEPT !.id = Zeros]
  /\ pc' = "popping"
  /\ UNCHANGED <<req, task, visit, out, reply, approved, given, used, count>>

Popped ==
  /\ pc = "popping"
  /\ slots' = [slots EXCEPT !.rand = NoRand]
  /\ musig' = IF IsRound1 THEN [musig EXCEPT !.popped = NoSession]
              ELSE [musig EXCEPT !.popped = NoSession, !.round2 = musig.popped]
  /\ pc' = "signing"
  /\ UNCHANGED <<req, task, visit, out, reply, approved, given, used, count>>

\* round1_initialize and produce_pubnonce. Fresh randomness is for one session id.
Fresh == musig.round1.id # Session

Round1Session ==
  IF Fresh THEN [id |-> Session, rand |-> [root |-> count.rands + 1, for |-> Session]]
  ELSE musig.round1

ProducePubnonce ==
  /\ AtVisit /\ PlaceOf(req.psbt, Current).musig /\ IsRound1
  /\ IF Len(PlaceOf(req.psbt, Current).keys) > MaxPubkeysPerMusig
     THEN End("error") /\ UNCHANGED count
     ELSE /\ ~MustPop
          /\ musig' = [musig EXCEPT !.round1 = Round1Session]
          /\ count' = [count EXCEPT !.rands = IF Fresh THEN @ + 1 ELSE @]
          /\ Produce([kind |-> "nonce", nonce |-> Nonce(req.psbt, Current, Round1Session.rand)])
          /\ UNCHANGED <<task, reply, approved, given, used>>
  /\ UNCHANGED <<slots, req>>

\* round2_initialize and sign_sighash_musig.
SignSighashMusig ==
  /\ AtVisit /\ PlaceOf(req.psbt, Current).musig /\ ~IsRound1
  /\ LET sighash == SighashTaproot(req.psbt, Current.input, PlaceOf(req.psbt, Current))
         nonce == Nonce(req.psbt, Current, musig.round2.rand)
     IN IF Len(PlaceOf(req.psbt, Current).keys) > MaxPubkeysPerMusig THEN End("error")
        ELSE IF ~HasPrevouts(req.psbt) THEN End("panic")
        ELSE /\ ~MustPop
             /\ IF musig.round2.id # Session THEN End("no_session")
                ELSE IF ~AllNoncesThere(req.psbt, Current) THEN End("error")
                ELSE /\ Produce(Signature("partial", sighash))
                     /\ used' = used \cup {[nonce |-> nonce, sighash |-> sighash]}
                     /\ UNCHANGED <<task, musig, reply, approved, given>>
  /\ UNCHANGED <<slots, req, count>>

\* commit, at the end of the pass only.
EndPass ==
  /\ pc = "signing" /\ ToVisit = {}
  /\ Goto(IF musig.round1.id # Zeros THEN "commit_id" ELSE "respond")
  /\ UNCHANGED <<slots, req, task, visit, musig, out, count>>

CommitId ==
  /\ pc = "commit_id"
  /\ slots' = [slots EXCEPT !.id = musig.round1.id]
  /\ Goto("commit_rand")
  /\ UNCHANGED <<req, task, visit, musig, out, count>>

CommitRand ==
  /\ pc = "commit_rand"
  /\ slots' = [slots EXCEPT !.rand = musig.round1.rand]
  /\ Goto("respond")
  /\ UNCHANGED <<req, task, visit, musig, out, count>>

\* The device loses power, or the V-App is stopped: storage stays as it is. Between the two
\* writes of a session, that leaves its id with the randomness of another one, or with none.
PowerLoss ==
  /\ pc # "idle"
  /\ count.crashes < MaxCrashes
  /\ End("lost")
  /\ count' = [count EXCEPT !.crashes = @ + 1, !.torn = IF pc = "commit_rand" THEN @ + 1 ELSE @]
  /\ UNCHANGED <<slots, req>>

Next ==
  \/ GetMasterFingerprint \/ GetExtendedPubkey \/ RegisterAccount \/ RegisterIdentityKey
  \/ GetAddress \/ SignPsbt
  \/ Confirm \/ Reject \/ Respond
  \/ ContinueUnverified \/ ContinueHighFee \/ ApproveTransaction
  \/ VerifyStep \/ AwaitTask \/ BeginPass
  \/ SignInputEcdsa \/ SignInputSchnorr
  \/ Popping \/ Popped \/ ProducePubnonce \/ SignSighashMusig
  \/ EndPass \/ CommitId \/ CommitRand
  \/ PowerLoss

Spec == Init /\ [][Next]_vars

-----------------------------------------------------------------------------
Accounts == {a \in approved : a.kind = "account"}

OfApprovedAccount(script) ==
  \E a \in Accounts, coords \in Coordinates : script = ToScript(a.object, coords)

\* Each output of the transaction is either on the screen, with its amount and under a
\* name only if the user registered that name for a key that signed the script, or it
\* pays an account that the user registered.
Accounted(psbt, pairs) ==
  \A o \in DOMAIN psbt.outputs :
    LET output == psbt.outputs[o] IN
    \/ OfApprovedAccount(output.script)
    \/ /\ o \in DOMAIN pairs.outputs
       /\ pairs.outputs[o].address = output.script /\ pairs.outputs[o].amount = output.amount
       /\ pairs.outputs[o].name # None =>
            \E i \in approved, p \in DOMAIN output.proofs :
              /\ i.kind = "identity" /\ i.name = pairs.outputs[o].name /\ i.object = output.proofs[p].key
              /\ output.proofs[p].sig = <<i.object, <<"OUTPUT", output.script>> >>

\* What the shown accounts spend is what the shown outputs and the fee come to.
Balanced(pairs) ==
  SumFunction([a \in DOMAIN pairs.accounts |-> pairs.accounts[a].amount])
    = pairs.fee + SumFunction([o \in DOMAIN pairs.outputs |-> pairs.outputs[o].amount])

\* SignedAsApproved: whatever the host sends, and however screens, verification and
\* losses of power interleave, a signature that leaves the V-App spends an output of an
\* account that the user registered, in a transaction whose every output the user saw or
\* owns, with shown amounts that add up.
SignedAsApproved ==
  \A g \in given :
    g.kind \in {"sig", "partial"} =>
      /\ OfApprovedAccount(SpentOutput(g.psbt.inputs[g.input]).script)
      /\ \E a \in approved :
           /\ a.kind = "tx"
           /\ Accounted(g.psbt, a.pairs)
           /\ Balanced(a.pairs)
           /\ a.pairs.fee = Fee(g.psbt)

\* NonceUsedOnce: no secret MuSig2 nonce signs two messages, over retried rounds, mixed
\* rounds, failed passes and losses of power, one of them in the commit of a session: what
\* that one leaves under the session's id is the randomness of a session that has signed
\* nothing, or none at all. (A second one may leave none again: two sessions then sign with
\* the nonces of a cleared slot.)
NonceUsedOnce ==
  count.torn <= 1 => \A u, w \in used : u.nonce = w.nonce => u.sighash = w.sighash

\* NoStaleSession: "partial failures must leave no stale session" (sign_psbt.rs:1097): the
\* randomness next to a stored session id is that session's, unless it is being written.
NoStaleSession ==
  pc # "commit_rand" /\ slots.id # Zeros => slots.rand.for = slots.id

\* ExportedKeysStayOurs: a resident key that was once exported can be derived for ever
\* after: the seed is in its slot before any key leaves, and is never replaced.
ExportedKeysStayOurs ==
  \A g \in given :
    g.kind = "xpub" /\ g.key[1] = "resident" => g.key[2] = slots.seed

\* OutputsAttested: an identity key signs, as an output, only a script of an account that
\* the user registered: a signature asked for with a key (XPUB) cannot stand for one.
OutputsAttested ==
  \A g \in given :
    g.kind = "idsig" /\ g.message[1] = "OUTPUT" => OfApprovedAccount(g.message[2])

\* HonestPsbtSigned: a PSBT that prepare_psbt completed for a registered account is never
\* refused by analysis, verification or signing; only its session may be gone.
HonestPsbtSigned ==
  pc = "idle" /\ reply \in {"error", "panic"} /\ req.op = "sign" => req.psbt \notin HonestPsbts
=============================================================================
