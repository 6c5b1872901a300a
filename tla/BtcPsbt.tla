------------------------------- MODULE BtcPsbt -------------------------------
(***************************************************************************)
(* What the Bitcoin V-App (apps/bitcoin) reads out of a PSBT, and what it  *)
(* concludes from it: accounts, coordinates, the checks and the summary of *)
(* analyze_transaction, the checks of verify_transaction, the pairs of the *)
(* review, and the keys that a signing pass visits.                        *)
(*                                                                         *)
(* Hashes are ideal: a script is the term that it is made from, a proof of *)
(* registration is the term that it authenticates, a signature is the key  *)
(* and the message. Amounts are below 2^63.                                *)
(***************************************************************************)
EXTENDS Integers, FiniteSets, SequencesExt

CONSTANTS
  None,
  WarnAmount,            \* THRESHOLD_WARN_HIGH_FEES_AMOUNT
  WarnPercent,           \* THRESHOLD_WARN_HIGH_FEES_PERCENT
  MaxPubkeysPerMusig,    \* MAX_PUBKEYS_PER_MUSIG
  LockTimeThreshold,     \* lock times below are heights, from it on times
  ValidNames             \* the names that is_valid_account_name accepts

-----------------------------------------------------------------------------
\* Wallet policies and their scripts.

\* A policy: [wrap, keys, places]. A key: [tree, seed], the tree that its origin's
\* fingerprint names ("none" without origin) and the seed that it really derives from.
\* A place (a key expression of the template): [musig, keys, num1, num2, leaf], keys being
\* indices into the policy's, and leaf None on the key path.
SegwitVersion(policy) ==
  CASE policy.wrap \in {"pkh", "sh"} -> "legacy"
    [] policy.wrap \in {"wpkh", "wsh", "shwsh"} -> "v0"
    [] policy.wrap = "tr" -> "taproot"

P2sh(script) == <<"p2sh", script>>

P2wsh(script) == <<"p2wsh", script>>

IsP2wsh(script) == script[1] = "p2wsh"

Inner(policy, coords) == <<"script", policy, coords.change, coords.index>>

ToScript(policy, coords) ==
  CASE policy.wrap = "sh" -> P2sh(Inner(policy, coords))
    [] policy.wrap = "wsh" -> P2wsh(Inner(policy, coords))
    [] policy.wrap = "shwsh" -> P2sh(P2wsh(Inner(policy, coords)))
    [] OTHER -> Inner(policy, coords)

\* Registration ids carry the type of the object, its name and the object.
RegistrationId(type, name, object) == [type |-> type, name |-> name, object |-> object]

ProofOfRegistration(id) == <<"por", id>>

\* The message that an identity key signs: its type is part of it.
IdentityMessage(type, object) == <<type, object>>

-----------------------------------------------------------------------------
\* The fields of a PSBT. The global map's proprietary entries are a function from
\* <<subtype, account id>>, or <<"idkey", key>>, to values.

GetAccount(psbt, id) ==
  IF <<"account", id>> \in DOMAIN psbt.global THEN psbt.global[<<"account", id>>] ELSE None

\* get_accounts stops at the first id without a descriptor.
GetAccounts(psbt) ==
  LET Ids == {id \in 0 .. Cardinality(DOMAIN psbt.global) :
                 \A k \in 0 .. id : GetAccount(psbt, k) # None}
  IN [i \in 1 .. Cardinality(Ids) |-> GetAccount(psbt, i - 1)]

AccountName(psbt, id) ==
  IF <<"name", id>> \in DOMAIN psbt.global THEN psbt.global[<<"name", id>>] ELSE None

\* An account without a name is registered, and has its sessions, under the empty name.
NameOrEmpty(psbt, id) == IF AccountName(psbt, id) = None THEN "" ELSE AccountName(psbt, id)

AccountPor(psbt, id) ==
  IF <<"por", id>> \in DOMAIN psbt.global THEN psbt.global[<<"por", id>>] ELSE None

RegisteredIdentityKeys(psbt) ==
  {[key |-> f[2], name |-> psbt.global[f].name, por |-> psbt.global[f].por] :
      f \in {g \in DOMAIN psbt.global : g[1] = "idkey"}}

-----------------------------------------------------------------------------
\* prepare_psbt, on the host: the account's global fields, and coordinates wherever one
\* of its keys, or for musig the aggregate key, has a derivation.

CoordinatesSwapped(derivations, origins, place) ==
  {[change |-> d.steps[1] = place.num1, index |-> d.steps[2]] :
     d \in {e \in derivations : e.origin \in origins /\ Len(e.steps) = 2}}

\* The coordinates that a derivation [origin, steps] of an input or output means for a
\* key expression: two steps below the key's origin, the first being num1 or num2.
CoordinatesFrom(derivations, origins, place) ==
  LET Fits == {d \in derivations :
                 /\ d.origin \in origins
                 /\ Len(d.steps) = 2
                 /\ d.steps[1] \in {place.num1, place.num2}}
  IN {[change |-> d.steps[1] # place.num1, index |-> d.steps[2]] : d \in Fits}

\* The origins under which a key expression's derivations are looked up.
Origins(policy, place) ==
  {policy.keys[k] : k \in {place.keys[n] : n \in DOMAIN place.keys}}
    \cup (IF place.musig THEN {[tree |-> "aggregate", seed |-> place.keys]} ELSE {})

\* Every place of the template overwrites the coordinates that an earlier one found.
WithCoordinates(field, policy, account) ==
  LET Found(p) == CoordinatesFrom(field.derivations, Origins(policy, policy.places[p]),
                                  policy.places[p])
      Places == {p \in DOMAIN policy.places : Found(p) # {}}
      Latest == CHOOSE c \in Found(Max(Places)) : TRUE
  IN IF Places = {} THEN field
     ELSE [field EXCEPT !.coords = [account |-> account, change |-> Latest.change, index |-> Latest.index]]

PreparePsbt(psbt, policy, name, por) ==
  [global  |-> [f \in {<<"account", 0>>, <<"name", 0>>, <<"por", 0>>} \cup DOMAIN psbt.global |->
                  CASE f = <<"account", 0>> -> policy
                    [] f = <<"name", 0>> -> name
                    [] f = <<"por", 0>> -> por
                    [] OTHER -> psbt.global[f]],
   inputs  |-> [i \in DOMAIN psbt.inputs |-> WithCoordinates(psbt.inputs[i], policy, 0)],
   outputs |-> [o \in DOMAIN psbt.outputs |-> WithCoordinates(psbt.outputs[o], policy, 0)]]

-----------------------------------------------------------------------------
\* analyze_transaction. An input: [coords, prev, vout, witness, tx, redeem, script,
\* nonces, height, time, derivations], tx being the previous transaction [id, outs] and script the
\* witness script. An output: [coords, amount, script, proofs, derivations].

AccountOf(psbt, field) == GetAccounts(psbt)[field.coords.account + 1]

InAccount(psbt, field) == field.coords.account < Len(GetAccounts(psbt))

\* The output that an input says it spends.
SpentOutput(in) == IF in.witness # None THEN in.witness ELSE in.tx.outs[in.vout + 1]

UtxosAllowed(in, segwit) ==
  /\ segwit = "legacy" => in.witness = None /\ in.tx # None
  /\ segwit # "taproot" /\ in.tx # None => in.prev = in.tx.id
  /\ segwit # "legacy" => in.witness # None

ScriptsFit(in) ==
  LET script == IF in.redeem = None THEN SpentOutput(in).script ELSE in.redeem IN
  /\ in.redeem # None => SpentOutput(in).script = P2sh(in.redeem)
  /\ in.witness # None /\ IsP2wsh(script) => in.script # None /\ script = P2wsh(in.script)

InputOk(psbt, in) ==
  /\ in.coords # None
  /\ InAccount(psbt, in)
  /\ UtxosAllowed(in, SegwitVersion(AccountOf(psbt, in)))
  /\ in.witness = None => in.vout # None
  /\ ScriptsFit(in)

\* The previous transaction's output is indexed without a check.
InputPanics(psbt, in) ==
  /\ in.coords # None
  /\ InAccount(psbt, in)
  /\ UtxosAllowed(in, SegwitVersion(AccountOf(psbt, in)))
  /\ in.witness = None /\ in.vout # None
  /\ in.vout >= Len(in.tx.outs)

ProofsOk(out) ==
  \A p \in DOMAIN out.proofs :
    out.proofs[p].sig = <<out.proofs[p].key, IdentityMessage("OUTPUT", out.script)>>

OutputOk(psbt, out) ==
  /\ out.amount # None
  /\ out.script # None
  /\ IF out.coords # None THEN InAccount(psbt, out) ELSE ProofsOk(out)

IdentityKeysOk(psbt) ==
  \A k \in RegisteredIdentityKeys(psbt) :
    k.por = ProofOfRegistration(RegistrationId("identity", k.name, k.key))

InputAmounts(psbt) == [i \in DOMAIN psbt.inputs |-> SpentOutput(psbt.inputs[i]).amount]

OutputAmounts(psbt) == [o \in DOMAIN psbt.outputs |-> psbt.outputs[o].amount]

InputsTotal(psbt) == SumFunction(InputAmounts(psbt))

OutputsTotal(psbt) == SumFunction(OutputAmounts(psbt))

\* What analyze_transaction comes to: "panic" where it indexes out of bounds, "error"
\* for every check that fails before.
Analysis(psbt) ==
  LET FirstBad == {i \in DOMAIN psbt.inputs :
                     InputPanics(psbt, psbt.inputs[i]) \/ ~InputOk(psbt, psbt.inputs[i])}
      HeaderOk == /\ \A a \in DOMAIN GetAccounts(psbt) :
                       /\ AccountName(psbt, a - 1) \in ValidNames \cup {None}
                       /\ AccountPor(psbt, a - 1) # None
                  /\ IdentityKeysOk(psbt)
                  /\ \A i \in DOMAIN psbt.inputs : psbt.inputs[i].coords # None
  IN IF ~HeaderOk THEN "error"
     ELSE IF FirstBad # {}
     THEN IF InputPanics(psbt, psbt.inputs[Min(FirstBad)]) THEN "panic" ELSE "error"
     ELSE IF /\ \A o \in DOMAIN psbt.outputs : OutputOk(psbt, psbt.outputs[o])
             /\ OutputsTotal(psbt) <= InputsTotal(psbt)
     THEN "ok" ELSE "error"

-----------------------------------------------------------------------------
\* The summary.

IsInternal(field) == field.coords # None

WarnUnverified(psbt) ==
  \E i \in DOMAIN psbt.inputs :
    /\ SegwitVersion(AccountOf(psbt, psbt.inputs[i])) = "v0"
    /\ psbt.inputs[i].tx = None

\* The inputs or outputs of account a.
OfAccount(fields, a) == {i \in DOMAIN fields : IsInternal(fields[i]) /\ fields[i].coords.account = a}

SpentAmount(psbt, a) ==
  SumFunctionOnSet(InputAmounts(psbt), OfAccount(psbt.inputs, a))
    - SumFunctionOnSet(OutputAmounts(psbt), OfAccount(psbt.outputs, a))

Fee(psbt) == InputsTotal(psbt) - OutputsTotal(psbt)

WarnHighFee(psbt) ==
  /\ InputsTotal(psbt) >= WarnAmount
  /\ (Fee(psbt) * 100) \div InputsTotal(psbt) >= WarnPercent

\* The name shown with an external output: that of the first of its proofs whose key is
\* a registered identity key.
AuthName(psbt, out) ==
  LET Registered(key) == {k \in RegisteredIdentityKeys(psbt) : k.key = key}
      Known == {p \in DOMAIN out.proofs : Registered(out.proofs[p].key) # {}}
  IN IF Known = {} THEN None
     ELSE (CHOOSE k \in Registered(out.proofs[Min(Known)].key) : TRUE).name

\* A script that is none of the standard ones has no address.
HasAddress(script) == script[1] # "bare"

\* build_display_pairs fails if an external output has no address.
Displayable(psbt) ==
  \A o \in DOMAIN psbt.outputs :
    ~IsInternal(psbt.outputs[o]) => HasAddress(psbt.outputs[o].script)

\* The pairs of the review: per account its name and amount, which is received if it is
\* negative, per external output its address, name and amount, and the fee.
External(psbt) == {o \in DOMAIN psbt.outputs : ~IsInternal(psbt.outputs[o])}

DisplayPairs(psbt) ==
  [accounts |-> [a \in DOMAIN GetAccounts(psbt) |->
                   [name |-> AccountName(psbt, a - 1), amount |-> SpentAmount(psbt, a - 1)]],
   outputs  |-> [o \in External(psbt) |->
                   [address |-> psbt.outputs[o].script, name |-> AuthName(psbt, psbt.outputs[o]),
                    amount |-> psbt.outputs[o].amount]],
   fee      |-> Fee(psbt)]

-----------------------------------------------------------------------------
\* verify_transaction: proofs of registration first, then the scripts of inputs and of
\* internal outputs, with a yield after each.

\* Numbers in ascending order.
InOrder(S) ==
  CHOOSE s \in [1 .. Cardinality(S) -> S] : \A j, k \in DOMAIN s : j < k => s[j] < s[k]

ScriptChecksOfInputs(psbt) ==
  [i \in DOMAIN psbt.inputs |->
     [account |-> psbt.inputs[i].coords.account, coords |-> psbt.inputs[i].coords,
      script |-> SpentOutput(psbt.inputs[i]).script]]

ScriptChecks(psbt) ==
  LET Check(field, script) == [account |-> field.coords.account, coords |-> field.coords,
                               script |-> script]
      Internal == InOrder(DOMAIN psbt.outputs \ External(psbt))
  IN [i \in DOMAIN psbt.inputs |-> Check(psbt.inputs[i], SpentOutput(psbt.inputs[i]).script)]
       \o [n \in DOMAIN Internal |-> Check(psbt.outputs[Internal[n]], psbt.outputs[Internal[n]].script)]

ChecksToDo(psbt) == Len(GetAccounts(psbt)) + Len(ScriptChecks(psbt))

PorOk(psbt, id) ==
  AccountPor(psbt, id)
    = ProofOfRegistration(RegistrationId("account", NameOrEmpty(psbt, id), GetAccount(psbt, id)))

CheckHolds(psbt, n) ==
  LET accounts == GetAccounts(psbt) IN
  IF n <= Len(accounts) THEN PorOk(psbt, n - 1)
  ELSE LET check == ScriptChecks(psbt)[n - Len(accounts)]
       IN check.script = ToScript(accounts[check.account + 1], check.coords)

-----------------------------------------------------------------------------
\* The signing pass.

\* The lock times that inputs require: heights or times, not both.
Required(psbt, field) == {psbt.inputs[i][field] : i \in DOMAIN psbt.inputs} \ {None}

LockTimesOk(psbt) ==
  /\ Required(psbt, "height") = {} \/ Required(psbt, "time") = {}
  /\ \A h \in Required(psbt, "height") : h < LockTimeThreshold
  /\ \A t \in Required(psbt, "time") : t >= LockTimeThreshold

UnsignedTx(psbt) ==
  [ins  |-> [i \in DOMAIN psbt.inputs |-> <<psbt.inputs[i].prev, psbt.inputs[i].vout>>],
   outs |-> [o \in DOMAIN psbt.outputs |-> <<psbt.outputs[o].amount, psbt.outputs[o].script>>],
   lock |-> Max({0} \cup Required(psbt, "height") \cup Required(psbt, "time"))]

HasUnsignedTx(psbt) ==
  /\ LockTimesOk(psbt)
  /\ \A i \in DOMAIN psbt.inputs : psbt.inputs[i].prev # None /\ psbt.inputs[i].vout # None

\* The script that an ECDSA signature commits to: the witness script for P2WSH, the
\* redeem script for other P2SH, else the spent one. None: the PSBT does not have it.
ScriptCode(in) ==
  LET script == SpentOutput(in).script IN
  CASE IsP2wsh(script) -> in.script
    [] script[1] = "p2sh" /\ in.redeem # None /\ IsP2wsh(in.redeem) -> in.script
    [] script[1] = "p2sh" /\ (in.redeem = None \/ ~IsP2wsh(in.redeem)) -> in.redeem
    [] OTHER -> script

SighashEcdsa(psbt, i) ==
  [tx |-> UnsignedTx(psbt), input |-> i, script |-> ScriptCode(psbt.inputs[i]),
   amount |-> IF SegwitVersion(AccountOf(psbt, psbt.inputs[i])) = "v0"
              THEN SpentOutput(psbt.inputs[i]).amount ELSE None]

\* Taproot signatures commit to all spent outputs, which are the witness UTXOs. A place
\* of the template is on the key path, or in a leaf of the script tree.
HasPrevouts(psbt) == \A i \in DOMAIN psbt.inputs : psbt.inputs[i].witness # None

SighashTaproot(psbt, i, place) ==
  [tx |-> UnsignedTx(psbt), input |-> i, leaf |-> place.leaf,
   prevouts |-> [k \in DOMAIN psbt.inputs |-> psbt.inputs[k].witness]]

SessionId(psbt, i) ==
  <<"session", NameOrEmpty(psbt, psbt.inputs[i].coords.account),
    AccountOf(psbt, psbt.inputs[i]), UnsignedTx(psbt)>>

\* A key is ours if its origin names one of our trees, and that tree's seed really
\* derives it.
IsLocalKey(key, seeds) == key.tree \in DOMAIN seeds /\ key.seed = seeds[key.tree]

\* The label of a key in the review of an account.
KeyLabel(key, seeds) ==
  CASE key.seed = <<"nums">> -> "dummy"
    [] key.seed # <<"nums">> /\ IsLocalKey(key, seeds) -> "our key"
    [] OTHER -> None

\* The local keys that the pass visits: the nth of a place, for an input.
Visits(psbt, seeds) ==
  LET Account(i) == AccountOf(psbt, psbt.inputs[i])
      KeysOf(i, p) == Account(i).places[p].keys
      OfPlace(i, p) == {[input |-> i, place |-> p, nth |-> n, key |-> Account(i).keys[KeysOf(i, p)[n]]] :
                          n \in DOMAIN KeysOf(i, p)}
      OfInput(i) == UNION {OfPlace(i, p) : p \in DOMAIN Account(i).places}
  IN {v \in UNION {OfInput(i) : i \in DOMAIN psbt.inputs} : IsLocalKey(v.key, seeds)}

\* The order of the pass: inputs, places of the template, keys of a place.
Before(v, w) ==
  \/ v.input < w.input
  \/ v.input = w.input /\ v.place < w.place
  \/ v.input = w.input /\ v.place = w.place /\ v.nth < w.nth

FirstOf(visits) == CHOOSE v \in visits : \A w \in visits : ~Before(w, v)

PlaceOf(psbt, v) == AccountOf(psbt, psbt.inputs[v.input]).places[v.place]

\* The aggregate key after derivation, by which PSBT fields are looked up.
AggregateKey(psbt, v) ==
  <<PlaceOf(psbt, v), psbt.inputs[v.input].coords.change, psbt.inputs[v.input].coords.index>>

\* BIP-373 public nonces of an input are the keys they are there for.
HasNonceOf(psbt, v, key) == key \in psbt.inputs[v.input].nonces

AllNoncesThere(psbt, v) ==
  \A n \in DOMAIN PlaceOf(psbt, v).keys :
    HasNonceOf(psbt, v, AccountOf(psbt, psbt.inputs[v.input]).keys[PlaceOf(psbt, v).keys[n]])

\* nonce_gen: the secret nonce depends on rand_i_j, the signer's key and the aggregate.
Nonce(psbt, v, rand) ==
  [rand |-> rand, input |-> v.input, place |-> v.place, key |-> v.key,
   aggregate |-> AggregateKey(psbt, v)]
=============================================================================
