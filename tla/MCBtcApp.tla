------------------------------ MODULE MCBtcApp ------------------------------
(* Small instances of BtcApp: two accounts, a wallet's PSBTs and variants. *)
EXTENDS BtcApp

Key(tree, seed) == [tree |-> tree, seed |-> seed]
Place(many, keys, leaf) == [musig |-> many, keys |-> keys, num1 |-> 0, num2 |-> 1, leaf |-> leaf]
MCStandardSeed == <<"s">>
Ours == Key("standard", <<"s">>)
Theirs == Key("other", <<"t">>)
Forged == Key("standard", <<"t">>)     \* claims our fingerprint, is not derived from our seed

\* A segwit account of ours and a key that only claims to be, a taproot account with a
\* MuSig2 key path and a leaf, a legacy account.
Wsh == [wrap |-> "wsh", keys |-> <<Ours, Forged>>,
        places |-> <<Place(FALSE, <<1>>, None), Place(FALSE, <<2>>, None)>>]
Musig == [wrap |-> "tr", keys |-> <<Ours, Theirs>>,
          places |-> <<Place(TRUE, <<1, 2>>, None), Place(FALSE, <<1>>, "leaf")>>]
Legacy == [wrap |-> "sh", keys |-> <<Ours>>, places |-> <<Place(FALSE, <<1>>, None)>>]
Crowd == [wrap |-> "tr", keys |-> <<Ours, Theirs, Forged>>, places |-> <<Place(TRUE, <<1, 2, 3>>, None)>>]
Unregistered == [Wsh EXCEPT !.keys = <<Ours, Theirs>>]
Resident == [wrap |-> "tr", keys |-> <<Key("resident", <<"seed", 1>>)>>,
             places |-> <<Place(FALSE, <<1>>, None)>>]

At(change, index) == [change |-> change, index |-> index]
Por(name, policy) == ProofOfRegistration(RegistrationId("account", name, policy))
Account(name, policy) == Registration("account", name, policy)
AliceKey == [id |-> "A"]
Alice == Registration("identity", "alice", AliceKey)

MCEnrolled == {Account("w", Wsh), Account("m", Musig), Account("l", Legacy), Account("c", Crowd), Alice}

\* Inputs and outputs as a wallet makes them, with derivations and no coordinates yet.
InputOf(policy, at, txid, amount) ==
  LET spent == [script |-> ToScript(policy, at), amount |-> amount] IN
  [coords |-> None, prev |-> txid, vout |-> 0,
   witness |-> IF policy.wrap = "sh" THEN None ELSE spent,
   tx |-> IF policy.wrap = "tr" THEN None ELSE [id |-> txid, outs |-> <<spent>>],
   redeem |-> IF policy.wrap = "sh" THEN Inner(policy, at) ELSE None,
   script |-> IF policy.wrap = "wsh" THEN Inner(policy, at) ELSE None,
   nonces |-> {}, height |-> None, time |-> None,
   derivations |-> {[origin |-> Ours, steps |-> <<IF at.change THEN 1 ELSE 0, at.index>>]}]

Change(policy, at, amount) ==
  [coords |-> None, amount |-> amount, script |-> ToScript(policy, at), proofs |-> <<>>,
   derivations |-> {[origin |-> Ours, steps |-> <<IF at.change THEN 1 ELSE 0, at.index>>]}]

Payment(amount, proofs) ==
  [coords |-> None, amount |-> amount, script |-> <<"addr", "x">>, proofs |-> proofs, derivations |-> {}]

Raw(inputs, outputs) == [global |-> <<>>, inputs |-> inputs, outputs |-> outputs]

Wallet(name, policy, raw) == [psbt |-> raw, policy |-> policy, name |-> name]

AliceSigned(script) == [key |-> AliceKey, sig |-> <<AliceKey, <<"OUTPUT", script>> >>]
AliceKnown == (<<"idkey", AliceKey>> :> [name |-> "alice", por |-> Proof(Alice).proof])

WithNonces(psbt, is, keys) ==
  [psbt EXCEPT !.inputs = [i \in DOMAIN @ |-> IF i \in is THEN [@[i] EXCEPT !.nonces = keys] ELSE @[i]]]

SegwitWallet == Wallet("w", Wsh,
  [Raw(<<InputOf(Wsh, At(FALSE, 0), "t1", 8)>>,
       <<Payment(3, <<AliceSigned(<<"addr", "x">>)>>), Change(Wsh, At(TRUE, 0), 4)>>)
     EXCEPT !.global = AliceKnown])
Round1Wallet == Wallet("m", Musig,
  Raw(<<InputOf(Musig, At(FALSE, 0), "t2", 4), InputOf(Musig, At(FALSE, 1), "t3", 4)>>,
      <<Payment(7, <<>>)>>))
Round2Wallet == [Round1Wallet EXCEPT !.psbt = WithNonces(@, {1, 2}, {Ours, Theirs})]
LegacyWallet == Wallet("l", Legacy, Raw(<<InputOf(Legacy, At(FALSE, 0), "t4", 8)>>, <<Payment(6, <<>>)>>))

Segwit == Prepared(SegwitWallet)
Round1 == Prepared(Round1Wallet)
Round2 == Prepared(Round2Wallet)
Old == Prepared(LegacyWallet)

\* Nothing yet, or the session of a first round.
MCStored ==
  {[seed |-> Zeros, id |-> Zeros, rand |-> NoRand],
   [seed |-> <<"seed", 1>>, id |-> SessionId(Round1, 1),
    rand |-> [root |-> 0, for |-> SessionId(Round1, 1)]]}

\* What a device has stored that was never used.
MCNothing == {[seed |-> Zeros, id |-> Zeros, rand |-> NoRand]}

MCWallets == {SegwitWallet, Round1Wallet, Round2Wallet, LegacyWallet}

\* What a host may send besides.
Doctored ==
  { [Segwit EXCEPT !.inputs[1].tx = None],                      \* unverified
    [Segwit EXCEPT !.outputs[2].script = <<"addr", "x">>],      \* change that is not ours
    [Segwit EXCEPT !.outputs[1].coords = [account |-> 0] @@ At(FALSE, 1)],
    [Segwit EXCEPT !.outputs[1].script = <<"addr", "y">>],      \* alice signed another script
    [Segwit EXCEPT !.outputs[1].script = <<"bare", "y">>, !.outputs[1].proofs = <<>>],
    [Segwit EXCEPT !.outputs[1].amount = 5],                    \* more out than in
    [Segwit EXCEPT !.outputs[1].amount = 1, !.inputs[1].tx = None],  \* high fee, unverified
    [Segwit EXCEPT !.global = (<<"por", 0>> :> <<"junk">>) @@ @],
    [Segwit EXCEPT !.global = (<<"name", 0>> :> "m") @@ @],     \* another account's name
    [Segwit EXCEPT !.global = (<<"idkey", AliceKey>> :> [name |-> "bob", por |-> Proof(Alice).proof]) @@ @],
    [Old EXCEPT !.inputs[1].vout = 1],                          \* beyond the outputs
    [Old EXCEPT !.inputs[1].height = 1, !.inputs[1].time = 3],
    [Old EXCEPT !.inputs[1].redeem = None],
    [Round2 EXCEPT !.inputs[2].witness.amount = 3],             \* same transaction id
    WithNonces(Round1, {1}, {Ours, Theirs}),                    \* both rounds in one pass
    WithNonces(Round1, {2}, {Ours, Theirs}),
    WithNonces(Round1, {1, 2}, {Ours}),                         \* no cosigner nonce
    Prepared(Wallet("c", Crowd, Raw(<<InputOf(Crowd, At(FALSE, 0), "t5", 8)>>, <<Payment(7, <<>>)>>))),
    \* a taproot and a legacy input: two accounts
    [global |-> (<<"account", 1>> :> Legacy) @@ (<<"name", 1>> :> "l") @@ (<<"por", 1>> :> Por("l", Legacy))
                  @@ Round1.global,
     inputs |-> <<[Old.inputs[1] EXCEPT !.coords.account = 1], Round2.inputs[1]>>,
     outputs |-> Round1.outputs] }

Sign(psbt) == [op |-> "sign", psbt |-> psbt]

\* The two rounds of one MuSig2 session.
MCRounds == {Sign(Round1), Sign(Round2)}

Address(name, policy, por, display) ==
  [op |-> "address", name |-> name, policy |-> policy, por |-> por, coords |-> At(FALSE, 0),
   display |-> display, identity |-> TRUE]

MCRequests ==
  {Sign(p) : p \in HonestPsbts \cup Doctored}
    \cup {[op |-> "fingerprint", tree |-> t] : t \in {"standard", "resident"}}
    \cup {[op |-> "xpub", tree |-> t, steps |-> 1, display |-> d, identity |-> t = "standard"] :
            t \in {"standard", "resident"}, d \in BOOLEAN}
    \cup {[op |-> "xpub", tree |-> "resident", steps |-> n, display |-> FALSE, identity |-> n = 1] :
            n \in {1, 3}}
    \cup {[op |-> "account", name |-> "r", policy |-> Resident, identities |-> {}, signatures |-> <<>>],
          [op |-> "account", name |-> "m2", policy |-> Musig,
           identities |-> {[key |-> AliceKey, name |-> "alice", por |-> Proof(Alice).proof]},
           signatures |-> <<None, [key |-> AliceKey, sig |-> <<AliceKey, <<"XPUB", Theirs>> >>]>>],
          [op |-> "account", name |-> "m2", policy |-> Musig, identities |-> {},
           signatures |-> <<None, [key |-> AliceKey, sig |-> <<AliceKey, <<"OUTPUT", Theirs>> >>]>>]}
    \cup {[op |-> "identity", name |-> n, key |-> [id |-> "B"]] : n \in {"bob", ""}}
    \cup {Address("w", Wsh, Por("w", Wsh), TRUE), Address("m", Wsh, Por("w", Wsh), FALSE),
          Address("w", Unregistered, Por("w", Wsh), FALSE),
          Address("r", Resident, Por("r", Resident), FALSE)}
=============================================================================
