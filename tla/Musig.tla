------------------------------- MODULE Musig -------------------------------
(***************************************************************************)
(* MuSig2 for the bitcoin V-App (apps/bitcoin/common/src/musig): key and   *)
(* nonce aggregation, tweaks, partial signatures, their aggregate, and the *)
(* synthetic extended key on top of an aggregate key. A public key is      *)
(* compressed, [prefix, x]; errors and panics are None.                    *)
(*                                                                         *)
(* And the part of the secp256k1 library that V-Apps use in place of       *)
(* libsecp256k1 (libs/secp256k1/src), on top of the SDK's curve: its keys  *)
(* compare x and y with the order of the curve, not with the field's       *)
(* prime.                                                                  *)
(***************************************************************************)
EXTENDS SdkCurve

CONSTANTS
  ScalarLength,    \* Bytes of a scalar (32), in a DER signature.
  Bip328Chaincode

---------------------------------------------------------------------------
(* The secp256k1 library.                                                  *)
\* ct_lt: whether a < b as big-endian numbers, with no early exit.
CtLt(a, b) ==
  FoldLeft(LAMBDA acc, i : [less  |-> acc.less \/ (acc.equal /\ a[i] < b[i]),
                            equal |-> acc.equal /\ a[i] = b[i]],
           [less |-> FALSE, equal |-> TRUE], [i \in 1 .. Len(a) |-> i]).less

ScalarFromBytes(v) == IF v < N THEN v ELSE None

SecretKeyFromSlice(v) == IF v = 0 \/ v >= N THEN None ELSE v

SecretKeyNegate(sk) == NegMod(sk, N)

SecretKeyAddTweak(sk, tweak) ==
  LET sum == AddMod(sk, tweak, N) IN IF sum = 0 THEN None ELSE sum

ComputeY(x) ==
  LET t == (x * x * x + 7) % P
      y == PowMod(t, (P + 1) \div 4, P)
  IN IF x < P /\ MulMod(y, y, P) = t THEN y ELSE None

ComputeYWithParity(x, parity) ==
  LET y == ComputeY(x)
  IN IF y = None THEN None ELSE IF y % 2 = parity THEN y ELSE SubMod(0, y, P)

\* from_slice, of a compressed or uncompressed key.
PublicKeyFromSlice(data) ==
  LET validX == data.x # 0 /\ data.x < N
  IN CASE data.prefix \in {2, 3} /\ validX /\ ComputeY(data.x) # None ->
            Point(data.x, ComputeYWithParity(data.x, data.prefix % 2))
       [] data.prefix = 4 /\ "y" \in DOMAIN data /\ validX /\ data.y # 0 /\ data.y < N /\ OnCurve(data) -> data
       [] OTHER -> None

PublicKeySerialize(pk) == [prefix |-> 2 + (pk.y % 2), x |-> pk.x]

PublicKeyAddExpTweak(pk, tweak) ==
  LET sum == PointAdd(pk, ToPublicKey(tweak)) IN IF sum = None \/ IsZero(sum) THEN None ELSE sum

XOnlyFromSlice(x) == IF x = 0 \/ x >= N \/ ComputeY(x) = None THEN None ELSE x

XOnlyPublicKey(pk) ==
  IF XOnlyFromSlice(pk.x) = None THEN None ELSE [x |-> pk.x, parity |-> pk.y % 2]

FromXOnly(x, parity) == PublicKeyFromSlice([prefix |-> 2 + parity, x |-> x])

XOnlyAddTweak(x, tweak) ==
  LET y == ComputeYWithParity(x, 0)
      sum == PointAdd(Point(x, y), ToPublicKey(tweak))
  IN IF y = None THEN None ELSE [x |-> sum.x, parity |-> sum.y % 2]

TweakAddCheck(x, tweaked, parity, tweak) ==
  XOnlyAddTweak(x, tweak) = [x |-> tweaked, parity |-> parity]

KeypairFromSecretKey(sk) == [secret |-> sk, public |-> ToPublicKey(sk)]

KeypairAddTweakUnsigned(pair, tweak) ==
  LET public == PublicKeyAddExpTweak(pair.public, tweak)
      secret == SecretKeyAddTweak(pair.secret, tweak)
  IN IF public = None \/ secret = None THEN None ELSE [secret |-> secret, public |-> public]

\* The public part is tweaked as it is, the secret part after its negation.
KeypairAddXonlyTweak(pair, tweak) ==
  LET public == PublicKeyAddExpTweak(pair.public, tweak)
      secret == SecretKeyAddTweak(
                  IF pair.public.y % 2 = 1 THEN SecretKeyNegate(pair.secret) ELSE pair.secret, tweak)
  IN IF public = None \/ secret = None THEN None ELSE [secret |-> secret, public |-> public]

SignSchnorr(msg, pair, aux) == SchnorrSign(pair.secret, msg, aux)

VerifySchnorr(sig, msg, x) ==
  LET pk == FromXOnly(x, 0) IN pk # None /\ SchnorrVerify(pk, msg, sig)

-----------------------------------------------------------------------------
\* ECDSA signatures: two scalars, each ScalarLength bytes, and their DER form.

Zeros(k) == [i \in 1 .. k |-> 0]

HighBit(byte) == byte * 2 >= Base

\* One INTEGER of a DER signature, at pos (1-based): its value and its end.
DerInteger(data, pos) ==
  LET len == data[pos + 1]
      skip == IF len > ScalarLength THEN 1 ELSE 0
      start == pos + 2 + (IF skip = 1 /\ pos + 2 <= Len(data) /\ data[pos + 2] = 0 THEN 1 ELSE 0)
      end == start + len - skip - 1
  IN IF pos + 1 > Len(data) \/ data[pos] # 2 \/ len - skip > ScalarLength \/ end > Len(data)
     THEN [value |-> None, next |-> 0]
     ELSE [value |-> Zeros(ScalarLength - (len - skip)) \o SubSeq(data, start, end), next |-> pos + 2 + len]

FromDer(data) ==
  LET r == DerInteger(data, 3)
      s == DerInteger(data, r.next)
  IN IF Len(data) < 6 \/ data[1] # 48 \/ Len(data) < data[2] + 2 THEN None
     ELSE IF r.value = None \/ r.next + 1 > Len(data) THEN None
     ELSE IF s.value = None THEN None
     ELSE <<r.value, s.value>>

SerializedInteger(v) ==
  <<2, ScalarLength + (IF HighBit(v[1]) THEN 1 ELSE 0)>> \o (IF HighBit(v[1]) THEN <<0>> ELSE <<>>) \o v

SerializeDer(sig) ==
  LET body == SerializedInteger(sig[1]) \o SerializedInteger(sig[2])
  IN <<48, Len(body)>> \o body

\* The DER form of X.690: no byte more than the sign of the number needs.
MinimalInteger(v) ==
  LET Rest(k) == SubSeq(v, k, Len(v))
      first == CHOOSE k \in 1 .. Len(v) :
                 /\ \A i \in 1 .. k - 1 : v[i] = 0
                 /\ v[k] # 0 \/ k = Len(v)
      sign == IF HighBit(v[first]) THEN <<0>> ELSE <<>>
  IN <<2, Len(Rest(first)) + Len(sign)>> \o sign \o Rest(first)

MinimalDer(sig) ==
  LET body == MinimalInteger(sig[1]) \o MinimalInteger(sig[2])
  IN <<48, Len(body)>> \o body

\* sign_ecdsa: the ECALL answers DER, the library keeps the two scalars.
SignEcdsa(deviceSignature) == FromDer(MinimalDer(deviceSignature))

---------------------------------------------------------------------------
(* MuSig2.                                                                 *)
NoKey == [prefix |-> 0, x |-> 0]

\* cpoint is FromCompressed; cpoint_ext also takes 33 zeros, for infinity.
CPointExt(c) == IF c = NoKey THEN Infinity ELSE FromCompressed(c)

Compress(p) == IF IsZero(p) THEN NoKey ELSE ToCompressed(p)

HasEvenY(p) == p.y % 2 = 0

SecondKey(pks) ==
  LET others == {i \in 2 .. Len(pks) : pks[i] # pks[1]}
  IN IF others = {} THEN NoKey ELSE pks[CHOOSE i \in others : \A j \in others : i <= j]

HashKeys(pks) == Hash(11, FlattenSeq([i \in 1 .. Len(pks) |-> Serial(pks[i])]))

KeyAggCoeff(pks, pk) ==
  IF pk = SecondKey(pks) THEN 1 ELSE Reduce(Hash(12, <<HashKeys(pks)>> \o Serial(pk)), N)

KeyAgg(pks) ==
  LET scaled(i) == PointMul(FromCompressed(pks[i]), KeyAggCoeff(pks, pks[i]))
      q == FoldLeft(LAMBDA acc, i : PointAdd(acc, scaled(i)), Infinity, [i \in 1 .. Len(pks) |-> i])
  IN IF pks = <<>> \/ (\E i \in 1 .. Len(pks) : FromCompressed(pks[i]) = None) THEN None
     ELSE IF IsZero(q) THEN None
     ELSE [q |-> q, gacc |-> 1, tacc |-> 0]

NonceGen(rand, pk, aggX) ==
  LET k(i) == Reduce(Hash(13, <<rand>> \o Serial(pk) \o <<aggX, i>>), N)
  IN IF k(0) = 0 \/ k(1) = 0 THEN None
     ELSE [sec |-> [k1 |-> k(0), k2 |-> k(1), pk |-> pk],
           pub |-> <<Compress(ToPublicKey(k(0))), Compress(ToPublicKey(k(1)))>>]

NonceAgg(pubnonces) ==
  [j \in 1 .. 2 |->
     Compress(FoldLeft(LAMBDA acc, pn : PointAdd(acc, FromCompressed(pn[j])), Infinity, pubnonces))]

\* g of BIP-327: 1, or -1 where the key is to be used with its y negated.
Sign(negated) == IF negated THEN N - 1 ELSE 1

ApplyTweak(ctx, tweak, isXonly) ==
  LET g == Sign(isXonly /\ ~ HasEvenY(ctx.q))
      q == PointAdd(PointMul(ctx.q, g), ToPublicKey(tweak))
  IN IF ctx = None \/ tweak >= N THEN None
     ELSE IF IsZero(q) THEN None
     ELSE [q |-> q, gacc |-> MulMod(g, ctx.gacc, N), tacc |-> AddMod(MulMod(g, ctx.tacc, N), tweak, N)]

NonceCoef(aggnonce, qx, msg) == Hash(14, Serial(aggnonce[1]) \o Serial(aggnonce[2]) \o <<qx, msg>>)

FinalNonce(aggnonce, b) ==
  LET r == PointAdd(CPointExt(aggnonce[1]), PointMul(CPointExt(aggnonce[2]), b))
  IN IF IsZero(r) THEN Generator ELSE r

\* get_session_values of ctx = [aggnonce, pks, tweaks, msg]; a tweak is <<value, is x-only>>.
SessionValues(ctx) ==
  LET agg == FoldLeft(LAMBDA acc, t : IF acc = None THEN None ELSE ApplyTweak(acc, t[1], t[2]),
                      KeyAgg(ctx.pks), ctx.tweaks)
      b == NonceCoef(ctx.aggnonce, agg.q.x, ctx.msg)
      r == FinalNonce(ctx.aggnonce, b)
  IN IF agg = None THEN None
     ELSE [q |-> agg.q, gacc |-> agg.gacc, tacc |-> agg.tacc, b |-> b, r |-> r,
           e |-> Challenge(r.x, agg.q.x, ctx.msg)]

PartialSign(sec, sk, ctx) ==
  LET v == SessionValues(ctx)
      pk == Compress(ToPublicKey(sk))
      nonce(k) == IF HasEvenY(v.r) THEN k ELSE NegMod(k, N)
      d == (Sign(~ HasEvenY(v.q)) * v.gacc * sk) % N
  IN IF \/ v = None \/ sec.k1 \notin 1 .. N - 1 \/ sec.k2 \notin 1 .. N - 1
        \/ sk \notin 1 .. N - 1 \/ pk # sec.pk \/ pk \notin Range(ctx.pks)
     THEN None
     ELSE (nonce(sec.k1) + v.b * nonce(sec.k2) + v.e * KeyAggCoeff(ctx.pks, pk) * d) % N

PartialSigAgg(ctx, psigs) ==
  LET v == SessionValues(ctx)
      sum == FoldLeft(LAMBDA acc, s : (acc + s) % N, 0, psigs)
  IN IF Len(psigs) # Len(ctx.pks) \/ v = None \/ (\E i \in 1 .. Len(psigs) : psigs[i] >= N) THEN None
     ELSE [r |-> v.r.x, s |-> (sum + v.e * Sign(~ HasEvenY(v.q)) * v.tacc) % N]

KeyOrder(a, b) == a.prefix < b.prefix \/ (a.prefix = b.prefix /\ a.x <= b.x)

AggregateXpub(pks) ==
  LET agg == KeyAgg(SortSeq(pks, KeyOrder))
      pk == PublicKeyFromSlice([prefix |-> IF HasEvenY(agg.q) THEN 2 ELSE 3, x |-> agg.q.x])
  IN IF agg = None THEN None ELSE IF pk = None THEN None
     ELSE [pk |-> pk, chaincode |-> Bip328Chaincode]

\* ckdpub_with_tweak. ckd_pub_tweak is rust-bitcoin's: it refuses hardened
\* children and tweaks that are no secret key.
CkdPub(xpub, child) ==
  LET hmac == HmacSha512(xpub.chaincode, Serial(PublicKeySerialize(xpub.pk)), <<child.index>>)
      tweak == SecretKeyFromSlice(hmac[1])
      pk == PublicKeyAddExpTweak(xpub.pk, tweak)
  IN IF child.hardened \/ tweak = None THEN None ELSE IF pk = None THEN None
     ELSE [xpub |-> [pk |-> pk, chaincode |-> hmac[2]], tweak |-> tweak]
-----------------------------------------------------------------------------
(* What the arithmetic, the keys and the signatures of V-Apps promise, for one   *)
(* choice of their arguments at a time.                                          *)

\* BigNum adds and subtracts modulo the size of its buffer (bignum.rs:77,
\* bignum.rs:128), and the comparison of secret keys that never exits early
\* is the order of numbers (key.rs:25).
BytewiseIsExact(a, b) ==
  LET size == Base ^ Len(a)
  IN /\ Value(BigNumAdd(a, b)) = (Value(a) + Value(b)) % size
     /\ Value(BigNumSub(a, b)) = (Value(a) - Value(b)) % size
     /\ CtLt(a, b) <=> Value(a) < Value(b)

\* A compressed key is accepted exactly when some point of the curve has it,
\* and then stands for that point (curve.rs:554). The library's own parser
\* (key.rs:352) agrees wherever it accepts the key.
CompressionIsExact(c) ==
  LET sources == {p \in Points \ {Infinity} : ToCompressed(p) = c}
  IN /\ IF sources = {} THEN FromCompressed(c) = None ELSE sources = {FromCompressed(c)}
     /\ PublicKeyFromSlice(c) \in {None, FromCompressed(c)}

\* The public key of a child of a private node is the child of the public
\* node (curve.rs:766 against musig/mod.rs:597).
DerivationsAgree(node, child) ==
  LET priv == CkdPriv(node, child)
      pub == CkdPub([pk |-> ToPublicKey(node.privkey), chaincode |-> node.chaincode], child)
  IN child.hardened
     \/ (priv = None /\ pub = None)
     \/ (priv # None /\ pub # None /\ ToPublicKey(priv.privkey) = pub.xpub.pk /\ priv.chaincode = pub.xpub.chaincode)

\* A signature with the tweaked pair (key.rs:733) verifies under the key that
\* everyone else computes from the x-only key and the tweak (key.rs:968).
TweakedPairSigns(sk, tweak, msg) ==
  LET pair == KeypairFromSecretKey(sk)
      tweaked == KeypairAddXonlyTweak(pair, tweak)
      output == XOnlyAddTweak(pair.public.x, tweak)
      usable == XOnlyFromSlice(pair.public.x) # None /\ output # None
  IN usable /\ tweaked # None /\ XOnlyFromSlice(output.x) # None =>
       /\ VerifySchnorr(SignSchnorr(msg, tweaked, 0), msg, output.x)
       /\ TweakAddCheck(pair.public.x, output.x, output.parity, tweak)

\* The partial signatures of all participants add up to a signature that
\* verifies under the key of the wallet: the synthetic extended key of the
\* participants, derived twice and tweaked as an x-only key (mod.rs:412,
\* mod.rs:505, mod.rs:558).
WalletSignatureVerifies(sks, rands, index, taptweak, msg) ==
  LET pks == SortSeq([i \in 1 .. Len(sks) |-> Compress(ToPublicKey(sks[i]))], KeyOrder)
      skOf(pk) == sks[CHOOSE i \in 1 .. Len(sks) : Compress(ToPublicKey(sks[i])) = pk]
      xpub == AggregateXpub(pks)
      step1 == CkdPub(xpub, [hardened |-> FALSE, index |-> index])
      step2 == CkdPub(step1.xpub, [hardened |-> FALSE, index |-> 0])
      output == XOnlyAddTweak(step2.xpub.pk.x, taptweak)
      nonces == [i \in 1 .. Len(pks) |-> NonceGen(rands[i], pks[i], output.x)]
      ctx == [aggnonce |-> NonceAgg([i \in 1 .. Len(pks) |-> nonces[i].pub]), pks |-> pks, msg |-> msg,
              tweaks |-> <<<<step1.tweak, FALSE>>, <<step2.tweak, FALSE>>, <<taptweak, TRUE>>>>]
      psigs == [i \in 1 .. Len(pks) |-> PartialSign(nonces[i].sec, skOf(pks[i]), ctx)]
      \* The participants' nonces cancel out with negligible probability.
      degenerate == \/ CPointExt(ctx.aggnonce[1]) = Infinity /\ CPointExt(ctx.aggnonce[2]) = Infinity
                    \/ IsZero(PointAdd(CPointExt(ctx.aggnonce[1]),
                         PointMul(CPointExt(ctx.aggnonce[2]), NonceCoef(ctx.aggnonce, output.x, msg))))
      derived == IF xpub = None THEN FALSE ELSE IF step1 = None THEN FALSE ELSE step2 # None
      usable == IF ~ derived THEN FALSE
                ELSE IF output = None THEN FALSE ELSE ~ IsZero(output) /\ \A i \in 1 .. Len(pks) : nonces[i] # None
  IN usable =>
       IF degenerate THEN TRUE
       ELSE /\ \A i \in 1 .. Len(pks) : psigs[i] # None
            /\ SchnorrVerify(Point(output.x, output.parity), msg, PartialSigAgg(ctx, psigs))

\* What the device signs is what the library reads from its DER form
\* (ecdsa/mod.rs:42), however short the numbers are, and what it writes
\* (ecdsa/mod.rs:144) is read as the same signature again. What else from_der
\* takes for a signature is left open: it looks neither for bytes behind it
\* nor for numbers that are not minimal.
DerIsRead(sig) == SignEcdsa(sig) = sig /\ FromDer(SerializeDer(sig)) = sig

\* "Serializes the signature in DER format" (ecdsa/mod.rs:143).
WritesDer(sig) == SerializeDer(sig) = MinimalDer(sig)

\* "Tweaks a keypair by first converting the public key to an xonly key and
\* tweaking it" (key.rs:709).
TweaksXOnlyKey(sk, tweak) ==
  LET pair == KeypairFromSecretKey(sk)
      tweaked == KeypairAddXonlyTweak(pair, tweak)
  IN tweaked # None => tweaked.public.x = XOnlyAddTweak(pair.public.x, tweak).x
=============================================================================
