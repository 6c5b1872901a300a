---------------------------- MODULE CryptoEcalls ----------------------------
(***************************************************************************)
(* The ECALLs that compute: the handlers of the device                     *)
(* (vm/src/handlers/lib/ecall.rs) and the native ones V-Apps are tested    *)
(* with (app-sdk/src/ecalls_native.rs).  The memory of the V-App is a      *)
(* function from the pointers that lie in a segment to the operand stored  *)
(* there, so operands may share a pointer.  A call is a record with the    *)
(* arguments' names.  Refused stands for all that the V-App does not       *)
(* survive or asks it to panic: an error of the handler, a native panic, a *)
(* native return value of 0.  The functions of the operating system and of *)
(* the libraries are external and the same on both sides; what differs is  *)
(* what is checked before and done after.                                  *)
(***************************************************************************)
EXTENDS SdkCurve

CONSTANTS
  HashChunk,      \* bytes of data that hash_update moves at a time (256)
  MasterPrivkey,  \* the node of the seed
  MasterChaincode

MAX_BIGNUMBER_SIZE == 64
MAX_BIP32_PATH == 16
MAX_LABELS == 256

MasterKey == [privkey |-> MasterPrivkey, chaincode |-> MasterChaincode]

Refused == [ok |-> FALSE]
Returned(value, mem) == [ok |-> TRUE, ret |-> value, mem |-> mem]

\* get_segment and read_buffer or write_buffer, of each of these pointers.
Mapped(mem, ptrs) == ptrs \subseteq DOMAIN mem

Store(mem, r, v) == IF v = None THEN Refused ELSE Returned(1, [mem EXCEPT ![r] = v])

---------------------------------------------------------------------------
(* Big numbers.  The native functions repeat the device's conditions.      *)

CxMath(op, a, b, m) ==
  CASE op = "addm" -> AddMod(a, b, m)
    [] op = "subm" -> SubMod(a, b, m)
    [] op = "multm" -> MulMod(a, b, m)

handle_bn_modm(mem, c) ==
  IF c.len > MAX_BIGNUMBER_SIZE \/ c.len_m > MAX_BIGNUMBER_SIZE
     \/ ~Mapped(mem, {c.a, c.m, c.r}) \/ mem[c.m] = 0
  THEN Refused
  ELSE Store(mem, c.r, mem[c.a] % mem[c.m])

bn_modm(mem, c) ==
  IF c.len > MAX_BIGNUMBER_SIZE \/ c.len_m > MAX_BIGNUMBER_SIZE \/ mem[c.m] = 0
  THEN Refused
  ELSE Store(mem, c.r, mem[c.a] % mem[c.m])

\* handle_bn_addm, handle_bn_subm and handle_bn_multm.
handle_bn(mem, c) ==
  IF c.len > MAX_BIGNUMBER_SIZE \/ ~Mapped(mem, {c.a, c.b, c.m, c.r}) THEN Refused
  ELSE Store(mem, c.r, CxMath(c.op, mem[c.a], mem[c.b], mem[c.m]))

\* bn_addm, bn_subm and bn_multm; the difference is taken of a + m - b.
bn(mem, c) ==
  LET a == mem[c.a]
      b == mem[c.b]
      m == mem[c.m]
      result == CASE c.op = "addm" -> (a + b) % m
                  [] c.op = "subm" -> (a + m - b) % m
                  [] c.op = "multm" -> (a * b) % m
  IN IF c.len > MAX_BIGNUMBER_SIZE \/ a >= m \/ b >= m \/ m = 0 THEN Refused
     ELSE Store(mem, c.r, result)

handle_bn_modinv_prime(mem, c) ==
  IF c.len > MAX_BIGNUMBER_SIZE \/ ~Mapped(mem, {c.a, c.m, c.r}) THEN Refused
  ELSE IF mem[c.a] >= mem[c.m] THEN Refused
  ELSE Store(mem, c.r, InvMod(mem[c.a], mem[c.m]))

\* By Fermat's little theorem.
bn_modinv_prime(mem, c) ==
  IF c.len > MAX_BIGNUMBER_SIZE \/ mem[c.a] = 0 \/ mem[c.m] = 0 \/ mem[c.a] >= mem[c.m]
  THEN Refused
  ELSE Store(mem, c.r, PowMod(mem[c.a], mem[c.m] - 2, mem[c.m]))

handle_bn_powm(mem, c) ==
  IF c.len_e > MAX_BIGNUMBER_SIZE \/ c.len > MAX_BIGNUMBER_SIZE
     \/ ~Mapped(mem, {c.a, c.b, c.m, c.r})
  THEN Refused
  ELSE IF mem[c.a] >= mem[c.m] THEN Refused
  ELSE Store(mem, c.r, PowMod(mem[c.a], mem[c.b], mem[c.m]))

bn_powm(mem, c) ==
  IF c.len > MAX_BIGNUMBER_SIZE \/ c.len_e > MAX_BIGNUMBER_SIZE
     \/ mem[c.a] >= mem[c.m] \/ mem[c.m] = 0
  THEN Refused
  ELSE Store(mem, c.r, PowMod(mem[c.a], mem[c.b], mem[c.m]))

---------------------------------------------------------------------------
(* Points.  A buffer that begins with 0 is the point at infinity.          *)

\* cx_ecfp_add_point_no_throw knows no point at infinity among its operands.
CxAddPoint(p, q) == IF p = Infinity \/ q = Infinity THEN None ELSE PointAdd(p, q)

\* An addition that leaves the point at infinity to the operating system.
AddPointUnchecked(mem, c) ==
  IF ~c.secp \/ ~Mapped(mem, {c.a, c.b, c.r}) THEN Refused
  ELSE Store(mem, c.r, CxAddPoint(mem[c.a], mem[c.b]))

handle_ecfp_add_point(mem, c) ==
  LET p == mem[c.a]
      q == mem[c.b]
      sum == CASE p.prefix = 0 /\ q.prefix = 0 -> Infinity
               [] p.prefix = 0 /\ q.prefix # 0 -> q
               [] p.prefix # 0 /\ q.prefix = 0 -> p
               [] p.prefix # 0 /\ q.prefix # 0 -> CxAddPoint(p, q)
  IN IF ~c.secp \/ ~Mapped(mem, {c.a, c.b, c.r}) THEN Refused
     ELSE Store(mem, c.r, sum)

\* The native function checks the point it returns unchanged, too.
ecfp_add_point(mem, c) ==
  LET p == mem[c.a]
      q == mem[c.b]
      valid(x) == IF x \in Points THEN x ELSE None
      sum == CASE p.prefix = 0 /\ q.prefix = 0 -> Infinity
               [] p.prefix = 0 /\ q.prefix # 0 -> valid(q)
               [] p.prefix # 0 /\ q.prefix = 0 -> valid(p)
               [] p.prefix # 0 /\ q.prefix # 0 -> PointAdd(p, q)
  IN IF ~c.secp THEN Refused ELSE Store(mem, c.r, sum)

\* A point at infinity comes back before the scalar is read.
handle_ecfp_scalar_mult(mem, c) ==
  CASE ~c.secp \/ c.len > 32 \/ ~Mapped(mem, {c.a}) -> Refused
    [] c.secp /\ c.len <= 32 /\ Mapped(mem, {c.a}) ->
         IF mem[c.a].prefix = 0
         THEN IF Mapped(mem, {c.r}) THEN Store(mem, c.r, mem[c.a]) ELSE Refused
         ELSE IF ~Mapped(mem, {c.b, c.r}) THEN Refused
         ELSE Store(mem, c.r, IF mem[c.b] = 0 THEN Infinity ELSE PointMul(mem[c.a], mem[c.b]))

ecfp_scalar_mult(mem, c) ==
  LET product == CASE mem[c.a].prefix = 0 -> Infinity
                   [] mem[c.a].prefix # 0 /\ mem[c.b] >= N -> None
                   [] mem[c.a].prefix # 0 /\ mem[c.b] < N -> PointMul(mem[c.a], mem[c.b])
  IN IF ~c.secp \/ c.len > 32 THEN Refused ELSE Store(mem, c.r, product)

---------------------------------------------------------------------------
(* Keys.                                                                   *)

Derive(path) ==
  FoldLeft(LAMBDA node, i :
             IF node = <<None>> THEN node
             ELSE LET child == CkdPriv(node[1], [hardened |-> i >= 2, index |-> i])
                  IN <<child>>,
           <<MasterKey>>, path)[1]

\* An empty path has a pointer to nowhere, which must not be read.
handle_derive_hd_node(mem, c) ==
  IF ~c.secp \/ c.len > MAX_BIP32_PATH \/ (c.len > 0 /\ ~Mapped(mem, {c.a}))
     \/ ~Mapped(mem, {c.r, c.b})
  THEN Refused
  ELSE LET node == Derive(IF c.len = 0 THEN <<>> ELSE SubSeq(mem[c.a], 1, c.len))
       IN IF node = None THEN Refused
          ELSE Returned(1, [mem EXCEPT ![c.r] = node.privkey, ![c.b] = node.chaincode])

derive_hd_node(mem, c) ==
  LET node == Derive(IF c.len = 0 THEN <<>> ELSE SubSeq(mem[c.a], 1, c.len))
  IN IF ~c.secp \/ node = None THEN Refused
     ELSE Returned(1, [mem EXCEPT ![c.r] = node.privkey, ![c.b] = node.chaincode])

\* The hash of the compressed key: the parity of the last byte, then x.
handle_get_master_fingerprint(mem, c) ==
  LET pubkey == ToPublicKey(MasterKey.privkey)
  IN IF ~c.secp THEN Refused
     ELSE Returned(Hash(160, <<Hash(256, <<2 + (pubkey.y % 2), pubkey.x>>)>>), mem)

get_master_fingerprint(mem, c) ==
  IF ~c.secp THEN Refused ELSE Returned(Fingerprint(ToPublicKey(MasterKey.privkey)), mem)

\* SLIP-21: the labels of a buffer, each after its length.
Slip21Child(node, label) == HmacSha512(node[1], <<0>>, label)

\* get_seed: the key of m/"VANADIUM" in the hierarchy of the seed.
Slip21Seed == Slip21Child(HmacSha512(21, <<MasterPrivkey>>, <<>>), <<86>>)[2]
Slip21Master == HmacSha512(21, <<Slip21Seed>>, <<>>)

SplitLabels(buffer, longest) ==
  LET split[offset \in 0 .. Len(buffer)] ==
        IF offset = Len(buffer) THEN <<<<>>>>
        ELSE LET len == buffer[offset + 1]
             IN IF len > longest \/ offset + 1 + len > Len(buffer) THEN <<>>
                ELSE LET rest == split[offset + 1 + len]
                     IN IF rest = <<>> THEN <<>>
                        ELSE <<<<SubSeq(buffer, offset + 2, offset + 1 + len)>> \o rest[1]>>
  IN split[0]

Slip21Node(labels) ==
  FoldLeft(Slip21Child, Slip21Master, labels)

handle_derive_slip21_node(mem, c) ==
  IF c.len > MAX_LABELS \/ ~Mapped(mem, {c.a, c.r}) THEN Refused
  ELSE LET labels == SplitLabels(mem[c.a], MAX_LABELS)
       IN IF labels = <<>> THEN Refused
          ELSE Returned(1, [mem EXCEPT ![c.r] = Slip21Node(labels[1])])

derive_slip21_node(mem, c) ==
  LET labels == SplitLabels(mem[c.a], 252)
  IN IF c.r = 0 \/ c.len > MAX_LABELS \/ labels = <<>> THEN Refused
     ELSE Returned(1, [mem EXCEPT ![c.r] = Slip21Node(labels[1])])

\* The SDK's encoding of a list of labels.
EncodeLabels(labels) ==
  LET encoded == FlattenSeq([i \in DOMAIN labels |-> <<Len(labels[i])>> \o labels[i]])
  IN IF Len(encoded) > MAX_LABELS \/ \E i \in DOMAIN labels : Len(labels[i]) > 252
     THEN None ELSE encoded

\* rnd stands for what the generator yields.
handle_get_random_bytes(mem, c) ==
  IF c.len = 0 THEN Returned(1, mem)
  ELSE IF c.len > 256 \/ ~Mapped(mem, {c.r}) THEN Refused
  ELSE Store(mem, c.r, c.rnd)

get_random_bytes(mem, c) ==
  IF c.len = 0 THEN Returned(1, mem)
  ELSE IF c.len > 256 THEN Refused ELSE Store(mem, c.r, c.rnd)

---------------------------------------------------------------------------
(* Signatures.  Those of ECDSA are only compared with one another.         *)

EcdsaSignature(sk, msg) == IF sk \in 1 .. N - 1 THEN [r |-> Hash(979, <<sk, msg>>), s |-> sk] ELSE None
EcdsaValid(q, msg, sig) ==
  \E sk \in 1 .. N - 1 : ToPublicKey(sk) = q /\ EcdsaSignature(sk, msg) = sig

handle_ecdsa_sign(mem, c) ==
  IF ~c.secp \/ ~c.mode \/ ~Mapped(mem, {c.a, c.b, c.r}) THEN Refused
  ELSE Store(mem, c.r, EcdsaSignature(mem[c.a], mem[c.b]))

ecdsa_sign(mem, c) ==
  IF ~c.secp \/ ~c.mode THEN Refused ELSE Store(mem, c.r, EcdsaSignature(mem[c.a], mem[c.b]))

Verdict(valid) == IF valid THEN 1 ELSE 0

handle_ecdsa_verify(mem, c) ==
  IF ~c.secp \/ c.len > 72 \/ ~Mapped(mem, {c.a, c.b, c.m}) THEN Refused
  ELSE Returned(Verdict(EcdsaValid(mem[c.a], mem[c.b], mem[c.m])), mem)

\* The native function panics at a key that is no point.
ecdsa_verify(mem, c) ==
  IF ~c.secp \/ c.len > 72 \/ mem[c.a] \notin Points \ {Infinity} THEN Refused
  ELSE Returned(Verdict(EcdsaValid(mem[c.a], mem[c.b], mem[c.m])), mem)

\* entropy 0 is the null pointer: the generator is asked for randomness. The
\* entropy is read into the buffer that receives the signature.
handle_schnorr_sign(mem, c) ==
  IF ~c.secp \/ ~c.mode \/ c.len > 128 \/ ~Mapped(mem, {c.a, c.b, c.r})
     \/ (c.m # 0 /\ ~Mapped(mem, {c.m}))
  THEN Refused
  ELSE Store(mem, c.r,
             SchnorrSign(mem[c.a], mem[c.b], IF c.m = 0 THEN c.rnd ELSE mem[c.m]))

schnorr_sign(mem, c) ==
  IF ~c.secp \/ ~c.mode \/ c.len > 128 THEN Refused
  ELSE Store(mem, c.r,
             SchnorrSign(mem[c.a], mem[c.b], IF c.m = 0 THEN c.rnd ELSE mem[c.m]))

\* The 65 bytes at the pointer to a key. Of a key that is only x (32 bytes),
\* the first byte is taken for the prefix, and x ends with the byte behind it.
KeyAt(operand, behind) ==
  IF "prefix" \in DOMAIN operand THEN operand
  ELSE [prefix |-> operand.x \div (Buf \div Base), x |-> (operand.x * Base + behind) % Buf]

handle_schnorr_verify(mem, c) ==
  IF ~c.secp \/ ~c.mode \/ c.len > 128 \/ c.len_m # 64 \/ ~Mapped(mem, {c.a, c.b, c.m})
  THEN Refused
  ELSE Returned(Verdict(SchnorrVerify(KeyAt(mem[c.a], c.behind), mem[c.b], mem[c.m])), mem)

\* The native function takes the x coordinate out of the key.
schnorr_verify(mem, c) ==
  LET key == FromCompressed([prefix |-> 2, x |-> KeyAt(mem[c.a], c.behind).x])
  IN IF ~c.secp \/ ~c.mode \/ c.len > 128 \/ c.len_m # 64 \/ key = None THEN Refused
     ELSE Returned(Verdict(SchnorrVerify(key, mem[c.b], mem[c.m])), mem)

---------------------------------------------------------------------------
(* Hashes.  A context is the algorithm, the digest's length and the data   *)
(* absorbed so far; hash = [id, out] is the identifier the SDK passes. The *)
(* device stores no return value for them: the register keeps the first    *)
(* argument, the identifier, which is neither 0 nor the documented 1.      *)

DigestLengths == [Ripemd160 |-> {20}, Sha256 |-> {32}, Sha512 |-> {64},
                  Keccak |-> {28, 32, 48, 64}, Sha3 |-> {28, 32, 48, 64}]

Digest(ctx) == Hash(ctx.out, ctx.data)

\* HashId::ecall_id
Identifier(hash) ==
  [Ripemd160 |-> 1, Sha256 |-> 3, Sha512 |-> 5, Keccak |-> 6, Sha3 |-> 7][hash.id] * 2^16 + hash.out

\* get_size_from_id: the algorithm alone.
Known(hash) == hash.id \in DOMAIN DigestLengths

\* get_digest_len_from_id checks the length for two of the algorithms.
DigestLen(hash) ==
  IF hash.id \in {"Keccak", "Sha3"} /\ hash.out \notin DigestLengths[hash.id] THEN None
  ELSE hash.out

CxHashInit(hash) == hash.out \in DigestLengths[hash.id]

handle_hash_init(mem, c) ==
  IF ~Known(c.hash) \/ ~Mapped(mem, {c.r}) THEN Refused
  ELSE IF ~CxHashInit(c.hash) THEN Refused
  ELSE Returned(Identifier(c.hash), [mem EXCEPT ![c.r] = [id |-> c.hash.id, out |-> c.hash.out, data |-> <<>>]])

\* The SDK takes no return value of hash_init.
hash_init(mem, c) ==
  IF ~Known(c.hash) THEN Refused
  ELSE IF c.hash.out \notin DigestLengths[c.hash.id] THEN Refused
  ELSE Returned(None, [mem EXCEPT ![c.r] = [id |-> c.hash.id, out |-> c.hash.out, data |-> <<>>]])

\* The data is absorbed in chunks, the context written back at the end.
Absorb(ctx, data) ==
  LET absorb[done \in 0 .. Len(data)] ==
        IF done = 0 THEN ctx
        ELSE LET before == IF done % HashChunk = 0 THEN done - HashChunk
                           ELSE done - (done % HashChunk)
             IN [absorb[before] EXCEPT !.data = @ \o SubSeq(data, before + 1, done)]
  IN absorb[Len(data)]

handle_hash_update(mem, c) ==
  CASE ~Known(c.hash) -> Refused
    [] Known(c.hash) /\ c.len = 0 -> Returned(Identifier(c.hash), mem)
    [] Known(c.hash) /\ c.len > 0 ->
         IF ~Mapped(mem, {c.r, c.a}) THEN Refused
         ELSE Returned(Identifier(c.hash), [mem EXCEPT ![c.r] = Absorb(@, SubSeq(mem[c.a], 1, c.len))])

hash_update(mem, c) ==
  LET data == IF c.len = 0 THEN <<>> ELSE SubSeq(mem[c.a], 1, c.len)
  IN IF ~Known(c.hash) THEN Refused
     ELSE IF c.hash.out \notin DigestLengths[c.hash.id] THEN Refused
     ELSE Returned(1, [mem EXCEPT ![c.r].data = @ \o data])

handle_hash_digest(mem, c) ==
  IF ~Known(c.hash) \/ ~Mapped(mem, {c.r, c.m}) THEN Refused
  ELSE IF DigestLen(c.hash) = None THEN Refused
  ELSE Returned(Identifier(c.hash), [mem EXCEPT ![c.m] = Digest(mem[c.r])])

hash_final(mem, c) ==
  IF ~Known(c.hash) THEN Refused
  ELSE IF c.hash.out \notin DigestLengths[c.hash.id] THEN Refused
  ELSE Returned(1, [mem EXCEPT ![c.m] = Digest(mem[c.r])])

---------------------------------------------------------------------------

Device(mem, c) ==
  CASE c.op = "modm" -> handle_bn_modm(mem, c)
    [] c.op \in {"addm", "subm", "multm"} -> handle_bn(mem, c)
    [] c.op = "modinv" -> handle_bn_modinv_prime(mem, c)
    [] c.op = "powm" -> handle_bn_powm(mem, c)
    [] c.op = "add point" -> handle_ecfp_add_point(mem, c)
    [] c.op = "scalar mult" -> handle_ecfp_scalar_mult(mem, c)
    [] c.op = "hd node" -> handle_derive_hd_node(mem, c)
    [] c.op = "fingerprint" -> handle_get_master_fingerprint(mem, c)
    [] c.op = "slip21" -> handle_derive_slip21_node(mem, c)
    [] c.op = "random" -> handle_get_random_bytes(mem, c)
    [] c.op = "ecdsa sign" -> handle_ecdsa_sign(mem, c)
    [] c.op = "ecdsa verify" -> handle_ecdsa_verify(mem, c)
    [] c.op = "schnorr sign" -> handle_schnorr_sign(mem, c)
    [] c.op = "schnorr verify" -> handle_schnorr_verify(mem, c)
    [] c.op = "hash init" -> handle_hash_init(mem, c)
    [] c.op = "hash update" -> handle_hash_update(mem, c)
    [] c.op = "hash digest" -> handle_hash_digest(mem, c)

Native(mem, c) ==
  CASE c.op = "modm" -> bn_modm(mem, c)
    [] c.op \in {"addm", "subm", "multm"} -> bn(mem, c)
    [] c.op = "modinv" -> bn_modinv_prime(mem, c)
    [] c.op = "powm" -> bn_powm(mem, c)
    [] c.op = "add point" -> ecfp_add_point(mem, c)
    [] c.op = "scalar mult" -> ecfp_scalar_mult(mem, c)
    [] c.op = "hd node" -> derive_hd_node(mem, c)
    [] c.op = "fingerprint" -> get_master_fingerprint(mem, c)
    [] c.op = "slip21" -> derive_slip21_node(mem, c)
    [] c.op = "random" -> get_random_bytes(mem, c)
    [] c.op = "ecdsa sign" -> ecdsa_sign(mem, c)
    [] c.op = "ecdsa verify" -> ecdsa_verify(mem, c)
    [] c.op = "schnorr sign" -> schnorr_sign(mem, c)
    [] c.op = "schnorr verify" -> schnorr_verify(mem, c)
    [] c.op = "hash init" -> hash_init(mem, c)
    [] c.op = "hash update" -> hash_update(mem, c)
    [] c.op = "hash digest" -> hash_final(mem, c)

---------------------------------------------------------------------------
(* What the arguments may be, by app-sdk/src/ecalls.rs and the types of    *)
(* the SDK: points of the curve, scalars below the order, paths and labels *)
(* of the allowed lengths, a context of the same algorithm, and pointers   *)
(* to memory, except that an empty path or message needs none. The key of  *)
(* schnorr_verify is the 65 bytes that the SDK passes, not the 32 of       *)
(* ecalls.rs.                                                              *)

Documented(mem, c) ==
  CASE c.op = "add point" -> {mem[c.a], mem[c.b]} \subseteq Points
    [] c.op = "scalar mult" -> mem[c.a] \in Points /\ mem[c.b] < N
    [] c.op = "hd node" -> c.len <= MAX_BIP32_PATH
    [] c.op = "slip21" -> mem[c.a] # <<>> /\ \A i \in DOMAIN mem[c.a] : mem[c.a][i] <= 252
    [] c.op = "ecdsa verify" -> mem[c.a] \in Points \ {Infinity}
    [] c.op = "schnorr verify" -> mem[c.a] \in Points \ {Infinity}
    [] c.op \in {"hash update", "hash digest"} ->
         c.hash.id = mem[c.r].id /\ c.hash.out = mem[c.r].out
    [] OTHER -> TRUE

\* The return values agree, except for hashes: there the native functions
\* return the documented 1 and the device something else that is not 0, which
\* is what the SDK looks at (hash.rs:41, hash.rs:58).
ReturnsAgree(mem, c) ==
  CASE c.op = "hash init" -> TRUE
    [] c.op \in {"hash update", "hash digest"} -> Native(mem, c).ret = 1 /\ Device(mem, c).ret > 1
    [] OTHER -> Device(mem, c).ret = Native(mem, c).ret

\* A V-App that passes its tests on the native target behaves the same on
\* the device: on documented arguments the two agree on success, on the
\* value returned and on every operand in memory.
NativeAgrees(mem, c) ==
  Mapped(mem, {c.r}) /\ Documented(mem, c) =>
    /\ Device(mem, c).ok <=> Native(mem, c).ok
    /\ Device(mem, c).ok => ReturnsAgree(mem, c) /\ Device(mem, c).mem = Native(mem, c).mem

\* The result may replace an operand: it is the result that a call with a
\* buffer of its own gives.
InPlace(mem, c, spare) ==
  LET apart == [c EXCEPT !.r = spare]
  IN c.op \in {"modm", "addm", "subm", "multm", "modinv", "powm", "add point", "scalar mult",
               "ecdsa sign", "schnorr sign"} /\ Device(mem, c).ok =>
       Device(mem, apart).ok /\ Device(mem, c).mem[c.r] = Device(mem, apart).mem[spare]

\* "Returns 1 on success, 0 on error" (app-sdk/src/ecalls.rs:548-549 and
\* :572-573, of hash_update and hash_final).
ReturnsOneOrZero(mem, c) == Device(mem, c).ok => Device(mem, c).ret \in {0, 1}

\* The signature of a message verifies for the x-only key of 32 bytes
\* (app-sdk/src/ecalls.rs:508-509).
VerifiesForXOnly(sk, msg, behind) ==
  LET call == [op |-> "schnorr verify", secp |-> TRUE, mode |-> TRUE, a |-> 1, b |-> 2, m |-> 3,
               len |-> 32, len_m |-> 64, behind |-> behind]
      got == Device(<<[x |-> ToPublicKey(sk).x], msg, SchnorrSign(sk, msg, 4)>>, call)
  IN got.ok /\ got.ret = 1

\* What the SDK encodes is read back as the same labels, and within the
\* limits nothing is refused.
LabelsReadBack(labels) ==
  EncodeLabels(labels) # None =>
    SplitLabels(EncodeLabels(labels), MAX_LABELS) = <<labels>>
=============================================================================
