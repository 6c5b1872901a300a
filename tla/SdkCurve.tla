------------------------------ MODULE SdkCurve ------------------------------
(***************************************************************************)
(* The big numbers and the curve of the V-App SDK (app-sdk/src/bignum.rs   *)
(* and curve.rs), over a curve y^2 = x^3 + 7 small enough to try all its   *)
(* points. What the ECALLs compute is external: the group law, the hashes, *)
(* and arithmetic that refuses operands which are not reduced. A refusal,  *)
(* an error or a panic is None.                                            *)
(***************************************************************************)
EXTENDS Integers, Sequences, FiniteSets, TLC, SequencesExt

CONSTANTS
  None,
  P,           \* The field's prime, 3 modulo 4.
  N,           \* The order of the group, a prime smaller than P.
  GeneratorX,  \* A point that generates the group.
  GeneratorY,
  Buf,         \* Values of a buffer of 32 bytes: more than P and N.
  Base         \* Values of a byte, for what is done byte by byte.

IsPrime(n) == n > 1 /\ \A d \in 2 .. n - 1 : n % d # 0

ASSUME CurveAssumption ==
  /\ IsPrime(P) /\ P % 4 = 3 /\ IsPrime(N) /\ N < P /\ P < Buf
  /\ GeneratorX \in 1 .. P - 1 /\ GeneratorY \in 1 .. P - 1
  /\ (GeneratorY * GeneratorY) % P = (GeneratorX * GeneratorX * GeneratorX + 7) % P
  /\ Base > 1

-----------------------------------------------------------------------------
\* BigNum: big-endian bytes. The sums wrap.

Value(bytes) == FoldLeft(LAMBDA v, byte : v * Base + byte, 0, bytes)

\* The carry into byte i, from the bytes after it.
Carries(a, b) ==
  LET carry[i \in 1 .. Len(a)] == IF i = Len(a) THEN 0 ELSE (a[i+1] + b[i+1] + carry[i+1]) \div Base
  IN carry

BigNumAdd(a, b) == [i \in 1 .. Len(a) |-> (a[i] + b[i] + Carries(a, b)[i]) % Base]

Borrows(a, b) ==
  LET borrow[i \in 1 .. Len(a)] ==
        IF i < Len(a) /\ a[i+1] - b[i+1] - borrow[i+1] < 0 THEN 1 ELSE 0
  IN borrow

BigNumSub(a, b) == [i \in 1 .. Len(a) |-> (a[i] - b[i] - Borrows(a, b)[i]) % Base]

\* BigNumMod. from_be_bytes and from_u32 reduce; the operators rely on it.
Reduce(v, m) == v % m

AddMod(a, b, m) == IF a >= m \/ b >= m THEN None ELSE (a + b) % m

SubMod(a, b, m) == IF a >= m \/ b >= m THEN None ELSE (a - b) % m

MulMod(a, b, m) == IF a >= m \/ b >= m THEN None ELSE (a * b) % m

NegMod(a, m) == SubMod(0, a, m)

PowMod(a, e, m) ==
  LET power[k \in 0 .. e] ==
        IF k = 0 THEN 1 % m
        ELSE LET half == power[k \div 2] IN (half * half * (IF k % 2 = 1 THEN a ELSE 1)) % m
  IN IF a >= m THEN None ELSE power[e]

InvMod(a, m) == IF a = 0 THEN None ELSE PowMod(a, m - 2, m)

-----------------------------------------------------------------------------
\* Points: Point::default and Point::new.

Infinity == [prefix |-> 0, x |-> 0, y |-> 0]

Point(x, y) == [prefix |-> 4, x |-> x, y |-> y]

IsZero(p) == p.x = 0 /\ p.y = 0

Generator == Point(GeneratorX, GeneratorY)

OnCurve(p) ==
  /\ p.prefix = 4 /\ p.x < P /\ p.y < P
  /\ (p.y * p.y) % P = (p.x * p.x * p.x + 7) % P

Points == {Infinity} \cup {p \in {Point(x, y) : x, y \in 0 .. P - 1} : OnCurve(p)}

\* The group law of the curve.
Chord(p, q) ==
  LET slope == IF p = q THEN (3 * p.x * p.x * InvMod((2 * p.y) % P, P)) % P
               ELSE ((q.y - p.y) * InvMod((q.x - p.x) % P, P)) % P
      x == (slope * slope - p.x - q.x) % P
  IN CASE p = Infinity -> q
       [] p # Infinity /\ q = Infinity -> p
       [] p # Infinity /\ q # Infinity /\ p.x = q.x /\ (p.y + q.y) % P = 0 -> Infinity
       [] OTHER -> Point(x, (slope * (p.x - x) - p.y) % P)

Multiples ==
  FoldLeft(LAMBDA table, k : Append(table, Chord(table[Len(table)], Generator)),
           <<Infinity>>, [k \in 1 .. N - 1 |-> k])

Multiple(k) == Multiples[(k % N) + 1]

Log == [p \in Points |-> CHOOSE k \in 0 .. N - 1 : Multiple(k) = p]

\* Add and Mul: the ECALL refuses a point that is not on the curve.
PointAdd(p, q) == IF p \in Points /\ q \in Points THEN Multiple(Log[p] + Log[q]) ELSE None

PointMul(p, k) == IF p \in Points THEN Multiple(Log[p] * k) ELSE None

FromBytes(bytes) ==
  CASE bytes.prefix = 0 -> Infinity
    [] bytes.prefix = 4 /\ PointMul(bytes, 1) # None -> bytes
    [] OTHER -> None

\* from_compressed, of c = [prefix, x].
FromCompressed(c) ==
  LET rhs == (c.x * c.x * c.x + 7) % P
      y == PowMod(rhs, (P + 1) \div 4, P)
  IN IF c.prefix \notin {2, 3} \/ c.x >= P \/ MulMod(y, y, P) # rhs THEN None
     ELSE Point(c.x, IF y % 2 = c.prefix % 2 THEN y ELSE P - y)

ToCompressed(p) == IF p.prefix # 4 THEN None ELSE [prefix |-> (p.y % 2) + 2, x |-> p.x]

ToPublicKey(sk) == PointMul(Generator, sk)

-----------------------------------------------------------------------------
\* Hashes: any function of all that is fed to it will do.

Hash(tag, inputs) == FoldLeft(LAMBDA h, v : (5 * h + 3 * v + 1) % Buf, tag, inputs)

Serial(c) == IF c.prefix = 0 THEN <<0, 0>> ELSE <<c.prefix, c.x>>

\* hmac_sha512, whose digest is two buffers long.
HmacSha512(key, data1, data2) ==
  LET digest(half) == Hash(92 + half, <<key, Hash(54 + half, <<key>> \o data1 \o data2)>>)
  IN <<digest(0), digest(1)>>

Fingerprint(p) == Hash(160, <<Hash(256, Serial(ToCompressed(p)))>>)

\* ckd_priv of node = [privkey, chaincode], for child = [hardened, index].
CkdPriv(node, child) ==
  LET prefix == IF child.hardened THEN <<0, node.privkey>>
                ELSE Serial(ToCompressed(ToPublicKey(node.privkey)))
      hmac == HmacSha512(node.chaincode, prefix, <<child.index>>)
      privkey == AddMod(node.privkey, hmac[1], N)
  IN IF hmac[1] \in {0, N} \/ privkey \in {None, 0} THEN None
     ELSE [privkey |-> privkey, chaincode |-> hmac[2]]

-----------------------------------------------------------------------------
\* Schnorr signatures of BIP-340, as the device makes and verifies them.

Challenge(r, q, msg) == Hash(340, <<r, q, msg>>) % N

SchnorrSign(sk, msg, aux) ==
  LET q == ToPublicKey(sk)
      d == IF q.y % 2 = 0 THEN sk ELSE N - sk
      k == (Hash(341, <<d, aux, q.x, msg>>) % (N - 1)) + 1
      r == ToPublicKey(k)
      nonce == IF r.y % 2 = 0 THEN k ELSE N - k
  IN IF sk \notin 1 .. N - 1 THEN None
     ELSE [r |-> r.x, s |-> (nonce + Challenge(r.x, q.x, msg) * d) % N]

\* The key is lifted to the point with an even y, whatever its own y is.
SchnorrVerify(q, msg, sig) ==
  LET lifted == FromCompressed([prefix |-> 2, x |-> q.x])
      r == PointAdd(ToPublicKey(sig.s), PointMul(lifted, N - Challenge(sig.r, q.x, msg)))
  IN lifted # None /\ ~ IsZero(r) /\ r.y % 2 = 0 /\ r.x = sig.r
=============================================================================
