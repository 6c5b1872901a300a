---------------------------- MODULE MCAlgorithms ----------------------------
(***************************************************************************)
(* The pure algorithms of the repository, each tried on all its samples:   *)
(* a behaviour picks one sample, and the properties say what the           *)
(* algorithm computes for it.                                              *)
(***************************************************************************)
EXTENDS Musig, FastPsbt, CryptoEcalls

CONSTANTS
  ByteBits, PageSize, NoAddress,
  HardenedIndex, MaxNumber, MaxParseDepth, MaxKeysMulti, MaxKeysMultiA, MaxTemplateLen, MaxKeyCount, MaxPathLen,
  FirstData, NextData, ResponseData, NoLength

Cpu == INSTANCE Riscv
Policies == INSTANCE PolicyScript
Buffers == INSTANCE BufferTransfer
Trees == INSTANCE Accumulator

VARIABLES sample  \* The case looked at, or [kind |-> "none"].

vars == <<sample>>

Bytes == [1 .. ScalarLength -> 0 .. Base - 1]

KeySamples ==
  {[kind |-> "bytes", a |-> a, b |-> b] : a, b \in Bytes}
  \cup {[kind |-> "compressed", prefix |-> p, x |-> x] : p \in 1 .. 5, x \in 0 .. Buf - 1}
  \cup {[kind |-> "child", key |-> k, code |-> c, index |-> i] : k \in 1 .. N - 1, c \in 1 .. 6, i \in 0 .. 3}
  \cup {[kind |-> "tweak", key |-> k, tweak |-> t, msg |-> m] : k \in 1 .. N - 1, t \in 0 .. N - 1, m \in 1 .. 2}
  \cup {[kind |-> "musig", keys |-> ks, rands |-> rs, index |-> i, tweak |-> t] :
          ks \in {<<3, 5>>, <<5, 5>>, <<11, 4>>, <<7, 12, 9>>, <<30, 1, 30>>, <<8, 23>>, <<17, 29>>},
          rs \in {<<1, 2, 3>>, <<9, 40, 22>>, <<5, 5, 6>>}, i \in 0 .. 2, t \in {0, 1, 6, 17, 30}}
  \cup {[kind |-> "ecdsa", r |-> r, s |-> s] : r, s \in Bytes \ {Zeros(ScalarLength)}}

\* A well-formed PSBT, and all that one or two slips make of it.
WellFormed ==
  <<Pair(2, <<>>, 4, 2), Pair(4, <<>>, 1, 1), Pair(5, <<>>, 1, 1), Pair(251, <<>>, 4, 2), End,
    Pair(1, <<>>, 9, 5), Pair(6, <<1>>, 2, 6), Pair(6, <<1, 2>>, 2, 7), Pair(6, <<2>>, 2, 8),
    Pair(14, <<>>, 32, 9), Pair(15, <<>>, 4, 0), Pair(27, <<1, 2>>, 66, 1), Pair(27, <<1, 2, 3>>, 66, 2), End,
    Pair(3, <<>>, 8, 11), Pair(4, <<>>, 9, 12), End>>

Slips(raw) ==
  {RemoveAt(raw, i) : i \in DOMAIN raw}
  \cup {InsertAt(raw, i, raw[i]) : i \in DOMAIN raw}
  \cup {SubSeq(raw, 1, i) : i \in DOMAIN raw}
  \cup {[raw EXCEPT ![i] = raw[i+1], ![i+1] = raw[i]] : i \in 1 .. Len(raw) - 1}
  \cup {IF raw[i].end THEN raw ELSE [raw EXCEPT ![i].len = @ + 1] : i \in DOMAIN raw}

\* PSBTs of version 0, their maps in any order.
OldPsbts ==
  LET global == {<<Pair(0, <<>>, 60, 1)>>, <<Pair(252, <<2>>, 3, 2), Pair(1, <<7>>, 4, 3), Pair(0, <<>>, 60, 1)>>}
      input == SetToAllKPermutations({Pair(1, <<>>, 9, 5), Pair(6, <<2>>, 2, 6), Pair(6, <<1>>, 2, 7), Pair(22, <<>>, 2, 8)})
      output == {<<>>} \cup SetToAllKPermutations({Pair(2, <<2>>, 2, 6), Pair(2, <<1>>, 2, 7), Pair(7, <<>>, 2, 8)})
  IN {[kind |-> "old psbt", maps |-> [global |-> g, inputs |-> ins, outputs |-> <<o>>],
       tx |-> [version |-> 1, locktime |-> 3, inputs |-> [i \in DOMAIN ins |-> <<20 + i, i, 30 + i>>],
               outputs |-> <<<<40, 50>>>>]] :
        g \in global, o \in output, ins \in {<<>>} \cup {<<a>> : a \in input} \cup {<<a, Reverse(a)>> : a \in input}}

PsbtSamples ==
  {[kind |-> "psbt", raw |-> raw] : raw \in UNION {Slips(r) : r \in {WellFormed} \cup Slips(WellFormed)}}
  \cup OldPsbts

\* Instructions: every operation with edge values of its operands.
Registers == {0, 1, 2, 10, 21, 31}
Immediates12 == {-2048, -1365, -1, 0, 1, 1365, 1366, 2047}
BranchOffsets == {-4096, -2, 0, 2, 1364, 2730, 4094}
JumpOffsets == {-1048576, -2, 0, 2, 2048, 349524, 699050, 1048574}
UpperImmediates == {(-524287) * 4096, -4096, 0, 4096, 349525 * 4096, 524287 * 4096}

Ops ==
  LET R == {"Sub", "Sra"} \cup ToSet(Cpu!BaseOps) \cup ToSet(Cpu!MulOps)
           \cup (ToSet(Cpu!AtomicOps) \ {"", "LrW"})
      I == {"Addi", "Slti", "Sltiu", "Xori", "Ori", "Andi", "Jalr"} \cup (ToSet(Cpu!LoadOps) \ {""})
  IN {Cpu!Op(n, d, 5, s, 0) : n \in R, d, s \in Registers}
     \cup {Cpu!Op(n, d, 17, 0, i) : n \in I, d \in Registers, i \in Immediates12}
     \cup {Cpu!Op(n, d, 9, 0, i) : n \in {"Slli", "Srli"}, d \in Registers, i \in {0, 1, 21, 31}}
     \cup {Cpu!Op("Srai", d, 9, 0, 1024 + i) : d \in Registers, i \in {0, 1, 21, 31}}
     \cup {Cpu!Op(n, 0, 3, s, i) : n \in ToSet(Cpu!StoreOps), s \in Registers, i \in Immediates12}
     \cup {Cpu!Op(n, 0, s, 20, i) : n \in ToSet(Cpu!BranchOps) \ {""}, s \in Registers, i \in BranchOffsets}
     \cup {Cpu!Op("Jal", d, 0, 0, i) : d \in Registers, i \in JumpOffsets}
     \cup {Cpu!Op(n, d, 0, 0, i) : n \in {"Lui", "Auipc"}, d \in Registers, i \in UpperImmediates}
     \cup {Cpu!Op("LrW", d, s, 0, 0) : d, s \in Registers}
     \cup {Cpu!Op(n, 0, 0, 0, 0) : n \in {"Fence", "Ecall", "Break"}}

CompressedOps ==
  LET C(names, ds, ss, imms) ==
        {[name |-> n, d |-> d, s |-> s, imm |-> i] : n \in names, d \in ds, s \in ss, i \in imms}
  IN C({"addi4spn"}, {8, 15}, {0}, {4 * i : i \in {1, 2, 4, 85, 170, 255}})
     \cup C({"lw", "sw"}, {8, 13}, {10, 15}, {4 * i : i \in 0 .. 31})
     \cup C({"addi", "li"}, Registers, {0}, -32 .. 31)
     \cup C({"lui"}, Registers \ {2}, {0}, {4096 * i : i \in -32 .. 31})
     \cup C({"addi16sp"}, {2}, {0}, {16 * i : i \in -32 .. 31} \ {0})
     \cup C({"slli"}, Registers \ {0}, {0}, 0 .. 31)
     \cup C({"srli", "srai"}, {8, 13}, {0}, 0 .. 31)
     \cup C({"andi"}, {8, 13}, {0}, -32 .. 31)
     \cup C({"sub", "xor", "or", "and"}, 8 .. 15, {8, 13, 15}, {0})
     \cup C({"jal", "j"}, {0}, {0}, {-2048, -2, 0, 682, 1364, 2046} \cup {2^i : i \in 1 .. 10})
     \cup C({"beqz", "bnez"}, {8, 13}, {0}, {2 * i : i \in -128 .. 127})
     \cup C({"lwsp"}, Registers \ {0}, {0}, {4 * i : i \in 0 .. 63})
     \cup C({"swsp"}, {0}, Registers, {4 * i : i \in 0 .. 63})
     \cup C({"jr", "jalr"}, Registers \ {0}, {0}, {0})
     \cup C({"mv", "add"}, Registers, Registers \ {0}, {0})
     \cup C({"ebreak"}, {0}, {0}, {0})

EdgeWords == {0, 1, 2, 3, 5, 7, 8, 85, 127, 128, 129, 170, 200, 253, 254, 255}

\* A processor with little memory: the stack ends at 16, the data at 38 in
\* the middle of a word, and the code lies behind both.
Segments == [stack |-> Cpu!Marked(8, 8), data |-> Cpu!Marked(26, 12), code |-> Cpu!Marked(40, 8)]

\* Segments shorter than a word, and ones that end with the address space.
ShortOrLast ==
  [start : {0, 2, 4}, size : 1 .. 3]
  \cup {[start |-> Cpu!Modulus - z, size |-> z] : z \in {2, 4, 6, 12}}

EdgeAddresses == 0 .. 8 \cup Cpu!Modulus - 14 .. Cpu!Modulus - 1

MemoryOps ==
  {Cpu!Op(n, d, 5, 0, i) : n \in {"Lb", "Lbu", "Lh", "Lhu", "Lw"}, d \in {0, 7}, i \in {-1, 0}}
  \cup {Cpu!Op(n, 0, 5, 6, i) : n \in {"Sb", "Sh", "Sw"}, i \in {-1, 0, 1}}
  \cup {Cpu!Op(n, d, 5, 6, 0) : n \in {"ScW", "AmoswapW", "AmoaddW", "AmomaxW"}, d \in {0, 7}}
  \cup {Cpu!Op("LrW", 7, 5, 0, 0)}

CpuSamples ==
  {[kind |-> "op", op |-> o, aqrl |-> 0] : o \in Ops}
  \cup {[kind |-> "op", op |-> Cpu!Op(n, 1, 2, 0, 0), aqrl |-> x] :
           n \in ToSet(Cpu!AtomicOps) \ {""}, x \in 1 .. 3}
  \cup {[kind |-> "cop", op |-> c] : c \in CompressedOps}
  \cup {[kind |-> "alu", a |-> a, b |-> b] : a, b \in EdgeWords}
  \cup {[kind |-> "segment", start |-> 2 * i, size |-> z, a |-> a, data |-> [k \in 1 .. len |-> (k + 1) % 4]] :
           i \in {0, 1, 2, 3}, z \in {4, 5, 8, 11}, a \in 0 .. 18, len \in {0, 1, 3, 5, 8, 9}}
  \cup {[kind |-> "fetch", start |-> 2 * i, size |-> z, pc |-> a] :
           i \in {0, 1, 2, 3}, z \in {4, 6, 7, 8, 10, 16}, a \in 0 .. 24}
  \cup {[kind |-> "segment", start |-> s.start, size |-> s.size, a |-> a, data |-> [k \in 1 .. len |-> k % 4]] :
           s \in ShortOrLast, a \in EdgeAddresses, len \in {0, 1, 2, 4, 7}}
  \cup {[kind |-> "fetch", start |-> s.start, size |-> s.size, pc |-> a] : s \in ShortOrLast, a \in EdgeAddresses}
  \cup {[kind |-> "memory", op |-> o, a |-> a, v |-> v, res |-> r] :
           o \in MemoryOps, a \in 6 .. 48, v \in {0, 118}, r \in {NoAddress, 8, 28}}

\* ECALLs: the operands lie at 1, 2 and 3, results go to 4 or over an
\* operand, 5 is spare and 9 is in no segment.
Call(op) ==
  [op |-> op, a |-> 1, b |-> 2, m |-> 3, r |-> 4, len |-> 32, len_m |-> 32, len_e |-> 32,
   secp |-> TRUE, mode |-> TRUE, hash |-> [id |-> "Sha256", out |-> 32], rnd |-> 7, behind |-> 1]

Ecall(mem, call) == [kind |-> "ecall", mem |-> mem, call |-> call]

NumberCalls ==
  {Ecall(<<a, b, m, 0, 0>>, [Call(op) EXCEPT !.r = r, !.len = len]) :
     a, b \in {0, 1, 4, 5, 6}, m \in {0, 5}, r \in {1, 2, 3, 4, 9}, len \in {32, 64, 65},
     op \in {"modm", "addm", "subm", "multm", "modinv", "powm"}}

SamplePoints ==
  {Infinity, [prefix |-> 0, x |-> 3, y |-> 4], Point(1, 1)} \cup {Multiple(k) : k \in {1, 2, N - 1}}

PointCalls ==
  {Ecall(<<p, q, k, Infinity, Infinity>>, c) :
     p, q \in SamplePoints, k \in {0, 1, 5, N - 1, N, N + 2},
     c \in {[Call("add point") EXCEPT !.r = r] : r \in {1, 2, 4, 9}}
           \cup {[Call("scalar mult") EXCEPT !.b = 3, !.r = r, !.len = len] : r \in {1, 4}, len \in {32, 33}}
           \cup {[Call("add point") EXCEPT !.secp = FALSE]}}

NodeCalls ==
  {Ecall(<<[i \in 1 .. 17 |-> (i * k) % 4], 0, 0, 0, 0>>,
         [Call("hd node") EXCEPT !.len = len, !.a = IF len = 0 THEN 9 ELSE 1]) :
     k \in 1 .. 3, len \in 0 .. 17}
  \cup {Ecall(<<<<>>, 0, 0, 0, 0>>, [Call(op) EXCEPT !.len = len]) :
           op \in {"fingerprint", "random"}, len \in {0, 256, 257}}

LabelCalls ==
  {Ecall(<<labels, 0, 0, <<0, 0>>, <<0, 0>>>>, [Call("slip21") EXCEPT !.len = Len(labels)]) :
     labels \in UNION {[1 .. n -> 0 .. 2] : n \in 0 .. 5} \cup {[i \in 1 .. 254 |-> 253], [i \in 1 .. 257 |-> 0]}}

SigningCalls ==
  {Ecall(<<sk, msg, entropy, 0, 0>>, [Call(op) EXCEPT !.m = m, !.r = r, !.len = len, !.mode = mode]) :
     sk \in {0, 1, 5, N - 1, N}, msg \in 1 .. 3, entropy \in 1 .. 2, m \in {0, 3}, r \in {1, 2, 4},
     len \in {128, 129}, op \in {"ecdsa sign", "schnorr sign"}, mode \in BOOLEAN}

VerifyCalls ==
  {Ecall(<<q, msg, sig, 0, 0>>, [Call(op) EXCEPT !.len = len, !.len_m = 64]) :
     q \in SamplePoints, msg \in 1 .. 2, len \in {72, 73, 128}, op \in {"ecdsa verify", "schnorr verify"},
     sig \in {EcdsaSignature(k, 1) : k \in {1, 2, N - 1}} \cup {SchnorrSign(k, 1, 4) : k \in {1, 2, N - 1}}}

HashCalls ==
  LET lengths == {20, 28, 31, 32, 48, 64}
      ids == {"Ripemd160", "Sha256", "Sha512", "Keccak", "Sha3"}
      contexts == {c \in [id : ids, out : lengths, data : {<<>>, <<1, 2, 3>>}] : c.out \in DigestLengths[c.id]}
  IN {Ecall(<<<<3, 1, 2, 0, 1>>, 0, 0, c, c>>,
            [Call(op) EXCEPT !.hash = h, !.len = len, !.a = IF len = 0 THEN 9 ELSE 1]) :
        c \in contexts, len \in 0 .. 5, op \in {"hash init", "hash update", "hash digest"},
        h \in [id : {"Keccak", "Sha256", "Unknown"}, out : {31, 32, 64}]}

LabelSamples ==
  LET label == UNION {[1 .. n -> 0 .. 2] : n \in 0 .. 2}
  IN {[kind |-> "labels", labels |-> l] :
        l \in UNION {[1 .. n -> label] : n \in 0 .. 2}
              \cup {<<[i \in 1 .. n |-> i % 4], <<1>>>> : n \in {250, 252, 253, 254}}}

\* Buffers of up to four chunks, and what else may come in their place.
Memory == [i \in 1 .. 14 |-> 100 + i]
Counted(n) == [i \in 1 .. n |-> i]

BufferSamples ==
  LET seqs(S) == UNION {[1 .. n -> S] : n \in 1 .. 3}
      answer == [remaining : 0 .. 4, content : {Counted(n) : n \in 0 .. 3}]
      command == {Buffers!PageRequest} \cup {Buffers!SendBufferContinued(Counted(n)) : n \in 0 .. 3}
                 \cup {Buffers!SendBufferMessage(z, Counted(n)) : z, n \in 0 .. 3}
  IN {[kind |-> "xsend", buf |-> Counted(n), faults |-> f] : n \in 0 .. 14, f \in SUBSET (1 .. 4)}
     \cup {[kind |-> "xrecv", buf |-> Counted(n), at |-> a, max |-> m] : n \in 0 .. 10, a \in 1 .. 6, m \in 0 .. 9}
     \cup {[kind |-> "responses", seq |-> r, max |-> m] : r \in seqs(answer), m \in {2, 4}}
     \cup {[kind |-> "commands", seq |-> r] : r \in seqs(command)}

\* Trees of up to eight leaves, equal and different ones.
Leaves ==
  UNION {[1 .. n -> 1 .. 2] : n \in {1, 2, 4}}
  \cup {<<1, 2, 3, 4>>} \cup {[i \in 1 .. 8 |-> i]}

TreeSamples == {[kind |-> "tree", data |-> d, value |-> v] : d \in Leaves, v \in {1, 3}}

\* What the documents of several parts speak of, one case of each.
DocumentSamples ==
  [kind : {"documents"}, andor : Policies!AndorCases, steps : Policies!StepCases, policy : Policies!ScoreCases,
   sig : {<<Zeros(2) \o <<1>>, <<1, 0, 2>>>>, <<<<1, 0, 0>>, <<2, 0, 0>>>>}, key : {1, 2, 3}, tweak : {0, 1},
   behind : {0, 3}, start : {8, Cpu!Modulus - 4},
   hashing : {Ecall(<<<<3, 1, 2, 0, 1>>, 0, 0, c, 0>>, [Call(op) EXCEPT !.len = 2, !.m = 5]) :
                c \in {[id |-> "Sha256", out |-> 32, data |-> <<>>]}, op \in {"hash update", "hash digest"}}]

Topics == {"keys", "psbts", "processor", "buffers", "trees", "ecalls", "policies", "descriptions", "scripts",
           "documents"}

Init == sample \in {[kind |-> "none", topic |-> t] : t \in Topics}

Looking(topic) == sample.kind = "none" /\ sample.topic = topic

Next ==
  \/ Looking("keys") /\ sample' \in KeySamples
  \/ Looking("psbts") /\ sample' \in PsbtSamples
  \/ Looking("processor") /\ sample' \in CpuSamples
  \/ Looking("buffers") /\ sample' \in BufferSamples
  \/ Looking("trees") /\ sample' \in TreeSamples
  \/ Looking("ecalls") /\ sample' \in NumberCalls
  \/ Looking("ecalls") /\ sample' \in PointCalls
  \/ Looking("ecalls") /\ sample' \in NodeCalls
  \/ Looking("ecalls") /\ sample' \in LabelCalls
  \/ Looking("ecalls") /\ sample' \in SigningCalls
  \/ Looking("ecalls") /\ sample' \in VerifyCalls
  \/ Looking("ecalls") /\ sample' \in HashCalls
  \/ Looking("ecalls") /\ sample' \in LabelSamples
  \/ Looking("policies") /\ sample' \in Policies!PolicyCases
  \/ Looking("descriptions") /\ sample' \in Policies!CleartextCases
  \/ Looking("scripts") /\ sample' \in Policies!ScriptCases
  \/ Looking("documents") /\ sample' \in DocumentSamples

Spec == Init /\ [][Next]_vars

-----------------------------------------------------------------------------
\* The bytewise arithmetic of the curve agrees with the numbers for all operands, a compressed
\* key is accepted exactly when it is a point's and stands for that point, the DER forms that
\* the device and the library write are read back (what else is taken for a signature is left
\* open), a child's public key is the public key of the child, a tweaked key pair signs for the
\* tweaked key, whatever the parity of its point, and the partial signatures of cosigners add
\* up to a signature for the wallet's derived and tweaked key, although tweaks flip signs at
\* several places (app-sdk/src/curve.rs, libs/secp256k1, apps/bitcoin/common/src/musig).
KeysExact ==
  [][/\ sample'.kind = "bytes" => BytewiseIsExact(sample'.a, sample'.b)
     /\ sample'.kind = "compressed" => CompressionIsExact([prefix |-> sample'.prefix, x |-> sample'.x])
     /\ sample'.kind = "ecdsa" => DerIsRead(<<sample'.r, sample'.s>>)
     /\ sample'.kind = "child" =>
          DerivationsAgree([privkey |-> sample'.key, chaincode |-> sample'.code],
                           [hardened |-> FALSE, index |-> sample'.index])
     /\ sample'.kind = "tweak" => TweakedPairSigns(sample'.key, sample'.tweak, sample'.msg)
     /\ sample'.kind = "musig" =>
          WalletSignatureVerifies(sample'.keys, sample'.rands, sample'.index, sample'.tweak, 7)]_vars

\* A PSBT that fastpsbt parses has the fields that are in it, and one of version 0 has them
\* after its conversion; every byte of it is in one of its maps, and no binary search misses
\* a key that is there.
PsbtExact ==
  [][/\ sample'.kind = "psbt" => LookupsAreExact(sample'.raw)
     /\ sample'.kind = "old psbt" => ConversionIsFaithful(sample'.maps, sample'.tx)]_vars

\* Every instruction is decoded and executed as the RISC-V manual says, at the edges of words,
\* pages and segments too; it changes its register and its bytes of memory only
\* (common/src/vm.rs and riscv). At two edges the bounds of a segment wrap around, and the
\* property says what comes of it: a segment that ends with the address space takes no
\* buffers, and one at address 0 that is shorter than an access is bounded by its pages alone.
ProcessorExact ==
  [][/\ sample'.kind = "op" => Cpu!Decoded(sample'.op, sample'.aqrl)
     /\ sample'.kind = "cop" => Cpu!Expanded(sample'.op)
     /\ sample'.kind = "alu" =>
          Cpu!ProductsAndQuotients(sample'.a, sample'.b) /\ Cpu!BitsAndOrder(sample'.a, sample'.b)
     /\ sample'.kind = "segment" => Cpu!SegmentIsExact(sample'.start, sample'.size, sample'.a, sample'.data)
     /\ sample'.kind = "fetch" => Cpu!FetchIsExact(sample'.start, sample'.size, sample'.pc)
     /\ sample'.kind = "memory" =>
          Cpu!InstructionIsContained(Cpu!SampleCpu(Segments, sample'.a, sample'.v, sample'.res), sample'.op)]_vars

\* A buffer of any length arrives whole, in both directions, with pages requested between its
\* chunks, and no answers of the host make xrecv write outside of the V-App's buffer
\* (handle_send_buffer, handle_xrecv; process_send_buffer, process_receive_buffer).
BuffersMovedWhole ==
  [][/\ sample'.kind = "xsend" => Buffers!SentWhole(sample'.buf, sample'.faults)
     /\ sample'.kind = "commands" => Buffers!CollectedAsAnnounced(sample'.seq)
     /\ sample'.kind = "xrecv" => Buffers!ReceivedWhole(Memory, sample'.at, sample'.max, sample'.buf)
     /\ sample'.kind = "responses" => Buffers!ReceivedWithin(Memory, 3, sample'.max, sample'.seq)]_vars

\* A proof verifies for the value and the index it was made for and for no others, be it too
\* short, too long or of another leaf; so does the proof of an update, for its two roots; the
\* root of streamed hashes is that of the tree (common/src/accumulator.rs).
AccumulatorExact ==
  [][sample'.kind = "tree" =>
       /\ \A i \in 0 .. 2 * Len(sample'.data) : Trees!OnlyProofsVerify(sample'.data, i, sample'.value)
       /\ \A i \in 0 .. Len(sample'.data) - 1 : Trees!OnlyUpdatesVerify(sample'.data, i, sample'.value)
       /\ Trees!StreamsToTheRoot(sample'.data)]_vars

\* On the arguments that the SDK passes, the cryptographic ECALLs of the device and of the
\* native build succeed alike, with the same results, and a result may overwrite an operand
\* (vm/src/handlers/lib/ecall.rs, app-sdk/src/ecalls_native.rs). The return values of the
\* updates and digests of hashes differ: 1 natively, some other number than 0 on the device.
EcallsAgree ==
  [][/\ sample'.kind = "ecall" => NativeAgrees(sample'.mem, sample'.call) /\ InPlace(sample'.mem, sample'.call, 5)
     /\ sample'.kind = "labels" => LabelsReadBack(sample'.labels)]_vars

\* The text and the bytes of a wallet policy without hardened steps are read back as the policy
\* that was written, and what is refused is what the policy language excludes; a template with
\* hardened steps is printed as a text that is refused (bip388/src/lib.rs).
PolicyTextExact == [][Policies!TextIsExact(sample') /\ Policies!EncodingIsExact(sample')]_vars

\* The description of a policy in words has the policy among those it is decoded to, no two of
\* which are the same, and its confusion score counts them when each has the keys of the policy
\* as often as the policy (bip388/src/cleartext); else the score may be too low.
DescriptionFaithful == [][Policies!DescriptionIsFaithful(sample')]_vars

\* The script that is made of a policy can be spent by exactly those who satisfy the policy
\* (apps/bitcoin/common/src/script.rs).
ScriptSpendsAsPolicy == [][Policies!ScriptIsRight(sample')]_vars

-----------------------------------------------------------------------------
\* Eight statements of the repository's documents, comments and tests, and a case of each. The
\* run shows one sample for which they are all false, which refutes every one of them: policies
\* with andor can be spent (apps/bitcoin/docs/README.md:13), serialize_der writes DER
\* (ecdsa/mod.rs:143), add_xonly_tweak tweaks the x-only key (key.rs:709), a segment contains
\* its bytes (vm.rs:129), a policy without a description is shown unchanged (cleartext/
\* mod.rs:329), the confusion score is an upper bound (cleartext/mod.rs:322), hash_update and
\* hash_final return 1 or 0 (ecalls.rs:549), schnorr_verify takes 32 bytes (ecalls.rs:508).
SomeDocumentHolds ==
  [][sample'.kind = "documents" =>
       \/ Policies!AndorIsRight(sample'.andor)
       \/ WritesDer(sample'.sig)
       \/ TweaksXOnlyKey(sample'.key, sample'.tweak)
       \/ Cpu!ContainsItsBytes(sample'.start, 4)
       \/ Policies!ShownUnchanged(sample'.steps)
       \/ Policies!ScoreBounds(sample'.policy)
       \/ ReturnsOneOrZero(sample'.hashing.mem, sample'.hashing.call)
       \/ VerifiesForXOnly(sample'.key, 1, sample'.behind)]_vars
=============================================================================
