------------------------------- MODULE Riscv -------------------------------
(***************************************************************************)
(* The V-App processor and its memory segments (common/src/vm.rs), its     *)
(* decoder (common/src/riscv/decode.rs), and what both compute, said       *)
(* independently of how they compute it.                                   *)
(*                                                                         *)
(* An instruction is the sequence of its bits, least significant first, so *)
(* that a mask followed by a shift is Piece: the bits hi..lo, moved so     *)
(* that bit lo lands at bit at.  An Op is a record with the fields of      *)
(* every variant; the ones a variant does not have are 0.                  *)
(*                                                                         *)
(* A byte has ByteBits bits, so a word of four bytes is small enough for   *)
(* TLC to run through; nothing in the code depends on the width of a byte. *)
(* A segment owns the pages that cover its addresses; a processor is its   *)
(* registers, its three segments and the reservation of LR.W.              *)
(***************************************************************************)
EXTENDS Integers, Sequences, SequencesExt, FiniteSetsExt, Bitwise

CONSTANTS
  ByteBits,   \* bits of a byte (8 in the code)
  PageSize,   \* bytes of a page, a power of two, at least 4 (256 in the code)
  NoAddress   \* the value None of reservation_addr

WordBits == 4 * ByteBits
Modulus == 2^WordBits
Word == 0 .. Modulus - 1

ToSigned(v, bits) == IF v >= 2^(bits - 1) THEN v - 2^bits ELSE v
Int32(v) == ToSigned(v, WordBits)
Wrap(v) == v % Modulus

Failed == [ok |-> FALSE]

---------------------------------------------------------------------------
(* The decoder.                                                            *)

Field(inst, hi, lo) ==
  FoldRight(LAMBDA bit, acc : 2 * acc + bit, SubSeq(inst, lo + 1, hi + 1), 0)

Piece(inst, hi, lo, at) == Field(inst, hi, lo) * 2^at

\* A bit that is shifted to the top and back down with sign extension.
SignPiece(inst, bit, at) == -Piece(inst, bit, bit, at)

---------------------------------------------------------------------------
(* The operands of the 32-bit formats.                                     *)

rd(inst) == Field(inst, 11, 7)
rs1(inst) == Field(inst, 19, 15)
rs2(inst) == Field(inst, 24, 20)

b_imm(inst) == SignPiece(inst, 31, 12) + Piece(inst, 7, 7, 11)
               + Piece(inst, 30, 25, 5) + Piece(inst, 11, 8, 1)

i_imm(inst) == ToSigned(Field(inst, 31, 20), 12)

j_imm(inst) == SignPiece(inst, 31, 20) + Piece(inst, 19, 12, 12)
               + Piece(inst, 20, 20, 11) + Piece(inst, 30, 21, 1)

s_imm(inst) == ToSigned(Field(inst, 31, 25), 7) * 2^5 + Piece(inst, 11, 7, 0)

u_imm(inst) == ToSigned(Field(inst, 31, 12), 20) * 2^12

---------------------------------------------------------------------------
(* The operands of the 16-bit formats.                                     *)

c_rd(inst) == Field(inst, 11, 7)
c_rds(inst) == 8 + Field(inst, 4, 2)
c_rs1(inst) == Field(inst, 11, 7)
c_rs2(inst) == Field(inst, 6, 2)
c_rs1s(inst) == 8 + Field(inst, 9, 7)
c_rs2s(inst) == 8 + Field(inst, 4, 2)
c_funct3(inst) == Field(inst, 15, 13)

ci_imm(inst) == SignPiece(inst, 12, 5) + Piece(inst, 6, 2, 0)

ci_addi16sp_imm(inst) ==
  SignPiece(inst, 12, 9) + Piece(inst, 4, 3, 7) + Piece(inst, 5, 5, 6)
  + Piece(inst, 2, 2, 5) + Piece(inst, 6, 6, 4)

ci_lwsp_imm(inst) ==
  Piece(inst, 3, 2, 6) + Piece(inst, 12, 12, 5) + Piece(inst, 6, 4, 2)

css_swsp_imm(inst) == Piece(inst, 8, 7, 6) + Piece(inst, 12, 9, 2)

ciw_addi4spn_imm(inst) ==
  Piece(inst, 12, 11, 4) + Piece(inst, 10, 7, 6) + Piece(inst, 6, 6, 2)
  + Piece(inst, 5, 5, 3)

cl_lw_offset(inst) ==
  Piece(inst, 5, 5, 6) + Piece(inst, 12, 10, 3) + Piece(inst, 6, 6, 2)

cb_imm(inst) ==
  SignPiece(inst, 12, 8) + Piece(inst, 6, 5, 6) + Piece(inst, 2, 2, 5)
  + Piece(inst, 11, 10, 3) + Piece(inst, 4, 3, 1)

cj_imm(inst) ==
  SignPiece(inst, 12, 11) + Piece(inst, 8, 8, 10) + Piece(inst, 10, 9, 8)
  + Piece(inst, 6, 6, 7) + Piece(inst, 7, 7, 6) + Piece(inst, 2, 2, 5)
  + Piece(inst, 11, 11, 4) + Piece(inst, 5, 3, 1)

---------------------------------------------------------------------------

Op(name, d, s1, s2, imm) ==
  [op |-> name, rd |-> d, rs1 |-> s1, rs2 |-> s2, imm |-> imm]

Unknown == Op("Unknown", 0, 0, 0, 0)
Break == Op("Break", 0, 0, 0, 0)

Named(name, op) == IF name = "Unknown" THEN Unknown ELSE op

Quadrant0(inst) ==
  CASE c_funct3(inst) = 0 /\ ciw_addi4spn_imm(inst) # 0 ->
         Op("Addi", c_rds(inst), 2, 0, ciw_addi4spn_imm(inst))
    [] c_funct3(inst) = 2 ->
         Op("Lw", c_rds(inst), c_rs1s(inst), 0, cl_lw_offset(inst))
    [] c_funct3(inst) = 6 ->
         Op("Sw", 0, c_rs1s(inst), c_rs2s(inst), cl_lw_offset(inst))
    [] OTHER -> Unknown

\* funct3 = 0b100 of quadrant 1: the operations on a compact register.
CompressedAlu(inst) ==
  LET r == c_rs1s(inst)
      kind == Field(inst, 11, 10)
  IN CASE kind = 0 -> Op("Srli", r, r, 0, ci_imm(inst) % 32)
       [] kind = 1 -> Op("Srai", r, r, 0, ci_imm(inst) % 32)
       [] kind = 2 -> Op("Andi", r, r, 0, ci_imm(inst))
       [] kind = 3 /\ Field(inst, 12, 12) = 0 ->
            Op(<<"Sub", "Xor", "Or", "And">>[Field(inst, 6, 5) + 1],
               r, r, c_rs2s(inst), 0)
       [] OTHER -> Unknown

Quadrant1(inst) ==
  LET f3 == c_funct3(inst)
      d == c_rd(inst)
  IN CASE f3 = 0 -> Op("Addi", d, d, 0, ci_imm(inst))
       [] f3 = 1 -> Op("Jal", 1, 0, 0, cj_imm(inst))
       [] f3 = 2 -> Op("Addi", d, 0, 0, ci_imm(inst))
       [] f3 = 3 /\ d = 2 /\ ci_addi16sp_imm(inst) # 0 ->
            Op("Addi", 2, 2, 0, ci_addi16sp_imm(inst))
       [] f3 = 3 /\ d # 2 -> Op("Lui", d, 0, 0, ci_imm(inst) * 2^12)
       [] f3 = 4 -> CompressedAlu(inst)
       [] f3 = 5 -> Op("Jal", 0, 0, 0, cj_imm(inst))
       [] f3 = 6 -> Op("Beq", 0, c_rs1s(inst), 0, cb_imm(inst))
       [] f3 = 7 -> Op("Bne", 0, c_rs1s(inst), 0, cb_imm(inst))
       [] OTHER -> Unknown

\* funct3 = 0b100 of quadrant 2: moves, additions and jumps to a register.
CompressedJump(inst) ==
  LET link == Field(inst, 12, 12)
      d == c_rd(inst)
      s == c_rs2(inst)
  IN CASE s # 0 -> Op("Add", d, IF link = 1 THEN d ELSE 0, s, 0)
       [] s = 0 /\ d # 0 -> Op("Jalr", link, d, 0, 0)
       [] s = 0 /\ d = 0 /\ link = 1 -> Break
       [] OTHER -> Unknown

Quadrant2(inst) ==
  LET f3 == c_funct3(inst)
      d == c_rd(inst)
  IN CASE f3 = 0 /\ d # 0 -> Op("Slli", d, d, 0, ci_imm(inst) % 32)
       [] f3 = 2 /\ d # 0 -> Op("Lw", d, 2, 0, ci_lwsp_imm(inst))
       [] f3 = 4 -> CompressedJump(inst)
       [] f3 = 6 -> Op("Sw", 0, 2, c_rs2(inst), css_swsp_imm(inst))
       [] OTHER -> Unknown

decode_compressed(inst) ==
  CASE Field(inst, 1, 0) = 0 -> Quadrant0(inst)
    [] Field(inst, 1, 0) = 1 -> Quadrant1(inst)
    [] Field(inst, 1, 0) = 2 -> Quadrant2(inst)
    [] OTHER -> Unknown

---------------------------------------------------------------------------
(* The 32-bit instructions: the operation by funct3, or by funct7 and      *)
(* funct3, and then the operands of the format.                            *)

Branches == <<"Beq", "Bne", "Unknown", "Unknown", "Blt", "Bge", "Bltu", "Bgeu">>
Loads == <<"Lb", "Lh", "Lw", "Unknown", "Lbu", "Lhu", "Unknown", "Unknown">>
Stores == <<"Sb", "Sh", "Sw">> \o [i \in 1 .. 5 |-> "Unknown"]

OpImm(inst) ==
  LET f3 == Field(inst, 14, 12)
      f7 == Field(inst, 31, 25)
  IN CASE f3 = 1 -> IF f7 = 0 THEN "Slli" ELSE "Unknown"
       [] f3 = 5 -> IF f7 = 0 THEN "Srli"
                    ELSE IF f7 = 32 THEN "Srai" ELSE "Unknown"
       [] OTHER -> <<"Addi", "", "Slti", "Sltiu", "Xori", "", "Ori", "Andi">>[f3 + 1]

OpReg(inst) ==
  LET f3 == Field(inst, 14, 12)
      f7 == Field(inst, 31, 25)
  IN CASE f7 = 0 -> <<"Add", "Sll", "Slt", "Sltu", "Xor", "Srl", "Or", "And">>[f3 + 1]
       [] f7 = 1 -> <<"Mul", "Mulh", "Mulhsu", "Mulhu",
                      "Div", "Divu", "Rem", "Remu">>[f3 + 1]
       [] f7 = 32 /\ f3 = 0 -> "Sub"
       [] f7 = 32 /\ f3 = 5 -> "Sra"
       [] OTHER -> "Unknown"

\* The two low bits of funct7 order the access (aq, rl) and are ignored.
Atomic(inst) ==
  LET f5 == Field(inst, 31, 27)
  IN CASE Field(inst, 14, 12) # 2 -> "Unknown"
       [] f5 = 2 -> IF rs2(inst) = 0 THEN "LrW" ELSE "Unknown"
       [] f5 = 3 -> "ScW"
       [] f5 = 1 -> "AmoswapW"
       [] f5 = 0 -> "AmoaddW"
       [] f5 = 4 -> "AmoxorW"
       [] f5 = 12 -> "AmoandW"
       [] f5 = 8 -> "AmoorW"
       [] f5 = 16 -> "AmominW"
       [] f5 = 20 -> "AmomaxW"
       [] f5 = 24 -> "AmominuW"
       [] f5 = 28 -> "AmomaxuW"
       [] OTHER -> "Unknown"

decode_uncompressed(inst) ==
  LET opcode == Field(inst, 6, 0)
      f3 == Field(inst, 14, 12)
      I(name) == Named(name, Op(name, rd(inst), rs1(inst), 0, i_imm(inst)))
      R(name) == Named(name, Op(name, rd(inst), rs1(inst), rs2(inst), 0))
  IN CASE opcode = 55 -> Op("Lui", rd(inst), 0, 0, u_imm(inst))
       [] opcode = 23 -> Op("Auipc", rd(inst), 0, 0, u_imm(inst))
       [] opcode = 111 -> Op("Jal", rd(inst), 0, 0, j_imm(inst))
       [] opcode = 103 /\ f3 = 0 -> I("Jalr")
       [] opcode = 99 -> Named(Branches[f3 + 1],
            Op(Branches[f3 + 1], 0, rs1(inst), rs2(inst), b_imm(inst)))
       [] opcode = 3 -> I(Loads[f3 + 1])
       [] opcode = 35 -> Named(Stores[f3 + 1],
            Op(Stores[f3 + 1], 0, rs1(inst), rs2(inst), s_imm(inst)))
       [] opcode = 19 -> I(OpImm(inst))
       [] opcode = 51 -> R(OpReg(inst))
       [] opcode = 47 -> R(Atomic(inst))
       [] opcode = 15 /\ f3 = 0 -> Op("Fence", 0, 0, 0, 0)
       [] opcode = 115 /\ \A i \in 8 .. 32 : inst[i] = 0 -> Op("Ecall", 0, 0, 0, 0)
       [] opcode = 115 /\ \A i \in 8 .. 32 : inst[i] = (IF i = 21 THEN 1 ELSE 0) ->
            Break
       [] OTHER -> Unknown

\* The operation and the size of the instruction.
decode(inst) ==
  IF Field(inst, 1, 0) # 3 THEN <<decode_compressed(inst), 2>>
                           ELSE <<decode_uncompressed(inst), 4>>

---------------------------------------------------------------------------
(* Memory segments.                                                        *)

page_start(address) == address - (address % PageSize)

\* The pages the manifest counts for a section.
n_pages(start, end) == 1 + ((page_start(end - 1) - page_start(start)) \div PageSize)

VecMemory(n) == [p \in 0 .. n - 1 |-> [o \in 0 .. PageSize - 1 |-> 0]]

NewSegment(start, size, pages) ==
  IF size = 0 \/ start % 2 # 0 \/ start + size - 1 >= Modulus THEN Failed
  ELSE [ok |-> TRUE, seg |-> [start |-> start, size |-> size, pages |-> pages]]

\* The sums of bounds wrap around, as u32 does in a release build (a debug
\* build panics instead): start + size when the segment ends with the address
\* space, start + size - n when the segment is shorter than an access near 0.
EndOf(seg) == Wrap(seg.start + seg.size)

contains(seg, a) == a >= seg.start /\ a < EndOf(seg)

PageOf(seg, a) == (a - page_start(seg.start)) \div PageSize
OffsetOf(seg, a) == (a - page_start(seg.start)) % PageSize

\* An access of n bytes: the checks of read_u8, read_u16, read_u32 and of
\* the writes, up to the page that get_page finds.
Accessible(seg, a, n) ==
  /\ a >= seg.start
  /\ a <= Wrap(EndOf(seg) - n)
  /\ a % n = 0
  /\ PageOf(seg, a) \in DOMAIN seg.pages

Bytes(v, n) == [i \in 1 .. n |-> (v \div 2^(ByteBits * (i - 1))) % 2^ByteBits]
FromLeBytes(b) == FoldRight(LAMBDA byte, acc : byte + 2^ByteBits * acc, b, 0)

SegRead(seg, a, n) ==
  IF ~Accessible(seg, a, n) THEN Failed
  ELSE [ok |-> TRUE,
        value |-> FromLeBytes([i \in 1 .. n |->
                     seg.pages[PageOf(seg, a)][OffsetOf(seg, a) + i - 1]])]

SegWrite(seg, a, n, v) ==
  IF ~Accessible(seg, a, n) THEN Failed
  ELSE [ok |-> TRUE,
        seg |-> [seg EXCEPT !.pages[PageOf(seg, a)] =
                   [o \in DOMAIN @ |->
                      IF o \in OffsetOf(seg, a) .. OffsetOf(seg, a) + n - 1
                      THEN Bytes(v, n)[o - OffsetOf(seg, a) + 1] ELSE @[o]]]]

\* A buffer is cut where the pages end: a chunk is a page, an offset in it,
\* the bytes of the buffer already moved and the bytes that it moves.
ChunkAt(seg, address, len, done) ==
  LET a == address + done
      n == Min({PageSize - OffsetOf(seg, a), len - done})
  IN [page |-> PageOf(seg, a), offset |-> OffsetOf(seg, a), from |-> done, len |-> n]

Chunks(seg, address, len) ==
  LET chunks[done \in 0 .. len] ==
        IF done = len THEN <<>>
        ELSE LET c == ChunkAt(seg, address, len, done)
             IN <<c>> \o chunks[done + c.len]
  IN chunks[0]

BufferInBounds(seg, address, len) ==
  /\ address + len < Modulus
  /\ address >= seg.start
  /\ address + len <= EndOf(seg)

read_buffer(seg, address, len) ==
  IF ~BufferInBounds(seg, address, len) THEN Failed
  ELSE LET part(c) == [i \in 1 .. c.len |-> seg.pages[c.page][c.offset + i - 1]]
       IN [ok |-> TRUE,
           data |-> FoldLeft(LAMBDA acc, c : acc \o part(c), <<>>,
                             Chunks(seg, address, len))]

write_buffer(seg, address, data) ==
  IF ~BufferInBounds(seg, address, Len(data)) THEN Failed
  ELSE LET put(pages, c) ==
             [pages EXCEPT ![c.page] =
                [o \in DOMAIN @ |-> IF o \in c.offset .. c.offset + c.len - 1
                                    THEN data[c.from + o - c.offset + 1] ELSE @[o]]]
       IN [ok |-> TRUE,
           seg |-> [seg EXCEPT !.pages =
                      FoldLeft(put, @, Chunks(seg, address, Len(data)))]]

---------------------------------------------------------------------------
(* The processor: cpu = [pc, regs, seg, reservation], seg a function on    *)
(* {"stack", "data", "code"}.                                              *)

NewCpu(entrypoint, segs) ==
  [pc |-> entrypoint, regs |-> [r \in 0 .. 31 |-> 0], seg |-> segs,
   reservation |-> NoAddress]

\* The segments are searched in this order.
SearchOrder == <<"stack", "data", "code">>

Holding(cpu, a, order) == SelectSeq(order, LAMBDA s : contains(cpu.seg[s], a))

get_segment(cpu, a) ==
  LET found == Holding(cpu, a, SearchOrder)
  IN IF found = <<>> THEN Failed ELSE [ok |-> TRUE, name |-> found[1]]

Read(cpu, a, n) ==
  LET found == get_segment(cpu, a)
  IN IF ~found.ok THEN Failed ELSE SegRead(cpu.seg[found.name], a, n)

SaturatingSub(a, b) == IF a > b THEN a - b ELSE 0

\* A store of n bytes that forgets about the bytes in the middle of the word.
TouchesStart(a, n, res) == a = res

\* A store clears the reservation when it touches the reserved word.
Touches(a, n, res) == SaturatingSub(a, res) < 4 /\ SaturatingSub(res, a) < n

\* Stores go to the stack and to the data, never to the code.
Write(cpu, a, n, v) ==
  LET found == Holding(cpu, a, <<"stack", "data">>)
      w == IF found = <<>> THEN Failed ELSE SegWrite(cpu.seg[found[1]], a, n, v)
      lost == cpu.reservation # NoAddress /\ Touches(a, n, cpu.reservation)
  IN IF ~w.ok THEN Failed
     ELSE [ok |-> TRUE,
           cpu |-> [cpu EXCEPT !.seg[found[1]] = w.seg,
                               !.reservation = IF lost THEN NoAddress ELSE @]]

\* The aligned word at once when it is inside the code; else the halves, and
\* the second one only of an instruction that is not compressed.
fetch_instruction(cpu) ==
  LET code == cpu.seg["code"]
      lo == SegRead(code, cpu.pc, 2)
      hi == SegRead(code, Wrap(cpu.pc + 2), 2)
  IN CASE cpu.pc % 4 = 0 /\ contains(code, Wrap(cpu.pc + 3)) -> SegRead(code, cpu.pc, 4)
       [] ~(cpu.pc % 4 = 0 /\ contains(code, Wrap(cpu.pc + 3))) /\ ~lo.ok -> Failed
       [] ~(cpu.pc % 4 = 0 /\ contains(code, Wrap(cpu.pc + 3))) /\ lo.ok ->
            IF lo.value % 4 # 3 THEN lo
            ELSE IF ~hi.ok THEN Failed
            ELSE [ok |-> TRUE, value |-> hi.value * 2^(2 * ByteBits) + lo.value]

---------------------------------------------------------------------------
(* The operations on values.                                               *)

\* Division that truncates, as Rust's, and wraps for the least value by -1.
TruncDiv(a, b) ==
  LET q == Max({a, -a}) \div Max({b, -b})
  IN IF (a < 0) = (b < 0) THEN q ELSE -q

Divide(name, a, b) ==
  CASE name \in {"Div", "Divu"} /\ b = 0 -> Modulus - 1
    [] name \in {"Rem", "Remu"} /\ b = 0 -> a
    [] name = "Div" /\ b # 0 -> Wrap(TruncDiv(Int32(a), Int32(b)))
    [] name = "Rem" /\ b # 0 ->
         Wrap(Int32(a) - Int32(b) * TruncDiv(Int32(a), Int32(b)))
    [] name = "Divu" /\ b # 0 -> a \div b
    [] name = "Remu" /\ b # 0 -> a % b

Multiply(name, a, b) ==
  CASE name = "Mul" -> Wrap(a * b)
    [] name = "Mulh" -> Wrap((Int32(a) * Int32(b)) \div Modulus)
    [] name = "Mulhsu" -> Wrap((Int32(a) * b) \div Modulus)
    [] name = "Mulhu" -> Wrap((a * b) \div Modulus)

Flag(condition) == IF condition THEN 1 ELSE 0

\* Registers with registers; the shifts use the low bits of the second.
Arith(name, a, b) ==
  LET shift == b % WordBits
  IN CASE name = "Add" -> Wrap(a + b)
       [] name = "Sub" -> Wrap(a - b)
       [] name = "Sll" -> Wrap(a * 2^shift)
       [] name = "Slt" -> Flag(Int32(a) < Int32(b))
       [] name = "Sltu" -> Flag(a < b)
       [] name = "Xor" -> a ^^ b
       [] name = "Srl" -> a \div 2^shift
       [] name = "Sra" -> Wrap(Int32(a) \div 2^shift)
       [] name = "Or" -> a | b
       [] name = "And" -> a & b

\* The register operation of each operation with an immediate.
OfImmediate == [Addi |-> "Add", Slli |-> "Sll", Slti |-> "Slt", Sltiu |-> "Sltu",
                Xori |-> "Xor", Srli |-> "Srl", Srai |-> "Sra", Ori |-> "Or",
                Andi |-> "And"]

Taken(name, a, b) ==
  CASE name = "Beq" -> a = b
    [] name = "Bne" -> a # b
    [] name = "Blt" -> Int32(a) < Int32(b)
    [] name = "Bge" -> Int32(a) >= Int32(b)
    [] name = "Bltu" -> a < b
    [] name = "Bgeu" -> a >= b

Modified(name, old, v) ==
  CASE name = "AmoswapW" -> v
    [] name = "AmoaddW" -> Wrap(old + v)
    [] name = "AmoxorW" -> old ^^ v
    [] name = "AmoandW" -> old & v
    [] name = "AmoorW" -> old | v
    [] name = "AmominW" -> Wrap(Min({Int32(old), Int32(v)}))
    [] name = "AmomaxW" -> Wrap(Max({Int32(old), Int32(v)}))
    [] name = "AmominuW" -> Min({old, v})
    [] name = "AmomaxuW" -> Max({old, v})

---------------------------------------------------------------------------
(* One instruction: what each group makes of the processor before the      *)
(* program counter moves on.  Failed leaves the processor as it was.       *)

BranchNames == {"Beq", "Bne", "Blt", "Bge", "Bltu", "Bgeu"}
LoadBytes == [Lb |-> 1, Lbu |-> 1, Lh |-> 2, Lhu |-> 2, Lw |-> 4]
StoreBytes == [Sb |-> 1, Sh |-> 2, Sw |-> 4]
AmoNames == {"AmoswapW", "AmoaddW", "AmoxorW", "AmoandW", "AmoorW",
             "AmominW", "AmomaxW", "AmominuW", "AmomaxuW"}

Done(cpu) == [ok |-> TRUE, cpu |-> cpu]

Load(cpu, op) ==
  LET n == LoadBytes[op.op]
      a == Wrap(cpu.regs[op.rs1] + op.imm)
      got == Read(cpu, a, n)
      value == IF op.op \in {"Lb", "Lh"} THEN Wrap(ToSigned(got.value, n * ByteBits))
               ELSE got.value
  IN IF a % n # 0 \/ ~got.ok THEN Failed
     ELSE Done([cpu EXCEPT !.regs[op.rd] = value])

Store(cpu, op) ==
  LET n == StoreBytes[op.op]
      a == Wrap(cpu.regs[op.rs1] + op.imm)
  IN IF a % n # 0 THEN Failed
     ELSE Write(cpu, a, n, cpu.regs[op.rs2] % 2^(n * ByteBits))

LoadReserved(cpu, op) ==
  LET a == cpu.regs[op.rs1]
      got == Read(cpu, a, 4)
  IN IF a % 4 # 0 \/ ~got.ok THEN Failed
     ELSE Done([cpu EXCEPT !.regs[op.rd] = got.value, !.reservation = a])

StoreConditional(cpu, op) ==
  LET a == cpu.regs[op.rs1]
      written == Write(cpu, a, 4, cpu.regs[op.rs2])
  IN CASE a % 4 # 0 -> Failed
       [] a % 4 = 0 /\ cpu.reservation # a ->
            Done([cpu EXCEPT !.regs[op.rd] = 1, !.reservation = NoAddress])
       [] a % 4 = 0 /\ cpu.reservation = a ->
            IF written.ok
            THEN Done([written.cpu EXCEPT !.regs[op.rd] = 0, !.reservation = NoAddress])
            ELSE Failed

Amo(cpu, op) ==
  LET a == cpu.regs[op.rs1]
      old == Read(cpu, a, 4)
      written == Write(cpu, a, 4, Modified(op.op, old.value, cpu.regs[op.rs2]))
  IN IF a % 4 # 0 \/ ~old.ok THEN Failed
     ELSE IF ~written.ok THEN Failed
     ELSE Done([written.cpu EXCEPT !.regs[op.rd] = old.value])

\* The jumps write the return address after they read the target.
Jump(cpu, op, size) ==
  LET target == Wrap(cpu.regs[op.rs1] + op.imm)
  IN Done([cpu EXCEPT !.regs[op.rd] = Wrap(cpu.pc + size),
                      !.pc = IF op.op = "Jal" THEN Wrap(@ + op.imm)
                             ELSE target - (target % 2)])

Compute(cpu, op) ==
  LET a == cpu.regs[op.rs1]
      b == cpu.regs[op.rs2]
      set(v) == Done([cpu EXCEPT !.regs[op.rd] = v])
  IN CASE op.op \in {"Mul", "Mulh", "Mulhsu", "Mulhu"} -> set(Multiply(op.op, a, b))
       [] op.op \in {"Div", "Divu", "Rem", "Remu"} -> set(Divide(op.op, a, b))
       [] op.op \in DOMAIN OfImmediate ->
            set(Arith(OfImmediate[op.op], a, Wrap(op.imm)))
       [] op.op = "Lui" -> set(Wrap(op.imm))
       [] op.op = "Auipc" -> set(Wrap(cpu.pc + op.imm))
       [] OTHER -> set(Arith(op.op, a, b))

\* ecall is the outcome of the handler, or Failed when there is none.
Perform(cpu, op, size, ecall) ==
  CASE op.op \in DOMAIN LoadBytes -> Load(cpu, op)
    [] op.op \in DOMAIN StoreBytes -> Store(cpu, op)
    [] op.op = "LrW" -> LoadReserved(cpu, op)
    [] op.op = "ScW" -> StoreConditional(cpu, op)
    [] op.op \in AmoNames -> Amo(cpu, op)
    [] op.op \in {"Jal", "Jalr"} -> Jump(cpu, op, size)
    [] op.op \in BranchNames \cup {"Fence"} -> Done(cpu)
    [] op.op = "Ecall" -> ecall
    [] op.op \in {"Break", "Unknown"} -> Failed
    [] OTHER -> Compute(cpu, op)

\* How far the program counter moves after the operation.
Advance(cpu, op, size) ==
  CASE op.op \in {"Jal", "Jalr"} -> 0
    [] op.op \in BranchNames ->
         IF Taken(op.op, cpu.regs[op.rs1], cpu.regs[op.rs2]) THEN op.imm ELSE size
    [] OTHER -> size

\* x0 is written like every register and cleared at the end.
execute(cpu, op, size, ecall) ==
  LET after == Perform(cpu, op, size, ecall)
  IN IF ~after.ok THEN Failed
     ELSE Done([after.cpu EXCEPT !.pc = Wrap(@ + Advance(cpu, op, size)),
                                 !.regs[0] = 0])

---------------------------------------------------------------------------
(* The reference: an assembler, written from the instruction formats of    *)
(* the RISC-V manual.  Sel(imm, <<i, j, ...>>) puts bits i, j, ... of the  *)
(* immediate (two's complement) next to each other, least significant      *)
(* position of the instruction first.                                      *)

Bits(v, width) == [i \in 1 .. width |-> (v \div 2^(i - 1)) % 2]
Sel(imm, positions) == [i \in 1 .. Len(positions) |-> (imm \div 2^positions[i]) % 2]
Run(lo, hi) == [i \in 1 .. hi - lo + 1 |-> lo + i - 1]

FormatR(code, f3, f7, op) ==
  Bits(code, 7) \o Bits(op.rd, 5) \o Bits(f3, 3) \o Bits(op.rs1, 5)
  \o Bits(op.rs2, 5) \o Bits(f7, 7)
FormatI(code, f3, op) ==
  Bits(code, 7) \o Bits(op.rd, 5) \o Bits(f3, 3) \o Bits(op.rs1, 5)
  \o Sel(op.imm, Run(0, 11))
FormatS(f3, op) ==
  Bits(35, 7) \o Sel(op.imm, Run(0, 4)) \o Bits(f3, 3) \o Bits(op.rs1, 5)
  \o Bits(op.rs2, 5) \o Sel(op.imm, Run(5, 11))
FormatB(f3, op) ==
  Bits(99, 7) \o Sel(op.imm, <<11, 1, 2, 3, 4>>) \o Bits(f3, 3) \o Bits(op.rs1, 5)
  \o Bits(op.rs2, 5) \o Sel(op.imm, Run(5, 10) \o <<12>>)
FormatU(code, op) == Bits(code, 7) \o Bits(op.rd, 5) \o Bits(op.imm \div 2^12, 20)
FormatJ(op) ==
  Bits(111, 7) \o Bits(op.rd, 5)
  \o Sel(op.imm, Run(12, 19) \o <<11>> \o Run(1, 10) \o <<20>>)

\* Position of a name in a table, counted from 0.
At(table, name) == CHOOSE i \in 0 .. Len(table) - 1 : table[i + 1] = name

BaseOps == <<"Add", "Sll", "Slt", "Sltu", "Xor", "Srl", "Or", "And">>
MulOps == <<"Mul", "Mulh", "Mulhsu", "Mulhu", "Div", "Divu", "Rem", "Remu">>
ImmOps == <<"Addi", "Slli", "Slti", "Sltiu", "Xori", "Srli", "Ori", "Andi">>
BranchOps == <<"Beq", "Bne", "", "", "Blt", "Bge", "Bltu", "Bgeu">>
LoadOps == <<"Lb", "Lh", "Lw", "", "Lbu", "Lhu">>
StoreOps == <<"Sb", "Sh", "Sw">>
AtomicOps == <<"AmoaddW", "AmoswapW", "LrW", "ScW", "AmoxorW", "", "", "", "AmoorW",
               "", "", "", "AmoandW", "", "", "", "AmominW", "", "", "", "AmomaxW",
               "", "", "", "AmominuW", "", "", "", "AmomaxuW">>

\* Assemble(op, aqrl): the ordering bits concern the atomic instructions.
Assemble(op, aqrl) ==
  LET n == op.op
  IN CASE n \in ToSet(BaseOps) -> FormatR(51, At(BaseOps, n), 0, op)
       [] n \in ToSet(MulOps) -> FormatR(51, At(MulOps, n), 1, op)
       [] n = "Sub" -> FormatR(51, 0, 32, op)
       [] n = "Sra" -> FormatR(51, 5, 32, op)
       [] n \in ToSet(ImmOps) -> FormatI(19, At(ImmOps, n), op)
       [] n = "Srai" -> FormatI(19, 5, op)
       [] n \in ToSet(BranchOps) -> FormatB(At(BranchOps, n), op)
       [] n \in ToSet(LoadOps) -> FormatI(3, At(LoadOps, n), op)
       [] n \in ToSet(StoreOps) -> FormatS(At(StoreOps, n), op)
       [] n \in ToSet(AtomicOps) -> FormatR(47, 2, 4 * At(AtomicOps, n) + aqrl, op)
       [] n = "Lui" -> FormatU(55, op)
       [] n = "Auipc" -> FormatU(23, op)
       [] n = "Jal" -> FormatJ(op)
       [] n = "Jalr" -> FormatI(103, 0, op)
       [] n = "Fence" -> Bits(15, 7) \o Bits(0, 25)
       [] n = "Ecall" -> Bits(115, 7) \o Bits(0, 25)
       [] n = "Break" -> Bits(115, 20) \o Bits(1, 12)

\* Every operation is decoded from the bits the manual gives it, operands and
\* immediate included, whatever the ordering bits of an atomic one.
Decoded(op, aqrl) == decode(Assemble(op, aqrl)) = <<op, 4>>

\* The compressed instructions: [name, d, s, imm] is what an assembler is
\* given (d, s the registers), with the bits of the manual and the 32-bit
\* operation it stands for.
AssembleC(c) ==
  LET Q(q) == Bits(q, 2)
      F(f) == Bits(f, 3)
      D == Bits(c.d, 5)
      S == Bits(c.s, 5)
      Dc == Bits(c.d - 8, 3)
      Sc == Bits(c.s - 8, 3)
      I(p) == Sel(c.imm, p)
  IN CASE c.name = "addi4spn" -> Q(0) \o Dc \o I(<<3, 2, 6, 7, 8, 9, 4, 5>>) \o F(0)
       [] c.name = "lw" -> Q(0) \o Dc \o I(<<6, 2>>) \o Sc \o I(<<3, 4, 5>>) \o F(2)
       [] c.name = "sw" -> Q(0) \o Dc \o I(<<6, 2>>) \o Sc \o I(<<3, 4, 5>>) \o F(6)
       [] c.name \in {"addi", "li", "lui", "slli"} ->
            Q(IF c.name = "slli" THEN 2 ELSE 1)
            \o I(IF c.name = "lui" THEN Run(12, 16) ELSE Run(0, 4)) \o D
            \o I(IF c.name = "lui" THEN <<17>> ELSE <<5>>)
            \o F(CASE c.name = "li" -> 2 [] c.name = "lui" -> 3 [] OTHER -> 0)
       [] c.name \in {"jal", "j"} ->
            Q(1) \o I(<<5, 1, 2, 3, 7, 6, 10, 8, 9, 4, 11>>)
            \o F(IF c.name = "j" THEN 5 ELSE 1)
       [] c.name = "addi16sp" ->
            Q(1) \o I(<<5, 7, 8, 6, 4>>) \o Bits(2, 5) \o I(<<9>>) \o F(3)
       [] c.name \in {"srli", "srai", "andi"} ->
            Q(1) \o I(Run(0, 4)) \o Dc
            \o Bits(At(<<"srli", "srai", "andi">>, c.name), 2) \o I(<<5>>) \o F(4)
       [] c.name \in {"sub", "xor", "or", "and"} ->
            Q(1) \o Sc \o Bits(At(<<"sub", "xor", "or", "and">>, c.name), 2) \o Dc
            \o Bits(3, 3) \o F(4)
       [] c.name \in {"beqz", "bnez"} ->
            Q(1) \o I(<<5, 1, 2, 6, 7>>) \o Dc \o I(<<3, 4, 8>>)
            \o F(IF c.name = "beqz" THEN 6 ELSE 7)
       [] c.name = "lwsp" -> Q(2) \o I(<<6, 7, 2, 3, 4>>) \o D \o I(<<5>>) \o F(2)
       [] c.name = "swsp" -> Q(2) \o S \o I(<<6, 7, 2, 3, 4, 5>>) \o F(6)
       [] c.name \in {"jr", "mv"} -> Q(2) \o S \o D \o Bits(0, 1) \o F(4)
       [] c.name \in {"jalr", "add", "ebreak"} -> Q(2) \o S \o D \o Bits(1, 1) \o F(4)

Expansion(c) ==
  LET n == c.name
  IN CASE n = "addi4spn" -> Op("Addi", c.d, 2, 0, c.imm)
       [] n = "lw" -> Op("Lw", c.d, c.s, 0, c.imm)
       [] n = "sw" -> Op("Sw", 0, c.s, c.d, c.imm)
       [] n = "addi" -> Op("Addi", c.d, c.d, 0, c.imm)
       [] n = "li" -> Op("Addi", c.d, 0, 0, c.imm)
       [] n = "lui" -> Op("Lui", c.d, 0, 0, c.imm)
       [] n = "addi16sp" -> Op("Addi", 2, 2, 0, c.imm)
       [] n = "slli" -> Op("Slli", c.d, c.d, 0, c.imm)
       [] n = "srli" -> Op("Srli", c.d, c.d, 0, c.imm)
       [] n = "srai" -> Op("Srai", c.d, c.d, 0, c.imm)
       [] n = "andi" -> Op("Andi", c.d, c.d, 0, c.imm)
       [] n = "sub" -> Op("Sub", c.d, c.d, c.s, 0)
       [] n = "xor" -> Op("Xor", c.d, c.d, c.s, 0)
       [] n = "or" -> Op("Or", c.d, c.d, c.s, 0)
       [] n = "and" -> Op("And", c.d, c.d, c.s, 0)
       [] n = "jal" -> Op("Jal", 1, 0, 0, c.imm)
       [] n = "j" -> Op("Jal", 0, 0, 0, c.imm)
       [] n = "beqz" -> Op("Beq", 0, c.d, 0, c.imm)
       [] n = "bnez" -> Op("Bne", 0, c.d, 0, c.imm)
       [] n = "lwsp" -> Op("Lw", c.d, 2, 0, c.imm)
       [] n = "swsp" -> Op("Sw", 0, 2, c.s, c.imm)
       [] n = "jr" -> Op("Jalr", 0, c.d, 0, 0)
       [] n = "jalr" -> Op("Jalr", 1, c.d, 0, 0)
       [] n = "mv" -> Op("Add", c.d, 0, c.s, 0)
       [] n = "add" -> Op("Add", c.d, c.d, c.s, 0)
       [] n = "ebreak" -> Break

\* Every compressed instruction is decoded to the operation it abbreviates.
Expanded(c) == decode(AssembleC(c)) = <<Expansion(c), 2>>

---------------------------------------------------------------------------
(* Values.                                                                 *)

BitOf(v, i) == IF i \in 0 .. WordBits - 1 THEN (v \div 2^i) % 2 ELSE 0

\* Products and quotients are the exact ones: the two halves of a product
\* make up the product, quotient and remainder make up the dividend with a
\* remainder of its sign, and the two cases with no such answer (division by
\* zero, the least value by -1) give what the manual fixes for them.
ProductsAndQuotients(a, b) ==
  LET low == Multiply("Mul", a, b)
      sa == Int32(a)
      sb == Int32(b)
      q == Int32(Divide("Div", a, b))
      r == Int32(Divide("Rem", a, b))
      least == -(2^(WordBits - 1))
  IN /\ sa * sb = Int32(Multiply("Mulh", a, b)) * Modulus + low
     /\ sa * b = Int32(Multiply("Mulhsu", a, b)) * Modulus + low
     /\ a * b = Multiply("Mulhu", a, b) * Modulus + low
     /\ b # 0 => /\ a = Divide("Divu", a, b) * b + Divide("Remu", a, b)
                 /\ Divide("Remu", a, b) < b
     /\ b # 0 /\ ~(sa = least /\ sb = -1) =>
          /\ sa = q * sb + r
          /\ Max({r, -r}) < Max({sb, -sb})
          /\ r # 0 => ((r < 0) <=> (sa < 0))
     /\ sa = least /\ sb = -1 => q = least /\ r = 0
     /\ b = 0 => /\ Divide("Div", a, b) = Modulus - 1
                 /\ Divide("Divu", a, b) = Modulus - 1
                 /\ Divide("Rem", a, b) = a
                 /\ Divide("Remu", a, b) = a

\* The other operations, bit by bit, and the branches that go with them.
BitsAndOrder(a, b) ==
  LET s == b % WordBits
      bit(name, i) == BitOf(Arith(name, a, b), i)
  IN /\ \A i \in 0 .. WordBits - 1 :
          /\ bit("Sll", i) = BitOf(a, i - s)
          /\ bit("Srl", i) = BitOf(a, i + s)
          /\ bit("Sra", i) = BitOf(a, Min({i + s, WordBits - 1}))
          /\ bit("And", i) = Min({BitOf(a, i), BitOf(b, i)})
          /\ bit("Or", i) = Max({BitOf(a, i), BitOf(b, i)})
     /\ Arith("Xor", a, b) + 2 * Arith("And", a, b) = a + b
     /\ Wrap(Arith("Sub", a, b) + b) = a
     /\ (Arith("Slt", a, b) = 1) <=> Wrap(a + 2^(WordBits - 1)) < Wrap(b + 2^(WordBits - 1))
     /\ Taken("Blt", a, b) <=> Arith("Slt", a, b) = 1
     /\ Taken("Bltu", a, b) <=> Arith("Sltu", a, b) = 1
     /\ Taken("Bge", a, b) <=> ~Taken("Blt", a, b)
     /\ Taken("Bgeu", a, b) <=> ~Taken("Bltu", a, b)
     /\ {Modified("AmominW", a, b), Modified("AmomaxW", a, b)} = {a, b}
     /\ {Modified("AmominuW", a, b), Modified("AmomaxuW", a, b)} = {a, b}
     /\ Int32(Modified("AmominW", a, b)) <= Int32(Modified("AmomaxW", a, b))

---------------------------------------------------------------------------
(* Memory.                                                                 *)

\* A segment with as many pages as the manifest counts, every byte of its
\* pages marked.
Marked(start, size) ==
  NewSegment(start, size,
    [p \in 0 .. n_pages(start, start + size) - 1 |->
       [o \in 0 .. PageSize - 1 |-> ((p * PageSize + o) \div 2) % 2^ByteBits]]).seg

ByteAt(seg, x) == SegRead(seg, x, 1).value

Inside(seg) == seg.start .. seg.start + seg.size - 1

\* Only the pages bound an aligned access of n bytes to a segment at the
\* bottom of the address space that is shorter than n: the bound in the code
\* wraps around.
PastTheEnd(seg, a, n) ==
  /\ seg.start + seg.size < n
  /\ a >= seg.start
  /\ PageOf(seg, a) \in DOMAIN seg.pages

\* A buffer is written exactly when it lies in the segment, to its own bytes
\* and no others, across any number of pages; it is read back as written; and
\* a half or whole word is its bytes, lowest first. Buffers are refused
\* altogether in a segment that ends with the address space, and an access
\* may go PastTheEnd.
SegmentIsExact(start, size, a, data) ==
  LET seg == Marked(start, size)
      w == write_buffer(seg, a, data)
      own == a .. a + Len(data) - 1
  IN /\ w.ok <=> start <= a /\ a + Len(data) <= start + size /\ start + size < Modulus
     /\ w.ok =>
          /\ \A x \in Inside(seg) :
               ByteAt(w.seg, x) = IF x \in own THEN data[x - a + 1] ELSE ByteAt(seg, x)
          /\ read_buffer(w.seg, a, Len(data)).data = data
     /\ \A n \in {2, 4} :
          /\ SegRead(seg, a, n).ok <=>
               a % n = 0 /\ (a .. a + n - 1 \subseteq Inside(seg) \/ PastTheEnd(seg, a, n))
          /\ SegRead(seg, a, n).ok /\ ~PastTheEnd(seg, a, n) =>
               SegRead(seg, a, n).value = FromLeBytes([i \in 1 .. n |-> ByteAt(seg, a + i - 1)])

\* "Returns true if this segment contains the byte at the specified address"
\* (vm.rs:129), of every segment that can be made, the one of the test whose
\* "last byte has address 0xffffffff" (vm.rs:927) among them.
ContainsItsBytes(start, size) ==
  \A x \in Inside(Marked(start, size)) : contains(Marked(start, size), x)

\* An instruction is fetched exactly when all of it, and not more of it than
\* its two low bits ask for, lies in the code, except PastTheEnd of a code of
\* one byte.
FetchIsExact(start, size, pc) ==
  LET code == Marked(start, size)
      got == fetch_instruction([pc |-> pc, seg |-> [code |-> code]])
      compressed == SegRead(code, pc, 2).ok /\ SegRead(code, pc, 2).value % 4 # 3
      len == IF compressed THEN 2 ELSE 4
      past == PastTheEnd(code, pc, 2)
  IN /\ got.ok <=> pc % 2 = 0 /\ (pc .. pc + len - 1 \subseteq Inside(code) \/ past)
     /\ got.ok /\ ~past =>
          got.value % 2^(len * ByteBits) = FromLeBytes([i \in 1 .. len |-> ByteAt(code, pc + i - 1)])

---------------------------------------------------------------------------
(* Instructions on memory, on a processor with the segments the samples    *)
(* give and the operand registers 5 (address) and 6 (value).               *)

SampleCpu(segs, a, v, reservation) ==
  LET regs == [r \in 0 .. 31 |-> IF r = 5 THEN a ELSE IF r = 6 THEN v ELSE r % 4]
  IN [NewCpu(segs["code"].start, segs) EXCEPT
        !.regs = [regs EXCEPT ![0] = 0], !.reservation = reservation]

MemoryBytes(cpu, s) == [x \in Inside(cpu.seg[s]) |-> ByteAt(cpu.seg[s], x)]

WordAt(cpu, a) == Read(cpu, a, 4)

\* An instruction changes its destination register, the bytes it addresses
\* and the reservation, and nothing else.  x0 stays zero, the code is never written, and as long
\* as a reservation stands its word is the one that was reserved.
InstructionIsContained(cpu, op) ==
  LET after == execute(cpu, op, 4, Failed)
      n == CASE op.op \in DOMAIN StoreBytes -> StoreBytes[op.op]
             [] op.op \in AmoNames \cup {"ScW"} -> 4
             [] OTHER -> 0
      a == Wrap(cpu.regs[op.rs1] + op.imm)
      kept == after.cpu.reservation = cpu.reservation /\ cpu.reservation # NoAddress
  IN after.ok =>
       /\ after.cpu.regs[0] = 0
       /\ \A r \in 0 .. 31 : after.cpu.regs[r] # cpu.regs[r] => r = op.rd
       /\ \A s \in {"stack", "data", "code"} : \A x \in Inside(cpu.seg[s]) :
            ByteAt(after.cpu.seg[s], x) # ByteAt(cpu.seg[s], x) =>
              s # "code" /\ x \in a .. a + n - 1
       /\ kept /\ op.op # "LrW" =>
            WordAt(after.cpu, cpu.reservation) = WordAt(cpu, cpu.reservation)
       /\ op.op = "ScW" =>
            /\ after.cpu.reservation = NoAddress
            /\ op.rd # 0 => (after.cpu.regs[op.rd] = 0 <=> cpu.reservation = a)
       /\ n > 0 /\ ~(op.op = "ScW" /\ cpu.reservation # a) =>
            LET loaded == Read(after.cpu, a, n)
            IN loaded.ok /\ (op.op \in DOMAIN StoreBytes \cup {"ScW"} =>
                               loaded.value = cpu.regs[op.rs2] % 2^(n * ByteBits))
=============================================================================
