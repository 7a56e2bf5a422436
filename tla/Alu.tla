------------------------------- MODULE Alu -------------------------------
(***************************************************************************)
(* Arithmetic of the CPU (cpu.c): addition and subtraction bit by bit, with    *)
(* the flags, the decimal correction DAA after them, and the instructions on   *)
(* 16 bits that work on one byte in an M-cycle and on the other in the next.   *)
(***************************************************************************)
EXTENDS Integers

CONSTANTS
    As, Bs,      \* operands of 8 bits
    Words        \* values of HL, SP and the other register pairs

VARIABLES
    a_reg, flags,        \* Z, N, H and C
    operand,             \* the other operand of 8 bits, or the offset to SP
    hl_reg, r16,         \* r16: BC, DE or SP
    wz, adj,             \* wz_latch, and what is added to the upper byte of SP
    pc,                  \* what the CPU has done, and is in the middle of
    given                \* history: the operands, and the carry that was added

alu_vars == <<a_reg, flags, operand, hl_reg, r16, wz, adj, pc, given>>

Bytes == 0..255
Bit == {0, 1}
Flag(b) == IF b THEN 1 ELSE 0
BitOf(n, i) == (n \div 2 ^ i) % 2
Hi(w) == w \div 256
Lo(w) == w % 256
Word(hi, lo) == 256 * (hi % 256) + lo
In12(n) == n % 4096
In16(n) == n % 65536
Carry12(n) == Flag(n > 4095)
Carry16(n) == Flag(n > 65535)
IsWord(w) == w \in Int /\ w >= 0 /\ w < 65536

ASSUME AluAssumption == As \subseteq Bytes /\ Bs \subseteq Bytes /\ \A w \in Words : IsWord(w)

---------------------------------------------------------------------------
\* The loop of add_u8_u8 and sub_u8_u8: carry[i] goes into bit i.

Carries(n1, n2, c_in) ==
    LET carry[i \in 0..8] ==
            IF i = 0 THEN c_in
            ELSE IF BitOf(n1, i - 1) + BitOf(n2, i - 1) + carry[i - 1] >= 2 THEN 1 ELSE 0
    IN  carry

\* Mutant: two bits that are 1 do not keep a borrow.
Borrows_lost(n1, n2, b_in) ==
    LET borrow[i \in 0..8] ==
            IF i = 0 THEN b_in
            ELSE IF \/ BitOf(n1, i - 1) = 0 /\ BitOf(n2, i - 1) = 1
                    \/ BitOf(n1, i - 1) = 0 /\ BitOf(n2, i - 1) = 0 /\ borrow[i - 1] = 1
                 THEN 1 ELSE 0
    IN  borrow

Borrows(n1, n2, b_in) ==
    LET borrow[i \in 0..8] ==
            IF i = 0 THEN b_in
            ELSE IF \/ BitOf(n1, i - 1) = 0 /\ BitOf(n2, i - 1) = 1
                    \/ BitOf(n1, i - 1) = BitOf(n2, i - 1) /\ borrow[i - 1] = 1
                 THEN 1 ELSE 0
    IN  borrow

\* The exclusive or of the operands and of what is carried into each bit.
Bitwise3(n1, n2, carry) ==
    LET bit(i) == (BitOf(n1, i) + BitOf(n2, i) + carry[i]) % 2
    IN  bit(0) + 2 * bit(1) + 4 * bit(2) + 8 * bit(3)
        + 16 * bit(4) + 32 * bit(5) + 64 * bit(6) + 128 * bit(7)

Outcome(result, negative, carry) ==
    [result |-> result, z |-> Flag(result = 0), n |-> negative, h |-> carry[4], c |-> carry[8]]

add_u8_u8(n1, n2, c_in) ==
    LET carry == Carries(n1, n2, c_in) IN Outcome(Bitwise3(n1, n2, carry), 0, carry)

sub_u8_u8(n1, n2, b_in) ==
    LET borrow == Borrows(n1, n2, b_in) IN Outcome(Bitwise3(n1, n2, borrow), 1, borrow)

FlagsOf(r) == [z |-> r.z, n |-> r.n, h |-> r.h, c |-> r.c]

\* Mutant: the upper digit is corrected only from A0 on.
DaaOffset_upper ==
    (IF (flags.n = 0 /\ a_reg % 16 > 9) \/ flags.h = 1 THEN 6 ELSE 0)
    + (IF (flags.n = 0 /\ a_reg >= 160) \/ flags.c = 1 THEN 96 ELSE 0)

DaaOffset ==
    (IF (flags.n = 0 /\ a_reg % 16 > 9) \/ flags.h = 1 THEN 6 ELSE 0)
    + (IF (flags.n = 0 /\ a_reg > 153) \/ flags.c = 1 THEN 96 ELSE 0)

---------------------------------------------------------------------------
NoFlags == [z |-> 0, n |-> 0, h |-> 0, c |-> 0]

\* Before an instruction on 8 bits, and before one on 16 bits.
AluInit ==
    /\ \/ /\ a_reg \in As /\ operand \in Bs
          /\ \E c \in Bit : flags = [NoFlags EXCEPT !.c = c]
          /\ hl_reg = 0 /\ r16 = 0
          /\ pc = "8 bits"
       \/ /\ a_reg = 0 /\ operand \in Bs
          /\ flags = NoFlags
          /\ hl_reg \in Words /\ r16 \in Words
          /\ pc = "16 bits"
    /\ wz = 0 /\ adj = 0
    /\ given = [a |-> a_reg, c |-> 0, hl |-> hl_reg, sp |-> r16]

Goes(from, to) == pc = from /\ pc' = to /\ UNCHANGED operand

\* ADC adds the flag and ADD does not; so with SBC and SUB.
CarryIn(with) == IF with THEN flags.c ELSE 0

Add(with) ==
    /\ Goes("8 bits", "sum")
    /\ LET r == add_u8_u8(a_reg, operand, CarryIn(with))
       IN  a_reg' = r.result /\ flags' = FlagsOf(r)
    /\ given' = [given EXCEPT !.c = CarryIn(with)]
    /\ UNCHANGED <<hl_reg, r16, wz, adj>>

Subtract(with) ==
    /\ Goes("8 bits", "difference")
    /\ LET r == sub_u8_u8(a_reg, operand, CarryIn(with))
       IN  a_reg' = r.result /\ flags' = FlagsOf(r)
    /\ given' = [given EXCEPT !.c = CarryIn(with)]
    /\ UNCHANGED <<hl_reg, r16, wz, adj>>

\* CP subtracts, and drops the result.
Compare ==
    /\ Goes("8 bits", "comparison")
    /\ flags' = FlagsOf(sub_u8_u8(a_reg, operand, 0))
    /\ UNCHANGED <<a_reg, hl_reg, r16, wz, adj, given>>

daa ==
    /\ Goes("sum", "decimal sum") \/ Goes("difference", "decimal difference")
    /\ a_reg' = (IF flags.n = 1 THEN a_reg - DaaOffset ELSE a_reg + DaaOffset) % 256
    /\ flags' = [flags EXCEPT !.z = Flag(a_reg' = 0), !.h = 0,
                              !.c = Flag(DaaOffset >= 96)]
    /\ UNCHANGED <<hl_reg, r16, wz, adj, given>>

\* add_hl_r16, its two M-cycles; the other register may be HL.
Addend(self) == IF self THEN hl_reg ELSE r16

AddHlLow(self) ==
    /\ Goes("16 bits", IF self THEN "HL + HL" ELSE "HL + r16")
    /\ LET r == add_u8_u8(Lo(hl_reg), Lo(Addend(self)), 0)
       IN  /\ hl_reg' = Word(Hi(hl_reg), r.result)
           /\ flags' = [FlagsOf(r) EXCEPT !.z = flags.z]
    /\ UNCHANGED <<a_reg, r16, wz, adj, given>>

\* Mutant: the carry of the lower byte is left out.
AddHlHigh_noCarry ==
    /\ Goes("HL + HL", "done HL + HL") \/ Goes("HL + r16", "done HL + r16")
    /\ LET r == add_u8_u8(Hi(hl_reg), Hi(Addend(pc = "HL + HL")), 0)
       IN  /\ hl_reg' = Word(r.result, Lo(hl_reg))
           /\ flags' = [FlagsOf(r) EXCEPT !.z = flags.z]
    /\ UNCHANGED <<a_reg, r16, wz, adj, given>>

AddHlHigh ==
    /\ Goes("HL + HL", "done HL + HL") \/ Goes("HL + r16", "done HL + r16")
    /\ LET r == add_u8_u8(Hi(hl_reg), Hi(Addend(pc = "HL + HL")), flags.c)
       IN  /\ hl_reg' = Word(r.result, Lo(hl_reg))
           /\ flags' = [FlagsOf(r) EXCEPT !.z = flags.z]
    /\ UNCHANGED <<a_reg, r16, wz, adj, given>>

\* 1 for a carry out of an addition of a positive offset, -1 for none out of one of a
\* negative offset.
calc_adj(carry, sign) ==
    IF carry = 1 /\ sign = 0 THEN 1 ELSE IF carry = 0 /\ sign = 1 THEN -1 ELSE 0

\* The lower byte of SP + e goes to Z in add_sp_imm8, and to L in ld_hl_sp_imm8; then the
\* upper byte to W or H. r16 is SP here.
AddSpLow(into_hl) ==
    /\ Goes("16 bits", IF into_hl THEN "HL = SP + e" ELSE "WZ = SP + e")
    /\ LET r == add_u8_u8(Lo(r16), operand, 0) IN
       /\ IF into_hl THEN hl_reg' = Word(Hi(hl_reg), r.result) /\ wz' = Word(Hi(wz), operand)
                     ELSE wz' = Word(Hi(wz), r.result) /\ UNCHANGED hl_reg
       /\ flags' = [FlagsOf(r) EXCEPT !.z = 0]
       /\ adj' = calc_adj(r.c, BitOf(operand, 7))
    /\ UNCHANGED <<a_reg, r16, given>>

Upper == (Hi(r16) + adj) % 256

AddSpHigh ==
    /\ \/ /\ Goes("HL = SP + e", "done HL = SP + e")
          /\ hl_reg' = 256 * Upper + Lo(hl_reg) /\ UNCHANGED wz
       \/ /\ Goes("WZ = SP + e", "WZ done")
          /\ wz' = 256 * Upper + Lo(wz) /\ UNCHANGED hl_reg
    /\ UNCHANGED <<a_reg, flags, r16, adj, given>>

AddSpLoad ==
    /\ Goes("WZ done", "done SP + e")
    /\ r16' = wz
    /\ UNCHANGED <<a_reg, flags, hl_reg, wz, adj, given>>

AluNext ==
    \/ (\E with \in BOOLEAN : Add(with) \/ Subtract(with)) \/ Compare \/ daa
    \/ (\E self \in BOOLEAN : AddHlLow(self)) \/ AddHlHigh
    \/ (\E into_hl \in BOOLEAN : AddSpLow(into_hl)) \/ AddSpHigh \/ AddSpLoad

AluSpec == AluInit /\ [][AluNext]_alu_vars

---------------------------------------------------------------------------
\* Every register stays a byte or a word.
AluTypeOK ==
    /\ a_reg \in Bytes /\ operand \in Bytes
    /\ flags \in [z : Bit, n : Bit, h : Bit, c : Bit]
    /\ IsWord(hl_reg) /\ IsWord(r16) /\ IsWord(wz) /\ adj \in {-1, 0, 1}
    /\ given \in [a : Bytes, c : Bit, hl : Int, sp : Int] /\ IsWord(given.hl) /\ IsWord(given.sp)

\* The result and the flags of the loops over the bits are those of arithmetic: C says
\* whether the result did not fit in the byte, and H in its lower digit.
BytesRight ==
    /\ pc = "sum" =>
        LET sum == given.a + operand + given.c IN
        /\ a_reg = sum % 256 /\ flags.c = Flag(sum > 255)
        /\ flags.h = Flag((given.a % 16) + (operand % 16) + given.c > 15)
        /\ flags.z = Flag(sum % 256 = 0)
    /\ pc = "difference" =>
        LET difference == given.a - operand - given.c IN
        /\ a_reg = difference % 256 /\ flags.c = Flag(difference < 0)
        /\ flags.h = Flag((given.a % 16) - (operand % 16) - given.c < 0)
        /\ flags.z = Flag(difference % 256 = 0)
    /\ pc = "comparison" =>
        a_reg = given.a /\ flags.z = Flag(a_reg = operand) /\ flags.c = Flag(a_reg < operand)

\* After an addition or a subtraction of two numbers of two decimal digits DAA leaves the
\* decimal result and carry, also in the middle of a longer number.
IsDecimal(n) == n % 16 <= 9 /\ n \div 16 <= 9
Decimal(n) == 10 * (n \div 16) + (n % 16)

DecimalRight ==
    IsDecimal(given.a) /\ IsDecimal(operand) =>
        /\ pc = "decimal sum" =>
            LET sum == Decimal(given.a) + Decimal(operand) + given.c
            IN  IsDecimal(a_reg) /\ Decimal(a_reg) = sum % 100 /\ flags.c = Flag(sum > 99)
        /\ pc = "decimal difference" =>
            LET difference == Decimal(given.a) - Decimal(operand) - given.c
            IN  /\ IsDecimal(a_reg) /\ Decimal(a_reg) = difference % 100
                /\ flags.c = Flag(difference < 0)

\* The two M-cycles of a sum of 16 bits make one sum; adding HL to itself is right although
\* the first M-cycle has changed its lower byte, and C and H are those of the upper byte.
HlRight ==
    pc \in {"done HL + HL", "done HL + r16"} =>
        LET addend == IF pc = "done HL + HL" THEN given.hl ELSE r16
            sum == given.hl + addend
        IN  /\ hl_reg = In16(sum) /\ flags.c = Carry16(sum)
            /\ flags.h = Carry12(In12(given.hl) + In12(addend))

Signed(e) == IF e < 128 THEN e ELSE e - 256

\* SP + e, computed a byte at a time with a correction of the upper byte, is the sum with
\* e as a signed number of eight bits, whether it goes to SP or to HL.
SpRight ==
    LET sum == In16(given.sp + Signed(operand))
    IN  /\ pc = "done SP + e" => r16 = sum
        /\ pc = "done HL = SP + e" => hl_reg = sum /\ r16 = given.sp

\* What the first M-cycle leaves to the second: the lower byte, and a carry or adj for the
\* upper one.
Unchanged ==
    pc \in {"8 bits", "16 bits"} =>
        a_reg = given.a /\ hl_reg = given.hl /\ r16 = given.sp /\ wz = 0 /\ adj = 0

LastWas ==
    /\ pc = "sum" => flags.n = 0
    /\ pc = "difference" => flags.n = 1

HlHalfway ==
    pc \in {"HL + HL", "HL + r16"} =>
        LET sum == Lo(given.hl) + Lo(IF pc = "HL + HL" THEN given.hl ELSE r16)
        IN  hl_reg = Word(Hi(given.hl), sum % 256) /\ flags.c = (sum \div 256)

SpHalfway ==
    /\ pc \in {"HL = SP + e", "WZ = SP + e"} =>
        /\ r16 = given.sp
        /\ (IF pc = "HL = SP + e" THEN Lo(hl_reg) ELSE Lo(wz)) = (Lo(r16) + operand) % 256
        /\ adj = ((Lo(r16) + operand) \div 256) - (operand \div 128)
    /\ pc = "WZ done" => r16 = given.sp /\ wz = In16(r16 + Signed(operand))

Halfway == Unchanged /\ LastWas /\ HlHalfway /\ SpHalfway

\* Sums of 16 bits, in two halves, are right, and every register keeps its width.
WordsRight == AluTypeOK /\ Halfway /\ HlRight /\ SpRight
==========================================================================
