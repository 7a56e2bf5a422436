---------------------------- MODULE CpuDecode ----------------------------
(***************************************************************************)
(* How fetch_and_decode (cpu.c) maps an opcode to an instruction function,  *)
(* and what each instruction function does in each of its M-cycles, as far  *)
(* as control goes.  Functions that differ only in the data they compute    *)
(* (add_a_r8, sub_a_r8, ...) share a name.                                  *)
(*                                                                          *)
(* A function is the sequence of its M-cycles (the cases of its switch on   *)
(* instr_cycle); an M-cycle is the set of the things it does:               *)
(*   "imm"    read a byte at PC and increment PC                            *)
(*   "read"   read a byte elsewhere         "write"   write one elsewhere   *)
(*   "pop"    read at SP, increment SP      "dec_sp"  decrement SP          *)
(*   "push"   write at SP, decrement SP     "poke"    write at SP           *)
(*   "new_sp" SP gets a computed value      "set_r16" so does the register   *)
(*                                          of bits 5..4, which may be SP   *)
(*   "jump"   PC gets a target                                              *)
(*   "check"  check_cond                    "if"      goes on only if cond; *)
(*                                          otherwise the cycle is the last *)
(*   "di", "ei"  schedule a change of IME   "ime"     IME := 1 at once      *)
(*   "halt"   stop until an interrupt       "end"     instr_complete := true*)
(*   "dec_pc", "receive", "vector"          the entry to a handler          *)
(***************************************************************************)
EXTENDS Integers, Sequences

Opcodes == 0..255

\* get_bits(num, high, low) of byte.h.
get_bits(num, high, low) == (num \div 2^low) % 2^(high - low + 1)

\* Is the register field in bits 2..0 the memory operand (HL)?
HasHl(op) == get_bits(op, 2, 0) = 6

---------------------------------------------------------------------------
\* fetch_and_decode, one definition per block of its chain of tests.

\* Mutant: BIT writes its operand back.
DecodeCB_bitWrites(op) == IF HasHl(op) THEN "cb_hlmem" ELSE "cb_r8"

DecodeCB(op) ==
    IF HasHl(op)
    THEN IF get_bits(op, 7, 6) = 1 THEN "bit_b3_hlmem" ELSE "cb_hlmem"
    ELSE "cb_r8"

DecodeBlock0(op) ==
    LET low == get_bits(op, 3, 0)
    IN  CASE op = 0 -> "nop"
          [] low = 1 -> "ld_r16_imm16"
          [] low = 2 -> "ld_r16mem_a"
          [] low = 10 -> "ld_a_r16mem"
          [] op = 8 -> "ld_imm16_sp"
          [] low = 3 \/ low = 11 -> "incdec_r16"
          [] low = 9 -> "add_hl_r16"
          [] get_bits(op, 2, 0) \in {4, 5} ->
                IF op = 52 \/ op = 53 THEN "incdec_hlmem" ELSE "incdec_r8"
          [] HasHl(op) -> IF op = 54 THEN "ld_hlmem_imm8" ELSE "ld_r8_imm8"
          [] get_bits(op, 2, 0) = 7 -> "alu_a"
          [] op = 24 -> "jr_imm8"
          [] op = 16 -> "stop"
          [] OTHER -> "jr_cond_imm8"

DecodeBlock1(op) ==
    CASE op = 118 -> "halt"
      [] op # 118 /\ get_bits(op, 5, 3) = 6 -> "ld_hlmem_r8"
      [] op # 118 /\ get_bits(op, 5, 3) # 6 ->
            IF HasHl(op) THEN "ld_r8_hlmem" ELSE "ld_r8_r8"

DecodeBlock2(op) == IF HasHl(op) THEN "alu_a_hlmem" ELSE "alu_a"

DecodeBlock3(op) ==
    LET low == get_bits(op, 2, 0)
        cc == get_bits(op, 7, 5) = 6
    IN  CASE HasHl(op) -> "alu_a_imm8"
          [] cc /\ low = 0 -> "ret_cond"
          [] op = 201 -> "ret"
          [] op = 217 -> "reti"
          [] cc /\ low = 2 -> "jp_cond_imm16"
          [] op = 195 -> "jp_imm16"
          [] op = 233 -> "jp_hl"
          [] cc /\ low = 4 -> "call_cond_imm16"
          [] op = 205 -> "call_imm16"
          [] low = 7 -> "rst_tgt3"
          [] get_bits(op, 3, 0) = 1 -> "pop_r16stk"
          [] get_bits(op, 3, 0) = 5 -> "push_r16stk"
          [] op = 226 -> "ldh_cmem_a"
          [] op = 224 -> "ldh_imm8mem_a"
          [] op = 234 -> "ld_imm16mem_a"
          [] op = 242 -> "ld_a_cmem"
          [] op = 240 -> "ldh_a_imm8mem"
          [] op = 250 -> "ld_a_imm16mem"
          [] op = 232 -> "add_sp_imm8"
          [] op = 248 -> "ld_hl_sp_imm8"
          [] op = 249 -> "ld_sp_hl"
          [] op = 243 -> "di"
          [] op = 251 -> "ei"
          [] OTHER -> "nop"     \* 0xCB, and the opcodes no test matches

\* The instruction function of an opcode; prefixed says that the byte before it
\* was the prefix 0xCB.
Decode(op, prefixed) ==
    CASE prefixed -> DecodeCB(op)
      [] ~prefixed /\ get_bits(op, 7, 6) = 0 -> DecodeBlock0(op)
      [] ~prefixed /\ get_bits(op, 7, 6) = 1 -> DecodeBlock1(op)
      [] ~prefixed /\ get_bits(op, 7, 6) = 2 -> DecodeBlock2(op)
      [] ~prefixed /\ get_bits(op, 7, 6) = 3 -> DecodeBlock3(op)

---------------------------------------------------------------------------
\* The M-cycles of the instruction functions, in the order of the source.

Idle == {}
End == {"end"}

LoadCycles16 ==
    [nop          |-> <<End>>,
     ld_r16_imm16 |-> <<{"imm"}, {"imm"}, {"set_r16", "end"}>>,
     ld_r16mem_a  |-> <<{"write"}, End>>,
     ld_a_r16mem  |-> <<{"read"}, End>>,
     ld_imm16_sp  |-> <<{"imm"}, {"imm"}, {"write"}, {"write"}, End>>]

ArithCycles16 ==
    [incdec_r16 |-> <<{"set_r16"}, End>>,
     add_hl_r16 |-> <<Idle, End>>]

IncDecCycles ==
    [incdec_r8     |-> <<End>>,
     incdec_hlmem  |-> <<{"read"}, {"write"}, End>>,
     ld_r8_imm8    |-> <<{"imm"}, End>>,
     ld_hlmem_imm8 |-> <<{"imm"}, {"write"}, End>>]

\* rlca, rrca, rla, rra, daa, cpl, scf and ccf, and the two-operand operations
\* of block 2 with a register.
AccumulatorCycles == [alu_a |-> <<End>>]

JrCycles ==
    [jr_imm8      |-> <<{"imm"}, Idle, {"jump", "end"}>>,
     jr_cond_imm8 |-> <<{"imm", "check"}, {"if"}, {"jump", "end"}>>]

\* stop never completes: the machine stays in it.
StopHaltCycles ==
    [stop |-> <<Idle>>,
     halt |-> <<{"halt", "end"}>>]

\* Mutant: a load from memory completes in the cycle of the access.
LoadCycles8_early ==
    [ld_hlmem_r8 |-> <<{"write"}, End>>,
     ld_r8_hlmem |-> <<{"read", "end"}>>,
     ld_r8_r8    |-> <<End>>]

LoadCycles8 ==
    [ld_hlmem_r8 |-> <<{"write"}, End>>,
     ld_r8_hlmem |-> <<{"read"}, End>>,
     ld_r8_r8    |-> <<End>>]

AluMemCycles == [alu_a_hlmem |-> <<{"read"}, End>>]

AluImmCycles == [alu_a_imm8 |-> <<{"imm"}, End>>]

ReturnCycles ==
    [ret_cond |-> <<{"check"}, {"if", "pop"}, {"pop"}, {"jump"}, End>>,
     ret      |-> <<{"pop"}, {"pop"}, {"jump"}, End>>,
     reti     |-> <<{"pop"}, {"pop"}, {"jump", "ime"}, End>>]

JumpCallCycles ==
    [jp_cond_imm16   |-> <<{"imm"}, {"imm", "check"}, {"if", "jump"}, End>>,
     jp_imm16        |-> <<{"imm"}, {"imm"}, {"jump"}, End>>,
     jp_hl           |-> <<{"jump", "end"}>>,
     call_cond_imm16 |-> <<{"imm"}, {"imm", "check"}, {"if", "dec_sp"},
                           {"push"}, {"poke", "jump"}, End>>,
     call_imm16      |-> <<{"imm"}, {"imm"}, {"dec_sp"}, {"push"}, {"poke", "jump"}, End>>,
     rst_tgt3        |-> <<{"dec_sp"}, {"push"}, {"poke", "jump"}, End>>]

\* Mutant: push does not decrement SP first.
StackCycles_noDec ==
    [pop_r16stk  |-> <<{"pop"}, {"pop"}, End>>,
     push_r16stk |-> <<Idle, {"push"}, {"poke"}, End>>]

StackCycles ==
    [pop_r16stk  |-> <<{"pop"}, {"pop"}, End>>,
     push_r16stk |-> <<{"dec_sp"}, {"push"}, {"poke"}, End>>]

HighLoadCycles ==
    [ldh_cmem_a    |-> <<{"write"}, End>>,
     ldh_imm8mem_a |-> <<{"imm"}, {"write"}, End>>,
     ld_imm16mem_a |-> <<{"imm"}, {"imm"}, {"write"}, End>>,
     ld_a_cmem     |-> <<{"read"}, End>>,
     ldh_a_imm8mem |-> <<{"imm"}, {"read"}, End>>,
     ld_a_imm16mem |-> <<{"imm"}, {"imm"}, {"read"}, End>>]

SpCycles ==
    [add_sp_imm8   |-> <<{"imm"}, Idle, Idle, {"new_sp", "end"}>>,
     ld_hl_sp_imm8 |-> <<{"imm"}, Idle, End>>,
     ld_sp_hl      |-> <<{"new_sp"}, End>>]

InterruptEnableCycles ==
    [di |-> <<{"di", "end"}>>,
     ei |-> <<{"ei", "end"}>>]

CbCycles ==
    [cb_r8        |-> <<End>>,
     cb_hlmem     |-> <<{"read"}, {"write"}, End>>,
     bit_b3_hlmem |-> <<{"read"}, End>>]

\* The sequence the CPU runs instead of the next instruction when it takes an
\* interrupt; "receive" asks the interrupt controller for the source.
CallIntCycles ==
    [call_int |-> <<{"dec_pc"}, {"dec_sp"}, {"push", "receive"}, {"poke", "vector"}, End>>]

Tables ==
    {LoadCycles16, ArithCycles16, IncDecCycles, AccumulatorCycles, JrCycles, StopHaltCycles,
     LoadCycles8, AluMemCycles, AluImmCycles, ReturnCycles, JumpCallCycles, StackCycles,
     HighLoadCycles, SpCycles, InterruptEnableCycles, CbCycles, CallIntCycles}

\* The table that a function is in.
TableOf(func) == CHOOSE t \in Tables : func \in DOMAIN t

Functions == UNION {DOMAIN t : t \in Tables}
Cycles == [func \in Functions |-> TableOf(func)[func]]
==========================================================================
