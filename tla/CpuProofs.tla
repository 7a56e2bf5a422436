---------------------------- MODULE CpuProofs ----------------------------
(***************************************************************************)
(* The control of the CPU, for every instruction and all requests.          *)
(*                                                                          *)
(* An M-cycle is a set of things that the CPU does, and Fits says which of    *)
(* them may come together; that no function of the tables does more is        *)
(* proved table by table.  CycleKeeps turns this into what every M-cycle does *)
(* (Common); the M-cycle then ends in the entry to a handler, in the fetch of *)
(* the next instruction or of the byte after 0xCB, or its function goes on,   *)
(* and each of the three keeps CpuInv.  The return address is right since     *)
(* ReturnAhead and PreciseReturn follow PC through the fetch that is dropped. *)
(*                                                                          *)
(* For the time and the bytes an instruction takes, each function is summed    *)
(* up (LenOf, ImmOf, SpOf, IfAt, Jumping), again table by table; the opcodes   *)
(* are compared with the reference one by one; and Progress, which is          *)
(* inductive next to CpuInv, says how far the function in progress has come. *)
(*                                                                          *)
(* The arithmetic (Alu) comes last, for all bytes and words: the loops over    *)
(* the bits are sums and differences, DAA makes them decimal, and the two      *)
(* halves of a sum of 16 bits fit together.  AluInv, which is inductive, says  *)
(* what an M-cycle leaves to the next.                                       *)
(***************************************************************************)
EXTENDS Cpu, Alu, FiniteSetTheorems, TLAPS

---------------------------------------------------------------------------
\* Addresses.

\* Arithmetic on addresses stays in range.
LEMMA PlusType ==
    ASSUME NEW a \in Int, NEW n \in Int
    PROVE  Plus(a, n) \in Addresses
  BY CpuAssumption DEF Plus, Addresses

\* Going back undoes going forth, at both ends of the memory too.
LEMMA PlusMinus ==
    ASSUME NEW a \in Addresses
    PROVE  /\ Plus(Plus(a, 1), -1) = a
           /\ Plus(Plus(a, -1), 1) = a
  <1>1. ADDRESSES \in Int /\ ADDRESSES > 0 /\ a \in Int /\ a >= 0 /\ a < ADDRESSES
    BY CpuAssumption DEF Addresses
  <1>2. /\ \A x \in 0..(ADDRESSES - 1) : x % ADDRESSES = x
        /\ ADDRESSES % ADDRESSES = 0
        /\ -1 % ADDRESSES = ADDRESSES - 1
    BY <1>1
  <1>3. Plus(Plus(a, 1), -1) = a
    <2>1. CASE a + 1 < ADDRESSES
      BY <1>1, <1>2, <2>1 DEF Plus
    <2>2. CASE a + 1 = ADDRESSES
      BY <1>1, <1>2, <2>2 DEF Plus
    <2> QED
      BY <1>1, <2>1, <2>2
  <1>4. Plus(Plus(a, -1), 1) = a
    <2>1. CASE a = 0
      BY <1>1, <1>2, <2>1 DEF Plus
    <2>2. CASE a > 0
      BY <1>1, <1>2, <2>2 DEF Plus
    <2> QED
      BY <1>1, <2>1, <2>2
  <1> QED
    BY <1>3, <1>4

\* One step after another.
LEMMA PlusPlus ==
    ASSUME NEW a \in Int, NEW m \in Int, NEW n \in {-1, 1}
    PROVE  Plus(Plus(a, m), n) = Plus(a, m + n)
  <1> DEFINE x == a + m
             q == x \div ADDRESSES
             r == x % ADDRESSES
  <1>1. ADDRESSES \in Int /\ ADDRESSES > 0 /\ x \in Int
    BY CpuAssumption
  <1>2. q \in Int /\ r \in 0..(ADDRESSES - 1) /\ x = ADDRESSES * q + r
    BY <1>1
  <1> HIDE DEF q, r
  <1>3. \A k \in Int, s \in 0..(ADDRESSES - 1) : (ADDRESSES * k + s) % ADDRESSES = s
    BY <1>1
  <1>4. CASE r + n \in 0..(ADDRESSES - 1)
    <2>1. (r + n) % ADDRESSES = r + n
      BY <1>1, <1>4
    <2>2. x + n = ADDRESSES * q + (r + n)
      BY <1>1, <1>2
    <2>3. (x + n) % ADDRESSES = r + n
      BY <1>2, <1>3, <1>4, <2>2
    <2> QED
      BY <2>1, <2>3 DEF Plus, r
  <1>5. CASE r + n = ADDRESSES
    <2>1. (r + n) % ADDRESSES = 0
      BY <1>1, <1>5
    <2>2. q + 1 \in Int /\ 0 \in 0..(ADDRESSES - 1) /\ x + n = ADDRESSES * (q + 1) + 0
      BY <1>1, <1>2, <1>5
    <2>3. (x + n) % ADDRESSES = 0
      BY <1>3, <2>2, Zenon
    <2> QED
      BY <2>1, <2>3 DEF Plus, r
  <1>6. CASE r + n = -1
    <2>1. (r + n) % ADDRESSES = ADDRESSES - 1
      BY <1>1, <1>6
    <2>2. /\ q - 1 \in Int /\ ADDRESSES - 1 \in 0..(ADDRESSES - 1)
          /\ x + n = ADDRESSES * (q - 1) + (ADDRESSES - 1)
      BY <1>1, <1>2, <1>6
    <2>3. (x + n) % ADDRESSES = ADDRESSES - 1
      BY <1>3, <2>2, Zenon
    <2> QED
      BY <2>1, <2>3 DEF Plus, r
  <1> QED
    BY <1>1, <1>2, <1>4, <1>5, <1>6

---------------------------------------------------------------------------
\* The table of M-cycles.

\* What an M-cycle of the function func does not do: use the bus twice; HALT, EI and DI
\* have one M-cycle, which is their end, and HALT moves neither PC nor SP.
Fits(func, acts) ==
    /\ \A a, b \in acts \cap (BusActs \cup End) : a = b
    /\ "halt" \in acts <=> func = "halt"
    /\ func = "halt" => acts = {"halt", "end"}
    /\ func = "nop" => "end" \in acts
    /\ "di" \in acts => func = "di"
    /\ "ei" \in acts => func = "ei" /\ "end" \in acts

BodyFits(func, body) ==
    /\ Len(body) \in Nat \ {0}
    /\ \A i \in 1..Len(body) : Fits(func, body[i])

\* What an instruction function does in all: its M-cycles, the bytes it reads at PC, and
\* the slots by which SP moves; the M-cycle in which it ends if its condition does not
\* hold, or 0; and whether it may leave the sequence of instructions.
LenOf(func) ==
    CASE func \in {"nop", "incdec_r8", "alu_a", "stop", "halt", "ld_r8_r8", "jp_hl", "di",
                   "ei", "cb_r8"} -> 1
      [] func \in {"ld_r16mem_a", "ld_a_r16mem", "incdec_r16", "add_hl_r16", "ld_r8_imm8",
                   "ld_hlmem_r8", "ld_r8_hlmem", "alu_a_hlmem", "alu_a_imm8", "ldh_cmem_a",
                   "ld_a_cmem", "ld_sp_hl", "bit_b3_hlmem"} -> 2
      [] func \in {"ld_r16_imm16", "incdec_hlmem", "ld_hlmem_imm8", "jr_imm8",
                   "jr_cond_imm8", "pop_r16stk", "ldh_imm8mem_a", "ldh_a_imm8mem",
                   "ld_hl_sp_imm8", "cb_hlmem"} -> 3
      [] func \in {"ret", "reti", "jp_cond_imm16", "jp_imm16", "rst_tgt3", "push_r16stk",
                   "ld_imm16mem_a", "ld_a_imm16mem", "add_sp_imm8"} -> 4
      [] func \in {"ld_imm16_sp", "ret_cond", "call_int"} -> 5
      [] OTHER -> 6

ImmOf(func) ==
    CASE func \in {"ld_r8_imm8", "ld_hlmem_imm8", "jr_imm8", "jr_cond_imm8", "alu_a_imm8",
                   "ldh_imm8mem_a", "ldh_a_imm8mem", "add_sp_imm8", "ld_hl_sp_imm8"} -> 1
      [] func \in {"ld_r16_imm16", "ld_imm16_sp", "jp_cond_imm16", "jp_imm16",
                   "call_cond_imm16", "call_imm16", "ld_imm16mem_a", "ld_a_imm16mem"} -> 2
      [] OTHER -> 0

Pushing == {"call_cond_imm16", "call_imm16", "rst_tgt3", "push_r16stk", "call_int"}
Popping == {"ret_cond", "ret", "reti", "pop_r16stk"}
SpOf(func) == CASE func \in Pushing -> -2
                [] func \in Popping -> 2
                [] OTHER -> 0

IfAt(func) ==
    CASE func \in {"jr_cond_imm8", "ret_cond"} -> 2
      [] func \in {"jp_cond_imm16", "call_cond_imm16"} -> 3
      [] OTHER -> 0

Jumping == {"jr_imm8", "jr_cond_imm8", "ret_cond", "ret", "reti", "jp_cond_imm16", "jp_imm16",
            "jp_hl", "call_cond_imm16", "call_imm16", "rst_tgt3"}

\* In how many of its first k M-cycles, of at most six, a function does one of acts.
Does(body, k, i, acts) == IF i <= k /\ body[i] \cap acts # {} THEN 1 ELSE 0
Count(body, k, acts) ==
    Does(body, k, 1, acts) + Does(body, k, 2, acts) + Does(body, k, 3, acts) +
    Does(body, k, 4, acts) + Does(body, k, 5, acts) + Does(body, k, 6, acts)

Moves(body, k) == Count(body, k, {"pop"}) - Count(body, k, {"dec_sp", "push"})

\* One M-cycle of func, the i-th: what moves PC and SP comes apart.
CycleShaped(func, i, acts) ==
    /\ "if" \in acts <=> i = IfAt(func)
    /\ "end" \in acts <=> i = LenOf(func) /\ func # "stop"
    /\ "imm" \in acts => acts \cap {"jump", "dec_pc", "vector"} = {}
    /\ "pop" \in acts => acts \cap {"dec_sp", "push"} = {}
    /\ "jump" \in acts => func \in Jumping /\ i >= IfAt(func)
    /\ "check" \in acts => i < IfAt(func)
    /\ acts \cap {"dec_pc", "vector"} # {} => func = "call_int"
    /\ "new_sp" \in acts => func \in {"add_sp_imm8", "ld_sp_hl"}
    /\ "set_r16" \in acts => func \in {"ld_r16_imm16", "incdec_r16"}

Shaped(func, body) ==
    /\ Len(body) = LenOf(func) /\ IfAt(func) < LenOf(func)
    /\ \A i \in 1..LenOf(func) : CycleShaped(func, i, body[i])
    /\ Count(body, LenOf(func), {"imm"}) = ImmOf(func)
    /\ Moves(body, LenOf(func)) = SpOf(func)
    /\ IfAt(func) # 0 => /\ Count(body, IfAt(func) - 1, {"imm"}) = ImmOf(func)
                         /\ Moves(body, IfAt(func) - 1) = 0

FuncFits(func, body) == BodyFits(func, body) /\ Shaped(func, body)

TableFits(t) == \A func \in DOMAIN t : FuncFits(func, t[func])

\* No function of the table does more than Fits allows, and in all it does what the
\* summary says.
LEMMA TablesFit == \A t \in Tables : TableFits(t)
  <1> USE DEF FuncFits, BodyFits, Fits, BusActs, Shaped, CycleShaped, LenOf, ImmOf, SpOf, Pushing,
              Popping, IfAt, Jumping, Does, Count, Moves, End, Idle
  <1>1. TableFits(LoadCycles16)
    <2> SUFFICES ASSUME NEW func \in DOMAIN LoadCycles16
                 PROVE  FuncFits(func, LoadCycles16[func])
      BY Zenon DEF TableFits
    <2>1. func \in {"nop", "ld_r16_imm16", "ld_r16mem_a", "ld_a_r16mem", "ld_imm16_sp"}
      BY SMT DEF LoadCycles16
    <2>2. FuncFits("nop", LoadCycles16["nop"])
      BY SMT DEF LoadCycles16
    <2>3. FuncFits("ld_r16_imm16", LoadCycles16["ld_r16_imm16"])
      BY SMT DEF LoadCycles16
    <2>4. FuncFits("ld_r16mem_a", LoadCycles16["ld_r16mem_a"])
      BY SMT DEF LoadCycles16
    <2>5. FuncFits("ld_a_r16mem", LoadCycles16["ld_a_r16mem"])
      BY SMT DEF LoadCycles16
    <2>6. FuncFits("ld_imm16_sp", LoadCycles16["ld_imm16_sp"])
      BY SMT DEF LoadCycles16
    <2> HIDE DEF FuncFits
    <2> QED
      BY <2>1, <2>2, <2>3, <2>4, <2>5, <2>6, Zenon
  <1>2. TableFits(ArithCycles16)
    <2> SUFFICES ASSUME NEW func \in DOMAIN ArithCycles16
                 PROVE  FuncFits(func, ArithCycles16[func])
      BY Zenon DEF TableFits
    <2>1. func \in {"incdec_r16", "add_hl_r16"}
      BY SMT DEF ArithCycles16
    <2>2. FuncFits("incdec_r16", ArithCycles16["incdec_r16"])
      BY SMT DEF ArithCycles16
    <2>3. FuncFits("add_hl_r16", ArithCycles16["add_hl_r16"])
      BY SMT DEF ArithCycles16
    <2> HIDE DEF FuncFits
    <2> QED
      BY <2>1, <2>2, <2>3, Zenon
  <1>3. TableFits(IncDecCycles)
    <2> SUFFICES ASSUME NEW func \in DOMAIN IncDecCycles
                 PROVE  FuncFits(func, IncDecCycles[func])
      BY Zenon DEF TableFits
    <2>1. func \in {"incdec_r8", "incdec_hlmem", "ld_r8_imm8", "ld_hlmem_imm8"}
      BY SMT DEF IncDecCycles
    <2>2. FuncFits("incdec_r8", IncDecCycles["incdec_r8"])
      BY SMT DEF IncDecCycles
    <2>3. FuncFits("incdec_hlmem", IncDecCycles["incdec_hlmem"])
      BY SMT DEF IncDecCycles
    <2>4. FuncFits("ld_r8_imm8", IncDecCycles["ld_r8_imm8"])
      BY SMT DEF IncDecCycles
    <2>5. FuncFits("ld_hlmem_imm8", IncDecCycles["ld_hlmem_imm8"])
      BY SMT DEF IncDecCycles
    <2> HIDE DEF FuncFits
    <2> QED
      BY <2>1, <2>2, <2>3, <2>4, <2>5, Zenon
  <1>4. TableFits(AccumulatorCycles)
    <2> SUFFICES ASSUME NEW func \in DOMAIN AccumulatorCycles
                 PROVE  FuncFits(func, AccumulatorCycles[func])
      BY Zenon DEF TableFits
    <2>1. func \in {"alu_a"}
      BY SMT DEF AccumulatorCycles
    <2>2. FuncFits("alu_a", AccumulatorCycles["alu_a"])
      BY SMT DEF AccumulatorCycles
    <2> HIDE DEF FuncFits
    <2> QED
      BY <2>1, <2>2, Zenon
  <1>5. TableFits(JrCycles)
    <2> SUFFICES ASSUME NEW func \in DOMAIN JrCycles
                 PROVE  FuncFits(func, JrCycles[func])
      BY Zenon DEF TableFits
    <2>1. func \in {"jr_imm8", "jr_cond_imm8"}
      BY SMT DEF JrCycles
    <2>2. FuncFits("jr_imm8", JrCycles["jr_imm8"])
      BY SMT DEF JrCycles
    <2>3. FuncFits("jr_cond_imm8", JrCycles["jr_cond_imm8"])
      BY SMT DEF JrCycles
    <2> HIDE DEF FuncFits
    <2> QED
      BY <2>1, <2>2, <2>3, Zenon
  <1>6. TableFits(StopHaltCycles)
    <2> SUFFICES ASSUME NEW func \in DOMAIN StopHaltCycles
                 PROVE  FuncFits(func, StopHaltCycles[func])
      BY Zenon DEF TableFits
    <2>1. func \in {"stop", "halt"}
      BY SMT DEF StopHaltCycles
    <2>2. FuncFits("stop", StopHaltCycles["stop"])
      BY SMT DEF StopHaltCycles
    <2>3. FuncFits("halt", StopHaltCycles["halt"])
      BY SMT DEF StopHaltCycles
    <2> HIDE DEF FuncFits
    <2> QED
      BY <2>1, <2>2, <2>3, Zenon
  <1>7. TableFits(LoadCycles8)
    <2> SUFFICES ASSUME NEW func \in DOMAIN LoadCycles8
                 PROVE  FuncFits(func, LoadCycles8[func])
      BY Zenon DEF TableFits
    <2>1. func \in {"ld_hlmem_r8", "ld_r8_hlmem", "ld_r8_r8"}
      BY SMT DEF LoadCycles8
    <2>2. FuncFits("ld_hlmem_r8", LoadCycles8["ld_hlmem_r8"])
      BY SMT DEF LoadCycles8
    <2>3. FuncFits("ld_r8_hlmem", LoadCycles8["ld_r8_hlmem"])
      BY SMT DEF LoadCycles8
    <2>4. FuncFits("ld_r8_r8", LoadCycles8["ld_r8_r8"])
      BY SMT DEF LoadCycles8
    <2> HIDE DEF FuncFits
    <2> QED
      BY <2>1, <2>2, <2>3, <2>4, Zenon
  <1>8. TableFits(AluMemCycles)
    <2> SUFFICES ASSUME NEW func \in DOMAIN AluMemCycles
                 PROVE  FuncFits(func, AluMemCycles[func])
      BY Zenon DEF TableFits
    <2>1. func \in {"alu_a_hlmem"}
      BY SMT DEF AluMemCycles
    <2>2. FuncFits("alu_a_hlmem", AluMemCycles["alu_a_hlmem"])
      BY SMT DEF AluMemCycles
    <2> HIDE DEF FuncFits
    <2> QED
      BY <2>1, <2>2, Zenon
  <1>9. TableFits(AluImmCycles)
    <2> SUFFICES ASSUME NEW func \in DOMAIN AluImmCycles
                 PROVE  FuncFits(func, AluImmCycles[func])
      BY Zenon DEF TableFits
    <2>1. func \in {"alu_a_imm8"}
      BY SMT DEF AluImmCycles
    <2>2. FuncFits("alu_a_imm8", AluImmCycles["alu_a_imm8"])
      BY SMT DEF AluImmCycles
    <2> HIDE DEF FuncFits
    <2> QED
      BY <2>1, <2>2, Zenon
  <1>10. TableFits(ReturnCycles)
    <2> SUFFICES ASSUME NEW func \in DOMAIN ReturnCycles
                 PROVE  FuncFits(func, ReturnCycles[func])
      BY Zenon DEF TableFits
    <2>1. func \in {"ret_cond", "ret", "reti"}
      BY SMT DEF ReturnCycles
    <2>2. FuncFits("ret_cond", ReturnCycles["ret_cond"])
      BY SMT DEF ReturnCycles
    <2>3. FuncFits("ret", ReturnCycles["ret"])
      BY SMT DEF ReturnCycles
    <2>4. FuncFits("reti", ReturnCycles["reti"])
      BY SMT DEF ReturnCycles
    <2> HIDE DEF FuncFits
    <2> QED
      BY <2>1, <2>2, <2>3, <2>4, Zenon
  <1>11. TableFits(JumpCallCycles)
    <2> SUFFICES ASSUME NEW func \in DOMAIN JumpCallCycles
                 PROVE  FuncFits(func, JumpCallCycles[func])
      BY Zenon DEF TableFits
    <2>1. func \in {"jp_cond_imm16", "jp_imm16", "jp_hl", "call_cond_imm16", "call_imm16",
                    "rst_tgt3"}
      BY SMT DEF JumpCallCycles
    <2>2. FuncFits("jp_cond_imm16", JumpCallCycles["jp_cond_imm16"])
      BY SMT DEF JumpCallCycles
    <2>3. FuncFits("jp_imm16", JumpCallCycles["jp_imm16"])
      BY SMT DEF JumpCallCycles
    <2>4. FuncFits("jp_hl", JumpCallCycles["jp_hl"])
      BY SMT DEF JumpCallCycles
    <2>5. FuncFits("call_cond_imm16", JumpCallCycles["call_cond_imm16"])
      BY SMT DEF JumpCallCycles
    <2>6. FuncFits("call_imm16", JumpCallCycles["call_imm16"])
      BY SMT DEF JumpCallCycles
    <2>7. FuncFits("rst_tgt3", JumpCallCycles["rst_tgt3"])
      BY SMT DEF JumpCallCycles
    <2> HIDE DEF FuncFits
    <2> QED
      BY <2>1, <2>2, <2>3, <2>4, <2>5, <2>6, <2>7, Zenon
  <1>12. TableFits(StackCycles)
    <2> SUFFICES ASSUME NEW func \in DOMAIN StackCycles
                 PROVE  FuncFits(func, StackCycles[func])
      BY Zenon DEF TableFits
    <2>1. func \in {"pop_r16stk", "push_r16stk"}
      BY SMT DEF StackCycles
    <2>2. FuncFits("pop_r16stk", StackCycles["pop_r16stk"])
      BY SMT DEF StackCycles
    <2>3. FuncFits("push_r16stk", StackCycles["push_r16stk"])
      BY SMT DEF StackCycles
    <2> HIDE DEF FuncFits
    <2> QED
      BY <2>1, <2>2, <2>3, Zenon
  <1>13. TableFits(HighLoadCycles)
    <2> SUFFICES ASSUME NEW func \in DOMAIN HighLoadCycles
                 PROVE  FuncFits(func, HighLoadCycles[func])
      BY Zenon DEF TableFits
    <2>1. func \in {"ldh_cmem_a", "ldh_imm8mem_a", "ld_imm16mem_a", "ld_a_cmem",
                    "ldh_a_imm8mem", "ld_a_imm16mem"}
      BY SMT DEF HighLoadCycles
    <2>2. FuncFits("ldh_cmem_a", HighLoadCycles["ldh_cmem_a"])
      BY SMT DEF HighLoadCycles
    <2>3. FuncFits("ldh_imm8mem_a", HighLoadCycles["ldh_imm8mem_a"])
      BY SMT DEF HighLoadCycles
    <2>4. FuncFits("ld_imm16mem_a", HighLoadCycles["ld_imm16mem_a"])
      BY SMT DEF HighLoadCycles
    <2>5. FuncFits("ld_a_cmem", HighLoadCycles["ld_a_cmem"])
      BY SMT DEF HighLoadCycles
    <2>6. FuncFits("ldh_a_imm8mem", HighLoadCycles["ldh_a_imm8mem"])
      BY SMT DEF HighLoadCycles
    <2>7. FuncFits("ld_a_imm16mem", HighLoadCycles["ld_a_imm16mem"])
      BY SMT DEF HighLoadCycles
    <2> HIDE DEF FuncFits
    <2> QED
      BY <2>1, <2>2, <2>3, <2>4, <2>5, <2>6, <2>7, Zenon
  <1>14. TableFits(SpCycles)
    <2> SUFFICES ASSUME NEW func \in DOMAIN SpCycles
                 PROVE  FuncFits(func, SpCycles[func])
      BY Zenon DEF TableFits
    <2>1. func \in {"add_sp_imm8", "ld_hl_sp_imm8", "ld_sp_hl"}
      BY SMT DEF SpCycles
    <2>2. FuncFits("add_sp_imm8", SpCycles["add_sp_imm8"])
      BY SMT DEF SpCycles
    <2>3. FuncFits("ld_hl_sp_imm8", SpCycles["ld_hl_sp_imm8"])
      BY SMT DEF SpCycles
    <2>4. FuncFits("ld_sp_hl", SpCycles["ld_sp_hl"])
      BY SMT DEF SpCycles
    <2> HIDE DEF FuncFits
    <2> QED
      BY <2>1, <2>2, <2>3, <2>4, Zenon
  <1>15. TableFits(InterruptEnableCycles)
    <2> SUFFICES ASSUME NEW func \in DOMAIN InterruptEnableCycles
                 PROVE  FuncFits(func, InterruptEnableCycles[func])
      BY Zenon DEF TableFits
    <2>1. func \in {"di", "ei"}
      BY SMT DEF InterruptEnableCycles
    <2>2. FuncFits("di", InterruptEnableCycles["di"])
      BY SMT DEF InterruptEnableCycles
    <2>3. FuncFits("ei", InterruptEnableCycles["ei"])
      BY SMT DEF InterruptEnableCycles
    <2> HIDE DEF FuncFits
    <2> QED
      BY <2>1, <2>2, <2>3, Zenon
  <1>16. TableFits(CbCycles)
    <2> SUFFICES ASSUME NEW func \in DOMAIN CbCycles
                 PROVE  FuncFits(func, CbCycles[func])
      BY Zenon DEF TableFits
    <2>1. func \in {"cb_r8", "cb_hlmem", "bit_b3_hlmem"}
      BY SMT DEF CbCycles
    <2>2. FuncFits("cb_r8", CbCycles["cb_r8"])
      BY SMT DEF CbCycles
    <2>3. FuncFits("cb_hlmem", CbCycles["cb_hlmem"])
      BY SMT DEF CbCycles
    <2>4. FuncFits("bit_b3_hlmem", CbCycles["bit_b3_hlmem"])
      BY SMT DEF CbCycles
    <2> HIDE DEF FuncFits
    <2> QED
      BY <2>1, <2>2, <2>3, <2>4, Zenon
  <1>17. TableFits(CallIntCycles)
    <2> SUFFICES ASSUME NEW func \in DOMAIN CallIntCycles
                 PROVE  FuncFits(func, CallIntCycles[func])
      BY Zenon DEF TableFits
    <2>1. func \in {"call_int"}
      BY SMT DEF CallIntCycles
    <2>2. FuncFits("call_int", CallIntCycles["call_int"])
      BY SMT DEF CallIntCycles
    <2> HIDE DEF FuncFits
    <2> QED
      BY <2>1, <2>2, Zenon
  <1> QED
    BY <1>1, <1>2, <1>3, <1>4, <1>5, <1>6, <1>7, <1>8, <1>9, <1>10, <1>11, <1>12, <1>13, <1>14,
       <1>15, <1>16, <1>17, Zenon DEF Tables

\* The M-cycles of a function are those of a table it is in.
LEMMA CyclesFit ==
    ASSUME NEW func \in DOMAIN Cycles
    PROVE  BodyFits(func, Cycles[func]) /\ Shaped(func, Cycles[func])
  <1>1. func \in Functions /\ Cycles[func] = TableOf(func)[func]
    BY DEF Cycles
  <1>2. \E t \in Tables : func \in DOMAIN t
    BY <1>1, Zenon DEF Functions
  <1>3. TableOf(func) \in Tables /\ func \in DOMAIN TableOf(func)
    BY <1>2, Zenon DEF TableOf
  <1> QED
    BY <1>1, <1>3, TablesFit, Zenon DEF TableFits, FuncFits

\* A function is in Cycles when a table has it.
LEMMA InTable ==
    ASSUME NEW t \in Tables, NEW func \in DOMAIN t
    PROVE  func \in DOMAIN Cycles
  BY Zenon DEF Functions, Cycles

\* The entry to a handler, which only one table has.
LEMMA CallInt ==
    /\ "call_int" \in DOMAIN Cycles
    /\ Cycles["call_int"] =
           <<{"dec_pc"}, {"dec_sp"}, {"push", "receive"}, {"poke", "vector"}, {"end"}>>
  <1>1. "call_int" \in DOMAIN CallIntCycles
    BY SMT DEF CallIntCycles
  <1>2. CallIntCycles \in Tables
    BY Zenon DEF Tables
  <1>3. "call_int" \in DOMAIN Cycles
    BY <1>1, <1>2, InTable, Zenon
  <1>4. /\ "call_int" \notin DOMAIN LoadCycles16 /\ "call_int" \notin DOMAIN ArithCycles16
        /\ "call_int" \notin DOMAIN IncDecCycles /\ "call_int" \notin DOMAIN AccumulatorCycles
        /\ "call_int" \notin DOMAIN JrCycles /\ "call_int" \notin DOMAIN StopHaltCycles
        /\ "call_int" \notin DOMAIN LoadCycles8 /\ "call_int" \notin DOMAIN AluMemCycles
        /\ "call_int" \notin DOMAIN AluImmCycles /\ "call_int" \notin DOMAIN ReturnCycles
        /\ "call_int" \notin DOMAIN JumpCallCycles /\ "call_int" \notin DOMAIN StackCycles
        /\ "call_int" \notin DOMAIN HighLoadCycles /\ "call_int" \notin DOMAIN SpCycles
        /\ "call_int" \notin DOMAIN InterruptEnableCycles /\ "call_int" \notin DOMAIN CbCycles
    BY SMT DEF LoadCycles16, ArithCycles16, IncDecCycles, AccumulatorCycles, JrCycles,
               StopHaltCycles, LoadCycles8, AluMemCycles, AluImmCycles, ReturnCycles,
               JumpCallCycles, StackCycles, HighLoadCycles, SpCycles,
               InterruptEnableCycles, CbCycles
  <1>5. \A t \in Tables : "call_int" \in DOMAIN t => t = CallIntCycles
    BY <1>4, Zenon DEF Tables
  <1>6. TableOf("call_int") = CallIntCycles
    BY <1>1, <1>2, <1>5, Zenon DEF TableOf
  <1>7. Cycles["call_int"] = CallIntCycles["call_int"]
    BY <1>3, <1>6, Zenon DEF Cycles
  <1>8. CallIntCycles["call_int"] =
            <<{"dec_pc"}, {"dec_sp"}, {"push", "receive"}, {"poke", "vector"}, {"end"}>>
    BY SMT DEF CallIntCycles, End
  <1> QED
    BY <1>3, <1>7, <1>8, Zenon

---------------------------------------------------------------------------
\* Decoding.

\* The two highest bits of a byte choose one of four blocks.
LEMMA Blocks ==
    ASSUME NEW opcode \in Opcodes
    PROVE  get_bits(opcode, 7, 6) \in {0, 1, 2, 3}
  <1>1. 2 ^ 6 = 64 /\ 2 ^ (7 - 6 + 1) = 4
    BY SMT
  <1>2. get_bits(opcode, 7, 6) = (opcode \div 64) % 4
    BY <1>1, Zenon DEF get_bits
  <1> QED
    BY <1>2, SMT DEF Opcodes

\* Every opcode has a function, and none is the entry to a handler; after the prefix
\* there is no HALT either.
LEMMA DecodeType ==
    ASSUME NEW opcode \in Opcodes, NEW prefixed \in BOOLEAN
    PROVE  /\ Decode(opcode, prefixed) \in DOMAIN Cycles
           /\ Decode(opcode, prefixed) # "call_int"
           /\ prefixed => Decode(opcode, prefixed) # "halt"
  <1>1. \A func :
           func \in DOMAIN LoadCycles16 \cup DOMAIN ArithCycles16 \cup DOMAIN IncDecCycles
                    \cup DOMAIN AccumulatorCycles \cup DOMAIN JrCycles
                    \cup DOMAIN StopHaltCycles \cup DOMAIN LoadCycles8
                    \cup DOMAIN AluMemCycles \cup DOMAIN AluImmCycles
                    \cup DOMAIN ReturnCycles \cup DOMAIN JumpCallCycles
                    \cup DOMAIN StackCycles \cup DOMAIN HighLoadCycles
                    \cup DOMAIN SpCycles \cup DOMAIN InterruptEnableCycles
                    \cup DOMAIN CbCycles
              => func \in DOMAIN Cycles
    BY InTable, Zenon DEF Tables
  <1>2. /\ DecodeCB(opcode) \in DOMAIN CbCycles
        /\ DecodeCB(opcode) # "call_int" /\ DecodeCB(opcode) # "halt"
    BY SMT DEF DecodeCB, CbCycles
  <1>3. /\ DecodeBlock0(opcode) \in DOMAIN LoadCycles16 \cup DOMAIN ArithCycles16
                \cup DOMAIN IncDecCycles \cup DOMAIN AccumulatorCycles \cup DOMAIN JrCycles
                \cup DOMAIN StopHaltCycles
        /\ DecodeBlock0(opcode) # "call_int"
    BY SMT DEF DecodeBlock0, LoadCycles16, ArithCycles16, IncDecCycles, AccumulatorCycles,
               JrCycles, StopHaltCycles
  <1>4. /\ DecodeBlock1(opcode) \in DOMAIN LoadCycles8 \cup DOMAIN StopHaltCycles
        /\ DecodeBlock1(opcode) # "call_int"
    BY SMT DEF DecodeBlock1, LoadCycles8, StopHaltCycles
  <1>5. /\ DecodeBlock2(opcode) \in DOMAIN AluMemCycles \cup DOMAIN AccumulatorCycles
        /\ DecodeBlock2(opcode) # "call_int"
    BY SMT DEF DecodeBlock2, AluMemCycles, AccumulatorCycles
  <1>6. /\ DecodeBlock3(opcode) \in DOMAIN AluImmCycles \cup DOMAIN ReturnCycles
                \cup DOMAIN JumpCallCycles \cup DOMAIN StackCycles \cup DOMAIN HighLoadCycles
                \cup DOMAIN SpCycles \cup DOMAIN InterruptEnableCycles \cup DOMAIN LoadCycles16
        /\ DecodeBlock3(opcode) # "call_int"
    BY SMT DEF DecodeBlock3, AluImmCycles, ReturnCycles, JumpCallCycles, StackCycles,
               HighLoadCycles, SpCycles, InterruptEnableCycles, LoadCycles16
  <1>7. CASE prefixed
    BY <1>1, <1>2, <1>7 DEF Decode
  <1>8. CASE ~prefixed
    BY <1>1, <1>3, <1>4, <1>5, <1>6, <1>8, Blocks DEF Decode
  <1> QED
    BY <1>7, <1>8

---------------------------------------------------------------------------
\* What is documented of an opcode.

\* May func load SP, when the instruction is opcode?
Loading(func, opcode) ==
    \/ func \in {"add_sp_imm8", "ld_sp_hl"}
    \/ func \in {"ld_r16_imm16", "incdec_r16"} /\ get_bits(opcode, 5, 4) = 3

\* The reference says of opcode what func does.
Documented(opcode, func) ==
    /\ LenOf(func) = Reference!MCycles(opcode, FALSE) + Reference!Extra(opcode)
    /\ 1 + ImmOf(func) = Reference!Length(opcode, FALSE)
    /\ SpOf(func) = Reference!SpChange(opcode)
    /\ IfAt(func) # 0 <=> opcode \in Reference!Conditional
    /\ IfAt(func) # 0 => IfAt(func) = Reference!MCycles(opcode, FALSE)
    /\ func \in Jumping <=> Reference!Transfers(opcode)
    /\ Loading(func, opcode) => opcode \in Reference!SetsSp

\* Nothing is claimed of STOP, which never ends, nor of the prefix, which is not an
\* instruction.
Claim0(opcode) == DecodeBlock0(opcode) # "stop" => Documented(opcode, DecodeBlock0(opcode))
Claim3(opcode) == opcode # 203 => Documented(opcode, DecodeBlock3(opcode))

\* The opcodes of block 0, one by one.
LEMMA Block0 == \A opcode \in 0..63 : Claim0(opcode)
  <1> USE DEF Claim0, DecodeBlock0, get_bits, HasHl, Documented, LenOf, ImmOf, SpOf,
              Pushing, Popping, IfAt, Jumping, Loading,
              Reference!MCycles, Reference!Extra, Reference!Length,
              Reference!SpChange, Reference!Conditional, Reference!Transfers,
              Reference!SetsSp, Reference!CondJr,
              Reference!CondRet, Reference!CondJp, Reference!CondCall, Reference!Rst,
              Reference!Row, Reference!Column, Reference!MemoryOperand,
              Reference!LengthTable, Reference!CyclesTable
  <1>1. Claim0(0) /\ Claim0(1) /\ Claim0(2) /\ Claim0(3)
    BY SMTT(60)
  <1>2. Claim0(4) /\ Claim0(5) /\ Claim0(6) /\ Claim0(7)
    BY SMTT(60)
  <1>3. Claim0(8) /\ Claim0(9) /\ Claim0(10) /\ Claim0(11)
    BY SMTT(60)
  <1>4. Claim0(12) /\ Claim0(13) /\ Claim0(14) /\ Claim0(15)
    BY SMTT(60)
  <1>5. Claim0(16) /\ Claim0(17) /\ Claim0(18) /\ Claim0(19)
    BY SMTT(60)
  <1>6. Claim0(20) /\ Claim0(21) /\ Claim0(22) /\ Claim0(23)
    BY SMTT(60)
  <1>7. Claim0(24) /\ Claim0(25) /\ Claim0(26) /\ Claim0(27)
    BY SMTT(60)
  <1>8. Claim0(28) /\ Claim0(29) /\ Claim0(30) /\ Claim0(31)
    BY SMTT(60)
  <1>9. Claim0(32) /\ Claim0(33) /\ Claim0(34) /\ Claim0(35)
    BY SMTT(60)
  <1>10. Claim0(36) /\ Claim0(37) /\ Claim0(38) /\ Claim0(39)
    BY SMTT(60)
  <1>11. Claim0(40) /\ Claim0(41) /\ Claim0(42) /\ Claim0(43)
    BY SMTT(60)
  <1>12. Claim0(44) /\ Claim0(45) /\ Claim0(46) /\ Claim0(47)
    BY SMTT(60)
  <1>13. Claim0(48) /\ Claim0(49) /\ Claim0(50) /\ Claim0(51)
    BY SMTT(60)
  <1>14. Claim0(52) /\ Claim0(53) /\ Claim0(54) /\ Claim0(55)
    BY SMTT(60)
  <1>15. Claim0(56) /\ Claim0(57) /\ Claim0(58) /\ Claim0(59)
    BY SMTT(60)
  <1>16. Claim0(60) /\ Claim0(61) /\ Claim0(62) /\ Claim0(63)
    BY SMTT(60)
  <1> HIDE DEF Claim0
  <1> QED
    <2> SUFFICES ASSUME NEW opcode \in 0..63
                 PROVE  Claim0(opcode)
      OBVIOUS
    <2>1. CASE opcode \in 0..15
      BY <1>1, <1>2, <1>3, <1>4, <2>1, SMT
    <2>2. CASE opcode \in 16..31
      BY <1>5, <1>6, <1>7, <1>8, <2>2, SMT
    <2>3. CASE opcode \in 32..47
      BY <1>9, <1>10, <1>11, <1>12, <2>3, SMT
    <2>4. CASE opcode \in 48..63
      BY <1>13, <1>14, <1>15, <1>16, <2>4, SMT
    <2> QED
      BY <2>1, <2>2, <2>3, <2>4

\* The opcodes of block 3, one by one.
LEMMA Block3 == \A opcode \in 192..255 : Claim3(opcode)
  <1> USE DEF Claim3, DecodeBlock3, get_bits, HasHl, Documented, LenOf, ImmOf, SpOf,
              Pushing, Popping, IfAt, Jumping, Loading,
              Reference!MCycles, Reference!Extra, Reference!Length,
              Reference!SpChange, Reference!Conditional, Reference!Transfers,
              Reference!SetsSp, Reference!CondJr,
              Reference!CondRet, Reference!CondJp, Reference!CondCall, Reference!Rst,
              Reference!Row, Reference!Column, Reference!MemoryOperand,
              Reference!LengthTableHigh, Reference!CyclesTableHigh
  <1>1. Claim3(192) /\ Claim3(193) /\ Claim3(194) /\ Claim3(195)
    BY SMTT(60)
  <1>2. Claim3(196) /\ Claim3(197) /\ Claim3(198) /\ Claim3(199)
    BY SMTT(60)
  <1>3. Claim3(200) /\ Claim3(201) /\ Claim3(202) /\ Claim3(203)
    BY SMTT(60)
  <1>4. Claim3(204) /\ Claim3(205) /\ Claim3(206) /\ Claim3(207)
    BY SMTT(60)
  <1>5. Claim3(208) /\ Claim3(209) /\ Claim3(210) /\ Claim3(211)
    BY SMTT(60)
  <1>6. Claim3(212) /\ Claim3(213) /\ Claim3(214) /\ Claim3(215)
    BY SMTT(60)
  <1>7. Claim3(216) /\ Claim3(217) /\ Claim3(218) /\ Claim3(219)
    BY SMTT(60)
  <1>8. Claim3(220) /\ Claim3(221) /\ Claim3(222) /\ Claim3(223)
    BY SMTT(60)
  <1>9. Claim3(224) /\ Claim3(225) /\ Claim3(226) /\ Claim3(227)
    BY SMTT(60)
  <1>10. Claim3(228) /\ Claim3(229) /\ Claim3(230) /\ Claim3(231)
    BY SMTT(60)
  <1>11. Claim3(232) /\ Claim3(233) /\ Claim3(234) /\ Claim3(235)
    BY SMTT(60)
  <1>12. Claim3(236) /\ Claim3(237) /\ Claim3(238) /\ Claim3(239)
    BY SMTT(60)
  <1>13. Claim3(240) /\ Claim3(241) /\ Claim3(242) /\ Claim3(243)
    BY SMTT(60)
  <1>14. Claim3(244) /\ Claim3(245) /\ Claim3(246) /\ Claim3(247)
    BY SMTT(60)
  <1>15. Claim3(248) /\ Claim3(249) /\ Claim3(250) /\ Claim3(251)
    BY SMTT(150)
  <1>16. Claim3(252) /\ Claim3(253) /\ Claim3(254) /\ Claim3(255)
    BY SMTT(150)
  <1> HIDE DEF Claim3
  <1> QED
    <2> SUFFICES ASSUME NEW opcode \in 192..255
                 PROVE  Claim3(opcode)
      OBVIOUS
    <2>1. CASE opcode \in 192..207
      BY <1>1, <1>2, <1>3, <1>4, <2>1, SMT
    <2>2. CASE opcode \in 208..223
      BY <1>5, <1>6, <1>7, <1>8, <2>2, SMT
    <2>3. CASE opcode \in 224..239
      BY <1>9, <1>10, <1>11, <1>12, <2>3, SMT
    <2>4. CASE opcode \in 240..255
      BY <1>13, <1>14, <1>15, <1>16, <2>4, SMT
    <2> QED
      BY <2>1, <2>2, <2>3, <2>4

\* The other two blocks, and what follows the prefix, are regular.
LEMMA Regular ==
    /\ \A opcode \in 64..127 : Documented(opcode, DecodeBlock1(opcode))
    /\ \A opcode \in 128..191 : Documented(opcode, DecodeBlock2(opcode))
    /\ \A opcode \in Opcodes : LET func == DecodeCB(opcode) IN
          /\ LenOf(func) + 1 = Reference!MCycles(opcode, TRUE)
          /\ ImmOf(func) = 0 /\ Reference!Length(opcode, TRUE) = 2
          /\ SpOf(func) = 0 /\ IfAt(func) = 0 /\ func \notin Jumping
          /\ ~Loading(func, opcode)
  <1> USE DEF DecodeBlock1, DecodeBlock2, DecodeCB, get_bits, HasHl, Documented, LenOf, ImmOf,
              SpOf, Pushing, Popping, IfAt, Jumping, Loading, Opcodes,
              Reference!MCycles, Reference!Extra, Reference!Length,
              Reference!SpChange, Reference!Conditional, Reference!Transfers,
              Reference!SetsSp, Reference!CondJr,
              Reference!CondRet, Reference!CondJp, Reference!CondCall, Reference!Rst,
              Reference!Row, Reference!Column, Reference!MemoryOperand
  <1>1. \A opcode \in 64..127 : Documented(opcode, DecodeBlock1(opcode))
    BY SMTT(60)
  <1>2. \A opcode \in 128..191 : Documented(opcode, DecodeBlock2(opcode))
    BY SMTT(60)
  <1>3. \A opcode \in Opcodes : LET func == DecodeCB(opcode) IN
          /\ LenOf(func) + 1 = Reference!MCycles(opcode, TRUE)
          /\ ImmOf(func) = 0 /\ Reference!Length(opcode, TRUE) = 2
          /\ SpOf(func) = 0 /\ IfAt(func) = 0 /\ func \notin Jumping
          /\ ~Loading(func, opcode)
    BY SMTT(60)
  <1> QED
    BY <1>1, <1>2, <1>3

---------------------------------------------------------------------------
\* The interrupt controller.

\* The source that is taken is one of those that wait, if any does.
LEMMA SourceTaken ==
    ASSUME NEW raised, NEW enabled
    PROVE  /\ SourceToSend(raised, enabled) \in Sources \cup {NoSource}
           /\ raised \cap enabled \cap Sources # {} => SourceToSend(raised, enabled) \in Sources
  <1> DEFINE S == raised \cap enabled \cap Sources
  <1>1. CASE S = {}
    BY <1>1 DEF SourceToSend
  <1>2. CASE S # {}
    <2>1. \A x \in S : x \in {0, 1, 2, 3, 4}
      BY SMT DEF Sources, NUM_INTERRUPTS
    <2>2. \E x \in S : \A y \in S : x <= y
      BY <1>2, <2>1
    <2>3. Min(S) \in S
      BY <2>2, Zenon DEF Min
    <2>4. SourceToSend(raised, enabled) = Min(S)
      BY <1>2, Zenon DEF SourceToSend
    <2> QED
      BY <1>2, <2>3, <2>4, Zenon
  <1> QED
    BY <1>1, <1>2, Zenon

\* IF and IE stay sets of bits, and only a write to memory changes them.
LEMMA RegistersType ==
    ASSUME TypeOK, NEW acts, NEW regs \in RegistersAfter(acts)
    PROVE  /\ regs.flags \subseteq Bits /\ regs.enabled \subseteq Bits
           /\ acts \cap {"write", "push", "poke"} = {} =>
                  regs.flags = if_reg /\ regs.enabled = ie_reg
  <1>1. CASE regs = [flags |-> if_reg, enabled |-> ie_reg]
    BY <1>1 DEF TypeOK
  <1>2. ASSUME NEW val \in IfValues,
               regs = [flags |-> int_if_write(if_reg, val), enabled |-> ie_reg]
        PROVE  regs.flags \subseteq Bits /\ regs.enabled \subseteq Bits
    BY <1>2, CpuAssumption DEF TypeOK, int_if_write
  <1>3. ASSUME NEW val \in IeValues,
               regs = [flags |-> if_reg, enabled |-> int_ie_write(val)]
        PROVE  regs.flags \subseteq Bits /\ regs.enabled \subseteq Bits
    BY <1>3, CpuAssumption DEF TypeOK, int_ie_write
  <1>4. CASE acts \cap {"write", "push", "poke"} = {}
    BY <1>1, <1>4, Zenon DEF RegistersAfter
  <1>5. CASE acts \cap {"write", "push", "poke"} # {}
    BY <1>1, <1>2, <1>3, <1>5, Zenon DEF RegistersAfter
  <1> QED
    BY <1>4, <1>5

---------------------------------------------------------------------------
\* One M-cycle.

\* If the condition does not hold, the M-cycle is the last and does nothing else.
LEMMA ResolveFits ==
    ASSUME NEW func, NEW acts, Fits(func, acts)
    PROVE  Fits(func, Resolve(acts))
  BY SMT DEF Fits, Resolve, End, BusActs

\* The bus is used once at most.
LEMMA Accesses ==
    ASSUME NEW func, NEW acts, Fits(func, acts)
    PROVE  Cardinality(acts \cap BusActs) + Cardinality(acts \cap End) \in {0, 1}
  <1>1. Cardinality({}) = 0
    BY FS_EmptySet
  <1>2. \A x : Cardinality({x}) = 1
    BY FS_Singleton
  <1>3. CASE "end" \in acts
    <2>1. acts \cap BusActs = {} /\ acts \cap End = {"end"}
      BY <1>3, SMT DEF Fits, BusActs, End
    <2>2. Cardinality(acts \cap BusActs) = 0 /\ Cardinality(acts \cap End) = 1
      BY <1>1, <1>2, <2>1, Zenon
    <2> QED
      BY <2>2
  <1>4. CASE "end" \notin acts
    <2>1. acts \cap End = {}
      BY <1>4 DEF End
    <2>2. CASE acts \cap BusActs = {}
      BY <1>1, <2>1, <2>2
    <2>3. ASSUME NEW a \in acts \cap BusActs
          PROVE  Cardinality(acts \cap BusActs) = 1
      <3>1. acts \cap BusActs = {a}
        BY <2>3, Zenon DEF Fits
      <3> QED
        BY <1>2, <3>1
    <2> QED
      BY <1>1, <2>1, <2>2, <2>3
  <1> QED
    BY <1>3, <1>4

\* Where PC and SP go, they are addresses.
LEMMA PcType ==
    ASSUME TypeOK, NEW acts, NEW address \in PcAfter(acts)
    PROVE  address \in Addresses
  <1>1. pc_reg \in Addresses /\ pc_reg \in Int
    BY DEF TypeOK, Addresses
  <1>2. Plus(pc_reg, 1) \in Addresses /\ Plus(pc_reg, -1) \in Addresses
    BY <1>1, PlusType
  <1>3. (IF jump_vec = NoSource THEN 0 ELSE jump_vecs[jump_vec] % ADDRESSES) \in Addresses
    <2>1. CASE jump_vec = NoSource
      BY <2>1, CpuAssumption DEF Addresses
    <2>2. CASE jump_vec # NoSource
      <3>1. jump_vec \in Sources
        BY <2>2 DEF TypeOK
      <3>2. jump_vecs[jump_vec] \in Int
        BY <3>1, SMT DEF jump_vecs, Sources, NUM_INTERRUPTS
      <3>3. jump_vecs[jump_vec] % ADDRESSES \in Addresses
        BY <3>2, CpuAssumption DEF Addresses
      <3> QED
        BY <2>2, <3>3
    <2> QED
      BY <2>1, <2>2
  <1> QED
    BY <1>1, <1>2, <1>3 DEF PcAfter

\* SP wraps like PC.
LEMMA SpType ==
    ASSUME TypeOK, NEW acts, NEW sp \in SpAfter(acts)
    PROVE  sp \in Addresses
  <1>1. sp_reg \in Addresses /\ sp_reg \in Int
    BY DEF TypeOK, Addresses
  <1>2. Plus(sp_reg, 1) \in Addresses /\ Plus(sp_reg, -1) \in Addresses
    BY <1>1, PlusType
  <1> QED
    BY <1>1, <1>2 DEF SpAfter

\* What the M-cycle does that is up for func.
Acts(func) == Resolve(Cycles[func][instr_cycle + 1])

\* What every M-cycle does, whether or not it is the last of its function.
Common(func, prefixed, acts, address, sp) ==
    /\ Fits(func, acts)
    /\ address \in PcAfter(acts) /\ address \in Addresses
    /\ sp_reg' = sp /\ sp \in SpAfter(acts) /\ sp \in Addresses
    /\ if_reg' \subseteq Bits /\ ie_reg' \subseteq Bits
    /\ acts \cap {"write", "push", "poke", "receive"} = {} =>
           if_reg' = if_reg /\ ie_reg' = ie_reg
    /\ jump_vec' \in Sources \cup {NoSource}
    /\ cond' \in BOOLEAN /\ ("check" \notin acts => cond' = cond)
    /\ set_ime' = CASE "di" \in acts -> 0
                    [] "ei" \in acts -> 1
                    [] OTHER -> -1
    /\ accesses' \in {0, 1}
    /\ IF "end" \in acts
       THEN Complete(acts, func, prefixed, ImeNow, address, sp)
       ELSE Proceed(acts, func, prefixed, ImeNow, address)

\* An M-cycle of a function of the tables does what all of them do.
LEMMA CycleKeeps ==
    ASSUME TypeOK,
           NEW func \in DOMAIN Cycles, instr_cycle \in 0..(Len(Cycles[func]) - 1),
           NEW prefixed, Execute(func, prefixed, ImeNow)
    PROVE  \E address, sp : Common(func, prefixed, Acts(func), address, sp)
  <1> DEFINE acts == Acts(func)
  <1>1. PICK address \in PcAfter(acts), sp \in SpAfter(acts), regs \in RegistersAfter(acts) :
            /\ sp_reg' = sp
            /\ ie_reg' = regs.enabled
            /\ IF "receive" \in acts
               THEN /\ jump_vec' = SourceToSend(regs.flags, regs.enabled)
                    /\ if_reg' = IfAfterSend(regs.flags, regs.enabled)
               ELSE /\ if_reg' = regs.flags
                    /\ UNCHANGED jump_vec
            /\ cond' \in IF "check" \in acts THEN BOOLEAN ELSE {cond}
            /\ set_ime' = CASE "di" \in acts -> 0
                            [] "ei" \in acts -> 1
                            [] OTHER -> -1
            /\ accesses' = Cardinality(acts \cap BusActs) + Cardinality(acts \cap End)
            /\ IF "end" \in acts
               THEN Complete(acts, func, prefixed, ImeNow, address, sp)
               ELSE Proceed(acts, func, prefixed, ImeNow, address)
    BY Zenon DEF Execute, Acts
  <1>2. address \in Addresses /\ sp \in Addresses
    BY PcType, SpType, Zenon
  <1>3. Fits(func, acts)
    <2>1. BodyFits(func, Cycles[func])
      BY CyclesFit
    <2>2. instr_cycle + 1 \in 1..Len(Cycles[func])
      BY <2>1 DEF BodyFits
    <2> QED
      BY <2>1, <2>2, ResolveFits, Zenon DEF BodyFits, Acts
  <1> HIDE DEF acts
  <1>4. accesses' \in {0, 1}
    BY <1>1, <1>3, Accesses, Zenon
  <1>5. /\ regs.flags \subseteq Bits /\ regs.enabled \subseteq Bits
        /\ acts \cap {"write", "push", "poke"} = {} =>
               regs.flags = if_reg /\ regs.enabled = ie_reg
    BY RegistersType, Zenon
  <1>6. /\ if_reg' \subseteq Bits /\ ie_reg' \subseteq Bits
        /\ jump_vec' \in Sources \cup {NoSource}
    BY <1>1, <1>5, SourceTaken DEF IfAfterSend, TypeOK
  <1>7. acts \cap {"write", "push", "poke", "receive"} = {} =>
            if_reg' = if_reg /\ ie_reg' = ie_reg
    BY <1>1, <1>5
  <1>8. cond' \in BOOLEAN /\ ("check" \notin acts => cond' = cond)
    BY <1>1, Zenon DEF TypeOK
  <1>9. Common(func, prefixed, acts, address, sp)
    BY <1>1, <1>2, <1>3, <1>4, <1>6, <1>7, <1>8, Zenon DEF Common
  <1> QED
    BY <1>9, Zenon DEF acts

\* The functions that cpu_tick calls, and where they are: nop takes the place of the
\* instruction when the CPU wakes up, and follows the prefix.
Called(func, prefixed) ==
    /\ func \in DOMAIN Cycles
    /\ instr_cycle \in 0..(Len(Cycles[func]) - 1)
    /\ prefixed \in BOOLEAN
    /\ prefixed => func = "nop" /\ instr_func = "nop" /\ cb_prefixed /\ ~halted
    /\ func # "nop" => func = instr_func /\ ~halted

\* When an instruction ends in an interrupt, the address of the next one is kept.
LEMMA DispatchKeeps ==
    ASSUME CpuInv, NEW func, NEW prefixed, Called(func, prefixed),
           NEW acts, NEW address, NEW sp, Common(func, prefixed, acts, address, sp),
           "end" \in acts, TakesInterrupt(func, prefixed, ImeNow)
    PROVE  CpuInv'
  <1>1. /\ instr_cycle' = 0
        /\ Dispatch(address, "halt" \in acts)
        /\ halted' = FALSE
        /\ ime_flag' = 0
        /\ op' = [at |-> IF "halt" \in acts THEN op.at ELSE address, sp |-> sp,
                  prefixed |-> FALSE, cycles |-> 0]
    BY Zenon DEF Common, Complete, TakesInterrupt
  <1>2. masked' \in {"ei", "dispatch"} /\ (masked' = "dispatch" => "ei" \notin acts)
    BY SMT DEF Common, Complete
  <1>3. instr_func' = "call_int" /\ instr_reg' \in Opcodes /\ cb_prefixed' = FALSE
    BY <1>1, CpuAssumption, Zenon DEF Dispatch
  <1>4. /\ address \in Addresses /\ sp \in Addresses
        /\ op.at \in Addresses
    BY DEF Common, CpuInv, TypeOK
  <1>5. pc_reg' = Plus(op'.at, 1)
    <2>1. CASE "halt" \in acts
      <3>1. func = "halt" /\ acts = {"halt", "end"}
        BY <2>1, Zenon DEF Common, Fits
      <3>2. address = pc_reg
        BY <3>1, SMT DEF Common, PcAfter
      <3>3. pc_reg = Plus(op.at, 1)
        BY <3>1, SMT DEF Called, CpuInv, ReturnAhead
      <3>4. pc_reg' = address /\ op'.at = op.at
        BY <1>1, <2>1 DEF Dispatch
      <3> QED
        BY <3>2, <3>3, <3>4
    <2>2. CASE "halt" \notin acts
      BY <1>1, <2>2 DEF Dispatch
    <2> QED
      BY <2>1, <2>2
  <1>6. op' \in [at : Addresses, sp : Addresses, prefixed : BOOLEAN, cycles : 0..MaxCycles]
    BY <1>1, <1>4, SMT DEF MaxCycles
  <1>7. pc_reg' \in Addresses
    <2>1. op'.at \in Addresses
      BY <1>6, Zenon
    <2>2. op'.at \in Int
      BY <2>1, CpuAssumption DEF Addresses
    <2> QED
      BY <1>5, <2>2, PlusType
  <1>8. instr_func' \in DOMAIN Cycles /\ instr_cycle' \in 0..(Len(Cycles[instr_func']) - 1)
    BY <1>1, <1>3, CallInt
  <1>9. set_ime' \in {-1, 0, 1} /\ ("ei" \notin acts => set_ime' \in {-1, 0})
    BY DEF Common
  <1>10. TypeOK'
    <2>1. cb_prefixed' \in BOOLEAN /\ cond' \in BOOLEAN /\ halted' \in BOOLEAN
      BY <1>1, <1>3, Zenon DEF Common
    <2>2. /\ if_reg' \subseteq Bits /\ ie_reg' \subseteq Bits
          /\ jump_vec' \in Sources \cup {NoSource}
          /\ accesses' \in Nat
          /\ sp_reg' \in Addresses
      BY SMT DEF Common
    <2>3. ime_flag' \in {0, 1} /\ masked' \in {"no", "di", "dispatch", "ei"}
      BY <1>1, <1>2
    <2> QED
      BY <1>3, <1>6, <1>7, <1>8, <1>9, <2>1, <2>2, <2>3, Zenon DEF TypeOK
  <1>11. /\ PreciseReturn' /\ ReturnAhead' /\ HaltedBetween'
    BY <1>1, <1>5 DEF PreciseReturn, ReturnAhead, HaltedBetween
  <1>12. PrefixIsFirst'
    BY <1>3, SMT DEF PrefixIsFirst
  <1>13. MaskedByIme'
    BY <1>1, <1>2, <1>9 DEF MaskedByIme, ImeNow
  <1>14. StillPending'
    BY Zenon DEF TakesInterrupt, StillPending
  <1> QED
    BY <1>10, <1>11, <1>12, <1>13, <1>14, Zenon DEF CpuInv

\* When an instruction, or the prefix, ends in the fetch of the next one.
LEMMA FetchKeeps ==
    ASSUME CpuInv, NEW func, NEW prefixed, Called(func, prefixed),
           NEW acts, NEW address, NEW sp, Common(func, prefixed, acts, address, sp),
           "end" \in acts, ~TakesInterrupt(func, prefixed, ImeNow)
    PROVE  CpuInv'
  <1> DEFINE stopped == "halt" \in acts
  <1>1. /\ instr_cycle' = 0
        /\ \E opcode \in OPCODES : fetch_and_decode(opcode, address, stopped, prefixed)
        /\ halted' = (stopped /\ ~TakesInterrupt(func, prefixed, ImeNow))
        /\ ime_flag' = ImeNow
        /\ op' = IF prefixed
                 THEN [op EXCEPT !.prefixed = TRUE, !.cycles = @ + 1]
                 ELSE [at |-> IF stopped THEN op.at ELSE address, sp |-> sp,
                       prefixed |-> FALSE, cycles |-> 0]
    BY Zenon DEF Common, Complete
  <1>2. PICK opcode \in OPCODES : fetch_and_decode(opcode, address, stopped, prefixed)
    BY <1>1, Zenon
  <1>3. opcode \in Opcodes /\ prefixed \in BOOLEAN
    BY CpuAssumption, Zenon DEF Called
  <1>4. /\ instr_reg' \in Opcodes /\ instr_func' \in DOMAIN Cycles
        /\ instr_func' # "call_int"
        /\ prefixed => instr_func' # "halt"
        /\ cb_prefixed' = (~prefixed /\ opcode = 203)
    BY <1>2, <1>3, DecodeType, Zenon DEF fetch_and_decode
  <1>5. /\ address \in Addresses /\ address \in Int /\ sp \in Addresses
        /\ op \in [at : Addresses, sp : Addresses, prefixed : BOOLEAN, cycles : 0..MaxCycles]
    BY SMT DEF Common, CpuInv, TypeOK, Addresses
  <1>6. op' \in [at : Addresses, sp : Addresses, prefixed : BOOLEAN, cycles : 0..MaxCycles]
    <2>1. CASE prefixed
      <3>1. op.cycles = 0
        BY <2>1, Zenon DEF Called, CpuInv, PrefixIsFirst
      <3>2. op' = [op EXCEPT !.prefixed = TRUE, !.cycles = @ + 1]
        BY <1>1, <2>1, Zenon
      <3>3. op.cycles + 1 \in 0..MaxCycles
        BY <3>1 DEF MaxCycles
      <3> QED
        BY <1>5, <3>2, <3>3, Zenon
    <2>2. CASE ~prefixed
      <3>1. op' = [at |-> IF stopped THEN op.at ELSE address, sp |-> sp,
                   prefixed |-> FALSE, cycles |-> 0]
        BY <1>1, <2>2, Zenon
      <3> QED
        BY <1>5, <3>1, SMT DEF MaxCycles
    <2> QED
      BY <2>1, <2>2
  <1>7. pc_reg' = (IF stopped THEN address ELSE Plus(address, 1)) /\ pc_reg' \in Addresses
    BY <1>2, <1>5, PlusType DEF fetch_and_decode
  <1>8. instr_cycle' \in 0..(Len(Cycles[instr_func']) - 1)
    BY <1>1, <1>4, CyclesFit DEF BodyFits
  <1>9. ImeNow \in {0, 1}
    BY DEF CpuInv, TypeOK, ImeNow
  <1>10. TypeOK'
    <2>1. /\ cb_prefixed' \in BOOLEAN
          /\ cond' \in BOOLEAN
          /\ halted' \in BOOLEAN
      <3>1. cb_prefixed' \in BOOLEAN
        BY <1>4
      <3>2. cond' \in BOOLEAN
        BY Zenon DEF Common
      <3>3. halted' \in BOOLEAN
        BY <1>1
      <3> QED
        BY <3>1, <3>2, <3>3, Zenon
    <2>2. /\ if_reg' \subseteq Bits /\ ie_reg' \subseteq Bits
          /\ jump_vec' \in Sources \cup {NoSource}
          /\ accesses' \in Nat
          /\ sp_reg' \in Addresses
          /\ set_ime' \in {-1, 0, 1}
      BY SMT DEF Common
    <2>3. ime_flag' \in {0, 1}
      BY <1>1, <1>9
    <2>4. masked' \in {"no", "di", "dispatch", "ei"}
      BY SMT DEF Common, Complete, CpuInv, TypeOK
    <2> QED
      BY <1>4, <1>6, <1>7, <1>8, <2>1, <2>2, <2>3, <2>4, Zenon DEF TypeOK
  <1>11. PreciseReturn' /\ HaltedBetween' /\ StillPending'
    BY <1>1, <1>4 DEF PreciseReturn, HaltedBetween, StillPending
  <1>12. ReturnAhead'
    <2> SUFFICES ASSUME instr_func' = "halt", ~halted'
                 PROVE  pc_reg' = Plus(op'.at, 1)
      BY <1>4, Zenon DEF ReturnAhead
    <2>1. ~prefixed /\ ~stopped
      BY <1>1, <1>4, Zenon
    <2> QED
      BY <1>1, <1>7, <2>1
  <1>13. PrefixIsFirst'
    <2> SUFFICES ASSUME cb_prefixed'
                 PROVE  op'.cycles = 0
      BY Zenon DEF PrefixIsFirst
    <2>1. ~prefixed
      BY <1>4, Zenon
    <2> QED
      BY <1>1, <2>1
  <1>14. MaskedByIme'
    <2>1. CASE "di" \in acts
      <3>1. "ei" \notin acts
        BY <2>1 DEF Common, Fits
      <3>2. set_ime' = 0
        BY <2>1, <3>1 DEF Common
      <3> QED
        BY <3>2 DEF MaskedByIme, ImeNow
    <2>2. CASE "ei" \in acts
      <3>1. "di" \notin acts
        BY <2>2 DEF Common, Fits
      <3>2. masked' = "no"
        BY <2>2, <3>1, SMT DEF Common, Complete
      <3> QED
        BY <3>2 DEF MaskedByIme
    <2>3. CASE "di" \notin acts /\ "ei" \notin acts
      <3>1. masked' = masked
        BY <2>3, SMT DEF Common, Complete
      <3>2. set_ime' = -1
        BY <2>3 DEF Common
      <3> QED
        BY <1>1, <3>1, <3>2 DEF MaskedByIme, ImeNow, CpuInv
    <2> QED
      BY <2>1, <2>2, <2>3
  <1> QED
    BY <1>10, <1>11, <1>12, <1>13, <1>14, Zenon DEF CpuInv

\* When the instruction goes on: in the entry to a handler PC is taken back, and nothing
\* is withdrawn before the push.
LEMMA ProceedKeeps ==
    ASSUME CpuInv, NEW func, NEW prefixed, Called(func, prefixed),
           NEW address, NEW sp, Common(func, prefixed, Acts(func), address, sp),
           "end" \notin Acts(func)
    PROVE  CpuInv'
  <1> DEFINE acts == Acts(func)
  <1>1. func # "nop" /\ func # "halt" /\ "ei" \notin acts
    BY SMT DEF Common, Fits
  <1>2. func = instr_func /\ ~halted /\ ~prefixed
    BY <1>1, Zenon DEF Called
  <1>3. /\ instr_func' = func
        /\ instr_cycle' = IF instr_cycle + 1 < Len(Cycles[func]) THEN instr_cycle + 1
                                                                  ELSE instr_cycle
        /\ ime_flag' = IF "ime" \in acts THEN 1 ELSE ImeNow
        /\ pc_reg' = address
        /\ cb_prefixed' = prefixed
        /\ halted' = FALSE
        /\ op' = [op EXCEPT !.cycles = IF @ < MaxCycles THEN @ + 1 ELSE @]
        /\ masked' = IF "ime" \in acts THEN "no" ELSE masked
        /\ UNCHANGED instr_reg
    BY Zenon DEF Common, Proceed
  <1>4. func \in DOMAIN Cycles /\ instr_cycle \in 0..(Len(Cycles[func]) - 1)
    BY Zenon DEF Called
  <1>5. Len(Cycles[func]) \in Nat
    BY <1>4, CyclesFit DEF BodyFits
  <1>6. instr_cycle' \in 0..(Len(Cycles[instr_func']) - 1)
    BY <1>3, <1>4, <1>5
  <1>7. ImeNow \in {0, 1}
    BY DEF CpuInv, TypeOK, ImeNow
  <1>8. op \in [at : Addresses, sp : Addresses, prefixed : BOOLEAN, cycles : 0..MaxCycles]
    BY Zenon DEF CpuInv, TypeOK
  <1>9. /\ op' \in [at : Addresses, sp : Addresses, prefixed : BOOLEAN, cycles : 0..MaxCycles]
        /\ op'.at = op.at
    BY <1>3, <1>8, SMT DEF MaxCycles
  <1>10. TypeOK'
    <2>1. cb_prefixed' \in BOOLEAN /\ cond' \in BOOLEAN /\ halted' \in BOOLEAN
      BY <1>3, Zenon DEF Common, Called
    <2>2. /\ if_reg' \subseteq Bits /\ ie_reg' \subseteq Bits
          /\ jump_vec' \in Sources \cup {NoSource}
          /\ accesses' \in Nat
          /\ sp_reg' \in Addresses /\ pc_reg' \in Addresses
          /\ set_ime' \in {-1, 0, 1}
      BY <1>3, SMT DEF Common
    <2>3. ime_flag' \in {0, 1}
      BY <1>3, <1>7
    <2>4. masked' \in {"no", "di", "dispatch", "ei"} /\ instr_reg' \in Opcodes
      BY <1>3, Zenon DEF CpuInv, TypeOK
    <2>5. instr_func' \in DOMAIN Cycles
      BY <1>3, <1>4
    <2> QED
      BY <1>6, <1>9, <2>1, <2>2, <2>3, <2>4, <2>5, Zenon DEF TypeOK
  <1>11. HaltedBetween' /\ PrefixIsFirst'
    BY <1>2, <1>3, Zenon DEF HaltedBetween, PrefixIsFirst
  <1>12. MaskedByIme'
    <2>1. set_ime' \in {0, -1}
      BY <1>1 DEF Common
    <2> QED
      BY <1>3, <2>1 DEF MaskedByIme, ImeNow, CpuInv
  <1>13. PreciseReturn' /\ ReturnAhead' /\ StillPending'
    <2>1. CASE func # "call_int"
      BY <1>1, <1>3, <2>1 DEF PreciseReturn, ReturnAhead, StillPending
    <2>2. CASE func = "call_int"
      <3>1. /\ instr_cycle \in 0..4
            /\ instr_cycle = 0 => acts = {"dec_pc"}
            /\ instr_cycle = 1 => acts = {"dec_sp"}
            /\ instr_cycle = 2 => acts = {"push", "receive"}
            /\ instr_cycle = 3 => acts = {"poke", "vector"}
            /\ instr_cycle = 4 => acts = {"end"}
        BY <1>4, <2>2, CallInt, SMT DEF Acts, Resolve
      <3>2. instr_cycle' = instr_cycle + 1 /\ instr_cycle \in 0..3
        BY <1>3, <2>2, <3>1, CallInt
      <3>3. CASE instr_cycle = 0
        <4>1. address = Plus(pc_reg, -1)
          BY <3>1, <3>3, SMT DEF Common, PcAfter
        <4>2. pc_reg = Plus(op.at, 1) /\ op.at \in Addresses
          BY <1>2, <1>8, <2>2, <3>3, SMT DEF CpuInv, ReturnAhead
        <4>3. pc_reg' = op'.at
          BY <1>3, <1>9, <4>1, <4>2, PlusMinus
        <4>4. if_reg' = if_reg /\ ie_reg' = ie_reg
          BY <3>1, <3>3, SMT DEF Common
        <4> QED
          BY <1>2, <1>3, <2>2, <3>2, <3>3, <4>3, <4>4
          DEF PreciseReturn, ReturnAhead, StillPending, CpuInv
      <3>4. CASE instr_cycle = 1
        <4>1. address = pc_reg
          BY <3>1, <3>4, SMT DEF Common, PcAfter
        <4>2. if_reg' = if_reg /\ ie_reg' = ie_reg
          BY <3>1, <3>4, SMT DEF Common
        <4> QED
          BY <1>2, <1>3, <1>9, <2>2, <3>2, <3>4, <4>1, <4>2
          DEF PreciseReturn, ReturnAhead, StillPending, CpuInv
      <3>5. CASE instr_cycle = 2
        <4>1. address = pc_reg
          BY <3>1, <3>5, SMT DEF Common, PcAfter
        <4> QED
          BY <1>2, <1>3, <1>9, <2>2, <3>2, <3>5, <4>1
          DEF PreciseReturn, ReturnAhead, StillPending, CpuInv
      <3>6. CASE instr_cycle = 3
        BY <1>2, <1>3, <2>2, <3>2, <3>6 DEF PreciseReturn, ReturnAhead, StillPending
      <3> QED
        BY <3>2, <3>3, <3>4, <3>5, <3>6
    <2> QED
      BY <2>1, <2>2
  <1> QED
    BY <1>10, <1>11, <1>12, <1>13, Zenon DEF CpuInv

\* The M-cycles in which the CPU executes: each calls a function that is where it should
\* be, and keeps the invariant, with one access to the bus.
LEMMA CallsFit ==
    ASSUME CpuInv
    PROVE  /\ Wake => Called("nop", FALSE) /\ Execute("nop", FALSE, ImeNow)
           /\ Run => /\ Called(instr_func, cb_prefixed /\ instr_func = "nop")
                     /\ Execute(instr_func, cb_prefixed /\ instr_func = "nop", ImeNow)
  <1>1. "nop" \in DOMAIN Cycles
    <2>1. "nop" \in DOMAIN LoadCycles16
      BY SMT DEF LoadCycles16
    <2> QED
      BY <2>1, InTable, Zenon DEF Tables
  <1>2. Len(Cycles["nop"]) \in Nat \ {0}
    BY <1>1, CyclesFit DEF BodyFits
  <1>3. halted => instr_cycle \in 0..(Len(Cycles["nop"]) - 1)
    BY <1>2 DEF CpuInv, HaltedBetween
  <1>4. Wake => Called("nop", FALSE) /\ Execute("nop", FALSE, ImeNow)
    BY <1>1, <1>3, Zenon DEF Wake, Called
  <1>5. (cb_prefixed /\ instr_func = "nop") \in BOOLEAN
    OBVIOUS
  <1>6. Run => Called(instr_func, cb_prefixed /\ instr_func = "nop")
    BY <1>5, Zenon DEF Run, Called, CpuInv, TypeOK
  <1> QED
    BY <1>4, <1>6, Zenon DEF Run

\* Whichever way it ends, an M-cycle keeps the invariant and uses the bus once at most.
LEMMA ExecuteKeeps ==
    ASSUME CpuInv, NEW func, NEW prefixed, Called(func, prefixed),
           Execute(func, prefixed, ImeNow)
    PROVE  CpuInv' /\ OneBusAccess'
  <1>1. PICK address, sp : Common(func, prefixed, Acts(func), address, sp)
    BY CycleKeeps, Zenon DEF CpuInv, Called
  <1>2. OneBusAccess'
    BY <1>1 DEF Common, OneBusAccess
  <1> QED
    BY <1>1, <1>2, DispatchKeeps, FetchKeeps, ProceedKeeps, Zenon

\* The invariant, with the property that an M-cycle uses the bus once at most.
CpuIInv == CpuInv /\ OneBusAccess

\* The invariant holds for every sequence of instructions and requests, in every M-cycle
\* of cpu_tick.
THEOREM CpuInvariant == Spec => []CpuIInv
  <1>1. Init => CpuIInv
    <2> SUFFICES ASSUME Init
                 PROVE  CpuIInv
      OBVIOUS
    <2> USE DEF Init, cpu_init, int_init
    <2>1. "nop" \in DOMAIN Cycles /\ Len(Cycles["nop"]) \in Nat \ {0}
      <3>1. "nop" \in DOMAIN LoadCycles16
        BY SMT DEF LoadCycles16
      <3> QED
        BY <3>1, InTable, CyclesFit, Zenon DEF Tables, BodyFits
    <2>2. pc_reg \in Addresses /\ sp_reg \in Addresses
      BY CpuAssumption, PlusType DEF Addresses
    <2>3. op.at = Plus(pc_reg, -1) /\ op.at \in Addresses
      BY <2>2, PlusType DEF Addresses
    <2>4. op \in [at : Addresses, sp : Addresses, prefixed : BOOLEAN, cycles : 0..MaxCycles]
      BY <2>2, <2>3, SMT DEF MaxCycles
    <2>5. cb_prefixed \in BOOLEAN /\ cond \in BOOLEAN /\ halted \in BOOLEAN
      BY Zenon
    <2>6. /\ if_reg \subseteq Bits /\ ie_reg \subseteq Bits
          /\ ime_flag \in {0, 1} /\ set_ime \in {-1, 0, 1}
          /\ instr_reg \in Opcodes
          /\ jump_vec \in Sources \cup {NoSource}
          /\ accesses \in Nat
          /\ masked \in {"no", "di", "dispatch", "ei"}
      BY SMT DEF Bits, Opcodes
    <2>7. instr_func \in DOMAIN Cycles /\ instr_cycle \in 0..(Len(Cycles[instr_func]) - 1)
      BY <2>1, SMT
    <2>8. TypeOK
      BY <2>2, <2>4, <2>5, <2>6, <2>7, Zenon DEF TypeOK
    <2>9. PreciseReturn /\ ReturnAhead /\ HaltedBetween /\ StillPending
      BY SMT DEF PreciseReturn, ReturnAhead, HaltedBetween, StillPending
    <2>10. PrefixIsFirst
      BY Zenon DEF PrefixIsFirst
    <2>11. MaskedByIme /\ OneBusAccess
      BY SMT DEF MaskedByIme, ImeNow, OneBusAccess
    <2> QED
      BY <2>8, <2>9, <2>10, <2>11, Zenon DEF CpuIInv, CpuInv
  <1>2. CpuIInv /\ [Next]_vars => CpuIInv'
    <2> SUFFICES ASSUME CpuIInv, [Next]_vars
                 PROVE  CpuIInv'
      OBVIOUS
    <2>1. CASE Sleep
      BY <2>1 DEF Sleep, CpuIInv, CpuInv, TypeOK, PreciseReturn, ReturnAhead, HaltedBetween,
                  PrefixIsFirst, MaskedByIme, ImeNow, StillPending, OneBusAccess, instruction
    <2>2. CASE Wake
      BY <2>2, CallsFit, ExecuteKeeps, Zenon DEF CpuIInv
    <2>3. CASE Run
      BY <2>3, CallsFit, ExecuteKeeps, Zenon DEF CpuIInv
    <2>4. CASE DeviceRequest
      <3>1. PICK i \in Requests : if_reg' = if_reg \cup {i}
        BY <2>4, Zenon DEF DeviceRequest, request_interrupt
      <3>2. if_reg' \subseteq Bits
        BY <3>1, CpuAssumption, SMT
        DEF CpuIInv, CpuInv, TypeOK, Bits, Sources, NUM_INTERRUPTS
      <3>3. StillPending'
        BY <2>4, <3>1 DEF DeviceRequest, CpuIInv, CpuInv, StillPending, pending_interrupt,
                          instruction
      <3> QED
        BY <2>4, <3>2, <3>3
        DEF DeviceRequest, CpuIInv, CpuInv, TypeOK, PreciseReturn, ReturnAhead, HaltedBetween,
            PrefixIsFirst, MaskedByIme, ImeNow, OneBusAccess, instruction
    <2>5. CASE UNCHANGED vars
      BY <2>5 DEF vars, CpuIInv, CpuInv, TypeOK, PreciseReturn, ReturnAhead, HaltedBetween,
                  PrefixIsFirst, MaskedByIme, ImeNow, StillPending, OneBusAccess, instruction
    <2> QED
      BY <2>1, <2>2, <2>3, <2>4, <2>5, Zenon DEF Next, cpu_tick
  <1> QED
    BY <1>1, <1>2, PTL DEF Spec

\* The address that the entry to a handler pushes is that of the instruction that was
\* fetched and dropped, for every sequence of instructions and requests.
THEOREM ReturnIsPrecise == Spec => []CpuInv
  <1>1. CpuIInv => CpuInv
    BY Zenon DEF CpuIInv
  <1> QED
    BY <1>1, CpuInvariant, PTL

\* No M-cycle uses the bus twice, the overlapped fetch included.
THEOREM OneAccess == Spec => []OneBusAccess
  <1>1. CpuIInv => OneBusAccess
    BY Zenon DEF CpuIInv
  <1> QED
    BY <1>1, CpuInvariant, PTL

\* A step that begins the entry to a handler takes an interrupt.
LEMMA DispatchesTakes ==
    ASSUME CpuInv, NEW func, NEW prefixed, Called(func, prefixed),
           Execute(func, prefixed, ImeNow), Dispatches
    PROVE  TakesInterrupt(func, prefixed, ImeNow)
  <1>1. PICK address, sp : Common(func, prefixed, Acts(func), address, sp)
    BY CycleKeeps, Zenon DEF CpuInv, Called
  <1> SUFFICES ASSUME ~TakesInterrupt(func, prefixed, ImeNow)
               PROVE  FALSE
    OBVIOUS
  <1>2. CASE "end" \in Acts(func)
    <2>1. PICK opcode \in OPCODES :
              fetch_and_decode(opcode, address, "halt" \in Acts(func), prefixed)
      BY <1>1, <1>2, Zenon DEF Common, Complete
    <2>2. instr_func' # "call_int"
      BY <2>1, CpuAssumption, DecodeType, Zenon DEF fetch_and_decode, Called
    <2> QED
      BY <2>2, Zenon DEF Dispatches
  <1>3. CASE "end" \notin Acts(func)
    <2>1. /\ instr_func' = func
          /\ instr_cycle' = IF instr_cycle + 1 < Len(Cycles[func]) THEN instr_cycle + 1
                                                                    ELSE instr_cycle
      BY <1>1, <1>3, Zenon DEF Common, Proceed
    <2>2. func = "call_int" /\ func = instr_func
      BY <2>1, SMT DEF Dispatches, Called
    <2>3. instr_cycle \in 0..4
      BY <2>2, CallInt, SMT DEF Called
    <2> QED
      BY <2>1, <2>2, <2>3, CallInt, SMT DEF Dispatches
  <1> QED
    BY <1>2, <1>3

\* DI holds from the M-cycle in which it ends, EI and the end of a handler take effect no
\* sooner than they should, whatever requests race them.
THEOREM MaskedIsNotTaken == Spec => NotWhileMasked
  <1>1. CpuIInv /\ [Next]_vars =>
            [Dispatches => masked \notin {"di", "dispatch"} /\ (instr_func = "di" => halted)]_vars
    <2> SUFFICES ASSUME CpuIInv, Next, Dispatches
                 PROVE  masked \notin {"di", "dispatch"} /\ (instr_func = "di" => halted)
      BY Zenon
    <2> USE DEF CpuIInv
    <2>1. ASSUME NEW func, NEW prefixed, Called(func, prefixed),
                 Execute(func, prefixed, ImeNow)
          PROVE  masked \notin {"di", "dispatch"} /\ func # "di"
      <3>1. ImeNow = 1 /\ func # "di"
        BY <2>1, DispatchesTakes, Zenon DEF TakesInterrupt
      <3> QED
        BY <3>1 DEF CpuInv, MaskedByIme
    <2>2. CASE Sleep
      BY <2>2, Zenon DEF Sleep, instruction, Dispatches
    <2>3. CASE Wake
      BY <2>1, <2>3, CallsFit, Zenon DEF Wake
    <2>4. CASE Run
      BY <2>1, <2>4, CallsFit, Zenon
    <2>5. CASE DeviceRequest
      BY <2>5, Zenon DEF DeviceRequest, instruction, Dispatches
    <2> QED
      BY <2>2, <2>3, <2>4, <2>5, Zenon DEF Next, cpu_tick
  <1> QED
    BY <1>1, CpuInvariant, PTL DEF Spec, NotWhileMasked

\* The vector 0 is taken only when the push of PC withdrew the request, or the program
\* asked for a bit that is no source.
THEOREM GlitchNeedsPush == Spec => GlitchOnlyByPush
  <1> DEFINE Glitch == instr_func = "call_int" /\ instr_cycle = 2 /\ instr_cycle' = 3
                           /\ jump_vec' = NoSource
             Cause == if_reg' # if_reg \/ ie_reg' # ie_reg \/ ~(ie_reg \subseteq Sources)
  <1>1. CpuIInv /\ [Next]_vars => [Glitch => Cause]_vars
    <2> SUFFICES ASSUME CpuIInv, Next, Glitch, if_reg' = if_reg, ie_reg' = ie_reg,
                        ie_reg \subseteq Sources
                 PROVE  FALSE
      BY Zenon
    <2> USE DEF CpuIInv
    <2>1. Run
      <3>1. instr_cycle' # instr_cycle /\ ~halted
        BY SMT DEF CpuInv, HaltedBetween
      <3> QED
        BY <3>1, Zenon DEF Next, cpu_tick, Sleep, Wake, DeviceRequest, instruction
    <2> DEFINE acts == Acts(instr_func)
    <2>2. \E prefixed : Execute(instr_func, prefixed, ImeNow)
      BY <2>1, Zenon DEF Run
    <2>3. acts = {"push", "receive"}
      BY CallInt, SMT DEF Acts, Resolve
    <2>4. PICK regs \in RegistersAfter(acts) :
              /\ ie_reg' = regs.enabled
              /\ jump_vec' = SourceToSend(regs.flags, regs.enabled)
              /\ if_reg' = IfAfterSend(regs.flags, regs.enabled)
      <3>1. "receive" \in acts
        BY <2>3
      <3> QED
        BY <2>2, <3>1, Zenon DEF Execute, Acts
    <2>5. regs.flags \subseteq Bits /\ regs.enabled = ie_reg
      BY <2>4, RegistersType, Zenon DEF CpuInv
    <2>6. regs.flags = if_reg
      BY <2>4, <2>5, SMT DEF IfAfterSend, NoSource, Bits
    <2>7. if_reg \cap ie_reg \cap Sources # {}
      BY SMT DEF CpuInv, StillPending, pending_interrupt
    <2>8. jump_vec' \in Sources
      <3>1. jump_vec' = SourceToSend(if_reg, ie_reg)
        BY <2>4, <2>5, <2>6, Zenon
      <3> QED
        BY <2>7, <3>1, SourceTaken
    <2> QED
      BY <2>8, SMT DEF Sources, NUM_INTERRUPTS, NoSource
  <1> QED
    BY <1>1, CpuInvariant, PTL DEF Spec, GlitchOnlyByPush

---------------------------------------------------------------------------
\* The instruction in progress.

\* M-cycles and bytes that the prefix has taken before the function began.
Before == IF op.prefixed THEN 1 ELSE 0

Body == Cycles[instr_func]

Decoded ==
    IF instr_func = "call_int"
    THEN ~op.prefixed
    ELSE /\ instr_func = Decode(instr_reg, op.prefixed)
         /\ instr_func = "nop" /\ instr_reg = 203 /\ ~op.prefixed => cb_prefixed

\* A function goes past its condition only if it holds.
PastIf == IfAt(instr_func) \in 1..instr_cycle => cond

\* k M-cycles do not leave the sequence of instructions.
InSequence(k) == instr_func # "call_int" /\ (instr_func \in Jumping => k < IfAt(instr_func))

PcFollows ==
    InSequence(instr_cycle) =>
        pc_reg = Plus(op.at, 1 + Before + Count(Body, instr_cycle, {"imm"}))

SpFollows ==
    ~Loading(instr_func, instr_reg) => sp_reg = Plus(op.sp, Moves(Body, instr_cycle))

\* The function that runs is that of the instruction, and has taken it as far as the
\* M-cycles say.  STOP, which never ends, is left out.
Progress ==
    ~halted /\ instr_func # "stop" =>
        /\ op.cycles = instr_cycle + Before
        /\ Decoded /\ PastIf /\ PcFollows /\ SpFollows

\* The function begins with nothing done.
LEMMA CountNone ==
    ASSUME NEW body, NEW acts
    PROVE  Count(body, 0, acts) = 0
  BY DEF Count, Does

\* The count of one more M-cycle.
LEMMA CountNext ==
    ASSUME NEW body, NEW k \in 0..5, NEW acts
    PROVE  /\ Count(body, k, acts) \in Int
           /\ Count(body, k + 1, acts) =
                  Count(body, k, acts) + IF body[k + 1] \cap acts # {} THEN 1 ELSE 0
  BY DEF Count, Does

\* After an M-cycle of the instruction that is not cut short by its condition, PC and SP
\* are where the M-cycles so far take them.
LEMMA AfterCycle ==
    ASSUME CpuInv, Progress, ~halted, instr_func # "stop",
           NEW acts, acts = Body[instr_cycle + 1] \ {"if"},
           NEW address \in PcAfter(acts), NEW sp \in SpAfter(acts)
    PROVE  /\ InSequence(instr_cycle + 1)
              => address = Plus(op.at, 1 + Before + Count(Body, instr_cycle + 1, {"imm"}))
           /\ ~Loading(instr_func, instr_reg)
              => sp = Plus(op.sp, Moves(Body, instr_cycle + 1))
  <1> DEFINE k == instr_cycle
             whole == Body[k + 1]
  <1>1. /\ instr_func \in DOMAIN Cycles /\ k \in 0..(Len(Body) - 1)
        /\ op.at \in Int /\ op.sp \in Int
        /\ pc_reg \in Addresses /\ sp_reg \in Addresses
    BY CpuAssumption DEF CpuInv, TypeOK, Body, Addresses
  <1>2. /\ Len(Body) = LenOf(instr_func)
        /\ LenOf(instr_func) \in 1..6 /\ IfAt(instr_func) \in 0..3
        /\ CycleShaped(instr_func, k + 1, whole)
        /\ Fits(instr_func, whole)
    <2>1. BodyFits(instr_func, Body) /\ Shaped(instr_func, Body)
      BY <1>1, CyclesFit, Zenon DEF Body
    <2>2. LenOf(instr_func) \in 1..6 /\ IfAt(instr_func) \in 0..3
      BY DEF LenOf, IfAt
    <2>3. Len(Body) = LenOf(instr_func)
      BY <2>1, Zenon DEF Shaped
    <2>4. k + 1 \in 1..Len(Body) /\ k + 1 \in 1..LenOf(instr_func)
      BY <1>1, <2>2, <2>3
    <2> QED
      BY <2>1, <2>2, <2>3, <2>4, Zenon DEF Shaped, BodyFits
  <1>3. k \in 0..5 /\ Before \in {0, 1}
    BY <1>1, <1>2 DEF Before
  <1>4. PcFollows /\ SpFollows
    BY Zenon DEF Progress
  <1> DEFINE imms == Count(Body, k, {"imm"})
             pops == Count(Body, k, {"pop"})
             pushes == Count(Body, k, {"dec_sp", "push"})
  <1>5. /\ imms \in Int /\ pops \in Int /\ pushes \in Int
        /\ Count(Body, k + 1, {"imm"}) = imms + IF "imm" \in whole THEN 1 ELSE 0
        /\ Count(Body, k + 1, {"pop"}) = pops + IF "pop" \in whole THEN 1 ELSE 0
        /\ Count(Body, k + 1, {"dec_sp", "push"})
              = pushes + IF whole \cap {"dec_sp", "push"} # {} THEN 1 ELSE 0
    <2>1. \A a : a \in whole <=> whole \cap {a} # {}
      OBVIOUS
    <2> QED
      BY <1>3, <2>1, CountNext
  <1> HIDE DEF imms, pops, pushes, whole
  <1>6. ASSUME InSequence(k + 1)
        PROVE  address = Plus(op.at, 1 + Before + Count(Body, k + 1, {"imm"}))
    <2>1. /\ acts \cap {"jump", "dec_pc", "vector"} = {}
          /\ "imm" \in acts <=> "imm" \in whole
      <3>1. acts = whole \ {"if"}
        BY DEF whole
      <3> QED
        BY <1>2, <1>3, <1>6, <3>1 DEF CycleShaped, InSequence
    <2>2. pc_reg = Plus(op.at, 1 + Before + imms)
      <3>1. InSequence(k)
        BY <1>3, <1>6 DEF InSequence, IfAt
      <3> QED
        BY <1>4, <3>1, Zenon DEF PcFollows, imms
    <2>3. CASE "imm" \in whole
      <3>1. address = Plus(Plus(op.at, 1 + Before + imms), 1)
        BY <2>1, <2>2, <2>3 DEF PcAfter
      <3>2. 1 + Before + imms \in Int /\ 1 + Before + imms + 1 = 1 + Before + (imms + 1)
        BY <1>3, <1>5
      <3>3. address = Plus(op.at, 1 + Before + imms + 1)
        BY <1>1, <3>1, <3>2, PlusPlus
      <3> QED
        BY <1>5, <2>3, <3>2, <3>3
    <2>4. CASE "imm" \notin whole
      <3>1. address = pc_reg
        BY <2>1, <2>4 DEF PcAfter
      <3>2. Count(Body, k + 1, {"imm"}) = imms
        BY <1>5, <2>4
      <3> QED
        BY <2>2, <3>1, <3>2
    <2> QED
      BY <2>3, <2>4
  <1>7. ASSUME ~Loading(instr_func, instr_reg)
        PROVE  sp = Plus(op.sp, Moves(Body, k + 1))
    <2>1. /\ ~LoadsSp(acts)
          /\ "pop" \in acts <=> "pop" \in whole
          /\ acts \cap {"dec_sp", "push"} # {} <=> whole \cap {"dec_sp", "push"} # {}
      <3>1. acts = whole \ {"if"}
        BY DEF whole
      <3> QED
        BY <1>2, <1>7, <3>1 DEF CycleShaped, Loading, LoadsSp
    <2>2. sp_reg = Plus(op.sp, pops - pushes)
      BY <1>4, <1>7, Zenon DEF SpFollows, Moves, pops, pushes
    <2>3. pops - pushes \in Int
      BY <1>5
    <2>4. CASE "pop" \in whole
      <3>1. whole \cap {"dec_sp", "push"} = {}
        BY <1>2, <2>4 DEF CycleShaped
      <3>2. sp = Plus(sp_reg, 1)
        BY <2>1, <2>4, <3>1 DEF SpAfter
      <3>3. Moves(Body, k + 1) = pops - pushes + 1
        BY <1>5, <2>4, <3>1 DEF Moves
      <3> QED
        BY <1>1, <2>2, <2>3, <3>2, <3>3, PlusPlus
    <2>5. CASE whole \cap {"dec_sp", "push"} # {}
      <3>1. "pop" \notin whole
        BY <1>2, <2>5 DEF CycleShaped
      <3>2. sp = Plus(sp_reg, -1)
        BY <2>1, <2>5, <3>1 DEF SpAfter
      <3>3. Moves(Body, k + 1) = pops - pushes + (-1)
        BY <1>5, <2>5, <3>1 DEF Moves
      <3> QED
        BY <1>1, <2>2, <2>3, <3>2, <3>3, PlusPlus
    <2>6. CASE "pop" \notin whole /\ whole \cap {"dec_sp", "push"} = {}
      <3>1. sp = sp_reg
        BY <2>1, <2>6 DEF SpAfter
      <3>2. Moves(Body, k + 1) = pops - pushes
        BY <1>5, <2>6 DEF Moves
      <3> QED
        BY <2>2, <3>1, <3>2
    <2> QED
      BY <2>4, <2>5, <2>6
  <1> QED
    BY <1>6, <1>7

\* Either the condition cuts the instruction short, or the M-cycle is done as it stands,
\* and then the function ends where it is as long as it gets.
LEMMA Ending ==
    ASSUME CpuInv, Progress, ~halted, instr_func # "stop"
    PROVE  \/ /\ Acts(instr_func) = End
              /\ instr_cycle + 1 = IfAt(instr_func) /\ ~cond
           \/ /\ Acts(instr_func) = Body[instr_cycle + 1] \ {"if"}
              /\ "end" \in Acts(instr_func) <=> instr_cycle + 1 = LenOf(instr_func)
              /\ IfAt(instr_func) \in 1..(instr_cycle + 1) => cond
  <1> DEFINE k == instr_cycle
             whole == Body[k + 1]
  <1>1. /\ instr_func \in DOMAIN Cycles /\ k \in 0..(Len(Body) - 1)
        /\ cond \in BOOLEAN
    BY Zenon DEF CpuInv, TypeOK, Body
  <1>2. /\ Len(Body) = LenOf(instr_func)
        /\ LenOf(instr_func) \in 1..6 /\ IfAt(instr_func) \in 0..3
        /\ CycleShaped(instr_func, k + 1, whole)
    <2>1. Shaped(instr_func, Body)
      BY <1>1, CyclesFit, Zenon DEF Body
    <2>2. LenOf(instr_func) \in 1..6 /\ IfAt(instr_func) \in 0..3
      BY DEF LenOf, IfAt
    <2>3. Len(Body) = LenOf(instr_func)
      BY <2>1, Zenon DEF Shaped
    <2>4. k + 1 \in 1..LenOf(instr_func)
      BY <1>1, <2>2, <2>3
    <2> QED
      BY <2>1, <2>2, <2>3, <2>4, Zenon DEF Shaped
  <1>3. Acts(instr_func) = IF "if" \in whole /\ ~cond THEN End ELSE whole \ {"if"}
    BY Zenon DEF Acts, Resolve, Body
  <1>4. IfAt(instr_func) \in 1..k => cond
    BY Zenon DEF Progress, PastIf
  <1>5. IfAt(instr_func) \in 1..(k + 1) => IfAt(instr_func) \in 1..k \/ IfAt(instr_func) = k + 1
    BY <1>1, <1>2
  <1> HIDE DEF k, whole
  <1>6. CASE "if" \in whole /\ ~cond
    <2>1. k + 1 = IfAt(instr_func)
      BY <1>2, <1>6, Zenon DEF CycleShaped
    <2> QED
      BY <1>3, <1>6, <2>1, Zenon DEF k
  <1>7. CASE ~("if" \in whole /\ ~cond)
    <2>1. Acts(instr_func) = whole \ {"if"}
      BY <1>3, <1>7, Zenon
    <2>2. "end" \in whole \ {"if"} <=> k + 1 = LenOf(instr_func)
      <3>1. "end" \in whole \ {"if"} <=> "end" \in whole
        BY SMT
      <3> QED
        BY <1>2, <3>1, Zenon DEF CycleShaped
    <2>3. IfAt(instr_func) \in 1..(k + 1) => cond
      BY <1>2, <1>4, <1>5, <1>7, Zenon DEF CycleShaped
    <2> QED
      BY <2>1, <2>2, <2>3, Zenon DEF k, whole
  <1> QED
    BY <1>6, <1>7, Zenon

\* A function that has not begun, one byte after the start of its instruction, or two
\* after the prefix.
LEMMA Begins ==
    ASSUME CpuInv', instr_cycle' = 0, op'.cycles = Before',
           Decoded',
           instr_func' # "call_int" => pc_reg' = Plus(op'.at, 1 + Before'),
           sp_reg' = op'.sp
    PROVE  Progress'
  <1>1. PastIf'
    BY SMT DEF PastIf
  <1>2. Before' \in {0, 1}
    BY DEF Before
  <1>3. PcFollows'
    <2>1. Count(Body, instr_cycle, {"imm"})' = 0
      BY CountNone, Zenon
    <2>2. 1 + Before' + 0 = 1 + Before'
      BY <1>2
    <2> QED
      BY <2>1, <2>2, Zenon DEF PcFollows, InSequence
  <1>4. SpFollows'
    <2>1. /\ Count(Body, instr_cycle, {"pop"})' = 0
          /\ Count(Body, instr_cycle, {"dec_sp", "push"})' = 0
      BY CountNone, Zenon
    <2>2. Moves(Body, instr_cycle)' = 0
      BY <2>1 DEF Moves
    <2>3. op'.sp \in Addresses
      BY Zenon DEF CpuInv, TypeOK
    <2>4. Plus(op'.sp, 0) = op'.sp
      BY <2>3, CpuAssumption DEF Plus, Addresses
    <2> QED
      BY <2>2, <2>4, Zenon DEF SpFollows
  <1>5. op'.cycles = instr_cycle' + Before'
    <2>1. \A n \in {0, 1} : 0 + n = n
      OBVIOUS
    <2> QED
      BY <1>2, <2>1, Zenon
  <1> QED
    BY <1>1, <1>3, <1>4, <1>5, Zenon DEF Progress

\* The instruction that follows, or the entry to a handler.
LEMMA EndsProgress ==
    ASSUME CpuInv, Progress, CpuInv', NEW func, NEW prefixed, Called(func, prefixed),
           NEW address, NEW sp, Common(func, prefixed, Acts(func), address, sp),
           "end" \in Acts(func)
    PROVE  Progress'
  <1> DEFINE acts == Acts(func)
             stopped == "halt" \in acts
  <1>1. /\ instr_cycle' = 0
        /\ sp_reg' = sp
        /\ IF TakesInterrupt(func, prefixed, ImeNow)
           THEN Dispatch(address, stopped)
           ELSE \E opcode \in OPCODES : fetch_and_decode(opcode, address, stopped, prefixed)
        /\ halted' = (stopped /\ ~TakesInterrupt(func, prefixed, ImeNow))
        /\ op' = IF prefixed
                 THEN [op EXCEPT !.prefixed = TRUE, !.cycles = @ + 1]
                 ELSE [at |-> IF stopped THEN op.at ELSE address, sp |-> sp,
                       prefixed |-> FALSE, cycles |-> 0]
    BY Zenon DEF Common, Complete
  <1>2. /\ op \in [at : Addresses, sp : Addresses, prefixed : BOOLEAN, cycles : 0..MaxCycles]
        /\ prefixed \in BOOLEAN
    BY Zenon DEF CpuInv, TypeOK, Called
  <1>3. CASE TakesInterrupt(func, prefixed, ImeNow)
    <2>1. ~prefixed
      BY <1>3, Zenon DEF TakesInterrupt
    <2>2. op'.prefixed = FALSE /\ op'.cycles = 0 /\ op'.sp = sp
      <3>1. op' = [at |-> IF stopped THEN op.at ELSE address, sp |-> sp,
                   prefixed |-> FALSE, cycles |-> 0]
        BY <1>1, <2>1, Zenon
      <3> QED
        BY <3>1, Zenon
    <2>3. instr_func' = "call_int"
      BY <1>1, <1>3, Zenon DEF Dispatch
    <2>4. Before' = 0 /\ Decoded'
      BY <2>2, <2>3, Zenon DEF Before, Decoded
    <2> QED
      BY <1>1, <2>2, <2>3, <2>4, Begins, Zenon
  <1>4. CASE ~TakesInterrupt(func, prefixed, ImeNow)
    <2>1. PICK opcode \in OPCODES : fetch_and_decode(opcode, address, stopped, prefixed)
      BY <1>1, <1>4, Zenon
    <2>2. /\ instr_reg' = opcode /\ instr_func' = Decode(opcode, prefixed)
          /\ pc_reg' = IF stopped THEN address ELSE Plus(address, 1)
          /\ cb_prefixed' = (~prefixed /\ opcode = 203)
      BY <2>1, Zenon DEF fetch_and_decode
    <2>3. instr_func' # "call_int"
      BY <1>2, <2>1, <2>2, DecodeType, CpuAssumption, Zenon
    <2>4. CASE stopped
      <3>1. halted'
        BY <1>1, <1>4, <2>4, Zenon
      <3> QED
        BY <3>1, Zenon DEF Progress
    <2>5. CASE ~stopped /\ ~prefixed
      <3>1. op' = [at |-> address, sp |-> sp, prefixed |-> FALSE, cycles |-> 0]
        BY <1>1, <2>5, Zenon
      <3>2. op'.at = address /\ op'.prefixed = FALSE /\ op'.cycles = 0 /\ op'.sp = sp
        BY <3>1, Zenon
      <3>3. Before' = 0
        BY <3>2, Zenon DEF Before
      <3>4. Decoded'
        BY <1>2, <2>2, <2>3, <2>5, <3>2, Zenon DEF Decoded
      <3>5. pc_reg' = Plus(op'.at, 1 + Before')
        BY <2>2, <2>5, <3>2, <3>3
      <3> QED
        BY <1>1, <3>2, <3>3, <3>4, <3>5, Begins, Zenon
    <2>6. CASE ~stopped /\ prefixed
      <3>1. func = "nop" /\ instr_func = "nop" /\ cb_prefixed /\ ~halted
        BY <2>6, Zenon DEF Called
      <3>2. op' = [op EXCEPT !.prefixed = TRUE, !.cycles = @ + 1]
        BY <1>1, <2>6, Zenon
      <3>3. op'.at = op.at /\ op'.prefixed = TRUE /\ op'.cycles = op.cycles + 1 /\ op'.sp = op.sp
        BY <1>2, <3>2, Zenon
      <3>4. op.cycles = 0
        BY <3>1, Zenon DEF CpuInv, PrefixIsFirst
      <3>5. instr_cycle = 0 /\ Before = 0
        <4>1. op.cycles = instr_cycle + Before
          BY <3>1, Zenon DEF Progress
        <4>2. instr_cycle \in Nat
          BY CyclesFit DEF CpuInv, TypeOK, BodyFits
        <4> QED
          BY <3>4, <4>1, <4>2 DEF Before
      <3>6. /\ LenOf("nop") = 1 /\ ImmOf("nop") = 0 /\ SpOf("nop") = 0 /\ IfAt("nop") = 0
            /\ "nop" \notin Jumping
            /\ \A reg : ~Loading("nop", reg)
        BY SMT DEF LenOf, ImmOf, SpOf, IfAt, Jumping, Loading, Pushing, Popping
      <3>7. acts = Body[instr_cycle + 1] \ {"if"}
        <4>1. instr_cycle + 1 # IfAt(instr_func)
          BY <3>1, <3>5, <3>6
        <4> QED
          BY <3>1, <4>1, Ending, Zenon
      <3>8. address \in PcAfter(acts) /\ sp \in SpAfter(acts)
        BY Zenon DEF Common
      <3>9. /\ Count(Body, 1, {"imm"}) = 0
            /\ Moves(Body, 1) = 0
        <4>1. Shaped("nop", Body)
          BY <3>1, CyclesFit, Zenon DEF CpuInv, TypeOK, Body
        <4> QED
          BY <3>6, <4>1 DEF Shaped
      <3>10. address = Plus(op.at, 1) /\ sp = Plus(op.sp, 0)
        <4>1. InSequence(instr_cycle + 1)
          BY <3>1, <3>6 DEF InSequence
        <4>2. /\ address = Plus(op.at, 1 + Before + Count(Body, instr_cycle + 1, {"imm"}))
              /\ sp = Plus(op.sp, Moves(Body, instr_cycle + 1))
          BY <3>1, <3>6, <3>7, <3>8, <4>1, AfterCycle, Zenon
        <4>3. instr_cycle + 1 = 1 /\ 1 + Before + 0 = 1
          BY <3>5
        <4> QED
          BY <3>9, <4>2, <4>3, Zenon
      <3>11. sp = op'.sp
        <4>1. op.sp \in Addresses
          BY <1>2
        <4>2. Plus(op.sp, 0) = op.sp
          BY <4>1, CpuAssumption DEF Plus, Addresses
        <4> QED
          BY <3>3, <3>10, <4>2
      <3>12. Before' = 1 /\ op'.cycles = 1
        BY <3>3, <3>4 DEF Before
      <3>13. Decoded'
        BY <2>2, <2>3, <2>6, <3>3, Zenon DEF Decoded
      <3>14. pc_reg' = Plus(op'.at, 1 + Before')
        <4>1. op.at \in Int
          BY <1>2 DEF Addresses
        <4>2. Plus(Plus(op.at, 1), 1) = Plus(op.at, 1 + 1)
          BY <4>1, PlusPlus
        <4> QED
          BY <2>2, <2>6, <3>3, <3>10, <3>12, <4>2, Zenon
      <3> QED
        BY <1>1, <3>11, <3>12, <3>13, <3>14, Begins, Zenon
    <2> QED
      BY <2>4, <2>5, <2>6, Zenon
  <1> QED
    BY <1>3, <1>4

\* The next M-cycle of the same function.
LEMMA ProceedsProgress ==
    ASSUME CpuInv, Progress, NEW func, NEW prefixed, Called(func, prefixed),
           NEW address, NEW sp, Common(func, prefixed, Acts(func), address, sp),
           "end" \notin Acts(func)
    PROVE  Progress'
  <1> DEFINE acts == Acts(func)
             k == instr_cycle
  <1>1. /\ instr_func' = func
        /\ instr_cycle' = IF k + 1 < Len(Cycles[func]) THEN k + 1 ELSE k
        /\ pc_reg' = address /\ sp_reg' = sp
        /\ op' = [op EXCEPT !.cycles = IF @ < MaxCycles THEN @ + 1 ELSE @]
        /\ instr_reg' = instr_reg
    BY Zenon DEF Common, Proceed
  <1>2. func = instr_func /\ ~halted /\ func # "nop"
    BY Zenon DEF Called, Common, Fits
  <1>3. CASE instr_func = "stop"
    BY <1>1, <1>2, <1>3, Zenon DEF Progress
  <1>4. CASE instr_func # "stop"
    <2>1. /\ acts = Body[k + 1] \ {"if"}
          /\ k + 1 # LenOf(instr_func)
          /\ IfAt(instr_func) \in 1..(k + 1) => cond
      <3>1. acts # End
        BY DEF End
      <3> QED
        BY <1>2, <1>4, <3>1, Ending, Zenon
    <2>2. /\ k \in 0..(LenOf(instr_func) - 1) /\ LenOf(instr_func) \in 1..6
          /\ Len(Cycles[func]) = LenOf(instr_func)
          /\ CycleShaped(instr_func, k + 1, Body[k + 1])
      <3>1. Shaped(instr_func, Body)
        BY CyclesFit, Zenon DEF CpuInv, TypeOK, Body
      <3>2. LenOf(instr_func) \in 1..6
        BY DEF LenOf
      <3>3. Len(Body) = LenOf(instr_func)
        BY <3>1, Zenon DEF Shaped
      <3>4. k \in 0..(LenOf(instr_func) - 1)
        BY <3>3, Zenon DEF CpuInv, TypeOK, Body
      <3>5. k + 1 \in 1..LenOf(instr_func)
        BY <3>2, <3>4
      <3> QED
        BY <1>2, <3>1, <3>2, <3>3, <3>4, <3>5, Zenon DEF Shaped, Body
    <2>3. instr_cycle' = k + 1
      BY <1>1, <2>1, <2>2
    <2>4. address \in PcAfter(acts) /\ sp \in SpAfter(acts)
      BY Zenon DEF Common
    <2>5. /\ op.cycles = k + Before /\ Decoded
          /\ op \in [at : Addresses, sp : Addresses, prefixed : BOOLEAN, cycles : 0..MaxCycles]
      BY <1>2, <1>4, Zenon DEF Progress, CpuInv, TypeOK
    <2>6. /\ op'.cycles = op.cycles + 1
          /\ op'.at = op.at /\ op'.sp = op.sp /\ op'.prefixed = op.prefixed
      <3>1. op.cycles < MaxCycles
        BY <2>2, <2>5 DEF Before, MaxCycles
      <3>2. op' = [op EXCEPT !.cycles = @ + 1]
        BY <1>1, <3>1, Zenon
      <3> QED
        BY <2>5, <3>2, Zenon
    <2>7. Before' = Before /\ Before \in {0, 1} /\ Body' = Body
      <3>1. Before' = Before /\ Body' = Body
        BY <1>1, <1>2, <2>6, Zenon DEF Before, Body
      <3> QED
        BY <3>1 DEF Before
    <2>8. op'.cycles = instr_cycle' + Before'
      BY <2>2, <2>3, <2>5, <2>6, <2>7
    <2>9. Decoded'
      BY <1>1, <1>2, <2>5, <2>6, Zenon DEF Decoded
    <2>10. PastIf'
      <3> SUFFICES ASSUME IfAt(instr_func) \in 1..(k + 1)
                   PROVE  cond'
        BY <1>1, <1>2, <2>3, Zenon DEF PastIf
      <3>1. IfAt(instr_func) <= k + 1 /\ ~(k + 1 < IfAt(instr_func))
        BY <2>2
      <3>2. "check" \notin Body[k + 1]
        BY <2>2, <3>1, Zenon DEF CycleShaped
      <3>3. "check" \notin acts
        BY <2>1, <3>2
      <3>4. cond' = cond
        BY <3>3, Zenon DEF Common
      <3> QED
        BY <2>1, <3>4, Zenon
    <2>11. PcFollows' /\ SpFollows'
      BY <1>1, <1>2, <1>4, <2>1, <2>3, <2>4, <2>6, <2>7, AfterCycle, Zenon
      DEF PcFollows, SpFollows, InSequence
    <2> QED
      BY <2>8, <2>9, <2>10, <2>11, Zenon DEF Progress
  <1> QED
    BY <1>3, <1>4

\* In every M-cycle the function in progress is that of its instruction, and PC, SP and
\* the count of M-cycles are where it takes them.
THEOREM ProgressInvariant == Spec => []Progress
  <1>1. Init => Progress
    <2> SUFFICES ASSUME Init
                 PROVE  Progress
      OBVIOUS
    <2> USE DEF Init, cpu_init
    <2>1. /\ instr_func = "nop" /\ instr_reg = 0 /\ instr_cycle = 0 /\ op.cycles = 0
          /\ op.prefixed = FALSE /\ op.sp = sp_reg
      BY Zenon
    <2>2. op.at = Plus(pc_reg, -1)
      BY Zenon
    <2>3. pc_reg \in Addresses /\ sp_reg \in Addresses
      BY CpuAssumption, PlusType DEF Addresses
    <2> HIDE DEF Init, cpu_init
    <2>4. Before = 0
      BY <2>1, Zenon DEF Before
    <2>5. Decoded
      <3>1. Decode(0, FALSE) = "nop"
        BY SMT DEF Decode, DecodeBlock0, get_bits, HasHl
      <3>2. "nop" # "call_int" /\ 0 # 203
        BY SMT
      <3> QED
        BY <2>1, <3>1, <3>2, Zenon DEF Decoded
    <2>6. PastIf
      BY <2>1, SMT DEF PastIf
    <2>7. PcFollows
      <3>1. pc_reg = Plus(op.at, 1)
        BY <2>2, <2>3, PlusMinus
      <3> QED
        BY <2>1, <2>4, <3>1, CountNone DEF PcFollows
    <2>8. SpFollows
      <3>1. Plus(op.sp, 0) = sp_reg
        BY <2>1, <2>3, CpuAssumption DEF Plus, Addresses
      <3>2. Moves(Body, instr_cycle) = 0
        BY <2>1, CountNone DEF Moves
      <3> QED
        BY <3>1, <3>2, Zenon DEF SpFollows
    <2> QED
      BY <2>1, <2>4, <2>5, <2>6, <2>7, <2>8 DEF Progress
  <1>2. CpuIInv /\ CpuIInv' /\ Progress /\ [Next]_vars => Progress'
    <2> SUFFICES ASSUME CpuInv, CpuInv', Progress, [Next]_vars
                 PROVE  Progress'
      BY Zenon DEF CpuIInv
    <2> DEFINE Same == UNCHANGED <<pc_reg, sp_reg, instruction, halted, op>>
    <2>1. ASSUME NEW func, NEW prefixed, Called(func, prefixed),
                 Execute(func, prefixed, ImeNow)
          PROVE  Progress'
      <3>1. PICK address, sp : Common(func, prefixed, Acts(func), address, sp)
        BY <2>1, CycleKeeps, Zenon DEF CpuInv, Called
      <3> QED
        BY <2>1, <3>1, EndsProgress, ProceedsProgress, Zenon
    <2>2. CASE Wake \/ Run
      BY <2>1, <2>2, CallsFit, Zenon
    <2>3. CASE Sleep \/ DeviceRequest \/ UNCHANGED vars
      <3>1. Same
        BY <2>3, Zenon DEF Sleep, DeviceRequest, vars
      <3> QED
        BY <3>1, Zenon DEF instruction, Progress, Decoded, PastIf, PcFollows, SpFollows,
                           Before, Body, InSequence
    <2> QED
      BY <2>2, <2>3, Zenon DEF Next, cpu_tick
  <1> QED
    BY <1>1, <1>2, CpuInvariant, PTL DEF Spec

\* The reference and the functions of cpu.c agree on every opcode.
LEMMA DecodeDocumented ==
    ASSUME NEW opcode \in Opcodes \ {203}, Decode(opcode, FALSE) # "stop"
    PROVE  Documented(opcode, Decode(opcode, FALSE))
  <1>1. get_bits(opcode, 7, 6) = (opcode \div 64) % 4
    BY SMT DEF get_bits
  <1>2. CASE opcode \in 0..63
    <2>1. get_bits(opcode, 7, 6) = 0
      BY <1>1, <1>2
    <2>2. Decode(opcode, FALSE) = DecodeBlock0(opcode)
      BY <2>1 DEF Decode
    <2> QED
      BY <1>2, <2>2, Block0, Zenon DEF Claim0
  <1>3. CASE opcode \in 64..127
    <2>1. get_bits(opcode, 7, 6) = 1
      BY <1>1, <1>3
    <2>2. Decode(opcode, FALSE) = DecodeBlock1(opcode)
      BY <2>1 DEF Decode
    <2> QED
      BY <1>3, <2>2, Regular, ZenonT(30)
  <1>4. CASE opcode \in 128..191
    <2>1. get_bits(opcode, 7, 6) = 2
      BY <1>1, <1>4
    <2>2. Decode(opcode, FALSE) = DecodeBlock2(opcode)
      BY <2>1 DEF Decode
    <2> QED
      BY <1>4, <2>2, Regular, ZenonT(30)
  <1>5. CASE opcode \in 192..255
    <2>1. get_bits(opcode, 7, 6) = 3
      BY <1>1, <1>5
    <2>2. Decode(opcode, FALSE) = DecodeBlock3(opcode)
      BY <2>1 DEF Decode
    <2>3. opcode # 203
      OBVIOUS
    <2> QED
      BY <1>5, <2>2, <2>3, Block3, Zenon DEF Claim3
  <1>6. opcode \in 0..63 \/ opcode \in 64..127 \/ opcode \in 128..191 \/ opcode \in 192..255
    BY DEF Opcodes
  <1> QED
    BY <1>2, <1>3, <1>4, <1>5, <1>6, Zenon

\* An instruction ends where its condition cuts it short, or with its function; by then
\* PC and SP are where all of the function, or what comes before the condition, takes them.
Finished(cut) ==
    /\ IF cut THEN IfAt(instr_func) # 0 /\ ~cond ELSE IfAt(instr_func) # 0 => cond
    /\ op.cycles + 1 = Before + IF cut THEN IfAt(instr_func) ELSE LenOf(instr_func)
    /\ instr_func # "call_int" /\ (cut \/ instr_func \notin Jumping)
           => op'.at = Plus(op.at, 1 + Before + ImmOf(instr_func))
    /\ ~Loading(instr_func, instr_reg)
           => op'.sp = Plus(op.sp, IF cut THEN 0 ELSE SpOf(instr_func))

\* The function that ends has taken its instruction as far as documented, with its branch taken or not.
LEMMA Finishes ==
    ASSUME CpuInv, Progress, Next, Ends, ~halted
    PROVE  /\ instr_func # "stop"
           /\ instr_func = "call_int" \/ op.prefixed \/ instr_reg # 203
           /\ Finished(TRUE) \/ Finished(FALSE)
  <1> DEFINE k == instr_cycle
             prefixed == cb_prefixed /\ instr_func = "nop"
             acts == Acts(instr_func)
             imms(n) == Count(Body, n, {"imm"})
             moves(n) == Moves(Body, n)
  <1>1. Run
    BY Zenon DEF Next, cpu_tick, Sleep, Wake, DeviceRequest, Ends
  <1>2. Called(instr_func, prefixed) /\ Execute(instr_func, prefixed, ImeNow)
    BY <1>1, CallsFit, Zenon
  <1>3. PICK address, sp : Common(instr_func, prefixed, acts, address, sp)
    BY <1>2, CycleKeeps, Zenon DEF CpuInv, Called
  <1>4. /\ op \in [at : Addresses, sp : Addresses, prefixed : BOOLEAN, cycles : 0..MaxCycles]
        /\ prefixed \in BOOLEAN /\ instr_func \in DOMAIN Cycles /\ k \in 0..(Len(Body) - 1)
    BY Zenon DEF CpuInv, TypeOK, Called, Body
  <1>5. "end" \in acts
    <2> SUFFICES ASSUME "end" \notin acts
                 PROVE  FALSE
      OBVIOUS
    <2>1. op' = [op EXCEPT !.cycles = IF @ < MaxCycles THEN @ + 1 ELSE @]
      BY <1>3, Zenon DEF Common, Proceed
    <2>2. op'.cycles = IF op.cycles < MaxCycles THEN op.cycles + 1 ELSE op.cycles
      BY <1>4, <2>1, Zenon
    <2> QED
      BY <1>4, <2>2 DEF Ends, MaxCycles
  <1>6. ~prefixed
    <2> SUFFICES ASSUME prefixed
                 PROVE  FALSE
      OBVIOUS
    <2>1. op' = [op EXCEPT !.prefixed = TRUE, !.cycles = @ + 1]
      BY <1>3, <1>5, Zenon DEF Common, Complete
    <2>2. op'.cycles = op.cycles + 1
      BY <1>4, <2>1, Zenon
    <2> QED
      BY <1>4, <2>2 DEF Ends
  <1>7. /\ Shaped(instr_func, Body)
        /\ Len(Body) = LenOf(instr_func) /\ LenOf(instr_func) \in 1..6
        /\ IfAt(instr_func) \in 0..3 /\ IfAt(instr_func) < LenOf(instr_func)
    <2>1. Shaped(instr_func, Body)
      BY <1>4, CyclesFit, Zenon DEF Body
    <2>2. LenOf(instr_func) \in 1..6 /\ IfAt(instr_func) \in 0..3
      BY DEF LenOf, IfAt
    <2> QED
      BY <2>1, <2>2, Zenon DEF Shaped
  <1>8. instr_func # "stop"
    <2> SUFFICES ASSUME instr_func = "stop"
                 PROVE  FALSE
      OBVIOUS
    <2>1. LenOf("stop") = 1 /\ IfAt("stop") = 0
      BY SMT DEF LenOf, IfAt
    <2>2. k + 1 = 1
      BY <1>4, <1>7, <2>1
    <2>3. CycleShaped("stop", 1, Body[1])
      BY <1>7, <2>1 DEF Shaped
    <2>4. "end" \notin Body[1] /\ "if" \notin Body[1]
      BY <2>1, <2>3 DEF CycleShaped
    <2>5. acts = Body[1] \ {"if"}
      BY <2>2, <2>4, Zenon DEF Acts, Resolve, Body
    <2> QED
      BY <1>5, <2>4, <2>5
  <1>9. Decoded /\ PcFollows /\ SpFollows /\ op.cycles = k + Before /\ Before \in {0, 1}
    BY <1>8, Zenon DEF Progress, Before
  <1>10. "halt" \notin acts
    <2> SUFFICES ASSUME "halt" \in acts
                 PROVE  FALSE
      OBVIOUS
    <2>1. instr_func = "halt" /\ acts = {"halt", "end"}
      BY <1>3, Zenon DEF Common, Fits
    <2>2. LenOf("halt") = 1 /\ \A reg : ~Loading("halt", reg)
      BY SMT DEF LenOf, Loading
    <2>3. k = 0
      BY <1>4, <1>7, <2>1, <2>2
    <2>4. ~op.prefixed
      <3>1. instr_func # "call_int" /\ instr_reg \in Opcodes
        BY <2>1, SMT DEF CpuInv, TypeOK
      <3> QED
        BY <1>4, <1>9, <2>1, <3>1, DecodeType, Zenon DEF Decoded
    <2>5. op.cycles = 0
      BY <1>9, <2>3, <2>4 DEF Before
    <2>6. sp = op.sp
      <3>1. sp = sp_reg
        BY <1>3, <2>1 DEF Common, SpAfter, LoadsSp
      <3>2. moves(k) = 0
        BY <2>3, CountNone DEF Moves
      <3>3. sp_reg = Plus(op.sp, 0)
        BY <1>9, <2>1, <2>2, <3>2, Zenon DEF SpFollows
      <3>4. Plus(op.sp, 0) = op.sp
        BY <1>4, CpuAssumption DEF Plus, Addresses
      <3> QED
        BY <3>1, <3>3, <3>4
    <2>7. op' = [at |-> op.at, sp |-> sp, prefixed |-> FALSE, cycles |-> 0]
      BY <1>3, <1>5, <1>6, Zenon DEF Common, Complete
    <2>8. op' = op
      <3>1. op.prefixed = FALSE
        BY <1>4, <2>4, Zenon
      <3> QED
        BY <1>4, <2>5, <2>6, <2>7, <3>1
    <2> QED
      BY <2>8 DEF Ends
  <1>11. op'.at = address /\ op'.sp = sp
    <2>1. op' = [at |-> address, sp |-> sp, prefixed |-> FALSE, cycles |-> 0]
      BY <1>3, <1>5, <1>6, <1>10, Zenon DEF Common, Complete
    <2> QED
      BY <2>1
  <1>12. instr_func = "call_int" \/ op.prefixed \/ instr_reg # 203
    <2>1. Decode(203, FALSE) = "nop"
      BY SMT DEF Decode, DecodeBlock3, get_bits, HasHl
    <2> QED
      BY <1>4, <1>6, <1>9, <2>1, Zenon DEF Decoded
  <1>13. ASSUME acts = End, k + 1 = IfAt(instr_func), ~cond
         PROVE  Finished(TRUE)
    <2>1. address = pc_reg /\ sp = sp_reg
      BY <1>3, <1>13 DEF Common, End, PcAfter, SpAfter, LoadsSp
    <2>2. k = IfAt(instr_func) - 1 /\ IfAt(instr_func) # 0
      BY <1>4, <1>7, <1>13
    <2>3. imms(k) = ImmOf(instr_func) /\ moves(k) = 0
      BY <1>7, <2>2, Zenon DEF Shaped
    <2>4. op.cycles + 1 = Before + IfAt(instr_func)
      BY <1>7, <1>9, <2>2
    <2>5. instr_func # "call_int" =>
              op'.at = Plus(op.at, 1 + Before + ImmOf(instr_func))
      <3>1. k < IfAt(instr_func)
        BY <1>7, <2>2
      <3> QED
        BY <1>9, <1>11, <2>1, <2>3, <3>1, Zenon DEF PcFollows, InSequence
    <2>6. ~Loading(instr_func, instr_reg) => op'.sp = Plus(op.sp, 0)
      BY <1>9, <1>11, <2>1, <2>3, Zenon DEF SpFollows
    <2> QED
      BY <1>13, <2>2, <2>4, <2>5, <2>6, Zenon DEF Finished
  <1>14. ASSUME acts = Body[k + 1] \ {"if"}, k + 1 = LenOf(instr_func),
                IfAt(instr_func) \in 1..(k + 1) => cond
         PROVE  Finished(FALSE)
    <2>1. IfAt(instr_func) # 0 => cond
      <3>1. IfAt(instr_func) # 0 => IfAt(instr_func) \in 1..(k + 1)
        BY <1>7, <1>14
      <3> QED
        BY <1>14, <3>1, Zenon
    <2>2. op.cycles + 1 = Before + LenOf(instr_func)
      BY <1>4, <1>7, <1>9, <1>14
    <2>3. address \in PcAfter(acts) /\ sp \in SpAfter(acts)
      BY <1>3, Zenon DEF Common
    <2>4. imms(k + 1) = ImmOf(instr_func) /\ moves(k + 1) = SpOf(instr_func)
      BY <1>7, <1>14, Zenon DEF Shaped
    <2>5. /\ InSequence(k + 1) => address = Plus(op.at, 1 + Before + imms(k + 1))
          /\ ~Loading(instr_func, instr_reg) => sp = Plus(op.sp, moves(k + 1))
      BY <1>8, <1>14, <2>3, AfterCycle, Zenon
    <2>6. instr_func # "call_int" /\ instr_func \notin Jumping => InSequence(k + 1)
      BY Zenon DEF InSequence
    <2> QED
      BY <1>11, <2>1, <2>2, <2>4, <2>5, <2>6, Zenon DEF Finished
  <1> QED
    BY <1>5, <1>8, <1>12, <1>13, <1>14, Ending, Zenon

\* What the reference says of the instruction that ends.
LEMMA OfReference ==
    ASSUME CpuInv, Progress, ~halted, instr_func # "stop", instr_func # "call_int",
           op.prefixed \/ instr_reg # 203
    PROVE  IF op.prefixed
           THEN /\ LenOf(instr_func) + 1 = Reference!MCycles(instr_reg, TRUE)
                /\ ImmOf(instr_func) = 0 /\ Reference!Length(instr_reg, TRUE) = 2
                /\ SpOf(instr_func) = 0 /\ IfAt(instr_func) = 0
                /\ instr_func \notin Jumping /\ ~Loading(instr_func, instr_reg)
           ELSE Documented(instr_reg, instr_func)
  <1>1. /\ instr_reg \in Opcodes /\ op.prefixed \in BOOLEAN
        /\ instr_func = Decode(instr_reg, op.prefixed)
    BY Zenon DEF CpuInv, TypeOK, Progress, Decoded
  <1>2. CASE op.prefixed
    <2>1. instr_func = DecodeCB(instr_reg)
      BY <1>1, <1>2 DEF Decode
    <2> QED
      BY <1>1, <1>2, <2>1, Regular, Zenon
  <1>3. CASE ~op.prefixed
    <2>1. instr_func = Decode(instr_reg, FALSE) /\ instr_reg \in Opcodes \ {203}
      BY <1>1, <1>3
    <2> QED
      BY <1>3, <2>1, DecodeDocumented, Zenon
  <1> QED
    BY <1>2, <1>3

\* Every instruction, prefixed or not, and the entry to a handler take as many M-cycles as
\* documented, branches taken and not taken included.
THEOREM TimingAsDocumented == Spec => TimingMatches
  <1>1. CpuIInv /\ Progress /\ [Next]_vars =>
            [Ends /\ ~halted => op.cycles + 1 = ExpectedCycles]_vars
    <2> SUFFICES ASSUME CpuInv, Progress, Next, Ends, ~halted
                 PROVE  op.cycles + 1 = ExpectedCycles
      BY Zenon DEF CpuIInv
    <2>1. /\ instr_func # "stop"
          /\ instr_func = "call_int" \/ op.prefixed \/ instr_reg # 203
          /\ Finished(TRUE) \/ Finished(FALSE)
      BY Finishes
    <2>2. CASE instr_func = "call_int"
      <3>1. LenOf("call_int") = 5 /\ IfAt("call_int") = 0
        BY SMT DEF LenOf, IfAt
      <3>2. ~op.prefixed
        BY <2>1, <2>2, Zenon DEF Progress, Decoded
      <3>3. Before = 0
        BY <3>2, Zenon DEF Before
      <3>4. op.cycles + 1 = 0 + 5
        BY <2>1, <2>2, <3>1, <3>3, Zenon DEF Finished
      <3> QED
        BY <2>2, <3>4 DEF ExpectedCycles
    <2>3. CASE instr_func # "call_int" /\ op.prefixed
      <3>1. IfAt(instr_func) = 0 /\ LenOf(instr_func) + 1 = Reference!MCycles(instr_reg, TRUE)
        BY <2>1, <2>3, OfReference, Zenon
      <3>2. Before = 1
        BY <2>3, Zenon DEF Before
      <3>3. op.cycles + 1 = 1 + LenOf(instr_func)
        BY <2>1, <3>1, <3>2, Zenon DEF Finished
      <3>4. 1 + LenOf(instr_func) = LenOf(instr_func) + 1
        BY DEF LenOf
      <3>5. ExpectedCycles = Reference!MCycles(instr_reg, TRUE)
        BY <2>3 DEF ExpectedCycles
      <3> QED
        BY <3>1, <3>3, <3>4, <3>5, Zenon
    <2>4. CASE instr_func # "call_int" /\ ~op.prefixed
      <3>1. Documented(instr_reg, instr_func)
        BY <2>1, <2>4, OfReference, Zenon
      <3>2. Before = 0
        BY <2>4, Zenon DEF Before
      <3>3. ExpectedCycles = Reference!MCycles(instr_reg, FALSE)
                             + IF Taken THEN Reference!Extra(instr_reg) ELSE 0
        BY <2>4, SMT DEF ExpectedCycles
      <3>4. /\ 0 + LenOf(instr_func) = LenOf(instr_func)
            /\ 0 + IfAt(instr_func) = IfAt(instr_func) + 0
        BY DEF LenOf, IfAt
      <3>5. CASE Finished(TRUE)
        <4>1. IfAt(instr_func) # 0 /\ ~cond /\ op.cycles + 1 = 0 + IfAt(instr_func)
          BY <3>2, <3>5, Zenon DEF Finished
        <4>2. ~Taken
          BY <3>1, <4>1, Zenon DEF Documented, Taken
        <4>3. IfAt(instr_func) = Reference!MCycles(instr_reg, FALSE)
          BY <3>1, <4>1, Zenon DEF Documented
        <4> QED
          BY <3>3, <3>4, <4>1, <4>2, <4>3, Zenon
      <3>6. CASE Finished(FALSE)
        <4>1. op.cycles + 1 = 0 + LenOf(instr_func)
          BY <3>2, <3>6, Zenon DEF Finished
        <4>2. Taken
          BY <3>1, <3>6, Zenon DEF Documented, Taken, Finished
        <4>3. LenOf(instr_func) = Reference!MCycles(instr_reg, FALSE)
                                  + Reference!Extra(instr_reg)
          BY <3>1, Zenon DEF Documented
        <4> QED
          BY <3>3, <3>4, <4>1, <4>2, <4>3, Zenon
      <3> QED
        BY <2>1, <3>5, <3>6
    <2> QED
      BY <2>2, <2>3, <2>4
  <1> QED
    BY <1>1, CpuInvariant, ProgressInvariant, PTL DEF Spec, TimingMatches

\* Every instruction that does not branch is followed by the one after its last byte, and
\* SP moves by what it pushes or pops, at the ends of the memory too.
THEOREM FootprintAsDocumented == Spec => FootprintMatches
  <1>1. CpuIInv /\ Progress /\ [Next]_vars => [Ends /\ ~halted => Footprint]_vars
    <2> SUFFICES ASSUME CpuInv, Progress, Next, Ends, ~halted
                 PROVE  Footprint
      BY Zenon DEF CpuIInv
    <2>1. /\ instr_func # "stop"
          /\ instr_func = "call_int" \/ op.prefixed \/ instr_reg # 203
          /\ Finished(TRUE) \/ Finished(FALSE)
      BY Finishes
    <2>2. CASE instr_func = "call_int"
      <3>1. SpOf("call_int") = -2 /\ IfAt("call_int") = 0 /\ \A reg : ~Loading("call_int", reg)
        BY SMT DEF SpOf, Pushing, Popping, IfAt, Loading
      <3>2. op'.sp = Plus(op.sp, -2)
        BY <2>1, <2>2, <3>1, Zenon DEF Finished
      <3> QED
        BY <2>2, <3>2, Zenon DEF Footprint
    <2>3. CASE instr_func # "call_int" /\ op.prefixed
      <3>1. /\ ImmOf(instr_func) = 0 /\ Reference!Length(instr_reg, TRUE) = 2
            /\ SpOf(instr_func) = 0 /\ IfAt(instr_func) = 0
            /\ instr_func \notin Jumping /\ ~Loading(instr_func, instr_reg)
        BY <2>1, <2>3, OfReference, Zenon
      <3>2. Before = 1 /\ 1 + 1 + 0 = 2 /\ op.prefixed = TRUE
        BY <2>3, SMT DEF Before, CpuInv, TypeOK
      <3>3. op'.at = Plus(op.at, 2) /\ op'.sp = Plus(op.sp, 0)
        BY <2>1, <2>3, <3>1, <3>2, Zenon DEF Finished
      <3> QED
        BY <2>3, <3>1, <3>2, <3>3, Zenon DEF Footprint
    <2>4. CASE instr_func # "call_int" /\ ~op.prefixed
      <3>1. Documented(instr_reg, instr_func)
        BY <2>1, <2>4, OfReference, Zenon
      <3>2. Before = 0 /\ op.prefixed = FALSE
        BY <2>4, SMT DEF Before, CpuInv, TypeOK
      <3>3. 1 + 0 + ImmOf(instr_func) = Reference!Length(instr_reg, FALSE)
        <4>1. 1 + 0 + ImmOf(instr_func) = 1 + ImmOf(instr_func)
          BY DEF ImmOf
        <4> QED
          BY <3>1, <4>1, Zenon DEF Documented
      <3>4. instr_reg \notin Reference!SetsSp => ~Loading(instr_func, instr_reg)
        BY <3>1, Zenon DEF Documented
      <3>5. CASE Finished(TRUE)
        <4>1. ~Taken
          BY <3>1, <3>5, Zenon DEF Documented, Taken, Finished
        <4>2. /\ op'.at = Plus(op.at, Reference!Length(instr_reg, FALSE))
              /\ instr_reg \notin Reference!SetsSp => op'.sp = Plus(op.sp, 0)
          BY <2>4, <3>2, <3>3, <3>4, <3>5, Zenon DEF Finished
        <4> QED
          BY <2>4, <3>2, <4>1, <4>2, Zenon DEF Footprint
      <3>6. CASE Finished(FALSE)
        <4>1. Taken
          BY <3>1, <3>6, Zenon DEF Documented, Taken, Finished
        <4>2. instr_func \notin Jumping <=> ~Reference!Transfers(instr_reg)
          BY <3>1, Zenon DEF Documented
        <4>3. /\ ~Reference!Transfers(instr_reg) =>
                     op'.at = Plus(op.at, Reference!Length(instr_reg, FALSE))
              /\ instr_reg \notin Reference!SetsSp =>
                     op'.sp = Plus(op.sp, Reference!SpChange(instr_reg))
          BY <2>4, <3>1, <3>2, <3>3, <3>4, <3>6, <4>2, Zenon DEF Finished, Documented
        <4> QED
          BY <2>4, <3>2, <4>1, <4>3, Zenon DEF Footprint
      <3> QED
        BY <2>1, <3>5, <3>6
    <2> QED
      BY <2>2, <2>3, <2>4
  <1> QED
    BY <1>1, CpuInvariant, ProgressInvariant, PTL DEF Spec, FootprintMatches

---------------------------------------------------------------------------
\* Arithmetic (Alu).

\* The bits of a byte: each adds its power of two to the digits below it.
LEMMA BitsOf ==
    ASSUME NEW n \in Bytes
    PROVE  /\ n % 2 = BitOf(n, 0)
           /\ n % 4 = (n % 2) + 2 * BitOf(n, 1)
           /\ n % 8 = (n % 4) + 4 * BitOf(n, 2)
           /\ n % 16 = (n % 8) + 8 * BitOf(n, 3)
           /\ n % 32 = (n % 16) + 16 * BitOf(n, 4)
           /\ n % 64 = (n % 32) + 32 * BitOf(n, 5)
           /\ n % 128 = (n % 64) + 64 * BitOf(n, 6)
           /\ n = (n % 128) + 128 * BitOf(n, 7)
           /\ \A i \in 0..7 : BitOf(n, i) \in Bit
<1>1. /\ 2 ^ 0 = 1 /\ 2 ^ 1 = 2 /\ 2 ^ 2 = 4 /\ 2 ^ 3 = 8
      /\ 2 ^ 4 = 16 /\ 2 ^ 5 = 32 /\ 2 ^ 6 = 64 /\ 2 ^ 7 = 128
  OBVIOUS
<1>2. n \in 0..255
  BY DEF Bytes
<1>3. n % 2 = BitOf(n, 0) /\ BitOf(n, 0) \in Bit
  BY <1>1, <1>2 DEF BitOf, Bit
<1>4. n % 4 = (n % 2) + 2 * BitOf(n, 1) /\ BitOf(n, 1) \in Bit
  <2> DEFINE q == n \div 2
             d == q \div 2
  <2>1. BitOf(n, 1) = q % 2
    BY <1>1 DEF BitOf
  <2>2. q \in 0..127 /\ n % 2 \in 0..1 /\ n = 2 * q + (n % 2)
    BY <1>2
  <2>3. q % 2 \in 0..1 /\ d \in Int /\ q = 2 * d + (q % 2)
    BY <2>2
  <2> HIDE DEF q, d
  <2>4. 2 * (q % 2) + (n % 2) \in 0..3
    BY <2>2, <2>3
  <2>5. n = 4 * d + (2 * (q % 2) + (n % 2))
    BY <2>2, <2>3
  <2>6. n % 4 = 2 * (q % 2) + (n % 2)
    BY <2>3, <2>4, <2>5
  <2> QED BY <2>1, <2>2, <2>3, <2>6 DEF Bit
<1>5. n % 8 = (n % 4) + 4 * BitOf(n, 2) /\ BitOf(n, 2) \in Bit
  <2> DEFINE q == n \div 4
             d == q \div 2
  <2>1. BitOf(n, 2) = q % 2
    BY <1>1 DEF BitOf
  <2>2. q \in 0..63 /\ n % 4 \in 0..3 /\ n = 4 * q + (n % 4)
    BY <1>2
  <2>3. q % 2 \in 0..1 /\ d \in Int /\ q = 2 * d + (q % 2)
    BY <2>2
  <2> HIDE DEF q, d
  <2>4. 4 * (q % 2) + (n % 4) \in 0..7
    BY <2>2, <2>3
  <2>5. n = 8 * d + (4 * (q % 2) + (n % 4))
    BY <2>2, <2>3
  <2>6. n % 8 = 4 * (q % 2) + (n % 4)
    BY <2>3, <2>4, <2>5
  <2> QED BY <2>1, <2>2, <2>3, <2>6 DEF Bit
<1>6. n % 16 = (n % 8) + 8 * BitOf(n, 3) /\ BitOf(n, 3) \in Bit
  <2> DEFINE q == n \div 8
             d == q \div 2
  <2>1. BitOf(n, 3) = q % 2
    BY <1>1 DEF BitOf
  <2>2. q \in 0..31 /\ n % 8 \in 0..7 /\ n = 8 * q + (n % 8)
    BY <1>2
  <2>3. q % 2 \in 0..1 /\ d \in Int /\ q = 2 * d + (q % 2)
    BY <2>2
  <2> HIDE DEF q, d
  <2>4. 8 * (q % 2) + (n % 8) \in 0..15
    BY <2>2, <2>3
  <2>5. n = 16 * d + (8 * (q % 2) + (n % 8))
    BY <2>2, <2>3
  <2>6. n % 16 = 8 * (q % 2) + (n % 8)
    BY <2>3, <2>4, <2>5
  <2> QED BY <2>1, <2>2, <2>3, <2>6 DEF Bit
<1>7. n % 32 = (n % 16) + 16 * BitOf(n, 4) /\ BitOf(n, 4) \in Bit
  <2> DEFINE q == n \div 16
             d == q \div 2
  <2>1. BitOf(n, 4) = q % 2
    BY <1>1 DEF BitOf
  <2>2. q \in 0..15 /\ n % 16 \in 0..15 /\ n = 16 * q + (n % 16)
    BY <1>2
  <2>3. q % 2 \in 0..1 /\ d \in Int /\ q = 2 * d + (q % 2)
    BY <2>2
  <2> HIDE DEF q, d
  <2>4. 16 * (q % 2) + (n % 16) \in 0..31
    BY <2>2, <2>3
  <2>5. n = 32 * d + (16 * (q % 2) + (n % 16))
    BY <2>2, <2>3
  <2>6. n % 32 = 16 * (q % 2) + (n % 16)
    BY <2>3, <2>4, <2>5
  <2> QED BY <2>1, <2>2, <2>3, <2>6 DEF Bit
<1>8. n % 64 = (n % 32) + 32 * BitOf(n, 5) /\ BitOf(n, 5) \in Bit
  <2> DEFINE q == n \div 32
             d == q \div 2
  <2>1. BitOf(n, 5) = q % 2
    BY <1>1 DEF BitOf
  <2>2. q \in 0..7 /\ n % 32 \in 0..31 /\ n = 32 * q + (n % 32)
    BY <1>2
  <2>3. q % 2 \in 0..1 /\ d \in Int /\ q = 2 * d + (q % 2)
    BY <2>2
  <2> HIDE DEF q, d
  <2>4. 32 * (q % 2) + (n % 32) \in 0..63
    BY <2>2, <2>3
  <2>5. n = 64 * d + (32 * (q % 2) + (n % 32))
    BY <2>2, <2>3
  <2>6. n % 64 = 32 * (q % 2) + (n % 32)
    BY <2>3, <2>4, <2>5
  <2> QED BY <2>1, <2>2, <2>3, <2>6 DEF Bit
<1>9. n % 128 = (n % 64) + 64 * BitOf(n, 6) /\ BitOf(n, 6) \in Bit
  <2> DEFINE q == n \div 64
             d == q \div 2
  <2>1. BitOf(n, 6) = q % 2
    BY <1>1 DEF BitOf
  <2>2. q \in 0..3 /\ n % 64 \in 0..63 /\ n = 64 * q + (n % 64)
    BY <1>2
  <2>3. q % 2 \in 0..1 /\ d \in Int /\ q = 2 * d + (q % 2)
    BY <2>2
  <2> HIDE DEF q, d
  <2>4. 64 * (q % 2) + (n % 64) \in 0..127
    BY <2>2, <2>3
  <2>5. n = 128 * d + (64 * (q % 2) + (n % 64))
    BY <2>2, <2>3
  <2>6. n % 128 = 64 * (q % 2) + (n % 64)
    BY <2>3, <2>4, <2>5
  <2> QED BY <2>1, <2>2, <2>3, <2>6 DEF Bit
<1>10. n = (n % 128) + 128 * BitOf(n, 7) /\ BitOf(n, 7) \in Bit
  <2> DEFINE q == n \div 128
             d == q \div 2
  <2>1. BitOf(n, 7) = q % 2
    BY <1>1 DEF BitOf
  <2>2. q \in 0..1 /\ n % 128 \in 0..127 /\ n = 128 * q + (n % 128)
    BY <1>2
  <2>3. q % 2 \in 0..1 /\ d \in Int /\ q = 2 * d + (q % 2)
    BY <2>2
  <2> HIDE DEF q, d
  <2>4. d = 0
    BY <2>2, <2>3
  <2> QED BY <2>1, <2>2, <2>3, <2>4 DEF Bit
<1>11. \A i \in 0..7 : i = 0 \/ i = 1 \/ i = 2 \/ i = 3 \/ i = 4 \/ i = 5 \/ i = 6 \/ i = 7
  OBVIOUS
<1> HIDE DEF Bit
<1> QED BY <1>3, <1>4, <1>5, <1>6, <1>7, <1>8, <1>9, <1>10, <1>11

\* A carry goes into a bit when the digits below it add up to more than they can hold.
CarryInto(n1, n2, c_in) ==
    [i \in 0..8 |->
        CASE i = 0 -> c_in
          [] i = 1 -> IF (n1 % 2) + (n2 % 2) + c_in >= 2 THEN 1 ELSE 0
          [] i = 2 -> IF (n1 % 4) + (n2 % 4) + c_in >= 4 THEN 1 ELSE 0
          [] i = 3 -> IF (n1 % 8) + (n2 % 8) + c_in >= 8 THEN 1 ELSE 0
          [] i = 4 -> IF (n1 % 16) + (n2 % 16) + c_in >= 16 THEN 1 ELSE 0
          [] i = 5 -> IF (n1 % 32) + (n2 % 32) + c_in >= 32 THEN 1 ELSE 0
          [] i = 6 -> IF (n1 % 64) + (n2 % 64) + c_in >= 64 THEN 1 ELSE 0
          [] i = 7 -> IF (n1 % 128) + (n2 % 128) + c_in >= 128 THEN 1 ELSE 0
          [] i = 8 -> IF n1 + n2 + c_in >= 256 THEN 1 ELSE 0]

\* The loop over the bits computes these (cpu.c:260-284).
LEMMA CarriesAre ==
    ASSUME NEW n1 \in Bytes, NEW n2 \in Bytes, NEW c_in \in Bit
    PROVE  /\ Carries(n1, n2, c_in) = CarryInto(n1, n2, c_in)
           /\ \A i \in 1..8 : CarryInto(n1, n2, c_in)[i] =
                 IF BitOf(n1, i - 1) + BitOf(n2, i - 1) + CarryInto(n1, n2, c_in)[i - 1] >= 2 THEN 1 ELSE 0
           /\ \A i \in 0..8 : CarryInto(n1, n2, c_in)[i] \in Bit
<1> DEFINE g == CarryInto(n1, n2, c_in)
           Loop(f) == f = [i \in 0..8 |->
                              IF i = 0 THEN c_in
                              ELSE IF BitOf(n1, i - 1) + BitOf(n2, i - 1) + f[i - 1] >= 2 THEN 1 ELSE 0]
           f == CHOOSE f : Loop(f)
<1>1. /\ g = [i \in 0..8 |-> g[i]]
      /\ g[0] = c_in
      /\ g[1] = IF (n1 % 2) + (n2 % 2) + c_in >= 2 THEN 1 ELSE 0
      /\ g[2] = IF (n1 % 4) + (n2 % 4) + c_in >= 4 THEN 1 ELSE 0
      /\ g[3] = IF (n1 % 8) + (n2 % 8) + c_in >= 8 THEN 1 ELSE 0
      /\ g[4] = IF (n1 % 16) + (n2 % 16) + c_in >= 16 THEN 1 ELSE 0
      /\ g[5] = IF (n1 % 32) + (n2 % 32) + c_in >= 32 THEN 1 ELSE 0
      /\ g[6] = IF (n1 % 64) + (n2 % 64) + c_in >= 64 THEN 1 ELSE 0
      /\ g[7] = IF (n1 % 128) + (n2 % 128) + c_in >= 128 THEN 1 ELSE 0
      /\ g[8] = IF n1 + n2 + c_in >= 256 THEN 1 ELSE 0
  BY DEF CarryInto
<1> HIDE DEF g
<1>2. \A i \in 0..7 : BitOf(n1, i) \in 0..1 /\ BitOf(n2, i) \in 0..1
  BY BitsOf DEF Bit
<1>3. c_in \in 0..1 /\ n1 \in 0..255 /\ n2 \in 0..255
  BY DEF Bit, Bytes
<1>4. g[1] = IF BitOf(n1, 0) + BitOf(n2, 0) + g[0] >= 2 THEN 1 ELSE 0
  <2>1. n1 % 2 = BitOf(n1, 0) /\ n2 % 2 = BitOf(n2, 0)
    BY BitsOf
  <2>2. BitOf(n1, 0) \in 0..1 /\ BitOf(n2, 0) \in 0..1
    BY <1>2, <1>3
  <2> QED BY <1>1, <1>3, <2>1, <2>2
<1>5. g[2] = IF BitOf(n1, 1) + BitOf(n2, 1) + g[1] >= 2 THEN 1 ELSE 0
  <2>1. n1 % 4 = (n1 % 2) + 2 * BitOf(n1, 1) /\ n2 % 4 = (n2 % 2) + 2 * BitOf(n2, 1)
    BY BitsOf
  <2>2. BitOf(n1, 1) \in 0..1 /\ BitOf(n2, 1) \in 0..1 /\ n1 % 2 \in 0..1 /\ n2 % 2 \in 0..1
    BY <1>2, <1>3
  <2> QED BY <1>1, <1>3, <2>1, <2>2
<1>6. g[3] = IF BitOf(n1, 2) + BitOf(n2, 2) + g[2] >= 2 THEN 1 ELSE 0
  <2>1. n1 % 8 = (n1 % 4) + 4 * BitOf(n1, 2) /\ n2 % 8 = (n2 % 4) + 4 * BitOf(n2, 2)
    BY BitsOf
  <2>2. BitOf(n1, 2) \in 0..1 /\ BitOf(n2, 2) \in 0..1 /\ n1 % 4 \in 0..3 /\ n2 % 4 \in 0..3
    BY <1>2, <1>3
  <2> QED BY <1>1, <1>3, <2>1, <2>2
<1>7. g[4] = IF BitOf(n1, 3) + BitOf(n2, 3) + g[3] >= 2 THEN 1 ELSE 0
  <2>1. n1 % 16 = (n1 % 8) + 8 * BitOf(n1, 3) /\ n2 % 16 = (n2 % 8) + 8 * BitOf(n2, 3)
    BY BitsOf
  <2>2. BitOf(n1, 3) \in 0..1 /\ BitOf(n2, 3) \in 0..1 /\ n1 % 8 \in 0..7 /\ n2 % 8 \in 0..7
    BY <1>2, <1>3
  <2> QED BY <1>1, <1>3, <2>1, <2>2
<1>8. g[5] = IF BitOf(n1, 4) + BitOf(n2, 4) + g[4] >= 2 THEN 1 ELSE 0
  <2>1. n1 % 32 = (n1 % 16) + 16 * BitOf(n1, 4) /\ n2 % 32 = (n2 % 16) + 16 * BitOf(n2, 4)
    BY BitsOf
  <2>2. BitOf(n1, 4) \in 0..1 /\ BitOf(n2, 4) \in 0..1 /\ n1 % 16 \in 0..15 /\ n2 % 16 \in 0..15
    BY <1>2, <1>3
  <2> QED BY <1>1, <1>3, <2>1, <2>2
<1>9. g[6] = IF BitOf(n1, 5) + BitOf(n2, 5) + g[5] >= 2 THEN 1 ELSE 0
  <2>1. n1 % 64 = (n1 % 32) + 32 * BitOf(n1, 5) /\ n2 % 64 = (n2 % 32) + 32 * BitOf(n2, 5)
    BY BitsOf
  <2>2. BitOf(n1, 5) \in 0..1 /\ BitOf(n2, 5) \in 0..1 /\ n1 % 32 \in 0..31 /\ n2 % 32 \in 0..31
    BY <1>2, <1>3
  <2> QED BY <1>1, <1>3, <2>1, <2>2
<1>10. g[7] = IF BitOf(n1, 6) + BitOf(n2, 6) + g[6] >= 2 THEN 1 ELSE 0
  <2>1. n1 % 128 = (n1 % 64) + 64 * BitOf(n1, 6) /\ n2 % 128 = (n2 % 64) + 64 * BitOf(n2, 6)
    BY BitsOf
  <2>2. BitOf(n1, 6) \in 0..1 /\ BitOf(n2, 6) \in 0..1 /\ n1 % 64 \in 0..63 /\ n2 % 64 \in 0..63
    BY <1>2, <1>3
  <2> QED BY <1>1, <1>3, <2>1, <2>2, SMTT(30)
<1>11. g[8] = IF BitOf(n1, 7) + BitOf(n2, 7) + g[7] >= 2 THEN 1 ELSE 0
  <2>1. n1 = (n1 % 128) + 128 * BitOf(n1, 7) /\ n2 = (n2 % 128) + 128 * BitOf(n2, 7)
    BY BitsOf
  <2>2. BitOf(n1, 7) \in 0..1 /\ BitOf(n2, 7) \in 0..1 /\ n1 % 128 \in 0..127 /\ n2 % 128 \in 0..127
    BY <1>2, <1>3
  <2> DEFINE l1 == n1 % 128
             l2 == n2 % 128
             b1 == BitOf(n1, 7)
             b2 == BitOf(n2, 7)
  <2>3. /\ g[8] = IF (l1 + 128 * b1) + (l2 + 128 * b2) + c_in >= 256 THEN 1 ELSE 0
        /\ g[7] = IF l1 + l2 + c_in >= 128 THEN 1 ELSE 0
    BY <1>1, <2>1
  <2> HIDE DEF l1, l2, b1, b2
  <2>4. g[8] = IF b1 + b2 + g[7] >= 2 THEN 1 ELSE 0
    BY <1>3, <2>2, <2>3 DEF l1, l2, b1, b2
  <2> QED BY <2>4 DEF b1, b2
<1>12. \A i \in 0..8 : i = 0 \/ i = 1 \/ i = 2 \/ i = 3 \/ i = 4 \/ i = 5 \/ i = 6 \/ i = 7 \/ i = 8
  OBVIOUS
<1>13. \A i \in 0..8 : g[i] = IF i = 0 THEN c_in
                              ELSE IF BitOf(n1, i - 1) + BitOf(n2, i - 1) + g[i - 1] >= 2 THEN 1 ELSE 0
  <2> TAKE i \in 0..8
  <2>0. CASE i = 0
    BY <1>1, <2>0
  <2>1. CASE i = 1
    BY <1>4, <2>1
  <2>2. CASE i = 2
    BY <1>5, <2>2
  <2>3. CASE i = 3
    BY <1>6, <2>3
  <2>4. CASE i = 4
    BY <1>7, <2>4
  <2>5. CASE i = 5
    BY <1>8, <2>5
  <2>6. CASE i = 6
    BY <1>9, <2>6
  <2>7. CASE i = 7
    BY <1>10, <2>7
  <2>8. CASE i = 8
    BY <1>11, <2>8
  <2> QED BY <1>12, <2>0, <2>1, <2>2, <2>3, <2>4, <2>5, <2>6, <2>7, <2>8
<1>14. Loop(f)
  <2>1. Loop(g)
    BY <1>1, <1>13
  <2> HIDE DEF Loop
  <2> QED BY <2>1
<1>15. Carries(n1, n2, c_in) = f
  BY DEF Carries
<1> HIDE DEF f
<1>16. /\ f = [i \in 0..8 |-> f[i]] /\ f[0] = c_in
       /\ f[1] = IF BitOf(n1, 0) + BitOf(n2, 0) + f[0] >= 2 THEN 1 ELSE 0
       /\ f[2] = IF BitOf(n1, 1) + BitOf(n2, 1) + f[1] >= 2 THEN 1 ELSE 0
       /\ f[3] = IF BitOf(n1, 2) + BitOf(n2, 2) + f[2] >= 2 THEN 1 ELSE 0
       /\ f[4] = IF BitOf(n1, 3) + BitOf(n2, 3) + f[3] >= 2 THEN 1 ELSE 0
       /\ f[5] = IF BitOf(n1, 4) + BitOf(n2, 4) + f[4] >= 2 THEN 1 ELSE 0
       /\ f[6] = IF BitOf(n1, 5) + BitOf(n2, 5) + f[5] >= 2 THEN 1 ELSE 0
       /\ f[7] = IF BitOf(n1, 6) + BitOf(n2, 6) + f[6] >= 2 THEN 1 ELSE 0
       /\ f[8] = IF BitOf(n1, 7) + BitOf(n2, 7) + f[7] >= 2 THEN 1 ELSE 0
  BY <1>14
<1>17. \A i \in 0..8 : f[i] = g[i]
  <2>0. f[0] = g[0]
    BY <1>1, <1>16
  <2>1. f[1] = g[1]
    BY <1>4, <1>16, <2>0
  <2>2. f[2] = g[2]
    BY <1>5, <1>16, <2>1
  <2>3. f[3] = g[3]
    BY <1>6, <1>16, <2>2
  <2>4. f[4] = g[4]
    BY <1>7, <1>16, <2>3
  <2>5. f[5] = g[5]
    BY <1>8, <1>16, <2>4
  <2>6. f[6] = g[6]
    BY <1>9, <1>16, <2>5
  <2>7. f[7] = g[7]
    BY <1>10, <1>16, <2>6
  <2>8. f[8] = g[8]
    BY <1>11, <1>16, <2>7
  <2> QED BY <1>12, <2>0, <2>1, <2>2, <2>3, <2>4, <2>5, <2>6, <2>7, <2>8
<1>18. f = g
  BY <1>1, <1>16, <1>17
<1>19. \A i \in 1..8 : g[i] = IF BitOf(n1, i - 1) + BitOf(n2, i - 1) + g[i - 1] >= 2 THEN 1 ELSE 0
  BY <1>13
<1>20. \A i \in 0..8 : g[i] \in Bit
  <2> HIDE DEF BitOf
  <2> QED BY <1>13 DEF Bit
<1> QED BY <1>15, <1>18, <1>19, <1>20 DEF g

\* add_u8_u8 is the sum modulo 256, with its flags (cpu.c:260-284).
LEMMA AddIs ==
    ASSUME NEW n1 \in Bytes, NEW n2 \in Bytes, NEW c_in \in Bit
    PROVE  add_u8_u8(n1, n2, c_in) =
              [result |-> (n1 + n2 + c_in) % 256, z |-> Flag((n1 + n2 + c_in) % 256 = 0), n |-> 0,
               h |-> Flag((n1 % 16) + (n2 % 16) + c_in > 15), c |-> Flag(n1 + n2 + c_in > 255)]
<1> DEFINE carry == CarryInto(n1, n2, c_in)
           bit(i) == (BitOf(n1, i) + BitOf(n2, i) + carry[i]) % 2
           result == Bitwise3(n1, n2, carry)
<1>1. add_u8_u8(n1, n2, c_in) = Outcome(result, 0, carry)
  BY CarriesAre DEF add_u8_u8
<1>2. carry[0] = c_in /\ carry[4] = Flag((n1 % 16) + (n2 % 16) + c_in > 15) /\ carry[8] = Flag(n1 + n2 + c_in > 255)
  <2>1. carry[0] = c_in /\ carry[4] = (IF (n1 % 16) + (n2 % 16) + c_in >= 16 THEN 1 ELSE 0) /\ carry[8] = IF n1 + n2 + c_in >= 256 THEN 1 ELSE 0
    BY DEF CarryInto
  <2>2. n1 % 16 \in Int /\ n2 % 16 \in Int /\ n1 \in Int /\ n2 \in Int /\ c_in \in Int
    BY DEF Bytes, Bit
  <2> HIDE DEF carry
  <2> QED BY <2>1, <2>2 DEF Flag
<1>3. /\ \A i \in 0..8 : carry[i] \in Bit
      /\ \A i \in 1..8 : carry[i] = IF BitOf(n1, i - 1) + BitOf(n2, i - 1) + carry[i - 1] >= 2 THEN 1 ELSE 0
  BY CarriesAre
<1> HIDE DEF carry
<1>4. \A i \in 0..7 : BitOf(n1, i) \in Bit /\ BitOf(n2, i) \in Bit
  BY BitsOf
<1>5. ASSUME NEW i \in 0..7
      PROVE  bit(i) \in 0..1 /\ BitOf(n1, i) + BitOf(n2, i) + carry[i] = 2 * carry[i + 1] + bit(i)
  <2>1. carry[i + 1] = IF BitOf(n1, i) + BitOf(n2, i) + carry[i] >= 2 THEN 1 ELSE 0
    <3>1. i + 1 \in 1..8 /\ (i + 1) - 1 = i
      OBVIOUS
    <3> HIDE DEF bit, result
    <3> QED BY <1>3, <3>1
  <2> DEFINE x == BitOf(n1, i)
             y == BitOf(n2, i)
             z == carry[i]
             next == carry[i + 1]
  <2>2. x \in 0..1 /\ y \in 0..1 /\ z \in 0..1
    BY <1>3, <1>4 DEF Bit
  <2>3. next = IF x + y + z >= 2 THEN 1 ELSE 0
    BY <2>1
  <2>4. bit(i) = (x + y + z) % 2
    OBVIOUS
  <2> HIDE DEF x, y, z, next, bit
  <2>5. bit(i) \in 0..1 /\ x + y + z = 2 * next + bit(i)
    BY <2>2, <2>3, <2>4
  <2> QED BY <2>5 DEF x, y, z, next
<1>6. result = bit(0) + 2 * bit(1) + 4 * bit(2) + 8 * bit(3)
               + 16 * bit(4) + 32 * bit(5) + 64 * bit(6) + 128 * bit(7)
  BY DEF Bitwise3
<1> HIDE DEF bit, result
<1>7. n1 + n2 + c_in = 256 * carry[8] + result
  <2>1. \A n \in {n1, n2} :
           n = BitOf(n, 0) + 2 * BitOf(n, 1) + 4 * BitOf(n, 2) + 8 * BitOf(n, 3)
               + 16 * BitOf(n, 4) + 32 * BitOf(n, 5) + 64 * BitOf(n, 6) + 128 * BitOf(n, 7)
    <3> TAKE n \in {n1, n2}
    <3>1. n \in Bytes /\ \A i \in 0..7 : BitOf(n, i) \in 0..1
      BY <1>4 DEF Bit
    <3> QED BY BitsOf, <3>1 DEF Bytes
  <2>2. \A i \in 0..7 : BitOf(n1, i) \in 0..1 /\ BitOf(n2, i) \in 0..1 /\ bit(i) \in 0..1
    BY <1>4, <1>5 DEF Bit
  <2>3. \A i \in 0..8 : carry[i] \in 0..1
    BY <1>3 DEF Bit
  <2>4. BitOf(n1, 0) + BitOf(n2, 0) + carry[0] = 2 * carry[1] + bit(0)
    BY <1>5
  <2>5. BitOf(n1, 1) + BitOf(n2, 1) + carry[1] = 2 * carry[2] + bit(1)
    BY <1>5
  <2>6. BitOf(n1, 2) + BitOf(n2, 2) + carry[2] = 2 * carry[3] + bit(2)
    BY <1>5
  <2>7. BitOf(n1, 3) + BitOf(n2, 3) + carry[3] = 2 * carry[4] + bit(3)
    BY <1>5
  <2>8. BitOf(n1, 4) + BitOf(n2, 4) + carry[4] = 2 * carry[5] + bit(4)
    BY <1>5
  <2>9. BitOf(n1, 5) + BitOf(n2, 5) + carry[5] = 2 * carry[6] + bit(5)
    BY <1>5
  <2>10. BitOf(n1, 6) + BitOf(n2, 6) + carry[6] = 2 * carry[7] + bit(6)
    BY <1>5
  <2>11. BitOf(n1, 7) + BitOf(n2, 7) + carry[7] = 2 * carry[8] + bit(7)
    BY <1>5
  <2>12. /\ BitOf(n1, 0) \in 0..1 /\ BitOf(n2, 0) \in 0..1 /\ bit(0) \in 0..1
         /\ BitOf(n1, 1) \in 0..1 /\ BitOf(n2, 1) \in 0..1 /\ bit(1) \in 0..1
         /\ BitOf(n1, 2) \in 0..1 /\ BitOf(n2, 2) \in 0..1 /\ bit(2) \in 0..1
         /\ BitOf(n1, 3) \in 0..1 /\ BitOf(n2, 3) \in 0..1 /\ bit(3) \in 0..1
         /\ BitOf(n1, 4) \in 0..1 /\ BitOf(n2, 4) \in 0..1 /\ bit(4) \in 0..1
         /\ BitOf(n1, 5) \in 0..1 /\ BitOf(n2, 5) \in 0..1 /\ bit(5) \in 0..1
         /\ BitOf(n1, 6) \in 0..1 /\ BitOf(n2, 6) \in 0..1 /\ bit(6) \in 0..1
         /\ BitOf(n1, 7) \in 0..1 /\ BitOf(n2, 7) \in 0..1 /\ bit(7) \in 0..1
    BY <2>2
  <2>13. /\ carry[0] \in 0..1 /\ carry[1] \in 0..1 /\ carry[2] \in 0..1 /\ carry[3] \in 0..1 /\ carry[4] \in 0..1
         /\ carry[5] \in 0..1 /\ carry[6] \in 0..1 /\ carry[7] \in 0..1 /\ carry[8] \in 0..1
    BY <2>3
  <2>14. /\ BitOf(n1, 0) + 2 * BitOf(n1, 1) + 4 * BitOf(n1, 2) + 8 * BitOf(n1, 3)
                + 16 * BitOf(n1, 4) + 32 * BitOf(n1, 5) + 64 * BitOf(n1, 6) + 128 * BitOf(n1, 7) = n1
         /\ BitOf(n2, 0) + 2 * BitOf(n2, 1) + 4 * BitOf(n2, 2) + 8 * BitOf(n2, 3)
                + 16 * BitOf(n2, 4) + 32 * BitOf(n2, 5) + 64 * BitOf(n2, 6) + 128 * BitOf(n2, 7) = n2
         /\ carry[0] = c_in /\ n1 \in Int /\ n2 \in Int
    BY <1>2, <2>1 DEF Bytes
  <2> HIDE DEF BitOf
  <2>15. (BitOf(n1, 0) + 2 * BitOf(n1, 1)) + (BitOf(n2, 0) + 2 * BitOf(n2, 1))
           + carry[0] = 4 * carry[2] + (bit(0) + 2 * bit(1))
    BY <2>4, <2>5, <2>12, <2>13
  <2>16. (BitOf(n1, 2) + 2 * BitOf(n1, 3)) + (BitOf(n2, 2) + 2 * BitOf(n2, 3))
           + carry[2] = 4 * carry[4] + (bit(2) + 2 * bit(3))
    BY <2>6, <2>7, <2>12, <2>13
  <2>17. (BitOf(n1, 4) + 2 * BitOf(n1, 5)) + (BitOf(n2, 4) + 2 * BitOf(n2, 5))
           + carry[4] = 4 * carry[6] + (bit(4) + 2 * bit(5))
    BY <2>8, <2>9, <2>12, <2>13
  <2>18. (BitOf(n1, 6) + 2 * BitOf(n1, 7)) + (BitOf(n2, 6) + 2 * BitOf(n2, 7))
           + carry[6] = 4 * carry[8] + (bit(6) + 2 * bit(7))
    BY <2>10, <2>11, <2>12, <2>13
  <2> DEFINE lo1 == BitOf(n1, 0) + 2 * BitOf(n1, 1) + 4 * BitOf(n1, 2) + 8 * BitOf(n1, 3)
             hi1 == BitOf(n1, 4) + 2 * BitOf(n1, 5) + 4 * BitOf(n1, 6) + 8 * BitOf(n1, 7)
             lo2 == BitOf(n2, 0) + 2 * BitOf(n2, 1) + 4 * BitOf(n2, 2) + 8 * BitOf(n2, 3)
             hi2 == BitOf(n2, 4) + 2 * BitOf(n2, 5) + 4 * BitOf(n2, 6) + 8 * BitOf(n2, 7)
             lor == bit(0) + 2 * bit(1) + 4 * bit(2) + 8 * bit(3)
             hir == bit(4) + 2 * bit(5) + 4 * bit(6) + 8 * bit(7)
  <2>19. lo1 + lo2 + carry[0] = 16 * carry[4] + lor
    BY <2>15, <2>16, <2>12, <2>13
  <2>20. hi1 + hi2 + carry[4] = 16 * carry[8] + hir
    BY <2>17, <2>18, <2>12, <2>13
  <2>21. lo1 \in Int /\ hi1 \in Int /\ lo2 \in Int /\ hi2 \in Int /\ lor \in Int /\ hir \in Int
    <3>1. \A a0, a1, a2, a3 \in 0..1 : a0 + 2 * a1 + 4 * a2 + 8 * a3 \in Int
      OBVIOUS
    <3> QED BY <2>12, <3>1
  <2>22. lo1 + 16 * hi1 = n1
    BY <2>12, <2>14
  <2>23. lo2 + 16 * hi2 = n2
    BY <2>12, <2>14
  <2>24. result = lor + 16 * hir
    BY <1>6, <2>12
  <2> HIDE DEF lo1, hi1, lo2, hi2, lor, hir
  <2> QED BY <2>13, <2>14, <2>19, <2>20, <2>21, <2>22, <2>23, <2>24
<1>8. result \in 0..255
  BY <1>5, <1>6
<1>9. result = (n1 + n2 + c_in) % 256
  <2>1. carry[8] \in 0..1 /\ n1 \in 0..255 /\ n2 \in 0..255 /\ c_in \in 0..1
    BY <1>3 DEF Bit, Bytes
  <2> QED BY <1>7, <1>8, <2>1, SMTT(30)
<1> QED BY <1>1, <1>2, <1>9 DEF Outcome

\* A borrow goes into a bit when the digits below it are not enough.
BorrowInto(n1, n2, b_in) ==
    [i \in 0..8 |->
        CASE i = 0 -> b_in
          [] i = 1 -> IF (n1 % 2) - (n2 % 2) - b_in < 0 THEN 1 ELSE 0
          [] i = 2 -> IF (n1 % 4) - (n2 % 4) - b_in < 0 THEN 1 ELSE 0
          [] i = 3 -> IF (n1 % 8) - (n2 % 8) - b_in < 0 THEN 1 ELSE 0
          [] i = 4 -> IF (n1 % 16) - (n2 % 16) - b_in < 0 THEN 1 ELSE 0
          [] i = 5 -> IF (n1 % 32) - (n2 % 32) - b_in < 0 THEN 1 ELSE 0
          [] i = 6 -> IF (n1 % 64) - (n2 % 64) - b_in < 0 THEN 1 ELSE 0
          [] i = 7 -> IF (n1 % 128) - (n2 % 128) - b_in < 0 THEN 1 ELSE 0
          [] i = 8 -> IF n1 - n2 - b_in < 0 THEN 1 ELSE 0]

\* The loop over the bits computes these (cpu.c:286-310).
LEMMA BorrowsAre ==
    ASSUME NEW n1 \in Bytes, NEW n2 \in Bytes, NEW b_in \in Bit
    PROVE  /\ Borrows(n1, n2, b_in) = BorrowInto(n1, n2, b_in)
           /\ \A i \in 1..8 : BorrowInto(n1, n2, b_in)[i] =
                 IF (BitOf(n1, i - 1) = 0 /\ BitOf(n2, i - 1) = 1)
                    \/ (BitOf(n1, i - 1) = BitOf(n2, i - 1) /\ BorrowInto(n1, n2, b_in)[i - 1] = 1)
                 THEN 1 ELSE 0
           /\ \A i \in 0..8 : BorrowInto(n1, n2, b_in)[i] \in Bit
<1> DEFINE g == BorrowInto(n1, n2, b_in)
           Loop(f) == f = [i \in 0..8 |->
                              IF i = 0 THEN b_in
                              ELSE IF (BitOf(n1, i - 1) = 0 /\ BitOf(n2, i - 1) = 1)
                                      \/ (BitOf(n1, i - 1) = BitOf(n2, i - 1) /\ f[i - 1] = 1)
                                   THEN 1 ELSE 0]
           f == CHOOSE f : Loop(f)
<1>1. /\ g = [i \in 0..8 |-> g[i]]
      /\ g[0] = b_in
      /\ g[1] = IF (n1 % 2) - (n2 % 2) - b_in < 0 THEN 1 ELSE 0
      /\ g[2] = IF (n1 % 4) - (n2 % 4) - b_in < 0 THEN 1 ELSE 0
      /\ g[3] = IF (n1 % 8) - (n2 % 8) - b_in < 0 THEN 1 ELSE 0
      /\ g[4] = IF (n1 % 16) - (n2 % 16) - b_in < 0 THEN 1 ELSE 0
      /\ g[5] = IF (n1 % 32) - (n2 % 32) - b_in < 0 THEN 1 ELSE 0
      /\ g[6] = IF (n1 % 64) - (n2 % 64) - b_in < 0 THEN 1 ELSE 0
      /\ g[7] = IF (n1 % 128) - (n2 % 128) - b_in < 0 THEN 1 ELSE 0
      /\ g[8] = IF n1 - n2 - b_in < 0 THEN 1 ELSE 0
  BY DEF BorrowInto
<1> HIDE DEF g
<1>2. \A i \in 0..7 : BitOf(n1, i) \in 0..1 /\ BitOf(n2, i) \in 0..1
  BY BitsOf DEF Bit
<1>3. b_in \in 0..1 /\ n1 \in 0..255 /\ n2 \in 0..255
  BY DEF Bit, Bytes
<1>4. g[1] = IF (BitOf(n1, 0) = 0 /\ BitOf(n2, 0) = 1)
                \/ (BitOf(n1, 0) = BitOf(n2, 0) /\ g[0] = 1)
             THEN 1 ELSE 0
  <2>1. n1 % 2 = BitOf(n1, 0) /\ n2 % 2 = BitOf(n2, 0)
    BY BitsOf
  <2>2. BitOf(n1, 0) \in 0..1 /\ BitOf(n2, 0) \in 0..1
    BY <1>2, <1>3
  <2> QED BY <1>1, <1>3, <2>1, <2>2
<1>5. g[2] = IF (BitOf(n1, 1) = 0 /\ BitOf(n2, 1) = 1)
                \/ (BitOf(n1, 1) = BitOf(n2, 1) /\ g[1] = 1)
             THEN 1 ELSE 0
  <2>1. n1 % 4 = (n1 % 2) + 2 * BitOf(n1, 1) /\ n2 % 4 = (n2 % 2) + 2 * BitOf(n2, 1)
    BY BitsOf
  <2>2. BitOf(n1, 1) \in 0..1 /\ BitOf(n2, 1) \in 0..1 /\ n1 % 2 \in 0..1 /\ n2 % 2 \in 0..1
    BY <1>2, <1>3
  <2> QED BY <1>1, <1>3, <2>1, <2>2
<1>6. g[3] = IF (BitOf(n1, 2) = 0 /\ BitOf(n2, 2) = 1)
                \/ (BitOf(n1, 2) = BitOf(n2, 2) /\ g[2] = 1)
             THEN 1 ELSE 0
  <2>1. n1 % 8 = (n1 % 4) + 4 * BitOf(n1, 2) /\ n2 % 8 = (n2 % 4) + 4 * BitOf(n2, 2)
    BY BitsOf
  <2>2. BitOf(n1, 2) \in 0..1 /\ BitOf(n2, 2) \in 0..1 /\ n1 % 4 \in 0..3 /\ n2 % 4 \in 0..3
    BY <1>2, <1>3
  <2> QED BY <1>1, <1>3, <2>1, <2>2
<1>7. g[4] = IF (BitOf(n1, 3) = 0 /\ BitOf(n2, 3) = 1)
                \/ (BitOf(n1, 3) = BitOf(n2, 3) /\ g[3] = 1)
             THEN 1 ELSE 0
  <2>1. n1 % 16 = (n1 % 8) + 8 * BitOf(n1, 3) /\ n2 % 16 = (n2 % 8) + 8 * BitOf(n2, 3)
    BY BitsOf
  <2>2. BitOf(n1, 3) \in 0..1 /\ BitOf(n2, 3) \in 0..1 /\ n1 % 8 \in 0..7 /\ n2 % 8 \in 0..7
    BY <1>2, <1>3
  <2> QED BY <1>1, <1>3, <2>1, <2>2
<1>8. g[5] = IF (BitOf(n1, 4) = 0 /\ BitOf(n2, 4) = 1)
                \/ (BitOf(n1, 4) = BitOf(n2, 4) /\ g[4] = 1)
             THEN 1 ELSE 0
  <2>1. n1 % 32 = (n1 % 16) + 16 * BitOf(n1, 4) /\ n2 % 32 = (n2 % 16) + 16 * BitOf(n2, 4)
    BY BitsOf
  <2>2. BitOf(n1, 4) \in 0..1 /\ BitOf(n2, 4) \in 0..1 /\ n1 % 16 \in 0..15 /\ n2 % 16 \in 0..15
    BY <1>2, <1>3
  <2> QED BY <1>1, <1>3, <2>1, <2>2
<1>9. g[6] = IF (BitOf(n1, 5) = 0 /\ BitOf(n2, 5) = 1)
                \/ (BitOf(n1, 5) = BitOf(n2, 5) /\ g[5] = 1)
             THEN 1 ELSE 0
  <2>1. n1 % 64 = (n1 % 32) + 32 * BitOf(n1, 5) /\ n2 % 64 = (n2 % 32) + 32 * BitOf(n2, 5)
    BY BitsOf
  <2>2. BitOf(n1, 5) \in 0..1 /\ BitOf(n2, 5) \in 0..1 /\ n1 % 32 \in 0..31 /\ n2 % 32 \in 0..31
    BY <1>2, <1>3
  <2> QED BY <1>1, <1>3, <2>1, <2>2
<1>10. g[7] = IF (BitOf(n1, 6) = 0 /\ BitOf(n2, 6) = 1)
                \/ (BitOf(n1, 6) = BitOf(n2, 6) /\ g[6] = 1)
             THEN 1 ELSE 0
  <2>1. n1 % 128 = (n1 % 64) + 64 * BitOf(n1, 6) /\ n2 % 128 = (n2 % 64) + 64 * BitOf(n2, 6)
    BY BitsOf
  <2>2. BitOf(n1, 6) \in 0..1 /\ BitOf(n2, 6) \in 0..1 /\ n1 % 64 \in 0..63 /\ n2 % 64 \in 0..63
    BY <1>2, <1>3
  <2> QED BY <1>1, <1>3, <2>1, <2>2
<1>11. g[8] = IF (BitOf(n1, 7) = 0 /\ BitOf(n2, 7) = 1)
                \/ (BitOf(n1, 7) = BitOf(n2, 7) /\ g[7] = 1)
             THEN 1 ELSE 0
  <2>1. n1 = (n1 % 128) + 128 * BitOf(n1, 7) /\ n2 = (n2 % 128) + 128 * BitOf(n2, 7)
    BY BitsOf
  <2>2. BitOf(n1, 7) \in 0..1 /\ BitOf(n2, 7) \in 0..1 /\ n1 % 128 \in 0..127 /\ n2 % 128 \in 0..127
    BY <1>2, <1>3
  <2> DEFINE l1 == n1 % 128
             l2 == n2 % 128
             b1 == BitOf(n1, 7)
             b2 == BitOf(n2, 7)
  <2>3. /\ g[8] = IF (l1 + 128 * b1) - (l2 + 128 * b2) - b_in < 0 THEN 1 ELSE 0
        /\ g[7] = IF l1 - l2 - b_in < 0 THEN 1 ELSE 0
    BY <1>1, <2>1
  <2> HIDE DEF l1, l2, b1, b2
  <2>4. g[8] = IF (b1 = 0 /\ b2 = 1)
                \/ (b1 = b2 /\ g[7] = 1)
             THEN 1 ELSE 0
    BY <1>3, <2>2, <2>3 DEF l1, l2, b1, b2
  <2> QED BY <2>4 DEF b1, b2
<1>12. \A i \in 0..8 : i = 0 \/ i = 1 \/ i = 2 \/ i = 3 \/ i = 4 \/ i = 5 \/ i = 6 \/ i = 7 \/ i = 8
  OBVIOUS
<1>13. \A i \in 0..8 : g[i] = IF i = 0 THEN b_in
                              ELSE IF (BitOf(n1, i - 1) = 0 /\ BitOf(n2, i - 1) = 1)
                                      \/ (BitOf(n1, i - 1) = BitOf(n2, i - 1) /\ g[i - 1] = 1)
                                   THEN 1 ELSE 0
  <2> TAKE i \in 0..8
  <2>0. CASE i = 0
    BY <1>1, <2>0
  <2>1. CASE i = 1
    BY <1>4, <2>1
  <2>2. CASE i = 2
    BY <1>5, <2>2
  <2>3. CASE i = 3
    BY <1>6, <2>3
  <2>4. CASE i = 4
    BY <1>7, <2>4
  <2>5. CASE i = 5
    BY <1>8, <2>5
  <2>6. CASE i = 6
    BY <1>9, <2>6
  <2>7. CASE i = 7
    BY <1>10, <2>7
  <2>8. CASE i = 8
    BY <1>11, <2>8
  <2> QED BY <1>12, <2>0, <2>1, <2>2, <2>3, <2>4, <2>5, <2>6, <2>7, <2>8
<1>14. Loop(f)
  <2>1. Loop(g)
    BY <1>1, <1>13
  <2> HIDE DEF Loop
  <2> QED BY <2>1
<1>15. Borrows(n1, n2, b_in) = f
  BY DEF Borrows
<1> HIDE DEF f
<1>16. /\ f = [i \in 0..8 |-> f[i]] /\ f[0] = b_in
       /\ f[1] = IF (BitOf(n1, 0) = 0 /\ BitOf(n2, 0) = 1)
                      \/ (BitOf(n1, 0) = BitOf(n2, 0) /\ f[0] = 1)
                   THEN 1 ELSE 0
       /\ f[2] = IF (BitOf(n1, 1) = 0 /\ BitOf(n2, 1) = 1)
                      \/ (BitOf(n1, 1) = BitOf(n2, 1) /\ f[1] = 1)
                   THEN 1 ELSE 0
       /\ f[3] = IF (BitOf(n1, 2) = 0 /\ BitOf(n2, 2) = 1)
                      \/ (BitOf(n1, 2) = BitOf(n2, 2) /\ f[2] = 1)
                   THEN 1 ELSE 0
       /\ f[4] = IF (BitOf(n1, 3) = 0 /\ BitOf(n2, 3) = 1)
                      \/ (BitOf(n1, 3) = BitOf(n2, 3) /\ f[3] = 1)
                   THEN 1 ELSE 0
       /\ f[5] = IF (BitOf(n1, 4) = 0 /\ BitOf(n2, 4) = 1)
                      \/ (BitOf(n1, 4) = BitOf(n2, 4) /\ f[4] = 1)
                   THEN 1 ELSE 0
       /\ f[6] = IF (BitOf(n1, 5) = 0 /\ BitOf(n2, 5) = 1)
                      \/ (BitOf(n1, 5) = BitOf(n2, 5) /\ f[5] = 1)
                   THEN 1 ELSE 0
       /\ f[7] = IF (BitOf(n1, 6) = 0 /\ BitOf(n2, 6) = 1)
                      \/ (BitOf(n1, 6) = BitOf(n2, 6) /\ f[6] = 1)
                   THEN 1 ELSE 0
       /\ f[8] = IF (BitOf(n1, 7) = 0 /\ BitOf(n2, 7) = 1)
                      \/ (BitOf(n1, 7) = BitOf(n2, 7) /\ f[7] = 1)
                   THEN 1 ELSE 0
  BY <1>14
<1>17. \A i \in 0..8 : f[i] = g[i]
  <2>0. f[0] = g[0]
    BY <1>1, <1>16
  <2>1. f[1] = g[1]
    BY <1>4, <1>16, <2>0
  <2>2. f[2] = g[2]
    BY <1>5, <1>16, <2>1
  <2>3. f[3] = g[3]
    BY <1>6, <1>16, <2>2
  <2>4. f[4] = g[4]
    BY <1>7, <1>16, <2>3
  <2>5. f[5] = g[5]
    BY <1>8, <1>16, <2>4
  <2>6. f[6] = g[6]
    BY <1>9, <1>16, <2>5
  <2>7. f[7] = g[7]
    BY <1>10, <1>16, <2>6
  <2>8. f[8] = g[8]
    BY <1>11, <1>16, <2>7
  <2> QED BY <1>12, <2>0, <2>1, <2>2, <2>3, <2>4, <2>5, <2>6, <2>7, <2>8
<1>18. f = g
  BY <1>1, <1>16, <1>17
<1>19. \A i \in 1..8 : g[i] = IF (BitOf(n1, i - 1) = 0 /\ BitOf(n2, i - 1) = 1)
                                \/ (BitOf(n1, i - 1) = BitOf(n2, i - 1) /\ g[i - 1] = 1)
                             THEN 1 ELSE 0
  BY <1>13
<1>20. \A i \in 0..8 : g[i] \in Bit
  <2> HIDE DEF BitOf
  <2> QED BY <1>13 DEF Bit
<1> QED BY <1>15, <1>18, <1>19, <1>20 DEF g

\* sub_u8_u8 is the difference modulo 256, with its flags (cpu.c:286-310).
LEMMA SubtractIs ==
    ASSUME NEW n1 \in Bytes, NEW n2 \in Bytes, NEW b_in \in Bit
    PROVE  sub_u8_u8(n1, n2, b_in) =
              [result |-> (n1 - n2 - b_in) % 256, z |-> Flag((n1 - n2 - b_in) % 256 = 0), n |-> 1,
               h |-> Flag((n1 % 16) - (n2 % 16) - b_in < 0), c |-> Flag(n1 - n2 - b_in < 0)]
<1> DEFINE borrow == BorrowInto(n1, n2, b_in)
           bit(i) == (BitOf(n1, i) + BitOf(n2, i) + borrow[i]) % 2
           result == Bitwise3(n1, n2, borrow)
<1>1. sub_u8_u8(n1, n2, b_in) = Outcome(result, 1, borrow)
  BY BorrowsAre DEF sub_u8_u8
<1>2. borrow[0] = b_in /\ borrow[4] = Flag((n1 % 16) - (n2 % 16) - b_in < 0) /\ borrow[8] = Flag(n1 - n2 - b_in < 0)
  <2>1. borrow[0] = b_in /\ borrow[4] = (IF (n1 % 16) - (n2 % 16) - b_in < 0 THEN 1 ELSE 0) /\ borrow[8] = IF n1 - n2 - b_in < 0 THEN 1 ELSE 0
    BY DEF BorrowInto
  <2>2. n1 % 16 \in Int /\ n2 % 16 \in Int /\ n1 \in Int /\ n2 \in Int /\ b_in \in Int
    BY DEF Bytes, Bit
  <2> HIDE DEF borrow
  <2> QED BY <2>1, <2>2 DEF Flag
<1>3. /\ \A i \in 0..8 : borrow[i] \in Bit
      /\ \A i \in 1..8 : borrow[i] = IF (BitOf(n1, i - 1) = 0 /\ BitOf(n2, i - 1) = 1)
                                        \/ (BitOf(n1, i - 1) = BitOf(n2, i - 1) /\ borrow[i - 1] = 1)
                                     THEN 1 ELSE 0
  BY BorrowsAre
<1> HIDE DEF borrow
<1>4. \A i \in 0..7 : BitOf(n1, i) \in Bit /\ BitOf(n2, i) \in Bit
  BY BitsOf
<1>5. ASSUME NEW i \in 0..7
      PROVE  bit(i) \in 0..1 /\ BitOf(n1, i) - BitOf(n2, i) - borrow[i] = bit(i) - 2 * borrow[i + 1]
  <2>1. borrow[i + 1] = IF (BitOf(n1, i) = 0 /\ BitOf(n2, i) = 1)
                             \/ (BitOf(n1, i) = BitOf(n2, i) /\ borrow[i] = 1)
                          THEN 1 ELSE 0
    <3>1. i + 1 \in 1..8 /\ (i + 1) - 1 = i
      OBVIOUS
    <3> HIDE DEF bit, result
    <3> QED BY <1>3, <3>1
  <2> DEFINE x == BitOf(n1, i)
             y == BitOf(n2, i)
             z == borrow[i]
             next == borrow[i + 1]
  <2>2. x \in 0..1 /\ y \in 0..1 /\ z \in 0..1
    BY <1>3, <1>4 DEF Bit
  <2>3. next = IF (x = 0 /\ y = 1) \/ (x = y /\ z = 1) THEN 1 ELSE 0
    BY <2>1
  <2>4. bit(i) = (x + y + z) % 2
    OBVIOUS
  <2> HIDE DEF x, y, z, next, bit
  <2>5. bit(i) \in 0..1 /\ x - y - z = bit(i) - 2 * next
    BY <2>2, <2>3, <2>4
  <2> QED BY <2>5 DEF x, y, z, next
<1>6. result = bit(0) + 2 * bit(1) + 4 * bit(2) + 8 * bit(3)
               + 16 * bit(4) + 32 * bit(5) + 64 * bit(6) + 128 * bit(7)
  BY DEF Bitwise3
<1> HIDE DEF bit, result
<1>7. n1 - n2 - b_in = result - 256 * borrow[8]
  <2>1. \A n \in {n1, n2} :
           n = BitOf(n, 0) + 2 * BitOf(n, 1) + 4 * BitOf(n, 2) + 8 * BitOf(n, 3)
               + 16 * BitOf(n, 4) + 32 * BitOf(n, 5) + 64 * BitOf(n, 6) + 128 * BitOf(n, 7)
    <3> TAKE n \in {n1, n2}
    <3>1. n \in Bytes /\ \A i \in 0..7 : BitOf(n, i) \in 0..1
      BY <1>4 DEF Bit
    <3> QED BY BitsOf, <3>1 DEF Bytes
  <2>2. \A i \in 0..7 : BitOf(n1, i) \in 0..1 /\ BitOf(n2, i) \in 0..1 /\ bit(i) \in 0..1
    BY <1>4, <1>5 DEF Bit
  <2>3. \A i \in 0..8 : borrow[i] \in 0..1
    BY <1>3 DEF Bit
  <2>4. BitOf(n1, 0) - BitOf(n2, 0) - borrow[0] = bit(0) - 2 * borrow[1]
    BY <1>5
  <2>5. BitOf(n1, 1) - BitOf(n2, 1) - borrow[1] = bit(1) - 2 * borrow[2]
    BY <1>5
  <2>6. BitOf(n1, 2) - BitOf(n2, 2) - borrow[2] = bit(2) - 2 * borrow[3]
    BY <1>5
  <2>7. BitOf(n1, 3) - BitOf(n2, 3) - borrow[3] = bit(3) - 2 * borrow[4]
    BY <1>5
  <2>8. BitOf(n1, 4) - BitOf(n2, 4) - borrow[4] = bit(4) - 2 * borrow[5]
    BY <1>5
  <2>9. BitOf(n1, 5) - BitOf(n2, 5) - borrow[5] = bit(5) - 2 * borrow[6]
    BY <1>5
  <2>10. BitOf(n1, 6) - BitOf(n2, 6) - borrow[6] = bit(6) - 2 * borrow[7]
    BY <1>5
  <2>11. BitOf(n1, 7) - BitOf(n2, 7) - borrow[7] = bit(7) - 2 * borrow[8]
    BY <1>5
  <2>12. /\ BitOf(n1, 0) \in 0..1 /\ BitOf(n2, 0) \in 0..1 /\ bit(0) \in 0..1
         /\ BitOf(n1, 1) \in 0..1 /\ BitOf(n2, 1) \in 0..1 /\ bit(1) \in 0..1
         /\ BitOf(n1, 2) \in 0..1 /\ BitOf(n2, 2) \in 0..1 /\ bit(2) \in 0..1
         /\ BitOf(n1, 3) \in 0..1 /\ BitOf(n2, 3) \in 0..1 /\ bit(3) \in 0..1
         /\ BitOf(n1, 4) \in 0..1 /\ BitOf(n2, 4) \in 0..1 /\ bit(4) \in 0..1
         /\ BitOf(n1, 5) \in 0..1 /\ BitOf(n2, 5) \in 0..1 /\ bit(5) \in 0..1
         /\ BitOf(n1, 6) \in 0..1 /\ BitOf(n2, 6) \in 0..1 /\ bit(6) \in 0..1
         /\ BitOf(n1, 7) \in 0..1 /\ BitOf(n2, 7) \in 0..1 /\ bit(7) \in 0..1
    BY <2>2
  <2>13. /\ borrow[0] \in 0..1 /\ borrow[1] \in 0..1 /\ borrow[2] \in 0..1 /\ borrow[3] \in 0..1 /\ borrow[4] \in 0..1
         /\ borrow[5] \in 0..1 /\ borrow[6] \in 0..1 /\ borrow[7] \in 0..1 /\ borrow[8] \in 0..1
    BY <2>3
  <2>14. /\ BitOf(n1, 0) + 2 * BitOf(n1, 1) + 4 * BitOf(n1, 2) + 8 * BitOf(n1, 3)
                + 16 * BitOf(n1, 4) + 32 * BitOf(n1, 5) + 64 * BitOf(n1, 6) + 128 * BitOf(n1, 7) = n1
         /\ BitOf(n2, 0) + 2 * BitOf(n2, 1) + 4 * BitOf(n2, 2) + 8 * BitOf(n2, 3)
                + 16 * BitOf(n2, 4) + 32 * BitOf(n2, 5) + 64 * BitOf(n2, 6) + 128 * BitOf(n2, 7) = n2
         /\ borrow[0] = b_in /\ n1 \in Int /\ n2 \in Int
    BY <1>2, <2>1 DEF Bytes
  <2> HIDE DEF BitOf
  <2>15. (BitOf(n1, 0) + 2 * BitOf(n1, 1)) - (BitOf(n2, 0) + 2 * BitOf(n2, 1))
           - borrow[0] = (bit(0) + 2 * bit(1)) - 4 * borrow[2]
    BY <2>4, <2>5, <2>12, <2>13
  <2>16. (BitOf(n1, 2) + 2 * BitOf(n1, 3)) - (BitOf(n2, 2) + 2 * BitOf(n2, 3))
           - borrow[2] = (bit(2) + 2 * bit(3)) - 4 * borrow[4]
    BY <2>6, <2>7, <2>12, <2>13
  <2>17. (BitOf(n1, 4) + 2 * BitOf(n1, 5)) - (BitOf(n2, 4) + 2 * BitOf(n2, 5))
           - borrow[4] = (bit(4) + 2 * bit(5)) - 4 * borrow[6]
    BY <2>8, <2>9, <2>12, <2>13
  <2>18. (BitOf(n1, 6) + 2 * BitOf(n1, 7)) - (BitOf(n2, 6) + 2 * BitOf(n2, 7))
           - borrow[6] = (bit(6) + 2 * bit(7)) - 4 * borrow[8]
    BY <2>10, <2>11, <2>12, <2>13
  <2> DEFINE lo1 == BitOf(n1, 0) + 2 * BitOf(n1, 1) + 4 * BitOf(n1, 2) + 8 * BitOf(n1, 3)
             hi1 == BitOf(n1, 4) + 2 * BitOf(n1, 5) + 4 * BitOf(n1, 6) + 8 * BitOf(n1, 7)
             lo2 == BitOf(n2, 0) + 2 * BitOf(n2, 1) + 4 * BitOf(n2, 2) + 8 * BitOf(n2, 3)
             hi2 == BitOf(n2, 4) + 2 * BitOf(n2, 5) + 4 * BitOf(n2, 6) + 8 * BitOf(n2, 7)
             lor == bit(0) + 2 * bit(1) + 4 * bit(2) + 8 * bit(3)
             hir == bit(4) + 2 * bit(5) + 4 * bit(6) + 8 * bit(7)
  <2>19. lo1 - lo2 - borrow[0] = lor - 16 * borrow[4]
    BY <2>15, <2>16, <2>12, <2>13
  <2>20. hi1 - hi2 - borrow[4] = hir - 16 * borrow[8]
    BY <2>17, <2>18, <2>12, <2>13
  <2>21. lo1 \in Int /\ hi1 \in Int /\ lo2 \in Int /\ hi2 \in Int /\ lor \in Int /\ hir \in Int
    <3>1. \A a0, a1, a2, a3 \in 0..1 : a0 + 2 * a1 + 4 * a2 + 8 * a3 \in Int
      OBVIOUS
    <3> QED BY <2>12, <3>1
  <2>22. lo1 + 16 * hi1 = n1
    BY <2>12, <2>14
  <2>23. lo2 + 16 * hi2 = n2
    BY <2>12, <2>14
  <2>24. result = lor + 16 * hir
    BY <1>6, <2>12
  <2> HIDE DEF lo1, hi1, lo2, hi2, lor, hir
  <2> QED BY <2>13, <2>14, <2>19, <2>20, <2>21, <2>22, <2>23, <2>24
<1>8. result \in 0..255
  BY <1>5, <1>6
<1>9. result = (n1 - n2 - b_in) % 256
  <2>1. borrow[8] \in 0..1 /\ n1 \in 0..255 /\ n2 \in 0..255 /\ b_in \in 0..1
    BY <1>3 DEF Bit, Bytes
  <2> QED BY <1>7, <1>8, <2>1
<1> QED BY <1>1, <1>2, <1>9 DEF Outcome

\* A number that leaves the byte by less than 256 is off by 256.
LEMMA Wrapped ==
    ASSUME NEW n \in -256..511
    PROVE  n % 256 = IF n < 0 THEN n + 256 ELSE IF n > 255 THEN n - 256 ELSE n
OBVIOUS

\* What DAA adds to the byte sum of two decimal numbers, whose digits add up to tens and ones.
CorrectedSum(tens, ones, a, h, c, lower, upper, result) ==
    /\ tens \in 0..18 /\ ones \in 0..19
    /\ a \in 0..255 /\ a = (16 * tens + ones) % 256
    /\ h \in {0, 1} /\ h = IF ones > 15 THEN 1 ELSE 0
    /\ c \in {0, 1} /\ c = IF 16 * tens + ones > 255 THEN 1 ELSE 0
    /\ lower = IF a % 16 > 9 \/ h = 1 THEN 6 ELSE 0
    /\ upper = IF a > 153 \/ c = 1 THEN 96 ELSE 0
    /\ result = (a + lower + upper) % 256

\* It makes the decimal sum.
LEMMA DecimalSum ==
    ASSUME NEW tens, NEW ones, NEW a, NEW h, NEW c, NEW lower, NEW upper, NEW result,
           CorrectedSum(tens, ones, a, h, c, lower, upper, result)
    PROVE  /\ result % 16 <= 9 /\ result \div 16 <= 9
           /\ 10 * (result \div 16) + (result % 16) = (10 * tens + ones) % 100
           /\ lower + upper >= 96 <=> 10 * tens + ones > 99
<1> USE DEF CorrectedSum
<1> DEFINE k == IF ones > 9 THEN 1 ELSE 0
           l == IF tens + k > 9 THEN 1 ELSE 0
           d0 == ones - 10 * k
           d1 == tens + k - 10 * l
<1>1. d0 \in 0..9 /\ d1 \in 0..9 /\ 10 * tens + ones = 100 * l + (10 * d1 + d0) /\ l \in 0..1 /\ k \in 0..1
  OBVIOUS
<1>2. (10 * tens + ones) % 100 = 10 * d1 + d0 /\ (10 * tens + ones > 99 <=> l = 1)
  BY <1>1
<1>0. a = 16 * tens + ones \/ a = 16 * tens + ones - 256
  <2> DEFINE n == 16 * tens + ones
  <2>1. n \in -256..511 /\ n >= 0 /\ a = n % 256
    OBVIOUS
  <2> HIDE DEF n
  <2>2. n % 256 = IF n < 0 THEN n + 256 ELSE IF n > 255 THEN n - 256 ELSE n
    BY <2>1, Wrapped, Zenon
  <2> QED BY <2>1, <2>2 DEF n
<1>3. lower = 6 * k
  <2>2. CASE ones <= 15
    <3>1. a % 16 = ones
      BY <1>0, <2>2
    <3> QED BY <2>2, <3>1
  <2>3. CASE ones > 15
    BY <2>3
  <2> QED BY <2>2, <2>3
<1>4. upper = 96 * l
  <2>1. CASE c = 1
    BY <2>1
  <2>2. CASE c = 0
    <3>1. a = 16 * tens + ones
      BY <1>0, <2>2
    <3> QED BY <2>2, <3>1
  <2> QED BY <2>1, <2>2
<1>5. result = 16 * d1 + d0
  <2>1. a + lower + upper = 16 * tens + ones + 6 * k + 96 * l
        \/ a + lower + upper = 16 * tens + ones + 6 * k + 96 * l - 256
    <3> HIDE DEF k, l
    <3> QED BY <1>0, <1>1, <1>3, <1>4
  <2>2. 16 * tens + ones + 6 * k + 96 * l = 16 * d1 + d0 + 256 * l
    BY <1>1
  <2>3. a + lower + upper = 16 * d1 + d0 + 256 * l \/ a + lower + upper = 16 * d1 + d0 + 256 * l - 256
    BY <2>1, <2>2
  <2>4. 16 * d1 + d0 \in 0..153 /\ a + lower + upper \in Nat
    BY <1>1, <1>3, <1>4
  <2> HIDE DEF d0, d1, k, l
  <2> QED BY <1>1, <2>3, <2>4
<1>6. result % 16 = d0 /\ result \div 16 = d1
  BY <1>1, <1>5
<1> HIDE DEF d0, d1, k, l
<1> QED BY <1>1, <1>2, <1>3, <1>4, <1>6

\* What DAA subtracts from the byte difference of two decimal numbers.
CorrectedDifference(tens, ones, a, h, c, lower, upper, result) ==
    /\ tens \in -9..9 /\ ones \in -10..9
    /\ a \in 0..255 /\ a = (16 * tens + ones) % 256
    /\ h \in {0, 1} /\ h = IF ones < 0 THEN 1 ELSE 0
    /\ c \in {0, 1} /\ c = IF 16 * tens + ones < 0 THEN 1 ELSE 0
    /\ lower = IF h = 1 THEN 6 ELSE 0
    /\ upper = IF c = 1 THEN 96 ELSE 0
    /\ result = (a - (lower + upper)) % 256

\* It makes the decimal difference.
LEMMA DecimalDifference ==
    ASSUME NEW tens, NEW ones, NEW a, NEW h, NEW c, NEW lower, NEW upper, NEW result,
           CorrectedDifference(tens, ones, a, h, c, lower, upper, result)
    PROVE  /\ result % 16 <= 9 /\ result \div 16 <= 9
           /\ 10 * (result \div 16) + (result % 16) = (10 * tens + ones) % 100
           /\ lower + upper >= 96 <=> 10 * tens + ones < 0
<1> USE DEF CorrectedDifference
<1> DEFINE k == IF ones < 0 THEN 1 ELSE 0
           l == IF tens - k < 0 THEN 1 ELSE 0
           d0 == ones + 10 * k
           d1 == tens - k + 10 * l
<1>1. /\ d0 \in 0..9 /\ d1 \in 0..9 /\ l \in 0..1 /\ k \in 0..1
      /\ 10 * tens + ones = 10 * d1 + d0 - 100 * l
      /\ 16 * tens + ones = 16 * d1 + d0 + 6 * k - 160 * l
  <2>1. k \in 0..1 /\ d0 \in 0..9
    OBVIOUS
  <2> HIDE DEF k
  <2>2. l \in 0..1 /\ d1 \in 0..9
    BY <2>1
  <2> HIDE DEF l
  <2> QED BY <2>1, <2>2
<1>2. (10 * tens + ones) % 100 = 10 * d1 + d0 /\ (10 * tens + ones < 0 <=> l = 1)
  BY <1>1
<1>3. c = l
  <2>1. l = 1 <=> 16 * tens + ones < 0
    <3> HIDE DEF k, l, d0, d1
    <3> QED BY <1>1
  <2> QED BY <1>1, <2>1
<1>4. lower = 6 * k /\ upper = 96 * l
  <2>1. lower = 6 * k
    OBVIOUS
  <2>2. upper = 96 * l
    <3> HIDE DEF l
    <3> QED BY <1>1, <1>3
  <2> QED BY <2>1, <2>2
<1>5. a = 16 * d1 + d0 + 6 * k + 96 * l
  <2> DEFINE n == 16 * tens + ones
  <2>1. n \in -256..511 /\ a = n % 256 /\ n <= 153 /\ (c = 1 <=> n < 0)
    OBVIOUS
  <2> HIDE DEF n
  <2>2. n % 256 = IF n < 0 THEN n + 256 ELSE IF n > 255 THEN n - 256 ELSE n
    BY <2>1, Wrapped, ZenonT(30)
  <2>3. a = n + 256 * c
    BY <2>1, <2>2
  <2>4. n = 16 * d1 + d0 + 6 * k - 160 * l
    BY <1>1 DEF n
  <2> HIDE DEF k, l, d0, d1
  <2> QED BY <1>1, <1>3, <2>3, <2>4
<1>6. result = 16 * d1 + d0
  <2> HIDE DEF k, l, d0, d1
  <2>1. a - (lower + upper) = 16 * d1 + d0
    BY <1>1, <1>4, <1>5
  <2> QED BY <1>1, <2>1
<1>7. result % 16 = d0 /\ result \div 16 = d1
  <2> HIDE DEF k, l, d0, d1
  <2> QED BY <1>1, <1>6
<1> HIDE DEF d0, d1, k, l
<1> QED BY <1>1, <1>2, <1>4, <1>7

\* A number that is a multiple of p and a remainder has these as its division.
LEMMA DivisionIs ==
    ASSUME NEW p \in Nat \ {0}, NEW q \in Int, NEW r \in Int, r >= 0, r < p
    PROVE  (p * q + r) % p = r /\ (p * q + r) \div p = q
<1> DEFINE n == p * q + r
           d == n \div p
           m == n % p
<1>1. n \in Int
  OBVIOUS
<1>2. n = p * d + m /\ d \in Int /\ m \in 0..(p - 1)
  BY <1>1
<1>3. p * (q - d) = m - r
  BY <1>2
<1> HIDE DEF d, m
<1>4. q - d = 0
  <2>1. CASE q - d >= 1
    <3>1. p * (q - d) >= p * 1
      BY <1>2, <2>1
    <3> QED BY <1>2, <1>3, <3>1
  <2>2. CASE q - d <= -1
    <3>1. p * (d - q) >= p * 1
      BY <1>2, <2>2
    <3> QED BY <1>2, <1>3, <3>1
  <2> QED BY <1>2, <2>1, <2>2
<1> QED BY <1>2, <1>3, <1>4 DEF d, m

\* The remainder of a number that differs from a smaller one by a multiple.
LEMMA RemainderIs ==
    ASSUME NEW n, NEW p \in Nat \ {0}, NEW w \in Int, w >= 0, w < p,
           \E q \in Int : n = p * q + w
    PROVE  n % p = w
<1>2. PICK q \in Int : n = p * q + w
  OBVIOUS
<1>3. (p * q + w) % p = w
  BY DivisionIs
<1> QED BY <1>2, <1>3

\* A word is its two bytes.
LEMMA BytesOf ==
    ASSUME NEW w, IsWord(w)
    PROVE  Hi(w) \in Bytes /\ Lo(w) \in Bytes /\ w = 256 * Hi(w) + Lo(w)
BY DEF Hi, Lo, Bytes, IsWord

\* The word of two bytes has these bytes.
LEMMA WordOf ==
    ASSUME NEW hi \in Bytes, NEW lo \in Bytes
    PROVE  /\ Word(hi, lo) = 256 * hi + lo /\ IsWord(256 * hi + lo)
           /\ Hi(256 * hi + lo) = hi /\ Lo(256 * hi + lo) = lo
<1>1. hi \in 0..255 /\ lo \in 0..255
  BY DEF Bytes
<1>2. Word(hi, lo) = 256 * hi + lo
  BY <1>1 DEF Word
<1>3. IsWord(256 * hi + lo)
  BY <1>1 DEF IsWord
<1>4. Hi(256 * hi + lo) = hi /\ Lo(256 * hi + lo) = lo
  BY <1>1 DEF Hi, Lo
<1> QED BY <1>2, <1>3, <1>4

\* A sum of two words from the sums of their bytes.
LEMMA SumOfBytes ==
    ASSUME NEW h1 \in Bytes, NEW l1 \in Bytes, NEW h2 \in Bytes, NEW l2 \in Bytes,
           NEW c, c = (l1 + l2) \div 256
    PROVE  LET sum == 256 * h1 + l1 + (256 * h2 + l2) IN
           /\ c \in Bit
           /\ 256 * ((h1 + h2 + c) % 256) + ((l1 + l2) % 256) = In16(sum)
           /\ Flag(h1 + h2 + c > 255) = Carry16(sum)
           /\ Flag((h1 % 16) + (h2 % 16) + c > 15)
                = Carry12(In12(256 * h1 + l1) + In12(256 * h2 + l2))
<1> DEFINE lo == (l1 + l2) % 256
           sum == 256 * h1 + l1 + (256 * h2 + l2)
<1>1. h1 \in 0..255 /\ l1 \in 0..255 /\ h2 \in 0..255 /\ l2 \in 0..255
  BY DEF Bytes
<1>2. c \in 0..1 /\ lo \in 0..255 /\ l1 + l2 = 256 * c + lo
  BY <1>1
<1> HIDE DEF lo
<1>3. 256 * ((h1 + h2 + c) % 256) + lo = In16(sum)
  <2> DEFINE hi == h1 + h2 + c
             r == hi % 256
             q == hi \div 256
  <2>1. hi \in Int /\ sum = 256 * hi + lo
    BY <1>1, <1>2
  <2> HIDE DEF hi, sum
  <2>2. r \in 0..255 /\ q \in Int /\ hi = 256 * q + r
    BY <2>1
  <2> HIDE DEF r, q
  <2>3. sum = 65536 * q + (256 * r + lo)
    BY <1>2, <2>1, <2>2
  <2> DEFINE p == 65536
             w == 256 * r + lo
  <2>4. p \in Nat \ {0} /\ w \in Int /\ w >= 0 /\ w < p /\ sum = p * q + w
    BY <1>2, <2>2, <2>3
  <2> HIDE DEF p, w
  <2>5. sum % p = w
    BY <2>2, <2>4, RemainderIs, Zenon
  <2> QED BY <2>5 DEF r, hi, p, w, In16
<1>4. h1 + h2 + c > 255 <=> sum > 65535
  BY <1>1, <1>2
<1>5. \A h, l \in 0..255 : (256 * h + l) % 4096 = 256 * (h % 16) + l
  <2> TAKE h \in 0..255, l \in 0..255
  <2> DEFINE r == h % 16
             q == h \div 16
  <2>1. r \in 0..15 /\ q \in Int /\ h = 16 * q + r
    OBVIOUS
  <2> HIDE DEF r, q
  <2>2. 256 * h + l = 4096 * q + (256 * r + l) /\ 256 * r + l \in 0..4095
    BY <2>1
  <2> QED BY <2>1, <2>2 DEF r
<1>6. (h1 % 16) + (h2 % 16) + c > 15
        <=> In12(256 * h1 + l1) + In12(256 * h2 + l2) > 4095
  <2>1. /\ In12(256 * h1 + l1) = 256 * (h1 % 16) + l1
        /\ In12(256 * h2 + l2) = 256 * (h2 % 16) + l2
    BY <1>1, <1>5 DEF In12
  <2>2. h1 % 16 \in 0..15 /\ h2 % 16 \in 0..15
    BY <1>1
  <2> QED BY <1>1, <1>2, <2>1, <2>2
<1>7. Flag(h1 + h2 + c > 255) = Carry16(sum)
  BY <1>4 DEF Carry16, Flag
<1>8. Flag((h1 % 16) + (h2 % 16) + c > 15) = Carry12(In12(256 * h1 + l1) + In12(256 * h2 + l2))
  BY <1>6 DEF Carry12, Flag
<1> HIDE DEF sum
<1> QED BY <1>2, <1>3, <1>7, <1>8 DEF Bit, lo, sum

\* A word and a signed byte, from the sum of the lower byte and the correction of the upper.
LEMMA SumWithOffset ==
    ASSUME NEW h \in Bytes, NEW l \in Bytes, NEW e \in Bytes
    PROVE  /\ 256 * ((h + (((l + e) \div 256) - (e \div 128))) % 256) + ((l + e) % 256)
                = In16(256 * h + l + Signed(e))
           /\ (l + e) \div 256 \in {0, 1} /\ e \div 128 \in {0, 1}
<1> DEFINE lo == (l + e) % 256
           c == (l + e) \div 256
           s == e \div 128
           hi == h + (c - s)
           r == hi % 256
           q == hi \div 256
           sum == 256 * h + l + Signed(e)
<1>1. h \in 0..255 /\ l \in 0..255 /\ e \in 0..255
  BY DEF Bytes
<1>2. lo \in 0..255 /\ c \in 0..1 /\ l + e = 256 * c + lo
  BY <1>1
<1>3. s \in 0..1 /\ Signed(e) = e - 256 * s
  BY <1>1 DEF Signed
<1> HIDE DEF lo, c, s
<1>4. sum = 256 * hi + lo /\ hi \in Int
  BY <1>1, <1>2, <1>3
<1> HIDE DEF hi, sum
<1>5. r \in 0..255 /\ q \in Int /\ hi = 256 * q + r
  BY <1>4
<1> HIDE DEF r, q
<1>6. sum = 65536 * q + (256 * r + lo)
  BY <1>2, <1>4, <1>5
<1> DEFINE p == 65536
           w == 256 * r + lo
<1>9. p \in Nat \ {0} /\ w \in Int /\ w >= 0 /\ w < p /\ sum = p * q + w
  BY <1>2, <1>5, <1>6
<1> HIDE DEF p, w
<1>7. sum % p = w
  BY <1>5, <1>9, RemainderIs, Zenon
<1>8. c \in {0, 1} /\ s \in {0, 1}
  BY <1>2, <1>3
<1> QED BY <1>7, <1>8 DEF r, hi, c, s, lo, sum, p, w, In16

\* The inductive invariant.
AluInv == AluTypeOK /\ Halfway /\ BytesRight /\ DecimalRight /\ HlRight /\ SpRight

\* A condition as a bit.
LEMMA FlagIs ==
    ASSUME NEW b \in BOOLEAN
    PROVE  Flag(b) \in Bit /\ (Flag(b) = 1 <=> b) /\ (Flag(b) = 0 <=> ~b)
BY DEF Flag, Bit

\* The parts of a sum of two bytes.
LEMMA AddGives ==
    ASSUME NEW n1 \in Bytes, NEW n2 \in Bytes, NEW c_in \in Bit, NEW r, r = add_u8_u8(n1, n2, c_in)
    PROVE  /\ r.result = (n1 + n2 + c_in) % 256 /\ r.result \in Bytes
           /\ r.c = Flag(n1 + n2 + c_in > 255) /\ r.c \in Bit
           /\ r.h = Flag((n1 % 16) + (n2 % 16) + c_in > 15) /\ r.h \in Bit
           /\ r.z = Flag((n1 + n2 + c_in) % 256 = 0) /\ r.z \in Bit
           /\ r.n = 0
<1> DEFINE s == (n1 + n2 + c_in) % 256
           low == (n1 % 16) + (n2 % 16) + c_in > 15
           all == n1 + n2 + c_in > 255
           z == s = 0
<1>1. s \in Bytes
  BY DEF Bytes, Bit
<1>2. r = [result |-> s, z |-> Flag(z), n |-> 0, h |-> Flag(low), c |-> Flag(all)]
  BY AddIs
<1>3. z \in BOOLEAN /\ low \in BOOLEAN /\ all \in BOOLEAN
  OBVIOUS
<1> HIDE DEF s, low, all, z
<1>4. r.result = s /\ r.z = Flag(z) /\ r.n = 0 /\ r.h = Flag(low) /\ r.c = Flag(all)
  BY <1>2
<1>5. Flag(z) \in Bit /\ Flag(low) \in Bit /\ Flag(all) \in Bit
  BY <1>3, FlagIs
<1> QED BY <1>1, <1>3, <1>4, <1>5 DEF s, low, all, z

\* The parts of a difference of two bytes.
LEMMA SubtractGives ==
    ASSUME NEW n1 \in Bytes, NEW n2 \in Bytes, NEW b_in \in Bit, NEW r, r = sub_u8_u8(n1, n2, b_in)
    PROVE  /\ r.result = (n1 - n2 - b_in) % 256 /\ r.result \in Bytes
           /\ r.c = Flag(n1 - n2 - b_in < 0) /\ r.c \in Bit
           /\ r.h = Flag((n1 % 16) - (n2 % 16) - b_in < 0) /\ r.h \in Bit
           /\ r.z = Flag((n1 - n2 - b_in) % 256 = 0) /\ r.z \in Bit
           /\ r.n = 1
<1> DEFINE s == (n1 - n2 - b_in) % 256
           low == (n1 % 16) - (n2 % 16) - b_in < 0
           all == n1 - n2 - b_in < 0
           z == s = 0
<1>1. s \in Bytes
  BY DEF Bytes, Bit
<1>2. r = [result |-> s, z |-> Flag(z), n |-> 1, h |-> Flag(low), c |-> Flag(all)]
  BY SubtractIs
<1>3. z \in BOOLEAN /\ low \in BOOLEAN /\ all \in BOOLEAN
  OBVIOUS
<1> HIDE DEF s, low, all, z
<1>4. r.result = s /\ r.z = Flag(z) /\ r.n = 1 /\ r.h = Flag(low) /\ r.c = Flag(all)
  BY <1>2
<1>5. Flag(z) \in Bit /\ Flag(low) \in Bit /\ Flag(all) \in Bit
  BY <1>3, FlagIs
<1> QED BY <1>1, <1>3, <1>4, <1>5 DEF s, low, all, z

\* The flags that an addition or a subtraction leaves.
LEMMA FlagsFit ==
    ASSUME NEW r, r.z \in Bit, r.n \in Bit, r.h \in Bit, r.c \in Bit
    PROVE  /\ FlagsOf(r) \in [z : Bit, n : Bit, h : Bit, c : Bit]
           /\ FlagsOf(r).z = r.z /\ FlagsOf(r).n = r.n /\ FlagsOf(r).h = r.h /\ FlagsOf(r).c = r.c
BY Zenon DEF FlagsOf

\* The first state.
LEMMA InitInv == AluInit => AluInv
<1> SUFFICES ASSUME AluInit PROVE AluInv
  OBVIOUS
<1>1. pc \in {"8 bits", "16 bits"}
  BY Zenon DEF AluInit
<1>2. /\ (a_reg \in As \/ a_reg = 0) /\ operand \in Bs
      /\ (hl_reg = 0 \/ hl_reg \in Words) /\ (r16 = 0 \/ r16 \in Words)
      /\ (flags = NoFlags \/ \E c \in Bit : flags = [NoFlags EXCEPT !.c = c])
      /\ wz = 0 /\ adj = 0
      /\ given = [a |-> a_reg, c |-> 0, hl |-> hl_reg, sp |-> r16]
  BY Zenon DEF AluInit
<1>3. AluTypeOK
  <2>1. 0 \in Bytes /\ 0 \in Bit /\ 1 \in Bit /\ IsWord(0) /\ 0 \in {-1, 0, 1}
    BY DEF Bytes, Bit, IsWord
  <2>2. a_reg \in Bytes /\ operand \in Bytes /\ IsWord(hl_reg) /\ IsWord(r16)
    BY <1>2, <2>1, AluAssumption, Zenon
  <2>3. flags \in [z : Bit, n : Bit, h : Bit, c : Bit]
    <3>1. NoFlags \in [z : Bit, n : Bit, h : Bit, c : Bit]
      BY <2>1, Zenon DEF NoFlags
    <3>2. \A c \in Bit : [NoFlags EXCEPT !.c = c] \in [z : Bit, n : Bit, h : Bit, c : Bit]
      BY <3>1
    <3> QED BY <1>2, <3>1, <3>2, Zenon
  <2>4. hl_reg \in Int /\ r16 \in Int
    BY <2>2 DEF IsWord
  <2>5. given \in [a : Bytes, c : Bit, hl : Int, sp : Int] /\ given.hl = hl_reg /\ given.sp = r16
    BY <1>2, <2>1, <2>2, <2>4, Zenon
  <2> QED BY <1>2, <2>1, <2>2, <2>3, <2>5, Zenon DEF AluTypeOK
<1>4. given.a = a_reg /\ given.hl = hl_reg /\ given.sp = r16
  BY <1>2, Zenon
<1>5. Unchanged
  BY <1>2, <1>4, Zenon DEF Unchanged
<1>6. LastWas /\ HlHalfway /\ SpHalfway
  BY <1>1 DEF LastWas, HlHalfway, SpHalfway
<1>7. BytesRight /\ DecimalRight
  BY <1>1 DEF BytesRight, DecimalRight
<1>8. HlRight /\ SpRight
  BY <1>1 DEF HlRight, SpRight
<1> QED BY <1>3, <1>5, <1>6, <1>7, <1>8 DEF AluInv, Halfway

\* ADD and ADC.
LEMMA AddStep == ASSUME AluInv, NEW with \in BOOLEAN, Add(with) PROVE AluInv'
<1> DEFINE c == CarryIn(with)
           r == add_u8_u8(a_reg, operand, c)
<1>1. pc = "8 bits" /\ pc' = "sum"
  BY DEF Add, Goes
<1>2. a_reg \in Bytes /\ operand \in Bytes /\ c \in Bit /\ a_reg = given.a
  BY <1>1 DEF AluInv, AluTypeOK, Halfway, Unchanged, CarryIn, Bit
<1>3. /\ r.result = (a_reg + operand + c) % 256 /\ r.result \in Bytes
      /\ r.c = Flag(a_reg + operand + c > 255) /\ r.c \in Bit
      /\ r.h = Flag((a_reg % 16) + (operand % 16) + c > 15) /\ r.h \in Bit
      /\ r.z = Flag((a_reg + operand + c) % 256 = 0) /\ r.z \in Bit
      /\ r.n = 0
  <2> HIDE DEF c
  <2> QED BY <1>2, AddGives
<1>4. /\ a_reg' = r.result /\ flags' = FlagsOf(r) /\ operand' = operand
      /\ given' = [given EXCEPT !.c = c]
      /\ hl_reg' = hl_reg /\ r16' = r16 /\ wz' = wz /\ adj' = adj
  BY DEF Add, Goes
<1> HIDE DEF r, c
<1>5. /\ given' \in [a : Bytes, c : Bit, hl : Int, sp : Int]
      /\ given'.a = given.a /\ given'.c = c /\ given'.hl = given.hl /\ given'.sp = given.sp
  BY <1>2, <1>4 DEF AluInv, AluTypeOK
<1>6. /\ flags' \in [z : Bit, n : Bit, h : Bit, c : Bit]
      /\ flags'.z = r.z /\ flags'.n = 0 /\ flags'.h = r.h /\ flags'.c = r.c
  BY <1>3, <1>4, FlagsFit DEF Bit
<1>7. AluTypeOK'
  BY <1>3, <1>4, <1>5, <1>6 DEF AluInv, AluTypeOK
<1>8. Halfway'
  <2>1. Unchanged' /\ LastWas'
    BY <1>1, <1>6 DEF Unchanged, LastWas
  <2>2. HlHalfway'
    BY <1>1 DEF HlHalfway
  <2>3. SpHalfway'
    BY <1>1 DEF SpHalfway
  <2> QED BY <2>1, <2>2, <2>3 DEF Halfway
<1>9. BytesRight'
  BY <1>1, <1>2, <1>3, <1>4, <1>5, <1>6, ZenonT(40) DEF BytesRight
<1>10. DecimalRight'
  BY <1>1 DEF DecimalRight
<1>11. HlRight'
  BY <1>1 DEF HlRight
<1>12. SpRight'
  BY <1>1 DEF SpRight
<1> QED BY <1>7, <1>8, <1>9, <1>10, <1>11, <1>12 DEF AluInv

\* SUB and SBC.
LEMMA SubtractStep == ASSUME AluInv, NEW with \in BOOLEAN, Subtract(with) PROVE AluInv'
<1> DEFINE c == CarryIn(with)
           r == sub_u8_u8(a_reg, operand, c)
<1>1. pc = "8 bits" /\ pc' = "difference"
  BY DEF Subtract, Goes
<1>2. a_reg \in Bytes /\ operand \in Bytes /\ c \in Bit /\ a_reg = given.a
  BY <1>1 DEF AluInv, AluTypeOK, Halfway, Unchanged, CarryIn, Bit
<1>3. /\ r.result = (a_reg - operand - c) % 256 /\ r.result \in Bytes
      /\ r.c = Flag(a_reg - operand - c < 0) /\ r.c \in Bit
      /\ r.h = Flag((a_reg % 16) - (operand % 16) - c < 0) /\ r.h \in Bit
      /\ r.z = Flag((a_reg - operand - c) % 256 = 0) /\ r.z \in Bit
      /\ r.n = 1
  <2> HIDE DEF c
  <2> QED BY <1>2, SubtractGives
<1>4. /\ a_reg' = r.result /\ flags' = FlagsOf(r) /\ operand' = operand
      /\ given' = [given EXCEPT !.c = c]
      /\ hl_reg' = hl_reg /\ r16' = r16 /\ wz' = wz /\ adj' = adj
  BY DEF Subtract, Goes
<1> HIDE DEF r, c
<1>5. /\ given' \in [a : Bytes, c : Bit, hl : Int, sp : Int]
      /\ given'.a = given.a /\ given'.c = c /\ given'.hl = given.hl /\ given'.sp = given.sp
  BY <1>2, <1>4 DEF AluInv, AluTypeOK
<1>6. /\ flags' \in [z : Bit, n : Bit, h : Bit, c : Bit]
      /\ flags'.z = r.z /\ flags'.n = 1 /\ flags'.h = r.h /\ flags'.c = r.c
  BY <1>3, <1>4, FlagsFit DEF Bit
<1>7. AluTypeOK'
  BY <1>3, <1>4, <1>5, <1>6 DEF AluInv, AluTypeOK
<1>8. Halfway'
  <2>1. Unchanged' /\ LastWas'
    BY <1>1, <1>6 DEF Unchanged, LastWas
  <2>2. HlHalfway'
    BY <1>1 DEF HlHalfway
  <2>3. SpHalfway'
    BY <1>1 DEF SpHalfway
  <2> QED BY <2>1, <2>2, <2>3 DEF Halfway
<1>9. BytesRight'
  BY <1>1, <1>2, <1>3, <1>4, <1>5, <1>6 DEF BytesRight
<1>10. DecimalRight'
  BY <1>1 DEF DecimalRight
<1>11. HlRight'
  BY <1>1 DEF HlRight
<1>12. SpRight'
  BY <1>1 DEF SpRight
<1> QED BY <1>7, <1>8, <1>9, <1>10, <1>11, <1>12 DEF AluInv

\* CP.
LEMMA CompareStep == ASSUME AluInv, Compare PROVE AluInv'
<1> DEFINE r == sub_u8_u8(a_reg, operand, 0)
<1>1. pc = "8 bits" /\ pc' = "comparison"
  BY DEF Compare, Goes
<1>2. a_reg \in Bytes /\ operand \in Bytes /\ 0 \in Bit /\ a_reg = given.a
  BY <1>1 DEF AluInv, AluTypeOK, Halfway, Unchanged, Bit
<1>3. /\ r.c = Flag(a_reg - operand - 0 < 0) /\ r.c \in Bit /\ r.h \in Bit
      /\ r.z = Flag((a_reg - operand - 0) % 256 = 0) /\ r.z \in Bit
      /\ r.n = 1
  BY <1>2, SubtractGives
<1>4. /\ flags' = FlagsOf(r) /\ operand' = operand /\ a_reg' = a_reg /\ given' = given
      /\ hl_reg' = hl_reg /\ r16' = r16 /\ wz' = wz /\ adj' = adj
  BY DEF Compare, Goes
<1> HIDE DEF r
<1>6. /\ flags' \in [z : Bit, n : Bit, h : Bit, c : Bit]
      /\ flags'.z = r.z /\ flags'.c = r.c
  BY <1>3, <1>4, FlagsFit DEF Bit
<1>7. AluTypeOK'
  BY <1>4, <1>6 DEF AluInv, AluTypeOK
<1>8. Halfway'
  <2>1. Unchanged' /\ LastWas'
    BY <1>1 DEF Unchanged, LastWas
  <2>2. HlHalfway'
    BY <1>1 DEF HlHalfway
  <2>3. SpHalfway'
    BY <1>1 DEF SpHalfway
  <2> QED BY <2>1, <2>2, <2>3 DEF Halfway
<1>9. BytesRight'
  <2>1. (a_reg - operand - 0) % 256 = 0 <=> a_reg = operand
    <3>1. a_reg \in 0..255 /\ operand \in 0..255
      BY <1>2 DEF Bytes
    <3> DEFINE d == a_reg - operand - 0
    <3>2. d \in -255..255 /\ (d = 0 <=> a_reg = operand)
      BY <3>1
    <3> HIDE DEF d
    <3>3. d % 256 = 0 <=> d = 0
      BY <3>2
    <3> QED BY <3>2, <3>3 DEF d
  <2>2. a_reg - operand - 0 < 0 <=> a_reg < operand
    BY <1>2 DEF Bytes
  <2>3. r.c = Flag(a_reg < operand)
    BY <1>3, <2>2 DEF Flag
  <2>4. r.z = Flag(a_reg = operand)
    BY <1>3, <2>1 DEF Flag
  <2> QED BY <1>1, <1>2, <1>4, <1>6, <2>3, <2>4 DEF BytesRight
<1>10. DecimalRight'
  BY <1>1 DEF DecimalRight
<1>11. HlRight'
  BY <1>1 DEF HlRight
<1>12. SpRight'
  BY <1>1 DEF SpRight
<1> QED BY <1>7, <1>8, <1>9, <1>10, <1>11, <1>12 DEF AluInv

\* The type of the state after DAA, and what DAA does to A and to the flags.
LEMMA DaaIs ==
    ASSUME AluInv, daa
    PROVE  /\ AluTypeOK' /\ Halfway' /\ DaaOffset \in {0, 6, 96, 102}
           /\ a_reg' = (IF flags.n = 1 THEN a_reg - DaaOffset ELSE a_reg + DaaOffset) % 256
           /\ flags'.c = Flag(DaaOffset >= 96)
           /\ operand' = operand /\ given' = given
           /\ \/ pc = "sum" /\ pc' = "decimal sum"
              \/ pc = "difference" /\ pc' = "decimal difference"
<1> DEFINE n == IF flags.n = 1 THEN a_reg - DaaOffset ELSE a_reg + DaaOffset
           z == Flag(a_reg' = 0)
           c == Flag(DaaOffset >= 96)
<1>1. /\ \/ pc = "sum" /\ pc' = "decimal sum"
         \/ pc = "difference" /\ pc' = "decimal difference"
      /\ operand' = operand /\ given' = given
      /\ hl_reg' = hl_reg /\ r16' = r16 /\ wz' = wz /\ adj' = adj
  BY Zenon DEF daa, Goes
<1>2. a_reg' = n % 256
  BY DEF daa
<1>3. flags' = [flags EXCEPT !.z = z, !.h = 0, !.c = c]
  BY DEF daa
<1>4. DaaOffset \in {0, 6, 96, 102}
  BY DEF DaaOffset
<1>5. a_reg \in Bytes /\ flags \in [z : Bit, n : Bit, h : Bit, c : Bit]
  BY DEF AluInv, AluTypeOK
<1>6. a_reg' \in Bytes
  BY <1>2, <1>4, <1>5 DEF Bytes
<1>7. z \in Bit /\ c \in Bit /\ 0 \in Bit
  BY FlagIs DEF Flag, Bit
<1> HIDE DEF z, c
<1>8. flags' \in [z : Bit, n : Bit, h : Bit, c : Bit] /\ flags'.c = c
  BY <1>3, <1>5, <1>7
<1>9. AluTypeOK'
  BY <1>1, <1>6, <1>8 DEF AluInv, AluTypeOK
<1>10. Halfway'
  <2>1. Unchanged' /\ LastWas'
    BY <1>1 DEF Unchanged, LastWas
  <2>2. HlHalfway'
    BY <1>1 DEF HlHalfway
  <2>3. SpHalfway'
    BY <1>1 DEF SpHalfway
  <2> QED BY <2>1, <2>2, <2>3 DEF Halfway
<1> QED BY <1>1, <1>2, <1>4, <1>8, <1>9, <1>10 DEF c

\* The digits of a decimal number.
LEMMA DigitsOf ==
    ASSUME NEW n \in Bytes, IsDecimal(n)
    PROVE  /\ n % 16 \in 0..9 /\ n \div 16 \in 0..9
           /\ n = 16 * (n \div 16) + (n % 16) /\ Decimal(n) = 10 * (n \div 16) + (n % 16)
BY DEF Bytes, IsDecimal, Decimal

\* DAA after an addition.
LEMMA DaaSum ==
    ASSUME AluInv, daa, pc = "sum", IsDecimal(given.a), IsDecimal(operand)
    PROVE  LET sum == Decimal(given.a) + Decimal(operand) + given.c
           IN  IsDecimal(a_reg') /\ Decimal(a_reg') = sum % 100 /\ flags'.c = Flag(sum > 99)
<1> DEFINE x == given.a
           y == operand
           k == given.c
           x1 == x \div 16
           x0 == x % 16
           y1 == y \div 16
           y0 == y % 16
           tens == x1 + y1
           ones == x0 + y0 + k
           a == a_reg
           h == flags.h
           c == flags.c
           lower == IF a % 16 > 9 \/ h = 1 THEN 6 ELSE 0
           upper == IF a > 153 \/ c = 1 THEN 96 ELSE 0
           result == a_reg'
           sum == Decimal(x) + Decimal(y) + k
<1>1. x \in Bytes /\ y \in Bytes /\ k \in Bit /\ a \in Bytes /\ h \in Bit /\ c \in Bit
  BY DEF AluInv, AluTypeOK
<1>2. a = (x + y + k) % 256 /\ c = Flag(x + y + k > 255) /\ h = Flag(ones > 15) /\ flags.n = 0
  BY DEF AluInv, BytesRight, Halfway, LastWas
<1>3. DaaOffset = lower + upper
  BY <1>2 DEF DaaOffset
<1>4. result = (a + (lower + upper)) % 256 /\ flags'.c = Flag(lower + upper >= 96)
  <2>1. /\ a_reg' = (IF flags.n = 1 THEN a_reg - DaaOffset ELSE a_reg + DaaOffset) % 256
        /\ flags'.c = Flag(DaaOffset >= 96)
    BY DaaIs
  <2> HIDE DEF lower, upper
  <2> QED BY <1>2, <1>3, <2>1
<1>5. /\ x0 \in 0..9 /\ x1 \in 0..9 /\ y0 \in 0..9 /\ y1 \in 0..9
      /\ x = 16 * x1 + x0 /\ y = 16 * y1 + y0
      /\ Decimal(x) = 10 * x1 + x0 /\ Decimal(y) = 10 * y1 + y0
  BY <1>1, DigitsOf
<1> HIDE DEF x0, x1, y0, y1
<1>6. tens \in 0..18 /\ ones \in 0..19
  BY <1>1, <1>5 DEF Bit
<1>7. x + y + k = 16 * tens + ones /\ sum = 10 * tens + ones
  BY <1>1, <1>5 DEF Bit
<1> HIDE DEF tens, ones, sum, a, h, c, x, y, k, result
<1>8. /\ a \in 0..255 /\ h \in {0, 1} /\ c \in {0, 1}
      /\ a = (16 * tens + ones) % 256
      /\ c = IF 16 * tens + ones > 255 THEN 1 ELSE 0
      /\ h = IF ones > 15 THEN 1 ELSE 0
  BY <1>1, <1>2, <1>7 DEF Bytes, Bit, Flag
<1>9. lower \in Int /\ upper \in Int
  OBVIOUS
<1>10. lower = IF a % 16 > 9 \/ h = 1 THEN 6 ELSE 0
  OBVIOUS
<1>11. upper = IF a > 153 \/ c = 1 THEN 96 ELSE 0
  OBVIOUS
<1> HIDE DEF lower, upper
<1>12. result = (a + lower + upper) % 256
  BY <1>4, <1>8, <1>9
<1>16. CorrectedSum(tens, ones, a, h, c, lower, upper, result)
  BY <1>6, <1>8, <1>10, <1>11, <1>12 DEF CorrectedSum
<1>13. /\ result % 16 <= 9 /\ result \div 16 <= 9
       /\ 10 * (result \div 16) + (result % 16) = (10 * tens + ones) % 100
       /\ lower + upper >= 96 <=> 10 * tens + ones > 99
  BY <1>16, DecimalSum, Zenon
<1>14. flags'.c = Flag(sum > 99)
  BY <1>4, <1>7, <1>13 DEF Flag
<1>15. IsDecimal(result) /\ Decimal(result) = sum % 100
  BY <1>7, <1>13 DEF IsDecimal, Decimal
<1> QED BY <1>14, <1>15 DEF sum, x, y, k, result

\* DAA after a subtraction.
LEMMA DaaDifference ==
    ASSUME AluInv, daa, pc = "difference", IsDecimal(given.a), IsDecimal(operand)
    PROVE  LET difference == Decimal(given.a) - Decimal(operand) - given.c
           IN  /\ IsDecimal(a_reg') /\ Decimal(a_reg') = difference % 100
               /\ flags'.c = Flag(difference < 0)
<1> DEFINE x == given.a
           y == operand
           k == given.c
           x1 == x \div 16
           x0 == x % 16
           y1 == y \div 16
           y0 == y % 16
           tens == x1 - y1
           ones == x0 - y0 - k
           a == a_reg
           h == flags.h
           c == flags.c
           lower == IF h = 1 THEN 6 ELSE 0
           upper == IF c = 1 THEN 96 ELSE 0
           result == a_reg'
           difference == Decimal(x) - Decimal(y) - k
<1>1. x \in Bytes /\ y \in Bytes /\ k \in Bit /\ a \in Bytes /\ h \in Bit /\ c \in Bit
  BY DEF AluInv, AluTypeOK
<1>2. a = (x - y - k) % 256 /\ c = Flag(x - y - k < 0) /\ h = Flag(ones < 0) /\ flags.n = 1
  BY DEF AluInv, BytesRight, Halfway, LastWas
<1>3. DaaOffset = lower + upper
  BY <1>2 DEF DaaOffset
<1>4. result = (a - (lower + upper)) % 256 /\ flags'.c = Flag(lower + upper >= 96)
  BY <1>2, <1>3, DaaIs
<1>5. /\ x0 \in 0..9 /\ x1 \in 0..9 /\ y0 \in 0..9 /\ y1 \in 0..9
      /\ x = 16 * x1 + x0 /\ y = 16 * y1 + y0
      /\ Decimal(x) = 10 * x1 + x0 /\ Decimal(y) = 10 * y1 + y0
  BY <1>1, DigitsOf
<1> HIDE DEF x0, x1, y0, y1
<1>6. tens \in -9..9 /\ ones \in -10..9
  BY <1>1, <1>5 DEF Bit
<1>7. x - y - k = 16 * tens + ones /\ difference = 10 * tens + ones
  BY <1>1, <1>5 DEF Bit
<1> HIDE DEF tens, ones, difference, a, h, c, x, y, k, result
<1>8. /\ a \in 0..255 /\ h \in {0, 1} /\ c \in {0, 1}
      /\ a = (16 * tens + ones) % 256
      /\ c = IF 16 * tens + ones < 0 THEN 1 ELSE 0
      /\ h = IF ones < 0 THEN 1 ELSE 0
  BY <1>1, <1>2, <1>7 DEF Bytes, Bit, Flag
<1>10. lower = IF h = 1 THEN 6 ELSE 0
  OBVIOUS
<1>11. upper = IF c = 1 THEN 96 ELSE 0
  OBVIOUS
<1> HIDE DEF lower, upper
<1>16. CorrectedDifference(tens, ones, a, h, c, lower, upper, result)
  BY <1>4, <1>6, <1>8, <1>10, <1>11 DEF CorrectedDifference
<1>13. /\ result % 16 <= 9 /\ result \div 16 <= 9
       /\ 10 * (result \div 16) + (result % 16) = (10 * tens + ones) % 100
       /\ lower + upper >= 96 <=> 10 * tens + ones < 0
  BY <1>16, DecimalDifference, Zenon
<1>14. flags'.c = Flag(difference < 0)
  BY <1>4, <1>7, <1>13 DEF Flag
<1>15. IsDecimal(result) /\ Decimal(result) = difference % 100
  BY <1>7, <1>13 DEF IsDecimal, Decimal
<1> QED BY <1>14, <1>15 DEF difference, x, y, k, result

\* DAA.
LEMMA DaaStep == ASSUME AluInv, daa PROVE AluInv'
<1>1. /\ AluTypeOK' /\ Halfway' /\ operand' = operand /\ given' = given
      /\ \/ pc = "sum" /\ pc' = "decimal sum"
         \/ pc = "difference" /\ pc' = "decimal difference"
  BY DaaIs
<1>2. BytesRight'
  BY <1>1 DEF BytesRight
<1>3. DecimalRight'
  <2>1. CASE pc = "sum" /\ pc' = "decimal sum"
    BY <1>1, <2>1, DaaSum DEF DecimalRight
  <2>2. CASE pc = "difference" /\ pc' = "decimal difference"
    BY <1>1, <2>2, DaaDifference DEF DecimalRight
  <2> QED BY <1>1, <2>1, <2>2
<1>4. HlRight'
  BY <1>1 DEF HlRight
<1>5. SpRight'
  BY <1>1 DEF SpRight
<1> QED BY <1>1, <1>2, <1>3, <1>4, <1>5 DEF AluInv

\* The first M-cycle of ADD HL, r16.
LEMMA AddHlLowStep == ASSUME AluInv, NEW self \in BOOLEAN, AddHlLow(self) PROVE AluInv'
<1> DEFINE l1 == Lo(hl_reg)
           l2 == Lo(Addend(self))
           r == add_u8_u8(l1, l2, 0)
<1>1. pc = "16 bits" /\ pc' = IF self THEN "HL + HL" ELSE "HL + r16"
  BY Zenon DEF AddHlLow, Goes
<1>2. \/ pc' = "HL + HL" /\ self
      \/ pc' = "HL + r16" /\ ~self
  BY <1>1, Zenon
<1>3. IsWord(hl_reg) /\ IsWord(r16) /\ hl_reg = given.hl /\ r16 = given.sp
  BY <1>1 DEF AluInv, AluTypeOK, Halfway, Unchanged
<1>4. Hi(hl_reg) \in Bytes /\ l1 \in Bytes /\ l2 \in Bytes /\ 0 \in Bit
  BY <1>3, BytesOf DEF Addend, Bit
<1>5. /\ r.result = (l1 + l2 + 0) % 256 /\ r.result \in Bytes
      /\ r.c = Flag(l1 + l2 + 0 > 255) /\ r.c \in Bit /\ r.h \in Bit /\ r.z \in Bit /\ r.n = 0
  <2> HIDE DEF l1, l2
  <2> QED BY <1>4, AddGives
<1>6. /\ hl_reg' = Word(Hi(hl_reg), r.result) /\ flags' = [FlagsOf(r) EXCEPT !.z = flags.z]
      /\ a_reg' = a_reg /\ operand' = operand /\ r16' = r16 /\ wz' = wz /\ adj' = adj /\ given' = given
  BY DEF AddHlLow, Goes
<1> HIDE DEF r
<1>7. flags' \in [z : Bit, n : Bit, h : Bit, c : Bit] /\ flags'.c = r.c
  BY <1>5, <1>6, FlagsFit DEF AluInv, AluTypeOK, Bit
<1>8. IsWord(hl_reg')
  BY <1>4, <1>5, <1>6, WordOf
<1>9. AluTypeOK'
  BY <1>6, <1>7, <1>8 DEF AluInv, AluTypeOK
<1>10. Halfway'
  <2>1. Unchanged' /\ LastWas'
    BY <1>2 DEF Unchanged, LastWas
  <2>2. HlHalfway'
    <3>1. l2 = Lo(IF pc' = "HL + HL" THEN given.hl ELSE r16)
      BY <1>2, <1>3 DEF Addend
    <3>2. r.result = (l1 + l2) % 256 /\ r.c = (l1 + l2) \div 256
      <4> HIDE DEF l1, l2
      <4>1. l1 \in 0..255 /\ l2 \in 0..255
        BY <1>4 DEF Bytes
      <4> QED BY <1>5, <4>1 DEF Flag
    <3>3. l1 = Lo(given'.hl) /\ l2 = Lo(IF pc' = "HL + HL" THEN given'.hl ELSE r16')
          /\ Hi(hl_reg) = Hi(given'.hl)
      BY <1>3, <1>6, <3>1
    <3> HIDE DEF l1, l2
    <3> QED BY <1>6, <1>7, <3>2, <3>3, Zenon DEF HlHalfway
  <2>3. SpHalfway'
    BY <1>2 DEF SpHalfway
  <2> QED BY <2>1, <2>2, <2>3 DEF Halfway
<1>11. BytesRight' /\ DecimalRight'
  BY <1>2 DEF BytesRight, DecimalRight
<1>12. HlRight'
  BY <1>2 DEF HlRight
<1>13. SpRight'
  BY <1>2 DEF SpRight
<1> QED BY <1>9, <1>10, <1>11, <1>12, <1>13 DEF AluInv

\* The second M-cycle of ADD HL, r16.
LEMMA AddHlHighStep == ASSUME AluInv, AddHlHigh PROVE AluInv'
<1> DEFINE self == pc = "HL + HL"
           addend == IF self THEN given.hl ELSE r16
           h1 == Hi(given.hl)
           l1 == Lo(given.hl)
           h2 == Hi(addend)
           l2 == Lo(addend)
           c == flags.c
           r == add_u8_u8(h1, h2, c)
           low == (l1 + l2) % 256
<1>1. /\ \/ pc = "HL + HL" /\ pc' = "done HL + HL"
         \/ pc = "HL + r16" /\ pc' = "done HL + r16"
      /\ a_reg' = a_reg /\ operand' = operand /\ r16' = r16 /\ wz' = wz /\ adj' = adj /\ given' = given
  BY Zenon DEF AddHlHigh, Goes
<1>2. IsWord(given.hl) /\ IsWord(r16) /\ IsWord(addend)
  BY DEF AluInv, AluTypeOK
<1> HIDE DEF addend
<1>3. /\ h1 \in Bytes /\ l1 \in Bytes /\ h2 \in Bytes /\ l2 \in Bytes
      /\ given.hl = 256 * h1 + l1 /\ addend = 256 * h2 + l2
  BY <1>2, BytesOf
<1>4. hl_reg = Word(h1, low) /\ c = (l1 + l2) \div 256
  BY <1>1, Zenon DEF AluInv, Halfway, HlHalfway, addend, self, h1, l1, l2, low
<1>5. low \in Bytes
  <2> HIDE DEF l1, l2
  <2>1. l1 \in 0..255 /\ l2 \in 0..255
    BY <1>3 DEF Bytes
  <2> QED BY <2>1 DEF Bytes
<1> HIDE DEF h1, l1, l2, low
<1>6. Hi(hl_reg) = h1 /\ Lo(hl_reg) = low
  BY <1>3, <1>4, <1>5, WordOf
<1>7. Hi(Addend(self)) = h2
  BY <1>1, <1>6 DEF Addend, addend, h1
<1>8. hl_reg' = Word(r.result, low) /\ flags' = [FlagsOf(r) EXCEPT !.z = flags.z]
  BY <1>6, <1>7 DEF AddHlHigh
<1> HIDE DEF h2
<1>9. /\ c \in Bit
      /\ 256 * ((h1 + h2 + c) % 256) + low = In16(given.hl + addend)
      /\ Flag(h1 + h2 + c > 255) = Carry16(given.hl + addend)
      /\ Flag((h1 % 16) + (h2 % 16) + c > 15) = Carry12(In12(given.hl) + In12(addend))
  <2> HIDE DEF c
  <2> QED BY <1>3, <1>4, SumOfBytes DEF low
<1>10. /\ r.result = (h1 + h2 + c) % 256 /\ r.result \in Bytes
       /\ r.c = Flag(h1 + h2 + c > 255) /\ r.c \in Bit
       /\ r.h = Flag((h1 % 16) + (h2 % 16) + c > 15) /\ r.h \in Bit
       /\ r.z \in Bit /\ r.n = 0
  <2> HIDE DEF c
  <2> QED BY <1>3, <1>9, AddGives
<1> HIDE DEF r, c
<1>11. /\ flags' \in [z : Bit, n : Bit, h : Bit, c : Bit]
       /\ flags'.c = r.c /\ flags'.h = r.h
  BY <1>8, <1>10, FlagsFit DEF AluInv, AluTypeOK, Bit
<1>12. hl_reg' = 256 * r.result + low /\ IsWord(hl_reg')
  BY <1>5, <1>8, <1>10, WordOf
<1>13. AluTypeOK'
  BY <1>1, <1>11, <1>12 DEF AluInv, AluTypeOK
<1>14. Halfway'
  <2>1. Unchanged' /\ LastWas'
    BY <1>1 DEF Unchanged, LastWas
  <2>2. HlHalfway'
    BY <1>1 DEF HlHalfway
  <2>3. SpHalfway'
    BY <1>1 DEF SpHalfway
  <2> QED BY <2>1, <2>2, <2>3 DEF Halfway
<1>15. BytesRight' /\ DecimalRight'
  BY <1>1 DEF BytesRight, DecimalRight
<1>16. HlRight'
  <2>1. addend = IF pc' = "done HL + HL" THEN given'.hl ELSE r16'
    BY <1>1 DEF addend
  <2>2. /\ hl_reg' = In16(given'.hl + addend) /\ flags'.c = Carry16(given'.hl + addend)
        /\ flags'.h = Carry12(In12(given'.hl) + In12(addend))
    BY <1>1, <1>9, <1>10, <1>11, <1>12, ZenonT(40)
  <2> QED BY <2>1, <2>2, Zenon DEF HlRight
<1>17. SpRight'
  BY <1>1 DEF SpRight
<1> QED BY <1>13, <1>14, <1>15, <1>16, <1>17 DEF AluInv

\* The first M-cycle of ADD SP, e and of LD HL, SP + e.
LEMMA AddSpLowStep == ASSUME AluInv, NEW into_hl \in BOOLEAN, AddSpLow(into_hl) PROVE AluInv'
<1> DEFINE l == Lo(r16)
           e == operand
           r == add_u8_u8(l, e, 0)
<1>1. \/ pc' = "HL = SP + e" /\ into_hl
      \/ pc' = "WZ = SP + e" /\ ~into_hl
  BY Zenon DEF AddSpLow, Goes
<1>2. /\ pc = "16 bits" /\ a_reg' = a_reg /\ operand' = operand /\ r16' = r16 /\ given' = given
      /\ flags' = [FlagsOf(r) EXCEPT !.z = 0] /\ adj' = calc_adj(r.c, BitOf(e, 7))
      /\ \/ into_hl /\ hl_reg' = Word(Hi(hl_reg), r.result) /\ wz' = Word(Hi(wz), e)
         \/ ~into_hl /\ wz' = Word(Hi(wz), r.result) /\ hl_reg' = hl_reg
  BY Zenon DEF AddSpLow, Goes
<1>3. IsWord(hl_reg) /\ IsWord(r16) /\ IsWord(wz) /\ r16 = given.sp /\ e \in Bytes
  BY <1>2 DEF AluInv, AluTypeOK, Halfway, Unchanged
<1>4. Hi(hl_reg) \in Bytes /\ Hi(wz) \in Bytes /\ l \in Bytes /\ 0 \in Bit
  BY <1>3, BytesOf DEF Bit
<1>5. /\ r.result = (l + e + 0) % 256 /\ r.result \in Bytes
      /\ r.c = Flag(l + e + 0 > 255) /\ r.c \in Bit /\ r.h \in Bit /\ r.z \in Bit /\ r.n = 0
  <2> HIDE DEF l, e
  <2> QED BY <1>3, <1>4, AddGives
<1> HIDE DEF r, l, e
<1>6. flags' \in [z : Bit, n : Bit, h : Bit, c : Bit]
  <2>1. FlagsOf(r) \in [z : Bit, n : Bit, h : Bit, c : Bit]
    BY <1>4, <1>5, FlagsFit
  <2> QED BY <1>2, <1>4, <2>1
<1>7. /\ IsWord(hl_reg') /\ IsWord(wz')
      /\ into_hl => Lo(hl_reg') = r.result
      /\ ~into_hl => Lo(wz') = r.result
  <2>1. \A hi, lo \in Bytes : IsWord(Word(hi, lo)) /\ Lo(Word(hi, lo)) = lo
    BY WordOf
  <2>2. Hi(hl_reg) \in Bytes /\ Hi(wz) \in Bytes /\ e \in Bytes /\ r.result \in Bytes
    BY <1>3, <1>4, <1>5
  <2>3. CASE into_hl
    <3>1. hl_reg' = Word(Hi(hl_reg), r.result) /\ wz' = Word(Hi(wz), e)
      BY <1>2, <2>3, Zenon
    <3> QED BY <2>1, <2>2, <2>3, <3>1, Zenon
  <2>4. CASE ~into_hl
    <3>1. wz' = Word(Hi(wz), r.result) /\ hl_reg' = hl_reg
      BY <1>2, <2>4, Zenon
    <3> QED BY <1>3, <2>1, <2>2, <2>4, <3>1, Zenon
  <2> QED BY <2>3, <2>4
<1>8. r.result = (l + e) % 256 /\ adj' = ((l + e) \div 256) - (e \div 128) /\ adj' \in {-1, 0, 1}
  <2>1. l \in 0..255 /\ e \in 0..255
    BY <1>3, <1>4 DEF Bytes
  <2>2. BitOf(e, 7) = e \div 128
    BY <2>1 DEF BitOf
  <2>3. r.c = (l + e) \div 256
    BY <1>5, <2>1 DEF Flag
  <2>4. (l + e) \div 256 \in 0..1 /\ e \div 128 \in 0..1
    BY <2>1
  <2>5. \A x, y \in 0..1 : calc_adj(x, y) = x - y /\ x - y \in {-1, 0, 1}
    BY DEF calc_adj
  <2> DEFINE x == (l + e) \div 256
             y == e \div 128
  <2>6. adj' = calc_adj(x, y) /\ x \in 0..1 /\ y \in 0..1
    BY <1>2, <2>2, <2>3, <2>4
  <2> HIDE DEF x, y
  <2>7. adj' = x - y /\ adj' \in {-1, 0, 1}
    BY <2>5, <2>6
  <2> QED BY <1>5, <2>1, <2>7 DEF x, y
<1>9. AluTypeOK'
  BY <1>2, <1>6, <1>7, <1>8 DEF AluInv, AluTypeOK
<1>10. Halfway'
  <2>1. Unchanged' /\ LastWas'
    BY <1>1 DEF Unchanged, LastWas
  <2>2. HlHalfway'
    BY <1>1 DEF HlHalfway
  <2>3. SpHalfway'
    <3>1. (IF pc' = "HL = SP + e" THEN Lo(hl_reg') ELSE Lo(wz')) = (l + e) % 256
      BY <1>1, <1>7, <1>8
    <3>2. r16' = given'.sp /\ l = Lo(r16') /\ e = operand'
      BY <1>2, <1>3 DEF l, e
    <3> QED BY <1>1, <1>8, <3>1, <3>2 DEF SpHalfway
  <2> QED BY <2>1, <2>2, <2>3 DEF Halfway
<1>11. BytesRight' /\ DecimalRight'
  BY <1>1 DEF BytesRight, DecimalRight
<1>12. HlRight'
  BY <1>1 DEF HlRight
<1>13. SpRight'
  BY <1>1 DEF SpRight
<1> QED BY <1>9, <1>10, <1>11, <1>12, <1>13 DEF AluInv

\* The second M-cycle of both.
LEMMA AddSpHighStep == ASSUME AluInv, AddSpHigh PROVE AluInv'
<1> DEFINE h == Hi(r16)
           l == Lo(r16)
           e == operand
           low == (l + e) % 256
           sum == 256 * Upper + low
<1>1. /\ \/ pc = "HL = SP + e" /\ pc' = "done HL = SP + e" /\ hl_reg' = 256 * Upper + Lo(hl_reg) /\ wz' = wz
         \/ pc = "WZ = SP + e" /\ pc' = "WZ done" /\ wz' = 256 * Upper + Lo(wz) /\ hl_reg' = hl_reg
      /\ a_reg' = a_reg /\ operand' = operand /\ flags' = flags /\ r16' = r16 /\ adj' = adj /\ given' = given
  BY Zenon DEF AddSpHigh, Goes
<1>2. IsWord(r16) /\ e \in Bytes /\ IsWord(hl_reg) /\ IsWord(wz)
  BY DEF AluInv, AluTypeOK
<1>3. h \in Bytes /\ l \in Bytes /\ r16 = 256 * h + l
  BY <1>2, BytesOf
<1>4. /\ r16 = given.sp /\ adj = ((l + e) \div 256) - (e \div 128)
      /\ (IF pc = "HL = SP + e" THEN Lo(hl_reg) ELSE Lo(wz)) = low
  BY <1>1 DEF AluInv, Halfway, SpHalfway
<1>5. sum = In16(r16 + Signed(e))
  <2>1. Upper = (h + (((l + e) \div 256) - (e \div 128))) % 256
    BY <1>4 DEF Upper
  <2> HIDE DEF h, l, e
  <2>2. 256 * ((h + (((l + e) \div 256) - (e \div 128))) % 256) + ((l + e) % 256)
          = In16(256 * h + l + Signed(e))
    BY <1>2, <1>3, SumWithOffset
  <2> QED BY <1>3, <2>1, <2>2
<1>6. Upper \in Bytes /\ low \in Bytes
  <2>1. h \in 0..255 /\ l \in 0..255 /\ e \in 0..255
    BY <1>2, <1>3 DEF Bytes
  <2>2. adj \in -1..1
    BY DEF AluInv, AluTypeOK
  <2> HIDE DEF h, l, e
  <2>3. (h + adj) % 256 \in 0..255 /\ (l + e) % 256 \in 0..255
    BY <2>1, <2>2
  <2> QED BY <2>3 DEF Upper, Bytes, h
<1> HIDE DEF low
<1>7. IsWord(sum)
  BY <1>6, WordOf
<1>8. /\ \/ pc' = "done HL = SP + e" /\ hl_reg' = sum /\ wz' = wz
         \/ pc' = "WZ done" /\ wz' = sum /\ hl_reg' = hl_reg
  BY <1>1, <1>4
<1> HIDE DEF sum
<1>9. AluTypeOK'
  BY <1>1, <1>2, <1>7, <1>8 DEF AluInv, AluTypeOK
<1>10. sum = In16(r16' + Signed(operand')) /\ r16' = given'.sp
  BY <1>1, <1>4, <1>5
<1>11. Halfway'
  <2>1. Unchanged' /\ LastWas'
    BY <1>8 DEF Unchanged, LastWas
  <2>2. HlHalfway'
    BY <1>8 DEF HlHalfway
  <2>3. SpHalfway'
    BY <1>8, <1>10 DEF SpHalfway
  <2> QED BY <2>1, <2>2, <2>3 DEF Halfway
<1>12. BytesRight' /\ DecimalRight'
  BY <1>8 DEF BytesRight, DecimalRight
<1>13. HlRight'
  BY <1>8 DEF HlRight
<1>14. SpRight'
  BY <1>8, <1>10 DEF SpRight
<1> QED BY <1>9, <1>11, <1>12, <1>13, <1>14 DEF AluInv

\* The M-cycle in which SP is loaded.
LEMMA AddSpLoadStep == ASSUME AluInv, AddSpLoad PROVE AluInv'
<1>1. /\ pc = "WZ done" /\ pc' = "done SP + e" /\ r16' = wz
      /\ operand' = operand /\ UNCHANGED <<a_reg, flags, hl_reg, wz, adj, given>>
  BY DEF AddSpLoad, Goes
<1>2. AluTypeOK'
  BY <1>1 DEF AluInv, AluTypeOK
<1>3. wz = In16(given.sp + Signed(operand))
  BY <1>1 DEF AluInv, Halfway, SpHalfway
<1>4. Halfway'
  <2>1. Unchanged' /\ LastWas'
    BY <1>1 DEF Unchanged, LastWas
  <2>2. HlHalfway'
    BY <1>1 DEF HlHalfway
  <2>3. SpHalfway'
    BY <1>1 DEF SpHalfway
  <2> QED BY <2>1, <2>2, <2>3 DEF Halfway
<1>5. BytesRight' /\ DecimalRight'
  BY <1>1 DEF BytesRight, DecimalRight
<1>6. HlRight'
  BY <1>1 DEF HlRight
<1>7. SpRight'
  BY <1>1, <1>3 DEF SpRight
<1> QED BY <1>2, <1>4, <1>5, <1>6, <1>7 DEF AluInv

\* Every step keeps the invariant.
LEMMA AluStep == AluInv /\ [AluNext]_alu_vars => AluInv'
<1> SUFFICES ASSUME AluInv, [AluNext]_alu_vars PROVE AluInv'
  OBVIOUS
<1>1. CASE \E with \in BOOLEAN : Add(with)
  BY <1>1, AddStep
<1>2. CASE \E with \in BOOLEAN : Subtract(with)
  BY <1>2, SubtractStep
<1>3. CASE Compare
  BY <1>3, CompareStep
<1>4. CASE daa
  BY <1>4, DaaStep
<1>5. CASE \E self \in BOOLEAN : AddHlLow(self)
  BY <1>5, AddHlLowStep
<1>6. CASE AddHlHigh
  BY <1>6, AddHlHighStep
<1>7. CASE \E into_hl \in BOOLEAN : AddSpLow(into_hl)
  BY <1>7, AddSpLowStep
<1>8. CASE AddSpHigh
  BY <1>8, AddSpHighStep
<1>9. CASE AddSpLoad
  BY <1>9, AddSpLoadStep
<1>10. CASE UNCHANGED alu_vars
  <2>1. /\ a_reg' = a_reg /\ flags' = flags /\ operand' = operand /\ hl_reg' = hl_reg /\ r16' = r16
        /\ wz' = wz /\ adj' = adj /\ pc' = pc /\ given' = given
    BY <1>10 DEF alu_vars
  <2>2. AluTypeOK'
    BY <2>1 DEF AluInv, AluTypeOK
  <2>3. Unchanged' /\ LastWas' /\ HlHalfway' /\ SpHalfway'
    BY <2>1, ZenonT(40) DEF AluInv, Halfway, Unchanged, LastWas, HlHalfway, SpHalfway
  <2>4. BytesRight' /\ DecimalRight'
    BY <2>1 DEF AluInv, BytesRight, DecimalRight
  <2>5. HlRight' /\ SpRight'
    BY <2>1 DEF AluInv, HlRight, SpRight
  <2> QED BY <2>2, <2>3, <2>4, <2>5 DEF AluInv, Halfway
<1> QED BY <1>1, <1>2, <1>3, <1>4, <1>5, <1>6, <1>7, <1>8, <1>9, <1>10 DEF AluNext

\* Type correctness and the values between the two M-cycles of an instruction on 16 bits,
\* for all operands: the inductive invariant.
THEOREM AluInvariant == AluSpec => []AluInv
<1>1. AluInv /\ [AluNext]_alu_vars => AluInv'
  BY AluStep
<1> QED BY InitInv, <1>1, PTL DEF AluSpec

\* The loops over the bits compute sums and differences of bytes, with all their flags.
THEOREM BytesAreRight == AluSpec => []BytesRight
<1>1. AluInv => BytesRight
  BY DEF AluInv
<1> QED BY AluInvariant, <1>1, PTL

\* DAA corrects every sum and every difference of two decimal numbers.
THEOREM DecimalsAreRight == AluSpec => []DecimalRight
<1>1. AluInv => DecimalRight
  BY DEF AluInv
<1> QED BY AluInvariant, <1>1, PTL

\* Sums of 16 bits computed in two M-cycles are right, for all words and offsets.
THEOREM WordsAreRight == AluSpec => []WordsRight
<1>1. AluInv => WordsRight
  BY DEF AluInv, WordsRight
<1> QED BY AluInvariant, <1>1, PTL
===========================================================================
