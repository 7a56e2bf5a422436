------------------------------- MODULE Cpu -------------------------------
(***************************************************************************)
(* The control of the SM83 core (cpu.c): one M-cycle per cpu_tick, the      *)
(* overlap of the last M-cycle of an instruction with the fetch of the next *)
(* one, the 0xCB prefix, HALT, the delayed effect of EI and DI, and the     *)
(* entry to an interrupt handler.                                           *)
(*                                                                          *)
(* Data are left open: a byte read from memory, the flag that decides a     *)
(* branch, a jump target, a value loaded into SP and the register a write   *)
(* hits may be anything.  Addresses are kept modulo ADDRESSES (2^16 in the   *)
(* code, whose registers are uint16_t).                                      *)
(***************************************************************************)
EXTENDS Interrupt, CpuDecode, FiniteSets

CONSTANTS
    ADDRESSES,  \* number of addresses
    OPCODES,    \* bytes that memory may return to an opcode fetch
    Requests,   \* interrupt sources that devices request
    IfValues,   \* bytes that a write may put on the bus for IF ...
    IeValues    \* ... and for IE, as sets of bits

VARIABLES
    pc_reg, sp_reg,
    ime_flag,
    set_ime,       \* value IME takes at the start of the next M-cycle, or -1
    instr_reg, instr_func, instr_cycle,
    cb_prefixed, cond, halted,
    jump_vec,      \* the source receive_int returned
    accesses,      \* history: accesses to the bus in the latest M-cycle
    op,            \* history: the instruction in progress, or squashed
    masked         \* history: why software expects no interrupt to be taken

instruction == <<instr_reg, instr_func, instr_cycle, cb_prefixed, cond>>
vars == <<if_reg, ie_reg, pc_reg, sp_reg, ime_flag, set_ime, instruction, halted,
          jump_vec, accesses, op, masked>>

Addresses == 0..(ADDRESSES - 1)

ASSUME CpuAssumption ==
    /\ ADDRESSES \in Nat \ {0}
    /\ OPCODES \subseteq Opcodes /\ OPCODES # {}
    /\ Requests \subseteq Sources
    /\ IfValues \subseteq SUBSET Bits
    /\ IeValues \subseteq SUBSET Bits

\* STOP never ends; its M-cycles are counted up to this bound.  No instruction
\* that ends takes more than 6.
MaxCycles == 8

\* uint16_t arithmetic on an address.
Plus(address, n) == (address + n) % ADDRESSES

cpu_init ==
    /\ pc_reg = 256 % ADDRESSES
    /\ sp_reg = Plus(0, -2)
    /\ ime_flag = 0 /\ set_ime = -1
    /\ instr_reg = 0 /\ instr_func = "nop" /\ instr_cycle = 0
    /\ cb_prefixed = FALSE /\ cond = FALSE /\ halted = FALSE
    /\ jump_vec = NoSource

Init ==
    /\ int_init
    /\ cpu_init
    /\ accesses = 0
    /\ op = [at |-> Plus(pc_reg, -1), sp |-> sp_reg, prefixed |-> FALSE, cycles |-> 0]
    /\ masked = "di"

---------------------------------------------------------------------------
\* One M-cycle of an instruction function does the things in acts.

BusActs == {"imm", "read", "write", "pop", "push", "poke"}

\* What the cycle does, given the condition checked earlier.
Resolve(acts) == IF "if" \in acts /\ ~cond THEN End ELSE acts \ {"if"}

LoadsSp(acts) == "new_sp" \in acts \/ ("set_r16" \in acts /\ get_bits(instr_reg, 5, 4) = 3)

PcAfter(acts) ==
    CASE "imm" \in acts -> {Plus(pc_reg, 1)}
      [] "dec_pc" \in acts -> {Plus(pc_reg, -1)}
      [] "jump" \in acts -> Addresses
      [] "vector" \in acts ->
            {IF jump_vec = NoSource THEN 0 ELSE jump_vecs[jump_vec] % ADDRESSES}
      [] OTHER -> {pc_reg}

SpAfter(acts) ==
    CASE LoadsSp(acts) -> Addresses
      [] "pop" \in acts -> {Plus(sp_reg, 1)}
      [] acts \cap {"dec_sp", "push"} # {} -> {Plus(sp_reg, -1)}
      [] OTHER -> {sp_reg}

\* IF and IE after the memory access of the cycle.  A write may hit either one:
\* all 16-bit addresses can be written, through SP too.
RegistersAfter(acts) ==
    {[flags |-> if_reg, enabled |-> ie_reg]} \cup
    IF acts \cap {"write", "push", "poke"} = {}
    THEN {}
    ELSE {[flags |-> int_if_write(if_reg, val), enabled |-> ie_reg] : val \in IfValues} \cup
         {[flags |-> if_reg, enabled |-> int_ie_write(val)] : val \in IeValues}

\* fetch_and_decode, with PC at address; it leaves PC alone when the CPU has just
\* halted.  opcode is what memory returns.
fetch_and_decode(opcode, address, stopped, prefixed) ==
    /\ instr_reg' = opcode
    /\ instr_func' = Decode(opcode, prefixed)
    /\ pc_reg' = IF stopped THEN address ELSE Plus(address, 1)
    /\ cb_prefixed' = (~prefixed /\ opcode = 203)

\* The fetched instruction is dropped: the next M-cycle enters a handler.
Dispatch(address, stopped) ==
    /\ instr_func' = "call_int"
    /\ pc_reg' = IF stopped THEN address ELSE Plus(address, 1)
    /\ cb_prefixed' = FALSE
    /\ instr_reg' \in OPCODES

\* Mutants: one of the tests is dropped.
TakesInterrupt_inPrefix(func, prefixed, ime) ==
    func # "di" /\ ime = 1 /\ pending_interrupt(if_reg', ie_reg')
TakesInterrupt_afterDi(func, prefixed, ime) ==
    ~prefixed /\ ime = 1 /\ pending_interrupt(if_reg', ie_reg')

\* Does the completion of func, or of the 0xCB prefix, take an interrupt?
TakesInterrupt(func, prefixed, ime) ==
    ~prefixed /\ func # "di" /\ ime = 1 /\ pending_interrupt(if_reg', ie_reg')

\* The end of an instruction: fetch the next one, or take an interrupt.  func is
\* the function that completed, prefixed says that it was the 0xCB prefix.
Complete(acts, func, prefixed, ime, address, sp) ==
    LET stopped == "halt" \in acts
        interrupted == TakesInterrupt(func, prefixed, ime)
    IN  /\ instr_cycle' = 0
        /\ IF interrupted
           THEN Dispatch(address, stopped)
           ELSE \E opcode \in OPCODES : fetch_and_decode(opcode, address, stopped, prefixed)
        /\ halted' = (stopped /\ ~interrupted)
        /\ ime_flag' = IF interrupted THEN 0 ELSE ime
        /\ op' = IF prefixed
                 THEN [op EXCEPT !.prefixed = TRUE, !.cycles = @ + 1]
                 ELSE [at |-> IF stopped THEN op.at ELSE address, sp |-> sp,
                       prefixed |-> FALSE, cycles |-> 0]
        /\ masked' = CASE interrupted /\ "ei" \in acts -> "ei"
                       [] interrupted /\ "ei" \notin acts -> "dispatch"
                       [] ~interrupted /\ "di" \in acts -> "di"
                       [] ~interrupted /\ "ei" \in acts -> "no"
                       [] OTHER -> masked

\* Not the end: go on to the next M-cycle of the same function.
Proceed(acts, func, prefixed, ime, address) ==
    /\ instr_func' = func
    /\ instr_cycle' = IF instr_cycle + 1 < Len(Cycles[func]) THEN instr_cycle + 1
                                                              ELSE instr_cycle
    /\ ime_flag' = IF "ime" \in acts THEN 1 ELSE ime
    /\ pc_reg' = address
    /\ cb_prefixed' = prefixed
    /\ halted' = FALSE
    /\ op' = [op EXCEPT !.cycles = IF @ < MaxCycles THEN @ + 1 ELSE @]
    /\ masked' = IF "ime" \in acts THEN "no" ELSE masked
    /\ UNCHANGED instr_reg

\* An M-cycle of the function func.
Execute(func, prefixed, ime) ==
    LET acts == Resolve(Cycles[func][instr_cycle + 1])
    IN  \E address \in PcAfter(acts), sp \in SpAfter(acts), regs \in RegistersAfter(acts) :
            /\ sp_reg' = sp
            /\ ie_reg' = regs.enabled
            /\ IF "receive" \in acts
               THEN /\ jump_vec' = SourceToSend(regs.flags, regs.enabled)
                    /\ if_reg' = IfAfterSend(regs.flags, regs.enabled)
               ELSE /\ if_reg' = regs.flags
                    /\ UNCHANGED jump_vec
            /\ cond' \in IF "check" \in acts THEN BOOLEAN ELSE {cond}
            /\ set_ime' = CASE "di" \in acts -> 0
                            [] "ei" \in acts -> 1
                            [] OTHER -> -1
            /\ accesses' = Cardinality(acts \cap BusActs) + Cardinality(acts \cap End)
            /\ IF "end" \in acts
               THEN Complete(acts, func, prefixed, ime, address, sp)
               ELSE Proceed(acts, func, prefixed, ime, address)

ImeNow == IF set_ime # -1 THEN set_ime ELSE ime_flag

Sleep ==
    /\ halted /\ ~pending_interrupt(if_reg, ie_reg)
    /\ accesses' = 0
    /\ UNCHANGED <<if_reg, ie_reg, pc_reg, sp_reg, ime_flag, set_ime, instruction, halted,
                   jump_vec, op, masked>>

\* Mutant: with IME clear HALT never ends.
Wake_withIme ==
    /\ halted /\ pending_interrupt(if_reg, ie_reg)
    /\ ImeNow = 1
    /\ Execute("nop", FALSE, ImeNow)

\* Leaving HALT takes an M-cycle that runs nop, and so fetches anew.
Wake ==
    /\ halted /\ pending_interrupt(if_reg, ie_reg)
    /\ Execute("nop", FALSE, ImeNow)

Run ==
    /\ ~halted
    /\ Execute(instr_func, cb_prefixed /\ instr_func = "nop", ImeNow)

cpu_tick == Sleep \/ Wake \/ Run

\* A device requests an interrupt between two M-cycles of the CPU.
DeviceRequest ==
    /\ \E i \in Requests : request_interrupt(i)
    /\ UNCHANGED <<ie_reg, pc_reg, sp_reg, ime_flag, set_ime, instruction, halted,
                   jump_vec, accesses, op, masked>>

Next == cpu_tick \/ DeviceRequest

Spec == Init /\ [][Next]_vars

\* sys_tick calls cpu_tick once in every M-cycle.
FairSpec == Spec /\ WF_vars(cpu_tick)

---------------------------------------------------------------------------
Reference == INSTANCE CpuReference

TypeOK ==
    /\ if_reg \subseteq Bits /\ ie_reg \subseteq Bits
    /\ pc_reg \in Addresses /\ sp_reg \in Addresses
    /\ ime_flag \in {0, 1} /\ set_ime \in {-1, 0, 1}
    /\ instr_reg \in Opcodes
    /\ instr_func \in DOMAIN Cycles
    /\ instr_cycle \in 0..(Len(Cycles[instr_func]) - 1)
    /\ cb_prefixed \in BOOLEAN /\ cond \in BOOLEAN /\ halted \in BOOLEAN
    /\ jump_vec \in Sources \cup {NoSource}
    /\ accesses \in Nat
    /\ op \in [at : Addresses, sp : Addresses, prefixed : BOOLEAN, cycles : 0..MaxCycles]
    /\ masked \in {"no", "di", "dispatch", "ei"}

\* cpu.c:134-135: the bus is used at most once in an M-cycle, the fetch of the next
\* instruction in the last M-cycle of the current one included.
OneBusAccess == accesses <= 1

\* When a handler is entered, the address pushed is that of the first byte of the
\* instruction that was fetched and dropped: never the second byte of a prefixed
\* one, and the HALT itself when the request came in HALT's own M-cycle.
PreciseReturn ==
    instr_func = "call_int" /\ instr_cycle \in 1..3 => pc_reg = op.at

\* What makes it inductive: PC is one ahead of the instruction when a handler is about
\* to be entered, and in HALT, which does not move it; a HALT that lasts is between
\* two instructions.
ReturnAhead ==
    (instr_func = "call_int" /\ instr_cycle = 0) \/ (instr_func = "halt" /\ ~halted)
        => pc_reg = Plus(op.at, 1)

HaltedBetween == halted => instr_cycle = 0

\* The prefix is the first M-cycle of its instruction.
PrefixIsFirst == cb_prefixed /\ instr_func = "nop" /\ ~halted => op.cycles = 0

\* Whatever interrupts wait for, software that counts on none has IME clear, or about to
\* be cleared; and what made the CPU enter a handler still waits before the push.
MaskedByIme == masked \in {"di", "dispatch"} => ImeNow = 0

StillPending ==
    instr_func = "call_int" /\ instr_cycle \in 0..2 => pending_interrupt(if_reg, ie_reg)

\* The control of the CPU keeps its ranges, the return address is right, and a handler
\* is entered when interrupts are enabled and one waits.
CpuInv ==
    /\ TypeOK
    /\ PreciseReturn /\ ReturnAhead /\ HaltedBetween /\ PrefixIsFirst
    /\ MaskedByIme /\ StillPending

\* A step in which an instruction, or the entry to a handler, ends.
Ends == op'.cycles = 0 /\ op' # op

Taken == instr_reg \in Reference!Conditional => cond

ExpectedCycles ==
    CASE instr_func = "call_int" -> 5
      [] instr_func # "call_int" /\ op.prefixed -> Reference!MCycles(instr_reg, TRUE)
      [] OTHER -> Reference!MCycles(instr_reg, FALSE)
                    + IF Taken THEN Reference!Extra(instr_reg) ELSE 0

\* README.md:5, "M-cycle"-accurate: an instruction takes as many M-cycles as its
\* documentation says, overlapped fetch, prefix and branch taken or not included;
\* the entry to a handler takes five.
TimingMatches == [][Ends /\ ~halted => op.cycles + 1 = ExpectedCycles]_vars

\* An instruction that does not branch is followed by the one right after its last
\* byte, and SP moves by what the instruction pushes or pops.
Footprint ==
    LET straight == op.prefixed \/ ~(Reference!Transfers(instr_reg) /\ Taken)
        setsSp == ~op.prefixed /\ instr_reg \in Reference!SetsSp
        moves == IF ~op.prefixed /\ Taken THEN Reference!SpChange(instr_reg) ELSE 0
    IN  IF instr_func = "call_int"
        THEN op'.sp = Plus(op.sp, -2)
        ELSE /\ straight => op'.at = Plus(op.at, Reference!Length(instr_reg, op.prefixed))
             /\ ~setsSp => op'.sp = Plus(op.sp, moves)

FootprintMatches == [][Ends /\ ~halted => Footprint]_vars

Dispatches ==
    /\ instr_func' = "call_int" /\ instr_cycle' = 0
    /\ instr_func # "call_int" \/ instr_cycle # 0

\* No interrupt is taken while software counts on none: from the M-cycle in which DI
\* completes until an EI has completed and one more instruction with it, or RETI has run,
\* also when the request races the DI or EI and DI follow each other; and after one was
\* taken (cpu.c:151-152 clears IME) before the handler enables interrupts.  The code keeps
\* the second half except after an EI that found IME set: set_ime, still pending, sets IME
\* again in the entry to the handler, which masked = "ei" excepts.
NotWhileMasked ==
    [][Dispatches => masked \notin {"di", "dispatch"} /\ (instr_func = "di" => halted)]_vars

\* Having decided to take an interrupt, the CPU finds none to take only if the push
\* of the high byte of PC overwrote IE or IF in that very M-cycle (cpu.c:1821-1825), or if
\* the program has set a bit of IE that stands for no source: pending_interrupt looks at
\* all eight, and those of IF always read 1.
GlitchOnlyByPush ==
    [][instr_func = "call_int" /\ instr_cycle = 2 /\ instr_cycle' = 3 /\ jump_vec' = NoSource
          => if_reg' # if_reg \/ ie_reg' # ie_reg \/ ~(ie_reg \subseteq Sources)]_vars

\* A pending interrupt ends HALT, whatever IME is; and with interrupts enabled it is
\* taken, unless the program disables interrupts or withdraws the request first.
PendingIsTaken ==
    /\ halted /\ pending_interrupt(if_reg, ie_reg) ~> ~halted
    /\ ime_flag = 1 /\ pending_interrupt(if_reg, ie_reg)
           ~> \/ instr_func = "call_int"
              \/ ime_flag = 0
              \/ ~pending_interrupt(if_reg, ie_reg)
==========================================================================
