------------------------------ MODULE Timer ------------------------------
(***************************************************************************)
(* The divider and the timer (timer.c).  In every M-cycle sys_tick first    *)
(* runs the CPU, which may access one register of the timer over the bus,   *)
(* and then the timer; turn says which of the two comes next.               *)
(*                                                                          *)
(* system_counter is a uint64_t of which only the bits below COUNTER are    *)
(* ever looked at, so it is kept modulo COUNTER.  The bit that TAC selects  *)
(* is given by HALF: bit number b is (system_counter \div 2^b) % 2, and     *)
(* HALF[k] is 2^b for the b that the value k of TAC selects.                *)
(***************************************************************************)
EXTENDS Interrupt

CONSTANTS
    T_M_RATIO,    \* T-cycles in an M-cycle
    BYTE,         \* number of values of a byte register
    DIV_UNIT,     \* T-cycles in a unit of DIV
    COUNTER,      \* see above
    HALF,         \* half the period of each rate of the timer, in T-cycles
    BOOT_DIV,     \* DIV as the boot ROM hands it over
    BOOT_COUNTER  \* the counter as the boot ROM hands it over

VARIABLES
    turn,              \* who takes the next step of the M-cycle
    system_counter,
    div_reg, tima_reg, tma_reg,
    tac_reg,           \* bits 2 (enable) and 1..0 (rate) of TAC; the others read as 1
    tac_enable,        \* cache of bit 2 of TAC
    tac_rate,          \* cache of bits 1..0: the code keeps the index of the bit
    prev_timer_signal, timer_overflowed, tma_overflow_save,
    owed,              \* history: wraps of TIMA with no interrupt requested yet
    reloaded           \* history: has the latest timer_tick reloaded TIMA?

registers == <<tac_reg, tac_enable, tac_rate>>
vars == <<if_reg, ie_reg, turn, system_counter, div_reg, tima_reg, tma_reg,
          registers, prev_timer_signal, timer_overflowed, tma_overflow_save, owed, reloaded>>

Byte == 0..(BYTE - 1)
Rates == 0..3
Counters == 0..(COUNTER - 1)

ASSUME TimerAssumption ==
    /\ T_M_RATIO \in Nat \ {0}
    /\ BYTE \in Nat \ {0, 1}
    /\ DIV_UNIT \in Nat \ {0}
    /\ COUNTER \in Nat \ {0}
    /\ HALF \in [Rates -> Nat \ {0}]
    /\ BOOT_DIV \in Byte
    /\ BOOT_COUNTER \in Counters

TacEnable(tac) == tac \div 4
TacRate(tac) == tac % 4

\* The bit of the counter the timer watches, ANDed with the enable bit.
TimerSignal(counter, enable, rate) ==
    IF enable = 1 THEN (counter \div HALF[rate]) % 2 ELSE 0

DivOf(counter) == (counter \div DIV_UNIT) % BYTE

timer_init ==
    /\ div_reg = BOOT_DIV
    /\ tima_reg = 0 /\ tma_reg = 0 /\ tac_reg = 0
    /\ tac_enable = 0 /\ tac_rate = 0
    /\ system_counter = BOOT_COUNTER
    /\ prev_timer_signal = 0
    /\ timer_overflowed = FALSE
    /\ tma_overflow_save = 0

\* check_signal, run when TIMA and the overflow flag have the values tima and
\* overflowed, and after the counter and the caches of TAC got their new values.
check_signal(tima, overflowed, unanswered) ==
    LET next_timer_signal == TimerSignal(system_counter', tac_enable', tac_rate')
        falls == next_timer_signal = 0 /\ prev_timer_signal = 1
        wraps == falls /\ (tima + 1) % BYTE = 0
    IN  /\ tima_reg' = IF falls THEN (tima + 1) % BYTE ELSE tima
        /\ timer_overflowed' = (wraps \/ overflowed)
        /\ tma_overflow_save' = IF wraps THEN tma_reg ELSE tma_overflow_save
        /\ prev_timer_signal' = next_timer_signal
        /\ owed' = IF wraps THEN unanswered + 1 ELSE unanswered

timer_tick ==
    /\ turn = "timer" /\ turn' = "cpu"
    /\ system_counter' = (system_counter + T_M_RATIO) % COUNTER
    /\ div_reg' = DivOf(system_counter')
    /\ UNCHANGED <<registers, tma_reg, ie_reg>>
    /\ reloaded' = timer_overflowed
    /\ IF timer_overflowed
       THEN /\ request_interrupt(INT_TIMER)
            /\ check_signal(tma_overflow_save, FALSE, owed - 1)
       ELSE /\ UNCHANGED if_reg
            /\ check_signal(tima_reg, FALSE, owed)

\* The CPU's part of the M-cycle: at most one access to the bus.
CpuTurn == turn = "cpu" /\ turn' = "timer"

\* Mutant: writing DIV forgets a reload that is due.
timer_div_write_dropsReload ==
    /\ CpuTurn
    /\ system_counter' = 0
    /\ UNCHANGED <<registers, div_reg, tma_reg, if_reg, ie_reg, reloaded>>
    /\ check_signal(tima_reg, FALSE, owed)

timer_div_write ==
    /\ CpuTurn
    /\ system_counter' = 0
    /\ UNCHANGED <<registers, div_reg, tma_reg, if_reg, ie_reg, reloaded>>
    /\ check_signal(tima_reg, timer_overflowed, owed)

timer_tima_write(val) ==
    /\ CpuTurn
    /\ tima_reg' = val
    /\ UNCHANGED <<if_reg, ie_reg, system_counter, div_reg, tma_reg, registers,
                   prev_timer_signal, timer_overflowed, tma_overflow_save, owed, reloaded>>

timer_tma_write(val) ==
    /\ CpuTurn
    /\ tma_reg' = val
    /\ UNCHANGED <<if_reg, ie_reg, system_counter, div_reg, tima_reg, registers,
                   prev_timer_signal, timer_overflowed, tma_overflow_save, owed, reloaded>>

\* Mutant: only the enable bit is cached anew.
update_tac_caches_staleRate == tac_enable' = TacEnable(tac_reg') /\ UNCHANGED tac_rate

\* update_tac_caches, after TAC got its new value.
update_tac_caches ==
    tac_enable' = TacEnable(tac_reg') /\ tac_rate' = TacRate(tac_reg')

\* Mutant: the signal is not checked, and an edge is seen later or never.
timer_tac_write_noCheck(val) ==
    /\ CpuTurn
    /\ tac_reg' = val
    /\ update_tac_caches
    /\ UNCHANGED <<if_reg, ie_reg, system_counter, div_reg, tima_reg, tma_reg,
                   prev_timer_signal, timer_overflowed, tma_overflow_save, owed, reloaded>>

timer_tac_write(val) ==
    /\ CpuTurn
    /\ tac_reg' = val
    /\ update_tac_caches
    /\ UNCHANGED <<system_counter, div_reg, tma_reg, if_reg, ie_reg, reloaded>>
    /\ check_signal(tima_reg, timer_overflowed, owed)

\* The CPU takes the timer interrupt (or clears its bit with a write to IF), sets the
\* bit with such a write, or does something the timer does not see.
OtherCpuStep ==
    /\ CpuTurn
    /\ if_reg' \in {if_reg, IfAfterSend(if_reg, {INT_TIMER}),
                    int_if_write(if_reg, if_reg \cup {INT_TIMER})}
    /\ UNCHANGED <<ie_reg, system_counter, div_reg, tima_reg, tma_reg, registers,
                   prev_timer_signal, timer_overflowed, tma_overflow_save, owed, reloaded>>

Init == int_init /\ timer_init /\ turn = "cpu" /\ owed = 0 /\ reloaded = FALSE

CpuStep ==
    \/ timer_div_write
    \/ \E val \in Byte : timer_tima_write(val) \/ timer_tma_write(val)
    \/ \E val \in 0..7 : timer_tac_write(val)
    \/ OtherCpuStep

Next == CpuStep \/ timer_tick

Spec == Init /\ [][Next]_vars

\* sys_tick always runs to its end, and is called again and again.
FairSpec == Spec /\ WF_vars(Next)

---------------------------------------------------------------------------
TypeOK ==
    /\ if_reg \subseteq Bits /\ ie_reg \subseteq Bits
    /\ turn \in {"cpu", "timer"}
    /\ system_counter \in Counters
    /\ div_reg \in Byte /\ tima_reg \in Byte /\ tma_reg \in Byte
    /\ tac_reg \in 0..7 /\ tac_enable \in {0, 1} /\ tac_rate \in Rates
    /\ prev_timer_signal \in {0, 1}
    /\ timer_overflowed \in BOOLEAN
    /\ tma_overflow_save \in Byte
    /\ owed \in Nat /\ reloaded \in BOOLEAN

\* The latch of the edge detector is never stale: between any two steps it is the
\* watched bit as TAC and the counter are now, whatever mix of counting, DIV
\* writes and TAC writes led there (check_signal is called on every path, and the
\* caches of TAC are refreshed before it).
SignalTracksCounter ==
    prev_timer_signal = TimerSignal(system_counter, TacEnable(tac_reg), TacRate(tac_reg))

\* Every wrap of TIMA gets exactly one timer interrupt: the number of wraps that
\* were not answered yet is what the one-bit flag timer_overflowed can hold.  It
\* would break if a second wrap could come while the flag is still set.
OwedIsPending == owed = IF timer_overflowed THEN 1 ELSE 0

\* A wrap is answered: the interrupt is requested once timer_tick has run.
OverflowRaisesInterrupt == timer_overflowed ~> INT_TIMER \in if_reg

\* What makes the two invariants above inductive: the caches of TAC are exact,
\* and a wrap leaves the latch at 0, so that the one access the CPU has before the
\* next timer_tick clears the flag cannot cause a second wrap.
TimerInv ==
    /\ TypeOK
    /\ tac_enable = TacEnable(tac_reg) /\ tac_rate = TacRate(tac_reg)
    /\ SignalTracksCounter
    /\ OwedIsPending
    /\ timer_overflowed /\ turn = "cpu" => prev_timer_signal = 0

\* The timer's promise, with the latch and the caches hidden.  Writes to TIMA and TMA in
\* the course of a reload are left open in it (TimerSpec says why).
Promise == INSTANCE TimerSpec WITH
    counter <- system_counter,
    div <- div_reg,
    tima <- tima_reg,
    tma <- tma_reg,
    enable <- TacEnable(tac_reg),
    rate <- TacRate(tac_reg),
    reload <- IF timer_overflowed THEN tma_overflow_save ELSE BYTE,
    irq <- INT_TIMER \in if_reg

ImplementsPromise == Promise!Spec
==========================================================================
