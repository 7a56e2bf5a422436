---------------------------- MODULE TimerSpec ----------------------------
(***************************************************************************)
(* What the divider and the timer promise, with no edge detector in sight.  *)
(* A counter runs, of which DIV shows some bits.  TIMA counts the falls of  *)
(* one bit of it, ANDed with the enable bit, whether the fall comes from    *)
(* counting, from a write that clears the counter or from a write to TAC; a *)
(* wrap of TIMA is answered once, by reloading it and by one timer          *)
(* interrupt.  Timer implements this with a latched signal                  *)
(* (prev_timer_signal) and cached fields of TAC.                            *)
(*                                                                          *)
(* What becomes of a reload when TIMA or TMA is written in its course is    *)
(* not promised: test/mooneye.txt:30-31 records that the program fails the   *)
(* tests of these writes (tima_write_reloading, tma_write_reloading).       *)
(* How soon a wrap is answered that a write to DIV or TAC has caused is      *)
(* the program's: by the Tick of the same M-cycle.                          *)
(***************************************************************************)
EXTENDS Integers

CONSTANTS
    T_M_RATIO,   \* T-cycles in an M-cycle
    BYTE,        \* number of values of a byte
    DIV_UNIT,    \* T-cycles in a unit of DIV
    COUNTER,     \* modulus that the counter is observed with
    HALF         \* for each of the four rates, half its period in T-cycles

VARIABLES
    counter,     \* T-cycles since the counter was last cleared
    div, tima, tma, \* the registers
    enable, rate, \* the two fields of TAC
    reload,      \* what TIMA is about to be reloaded with, or NoReload
    reloaded,    \* has the latest Tick reloaded TIMA?
    irq          \* is the timer interrupt requested?

specvars == <<counter, div, tima, tma, enable, rate, reload, reloaded, irq>>

NoReload == BYTE

\* A reload is in its course from the wrap to the Tick after the one that brings it.
Reloading == reload # NoReload \/ reloaded

\* The bit the timer watches, as a function of the counter and of TAC.
Signal(c, en, r) == IF en = 1 THEN (c \div HALF[r]) % 2 ELSE 0

\* The watched bit goes from one value to another: TIMA, so far t, counts a fall,
\* and if that wraps it the reload with today's TMA becomes due.
Count(from, to, t, due) ==
    LET falls == from = 1 /\ to = 0
    IN  /\ tima' = IF falls THEN (t + 1) % BYTE ELSE t
        /\ reload' = IF falls /\ t = BYTE - 1 THEN tma ELSE due

Tick ==
    /\ counter' = (counter + T_M_RATIO) % COUNTER
    /\ div' = (counter' \div DIV_UNIT) % BYTE
    /\ Count(Signal(counter, enable, rate), Signal(counter', enable, rate),
             IF reload # NoReload THEN reload ELSE tima, NoReload)
    /\ reloaded' = (reload # NoReload)
    /\ irq' = (irq \/ reload # NoReload)
    /\ UNCHANGED <<tma, enable, rate>>

ClearCounter ==
    /\ counter' = 0
    /\ Count(Signal(counter, enable, rate), 0, tima, reload)
    /\ UNCHANGED <<div, tma, enable, rate, reloaded, irq>>

WriteTac(en, r) ==
    /\ enable' = en
    /\ rate' = r
    /\ Count(Signal(counter, enable, rate), Signal(counter, en, r), tima, reload)
    /\ UNCHANGED <<counter, div, tma, reloaded, irq>>

\* Outside a reload, writes to TIMA and TMA are plain.
WriteTima(v) ==
    /\ ~Reloading
    /\ tima' = v
    /\ UNCHANGED <<counter, div, tma, enable, rate, reload, reloaded, irq>>

WriteTma(v) ==
    /\ ~Reloading
    /\ tma' = v
    /\ UNCHANGED <<counter, div, tima, enable, rate, reload, reloaded, irq>>

\* In the course of one they may be taken or not, as may what is still to be reloaded; TMA
\* may go on to TIMA.  No other register is disturbed, and no reload comes from nothing.
WriteTimaReloading(v) ==
    /\ Reloading
    /\ tima' \in {tima, v}
    /\ reload' \in {reload, NoReload}
    /\ UNCHANGED <<counter, div, tma, enable, rate, reloaded, irq>>

WriteTmaReloading(v) ==
    /\ Reloading
    /\ tma' = v
    /\ tima' \in {tima, v}
    /\ reload' \in IF reload = NoReload THEN {NoReload} ELSE {reload, v}
    /\ UNCHANGED <<counter, div, enable, rate, reloaded, irq>>

\* The interrupt is taken, or the program writes IF.
WriteIrq ==
    /\ irq' \in BOOLEAN
    /\ UNCHANGED <<counter, div, tima, tma, enable, rate, reload, reloaded>>

\* DIV need not agree with the counter before the first Tick.
Init ==
    /\ counter \in 0..(COUNTER - 1) /\ div \in 0..(BYTE - 1)
    /\ tima = 0 /\ tma = 0
    /\ enable = 0 /\ rate = 0
    /\ reload = NoReload /\ reloaded = FALSE
    /\ irq = FALSE

Next ==
    \/ Tick
    \/ ClearCounter
    \/ \E en \in {0, 1}, r \in 0..3 : WriteTac(en, r)
    \/ \E v \in 0..(BYTE - 1) :
          \/ WriteTima(v) \/ WriteTma(v)
          \/ WriteTimaReloading(v) \/ WriteTmaReloading(v)
    \/ WriteIrq

Spec == Init /\ [][Next]_specvars
==========================================================================
